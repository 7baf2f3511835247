------------------------------ MODULE MCSession ------------------------------
(* A plan with the shape planner.Build gives one: a machine package, a user  *)
(* package that depends on it, then the configuration operations, of which   *)
(* the last is one the handler leaves to the user.  Prerequisites are left   *)
(* out: the executor treats them as it does an installation that nothing     *)
(* detects, and the configurations are such operations.                      *)
EXTENDS Session

MCOperation(kind, privilege, target, dependsOn) ==
  [kind |-> kind, privilege |-> privilege, target |-> target, dependsOn |-> dependsOn]

MCPlan == <<
  MCOperation("detect", "elevated", "base", {}),
  MCOperation("install", "elevated", "base", {1}),
  MCOperation("detect", "user", "app", {2}),
  MCOperation("install", "user", "app", {2, 3}),
  MCOperation("configure", "user", "git", {2, 4}),
  MCOperation("configure", "user", "github", {2, 4}) >>

\* A dry run with --no-config skips configurations for good, ahead of a real run.
MCRealAndDry == {Real, [dry |-> TRUE, noConfig |-> TRUE]}
MCReal == {Real}

MCAllFaults == FaultKinds
MCUnsaved == {"crash_unsaved"}
MCCrash == {"crash"}
MCOperationFails == {"operation"}
=============================================================================
