--------------------------- MODULE MCWindowsSession ---------------------------
(* As planner.Build orders a Windows plan: two packages, each detected and *)
(* then installed, and a configuration, which is left out on Windows.      *)
EXTENDS WindowsSession

MCOperation(kind, privilege, target, dependsOn) ==
  [kind |-> kind, privilege |-> privilege, target |-> target, dependsOn |-> dependsOn]

MCPlan == <<
  MCOperation("detect", "elevated", "git", {}),
  MCOperation("install", "elevated", "git", {1}),
  MCOperation("detect", "elevated", "code", {}),
  MCOperation("install", "elevated", "code", {3}),
  MCOperation("configure", "user", "git-config", {2, 4}) >>
=============================================================================
