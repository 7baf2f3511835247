------------------------------- MODULE SetupPlan -------------------------------
(***************************************************************************)
(* Resolve-SetupPlan of src/windows/setup.ps1, the planner of the older    *)
(* PowerShell engine, beside planner.Build on the same files and requests: *)
(* docs/Testing.md:17 promises that the two agree.  Build walks with an    *)
(* explicit stack in Planner.tla; here Add-Package calls itself.  Both     *)
(* begin with the same selection: Get-ProfileMetadata and the choice of    *)
(* packs are resolveProfile's and Build's line by line (setup.ps1:185-243),*)
(* and Planner's Roots stands for either.  The older catalogs this engine  *)
(* reads are taken to say what those compiled from them say                *)
(* (scripts/convert-catalog-v2-to-v3.ps1).                                 *)
(***************************************************************************)
EXTENDS Planning

\* What calls of Add-Package leave behind: $resolved, or an exception.
Outcome == [cycle: BOOLEAN, resolved: Seq(Packages)]
Thrown == [cycle |-> TRUE, resolved |-> <<>>]

\* The last line of Add-Package.
AddOnce(key, outcome) ==
  IF outcome.cycle \/ Contains(outcome.resolved, key) THEN outcome
  ELSE [outcome EXCEPT !.resolved = Append(@, key)]

\* Add-Package for each of some keys in turn, called by some others ($Stack).
PackageCall == [keys: Seq(Packages), callers: SUBSET Packages, before: Outcome]
Call(keys, callers, before) == [keys |-> keys, callers |-> callers, before |-> before]

\* What such calls leave behind.
AddPackages[call \in PackageCall] ==
  LET key == Head(call.keys)
      added == IF key \in call.callers THEN Thrown
               ELSE AddOnce(key, AddPackages[Call(catalog.dependencies[key],
                                                  call.callers \cup {key}, call.before)])
  IN  IF call.keys = <<>> \/ call.before.cycle THEN call.before
      ELSE AddPackages[Call(Tail(call.keys), call.callers, added)]

ResolveSetupPlan ==
  LET nothing == [cycle |-> FALSE, resolved |-> <<>>]
      selected == Roots(input.profile, SelectedPacks(input))
      outcome == AddPackages[Call(selected, {}, nothing)]
  IN  [error |-> IF outcome.cycle THEN "cycle"
                 ELSE IF \E p, q \in ToSet(outcome.resolved) : q \in catalog.conflicts[p]
                 THEN "conflict"
                 ELSE "none",
       packages |-> outcome.resolved]

\* From one selection the two engines resolve the same packages in the same order,
\* and fail on the same cycles and conflicts, whatever else planner.Build goes on to
\* refuse (docs/Testing.md:17).
EnginesAgree ==
  phase = "built" /\ result.error \notin {"unknown-profile", "unknown-pack"} =>
    IF result.error \in {"cycle", "conflict"} THEN ResolveSetupPlan.error = result.error
    ELSE ResolveSetupPlan.error = "none" /\ ResolveSetupPlan.packages = order
=============================================================================
