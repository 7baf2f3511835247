------------------------------- MODULE Planning -------------------------------
(***************************************************************************)
(* catalog.Load and planner.Build together, as every command runs them     *)
(* (application.Load, cmd/cowebs-setup/main.go:78-85): the files are       *)
(* loaded, and when they are accepted a plan is built from them for a      *)
(* target and validated.  Catalog.tla says what Load accepts, Planner.tla  *)
(* what Build does; here the assumption Planner makes on its catalogs is   *)
(* something Load has to ensure.                                           *)
(***************************************************************************)
EXTENDS Planner, PlanContract

CONSTANTS
  Documents,   \* the pairs of files considered, see Catalog.tla
  Targets,     \* platform and architecture
  Refused      \* the catalog of a run whose files were not accepted

VARIABLES
  document, target,
  loaded      \* "no", "accepted" or "rejected"

C == INSTANCE Catalog

ASSUME DocumentsAssumption == \A doc \in Documents : C!IsDocument(doc)
ASSUME TargetsAssumption == Targets \subseteq [platform: STRING, architecture: STRING]

files == <<document, target, loaded>>

LoadInit ==
  /\ document \in Documents /\ target \in Targets /\ loaded = "no"
  /\ catalog = Refused /\ input \in Inputs
  /\ phase = "load"
  /\ packs = <<>> /\ roots = <<>> /\ stack = <<>> /\ order = <<>>
  /\ result = NoPlan /\ subject = NoPlan /\ verdict = "none"

\* catalog.Load; Build is called when it returned no error.
Load ==
  /\ loaded = "no"
  /\ IF C!Accepted(document)
     THEN loaded' = "accepted" /\ phase' = "select" /\ catalog' = C!CatalogsFor(document, target)
     ELSE loaded' = "rejected" /\ phase' = "done" /\ UNCHANGED catalog
  /\ UNCHANGED <<document, target, input, packs, roots, stack, order, result, subject, verdict>>

Plan == loaded = "accepted" /\ Next /\ UNCHANGED files

PlanningNext == Load \/ Plan

PlanningSpec ==
  LoadInit /\ [][PlanningNext]_<<vars, files>> /\ WF_<<vars, files>>(PlanningNext)

-----------------------------------------------------------------------------
\* Build can work with whatever Load accepts: it looks up nothing that is missing,
\* and its walk up the profiles ends.  And Load, which follows every path up from
\* every profile (load.go:276), turns files without any other defect away for a
\* true cycle only, never for a parent reached twice.
LoadIsJust ==
  /\ loaded = "accepted" => \A t \in Targets : CatalogOK(C!CatalogsFor(document, t))
  /\ loaded = "rejected" /\ C!RecordsAccepted(document) =>
       \E some \in (SUBSET C!Ids(document.profiles)) \ {{}} : \A profile \in some :
         ToSet(C!ById(document.profiles)[profile].extends) \cap some # {}

\* A repository that a plan adds serves the architecture planned for: what Load
\* compares and what Build chooses fit together, but for a provider that lists
\* no architecture, whose repositories Load does not compare (load.go:119-123).
RepositoriesServeTarget ==
  Built =>
    \A p \in ToSet(order) : \A r \in ToSet(catalog.provider[p].prerequisites) :
      LET providers == C!ById(document.packages)[p].providers[target.platform]
      IN  \/ target.architecture \in C!ById(document.prerequisites)[r].architectures
          \/ \E k \in DOMAIN providers :
               providers[k].architectures = {} /\ r \in ToSet(providers[k].prerequisites)

\* Whatever catalog Load accepts and whatever is asked of it, a plan in which the
\* executors know all the words (Load and Build let others pass: load.go:102,
\* planner.go:227) is one that each executor can rely on the way it does:
\* executeLinux and executeWindows, which look at no dependency, meet a package's
\* detection before its installation and nothing of the user's before the
\* machine's; the Linux adapter meets managers, remotes, keys, sources and the
\* index in the order it needs them (broker.go:250, 104-110; planner.go:233-343).
PlansSuitExecutors ==
  Built /\ AllUnderstood =>
    /\ LinuxPlan(ExecutorView(result.operations))
    /\ WindowsPlan(ExecutorView(result.operations))
    /\ AdapterPlan(AdapterView(result.operations, catalog.provider),
                   [p \in ToSet(order) |-> ToSet(catalog.provider[p].prerequisites)])

=============================================================================
