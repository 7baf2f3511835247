-------------------------------- MODULE Planner --------------------------------
(***************************************************************************)
(* planner.Build and planner.ValidateCanonical of                          *)
(* internal/planner/planner.go: a profile and packs become the canonical   *)
(* plan, the order every execution follows, and a stored plan is accepted  *)
(* only if Build makes it again.  The recursion of addPackage is a walk    *)
(* with an explicit stack of calls, one action per step; the operations of *)
(* the plan are then computed from the order the walk has left.  After a   *)
(* plan is built it is validated, as `resume`, ExecutePartition and the    *)
(* elevated child do: Build runs again, for both planner modes.            *)
(*                                                                         *)
(* A catalog is one that catalog.Load accepts, for one target: provider[p] *)
(* is the first provider of p that fits platform and architecture.  Its    *)
(* manager and privilege are any words, as they are for Load and Build;    *)
(* which of them an executor has a use for is said by Understood.          *)
(* Estimates, names and options are left out.                              *)
(***************************************************************************)
EXTENDS Naturals, Sequences, SequencesExt

CONSTANTS
  Catalogs,    \* the catalogs considered, records as in CatalogOK
  Inputs,      \* the requests considered
  NoProvider,  \* a package without a provider for the target
  NoPlan

\* The name of a remote is made of Source and Scope.
Provider == [manager: STRING, privilege: STRING, remote: STRING, prerequisites: Seq(STRING)]

\* A provider with a privilege that some partition executes (the schema allows no
\* other, schema/package-catalog-v3.schema.json:52), and with the scope the Linux
\* adapter wants of Flatpak's for that privilege (linux.go:402-408); Flathub is the
\* one remote there is.
Understood(provider) ==
  /\ provider.privilege \in {"elevated", "user"}
  /\ provider.manager = "flatpak" =>
       provider.remote = (IF provider.privilege = "elevated" THEN "flathub:machine" ELSE "flathub:user")

\* What validate of internal/catalog/load.go lets through.
CatalogOK(c) ==
  LET known == DOMAIN c.dependencies
  IN  /\ c.platform \in STRING
      /\ "" \notin known \cup DOMAIN c.packs \cup DOMAIN c.profiles
      /\ c.dependencies \in [known -> Seq(known)]
      /\ c.conflicts \in [known -> SUBSET known]
      /\ \A p, q \in known : q \in c.conflicts[p] => p \in c.conflicts[q]
      /\ c.provider \in [known -> Provider \cup {NoProvider}]
      /\ c.intents \in [known -> Seq(STRING)]
      /\ c.core \in Seq(known)
      /\ DOMAIN c.packs \subseteq STRING /\ c.packs \in [DOMAIN c.packs -> Seq(known)]
      /\ \A profile \in DOMAIN c.profiles :
           c.profiles[profile] \in [extends: Seq(DOMAIN c.profiles), packages: Seq(known),
                                    recommended: Seq(DOMAIN c.packs)]
      /\ \A some \in SUBSET DOMAIN c.profiles :  \* no inheritance cycle
           some # {} => \E profile \in some : ToSet(c.profiles[profile].extends) \cap some = {}

\* Profile and packs may be unknown.
Request == [profile: STRING, packs: Seq(STRING), essentials: BOOLEAN]

ASSUME CatalogsAssumption ==
  (\A c \in Catalogs : CatalogOK(c)) /\ Inputs \subseteq Request

VARIABLES
  catalog,  \* the loaded catalogs
  input,    \* what Build was called with
  phase,    \* "select", "walk", "built" (Build has returned) or "done"
  packs,    \* selectedPacks
  roots,    \* the packages addPackage is still to be called for
  stack,    \* its calls in progress, [package, next dependency]
  order,    \* packageIDs
  result,   \* what Build returned: a plan, or a record of its error
  subject,  \* the plan under validation
  verdict

Packages == DOMAIN catalog.dependencies

vars == <<catalog, input, phase, packs, roots, stack, order, result, subject, verdict>>

-----------------------------------------------------------------------------
(* Selection.                                                              *)

\* appendUnique over a list of lists: first occurrences, in order.  It also drops
\* the ID "", which nothing in a catalog has.
Unique(lists) ==
  LET values == FlattenSeq(lists)
      unique[s \in Seq(ToSet(values))] ==
        IF s = <<>> THEN <<>>
        ELSE unique[Front(s)] \o (IF Contains(Front(s), Last(s)) THEN <<>> ELSE <<Last(s)>>)
  IN  unique[values]

\* resolveProfile: inherited profiles before the profile itself.  Load has
\* rejected inheritance cycles.
Lineage(profile) ==
  LET walk[p \in DOMAIN catalog.profiles] ==
        LET parents == catalog.profiles[p].extends
        IN  Append(FlattenSeq([k \in DOMAIN parents |-> walk[parents[k]]]), p)
  IN  walk[profile]

Inherited(profile, field) ==
  LET lineage == Lineage(profile)
  IN  Unique([k \in DOMAIN lineage |-> catalog.profiles[lineage[k]][field]])

\* Recommended packs before explicit ones, unless only essentials are wanted.
SelectedPacks(in) ==
  LET recommended == IF in.essentials THEN <<>>
                     ELSE Inherited(in.profile, "recommended")
  IN  Unique(<<recommended, in.packs>>)

Roots(profile, selected) ==
  catalog.core \o Inherited(profile, "packages")
    \o FlattenSeq([k \in DOMAIN selected |-> catalog.packs[selected[k]]])

-----------------------------------------------------------------------------
(* The operations of a plan, from its packageIDs in order.                 *)

Operation(id, privilege, dependsOn) ==
  [id |-> id, privilege |-> privilege, dependsOn |-> dependsOn]

Installs(packages) == {<<"install", p>> : p \in packages}

\* The operation that makes p's package manager usable.
Remote(p) == <<"remote", catalog.provider[p].remote>>
ManagerID(p) ==
  CASE catalog.provider[p].manager = "snap" -> {<<"manager", "snap">>}
    [] catalog.provider[p].manager = "flatpak" -> {Remote(p)}
    [] OTHER -> {}

\* The operations p needs for its manager.
Ensures(p) ==
  CASE catalog.provider[p].manager = "snap" -> <<<<"manager", "snap">>>>
    [] catalog.provider[p].manager = "flatpak" -> <<<<"manager", "flatpak">>, Remote(p)>>
    [] OTHER -> <<>>

\* Variant of RemotePrivilege: the remote is always added for the machine.
RemotePrivilegeMachine(remote, ids) == "elevated"

\* A remote belongs to the first package that needs it.
RemotePrivilege(remote, ids) ==
  catalog.provider[ids[Min({k \in DOMAIN ids : Contains(Ensures(ids[k]), remote)})]].privilege

\* Each once: operationExists.
EnsureOperations(ids) ==
  LET needed == Unique([k \in DOMAIN ids |-> Ensures(ids[k])])
  IN  [i \in DOMAIN needed |->
         IF needed[i][1] = "manager" THEN Operation(needed[i], "elevated", {})
         ELSE Operation(needed[i], RemotePrivilege(needed[i], ids), {<<"manager", "flatpak">>})]

\* Two operations for each APT repository, and one refresh after them all.
Repositories(ids) == Unique([k \in DOMAIN ids |-> catalog.provider[ids[k]].prerequisites])
RepositoryOperations(ids) ==
  LET repositories == Repositories(ids)
  IN  FlattenSeq([k \in DOMAIN repositories |->
        <<Operation(<<"key", repositories[k]>>, "elevated", {}),
          Operation(<<"repository", repositories[k]>>, "elevated", {<<"key", repositories[k]>>})>>])

\* On Fedora, once for all packages of dnf.
FromDnf(p) == catalog.platform = "fedora" /\ catalog.provider[p].manager = "dnf"
UsesDnf(ids) == \E p \in ToSet(ids) : FromDnf(p)
AptRefresh == <<"refresh", "apt-get">>
DnfRefresh == <<"refresh", "dnf">>
RefreshOperations(ids) ==
  (IF Repositories(ids) = <<>> THEN <<>>
   ELSE <<Operation(AptRefresh, "elevated", {<<"repository", r>> : r \in ToSet(Repositories(ids))})>>)
  \o (IF UsesDnf(ids) THEN <<Operation(DnfRefresh, "elevated", {})>> ELSE <<>>)

\* Variant of Refreshes: only DNF installations wait for a refresh.
RefreshesDnf(p) == IF FromDnf(p) THEN {DnfRefresh} ELSE {}

\* The refreshes the installation of p waits for.
Refreshes(p) ==
  (IF catalog.provider[p].prerequisites # <<>> THEN {AptRefresh} ELSE {})
  \cup (IF FromDnf(p) THEN {DnfRefresh} ELSE {})

PackageOperations(ids) ==
  FlattenSeq([k \in DOMAIN ids |->
    LET p == ids[k]
        needs == Installs(ToSet(catalog.dependencies[p]))
        privilege == catalog.provider[p].privilege
    IN  <<Operation(<<"detect", p>>, privilege, needs \cup ManagerID(p)),
          Operation(<<"install", p>>, privilege,
                    needs \cup {<<"detect", p>>} \cup Refreshes(p))>>])

ConfigureOperations(ids) ==
  LET intents == Unique([k \in DOMAIN ids |-> catalog.intents[ids[k]]])
  IN  [k \in DOMAIN intents |->
         Operation(<<"configure", intents[k]>>, "user", Installs(ToSet(ids)))]

\* Variant of Operations: packages before their sources.
OperationsUnprepared(ids) ==
  PackageOperations(ids) \o EnsureOperations(ids) \o RepositoryOperations(ids)
    \o RefreshOperations(ids) \o ConfigureOperations(ids)

Operations(ids) ==
  EnsureOperations(ids) \o RepositoryOperations(ids) \o RefreshOperations(ids)
    \o PackageOperations(ids) \o ConfigureOperations(ids)

Failed(error) == [error |-> error, packages |-> {}]

\* Variant of Assembled: without the check of the privilege topology.
AssembledAnyhow ==
  IF \E p, q \in ToSet(order) : q \in catalog.conflicts[p] THEN Failed("conflict")
  ELSE IF \E p \in ToSet(order) : catalog.provider[p] = NoProvider THEN Failed("unsupported")
  ELSE [error |-> "none", id |-> [input EXCEPT !.packs = packs],
        profile |-> input.profile, packs |-> packs, operations |-> Operations(order)]

\* The rest of Build.  The plan ID is a digest of the target, the profile, the
\* planner mode and the selected packs.
Assembled ==
  LET unsupported == {p \in ToSet(order) : catalog.provider[p] = NoProvider}
  IN
  IF \E p, q \in ToSet(order) : q \in catalog.conflicts[p] THEN Failed("conflict")
  ELSE IF unsupported # {}
  THEN [error |-> "unsupported", packages |-> unsupported]
  ELSE IF \E p \in ToSet(order) : \E d \in ToSet(catalog.dependencies[p]) :
            /\ catalog.provider[p].privilege = "elevated"
            /\ catalog.provider[d].privilege = "user"
  THEN Failed("topology")
  ELSE [error |-> "none", id |-> [input EXCEPT !.packs = packs],
        profile |-> input.profile, packs |-> packs, operations |-> Operations(order)]

-----------------------------------------------------------------------------
Init ==
  /\ catalog \in Catalogs /\ input \in Inputs
  /\ phase = "select"
  /\ packs = <<>> /\ roots = <<>> /\ stack = <<>> /\ order = <<>>
  /\ result = NoPlan /\ subject = NoPlan /\ verdict = "none"

\* Build begins: profile and packs.
Select ==
  /\ phase = "select"
  /\ order' = <<>>
  /\ IF input.profile \notin DOMAIN catalog.profiles
     THEN /\ phase' = "built" /\ result' = Failed("unknown-profile")
          /\ UNCHANGED <<packs, roots>>
     ELSE IF \E p \in ToSet(input.packs) : p \notin DOMAIN catalog.packs
     THEN /\ phase' = "built" /\ result' = Failed("unknown-pack")
          /\ UNCHANGED <<packs, roots>>
     ELSE /\ phase' = "walk" /\ packs' = SelectedPacks(input) /\ roots' = Roots(input.profile, packs')
          /\ UNCHANGED result
  /\ UNCHANGED <<catalog, input, stack, subject, verdict>>

Top == stack[Len(stack)]
Pending == Top.next <= Len(catalog.dependencies[Top.package])

\* Variant of Enter: the callers are not inspected.
EnterBlindly(p, callers) ==
  IF p \notin Packages
  THEN phase' = "built" /\ result' = Failed("unknown-package") /\ stack' = <<>>
  ELSE /\ Len(callers) < 5
       /\ stack' = Append(callers, [package |-> p, next |-> 1])
       /\ UNCHANGED <<phase, result>>

\* addPackage is called for p.  With a catalog from Load, every p is known.
Enter(p, callers) ==
  IF \E k \in DOMAIN callers : callers[k].package = p
  THEN phase' = "built" /\ result' = Failed("cycle") /\ stack' = <<>>
  ELSE IF p \notin Packages
  THEN phase' = "built" /\ result' = Failed("unknown-package") /\ stack' = <<>>
  ELSE stack' = Append(callers, [package |-> p, next |-> 1]) /\ UNCHANGED <<phase, result>>

\* ... by Build, for the next selected package,
Visit ==
  /\ phase = "walk" /\ stack = <<>> /\ roots # <<>>
  /\ Enter(Head(roots), <<>>)
  /\ roots' = Tail(roots)
  /\ UNCHANGED <<catalog, input, packs, order, subject, verdict>>

\* ... or by itself, for the next dependency,
Descend ==
  /\ phase = "walk" /\ stack # <<>> /\ Pending
  /\ Enter(catalog.dependencies[Top.package][Top.next],
           [stack EXCEPT ![Len(stack)].next = @ + 1])
  /\ UNCHANGED <<catalog, input, packs, roots, order, subject, verdict>>

\* Variant of Return: a package enters the order without being looked for.
ReturnAgain ==
  /\ phase = "walk" /\ stack # <<>> /\ ~Pending
  /\ order' = Append(order, Top.package)
  /\ stack' = Front(stack)
  /\ UNCHANGED <<catalog, input, phase, packs, roots, result, subject, verdict>>

\* ... and returns, after the last one.
Return ==
  /\ phase = "walk" /\ stack # <<>> /\ ~Pending
  /\ order' = IF Contains(order, Top.package) THEN order ELSE Append(order, Top.package)
  /\ stack' = Front(stack)
  /\ UNCHANGED <<catalog, input, phase, packs, roots, result, subject, verdict>>

Assemble ==
  /\ phase = "walk" /\ stack = <<>> /\ roots = <<>>
  /\ phase' = "built" /\ result' = Assembled
  /\ UNCHANGED <<catalog, input, packs, roots, stack, order, subject, verdict>>

\* The plan is handed on and validated: Build from its final pack list.
Validate ==
  /\ phase = "built" /\ subject = NoPlan
  /\ IF result.error # "none"
     THEN phase' = "done" /\ UNCHANGED <<input, subject>>
     ELSE /\ phase' = "select" /\ subject' = result
          /\ input' = [profile |-> result.profile, packs |-> result.packs, essentials |-> FALSE]
  /\ UNCHANGED <<catalog, packs, roots, stack, order, result, verdict>>

\* Variant of Compare: the essentials-only mode is not tried.
CompareOnce ==
  /\ phase = "built" /\ subject # NoPlan
  /\ phase' = "done"
  /\ verdict' = IF result = subject THEN "accepted" ELSE "rejected"
  /\ UNCHANGED <<catalog, input, packs, roots, stack, order, result, subject>>

\* Equal plans end the validation; the other planner mode is tried once.
Compare ==
  /\ phase = "built" /\ subject # NoPlan
  /\ IF result # subject /\ ~input.essentials
     THEN /\ phase' = "select" /\ input' = [input EXCEPT !.essentials = TRUE]
          /\ UNCHANGED verdict
     ELSE /\ phase' = "done" /\ UNCHANGED input
          /\ verdict' = IF result = subject THEN "accepted" ELSE "rejected"
  /\ UNCHANGED <<catalog, packs, roots, stack, order, result, subject>>

Next ==
  \/ Select \/ Visit \/ Descend \/ Return \/ Assemble
  \/ Validate \/ Compare

Spec == Init /\ [][Next]_vars
FairSpec == Spec /\ WF_vars(Next)

-----------------------------------------------------------------------------
\* Every variable holds a value of its kind.
TypeOK ==
  /\ CatalogOK(catalog)
  /\ input \in Request
  /\ phase \in {"select", "walk", "built", "done"}
  /\ packs \in Seq(DOMAIN catalog.packs)
  /\ roots \in Seq(Packages)
  /\ stack \in Seq([package: Packages, next: Nat \ {0}])
  /\ order \in Seq(Packages)
  /\ verdict \in {"none", "accepted", "rejected"}

\* At every moment of the walk a package stands after everything it depends on,
\* and once: what executeLinux, which looks at no dependency, relies on
\* (planner.go:152-167).
OrderRespectsDependencies ==
  \A i \in DOMAIN order :
    /\ \A d \in ToSet(catalog.dependencies[order[i]]) : \E j \in 1..(i - 1) : order[j] = d
    /\ \A j \in 1..(i - 1) : order[j] # order[i]

\* The packages S needs: the least set with S closed under dependencies.
Closure(S) ==
  {p \in Packages :
     \A T \in SUBSET Packages :
       S \subseteq T /\ (\A q \in T : ToSet(catalog.dependencies[q]) \subseteq T) => p \in T}

Selection(in) == ToSet(Roots(in.profile, SelectedPacks(in)))

\* What Build should return, from the selection alone.
Expected(in) ==
  LET needed == Closure(Selection(in))
  IN  IF in.profile \notin DOMAIN catalog.profiles THEN "unknown-profile"
      ELSE IF ~(ToSet(in.packs) \subseteq DOMAIN catalog.packs) THEN "unknown-pack"
      ELSE IF \E p \in needed : p \in Closure(ToSet(catalog.dependencies[p])) THEN "cycle"
      ELSE IF \E p, q \in needed : q \in catalog.conflicts[p] THEN "conflict"
      ELSE IF \E p \in needed : catalog.provider[p] = NoProvider THEN "unsupported"
      ELSE IF \E p \in needed : \E d \in ToSet(catalog.dependencies[p]) :
                catalog.provider[p].privilege = "elevated" /\ catalog.provider[d].privilege = "user"
      THEN "topology"
      ELSE "none"

\* The executors have a use for every provider in the order.
AllUnderstood == \A p \in ToSet(order) : Understood(catalog.provider[p])

\* Build fails exactly when, and for the reason that, the selection has no plan:
\* a package visited along several paths or in another order makes no
\* difference, and every unsupported package is reported (planner.go:186-231).
\* Although only direct dependencies are compared, no machine package of a plan
\* needs a user package at any distance, if the executors know all the words.
BuildIsJust ==
  phase = "built" =>
    /\ result.error = Expected(input)
    /\ result.error = "unsupported" =>
         result.packages = {p \in Closure(Selection(input)) : catalog.provider[p] = NoProvider}
    /\ result.error = "none" /\ AllUnderstood =>
         \A p \in Closure(Selection(input)) : catalog.provider[p].privilege = "elevated" =>
           \A d \in Closure({p}) : catalog.provider[d].privilege = "elevated"

Built == phase = "built" /\ result.error = "none"
IDs(operations) == {operations[i].id : i \in DOMAIN operations}

\* The plan installs the closure of the selection, each package once; every
\* operation comes after all it depends on, and a machine operation depends on
\* machine operations, if the executors know all the words.
PlanIsExecutable ==
  Built =>
    LET operations == result.operations
    IN  /\ {p \in Packages : <<"install", p>> \in IDs(operations)}
             = Closure(Selection(input))
        /\ \A i, j \in DOMAIN operations : operations[i].id = operations[j].id => i = j
        /\ \A i \in DOMAIN operations : \A d \in operations[i].dependsOn :
             \E j \in 1..(i - 1) :
               /\ operations[j].id = d
               /\ AllUnderstood /\ operations[i].privilege = "elevated" =>
                    operations[j].privilege = "elevated"

\* Directly or not, an installation waits for the key and the source of every
\* repository its package comes from, and for its package manager
\* (docs/architecture.md:49).
InstallsWaitForSources ==
  Built =>
    LET operations == result.operations
        waits[i \in DOMAIN operations] ==
          operations[i].dependsOn \cup
          UNION {waits[j] : j \in {k \in 1..(i - 1) : operations[k].id \in operations[i].dependsOn}}
    IN  \A i \in DOMAIN operations : \A p \in Packages :
          operations[i].id = <<"install", p>> =>
            /\ ManagerID(p) \subseteq waits[i]
            /\ \A r \in ToSet(catalog.provider[p].prerequisites) :
                 {<<"key", r>>, <<"repository", r>>} \subseteq waits[i]

\* Whatever was selected, and in either planner mode, the plan is accepted when
\* it comes back as a file: otherwise neither the elevated child nor a resume
\* would execute what the same program has planned (planner.go:35-71).
BuiltIsCanonical == phase = "done" /\ subject # NoPlan => verdict = "accepted"

\* Planning ends, cycles or not.
PlanningEnds == <>(phase = "done")
=============================================================================
