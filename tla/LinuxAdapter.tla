----------------------------- MODULE LinuxAdapter -----------------------------
(***************************************************************************)
(* What the operations of a plan do to a Linux host: internal/adapter/     *)
(* linux/linux.go and internal/configuration/linux.go, driven by           *)
(* executeLinux.  An operation is a list of native commands, each of which *)
(* may fail, with or without its effect, or be cut off with the process;   *)
(* an operation is recorded when its last command has succeeded, and a     *)
(* resumed run tries the others again from their first command.  Session   *)
(* takes each operation as one step; here the steps inside it meet the     *)
(* host that an earlier attempt left behind.                               *)
(*                                                                         *)
(* The native tools are the environment: Works says on what hosts a        *)
(* command can succeed, Effect what it then does.  Package identities,     *)
(* options, URLs and paths, and their syntax checks, are left out; so are  *)
(* the system calls inside atomicWrite, which are AtomicFile's: a write    *)
(* that reports success is taken to have written.                          *)
(*                                                                         *)
(* RunDiagnostics of internal/doctor/doctor.go looks at the same host: the *)
(* properties are about the hosts it calls healthy.  It does not look at   *)
(* the package lists that apt-get has of the distribution itself, nor does *)
(* a plan without a third-party repository renew them: they are a field of *)
(* the host, and a condition of its own.                                   *)
(***************************************************************************)
EXTENDS PlanContract, FiniteSetsExt

CONSTANTS
  Plan,         \* per platform the operations, as planner.Build orders them
  SourcesOf,    \* the APT repositories a package comes from
  Settings,     \* how many commands a configuration intent has
  Manual,       \* the intents left to the user
  Hosts,        \* the hosts a first run may find
  MaxFaults     \* how many failures, crashes and dry runs there are

Platforms == {"ubuntu", "fedora"}
Managers == {"apt-get", "dnf", "snap", "flatpak"}

Packages == DOMAIN SourcesOf
Repositories == UNION {SourcesOf[p] : p \in Packages}
Intents == DOMAIN Settings

Host == [platform: Platforms,
         native: SUBSET {"apt-get", "dpkg-query", "dnf"},  \* found on the PATH
         managers: SUBSET {"snap", "flatpak"},  \* those that answer
         socket: BOOLEAN, mount: BOOLEAN, seeded: BOOLEAN,  \* snapd
         remotes: SUBSET {"elevated", "user"},  \* scopes that have Flathub
         keys: [Repositories -> {"absent", "other", "verified"}],
         sources: SUBSET Repositories,
         lists: BOOLEAN,                        \* apt has indexed the distribution
         index: SUBSET Repositories,            \* the others it has indexed
         packages: [Packages -> {"absent", "partial", "installed"}],
         settings: {s \in [Intents -> Nat] :    \* configuration commands in effect
                      \A x \in Intents : s[x] <= Settings[x]}]

ASSUME AdapterAssumption ==
  /\ \A platform \in Platforms : AdapterPlan(Plan[platform], SourcesOf)
  /\ Settings \in [Intents -> Nat] /\ Manual \subseteq Intents
  /\ \A h \in Hosts : h \in Host
  /\ MaxFaults \in Nat

VARIABLES
  host,      \* the machine
  recorded,  \* the operations the journal has as succeeded or skipped
  position,  \* where the executor is in its order; 0 when none runs
  begun,     \* whether it has begun the operation there
  todo,      \* the native commands this operation still has to run
  detected,  \* detectedInstalled
  dry,       \* --dry-run
  faults

vars == <<host, recorded, position, begun, todo, detected, dry, faults>>

-----------------------------------------------------------------------------
(* The doctor.                                                             *)

\* The managers whose absence checkManager reports as a failure.
RequiredManagers(platform) ==
  IF platform = "ubuntu" THEN {"apt-get", "dpkg-query"} ELSE {"dnf"}

\* Variant of Healthy: the inventory command is thought optional.
HealthyToInstall(h) == RequiredManagers(h.platform) \ {"dpkg-query"} \subseteq h.native

\* RunDiagnostics, its catalog check aside (Planning.tla): Snap, Flatpak, the
\* Flathub remote and the user's folders are only warned about.
Healthy(h) == RequiredManagers(h.platform) \subseteq h.native

-----------------------------------------------------------------------------
(* The native commands.                                                    *)

NativeCommand ==
  [verb: {"install_manager", "enable_socket", "symlink", "wait_for_seed", "remote-add",
          "write_key", "write_source", "makecache", "update", "install", "configure"},
   object: Managers \cup {"elevated", "user"} \cup Repositories \cup Packages \cup Intents,
   number: Nat]

Step(verb, object, number) == [verb |-> verb, object |-> object, number |-> number]
Command(verb, object) == Step(verb, object, 1)

\* What detection and installation need of a package manager.
ManagerReady(h, manager) ==
  /\ manager \in {"snap", "flatpak"} => manager \in h.managers
  /\ manager = "snap" => h.socket /\ h.seeded /\ (h.platform = "fedora" => h.mount)

Native(h) == IF h.platform = "ubuntu" THEN "apt-get" ELSE "dnf"

\* The native manager knows the distribution's packages: apt-get from lists that
\* something has fetched, dnf by fetching them.
Listed(h) == h.platform = "ubuntu" => h.lists

\* On what hosts a command can succeed.  Files can be written there, the remote end
\* of a download answers, and the tools that intents configure are taken to be there.
Works(h, command, op) ==
  CASE command.verb = "install_manager" -> Native(h) \in h.native /\ Listed(h)
    [] command.verb = "makecache" -> "dnf" \in h.native
    [] command.verb = "enable_socket" -> "snap" \in h.managers
    [] command.verb = "symlink" -> ~h.mount
    [] command.verb = "wait_for_seed" -> h.socket
    [] command.verb = "remote-add" -> "flatpak" \in h.managers
    [] command.verb = "update" -> "apt-get" \in h.native /\ \A r \in h.sources : h.keys[r] = "verified"
    [] command.verb = "install" ->
         /\ ManagerReady(h, op.manager)
         /\ op.manager = Native(h) => op.manager \in h.native
         /\ op.manager = "flatpak" => op.privilege \in h.remotes
         /\ op.manager = "apt-get" => h.lists /\ SourcesOf[op.subject] \subseteq h.index
    [] OTHER -> TRUE

Effect(h, command) ==
  LET object == command.object
  IN  CASE command.verb = "install_manager" -> [h EXCEPT !.managers = @ \cup {object}]
        [] command.verb = "enable_socket" -> [h EXCEPT !.socket = TRUE]
        [] command.verb = "symlink" -> [h EXCEPT !.mount = TRUE]
        [] command.verb = "wait_for_seed" -> [h EXCEPT !.seeded = TRUE]
        [] command.verb = "remote-add" -> [h EXCEPT !.remotes = @ \cup {object}]
        [] command.verb = "write_key" -> [h EXCEPT !.keys[object] = "verified"]
        [] command.verb = "write_source" -> [h EXCEPT !.sources = @ \cup {object}]
        [] command.verb = "update" -> [h EXCEPT !.index = h.sources, !.lists = TRUE]
        [] command.verb = "install" -> [h EXCEPT !.packages[object] = "installed"]
        [] command.verb = "configure" -> [h EXCEPT !.settings[object] = Max({@, command.number})]
        [] OTHER -> h

\* What a command that fails, or whose process dies, may leave behind.  A file
\* may be gone (AtomicFile.tla, Clear).
Remains(h, command, op) ==
  {h} \cup (IF Works(h, command, op) THEN {Effect(h, command)} ELSE {})
      \cup (IF command.verb = "install" /\ op.manager = "apt-get"
               /\ h.packages[op.subject] = "absent"
            THEN {[h EXCEPT !.packages[op.subject] = "partial"]} ELSE {})
      \cup (CASE command.verb = "write_key" -> {[h EXCEPT !.keys[op.subject] = "absent"]}
              [] command.verb = "write_source" -> {[h EXCEPT !.sources = @ \ {op.subject}]}
              [] OTHER -> {})

-----------------------------------------------------------------------------
(* The adapter: what an operation is turned into.                          *)

\* validateOperation, validatePrerequisiteOperation, and the intents known to
\* Commands.  Scope goes with privilege.
Valid(op) ==
  CASE op.kind \in {"detect", "install"} ->
         /\ op.manager \in {"snap", "flatpak", Native(host)}
         /\ op.manager # "flatpak" => op.privilege = "elevated"
    [] op.kind = "ensure-manager" ->
         op.manager \in {"snap", "flatpak"} /\ op.privilege = "elevated"
    [] op.kind = "ensure-flatpak-remote" -> op.manager = "flatpak"
    [] op.kind \in {"ensure-repository-key", "ensure-apt-repository"} ->
         host.platform = "ubuntu" /\ op.privilege = "elevated"
    [] op.kind = "refresh-package-index" ->
         op.manager = Native(host) /\ op.privilege = "elevated"
    [] op.kind = "configure" -> op.subject \in Intents

\* What snap needs besides its package: ensureManager, ensureFedoraSnapMount.
SnapSetup ==
  IF host.platform = "fedora" /\ ~host.mount
  THEN <<Command("enable_socket", "snap"), Command("symlink", "snap"), Command("wait_for_seed", "snap")>>
  ELSE <<Command("enable_socket", "snap"), Command("wait_for_seed", "snap")>>
Setup(manager) == IF manager = "snap" THEN SnapSetup ELSE <<>>

\* Variant of ManagerCommands: a manager that answers needs nothing more.
ManagerCommandsEarly(op) ==
  IF op.manager \in host.managers THEN <<>>
  ELSE <<Command("install_manager", op.manager)>> \o Setup(op.manager)

\* ensureManager: the manager is installed unless it answers; the rest is done each
\* time.
ManagerCommands(op) ==
  IF op.manager \in host.managers THEN Setup(op.manager)
  ELSE <<Command("install_manager", op.manager)>> \o Setup(op.manager)

\* ErrManualConfiguration.
LeftToUser(op) == op.kind = "configure" /\ op.subject \in Manual

\* ExecutePrerequisite, ExecuteInstall, and Execute of a configuration intent.
Commands(op) ==
  CASE op.kind = "ensure-manager" -> ManagerCommands(op)
    [] op.kind = "ensure-flatpak-remote" -> <<Command("remote-add", op.privilege)>>
    [] op.kind = "ensure-repository-key" -> <<Command("write_key", op.subject)>>
    [] op.kind = "ensure-apt-repository" -> <<Command("write_source", op.subject)>>
    [] op.kind = "refresh-package-index" ->
         <<IF op.manager = "dnf" THEN Command("makecache", "dnf") ELSE Command("update", "apt-get")>>
    [] op.kind = "install" -> <<Command("install", op.subject)>>
    [] op.kind = "configure" /\ ~LeftToUser(op) ->
         [k \in 1..Settings[op.subject] |-> Step("configure", op.subject, k)]
    [] OTHER -> <<>>

-----------------------------------------------------------------------------
(* The executor: the machine operations, then the user's.                  *)

Operations == Plan[host.platform]
Current == Operations[position]
Runs == position # 0

\* executePlan has the machine operations executed before the user's; either
\* executor goes through the plan and passes over the other's operations.
Precedes(i, j) ==
  IF Operations[i].privilege = Operations[j].privilege THEN i < j
  ELSE Operations[i].privilege = "elevated"

\* The first of a set of operations, 0 when there is none.
First(positions) ==
  LET elevated == {i \in positions : Operations[i].privilege = "elevated"}
  IN  IF positions = {} THEN 0 ELSE Min(IF elevated = {} THEN positions ELSE elevated)

Init ==
  /\ host \in Hosts
  /\ recorded = {} /\ position = 0 /\ begun = FALSE /\ todo = <<>>
  /\ detected = {} /\ dry = FALSE /\ faults = 0

Fault == faults < MaxFaults /\ faults' = faults + 1

\* The executor returns; what detection found goes with it.
Stop == position' = 0 /\ begun' = FALSE /\ todo' = <<>> /\ detected' = {}

\* On to the next operation, with these ended for good.  The executor of the user's
\* operations knows nothing of what the other one has detected.
Advance(ended, found) ==
  \E next \in {First({j \in DOMAIN Operations : Precedes(position, j)})} :
    /\ recorded' = recorded \cup ended
    /\ position' = next
    /\ detected' = IF next # 0 /\ Operations[next].privilege = Current.privilege
                   THEN detected \cup found ELSE {}
    /\ begun' = FALSE /\ todo' = <<>>

Start(flag) ==
  /\ ~Runs /\ recorded # DOMAIN Operations
  /\ IF flag THEN Fault ELSE UNCHANGED faults
  /\ dry' = flag /\ position' = First(DOMAIN Operations) /\ detected' = {}
  /\ UNCHANGED <<host, recorded, begun, todo>>

\* Ended in an earlier run, or found installed in this one.
Skip ==
  /\ Runs /\ ~begun
  /\ \/ position \in recorded
     \/ Current.kind = "install" /\ Current.subject \in detected
  /\ Advance({position}, {})
  /\ UNCHANGED <<host, dry, faults>>

MustBegin ==
  /\ Runs /\ ~begun /\ position \notin recorded
  /\ ~(Current.kind = "install" /\ Current.subject \in detected)

\* An invalid operation fails before anything is run, in a dry run too.
Begin ==
  /\ MustBegin
  /\ IF Valid(Current)
     THEN /\ begun' = TRUE /\ todo' = IF dry THEN <<>> ELSE Commands(Current)
          /\ UNCHANGED <<position, detected>>
     ELSE Stop
  /\ UNCHANGED <<host, recorded, dry, faults>>

\* Variant of Found: any record of dpkg's will do.
FoundAtAll(op) == host.packages[op.subject] # "absent"

\* What the exit status and output of detection say.  dpkg lists packages that
\* are not, or only half, installed: their status has to be "install ok
\* installed".  Without its socket snap lists nothing.
Found(op) ==
  /\ host.packages[op.subject] = "installed"
  /\ op.manager = "snap" => host.socket

\* The detection command of a manager can be started.
Answers(manager) ==
  CASE manager = "apt-get" -> "dpkg-query" \in host.native
    [] manager = "dnf" -> "dnf" \in host.native
    [] OTHER -> manager \in host.managers

\* Detection that cannot start its command is an error.
Detect ==
  /\ Runs /\ begun /\ Current.kind = "detect"
  /\ IF ~Answers(Current.manager) THEN Stop /\ UNCHANGED recorded
     ELSE IF Found(Current) THEN Advance({position}, {Current.subject})
     ELSE Advance({}, {})
  /\ UNCHANGED <<host, dry, faults>>

\* A key is written only with the digest the catalog has for it.
FetchKey ==
  /\ Runs /\ todo # <<>> /\ Head(todo).verb = "write_key"
  /\ \E data \in {"verified", "other"} :
       IF data = "verified"
       THEN /\ host' = Effect(host, Head(todo)) /\ todo' = Tail(todo)
            /\ UNCHANGED <<position, begun, detected, faults>>
       ELSE Fault /\ Stop /\ UNCHANGED host
  /\ UNCHANGED <<recorded, dry>>

RunCommand ==
  /\ Runs /\ todo # <<>> /\ Head(todo).verb # "write_key"
  /\ Works(host, Head(todo), Current)
  /\ host' = Effect(host, Head(todo)) /\ todo' = Tail(todo)
  /\ UNCHANGED <<recorded, position, begun, detected, dry, faults>>

\* Every command has succeeded; a dry run records what is left to the user only.
FinishOperation ==
  /\ Runs /\ begun /\ todo = <<>> /\ Current.kind # "detect"
  /\ Advance(IF dry /\ ~LeftToUser(Current) THEN {} ELSE {position}, {})
  /\ UNCHANGED <<host, dry, faults>>

\* operationFailure, or the death of the process while a command runs: a command
\* that could have worked failed by a fault of the environment.
CommandFails ==
  /\ Runs /\ todo # <<>>
  /\ IF Works(host, Head(todo), Current) THEN Fault ELSE UNCHANGED faults
  /\ host' \in Remains(host, Head(todo), Current)
  /\ Stop /\ UNCHANGED <<recorded, dry>>

\* The death of the process between two commands, or before the record.
Crash ==
  /\ Runs /\ todo = <<>> /\ Fault
  /\ Stop /\ UNCHANGED <<host, recorded, dry>>

Executor == Skip \/ Begin \/ Detect \/ FetchKey \/ RunCommand \/ FinishOperation

Next ==
  \/ \E flag \in BOOLEAN : Start(flag)
  \/ Executor
  \/ CommandFails \/ Crash

Spec == Init /\ [][Next]_vars

\* A user who goes on resuming, and commands that come to an end.
FairSpec == Spec /\ WF_vars(Executor \/ CommandFails) /\ WF_vars(Start(FALSE))

-----------------------------------------------------------------------------
\* Every variable holds a value of its kind.
TypeOK ==
  /\ host \in Host
  /\ recorded \subseteq DOMAIN Operations
  /\ position \in 0..Len(Operations)
  /\ begun \in BOOLEAN /\ dry \in BOOLEAN
  /\ todo \in Seq(NativeCommand)
  /\ detected \subseteq Packages
  /\ faults \in 0..MaxFaults

\* On a host the doctor calls healthy, and whose package lists were fetched once, no
\* command of a real run is doomed: on whatever earlier attempts have left there, an
\* operation begins when its manager, sources and index are ready, and repeating what
\* was half done does not fail (linux.go:253-300).
NothingIsDoomed ==
  begun /\ ~dry /\ Healthy(host) /\ Listed(host) =>
    /\ todo # <<>> => Works(host, Head(todo), Current)
    /\ Current.kind = "detect" => Answers(Current.manager)

\* What a recorded operation was for.
InEffect(op) ==
  CASE op.kind = "ensure-manager" -> ManagerReady(host, op.manager)
    [] op.kind = "ensure-flatpak-remote" -> op.privilege \in host.remotes
    [] op.kind = "ensure-repository-key" -> host.keys[op.subject] = "verified"
    [] op.kind = "ensure-apt-repository" -> op.subject \in host.sources
    [] op.kind = "refresh-package-index" ->
         op.manager = "apt-get" =>
           \A i \in DOMAIN Operations :
             Operations[i].kind = "ensure-apt-repository" => Operations[i].subject \in host.index
    [] op.kind \in {"detect", "install"} -> host.packages[op.subject] = "installed"
    [] op.kind = "configure" ->
         op.subject \in Manual \/ host.settings[op.subject] = Settings[op.subject]

\* What the journal has as done, whole, and with verified keys, on the host: a
\* half-installed package, a manager without its socket or half a configuration
\* is never taken for a success (docs/Testing.md:20).
RecordedIsInEffect == \A i \in recorded : InEffect(Operations[i])

\* The doctor is right not to insist on Snap, Flatpak and Flathub (CHANGELOG.md:78
\* and 80): on a healthy host, wherever earlier attempts broke off, resuming gets
\* the whole plan done, what is missing of them included, provided apt-get knows the
\* distribution's packages.  Build has it told about them only along with a
\* third-party repository and after the managers (planner.go:242 and 279).
PlanIsAppliedInTheEnd ==
  Healthy(host) /\ Listed(host) ~> recorded = DOMAIN Operations
=============================================================================
