-------------------------- MODULE LinuxAdapterProofs --------------------------
(***************************************************************************)
(* The safety properties of LinuxAdapter.tla for every plan that           *)
(* planner.Build may order (AdapterAssumption), any hosts and any number of   *)
(* faults.  What the argument adds to the properties is what the executor  *)
(* may rely on: in a real run everything before the current operation is   *)
(* recorded, and the commands that are left of it are those whose effect   *)
(* is not there yet.                                                       *)
(***************************************************************************)
EXTENDS LinuxAdapter, PositionLemmas, SequenceTheorems, TLAPS

PlaceInv ==
  /\ ~Runs => ~begun
  /\ ~begun \/ dry => todo = <<>>
  /\ begun => Valid(Current) /\ position \notin recorded
  /\ \A i \in recorded : Operations[i].kind = "configure" => Operations[i].subject \in Intents

DetectedInv == \A p \in detected : host.packages[p] = "installed"

\* A real run has got through all that comes before its current operation.
PassedInv ==
  Runs /\ ~dry =>
    \A j \in DOMAIN Operations :
      Precedes(j, position) /\ Operations[j].kind # "detect" => j \in recorded

\* The commands that are left of preparing a manager.
ManagerInHand(manager) ==
  \/ todo = <<Command("install_manager", manager)>> \o Setup(manager)
  \/ todo = Setup(manager) /\ manager \in host.managers
  \/ /\ manager = "snap" /\ "snap" \in host.managers /\ host.socket
     /\ todo = Tail(SnapSetup)
  \/ todo = <<>> /\ ManagerReady(host, manager)

\* The last of the commands of a configuration intent, which has so many.
LastSettings(s, x, all) ==
  Len(s) <= all /\ s = [k \in 1..Len(s) |-> Step("configure", x, all - Len(s) + k)]

SettingsInHand(op) ==
  /\ LastSettings(todo, op.subject, Settings[op.subject])
  /\ todo = <<>> => host.settings[op.subject] = Settings[op.subject]

\* The commands that are left of the current operation.
InHand(op) ==
  IF op.kind = "ensure-manager" THEN ManagerInHand(op.manager)
  ELSE IF op.kind = "configure" /\ ~LeftToUser(op) THEN SettingsInHand(op)
  ELSE todo = Commands(op) \/ (todo = <<>> /\ InEffect(op))

HandInv == begun /\ ~dry => InHand(Current)

AdapterInv == TypeOK /\ PlaceInv /\ DetectedInv /\ PassedInv /\ HandInv /\ RecordedIsInEffect
-----------------------------------------------------------------------------
(* The plan and the way through it.                                        *)

LEMMA OperationsFacts ==
  ASSUME TypeOK
  PROVE  /\ Len(Operations) \in Nat
         /\ DOMAIN Operations = 1..Len(Operations)
         /\ host.platform \in Platforms /\ AdapterPlan(Operations, SourcesOf)
         /\ \A i \in DOMAIN Operations :
              /\ i \in Nat \ {0}
              /\ Operations[i].kind \in PrerequisiteKinds \cup {"detect", "install", "configure"}
              /\ Operations[i].privilege \in {"elevated", "user"}
<1> DEFINE Operation == [kind: PrerequisiteKinds \cup {"detect", "install", "configure"},
                         subject: {Operations[i].subject : i \in DOMAIN Operations},
                         manager: {Operations[i].manager : i \in DOMAIN Operations},
                         privilege: Privilege]
<1>1. host.platform \in Platforms
  BY DEF TypeOK, Host
<1>2. AdapterPlan(Operations, SourcesOf)
  BY <1>1, AdapterAssumption DEF Operations
<1>3. Operations \in Seq(Operation)
  BY <1>2 DEF AdapterPlan
<1>4. /\ Len(Operations) \in Nat /\ DOMAIN Operations = 1..Len(Operations)
      /\ \A i \in DOMAIN Operations : Operations[i] \in Operation /\ i \in Nat \ {0}
  <2> HIDE DEF Operation
  <2> QED BY <1>3
<1>5. \A op \in Operation :
        /\ op.kind \in PrerequisiteKinds \cup {"detect", "install", "configure"}
        /\ op.privilege \in {"elevated", "user"}
  BY DEF Privilege
<1> QED BY <1>1, <1>2, <1>4, <1>5, Zenon

LEMMA PositionIs ==
  ASSUME TypeOK, Runs
  PROVE  position \in DOMAIN Operations
<1>1. Len(Operations) \in Nat /\ DOMAIN Operations = 1..Len(Operations)
  BY OperationsFacts
<1>2. position \in 0..Len(Operations) /\ position # 0
  BY DEF TypeOK, Runs
<1> QED BY <1>1, <1>2

\* Execution has an order: of two operations one is before the other, and the
\* operations before an earlier one are before a later one.
LEMMA PrecedesOrders ==
  ASSUME TypeOK
  PROVE  \A i, j \in DOMAIN Operations :
           /\ i = j \/ Precedes(i, j) \/ Precedes(j, i)
           /\ ~(Precedes(i, j) /\ Precedes(j, i))
           /\ ~Precedes(i, i)
           /\ \A k \in DOMAIN Operations : Precedes(i, j) /\ Precedes(j, k) => Precedes(i, k)
<1>1. \A i \in DOMAIN Operations : i \in Nat /\ Operations[i].privilege \in {"elevated", "user"}
  BY OperationsFacts
<1> QED BY <1>1 DEF Precedes

\* The loop goes on to an operation that none of the others precedes.
LEMMA FirstIs ==
  ASSUME TypeOK, NEW positions \in SUBSET DOMAIN Operations
  PROVE  /\ positions = {} => First(positions) = 0
         /\ positions # {} =>
              /\ First(positions) \in positions
              /\ \A j \in positions : j = First(positions) \/ Precedes(First(positions), j)
<1> DEFINE elevated == {i \in positions : Operations[i].privilege = "elevated"}
<1>1. CASE positions = {}
  BY <1>1 DEF First
<1>2. CASE positions # {} /\ elevated = {}
  <2>1. First(positions) = Min(positions)
    BY <1>2 DEF First
  <2>2. Min(positions) \in positions /\ \A j \in positions : Min(positions) <= j
    BY <1>2, OperationsFacts, FirstPosition
  <2>3. \A j \in positions : Operations[j].privilege = "user" /\ j \in Nat
    BY <1>2, OperationsFacts
  <2> QED BY <1>2, <2>1, <2>2, <2>3 DEF Precedes
<1>3. CASE positions # {} /\ elevated # {}
  <2>1. First(positions) = Min(elevated)
    BY <1>3 DEF First
  <2>2. elevated \in SUBSET (1..Len(Operations))
    BY OperationsFacts
  <2>3. Min(elevated) \in elevated /\ \A j \in elevated : Min(elevated) <= j
    <3> HIDE DEF elevated
    <3> QED BY <1>3, <2>2, OperationsFacts, FirstPosition
  <2>4. \A j \in positions : j \in Nat
    BY OperationsFacts
  <2> QED BY <1>3, <2>1, <2>3, <2>4 DEF Precedes
<1> QED BY <1>1, <1>2, <1>3

LEMMA BeforePrecedes ==
  ASSUME TypeOK, NEW i \in DOMAIN Operations, NEW kind,
         NEW j \in Before(Operations, i, kind)
  PROVE  j \in DOMAIN Operations /\ Precedes(j, i) /\ Operations[j].kind = kind
<1>1. /\ j \in 1..(i - 1) /\ i \in 1..Len(Operations)
      /\ Len(Operations) \in Nat /\ DOMAIN Operations = 1..Len(Operations)
  BY OperationsFacts DEF Before
<1>2. j \in DOMAIN Operations /\ j < i
  BY <1>1
<1> QED BY <1>2 DEF Before, Precedes

\* The operations of a kind that an executor has got through when it is at the i-th.
Past(i, kind) == {j \in DOMAIN Operations : Precedes(j, i) /\ Operations[j].kind = kind}

\* What AdapterAssumption says of the plan for this host, in the order of execution.
LEMMA PlanFacts ==
  ASSUME TypeOK, NEW i \in DOMAIN Operations
  PROVE  LET op == Operations[i]
         IN  /\ op.kind \in {"detect", "install", "ensure-flatpak-remote"}
                /\ op.manager \in {"snap", "flatpak"} =>
                  \E j \in Past(i, "ensure-manager") : Operations[j].manager = op.manager
             /\ op.kind \in {"detect", "install"} => op.subject \in Packages
             /\ op.kind = "install" /\ op.manager = "flatpak" =>
                  \E j \in Past(i, "ensure-flatpak-remote") :
                    Operations[j].privilege = op.privilege
             /\ op.kind = "install" /\ op.manager = "apt-get" /\ SourcesOf[op.subject] # {} =>
                  \E j \in Past(i, "refresh-package-index") : Operations[j].manager = "apt-get"
             /\ op.kind = "refresh-package-index" /\ op.manager = "apt-get" =>
                  \A r \in Repositories :
                    /\ \E j \in Past(i, "ensure-repository-key") : Operations[j].subject = r
                    /\ \E j \in Past(i, "ensure-apt-repository") : Operations[j].subject = r
             /\ op.kind \in {"ensure-repository-key", "ensure-apt-repository"} =>
                  /\ op.subject \in Repositories
                  /\ \A j \in DOMAIN Operations :
                       Operations[j].kind = op.kind /\ Operations[j].subject = op.subject => j = i
<1>1. AdapterPlan(Operations, SourcesOf)
  BY OperationsFacts
<1>2. \A kind : Before(Operations, i, kind) \subseteq Past(i, kind)
  BY BeforePrecedes DEF Past
<1> QED BY <1>1, <1>2, SMTT(60) DEF AdapterPlan, Repositories, Packages

\* An operation that has been passed in a real run is recorded, and so in effect.
LEMMA PastIsInEffect ==
  ASSUME TypeOK, PassedInv, RecordedIsInEffect, Runs, ~dry,
         NEW kind \in PrerequisiteKinds, NEW j \in Past(position, kind)
  PROVE  j \in recorded /\ Operations[j].kind = kind /\ InEffect(Operations[j])
BY DEF Past, PassedInv, RecordedIsInEffect, PrerequisiteKinds

-----------------------------------------------------------------------------
(* What a step does to the host.                                           *)

\* What an operation that has no record may do to a host: nothing is lost but the
\* files it writes itself, and the index is only renewed.
Keeps(new) ==
  /\ new \in Host /\ new.platform = host.platform /\ new.native = host.native
  /\ host.managers \subseteq new.managers /\ host.remotes \subseteq new.remotes
  /\ (host.socket => new.socket) /\ (host.mount => new.mount) /\ (host.seeded => new.seeded)
  /\ \A p \in Packages : host.packages[p] = "installed" => new.packages[p] = "installed"
  /\ \A x \in Intents : host.settings[x] <= new.settings[x]
  /\ \A r \in Repositories :
       host.keys[r] = "verified" /\ new.keys[r] # "verified" =>
         Current.kind = "ensure-repository-key" /\ Current.subject = r
  /\ \A r \in host.sources :
       r \notin new.sources => Current.kind = "ensure-apt-repository" /\ Current.subject = r
  /\ \/ host.index \subseteq new.index
     \/ Current.kind = "refresh-package-index" /\ Current.manager = "apt-get"
        /\ new.index = host.sources

\* An executor in front of a refresh has every source of the plan on the host, with
\* its key.
LEMMA SourcesAreReady ==
  ASSUME TypeOK, PassedInv, RecordedIsInEffect, Runs, ~dry,
         Current.kind = "refresh-package-index", Current.manager = "apt-get"
  PROVE  \A r \in Repositories : r \in host.sources /\ host.keys[r] = "verified"
<1> SUFFICES ASSUME NEW r \in Repositories
             PROVE  r \in host.sources /\ host.keys[r] = "verified"
  OBVIOUS
<1>1. position \in DOMAIN Operations
  BY PositionIs
<1>2. PICK k \in Past(position, "ensure-repository-key") : Operations[k].subject = r
  BY <1>1, PlanFacts DEF Current
<1>3. PICK j \in Past(position, "ensure-apt-repository") : Operations[j].subject = r
  BY <1>1, PlanFacts DEF Current
<1>4. InEffect(Operations[k]) /\ Operations[k].kind = "ensure-repository-key"
  BY <1>2, PastIsInEffect DEF PrerequisiteKinds
<1>5. InEffect(Operations[j]) /\ Operations[j].kind = "ensure-apt-repository"
  BY <1>3, PastIsInEffect DEF PrerequisiteKinds
<1> QED BY <1>2, <1>3, <1>4, <1>5 DEF InEffect

\* What is recorded stays in effect while an operation without a record is at work.
LEMMA RecordedIsKept ==
  ASSUME TypeOK, PlaceInv, PassedInv, RecordedIsInEffect, Runs, ~dry,
         position \notin recorded, Keeps(host'), NEW i \in recorded
  PROVE  InEffect(Operations[i])'
<1> DEFINE op == Operations[i]
<1>1. Operations' = Operations
  BY DEF Keeps, Operations
<1>2. i \in DOMAIN Operations /\ position \in DOMAIN Operations /\ InEffect(op)
  BY PositionIs DEF TypeOK, RecordedIsInEffect
<1>3. op.kind \in PrerequisiteKinds \cup {"detect", "install", "configure"}
  BY <1>2, OperationsFacts
<1>4. CASE op.kind = "ensure-manager"
  BY <1>1, <1>2, <1>4 DEF InEffect, ManagerReady, Keeps
<1>5. CASE op.kind = "ensure-flatpak-remote"
  BY <1>1, <1>2, <1>5 DEF InEffect, Keeps
<1>6. CASE op.kind \in {"ensure-repository-key", "ensure-apt-repository"}
  <2>1. op.subject \in Repositories
    BY <1>2, <1>6, PlanFacts
  <2>2. ~(Current.kind = op.kind /\ Current.subject = op.subject)
    BY <1>2, <1>6, PlanFacts DEF Current
  <2> QED BY <1>1, <1>2, <1>6, <2>1, <2>2 DEF InEffect, Keeps
<1>7. CASE op.kind = "refresh-package-index"
  <2>1. CASE host.index \subseteq (host').index
    BY <1>1, <1>2, <1>7, <2>1 DEF InEffect
  <2>2. CASE /\ Current.kind = "refresh-package-index" /\ Current.manager = "apt-get"
             /\ (host').index = host.sources
    <3>1. \A k \in DOMAIN Operations :
            Operations[k].kind = "ensure-apt-repository" => Operations[k].subject \in host.sources
      BY <2>2, SourcesAreReady, PlanFacts
    <3> QED BY <1>1, <1>7, <2>2, <3>1 DEF InEffect
  <2> QED BY <2>1, <2>2 DEF Keeps
<1>8. CASE op.kind \in {"detect", "install"}
  <2>1. op.subject \in Packages
    BY <1>2, <1>8, PlanFacts
  <2> QED BY <1>1, <1>2, <1>8, <2>1 DEF InEffect, Keeps
<1>9. CASE op.kind = "configure"
  <2>1. op.subject \in Intents
    BY <1>9 DEF PlaceInv
  <2>2. Settings[op.subject] \in Nat /\ host.settings[op.subject] \in Nat
        /\ (host').settings[op.subject] \in Nat
        /\ (host').settings[op.subject] <= Settings[op.subject]
    BY <2>1, AdapterAssumption DEF Keeps, TypeOK, Host
  <2>3. host.settings[op.subject] <= (host').settings[op.subject]
    BY <2>1 DEF Keeps
  <2> QED BY <1>1, <1>2, <1>9, <2>2, <2>3 DEF InEffect
<1> QED BY <1>3, <1>4, <1>5, <1>6, <1>7, <1>8, <1>9 DEF PrerequisiteKinds
-----------------------------------------------------------------------------
(* The commands of an operation.                                           *)

\* The commands the current operation may be made of.
Issued(command) ==
  \/ /\ Current.kind = "ensure-manager"
     /\ \/ command = Command("install_manager", Current.manager)
        \/ command = Command("enable_socket", "snap")
        \/ command = Command("symlink", "snap")
        \/ command = Command("wait_for_seed", "snap")
  \/ Current.kind = "ensure-flatpak-remote" /\ command = Command("remote-add", Current.privilege)
  \/ Current.kind = "ensure-repository-key" /\ command = Command("write_key", Current.subject)
  \/ Current.kind = "ensure-apt-repository" /\ command = Command("write_source", Current.subject)
  \/ /\ Current.kind = "refresh-package-index"
     /\ command = IF Current.manager = "dnf" THEN Command("makecache", "dnf")
                  ELSE Command("update", "apt-get")
  \/ Current.kind = "install" /\ command = Command("install", Current.subject)
  \/ /\ Current.kind = "configure"
     /\ \E k \in 1..Settings[Current.subject] : command = Step("configure", Current.subject, k)

LEMMA MaxOfTwo ==
  ASSUME NEW a \in Nat, NEW b \in Nat
  PROVE  Max({a, b}) \in {a, b} /\ Max({a, b}) >= a /\ Max({a, b}) >= b
<1>1. \E m \in {a, b} : \A y \in {a, b} : m >= y
  OBVIOUS
<1> QED BY <1>1 DEF Max

LEMMA SettingsEffect ==
  ASSUME NEW h \in Host, NEW x \in Intents, NEW n \in Nat
  PROVE  Effect(h, Step("configure", x, n)).settings[x] >= n
<1>1. Effect(h, Step("configure", x, n)) = [h EXCEPT !.settings[x] = Max({h.settings[x], n})]
  BY DEF Effect, Step
<1>2. h.settings[x] \in Nat /\ h.settings \in [Intents -> Nat]
  BY DEF Host
<1>3. Effect(h, Step("configure", x, n)).settings[x] = Max({h.settings[x], n})
  BY <1>1, <1>2 DEF Host
<1> QED BY <1>2, <1>3, MaxOfTwo

\* What Valid and the plan say of the operation that has begun.
LEMMA CurrentFacts ==
  ASSUME TypeOK, PlaceInv, begun
  PROVE  /\ Runs /\ position \in DOMAIN Operations /\ position \notin recorded
         /\ Current = Operations[position] /\ Valid(Current)
         /\ Current.kind \in PrerequisiteKinds \cup {"detect", "install", "configure"}
         /\ Current.privilege \in {"elevated", "user"}
         /\ Current.kind = "ensure-manager" => Current.manager \in {"snap", "flatpak"}
         /\ Current.kind \in {"ensure-repository-key", "ensure-apt-repository"} =>
              Current.subject \in Repositories
         /\ Current.kind \in {"detect", "install"} => Current.subject \in Packages
         /\ Current.kind = "configure" =>
              Current.subject \in Intents /\ Settings[Current.subject] \in Nat
         /\ Current.kind = "refresh-package-index" => Current.manager = Native(host)
<1>1. /\ Runs /\ position \in DOMAIN Operations /\ position \notin recorded
      /\ Current = Operations[position] /\ Valid(Current)
  BY PositionIs DEF PlaceInv, Current
<1>2. /\ Current.kind \in PrerequisiteKinds \cup {"detect", "install", "configure"}
      /\ Current.privilege \in {"elevated", "user"}
  BY <1>1, OperationsFacts
<1>3. /\ Current.kind \in {"ensure-repository-key", "ensure-apt-repository"} =>
           Current.subject \in Repositories
      /\ Current.kind \in {"detect", "install"} => Current.subject \in Packages
  BY <1>1, PlanFacts
<1>4. /\ Current.kind = "ensure-manager" => Current.manager \in {"snap", "flatpak"}
      /\ Current.kind = "refresh-package-index" => Current.manager = Native(host)
      /\ Current.kind = "configure" => Current.subject \in Intents
  BY <1>1 DEF Valid
<1>5. Current.kind = "configure" => Settings[Current.subject] \in Nat
  BY <1>4, AdapterAssumption
<1> QED BY <1>1, <1>2, <1>3, <1>4, <1>5

LEMMA CommandIs ==
  /\ \A verb, object, n : /\ Step(verb, object, n).verb = verb
                         /\ Step(verb, object, n).object = object
                         /\ Step(verb, object, n).number = n
  /\ \A verb, object : /\ Command(verb, object).verb = verb
                       /\ Command(verb, object).object = object
                       /\ Command(verb, object).number = 1
BY DEF Command, Step

LEMMA EffectIs ==
  ASSUME NEW h, NEW object
  PROVE  /\ Effect(h, Command("install_manager", object)) = [h EXCEPT !.managers = @ \cup {object}]
         /\ Effect(h, Command("enable_socket", object)) = [h EXCEPT !.socket = TRUE]
         /\ Effect(h, Command("symlink", object)) = [h EXCEPT !.mount = TRUE]
         /\ Effect(h, Command("wait_for_seed", object)) = [h EXCEPT !.seeded = TRUE]
         /\ Effect(h, Command("remote-add", object)) = [h EXCEPT !.remotes = @ \cup {object}]
         /\ Effect(h, Command("write_key", object)) = [h EXCEPT !.keys[object] = "verified"]
         /\ Effect(h, Command("write_source", object)) = [h EXCEPT !.sources = @ \cup {object}]
         /\ Effect(h, Command("makecache", object)) = h
         /\ Effect(h, Command("install", object)) = [h EXCEPT !.packages[object] = "installed"]
         /\ \A k : Effect(h, Step("configure", object, k)) =
                    [h EXCEPT !.settings[object] = Max({h.settings[object], k})]
BY DEF Effect, Command, Step

LEMMA UpdateIs ==
  ASSUME NEW h \in Host, NEW object
  PROVE  LET new == Effect(h, Command("update", object))
         IN  /\ new \in Host /\ new.index = h.sources
             /\ new = [h EXCEPT !.index = h.sources, !.lists = TRUE]
<1> DEFINE new == Effect(h, Command("update", object))
           listed == [h EXCEPT !.lists = TRUE]
<1>1. new = [h EXCEPT !.index = h.sources, !.lists = TRUE]
  BY DEF Effect, Command, Step
<1>2. listed \in Host
  BY DEF Host
<1>3. new = [listed EXCEPT !.index = h.sources] /\ h.sources \in SUBSET Repositories
  BY <1>1 DEF Host
<1>4. new \in Host /\ new.index = h.sources
  <2> HIDE DEF listed, new
  <2> QED BY <1>2, <1>3 DEF Host
<1> QED BY <1>1, <1>4

LEMMA IssuedIs ==
  ASSUME NEW command, Issued(command)
  PROVE  /\ Current.kind = "ensure-flatpak-remote" =>
              command = Command("remote-add", Current.privilege)
         /\ Current.kind = "ensure-repository-key" =>
              command = Command("write_key", Current.subject)
         /\ Current.kind = "ensure-apt-repository" =>
              command = Command("write_source", Current.subject)
         /\ Current.kind = "refresh-package-index" =>
              command = IF Current.manager = "dnf" THEN Command("makecache", "dnf")
                        ELSE Command("update", "apt-get")
         /\ Current.kind = "install" => command = Command("install", Current.subject)
         /\ Current.kind # "detect"
BY DEF Issued

LEMMA IssuedVerb ==
  ASSUME NEW command, Issued(command)
  PROVE  /\ command.verb = "install" => Current.kind = "install"
         /\ command.verb = "write_key" => Current.kind = "ensure-repository-key"
         /\ command.verb = "write_source" => Current.kind = "ensure-apt-repository"
BY DEF Issued, Command, Step

\* A command of an operation without a record loses nothing, when it succeeds ...
LEMMA EffectKeeps ==
  ASSUME TypeOK, PlaceInv, begun, NEW command, Issued(command)
  PROVE  Keeps(Effect(host, command))
<1> DEFINE new == Effect(host, command)
<1>1. host \in Host
  BY DEF TypeOK
<1>2. /\ \A p \in Packages : host.packages[p] \in {"absent", "partial", "installed"}
      /\ \A x \in Intents : host.settings[x] \in Nat
  BY <1>1 DEF Host
<1>3. CASE Current.kind = "ensure-manager"
  <2>1. Keeps(host)
    BY <1>1, <1>2 DEF Keeps
  <2>2. CASE command = Command("install_manager", Current.manager)
    <3>1. Effect(host, command) = [host EXCEPT !.managers = @ \cup {Current.manager}]
      BY <2>2 DEF Effect, Command, Step
    <3> QED BY <1>1, <1>2, <1>3, <3>1, CurrentFacts DEF Keeps, Host
  <2>3. CASE command = Command("enable_socket", "snap")
    <3>1. Effect(host, command) = [host EXCEPT !.socket = TRUE]
      BY <2>3 DEF Effect, Command, Step
    <3>2. \A b \in BOOLEAN : [host EXCEPT !.socket = b] \in Host
      BY <1>1 DEF Host
    <3>3. new \in Host
      BY <3>1, <3>2
    <3> QED BY <1>1, <1>2, <3>1, <3>3 DEF Keeps, Host
  <2>4. CASE command = Command("symlink", "snap")
    <3>1. Effect(host, command) = [host EXCEPT !.mount = TRUE]
      BY <2>4 DEF Effect, Command, Step
    <3>2. \A b \in BOOLEAN : [host EXCEPT !.mount = b] \in Host
      BY <1>1 DEF Host
    <3>3. new \in Host
      BY <3>1, <3>2
    <3> QED BY <1>1, <1>2, <3>1, <3>3 DEF Keeps, Host
  <2>5. CASE command = Command("wait_for_seed", "snap")
    <3>1. Effect(host, command) = [host EXCEPT !.seeded = TRUE]
      BY <2>5 DEF Effect, Command, Step
    <3>2. \A b \in BOOLEAN : [host EXCEPT !.seeded = b] \in Host
      BY <1>1 DEF Host
    <3>3. new \in Host
      BY <3>1, <3>2
    <3> QED BY <1>1, <1>2, <3>1, <3>3 DEF Keeps, Host
  <2> QED BY <1>3, <2>2, <2>3, <2>4, <2>5 DEF Issued
<1>4. CASE Current.kind = "ensure-flatpak-remote"
  <2>1. command.verb = "remote-add" /\ command.object = Current.privilege
    BY <1>4, IssuedIs, CommandIs
  <2>2. Effect(host, command) = [host EXCEPT !.remotes = @ \cup {Current.privilege}]
    BY <2>1 DEF Effect
  <2> QED BY <1>1, <1>2, <1>4, <2>2, CurrentFacts DEF Keeps, Host
<1>5. CASE Current.kind = "ensure-repository-key"
  <2>1. command.verb = "write_key" /\ command.object = Current.subject
    BY <1>5, IssuedIs, CommandIs
  <2>2. Effect(host, command) = [host EXCEPT !.keys[Current.subject] = "verified"]
    BY <2>1 DEF Effect
  <2> QED BY <1>1, <1>2, <1>5, <2>2, CurrentFacts DEF Keeps, Host
<1>6. CASE Current.kind = "ensure-apt-repository"
  <2>1. command.verb = "write_source" /\ command.object = Current.subject
    BY <1>6, IssuedIs, CommandIs
  <2>2. Effect(host, command) = [host EXCEPT !.sources = @ \cup {Current.subject}]
    BY <2>1 DEF Effect
  <2> QED BY <1>1, <1>2, <1>6, <2>2, CurrentFacts DEF Keeps, Host
<1>7. CASE Current.kind = "refresh-package-index"
  <2>1. CASE Current.manager = "dnf"
    <3>1. Effect(host, command) = host
      <4>1. command = Command("makecache", "dnf")
        BY <1>7, <2>1, IssuedIs
      <4>2. command.verb = "makecache"
        BY <4>1, CommandIs
      <4> QED BY <4>2 DEF Effect
    <3> QED BY <1>1, <1>2, <3>1 DEF Keeps
  <2>2. CASE Current.manager # "dnf"
    <3>1. command = Command("update", "apt-get")
      BY <1>7, <2>2, IssuedIs
    <3>2. /\ new \in Host /\ new.index = host.sources
          /\ new = [host EXCEPT !.index = host.sources, !.lists = TRUE]
      BY <1>1, <3>1, UpdateIs
    <3>3. Current.manager = "apt-get"
      BY <1>7, <2>2, CurrentFacts DEF Native
    <3>4. /\ new.platform = host.platform /\ new.native = host.native
          /\ new.managers = host.managers /\ new.remotes = host.remotes
          /\ new.socket = host.socket /\ new.mount = host.mount /\ new.seeded = host.seeded
          /\ new.packages = host.packages /\ new.settings = host.settings
          /\ new.keys = host.keys /\ new.sources = host.sources
      BY <1>1, <3>2 DEF Host
    <3>5. \A x \in Intents : host.settings[x] \in Nat
      BY <1>1 DEF Host
    <3> QED BY <1>7, <3>2, <3>3, <3>4, <3>5 DEF Keeps
  <2> QED BY <2>1, <2>2
<1>8. CASE Current.kind = "install"
  <2>1. command.verb = "install" /\ command.object = Current.subject
    BY <1>8, IssuedIs, CommandIs
  <2>2. Effect(host, command) = [host EXCEPT !.packages[Current.subject] = "installed"]
    BY <2>1 DEF Effect
  <2> QED BY <1>1, <1>2, <1>8, <2>2, CurrentFacts DEF Keeps, Host
<1>9. CASE Current.kind = "configure"
  <2> DEFINE x == Current.subject
  <2>1. PICK k \in 1..Settings[x] : command = Step("configure", x, k)
    BY <1>9 DEF Issued
  <2>2. x \in Intents /\ Settings[x] \in Nat /\ host.settings[x] \in 0..Settings[x]
    BY <1>1, <1>9, CurrentFacts DEF Host
  <2>3. /\ Max({host.settings[x], k}) \in 0..Settings[x]
        /\ Max({host.settings[x], k}) >= host.settings[x]
    BY <2>2, MaxOfTwo
  <2>4. new = [host EXCEPT !.settings[x] = Max({host.settings[x], k})]
    BY <2>1 DEF Effect, Step
  <2> DEFINE settings == [host.settings EXCEPT ![x] = Max({host.settings[x], k})]
  <2>5. new = [host EXCEPT !.settings = settings]
    BY <2>4
  <2>6. /\ settings \in [Intents -> Nat]
        /\ \A y \in Intents : settings[y] <= Settings[y] /\ host.settings[y] <= settings[y]
    <3> DEFINE before == host.settings
               m == Max({host.settings[x], k})
    <3>1. /\ before \in [Intents -> Nat] /\ \A y \in Intents : before[y] <= Settings[y]
          /\ Settings \in [Intents -> Nat]
      BY <1>1, AdapterAssumption DEF Host
    <3>2. m \in Nat /\ m <= Settings[x] /\ m >= before[x]
      BY <2>2, <2>3
    <3>3. settings = [before EXCEPT ![x] = m]
      OBVIOUS
    <3> HIDE DEF before, m, x, settings
    <3>4. settings \in [Intents -> Nat]
      BY <2>2, <3>1, <3>2, <3>3
    <3>5. \A y \in Intents : settings[y] = IF y = x THEN m ELSE before[y]
      BY <2>2, <3>1, <3>3
    <3>6. \A y \in Intents : settings[y] <= Settings[y] /\ before[y] <= settings[y]
      BY <3>1, <3>2, <3>5
    <3> QED BY <3>4, <3>6 DEF before
  <2> HIDE DEF x, new, settings
  <2>7. new \in Host
    BY <1>1, <2>5, <2>6 DEF Host
  <2>8. /\ new.platform = host.platform /\ new.native = host.native
        /\ new.managers = host.managers /\ new.remotes = host.remotes
        /\ (host.socket => new.socket) /\ (host.mount => new.mount) /\ (host.seeded => new.seeded)
        /\ new.packages = host.packages /\ new.keys = host.keys
        /\ new.sources = host.sources /\ new.index = host.index /\ new.settings = settings
    BY <1>1, <2>5 DEF Host
  <2>9. Keeps(new)
    BY <2>6, <2>7, <2>8 DEF Keeps
  <2> QED BY <2>9 DEF new
<1> QED BY <1>3, <1>4, <1>5, <1>6, <1>7, <1>8, <1>9 DEF Issued

\* ... and when it fails.
LEMMA RemainsKeeps ==
  ASSUME TypeOK, PlaceInv, begun, NEW command, Issued(command),
         NEW new \in Remains(host, command, Current)
  PROVE  Keeps(new)
<1>1. host \in Host
  BY DEF TypeOK
<1>2. /\ \A p \in Packages : host.packages[p] \in {"absent", "partial", "installed"}
      /\ \A x \in Intents : host.settings[x] \in Nat
  BY <1>1 DEF Host
<1>3. Keeps(host)
  BY <1>1, <1>2 DEF Keeps
<1>4. Keeps(Effect(host, command))
  BY EffectKeeps
<1>5. ASSUME Current.kind = "install", host.packages[Current.subject] = "absent",
             new = [host EXCEPT !.packages[Current.subject] = "partial"]
      PROVE  Keeps(new)
  BY <1>1, <1>2, <1>5, CurrentFacts DEF Keeps, Host
<1>6. ASSUME Current.kind = "ensure-repository-key",
             new = [host EXCEPT !.keys[Current.subject] = "absent"]
      PROVE  Keeps(new)
  BY <1>1, <1>2, <1>6, CurrentFacts DEF Keeps, Host
<1>7. ASSUME Current.kind = "ensure-apt-repository",
             new = [host EXCEPT !.sources = @ \ {Current.subject}]
      PROVE  Keeps(new)
  BY <1>1, <1>2, <1>7, CurrentFacts DEF Keeps, Host
<1>8. \/ new = host
      \/ new = Effect(host, command)
      \/ /\ command.verb = "install" /\ host.packages[Current.subject] = "absent"
         /\ new = [host EXCEPT !.packages[Current.subject] = "partial"]
      \/ command.verb = "write_key" /\ new = [host EXCEPT !.keys[Current.subject] = "absent"]
      \/ /\ command.verb = "write_source"
         /\ new = [host EXCEPT !.sources = @ \ {Current.subject}]
  BY DEF Remains
<1>9. /\ command.verb = "install" => Current.kind = "install"
      /\ command.verb = "write_key" => Current.kind = "ensure-repository-key"
      /\ command.verb = "write_source" => Current.kind = "ensure-apt-repository"
  BY IssuedVerb
<1> QED BY <1>3, <1>4, <1>5, <1>6, <1>7, <1>8, <1>9
-----------------------------------------------------------------------------
(* What is left of the operation.                                          *)

LEMMA Prepended ==
  ASSUME NEW S, NEW a \in S, NEW s \in Seq(S)
  PROVE  /\ <<a>> \o s \in Seq(S) /\ <<a>> \o s # <<>>
         /\ Head(<<a>> \o s) = a /\ Tail(<<a>> \o s) = s
<1>1. /\ <<a>> \o s \in Seq(S) /\ Len(<<a>> \o s) = Len(s) + 1
      /\ \A i \in 1..(Len(s) + 1) : (<<a>> \o s)[i] = IF i = 1 THEN a ELSE s[i - 1]
  OBVIOUS
<1>2. <<a>> \o s # <<>> /\ Head(<<a>> \o s) = a
  BY <1>1
<1>3. /\ Tail(<<a>> \o s) \in Seq(S) /\ Len(Tail(<<a>> \o s)) = Len(s)
      /\ \A i \in 1..Len(s) : Tail(<<a>> \o s)[i] = s[i]
  BY <1>1, <1>2
<1>4. Tail(<<a>> \o s) = s
  BY <1>3, SeqEqual
<1> QED BY <1>1, <1>2, <1>4

LEMMA SetupType ==
  ASSUME NEW manager
  PROVE  Setup(manager) \in Seq(NativeCommand)
<1>1. /\ Command("enable_socket", "snap") \in NativeCommand /\ Command("symlink", "snap") \in NativeCommand
      /\ Command("wait_for_seed", "snap") \in NativeCommand
  BY DEF Command, Step, NativeCommand, Managers
<1> QED BY <1>1 DEF Setup, SnapSetup

\* What a manager is given to do first, and then.
LEMMA SetupIs ==
  /\ SnapSetup # <<>> /\ Head(SnapSetup) = Command("enable_socket", "snap")
  /\ IF host.platform = "fedora" /\ ~host.mount
     THEN Tail(SnapSetup) = <<Command("symlink", "snap"), Command("wait_for_seed", "snap")>>
     ELSE Tail(SnapSetup) = <<Command("wait_for_seed", "snap")>>
BY DEF SnapSetup

\* The commands an operation begins with.
LEMMA CommandsType ==
  ASSUME TypeOK, PlaceInv, Runs, Valid(Current)
  PROVE  Commands(Current) \in Seq(NativeCommand)
<1>1. /\ position \in DOMAIN Operations /\ Current = Operations[position]
      /\ Current.kind \in PrerequisiteKinds \cup {"detect", "install", "configure"}
      /\ Current.privilege \in {"elevated", "user"}
  BY PositionIs, OperationsFacts DEF Current
<1>2. <<>> \in Seq(NativeCommand)
  OBVIOUS
<1>3. CASE Current.kind = "ensure-manager"
  <2>1. Command("install_manager", Current.manager) \in NativeCommand
    BY <1>3 DEF Valid, Command, Step, NativeCommand, Managers
  <2>2. ManagerCommands(Current) \in Seq(NativeCommand)
    BY <2>1, SetupType, Prepended DEF ManagerCommands
  <2> QED BY <1>3, <2>2 DEF Commands
<1>4. CASE Current.kind = "ensure-flatpak-remote"
  <2>1. Command("remote-add", Current.privilege) \in NativeCommand
    BY <1>1 DEF Command, Step, NativeCommand
  <2> QED BY <1>4, <2>1 DEF Commands
<1>5. CASE Current.kind \in {"ensure-repository-key", "ensure-apt-repository", "install"}
  <2>1. Current.subject \in Repositories \cup Packages
    BY <1>1, <1>5, PlanFacts
  <2>2. \A verb \in {"write_key", "write_source", "install"} :
          Command(verb, Current.subject) \in NativeCommand
    BY <2>1 DEF Command, Step, NativeCommand
  <2> QED BY <1>5, <2>2 DEF Commands
<1>6. CASE Current.kind = "refresh-package-index"
  <2>1. Command("makecache", "dnf") \in NativeCommand /\ Command("update", "apt-get") \in NativeCommand
    BY DEF Command, Step, NativeCommand, Managers
  <2> QED BY <1>6, <2>1 DEF Commands
<1>7. CASE Current.kind = "configure" /\ ~LeftToUser(Current)
  <2>1. Settings[Current.subject] \in Nat /\ Current.subject \in Intents
    BY <1>7, AdapterAssumption DEF Valid
  <2>2. \A k \in 1..Settings[Current.subject] :
          Step("configure", Current.subject, k) \in NativeCommand
    BY <2>1 DEF Step, NativeCommand
  <2> QED BY <1>7, <2>1, <2>2 DEF Commands
<1>8. CASE Current.kind = "detect" \/ LeftToUser(Current)
  BY <1>2, <1>8 DEF Commands, LeftToUser
<1> QED BY <1>1, <1>3, <1>4, <1>5, <1>6, <1>7, <1>8 DEF PrerequisiteKinds

\* An operation begins with all of its commands left.
LEMMA HandBegins ==
  ASSUME TypeOK, PlaceInv, Runs, Valid(Current),
         todo' = Commands(Current), UNCHANGED <<host, position>>
  PROVE  InHand(Current)'
<1> DEFINE op == Current
<1>1. Current' = Current
  BY DEF Current, Operations
<1>2. CASE op.kind = "ensure-manager"
  <2>1. todo' = ManagerCommands(op)
    BY <1>2 DEF Commands
  <2>2. Setup(op.manager)' = Setup(op.manager)
    BY <1>1 DEF Setup, SnapSetup
  <2>3. ManagerInHand(op.manager)'
    BY <1>1, <2>1, <2>2 DEF ManagerInHand, ManagerCommands
  <2> QED BY <1>1, <1>2, <2>3 DEF InHand
<1>3. CASE op.kind = "configure" /\ ~LeftToUser(op)
  <2> DEFINE all == Settings[op.subject]
  <2>1. op.subject \in Intents /\ all \in Nat /\ host.settings[op.subject] \in 0..all
    BY <1>3, AdapterAssumption DEF Valid, TypeOK, Host
  <2>2. todo' = [k \in 1..all |-> Step("configure", op.subject, k)]
    BY <1>3 DEF Commands
  <2> HIDE DEF all, op
  <2>3. Len(todo') = all
    BY <2>1, <2>2
  <2>4. LastSettings(todo', op.subject, all)
    BY <2>1, <2>2, <2>3 DEF LastSettings
  <2>5. todo' = <<>> => host.settings[op.subject] = all
    BY <2>1, <2>3
  <2> USE DEF all, op
  <2>6. SettingsInHand(op)'
    BY <1>1, <2>1, <2>3, <2>4, <2>5 DEF SettingsInHand
  <2> QED BY <1>1, <1>3, <2>6 DEF InHand, LeftToUser
<1>4. CASE op.kind # "ensure-manager" /\ ~(op.kind = "configure" /\ ~LeftToUser(op))
  BY <1>1, <1>4 DEF InHand, LeftToUser, Commands
<1> QED BY <1>2, <1>3, <1>4

\* When nothing is left the operation has done what it was for.
LEMMA HandEnds ==
  ASSUME TypeOK, PlaceInv, begun, InHand(Current), todo = <<>>, Current.kind # "detect"
  PROVE  InEffect(Current)
<1>1. CASE Current.kind = "ensure-manager"
  <2> DEFINE manager == Current.manager
  <2>1. manager \in {"snap", "flatpak"} /\ ManagerInHand(manager)
    BY <1>1, CurrentFacts DEF InHand
  <2>2. Command("install_manager", manager) \in NativeCommand
    BY <2>1 DEF Command, Step, NativeCommand, Managers
  <2>3. todo # <<Command("install_manager", manager)>> \o Setup(manager)
    BY <2>2, SetupType, Prepended
  <2>4. todo # Tail(SnapSetup)
    BY SetupIs
  <2>5. todo = Setup(manager) => manager = "flatpak"
    BY <2>1, SetupIs DEF Setup
  <2>6. ManagerReady(host, manager)
    BY <2>1, <2>3, <2>4, <2>5 DEF ManagerInHand, ManagerReady
  <2> QED BY <1>1, <2>6 DEF InEffect
<1>2. CASE Current.kind = "configure" /\ ~LeftToUser(Current)
  BY <1>2 DEF InHand, SettingsInHand, InEffect
<1>3. CASE Current.kind = "configure" /\ LeftToUser(Current)
  BY <1>3 DEF LeftToUser, InEffect
<1>4. CASE Current.kind \notin {"ensure-manager", "configure"}
  <2>1. Commands(Current) # <<>>
    BY <1>4, CurrentFacts DEF Commands, LeftToUser, PrerequisiteKinds
  <2> QED BY <1>4, <2>1 DEF InHand
<1> QED BY <1>1, <1>2, <1>3, <1>4

LEMMA SequenceIs ==
  ASSUME NEW S, NEW t \in Seq(S)
  PROVE  t = [k \in 1..Len(t) |-> t[k]] /\ Len(t) \in Nat /\ (t = <<>> <=> Len(t) = 0)
OBVIOUS

\* The first of the commands that are left of an intent, and those after it.
LEMMA SettingsTail ==
  ASSUME NEW x, NEW all \in Nat, NEW s \in Seq(NativeCommand), s # <<>>,
         LastSettings(s, x, all)
  PROVE  /\ LastSettings(Tail(s), x, all)
         /\ \E n \in 1..all : Head(s) = Step("configure", x, n) /\ (Tail(s) = <<>> => n = all)
<1>1. Len(s) \in Nat /\ Len(s) # 0
  OBVIOUS
<1>2. Len(s) <= all /\ \A k \in 1..Len(s) : s[k] = Step("configure", x, all - Len(s) + k)
  BY DEF LastSettings
<1>3. /\ Tail(s) \in Seq(NativeCommand) /\ Len(Tail(s)) = Len(s) - 1
      /\ \A k \in 1..(Len(s) - 1) : Tail(s)[k] = s[k + 1]
  BY <1>1
<1>4. \A k \in 1..Len(Tail(s)) : Tail(s)[k] = Step("configure", x, all - Len(Tail(s)) + k)
  <2> TAKE k \in 1..Len(Tail(s))
  <2>1. k + 1 \in 1..Len(s) /\ all - Len(s) + (k + 1) = all - Len(Tail(s)) + k
    BY <1>1, <1>3
  <2> QED BY <1>2, <1>3, <2>1
<1>5. Tail(s) = [k \in 1..Len(Tail(s)) |-> Tail(s)[k]] /\ (Tail(s) = <<>> <=> Len(Tail(s)) = 0)
  BY <1>3, SequenceIs
<1>6. Head(s) = Step("configure", x, all - Len(s) + 1)
  BY <1>1, <1>2
<1>7. Tail(s) = <<>> => Len(s) = 1
  BY <1>1, <1>3, <1>5
<1>8. LastSettings(Tail(s), x, all)
  BY <1>1, <1>2, <1>3, <1>4, <1>5 DEF LastSettings
<1>9. all - Len(s) + 1 \in 1..all /\ (Tail(s) = <<>> => all - Len(s) + 1 = all)
  BY <1>1, <1>2, <1>7
<1> QED BY <1>6, <1>8, <1>9

\* The command at the head is one of the operation's.
LEMMA HandHead ==
  ASSUME TypeOK, PlaceInv, begun, InHand(Current), todo # <<>>
  PROVE  Issued(Head(todo))
<1>1. CASE Current.kind = "ensure-manager"
  <2> DEFINE manager == Current.manager
  <2>1. manager \in {"snap", "flatpak"} /\ ManagerInHand(manager)
    BY <1>1, CurrentFacts DEF InHand
  <2>2. Command("install_manager", manager) \in NativeCommand
    BY <2>1 DEF Command, Step, NativeCommand, Managers
  <2>3. CASE todo = <<Command("install_manager", manager)>> \o Setup(manager)
    <3>1. Head(todo) = Command("install_manager", manager)
      BY <2>2, <2>3, SetupType, Prepended
    <3> QED BY <1>1, <3>1 DEF Issued
  <2>4. CASE todo = Setup(manager)
    <3>1. Head(todo) = Command("enable_socket", "snap")
      BY <2>4, SetupIs DEF Setup
    <3> QED BY <1>1, <3>1 DEF Issued
  <2>5. CASE todo = Tail(SnapSetup)
    <3>1. CASE todo = <<Command("symlink", "snap"), Command("wait_for_seed", "snap")>>
      <4>1. Head(todo) = Command("symlink", "snap")
        BY <3>1
      <4> QED BY <1>1, <4>1 DEF Issued
    <3>2. CASE todo = <<Command("wait_for_seed", "snap")>>
      <4>1. Head(todo) = Command("wait_for_seed", "snap")
        BY <3>2
      <4> QED BY <1>1, <4>1 DEF Issued
    <3> QED BY <2>5, <3>1, <3>2, SetupIs
  <2> QED BY <2>1, <2>3, <2>4, <2>5 DEF ManagerInHand
<1>2. CASE Current.kind = "configure" /\ ~LeftToUser(Current)
  <2>1. Settings[Current.subject] \in Nat /\ todo \in Seq(NativeCommand)
    BY <1>2, CurrentFacts DEF TypeOK
  <2>2. SettingsInHand(Current)
    BY <1>2 DEF InHand
  <2>3. \E n \in 1..Settings[Current.subject] : Head(todo) = Step("configure", Current.subject, n)
    BY <2>1, <2>2, SettingsTail, Zenon DEF SettingsInHand
  <2> QED BY <1>2, <2>3 DEF Issued
<1>3. CASE Current.kind \in {"detect", "configure"} /\ ~(Current.kind = "configure" /\ ~LeftToUser(Current))
  BY <1>3 DEF InHand, Commands, LeftToUser
<1>4. CASE Current.kind \notin {"ensure-manager", "detect", "configure"}
  <2>1. todo = Commands(Current)
    BY <1>4 DEF InHand
  <2> QED BY <1>4, <2>1, CurrentFacts DEF Commands, LeftToUser, PrerequisiteKinds, Issued
<1> QED BY <1>1, <1>2, <1>3, <1>4

\* After a command its effect is there, and the rest is left.
LEMMA HandMoves ==
  ASSUME TypeOK, PlaceInv, PassedInv, RecordedIsInEffect, begun, ~dry,
         InHand(Current), todo # <<>>,
         host' = Effect(host, Head(todo)), todo' = Tail(todo), UNCHANGED position
  PROVE  InHand(Current)'
<1>1. Issued(Head(todo)) /\ Keeps(host')
  BY HandHead, EffectKeeps
<1>2. Current' = Current /\ (host').platform = host.platform /\ host \in Host
  BY <1>1 DEF Current, Operations, Keeps, TypeOK
<1>3. CASE Current.kind = "ensure-manager"
  <2> DEFINE manager == Current.manager
  <2>1. manager \in {"snap", "flatpak"} /\ ManagerInHand(manager)
    BY <1>3, CurrentFacts DEF InHand
  <2>2. Command("install_manager", manager) \in NativeCommand
    BY <2>1 DEF Command, Step, NativeCommand, Managers
  <2>3. CASE todo = <<Command("install_manager", manager)>> \o Setup(manager)
    <3>1. Head(todo) = Command("install_manager", manager) /\ todo' = Setup(manager)
      BY <2>2, <2>3, SetupType, Prepended
    <3>2. host' = [host EXCEPT !.managers = @ \cup {manager}]
      BY <3>1, EffectIs
    <3>3. manager \in (host').managers /\ (host').mount = host.mount
      BY <1>2, <3>2 DEF Host
    <3>4. Setup(manager)' = Setup(manager)
      BY <1>2, <3>3 DEF Setup, SnapSetup
    <3>5. ManagerInHand(manager)'
      BY <1>2, <3>1, <3>3, <3>4 DEF ManagerInHand
    <3> QED BY <1>2, <1>3, <3>5 DEF InHand
  <2>4. CASE todo = Setup(manager) /\ manager \in host.managers
    <3>1. /\ manager = "snap" /\ todo' = Tail(SnapSetup)
          /\ Head(todo) = Command("enable_socket", "snap")
      BY <2>4, SetupIs DEF Setup
    <3>2. host' = [host EXCEPT !.socket = TRUE]
      BY <3>1 DEF Effect, Command, Step
    <3>3. /\ (host').socket /\ (host').mount = host.mount
          /\ (host').managers = host.managers
      BY <1>2, <3>2 DEF Host
    <3>4. SnapSetup' = SnapSetup
      BY <1>2, <3>3 DEF SnapSetup
    <3>5. ManagerInHand(manager)'
      BY <1>2, <2>4, <3>1, <3>3, <3>4 DEF ManagerInHand
    <3> QED BY <1>2, <1>3, <3>5 DEF InHand
  <2>5. CASE /\ manager = "snap" /\ "snap" \in host.managers /\ host.socket
             /\ todo = Tail(SnapSetup)
    <3>1. CASE host.platform = "fedora" /\ ~host.mount
      <4> todo = <<Command("symlink", "snap"), Command("wait_for_seed", "snap")>>
        BY <2>5, <3>1, SetupIs
      <4>1. Head(todo) = Command("symlink", "snap") /\ todo' = <<Command("wait_for_seed", "snap")>>
        OBVIOUS
      <4>2. host' = [host EXCEPT !.mount = TRUE]
        BY <4>1 DEF Effect, Command, Step
      <4>3. /\ (host').mount /\ ((host').socket <=> host.socket)
            /\ (host').managers = host.managers
        BY <1>2, <4>2 DEF Host
      <4>4. Tail(SnapSetup)' = <<Command("wait_for_seed", "snap")>>
        BY <4>3 DEF SnapSetup
      <4>5. ManagerInHand(manager)'
        BY <1>2, <2>5, <4>1, <4>3, <4>4 DEF ManagerInHand
      <4> QED BY <1>2, <1>3, <4>5 DEF InHand
    <3>2. CASE ~(host.platform = "fedora" /\ ~host.mount)
      <4> todo = <<Command("wait_for_seed", "snap")>>
        BY <2>5, <3>2, SetupIs
      <4>1. Head(todo) = Command("wait_for_seed", "snap") /\ todo' = <<>>
        OBVIOUS
      <4>2. host' = [host EXCEPT !.seeded = TRUE]
        BY <4>1 DEF Effect, Command, Step
      <4>3. /\ (host').seeded /\ ((host').socket <=> host.socket)
            /\ ((host').mount <=> host.mount) /\ (host').managers = host.managers
        BY <1>2, <4>2 DEF Host
      <4>4. ManagerReady(host', manager)
        BY <1>2, <2>5, <3>2, <4>3 DEF ManagerReady
      <4>5. ManagerInHand(manager)'
        BY <1>2, <4>1, <4>4 DEF ManagerInHand
      <4> QED BY <1>2, <1>3, <4>5 DEF InHand
    <3> QED BY <3>1, <3>2
  <2> QED BY <2>1, <2>3, <2>4, <2>5 DEF ManagerInHand
<1>4. CASE Current.kind = "configure" /\ ~LeftToUser(Current)
  <2> DEFINE x == Current.subject
             all == Settings[x]
  <2>1. /\ x \in Intents /\ all \in Nat /\ todo \in Seq(NativeCommand)
        /\ (host').settings[x] \in 0..all
    BY <1>1, <1>4, CurrentFacts DEF TypeOK, Keeps, Host
  <2>2. LastSettings(todo, x, all)
    BY <1>4 DEF InHand, SettingsInHand
  <2>3. PICK n \in 1..all : Head(todo) = Step("configure", x, n) /\ (todo' = <<>> => n = all)
    <3>1. \E n \in 1..all : Head(todo) = Step("configure", x, n) /\ (Tail(todo) = <<>> => n = all)
      BY <2>1, <2>2, SettingsTail, Zenon
    <3> QED BY <3>1
  <2>4. LastSettings(todo', x, all)
    <3> HIDE DEF x, all
    <3> QED BY <2>1, <2>2, SettingsTail
  <2>5. (host').settings[x] >= n
    BY <1>2, <2>1, <2>3, SettingsEffect
  <2>6. todo' = <<>> => (host').settings[x] = all
    BY <2>1, <2>3, <2>5
  <2>7. SettingsInHand(Current)'
    BY <1>2, <2>4, <2>6 DEF SettingsInHand
  <2> QED BY <1>2, <1>4, <2>7 DEF InHand, LeftToUser
<1>5. CASE Current.kind = "detect" \/ LeftToUser(Current)
  BY <1>1, <1>5 DEF Issued, InHand, Commands, LeftToUser
<1>6. CASE Current.kind \notin {"ensure-manager", "detect", "configure"}
  <2>1. todo = Commands(Current)
    BY <1>6 DEF InHand
  <2>2. todo' = <<>>
    BY <1>6, <2>1, CurrentFacts DEF Commands, LeftToUser, PrerequisiteKinds
  <2>3. ASSUME Current.kind = "ensure-flatpak-remote" PROVE InEffect(Current)'
    <3>1. Head(todo) = Command("remote-add", Current.privilege)
      BY <1>1, <2>3, IssuedIs
    <3>2. host' = [host EXCEPT !.remotes = @ \cup {Current.privilege}]
      BY <3>1, EffectIs
    <3>3. Current.privilege \in (host').remotes
      BY <1>2, <2>3, <3>2, CurrentFacts DEF Host
    <3> QED BY <1>2, <2>3, <3>3 DEF InEffect
  <2>4. ASSUME Current.kind = "ensure-repository-key" PROVE InEffect(Current)'
    <3>1. Head(todo) = Command("write_key", Current.subject)
      BY <1>1, <2>4, IssuedIs
    <3>2. host' = [host EXCEPT !.keys[Current.subject] = "verified"]
      BY <3>1 DEF Effect, Command, Step
    <3>3. (host').keys[Current.subject] = "verified"
      BY <1>2, <2>4, <3>2, CurrentFacts DEF Host
    <3> QED BY <1>2, <2>4, <3>3 DEF InEffect
  <2>5. ASSUME Current.kind = "ensure-apt-repository" PROVE InEffect(Current)'
    <3>1. Head(todo) = Command("write_source", Current.subject)
      BY <1>1, <2>5, IssuedIs
    <3>2. host' = [host EXCEPT !.sources = @ \cup {Current.subject}]
      BY <3>1, EffectIs
    <3>3. Current.subject \in (host').sources
      BY <1>2, <2>5, <3>2, CurrentFacts DEF Host
    <3> QED BY <1>2, <2>5, <3>3 DEF InEffect
  <2>6. ASSUME Current.kind = "refresh-package-index" PROVE InEffect(Current)'
    <3>1. CASE Current.manager = "apt-get"
      <4>1. Head(todo) = Command("update", "apt-get")
        BY <1>1, <2>6, <3>1, IssuedIs
      <4>2. (host').index = host.sources
        <5>1. host \in Host
          BY DEF TypeOK
        <5>2. host' = Effect(host, Command("update", "apt-get"))
          BY <1>1, <1>2, <4>1
        <5> QED BY <5>1, <5>2, UpdateIs
      <4>3. (host').index = host.sources /\ Operations' = Operations
        BY <1>2, <4>2 DEF Operations
      <4>4. \A r \in Repositories : r \in host.sources
        BY <2>6, <3>1, SourcesAreReady, CurrentFacts
      <4>5. \A i \in DOMAIN Operations : Operations[i].kind = "ensure-apt-repository" =>
              Operations[i].subject \in (host').index
        BY <4>3, <4>4, PlanFacts
      <4> QED BY <1>2, <2>6, <4>3, <4>5 DEF InEffect
    <3>2. CASE Current.manager # "apt-get"
      BY <1>2, <2>6, <3>2 DEF InEffect
    <3> QED BY <3>1, <3>2
  <2>7. ASSUME Current.kind = "install" PROVE InEffect(Current)'
    <3>1. Head(todo) = Command("install", Current.subject)
      BY <1>1, <2>7, IssuedIs
    <3>2. host' = [host EXCEPT !.packages[Current.subject] = "installed"]
      BY <3>1 DEF Effect, Command, Step
    <3>3. (host').packages[Current.subject] = "installed"
      BY <1>2, <2>7, <3>2, CurrentFacts DEF Host
    <3> QED BY <1>2, <2>7, <3>3 DEF InEffect
  <2>8. InEffect(Current)'
    <3>1. Current.kind \in {"ensure-flatpak-remote", "ensure-repository-key",
             "ensure-apt-repository", "refresh-package-index", "install"}
      BY <1>6, CurrentFacts DEF PrerequisiteKinds
    <3> QED BY <3>1, <2>3, <2>4, <2>5, <2>6, <2>7
  <2> QED BY <1>2, <1>6, <2>2, <2>8 DEF InHand
<1> QED BY <1>3, <1>4, <1>5, <1>6 DEF LeftToUser
-----------------------------------------------------------------------------
(* The steps.                                                              *)

LEMMA NothingLeft ==
  FALSE \in BOOLEAN /\ <<>> \in Seq(NativeCommand)
OBVIOUS

LEMMA PlanIsSame ==
  ASSUME (host').platform = host.platform
  PROVE  /\ Operations' = Operations
         /\ \A i, j : Precedes(i, j)' <=> Precedes(i, j)
         /\ \A op : Valid(op)' <=> Valid(op)
BY DEF Operations, Precedes, Valid, Native

\* The operations before the next one are the current one and those before it.
LEMMA AdvanceIs ==
  ASSUME TypeOK, Runs, NEW ended, NEW found, Advance(ended, found)
  PROVE  /\ position' \in {0} \cup DOMAIN Operations
         /\ position' # 0 =>
              \A j \in DOMAIN Operations :
                Precedes(j, position') => j = position \/ Precedes(j, position)
<1> DEFINE later == {j \in DOMAIN Operations : Precedes(position, j)}
<1>1. position \in DOMAIN Operations /\ 0 \notin DOMAIN Operations
  BY PositionIs, OperationsFacts
<1>2. position' = First(later)
  BY DEF Advance
<1>3. /\ later = {} => position' = 0
      /\ later # {} => /\ position' \in later
                       /\ \A j \in later : j = position' \/ Precedes(position', j)
  BY <1>2, FirstIs
<1>4. ASSUME later # {}, NEW j \in DOMAIN Operations, Precedes(j, position')
      PROVE  j = position \/ Precedes(j, position)
  <2>1. position' \in DOMAIN Operations
    BY <1>3, <1>4
  <2>2. j \notin later
    BY <1>3, <1>4, <2>1, PrecedesOrders
  <2> QED BY <1>1, <2>2, PrecedesOrders
<1> QED BY <1>3, <1>4

\* An operation is left behind when it is in effect and recorded, or need not be.
LEMMA AdvanceKeeps ==
  ASSUME AdapterInv, Runs, NEW ended \in SUBSET {position}, NEW found \in SUBSET Packages,
         Advance(ended, found), UNCHANGED <<host, dry, faults>>,
         \A p \in found : host.packages[p] = "installed",
         ended # {} => /\ InEffect(Current)
                       /\ Current.kind = "configure" => Current.subject \in Intents,
         ~dry /\ Current.kind # "detect" => position \in recorded \cup ended
  PROVE  AdapterInv'
<1> USE DEF AdapterInv
<1>1. position \in DOMAIN Operations /\ Current = Operations[position]
  BY PositionIs DEF Current
<1>2. /\ Operations' = Operations /\ \A i, j : Precedes(i, j)' <=> Precedes(i, j)
      /\ \A op : InEffect(op)' <=> InEffect(op)
  BY PlanIsSame DEF InEffect, ManagerReady, Operations
<1>3. recorded' = recorded \cup ended /\ begun' = FALSE /\ todo' = <<>>
  BY DEF Advance
<1>4. TypeOK'
  <2>1. position' \in 0..Len(Operations)
    BY AdvanceIs, OperationsFacts
  <2>2. detected' \subseteq Packages
    BY DEF Advance, TypeOK
  <2>3. begun' \in BOOLEAN /\ todo' \in Seq(NativeCommand)
    BY <1>3, NothingLeft
  <2>4. recorded' \subseteq DOMAIN Operations'
    BY <1>1, <1>2, <1>3 DEF TypeOK
  <2> QED BY <1>2, <2>1, <2>2, <2>3, <2>4 DEF TypeOK
<1>5. PlaceInv'
  BY <1>1, <1>2, <1>3 DEF PlaceInv
<1>6. DetectedInv'
  BY DEF DetectedInv, Advance
<1>7. PassedInv'
  <2> SUFFICES ASSUME Runs', ~dry, NEW j \in DOMAIN Operations, Precedes(j, position'),
                      Operations[j].kind # "detect"
               PROVE  j \in recorded'
    BY <1>2 DEF PassedInv
  <2>1. position' # 0
    BY DEF Runs
  <2>2. CASE j = position
    BY <1>1, <1>3, <2>2
  <2>3. CASE Precedes(j, position)
    BY <1>3, <2>3 DEF PassedInv
  <2> QED BY <2>1, <2>2, <2>3, AdvanceIs
<1>8. HandInv'
  BY <1>3 DEF HandInv
<1>9. RecordedIsInEffect'
  BY <1>1, <1>2, <1>3 DEF RecordedIsInEffect
<1> QED BY <1>4, <1>5, <1>6, <1>7, <1>8, <1>9

\* What is at work disturbs nothing that is recorded.
LEMMA WorkKeeps ==
  ASSUME AdapterInv, begun, ~dry, Keeps(host'), UNCHANGED recorded
  PROVE  /\ RecordedIsInEffect' /\ host' \in Host /\ (host').platform = host.platform
         /\ \A p \in Packages : host.packages[p] = "installed" => (host').packages[p] = "installed"
<1>1. host' \in Host /\ (host').platform = host.platform
      /\ \A p \in Packages : host.packages[p] = "installed" => (host').packages[p] = "installed"
  BY DEF Keeps
<1>2. Operations' = Operations
  BY <1>1, PlanIsSame
<1>3. \A i \in recorded : InEffect(Operations[i])'
  BY RecordedIsKept DEF AdapterInv, PlaceInv
<1> QED BY <1>1, <1>2, <1>3 DEF RecordedIsInEffect

\* The executor breaks off: on a host that is unchanged, or with a command's traces.
LEMMA StopKeeps ==
  ASSUME AdapterInv, Stop, UNCHANGED <<recorded, dry>>, faults' \in 0..MaxFaults,
         UNCHANGED host \/ (begun /\ ~dry /\ Keeps(host'))
  PROVE  AdapterInv'
<1> USE DEF AdapterInv
<1>1. /\ RecordedIsInEffect' /\ host' \in Host /\ (host').platform = host.platform
  <2>1. CASE UNCHANGED host
    BY <2>1 DEF RecordedIsInEffect, InEffect, ManagerReady, Operations, TypeOK
  <2>2. CASE begun /\ ~dry /\ Keeps(host')
    BY <2>2, WorkKeeps
  <2> QED BY <2>1, <2>2
<1>2. Operations' = Operations
  BY <1>1, PlanIsSame
<1>3. position' = 0 /\ begun' = FALSE /\ todo' = <<>> /\ detected' = {}
  BY DEF Stop
<1>4. 0 \in 0..Len(Operations)
  BY OperationsFacts
<1>5. TypeOK'
  <2>1. begun' \in BOOLEAN /\ todo' \in Seq(NativeCommand) /\ detected' \subseteq Packages
    BY <1>3, NothingLeft
  <2> QED BY <1>1, <1>2, <1>3, <1>4, <2>1 DEF TypeOK
<1>6. PlaceInv' /\ DetectedInv' /\ PassedInv' /\ HandInv'
  BY <1>2, <1>3 DEF PlaceInv, DetectedInv, PassedInv, HandInv, Runs
<1> QED BY <1>1, <1>5, <1>6

\* A command succeeds.
LEMMA CommandKeeps ==
  ASSUME AdapterInv, todo # <<>>, host' = Effect(host, Head(todo)), todo' = Tail(todo),
         UNCHANGED <<recorded, position, begun, detected, dry, faults>>
  PROVE  AdapterInv'
<1> USE DEF AdapterInv
<1>1. begun /\ ~dry /\ InHand(Current)
  BY DEF PlaceInv, HandInv
<1>2. Keeps(host')
  BY <1>1, HandHead, EffectKeeps
<1>3. /\ RecordedIsInEffect' /\ host' \in Host /\ (host').platform = host.platform
      /\ \A p \in Packages : host.packages[p] = "installed" => (host').packages[p] = "installed"
  BY <1>1, <1>2, WorkKeeps
<1>4. /\ Operations' = Operations /\ \A i, j : Precedes(i, j)' <=> Precedes(i, j)
      /\ \A op : Valid(op)' <=> Valid(op)
  BY <1>3, PlanIsSame
<1>5. Current' = Current
  BY <1>4 DEF Current
<1>6. Tail(todo) \in Seq(NativeCommand)
  BY DEF TypeOK
<1>7. TypeOK'
  BY <1>3, <1>4, <1>6 DEF TypeOK
<1>8. PlaceInv'
  BY <1>1, <1>4, <1>5 DEF PlaceInv, Runs
<1>9. DetectedInv'
  BY <1>3 DEF DetectedInv, TypeOK
<1>10. PassedInv'
  BY <1>4 DEF PassedInv, Runs
<1>11. HandInv'
  BY <1>1, HandMoves DEF HandInv
<1> QED BY <1>3, <1>7, <1>8, <1>9, <1>10, <1>11
-----------------------------------------------------------------------------
(* The theorems.                                                           *)

LEMMA InitHolds == Init => AdapterInv
<1> SUFFICES ASSUME Init PROVE AdapterInv
  OBVIOUS
<1>1. host \in Host /\ MaxFaults \in Nat
  BY AdapterAssumption DEF Init
<1>2. begun \in BOOLEAN /\ dry \in BOOLEAN /\ todo \in Seq(NativeCommand) /\ faults \in 0..MaxFaults
  <2>1. 0 \in 0..MaxFaults
    BY <1>1
  <2> QED BY <2>1, NothingLeft DEF Init
<1>3. AdapterPlan(Operations, SourcesOf)
  BY <1>1, AdapterAssumption DEF Operations, Host
<1>4. position \in 0..Len(Operations)
  BY <1>3 DEF Init, AdapterPlan
<1>5. TypeOK
  BY <1>1, <1>2, <1>4 DEF Init, TypeOK
<1>6. /\ position = 0 /\ begun = FALSE /\ todo = <<>> /\ detected = {} /\ recorded = {}
  BY DEF Init
<1> QED BY <1>5, <1>6 DEF AdapterInv, PlaceInv, DetectedInv, PassedInv, HandInv,
                          RecordedIsInEffect, Runs

\* A run starts before all operations, or there is none.
LEMMA StartKeeps ==
  ASSUME AdapterInv, NEW flag \in BOOLEAN, Start(flag)
  PROVE  AdapterInv'
<1> USE DEF AdapterInv
<1>1. /\ Operations' = Operations /\ \A i, j : Precedes(i, j)' <=> Precedes(i, j)
      /\ \A op : InEffect(op)' <=> InEffect(op)
  BY PlanIsSame DEF Start, InEffect, ManagerReady, Operations
<1>2. position' = First(DOMAIN Operations) /\ begun = FALSE /\ todo = <<>> /\ UNCHANGED <<begun, todo>>
  BY DEF Start, PlaceInv, TypeOK
<1>3. /\ DOMAIN Operations = {} => position' = 0
      /\ DOMAIN Operations # {} =>
           /\ position' \in DOMAIN Operations
           /\ \A j \in DOMAIN Operations : j = position' \/ Precedes(position', j)
  BY <1>2, FirstIs
<1>4. TypeOK'
  <2>1. position' \in 0..Len(Operations)
    BY <1>3, OperationsFacts
  <2>2. faults' \in 0..MaxFaults /\ dry' \in BOOLEAN
    BY AdapterAssumption DEF Start, Fault, TypeOK
  <2> QED BY <1>1, <2>1, <2>2 DEF Start, TypeOK
<1>5. PlaceInv' /\ DetectedInv' /\ HandInv'
  BY <1>1, <1>2 DEF Start, PlaceInv, DetectedInv, HandInv
<1>6. PassedInv'
  <2> SUFFICES ASSUME Runs', NEW j \in DOMAIN Operations, Precedes(j, position')
               PROVE  FALSE
    BY <1>1 DEF PassedInv
  <2> QED BY <1>3, PrecedesOrders
<1>7. RecordedIsInEffect'
  BY <1>1 DEF Start, RecordedIsInEffect
<1> QED BY <1>4, <1>5, <1>6, <1>7

\* What is passed over is recorded, or has been found installed.
LEMMA SkipKeeps ==
  ASSUME AdapterInv, Skip
  PROVE  AdapterInv'
<1> USE DEF AdapterInv
<1>1. Runs /\ position \in DOMAIN Operations /\ Current = Operations[position]
  BY PositionIs DEF Skip, Current
<1>2. InEffect(Current) /\ (Current.kind = "configure" => Current.subject \in Intents)
  <2>1. CASE position \in recorded
    BY <1>1, <2>1 DEF RecordedIsInEffect, PlaceInv
  <2>2. CASE Current.kind = "install" /\ Current.subject \in detected
    BY <2>2 DEF DetectedInv, InEffect
  <2> QED BY <2>1, <2>2 DEF Skip
<1>3. Advance({position}, {}) /\ UNCHANGED <<host, dry, faults>>
  BY DEF Skip
<1> QED BY <1>1, <1>2, <1>3, AdvanceKeeps

LEMMA BeginKeeps ==
  ASSUME AdapterInv, Begin
  PROVE  AdapterInv'
<1> USE DEF AdapterInv
<1>1. Runs /\ position \notin recorded /\ begun = FALSE /\ UNCHANGED <<host, recorded, dry, faults>>
  BY DEF Begin, MustBegin, TypeOK
<1>2. CASE ~Valid(Current)
  BY <1>1, <1>2, StopKeeps DEF Begin, TypeOK
<1>3. CASE Valid(Current)
  <2>1. /\ begun' = TRUE /\ todo' = IF dry THEN <<>> ELSE Commands(Current)
        /\ UNCHANGED <<position, detected>>
    BY <1>3 DEF Begin
  <2>2. /\ Operations' = Operations /\ \A i, j : Precedes(i, j)' <=> Precedes(i, j)
        /\ \A op : (InEffect(op)' <=> InEffect(op)) /\ (Valid(op)' <=> Valid(op))
    BY <1>1, PlanIsSame DEF InEffect, ManagerReady, Operations
  <2>3. TypeOK'
    <3>1. todo' \in Seq(NativeCommand) /\ begun' \in BOOLEAN
      BY <1>1, <1>3, <2>1, CommandsType, NothingLeft
    <3> QED BY <1>1, <2>1, <2>2, <3>1 DEF TypeOK
  <2>4. PlaceInv'
    BY <1>1, <1>3, <2>1, <2>2 DEF PlaceInv, Runs, Current
  <2>5. DetectedInv' /\ PassedInv'
    BY <1>1, <2>1, <2>2 DEF DetectedInv, PassedInv, Runs
  <2>6. HandInv'
    BY <1>1, <1>3, <2>1, HandBegins DEF HandInv
  <2>7. RecordedIsInEffect'
    BY <1>1, <2>2 DEF RecordedIsInEffect
  <2> QED BY <2>3, <2>4, <2>5, <2>6, <2>7
<1> QED BY <1>2, <1>3

LEMMA DetectKeeps ==
  ASSUME AdapterInv, Detect
  PROVE  AdapterInv'
<1> USE DEF AdapterInv
<1>1. Runs /\ begun /\ Current.kind = "detect" /\ UNCHANGED <<host, dry, faults>>
  BY DEF Detect
<1>2. Current.subject \in Packages
  BY <1>1, CurrentFacts
<1>3. CASE Stop /\ UNCHANGED recorded
  BY <1>1, <1>3, StopKeeps DEF TypeOK
<1>4. CASE Found(Current) /\ Advance({position}, {Current.subject})
  <2>1. InEffect(Current) /\ host.packages[Current.subject] = "installed"
    BY <1>1, <1>4 DEF Found, InEffect
  <2> QED BY <1>1, <1>2, <1>4, <2>1, AdvanceKeeps
<1>5. CASE Advance({}, {})
  BY <1>1, <1>5, AdvanceKeeps
<1> QED BY <1>3, <1>4, <1>5 DEF Detect

\* An operation is finished when its commands have done what it is for.
LEMMA FinishKeeps ==
  ASSUME AdapterInv, FinishOperation
  PROVE  AdapterInv'
<1> USE DEF AdapterInv
<1> DEFINE ended == IF dry /\ ~LeftToUser(Current) THEN {} ELSE {position}
<1>1. /\ Runs /\ begun /\ todo = <<>> /\ Current.kind # "detect"
      /\ Advance(ended, {}) /\ UNCHANGED <<host, dry, faults>>
  BY DEF FinishOperation
<1>2. Current.kind = "configure" => Current.subject \in Intents
  BY <1>1, CurrentFacts
<1>3. ended # {} => InEffect(Current)
  <2>1. CASE LeftToUser(Current)
    BY <2>1 DEF LeftToUser, InEffect
  <2>2. CASE ~dry
    BY <1>1, <2>2, HandEnds DEF HandInv
  <2> QED BY <2>1, <2>2
<1>4. /\ ended \in SUBSET {position} /\ {} \in SUBSET Packages
      /\ ~dry => position \in recorded \cup ended
  OBVIOUS
<1>5. \A p \in {} : host.packages[p] = "installed"
  OBVIOUS
<1> HIDE DEF ended
<1> QED BY <1>1, <1>2, <1>3, <1>4, <1>5, AdvanceKeeps, Zenon

\* Whatever a failed command leaves, and whenever the process dies.
LEMMA FailureKeeps ==
  ASSUME AdapterInv, CommandFails \/ Crash
  PROVE  AdapterInv'
<1> USE DEF AdapterInv
<1>1. Stop /\ UNCHANGED <<recorded, dry>> /\ faults' \in 0..MaxFaults
  BY AdapterAssumption DEF CommandFails, Crash, Fault, TypeOK
<1>2. CASE CommandFails
  <2>1. begun /\ ~dry /\ InHand(Current) /\ todo # <<>>
    BY <1>2 DEF CommandFails, PlaceInv, HandInv
  <2>2. Keeps(host')
    BY <1>2, <2>1, HandHead, RemainsKeeps DEF CommandFails
  <2> QED BY <1>1, <2>1, <2>2, StopKeeps
<1>3. CASE Crash
  BY <1>1, <1>3, StopKeeps DEF Crash
<1> QED BY <1>2, <1>3

LEMMA FetchKeeps ==
  ASSUME AdapterInv, FetchKey
  PROVE  AdapterInv'
<1> USE DEF AdapterInv
<1>1. CASE /\ host' = Effect(host, Head(todo)) /\ todo' = Tail(todo)
           /\ UNCHANGED <<position, begun, detected, faults>>
  BY <1>1, CommandKeeps DEF FetchKey
<1>2. CASE Fault /\ Stop /\ UNCHANGED host
  <2>1. faults' \in 0..MaxFaults
    BY <1>2, AdapterAssumption DEF Fault, TypeOK
  <2> QED BY <1>2, <2>1, StopKeeps DEF FetchKey
<1> QED BY <1>1, <1>2 DEF FetchKey

LEMMA StepHolds == AdapterInv /\ [Next]_vars => AdapterInv'
<1> SUFFICES ASSUME AdapterInv, [Next]_vars PROVE AdapterInv'
  OBVIOUS
<1>1. ASSUME NEW flag \in BOOLEAN, Start(flag) PROVE AdapterInv'
  BY <1>1, StartKeeps
<1>2. CASE Skip
  BY <1>2, SkipKeeps
<1>3. CASE Begin
  BY <1>3, BeginKeeps
<1>4. CASE Detect
  BY <1>4, DetectKeeps
<1>5. CASE FetchKey
  BY <1>5, FetchKeeps
<1>6. CASE RunCommand
  BY <1>6, CommandKeeps DEF RunCommand
<1>7. CASE FinishOperation
  BY <1>7, FinishKeeps
<1>8. CASE CommandFails \/ Crash
  BY <1>8, FailureKeeps
<1>9. CASE UNCHANGED vars
  <2>1. /\ UNCHANGED <<host, recorded, position, begun, todo, detected, dry, faults>>
    BY <1>9 DEF vars
  <2>2. Operations' = Operations /\ \A i, j : Precedes(i, j)' <=> Precedes(i, j)
    BY <2>1, PlanIsSame
  <2>3. TypeOK'
    BY <2>1, <2>2 DEF AdapterInv, TypeOK
  <2>4. PlaceInv' /\ DetectedInv' /\ PassedInv'
    BY <2>1 DEF AdapterInv, PlaceInv, DetectedInv, PassedInv, Runs, Operations, Current, Valid,
                Native, Precedes
  <2>5. \A op : InEffect(op)' <=> InEffect(op)
    BY <2>1 DEF InEffect, ManagerReady, Operations
  <2>6. RecordedIsInEffect'
    BY <2>1, <2>2, <2>5 DEF AdapterInv, RecordedIsInEffect
  <2>7. HandInv'
    BY <2>1 DEF AdapterInv, HandInv, InHand, ManagerInHand, SettingsInHand, LeftToUser,
                Commands, ManagerCommands, Setup, SnapSetup, InEffect, ManagerReady,
                Current, Operations
  <2> QED BY <2>3, <2>4, <2>6, <2>7 DEF AdapterInv
<1> QED BY <1>1, <1>2, <1>3, <1>4, <1>5, <1>6, <1>7, <1>8, <1>9 DEF Next, Executor

\* What the executor relies on holds whatever fails and wherever it is resumed.
THEOREM AdapterInvariant == Spec => []AdapterInv
BY InitHolds, StepHolds, PTL DEF Spec

\* Every variable holds a value of its kind: broker.go and the adapter keep to the
\* plan, the packages and the commands there are.
THEOREM TypeCorrect == Spec => []TypeOK
<1>1. AdapterInv => TypeOK
  BY DEF AdapterInv
<1> QED BY <1>1, AdapterInvariant, PTL

\* For every plan the planner may order, from every host and after any failures, what
\* the journal has as succeeded is on the host, whole (linux.go:93-304).
THEOREM RecordedStaysInEffect == Spec => []RecordedIsInEffect
<1>1. AdapterInv => RecordedIsInEffect
  BY DEF AdapterInv
<1> QED BY <1>1, AdapterInvariant, PTL
\* An operation of a manager begins when the manager is ready.
LEMMA ManagersAreReady ==
  ASSUME AdapterInv, begun, ~dry,
         Current.kind \in {"detect", "install", "ensure-flatpak-remote"},
         Current.manager \in {"snap", "flatpak"}
  PROVE  ManagerReady(host, Current.manager) /\ Current.manager \in host.managers
<1>1. Runs /\ position \in DOMAIN Operations /\ Current = Operations[position]
  BY CurrentFacts DEF AdapterInv
<1>2. PICK j \in Past(position, "ensure-manager") : Operations[j].manager = Current.manager
  BY <1>1, PlanFacts DEF AdapterInv
<1>3. InEffect(Operations[j]) /\ Operations[j].kind = "ensure-manager"
  BY <1>1, <1>2, PastIsInEffect DEF AdapterInv, PrerequisiteKinds
<1> QED BY <1>2, <1>3 DEF InEffect, ManagerReady

\* The sources of a package are indexed when its installation begins.
LEMMA SourcesAreIndexed ==
  ASSUME AdapterInv, begun, ~dry, Current.kind = "install", Current.manager = "apt-get"
  PROVE  SourcesOf[Current.subject] \subseteq host.index
<1>1. /\ Runs /\ position \in DOMAIN Operations /\ Current = Operations[position]
      /\ Current.subject \in Packages
  BY CurrentFacts DEF AdapterInv
<1> SUFFICES ASSUME NEW r \in SourcesOf[Current.subject] PROVE r \in host.index
  OBVIOUS
<1>2. r \in Repositories
  BY <1>1 DEF Repositories
<1>3. PICK j \in Past(position, "refresh-package-index") : Operations[j].manager = "apt-get"
  BY <1>1, PlanFacts DEF AdapterInv
<1>4. InEffect(Operations[j]) /\ Operations[j].kind = "refresh-package-index"
      /\ j \in DOMAIN Operations
  BY <1>1, <1>3, PastIsInEffect DEF AdapterInv, PrerequisiteKinds, Past
<1>5. PICK k \in Past(j, "ensure-apt-repository") : Operations[k].subject = r
  BY <1>2, <1>3, <1>4, PlanFacts DEF AdapterInv
<1> QED BY <1>3, <1>4, <1>5 DEF InEffect, Past

LEMMA ManagerWorks ==
  ASSUME AdapterInv, begun, ~dry, Healthy(host), Listed(host), todo # <<>>,
         Current.kind = "ensure-manager"
  PROVE  Works(host, Head(todo), Current)
<1> DEFINE manager == Current.manager
<1>1. manager \in {"snap", "flatpak"} /\ ManagerInHand(manager)
  BY CurrentFacts DEF AdapterInv, HandInv, InHand
<1>2. Command("install_manager", manager) \in NativeCommand
  BY <1>1 DEF Command, Step, NativeCommand, Managers
<1>3. CASE todo = <<Command("install_manager", manager)>> \o Setup(manager)
  <2>1. Head(todo) = Command("install_manager", manager)
    BY <1>2, <1>3, SetupType, Prepended
  <2> QED BY <2>1 DEF Works, Command, Step, Healthy, RequiredManagers, Native
<1>4. CASE todo = Setup(manager) /\ manager \in host.managers
  <2>1. Head(todo) = Command("enable_socket", "snap") /\ manager = "snap"
    BY <1>4, SetupIs DEF Setup
  <2> QED BY <1>4, <2>1 DEF Works, Command, Step
<1>5. CASE host.socket /\ todo = Tail(SnapSetup)
  <2>1. CASE host.platform = "fedora" /\ ~host.mount
    <3> todo = <<Command("symlink", "snap"), Command("wait_for_seed", "snap")>>
      BY <1>5, <2>1, SetupIs
    <3>1. Head(todo) = Command("symlink", "snap")
      OBVIOUS
    <3> QED BY <2>1, <3>1 DEF Works, Command, Step
  <2>2. CASE ~(host.platform = "fedora" /\ ~host.mount)
    <3> todo = <<Command("wait_for_seed", "snap")>>
      BY <1>5, <2>2, SetupIs
    <3>1. Head(todo) = Command("wait_for_seed", "snap")
      OBVIOUS
    <3> QED BY <1>5, <3>1 DEF Works, Command, Step
  <2> QED BY <2>1, <2>2
<1> QED BY <1>1, <1>3, <1>4, <1>5 DEF ManagerInHand

\* For every plan the planner may order, on a host that is healthy and has package
\* lists, and whatever earlier attempts have left there, no command is run that cannot work: what it
\* needs is there, and preparing a manager again begins where it can go on
\* (linux.go:253-304).
THEOREM NoCommandIsDoomed == Spec => []NothingIsDoomed
<1>1. AdapterInv => NothingIsDoomed
  <2> SUFFICES ASSUME AdapterInv, begun, ~dry, Healthy(host), Listed(host)
               PROVE  /\ todo # <<>> => Works(host, Head(todo), Current)
                      /\ Current.kind = "detect" => Answers(Current.manager)
    BY DEF NothingIsDoomed
  <2> USE DEF AdapterInv
  <2>1. /\ Current.kind \in PrerequisiteKinds \cup {"detect", "install", "configure"}
        /\ Current.kind = "refresh-package-index" => Current.manager = Native(host)
        /\ Runs /\ Valid(Current)
    BY CurrentFacts
  <2>2. IF Native(host) = "apt-get" THEN {"apt-get", "dpkg-query"} \subseteq host.native
        ELSE Native(host) = "dnf" /\ "dnf" \in host.native
    BY DEF Healthy, RequiredManagers, Native
  <2>3. ASSUME Current.kind = "detect" PROVE Answers(Current.manager)
    <3>1. CASE Current.manager \in {"snap", "flatpak"}
      BY <2>3, <3>1, ManagersAreReady DEF Answers
    <3>2. CASE Current.manager = Native(host)
      BY <2>2, <3>2 DEF Answers
    <3> QED BY <2>1, <2>3, <3>1, <3>2 DEF Valid
  <2>4. ASSUME todo # <<>> PROVE Works(host, Head(todo), Current)
    <3>1. Issued(Head(todo))
      BY <2>4, HandHead DEF HandInv
    <3>2. CASE Current.kind = "ensure-manager"
      BY <2>4, <3>2, ManagerWorks
    <3>3. CASE Current.kind = "ensure-flatpak-remote"
      <4>1. Head(todo).verb = "remote-add" /\ Current.manager = "flatpak"
        BY <2>1, <3>1, <3>3, IssuedIs, CommandIs DEF Valid
      <4> QED BY <3>3, <4>1, ManagersAreReady DEF Works
    <3>4. CASE Current.kind \in {"ensure-repository-key", "ensure-apt-repository", "configure"}
      <4>1. Head(todo).verb \in {"write_key", "write_source", "configure"}
        BY <3>1, <3>4 DEF Issued, Command, Step
      <4> QED BY <4>1 DEF Works
    <3>5. CASE Current.kind = "refresh-package-index" /\ Current.manager = "dnf"
      <4>1. Head(todo) = Command("makecache", "dnf")
        BY <3>1, <3>5, IssuedIs
      <4>2. Head(todo).verb = "makecache"
        BY <4>1, CommandIs
      <4> QED BY <2>1, <2>2, <3>5, <4>2 DEF Works
    <3>6. CASE Current.kind = "refresh-package-index" /\ Current.manager # "dnf"
      <4>1. Head(todo) = Command("update", "apt-get")
        BY <3>1, <3>6, IssuedIs
      <4>2. Head(todo).verb = "update"
        BY <4>1, CommandIs
      <4>3. Current.manager = "apt-get" /\ "apt-get" \in host.native
        BY <2>1, <2>2, <3>6
      <4>4. host.sources \subseteq Repositories
        BY DEF TypeOK, Host
      <4>5. \A r \in host.sources : host.keys[r] = "verified"
        BY <2>1, <3>6, <4>3, <4>4, SourcesAreReady
      <4> QED BY <4>2, <4>3, <4>5 DEF Works
    <3>7. CASE Current.kind = "install"
      <4>1. Head(todo).verb = "install"
        BY <3>1, <3>7, IssuedIs, CommandIs
      <4>2. ManagerReady(host, Current.manager)
        BY <3>7, ManagersAreReady DEF ManagerReady
      <4>3. Current.manager = Native(host) => Current.manager \in host.native
        BY <2>2
      <4>4. Current.manager = "flatpak" => Current.privilege \in host.remotes
        <5> SUFFICES ASSUME Current.manager = "flatpak"
                     PROVE  Current.privilege \in host.remotes
          OBVIOUS
        <5>1. position \in DOMAIN Operations /\ Current = Operations[position]
          BY CurrentFacts
        <5>2. PICK j \in Past(position, "ensure-flatpak-remote") :
                Operations[j].privilege = Current.privilege
          BY <3>7, <5>1, PlanFacts
        <5>3. InEffect(Operations[j]) /\ Operations[j].kind = "ensure-flatpak-remote"
          BY <2>1, <5>2, PastIsInEffect DEF PrerequisiteKinds
        <5> QED BY <5>2, <5>3 DEF InEffect
      <4>5. Current.manager = "apt-get" => SourcesOf[Current.subject] \subseteq host.index
        BY <3>7, SourcesAreIndexed
      <4>6. Current.manager = "apt-get" => host.lists
        BY <2>1, <3>7 DEF Valid, Native, Listed
      <4> QED BY <4>1, <4>2, <4>3, <4>4, <4>5, <4>6 DEF Works
    <3>8. CASE Current.kind = "detect"
      BY <3>1, <3>8 DEF Issued
    <3> QED BY <2>1, <3>2, <3>3, <3>4, <3>5, <3>6, <3>7, <3>8 DEF PrerequisiteKinds
  <2> QED BY <2>3, <2>4
<1> QED BY <1>1, AdapterInvariant, PTL
===============================================================================
