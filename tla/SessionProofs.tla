---------------------------- MODULE SessionProofs ----------------------------
(***************************************************************************)
(* The safety properties of Session.tla for every plan that PlanAssumption *)
(* allows, any mix of flags, faults and commands.  The order of the        *)
(* argument:                                                               *)
(*   1. events reach the journal numbered as its writer expects them, so   *)
(*      every step is one of Journal.tla's or leaves the journal alone,    *)
(*      and all that JournalProofs proves of the journal holds here;       *)
(*   2. no event is about an operation that is recorded as dealt with;     *)
(*   3. what the events say is so on the machine;                          *)
(*   4. every operation the executor has passed has an end that is         *)
(*      recorded or on its way.                                            *)
(***************************************************************************)
EXTENDS Session, PositionLemmas, TLAPS

JP == INSTANCE JournalProofs WITH Ops <- Ops, NoState <- NoState

LEMMA NoStateIsNotAState == JP!NoStateAssumption
BY NoStateAssumption
   DEF JP!NoStateAssumption, J!State, JP!State, J!Statuses, JP!Statuses

\* The journal of the controller is the journal of JournalProofs.
LEMMA SameJournal ==
  /\ J!TypeOK <=> JP!TypeOK
  /\ J!TypeOK' <=> JP!TypeOK'
  /\ J!Init <=> JP!Init
  /\ [J!Next]_J!jvars <=> [JP!Next]_JP!jvars
BY DEF J!TypeOK, JP!TypeOK, J!Event, JP!Event, J!State, JP!State, J!Statuses, JP!Statuses,
       J!NewState, JP!NewState, J!Init, JP!Init, J!Next, JP!Next, J!jvars, JP!jvars,
       J!OpenNew, JP!OpenNew, J!OpenResume, JP!OpenResume,
       J!ValidateForPlan, JP!ValidateForPlan, J!AppendEvent, JP!AppendEvent,
       J!RefuseEvent, JP!RefuseEvent, J!AppendFails, JP!AppendFails,
       J!Refuses, JP!Refuses, J!Released, JP!Released, J!disk, JP!disk,
       J!SaveState, JP!SaveState, J!SaveFails, JP!SaveFails, J!Close, JP!Close,
       J!NextEvent, JP!NextEvent, J!ApplyEvent, JP!ApplyEvent, J!Listed, JP!Listed,
       J!FinalStatuses, JP!FinalStatuses

-----------------------------------------------------------------------------
(* The plan and the way through it.                                        *)

LEMMA PlanFacts ==
  /\ Len(Plan) \in Nat /\ Ops = 1..Len(Plan)
  /\ \A i \in Ops : /\ Plan[i].kind \in {"prerequisite", "detect", "install", "configure"}
                    /\ Plan[i].privilege \in {"elevated", "user"}
                    /\ Plan[i].target \in Targets
  /\ Manual \subseteq Ops /\ \A i \in Manual : Plan[i].kind = "configure"
<1> DEFINE Operation == [kind: {"prerequisite", "detect", "install", "configure"},
                         privilege: {"elevated", "user"}, target: {Plan[i].target : i \in DOMAIN Plan},
                         dependsOn: SUBSET Nat]
<1>1. Plan \in Seq(Operation)
  BY PlanAssumption DEF LinuxPlan, IsPlan, Privilege
<1> HIDE DEF Operation
<1>2. Len(Plan) \in Nat /\ Ops = 1..Len(Plan) /\ \A i \in Ops : Plan[i] \in Operation
  BY <1>1 DEF Ops
<1>3. \A i \in Ops : /\ Plan[i].kind \in {"prerequisite", "detect", "install", "configure"}
                     /\ Plan[i].privilege \in {"elevated", "user"}
  BY <1>2 DEF Operation
<1>4. \A i \in Ops : Plan[i].target \in Targets
  BY DEF Targets
<1>5. Manual \subseteq Ops /\ \A i \in Manual : Plan[i].kind = "configure"
  BY PlanAssumption DEF Ops
<1> QED BY <1>2, <1>3, <1>4, <1>5, Zenon

\* The executor goes on to an operation of its partition that is not terminal,
\* and those it passes over are.
LEMMA NextPositionIs ==
  ASSUME NEW i \in 0..Len(Plan), NEW privilege, NEW terminal
  PROVE  LET next == NextPosition(i, privilege, terminal)
         IN  /\ next \in 1..(Len(Plan) + 1) /\ next > i
             /\ next \in Ops => Plan[next].privilege = privilege /\ next \notin terminal
             /\ next \notin Ops => next = Len(Plan) + 1
             /\ \A j \in Ops : i < j /\ j < next /\ Plan[j].privilege = privilege
                                 => j \in terminal
<1> DEFINE todo == {j \in Ops : j > i /\ Plan[j].privilege = privilege /\ j \notin terminal}
           next == NextPosition(i, privilege, terminal)
<1>1. next = IF todo = {} THEN Len(Plan) + 1 ELSE Min(todo)
  BY DEF NextPosition
<1>2. CASE todo = {}
  BY <1>1, <1>2, PlanFacts
<1>3. CASE todo # {}
  <2>1. next \in todo /\ \A j \in todo : next <= j
    BY <1>1, <1>3, PlanFacts, FirstPosition
  <2> HIDE DEF next
  <2>2. /\ next \in Ops /\ next > i /\ Plan[next].privilege = privilege
        /\ next \notin terminal
    BY <2>1
  <2>3. ASSUME NEW j \in Ops, i < j, j < next, Plan[j].privilege = privilege
        PROVE  j \in terminal
    BY <2>1, <2>2, <2>3, PlanFacts
  <2>4. next \in 1..(Len(Plan) + 1)
    BY <2>2, PlanFacts
  <2> QED BY <2>2, <2>3, <2>4 DEF next
<1> QED BY <1>2, <1>3

-----------------------------------------------------------------------------
(* 1. The journal is used as Journal.tla says.                             *)

\* Who runs, and at which operation.
PlaceInv ==
  /\ opened <=> stage \in {"elevated", "user"}
  /\ stage = "off" => pipe = <<>> /\ broker = Idle
  /\ stage = "killing" => ~mode.dry
  /\ stage \in {"elevated", "killing"} => broker.privilege = "elevated"
  /\ stage = "user" => broker.privilege = "user"
  /\ broker.phase \in {"next", "running"} =>
       /\ broker.at \in Ops /\ broker.at \notin broker.terminal
       /\ Plan[broker.at].privilege = broker.privilege
  /\ broker.phase = "done" => broker.at = Len(Plan) + 1

\* While the journal is held its writer expects the events as they come.
StreamInv ==
  opened => /\ \A k \in DOMAIN pipe : pipe[k].seq = mem.last + k
            /\ broker.seq = mem.last + Len(pipe)

BaseInv == TypeOK /\ PlaceInv /\ StreamInv

\* What JournalProofs knows of a journal.
JournalInv == JP!OrderInv /\ JP!RecordInv

-----------------------------------------------------------------------------
(* 2. Operations that are recorded are left alone.                         *)

Terminal(state) == J!TerminalOperations(state)
Ends == {"succeeded", "skipped"}

\* The operations of its partition that the executor has not got through.
Ahead(op) ==
  /\ Plan[op].privilege = broker.privilege /\ op \notin broker.terminal
  /\ op > broker.at \/ (op = broker.at /\ broker.phase \in {"next", "running"})

\* The lists of a state agree with its statuses.
ListsAgree(state) ==
  \A op \in Ops : /\ op \in state.completed <=> state.status[op] = "succeeded"
                  /\ op \in state.skipped <=> state.status[op] = "skipped"

\* Every success in the journal that a state covers is in its list: no later
\* event has taken it out again.
SuccessesKept(state) ==
  \A k \in DOMAIN lines :
    lines[k].seq <= state.last /\ lines[k].status = "succeeded"
      => lines[k].op \in state.completed

\* No event on its way is about an operation recorded as dealt with, nor follows
\* one that deals with it, and of an operation that the executor has not got
\* through nothing is said but that it has been started.
PipeInv ==
  /\ broker.terminal \subseteq Terminal(mem)
  /\ \A k \in DOMAIN pipe : /\ pipe[k].op \notin Terminal(mem)
                            /\ Plan[pipe[k].op].privilege = broker.privilege
  /\ \A i, k \in DOMAIN pipe :
       i < k /\ pipe[i].op = pipe[k].op => pipe[i].status \notin Ends
  /\ \A op \in Ops : Ahead(op) =>
       /\ op \notin Terminal(mem)
       /\ \A k \in DOMAIN pipe : pipe[k].op = op => pipe[k].status = "started"

WorkInv ==
  /\ opened => /\ PipeInv /\ ListsAgree(mem) /\ SuccessesKept(mem)
               /\ Terminal(snapshot) \subseteq Terminal(mem)
  /\ snapshot # NoState => ListsAgree(snapshot) /\ SuccessesKept(snapshot)

-----------------------------------------------------------------------------
(* 3. What the events say is so.                                           *)

\* Operations that are skipped only because there is nothing left to do.
Needed(op) == Plan[op].kind \in {"prerequisite", "install"}

Truthful(ev) ==
  /\ ev.status = "succeeded" => Plan[ev.op].target \in machine
  /\ ev.status = "skipped" =>
       \/ Plan[ev.op].kind = "configure"
       \/ Plan[ev.op].kind = "install" /\ Plan[ev.op].target \in machine

\* The executor of this command, or of its first partition, is through with op.
Passed(op) ==
  \/ Plan[op].privilege = broker.privilege /\ op < broker.at
  \/ Plan[op].privilege = "elevated" /\ stage = "user"

LinesTrue == \A k \in DOMAIN lines : Truthful(lines[k])
PipeTrue == \A k \in DOMAIN pipe : Truthful(pipe[k])

\* What the executor knows to be dealt with, or has got through, is there.
BrokerTrue ==
  /\ broker.detected \subseteq machine
  /\ \A op \in broker.terminal : Needed(op) => Plan[op].target \in machine
  /\ ~mode.dry =>
       \A op \in Ops : Needed(op) /\ Passed(op) => Plan[op].target \in machine

TruthInv == LinesTrue /\ PipeTrue /\ BrokerTrue

-----------------------------------------------------------------------------
(* 4. Every operation that was passed has an end.                          *)

\* The ends an operation may have in this command.
Fit(op) == Ends \cup IF mode.dry \/ Plan[op].kind = "detect" THEN {"planned"} ELSE {}

\* The last that was said of op is an end: on its way, or recorded.
Closed(op) ==
  \/ \E k \in DOMAIN pipe : /\ pipe[k].op = op /\ pipe[k].status \in Fit(op)
                            /\ \A j \in DOMAIN pipe : j > k => pipe[j].op # op
  \/ /\ mem.status[op] \in Fit(op)
     /\ \A k \in DOMAIN pipe : pipe[k].op # op

PartitionEnds ==
  opened => \A op \in Ops :
    Plan[op].privilege = broker.privilege /\ op < broker.at => Closed(op)

ElevatedEnds ==
  stage = "user" => \A op \in Ops : Plan[op].privilege = "elevated" =>
    mem.status[op] \in Fit(op) /\ snapshot.status[op] \in Fit(op)

CommandEnds ==
  outcome = "ok" => /\ stage = "off" /\ snapshot # NoState
                    /\ \A op \in Ops : snapshot.status[op] \in Fit(op)

EndInv == PartitionEnds /\ ElevatedEnds /\ CommandEnds

SessionInv == BaseInv /\ JournalInv /\ WorkInv /\ TruthInv /\ EndInv

-----------------------------------------------------------------------------
(* The executor's steps.                                                   *)

Brokers ==
  [privilege: {"elevated", "user"}, at: 0..(Len(Plan) + 1),
   phase: {"idle", "next", "running", "done", "failed"}, seq: Nat,
   terminal: SUBSET Ops, detected: SUBSET Targets]

LEMMA TerminalType ==
  ASSUME NEW state \in J!State
  PROVE  /\ Terminal(state) \in SUBSET Ops /\ state.last \in Nat
         /\ state.status \in [Ops -> J!Statuses \cup {"none"}]
         /\ Terminal(state) = state.completed \cup state.skipped
BY DEF Terminal, J!TerminalOperations, J!State

LEMMA StartedIs ==
  ASSUME NEW privilege \in {"elevated", "user"}, NEW state \in J!State
  PROVE  LET started == Started(privilege, state)
         IN  /\ started \in Brokers
             /\ started.privilege = privilege /\ started.seq = state.last
             /\ started.terminal = Terminal(state) /\ started.detected = {}
             /\ started.at = NextPosition(0, privilege, Terminal(state))
             /\ started.phase = IF started.at \in Ops THEN "next" ELSE "done"
<1>1. /\ Terminal(state) \in SUBSET Ops /\ state.last \in Nat
      /\ Terminal(state) = J!TerminalOperations(state)
  BY TerminalType DEF Terminal
<1>2. NextPosition(0, privilege, Terminal(state)) \in 1..(Len(Plan) + 1)
  BY PlanFacts, NextPositionIs
<1>3. Started(privilege, state) =
        [privilege |-> privilege, at |-> NextPosition(0, privilege, Terminal(state)),
         phase |-> IF NextPosition(0, privilege, Terminal(state)) \in Ops THEN "next" ELSE "done",
         seq |-> state.last, terminal |-> Terminal(state), detected |-> {}]
  BY <1>1 DEF Started
<1> QED BY <1>1, <1>2, <1>3, PlanFacts DEF Brokers

\* An executor whose number, and whose place or phase, have changed.
LEMMA BrokerMoves ==
  ASSUME NEW b \in Brokers, NEW at \in 0..(Len(Plan) + 1),
         NEW phase \in {"idle", "next", "running", "done", "failed"}, NEW seq \in Nat
  PROVE  /\ [b EXCEPT !.phase = phase] \in Brokers
         /\ [b EXCEPT !.phase = phase, !.seq = seq] \in Brokers
         /\ [b EXCEPT !.at = at, !.seq = seq, !.phase = phase] \in Brokers
<1>1. ASSUME NEW c \in Brokers
      PROVE  /\ [c EXCEPT !.phase = phase] \in Brokers
             /\ [c EXCEPT !.seq = seq] \in Brokers
             /\ [c EXCEPT !.at = at] \in Brokers
  BY DEF Brokers
<1>2. /\ [[b EXCEPT !.phase = phase] EXCEPT !.seq = seq] \in Brokers
      /\ [[[b EXCEPT !.at = at] EXCEPT !.seq = seq] EXCEPT !.phase = phase] \in Brokers
  BY <1>1
<1>3. /\ [b EXCEPT !.phase = phase, !.seq = seq] = [[b EXCEPT !.phase = phase] EXCEPT !.seq = seq]
      /\ [b EXCEPT !.at = at, !.seq = seq, !.phase = phase] =
           [[[b EXCEPT !.at = at] EXCEPT !.seq = seq] EXCEPT !.phase = phase]
  BY Zenon
<1> QED BY <1>1, <1>2, <1>3, Zenon

LEMMA AdvancedIs ==
  ASSUME broker \in Brokers, broker.at \in Ops
  PROVE  /\ Advanced \in Brokers
         /\ Advanced.privilege = broker.privilege /\ Advanced.terminal = broker.terminal
         /\ Advanced.detected = broker.detected /\ Advanced.seq = broker.seq + 1
         /\ Advanced.at = NextPosition(broker.at, broker.privilege, broker.terminal)
         /\ Advanced.phase = IF Advanced.at \in Ops THEN "next" ELSE "done"
<1> DEFINE next == NextPosition(broker.at, broker.privilege, broker.terminal)
           phase == IF next \in Ops THEN "next" ELSE "done"
<1>1. next \in 1..(Len(Plan) + 1)
  BY PlanFacts, NextPositionIs
<1>2. broker.seq \in Nat
  BY DEF Brokers
<1>3. Advanced = [broker EXCEPT !.at = next, !.seq = broker.seq + 1, !.phase = phase]
  BY Zenon DEF Advanced
<1> HIDE DEF next
<1>4. next \in 0..(Len(Plan) + 1) /\ phase \in {"idle", "next", "running", "done", "failed"}
  BY <1>1, PlanFacts
<1> HIDE DEF phase
<1>5. Advanced \in Brokers
  <2>1. broker.seq + 1 \in Nat
    BY <1>2
  <2>2. [broker EXCEPT !.at = next, !.seq = broker.seq + 1, !.phase = phase] \in Brokers
    BY <1>4, <2>1, BrokerMoves, Zenon
  <2> QED BY <1>3, <2>2, Zenon
<1>6. /\ Advanced.privilege = broker.privilege /\ Advanced.terminal = broker.terminal
      /\ Advanced.detected = broker.detected /\ Advanced.seq = broker.seq + 1
      /\ Advanced.at = next /\ Advanced.phase = phase
  BY <1>3 DEF Brokers
<1> QED BY <1>5, <1>6 DEF next, phase

\* What every step of the executor comes to: one event is emitted, and the executor
\* stays at its operation, having started it or failed, or goes on, the operation
\* having an end that is so.
Reports(status) ==
  /\ stage # "off" /\ broker.phase \in {"next", "running"}
  /\ Emit(status)
  /\ UNCHANGED <<jvars, stage, mode, orphans, outcome, extras>>
  /\ broker' \in Brokers /\ broker'.seq = broker.seq + 1
  /\ broker'.privilege = broker.privilege /\ broker'.terminal = broker.terminal
  /\ machine \subseteq machine' /\ machine' \subseteq Targets
  /\ broker'.detected \subseteq broker.detected \cup machine
  /\ \/ status = "started" /\ broker'.at = broker.at /\ broker'.phase = "running"
     \/ status = "failed" /\ broker'.at = broker.at /\ broker'.phase = "failed"
     \/ /\ status \in Fit(broker.at)
        /\ broker'.at = NextPosition(broker.at, broker.privilege, broker.terminal)
        /\ broker'.phase = IF broker'.at \in Ops THEN "next" ELSE "done"
        /\ status = "succeeded" => Current.target \in machine'
        /\ status = "skipped" =>
             \/ Current.kind = "configure"
             \/ Current.kind = "install" /\ Current.target \in broker.detected
        /\ ~mode.dry /\ Needed(broker.at) => Current.target \in machine' \cup broker.detected

LEMMA BrokerReports ==
  ASSUME TypeOK, PlaceInv, Broker
  PROVE  /\ \E status \in J!Statuses : Reports(status)
         /\ faults' \in 0..MaxFaults
<1> USE DEF Current, Needed
<1>1. broker \in Brokers /\ machine \subseteq Targets /\ faults \in 0..MaxFaults /\ MaxFaults \in Nat
  BY PlanAssumption DEF TypeOK, Brokers
<1>2. stage # "off" /\ broker.phase \in {"next", "running"} /\ broker.at \in Ops
  BY DEF Broker, SkipOperation, StartOperation, FinishDetect, FinishOperation, FailOperation,
         BrokerRuns, PlaceInv
<1>3. Current.target \in Targets /\ broker.at \in 0..(Len(Plan) + 1)
  BY <1>2, PlanFacts
<1>4. /\ Advanced \in Brokers
      /\ Advanced.privilege = broker.privilege /\ Advanced.terminal = broker.terminal
      /\ Advanced.detected = broker.detected /\ Advanced.seq = broker.seq + 1
      /\ Advanced.at = NextPosition(broker.at, broker.privilege, broker.terminal)
      /\ Advanced.phase = IF Advanced.at \in Ops THEN "next" ELSE "done"
  BY <1>1, <1>2, AdvancedIs
<1>5. CASE SkipOperation
  <2>1. broker' = Advanced /\ Emit("skipped") /\ Skips
    BY <1>5 DEF SkipOperation
  <2>2. Reports("skipped")
    BY <1>1, <1>2, <1>4, <1>5, <2>1 DEF SkipOperation, Skips, Reports, Fit, Ends
  <2> QED BY <1>1, <1>5, <2>2 DEF SkipOperation, J!Statuses
<1>6. CASE StartOperation
  <2>1. broker' = [broker EXCEPT !.phase = "running", !.seq = @ + 1]
    BY <1>6 DEF StartOperation
  <2>2. broker' \in Brokers
    <3>1. broker.seq + 1 \in Nat /\ broker.at \in 0..(Len(Plan) + 1)
      BY <1>1 DEF Brokers
    <3>2. [broker EXCEPT !.phase = "running", !.seq = broker.seq + 1] \in Brokers
      BY <1>1, <3>1, BrokerMoves
    <3> QED BY <2>1, <3>2, Zenon
  <2>3. /\ broker'.seq = broker.seq + 1
        /\ broker'.privilege = broker.privilege /\ broker'.terminal = broker.terminal
        /\ broker'.detected = broker.detected
        /\ broker'.at = broker.at /\ broker'.phase = "running"
    BY <1>1, <2>1 DEF Brokers
  <2>4. Reports("started")
    BY <1>1, <1>2, <1>6, <2>2, <2>3 DEF StartOperation, Reports
  <2> QED BY <1>1, <1>6, <2>4 DEF StartOperation, J!Statuses
<1>7. CASE FinishDetect
  <2>1. CASE Current.target \in machine
    <3>1. broker' = [Advanced EXCEPT !.detected = @ \cup {Current.target}] /\ Emit("succeeded")
      BY <1>7, <2>1 DEF FinishDetect
    <3>2. /\ broker' \in Brokers /\ broker'.seq = broker.seq + 1
          /\ broker'.privilege = broker.privilege /\ broker'.terminal = broker.terminal
          /\ broker'.detected = broker.detected \cup {Current.target}
          /\ broker'.at = Advanced.at /\ broker'.phase = Advanced.phase
      BY <1>3, <1>4, <3>1 DEF Brokers
    <3>3. Reports("succeeded")
      BY <1>1, <1>2, <1>4, <1>7, <2>1, <3>1, <3>2 DEF FinishDetect, Reports, Fit, Ends
    <3> QED BY <1>1, <1>7, <3>3 DEF FinishDetect, J!Statuses
  <2>2. CASE Current.target \notin machine
    <3>1. broker' = Advanced /\ Emit("planned")
      BY <1>7, <2>2 DEF FinishDetect
    <3>2. Reports("planned")
      BY <1>1, <1>2, <1>4, <1>7, <3>1 DEF FinishDetect, Reports, Fit
    <3> QED BY <1>1, <1>7, <3>2 DEF FinishDetect, J!Statuses
  <2> QED BY <2>1, <2>2
<1>8. CASE FinishOperation
  <2>1. broker' = Advanced
    BY <1>8 DEF FinishOperation
  <2>2. CASE broker.at \in Manual
    <3>1. Reports("skipped")
      BY <1>1, <1>2, <1>4, <1>8, <2>1, <2>2, PlanFacts DEF FinishOperation, Reports, Fit, Ends
    <3> QED BY <1>1, <1>8, <3>1 DEF FinishOperation, J!Statuses
  <2>3. CASE broker.at \notin Manual /\ mode.dry
    <3>1. Reports("planned")
      BY <1>1, <1>2, <1>4, <1>8, <2>1, <2>3 DEF FinishOperation, Reports, Fit
    <3> QED BY <1>1, <1>8, <3>1 DEF FinishOperation, J!Statuses
  <2>4. CASE broker.at \notin Manual /\ ~mode.dry
    <3>1. Reports("succeeded")
      BY <1>1, <1>2, <1>3, <1>4, <1>8, <2>1, <2>4 DEF FinishOperation, Reports, Fit, Ends
    <3> QED BY <1>1, <1>8, <3>1 DEF FinishOperation, J!Statuses
  <2> QED BY <2>2, <2>3, <2>4
<1>9. CASE FailOperation
  <2>1. broker' = [broker EXCEPT !.phase = "failed", !.seq = @ + 1]
    BY <1>9 DEF FailOperation
  <2>2. broker' \in Brokers
    <3>1. broker.seq + 1 \in Nat /\ broker.at \in 0..(Len(Plan) + 1)
      BY <1>1 DEF Brokers
    <3>2. [broker EXCEPT !.phase = "failed", !.seq = broker.seq + 1] \in Brokers
      BY <1>1, <3>1, BrokerMoves
    <3> QED BY <2>1, <3>2, Zenon
  <2>3. /\ broker'.seq = broker.seq + 1
        /\ broker'.privilege = broker.privilege /\ broker'.terminal = broker.terminal
        /\ broker'.detected = broker.detected
        /\ broker'.at = broker.at /\ broker'.phase = "failed"
    BY <1>1, <2>1 DEF Brokers
  <2>4. Reports("failed")
    BY <1>1, <1>2, <1>3, <1>9, <2>2, <2>3 DEF FailOperation, Reports
  <2> QED BY <1>1, <1>9, <2>4 DEF FailOperation, Fault, J!Statuses
<1> QED BY <1>5, <1>6, <1>7, <1>8, <1>9 DEF Broker

\* The next event on the pipe is the one the journal's writer expects.
LEMMA HeadIsNext ==
  ASSUME TypeOK, StreamInv, opened, pipe # <<>>
  PROVE  /\ Head(pipe) = pipe[1] /\ 1 \in DOMAIN pipe
         /\ Head(pipe) \in J!Event /\ Head(pipe) \in J!NextEvent
<1>1. pipe \in Seq(J!Event)
  BY DEF TypeOK
<1>2. Head(pipe) = pipe[1] /\ 1 \in DOMAIN pipe /\ pipe[1] \in J!Event
  BY <1>1
<1>3. pipe[1].seq = mem.last + 1
  BY <1>2 DEF StreamInv
<1> QED BY <1>2, <1>3 DEF J!Event, J!NextEvent

\* A command is given up: the journal is released, its last event written or
\* not, and the executor is gone or about to be killed.
GivesUp ==
  /\ opened /\ J!Released /\ UNCHANGED <<snapshot, mode, machine, extras>>
  /\ \/ UNCHANGED lines
     \/ ~dirty /\ pipe # <<>> /\ lines' = Append(lines, Head(pipe))
  /\ \/ InChild /\ stage' = "killing" /\ UNCHANGED <<broker, pipe, outcome>>
     \/ stage' = "off" /\ broker' = Idle /\ pipe' = <<>> /\ outcome' = "failed"
  /\ orphans' \subseteq Ops /\ faults' \in 0..MaxFaults

LEMMA OrphansAreOps ==
  ASSUME TypeOK, PlaceInv, Orphaned
  PROVE  orphans' \subseteq Ops
BY DEF Orphaned, InFlight, TypeOK, PlaceInv

LEMMA FaultsAreBounded ==
  ASSUME TypeOK
  PROVE  /\ faults \in 0..MaxFaults
         /\ \A kind : Fault(kind) => faults' \in 0..MaxFaults
BY PlanAssumption DEF TypeOK, Fault

\* The steps of the system, those that come to the same told together.
LEMMA StepKinds ==
  ASSUME BaseInv, [Next]_vars
  PROVE  \/ \E m \in Modes : Install(m) \/ Resume(m)
         \/ faults' \in 0..MaxFaults /\ \E status \in J!Statuses : Reports(status)
         \/ PersistEvent
         \/ GivesUp
         \/ Save \/ EnterUserPartition \/ Complete \/ ReapChild \/ ChildDies
         \/ \E i \in orphans : OrphanEnds(i)
         \/ UNCHANGED vars
<1>1. TypeOK /\ PlaceInv /\ StreamInv
  BY DEF BaseInv
<1>2. orphans \subseteq Ops /\ faults \in 0..MaxFaults
  BY <1>1 DEF TypeOK
<1>3. CASE Broker
  BY <1>1, <1>3, BrokerReports
<1>4. CASE PersistRefused
  BY <1>2, <1>4 DEF PersistRefused, J!RefuseEvent, J!disk, Abort, Exit, GivesUp
<1>5. CASE PersistFails
  BY <1>1, <1>2, <1>5, FaultsAreBounded
     DEF PersistFails, J!AppendFails, Abort, Exit, GivesUp
<1>6. CASE SaveFails
  BY <1>1, <1>2, <1>6, FaultsAreBounded DEF SaveFails, J!SaveFails, J!disk, Abort, Exit, GivesUp
<1>7. CASE ReportFailure
  BY <1>1, <1>2, <1>7 DEF ReportFailure, J!Close, J!disk, Exit, GivesUp
<1>8. CASE Crash
  BY <1>1, <1>2, <1>8, FaultsAreBounded, OrphansAreOps DEF Crash, J!Close, J!disk, Exit, GivesUp
<1> QED BY <1>3, <1>4, <1>5, <1>6, <1>7, <1>8 DEF Next, Controller, Proceeds, Environment

\* Every step is one of the journal's, or leaves it alone.
LEMMA JournalStep ==
  ASSUME BaseInv, [Next]_vars
  PROVE  [J!Next]_J!jvars
<1>1. TypeOK /\ PlaceInv /\ StreamInv
  BY DEF BaseInv
<1>2. opened /\ pipe # <<>> => Head(pipe) \in J!NextEvent
  BY <1>1, HeadIsNext
<1>3. CASE \E m \in Modes : Install(m) \/ Resume(m)
  BY <1>3 DEF Install, Resume, J!Next
<1>4. CASE Broker
  BY <1>4 DEF Broker, SkipOperation, StartOperation, FinishDetect, FinishOperation,
              FailOperation, jvars, J!jvars
<1>5. CASE PersistEvent
  BY <1>2, <1>5 DEF PersistEvent, J!AppendEvent, J!Next
<1>6. CASE PersistRefused \/ PersistFails
  BY <1>2, <1>6 DEF PersistRefused, PersistFails, J!RefuseEvent, J!AppendFails, J!Next
<1>7. CASE Save \/ SaveFails
  BY <1>7 DEF Save, SaveFails, J!Next
<1>8. CASE Complete \/ ReportFailure \/ Crash
  BY <1>8 DEF Complete, ReportFailure, Crash, J!Next
<1>9. CASE EnterUserPartition \/ ReapChild \/ ChildDies \/ \E i \in orphans : OrphanEnds(i)
  BY <1>9 DEF EnterUserPartition, ReapChild, ChildDies, OrphanEnds, jvars, J!jvars
<1>10. CASE UNCHANGED vars
  BY <1>10 DEF vars, jvars, J!jvars
<1> QED
  BY <1>3, <1>4, <1>5, <1>6, <1>7, <1>8, <1>9, <1>10 DEF Next, Controller, Proceeds, Environment

LEMMA JournalTypeStep ==
  ASSUME BaseInv, [Next]_vars
  PROVE  J!TypeOK'
<1>1. JP!TypeOK /\ [JP!Next]_JP!jvars
  BY JournalStep, SameJournal DEF BaseInv, TypeOK
<1>2. JP!TypeOK'
  BY <1>1, JP!TypeStep, NoStateIsNotAState
<1> QED BY <1>2, SameJournal

\* What the executor says is an event, and the last on the pipe.
LEMMA EmittedIs ==
  ASSUME TypeOK, PlaceInv, NEW status \in J!Statuses, Reports(status)
  PROVE  /\ broker.at \in Ops /\ broker.seq \in Nat
         /\ pipe' \in Seq(J!Event) /\ Len(pipe') = Len(pipe) + 1
         /\ \A k \in DOMAIN pipe : k \in DOMAIN pipe' /\ pipe'[k] = pipe[k]
         /\ \A k \in DOMAIN pipe' : k \in DOMAIN pipe \/ k = Len(pipe) + 1
         /\ Len(pipe) + 1 \in DOMAIN pipe'
         /\ pipe'[Len(pipe) + 1] = [seq |-> broker.seq + 1, op |-> broker.at, status |-> status]
<1> DEFINE ev == [seq |-> broker.seq + 1, op |-> broker.at, status |-> status]
<1>1. broker.at \in Ops
  BY DEF Reports, PlaceInv
<1>2. broker.seq \in Nat
  BY DEF TypeOK
<1>3. ev \in J!Event
  BY <1>1, <1>2 DEF J!Event
<1>4. pipe \in Seq(J!Event) /\ pipe' = Append(pipe, ev)
  BY DEF TypeOK, Reports, Emit
<1> HIDE DEF ev
<1>5. /\ pipe' \in Seq(J!Event) /\ Len(pipe') = Len(pipe) + 1
      /\ \A k \in DOMAIN pipe : k \in DOMAIN pipe' /\ pipe'[k] = pipe[k]
      /\ \A k \in DOMAIN pipe' : k \in DOMAIN pipe \/ k = Len(pipe) + 1
      /\ Len(pipe) + 1 \in DOMAIN pipe' /\ pipe'[Len(pipe) + 1] = ev
  BY <1>3, <1>4
<1> QED BY <1>1, <1>2, <1>5 DEF ev

\* A command starts from a state of this plan: the new one, or the state file's.
LEMMA BeginsFrom ==
  ASSUME TypeOK, J!TypeOK', NEW m, Install(m) \/ Resume(m)
  PROVE  \E state \in J!State : Begin(state, m) /\ opened' /\ mem' = state /\ snapshot' = state
<1>1. CASE Install(m)
  BY <1>1 DEF Install, J!OpenNew, J!TypeOK
<1>2. CASE Resume(m)
  BY <1>2 DEF Resume, J!OpenResume, TypeOK, J!TypeOK
<1> QED BY <1>1, <1>2

LEMMA IdleType == Idle \in Brokers
BY PlanFacts DEF Idle, Brokers

LEMMA TypeStep ==
  ASSUME BaseInv, [Next]_vars
  PROVE  TypeOK'
<1>1. TypeOK /\ PlaceInv /\ StreamInv /\ J!TypeOK'
  BY JournalTypeStep DEF BaseInv
<1>2. broker \in Brokers /\ faults \in 0..MaxFaults /\ extras \in 0..MaxExtras /\ pipe \in Seq(J!Event)
  BY <1>1 DEF TypeOK, Brokers
<1>3. TypeOK' <=> /\ stage' \in {"off", "elevated", "user", "killing"}
                  /\ mode' \in [dry : BOOLEAN, noConfig : BOOLEAN]
                  /\ broker' \in Brokers /\ pipe' \in Seq(J!Event)
                  /\ machine' \subseteq Targets /\ orphans' \subseteq Ops
                  /\ outcome' \in {"none", "running", "ok", "failed"}
                  /\ faults' \in 0..MaxFaults /\ extras' \in 0..MaxExtras
  BY <1>1 DEF TypeOK, Brokers
<1>4. ASSUME NEW m \in Modes, Install(m) \/ Resume(m) PROVE TypeOK'
  <2>1. PICK state \in J!State : Begin(state, m)
    BY <1>1, <1>4, BeginsFrom
  <2>2. broker' \in Brokers
    BY <2>1, StartedIs DEF Begin
  <2>3. mode' \in [dry : BOOLEAN, noConfig : BOOLEAN]
    BY <2>1, PlanAssumption DEF Begin
  <2>4. extras' \in 0..MaxExtras
    BY <1>2, <2>1, PlanAssumption DEF Begin
  <2> QED BY <1>1, <1>3, <2>1, <2>2, <2>3, <2>4 DEF Begin, TypeOK
<1>5. ASSUME NEW status \in J!Statuses, Reports(status), faults' \in 0..MaxFaults PROVE TypeOK'
  BY <1>1, <1>3, <1>5, EmittedIs DEF Reports, TypeOK
<1>6. CASE PersistEvent
  <2>1. pipe' \in Seq(J!Event)
    BY <1>2, <1>6 DEF PersistEvent
  <2> QED BY <1>1, <1>2, <1>3, <1>6, <2>1 DEF PersistEvent, TypeOK
<1>7. CASE GivesUp
  <2>1. broker' \in Brokers
    BY <1>2, <1>7, IdleType DEF GivesUp
  <2>2. pipe' \in Seq(J!Event)
    <3>1. pipe' = pipe \/ pipe' = <<>>
      BY <1>7 DEF GivesUp
    <3>2. <<>> \in Seq(J!Event)
      OBVIOUS
    <3> QED BY <1>2, <3>1, <3>2, Zenon
  <2> QED BY <1>1, <1>3, <1>7, <2>1, <2>2 DEF GivesUp, TypeOK
<1>8. CASE Save
  BY <1>1, <1>2, <1>3, <1>8 DEF Save, TypeOK
<1>9. CASE EnterUserPartition
  <2>1. broker' \in Brokers
    BY <1>1, <1>9, StartedIs DEF EnterUserPartition, TypeOK, J!TypeOK
  <2> QED BY <1>1, <1>2, <1>3, <1>9, <2>1 DEF EnterUserPartition, TypeOK
<1>10. CASE Complete
  BY <1>1, <1>2, <1>3, <1>10, IdleType DEF Complete, Exit, TypeOK
<1>11. CASE ReapChild
  BY <1>1, <1>2, <1>3, <1>11, IdleType, OrphansAreOps DEF ReapChild, Exit, TypeOK
<1>12. CASE ChildDies
  <2>1. broker' \in Brokers
    <3>1. broker.seq \in Nat /\ broker.at \in 0..(Len(Plan) + 1)
      BY <1>2 DEF Brokers
    <3>2. [broker EXCEPT !.phase = "failed"] \in Brokers
      BY <1>2, <3>1, BrokerMoves
    <3> QED BY <1>12, <3>2, Zenon DEF ChildDies
  <2> QED BY <1>1, <1>2, <1>3, <1>12, <2>1, OrphansAreOps, FaultsAreBounded DEF ChildDies, TypeOK
<1>13. ASSUME NEW i \in orphans, OrphanEnds(i) PROVE TypeOK'
  <2>1. i \in Ops
    BY <1>1 DEF TypeOK
  <2> QED BY <1>1, <1>2, <1>3, <1>13, <2>1, PlanFacts DEF OrphanEnds, TypeOK
<1>14. CASE UNCHANGED vars
  BY <1>1, <1>2, <1>3, <1>14 DEF vars, TypeOK
<1> QED BY <1>4, <1>5, <1>6, <1>7, <1>8, <1>9, <1>10, <1>11, <1>12, <1>13, <1>14, StepKinds

\* A release leaves nothing opened; a place in the plan is where an executor of
\* that partition may be.
LEMMA PlaceStep ==
  ASSUME BaseInv, [Next]_vars
  PROVE  PlaceInv'
<1>1. TypeOK /\ PlaceInv /\ TypeOK' /\ J!TypeOK'
  BY TypeStep, JournalTypeStep DEF BaseInv
<1>2. broker \in Brokers
  BY <1>1 DEF TypeOK, Brokers
<1>3. ASSUME NEW privilege \in {"elevated", "user"}, NEW state \in J!State,
             broker' = Started(privilege, state)
      PROVE  /\ broker'.privilege = privilege
             /\ broker'.phase \in {"next", "running"} =>
                  /\ broker'.at \in Ops /\ broker'.at \notin broker'.terminal
                  /\ Plan[broker'.at].privilege = broker'.privilege
             /\ broker'.phase = "done" => broker'.at = Len(Plan) + 1
  BY <1>3, StartedIs, NextPositionIs, PlanFacts
<1>4. ASSUME NEW m \in Modes, Install(m) \/ Resume(m) PROVE PlaceInv'
  <2>1. PICK state \in J!State : Begin(state, m)
    BY <1>1, <1>4, BeginsFrom
  <2>2. opened' = TRUE
    BY <1>4 DEF Install, Resume, J!OpenNew, J!OpenResume
  <2> QED BY <1>3, <2>1, <2>2 DEF Begin, PlaceInv
<1>5. ASSUME NEW status \in J!Statuses, Reports(status) PROVE PlaceInv'
  <2>1. broker.at \in Ops
    BY <1>1, <1>5 DEF Reports, PlaceInv
  <2>2. broker.at \in 0..Len(Plan)
    BY <2>1, PlanFacts
  <2>3. CASE broker'.at = broker.at /\ broker'.phase \in {"running", "failed"}
    BY <1>1, <1>5, <2>1, <2>3 DEF Reports, PlaceInv, jvars
  <2>4. CASE /\ broker'.at = NextPosition(broker.at, broker.privilege, broker.terminal)
             /\ broker'.phase = IF broker'.at \in Ops THEN "next" ELSE "done"
    <3>1. broker'.at \in Ops =>
            Plan[broker'.at].privilege = broker.privilege /\ broker'.at \notin broker.terminal
      BY <2>2, <2>4, NextPositionIs
    <3>2. broker'.at \notin Ops => broker'.at = Len(Plan) + 1
      BY <2>2, <2>4, NextPositionIs
    <3> QED BY <1>1, <1>5, <2>4, <3>1, <3>2 DEF Reports, PlaceInv, jvars
  <2> QED BY <1>5, <2>3, <2>4 DEF Reports
<1>6. CASE PersistEvent
  BY <1>1, <1>6 DEF PersistEvent, J!AppendEvent, PlaceInv
<1>7. CASE GivesUp
  BY <1>1, <1>7 DEF GivesUp, J!Released, InChild, PlaceInv, Idle
<1>8. CASE Save
  BY <1>1, <1>8 DEF Save, J!SaveState, PlaceInv
<1>9. CASE EnterUserPartition
  <2>1. mem \in J!State
    BY <1>1 DEF TypeOK, J!TypeOK
  <2> QED BY <1>1, <1>3, <1>9, <2>1 DEF EnterUserPartition, PlaceInv, jvars
<1>10. CASE Complete
  BY <1>1, <1>10 DEF Complete, Exit, J!Close, J!Released, PlaceInv, Idle
<1>11. CASE ReapChild
  BY <1>1, <1>11 DEF ReapChild, Exit, PlaceInv, Idle, jvars
<1>12. CASE ChildDies
  <2>1. broker'.privilege = broker.privilege /\ broker'.phase = "failed"
    BY <1>2, <1>12 DEF ChildDies, Brokers
  <2> QED BY <1>1, <1>12, <2>1 DEF ChildDies, PlaceInv, jvars
<1>13. ASSUME NEW i \in orphans, OrphanEnds(i) PROVE PlaceInv'
  BY <1>1, <1>13 DEF OrphanEnds, PlaceInv, jvars
<1>14. CASE UNCHANGED vars
  BY <1>1, <1>14 DEF vars, PlaceInv, jvars
<1> QED BY <1>4, <1>5, <1>6, <1>7, <1>8, <1>9, <1>10, <1>11, <1>12, <1>13, <1>14, StepKinds

LEMMA StreamStep ==
  ASSUME BaseInv, [Next]_vars
  PROVE  StreamInv'
<1>1. TypeOK /\ PlaceInv /\ StreamInv /\ TypeOK' /\ J!TypeOK'
  BY TypeStep, JournalTypeStep DEF BaseInv
<1>2. pipe \in Seq(J!Event) /\ mem.last \in Nat /\ broker.seq \in Nat
  BY <1>1 DEF TypeOK, J!TypeOK, J!State
<1>3. ASSUME NEW m \in Modes, Install(m) \/ Resume(m) PROVE StreamInv'
  <2>1. PICK state \in J!State : Begin(state, m) /\ mem' = state
    BY <1>1, <1>3, BeginsFrom
  <2>2. broker'.seq = mem'.last /\ pipe' = <<>> /\ mem'.last \in Nat
    BY <1>1, <2>1, StartedIs DEF Begin, PlaceInv, J!State
  <2> QED BY <2>2 DEF StreamInv
<1>4. ASSUME NEW status \in J!Statuses, Reports(status) PROVE StreamInv'
  <2>1. mem' = mem /\ opened' = opened /\ broker'.seq = broker.seq + 1
    BY <1>4 DEF Reports, jvars
  <2>2. /\ Len(pipe') = Len(pipe) + 1
        /\ \A k \in DOMAIN pipe : pipe'[k] = pipe[k]
        /\ \A k \in DOMAIN pipe' : k \in DOMAIN pipe \/ k = Len(pipe) + 1
        /\ pipe'[Len(pipe) + 1] = [seq |-> broker.seq + 1, op |-> broker.at, status |-> status]
    BY <1>1, <1>4, EmittedIs
  <2>3. pipe'[Len(pipe) + 1].seq = broker.seq + 1
    BY <2>2
  <2>4. Len(pipe) \in Nat
    BY <1>2
  <2>5. ASSUME opened PROVE broker.seq = mem.last + Len(pipe)
    BY <1>1, <2>5 DEF StreamInv
  <2>6. ASSUME opened, NEW k \in DOMAIN pipe' PROVE pipe'[k].seq = mem.last + k
    <3>1. CASE k \in DOMAIN pipe
      BY <1>1, <2>2, <2>6, <3>1 DEF StreamInv
    <3>2. CASE k = Len(pipe) + 1
      BY <1>2, <2>3, <2>4, <2>5, <2>6, <3>2
    <3> QED BY <2>2, <3>1, <3>2
  <2>7. ASSUME opened PROVE broker'.seq = mem.last + Len(pipe')
    BY <1>2, <2>1, <2>2, <2>4, <2>5, <2>7
  <2> QED BY <2>1, <2>6, <2>7 DEF StreamInv
<1>5. CASE PersistEvent
  <2>1. Head(pipe) = pipe[1] /\ 1 \in DOMAIN pipe /\ pipe # <<>> /\ opened
    BY <1>1, <1>5, HeadIsNext DEF PersistEvent, J!AppendEvent
  <2>2. pipe[1].seq = mem.last + 1
    BY <1>1, <2>1 DEF StreamInv
  <2>3. mem'.last = mem.last + 1
    BY <1>2, <1>5, <2>1, <2>2 DEF PersistEvent, J!AppendEvent, J!ApplyEvent
  <2>4. /\ Len(pipe') = Len(pipe) - 1 /\ Len(pipe') \in Nat
        /\ \A k \in DOMAIN pipe' : k + 1 \in DOMAIN pipe /\ pipe'[k] = pipe[k + 1]
    BY <1>2, <1>5, <2>1 DEF PersistEvent
  <2>5. broker' = broker
    BY <1>5 DEF PersistEvent
  <2>6. ASSUME NEW k \in DOMAIN pipe' PROVE pipe'[k].seq = mem'.last + k
    <3>1. pipe'[k].seq = mem.last + (k + 1)
      BY <1>1, <2>1, <2>4 DEF StreamInv
    <3>2. k \in Nat
      BY <1>1 DEF TypeOK
    <3> QED BY <1>2, <2>3, <3>1, <3>2
  <2>7. broker'.seq = mem'.last + Len(pipe')
    <3>1. broker.seq = mem.last + Len(pipe)
      BY <1>1, <2>1 DEF StreamInv
    <3> QED BY <1>2, <2>3, <2>4, <2>5, <3>1
  <2> QED BY <2>6, <2>7 DEF StreamInv
<1>6. CASE GivesUp \/ Complete
  BY <1>6 DEF GivesUp, Complete, J!Close, J!Released, StreamInv
<1>7. CASE Save
  BY <1>1, <1>7 DEF Save, J!SaveState, StreamInv
<1>8. CASE EnterUserPartition
  <2>1. /\ mem' = mem /\ mem \in J!State /\ pipe' = <<>>
        /\ broker' = Started("user", mem)
    BY <1>1, <1>8 DEF EnterUserPartition, PartitionOver, jvars, TypeOK, J!TypeOK
  <2>2. broker'.seq = mem'.last
    BY <2>1, StartedIs
  <2> QED BY <1>2, <2>1, <2>2 DEF StreamInv
<1>9. CASE ReapChild
  BY <1>1, <1>9 DEF ReapChild, PlaceInv, StreamInv, jvars
<1>10. CASE ChildDies
  <2>1. broker'.seq = broker.seq
    BY <1>1, <1>10 DEF ChildDies, TypeOK
  <2> QED BY <1>1, <1>10, <2>1 DEF ChildDies, StreamInv, jvars
<1>11. ASSUME NEW i \in orphans, OrphanEnds(i) PROVE StreamInv'
  BY <1>1, <1>11 DEF OrphanEnds, StreamInv, jvars
<1>12. CASE UNCHANGED vars
  BY <1>1, <1>12 DEF vars, StreamInv, jvars
<1> QED BY <1>3, <1>4, <1>5, <1>6, <1>7, <1>8, <1>9, <1>10, <1>11, <1>12, StepKinds

LEMMA BaseInit == Init => BaseInv
<1> SUFFICES ASSUME Init PROVE BaseInv
  OBVIOUS
<1>1. J!TypeOK
  <2>1. JP!Init
    BY SameJournal DEF Init
  <2>2. JP!TypeOK
    BY <2>1, JP!TypeInit, NoStateIsNotAState
  <2> QED BY <2>2, SameJournal
<1>2. mode \in [dry : BOOLEAN, noConfig : BOOLEAN]
  BY DEF Init, Real
<1>3. machine \subseteq Targets
  BY DEF Init, Targets
<1>4. broker \in Brokers
  BY IdleType DEF Init
<1>5. faults \in 0..MaxFaults /\ extras \in 0..MaxExtras
  BY PlanAssumption DEF Init
<1>6. TypeOK
  BY <1>1, <1>2, <1>3, <1>4, <1>5 DEF Init, TypeOK, Brokers
<1>7. PlaceInv /\ StreamInv
  BY DEF Init, J!Init, PlaceInv, StreamInv, Idle
<1> QED BY <1>6, <1>7 DEF BaseInv

LEMMA BaseStep == BaseInv /\ [Next]_vars => BaseInv'
BY TypeStep, PlaceStep, StreamStep DEF BaseInv

LEMMA BaseAlways == Spec => []BaseInv
BY BaseInit, BaseStep, PTL DEF Spec

\* Every variable of the session keeps its kind, whatever plan, faults and
\* commands there are.
THEOREM TypeCorrect == Spec => []TypeOK
<1>1. BaseInv => TypeOK
  BY DEF BaseInv
<1> QED BY <1>1, BaseAlways, PTL

\* The events on their way continue the recorded state without a gap, although
\* the executor counts by itself in another process (broker.go:359, main.go:295).
THEOREM StreamContinues == Spec => []EventsContinueState
<1>1. BaseInv => EventsContinueState
  BY DEF BaseInv, PlaceInv, StreamInv, EventsContinueState
<1> QED BY <1>1, BaseAlways, PTL

\* Two processes, a pipe and two partitions use the journal as the one writer of
\* Journal.tla does: the session implements the journal's specification.
THEOREM SessionImplementsJournal == Spec => ImplementsJournal
<1>1. Init => J!Init
  BY DEF Init
<1>2. BaseInv /\ [Next]_vars => [J!Next]_J!jvars
  BY JournalStep
<1> QED BY <1>1, <1>2, BaseAlways, PTL DEF Spec, ImplementsJournal, J!Spec

LEMMA JournalInvInit == Init => JournalInv
<1> SUFFICES ASSUME Init PROVE JournalInv
  OBVIOUS
<1>1. JP!Init
  BY SameJournal DEF Init
<1>2. JP!OrderInv
  BY <1>1, JP!OrderInit, NoStateIsNotAState
<1>3. JP!RecordInv
  BY <1>1 DEF JP!Init, JP!RecordInv, JP!SnapshotRecorded
<1> QED BY <1>2, <1>3 DEF JournalInv

LEMMA JournalInvStep == BaseInv /\ JournalInv /\ [Next]_vars => JournalInv'
<1> SUFFICES ASSUME BaseInv, JournalInv, [Next]_vars PROVE JournalInv'
  OBVIOUS
<1>1. JP!TypeOK /\ [JP!Next]_JP!jvars
  BY JournalStep, SameJournal DEF BaseInv, TypeOK
<1>2. JP!OrderInv'
  BY <1>1, JP!OrderStep, NoStateIsNotAState DEF JournalInv
<1>3. JP!RecordInv'
  BY <1>1, JP!RecordStep, NoStateIsNotAState DEF JournalInv
<1> QED BY <1>2, <1>3 DEF JournalInv

\* A state is what its lines say, as JournalProofs has it.
LEMMA WriterHolds ==
  ASSUME TypeOK, JournalInv
  PROVE  /\ opened => snapshot # NoState
         /\ opened /\ ~dirty => mem = snapshot
         /\ opened => JP!Recorded(lines, mem)
         /\ snapshot # NoState => snapshot \in J!State /\ JP!Recorded(lines, snapshot)
         /\ lines \in Seq(J!Event) /\ mem \in J!State
BY DEF TypeOK, J!TypeOK, JournalInv, JP!OrderInv, JP!WriterInStep, JP!RecordInv, JP!SnapshotRecorded

\* The line of the event at the head of the pipe is the only new one, and is
\* beyond what the state covers.
LEMMA NewLineIs ==
  ASSUME TypeOK, StreamInv, JournalInv, opened, ~dirty, pipe # <<>>,
         lines' = Append(lines, Head(pipe))
  PROVE  /\ mem = snapshot /\ snapshot # NoState /\ mem.last \in Nat
         /\ Head(pipe) \in J!Event /\ Head(pipe) = pipe[1] /\ 1 \in DOMAIN pipe
         /\ Head(pipe).seq = mem.last + 1
         /\ \A k \in DOMAIN lines' :
              (k \in DOMAIN lines /\ lines'[k] = lines[k]) \/ lines'[k] = Head(pipe)
<1>1. mem = snapshot /\ snapshot # NoState /\ lines \in Seq(J!Event) /\ mem \in J!State
  BY WriterHolds
<1>2. mem.last \in Nat
  BY <1>1 DEF J!State
<1>3. Head(pipe) \in J!Event /\ Head(pipe) = pipe[1] /\ 1 \in DOMAIN pipe
  BY HeadIsNext
<1>4. Head(pipe).seq = mem.last + 1
  BY <1>3 DEF StreamInv
<1>5. \A k \in DOMAIN lines' :
        (k \in DOMAIN lines /\ lines'[k] = lines[k]) \/ lines'[k] = Head(pipe)
  BY <1>1, <1>3
<1> QED BY <1>1, <1>2, <1>3, <1>4, <1>5

\* What AppendEvent accepts is beyond every line there is.
LEMMA LinesAreBehind ==
  ASSUME TypeOK, StreamInv, JournalInv, PersistEvent
  PROVE  \A k \in DOMAIN lines : lines[k].seq <= mem.last
<1>1. opened /\ ~dirty /\ pipe # <<>> /\ ~J!Refuses(Head(pipe).seq)
  BY DEF PersistEvent, J!AppendEvent
<1>2. Head(pipe) \in JP!NextEvent /\ ~JP!Refuses(Head(pipe).seq)
  BY <1>1, HeadIsNext DEF J!NextEvent, JP!NextEvent, J!Statuses, JP!Statuses,
                          J!Refuses, JP!Refuses
<1>3. JP!TypeOK /\ JP!OrderInv
  BY SameJournal DEF TypeOK, JournalInv
<1>4. \A k \in DOMAIN lines : lines[k].seq <= snapshot.last
  BY <1>1, <1>2, <1>3, JP!AcceptedIsBeyond, NoStateIsNotAState
<1> QED BY <1>1, <1>4, WriterHolds

-----------------------------------------------------------------------------
(* 2. Operations that are recorded are left alone.                         *)

\* A state after an event about an operation that it does not list as dealt with.
LEMMA AppliedIs ==
  ASSUME NEW state \in J!State, ListsAgree(state), NEW ev \in J!Event,
         ev.op \notin Terminal(state), ev.seq = state.last + 1
  PROVE  LET new == J!ApplyEvent(state, ev)
         IN  /\ new.last = ev.seq /\ ListsAgree(new)
             /\ state.completed \subseteq new.completed
             /\ ev.status = "succeeded" => ev.op \in new.completed
             /\ Terminal(new) = Terminal(state) \cup IF ev.status \in Ends THEN {ev.op} ELSE {}
             /\ \A op \in Ops :
                  new.status[op] = IF op = ev.op THEN ev.status ELSE state.status[op]
<1> DEFINE new == J!ApplyEvent(state, ev)
<1>1. /\ ev.op \in Ops /\ ev.status \in J!Statuses /\ ev.seq \in Nat
      /\ state.last \in Nat /\ state.status \in [Ops -> J!Statuses \cup {"none"}]
      /\ Terminal(state) = state.completed \cup state.skipped
  BY TerminalType DEF J!Event
<1>2. /\ new.last = IF ev.seq > state.last THEN ev.seq ELSE state.last
      /\ new.completed = J!Listed(state.completed, "succeeded", ev)
      /\ new.skipped = J!Listed(state.skipped, "skipped", ev)
      /\ new.status = [state.status EXCEPT ![ev.op] = ev.status]
      /\ Terminal(new) = new.completed \cup new.skipped
  BY DEF J!ApplyEvent, Terminal, J!TerminalOperations
<1> HIDE DEF new
<1>3. new.last = ev.seq
  BY <1>1, <1>2
<1>4. /\ new.completed = state.completed \cup IF ev.status = "succeeded" THEN {ev.op} ELSE {}
      /\ new.skipped = state.skipped \cup IF ev.status = "skipped" THEN {ev.op} ELSE {}
  BY <1>1, <1>2 DEF J!Listed, J!FinalStatuses
<1>5. \A op \in Ops : new.status[op] = IF op = ev.op THEN ev.status ELSE state.status[op]
  BY <1>1, <1>2
<1>6. ListsAgree(new)
  BY <1>1, <1>4, <1>5 DEF ListsAgree
<1>7. Terminal(new) = Terminal(state) \cup IF ev.status \in Ends THEN {ev.op} ELSE {}
  BY <1>1, <1>2, <1>4 DEF Ends
<1> QED BY <1>3, <1>4, <1>5, <1>6, <1>7 DEF new

\* A partition starts with nothing on the pipe, what is dealt with not ahead.
LEMMA StartedPipe ==
  ASSUME NEW privilege \in {"elevated", "user"}, mem' \in J!State,
         broker' = Started(privilege, mem'), pipe' = <<>>
  PROVE  PipeInv'
<1>1. broker'.terminal = Terminal(mem')
  BY StartedIs
<1> QED BY <1>1 DEF PipeInv, Ahead, Terminal

\* The executor's step is about an operation it had ahead, and leaves no other.
LEMMA ReportIsAhead ==
  ASSUME TypeOK, PlaceInv, NEW status \in J!Statuses, Reports(status)
  PROVE  /\ Ahead(broker.at) /\ Plan[broker.at].privilege = broker.privilege
         /\ \A op \in Ops : Ahead(op)' => Ahead(op) /\ (op = broker.at => status = "started")
<1>1. /\ broker.at \in Ops /\ broker.at \notin broker.terminal
      /\ broker.phase \in {"next", "running"} /\ Plan[broker.at].privilege = broker.privilege
  BY DEF Reports, PlaceInv
<1>2. Ahead(broker.at)
  BY <1>1 DEF Ahead
<1>3. broker.at \in 0..Len(Plan) /\ Ops \subseteq Nat
  BY <1>1, PlanFacts
<1>4. broker'.privilege = broker.privilege /\ broker'.terminal = broker.terminal
  BY DEF Reports
<1>5. ASSUME NEW op \in Ops, Ahead(op)' PROVE Ahead(op) /\ (op = broker.at => status = "started")
  <2>1. CASE broker'.at = broker.at /\ status = "started"
    BY <1>1, <1>3, <1>4, <1>5, <2>1 DEF Ahead
  <2>2. CASE broker'.at = broker.at /\ broker'.phase = "failed"
    BY <1>1, <1>3, <1>4, <1>5, <2>2 DEF Ahead
  <2>3. CASE broker'.at = NextPosition(broker.at, broker.privilege, broker.terminal)
    <3>1. broker'.at > broker.at /\ broker'.at \in Nat
      BY <1>3, <2>3, NextPositionIs, PlanFacts
    <3> QED BY <1>1, <1>3, <1>4, <1>5, <3>1 DEF Ahead
  <2> QED BY <2>1, <2>2, <2>3 DEF Reports
<1> QED BY <1>1, <1>2, <1>5

LEMMA ReportPipe ==
  ASSUME TypeOK, PlaceInv, PipeInv, NEW status \in J!Statuses, Reports(status)
  PROVE  PipeInv'
<1>1. /\ broker.at \in Ops
      /\ \A k \in DOMAIN pipe : pipe'[k] = pipe[k]
      /\ \A k \in DOMAIN pipe' : k \in DOMAIN pipe \/ k = Len(pipe) + 1
      /\ pipe'[Len(pipe) + 1] = [seq |-> broker.seq + 1, op |-> broker.at, status |-> status]
  BY EmittedIs
<1>2. pipe'[Len(pipe) + 1].op = broker.at /\ pipe'[Len(pipe) + 1].status = status
  BY <1>1
<1>3. /\ mem' = mem /\ broker'.privilege = broker.privilege /\ broker'.terminal = broker.terminal
  BY DEF Reports, jvars
<1>4. /\ Ahead(broker.at) /\ Plan[broker.at].privilege = broker.privilege
      /\ \A op \in Ops : Ahead(op)' => Ahead(op) /\ (op = broker.at => status = "started")
  BY ReportIsAhead
<1>5. /\ broker.at \notin Terminal(mem)
      /\ \A k \in DOMAIN pipe : pipe[k].op = broker.at => pipe[k].status = "started"
  BY <1>1, <1>4 DEF PipeInv
<1>6. broker'.terminal \subseteq Terminal(mem')
  BY <1>3 DEF PipeInv
<1>7. ASSUME NEW k \in DOMAIN pipe'
      PROVE  pipe'[k].op \notin Terminal(mem') /\ Plan[pipe'[k].op].privilege = broker'.privilege
  BY <1>1, <1>2, <1>3, <1>4, <1>5 DEF PipeInv
<1>8. ASSUME NEW i \in DOMAIN pipe', NEW k \in DOMAIN pipe', i < k, pipe'[i].op = pipe'[k].op
      PROVE  pipe'[i].status \notin Ends
  <2>1. DOMAIN pipe = 1..Len(pipe) /\ Len(pipe) \in Nat
    BY DEF TypeOK
  <2>2. i \in DOMAIN pipe
    BY <1>1, <1>8, <2>1
  <2>3. CASE k \in DOMAIN pipe
    BY <1>1, <1>8, <2>2, <2>3 DEF PipeInv
  <2>4. CASE k = Len(pipe) + 1
    BY <1>1, <1>2, <1>5, <1>8, <2>2, <2>4 DEF Ends
  <2> QED BY <1>1, <2>3, <2>4
<1>9. ASSUME NEW op \in Ops, Ahead(op)'
      PROVE  /\ op \notin Terminal(mem')
             /\ \A k \in DOMAIN pipe' : pipe'[k].op = op => pipe'[k].status = "started"
  <2>1. Ahead(op) /\ (op = broker.at => status = "started")
    BY <1>4, <1>9
  <2>2. ASSUME NEW k \in DOMAIN pipe', pipe'[k].op = op PROVE pipe'[k].status = "started"
    BY <1>1, <1>2, <2>1, <2>2 DEF PipeInv
  <2> QED BY <1>3, <2>1, <2>2 DEF PipeInv
<1> QED BY <1>6, <1>7, <1>8, <1>9, Zenon DEF PipeInv, Terminal

\* What PersistEvent does, to the memory and to the pipe.
LEMMA PersistedIs ==
  ASSUME TypeOK, StreamInv, JournalInv, PipeInv, ListsAgree(mem), PersistEvent
  PROVE  LET ev == pipe[1]
         IN  /\ mem'.last = mem.last + 1 /\ ListsAgree(mem') /\ ev.seq = mem.last + 1
             /\ mem.completed \subseteq mem'.completed
             /\ ev.status = "succeeded" => ev.op \in mem'.completed
             /\ Terminal(mem') = Terminal(mem) \cup IF ev.status \in Ends THEN {ev.op} ELSE {}
             /\ \A op \in Ops :
                  mem'.status[op] = IF op = ev.op THEN ev.status ELSE mem.status[op]
             /\ 1 \in DOMAIN pipe /\ ev \in J!Event
             /\ \A k \in DOMAIN pipe' : /\ k \in Nat \ {0} /\ k + 1 \in DOMAIN pipe
                                         /\ pipe'[k] = pipe[k + 1]
             /\ \A k \in DOMAIN pipe : k = 1 \/ (k - 1 \in DOMAIN pipe' /\ pipe'[k - 1] = pipe[k])
<1>1. /\ opened /\ ~dirty /\ pipe # <<>> /\ lines' = Append(lines, Head(pipe))
      /\ mem' = J!ApplyEvent(mem, Head(pipe)) /\ pipe' = Tail(pipe)
  BY DEF PersistEvent, J!AppendEvent
<1>2. /\ Head(pipe) \in J!Event /\ Head(pipe) = pipe[1] /\ 1 \in DOMAIN pipe
      /\ Head(pipe).seq = mem.last + 1
  BY <1>1, NewLineIs
<1>3. mem \in J!State /\ pipe \in Seq(J!Event)
  BY DEF TypeOK, J!TypeOK
<1>4. pipe[1].op \notin Terminal(mem)
  BY <1>2 DEF PipeInv
<1>5. /\ mem'.last = pipe[1].seq /\ ListsAgree(mem')
      /\ mem.completed \subseteq mem'.completed
      /\ pipe[1].status = "succeeded" => pipe[1].op \in mem'.completed
      /\ Terminal(mem') = Terminal(mem) \cup IF pipe[1].status \in Ends THEN {pipe[1].op} ELSE {}
      /\ \A op \in Ops :
           mem'.status[op] = IF op = pipe[1].op THEN pipe[1].status ELSE mem.status[op]
  BY <1>1, <1>2, <1>3, <1>4, AppliedIs
<1>6. /\ \A k \in DOMAIN pipe' : k \in Nat \ {0} /\ k + 1 \in DOMAIN pipe /\ pipe'[k] = pipe[k + 1]
      /\ \A k \in DOMAIN pipe : k = 1 \/ (k - 1 \in DOMAIN pipe' /\ pipe'[k - 1] = pipe[k])
  BY <1>1, <1>3
<1> QED BY <1>2, <1>5, <1>6

LEMMA PersistPipe ==
  ASSUME TypeOK, StreamInv, JournalInv, PipeInv, ListsAgree(mem), PersistEvent
  PROVE  PipeInv'
<1> DEFINE ev == pipe[1]
<1>1. /\ Terminal(mem') = Terminal(mem) \cup IF ev.status \in Ends THEN {ev.op} ELSE {}
      /\ 1 \in DOMAIN pipe
      /\ \A k \in DOMAIN pipe' : k \in Nat \ {0} /\ k + 1 \in DOMAIN pipe /\ pipe'[k] = pipe[k + 1]
  BY PersistedIs
<1>2. broker' = broker
  BY DEF PersistEvent
<1>3. broker'.terminal \subseteq Terminal(mem')
  BY <1>1, <1>2 DEF PipeInv
<1>4. ASSUME NEW k \in DOMAIN pipe'
      PROVE  pipe'[k].op \notin Terminal(mem') /\ Plan[pipe'[k].op].privilege = broker'.privilege
  <2>1. 1 < k + 1 /\ k + 1 \in DOMAIN pipe /\ pipe'[k] = pipe[k + 1]
    BY <1>1
  <2>2. pipe[k + 1].op = ev.op => ev.status \notin Ends
    BY <1>1, <2>1 DEF PipeInv
  <2> QED BY <1>1, <1>2, <2>1, <2>2 DEF PipeInv
<1>5. ASSUME NEW i \in DOMAIN pipe', NEW k \in DOMAIN pipe', i < k, pipe'[i].op = pipe'[k].op
      PROVE  pipe'[i].status \notin Ends
  <2>1. i + 1 < k + 1
    BY <1>1, <1>5
  <2> QED BY <1>1, <1>5, <2>1 DEF PipeInv
<1>6. ASSUME NEW op \in Ops, Ahead(op)'
      PROVE  /\ op \notin Terminal(mem')
             /\ \A k \in DOMAIN pipe' : pipe'[k].op = op => pipe'[k].status = "started"
  <2>1. Ahead(op)
    BY <1>2, <1>6 DEF Ahead
  <2>2. op \notin Terminal(mem) /\ \A k \in DOMAIN pipe : pipe[k].op = op => pipe[k].status = "started"
    BY <2>1 DEF PipeInv
  <2>3. op = ev.op => ev.status \notin Ends
    BY <1>1, <2>2 DEF Ends
  <2> QED BY <1>1, <2>2, <2>3
<1> QED BY <1>3, <1>4, <1>5, <1>6, Zenon DEF PipeInv, Terminal

LEMMA WorkStep == BaseInv /\ JournalInv /\ WorkInv /\ [Next]_vars => WorkInv'
<1> SUFFICES ASSUME BaseInv, JournalInv, WorkInv, [Next]_vars PROVE WorkInv'
  OBVIOUS
<1>1. TypeOK /\ PlaceInv /\ StreamInv /\ TypeOK' /\ J!TypeOK' /\ StreamInv' /\ JournalInv'
  BY BaseStep, JournalTypeStep, JournalInvStep DEF BaseInv
<1>2. mem' \in J!State
  BY <1>1 DEF J!TypeOK
\* Steps that leave the journal, the pipe and the executor's place alone, or release
\* the journal.
<1>3. ASSUME UNCHANGED <<lines, snapshot, mem, opened, pipe>>, opened => PipeInv' PROVE WorkInv'
  BY <1>3 DEF WorkInv, ListsAgree, SuccessesKept, Terminal
<1>4. ASSUME UNCHANGED snapshot, opened' = FALSE,
             snapshot # NoState => SuccessesKept(snapshot)'
      PROVE  WorkInv'
  BY <1>4 DEF WorkInv, ListsAgree
<1>5. ASSUME NEW m \in Modes, Install(m) \/ Resume(m) PROVE WorkInv'
  <2>1. PICK state \in J!State : Begin(state, m) /\ opened' /\ mem' = state /\ snapshot' = state
    BY <1>1, <1>5, BeginsFrom
  <2>2. ListsAgree(state) /\ SuccessesKept(state)'
    <3>1. CASE Install(m)
      <4>1. state = J!NewState /\ lines' = <<>>
        BY <3>1, <2>1 DEF Install, J!OpenNew
      <4> QED BY <4>1 DEF J!NewState, ListsAgree, SuccessesKept
    <3>2. CASE Resume(m)
      <4>1. state = snapshot /\ snapshot # NoState /\ lines' = lines
        BY <3>2, <2>1 DEF Resume, J!OpenResume
      <4> QED BY <4>1 DEF WorkInv, SuccessesKept
    <3> QED BY <1>5, <3>1, <3>2
  <2>3. PipeInv'
    <3>1. broker' = Started("elevated", mem') /\ pipe' = <<>>
      BY <1>1, <2>1 DEF Begin, PlaceInv
    <3> QED BY <1>2, <3>1, StartedPipe
  <2> QED BY <2>1, <2>2, <2>3 DEF WorkInv, ListsAgree, SuccessesKept
<1>6. ASSUME NEW status \in J!Statuses, Reports(status) PROVE WorkInv'
  <2>1. /\ lines' = lines /\ snapshot' = snapshot /\ mem' = mem /\ opened' = opened
    BY <1>6 DEF Reports, jvars
  <2>2. opened => PipeInv'
    BY <1>1, <1>6, ReportPipe DEF WorkInv
  <2> QED BY <2>1, <2>2 DEF WorkInv, ListsAgree, SuccessesKept, Terminal
<1>7. CASE PersistEvent
  <2>1. /\ opened /\ opened' = opened /\ snapshot' = snapshot /\ pipe # <<>> /\ ~dirty
        /\ lines' = Append(lines, Head(pipe))
    BY <1>7 DEF PersistEvent, J!AppendEvent
  <2>2. PipeInv /\ ListsAgree(mem) /\ SuccessesKept(mem) /\ Terminal(snapshot) \subseteq Terminal(mem)
    BY <2>1 DEF WorkInv
  <2>3. /\ mem = snapshot /\ mem.last \in Nat
        /\ Head(pipe) = pipe[1] /\ Head(pipe).seq = mem.last + 1
        /\ \A k \in DOMAIN lines' :
             (k \in DOMAIN lines /\ lines'[k] = lines[k]) \/ lines'[k] = Head(pipe)
    BY <1>1, <2>1, NewLineIs
  <2>4. /\ ListsAgree(mem') /\ mem.completed \subseteq mem'.completed
        /\ Head(pipe).status = "succeeded" => Head(pipe).op \in mem'.completed
        /\ Terminal(mem) \subseteq Terminal(mem')
    BY <1>1, <1>7, <2>2, <2>3, PersistedIs
  <2>5. \A k \in DOMAIN lines : lines[k].seq <= mem.last
    BY <1>1, <1>7, LinesAreBehind
  <2>6. SuccessesKept(mem)'
    BY <2>2, <2>3, <2>4, <2>5 DEF SuccessesKept
  <2>7. SuccessesKept(snapshot)'
    BY <2>1, <2>2, <2>3 DEF SuccessesKept
  <2>8. PipeInv'
    BY <1>1, <1>7, <2>2, PersistPipe
  <2> QED BY <2>1, <2>2, <2>3, <2>4, <2>6, <2>7, <2>8 DEF WorkInv, ListsAgree, Terminal
<1>8. CASE GivesUp
  <2>1. opened /\ snapshot' = snapshot /\ opened' = FALSE
    BY <1>8 DEF GivesUp, J!Released
  <2>2. snapshot # NoState /\ SuccessesKept(snapshot)
    BY <1>1, <2>1, WriterHolds DEF WorkInv
  <2>3. SuccessesKept(snapshot)'
    <3>1. CASE lines' = lines
      BY <2>1, <2>2, <3>1 DEF SuccessesKept
    <3>2. CASE ~dirty /\ pipe # <<>> /\ lines' = Append(lines, Head(pipe))
      <4>1. /\ mem = snapshot /\ mem.last \in Nat /\ Head(pipe).seq = mem.last + 1
            /\ \A k \in DOMAIN lines' :
                 (k \in DOMAIN lines /\ lines'[k] = lines[k]) \/ lines'[k] = Head(pipe)
        BY <1>1, <2>1, <3>2, NewLineIs
      <4> QED BY <2>1, <2>2, <4>1 DEF SuccessesKept
    <3> QED BY <1>8, <3>1, <3>2 DEF GivesUp
  <2> QED BY <1>4, <2>1, <2>3
<1>9. CASE Save
  <2>1. /\ opened /\ snapshot' = mem
        /\ UNCHANGED <<lines, mem, opened, pipe, broker>>
    BY <1>9 DEF Save, J!SaveState
  <2>2. PipeInv'
    BY <2>1 DEF WorkInv, PipeInv, Ahead, Terminal
  <2> QED BY <2>1, <2>2 DEF WorkInv, ListsAgree, SuccessesKept, Terminal
<1>10. CASE EnterUserPartition
  <2>1. /\ UNCHANGED <<lines, snapshot, mem, opened, pipe>>
        /\ broker' = Started("user", mem') /\ pipe' = <<>>
    BY <1>10 DEF EnterUserPartition, PartitionOver, jvars
  <2> QED BY <1>2, <1>3, <2>1, StartedPipe
<1>11. CASE Complete
  <2>1. UNCHANGED <<snapshot, lines>> /\ opened' = FALSE
    BY <1>11 DEF Complete, J!Close, J!disk, J!Released
  <2>2. snapshot # NoState => SuccessesKept(snapshot)'
    BY <2>1 DEF WorkInv, SuccessesKept
  <2> QED BY <1>4, <2>1, <2>2
<1>12. CASE ReapChild
  <2>1. UNCHANGED <<snapshot, lines>> /\ opened' = FALSE
    BY <1>1, <1>12 DEF ReapChild, PlaceInv, TypeOK, J!TypeOK, jvars
  <2>2. snapshot # NoState => SuccessesKept(snapshot)'
    BY <2>1 DEF WorkInv, SuccessesKept
  <2> QED BY <1>4, <2>1, <2>2
<1>13. CASE ChildDies
  <2>1. /\ UNCHANGED <<lines, snapshot, mem, opened, pipe>>
        /\ broker' = [broker EXCEPT !.phase = "failed"]
    BY <1>13 DEF ChildDies, jvars
  <2>2. /\ broker'.privilege = broker.privilege /\ broker'.terminal = broker.terminal
        /\ broker'.at = broker.at /\ broker'.phase = "failed"
    BY <1>1, <2>1 DEF TypeOK
  <2>3. \A op \in Ops : Ahead(op)' => Ahead(op)
    BY <2>2 DEF Ahead
  <2>4. opened => PipeInv'
    BY <2>1, <2>2, <2>3 DEF WorkInv, PipeInv, Terminal
  <2> QED BY <1>3, <2>1, <2>4
<1>14. ASSUME NEW i \in orphans, OrphanEnds(i) PROVE WorkInv'
  <2>1. UNCHANGED <<lines, snapshot, mem, opened, pipe, broker>>
    BY <1>14 DEF OrphanEnds, jvars
  <2> QED BY <1>3, <2>1 DEF WorkInv, PipeInv, Ahead, Terminal
<1>15. CASE UNCHANGED vars
  <2>1. UNCHANGED <<lines, snapshot, mem, opened, pipe, broker>>
    BY <1>15 DEF vars, jvars
  <2> QED BY <1>3, <2>1 DEF WorkInv, PipeInv, Ahead, Terminal
<1> QED BY <1>5, <1>6, <1>7, <1>8, <1>9, <1>10, <1>11, <1>12, <1>13, <1>14, <1>15, StepKinds

LEMMA WorkInit == Init => WorkInv
BY DEF Init, J!Init, WorkInv

LEMMA WorkAlways == Spec => [](BaseInv /\ JournalInv /\ WorkInv)
BY BaseInit, BaseStep, JournalInvInit, JournalInvStep, WorkInit, WorkStep, PTL DEF Spec

\* Nothing that the state file records as done or skipped is ever taken back, by
\* a later run, dry or real, or by a new installation (service.go:129-138).
THEOREM RecordedIsKept == Spec => RecordedWorkIsKept
<1>1. ASSUME BaseInv, JournalInv, WorkInv, [Next]_vars, snapshot # NoState
      PROVE  Terminal(snapshot) \subseteq Terminal(snapshot')
  <2>1. TypeOK
    BY <1>1 DEF BaseInv
  <2>2. ASSUME NEW m \in Modes, Install(m)
        PROVE  Terminal(snapshot) \subseteq Terminal(snapshot')
    <3>1. lines = <<>>
      BY <2>2 DEF Install, J!OpenNew
    <3>2. JP!Recorded(<<>>, snapshot) /\ snapshot \in J!State
      BY <1>1, <2>1, <3>1, WriterHolds
    <3>3. snapshot.completed = {} /\ snapshot.skipped = {}
      BY <3>2 DEF JP!Recorded, JP!Verdict, J!State
    <3> QED BY <3>3 DEF Terminal, J!TerminalOperations
  <2>3. CASE Save
    BY <1>1, <2>3 DEF Save, J!SaveState, WorkInv
  <2>4. CASE snapshot' = snapshot
    BY <2>4
  <2>5. (\E m \in Modes : Install(m)) \/ Save \/ snapshot' = snapshot
    BY <1>1, StepKinds
       DEF Resume, J!OpenResume, Reports, PersistEvent, J!AppendEvent, GivesUp,
           EnterUserPartition, Complete, J!Close, J!disk, ReapChild, ChildDies, OrphanEnds,
           vars, jvars
  <2> QED BY <2>2, <2>3, <2>4, <2>5
<1>2. BaseInv /\ JournalInv /\ WorkInv /\ [Next]_vars
        => [snapshot # NoState =>
              J!TerminalOperations(snapshot) \subseteq J!TerminalOperations(snapshot')]_vars
  BY <1>1 DEF Terminal
<1> QED BY <1>2, WorkAlways, PTL DEF Spec, RecordedWorkIsKept

\* No command executes an operation again whose success is in the journal, unless
\* the files it goes on from were left out of step.
THEOREM RecordedIsNotRepeated == Spec => []RecordedWorkIsNotRepeated
<1>1. ASSUME BaseInv, WorkInv, InFlight, InStep, NEW k \in DOMAIN lines,
             lines[k].op = broker.at, lines[k].status = "succeeded"
      PROVE  FALSE
  <2>1. TypeOK /\ PlaceInv
    BY <1>1 DEF BaseInv
  <2>2. /\ broker.at \in Ops /\ broker.at \notin broker.terminal /\ broker.phase = "running"
        /\ Plan[broker.at].privilege = broker.privilege
    BY <1>1, <2>1 DEF InFlight, PlaceInv
  <2>3. lines[k].seq <= mem.last
    BY <1>1 DEF InStep
  <2>4. CASE opened
    <3>1. broker.at \notin Terminal(mem)
      BY <1>1, <2>2, <2>4 DEF WorkInv, PipeInv, Ahead
    <3>2. broker.at \in mem.completed
      BY <1>1, <2>3, <2>4 DEF WorkInv, SuccessesKept
    <3> QED BY <3>1, <3>2 DEF Terminal, J!TerminalOperations
  <2>5. CASE ~opened
    <3>1. mem.last = 0
      BY <2>1, <2>5 DEF TypeOK, J!TypeOK, J!NewState
    <3>2. lines[k].seq \in Nat \ {0}
      <4>1. lines[k] \in J!Event
        BY <2>1 DEF TypeOK, J!TypeOK
      <4> QED BY <4>1 DEF J!Event
    <3> QED BY <2>3, <3>1, <3>2
  <2> QED BY <2>4, <2>5
<1>2. BaseInv /\ WorkInv => RecordedWorkIsNotRepeated
  BY <1>1 DEF RecordedWorkIsNotRepeated
<1> QED BY <1>2, WorkAlways, PTL

-----------------------------------------------------------------------------
(* 3. What the events say is so.                                           *)

\* What a state that agrees with a true journal lists as dealt with is there.
LEMMA TerminalIsTrue ==
  ASSUME NEW state \in J!State, JP!Recorded(lines, state), LinesTrue
  PROVE  \A op \in Terminal(state) : Needed(op) => Plan[op].target \in machine
<1> SUFFICES ASSUME NEW op \in Terminal(state), Needed(op) PROVE Plan[op].target \in machine
  OBVIOUS
<1>1. op \in Ops /\ (op \in state.completed \/ op \in state.skipped)
  BY TerminalType
<1>2. CASE op \in state.completed
  <2>1. PICK k \in DOMAIN lines : lines[k].op = op /\ lines[k].status = "succeeded"
    BY <1>1, <1>2 DEF JP!Recorded, JP!Verdict
  <2> QED BY <2>1 DEF LinesTrue, Truthful
<1>3. CASE op \in state.skipped
  <2>1. PICK k \in DOMAIN lines : lines[k].op = op /\ lines[k].status = "skipped"
    BY <1>1, <1>3 DEF JP!Recorded, JP!Verdict
  <2> QED BY <2>1 DEF LinesTrue, Truthful, Needed
<1> QED BY <1>1, <1>2, <1>3

\* The machine keeps what it has.
LEMMA MachineGrows ==
  ASSUME BaseInv, [Next]_vars
  PROVE  machine \subseteq machine'
BY StepKinds
   DEF Install, Resume, Begin, Reports, PersistEvent, GivesUp, Save, EnterUserPartition,
       Complete, ReapChild, ChildDies, OrphanEnds, vars

\* Every line that a step adds was on the pipe.
LEMMA LinesStayTrue ==
  ASSUME BaseInv, JournalInv, LinesTrue, PipeTrue, [Next]_vars
  PROVE  LinesTrue'
<1>1. TypeOK /\ StreamInv /\ machine \subseteq machine'
  BY MachineGrows DEF BaseInv
<1>2. CASE lines' = lines
  BY <1>1, <1>2 DEF LinesTrue, Truthful
<1>3. CASE opened /\ ~dirty /\ pipe # <<>> /\ lines' = Append(lines, Head(pipe))
  <2>1. /\ Head(pipe) = pipe[1] /\ 1 \in DOMAIN pipe
        /\ \A k \in DOMAIN lines' :
             (k \in DOMAIN lines /\ lines'[k] = lines[k]) \/ lines'[k] = Head(pipe)
    BY <1>1, <1>3, NewLineIs
  <2> QED BY <1>1, <2>1 DEF LinesTrue, PipeTrue, Truthful
<1>4. lines' = lines \/ (opened /\ ~dirty /\ pipe # <<>> /\ lines' = Append(lines, Head(pipe)))
  BY StepKinds
     DEF Install, J!OpenNew, Resume, J!OpenResume, Reports, PersistEvent, J!AppendEvent, GivesUp,
         Save, J!SaveState, EnterUserPartition, Complete, J!Close, J!disk, ReapChild, ChildDies,
         OrphanEnds, vars, jvars
<1> QED BY <1>2, <1>3, <1>4

\* Every event that a step adds to the pipe is true when it is emitted.
LEMMA PipeStaysTrue ==
  ASSUME BaseInv, broker.detected \subseteq machine, PipeTrue, [Next]_vars
  PROVE  PipeTrue'
<1>1. TypeOK /\ PlaceInv /\ StreamInv /\ machine \subseteq machine'
  BY MachineGrows DEF BaseInv
<1>2. CASE pipe' = pipe \/ pipe' = <<>>
  BY <1>1, <1>2 DEF PipeTrue, Truthful
<1>3. ASSUME NEW status \in J!Statuses, Reports(status) PROVE PipeTrue'
  <2>1. /\ \A k \in DOMAIN pipe : pipe'[k] = pipe[k]
        /\ \A k \in DOMAIN pipe' : k \in DOMAIN pipe \/ k = Len(pipe) + 1
        /\ pipe'[Len(pipe) + 1] = [seq |-> broker.seq + 1, op |-> broker.at, status |-> status]
    BY <1>1, <1>3, EmittedIs
  <2>2. pipe'[Len(pipe) + 1].op = broker.at /\ pipe'[Len(pipe) + 1].status = status
    BY <2>1
  <2>3. /\ status = "succeeded" => Plan[broker.at].target \in machine'
        /\ status = "skipped" =>
             \/ Plan[broker.at].kind = "configure"
             \/ Plan[broker.at].kind = "install" /\ Plan[broker.at].target \in machine'
    BY <1>1, <1>3 DEF Reports, Current
  <2> QED BY <1>1, <2>1, <2>2, <2>3 DEF PipeTrue, Truthful
<1>4. CASE PersistEvent
  <2>1. \A k \in DOMAIN pipe' : k + 1 \in DOMAIN pipe /\ pipe'[k] = pipe[k + 1]
    BY <1>1, <1>4 DEF PersistEvent, TypeOK
  <2> QED BY <1>1, <2>1 DEF PipeTrue, Truthful
<1>5. \/ \E status \in J!Statuses : Reports(status)
      \/ PersistEvent \/ pipe' = pipe \/ pipe' = <<>>
  BY StepKinds
     DEF Install, Resume, Begin, GivesUp, Save, EnterUserPartition, Complete, Exit, ReapChild,
         ChildDies, OrphanEnds, vars
<1> QED BY <1>2, <1>3, <1>4, <1>5

\* An executor started from a true state has passed only what is there.
LEMMA StartedTrue ==
  ASSUME NEW privilege \in {"elevated", "user"}, NEW state \in J!State,
         JP!Recorded(lines, state), LinesTrue, broker' = Started(privilege, state),
         machine' = machine
  PROVE  /\ broker'.detected \subseteq machine'
         /\ \A op \in broker'.terminal : Needed(op) => Plan[op].target \in machine'
         /\ \A op \in Ops :
              /\ Needed(op) /\ Plan[op].privilege = broker'.privilege /\ op < broker'.at
              => Plan[op].target \in machine'
<1>1. /\ broker'.privilege = privilege /\ broker'.terminal = Terminal(state)
      /\ broker'.detected = {} /\ broker'.at = NextPosition(0, privilege, Terminal(state))
  BY StartedIs
<1>2. \A op \in Terminal(state) : Needed(op) => Plan[op].target \in machine
  BY TerminalIsTrue
<1>3. ASSUME NEW op \in Ops, Plan[op].privilege = privilege, op < broker'.at
      PROVE  op \in Terminal(state)
  <2>1. 0 < op /\ 0 \in 0..Len(Plan)
    BY PlanFacts
  <2> QED BY <1>1, <1>3, <2>1, NextPositionIs
<1> QED BY <1>1, <1>2, <1>3

LEMMA BrokerStaysTrue ==
  ASSUME BaseInv, JournalInv, LinesTrue, BrokerTrue, [Next]_vars
  PROVE  BrokerTrue'
<1>1. TypeOK /\ PlaceInv /\ J!TypeOK' /\ machine \subseteq machine'
  BY MachineGrows, JournalTypeStep DEF BaseInv
\* Steps on which the executor is past no more than before, or is gone.
<1>2. ASSUME /\ broker'.detected \subseteq broker.detected
             /\ broker'.terminal \subseteq broker.terminal
             /\ mode' = mode /\ \A op \in Ops : Passed(op)' => Passed(op)
      PROVE  BrokerTrue'
  BY <1>1, <1>2 DEF BrokerTrue
<1>3. ASSUME broker' = Idle, mode' = mode, stage' # "user" PROVE BrokerTrue'
  <2>1. /\ broker'.detected = {} /\ broker'.terminal = {}
        /\ \A op \in Ops : ~Passed(op)'
    BY <1>3, PlanFacts DEF Idle, Passed
  <2> QED BY <2>1 DEF BrokerTrue
<1>4. ASSUME NEW m \in Modes, Install(m) \/ Resume(m) PROVE BrokerTrue'
  <2>1. PICK state \in J!State : Begin(state, m) /\ opened' /\ mem' = state /\ snapshot' = state
    BY <1>1, <1>4, BeginsFrom
  <2>2. JP!Recorded(lines, state)
    <3>1. CASE Install(m)
      <4>1. state = JP!NewState /\ lines = <<>>
        BY <2>1, <3>1 DEF Install, J!OpenNew, J!NewState, JP!NewState
      <4> QED BY <4>1 DEF JP!NewState, JP!Recorded, JP!Verdict
    <3>2. CASE Resume(m)
      BY <1>1, <2>1, <3>2, WriterHolds DEF Resume, J!OpenResume
    <3> QED BY <1>4, <3>1, <3>2
  <2>3. broker' = Started("elevated", state) /\ machine' = machine /\ stage' = "elevated"
    BY <2>1 DEF Begin
  <2>4. broker'.privilege = "elevated"
    BY <2>3, StartedIs
  <2>5. /\ broker'.detected \subseteq machine'
        /\ \A op \in broker'.terminal : Needed(op) => Plan[op].target \in machine'
        /\ \A op \in Ops :
             /\ Needed(op) /\ Plan[op].privilege = broker'.privilege /\ op < broker'.at
             => Plan[op].target \in machine'
    BY <1>1, <2>2, <2>3, StartedTrue
  <2> QED BY <2>3, <2>4, <2>5 DEF BrokerTrue, Passed
<1>5. ASSUME NEW status \in J!Statuses, Reports(status) PROVE BrokerTrue'
  <2>1. /\ broker.at \in Ops /\ broker.at \in 0..Len(Plan)
        /\ Plan[broker.at].privilege = broker.privilege
    BY <1>1, <1>5, EmittedIs, PlanFacts DEF Reports, PlaceInv
  <2>2. /\ broker'.privilege = broker.privilege /\ broker'.terminal = broker.terminal
        /\ broker'.detected \subseteq machine' /\ mode' = mode /\ stage' = stage
    BY <1>1, <1>5 DEF Reports, BrokerTrue
  <2>3. \A op \in broker'.terminal : Needed(op) => Plan[op].target \in machine'
    BY <1>1, <2>2 DEF BrokerTrue
  <2>4. ASSUME ~mode.dry, NEW op \in Ops, Needed(op), Passed(op)'
        PROVE  Plan[op].target \in machine'
    <3>1. CASE Passed(op)
      BY <1>1, <2>4, <3>1 DEF BrokerTrue
    <3>2. CASE /\ Plan[op].privilege = broker.privilege /\ op < broker'.at
               /\ ~(op < broker.at)
      <4>1. CASE broker'.at = broker.at
        BY <3>2, <4>1
      <4>2. CASE broker'.at = NextPosition(broker.at, broker.privilege, broker.terminal)
                 /\ (~mode.dry /\ Needed(broker.at) =>
                      Current.target \in machine' \cup broker.detected)
        <5>1. CASE op = broker.at
          BY <1>1, <2>4, <4>2, <5>1 DEF Current, BrokerTrue
        <5>2. CASE op # broker.at
          <6>1. broker.at < op
            BY <2>1, <3>2, <5>2, PlanFacts
          <6>2. op \in broker.terminal
            BY <2>1, <3>2, <4>2, <6>1, NextPositionIs
          <6> QED BY <1>1, <2>4, <6>2 DEF BrokerTrue
        <5> QED BY <5>1, <5>2
      <4> QED BY <1>5, <4>1, <4>2 DEF Reports
    <3> QED BY <2>2, <2>4, <3>1, <3>2 DEF Passed
  <2> QED BY <2>2, <2>3, <2>4 DEF BrokerTrue
<1>6. CASE EnterUserPartition
  <2>1. /\ stage = "elevated" /\ opened /\ broker.phase = "done" /\ stage' = "user"
        /\ UNCHANGED <<mode, machine>> /\ broker' = Started("user", mem)
    BY <1>6 DEF EnterUserPartition, PartitionOver
  <2>2. broker.at = Len(Plan) + 1 /\ broker.privilege = "elevated"
    BY <1>1, <2>1 DEF PlaceInv
  <2>3. mem \in J!State /\ JP!Recorded(lines, mem)
    BY <1>1, <2>1, WriterHolds
  <2>4. /\ broker'.detected \subseteq machine'
        /\ \A op \in broker'.terminal : Needed(op) => Plan[op].target \in machine'
        /\ \A op \in Ops :
             /\ Needed(op) /\ Plan[op].privilege = broker'.privilege /\ op < broker'.at
             => Plan[op].target \in machine'
    BY <2>1, <2>3, StartedTrue
  <2>5. ASSUME ~mode.dry, NEW op \in Ops, Needed(op), Plan[op].privilege = "elevated"
        PROVE  Plan[op].target \in machine'
    <3>1. op < broker.at
      BY <2>2, PlanFacts
    <3> QED BY <2>1, <2>2, <2>5, <3>1 DEF BrokerTrue, Passed
  <2> QED BY <2>1, <2>4, <2>5 DEF BrokerTrue, Passed
<1>7. CASE PersistEvent \/ Save \/ UNCHANGED vars
  <2>1. UNCHANGED <<broker, stage, mode>>
    BY <1>7 DEF PersistEvent, Save, vars
  <2> QED BY <1>2, <2>1 DEF Passed
<1>8. CASE GivesUp
  <2>1. CASE stage' = "killing" /\ broker' = broker
    BY <1>2, <1>8, <2>1 DEF GivesUp, Passed
  <2>2. CASE stage' = "off" /\ broker' = Idle
    BY <1>3, <1>8, <2>2 DEF GivesUp
  <2> QED BY <1>8, <2>1, <2>2 DEF GivesUp
<1>9. CASE Complete \/ ReapChild
  BY <1>3, <1>9 DEF Complete, ReapChild, Exit
<1>10. CASE ChildDies
  <2>1. /\ broker'.privilege = broker.privilege /\ broker'.terminal = broker.terminal
        /\ broker'.at = broker.at /\ broker'.detected = broker.detected
    BY <1>1, <1>10 DEF ChildDies, TypeOK
  <2> QED BY <1>2, <1>10, <2>1 DEF ChildDies, Passed
<1>11. ASSUME NEW i \in orphans, OrphanEnds(i) PROVE BrokerTrue'
  <2>1. UNCHANGED <<broker, stage, mode>>
    BY <1>11 DEF OrphanEnds
  <2> QED BY <1>2, <2>1 DEF Passed
<1> QED BY <1>4, <1>5, <1>6, <1>7, <1>8, <1>9, <1>10, <1>11, StepKinds

LEMMA TruthStep == BaseInv /\ JournalInv /\ TruthInv /\ [Next]_vars => TruthInv'
BY LinesStayTrue, PipeStaysTrue, BrokerStaysTrue DEF TruthInv, BrokerTrue

LEMMA TruthInit == Init => TruthInv
<1> SUFFICES ASSUME Init PROVE TruthInv
  OBVIOUS
<1>1. lines = <<>> /\ pipe = <<>> /\ broker = Idle /\ stage = "off"
  BY DEF Init, J!Init
<1>2. \A op \in Ops : ~Passed(op)
  BY <1>1, PlanFacts DEF Passed, Idle
<1> QED BY <1>1, <1>2 DEF TruthInv, LinesTrue, PipeTrue, BrokerTrue, Idle

LEMMA TruthAlways == Spec => [](BaseInv /\ JournalInv /\ TruthInv)
BY BaseInit, BaseStep, JournalInvInit, JournalInvStep, TruthInit, TruthStep, PTL DEF Spec

\* What the journal calls succeeded, or skipped because it was installed, is on the
\* machine: true of every line, whatever runs, crashes and losses wrote it.
THEOREM JournalTellsTheTruth == Spec => []JournalIsTrue
<1>1. TruthInv => JournalIsTrue
  BY DEF TruthInv, LinesTrue, Truthful, JournalIsTrue
<1> QED BY <1>1, TruthAlways, PTL

\* No command runs before what it depends on is on the machine, although nothing
\* looks at dependencies while executing.
THEOREM DependenciesArePresent == Spec => []DependenciesPresent
<1>1. ASSUME BaseInv, TruthInv, InFlight,
             NEW d \in Current.dependsOn, Plan[d].kind # "detect"
      PROVE  Plan[d].target \in machine
  <2>1. TypeOK /\ PlaceInv
    BY <1>1 DEF BaseInv
  <2>2. /\ broker.at \in Ops /\ broker.phase = "running" /\ stage # "off" /\ ~mode.dry
        /\ Plan[broker.at].privilege = broker.privilege /\ d \in Plan[broker.at].dependsOn
    BY <1>1, <2>1 DEF InFlight, BrokerRuns, PlaceInv, Current
  <2>3. /\ d \in 1..(broker.at - 1) /\ Plan[d].kind # "configure"
        /\ Plan[broker.at].privilege = "elevated" => Plan[d].privilege = "elevated"
    BY <2>2, PlanAssumption DEF LinuxPlan, Ops
  <2>4. d \in Ops /\ d < broker.at
    BY <2>2, <2>3, PlanFacts
  <2>5. Needed(d) /\ Plan[d].privilege \in {"elevated", "user"}
    BY <1>1, <2>3, <2>4, PlanFacts DEF Needed
  <2>6. Passed(d)
    <3>1. CASE Plan[d].privilege = broker.privilege
      BY <2>4, <3>1 DEF Passed
    <3>2. CASE Plan[d].privilege # broker.privilege
      <4>1. Plan[d].privilege = "elevated" /\ broker.privilege # "elevated"
        <5>1. broker.privilege \in {"elevated", "user"}
          BY <2>2, PlanFacts
        <5> QED BY <2>2, <2>3, <2>5, <3>2, <5>1
      <4>2. stage = "user"
        BY <2>1, <2>2, <4>1 DEF PlaceInv, TypeOK
      <4> QED BY <4>1, <4>2 DEF Passed
    <3> QED BY <3>1, <3>2
  <2> QED BY <1>1, <2>2, <2>4, <2>5, <2>6 DEF TruthInv, BrokerTrue
<1>2. BaseInv /\ TruthInv => DependenciesPresent
  BY <1>1 DEF DependenciesPresent
<1> QED BY <1>2, TruthAlways, PTL

-----------------------------------------------------------------------------
(* 4. Every operation that was passed has an end.                          *)

LEMMA FitIs ==
  /\ \A op : Ends \subseteq Fit(op) /\ Fit(op) \subseteq {"succeeded", "skipped", "planned"}
  /\ mode' = mode => \A op : Fit(op)' = Fit(op)
BY DEF Fit, Ends

\* An executor that is started passes over what the state has an end of.
LEMMA StartedClosed ==
  ASSUME NEW privilege \in {"elevated", "user"}, mem' \in J!State, ListsAgree(mem)',
         broker' = Started(privilege, mem'), pipe' = <<>>
  PROVE  \A op \in Ops : Plan[op].privilege = broker'.privilege /\ op < broker'.at => Closed(op)'
<1> SUFFICES ASSUME NEW op \in Ops, Plan[op].privilege = broker'.privilege, op < broker'.at
             PROVE  Closed(op)'
  OBVIOUS
<1>1. /\ broker'.privilege = privilege
      /\ broker'.at = NextPosition(0, privilege, Terminal(mem'))
  BY StartedIs
<1>2. 0 < op /\ 0 \in 0..Len(Plan)
  BY PlanFacts
<1>3. op \in Terminal(mem')
  BY <1>1, <1>2, NextPositionIs
<1>4. mem'.status[op] \in Ends
  BY <1>3 DEF Terminal, J!TerminalOperations, ListsAgree, Ends
<1>5. mem'.status[op] \in Fit(op)'
  BY <1>4 DEF Fit, Ends
<1> QED BY <1>5 DEF Closed

LEMMA ReportClosed ==
  ASSUME TypeOK, PlaceInv, PipeInv, ListsAgree(mem), NEW status \in J!Statuses, Reports(status),
         NEW op \in Ops, Plan[op].privilege = broker.privilege, op < broker'.at,
         op < broker.at => Closed(op)
  PROVE  Closed(op)'
<1>1. /\ broker.at \in Ops /\ DOMAIN pipe = 1..Len(pipe) /\ Len(pipe) \in Nat
      /\ \A k \in DOMAIN pipe : k \in DOMAIN pipe' /\ pipe'[k] = pipe[k]
      /\ \A k \in DOMAIN pipe' : k \in DOMAIN pipe \/ k = Len(pipe) + 1
      /\ Len(pipe) + 1 \in DOMAIN pipe'
      /\ pipe'[Len(pipe) + 1] = [seq |-> broker.seq + 1, op |-> broker.at, status |-> status]
  BY EmittedIs DEF TypeOK
<1>2. pipe'[Len(pipe) + 1].op = broker.at /\ pipe'[Len(pipe) + 1].status = status
  BY <1>1
<1>3. mem' = mem /\ Fit(op)' = Fit(op)
  BY FitIs DEF Reports, jvars
<1>4. broker.at \in 0..Len(Plan) /\ op \in Nat
  BY <1>1, PlanFacts
<1>5. CASE op # broker.at /\ Closed(op)
  <2>1. CASE /\ mem.status[op] \in Fit(op) /\ \A k \in DOMAIN pipe : pipe[k].op # op
    BY <1>1, <1>2, <1>3, <1>5, <2>1 DEF Closed
  <2>2. ASSUME NEW k \in DOMAIN pipe, pipe[k].op = op, pipe[k].status \in Fit(op),
               \A j \in DOMAIN pipe : j > k => pipe[j].op # op
        PROVE  Closed(op)'
    <3>1. k \in DOMAIN pipe' /\ pipe'[k].op = op /\ pipe'[k].status \in Fit(op)'
      BY <1>1, <1>3, <2>2
    <3>2. \A j \in DOMAIN pipe' : j > k => pipe'[j].op # op
      BY <1>1, <1>2, <1>5, <2>2
    <3> QED BY <3>1, <3>2 DEF Closed
  <2> QED BY <1>5, <2>1, <2>2 DEF Closed
<1>6. CASE op # broker.at /\ op \in broker.terminal
  <2>1. op \in Terminal(mem)
    BY <1>6 DEF PipeInv
  <2>2. mem.status[op] \in Ends
    BY <2>1 DEF Terminal, J!TerminalOperations, ListsAgree, Ends
  <2>3. \A k \in DOMAIN pipe' : pipe'[k].op # op
    BY <1>1, <1>2, <1>6, <2>1 DEF PipeInv
  <2> QED BY <1>3, <2>2, <2>3, FitIs DEF Closed
<1>7. CASE op = broker.at
  <2>1. status \in Fit(broker.at)
    BY <1>4, <1>7 DEF Reports
  <2>2. \A j \in DOMAIN pipe' : ~(j > Len(pipe) + 1)
    BY <1>1
  <2> QED BY <1>1, <1>2, <1>3, <1>7, <2>1, <2>2 DEF Closed
<1>8. op < broker.at \/ op = broker.at \/ op \in broker.terminal
  <2>1. CASE broker'.at = broker.at
    BY <2>1
  <2>2. CASE broker'.at = NextPosition(broker.at, broker.privilege, broker.terminal)
    BY <1>4, <2>2, NextPositionIs
  <2> QED BY <2>1, <2>2 DEF Reports
<1>9. op < broker.at => op # broker.at
  BY <1>4
<1> QED BY <1>5, <1>6, <1>7, <1>8, <1>9

LEMMA PersistClosed ==
  ASSUME TypeOK, StreamInv, JournalInv, PipeInv, ListsAgree(mem), PersistEvent,
         NEW op \in Ops, Closed(op)
  PROVE  Closed(op)'
<1> DEFINE ev == pipe[1]
<1>1. /\ mem'.status[op] = IF op = ev.op THEN ev.status ELSE mem.status[op]
      /\ 1 \in DOMAIN pipe
      /\ \A k \in DOMAIN pipe' : k \in Nat \ {0} /\ k + 1 \in DOMAIN pipe /\ pipe'[k] = pipe[k + 1]
      /\ \A k \in DOMAIN pipe : k = 1 \/ (k - 1 \in DOMAIN pipe' /\ pipe'[k - 1] = pipe[k])
  BY PersistedIs
<1>2. Fit(op)' = Fit(op)
  BY FitIs DEF PersistEvent
<1>3. CASE mem.status[op] \in Fit(op) /\ \A k \in DOMAIN pipe : pipe[k].op # op
  BY <1>1, <1>2, <1>3 DEF Closed
<1>4. ASSUME NEW k \in DOMAIN pipe, pipe[k].op = op, pipe[k].status \in Fit(op),
             \A j \in DOMAIN pipe : j > k => pipe[j].op # op
      PROVE  Closed(op)'
  <2>1. CASE k = 1
    <3>1. mem'.status[op] \in Fit(op)'
      BY <1>1, <1>2, <1>4, <2>1
    <3>2. \A j \in DOMAIN pipe' : pipe'[j].op # op
      BY <1>1, <1>4, <2>1
    <3> QED BY <3>1, <3>2 DEF Closed
  <2>2. CASE k # 1
    <3>1. k - 1 \in DOMAIN pipe' /\ pipe'[k - 1] = pipe[k] /\ k \in Nat
      BY <1>1, <2>2 DEF TypeOK
    <3>2. ASSUME NEW j \in DOMAIN pipe', j > k - 1 PROVE pipe'[j].op # op
      <4>1. j + 1 \in DOMAIN pipe /\ j + 1 > k /\ pipe'[j] = pipe[j + 1]
        BY <1>1, <3>1, <3>2
      <4> QED BY <1>4, <4>1
    <3> QED BY <1>2, <1>4, <3>1, <3>2 DEF Closed
  <2> QED BY <2>1, <2>2
<1> QED BY <1>3, <1>4 DEF Closed

LEMMA EndStep == BaseInv /\ JournalInv /\ WorkInv /\ EndInv /\ [Next]_vars => EndInv'
<1> SUFFICES ASSUME BaseInv, JournalInv, WorkInv, EndInv, [Next]_vars PROVE EndInv'
  OBVIOUS
<1>1. TypeOK /\ PlaceInv /\ StreamInv /\ J!TypeOK' /\ WorkInv'
  BY JournalTypeStep, WorkStep DEF BaseInv
<1>2. mem' \in J!State
  BY <1>1 DEF J!TypeOK
<1>3. mode' = mode => \A op \in Ops : Fit(op)' = Fit(op)
  BY FitIs
<1>4. ASSUME NEW m \in Modes, Install(m) \/ Resume(m) PROVE EndInv'
  <2>1. PICK state \in J!State : Begin(state, m) /\ opened' /\ mem' = state /\ snapshot' = state
    BY <1>1, <1>4, BeginsFrom
  <2>2. PartitionEnds'
    <3>1. broker' = Started("elevated", mem') /\ pipe' = <<>> /\ ListsAgree(mem)'
      BY <1>1, <2>1 DEF Begin, PlaceInv, WorkInv
    <3> QED BY <1>2, <3>1, StartedClosed DEF PartitionEnds
  <2> QED BY <2>1, <2>2 DEF Begin, EndInv, ElevatedEnds, CommandEnds
<1>5. ASSUME NEW status \in J!Statuses, Reports(status) PROVE EndInv'
  <2>1. /\ UNCHANGED <<mem, snapshot, opened, stage, mode, outcome>> /\ stage # "off"
        /\ broker'.privilege = broker.privilege
    BY <1>5 DEF Reports, jvars
  <2>2. ASSUME opened, NEW op \in Ops, Plan[op].privilege = broker'.privilege, op < broker'.at
        PROVE  Closed(op)'
    <3>1. op < broker.at => Closed(op)
      BY <2>1, <2>2 DEF EndInv, PartitionEnds
    <3> QED BY <1>1, <1>5, <2>1, <2>2, <3>1, ReportClosed DEF WorkInv
  <2>3. ElevatedEnds' /\ CommandEnds'
    BY <1>3, <2>1 DEF EndInv, ElevatedEnds, CommandEnds
  <2> QED BY <2>1, <2>2, <2>3 DEF EndInv, PartitionEnds
<1>6. CASE PersistEvent
  <2>1. /\ UNCHANGED <<snapshot, opened, stage, mode, outcome, broker>> /\ opened
    BY <1>6 DEF PersistEvent, J!AppendEvent
  <2>2. PipeInv /\ ListsAgree(mem)
    BY <2>1 DEF WorkInv
  <2>3. PartitionEnds'
    BY <1>1, <1>6, <2>1, <2>2, PersistClosed DEF EndInv, PartitionEnds
  <2>4. ElevatedEnds'
    <3>1. SUFFICES ASSUME stage = "user", NEW op \in Ops, Plan[op].privilege = "elevated"
                   PROVE  mem'.status[op] \in Fit(op)' /\ snapshot'.status[op] \in Fit(op)'
      BY <2>1 DEF ElevatedEnds
    <3>2. /\ 1 \in DOMAIN pipe
          /\ mem'.status[op] = IF op = pipe[1].op THEN pipe[1].status ELSE mem.status[op]
      BY <1>1, <1>6, <2>2, PersistedIs
    <3>3. Plan[pipe[1].op].privilege = "user"
      BY <1>1, <2>2, <3>1, <3>2 DEF PipeInv, PlaceInv
    <3> QED BY <1>3, <2>1, <3>1, <3>2, <3>3 DEF EndInv, ElevatedEnds
  <2>5. CommandEnds'
    BY <1>1, <2>1 DEF EndInv, CommandEnds, PlaceInv
  <2> QED BY <2>3, <2>4, <2>5 DEF EndInv
<1>7. CASE GivesUp
  <2>1. opened' = FALSE /\ stage' # "user" /\ outcome' # "ok"
    BY <1>1, <1>7 DEF GivesUp, J!Released, InChild, EndInv, CommandEnds
  <2> QED BY <2>1 DEF EndInv, PartitionEnds, ElevatedEnds, CommandEnds
<1>8. CASE Save
  <2>1. /\ UNCHANGED <<mem, opened, stage, mode, outcome, broker, pipe>> /\ opened /\ snapshot' = mem
    BY <1>8 DEF Save, J!SaveState
  <2>2. PartitionEnds'
    BY <1>3, <2>1 DEF EndInv, PartitionEnds, Closed
  <2>3. ElevatedEnds' /\ CommandEnds'
    BY <1>1, <1>3, <2>1 DEF EndInv, ElevatedEnds, CommandEnds, PlaceInv
  <2> QED BY <2>2, <2>3 DEF EndInv
<1>9. CASE EnterUserPartition
  <2>1. /\ stage = "elevated" /\ opened /\ pipe = <<>> /\ ~dirty /\ broker.phase = "done"
        /\ UNCHANGED <<mem, snapshot, opened, mode, outcome, pipe>>
        /\ broker' = Started("user", mem')
    BY <1>9 DEF EnterUserPartition, PartitionOver, jvars
  <2>2. broker.at = Len(Plan) + 1 /\ broker.privilege = "elevated" /\ mem = snapshot
    BY <1>1, <2>1, WriterHolds DEF PlaceInv
  <2>3. PartitionEnds'
    <3>1. pipe' = <<>> /\ ListsAgree(mem)'
      BY <1>1, <2>1 DEF WorkInv
    <3> QED BY <1>2, <2>1, <3>1, StartedClosed DEF PartitionEnds
  <2>4. ElevatedEnds'
    <3>1. SUFFICES ASSUME NEW op \in Ops, Plan[op].privilege = "elevated"
                   PROVE  mem.status[op] \in Fit(op)
      BY <1>3, <2>1, <2>2 DEF ElevatedEnds
    <3>2. op < broker.at
      BY <2>2, PlanFacts
    <3>3. Closed(op)
      BY <2>1, <2>2, <3>1, <3>2 DEF EndInv, PartitionEnds
    <3> QED BY <2>1, <3>3 DEF Closed
  <2>5. CommandEnds'
    BY <2>1 DEF EndInv, CommandEnds
  <2> QED BY <2>3, <2>4, <2>5 DEF EndInv
<1>10. CASE Complete
  <2>1. /\ stage = "user" /\ opened /\ pipe = <<>> /\ ~dirty /\ broker.phase = "done"
        /\ opened' = FALSE /\ stage' = "off" /\ UNCHANGED <<snapshot, mode>>
    BY <1>10 DEF Complete, PartitionOver, Exit, J!Close, J!Released, J!disk
  <2>2. /\ broker.at = Len(Plan) + 1 /\ broker.privilege = "user"
        /\ mem = snapshot /\ snapshot # NoState
    BY <1>1, <2>1, WriterHolds DEF PlaceInv
  <2>3. ASSUME NEW op \in Ops PROVE snapshot'.status[op] \in Fit(op)'
    <3>1. CASE Plan[op].privilege = "elevated"
      BY <1>3, <2>1, <3>1 DEF EndInv, ElevatedEnds
    <3>2. CASE Plan[op].privilege = "user"
      <4>1. op < broker.at
        BY <2>2, PlanFacts
      <4>2. Closed(op)
        BY <2>1, <2>2, <3>2, <4>1 DEF EndInv, PartitionEnds
      <4> QED BY <1>3, <2>1, <2>2, <4>2 DEF Closed
    <3> QED BY <3>1, <3>2, PlanFacts
  <2> QED BY <2>1, <2>2, <2>3 DEF EndInv, PartitionEnds, ElevatedEnds, CommandEnds
<1>11. CASE ReapChild
  <2>1. opened' = FALSE /\ stage' = "off" /\ outcome' = "failed"
    BY <1>1, <1>11 DEF ReapChild, Exit, PlaceInv, TypeOK, J!TypeOK, jvars
  <2> QED BY <2>1 DEF EndInv, PartitionEnds, ElevatedEnds, CommandEnds
<1>12. ASSUME /\ UNCHANGED <<mem, snapshot, opened, stage, mode, outcome, pipe>>
              /\ broker'.privilege = broker.privilege /\ broker'.at = broker.at
       PROVE  EndInv'
  <2>1. PartitionEnds'
    BY <1>3, <1>12 DEF EndInv, PartitionEnds, Closed
  <2>2. ElevatedEnds' /\ CommandEnds'
    BY <1>3, <1>12 DEF EndInv, ElevatedEnds, CommandEnds
  <2> QED BY <2>1, <2>2 DEF EndInv
<1>13. CASE ChildDies
  <2>1. broker'.privilege = broker.privilege /\ broker'.at = broker.at
    BY <1>1, <1>13 DEF ChildDies, TypeOK
  <2> QED BY <1>12, <1>13, <2>1 DEF ChildDies, jvars
<1>14. ASSUME NEW i \in orphans, OrphanEnds(i) PROVE EndInv'
  BY <1>12, <1>14 DEF OrphanEnds, jvars
<1>15. CASE UNCHANGED vars
  BY <1>12, <1>15 DEF vars, jvars
<1> QED BY <1>4, <1>5, <1>6, <1>7, <1>8, <1>9, <1>10, <1>11, <1>13, <1>14, <1>15, StepKinds

LEMMA EndInit == Init => EndInv
BY DEF Init, J!Init, EndInv, PartitionEnds, ElevatedEnds, CommandEnds

\* The whole invariant of a session.
LEMMA SessionAlways == Spec => []SessionInv
<1>1. Init => SessionInv
  BY BaseInit, JournalInvInit, WorkInit, TruthInit, EndInit DEF SessionInv
<1>2. SessionInv /\ [Next]_vars => SessionInv'
  BY BaseStep, JournalInvStep, WorkStep, TruthStep, EndStep DEF SessionInv
<1> QED BY <1>1, <1>2, PTL DEF Spec

\* No user operation runs before the state file records an end of every machine
\* operation (main.go:274-277).
THEOREM ElevatedIsRecordedFirst == Spec => []ElevatedRecordedFirst
<1>1. SessionInv => ElevatedRecordedFirst
  BY FitIs DEF SessionInv, EndInv, ElevatedEnds, ElevatedRecordedFirst
<1> QED BY <1>1, SessionAlways, PTL

\* A command that reports success has left nothing out: every operation has its end
\* in the state file, and after a real run what had to be there is there.
THEOREM SuccessMeansComplete == Spec => []SuccessIsComplete
<1>1. ASSUME SessionInv, outcome = "ok", NEW op \in Ops
      PROVE  /\ snapshot.status[op] \in {"succeeded", "skipped", "planned"}
             /\ ~mode.dry /\ Plan[op].kind # "detect" =>
                  \/ Plan[op].target \in machine
                  \/ Plan[op].kind = "configure" /\ op \in snapshot.skipped
  <2>1. TypeOK /\ JournalInv /\ WorkInv /\ LinesTrue /\ CommandEnds
    BY <1>1 DEF SessionInv, BaseInv, TruthInv, EndInv
  <2>2. snapshot # NoState /\ snapshot.status[op] \in Fit(op)
    BY <1>1, <2>1 DEF CommandEnds
  <2>3. snapshot \in J!State /\ JP!Recorded(lines, snapshot) /\ ListsAgree(snapshot)
    BY <2>1, <2>2, WriterHolds DEF WorkInv
  <2>4. CASE snapshot.status[op] = "succeeded"
    <3>1. PICK k \in DOMAIN lines : lines[k].op = op /\ lines[k].status = "succeeded"
      BY <2>3, <2>4 DEF ListsAgree, JP!Recorded, JP!Verdict
    <3> QED BY <2>1, <2>4, <3>1 DEF LinesTrue, Truthful
  <2>5. CASE snapshot.status[op] = "skipped"
    <3>1. op \in snapshot.skipped
      BY <2>3, <2>5 DEF ListsAgree
    <3>2. PICK k \in DOMAIN lines : lines[k].op = op /\ lines[k].status = "skipped"
      BY <2>3, <3>1 DEF JP!Recorded, JP!Verdict
    <3> QED BY <2>1, <2>5, <3>1, <3>2 DEF LinesTrue, Truthful
  <2>6. CASE snapshot.status[op] = "planned"
    BY <2>2, <2>6 DEF Fit, Ends
  <2> QED BY <2>2, <2>4, <2>5, <2>6, FitIs
<1>2. SessionInv => SuccessIsComplete
  BY <1>1 DEF SuccessIsComplete
<1> QED BY <1>2, SessionAlways, PTL
=============================================================================
