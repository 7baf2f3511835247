---------------------------- MODULE HandoffProofs ----------------------------
(***************************************************************************)
(* The safety properties of Handoff.tla for any number of operations, any  *)
(* capacity of the pipe and any number of interrupts and faults.  The      *)
(* argument is one of accounting: every success of a package manager is    *)
(* recorded, in the pipe, about to be reported by the broker, or, if the   *)
(* broker was ended, the one that nobody reports.                          *)
(***************************************************************************)
EXTENDS Handoff, FiniteSetTheorems, TLAPS

Events == {"started", "succeeded", "error"}

\* How many successes a sequence of events reports.
SuccessAt(events) == {k \in 1..Len(events) : events[k] = "succeeded"}
Successes(events) == Cardinality(SuccessAt(events))
Worth(event) == IF event = "succeeded" THEN 1 ELSE 0

LEMMA SuccessesType ==
  ASSUME NEW events \in Seq(Events)
  PROVE  IsFiniteSet(SuccessAt(events)) /\ Successes(events) \in Nat
<1>1. Len(events) \in Nat /\ SuccessAt(events) \in SUBSET (1..Len(events))
  BY DEF SuccessAt
<1>2. IsFiniteSet(1..Len(events))
  BY <1>1, FS_Interval
<1>3. IsFiniteSet(SuccessAt(events))
  BY <1>1, <1>2, FS_Subset
<1> QED BY <1>3, FS_CardinalityType DEF Successes

LEMMA SuccessesNone == Successes(<<>>) = 0
<1>1. SuccessAt(<<>>) = {}
  BY DEF SuccessAt
<1> QED BY <1>1, FS_EmptySet DEF Successes

LEMMA SuccessesAppend ==
  ASSUME NEW events \in Seq(Events), NEW event \in Events
  PROVE  Successes(Append(events, event)) = Successes(events) + Worth(event)
<1> DEFINE longer == Append(events, event)
           last == Len(events) + 1
<1>1. /\ Len(events) \in Nat /\ Len(longer) = last
      /\ \A k \in 1..Len(events) : longer[k] = events[k]
      /\ longer[last] = event /\ last \notin 1..Len(events)
      /\ 1..last = (1..Len(events)) \cup {last}
  OBVIOUS
<1>2. SuccessAt(longer) = IF event = "succeeded" THEN SuccessAt(events) \cup {last}
                          ELSE SuccessAt(events)
  <2> HIDE DEF longer, last
  <2> QED BY <1>1 DEF SuccessAt
<1>3. last \notin SuccessAt(events)
  BY <1>1 DEF SuccessAt
<1>4. IsFiniteSet(SuccessAt(events)) /\ Successes(events) \in Nat
  BY SuccessesType
<1> HIDE DEF longer, last
<1>5. Cardinality(SuccessAt(events) \cup {last}) = Cardinality(SuccessAt(events)) + 1
  BY <1>3, <1>4, FS_AddElement
<1>6. Successes(longer) = Successes(events) + Worth(event)
  BY <1>2, <1>4, <1>5 DEF Successes, Worth
<1> QED BY <1>6 DEF longer

LEMMA SuccessesTail ==
  ASSUME NEW events \in Seq(Events), events # <<>>
  PROVE  /\ Tail(events) \in Seq(Events) /\ Head(events) \in Events
         /\ Successes(events) = Successes(Tail(events)) + Worth(Head(events))
<1> DEFINE rest == Tail(events)
           later == SuccessAt(events) \ {1}
           shift == [k \in SuccessAt(rest) |-> k + 1]
<1>1. /\ Len(events) \in Nat /\ Len(events) >= 1 /\ Head(events) = events[1]
      /\ rest \in Seq(Events) /\ Head(events) \in Events
      /\ Len(rest) = Len(events) - 1 /\ \A k \in 1..Len(rest) : rest[k] = events[k + 1]
  OBVIOUS
<1>2. IsFiniteSet(SuccessAt(events)) /\ Successes(events) \in Nat
  BY SuccessesType
<1>3. IsFiniteSet(SuccessAt(rest)) /\ Successes(rest) \in Nat
  BY <1>1, SuccessesType
<1> HIDE DEF rest
<1>4. shift \in Bijection(SuccessAt(rest), later)
  <2>1. ASSUME NEW k \in SuccessAt(rest) PROVE k + 1 \in later /\ k \in Nat
    BY <1>1, <2>1 DEF SuccessAt
  <2>2. ASSUME NEW k \in later PROVE \E j \in SuccessAt(rest) : j + 1 = k
    <3>1. k - 1 \in SuccessAt(rest) /\ (k - 1) + 1 = k
      BY <1>1, <2>2 DEF SuccessAt
    <3> QED BY <3>1
  <2>3. shift \in [SuccessAt(rest) -> later]
    BY <2>1
  <2>4. \A j, k \in SuccessAt(rest) : shift[j] = shift[k] => j = k
    BY <2>1
  <2>5. \A k \in later : \E j \in SuccessAt(rest) : shift[j] = k
    BY <2>2
  <2> HIDE DEF later, shift
  <2> QED BY <2>3, <2>4, <2>5 DEF Bijection, Injection, Surjection, IsInjective
<1>5. Cardinality(later) = Successes(rest)
  BY <1>3, <1>4, FS_Bijection DEF Successes, ExistsBijection
<1>6. 1 \in SuccessAt(events) <=> Head(events) = "succeeded"
  BY <1>1 DEF SuccessAt
<1>7. Cardinality(later) = IF 1 \in SuccessAt(events) THEN Cardinality(SuccessAt(events)) - 1
                           ELSE Cardinality(SuccessAt(events))
  BY <1>2, FS_RemoveElement
<1> HIDE DEF later, shift
<1>8. Successes(events) = Successes(rest) + Worth(Head(events))
  BY <1>2, <1>3, <1>5, <1>6, <1>7 DEF Successes, Worth
<1> QED BY <1>1, <1>8 DEF rest

-----------------------------------------------------------------------------
\* Until the stream has ended nothing has gone wrong; when it ended well there is
\* neither a process that could write nor an event unread.  "ok" comes after that.
StageInv ==
  /\ pc \in {"create", "start"} => alive = {} /\ pipe = <<>> /\ step = "load"
  /\ pc \in {"create", "start", "notify", "reading", "waiting"} => faults = 0
  /\ pc \in {"create", "start", "notify", "reading", "waiting", "killing"} => result = "none"
  /\ pc = "killing" => faults # 0
  /\ pc \in {"waiting", "close", "stop", "remove", "returned"} /\ faults = 0 =>
       alive \cap {"sudo", "broker"} = {} /\ pipe = <<>>
  /\ result = "ok" =>
       /\ alive = {} /\ left = 0 /\ pipe = <<>> /\ recorded = finished

\* What the broker's step says of the processes, and what sudo's status says of it.
ChildInv ==
  /\ IF "broker" \in alive
     THEN step \in {"load", "next", "run", "running", "succeeded", "error", "failed"}
     ELSE step \in {"load", "failed", "done", "dead"}
  /\ "manager" \in alive => step = IF "broker" \in alive THEN "running" ELSE "dead"
  /\ status = "ok" => step = "done" /\ "sudo" \notin alive
  /\ step = "done" => left = 0
  /\ step \in {"run", "running", "succeeded", "error"} => left > 0

\* A success that the broker knows of and has not reported.
Known == IF step = "succeeded" THEN 1 ELSE 0
\* One whose broker is gone.
Running == IF "manager" \in alive THEN 1 ELSE 0

\* The books: no operation ends twice, nothing is recorded that did not succeed,
\* and as long as every event could be persisted no success is missing but the
\* one the broker was ended with.
CountInv ==
  /\ step = "load" => finished = 0
  /\ IF "broker" \in alive THEN finished + left <= MaxOperations + Known
                             ELSE finished + Running <= MaxOperations
  /\ recorded + Successes(pipe) + Known <= finished
  /\ faults = 0 /\ pc # "killed" =>
       IF "broker" \in alive \/ step = "done"
       THEN finished = recorded + Successes(pipe) + Known
       ELSE finished + Running <= recorded + Successes(pipe) + 1

\* The one command started after the controller was gone is the last of a broker
\* that dies of reporting its end.
LateInv ==
  /\ late \in {0, 1}
  /\ late = 1 =>
       /\ pc \in Gone /\ step # "load"
       /\ "broker" \in alive => step \in {"running", "succeeded", "error"}

HandoffInv == TypeOK /\ StageInv /\ ChildInv /\ CountInv /\ LateInv

LEMMA HandoffInit == Init => HandoffInv
<1> SUFFICES ASSUME Init PROVE HandoffInv
  OBVIOUS
<1>1. interrupts \in BOOLEAN /\ planFile \in BOOLEAN /\ deliverable \in BOOLEAN
  BY Zenon DEF Init
<1>2. TypeOK
  BY <1>1, HandoffAssumption DEF Init, TypeOK
<1>3. StageInv /\ ChildInv /\ LateInv
  BY DEF Init, StageInv, ChildInv, LateInv, Gone
<1>4. CountInv
  BY HandoffAssumption, SuccessesNone DEF Init, CountInv, Known, Running
<1> QED BY <1>2, <1>3, <1>4 DEF HandoffInv

\* Reading an event from the pipe.
LEMMA ReadEvent ==
  ASSUME TypeOK, pipe # <<>>, pipe' = Tail(pipe)
  PROVE  /\ pipe' \in Seq(Events) /\ Len(pipe') <= PipeCapacity
         /\ Successes(pipe) \in Nat /\ Successes(pipe') \in Nat
         /\ Successes(pipe) = Successes(pipe') + Worth(Head(pipe))
<1>1. pipe \in Seq(Events) /\ Len(pipe) <= PipeCapacity /\ PipeCapacity \in Nat
  BY HandoffAssumption DEF TypeOK, Events
<1>2. Tail(pipe) \in Seq(Events)
      /\ Successes(pipe) = Successes(Tail(pipe)) + Worth(Head(pipe))
  BY <1>1, SuccessesTail
<1>3. Len(Tail(pipe)) <= PipeCapacity
  BY <1>1
<1> QED BY <1>1, <1>2, <1>3, SuccessesType

\* Writing one.
LEMMA WriteEvent ==
  ASSUME TypeOK, NEW event \in Events, NEW next, Write(event, next)
  PROVE  /\ pipe' \in Seq(Events) /\ Len(pipe') <= PipeCapacity
         /\ Successes(pipe) \in Nat /\ Successes(pipe') \in Nat
         /\ ReaderGone => Successes(pipe') = Successes(pipe)
         /\ ~ReaderGone => Successes(pipe') = Successes(pipe) + Worth(event)
<1>1. pipe \in Seq(Events) /\ Len(pipe) <= PipeCapacity /\ PipeCapacity \in Nat
  BY HandoffAssumption DEF TypeOK, Events
<1>2. CASE ReaderGone
  BY <1>1, <1>2, SuccessesType DEF Write
<1>3. CASE ~ReaderGone
  <2>1. Len(pipe) < PipeCapacity /\ pipe' = Append(pipe, event)
    BY <1>3 DEF Write
  <2>2. pipe' \in Seq(Events) /\ Len(pipe') <= PipeCapacity
    BY <1>1, <2>1
  <2>3. Successes(pipe') = Successes(pipe) + Worth(event)
    BY <1>1, <2>1, SuccessesAppend
  <2> QED BY <1>1, <1>3, <2>2, <2>3, SuccessesType
<1> QED BY <1>2, <1>3

LEMMA ControllerStep == HandoffInv /\ Controller => HandoffInv'
<1> SUFFICES ASSUME HandoffInv, Controller PROVE HandoffInv'
  OBVIOUS
<1> USE HandoffAssumption
    DEF TypeOK, StageInv, ChildInv, CountInv, LateInv, Known, Running,
        Gone, Processes, controllerVars, brokerVars
<1>0. /\ TypeOK /\ StageInv /\ ChildInv /\ CountInv /\ LateInv
      /\ pipe \in Seq(Events) /\ Successes(pipe) \in Nat
  BY SuccessesType DEF HandoffInv, Events
<1>1. CASE WritePlan
  BY <1>0, <1>1 DEF HandoffInv, WritePlan
<1>2. CASE StartChild
  BY <1>0, <1>2 DEF HandoffInv, StartChild
<1>3. CASE Notify
  BY <1>0, <1>3 DEF HandoffInv, Notify
<1>4. CASE Persist
  <2>1. /\ pipe' \in Seq(Events) /\ Len(pipe') <= PipeCapacity
        /\ Successes(pipe') \in Nat /\ recorded' = recorded + Worth(Head(pipe))
        /\ Successes(pipe) = Successes(pipe') + Worth(Head(pipe))
        /\ Worth(Head(pipe)) \in Nat
    BY <1>0, <1>4, ReadEvent DEF Persist, Worth
  <2>a. recorded \in Nat
    BY <1>0
  <2>2. recorded' + Successes(pipe') = recorded + Successes(pipe) /\ recorded' \in Nat
    BY <2>1, <2>a
  <2>3. TypeOK'
    <3>1. recorded' \in 0..MaxOperations
      BY <1>0, <2>1, <2>2
    <3> QED BY <1>0, <1>4, <2>1, <3>1 DEF Persist, Events
  <2>4. StageInv' /\ ChildInv' /\ LateInv'
    BY <1>0, <1>4 DEF Persist
  <2>5. CountInv'
    BY <1>0, <1>4, <2>2 DEF Persist
  <2> QED BY <2>3, <2>4, <2>5 DEF HandoffInv
<1>5. CASE PersistFails
  <2>1. /\ pipe' \in Seq(Events) /\ Len(pipe') <= PipeCapacity
        /\ Successes(pipe') \in Nat /\ Successes(pipe') <= Successes(pipe)
    BY <1>0, <1>5, ReadEvent DEF PersistFails, Worth
  <2>2. TypeOK' /\ StageInv' /\ ChildInv' /\ LateInv'
    BY <1>0, <1>5, <2>1 DEF PersistFails, Dead, Events
  <2>3. recorded + Successes(pipe') + Known <= finished /\ faults' # 0
    BY <1>0, <1>5, <2>1 DEF PersistFails
  <2>4. CountInv'
    BY <1>0, <1>5, <2>3 DEF PersistFails, Dead
  <2> QED BY <2>2, <2>4 DEF HandoffInv
<1>6. CASE EndOfStream
  BY <1>0, <1>6 DEF HandoffInv, EndOfStream
<1>7. CASE Wait
  <2>1. TypeOK' /\ ChildInv' /\ CountInv' /\ LateInv'
    BY <1>0, <1>7 DEF Wait
  <2>2. ASSUME result' = "ok"
        PROVE  alive = {} /\ left = 0 /\ pipe = <<>> /\ recorded = finished
    <3>1. pc = "waiting" /\ status = "ok"
      BY <1>7, <2>2 DEF Wait
    <3>2. step = "done" /\ alive = {} /\ left = 0 /\ pipe = <<>> /\ faults = 0
      BY <1>0, <3>1
    <3> QED BY <1>0, <3>1, <3>2, SuccessesNone
  <2>3. StageInv'
    BY <1>0, <1>7, <2>2 DEF Wait
  <2> QED BY <2>1, <2>3 DEF HandoffInv
<1>8. CASE Deferred
  <2>1. planFile' \in BOOLEAN
    BY <1>0, <1>8, Zenon DEF Deferred
  <2>2. TypeOK' /\ StageInv' /\ ChildInv' /\ CountInv' /\ LateInv'
    BY <1>0, <1>8, <2>1 DEF Deferred
  <2> QED BY <2>2 DEF HandoffInv
<1> QED BY <1>1, <1>2, <1>3, <1>4, <1>5, <1>6, <1>7, <1>8 DEF Controller

LEMMA WatcherStep == HandoffInv /\ Watcher => HandoffInv'
<1> SUFFICES ASSUME HandoffInv, Watcher PROVE HandoffInv'
  OBVIOUS
<1> USE HandoffAssumption
    DEF TypeOK, StageInv, ChildInv, CountInv, LateInv, Known, Running,
        Gone, Processes, controllerVars, brokerVars, Dead
<1>0. /\ TypeOK /\ StageInv /\ ChildInv /\ CountInv /\ LateInv
      /\ pipe \in Seq(Events) /\ Successes(pipe) \in Nat
  BY SuccessesType DEF HandoffInv, Events
<1>1. CASE Forward
  <2>1. interrupts' \in BOOLEAN
    BY <1>1, Zenon DEF Forward
  <2>2. TypeOK'
    <3>1. \E S \in SUBSET Processes : Dead(S)
      BY <1>1 DEF Forward, Victims
    <3>2. /\ alive' \subseteq alive /\ step' \in {step, "dead"}
          /\ status' \in {status, "error"}
      BY <3>1
    <3>3. /\ watcher' = "grace"
          /\ UNCHANGED <<controllerVars, deliverable, left, pipe, finished, late, recorded,
                         pressed, faults>>
      BY <1>1 DEF Forward
    <3> HIDE DEF Dead
    <3> QED BY <1>0, <2>1, <3>2, <3>3
  <2>3. StageInv'
    BY <1>0, <1>1 DEF Forward, Victims
  <2>4. ChildInv'
    BY <1>0, <1>1 DEF Forward, Victims
  <2>5. LateInv'
    BY <1>0, <1>1 DEF Forward, Victims
  <2>6. CountInv'
    BY <1>0, <1>1 DEF Forward, Victims
  <2> QED BY <2>2, <2>3, <2>4, <2>5, <2>6 DEF HandoffInv
<1>2. CASE StandDown
  BY <1>0, <1>2 DEF HandoffInv, StandDown
<1>3. CASE HardStop
  BY <1>0, <1>3 DEF HandoffInv, HardStop
<1> QED BY <1>1, <1>2, <1>3 DEF Watcher

LEMMA ChildStep == HandoffInv /\ Child => HandoffInv'
<1> SUFFICES ASSUME HandoffInv, Child PROVE HandoffInv'
  OBVIOUS
<1> USE HandoffAssumption
    DEF TypeOK, StageInv, ChildInv, CountInv, LateInv, Known, Running,
        Gone, Processes, controllerVars, brokerVars
<1>0. /\ TypeOK /\ StageInv /\ ChildInv /\ CountInv /\ LateInv
      /\ pipe \in Seq(Events) /\ Successes(pipe) \in Nat
  BY SuccessesType DEF HandoffInv, Events
<1>1. CASE SudoDecides
  <2>1. TypeOK'
    BY <1>0, <1>1 DEF SudoDecides
  <2>2. StageInv' /\ LateInv'
    <3>1. CASE alive' = alive \cup {"broker"} /\ UNCHANGED <<status, step>>
      BY <1>0, <1>1, <3>1 DEF SudoDecides
    <3>2. CASE alive' = {} /\ status' = "error" /\ step' = "failed"
      BY <1>0, <1>1, <3>2 DEF SudoDecides
    <3> QED BY <1>1, <3>1, <3>2 DEF SudoDecides
  <2>3. ChildInv' /\ CountInv'
    BY <1>0, <1>1 DEF SudoDecides
  <2> QED BY <2>1, <2>2, <2>3 DEF HandoffInv
<1>2. CASE Load
  BY <1>0, <1>2 DEF HandoffInv, Load
<1>3. CASE EmitStarted
  <2>1. /\ pipe' \in Seq(Events) /\ Len(pipe') <= PipeCapacity
        /\ Successes(pipe') = Successes(pipe)
    BY <1>0, <1>3, WriteEvent DEF EmitStarted, Worth, Events
  <2>2. TypeOK'
    BY <1>0, <1>3, <2>1 DEF EmitStarted, Write, Events
  <2>3. StageInv' /\ ChildInv' /\ LateInv'
    BY <1>0, <1>3 DEF EmitStarted, Write, ReaderGone
  <2>4. CountInv'
    BY <1>0, <1>3, <2>1 DEF EmitStarted, Write, ReaderGone
  <2> QED BY <2>2, <2>3, <2>4 DEF HandoffInv
<1>4. CASE StartManager
  BY <1>0, <1>4 DEF HandoffInv, StartManager
<1>5. CASE EmitResult
  <2>1. /\ pipe' \in Seq(Events) /\ Len(pipe') <= PipeCapacity /\ Successes(pipe') \in Nat
        /\ Successes(pipe') = IF ReaderGone THEN Successes(pipe)
                              ELSE Successes(pipe) + Worth(step)
    BY <1>0, <1>5, WriteEvent DEF EmitResult, Events
  <2>2. left' = left - 1 /\ left' \in 0..MaxOperations /\ "broker" \in alive
        /\ step \in {"succeeded", "error"}
    BY <1>0, <1>5 DEF EmitResult
  <2>3. CASE ReaderGone
    <3>1. alive' = alive \ {"broker"} /\ step' = "dead" /\ pipe' = pipe
      BY <1>5, <2>3 DEF EmitResult, Write
    <3>2. TypeOK'
      BY <1>0, <1>5, <2>2, <3>1 DEF EmitResult
    <3>3. StageInv' /\ ChildInv' /\ LateInv'
      BY <1>0, <1>5, <2>2, <3>1 DEF EmitResult
    <3>4. faults # 0 \/ pc = "killed"
      BY <1>0, <2>2, <2>3 DEF ReaderGone
    <3>5. CountInv'
      BY <1>0, <1>5, <2>2, <3>1, <3>4 DEF EmitResult
    <3> QED BY <3>2, <3>3, <3>5 DEF HandoffInv
  <2>4. CASE ~ReaderGone
    <3>1. /\ alive' = alive /\ step' = IF step = "succeeded" THEN "next" ELSE "failed"
          /\ pipe' = Append(pipe, step)
      BY <1>5, <2>4 DEF EmitResult, Write
    <3>2. TypeOK'
      BY <1>0, <1>5, <2>1, <2>2, <3>1 DEF EmitResult, Events
    <3>3. StageInv' /\ ChildInv' /\ LateInv'
      BY <1>0, <1>5, <2>2, <2>4, <3>1 DEF EmitResult, ReaderGone
    <3>4. Successes(pipe') = Successes(pipe) + Known
      BY <2>1, <2>2, <2>4 DEF Worth
    <3>5. CountInv'
      BY <1>0, <1>5, <2>2, <3>1, <3>4 DEF EmitResult
    <3> QED BY <3>2, <3>3, <3>5 DEF HandoffInv
  <2> QED BY <2>3, <2>4
<1>6. CASE BrokerExits
  BY <1>0, <1>6 DEF HandoffInv, BrokerExits
<1>7. CASE SudoExits
  BY <1>0, <1>7 DEF HandoffInv, SudoExits
<1> QED BY <1>1, <1>2, <1>3, <1>4, <1>5, <1>6, <1>7 DEF Child

LEMMA HandoffStep == HandoffInv /\ [Next]_vars => HandoffInv'
<1> SUFFICES ASSUME HandoffInv, [Next]_vars PROVE HandoffInv'
  OBVIOUS
<1> USE HandoffAssumption
    DEF TypeOK, StageInv, ChildInv, CountInv, LateInv, Known, Running,
        Gone, Processes, controllerVars, brokerVars
<1>0. /\ TypeOK /\ StageInv /\ ChildInv /\ CountInv /\ LateInv
      /\ pipe \in Seq(Events) /\ Successes(pipe) \in Nat
  BY SuccessesType DEF HandoffInv, Events
<1>1. CASE ManagerEnds
  BY <1>0, <1>1 DEF HandoffInv, ManagerEnds
<1>2. CASE CtrlC
  <2>1. interrupts' \in BOOLEAN
    BY <1>0, <1>2, Zenon DEF CtrlC
  <2>2. TypeOK' /\ StageInv' /\ ChildInv' /\ CountInv' /\ LateInv'
    BY <1>0, <1>2, <2>1 DEF CtrlC, Handled
  <2> QED BY <2>2 DEF HandoffInv
<1>3. CASE ControllerDies
  BY <1>0, <1>3 DEF HandoffInv, ControllerDies
<1>4. CASE UNCHANGED vars
  BY <1>0, <1>4 DEF HandoffInv, vars
<1> QED BY <1>1, <1>2, <1>3, <1>4, ControllerStep, WatcherStep, ChildStep DEF Next

LEMMA HandoffInvHolds == Spec => []HandoffInv
BY HandoffInit, HandoffStep, PTL DEF Spec

-----------------------------------------------------------------------------
\* Every variable holds a value of its kind; in particular no operation is counted
\* twice, as finished or as recorded, and the pipe never holds more than it can.
THEOREM TypeCorrect == Spec => []TypeOK
<1>1. HandoffInv => TypeOK
  BY DEF HandoffInv
<1> QED BY <1>1, HandoffInvHolds, PTL

\* When the user partition may begin no privileged process is left, every machine
\* operation has succeeded and every success is recorded, however interrupts, the
\* hard stop, the end of the stream and the ends of the processes race.
THEOREM UserPartitionComesAlone == Spec => []UserPartitionIsAlone
<1>1. HandoffInv => UserPartitionIsAlone
  BY DEF HandoffInv, StageInv, UserPartitionIsAlone
<1> QED BY <1>1, HandoffInvHolds, PTL

\* A controller that returns after an interrupt, or any other end of its child,
\* and that could persist every event it read, has recorded every success but at
\* most one.
THEOREM InterruptLosesOne == Spec => []InterruptLosesAtMostOne
<1>1. HandoffInv => InterruptLosesAtMostOne
  <2> SUFFICES ASSUME HandoffInv, faults = 0,
                      pc \in {"close", "stop", "remove", "returned"}
               PROVE  finished <= recorded + 1
    BY DEF InterruptLosesAtMostOne
  <2>1. "broker" \notin alive /\ pipe = <<>>
    BY DEF HandoffInv, StageInv
  <2>2. finished \in Nat /\ recorded \in Nat
    BY DEF HandoffInv, TypeOK
  <2>3. step # "succeeded"
    BY <2>1 DEF HandoffInv, ChildInv
  <2> QED BY <2>1, <2>2, <2>3, SuccessesNone DEF HandoffInv, CountInv, Known, Running
<1> QED BY <1>1, HandoffInvHolds, PTL

\* Whenever the controller goes, returned or killed, at most one more command of
\* the package manager is started: the broker dies of reporting its end.
THEOREM OneMoreCommand == Spec => []AtMostOneMoreCommand
<1>1. HandoffInv => AtMostOneMoreCommand
  BY DEF HandoffInv, LateInv, AtMostOneMoreCommand
<1> QED BY <1>1, HandoffInvHolds, PTL
=============================================================================
