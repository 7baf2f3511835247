---------------------------- MODULE JournalProofs ----------------------------
(***************************************************************************)
(* What Journal.tla's runs check on four lines, for journals of any length,*)
(* any set of operations and any number of crashes: its types, the order   *)
(* of the journal, the bound on the state file's lag, and that the state   *)
(* file says what the journal says.                                        *)
(***************************************************************************)
EXTENDS Journal, TLAPS

LEMMA NewStateIsState == NewState \in State
BY DEF NewState, State

LEMMA NewStateIsNotNoState == NewState # NoState
BY NewStateIsState, NoStateAssumption

LEMMA NextEventIsEvent ==
  ASSUME mem \in State, NEW ev \in NextEvent
  PROVE  ev \in Event /\ ev.seq = mem.last + 1
BY DEF NextEvent, Event, State

LEMMA LinesAreEvents ==
  ASSUME NEW events \in Seq(Event)
  PROVE  \A i \in DOMAIN events :
           events[i] \in Event /\ events[i].seq \in Nat /\ events[i].op \in Ops
<1>1. \A i \in DOMAIN events : events[i] \in Event
  OBVIOUS
<1>2. \A ev \in Event : ev.seq \in Nat /\ ev.op \in Ops
  BY DEF Event
<1> QED BY <1>1, <1>2

\* ApplyEvent keeps a state a state.
LEMMA ApplyEventType ==
  ASSUME NEW state \in State, NEW ev \in Event
  PROVE  /\ ApplyEvent(state, ev) \in State
         /\ ApplyEvent(state, ev).last = IF ev.seq > state.last THEN ev.seq ELSE state.last
<1>1. ASSUME NEW list \in SUBSET Ops, NEW name \in Statuses
      PROVE  Listed(list, name, ev) \in SUBSET Ops
  BY DEF Listed, Event
<1>2. ev.seq \in Nat /\ ev.op \in Ops /\ ev.status \in Statuses
  BY DEF Event
<1>3. [state.status EXCEPT ![ev.op] = ev.status] \in [Ops -> Statuses \cup {"none"}]
  BY <1>2 DEF State
<1>4. /\ Listed(state.completed, "succeeded", ev) \in SUBSET Ops
      /\ Listed(state.skipped, "skipped", ev) \in SUBSET Ops
      /\ Listed(state.failed, "failed", ev) \in SUBSET Ops
  BY <1>1 DEF State, Statuses
<1>5. (IF ev.seq > state.last THEN ev.seq ELSE state.last) \in Nat
  BY <1>2 DEF State
<1> QED BY <1>3, <1>4, <1>5 DEF ApplyEvent, State

-----------------------------------------------------------------------------
(* Type correctness.                                                       *)

LEMMA TypeInit == Init => TypeOK
<1> SUFFICES ASSUME Init PROVE TypeOK
  OBVIOUS
<1>1. lines \in Seq(Event) /\ sequence \in Nat
  BY DEF Init
<1>2. torn \in BOOLEAN /\ opened \in BOOLEAN /\ dirty \in BOOLEAN
  BY Zenon DEF Init
<1>3. snapshot \in State \cup {NoState} /\ mem \in State
  BY NewStateIsState DEF Init
<1> QED BY <1>1, <1>2, <1>3 DEF Init, TypeOK

LEMMA TypeStep == TypeOK /\ [Next]_jvars => TypeOK'
<1> SUFFICES ASSUME TypeOK, [Next]_jvars PROVE TypeOK'
  OBVIOUS
<1> USE NewStateIsState
<1>1. CASE OpenNew
  BY <1>1 DEF TypeOK, OpenNew
<1>2. CASE OpenResume
  BY <1>2 DEF TypeOK, OpenResume
<1>3. ASSUME NEW ev \in NextEvent, AppendEvent(ev) PROVE TypeOK'
  <2>1. ev \in Event
    BY NextEventIsEvent DEF TypeOK
  <2>2. ev.seq \in Nat
    BY <2>1 DEF Event
  <2>3. lines' \in Seq(Event)
    BY <1>3, <2>1 DEF TypeOK, AppendEvent
  <2>4. mem' \in State
    BY <1>3, <2>1, ApplyEventType DEF TypeOK, AppendEvent
  <2> QED BY <1>3, <2>2, <2>3, <2>4 DEF TypeOK, AppendEvent
<1>4. ASSUME NEW ev \in NextEvent, RefuseEvent(ev) PROVE TypeOK'
  BY <1>4 DEF TypeOK, RefuseEvent, Released, disk
<1>5. ASSUME NEW ev \in NextEvent, AppendFails(ev) PROVE TypeOK'
  <2>1. ev \in Event
    BY NextEventIsEvent DEF TypeOK
  <2>2. lines' \in Seq(Event)
    BY <1>5, <2>1 DEF TypeOK, AppendFails
  <2>3. torn' \in BOOLEAN
    BY <1>5, Zenon DEF TypeOK, AppendFails
  <2> QED BY <1>5, <2>2, <2>3 DEF TypeOK, AppendFails, Released
<1>6. CASE SaveState
  BY <1>6 DEF TypeOK, SaveState
<1>7. CASE SaveFails
  BY <1>7 DEF TypeOK, SaveFails, Released, disk
<1>8. CASE Close
  BY <1>8 DEF TypeOK, Close, Released, disk
<1>9. CASE UNCHANGED jvars
  BY <1>9 DEF TypeOK, jvars
<1> QED BY <1>1, <1>2, <1>3, <1>4, <1>5, <1>6, <1>7, <1>8, <1>9 DEF Next

\* Whatever commands, crashes and failed writes come, the journal and its
\* writer hold values of their kinds and a released journal holds nothing.
THEOREM TypeCorrect == Spec => []TypeOK
<1>1. QED BY TypeInit, TypeStep, PTL DEF Spec

-----------------------------------------------------------------------------
(* The order of the journal and the lag of the state file.                 *)

\* What the writer's memory has to do with the files.  A writer between two
\* events holds what is saved; once it has looked at the journal (sequence # 0)
\* it is at the journal's end; while an event awaits its save, that event is
\* the last line and the number the memory has reached.
WriterInStep ==
  /\ opened => snapshot # NoState
  /\ opened /\ ~dirty => mem = snapshot
  /\ opened /\ sequence # 0 =>
       /\ sequence = mem.last
       /\ \A i \in DOMAIN lines : lines[i].seq <= mem.last
  /\ dirty => /\ sequence # 0
              /\ lines # <<>> /\ lines[Len(lines)].seq = mem.last

OrderInv == SequencesIncrease /\ SnapshotLagsByOne /\ WriterInStep

\* Where a writer may append, every line is before the new event, and all the
\* lines are in the snapshot.
LEMMA AcceptedIsBeyond ==
  ASSUME TypeOK, OrderInv, NEW ev \in NextEvent, opened, ~dirty, ~Refuses(ev.seq)
  PROVE  /\ ev \in Event /\ ev.seq = mem.last + 1 /\ mem = snapshot
         /\ snapshot # NoState /\ snapshot \in State /\ snapshot.last \in Nat
         /\ \A i \in DOMAIN lines : lines[i].seq <= snapshot.last
<1>1. ev \in Event /\ ev.seq = mem.last + 1
  BY NextEventIsEvent DEF TypeOK
<1>2. mem = snapshot /\ snapshot # NoState
  BY DEF OrderInv, WriterInStep
<1>3. snapshot \in State
  BY <1>2 DEF TypeOK
<1>4. snapshot.last \in Nat
  BY <1>3 DEF State
<1>5. \A i \in DOMAIN lines : lines[i].seq \in Nat
  BY LinesAreEvents DEF TypeOK
<1>6. \A i \in DOMAIN lines : lines[i].seq <= snapshot.last
  <2>1. CASE sequence = 0
    BY <2>1, <1>1, <1>2, <1>4, <1>5 DEF Refuses
  <2>2. CASE sequence # 0
    BY <2>2, <1>2 DEF OrderInv, WriterInStep
  <2> QED BY <2>1, <2>2
<1> QED BY <1>1, <1>2, <1>3, <1>4, <1>6

\* An event beyond every line keeps the journal increasing and the snapshot one
\* event behind at most.
LEMMA AppendedInOrder ==
  ASSUME TypeOK, OrderInv, NEW ev \in NextEvent, opened, ~dirty, ~Refuses(ev.seq),
         lines' = Append(lines, ev), snapshot' = snapshot
  PROVE  SequencesIncrease' /\ SnapshotLagsByOne'
<1>1. /\ ev \in Event /\ ev.seq = snapshot.last + 1
      /\ snapshot # NoState /\ snapshot.last \in Nat
      /\ \A i \in DOMAIN lines : lines[i].seq <= snapshot.last
  BY AcceptedIsBeyond
<1>2. /\ lines \in Seq(Event)
      /\ \A i \in DOMAIN lines : lines[i].seq \in Nat
  BY LinesAreEvents DEF TypeOK
<1>3. /\ DOMAIN lines = 1..Len(lines) /\ DOMAIN lines' = 1..(Len(lines) + 1)
      /\ Len(lines') = Len(lines) + 1 /\ Len(lines) \in Nat
      /\ \A i \in DOMAIN lines : lines'[i] = lines[i]
      /\ lines'[Len(lines) + 1] = ev
  BY <1>1, <1>2
<1>4. SequencesIncrease'
  BY <1>1, <1>2, <1>3 DEF OrderInv, SequencesIncrease
<1>5. \A i \in DOMAIN lines' : i < Len(lines') => lines'[i].seq <= snapshot.last
  BY <1>1, <1>3
<1>6. snapshot.last > 0 => \E i \in DOMAIN lines' : lines'[i].seq = snapshot.last
  BY <1>1, <1>3 DEF OrderInv, SnapshotLagsByOne
<1> QED BY <1>1, <1>4, <1>5, <1>6 DEF SnapshotLagsByOne

LEMMA OrderInit == Init => OrderInv
BY DEF Init, OrderInv, SequencesIncrease, SnapshotLagsByOne, WriterInStep

\* A step that leaves the files alone and releases the writer.
LEMMA OrderReleased ==
  ASSUME OrderInv, Released, UNCHANGED disk
  PROVE  OrderInv'
BY DEF OrderInv, Released, disk, SequencesIncrease, SnapshotLagsByOne, WriterInStep

LEMMA OrderStep == TypeOK /\ OrderInv /\ [Next]_jvars => OrderInv'
<1> SUFFICES ASSUME TypeOK, OrderInv, [Next]_jvars PROVE OrderInv'
  OBVIOUS
<1>1. CASE OpenNew
  <2>1. NewState.last = 0
    BY DEF NewState
  <2> QED BY <1>1, <2>1, NewStateIsNotNoState
       DEF OpenNew, TypeOK, OrderInv, SequencesIncrease, SnapshotLagsByOne, WriterInStep
<1>2. CASE OpenResume
  BY <1>2 DEF OpenResume, TypeOK, OrderInv, SequencesIncrease, SnapshotLagsByOne, WriterInStep
<1>3. ASSUME NEW ev \in NextEvent, AppendEvent(ev) PROVE OrderInv'
  <2>1. opened /\ ~dirty /\ ~Refuses(ev.seq) /\ lines' = Append(lines, ev)
        /\ snapshot' = snapshot /\ opened' = opened /\ dirty'
        /\ sequence' = ev.seq /\ mem' = ApplyEvent(mem, ev)
    BY <1>3 DEF AppendEvent
  <2>2. SequencesIncrease' /\ SnapshotLagsByOne'
    BY <2>1, AppendedInOrder
  <2>3. /\ ev \in Event /\ ev.seq = snapshot.last + 1 /\ mem = snapshot
        /\ snapshot # NoState /\ snapshot \in State /\ snapshot.last \in Nat
        /\ \A i \in DOMAIN lines : lines[i].seq <= snapshot.last
    BY <2>1, AcceptedIsBeyond
  <2>4. mem'.last = ev.seq
    BY <2>1, <2>3, ApplyEventType
  <2>5. /\ \A i \in DOMAIN lines' : lines'[i].seq <= ev.seq
        /\ lines' # <<>> /\ lines'[Len(lines')] = ev
    <3>1. lines \in Seq(Event)
      BY DEF TypeOK
    <3>2. \A i \in DOMAIN lines' : (i \in DOMAIN lines /\ lines'[i] = lines[i]) \/ lines'[i] = ev
      BY <2>1, <2>3, <3>1
    <3>3. \A i \in DOMAIN lines : lines[i].seq \in Nat
      BY <3>1, LinesAreEvents
    <3>4. \A i \in DOMAIN lines' : lines'[i].seq <= ev.seq
      BY <3>2, <3>3, <2>3
    <3> QED BY <2>1, <2>3, <3>1, <3>4
  <2>6. WriterInStep'
    BY <2>1, <2>3, <2>4, <2>5 DEF WriterInStep
  <2> QED BY <2>2, <2>6 DEF OrderInv
<1>4. ASSUME NEW ev \in NextEvent, RefuseEvent(ev) PROVE OrderInv'
  BY <1>4, OrderReleased DEF RefuseEvent
<1>5. ASSUME NEW ev \in NextEvent, AppendFails(ev) PROVE OrderInv'
  <2>1. opened /\ ~dirty /\ ~Refuses(ev.seq) /\ snapshot' = snapshot /\ Released
    BY <1>5 DEF AppendFails
  <2>2. snapshot # NoState
    BY <2>1, AcceptedIsBeyond
  <2>3. SequencesIncrease' /\ SnapshotLagsByOne'
    <3>1. CASE lines' = lines
      BY <3>1, <2>1, <2>2 DEF OrderInv, SequencesIncrease, SnapshotLagsByOne
    <3>2. CASE lines' = Append(lines, ev)
      BY <3>2, <2>1, AppendedInOrder
    <3> QED BY <3>1, <3>2, <1>5 DEF AppendFails
  <2>4. WriterInStep'
    BY <2>1 DEF Released, WriterInStep
  <2> QED BY <2>3, <2>4 DEF OrderInv
<1>6. CASE SaveState
  <2>1. /\ opened /\ dirty /\ snapshot' = mem /\ ~dirty'
        /\ lines' = lines /\ opened' = opened /\ sequence' = sequence /\ mem' = mem
    BY <1>6 DEF SaveState
  <2>2. mem \in State /\ mem # NoState /\ lines \in Seq(Event)
    BY NoStateAssumption DEF TypeOK
  <2>3. /\ sequence # 0 /\ lines # <<>> /\ lines[Len(lines)].seq = mem.last
        /\ \A i \in DOMAIN lines : lines[i].seq <= mem.last
    BY <2>1 DEF OrderInv, WriterInStep
  <2>4. SnapshotLagsByOne'
    BY <2>1, <2>2, <2>3 DEF SnapshotLagsByOne
  <2>5. WriterInStep'
    BY <2>1, <2>2 DEF OrderInv, WriterInStep
  <2>6. SequencesIncrease'
    BY <2>1 DEF OrderInv, SequencesIncrease
  <2> QED BY <2>4, <2>5, <2>6 DEF OrderInv
<1>7. CASE SaveFails
  BY <1>7, OrderReleased DEF SaveFails
<1>8. CASE Close
  BY <1>8, OrderReleased DEF Close
<1>9. CASE UNCHANGED jvars
  BY <1>9 DEF jvars, OrderInv, SequencesIncrease, SnapshotLagsByOne, WriterInStep
<1> QED BY <1>1, <1>2, <1>3, <1>4, <1>5, <1>6, <1>7, <1>8, <1>9 DEF Next

\* Over any number of runs, crashes, failed writes and resumes the journal's
\* sequence numbers increase strictly and the state file lags it by at most
\* one event.
THEOREM JournalOrder == Spec => [](SequencesIncrease /\ SnapshotLagsByOne)
<1>1. OrderInv => SequencesIncrease /\ SnapshotLagsByOne
  BY DEF OrderInv
<1> QED BY <1>1, TypeCorrect, OrderInit, OrderStep, PTL DEF Spec

\* The first half on its own: no sequence number is ever given to two events,
\* nor a smaller one to a later event.
THEOREM NumbersIncrease == Spec => []SequencesIncrease
BY JournalOrder, PTL

-----------------------------------------------------------------------------
(* The state file says what the journal says.                              *)

\* An event beyond sequence number s says nothing about the events up to s.
LEMMA VerdictBefore ==
  ASSUME NEW events \in Seq(Event), NEW ev \in Event, NEW op \in Ops,
         NEW st \in Statuses, NEW s \in Nat, ev.seq > s
  PROVE  Verdict(Append(events, ev), op, st, s) <=> Verdict(events, op, st, s)
<1> DEFINE longer == Append(events, ev)
<1>1. ev.seq \in Nat
  BY DEF Event
<1>2. /\ DOMAIN longer = DOMAIN events \cup {Len(events) + 1}
      /\ Len(events) + 1 \notin DOMAIN events
      /\ \A i \in DOMAIN events : longer[i] = events[i]
      /\ longer[Len(events) + 1] = ev
  OBVIOUS
<1>3. ~(ev.seq <= s)
  BY <1>1
<1> HIDE DEF longer
<1>4. Verdict(longer, op, st, s) <=> Verdict(events, op, st, s)
  BY <1>2, <1>3 DEF Verdict
<1> QED BY <1>4 DEF longer

\* With every event at most s and ev beyond it, the verdicts up to ev are those
\* up to s, but for the operation ev ends.
LEMMA VerdictAfter ==
  ASSUME NEW events \in Seq(Event), NEW ev \in Event, NEW op \in Ops,
         NEW st \in FinalStatuses, NEW s \in Nat, ev.seq > s,
         \A i \in DOMAIN events : events[i].seq <= s
  PROVE  Verdict(Append(events, ev), op, st, ev.seq) <=>
           IF ev.op = op /\ ev.status \in FinalStatuses THEN ev.status = st
           ELSE Verdict(events, op, st, s)
<1> DEFINE longer == Append(events, ev)
           last == Len(events) + 1
<1>1. ev.seq \in Nat
  BY DEF Event
<1>2. /\ DOMAIN longer = DOMAIN events \cup {last}
      /\ \A i \in DOMAIN events : longer[i] = events[i] /\ i \in Nat /\ i < last
      /\ longer[last] = ev /\ last \in Nat
  OBVIOUS
<1>3. \A i \in DOMAIN events : events[i].seq \in Nat
  BY LinesAreEvents
<1>4. \A i \in DOMAIN longer : longer[i].seq <= ev.seq
  BY <1>1, <1>2, <1>3
<1> HIDE DEF longer, last
<1>5. CASE ev.op = op /\ ev.status \in FinalStatuses
  <2>1. \A i \in DOMAIN longer : i # last => i < last
    BY <1>2
  <2>2. ASSUME Verdict(longer, op, st, ev.seq) PROVE ev.status = st
    BY <2>1, <2>2, <1>2, <1>4, <1>5 DEF Verdict
  <2>3. ASSUME ev.status = st PROVE Verdict(longer, op, st, ev.seq)
    <3>1. \A j \in DOMAIN longer : ~(j > last)
      BY <1>2
    <3> QED BY <2>3, <3>1, <1>2, <1>4, <1>5 DEF Verdict
  <2> QED BY <2>2, <2>3, <1>5 DEF longer
<1>6. CASE ~(ev.op = op /\ ev.status \in FinalStatuses)
  <2>1. ASSUME Verdict(longer, op, st, ev.seq) PROVE Verdict(events, op, st, s)
    <3>1. PICK i \in DOMAIN longer :
            /\ longer[i].op = op /\ longer[i].status = st
            /\ \A j \in DOMAIN longer :
                 j > i /\ longer[j].seq <= ev.seq /\ longer[j].op = op
                   => longer[j].status \notin FinalStatuses
      BY <2>1 DEF Verdict
    <3>2. i \in DOMAIN events
      BY <3>1, <1>2, <1>6
    <3> QED BY <3>1, <3>2, <1>2, <1>4 DEF Verdict
  <2>2. ASSUME Verdict(events, op, st, s) PROVE Verdict(longer, op, st, ev.seq)
    <3>1. PICK i \in DOMAIN events :
            /\ events[i].op = op /\ events[i].status = st
            /\ \A j \in DOMAIN events :
                 j > i /\ events[j].seq <= s /\ events[j].op = op
                   => events[j].status \notin FinalStatuses
      BY <2>2 DEF Verdict
    <3>2. \A j \in DOMAIN longer : j > i /\ longer[j].op = op
                                     => longer[j].status \notin FinalStatuses
      BY <3>1, <1>2, <1>6
    <3> QED BY <3>1, <3>2, <1>2, <1>4 DEF Verdict
  <2> QED BY <2>1, <2>2, <1>6 DEF longer
<1> QED BY <1>5, <1>6

\* ApplyEvent on a state that says what the events say yields one that says
\* what they say with the new event.
LEMMA ApplyEventRecords ==
  ASSUME NEW events \in Seq(Event), NEW ev \in Event, NEW state \in State,
         \A i \in DOMAIN events : events[i].seq <= state.last,
         ev.seq > state.last, Recorded(events, state)
  PROVE  Recorded(Append(events, ev), ApplyEvent(state, ev))
<1> DEFINE next == ApplyEvent(state, ev)
<1>1. state.last \in Nat /\ next.last = ev.seq
  BY ApplyEventType DEF State
<1>2. ASSUME NEW op \in Ops, NEW st \in FinalStatuses, NEW list \in SUBSET Ops,
             op \in list <=> Verdict(events, op, st, state.last)
      PROVE  op \in Listed(list, st, ev) <=> Verdict(Append(events, ev), op, st, ev.seq)
  <2>1. op \in Listed(list, st, ev) <=>
          IF ev.op = op /\ ev.status \in FinalStatuses THEN ev.status = st
          ELSE op \in list
    BY DEF Listed
  <2> QED BY <2>1, <1>1, <1>2, VerdictAfter
<1>3. /\ next.completed = Listed(state.completed, "succeeded", ev)
      /\ next.skipped = Listed(state.skipped, "skipped", ev)
      /\ next.failed = Listed(state.failed, "failed", ev)
  BY DEF ApplyEvent
<1>4. /\ state.completed \in SUBSET Ops /\ state.skipped \in SUBSET Ops
      /\ state.failed \in SUBSET Ops
  BY DEF State
<1>5. "succeeded" \in FinalStatuses /\ "skipped" \in FinalStatuses /\ "failed" \in FinalStatuses
  BY DEF FinalStatuses
<1> HIDE DEF next
<1>6. ASSUME NEW op \in Ops
      PROVE  /\ op \in next.completed <=> Verdict(Append(events, ev), op, "succeeded", next.last)
             /\ op \in next.skipped <=> Verdict(Append(events, ev), op, "skipped", next.last)
             /\ op \in next.failed <=> Verdict(Append(events, ev), op, "failed", next.last)
  <2>1. /\ op \in state.completed <=> Verdict(events, op, "succeeded", state.last)
        /\ op \in state.skipped <=> Verdict(events, op, "skipped", state.last)
        /\ op \in state.failed <=> Verdict(events, op, "failed", state.last)
    BY DEF Recorded
  <2> QED BY <2>1, <1>1, <1>2, <1>3, <1>4, <1>5
<1> QED BY <1>6 DEF Recorded, next

LEMMA RecordedBefore ==
  ASSUME NEW events \in Seq(Event), NEW ev \in Event, NEW state \in State,
         ev.seq > state.last, Recorded(events, state)
  PROVE  Recorded(Append(events, ev), state)
<1>1. state.last \in Nat
  BY DEF State
<1>2. "succeeded" \in Statuses /\ "skipped" \in Statuses /\ "failed" \in Statuses
  BY DEF Statuses
<1> QED BY <1>1, <1>2, VerdictBefore DEF Recorded

\* Nothing is recorded by no events.
LEMMA NewStateRecorded == Recorded(<<>>, NewState)
BY DEF Recorded, NewState, Verdict

\* The state file, and the memory of whoever will write it next, say what the
\* journal says.
RecordInv == SnapshotRecorded /\ (opened => Recorded(lines, mem))

LEMMA RecordStep == TypeOK /\ OrderInv /\ RecordInv /\ [Next]_jvars => RecordInv'
<1> SUFFICES ASSUME TypeOK, OrderInv, RecordInv, [Next]_jvars PROVE RecordInv'
  OBVIOUS
<1>1. CASE OpenNew
  BY <1>1, NewStateRecorded DEF OpenNew, RecordInv, SnapshotRecorded
<1>2. CASE OpenResume
  BY <1>2 DEF OpenResume, RecordInv, SnapshotRecorded
<1>3. ASSUME UNCHANGED disk, Released PROVE RecordInv'
  BY <1>3 DEF disk, Released, RecordInv, SnapshotRecorded
<1>4. ASSUME NEW ev \in NextEvent, opened, ~dirty, ~Refuses(ev.seq)
      PROVE  /\ Recorded(Append(lines, ev), snapshot)
             /\ Recorded(Append(lines, ev), ApplyEvent(mem, ev))
  <2>1. /\ ev \in Event /\ ev.seq = mem.last + 1 /\ mem = snapshot
        /\ snapshot # NoState /\ snapshot \in State /\ snapshot.last \in Nat
        /\ \A i \in DOMAIN lines : lines[i].seq <= snapshot.last
    BY <1>4, AcceptedIsBeyond
  <2>2. lines \in Seq(Event) /\ Recorded(lines, snapshot) /\ ev.seq > snapshot.last
    BY <2>1 DEF TypeOK, RecordInv, SnapshotRecorded
  <2> QED BY <2>1, <2>2, RecordedBefore, ApplyEventRecords
<1>5. ASSUME NEW ev \in NextEvent, AppendEvent(ev) PROVE RecordInv'
  BY <1>5, <1>4 DEF AppendEvent, RecordInv, SnapshotRecorded
<1>6. ASSUME NEW ev \in NextEvent, AppendFails(ev) PROVE RecordInv'
  BY <1>6, <1>4 DEF AppendFails, Released, RecordInv, SnapshotRecorded
<1>7. CASE SaveState
  BY <1>7 DEF SaveState, RecordInv, SnapshotRecorded
<1>8. CASE UNCHANGED jvars
  BY <1>8 DEF jvars, RecordInv, SnapshotRecorded
<1> QED BY <1>1, <1>2, <1>3, <1>5, <1>6, <1>7, <1>8
     DEF Next, RefuseEvent, SaveFails, Close

\* Over any history the lists of the state file are exactly the last final
\* statuses of the journal up to the snapshot: nothing a resumed run trusts as
\* done is without its line, and nothing recorded is forgotten.
THEOREM StateFileIsTrue == Spec => []SnapshotRecorded
<1>1. Init => RecordInv
  BY DEF Init, RecordInv, SnapshotRecorded
<1>2. RecordInv => SnapshotRecorded
  BY DEF RecordInv
<1> QED BY <1>1, <1>2, TypeCorrect, OrderInit, OrderStep, TypeInit, TypeStep, RecordStep, PTL
     DEF Spec

-----------------------------------------------------------------------------
(* One end per operation.                                                  *)

\* The last final event of an operation is one event, so its verdict is one.
LEMMA OneVerdict ==
  ASSUME NEW events \in Seq(Event), NEW op \in Ops, NEW s \in Nat,
         NEW st \in FinalStatuses, NEW other \in FinalStatuses,
         Verdict(events, op, st, s), Verdict(events, op, other, s)
  PROVE  st = other
<1>1. PICK i \in DOMAIN events :
        /\ events[i].seq <= s /\ events[i].op = op /\ events[i].status = st
        /\ \A j \in DOMAIN events :
             j > i /\ events[j].seq <= s /\ events[j].op = op
               => events[j].status \notin FinalStatuses
  BY DEF Verdict
<1>2. PICK k \in DOMAIN events :
        /\ events[k].seq <= s /\ events[k].op = op /\ events[k].status = other
        /\ \A j \in DOMAIN events :
             j > k /\ events[j].seq <= s /\ events[j].op = op
               => events[j].status \notin FinalStatuses
  BY DEF Verdict
<1>3. ~(k > i) /\ ~(i > k)
  BY <1>1, <1>2
<1>4. i \in Nat /\ k \in Nat
  OBVIOUS
<1>5. i = k
  BY <1>3, <1>4
<1> QED BY <1>1, <1>2, <1>5

\* Over any history the state file passes ValidateForPlan: a resume of the plan
\* it belongs to is never turned away as inconsistent.
THEOREM StateFileValidates == Spec => []SnapshotValidates
<1>1. TypeOK /\ SnapshotRecorded => SnapshotValidates
  <2> SUFFICES ASSUME TypeOK, SnapshotRecorded, snapshot # NoState
               PROVE  ValidateForPlan(snapshot)
    BY DEF SnapshotValidates
  <2>1. snapshot \in State /\ lines \in Seq(Event) /\ Recorded(lines, snapshot)
    BY DEF TypeOK, SnapshotRecorded
  <2>2. /\ snapshot.completed \subseteq Ops /\ snapshot.skipped \subseteq Ops
        /\ snapshot.failed \subseteq Ops /\ snapshot.last \in Nat
    BY <2>1 DEF State
  <2>3. "succeeded" \in FinalStatuses /\ "skipped" \in FinalStatuses
        /\ "failed" \in FinalStatuses
    BY DEF FinalStatuses
  <2>4. ASSUME NEW op \in Ops
        PROVE  /\ ~(op \in snapshot.completed /\ op \in snapshot.skipped)
               /\ ~(op \in snapshot.completed /\ op \in snapshot.failed)
               /\ ~(op \in snapshot.skipped /\ op \in snapshot.failed)
    <3>1. /\ op \in snapshot.completed <=> Verdict(lines, op, "succeeded", snapshot.last)
          /\ op \in snapshot.skipped <=> Verdict(lines, op, "skipped", snapshot.last)
          /\ op \in snapshot.failed <=> Verdict(lines, op, "failed", snapshot.last)
      BY <2>1 DEF Recorded
    <3> QED BY <3>1, <2>1, <2>2, <2>3, OneVerdict
  <2> QED BY <2>2, <2>4 DEF ValidateForPlan
<1> QED BY <1>1, TypeCorrect, StateFileIsTrue, PTL

-----------------------------------------------------------------------------
(* An interrupted journal.                                                 *)

\* A writer between events is refused if the journal is torn or behind.
LEMMA InterruptedIsRefused ==
  ASSUME TypeOK, OrderInv, NEW ev \in NextEvent, opened, ~dirty, torn \/ Behind,
         torn => sequence = 0
  PROVE  Refuses(ev.seq)
<1> SUFFICES ASSUME ~Refuses(ev.seq) PROVE FALSE
  OBVIOUS
<1>1. /\ snapshot.last \in Nat
      /\ \A i \in DOMAIN lines : lines[i].seq <= snapshot.last
  BY AcceptedIsBeyond
<1>2. \A i \in DOMAIN lines : lines[i].seq \in Nat
  BY LinesAreEvents DEF TypeOK
<1>3. ~Behind
  BY <1>1, <1>2 DEF Behind
<1> QED BY <1>3 DEF Refuses

\* A writer that has looked at the journal found it whole.
WholeInv == opened /\ torn => sequence = 0

LEMMA WholeStep == TypeOK /\ WholeInv /\ [Next]_jvars => WholeInv'
<1> SUFFICES ASSUME TypeOK, WholeInv, [Next]_jvars PROVE WholeInv'
  OBVIOUS
<1>1. ASSUME NEW ev \in NextEvent, AppendEvent(ev) PROVE WholeInv'
  BY <1>1 DEF AppendEvent, Refuses, WholeInv
<1>2. ASSUME NEW ev \in NextEvent, RefuseEvent(ev) \/ AppendFails(ev) PROVE WholeInv'
  BY <1>2 DEF RefuseEvent, AppendFails, Released, WholeInv
<1>3. CASE OpenNew \/ OpenResume \/ SaveState \/ SaveFails \/ Close
  BY <1>3 DEF OpenNew, OpenResume, SaveState, SaveFails, Close, Released, WholeInv
<1>4. CASE UNCHANGED jvars
  BY <1>4 DEF jvars, WholeInv
<1> QED BY <1>1, <1>2, <1>3, <1>4 DEF Next

\* Once interrupted, the files never change again: no number is issued twice,
\* and by the same token no command gets the installation any further.
THEOREM InterruptionFreezes == Spec => InterruptedIsFrozen
<1>1. ASSUME TypeOK, OrderInv, WholeInv, [Next]_jvars, ~dirty, torn \/ Behind
      PROVE  UNCHANGED disk
  <2>1. lines = <<>> => ~Behind
    BY DEF Behind
  <2>2. ASSUME NEW ev \in NextEvent, AppendEvent(ev) \/ AppendFails(ev) PROVE FALSE
    BY <1>1, <2>2, InterruptedIsRefused DEF AppendEvent, AppendFails, WholeInv
  <2>3. CASE OpenNew
    BY <1>1, <2>1, <2>3 DEF OpenNew
  <2>4. ASSUME NEW ev \in NextEvent, RefuseEvent(ev) PROVE UNCHANGED disk
    BY <2>4 DEF RefuseEvent
  <2>5. CASE OpenResume \/ SaveState \/ SaveFails \/ Close
    BY <1>1, <2>5 DEF OpenResume, SaveState, SaveFails, Close, disk
  <2>6. CASE UNCHANGED jvars
    BY <2>6 DEF jvars, disk
  <2> QED BY <1>1, <2>2, <2>3, <2>4, <2>5, <2>6 DEF Next
<1>2. TypeOK /\ OrderInv /\ WholeInv /\ [Next]_jvars
        => [~dirty /\ (torn \/ Behind) => UNCHANGED disk]_jvars
  BY <1>1
<1>3. Init => WholeInv
  BY DEF Init, WholeInv
<1> QED BY <1>2, <1>3, WholeStep, TypeCorrect, OrderInit, OrderStep, PTL
     DEF Spec, InterruptedIsFrozen
=============================================================================
