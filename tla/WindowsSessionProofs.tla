------------------------- MODULE WindowsSessionProofs -------------------------
(***************************************************************************)
(* The safety properties of WindowsSession.tla for every plan with a       *)
(* detection before each installation, and any number of commands, dry     *)
(* runs, failures and crashes.  `cowebs-setup broker` saves no state       *)
(* before its first event, so it is the state file read as Saved reads it  *)
(* that implements Journal.tla, and what JournalProofs knows of a journal  *)
(* is known of that.                                                       *)
(***************************************************************************)
EXTENDS WindowsSession, PositionLemmas, TLAPS

AP == INSTANCE JournalProofs WITH snapshot <- Saved

\* Where the executor is, and what it knows there.
PlaceInv ==
  /\ opened <=> phase # "off"
  /\ outcome = "running" <=> phase # "off"
  /\ phase \in {"next", "running", "installed", "failed"} => at \in Handled
  /\ phase = "done" => at = Len(Plan) + 1
  /\ phase = "off" => at = 0
  /\ phase \in {"next", "running", "installed"} /\ Current.kind = "install" => at \notin skipped
  /\ phase = "running" /\ Current.kind = "install" => Current.target \notin detected
  /\ phase = "installed" => /\ Current.kind = "install"
                            /\ ~dry => Current.target \in machine

\* A detection that this run is past has found what was there when it began.
FoundInv ==
  \A d \in Handled :
    Plan[d].kind = "detect" /\ d < at /\ Plan[d].target \in before => Plan[d].target \in detected

\* A state file without a line in the journal is the one `cowebs install` saves.
EmptyInv == lines = <<>> => snapshot \in {NoState, J!NewState}

BaseInv == TypeOK /\ PlaceInv /\ FoundInv /\ EmptyInv

\* What JournalProofs knows of a journal.
JournalInv == AP!TypeOK /\ AP!OrderInv /\ AP!RecordInv

Terminal(state) == J!TerminalOperations(state)

\* An installation the executor passes over, or has passed for real, is recorded as
\* dealt with, and so is every one when a real run has ended well.
DoneInv ==
  /\ opened => \A i \in Handled :
       Plan[i].kind = "install" /\ (i \in skipped \/ (i < at /\ ~dry)) => i \in Terminal(mem)
  /\ Complete => \A i \in Handled :
       Plan[i].kind = "install" => snapshot # NoState /\ i \in Terminal(snapshot)

WindowsInv == BaseInv /\ JournalInv /\ JournalIsTrue /\ DoneInv

-----------------------------------------------------------------------------
(* The plan and the way through it.                                        *)

LEMMA PlanFacts ==
  /\ Len(Plan) \in Nat /\ Ops = 1..Len(Plan) /\ Handled \subseteq Ops
  /\ \A i \in Handled : Plan[i].kind \in {"detect", "install"} /\ Plan[i].target \in Targets
  /\ \A i \in Handled : Plan[i].kind = "install" =>
       \E d \in Handled : d < i /\ Plan[d].kind = "detect" /\ Plan[d].target = Plan[i].target
<1>1. Len(Plan) \in Nat /\ Ops = 1..Len(Plan)
  BY WindowsPlanAssumption DEF WindowsPlan, IsPlan, Ops
<1>2. /\ Handled \subseteq Ops
      /\ \A i \in Handled : Plan[i].kind \in {"detect", "install"} /\ Plan[i].target \in Targets
  BY DEF Handled, HandledOnWindows, Targets
<1>3. ASSUME NEW i \in Handled, Plan[i].kind = "install"
      PROVE  \E d \in Handled : d < i /\ Plan[d].kind = "detect" /\ Plan[d].target = Plan[i].target
  <2>1. PICK d \in 1..(i - 1) : /\ HandledOnWindows(Plan[d]) /\ Plan[d].kind = "detect"
                                /\ Plan[d].target = Plan[i].target
    BY <1>3, WindowsPlanAssumption DEF WindowsPlan, Handled, Ops
  <2>2. d \in Handled /\ d < i
    BY <1>1, <1>2, <2>1 DEF Handled
  <2> QED BY <2>1, <2>2
<1> QED BY <1>1, <1>2, <1>3, Zenon

\* The executor goes on to an operation that it does not pass over, and passes over
\* only installations it was told have ended.
LEMMA NextPositionIs ==
  ASSUME NEW i \in 0..Len(Plan), NEW terminal
  PROVE  LET next == NextPosition(i, terminal)
         IN  /\ next \in 1..(Len(Plan) + 1) /\ next > i
             /\ next \in Ops => next \in Handled /\ ~(Plan[next].kind = "install" /\ next \in terminal)
             /\ next \notin Ops => next = Len(Plan) + 1
             /\ \A j \in Handled : i < j /\ j < next => Plan[j].kind = "install" /\ j \in terminal
<1> DEFINE todo == {j \in Handled : j > i /\ ~(Plan[j].kind = "install" /\ j \in terminal)}
           next == NextPosition(i, terminal)
<1>1. next = IF todo = {} THEN Len(Plan) + 1 ELSE Min(todo)
  BY DEF NextPosition
<1>2. CASE todo = {}
  BY <1>1, <1>2, PlanFacts
<1>3. CASE todo # {}
  <2>1. next \in todo /\ \A j \in todo : next <= j
    BY <1>1, <1>3, PlanFacts, FirstPosition
  <2> HIDE DEF next
  <2>2. /\ next \in Handled /\ next \in Ops /\ next > i
        /\ ~(Plan[next].kind = "install" /\ next \in terminal)
    BY <2>1, PlanFacts
  <2>3. ASSUME NEW j \in Handled, i < j, j < next
        PROVE  Plan[j].kind = "install" /\ j \in terminal
    BY <2>1, <2>2, <2>3, PlanFacts
  <2>4. next \in 1..(Len(Plan) + 1)
    BY <2>2, PlanFacts
  <2> QED BY <2>2, <2>3, <2>4 DEF next
<1> QED BY <1>2, <1>3

-----------------------------------------------------------------------------
(* The steps, those that come to the same told together.                   *)

\* A command, the state it starts from and what it is told has ended.
Begins(state) ==
  /\ ~opened /\ opened' /\ sequence' = 0 /\ mem' = state /\ UNCHANGED <<lines, torn, dirty>>
  /\ phase = "off" /\ outcome' = "running"
  /\ dry' \in BOOLEAN /\ skipped' \subseteq Terminal(state)
  /\ detected' = {} /\ before' = machine
  /\ at' = NextPosition(0, skipped') /\ phase' = IF at' \in Ops THEN "next" ELSE "done"
  /\ \/ state = J!NewState /\ lines = <<>> /\ ~torn /\ snapshot' \in {snapshot, J!NewState}
     \/ state = snapshot /\ snapshot # NoState /\ J!ValidateForPlan(snapshot) /\ snapshot' = snapshot
  /\ extras' \in 0..MaxExtras
  /\ UNCHANGED <<machine, orphans, faults>>

\* The executor reports, of the operation it is at, that it has started it, that it
\* has failed, or how it has ended.
Reports(status) ==
  /\ phase \in {"next", "running", "installed"}
  /\ Emit(status)
  /\ UNCHANGED <<run, orphans, outcome, extras>>
  /\ machine \subseteq machine' /\ machine' \subseteq Targets /\ faults' \in 0..MaxFaults
  /\ \/ /\ status = "started" /\ phase' = "running" /\ UNCHANGED <<at, detected>>
        /\ Current.kind = "install" => Current.target \notin detected
     \/ status = "failed" /\ phase' = "failed" /\ UNCHANGED <<at, detected>>
     \/ /\ status \in {"succeeded", "skipped", "planned"} /\ GoOn
        /\ detected \subseteq detected' /\ detected' \subseteq machine
        /\ status # "planned" => Current.target \in machine
        /\ Current.kind = "install" => detected' = detected /\ (dry \/ status # "planned")
        /\ Current.kind = "detect" /\ Current.target \in machine => Current.target \in detected'

\* The command is over; the last report may have been written.
Ends ==
  /\ opened /\ J!Released /\ UNCHANGED <<snapshot, run, detected, extras>>
  /\ phase' = "off" /\ at' = 0 /\ outcome' \in {"ok", "failed"}
  /\ machine \subseteq machine' /\ machine' \subseteq Targets
  /\ orphans' \subseteq Targets /\ faults' \in 0..MaxFaults
  /\ \/ UNCHANGED lines
     \/ \E status \in J!Statuses :
          /\ at \in Handled /\ ~dirty /\ lines' = Append(lines, Event(status)) /\ UNCHANGED torn
          /\ status \in {"succeeded", "skipped"} => Current.target \in machine
  /\ outcome' = "ok" => phase = "done" /\ ~dirty

LEMMA BeginsIs ==
  ASSUME TypeOK, Command
  PROVE  \E state \in J!State : Begins(state)
<1>1. J!NewState \in J!State /\ (snapshot # NoState => snapshot \in J!State)
  BY DEF TypeOK, J!TypeOK, J!NewState, J!State
<1>2. ASSUME NEW terminal, NEW isDry \in BOOLEAN, Execute(terminal, isDry)
      PROVE  /\ phase = "off" /\ outcome' = "running" /\ dry' \in BOOLEAN /\ skipped' = terminal
             /\ detected' = {} /\ before' = machine
             /\ at' = NextPosition(0, skipped') /\ phase' = IF at' \in Ops THEN "next" ELSE "done"
             /\ extras' \in 0..MaxExtras /\ UNCHANGED <<machine, orphans, faults>>
  <2>1. extras' \in 0..MaxExtras
    BY <1>2, WindowsPlanAssumption DEF Execute, TypeOK
  <2> QED BY <1>2, <2>1 DEF Execute
<1>3. ASSUME NEW isDry \in BOOLEAN, SetupBroker(isDry) PROVE Begins(J!NewState)
  <2>1. Execute({}, isDry)
    BY <1>3 DEF SetupBroker
  <2> QED BY <1>2, <1>3, <2>1 DEF SetupBroker, Begins
<1>4. ASSUME NEW isDry \in BOOLEAN, SetupResume(isDry) PROVE Begins(snapshot) /\ snapshot # NoState
  <2>1. Execute(Terminal(snapshot), isDry)
    BY <1>4 DEF SetupResume, Terminal
  <2> QED BY <1>2, <1>4, <2>1 DEF SetupResume, J!OpenResume, Begins
<1>5. CASE PreviewInstall
  <2>1. PICK isDry \in BOOLEAN : Execute({}, isDry)
    BY <1>5 DEF PreviewInstall
  <2> QED BY <1>1, <1>2, <1>5, <2>1 DEF PreviewInstall, J!OpenNew, Begins
<1>6. CASE PreviewResume
  <2>1. PICK isDry \in BOOLEAN : Execute({}, isDry)
    BY <1>6 DEF PreviewResume
  <2> QED BY <1>1, <1>2, <1>6, <2>1 DEF PreviewResume, J!OpenResume, Begins
<1> QED BY <1>1, <1>3, <1>4, <1>5, <1>6 DEF Command

LEMMA FaultsAreBounded ==
  ASSUME TypeOK
  PROVE  /\ faults \in 0..MaxFaults
         /\ faults < MaxFaults /\ faults' = faults + 1 => faults' \in 0..MaxFaults
BY WindowsPlanAssumption DEF TypeOK

LEMMA ReportsIs ==
  ASSUME TypeOK, PlaceInv, Skip \/ Start \/ Detect \/ Report \/ Fail
  PROVE  \E status \in J!Statuses : Reports(status)
<1> USE DEF Current
<1>1. /\ machine \subseteq Targets /\ detected \subseteq machine /\ faults \in 0..MaxFaults
      /\ faults < MaxFaults /\ faults' = faults + 1 => faults' \in 0..MaxFaults
  BY FaultsAreBounded DEF TypeOK
<1>2. at \in Handled /\ Plan[at].target \in Targets /\ Plan[at].kind \in {"detect", "install"}
  BY PlanFacts DEF Skip, Start, Detect, Report, Fail, Ready, PlaceInv
<1>3. CASE Skip
  <2>1. Reports("skipped")
    BY <1>1, <1>2, <1>3 DEF Skip, Ready, Reports
  <2> QED BY <2>1 DEF J!Statuses
<1>4. CASE Start
  <2>1. Reports("started")
    BY <1>1, <1>2, <1>4 DEF Start, Ready, Reports
  <2> QED BY <2>1 DEF J!Statuses
<1>5. CASE Detect
  <2>1. CASE Current.target \in machine
    <3>1. Reports("succeeded")
      BY <1>1, <1>2, <1>5, <2>1 DEF Detect, Ready, Reports
    <3> QED BY <3>1 DEF J!Statuses
  <2>2. CASE Current.target \notin machine
    <3>1. Reports("planned")
      BY <1>1, <1>2, <1>5, <2>2 DEF Detect, Ready, Reports
    <3> QED BY <3>1 DEF J!Statuses
  <2> QED BY <2>1, <2>2
<1>6. CASE Report
  <2>1. CASE dry
    <3>1. Reports("planned")
      BY <1>1, <1>2, <1>6, <2>1 DEF Report, Ready, Reports, PlaceInv
    <3> QED BY <3>1 DEF J!Statuses
  <2>2. CASE ~dry
    <3>1. Reports("succeeded")
      BY <1>1, <1>2, <1>6, <2>2 DEF Report, Ready, Reports, PlaceInv
    <3> QED BY <3>1 DEF J!Statuses
  <2> QED BY <2>1, <2>2
<1>7. CASE Fail
  <2>1. Reports("failed")
    BY <1>1, <1>2, <1>7 DEF Fail, Ready, Reports
  <2> QED BY <2>1 DEF J!Statuses
<1> QED BY <1>3, <1>4, <1>5, <1>6, <1>7

\* What the executor may be reporting when its report is lost.
LEMMA SentIs ==
  ASSUME TypeOK, PlaceInv, NEW status \in Sent
  PROVE  /\ status \in J!Statuses /\ at \in Handled
         /\ status \in {"succeeded", "skipped"} => Current.target \in machine
<1>1. CASE phase = "next"
  BY <1>1 DEF Sent, TypeOK, PlaceInv, J!Statuses
<1>2. CASE phase = "running"
  BY <1>2 DEF Sent, TypeOK, PlaceInv, J!Statuses
<1>3. CASE phase = "installed"
  BY <1>3 DEF Sent, TypeOK, PlaceInv, J!Statuses
<1>4. phase \in {"next", "running", "installed"}
  BY DEF Sent
<1> QED BY <1>1, <1>2, <1>3, <1>4

LEMMA EndsIs ==
  ASSUME TypeOK, PlaceInv, Return \/ SinkFails \/ FailUnrecorded \/ Crash
  PROVE  Ends
<1>1. /\ machine \subseteq Targets /\ orphans \subseteq Targets /\ faults \in 0..MaxFaults
      /\ faults < MaxFaults /\ faults' = faults + 1 => faults' \in 0..MaxFaults
  BY FaultsAreBounded DEF TypeOK
<1>2. CASE Return
  BY <1>1, <1>2 DEF Return, Ready, J!Close, J!disk, Exit, Ends
<1>3. CASE SinkFails
  <2>1. /\ Exit("failed") /\ UNCHANGED <<run, detected, machine, orphans, extras>>
        /\ faults' \in 0..MaxFaults
    BY <1>1, <1>3 DEF SinkFails
  <2>2. ASSUME NEW status \in Sent, J!RefuseEvent(Event(status)) PROVE Ends
    BY <1>1, <2>1, <2>2 DEF J!RefuseEvent, J!disk, Exit, Ends
  <2>3. CASE J!SaveFails
    BY <1>1, <2>1, <2>3 DEF J!SaveFails, J!disk, Exit, Ends
  <2>4. ASSUME NEW status \in Sent, J!AppendFails(Event(status)) PROVE Ends
    <3>1. /\ status \in J!Statuses /\ at \in Handled
          /\ status \in {"succeeded", "skipped"} => Current.target \in machine
      BY SentIs
    <3> QED BY <1>1, <2>1, <2>4, <3>1 DEF J!AppendFails, Exit, Ends
  <2> QED BY <1>3, <2>2, <2>3, <2>4 DEF SinkFails
<1>4. CASE FailUnrecorded
  <2>1. at \in Handled /\ Current.target \in Targets /\ "failed" \in J!Statuses
    BY <1>4, PlanFacts DEF FailUnrecorded, PlaceInv, Current, J!Statuses
  <2> QED BY <1>1, <1>4, <2>1 DEF FailUnrecorded, J!AppendFails, Exit, Ends
<1>5. CASE Crash
  <2>1. orphans' \subseteq Targets
    BY <1>1, <1>5, PlanFacts DEF Crash, Orphaned, PlaceInv, Current
  <2> QED BY <1>1, <1>5, <2>1 DEF Crash, J!Close, J!disk, Exit, Ends
<1> QED BY <1>2, <1>3, <1>4, <1>5

LEMMA StepKinds ==
  ASSUME TypeOK, PlaceInv, [Next]_vars
  PROVE  \/ \E state \in J!State : Begins(state)
         \/ \E status \in J!Statuses : Reports(status)
         \/ Install \/ Save \/ Ends
         \/ \E target \in orphans : OrphanEnds(target)
         \/ UNCHANGED vars
BY BeginsIs, ReportsIs, EndsIs DEF Next, Executor

-----------------------------------------------------------------------------
(* The journal is used as Journal.tla says.                                *)

LEMMA NoStateIsNotAState == AP!NoStateAssumption /\ J!NewState \in J!State /\ J!NewState # NoState
<1>1. J!NewState \in J!State
  BY DEF J!NewState, J!State
<1>2. AP!NoStateAssumption
  BY NoStateAssumption DEF AP!NoStateAssumption, J!State, AP!State, J!Statuses, AP!Statuses
<1> QED BY <1>1, <1>2, NoStateAssumption

\* The journal that the state file read as Saved makes is that of JournalProofs.
LEMMA SameJournal ==
  /\ Abstract!Init <=> AP!Init
  /\ [Abstract!Next]_Abstract!jvars <=> [AP!Next]_AP!jvars
BY DEF Abstract!Event, AP!Event, Abstract!State, AP!State, Abstract!Statuses, AP!Statuses,
       Abstract!NewState, AP!NewState, Abstract!Init, AP!Init, Abstract!Next, AP!Next,
       Abstract!jvars, AP!jvars, Abstract!OpenNew, AP!OpenNew, Abstract!OpenResume, AP!OpenResume,
       Abstract!ValidateForPlan, AP!ValidateForPlan, Abstract!AppendEvent, AP!AppendEvent,
       Abstract!RefuseEvent, AP!RefuseEvent, Abstract!AppendFails, AP!AppendFails,
       Abstract!Refuses, AP!Refuses, Abstract!Released, AP!Released, Abstract!disk, AP!disk,
       Abstract!SaveState, AP!SaveState, Abstract!SaveFails, AP!SaveFails,
       Abstract!Close, AP!Close, Abstract!NextEvent, AP!NextEvent,
       Abstract!ApplyEvent, AP!ApplyEvent, Abstract!Listed, AP!Listed,
       Abstract!FinalStatuses, AP!FinalStatuses

\* Every step is one of the journal's, or leaves it alone.
LEMMA JournalStep ==
  ASSUME BaseInv, [Next]_vars
  PROVE  [Abstract!Next]_Abstract!jvars
<1>1. TypeOK /\ PlaceInv /\ EmptyInv
  BY DEF BaseInv
<1>2. J!NewState # NoState /\ J!NewState = Abstract!NewState
  BY NoStateIsNotAState DEF J!NewState, Abstract!NewState
<1>3. ASSUME NEW status \in J!Statuses, at \in Handled
      PROVE  Event(status) \in Abstract!NextEvent
  BY <1>3, PlanFacts DEF Event, Abstract!NextEvent, J!Statuses, Abstract!Statuses
<1>4. opened /\ snapshot' = snapshot /\ outcome' # "none" => Saved' = Saved
  BY <1>1 DEF PlaceInv, Saved
<1>5. ASSUME NEW state \in J!State, Begins(state) PROVE [Abstract!Next]_Abstract!jvars
  <2>1. outcome' # "none"
    BY <1>5 DEF Begins
  <2>2. CASE state = J!NewState /\ lines = <<>> /\ ~torn /\ snapshot' \in {snapshot, J!NewState}
    <3>1. snapshot' \in {NoState, J!NewState}
      BY <1>1, <2>2 DEF EmptyInv
    <3>2. Saved' = J!NewState
      BY <2>1, <3>1 DEF Saved
    <3>3. Abstract!OpenNew
      BY <1>2, <1>5, <2>2, <3>2 DEF Begins, Abstract!OpenNew
    <3> QED BY <3>3 DEF Abstract!Next
  <2>3. CASE /\ state = snapshot /\ snapshot # NoState
             /\ J!ValidateForPlan(snapshot) /\ snapshot' = snapshot
    <3>1. Saved = snapshot /\ Saved' = snapshot
      BY <2>3 DEF Saved
    <3>2. Abstract!OpenResume
      BY <1>5, <2>3, <3>1
         DEF Begins, Abstract!OpenResume, J!ValidateForPlan, Abstract!ValidateForPlan
    <3> QED BY <3>2 DEF Abstract!Next
  <2> QED BY <1>5, <2>2, <2>3 DEF Begins
<1>6. CASE Skip \/ Start \/ Detect \/ Report \/ Fail
  <2>1. PICK status \in J!Statuses : Reports(status)
    BY <1>1, <1>6, ReportsIs
  <2>2. /\ J!AppendEvent(Event(status)) /\ outcome' = outcome
        /\ phase \in {"next", "running", "installed"}
    BY <2>1 DEF Reports, Emit
  <2>3. Event(status) \in Abstract!NextEvent
    BY <1>1, <1>3, <2>2 DEF PlaceInv
  <2>4. Saved' = Saved
    BY <2>2 DEF J!AppendEvent, Saved
  <2>5. Abstract!AppendEvent(Event(status))
    BY <2>2, <2>4
       DEF J!AppendEvent, Abstract!AppendEvent, J!Refuses, Abstract!Refuses,
           J!ApplyEvent, Abstract!ApplyEvent, J!Listed, Abstract!Listed,
           J!FinalStatuses, Abstract!FinalStatuses
  <2> QED BY <2>3, <2>5 DEF Abstract!Next
<1>7. CASE Save
  <2>1. mem # NoState
    BY <1>1, NoStateAssumption DEF TypeOK, J!TypeOK
  <2>2. Saved' = mem
    BY <1>7, <2>1 DEF Save, J!SaveState, Saved
  <2>3. Abstract!SaveState
    BY <1>7, <2>2 DEF Save, J!SaveState, Abstract!SaveState
  <2> QED BY <2>3 DEF Abstract!Next
<1>8. CASE Return \/ Crash
  <2>1. J!Close /\ outcome' # "none"
    BY <1>8 DEF Return, Crash, Exit
  <2>2. Abstract!Close
    BY <1>2, <1>4, <2>1 DEF J!Close, J!Released, J!disk, Abstract!Close, Abstract!Released, Abstract!disk
  <2> QED BY <2>2 DEF Abstract!Next
<1>9. ASSUME outcome' # "none", NEW status \in J!Statuses, at \in Handled,
             J!RefuseEvent(Event(status)) \/ J!AppendFails(Event(status))
      PROVE  Abstract!Next
  <2>1. Saved' = Saved
    BY <1>4, <1>9 DEF J!RefuseEvent, J!AppendFails, J!disk
  <2>2. Abstract!RefuseEvent(Event(status)) \/ Abstract!AppendFails(Event(status))
    BY <1>2, <1>9, <2>1
       DEF J!RefuseEvent, Abstract!RefuseEvent, J!AppendFails, Abstract!AppendFails,
           J!Refuses, Abstract!Refuses, J!Released, Abstract!Released, J!disk, Abstract!disk
  <2> QED BY <1>3, <1>9, <2>2 DEF Abstract!Next
<1>10. CASE SinkFails
  <2>1. outcome' # "none"
    BY <1>10 DEF SinkFails, Exit
  <2>2. CASE J!SaveFails
    <3>1. Abstract!SaveFails
      BY <1>2, <1>4, <2>1, <2>2
         DEF J!SaveFails, J!Released, J!disk, Abstract!SaveFails, Abstract!Released, Abstract!disk
    <3> QED BY <3>1 DEF Abstract!Next
  <2>3. ASSUME NEW status \in Sent, J!RefuseEvent(Event(status)) \/ J!AppendFails(Event(status))
        PROVE  Abstract!Next
    BY <1>1, <1>9, <2>1, <2>3, SentIs
  <2> QED BY <1>10, <2>2, <2>3 DEF SinkFails
<1>11. CASE FailUnrecorded
  <2>1. outcome' # "none" /\ at \in Handled /\ "failed" \in J!Statuses
    BY <1>1, <1>11 DEF FailUnrecorded, Exit, PlaceInv, J!Statuses
  <2> QED BY <1>9, <1>11, <2>1 DEF FailUnrecorded
<1>12. CASE Install \/ (\E target \in orphans : OrphanEnds(target)) \/ UNCHANGED vars
  <2>1. UNCHANGED <<jvars, outcome>>
    BY <1>12 DEF Install, OrphanEnds, vars
  <2> QED BY <2>1 DEF jvars, Abstract!jvars, Saved
<1>13. CASE Command
  BY <1>1, <1>5, <1>13, BeginsIs
<1> QED BY <1>6, <1>7, <1>8, <1>10, <1>11, <1>12, <1>13 DEF Next, Executor

LEMMA JournalInvInit == Init => JournalInv
<1> SUFFICES ASSUME Init PROVE JournalInv
  OBVIOUS
<1>1. Saved = NoState
  BY DEF Init, J!Init, Saved
<1>2. Abstract!Init
  BY <1>1 DEF Init, J!Init, Abstract!Init, J!NewState, Abstract!NewState
<1>3. AP!Init
  BY <1>2, SameJournal
<1>4. AP!TypeOK /\ AP!OrderInv
  BY <1>3, AP!TypeInit, AP!OrderInit, NoStateIsNotAState
<1>5. AP!RecordInv
  BY <1>3 DEF AP!Init, AP!RecordInv, AP!SnapshotRecorded
<1> QED BY <1>4, <1>5 DEF JournalInv

LEMMA JournalInvStep == BaseInv /\ JournalInv /\ [Next]_vars => JournalInv'
<1> SUFFICES ASSUME BaseInv, JournalInv, [Next]_vars PROVE JournalInv'
  OBVIOUS
<1>1. AP!TypeOK /\ AP!OrderInv /\ AP!RecordInv /\ [AP!Next]_AP!jvars
  BY JournalStep, SameJournal DEF JournalInv
<1>2. AP!TypeOK'
  BY <1>1, AP!TypeStep, NoStateIsNotAState
<1>3. AP!OrderInv'
  BY <1>1, AP!OrderStep, NoStateIsNotAState
<1>4. AP!RecordInv'
  BY <1>1, AP!RecordStep, NoStateIsNotAState
<1> QED BY <1>2, <1>3, <1>4 DEF JournalInv

\* The journal's own type invariant, the state file being what it is.
LEMMA JournalTypeStep ==
  ASSUME BaseInv, JournalInv, [Next]_vars
  PROVE  J!TypeOK'
<1>1. TypeOK /\ PlaceInv
  BY DEF BaseInv
<1>2. AP!TypeOK'
  BY JournalInvStep DEF JournalInv
<1>3. mem \in J!State /\ snapshot \in J!State \cup {NoState}
  BY <1>1 DEF TypeOK, J!TypeOK
<1>4. snapshot' \in {snapshot, mem, J!NewState}
  BY <1>1, StepKinds
     DEF Begins, Reports, Emit, J!AppendEvent, Install, Save, J!SaveState, Ends, OrphanEnds,
         vars, jvars
<1>5. snapshot' \in J!State \cup {NoState}
  BY <1>3, <1>4, NoStateIsNotAState
<1> QED BY <1>2, <1>5
     DEF J!TypeOK, AP!TypeOK, J!Event, AP!Event, J!State, AP!State, J!Statuses, AP!Statuses,
         J!NewState, AP!NewState

LEMMA GoOnIs ==
  ASSUME PlaceInv, at \in Handled, GoOn
  PROVE  /\ at' \in 1..(Len(Plan) + 1) /\ at' > at /\ phase' \in {"next", "done"}
         /\ phase' = "next" => at' \in Handled /\ ~(Plan[at'].kind = "install" /\ at' \in skipped)
         /\ phase' = "done" => at' = Len(Plan) + 1
         /\ \A j \in Handled : at < j /\ j < at' => Plan[j].kind = "install" /\ j \in skipped
<1>1. at \in 0..Len(Plan)
  BY PlanFacts
<1> QED BY <1>1, NextPositionIs DEF GoOn

LEMMA TypeStep ==
  ASSUME BaseInv, JournalInv, [Next]_vars
  PROVE  TypeOK'
<1>1. TypeOK /\ PlaceInv /\ J!TypeOK'
  BY JournalTypeStep DEF BaseInv
<1>2. /\ dry \in BOOLEAN /\ at \in 0..(Len(Plan) + 1) /\ skipped \subseteq Ops
      /\ detected \subseteq machine /\ machine \subseteq Targets /\ before \subseteq machine
      /\ orphans \subseteq Targets
  BY <1>1 DEF TypeOK
<1>3. ASSUME NEW state \in J!State, Begins(state) PROVE TypeOK'
  <2>1. Terminal(state) \subseteq Ops
    BY DEF Terminal, J!TerminalOperations, J!State
  <2>2. at' \in 0..(Len(Plan) + 1) /\ phase' \in {"next", "done"}
    BY <1>3, PlanFacts, NextPositionIs DEF Begins
  <2> QED BY <1>1, <1>3, <2>1, <2>2 DEF Begins, TypeOK
<1>4. ASSUME NEW status \in J!Statuses, Reports(status) PROVE TypeOK'
  <2>1. at \in Handled
    BY <1>1, <1>4 DEF Reports, PlaceInv
  <2>2. /\ at' \in 0..(Len(Plan) + 1)
        /\ phase' \in {"running", "failed", "next", "done"} /\ detected' \subseteq machine'
    BY <1>1, <1>2, <1>4, <2>1, GoOnIs DEF Reports
  <2> QED BY <1>1, <1>2, <1>4, <2>2 DEF Reports, TypeOK, run
<1>5. CASE Install
  <2>1. Current.target \in Targets
    BY <1>1, <1>5, PlanFacts DEF Install, Ready, PlaceInv, Current
  <2>2. machine' \subseteq Targets /\ machine \subseteq machine'
    BY <1>2, <1>5, <2>1 DEF Install
  <2> QED BY <1>1, <1>2, <1>5, <2>2 DEF Install, TypeOK, run
<1>6. CASE Save
  BY <1>1, <1>6 DEF Save, TypeOK, run
<1>7. CASE Ends
  BY <1>1, <1>2, <1>7 DEF Ends, TypeOK, run
<1>8. ASSUME NEW target \in orphans, OrphanEnds(target) PROVE TypeOK'
  BY <1>1, <1>2, <1>8 DEF OrphanEnds, TypeOK, run
<1>9. CASE UNCHANGED vars
  BY <1>1, <1>9 DEF vars, TypeOK, run
<1> QED BY <1>1, <1>3, <1>4, <1>5, <1>6, <1>7, <1>8, <1>9, StepKinds

LEMMA PlaceStep ==
  ASSUME BaseInv, JournalInv, [Next]_vars
  PROVE  PlaceInv'
<1> USE DEF Current
<1>1. TypeOK /\ PlaceInv /\ TypeOK'
  BY TypeStep DEF BaseInv
<1>2. ASSUME NEW state \in J!State, Begins(state) PROVE PlaceInv'
  <2>1. /\ at' \in Ops => at' \in Handled /\ ~(Plan[at'].kind = "install" /\ at' \in skipped')
        /\ at' \notin Ops => at' = Len(Plan) + 1
    BY <1>2, PlanFacts, NextPositionIs DEF Begins
  <2> QED BY <1>2, <2>1 DEF Begins, PlaceInv
<1>3. ASSUME NEW status \in J!Statuses, Reports(status) PROVE PlaceInv'
  <2>1. /\ at \in Handled /\ opened /\ opened' = opened /\ outcome' = outcome
        /\ dry' = dry /\ skipped' = skipped
    BY <1>1, <1>3 DEF Reports, Emit, J!AppendEvent, PlaceInv, run
  <2>2. CASE GoOn
    BY <1>1, <2>1, <2>2, GoOnIs DEF PlaceInv
  <2>3. CASE phase' = "running" /\ UNCHANGED <<at, detected>>
             /\ (Current.kind = "install" => Current.target \notin detected)
    BY <1>1, <1>3, <2>1, <2>3 DEF Reports, PlaceInv
  <2>4. CASE phase' = "failed" /\ UNCHANGED <<at, detected>>
    BY <1>1, <1>3, <2>1, <2>4 DEF Reports, PlaceInv
  <2> QED BY <1>3, <2>2, <2>3, <2>4 DEF Reports
<1>4. CASE Install
  BY <1>1, <1>4 DEF Install, Ready, PlaceInv, jvars, run
<1>5. CASE Save
  BY <1>1, <1>5 DEF Save, J!SaveState, PlaceInv, run
<1>6. CASE Ends
  BY <1>1, <1>6 DEF Ends, J!Released, PlaceInv
<1>7. ASSUME NEW target \in orphans, OrphanEnds(target) PROVE PlaceInv'
  BY <1>1, <1>7 DEF OrphanEnds, PlaceInv, jvars, run
<1>8. CASE UNCHANGED vars
  BY <1>1, <1>8 DEF vars, PlaceInv, jvars, run
<1> QED BY <1>1, <1>2, <1>3, <1>4, <1>5, <1>6, <1>7, <1>8, StepKinds

LEMMA FoundStep ==
  ASSUME BaseInv, JournalInv, [Next]_vars
  PROVE  FoundInv'
<1>1. TypeOK /\ PlaceInv /\ FoundInv /\ before \subseteq machine
  BY DEF BaseInv, TypeOK
<1>2. ASSUME NEW state \in J!State, Begins(state) PROVE FoundInv'
  <2>1. \A d \in Handled : d < at' => Plan[d].kind = "install"
    BY <1>2, PlanFacts, NextPositionIs DEF Begins
  <2> QED BY <2>1 DEF FoundInv
<1>3. ASSUME NEW status \in J!Statuses, Reports(status) PROVE FoundInv'
  <2>1. at \in Handled /\ before' = before /\ detected \subseteq detected'
    BY <1>1, <1>3 DEF Reports, PlaceInv, run
  <2>2. CASE at' = at
    BY <1>1, <2>1, <2>2 DEF FoundInv
  <2>3. CASE GoOn /\ (Current.kind = "detect" /\ Current.target \in machine
                       => Current.target \in detected')
    <3>1. ASSUME NEW d \in Handled, Plan[d].kind = "detect", d < at', Plan[d].target \in before
          PROVE  Plan[d].target \in detected'
      <4>1. CASE d < at
        BY <1>1, <2>1, <3>1, <4>1 DEF FoundInv
      <4>2. CASE d = at
        BY <1>1, <2>3, <3>1, <4>2 DEF Current
      <4>3. CASE at < d
        BY <1>1, <2>1, <2>3, <3>1, <4>3, GoOnIs
      <4> QED BY <2>1, <4>1, <4>2, <4>3, PlanFacts
    <3> QED BY <2>1, <3>1 DEF FoundInv
  <2> QED BY <1>3, <2>2, <2>3 DEF Reports
<1>4. CASE Ends
  BY <1>4, PlanFacts DEF Ends, FoundInv
<1>5. CASE UNCHANGED <<at, before, detected>>
  BY <1>1, <1>5 DEF FoundInv
<1> QED BY <1>1, <1>2, <1>3, <1>4, <1>5, StepKinds DEF Install, Save, OrphanEnds, vars, run

LEMMA EventIs ==
  ASSUME TypeOK, at \in Handled, NEW status \in J!Statuses
  PROVE  /\ Event(status) \in J!Event
         /\ Event(status).seq = mem.last + 1 /\ mem.last \in Nat
         /\ Event(status).op = at /\ Event(status).status = status
         /\ \A k \in DOMAIN Append(lines, Event(status)) :
              \/ k \in DOMAIN lines /\ Append(lines, Event(status))[k] = lines[k]
              \/ Append(lines, Event(status))[k] = Event(status)
<1>1. mem.last \in Nat /\ lines \in Seq(J!Event)
  BY DEF TypeOK, J!TypeOK, J!State
<1>2. Event(status) \in J!Event
  BY <1>1, PlanFacts DEF Event, J!Event
<1>3. \A k \in DOMAIN Append(lines, Event(status)) :
        \/ k \in DOMAIN lines /\ Append(lines, Event(status))[k] = lines[k]
        \/ Append(lines, Event(status))[k] = Event(status)
  BY <1>1, <1>2
<1> QED BY <1>1, <1>2, <1>3 DEF Event

LEMMA EmptyStep ==
  ASSUME BaseInv, JournalInv, [Next]_vars
  PROVE  EmptyInv'
<1>1. TypeOK /\ PlaceInv /\ EmptyInv /\ lines \in Seq(J!Event)
  BY DEF BaseInv, TypeOK, J!TypeOK
<1>2. ASSUME NEW state \in J!State, Begins(state) PROVE EmptyInv'
  BY <1>1, <1>2 DEF Begins, EmptyInv
<1>3. ASSUME NEW status \in J!Statuses, at \in Handled, lines' = Append(lines, Event(status))
      PROVE  EmptyInv'
  <2>1. Event(status) \in J!Event
    BY <1>1, <1>3, EventIs
  <2>2. \A ev \in J!Event : Append(lines, ev) # <<>>
    <3> TAKE ev \in J!Event
    <3>1. Len(Append(lines, ev)) = Len(lines) + 1 /\ Len(lines) \in Nat
      BY <1>1
    <3>2. Len(<<>>) = 0
      OBVIOUS
    <3> QED BY <3>1, <3>2
  <2> QED BY <1>3, <2>1, <2>2 DEF EmptyInv
<1>4. CASE Save
  <2>1. lines # <<>>
    BY <1>4 DEF Save, J!SaveState, JournalInv, AP!OrderInv, AP!WriterInStep
  <2> QED BY <1>4, <2>1 DEF Save, J!SaveState, EmptyInv
<1>5. CASE UNCHANGED <<lines, snapshot>>
  BY <1>1, <1>5 DEF EmptyInv
<1> QED BY <1>1, <1>2, <1>3, <1>4, <1>5, StepKinds
     DEF PlaceInv, Reports, Emit, J!AppendEvent, Install, Ends, OrphanEnds, vars, jvars

LEMMA BaseInit == Init => BaseInv
<1> SUFFICES ASSUME Init PROVE BaseInv
  OBVIOUS
<1>1. J!TypeOK
  <2>1. AP!TypeOK /\ snapshot = NoState
    BY JournalInvInit DEF JournalInv, Init, J!Init
  <2> QED BY <2>1
       DEF J!TypeOK, AP!TypeOK, J!Event, AP!Event, J!State, AP!State, J!Statuses, AP!Statuses,
           J!NewState, AP!NewState
<1>2. at \in 0..(Len(Plan) + 1) /\ faults \in 0..MaxFaults /\ extras \in 0..MaxExtras
  BY PlanFacts, WindowsPlanAssumption DEF Init
<1>3. TypeOK
  BY <1>1, <1>2 DEF Init, TypeOK
<1>4. PlaceInv /\ FoundInv /\ EmptyInv
  BY PlanFacts DEF Init, J!Init, PlaceInv, FoundInv, EmptyInv
<1> QED BY <1>3, <1>4 DEF BaseInv

LEMMA BaseStep == BaseInv /\ JournalInv /\ [Next]_vars => BaseInv'
BY TypeStep, PlaceStep, FoundStep, EmptyStep DEF BaseInv

LEMMA BaseAlways == Spec => [](BaseInv /\ JournalInv)
BY BaseInit, BaseStep, JournalInvInit, JournalInvStep, PTL DEF Spec

\* The two programs together use the files as the one writer of Journal.tla does,
\* the state file that `cowebs-setup broker` does not save being read as new.
THEOREM WindowsImplementsJournal == Spec => ImplementsJournal
<1>1. Init => Abstract!Init
  BY DEF Init, J!Init, Saved, Abstract!Init, J!NewState, Abstract!NewState
<1>2. BaseInv /\ [Next]_vars => [Abstract!Next]_Abstract!jvars
  BY JournalStep
<1> QED BY <1>1, <1>2, BaseAlways, PTL DEF Spec, ImplementsJournal, Abstract!Spec

\* No installer runs for a package that was there when the command began, whatever
\* the journal lost: every run detects before it installs.
THEOREM OnlyMissingIsInstalled == Spec => []InstallsOnlyMissing
<1>1. ASSUME BaseInv, phase = "running", Current.kind = "install"
      PROVE  Current.target \notin before
  <2>1. at \in Handled /\ Current.target \notin detected
    BY <1>1 DEF BaseInv, PlaceInv
  <2>2. PICK d \in Handled : d < at /\ Plan[d].kind = "detect" /\ Plan[d].target = Plan[at].target
    BY <1>1, <2>1, PlanFacts DEF Current
  <2> QED BY <1>1, <2>1, <2>2 DEF BaseInv, FoundInv, Current
<1>2. BaseInv => InstallsOnlyMissing
  BY <1>1 DEF InstallsOnlyMissing
<1> QED BY <1>2, BaseAlways, PTL

-----------------------------------------------------------------------------
(* What the journal says is so.                                            *)

LEMMA MachineGrows ==
  ASSUME TypeOK, PlaceInv, [Next]_vars
  PROVE  machine \subseteq machine'
BY StepKinds DEF Begins, Reports, Install, Save, Ends, OrphanEnds, vars

LEMMA TruthStep == BaseInv /\ JournalIsTrue /\ [Next]_vars => JournalIsTrue'
<1> SUFFICES ASSUME BaseInv, JournalIsTrue, [Next]_vars PROVE JournalIsTrue'
  OBVIOUS
<1>1. TypeOK /\ PlaceInv /\ machine \subseteq machine'
  BY MachineGrows DEF BaseInv
<1>2. CASE lines' = lines
  BY <1>1, <1>2 DEF JournalIsTrue
<1>3. ASSUME NEW status \in J!Statuses, at \in Handled, lines' = Append(lines, Event(status)),
             status \in {"succeeded", "skipped"} => Current.target \in machine
      PROVE  JournalIsTrue'
  <2>1. /\ Event(status).op = at /\ Event(status).status = status
        /\ \A k \in DOMAIN lines' :
             (k \in DOMAIN lines /\ lines'[k] = lines[k]) \/ lines'[k] = Event(status)
    BY <1>1, <1>3, EventIs
  <2> QED BY <1>1, <1>3, <2>1 DEF JournalIsTrue, Current
<1>4. ASSUME NEW status \in J!Statuses, Reports(status) PROVE JournalIsTrue'
  <2>1. /\ at \in Handled /\ lines' = Append(lines, Event(status))
        /\ status \in {"succeeded", "skipped"} => Current.target \in machine
    BY <1>1, <1>4 DEF Reports, Emit, J!AppendEvent, PlaceInv
  <2> QED BY <1>3, <2>1
<1>5. CASE Ends
  BY <1>2, <1>3, <1>5 DEF Ends
<1> QED BY <1>1, <1>2, <1>4, <1>5, StepKinds
     DEF Begins, Install, Save, J!SaveState, OrphanEnds, vars, jvars

\* What the journal calls succeeded or skipped is on the machine, whatever runs of
\* either program, dry or real, and whatever crashes wrote it.
THEOREM WindowsJournalIsTrue == Spec => []JournalIsTrue
<1>1. Init => JournalIsTrue
  BY DEF Init, J!Init, JournalIsTrue
<1> QED BY <1>1, TruthStep, BaseAlways, PTL DEF Spec

-----------------------------------------------------------------------------
(* What a run that has ended well leaves.                                  *)

\* An event changes the lists of its own operation only, keeps a terminal one
\* terminal unless it is a failure, and makes one that ended well terminal.
LEMMA AppliedIs ==
  ASSUME NEW state \in J!State, NEW ev \in J!Event
  PROVE  LET new == J!ApplyEvent(state, ev)
         IN  /\ \A i \in Ops : i # ev.op \/ ev.status # "failed" =>
                  (i \in Terminal(state) => i \in Terminal(new))
             /\ ev.status \in {"succeeded", "skipped"} => ev.op \in Terminal(new)
<1>1. /\ ev.op \in Ops /\ ev.status \in J!Statuses
      /\ state.completed \subseteq Ops /\ state.skipped \subseteq Ops
  BY DEF J!Event, J!State
<1> QED BY <1>1
     DEF J!ApplyEvent, J!Listed, J!FinalStatuses, J!Statuses, Terminal, J!TerminalOperations

LEMMA DoneStep == BaseInv /\ JournalInv /\ DoneInv /\ [Next]_vars => DoneInv'
<1> SUFFICES ASSUME BaseInv, JournalInv, DoneInv, [Next]_vars PROVE DoneInv'
  OBVIOUS
<1>1. TypeOK /\ PlaceInv /\ PlaceInv'
  BY PlaceStep DEF BaseInv
<1>2. mem \in J!State /\ (opened => outcome # "ok")
  BY <1>1 DEF TypeOK, J!TypeOK, PlaceInv
<1>3. ASSUME NEW state \in J!State, Begins(state) PROVE DoneInv'
  <2>1. \A i \in Handled : i < at' => Plan[i].kind = "install" /\ i \in skipped'
    BY <1>3, PlanFacts, NextPositionIs DEF Begins
  <2> QED BY <1>3, <2>1 DEF Begins, DoneInv, Complete, Terminal
<1>4. ASSUME NEW status \in J!Statuses, Reports(status) PROVE DoneInv'
  <2>1. /\ at \in Handled /\ opened /\ opened' /\ outcome' = outcome /\ dry' = dry /\ skipped' = skipped
        /\ mem' = J!ApplyEvent(mem, Event(status)) /\ Event(status) \in J!Event
        /\ Event(status).op = at /\ Event(status).status = status
    BY <1>1, <1>4, EventIs DEF Reports, Emit, J!AppendEvent, PlaceInv, run
  <2>2. /\ \A i \in Ops : i # at \/ status # "failed" =>
             (i \in Terminal(mem) => i \in Terminal(mem'))
        /\ status \in {"succeeded", "skipped"} => at \in Terminal(mem')
    BY <1>2, <2>1, AppliedIs, PlanFacts
  <2>3. ASSUME NEW i \in Handled, Plan[i].kind = "install", i \in skipped
        PROVE  i \in Terminal(mem')
    <3>1. i # at
      BY <1>1, <1>4, <2>3 DEF Reports, PlaceInv, Current
    <3> QED BY <2>1, <2>2, <2>3, <3>1, PlanFacts DEF DoneInv
  <2>4. ASSUME NEW i \in Handled, Plan[i].kind = "install", i < at', ~dry
        PROVE  i \in Terminal(mem')
    <3>1. CASE i < at
      <4>1. i \in Terminal(mem) /\ i # at /\ i \in Ops
        BY <2>1, <2>4, <3>1, PlanFacts DEF DoneInv
      <4> QED BY <2>2, <4>1
    <3>2. CASE i = at /\ at' # at
      BY <1>4, <2>2, <2>4, <3>2 DEF Reports, Current
    <3>3. CASE at < i /\ at' # at
      <4>1. i \in skipped
        BY <1>1, <1>4, <2>1, <2>4, <3>3, GoOnIs DEF Reports
      <4> QED BY <2>3, <2>4, <4>1
    <3>4. i < at \/ at' # at
      BY <2>4
    <3> QED BY <2>1, <3>1, <3>2, <3>3, <3>4, PlanFacts
  <2> QED BY <1>2, <2>1, <2>3, <2>4 DEF DoneInv, Complete, Terminal
<1>5. CASE Install
  BY <1>5 DEF Install, DoneInv, Complete, Terminal, jvars, run
<1>6. CASE Save
  BY <1>2, <1>6 DEF Save, J!SaveState, DoneInv, Complete, Terminal, run
<1>7. CASE Ends
  <2>1. ~opened' /\ dry' = dry /\ snapshot' = snapshot /\ opened
    BY <1>7 DEF Ends, J!Released, run
  <2>2. ASSUME Complete', NEW i \in Handled, Plan[i].kind = "install"
        PROVE  snapshot # NoState /\ i \in Terminal(snapshot)
    <3>1. phase = "done" /\ ~dirty /\ ~dry
      BY <1>7, <2>1, <2>2 DEF Ends, Complete
    <3>2. i < at
      BY <1>1, <3>1, PlanFacts DEF PlaceInv
    <3>3. i \in Terminal(mem)
      BY <2>1, <2>2, <3>1, <3>2 DEF DoneInv
    <3>4. mem = Saved
      BY <2>1, <3>1 DEF JournalInv, AP!OrderInv, AP!WriterInStep
    <3>5. i \notin Terminal(J!NewState)
      BY DEF Terminal, J!TerminalOperations, J!NewState
    <3>6. outcome # "none"
      BY <1>1, <2>1 DEF PlaceInv
    <3>7. snapshot # NoState
      BY <3>3, <3>4, <3>5, <3>6 DEF Saved
    <3> QED BY <3>3, <3>4, <3>7 DEF Saved
  <2> QED BY <2>1, <2>2 DEF DoneInv, Terminal
<1>8. ASSUME NEW target \in orphans, OrphanEnds(target) PROVE DoneInv'
  BY <1>8 DEF OrphanEnds, DoneInv, Complete, Terminal, jvars, run
<1>9. CASE UNCHANGED vars
  BY <1>9 DEF vars, DoneInv, Complete, Terminal, jvars, run
<1> QED BY <1>1, <1>3, <1>4, <1>5, <1>6, <1>7, <1>8, <1>9, StepKinds

\* The whole invariant of a Windows installation.
LEMMA WindowsAlways == Spec => []WindowsInv
<1>1. Init => WindowsInv
  BY BaseInit, JournalInvInit
     DEF Init, J!Init, JournalIsTrue, DoneInv, Complete, WindowsInv
<1>2. WindowsInv /\ [Next]_vars => WindowsInv'
  BY BaseStep, JournalInvStep, TruthStep, DoneStep DEF WindowsInv
<1> QED BY <1>1, <1>2, PTL DEF Spec

\* A real run that reports success leaves every package on the machine and every
\* installation recorded as dealt with.
THEOREM WindowsSuccessIsComplete == Spec => []SuccessIsComplete
<1>1. ASSUME WindowsInv, Complete, NEW i \in Handled, Plan[i].kind = "install"
      PROVE  i \in J!TerminalOperations(snapshot) /\ Plan[i].target \in machine
  <2>1. TypeOK /\ JournalInv /\ JournalIsTrue /\ snapshot # NoState /\ i \in Terminal(snapshot)
    BY <1>1 DEF WindowsInv, BaseInv, DoneInv
  <2>2. AP!Recorded(lines, snapshot)
    BY <2>1 DEF JournalInv, AP!RecordInv, AP!SnapshotRecorded, Saved
  <2>3. i \in snapshot.completed \/ i \in snapshot.skipped
    BY <2>1 DEF Terminal, J!TerminalOperations
  <2>4. PICK k \in DOMAIN lines : lines[k].op = i /\ lines[k].status \in {"succeeded", "skipped"}
    BY <1>1, <2>2, <2>3, PlanFacts DEF AP!Recorded, AP!Verdict
  <2> QED BY <2>1, <2>4 DEF JournalIsTrue, Terminal
<1>2. WindowsInv => SuccessIsComplete
  BY <1>1 DEF SuccessIsComplete
<1> QED BY <1>2, WindowsAlways, PTL
=============================================================================
