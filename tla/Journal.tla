------------------------------- MODULE Journal -------------------------------
(***************************************************************************)
(* The execution journal of internal/journal/journal.go together with the  *)
(* one writer the controller gives it.  Two files are kept on disk:        *)
(*   - the journal, a JSONL file of execution events, only ever appended   *)
(*     to and flushed before AppendEvent returns;                          *)
(*   - the state file, a snapshot replaced by rename after every event.    *)
(* The writer holds a State in memory and does AppendEvent, ApplyEvent,    *)
(* SaveState for every event (cmd/cowebs/main.go:357-363 and               *)
(* internal/application/service.go:107-113); after any error, and after a  *)
(* crash, the process is gone and only the two files remain.               *)
(*                                                                         *)
(* What the model leaves out: timestamps, messages, the session ID (fixed  *)
(* by the plan), and the .tmp file of SaveState (never read).  A writer's  *)
(* events are numbered consecutively from its State's LastSequence         *)
(* (broker.go:358-361 from StartSequence), so Next appends NextEvent only; *)
(* the acceptance test of AppendEvent is nevertheless modelled for any     *)
(* sequence number.                                                        *)
(***************************************************************************)
EXTENDS Naturals, Sequences

CONSTANTS
  Ops,      \* the operation IDs of the plan
  NoState   \* stands for "the state file does not exist"

\* The statuses the brokers emit, and those ApplyEvent has a case for.
Statuses == {"planned", "started", "succeeded", "skipped", "failed"}
FinalStatuses == {"succeeded", "skipped", "failed"}

Event == [seq: Nat \ {0}, op: Ops, status: Statuses]

State == [last: Nat,
          completed: SUBSET Ops, skipped: SUBSET Ops, failed: SUBSET Ops,
          status: [Ops -> Statuses \cup {"none"}]]

ASSUME NoStateAssumption == NoState \notin State

VARIABLES
  lines,     \* the complete lines of the journal file
  torn,      \* the journal ends in a line that does not decode
  snapshot,  \* the contents of the state file
  opened,    \* some process holds this journal
  sequence,  \* Journal.sequence: 0 until the first AppendEvent looked
  mem,       \* the State the process holds in memory
  dirty      \* an event has been appended and not yet saved

jvars == <<lines, torn, snapshot, opened, sequence, mem, dirty>>
disk == <<lines, torn, snapshot>>

-----------------------------------------------------------------------------
\* NewState, less the plan's identity.
NewState ==
  [last |-> 0, completed |-> {}, skipped |-> {}, failed |-> {},
   status |-> [op \in Ops |-> "none"]]

\* Variant of Listed: the operation stays in the list of its earlier status.
ListedTwice(list, name, ev) ==
  IF ev.status = name THEN list \cup {ev.op} ELSE list

\* One of a state's lists after an event: the operation enters the list named
\* after its final status and leaves the two others; other statuses move nothing.
Listed(list, name, ev) ==
  IF ev.status \notin FinalStatuses THEN list
  ELSE IF ev.status = name THEN list \cup {ev.op} ELSE list \ {ev.op}

ApplyEvent(state, ev) ==
  [last |-> IF ev.seq > state.last THEN ev.seq ELSE state.last,
   completed |-> Listed(state.completed, "succeeded", ev),
   skipped |-> Listed(state.skipped, "skipped", ev),
   failed |-> Listed(state.failed, "failed", ev),
   status |-> [state.status EXCEPT ![ev.op] = ev.status]]

\* Variant of TerminalOperations: a failed operation counts as dealt with.
TerminalWithFailed(state) == state.completed \cup state.skipped \cup state.failed

\* application.TerminalOperations: what a resumed run must not do again.
TerminalOperations(state) == state.completed \cup state.skipped

\* ValidateForPlan, for a state of this plan: an operation has one end.
ValidateForPlan(state) ==
  /\ state.completed \cap state.skipped = {}
  /\ state.completed \cap state.failed = {}
  /\ state.skipped \cap state.failed = {}

\* Variant of Refuses: the existing journal is not inspected.
RefusesUninspected(seq) == seq <= sequence

\* AppendEvent refuses a sequence number that is not beyond those it knows.
\* The first call of a process inspects the file, later ones use the field.
Refuses(seq) ==
  IF sequence = 0
  THEN torn \/ \E i \in DOMAIN lines : lines[i].seq >= seq
  ELSE seq <= sequence

\* The process is gone: it crashed, was killed, returned an error or ended.
Released ==
  /\ opened' = FALSE
  /\ sequence' = 0
  /\ mem' = NewState
  /\ dirty' = FALSE

-----------------------------------------------------------------------------
Init ==
  /\ lines = <<>>
  /\ torn = FALSE
  /\ snapshot = NoState
  /\ opened = FALSE
  /\ sequence = 0
  /\ mem = NewState
  /\ dirty = FALSE

\* Variant of OpenNew: an existing journal does not stop an installation.
OpenNewAnyway ==
  /\ ~opened
  /\ opened' = TRUE
  /\ sequence' = 0
  /\ mem' = NewState
  /\ snapshot' = NewState
  /\ UNCHANGED <<lines, torn, dirty>>

\* `install`: refused when the journal has any content; saves a new state.
OpenNew ==
  /\ ~opened
  /\ lines = <<>> /\ ~torn
  /\ opened' = TRUE
  /\ sequence' = 0
  /\ mem' = NewState
  /\ snapshot' = NewState
  /\ UNCHANGED <<lines, torn, dirty>>

OpenResumeUnfailed ==
  /\ ~opened
  /\ snapshot # NoState /\ snapshot.failed = {}
  /\ opened' = TRUE
  /\ sequence' = 0
  /\ mem' = snapshot
  /\ UNCHANGED <<lines, torn, snapshot, dirty>>

\* `resume`: LoadState and ValidateForPlan.  Without a state file LoadState
\* rebuilds one from the journal, but with no plan ID, and ValidateForPlan
\* rejects that, so a resume goes on from the state file or not at all.
OpenResume ==
  /\ ~opened
  /\ snapshot # NoState /\ ValidateForPlan(snapshot)
  /\ opened' = TRUE
  /\ sequence' = 0
  /\ mem' = snapshot
  /\ UNCHANGED <<lines, torn, snapshot, dirty>>

\* AppendEvent and then ApplyEvent on the State in memory.
AppendEvent(ev) ==
  /\ opened /\ ~dirty
  /\ ~Refuses(ev.seq)
  /\ lines' = Append(lines, ev)
  /\ sequence' = ev.seq
  /\ mem' = ApplyEvent(mem, ev)
  /\ dirty' = TRUE
  /\ UNCHANGED <<torn, snapshot, opened>>

\* AppendEvent refuses the event: the caller returns the error.
RefuseEvent(ev) ==
  /\ opened /\ ~dirty
  /\ Refuses(ev.seq)
  /\ Released
  /\ UNCHANGED disk

\* AppendEvent fails, or the process is killed inside it: nothing reached the
\* file, part of a line did, or the whole line did and the flush failed.
AppendFails(ev) ==
  /\ opened /\ ~dirty
  /\ ~Refuses(ev.seq)
  /\ \/ UNCHANGED <<lines, torn>>
     \/ torn' = TRUE /\ UNCHANGED lines
     \/ lines' = Append(lines, ev) /\ UNCHANGED torn
  /\ Released
  /\ UNCHANGED snapshot

\* Variant of SaveState: only final statuses are thought worth a save.
SaveFinalState ==
  /\ opened /\ dirty
  /\ snapshot' = IF lines[Len(lines)].status \in FinalStatuses THEN mem ELSE snapshot
  /\ dirty' = FALSE
  /\ UNCHANGED <<lines, torn, opened, sequence, mem>>

\* SaveState commits the snapshot by rename ...
SaveState ==
  /\ opened /\ dirty
  /\ snapshot' = mem
  /\ dirty' = FALSE
  /\ UNCHANGED <<lines, torn, opened, sequence, mem>>

\* ... or fails and leaves the old one; the caller returns the error.
SaveFails ==
  /\ opened /\ dirty
  /\ Released
  /\ UNCHANGED disk

\* The process ends, orderly or not, between two of the calls above.
Close ==
  /\ opened
  /\ Released
  /\ UNCHANGED disk

NextEvent == [seq: {mem.last + 1}, op: Ops, status: Statuses]

Next ==
  \/ OpenNew
  \/ OpenResume
  \/ \E ev \in NextEvent : AppendEvent(ev) \/ RefuseEvent(ev) \/ AppendFails(ev)
  \/ SaveState
  \/ SaveFails
  \/ Close

Spec == Init /\ [][Next]_jvars

-----------------------------------------------------------------------------
\* Every variable holds a value of its kind; a released journal holds nothing.
TypeOK ==
  /\ lines \in Seq(Event)
  /\ torn \in BOOLEAN
  /\ snapshot \in State \cup {NoState}
  /\ opened \in BOOLEAN
  /\ sequence \in Nat
  /\ mem \in State
  /\ dirty \in BOOLEAN
  /\ ~opened => sequence = 0 /\ mem = NewState /\ ~dirty

\* The journal on disk is strictly increasing in sequence numbers, whatever
\* crashes, failed writes and resumed processes produced it (journal.go:75-77,
\* and the check of scripts/validate-linux-disposable.sh:92-95).
SequencesIncrease ==
  \A i, j \in DOMAIN lines : i < j => lines[i].seq < lines[j].seq

\* The state file never runs ahead of the journal, and lags it by at most the
\* one event whose save was cut off (AppendEvent before SaveState).
SnapshotLagsByOne ==
  /\ snapshot = NoState => lines = <<>> /\ ~torn
  /\ snapshot # NoState =>
       /\ snapshot.last > 0 => \E i \in DOMAIN lines : lines[i].seq = snapshot.last
       /\ \A i \in DOMAIN lines : i < Len(lines) => lines[i].seq <= snapshot.last

\* Among the events up to sequence number s, operation op got the final status
\* st and none after it.
Verdict(events, op, st, s) ==
  \E i \in DOMAIN events :
    /\ events[i].seq <= s /\ events[i].op = op /\ events[i].status = st
    /\ \A j \in DOMAIN events :
         j > i /\ events[j].seq <= s /\ events[j].op = op
           => events[j].status \notin FinalStatuses

\* A state's three lists say exactly what the events up to its last one say.
Recorded(events, state) ==
  \A op \in Ops :
    /\ op \in state.completed <=> Verdict(events, op, "succeeded", state.last)
    /\ op \in state.skipped <=> Verdict(events, op, "skipped", state.last)
    /\ op \in state.failed <=> Verdict(events, op, "failed", state.last)

\* An operation is completed, skipped or failed in the state file if and only
\* if that is its last final status in the journal up to the snapshot: the
\* lists ApplyEvent edits in place (journal.go:184-197) never drift from the
\* journal over any sequence of runs, crashes and resumes.
SnapshotRecorded == snapshot # NoState => Recorded(lines, snapshot)

\* Whatever the history, the state file on disk is one ValidateForPlan takes:
\* a resume is never turned away because ApplyEvent left an operation with two
\* ends (journal.go:220-231).
SnapshotValidates == snapshot # NoState => ValidateForPlan(snapshot)

\* An event is in the journal that the state file does not know of.
Behind == snapshot # NoState /\ \E i \in DOMAIN lines : lines[i].seq > snapshot.last

\* A journal that was interrupted between an append and its save, or inside an
\* append, is never written again, by any command: the event numbers are not
\* issued twice and nothing is appended after a line that does not decode
\* (journal.go:57-67 and 75-77).  It is also never gone on with.
InterruptedIsFrozen ==
  [][~dirty /\ (torn \/ Behind) => UNCHANGED disk]_jvars
=============================================================================
