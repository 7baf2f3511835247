---------------------------- MODULE WindowsSession ----------------------------
(***************************************************************************)
(* A Windows plan as the Go program executes it: executeWindows of         *)
(* internal/broker/broker.go under the four commands that reach it,        *)
(* `cowebs-setup broker` and `cowebs-setup resume` (real or dry) and       *)
(* `cowebs install` and `cowebs resume --dry-run` (main.go:251-256; a real *)
(* run is refused there).  There is one process: the event sink appends,   *)
(* applies and saves before the executor goes on.                          *)
(*                                                                         *)
(* Three things differ from Linux.  A detection is repeated by every run   *)
(* and only installations are skipped when they have ended; the terminal   *)
(* operations `cowebs` hands over are those executeWindows does not look   *)
(* at; and `cowebs-setup broker` saves no state before the first event.    *)
(* The plan's user operations, configurations among them, and its other    *)
(* kinds of operation are passed over: Handled are the rest.               *)
(***************************************************************************)
EXTENDS PlanContract, FiniteSetsExt

CONSTANTS
  Plan,         \* the operations of the canonical plan, in execution order
  NoState,      \* the state file does not exist
  MaxFaults,    \* failures and crashes
  MaxExtras     \* commands an installation does not need: previews, repetitions

Ops == DOMAIN Plan
Handled == {i \in Ops : HandledOnWindows(Plan[i])}
Targets == {Plan[i].target : i \in Handled}

ASSUME WindowsPlanAssumption ==
  /\ WindowsPlan(Plan)  \* of every plan Build makes: PlansSuitExecutors of Planning
  /\ MaxFaults \in Nat /\ MaxExtras \in Nat

VARIABLES
  lines, torn, snapshot, opened, sequence, mem, dirty,  \* see Journal
  dry,        \* the --dry-run flag
  at, phase,  \* the executor's operation and what it does about it
  skipped,    \* the installations it passes over: TerminalInstall
  detected,   \* the packages it found
  machine,    \* the packages present
  before,     \* those present when the command began
  orphans,    \* packages whose installer outlived its broker
  outcome, faults, extras

jvars == <<lines, torn, snapshot, opened, sequence, mem, dirty>>
run == <<dry, skipped, before>>
vars == <<jvars, run, at, phase, detected, machine, orphans, outcome, faults, extras>>

J == INSTANCE Journal

ASSUME NoStateAssumption == NoState \notin J!State

\* What Journal.tla calls the state file: once a command has been given, one that
\* is missing stands for the state that has seen no event.
Saved == IF snapshot = NoState /\ outcome # "none" THEN J!NewState ELSE snapshot

Abstract == INSTANCE Journal WITH snapshot <- Saved

-----------------------------------------------------------------------------
\* Variant of NextPosition: detections that have ended are skipped as well.
NextPositionLinux(i, terminal) ==
  LET todo == {j \in Handled : j > i /\ j \notin terminal}
  IN  IF todo = {} THEN Len(Plan) + 1 ELSE Min(todo)

\* The loop: the next operation it handles, installations to pass over apart.
NextPosition(i, terminal) ==
  LET todo == {j \in Handled : j > i /\ ~(Plan[j].kind = "install" /\ j \in terminal)}
  IN  IF todo = {} THEN Len(Plan) + 1 ELSE Min(todo)

Current == Plan[at]

Init ==
  /\ J!Init
  /\ dry = FALSE /\ at = 0 /\ phase = "off" /\ skipped = {} /\ detected = {}
  /\ machine \in SUBSET Targets /\ before = machine
  /\ orphans = {} /\ outcome = "none" /\ faults = 0 /\ extras = 0

Complete == outcome = "ok" /\ ~dry

\* broker.Execute, with the TerminalInstall it is given.
Execute(terminal, isDry) ==
  /\ phase = "off"
  /\ IF isDry \/ Complete THEN extras < MaxExtras /\ extras' = extras + 1
                          ELSE UNCHANGED extras
  /\ dry' = isDry /\ skipped' = terminal /\ detected' = {} /\ before' = machine
  /\ at' = NextPosition(0, terminal)
  /\ phase' = IF at' \in Ops THEN "next" ELSE "done"
  /\ outcome' = "running"
  /\ UNCHANGED <<machine, orphans, faults>>

\* Variant of SetupBroker: the journal is not looked at.
SetupBrokerAnyway(isDry) ==
  /\ ~opened /\ opened' = TRUE /\ sequence' = 0 /\ mem' = J!NewState
  /\ UNCHANGED <<lines, torn, snapshot, dirty>>
  /\ Execute({}, isDry)

\* cowebs-setup broker: an empty journal, a new state, not saved.
SetupBroker(isDry) ==
  /\ ~opened /\ lines = <<>> /\ ~torn
  /\ opened' = TRUE /\ sequence' = 0 /\ mem' = J!NewState
  /\ UNCHANGED <<lines, torn, snapshot, dirty>>
  /\ Execute({}, isDry)

\* Variant of SetupResume: a failed installation counts as dealt with.
SetupResumeFailed(isDry) ==
  /\ J!OpenResume
  /\ Execute(J!TerminalOperations(snapshot) \cup snapshot.failed, isDry)

\* cowebs-setup resume.
SetupResume(isDry) == J!OpenResume /\ Execute(J!TerminalOperations(snapshot), isDry)

\* cowebs install and resume, dry only: TerminalOperations is filled, which
\* executeWindows does not read, and TerminalInstall is left empty.
PreviewInstall == J!OpenNew /\ Execute({}, TRUE)
PreviewResume == J!OpenResume /\ Execute({}, TRUE)

Command ==
  \/ \E isDry \in BOOLEAN : SetupBroker(isDry) \/ SetupResume(isDry)
  \/ PreviewInstall \/ PreviewResume

-----------------------------------------------------------------------------
(* executeWindows.  Emitting is appending and applying; Save follows.      *)

Ready(p) == opened /\ ~dirty /\ phase = p
Event(status) == [seq |-> mem.last + 1, op |-> at, status |-> status]
Emit(status) == J!AppendEvent(Event(status))

GoOn ==
  /\ at' = NextPosition(at, skipped)
  /\ phase' = IF at' \in Ops THEN "next" ELSE "done"

\* An install whose package this run has found.
Skip ==
  /\ Ready("next") /\ Current.kind = "install" /\ Current.target \in detected
  /\ Emit("skipped") /\ GoOn
  /\ UNCHANGED <<run, detected, machine, orphans, outcome, faults, extras>>

Start ==
  /\ Ready("next") /\ ~(Current.kind = "install" /\ Current.target \in detected)
  /\ Emit("started") /\ phase' = "running"
  /\ UNCHANGED <<run, at, detected, machine, orphans, outcome, faults, extras>>

\* winget list, in a dry run as well.
Detect ==
  /\ Ready("running") /\ Current.kind = "detect"
  /\ IF Current.target \in machine
     THEN detected' = detected \cup {Current.target} /\ Emit("succeeded")
     ELSE UNCHANGED detected /\ Emit("planned")
  /\ GoOn
  /\ UNCHANGED <<run, machine, orphans, outcome, faults, extras>>

\* winget install ends well, or was only planned.
Install ==
  /\ Ready("running") /\ Current.kind = "install"
  /\ phase' = "installed"
  /\ machine' = IF dry THEN machine ELSE machine \cup {Current.target}
  /\ UNCHANGED <<jvars, run, at, detected, orphans, outcome, faults, extras>>

\* Variant of Report: a dry run reports success.
ReportSuccess ==
  /\ Ready("installed") /\ Emit("succeeded") /\ GoOn
  /\ UNCHANGED <<run, detected, machine, orphans, outcome, faults, extras>>

Report ==
  /\ Ready("installed") /\ Emit(IF dry THEN "planned" ELSE "succeeded") /\ GoOn
  /\ UNCHANGED <<run, detected, machine, orphans, outcome, faults, extras>>

\* winget cannot be started, or its installation ends with another code than 0,
\* having installed or not.
Fail ==
  /\ Ready("running") /\ (Current.kind = "install" => ~dry)
  /\ faults < MaxFaults /\ faults' = faults + 1
  /\ Emit("failed") /\ phase' = "failed"
  /\ \/ UNCHANGED machine
     \/ Current.kind = "install" /\ machine' = machine \cup {Current.target}
  /\ UNCHANGED <<run, at, detected, orphans, outcome, extras>>

Save ==
  /\ J!SaveState
  /\ UNCHANGED <<run, at, phase, detected, machine, orphans, outcome, faults, extras>>

Exit(result) == phase' = "off" /\ at' = 0 /\ outcome' = result

Return ==
  /\ Ready("done") \/ Ready("failed")
  /\ J!Close /\ Exit(IF phase = "done" THEN "ok" ELSE "failed")
  /\ UNCHANGED <<run, detected, machine, orphans, faults, extras>>

Orphaned ==
  orphans' = IF phase = "running" /\ Current.kind = "install" /\ ~dry
             THEN orphans \cup {Current.target} ELSE orphans

\* What the executor reports from where it stands, "failed" apart.
Sent ==
  CASE phase = "next" -> IF Current.kind = "install" /\ Current.target \in detected
                         THEN {"skipped"} ELSE {"started"}
    [] phase = "running" -> IF Current.kind = "install" THEN {}
                            ELSE {IF Current.target \in machine THEN "succeeded" ELSE "planned"}
    [] phase = "installed" -> {IF dry THEN "planned" ELSE "succeeded"}
    [] OTHER -> {}

\* The sink returns an error: the append was refused or failed, or the save.
\* (When the report of a failure is what fails, the operation's error is returned.)
SinkFails ==
  /\ Exit("failed")
  /\ \/ \E status \in Sent : J!RefuseEvent(Event(status)) /\ UNCHANGED faults
     \/ /\ faults < MaxFaults /\ faults' = faults + 1
        /\ \/ J!SaveFails
           \/ \E status \in Sent : J!AppendFails(Event(status))
  /\ UNCHANGED <<run, detected, machine, orphans, extras>>

\* The same, the report being that the operation failed.
FailUnrecorded ==
  /\ phase = "running" /\ (Current.kind = "install" => ~dry)
  /\ faults < MaxFaults /\ faults' = faults + 1
  /\ J!AppendFails(Event("failed")) /\ Exit("failed")
  /\ \/ UNCHANGED machine
     \/ Current.kind = "install" /\ machine' = machine \cup {Current.target}
  /\ UNCHANGED <<run, detected, orphans, extras>>

Executor ==
  \/ Skip \/ Start \/ Detect \/ Install \/ Report \/ Fail
  \/ Save \/ Return \/ SinkFails \/ FailUnrecorded

Crash ==
  /\ opened /\ faults < MaxFaults /\ faults' = faults + 1
  /\ J!Close /\ Exit("failed") /\ Orphaned
  /\ UNCHANGED <<run, detected, machine, extras>>

OrphanEnds(target) ==
  /\ orphans' = orphans \ {target} /\ machine' = machine \cup {target}
  /\ UNCHANGED <<jvars, run, at, phase, detected, outcome, faults, extras>>

Next == Command \/ Executor \/ Crash \/ \E target \in orphans : OrphanEnds(target)

Spec == Init /\ [][Next]_vars

\* The program and winget run; the user goes on with real runs until one is through.
Retry == ~Complete /\ (SetupBroker(FALSE) \/ SetupResume(FALSE))
FairSpec == Spec /\ WF_vars(Executor) /\ WF_vars(Retry)

-----------------------------------------------------------------------------
\* Every variable holds a value of its kind.
TypeOK ==
  /\ J!TypeOK
  /\ dry \in BOOLEAN /\ at \in 0..(Len(Plan) + 1)
  /\ phase \in {"off", "next", "running", "installed", "failed", "done"}
  /\ skipped \subseteq Ops /\ detected \subseteq machine
  /\ machine \subseteq Targets /\ before \subseteq machine /\ orphans \subseteq Targets
  /\ outcome \in {"none", "running", "ok", "failed"}
  /\ faults \in 0..MaxFaults /\ extras \in 0..MaxExtras

\* The files are used as Journal.tla says by the two programs together, the state
\* file that `cowebs-setup broker` does not write being read as the new state: no
\* number twice, nothing appended to a journal that was cut off.
ImplementsJournal == Abstract!Spec

\* No installer is run for a package that was there when the command began,
\* however often it was interrupted before and whatever the journal holds: a
\* resumed run detects again, so work whose record was lost is not repeated.
InstallsOnlyMissing ==
  phase = "running" /\ Current.kind = "install" /\ ~dry => Current.target \notin before

\* What the journal calls succeeded or skipped is on the machine, through dry
\* runs, crashes and both programs.
JournalIsTrue ==
  \A k \in DOMAIN lines :
    lines[k].status \in {"succeeded", "skipped"} => Plan[lines[k].op].target \in machine

\* A real run that reports success has every package of the machine's there, and
\* the state file says of every installation that it is done.
SuccessIsComplete ==
  Complete =>
    \A i \in Handled : Plan[i].kind = "install" =>
      i \in J!TerminalOperations(snapshot) /\ Plan[i].target \in machine

\* A user who goes on with real runs gets there, unless a save was cut off, the
\* first one included (docs/API.md:128: a resume rejects a missing state).
InstallationCompletes ==
  <>(Complete \/ (~opened /\ (torn \/ Abstract!Behind)))
=============================================================================
