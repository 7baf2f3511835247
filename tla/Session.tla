------------------------------- MODULE Session -------------------------------
(***************************************************************************)
(* A Linux installation as `cowebs install dev-setup` and `cowebs resume`  *)
(* drive it (cmd/cowebs/main.go): the controller opens the journal, runs   *)
(* the elevated partition of the plan in one privileged child and persists *)
(* the events the child writes to a pipe, then runs the user partition     *)
(* itself, persisting each event before the next step.  A dry run executes *)
(* both partitions inside the controller.  The partition executor is       *)
(* executeLinux of internal/broker/broker.go.                              *)
(*                                                                         *)
(* Two processes interleave, the controller and its child, and the         *)
(* environment may crash the controller (SIGKILL, power, or Ctrl+C outside *)
(* the elevated partition, where nothing handles it), end the child        *)
(* (refused sudo, the forwarded Ctrl+C, a kill), make an operation fail,   *)
(* and make a journal write fail.  MaxFaults bounds how often, Faults says *)
(* which of them a run considers.  A package manager that outlives the     *)
(* broker that started it is an orphan: its effect may still land.  The    *)
(* child is sudo and runs as root: whether the controller's signal reaches *)
(* it is not the program's to decide, so nothing makes a kill succeed.     *)
(***************************************************************************)
EXTENDS PlanContract, FiniteSetsExt

CONSTANTS
  Plan,        \* the operations of the canonical plan, in execution order
  Manual,      \* the configure operations the handler leaves to the user
  NoState,     \* the state file does not exist
  Faults,      \* the faults the environment injects
  MaxFaults,   \* how many of them
  Modes,       \* the flags of the commands, [dry, noConfig: BOOLEAN]
  PipeCapacity,  \* how many events the child's pipe holds
  MaxExtras    \* commands an installation does not need: previews, repetitions

Ops == DOMAIN Plan
Targets == {Plan[i].target : i \in Ops}
FaultKinds == {"crash", "crash_unsaved", "child", "operation", "append", "save"}
Real == [dry |-> FALSE, noConfig |-> FALSE]

ASSUME PlanAssumption ==
  /\ LinuxPlan(Plan)  \* of every plan Build makes: PlansSuitExecutors of Planning
  /\ Manual \subseteq {i \in DOMAIN Plan : Plan[i].kind = "configure"}
  /\ Faults \subseteq FaultKinds
  /\ MaxFaults \in Nat
  /\ Modes \subseteq [dry: BOOLEAN, noConfig: BOOLEAN]
  /\ PipeCapacity \in Nat \ {0}
  /\ MaxExtras \in Nat

VARIABLES
  lines, torn, snapshot, opened, sequence, mem, dirty,  \* see Journal
  stage,      \* what the controller is doing
  mode,       \* its --dry-run and --no-config flags
  broker,     \* the partition executor
  pipe,       \* events emitted and not yet handed to the journal
  machine,    \* the targets present on the machine
  orphans,    \* operations whose command outlived the broker and is not done
  outcome,    \* how the last command ended
  faults,     \* the faults injected so far
  extras      \* the commands given that no installation needed

J == INSTANCE Journal WITH Ops <- Ops, NoState <- NoState

ASSUME NoStateAssumption == NoState \notin J!State

jvars == <<lines, torn, snapshot, opened, sequence, mem, dirty>>
vars == <<jvars, stage, mode, broker, pipe, machine, orphans, outcome, faults, extras>>

-----------------------------------------------------------------------------
\* The operation at which executeLinux goes on after position i: the next one
\* of its partition that is not terminal; Len(Plan) + 1 when there is none.
NextPosition(i, privilege, terminal) ==
  LET todo == {j \in Ops : j > i /\ Plan[j].privilege = privilege /\ j \notin terminal}
  IN  IF todo = {} THEN Len(Plan) + 1 ELSE Min(todo)

\* Variant of Started: the terminal operations are not handed over.
StartedAfresh(privilege, state) ==
  LET first == NextPosition(0, privilege, {})
  IN  [privilege |-> privilege, at |-> first,
       phase |-> IF first \in Ops THEN "next" ELSE "done",
       seq |-> state.last, terminal |-> {}, detected |-> {}]

\* broker.Execute with the StartSequence and TerminalOperations of a State.
Started(privilege, state) ==
  LET terminal == J!TerminalOperations(state)
      first == NextPosition(0, privilege, terminal)
  IN  [privilege |-> privilege, at |-> first,
       phase |-> IF first \in Ops THEN "next" ELSE "done",
       seq |-> state.last, terminal |-> terminal, detected |-> {}]

Idle == [privilege |-> "user", at |-> 0, phase |-> "idle",
         seq |-> 0, terminal |-> {}, detected |-> {}]

\* Variant of Advanced: the result event is not counted.
AdvancedUncounted ==
  LET next == NextPosition(broker.at, broker.privilege, broker.terminal)
  IN  [broker EXCEPT !.at = next,
                     !.phase = IF next \in Ops THEN "next" ELSE "done"]

\* The executor's state past its current operation.
Advanced ==
  LET next == NextPosition(broker.at, broker.privilege, broker.terminal)
  IN  [broker EXCEPT !.at = next, !.seq = @ + 1,
                     !.phase = IF next \in Ops THEN "next" ELSE "done"]

\* Only the elevated partition of a real run is a process of its own.
InChild == stage \in {"elevated", "killing"} /\ ~mode.dry

\* emitEvent: the next number, to the journal's sink or onto the pipe, where the
\* write waits for room.
Emit(status) ==
  /\ InChild => Len(pipe) < PipeCapacity
  /\ pipe' = Append(pipe, [seq |-> broker.seq + 1, op |-> broker.at, status |-> status])

Current == Plan[broker.at]

\* Elsewhere emitEvent returns when its event is appended and saved.
BrokerRuns ==
  /\ stage # "off"
  /\ InChild \/ (pipe = <<>> /\ ~dirty)

\* A command that changes the machine has been started and has not ended.
InFlight ==
  /\ BrokerRuns /\ broker.phase = "running"
  /\ ~mode.dry /\ Current.kind # "detect" /\ broker.at \notin Manual

\* The broker is gone; what it had started may outlive it.  A command without
\* anything left to do to the machine is not followed any further.
Orphaned ==
  orphans' = IF InFlight /\ Current.target \notin machine
             THEN orphans \cup {broker.at} ELSE orphans

Fault(kind) ==
  /\ kind \in Faults /\ faults < MaxFaults
  /\ faults' = faults + 1

\* The controller process is gone.
Exit(result) ==
  /\ stage' = "off" /\ outcome' = result
  /\ broker' = Idle /\ pipe' = <<>>

-----------------------------------------------------------------------------
Init ==
  /\ J!Init
  /\ stage = "off" /\ mode = Real
  /\ broker = Idle /\ pipe = <<>>
  \* Any of the packages may be on the machine already.
  /\ machine \in SUBSET {Plan[i].target : i \in {j \in Ops : Plan[j].kind = "install"}}
  /\ orphans = {}
  /\ outcome = "none" /\ faults = 0 /\ extras = 0

\* The last command was a real installation and reported success.
Installed == outcome = "ok" /\ ~mode.dry

\* runInstall: both commands end in executePlan, which starts with the
\* elevated partition and hands it the loaded state.
Begin(state, m) ==
  /\ stage = "off"
  /\ IF m # Real \/ Installed THEN extras < MaxExtras /\ extras' = extras + 1
                             ELSE UNCHANGED extras
  /\ stage' = "elevated" /\ mode' = m /\ outcome' = "running"
  /\ broker' = Started("elevated", state)
  /\ UNCHANGED <<pipe, machine, orphans, faults>>

\* Variant of Install: the journal is not looked at.
InstallAnyway(m) ==
  /\ ~opened /\ opened' = TRUE /\ sequence' = 0
  /\ mem' = J!NewState /\ snapshot' = J!NewState
  /\ UNCHANGED <<lines, torn, dirty>>
  /\ Begin(J!NewState, m)

Install(m) == J!OpenNew /\ Begin(J!NewState, m)
Resume(m) == J!OpenResume /\ Begin(snapshot, m)

-----------------------------------------------------------------------------
(* The broker: executeLinux, one operation at a time.                      *)

\* Skipped without being tried: an install whose package was detected earlier
\* in this partition, a configuration under --no-config.
Skips ==
  \/ Current.kind = "install" /\ Current.target \in broker.detected
  \/ Current.kind = "configure" /\ mode.noConfig

SkipOperation ==
  /\ BrokerRuns /\ broker.phase = "next" /\ Skips
  /\ Emit("skipped") /\ broker' = Advanced
  /\ UNCHANGED <<jvars, stage, mode, machine, orphans, outcome, faults, extras>>

StartOperation ==
  /\ BrokerRuns /\ broker.phase = "next" /\ ~Skips
  /\ Emit("started")
  /\ broker' = [broker EXCEPT !.phase = "running", !.seq = @ + 1]
  /\ UNCHANGED <<jvars, stage, mode, machine, orphans, outcome, faults, extras>>

\* "succeeded" when the package is there, "planned" when it needs installing;
\* a dry run detects for real.
FinishDetect ==
  /\ BrokerRuns /\ broker.phase = "running" /\ Current.kind = "detect"
  /\ IF Current.target \in machine
     THEN /\ Emit("succeeded")
          /\ broker' = [Advanced EXCEPT !.detected = @ \cup {Current.target}]
     ELSE Emit("planned") /\ broker' = Advanced
  /\ UNCHANGED <<jvars, stage, mode, machine, orphans, outcome, faults, extras>>

\* Variant of FinishOperation: a dry run reports success.
FinishOperationDry ==
  /\ BrokerRuns /\ broker.phase = "running" /\ Current.kind # "detect"
  /\ broker' = Advanced
  /\ IF broker.at \in Manual THEN Emit("skipped") /\ UNCHANGED machine
     ELSE /\ Emit("succeeded")
          /\ machine' = IF mode.dry THEN machine ELSE machine \cup {Current.target}
  /\ UNCHANGED <<jvars, stage, mode, orphans, outcome, faults, extras>>

FinishOperation ==
  /\ BrokerRuns /\ broker.phase = "running" /\ Current.kind # "detect"
  /\ broker' = Advanced
  /\ IF broker.at \in Manual THEN Emit("skipped") /\ UNCHANGED machine
     ELSE IF mode.dry THEN Emit("planned") /\ UNCHANGED machine
     ELSE Emit("succeeded") /\ machine' = machine \cup {Current.target}
  /\ UNCHANGED <<jvars, stage, mode, orphans, outcome, faults, extras>>

\* Variant of FailOperation: the executor goes on after a failure.
FailOperationOn ==
  /\ BrokerRuns /\ broker.phase = "running"
  /\ Current.kind = "detect" \/ InFlight
  /\ Fault("operation")
  /\ Emit("failed")
  /\ broker' = Advanced
  /\ UNCHANGED <<jvars, stage, mode, machine, orphans, outcome, extras>>

\* operationFailure: the failed event is the executor's last.  A command that
\* fails may have done its work all the same.
FailOperation ==
  /\ BrokerRuns /\ broker.phase = "running"
  /\ Current.kind = "detect" \/ InFlight
  /\ Fault("operation")
  /\ Emit("failed")
  /\ broker' = [broker EXCEPT !.phase = "failed", !.seq = @ + 1]
  /\ \/ UNCHANGED machine
     \/ InFlight /\ machine' = machine \cup {Current.target}
  /\ UNCHANGED <<jvars, stage, mode, orphans, outcome, extras>>

Broker ==
  \/ SkipOperation \/ StartOperation
  \/ FinishDetect \/ FinishOperation \/ FailOperation

-----------------------------------------------------------------------------
(* The controller: persistChildEventStream for the child, the event sink of *)
(* Service.ExecutePartition for its own executor.                           *)

\* An error ends an executor inside the controller at once; a child is killed
\* and waited for, and works on until the signal reaches it.
Abort ==
  IF InChild
  THEN stage' = "killing" /\ UNCHANGED <<broker, pipe, outcome>>
  ELSE Exit("failed")

PersistEvent ==
  /\ pipe # <<>> /\ Head(pipe).seq > mem.last
  /\ J!AppendEvent(Head(pipe))
  /\ pipe' = Tail(pipe)
  /\ UNCHANGED <<stage, mode, broker, machine, orphans, outcome, faults, extras>>

PersistRefused ==
  /\ pipe # <<>> /\ J!RefuseEvent(Head(pipe))
  /\ Abort
  /\ UNCHANGED <<mode, machine, orphans, faults, extras>>

PersistFails ==
  /\ pipe # <<>> /\ Fault("append") /\ J!AppendFails(Head(pipe))
  /\ Abort
  /\ UNCHANGED <<mode, machine, orphans, extras>>

Save ==
  /\ J!SaveState
  /\ UNCHANGED <<stage, mode, broker, pipe, machine, orphans, outcome, faults, extras>>

SaveFails ==
  /\ Fault("save") /\ J!SaveFails
  /\ Abort
  /\ UNCHANGED <<mode, machine, orphans, extras>>

\* The child's stream is at its end, or the executor has returned.
PartitionOver(phase) == opened /\ pipe = <<>> /\ ~dirty /\ broker.phase = phase

\* Variant of EnterUserPartition: the child's exit status is not looked at.
EnterUserPartitionAnyway ==
  /\ stage = "elevated" /\ (PartitionOver("done") \/ PartitionOver("failed"))
  /\ stage' = "user" /\ broker' = Started("user", mem)
  /\ UNCHANGED <<jvars, mode, pipe, machine, orphans, outcome, faults, extras>>

\* The user partition starts from the state the elevated one has left.
EnterUserPartition ==
  /\ stage = "elevated" /\ PartitionOver("done")
  /\ stage' = "user" /\ broker' = Started("user", mem)
  /\ UNCHANGED <<jvars, mode, pipe, machine, orphans, outcome, faults, extras>>

Complete ==
  /\ stage = "user" /\ PartitionOver("done")
  /\ J!Close /\ Exit("ok")
  /\ UNCHANGED <<mode, machine, orphans, faults, extras>>

\* Variant of ReportFailure: only the user partition's failures end a command.
ReportUserFailure ==
  /\ stage = "user" /\ PartitionOver("failed")
  /\ J!Close /\ Exit("failed")
  /\ UNCHANGED <<mode, machine, orphans, faults, extras>>

ReportFailure ==
  /\ PartitionOver("failed")
  /\ J!Close /\ Exit("failed")
  /\ UNCHANGED <<mode, machine, orphans, faults, extras>>

\* command.Process.Kill, whose result is ignored, and command.Wait: the child has
\* ended, killed at any point of its work or on its own.
ReapChild ==
  /\ stage = "killing"
  /\ Exit("failed") /\ Orphaned
  /\ UNCHANGED <<jvars, mode, machine, faults, extras>>

\* What the controller does without waiting for the child to go away.
Proceeds ==
  \/ PersistEvent \/ PersistRefused \/ PersistFails
  \/ Save \/ SaveFails
  \/ EnterUserPartition \/ Complete \/ ReportFailure

Controller == Proceeds \/ ReapChild

-----------------------------------------------------------------------------
(* The environment.                                                        *)

\* What the child had written still reaches the journal.
ChildDies ==
  /\ stage = "elevated" /\ InChild /\ broker.phase \in {"next", "running", "done"}
  /\ Fault("child")
  /\ broker' = [broker EXCEPT !.phase = "failed"]
  /\ Orphaned
  /\ UNCHANGED <<jvars, stage, mode, pipe, machine, outcome, extras>>

\* What the child had written and the controller had not read is lost, and a
\* broker that lost its reader dies at its next event.
Crash ==
  /\ Fault(IF dirty THEN "crash_unsaved" ELSE "crash")
  /\ J!Close /\ Exit("failed") /\ Orphaned
  /\ UNCHANGED <<mode, machine, extras>>

\* An orphan that fails is one that never gets here: nothing makes it.
OrphanEnds(i) ==
  /\ orphans' = orphans \ {i}
  /\ machine' = machine \cup {Plan[i].target}
  /\ UNCHANGED <<jvars, stage, mode, broker, pipe, outcome, faults, extras>>

Environment == ChildDies \/ Crash \/ \E i \in orphans : OrphanEnds(i)

Next ==
  \/ \E m \in Modes : Install(m) \/ Resume(m)
  \/ Broker
  \/ Controller
  \/ Environment

Spec == Init /\ [][Next]_vars

\* The scheduler runs both processes, and Wait returns for a child that has ended
\* by itself; one that was sent a kill need not end.  The commands of the broker
\* end, and the user may or may not run a command.
ChildHasEnded == broker.phase \in {"done", "failed"}
FairSpec ==
  /\ Spec
  /\ WF_vars(Broker) /\ WF_vars(Proceeds)
  /\ WF_vars(ReapChild /\ ChildHasEnded)

\* The user also resumes the real installation whenever it has stopped early or
\* was only previewed.
Retry == ~Installed /\ (Install(Real) \/ Resume(Real))
PersistentSpec == FairSpec /\ WF_vars(Retry)

-----------------------------------------------------------------------------
\* Every variable holds a value of its kind.
TypeOK ==
  /\ J!TypeOK
  /\ stage \in {"off", "elevated", "user", "killing"}
  /\ mode \in [dry: BOOLEAN, noConfig: BOOLEAN]
  /\ broker \in [privilege: {"elevated", "user"}, at: 0..(Len(Plan) + 1),
                 phase: {"idle", "next", "running", "done", "failed"}, seq: Nat,
                 terminal: SUBSET Ops, detected: SUBSET Targets]
  /\ pipe \in Seq(J!Event)
  /\ machine \subseteq Targets
  /\ orphans \subseteq Ops
  /\ outcome \in {"none", "running", "ok", "failed"}
  /\ faults \in 0..MaxFaults
  /\ extras \in 0..MaxExtras

\* The controller and its brokers use the journal only as Journal.tla says:
\* across two processes, a pipe and a change of partition the events arrive
\* numbered consecutively from the state the writer holds, and nothing else
\* touches the two files.
ImplementsJournal == J!Spec

\* What is emitted and not yet recorded continues the recorded state without a
\* gap, although the broker counts by itself (broker.go:359) from a number
\* handed over on its command line (main.go:295).
EventsContinueState ==
  stage \in {"elevated", "user"} =>
    /\ \A k \in DOMAIN pipe : pipe[k].seq = mem.last + k
    /\ broker.seq = mem.last + Len(pipe)

\* No command runs before what it depends on is on the machine.  DependsOn is
\* never consulted while executing: the order of the plan, the two partitions
\* and the terminal set handed to a resumed run have to imply it.
DependenciesPresent ==
  InFlight =>
    \A d \in Current.dependsOn :
      Plan[d].kind # "detect" => Plan[d].target \in machine

\* Nothing of the user partition runs before the state file records an end of
\* every machine operation (main.go:274-277).
ElevatedRecordedFirst ==
  stage = "user" =>
    \A i \in Ops : Plan[i].privilege = "elevated" =>
      snapshot.status[i] \in {"succeeded", "skipped", "planned"}

\* What the journal calls succeeded is on the machine, and what it calls
\* skipped because it is installed is installed: true of every line, through
\* dry runs, crashes, lost events and repeated commands.
JournalIsTrue ==
  \A k \in DOMAIN lines :
    LET operation == Plan[lines[k].op]
    IN  \/ lines[k].status = "succeeded"
        \/ lines[k].status = "skipped" /\ operation.kind = "install"
        => operation.target \in machine

\* When a command reports success every operation has an end in the state file
\* (scripts/validate-linux-disposable.sh:126-130), and after a real run every
\* package and prerequisite is on the machine and every configuration is
\* applied or recorded as skipped.
SuccessIsComplete ==
  outcome = "ok" =>
    /\ \A i \in Ops : snapshot.status[i] \in {"succeeded", "skipped", "planned"}
    /\ ~mode.dry =>
         \A i \in Ops : Plan[i].kind # "detect" =>
           \/ Plan[i].target \in machine
           \/ Plan[i].kind = "configure" /\ i \in snapshot.skipped

\* What the state file records as done or skipped it records for good: no later
\* run, dry or real, moves it back (service.go:129-138).
RecordedWorkIsKept ==
  [][snapshot # NoState =>
       J!TerminalOperations(snapshot) \subseteq J!TerminalOperations(snapshot')]_vars

\* The controller's State covers every line of the journal: what it was loaded
\* from was saved with the last of them.
InStep == ~torn /\ \A k \in DOMAIN lines : lines[k].seq <= mem.last

\* The files a controller has left behind are not in step: an event was
\* appended, or half appended, and never saved.
Frozen == ~opened /\ (torn \/ J!Behind)

\* An operation whose success is in the journal is not executed again, by any
\* command that goes on from a state file in step with it.
RecordedWorkIsNotRepeated ==
  InFlight /\ InStep =>
    \A k \in DOMAIN lines :
      ~(lines[k].op = broker.at /\ lines[k].status = "succeeded")

\* The journal accepts the next event of whoever has loaded the state: an
\* interrupted installation can be gone on with.  docs/Security.md:39 says of
\* an interruption that "The journal remains resumable".
JournalIsResumable == opened /\ ~dirty /\ ~torn => ~J!Refuses(mem.last + 1)

\* A package that detection recorded as already installed is not installed.
\* CHANGELOG.md:145: "Fixed the broker installing packages even after native
\* detection reported them as already installed."
DetectedIsNotInstalled ==
  InFlight /\ Current.kind = "install" =>
    \A d \in Current.dependsOn :
      Plan[d].kind = "detect" /\ Plan[d].target = Current.target =>
        d \notin mem.completed

\* A completed installation retains no failure: the check that
\* scripts/validate-linux-disposable.sh:124-125 makes of every completed state.
CompletedHasNoFailures == outcome = "ok" => snapshot.failed = {}

\* The controller waits for a child that did not get its signal, and the child
\* for room in the pipe nobody reads.
Stuck ==
  /\ stage = "killing" /\ ~ChildHasEnded
  /\ Len(pipe) = PipeCapacity

\* Every command ends: with the child dead or failed, with events lost or
\* refused, the controller gets out of every wait but one.  A child that survives
\* the controller's kill (main.go:323 ignores its result, and sudo is root's)
\* keeps it waiting for ever once the pipe is full; else it works to its end.
EveryCommandEnds == []<>(stage = "off") \/ <>[]Stuck

\* A user who goes on resuming gets a complete real installation in the end,
\* previewed or not, or has files that are not in step (where nothing goes on:
\* JournalIsResumable), or a command that is stuck as above.
InstallationCompletes == <>(Installed \/ Frozen) \/ <>[]Stuck
=============================================================================
