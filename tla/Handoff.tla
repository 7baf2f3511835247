------------------------------- MODULE Handoff -------------------------------
(***************************************************************************)
(* The one privileged handoff of a Linux installation and its interruption *)
(* (runElevatedPartition of cmd/cowebs/main.go, interruptChild of          *)
(* process_signal_unix.go).  Who runs:                                     *)
(*   - the controller's main goroutine, which writes the plan for the      *)
(*     child, starts sudo in a process group of its own, reads the event   *)
(*     stream to its end, waits, and returns through its deferred calls;   *)
(*   - the goroutine that waits for a Ctrl+C or for brokerDone, forwards   *)
(*     the interrupt to the group and, ten seconds later, kills the group; *)
(*   - sudo, the broker it runs, and the package manager the broker runs.  *)
(* Session takes all this as one child that may die.                       *)
(*                                                                         *)
(* sudo, the broker and the package manager are external programs or run   *)
(* as root: whether the user's signals reach their group is the kernel's   *)
(* and sudo's decision (the code ignores the result of both kill calls),   *)
(* so a behaviour begins by choosing it.  The broker installs no handler   *)
(* and dies of an interrupt; a package manager may go on.                  *)
(***************************************************************************)
EXTENDS Naturals, Sequences

CONSTANTS
  MaxOperations,  \* how many machine operations a plan may have
  PipeCapacity,   \* how many events the pipe holds
  MaxInterrupts,  \* how often the user presses Ctrl+C
  MaxFaults       \* how many events cannot be persisted, or controllers killed

ASSUME HandoffAssumption ==
  /\ MaxOperations \in Nat /\ MaxInterrupts \in Nat /\ MaxFaults \in Nat
  /\ PipeCapacity \in Nat \ {0}

Processes == {"sudo", "broker", "manager"}
Gone == {"returned", "killed"}

VARIABLES
  pc,           \* what the controller's main goroutine does next
  watcher,      \* the goroutine that waits for an interrupt
  interrupts,   \* a signal is in the channel, whose capacity is one
  planFile,     \* the temporary plan for the child exists
  result,       \* what runElevatedPartition returned
  alive,        \* the processes of the group that run
  deliverable,  \* signals of the user reach the group
  step,         \* what the broker does next
  left,         \* operations the broker has not ended
  status,       \* sudo's exit status
  pipe,         \* events written and not read
  finished,     \* operations whose command succeeded
  recorded,     \* operations whose success was persisted
  late,         \* commands started after the controller was gone
  pressed, faults

controllerVars == <<pc, planFile, result>>
brokerVars == <<step, left, pipe, finished, late>>
vars == <<controllerVars, watcher, interrupts, alive, deliverable, brokerVars,
          status, recorded, pressed, faults>>

Init ==
  /\ pc = "create" /\ watcher = "none" /\ interrupts = FALSE
  /\ planFile = FALSE /\ result = "none"
  /\ alive = {} /\ deliverable \in BOOLEAN
  /\ step = "load" /\ left \in 0..MaxOperations /\ status = "none"
  /\ pipe = <<>> /\ finished = 0 /\ recorded = 0 /\ late = 0
  /\ pressed = 0 /\ faults = 0

\* The processes S of the group are gone.
Dead(S) ==
  /\ alive' = alive \ S
  /\ step' = IF "broker" \in alive \cap S THEN "dead" ELSE step
  /\ status' = IF "sudo" \in alive \cap S THEN "error" ELSE status

-----------------------------------------------------------------------------
(* The controller's main goroutine.                                        *)

\* CreateTemp and SavePlan; the removal is deferred from here on.
WritePlan ==
  /\ pc = "create" /\ planFile' = TRUE
  /\ \/ pc' = "start" /\ UNCHANGED result
     \/ pc' = "remove" /\ result' = "failed"
  /\ UNCHANGED <<watcher, interrupts, alive, deliverable, brokerVars, status,
                 recorded, pressed, faults>>

\* StdoutPipe and Start.
StartChild ==
  /\ pc = "start"
  /\ \/ pc' = "notify" /\ alive' = {"sudo"} /\ UNCHANGED result
     \/ pc' = "remove" /\ result' = "failed" /\ UNCHANGED alive
  /\ UNCHANGED <<planFile, watcher, interrupts, deliverable, brokerVars, status,
                 recorded, pressed, faults>>

\* signal.Notify and the goroutine.
Notify ==
  /\ pc = "notify" /\ pc' = "reading" /\ watcher' = "waiting"
  /\ UNCHANGED <<planFile, result, interrupts, alive, deliverable, brokerVars,
                 status, recorded, pressed, faults>>

\* One event of the stream, persisted.
Persist ==
  /\ pc = "reading" /\ pipe # <<>>
  /\ pipe' = Tail(pipe)
  /\ recorded' = recorded + (IF Head(pipe) = "succeeded" THEN 1 ELSE 0)
  /\ UNCHANGED <<controllerVars, watcher, interrupts, alive, deliverable, step,
                 left, finished, late, status, pressed, faults>>

\* Variant of PersistFails: nothing is killed before Wait.
PersistFailsLeniently ==
  /\ pc = "reading" /\ pipe # <<>> /\ faults < MaxFaults
  /\ faults' = faults + 1 /\ pc' = "killing" /\ pipe' = Tail(pipe)
  /\ UNCHANGED <<planFile, result, watcher, interrupts, deliverable, step, alive,
                 left, finished, late, status, recorded, pressed>>

\* An event that cannot be persisted: Kill of sudo, and only of sudo.
PersistFails ==
  /\ pc = "reading" /\ pipe # <<>> /\ faults < MaxFaults
  /\ faults' = faults + 1 /\ pc' = "killing" /\ pipe' = Tail(pipe)
  /\ Dead(IF deliverable THEN {"sudo"} ELSE {})
  /\ UNCHANGED <<planFile, result, watcher, interrupts, deliverable, left, finished,
                 late, recorded, pressed>>

\* Variant of EndOfStream: the events still in the pipe are given up.
EndOfStreamEarly ==
  /\ pc = "reading" /\ alive \cap {"sudo", "broker"} = {}
  /\ pc' = "waiting"
  /\ UNCHANGED <<planFile, result, watcher, interrupts, alive, deliverable,
                 brokerVars, status, recorded, pressed, faults>>

\* sudo and the broker hold the write end; the package manager's output goes to
\* a pipe of the broker's.
EndOfStream ==
  /\ pc = "reading" /\ pipe = <<>> /\ alive \cap {"sudo", "broker"} = {}
  /\ pc' = "waiting"
  /\ UNCHANGED <<planFile, result, watcher, interrupts, alive, deliverable,
                 brokerVars, status, recorded, pressed, faults>>

\* Variant of Wait: the exit status is not looked at.
WaitAnyway ==
  /\ pc \in {"waiting", "killing"} /\ "sudo" \notin alive
  /\ result' = IF pc = "waiting" THEN "ok" ELSE "failed"
  /\ pc' = "close"
  /\ UNCHANGED <<planFile, watcher, interrupts, alive, deliverable, brokerVars,
                 status, recorded, pressed, faults>>

\* command.Wait: sudo is reaped, then the read end is closed.
Wait ==
  /\ pc \in {"waiting", "killing"} /\ "sudo" \notin alive
  /\ result' = IF pc = "waiting" /\ status = "ok" THEN "ok" ELSE "failed"
  /\ pc' = "close"
  /\ UNCHANGED <<planFile, watcher, interrupts, alive, deliverable, brokerVars,
                 status, recorded, pressed, faults>>

\* The deferred calls: close(brokerDone), signal.Stop, os.Remove.
Deferred ==
  /\ \/ pc = "close" /\ pc' = "stop" /\ UNCHANGED planFile
     \/ pc = "stop" /\ pc' = "remove" /\ UNCHANGED planFile
     \/ pc = "remove" /\ pc' = "returned" /\ planFile' = FALSE
  /\ UNCHANGED <<result, watcher, interrupts, alive, deliverable, brokerVars,
                 status, recorded, pressed, faults>>

Controller ==
  \/ WritePlan \/ StartChild \/ Notify
  \/ Persist \/ PersistFails \/ EndOfStream \/ Wait \/ Deferred

-----------------------------------------------------------------------------
(* The goroutine.                                                          *)

BrokerDone == pc \in {"stop", "remove", "returned"}

\* Sent to the group, an interrupt ends the broker, or sudo while it still asks
\* for a password; a package manager may handle it and go on.
Victims == IF "broker" \notin alive /\ step = "load" THEN {"sudo"} ELSE {"broker"}

\* Variant of Forward: the interrupt is kept from the group.
ForwardNothing ==
  /\ watcher = "waiting" /\ interrupts
  /\ watcher' = "ended" /\ interrupts' = FALSE
  /\ UNCHANGED <<controllerVars, alive, deliverable, brokerVars, status, recorded,
                 pressed, faults>>

Forward ==
  /\ watcher = "waiting" /\ interrupts /\ pc # "killed"
  /\ watcher' = "grace" /\ interrupts' = FALSE
  /\ IF deliverable THEN Dead(Victims) \/ Dead(Victims \cup {"manager"}) ELSE Dead({})
  /\ UNCHANGED <<controllerVars, deliverable, left, pipe, finished, late, recorded,
                 pressed, faults>>

\* Either select finds brokerDone closed; with an interrupt or the timer ready
\* as well, either branch may be taken.
StandDown ==
  /\ watcher \in {"waiting", "grace"} /\ BrokerDone
  /\ watcher' = "ended"
  /\ UNCHANGED <<controllerVars, interrupts, alive, deliverable, brokerVars, status,
                 recorded, pressed, faults>>

\* Ten seconds have passed: SIGKILL to the group.
HardStop ==
  /\ watcher = "grace" /\ pc # "killed"
  /\ watcher' = "ended"
  /\ Dead(IF deliverable THEN Processes ELSE {})
  /\ UNCHANGED <<controllerVars, interrupts, deliverable, left, pipe, finished, late,
                 recorded, pressed, faults>>

Watcher == Forward \/ StandDown \/ HardStop

-----------------------------------------------------------------------------
(* The child: sudo, the broker, the package manager.                       *)

\* sudo asks for a password and runs the broker, or refuses.
SudoDecides ==
  /\ "sudo" \in alive /\ step = "load" /\ "broker" \notin alive
  /\ \/ alive' = alive \cup {"broker"} /\ UNCHANGED <<status, step>>
     \/ alive' = {} /\ status' = "error" /\ step' = "failed"
  /\ UNCHANGED <<controllerVars, watcher, interrupts, deliverable, left, pipe,
                 finished, late, recorded, pressed, faults>>

\* runInternalBroker and the loading and validation in front of the executor: it
\* fails without the plan file, and may fail with it (another catalog by now).
Load ==
  /\ "broker" \in alive /\ step = "load"
  /\ step' \in IF planFile THEN {"next", "failed"} ELSE {"failed"}
  /\ UNCHANGED <<controllerVars, watcher, interrupts, alive, deliverable, left,
                 pipe, finished, late, status, recorded, pressed, faults>>

ReaderGone == pc \in {"close", "stop", "remove"} \cup Gone

\* Variant of Write: the reader is not missed.
WriteBlindly(event, next) ==
  /\ UNCHANGED alive /\ step' = next
  /\ IF ReaderGone THEN UNCHANGED pipe
     ELSE Len(pipe) < PipeCapacity /\ pipe' = Append(pipe, event)

\* The broker writes an event and goes on to the next step.  It waits while the
\* pipe is full, and dies of SIGPIPE, which Go leaves fatal for standard output,
\* when nobody can read it.
Write(event, next) ==
  IF ReaderGone
  THEN alive' = alive \ {"broker"} /\ step' = "dead" /\ UNCHANGED pipe
  ELSE /\ Len(pipe) < PipeCapacity /\ pipe' = Append(pipe, event)
       /\ step' = next /\ UNCHANGED alive

EmitStarted ==
  /\ "broker" \in alive /\ step = "next" /\ left > 0
  /\ Write("started", "run")
  /\ UNCHANGED <<controllerVars, watcher, interrupts, deliverable, left, finished,
                 late, status, recorded, pressed, faults>>

StartManager ==
  /\ "broker" \in alive /\ step = "run"
  /\ alive' = alive \cup {"manager"} /\ step' = "running"
  /\ late' = late + (IF pc \in Gone THEN 1 ELSE 0)
  /\ UNCHANGED <<controllerVars, watcher, interrupts, deliverable, left, pipe,
                 finished, status, recorded, pressed, faults>>

\* The command ends, having succeeded or not, with a broker to see it or not.
ManagerEnds ==
  /\ "manager" \in alive /\ alive' = alive \ {"manager"}
  /\ \E end \in {"succeeded", "error"} :
       /\ step' = IF "broker" \in alive THEN end ELSE step
       /\ finished' = IF end = "succeeded" THEN finished + 1 ELSE finished
  /\ UNCHANGED <<controllerVars, watcher, interrupts, deliverable, left, pipe,
                 late, status, recorded, pressed, faults>>

\* completedEvent or operationFailure.
EmitResult ==
  /\ "broker" \in alive /\ step \in {"succeeded", "error"}
  /\ Write(step, IF step = "succeeded" THEN "next" ELSE "failed")
  /\ left' = left - 1
  /\ UNCHANGED <<controllerVars, watcher, interrupts, deliverable, finished,
                 late, status, recorded, pressed, faults>>

BrokerExits ==
  /\ "broker" \in alive /\ alive' = alive \ {"broker"}
  /\ step = "failed" \/ (step = "next" /\ left = 0)
  /\ step' = IF step = "failed" THEN step ELSE "done"
  /\ UNCHANGED <<controllerVars, watcher, interrupts, deliverable, left, pipe,
                 finished, late, status, recorded, pressed, faults>>

\* sudo waits for its command and passes its exit status on.
SudoExits ==
  /\ "sudo" \in alive /\ "broker" \notin alive /\ step # "load"
  /\ alive' = alive \ {"sudo"}
  /\ status' = IF step = "done" THEN "ok" ELSE "error"
  /\ UNCHANGED <<controllerVars, watcher, interrupts, deliverable, brokerVars,
                 recorded, pressed, faults>>

Child == SudoDecides \/ Load \/ EmitStarted \/ StartManager \/ EmitResult
         \/ BrokerExits \/ SudoExits

-----------------------------------------------------------------------------
(* The user.                                                               *)

Handled == pc \in {"reading", "killing", "waiting", "close", "stop"}

\* The terminal sends Ctrl+C to the controller alone, the child being in another
\* group.  A second signal in the channel is dropped; outside Notify and Stop
\* the signal ends the controller.
CtrlC ==
  /\ pressed < MaxInterrupts /\ pressed' = pressed + 1
  /\ pc \notin Gone
  /\ IF Handled THEN interrupts' = TRUE /\ UNCHANGED pc
     ELSE pc' = "killed" /\ UNCHANGED interrupts
  /\ UNCHANGED <<planFile, result, watcher, alive, deliverable, brokerVars,
                 status, recorded, faults>>

\* SIGKILL or a hang-up of the controller.
ControllerDies ==
  /\ faults < MaxFaults /\ faults' = faults + 1
  /\ pc \notin Gone /\ pc' = "killed"
  /\ UNCHANGED <<planFile, result, watcher, interrupts, alive, deliverable,
                 brokerVars, status, recorded, pressed>>

Next ==
  \/ Controller \/ Watcher \/ Child \/ ManagerEnds
  \/ CtrlC \/ ControllerDies

Spec == Init /\ [][Next]_vars

\* The scheduler runs the controller, its goroutine (time passes) and the child.
\* Nothing makes a package manager end.
FairSpec == Spec /\ WF_vars(Controller) /\ WF_vars(Watcher) /\ WF_vars(Child)

-----------------------------------------------------------------------------
\* Every variable holds a value of its kind.
TypeOK ==
  /\ pc \in {"create", "start", "notify", "reading", "waiting", "killing",
             "close", "stop", "remove"} \cup Gone
  /\ watcher \in {"none", "waiting", "grace", "ended"}
  /\ interrupts \in BOOLEAN /\ planFile \in BOOLEAN /\ deliverable \in BOOLEAN
  /\ result \in {"none", "ok", "failed"}
  /\ alive \subseteq Processes
  /\ step \in {"load", "next", "run", "running", "succeeded", "error", "failed", "done", "dead"}
  /\ left \in 0..MaxOperations
  /\ status \in {"none", "ok", "error"}
  /\ pipe \in Seq({"started", "succeeded", "error"}) /\ Len(pipe) <= PipeCapacity
  /\ finished \in 0..MaxOperations /\ recorded \in 0..MaxOperations
  /\ late \in 0..MaxOperations
  /\ pressed \in 0..MaxInterrupts /\ faults \in 0..MaxFaults

\* The user partition begins (main.go:274-277) only when no privileged process
\* is left, every machine operation has succeeded and every success is recorded,
\* however an interrupt, the hard stop and the end of the stream race.
UserPartitionIsAlone ==
  result = "ok" => alive = {} /\ left = 0 /\ pipe = <<>> /\ recorded = finished

\* After a Ctrl+C the controller that returns without an error of its own has
\* recorded all completed operations but one at most, the one whose end the
\* interrupted broker did not live to report.  docs/troubleshooting.md:98, "the
\* initiating user's journal preserves completed operations", makes no exception.
InterruptLosesAtMostOne ==
  pc \in {"close", "stop", "remove", "returned"} /\ faults = 0 =>
    finished <= recorded + 1

\* Once the controller is gone at most one more command is started: the broker
\* reports every start to a pipe that nobody reads.
AtMostOneMoreCommand == late <= 1

\* The broker waits for room in a pipe that is not read: the controller waits for
\* a sudo that it was not allowed to kill, and that waits for the broker.
Stuck ==
  /\ pc = "killing" /\ "broker" \in alive /\ Len(pipe) = PipeCapacity
  /\ step \in {"next", "succeeded", "error"}

\* After a Ctrl+C that reaches the group the controller is gone in the end, or
\* the machine operations were over, whatever the package manager does: the
\* interrupt, the hard stop or the end of the stream gets it out of every wait.
InterruptEnds == deliverable /\ interrupts ~> pc \in Gone \/ result = "ok"

\* Every handoff ends, unless a package manager runs for ever, or an event could
\* not be persisted and the child can be neither killed nor read.
HandoffEnds == <>(pc \in Gone) \/ <>[]("manager" \in alive) \/ <>[](Stuck /\ ~deliverable)

\* The package manager does not run on for ever after an interrupted controller
\* has returned.  docs/Security.md:39: the parent "applies a ten-second bounded hard-stop before
\* deferred cleanup, so a package-manager descendant cannot outlive the
\* controller indefinitely".
ManagerDoesNotOutlive ==
  pc = "returned" /\ pressed > 0 ~> "manager" \notin alive
=============================================================================
