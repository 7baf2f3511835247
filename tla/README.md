# A TLA+ model of cowebs-developer-setup

The repository installs developer tools on Ubuntu, Fedora and Windows from a
catalog. Its Go program `cowebs` turns a profile into a canonical *plan* of
operations and executes the plan, one part as root in a privileged child, one part
as the user, recording every event in a journal so that an interrupted installation
can be resumed. This directory models the part of it that is hard to test: what is
on disk, in the pipe and on the machine when processes die, writes fail and
commands are repeated.

## Inventory

| part | source | state it keeps | operations | hard behaviours |
|---|---|---|---|---|
| Journal and state file | `internal/journal/journal.go` | an append-only JSONL file, a state file replaced by rename, a cached last sequence number | AppendEvent, ApplyEvent, SaveState, LoadState, ValidateForPlan | crash between append and save, torn lines, failed flush, reopening |
| Controller | `cmd/cowebs/main.go` | the State in memory, the child process, a pipe | install, resume, status, plan, doctor, update | two processes, lost events, exit status against end of stream |
| Linux executor (broker) | `internal/broker/broker.go` | a sequence counter, the terminal set, what detection found | one action per kind of operation | failure in the middle, dry run, resumption with another memory |
| Application service | `internal/application/service.go` | a saved plan | ExecutePartition, LoadPlan, SavePlan | the sink: append, apply, save per event |
| Interrupts | `cmd/cowebs/process_signal_*.go` | a timer, a goroutine, a process group | forward Ctrl+C, hard stop after ten seconds | races between death of the child, end of stream and timer |
| Linux adapter | `internal/adapter/linux/linux.go` | files under `/etc/apt`, package managers | Detect, ExecuteInstall, ExecutePrerequisite, atomicWrite | partly applied prerequisites, failed system calls |
| User configuration | `internal/configuration/linux.go` | the user's tool settings | Commands, Execute | several commands per intent |
| Planner | `internal/planner/planner.go` | none | Build, ValidateCanonical | dependency order, privilege partition, acceptance of its own plans |
| Catalog | `internal/catalog/load.go` | none | Load, validate | what Load lets through is what Build can rely on |
| Windows executor, `cowebs-setup` | `internal/broker`, `internal/adapter/windows`, `cmd/cowebs-setup` | as the Linux ones | elevated install and resume | two programs on one journal, no initial state file, detections repeated |
| PowerShell engine | `src/windows/setup.ps1`, `master-setup.bat` | counters and a log, nothing to resume from | the shipping Windows path | plans like the Go planner |
| Release | `internal/release` | a downloaded file | DownloadVerified, manifest checks | a wrong or interrupted download |
| Doctor | `internal/doctor` | none | RunDiagnostics | its verdict against what a plan needs |
| Scripts, packaging, data | `scripts/`, `packaging/`, `config/`, `schema/` | - | build time | - |

How they interact. `runInstall` opens the journal (new for `install`, from the state
file for `resume`) and calls `executePlan`. The elevated partition runs in a child
started through `sudo`, which is handed the plan, the last sequence number and the
IDs of finished operations on its command line and writes events to a pipe; the
controller reads them one at a time: AppendEvent, ApplyEvent, SaveState. When the
child has ended well the controller executes the user partition itself, with the
same three calls inside the executor's event sink. Any error ends the command, and
the next `resume` starts from the two files.

What makes each part correct is stated by the properties below; the hazards no property
covers are listed with their reasons in `PROJECT.json`.

## Modules

**Journal.tla** is the journal with its one writer. `lines` and `torn` are the
journal file (`torn`: it ends in a line that does not decode), `snapshot` is the state
file; `sequence`, `mem` and `dirty` belong to the process that holds the journal
(`Journal.sequence`, the `State` it passes around, and whether an appended event is
still to be saved). `OpenNew` and `OpenResume` are the two ways `runInstall` obtains a
state. `AppendEvent(ev)` is the append together with `ApplyEvent`, because nothing can
be observed between the flush and an assignment in memory; `AppendFails` covers an
error and a kill at any point inside it. `Refuses` is the acceptance test: the first
append of a process looks at the file, later ones at the cached number. `Close` is the
process ending anywhere else, well or badly. Session IDs, timestamps, message texts
and the mutex are left out.

A state file that is missing is rebuilt by `LoadState` from the journal, but without a
plan ID, so `ValidateForPlan` turns it away and `resume` is possible only from a state
file: `OpenResume` needs `snapshot # NoState`. The plan checks of `ValidateForPlan` are
true by construction here (one plan); its check that no operation has two ends is kept.

**Session.tla** is an installation on Linux: controller, privileged child, pipe,
machine. It instantiates Journal (`J == INSTANCE Journal`) and uses its actions, so a
controller step is a journal step and a step on the pipe. The correspondence:

| model | code |
|---|---|
| `Install`, `Resume` | `runInstall` up to `executePlan` |
| `stage = "elevated" / "user"` | `runElevatedPartition`, then `ExecutePartition` for the user |
| `stage = "killing"` | the `Kill` and `Wait` after an event that could not be persisted: the child may go on meanwhile; `ReapChild` is the end of the wait, the child killed wherever it was or ended by itself, and only the second is sure to come |
| `Emit` | `emitEvent`: in the child it waits for room in the pipe |
| `broker` | the loop of `executeLinux`: position, sequence counter, terminal set, `detectedInstalled` |
| `SkipOperation`, `StartOperation`, `FinishDetect`, `FinishOperation`, `FailOperation` | the cases of its switch |
| `pipe` | events the child has written and the controller has not persisted; inside the controller, the one event being persisted |
| `PersistEvent`, `Save`, `PersistFails`, `SaveFails`, `PersistRefused` | `persistChildEventStream`, and the sink of `ExecutePartition` |
| `EnterUserPartition`, `Complete`, `ReportFailure` | the ends of a partition |
| `ChildDies` | refused sudo, forwarded Ctrl+C, a kill: what it had written still arrives |
| `Crash` | SIGKILL, power, Ctrl+C while no handler is installed: the pipe is lost |
| `OrphanEnds` | a package manager that outlives the broker, its effect landing or not |

A dry run executes both partitions inside the controller, detects for real and reports
`planned`. A plan is a sequence of operations with kind, privilege, target and
dependencies; the five prerequisite kinds are one kind, because the executor treats
them alike. A failed command may or may not have had its effect. Nothing makes
a kill succeed: `main.go:323` ignores its result, and the child is root's.

**Handoff.tla** goes inside the child that Session takes as one process that may die:
`runElevatedPartition` with its two goroutines, `sudo`, the broker and the package
manager in a process group of their own.

| model | code |
|---|---|
| `pc` and the actions of `Controller` | `runElevatedPartition` statement by statement, its deferred calls in their order |
| `watcher`, `Forward`, `HardStop`, `StandDown` | the goroutine and `interruptChild` with its ten-second timer |
| `BrokerDone` | the closed channel: from the first deferred call on |
| `Load` | the broker loads catalogs and plan and validates them, or fails before it does anything |
| `EmitStarted`, `EmitResult`, `BrokerExits` | the rest of `runInternalBroker` and the loop of `executeLinux`, every operation being one native command |
| `Write` | `emitEvent` to standard output: it waits for room, and a broken pipe kills the broker |
| `SudoDecides`, `SudoExits`, `StartManager`, `ManagerEnds` | assumptions about sudo and package managers |
| `CtrlC`, `ControllerDies` | the terminal, to which the child's group is not in the foreground |

Both `Kill` calls ignore their result, and a group that runs as root may refuse the
user's signals: `deliverable` is chosen at the beginning and either kind of system is
checked. A native command's output goes to a pipe of the broker's (`CombinedOutput`), so
a package manager does not hold the event stream open.

**WindowsSession.tla** is a Windows plan under the Go programs. One process does
everything, so there is no pipe; four commands of two programs reach `executeWindows`
on one journal: `SetupBroker` and `SetupResume` (`cowebs-setup`, real or dry),
`PreviewInstall` and `PreviewResume` (`cowebs`, which refuses a real run). It
instantiates Journal twice: `J` for the actions, and `Abstract` for the refinement, in
which a state file that `cowebs-setup broker` has not written yet is read as the state
that has seen no event (`Saved`). `winget list` is taken to tell the truth when it
ends with a code, and `winget install` to have done its work when it ends with 0.

**AtomicFile.tla** is the four places where a file that others read is replaced:
`atomicWrite` of the Linux adapter (keys and APT sources), `SaveState`, `SavePlan`, and
`DownloadVerified`. One action per system call that can fail, with crashes, power
failures and retries. `durable` is what the target may hold after a power failure: what
is flushed neither before nor after the rename may be empty or partial, and a rename may
be undone, because no writer flushes the directory. `failed` remembers which calls have
failed, so that the properties can say of which failures a promise is independent.

**LinuxAdapter.tla** goes inside the operations that Session takes as one step.
`Commands` says which native commands an operation is made of (`ExecuteInstall`,
`ExecutePrerequisite`, `ensureManager` with the snap socket, Fedora's `/snap` link and
the wait for the seed, `Execute` of a configuration intent); `RunCommand` and `FetchKey`
run them one at a time on a `host`, `CommandFails` and `Crash` stop the installation at
any of them, and `Start` resumes it with the operations that are not `recorded`.
`Precedes` is the order in which the two executors go through the plan, `Advance` the
step to the next operation, which forgets what was detected when the partition changes.
`AdapterPlan` of PlanContract says what the planner orders before what. Whether
a manager or the link is there is asked when `Begin` puts the commands together rather
than just before each: no other program touches the host meanwhile. `Works`, `Effect`
and `Remains` are assumptions about apt-get, dnf, snap, flatpak and systemctl, the
notable ones being that a command whose effect is there already succeeds (except the
creation of a link), that apt-get finishes a half-installed package, and that
`apt-get update` fails on a source whose key is not the right one. Files can be written, the
other end of a download answers, the commands of an intent are taken to work, and a successful
`atomicWrite` to have written (finding 4 is AtomicFile's). apt-get knows the packages of the
distribution only where its lists have been fetched (`lists`, `Listed`): hosts without them are
modelled, and on them the installation of a manager fails. The doctor does not look at the lists, and
Build has them fetched only with a third-party repository and after the managers
(`planner.go:279`, `242`), so `NothingIsDoomed` and `PlanIsAppliedInTheEnd` are conditional on
`Listed` as well as on `Healthy`. `RequiredManagers` and
`Healthy` are the doctor's verdict, with which the properties are stated: `native` says
which of the distribution's own managers a host has, and those the program can
provide (Snap, Flatpak, Flathub) need not be there. The doctor's other checks are warnings, or
`catalog.Load` (Planning).

**Planner.tla** is `planner.Build` followed by the validation every plan undergoes
before it is executed. The recursive `addPackage` is a walk with an explicit stack:
`Enter` is the head of the function (cycle and unknown package), `Visit` and `Descend`
its two call sites, `Return` its tail. `Assembled` is the rest of `Build`: conflicts,
missing providers, the privilege topology, and `Operations`, which makes of the package
IDs in order the operations with their identities, privileges and dependencies. A
`Request` names a profile and packs that the catalogs may not have; platform and
architecture are the target's, of those Build knows. `Validate` and `Compare` are `ValidateCanonical`, which
reconstructs the plan for both planner modes because a plan does not record its own.
`CatalogOK` is what Planner assumes of its catalogs; managers and privileges are any words in it.
`Understood` says which of them an executor has a use for: a privilege some partition
executes, a Flatpak scope that goes with it. Names, estimates and installation
options are left out; for Windows no operation but detection, installation and
configuration is planned.

**PlanContract.tla** is where the planner and the executors meet. Its first half says what
an executor takes for granted of a plan: `LinuxPlan` (assumed of its plan by Session),
`WindowsPlan` (by WindowsSession) and `AdapterPlan` (by LinuxAdapter). Its second half says
how each reads the operations that Planner builds: `ExecutorView` turns the IDs in
`dependsOn` into positions and keeps what the loops of the broker look at, `AdapterView`
what the adapter looks at. `PlansSuitExecutors` of Planning joins the two: every plan that
Build returns has under these views what the executors assume, if its words are understood. That
condition is needed: `Load` asks of a privilege only that it is not empty (`load.go:102`), Build
compares it with two words (`planner.go:227`), and an operation with another privilege belongs to
no partition, so that a run passes over it and reports success. The schemas in `schema/` allow no such word, but the
program does not apply them. Of everything else the three modules assume nothing that the program does not ensure.

**Catalog.tla** says which pairs of catalog files `Load` accepts, by operators named
after the parts of `validate`, and what Build sees of an accepted pair for a target
(`SelectProvider`, `CatalogsFor`). `IsDocument` is what the decoder makes of any two
files: ids may be missing, repeated or unknown, and every word any word. **Planning.tla** puts `Load` in front of Planner, as every command does, so that
`CatalogOK` has to follow from what `Load` checks. **SetupPlan.tla** puts `Resolve-SetupPlan` of the
PowerShell engine beside both. Its choice of profile and packs is read as Build's, and the older
catalogs as saying what those compiled from them say: neither is shown. What is compared is
what follows from one selection. There Add-Package calls itself: `AddPackages` is a recursive
function from a call (the packages to add, the callers above it, and what is resolved so
far or an exception on its way) to what the call leaves behind.

The theorems and their proofs are in a module of their own for each of these:
**JournalProofs**, **SessionProofs**, **WindowsSessionProofs**, **HandoffProofs**,
**AtomicFileProofs**, **LinuxAdapterProofs** and **PlannerProofs**, with
**PositionLemmas** for what several of them need. **MCJournal**,
**MCSession**, **MCWindowsSession**, **MCPlanning** and **MCLinuxAdapter** give bounds,
plans, catalog files and hosts; AtomicFile and Handoff are checked as they are.

The operators called *Variant of X* are plausible mistakes in the code of `X`; no
specification uses them. They show that the properties notice such mistakes.

## Runs

| run | question | result |
|---|---|---|
| `journal` | order, lag and truth of the two files over all histories | holds, 68,885 states |
| `session` | order of events, dependencies, partitions, truth of the journal, completeness, no repeated work; does every command end but for a child that outlives its kill, does resuming complete a real installation; refinement of Journal | holds, 193,766 states |
| `session_interrupted` | is the journal resumable after a crash between append and save | violated |
| `session_detected` | is a detected package left alone by a resumed run | violated |
| `session_failures` | is a completed state free of failures | violated |
| `handoff` | can an interrupt, the timer, the end of the stream and a failed save make a partition pass for complete, lose results, start commands behind a dead controller, or hang | holds, 10,555 states |
| `handoff_outlives` | can a package manager outlive an interrupted controller | violated |
| `windows_session` | are only missing packages installed, is the journal true and success complete, does resuming complete; refinement of Journal by two programs | holds, 166,683 states |
| `planner` | can Build work with whatever Load accepts, does it fail just when it must; are plans executable, for the target, what each executor takes them for if it knows their words, in the PowerShell engine's order, and accepted when they come back; does planning end, cycles or not | holds, 109,042 states |
| `linux_adapter` | on a host the doctor calls healthy and whose package lists were fetched, can everything a resume repeats succeed and does resuming apply the whole plan; is what is recorded in effect | holds, 37,019 states |
| `atomic_file` | which failures can harm which file, which can hide behind a success | holds, 23,041 states |
| `atomic_file_write` | does success mean written when Chmod or Write fails | violated |

The type invariants are not among the runs' properties: those of Journal, Session, Handoff,
LinuxAdapter and Planner are proved, the others are there for who changes a module: add
them to its cfg.

### What the violated runs show

1. `session_interrupted`: one event appended, its save cut off. The state file is one
   number behind, `AppendEvent` refuses that number for ever, `install` refuses the
   non-empty journal. `docs/Security.md:39` promises a resumable journal. The other
   side of the same refusal is the property `InterruptedIsFrozen`, which holds: no
   number is issued twice.
2. `session_detected`: detection ended as `succeeded`, the controller died before the
   install operation was reached. The resumed executor skips the detection and so does
   not know its result; it installs (`CHANGELOG.md:145` says this was fixed).
3. `session_failures`: a detection that could not start is recorded as failed; on
   resume it ends as `planned`, for which `ApplyEvent` has no case. The completed state
   has a failure, which `scripts/validate-linux-disposable.sh:124-125` rejects. One way
   there is a dry run on a host without the package manager, then a real resume.
4. `atomic_file_write`: the error of Chmod and Write is assigned to a shadowing
   variable; an empty or partial file is renamed into place and reported as success.
5. `handoff_outlives`: the forwarded Ctrl+C kills the broker, which installs no handler,
   while apt or dnf handles it and goes on. sudo exits, the stream ends, `Wait` returns,
   and the deferred `close(brokerDone)` cancels the hard stop, which would have reached
   the package manager ten seconds later (`docs/Security.md:39`).

More weaknesses are seen in the exceptions that passing properties make. They do not
catch these; they say that nothing else of the kind happens.

- `KeptUnlessMishandled` and `ErrorIsHarmless`: after a failed rename the adapter removes the target before it
  tries again (`linux.go:344`), so a second failure or a crash leaves nothing; and plans and
  downloads are renamed unflushed.
- `HandoffEnds`, `EveryCommandEnds` and `InstallationCompletes` (`Stuck`): a controller that may
  not kill its child and no longer reads its events waits for ever once the pipe is full
  (`main.go:323-324`). `InstallationCompletes` also excepts the files of finding 1 (`Frozen`).
- `InterruptLosesAtMostOne`: `docs/troubleshooting.md:98` says that the journal preserves completed
  operations; the one whose result the interrupt cuts off it does not.
- `PlansSuitExecutors`: words that no executor knows (`load.go:102`).
- `NothingIsDoomed` and `PlanIsAppliedInTheEnd`: package lists that nobody has fetched
  (`planner.go:279`).
- `RepositoriesServeTarget`: a provider that lists no architecture (`load.go:119`).

`AtMostOneMoreCommand` is about commands: that the temporary plan of a controller that dies stays
behind (`main.go:307`) is said by no property.

### Bounds, and why they are enough

- `journal`: two operations tell "this operation" from "another"; four lines allow an
  operation to fail, be retried and succeed with a foreign event between, over three
  processes.
- `session`: the plan has one operation of every kind, in both partitions, with
  dependencies inside and across them, and one manual configuration. `MaxFaults = 2`
  lets a fault hit a resumed run again. A command that continues an installation that is
  not done is never refused, so two interrupted runs can be followed by a complete one;
  `MaxExtras = 1` is for commands the installation does not need, a dry run with `--no-config` or a
  repetition, anywhere among them. The pipe of two events is full after one operation
  of the child, so a refused kill can meet it full or not. Any subset of the packages may be on the
  machine at the start. A fault that leaves the state file out of step with the journal
  ends in finding 1, where no resume can complete: `InstallationCompletes` excepts that
  (`Frozen`) and a command that is stuck behind a refused kill (`Stuck`), and nothing else; a dry run
  that completes does not satisfy it.
- `handoff`: two operations, so that one can be recorded while the other runs; a pipe of
  two events, which two operations fill; a second Ctrl+C meets the first one's
  grace period; one event that cannot be persisted, or a killed controller.
- `windows_session`: two packages, one of which any previous run may have installed;
  two faults let one hit a resumed run; one command more than the installation needs
  (`MaxExtras`) puts a preview, or a repetition after completion, anywhere.
- `planner`: three packages give chains, diamonds, shared roots, self-dependencies and
  longer cycles, in both orders of a dependency list; every manager, scope and missing
  provider occurs next to every other, two repositories overlap, profiles inherit (one
  parent twice), packs overlap, and both planner modes are requested. Each document is
  planned for Ubuntu on two architectures, for Fedora and for Windows. Some hold words no executor
  knows, a manager of another platform or a remote that two scopes claim. Twenty-five more
  break one rule of `validate` each, one request names a profile that is not there, and three profiles inherit from each other in
  every way, cycles included.
- `linux_adapter`: a plan with every kind of operation the platform has and every manager,
  one APT repository, an intent of two commands and one left to the user; hosts with
  and without each manager, with snapd half set up, another key, a leftover source, a
  half-installed package, and with APT lists that were never fetched. Two failures,
  crashes or dry runs let one hit the repetition of what another broke off.
- `atomic_file`: three attempts show what an attempt leaves meeting the next, twice.

Deadlock is checked in `journal` only: elsewhere the system may stop. A user gives no
command that is not needed after `MaxExtras`, and none when the plan is applied, an installation of a file is not
tried again after `MaxAttempts`, a planner returns. That nothing hangs is stated by
`EveryCommandEnds`, `HandoffEnds`, `PlanIsAppliedInTheEnd` and `PlanningEnds`, under fairness.

### Fairness

`FairSpec` assumes weak fairness of the executor and of the controller: the operating
system schedules both processes, a started package manager or probe comes to an end,
and a child that has ended can be waited for. Nothing makes a kill succeed, nor room in a pipe that nobody reads. The code has no timeout around a native command,
so the second is an assumption about the package managers, not a property of this
code. Nothing is assumed of the environment: orphans need not end, faults need not
happen. In the planner, which is a sequential function, fairness only says that it is
not abandoned. `PersistentSpec` adds a user who resumes whenever the installation has stopped
early (`install` again if nothing was saved). Under neither is the user assumed to
start anything else. `FairSpec` of LinuxAdapter and of
WindowsSession is this same user, and commands that end, well or not. In Handoff the two
goroutines, sudo and the broker are scheduled and ten seconds pass; nothing makes a
package manager end, a user press Ctrl+C, or a signal arrive.

## Proofs

TLC checks small instances; the theorems here hold for every value of the constants
that the modules' assumptions allow. Each one is a chain of the same kind: an inductive
invariant, a lemma that the initial states satisfy it, a lemma per action that the
action keeps it, and the property from it. What TLC can evaluate of an inductive
invariant was first checked as an invariant of the module's run.

### Journal

`JournalProofs.tla`, for any set of operations, any number of lines, crashes and
processes, from the single assumption that `NoState` is not a state:

- `TypeCorrect`: `Spec => []TypeOK`.
- `JournalOrder`: `Spec => [](SequencesIncrease /\ SnapshotLagsByOne)`, of which
  `NumbersIncrease` is the first half. Neither is inductive: whether an append keeps the
  order depends on what the writer knows. `OrderInv` adds `WriterInStep`: between two
  events the writer's memory is the state file; once it has looked at the journal it is at
  the journal's end; while an event awaits its save that event is the last line.
  `AcceptedIsBeyond` is the key lemma: where an append is accepted, every line is in the
  snapshot.
- `StateFileIsTrue`: `Spec => []SnapshotRecorded`. `RecordInv` says the same of the
  memory of an open writer; `VerdictBefore` and `VerdictAfter` say what one more event does
  to the last final status of an operation, `ApplyEventRecords` that `ApplyEvent` follows it.
- `StateFileValidates`: `Spec => []SnapshotValidates`, from the former: the last final
  event of an operation is one event (`OneVerdict`).
- `InterruptionFreezes`: `Spec => InterruptedIsFrozen`, with `WholeInv` (a writer that has
  looked at the journal found no torn line).

### An installation on Linux

`SessionProofs.tla`, for every plan whose dependencies come earlier, in which no machine
operation depends on a user operation and none on a configuration (`LinuxPlan`, which
`PlansSuitTheirExecutors` proves of what Planner builds), and for any mix of flags, faults and commands. The invariant `SessionInv` has
five parts, each resting on the one before:

1. `BaseInv`: who runs at which operation, and that events travel without a gap: the
   k-th in the pipe has number `mem.last + k`, and the executor, which counts by itself in
   another process, is at the number after the last of them. This is `StreamContinues`
   (`EventsContinueState`).
2. With the numbers right the controller never makes a step that Journal.tla does not
   have: `SessionImplementsJournal` proves the refinement `ImplementsJournal` action by
   action. Hence all theorems of JournalProofs hold of an installation's files, and
   `JournalInv` may be used as an invariant here (`JP` is JournalProofs of the
   controller's journal).
3. `WorkInv`: what the state file has as succeeded or skipped is in the terminal set the
   executor was given, or there is no event about it in the pipe and no intention to
   send one. It gives `RecordedIsKept` (`RecordedWorkIsKept`, an action property) and
   `RecordedIsNotRepeated`.
4. `TruthInv`: what the journal's lines, the events in the pipe and the executor say has
   been done is on the machine. It gives `JournalTellsTheTruth` and
   `DependenciesArePresent`: nothing looks at dependencies while executing; a partition
   stops at its first failure, and that is enough.
5. `EndInv`: each operation the executor has passed has an end, in the pipe or in the
   state, that is not taken back by a later event. It gives `ElevatedIsRecordedFirst`
   and `SuccessMeansComplete`.

`TypeCorrect` is the type invariant.

### A Windows plan under two programs

`WindowsSessionProofs.tla`, for every plan in which a detection comes before each
installation (`WindowsPlan`, which `PlansSuitTheirExecutors` proves of what Planner builds). `cowebs-setup broker` saves no state before its first event, so it is not
`snapshot` but `Saved` (the missing file read as the new state) that behaves as the state
file of Journal.tla: `WindowsImplementsJournal`, and `AP`, JournalProofs of that.
`WindowsInv` further says where the executor is (`PlaceInv`), that detections that were
passed have found what was there (`FoundInv`: `OnlyMissingIsInstalled`), that the
journal's lines are true of the machine (`WindowsJournalIsTrue`), and that the
installations that were passed are recorded (`DoneInv`: `WindowsSuccessIsComplete`).

### The hand-over to the privileged child

`HandoffProofs.tla`, for any number of operations, any capacity of the pipe, any number
of interrupts and faults, and on systems that deliver signals to root's processes as on
those that do not. The argument is accounting: `CountInv` says that the successes of
package managers are those recorded, plus those in the pipe (`Successes`, with lemmas
for both of its ends), plus the one the broker is about to report, plus, once the broker
was ended, at most one that nobody reports. `StageInv` and `ChildInv` tie the
controller's statement and the watching goroutine to what is alive; `LateInv` says what a
broker without a reader may still do. They give `UserPartitionComesAlone`,
`InterruptLosesOne`, `OneMoreCommand` and `TypeCorrect` (in which: no operation is counted
twice, and the pipe holds no more than it can).

### The replacement of files

`AtomicFileProofs.tla`, for any number of attempts of any of the four writers and any
faults: `FileIsKept`, `SuccessMeansWritten`, `ErrorLeavesTarget`. `FileInv` says at each
system call what the temporary file holds (`WholeInv`), that the target is untouched
until the rename (`UntouchedInv`), and which contents a power failure can bring back
(`KeptInv`).

### Inside the operations on Linux

`LinuxAdapterProofs.tla`, for every plan in an order that Build gives it
(`AdapterPlan`, again by `PlansSuitTheirExecutors`: managers, remotes, sources and index before what needs them, and one
key and one source operation for each repository), every host and any number of
failures, crashes and dry runs. `AdapterInv` adds to `RecordedIsInEffect`:

- `PassedInv`: in a real run everything that comes before the current operation, in the
  order of execution (`Precedes`), is recorded, and so in effect;
- `HandInv`: what is left of the current operation is a tail of its commands, the effect
  of those that are gone is there, and when nothing is left what the operation is for is
  in effect. For snapd the tail that is left decides what is already there
  (`ManagerInHand`), for an intent how many of its commands are (`SettingsInHand`);
- `DetectedInv`: what detection found installed stays so until the executor returns.

`EffectKeeps` and `RemainsKeeps` say that a command, whether it succeeds or fails, loses
nothing on the host but the file of its own operation, which is not recorded then;
`SourcesAreReady` that every source of the plan has its verified key when the index is
renewed, so that renewing it loses nothing either. Hence `RecordedStaysInEffect`. From
the same invariant `NoCommandIsDoomed` proves `NothingIsDoomed`: on a host the doctor
calls healthy and whose package lists were fetched, no command is started that cannot succeed.

Two corrections of the model came out of these proofs: the executor of the user's
operations starts without what the other one has detected, and a dry run records what is
left to the user of a *configuration* only, whatever an operation's subject is called.

### Plans

`PlannerProofs.tla`, for every catalog that `Load` accepts (`CatalogsAssumption`) and every
request, in four steps:

1. `WalkOrders` (`OrderRespectsDependencies`). `WalkInv` adds to the property what each
   call in progress is through with (`Stacked`): its dependencies so far are in the
   order, except the one it waits for. `Push`, `Finished`, `Join` and `Pop` say this of
   lists alone; the actions follow.
2. `TypeCorrect` and `FailsJustly` (`BuildIsJust`). `PlanInv` adds `Reaching`: the walk stays
   within the closure of the selection, forgets nothing of it, and each call in progress
   needs those above it, so a cycle met is a cycle of the catalog; conversely what is in
   the order cannot need itself (`NothingNeedsItself`: look at the first that does), and
   a user package needed by a machine package at any distance is needed directly
   somewhere on the way (`ElevatedAllTheWay`).
3. `BuiltPlansExecute` (`PlanIsExecutable`) and `SourcesComeFirst` (`InstallsWaitForSources`).
   The operations are five sections. Each is `Orderly`: what an operation depends on is
   before it in the section or in one of those before, and no identity comes twice;
   `SectionJoin` puts sections together. `WaitingNow` then goes from an installation to
   the refresh, from the refresh to the source, from the source to its key.
4. `CanonicalPlans` (`BuiltIsCanonical`). Validation builds the plan again from its own
   packs, so two things have to be shown: what was selected selects itself and nothing
   else, in the same order (`UniqueAgain`, `SelectedAgain`), and two walks from the same
   beginning end in the same order (`OneOutcome`: the walk is a function, `Step`, of where
   it stands). The second try is needed because the essentials-only mode is not in the
   plan; `CompareAccepts` shows that one of the two tries succeeds.

`Unique`, `Lineage`, `FlattenSeq`, the waiting set and `AddPackages` are recursive functions. What
they compute is proved without an induction theorem: a function that satisfies the recursion
up to some point exists (`UniquingExists`, `WaitingExists`), by looking at the first
point for which it would not, so that the CHOOSE in the definition has something to choose.

The same module then proves of `PlanningSpec`, for any files, targets and requests:

- `LoadsJustly` (`LoadIsJust`): what `Load` accepts Build can work with, and files it refuses for their
  inheritance alone hold a cycle. `AcceptedIsOK` goes through `CatalogOK` field by field, and
  `RefusedForACycle` is the other half. The hard part is inheritance:
  `validateProfileGraph` follows paths, `CatalogOK` speaks of sets. `InheritanceIsAcyclic`
  connects them: on a set without a way out one could walk up for ever, and a path of
  more profiles than there are meets itself (`ClimbsNoCycle`, by the pigeonhole
  principle); and a path that comes back makes such a set (`NoCycleClimbs`).
- `LoadedPlansHold`: the five properties above, of the plans of every accepted pair of
  files. `Loading`, its invariant, has `PlanInv` as the part that holds once `Load` has
  returned, so nothing is assumed of catalogs here but that files decode to records of strings
  and lists (`DocumentsAssumption`).
- `PlansServeTarget` (`RepositoriesServeTarget`).
- `PlansSuitTheirExecutors` (`PlansSuitExecutors`): the composition, for plans whose words the executors
  know (`AllUnderstood`). `OperationsFollow`
  puts the plan in the form in which it is read: distinct operations, of the five sections'
  kinds, each of which depends on earlier ones that it can rely on (`Follows`). `ExecutorsSuited` carries `PlanIsExecutable` over to positions
  and finds the detection before each installation; `ManagersAhead`, `SourcesAhead` and
  `AdapterReadings` find for the adapter the manager, remote, key, source and index of each
  operation among those before it, in the same partition or the machine's.
- `EnginesResolveAlike` (`EnginesAgree`): from one selection, the PowerShell engine's recursion and Build's walk
  leave the same packages in the same order, and stop at the same cycles and conflicts. Two
  arguments are needed. First, that `AddPackages` is what its recursive definition says:
  `SolutionExists`, because a call is refused to its own callers and so each call leads only
  to calls that are smaller (fewer packages that are not callers, or as many and fewer
  still to add: `Smaller`, `LeastCall`), and `SolutionsAgree`, because two answers would
  differ first at a least call. This takes that the packages are finitely many, which
  `PackagesFinite` has from the file. Second, the invariant `Resolving` relates every state
  of the walk to the calls: unwinding the stack from its top, each frame being a call with
  the rest of its dependencies still to add (`Unwinding`), and going on with the roots comes
  to one and the same outcome (`ComesTo`), which at the end is the order. `WalkVisits`,
  `WalkDescends` and `WalkReturns` are its steps; `ThrownThrough` takes an exception through
  all the callers, when Build gives up in one step.

Three corrections of the model came out of these proofs: `CatalogOK` had not said that
inheritance has no cycle, a request for an unknown profile was impossible rather than
refused, and what a decoder may return was not stated.

### Lists

`PositionLemmas.tla` has the facts the proofs share: the least of a set of positions,
which the community modules define by CHOOSE, is what its name says (`FirstPosition`);
what `FlattenSeq` returns, position by position (`FlattenLayout`, `FlattenPairs`); counting
up (`CountUp`). The library has no induction a prover here can instantiate, so the first
follows from the well-foundedness of the strict subsets of a finite set, and the others
from the first.

### Model-checked only

- Liveness: `EveryCommandEnds`, `InstallationCompletes`, `HandoffEnds`,
  `PlanIsAppliedInTheEnd`, `PlanningEnds` and the like. It needs fairness and ENABLED,
  which are out of the prover's reach.
- The properties of the runs that expect a violation: their counterexamples are the
  result.

## What is left

1. **Names**: the two prerequisites that share a file (`load.go:82`), with file names in
   LinuxAdapter.
2. **Release manifests** and the doctor's checks other than those of package managers.

## Not modelled

- Two controllers on one journal path (`main.go:224`): no lock, and nothing promised.
- An update of the catalogs between the two loads (`main.go:389`): the child then fails
  before it does anything, which is modelled as a child that does.
- Two prerequisites that share a keyring or sources file (`load.go:82`).
- Release manifests: validation of single fields and signatures.
- How `setup.ps1` chooses profile and packs (lines 185-243), and what converting the older catalogs
  preserves (`convert-catalog-v2-to-v3.ps1`).
- In the PowerShell engine, everything else but the order and conflicts of its plan: it installs one package
  after another and keeps counters, a log and no state.
- Rendering, flags, completion, status, HTTP, the Linux launcher, build and packaging
  scripts and the data files: pure input and output or build-time tooling.
