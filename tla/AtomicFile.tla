----------------------------- MODULE AtomicFile -----------------------------
(***************************************************************************)
(* The four places where the program replaces a file that others read:     *)
(*   apt      Adapter.atomicWrite of internal/adapter/linux/linux.go, for  *)
(*            a verified repository key or an APT source;                  *)
(*   state    Journal.SaveState of internal/journal/journal.go;            *)
(*   plan     atomicWrite of internal/application/service.go, for the      *)
(*            plan `cowebs plan` saves;                                    *)
(*   release  Client.DownloadVerified of internal/release/release.go.      *)
(* Each stages the data beside the target and renames it, with one action  *)
(* per system call that can fail, and no two do it alike.  Contents are    *)
(* what tells two of them apart: the data to be written ("new"), what was  *)
(* there at the beginning, a part of the data, nothing.  A replacement     *)
(* that failed or was cut off is tried again, at most MaxAttempts times.   *)
(*                                                                         *)
(* Processes read `target`; a power failure leaves one of `durable`: what  *)
(* the disk had, what was renamed since (no writer flushes the directory), *)
(* and, when that was not flushed, an empty or a partial file.             *)
(***************************************************************************)
EXTENDS Naturals

CONSTANTS Writers, Faults, MaxAttempts

WriterKinds == {"apt", "state", "plan", "release"}
FaultKinds == {"create", "write", "flush", "rename", "remove", "download", "crash", "power"}

ASSUME AtomicFileAssumption ==
  Writers \subseteq WriterKinds /\ Faults \subseteq FaultKinds /\ MaxAttempts \in Nat

VARIABLES
  writer,    \* which of the four this is
  pc,        \* the next system call, "idle" outside the function
  target,    \* contents of the target path
  initial,   \* what it held at the beginning
  previous,  \* what it held when this attempt began
  temporary, \* contents of this attempt's temporary file
  flushed,   \* and whether they are on the disk
  durable,   \* what the target may hold after a power failure
  result,    \* what the last attempt returned
  failed,    \* the calls that have failed in any attempt
  attempts

vars == <<writer, pc, target, initial, previous, temporary, flushed, durable,
          result, failed, attempts>>

Init ==
  /\ writer \in Writers
  /\ pc = "idle" /\ target \in {"absent", "old", "new"}
  /\ initial = target /\ previous = target /\ durable = {target}
  /\ temporary = "absent" /\ flushed = FALSE
  /\ result = "none" /\ failed = {} /\ attempts = 0

Fails(call) == call \in Faults /\ failed' = failed \cup {call}
Works == UNCHANGED failed

\* Every return of atomicWrite and SaveState: the temporary file is removed.
Return(r) == pc' = "idle" /\ result' = r /\ temporary' = "absent" /\ flushed' = FALSE

\* A new attempt of this writer.
Begin(w) ==
  /\ writer = w /\ pc = "idle" /\ attempts < MaxAttempts
  /\ attempts' = attempts + 1 /\ previous' = target

\* The temporary file takes the target's name.
Rename ==
  /\ target' = temporary
  /\ durable' = durable \cup {temporary} \cup (IF flushed THEN {} ELSE {"empty", "partial"})

KeepTarget == UNCHANGED <<target, durable>>

-----------------------------------------------------------------------------
(* apt *)

CreateTemp ==
  /\ Begin("apt")
  /\ \/ pc' = "prepare" /\ temporary' = "empty" /\ result' = "none" /\ Works /\ UNCHANGED flushed
     \/ Fails("create") /\ Return("error")
  /\ KeepTarget /\ UNCHANGED <<writer, initial>>

\* Chmod and Write.  Their error is assigned to the err of the if statement
\* (lines 326-328), so whatever happens the function goes on to Sync.
Prepare ==
  /\ pc = "prepare" /\ pc' = "flush"
  /\ \/ temporary' = "new" /\ Works
     \/ Fails("write") /\ temporary' \in {"empty", "partial"}
  /\ KeepTarget /\ UNCHANGED <<writer, initial, previous, flushed, result, attempts>>

\* Sync and Close.
Flush ==
  /\ pc = "flush"
  /\ \/ pc' = "commit" /\ flushed' = TRUE /\ Works /\ UNCHANGED <<result, temporary>>
     \/ Fails("flush") /\ Return("error")
  /\ KeepTarget /\ UNCHANGED <<writer, initial, previous, attempts>>

\* Nothing to do when the target holds the data; otherwise the first rename.
Commit ==
  /\ pc = "commit"
  /\ \/ target = "new" /\ Return("ok") /\ Works /\ KeepTarget
     \/ target # "new" /\ Return("ok") /\ Works /\ Rename
     \/ /\ target # "new" /\ Fails("rename") /\ pc' = "clear"
        /\ KeepTarget /\ UNCHANGED <<temporary, flushed, result>>
  /\ UNCHANGED <<writer, initial, previous, attempts>>

\* Variant of Clear: the target is truncated instead of removed.
ClearByTruncating ==
  /\ pc = "clear" /\ pc' = "retry"
  /\ target' = "empty" /\ durable' = durable \cup {"empty"}
  /\ UNCHANGED <<writer, initial, previous, temporary, flushed, result, failed, attempts>>

\* os.Remove of the target, its error ignored.
Clear ==
  /\ pc = "clear" /\ pc' = "retry"
  /\ \/ target' = "absent" /\ durable' = durable \cup {"absent"} /\ Works
     \/ Fails("remove") /\ KeepTarget
  /\ UNCHANGED <<writer, initial, previous, temporary, flushed, result, attempts>>

Retry ==
  /\ pc = "retry"
  /\ \/ Rename /\ Return("ok") /\ Works
     \/ Fails("rename") /\ Return("error") /\ KeepTarget
  /\ UNCHANGED <<writer, initial, previous, attempts>>

-----------------------------------------------------------------------------
(* state *)

\* Variant of SaveState: a Write that fails is not noticed.
SaveStateUnchecked ==
  /\ Begin("state")
  /\ pc' = "commit_state" /\ temporary' \in {"new", "partial"} /\ flushed' = TRUE
  /\ result' = "none"
  /\ Works /\ KeepTarget /\ UNCHANGED <<writer, initial>>

\* SaveState up to the rename: open, write, flush, close, removing what could
\* not be written.
SaveState ==
  /\ Begin("state")
  /\ \/ /\ pc' = "commit_state" /\ temporary' = "new" /\ flushed' = TRUE
        /\ result' = "none" /\ Works
     \/ \E call \in {"create", "write", "flush"} : Fails(call) /\ Return("error")
  /\ KeepTarget /\ UNCHANGED <<writer, initial>>

CommitState ==
  /\ pc = "commit_state"
  /\ \/ Rename /\ Return("ok") /\ Works
     \/ Fails("rename") /\ Return("error") /\ KeepTarget
  /\ UNCHANGED <<writer, initial, previous, attempts>>

-----------------------------------------------------------------------------
(* plan and release *)

\* os.WriteFile leaves what it could write, and nothing flushes it.
WriteFile ==
  \/ pc' = "commit_plain" /\ temporary' = "new" /\ result' = "none" /\ Works
  \/ Fails("create") /\ pc' = "idle" /\ result' = "error" /\ UNCHANGED temporary
  \/ /\ Fails("write") /\ pc' = "idle" /\ result' = "error"
     /\ temporary' \in {"empty", "partial"}

SavePlan ==
  /\ Begin("plan") /\ WriteFile
  /\ KeepTarget /\ UNCHANGED <<writer, initial, flushed>>

\* What an HTTP client may be handed for the artifact the manifest declares.
Responses == {"declared", "short", "long", "altered", "refused"}

\* Variant of DownloadVerified: only the size is compared.
DownloadSized ==
  /\ Begin("release")
  /\ \E response \in {"declared", "altered"} :
       /\ pc' = "commit_plain" /\ result' = "none" /\ Works
       /\ temporary' = IF response = "declared" THEN "new" ELSE "altered"
  /\ KeepTarget /\ UNCHANGED <<writer, initial, flushed>>

\* download, the comparison of size and digest, and WriteFile.
DownloadVerified ==
  /\ Begin("release")
  /\ \E response \in Responses :
       IF response = "declared" THEN WriteFile
       ELSE Fails("download") /\ pc' = "idle" /\ result' = "error" /\ UNCHANGED temporary
  /\ KeepTarget /\ UNCHANGED <<writer, initial, flushed>>

CommitPlain ==
  /\ pc = "commit_plain"
  /\ \/ Rename /\ Return("ok") /\ Works
     \/ Fails("rename") /\ Return("error") /\ KeepTarget
  /\ UNCHANGED <<writer, initial, previous, attempts>>

-----------------------------------------------------------------------------
(* The machine *)

\* The process is killed.
Crash ==
  /\ pc # "idle" /\ Fails("crash")
  /\ pc' = "idle" /\ result' = "crashed" /\ temporary' = "absent" /\ flushed' = FALSE
  /\ KeepTarget /\ UNCHANGED <<writer, initial, previous, attempts>>

PowerFails ==
  /\ Fails("power")
  /\ target' \in durable /\ durable' = {target'}
  /\ pc' = "idle" /\ result' = "crashed" /\ temporary' = "absent" /\ flushed' = FALSE
  /\ UNCHANGED <<writer, initial, previous, attempts>>

\* The system writes its caches back.
WriteBack ==
  /\ durable # {target} /\ durable' = {target}
  /\ UNCHANGED <<writer, pc, target, initial, previous, temporary, flushed,
                 result, failed, attempts>>

Apt == CreateTemp \/ Prepare \/ Flush \/ Commit \/ Clear \/ Retry
State == SaveState \/ CommitState
Plain == SavePlan \/ DownloadVerified \/ CommitPlain

Next == Apt \/ State \/ Plain \/ Crash \/ PowerFails \/ WriteBack

Spec == Init /\ [][Next]_vars

-----------------------------------------------------------------------------
\* A reader, at any moment, finds what was there before the attempt or the whole
\* new contents: the "flushed atomic replacement" of CHANGELOG.md:103.  After a
\* power failure it may be an earlier version, but a whole one.
OldOrNew ==
  target \in {"new"} \cup IF "power" \in failed THEN {initial} ELSE {previous}

\* A replacement reported successful has put the right data there
\* (docs/architecture.md:51: "verified atomic APT prerequisites").
SuccessIsWritten == result = "ok" => target = "new"

\* OldOrNew holds for the four writers over any number of attempts, crashes,
\* downloads and power failures, but for two cases: `apt` after a Write or a
\* rename whose failure it mishandles, and after a power failure the two that
\* do not flush.
KeptUnlessMishandled ==
  \/ writer = "apt" /\ failed \cap {"write", "rename"} # {}
  \/ writer \in {"plan", "release"} /\ "power" \in failed
  \/ OldOrNew

\* The only writer that reports success for data it has not written is `apt`.
WrittenUnlessWriteFails ==
  ~(writer = "apt" /\ "write" \in failed) => SuccessIsWritten

\* An attempt that returns an error has not half-written the target, whatever
\* failed before; only `apt` may have removed it.  An operation recorded as failed
\* can be tried again.
ErrorIsHarmless ==
  result = "error" =>
    target = previous \/ (writer = "apt" /\ target = "absent")
=============================================================================
