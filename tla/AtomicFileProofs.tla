--------------------------- MODULE AtomicFileProofs ---------------------------
(***************************************************************************)
(* What AtomicFile.tla's run checks for three attempts, for any number of  *)
(* attempts of any of the four writers and any faults: what a reader may   *)
(* find, what a success means and what an error leaves behind.             *)
(***************************************************************************)
EXTENDS AtomicFile, TLAPS

\* Where the contents of the temporary file are decided.
Staged == {"flush", "commit", "clear", "retry", "commit_state", "commit_plain"}

\* Every writer is at one of its own system calls; between attempts it is idle.
PlaceInv ==
  /\ writer \in WriterKinds
  /\ pc \in {"prepare", "flush", "commit", "clear", "retry"} => writer = "apt"
  /\ pc = "commit_state" => writer = "state"
  /\ pc = "commit_plain" => writer \in {"plan", "release"}
  /\ pc \in {"idle", "prepare"} \cup Staged
  /\ target \in durable

\* What is about to be renamed is whole, unless Prepare went on after a failed
\* Write, and a success is the end of an attempt.
WholeInv ==
  /\ result = "ok" => pc = "idle"
  /\ ~(writer = "apt" /\ "write" \in failed) =>
       /\ pc \in Staged => temporary = "new"
       /\ SuccessIsWritten

\* An attempt under way, or one that ended in an error, has not changed the
\* target, but for the removal before the second rename.
UntouchedInv ==
  pc # "idle" \/ result = "error" =>
    \/ target = previous
    \/ writer = "apt" /\ target = "absent" /\ pc \in {"idle", "retry"}

Mishandled == writer = "apt" /\ failed \cap {"write", "rename"} # {}
Flushes == writer \in {"apt", "state"}

\* Nothing but the first contents and the new ones was ever given the target's
\* name by a writer that flushes, so a power failure cannot bring back anything
\* else; a writer that does not flush is as good as long as the power lasts.
KeptInv ==
  ~Mishandled =>
    /\ pc \notin {"clear", "retry"}
    /\ "power" \notin failed => target \in {previous, "new"}
    /\ Flushes => durable \subseteq {initial, "new"}
    /\ pc \in {"commit", "commit_state"} => flushed

FileInv == PlaceInv /\ WholeInv /\ UntouchedInv /\ KeptInv

-----------------------------------------------------------------------------
LEMMA FileInit == Init => FileInv
BY AtomicFileAssumption
   DEF Init, FileInv, PlaceInv, WholeInv, UntouchedInv, KeptInv, Staged, SuccessIsWritten

LEMMA AptStep == FileInv /\ Apt => FileInv'
<1> USE DEF FileInv, PlaceInv, WholeInv, UntouchedInv, KeptInv, Staged, SuccessIsWritten,
            Mishandled, Flushes, WriterKinds, Fails, Works, Return, Begin, Rename, KeepTarget
<1>1. FileInv /\ CreateTemp => FileInv'
  BY DEF CreateTemp
<1>2. FileInv /\ Prepare => FileInv'
  BY DEF Prepare
<1>3. FileInv /\ Flush => FileInv'
  BY DEF Flush
<1>4. FileInv /\ Commit => FileInv'
  BY DEF Commit
<1>5. FileInv /\ Clear => FileInv'
  BY DEF Clear
<1>6. FileInv /\ Retry => FileInv'
  BY DEF Retry
<1> QED BY <1>1, <1>2, <1>3, <1>4, <1>5, <1>6 DEF Apt

LEMMA StateStep == FileInv /\ State => FileInv'
<1> USE DEF FileInv, PlaceInv, WholeInv, UntouchedInv, KeptInv, Staged, SuccessIsWritten,
            Mishandled, Flushes, WriterKinds, Fails, Works, Return, Begin, Rename, KeepTarget
<1>1. FileInv /\ SaveState => FileInv'
  BY DEF SaveState
<1>2. FileInv /\ CommitState => FileInv'
  BY DEF CommitState
<1> QED BY <1>1, <1>2 DEF State

LEMMA PlainStep == FileInv /\ Plain => FileInv'
<1> USE DEF FileInv, PlaceInv, WholeInv, UntouchedInv, KeptInv, Staged, SuccessIsWritten,
            Mishandled, Flushes, WriterKinds, Fails, Works, Return, Begin, Rename, KeepTarget
<1>1. FileInv /\ SavePlan => FileInv'
  BY DEF SavePlan, WriteFile
<1>2. FileInv /\ DownloadVerified => FileInv'
  BY DEF DownloadVerified, WriteFile, Responses
<1>3. FileInv /\ CommitPlain => FileInv'
  BY DEF CommitPlain
<1> QED BY <1>1, <1>2, <1>3 DEF Plain

LEMMA FileStep == FileInv /\ [Next]_vars => FileInv'
<1> SUFFICES ASSUME FileInv, [Next]_vars PROVE FileInv'
  OBVIOUS
<1>1. CASE Crash
  BY <1>1 DEF Crash, Fails, KeepTarget, FileInv, PlaceInv, WholeInv, UntouchedInv, KeptInv,
              Staged, SuccessIsWritten, Mishandled, Flushes
<1>2. CASE PowerFails
  BY <1>2 DEF PowerFails, Fails, FileInv, PlaceInv, WholeInv, UntouchedInv, KeptInv,
              Staged, SuccessIsWritten, Mishandled, Flushes
<1>3. CASE WriteBack
  BY <1>3 DEF WriteBack, FileInv, PlaceInv, WholeInv, UntouchedInv, KeptInv,
              Staged, SuccessIsWritten, Mishandled, Flushes
<1>4. CASE UNCHANGED vars
  BY <1>4 DEF vars, FileInv, PlaceInv, WholeInv, UntouchedInv, KeptInv,
              Staged, SuccessIsWritten, Mishandled, Flushes
<1> QED BY <1>1, <1>2, <1>3, <1>4, AptStep, StateStep, PlainStep DEF Next

LEMMA FileInvHolds == Spec => []FileInv
BY FileInit, FileStep, PTL DEF Spec

-----------------------------------------------------------------------------
\* Over any number of attempts, crashes, downloads and power failures a reader
\* finds what was there or the whole new contents, but for `apt` after a Write
\* or a rename whose failure it mishandles, and for the two writers that do not
\* flush once the power has failed.
THEOREM FileIsKept == Spec => []KeptUnlessMishandled
<1>1. FileInv => KeptUnlessMishandled
  BY DEF FileInv, PlaceInv, KeptInv, Mishandled, Flushes, WriterKinds,
         KeptUnlessMishandled, OldOrNew
<1> QED BY <1>1, FileInvHolds, PTL

\* Whatever fails, and however often it is tried again, a replacement reported
\* successful has put the right data there, unless `apt` ignored a failed Write.
THEOREM SuccessMeansWritten == Spec => []WrittenUnlessWriteFails
<1>1. FileInv => WrittenUnlessWriteFails
  BY DEF FileInv, WholeInv, WrittenUnlessWriteFails
<1> QED BY <1>1, FileInvHolds, PTL

\* An attempt that returns an error leaves the target as the attempt found it, or,
\* if the writer is `apt`, removed: never partly written.
THEOREM ErrorLeavesTarget == Spec => []ErrorIsHarmless
<1>1. FileInv => ErrorIsHarmless
  BY DEF FileInv, UntouchedInv, ErrorIsHarmless
<1> QED BY <1>1, FileInvHolds, PTL
=============================================================================
