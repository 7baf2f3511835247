------------------------------ MODULE MCJournal ------------------------------
(* Bounds for the journal alone: events are appended until MaxLines lines.  *)
EXTENDS Journal

CONSTANT MaxLines

MCNext ==
  \/ OpenNew
  \/ OpenResume
  \/ /\ Len(lines) < MaxLines
     /\ \E ev \in NextEvent : AppendEvent(ev) \/ RefuseEvent(ev) \/ AppendFails(ev)
  \/ SaveState
  \/ SaveFails
  \/ Close

MCSpec == Init /\ [][MCNext]_jvars
=============================================================================
