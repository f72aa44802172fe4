---------------------------- MODULE MCDraftQueue ----------------------------
(* Instances of DraftQueue for TLC. *)
EXTENDS DraftQueue

AllPrograms == {"nightly", "announce", "launch", "manual"}

\* The programs that look for a row before they make one.
Scheduled == {"nightly", "announce"}
=============================================================================
