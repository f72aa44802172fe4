--------------------------- MODULE ReportDelivery ---------------------------
(***************************************************************************)
(* What the approval loop promises about one client email, with no queue,  *)
(* no claim, no batch and no sessions: a report is delivered only while an *)
(* approval stands, at most once while Resend remembers the last delivery; *)
(* it is recorded as sent only once it was delivered; sent and withdrawn   *)
(* are for good, and a withdrawn report is never delivered.                *)
(*                                                                         *)
(* It does not promise that an approval cannot be taken back after a       *)
(* delivery: the code does not keep that (ReportSend!NoUnapproveAfterEmail)*)
(***************************************************************************)
EXTENDS Naturals

CONSTANT Reports

VARIABLES
    phase,      \* "open", "approved", "withdrawn" or "sent"
    delivered,  \* how many times the email left
    window      \* whether Resend still refuses a second one

vars == <<phase, delivered, window>>

Init ==
    /\ phase = [r \in Reports |-> "open"]
    /\ delivered = [r \in Reports |-> 0]
    /\ window = [r \in Reports |-> FALSE]

Move(r, from, to) ==
    /\ phase[r] = from
    /\ phase' = [phase EXCEPT ![r] = to]
    /\ UNCHANGED <<delivered, window>>

Approve(r) == Move(r, "open", "approved")

Unapprove(r) == Move(r, "approved", "open")

Withdraw(r) == Move(r, "open", "withdrawn")

Deliver(r) ==
    /\ phase[r] = "approved"
    /\ ~window[r]
    /\ delivered' = [delivered EXCEPT ![r] = @ + 1]
    /\ window' = [window EXCEPT ![r] = TRUE]
    /\ UNCHANGED phase

Record(r) == delivered[r] > 0 /\ Move(r, "approved", "sent")

Forget(r) ==
    /\ window' = [window EXCEPT ![r] = FALSE]
    /\ UNCHANGED <<phase, delivered>>

Next ==
    \E r \in Reports :
        \/ Approve(r)
        \/ Unapprove(r)
        \/ Withdraw(r)
        \/ Deliver(r)
        \/ Record(r)
        \/ Forget(r)

Spec == Init /\ [][Next]_vars
=============================================================================
