--------------------------- MODULE DeliveryRecord ---------------------------
(***************************************************************************)
(* What the cockpit and the digest rely on of a row's delivery status: it  *)
(* belongs to a row that knows its message id, it only ever gets worse,    *)
(* and what is known of a bounce (its classification, and that an operator *)
(* has looked at it) is not lost again.                                    *)
(***************************************************************************)
EXTENDS Naturals

CONSTANTS Emails

VARIABLE record  \* per email: what the row it belongs to says of it

Status == {"pending", "delivered", "bounced", "complained"}

\* STATUS_RANK.
Rank(status) == CASE status = "pending" -> 0
                  [] status = "delivered" -> 1
                  [] OTHER -> 2

\* `stamped` is whether the row knows the email's message id: "awaited", "yes", or
\* "lost" when it never will.  `classified` is a stored bounce_type, `acked` is
\* bounce_ack_at.
Record == [stamped : {"awaited", "yes", "lost"}, status : Status,
           classified : BOOLEAN, acked : BOOLEAN]

NewRecord == [stamped |-> "awaited", status |-> "pending", classified |-> FALSE,
              acked |-> FALSE]

Init == record = [e \in Emails |-> NewRecord]

\* The row learns the message id, or never does.
Settle(e) ==
    /\ record[e].stamped = "awaited"
    /\ \E stamped \in {"yes", "lost"} : record' = [record EXCEPT ![e].stamped = stamped]

\* An event is recorded: never one that says less than the row does.
Raise(e, status) ==
    /\ record[e].stamped = "yes"
    /\ Rank(status) >= Rank(record[e].status)
    /\ \E classified \in BOOLEAN :
          /\ record[e].classified => classified
          /\ record' = [record EXCEPT ![e].status = status, ![e].classified = classified]

Acknowledge(e) ==
    /\ record[e].status = "bounced" /\ ~record[e].acked
    /\ record' = [record EXCEPT ![e].acked = TRUE]

Next == \E e \in Emails : \/ Settle(e)
                          \/ \E status \in Status : Raise(e, status)
                          \/ Acknowledge(e)

Spec == Init /\ [][Next]_record
=============================================================================
