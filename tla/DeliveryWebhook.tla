--------------------------- MODULE DeliveryWebhook --------------------------
(***************************************************************************)
(* Resend's delivery events on their way to the row they are about.  An    *)
(* email is a report's, a lead's notification, or neither's (the digest).  *)
(* The webhook finds the row by the message id, which the send batch or    *)
(* the ingest tail stamps a moment after Resend accepted the email, or     *)
(* loses; svix delivers an event again for as long as it is not answered   *)
(* with a 200.  Each of the handler's awaits is a step: it reads the row's *)
(* status in one request to the store and writes the new one in another.   *)
(***************************************************************************)
EXTENDS Naturals

CONSTANTS
    Emails,
    Overlap,    \* whether two deliveries about one email are handled at once
    LateStamps, \* whether a stamp may come later than ORPHAN_RETRY_WINDOW_MS
    MaxFaults   \* bound: failed requests, dead handlers and lost answers

ASSUME DeliveryWebhookAssumption ==
    /\ Overlap \in BOOLEAN
    /\ LateStamps \in BOOLEAN
    /\ MaxFaults \in Nat

VARIABLES
    owner,   \* per email: the kind of row it belongs to, if any
    record,  \* per email: what its row says (DeliveryRecord)
    event,   \* per email and type: the event and the handler that has it
    faults

vars == <<owner, record, event, faults>>

Promise == INSTANCE DeliveryRecord

-----------------------------------------------------------------------------
\* Mutant: a delayed delivery is mapped too.
DelayedTypesMutant == {"delivered", "bounced", "complained", "delayed"}

\* STATUS_MAP; email.delivery_delayed maps to nothing.
Types == {"delivered", "bounced", "complained"}

Rank(status) == Promise!Rank(status)

\* isStatusDowngrade.
IsDowngrade(current, incoming) == Rank(incoming) < Rank(current)

\* `pc` is "none" until Resend has the event, "queued" while svix is to deliver it,
\* the handler's next step while one has it, "acked" once svix has its 200.  `old`
\* is an event past ORPHAN_RETRY_WINDOW_MS.
Event == [pc : {"none", "queued", "lead", "report", "write", "acked"}, old : BOOLEAN]

NoEvent == [pc |-> "none", old |-> FALSE]

InFlight(e, t) == event[e][t].pc \in {"lead", "report", "write"}

Goto(e, t, pc) == event' = [event EXCEPT ![e][t].pc = pc]

Fault == faults < MaxFaults /\ faults' = faults + 1

\* The handler's answer: a 200 that svix hears, or one it does not, or a 500.
Acked(e, t) ==
    \/ Goto(e, t, "acked") /\ UNCHANGED faults
    \/ Goto(e, t, "queued") /\ Fault

Refused(e, t) == Goto(e, t, "queued")

-----------------------------------------------------------------------------
(* Resend and svix *)

\* A complaint is about a delivered email; a bounce may follow a delivery.
Emit(e, t) ==
    /\ event[e][t].pc = "none"
    /\ t = "complained" => event[e]["delivered"].pc # "none"
    /\ t = "delivered" => event[e]["bounced"].pc = "none"
    /\ Goto(e, t, "queued")
    /\ UNCHANGED <<owner, record, faults>>

\* Ten minutes pass.  With LateStamps FALSE the stamp has come by then, if ever, and
\* by longer than a handler runs.
Age(e, t) ==
    /\ event[e][t].pc \notin {"none", "acked"} /\ ~event[e][t].old
    /\ LateStamps \/ (record[e].stamped # "awaited" /\ ~InFlight(e, t))
    /\ event' = [event EXCEPT ![e][t].old = TRUE]
    /\ UNCHANGED <<owner, record, faults>>

Deliver(e, t) ==
    /\ event[e][t].pc = "queued"
    /\ Overlap \/ \A u \in Types : ~InFlight(e, u)
    /\ Goto(e, t, IF t = "delivered" THEN "report" ELSE "lead")
    /\ UNCHANGED <<owner, record, faults>>

HandlerDies(e, t) ==
    /\ InFlight(e, t)
    /\ Fault
    /\ Refused(e, t)
    /\ UNCHANGED <<owner, record>>

-----------------------------------------------------------------------------
(* The stamps: reportSentMirror and stampNotified *)

Stamp(e) ==
    /\ owner[e] # "none"
    /\ record[e].stamped = "awaited"
    /\ record' = [record EXCEPT ![e].stamped = "yes"]
    /\ UNCHANGED <<owner, event, faults>>

\* The process died, the write failed, or the 409 replay had no message id to stamp.
StampIsLost(e) ==
    /\ record[e].stamped = "awaited"
    /\ record' = [record EXCEPT ![e].stamped = "lost"]
    /\ UNCHANGED <<owner, event, faults>>

Matches(e, kind) == owner[e] = kind /\ record[e].stamped = "yes"

-----------------------------------------------------------------------------
(* The handler *)

\* parseBounceDetail: only a bounce says why.
Classifies(t) == t = "bounced"

\* Mutant: the classification is written whatever the payload says.
BouncedAnywayMutant(e, t) ==
    [record EXCEPT ![e].status = "bounced", ![e].classified = Classifies(t)]

\* markNotifyBouncedByMessageId: a complaint does not erase a classification.
Bounced(e, t) ==
    [record EXCEPT ![e].status = "bounced", ![e].classified = @ \/ Classifies(t)]

\* One UPDATE by message id; a lead's notification ends here.
LeadLookup(e, t) ==
    /\ event[e][t].pc = "lead"
    /\ \/ /\ Matches(e, "lead")
          /\ record' = Bounced(e, t)
          /\ Acked(e, t)
       \/ /\ ~Matches(e, "lead")
          /\ Goto(e, t, "report")
          /\ UNCHANGED <<record, faults>>
    /\ UNCHANGED owner

\* Fail-open: a failed lookup goes on to the reports.
LeadLookupFails(e, t) ==
    /\ event[e][t].pc = "lead"
    /\ Fault
    /\ Goto(e, t, "report")
    /\ UNCHANGED <<owner, record>>

\* A report whose status would be lowered is left alone; any other is to be written.
ReportFound(e, t) ==
    /\ event[e][t].pc = "report" /\ Matches(e, "report")
    /\ \/ IsDowngrade(record[e].status, t) /\ Acked(e, t)
       \/ /\ ~IsDowngrade(record[e].status, t)
          /\ Goto(e, t, "write")
          /\ UNCHANGED faults
    /\ UNCHANGED <<owner, record>>

\* Mutant: an unmatched event is an orphan at once.
OrphanAtOnceMutant(e, t) ==
    /\ event[e][t].pc = "report" /\ ~Matches(e, "report")
    /\ Acked(e, t)
    /\ UNCHANGED <<owner, record>>

\* Mutant: an unmatched event is retried for ever.
RetryForeverMutant(e, t) ==
    /\ event[e][t].pc = "report" /\ ~Matches(e, "report")
    /\ Refused(e, t)
    /\ UNCHANGED <<owner, record, faults>>

\* classifyUnmatchedEvent: a retry inside the window, an orphan past it.
Unmatched(e, t) ==
    /\ event[e][t].pc = "report" /\ ~Matches(e, "report")
    /\ \/ event[e][t].old /\ Acked(e, t)
       \/ ~event[e][t].old /\ Refused(e, t) /\ UNCHANGED faults
    /\ UNCHANGED <<owner, record>>

\* mirrorReportPatch, by id: it does not ask the status again.
WriteStatus(e, t) ==
    /\ event[e][t].pc = "write"
    /\ record' = [record EXCEPT ![e].status = t]
    /\ Acked(e, t)
    /\ UNCHANGED owner

\* The report lookup or the write fails: a 500.
StoreFails(e, t) ==
    /\ event[e][t].pc \in {"report", "write"}
    /\ Fault
    /\ Refused(e, t)
    /\ UNCHANGED <<owner, record>>

\* ackNotifyBounce: the operator has looked at the bounce.
Acknowledge(e) ==
    /\ owner[e] = "lead"
    /\ record[e].status = "bounced" /\ ~record[e].acked
    /\ record' = [record EXCEPT ![e].acked = TRUE]
    /\ UNCHANGED <<owner, event, faults>>

-----------------------------------------------------------------------------
Init ==
    /\ owner \in [Emails -> {"report", "lead", "none"}]
    /\ record = [e \in Emails |-> Promise!NewRecord]
    /\ event = [e \in Emails |-> [t \in Types |-> NoEvent]]
    /\ faults = 0

Handle(e, t) ==
    LeadLookup(e, t) \/ ReportFound(e, t) \/ Unmatched(e, t) \/ WriteStatus(e, t)

Next ==
    \E e \in Emails :
        \/ Stamp(e) \/ StampIsLost(e) \/ Acknowledge(e)
        \/ \E t \in Types :
              \/ Emit(e, t) \/ Age(e, t) \/ Deliver(e, t)
              \/ Handle(e, t)
              \/ LeadLookupFails(e, t) \/ StoreFails(e, t) \/ HandlerDies(e, t)

Spec == Init /\ [][Next]_vars

\* A handler runs on, svix delivers again, time passes, and a stamp comes or not.
FairSpec ==
    /\ Spec
    /\ \A e \in Emails :
          /\ WF_vars(Stamp(e) \/ StampIsLost(e))
          /\ \A t \in Types :
                SF_vars(Age(e, t)) /\ WF_vars(Deliver(e, t)) /\ WF_vars(Handle(e, t))

-----------------------------------------------------------------------------
TypeOK ==
    /\ owner \in [Emails -> {"report", "lead", "none"}]
    /\ record \in [Emails -> Promise!Record]
    /\ event \in [Emails -> [Types -> Event]]
    /\ faults \in 0..MaxFaults

(* With one delivery per email at a time, the webhook keeps the promise of   *)
(* DeliveryRecord: no reordered, repeated or retried event lowers a status,  *)
(* and a lead's bounce keeps its classification and its acknowledgement      *)
(* (webhook-events.ts:25, submissions.ts:628).                               *)
RecordSpec == Promise!Spec

(* A 200 means the row has it: once svix is told that an event is dealt      *)
(* with, the report's status says at least as much, and a lead's bounce is   *)
(* on its row, whichever order the stamp, the retries and the other events   *)
(* came in.  (A lead's may be missed when its lookup failed: a failure is    *)
(* then excused.)                                                            *)
AckedIsRecorded ==
    \A e \in Emails, t \in Types :
        event[e][t].pc = "acked" /\ record[e].stamped = "yes" =>
            \/ owner[e] = "report" /\ Rank(record[e].status) >= Rank(t)
            \/ owner[e] = "lead" /\ (t = "delivered" \/ record[e].status = "bounced" \/ faults > 0)

(* svix is not kept retrying for ever: every event, of an email of ours or   *)
(* not, stamped or not, is answered in the end (webhook-events.ts:49).       *)
EventsSettle ==
    \A e \in Emails, t \in Types :
        event[e][t].pc = "queued" ~> event[e][t].pc = "acked"

(* A bounce or complaint, once written, is never downgraded by a retried or  *)
(* reordered webhook (webhook-events.ts:25).                                 *)
NeverDowngraded ==
    [][\A e \in Emails : Rank(record'[e].status) >= Rank(record[e].status)]_record
=============================================================================
