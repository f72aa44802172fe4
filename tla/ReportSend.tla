----------------------------- MODULE ReportSend -----------------------------
(***************************************************************************)
(* The life of a client report between its draft and its email: the rows   *)
(* of the `reports` table, the dashboard sessions that approve, override,  *)
(* unapprove, withdraw and edit them, the drafting path that moves their   *)
(* queue flag, the send batch (src/reports/send/orchestrate.ts) and the    *)
(* part of Resend it relies on, the 24 hour idempotency window.            *)
(*                                                                         *)
(* Every request handler and every batch step is a read followed later by  *)
(* a write, because each is its own round trip to Turso.  One write is one *)
(* UPDATE and is atomic.  The send workflow is single-flight (concurrency  *)
(* group m3-daily), so there is one run at a time; it may die at any step. *)
(*                                                                         *)
(* Data is abstracted: `content` counts the versions of everything a       *)
(* render reads off the row (commentary, scores, visits), `clear` is       *)
(* isHealthGateClear of the stored evidence, a timestamp is a counter.     *)
(***************************************************************************)
EXTENDS Naturals, Sequences

CONSTANTS
    Reports,       \* rows of the reports table
    TopTier,       \* those of type Announcement or Launch: no gating evidence
    Launches,      \* those of type Launch: the send also flips the site
    NoReport,      \* no report is in hand
    Sessions,      \* dashboard requests and drafting jobs that run at once
    MaxApprovals,  \* bound: approve and override requests
    MaxEdits,      \* bound: versions of a row's content
    MaxLapses      \* bound: idempotency windows that run out

ASSUME ReportSendAssumption ==
    /\ Launches \subseteq TopTier
    /\ TopTier \subseteq Reports
    /\ NoReport \notin Reports
    /\ MaxApprovals \in Nat
    /\ MaxEdits \in Nat
    /\ MaxLapses \in Nat

VARIABLES
    row,       \* the reports table
    launched,  \* Launch reports whose site was flipped to maintained
    run,       \* the send batch
    session,   \* what each session has read and is about to write
    mail,      \* per report, the content of every email that left
    live,      \* Resend's idempotency records still inside their 24 hours
    clock,     \* the last `approved_at` written
    lapses     \* idempotency windows that ran out

vars == <<row, launched, run, session, mail, live, clock, lapses>>

-----------------------------------------------------------------------------
(* The reports table *)

\* approvedAt 0 is NULL; messageId n names the n-th email of the report, 0 is NULL.
Row == [ready : BOOLEAN, approved : BOOLEAN, approvedAt : Nat, override : BOOLEAN,
        clear : BOOLEAN, content : Nat, claimed : BOOLEAN, sent : BOOLEAN,
        messageId : Nat, withdrawn : BOOLEAN]

\* A row as the drafting path inserts it, before queueDraft raises its flag.
NewRow(clear) ==
    [ready |-> FALSE, approved |-> FALSE, approvedAt |-> 0, override |-> FALSE,
     clear |-> clear, content |-> 0, claimed |-> FALSE, sent |-> FALSE,
     messageId |-> 0, withdrawn |-> FALSE]

\* isPendingApproval.
PendingApproval(w) == w.ready /\ ~w.approved /\ ~w.sent /\ ~w.withdrawn

\* The WHERE of listSendableReports: the send queue.
InSendQueue(w) == w.ready /\ w.approved /\ ~w.sent /\ ~w.withdrawn

\* The WHERE of listApprovedUnqueuedReports.
ApprovedUnqueued(w) == ~w.ready /\ w.approved /\ ~w.sent /\ ~w.withdrawn

\* isHealthGateClear or isSendOverridden.
PassesHealthGate(w) == w.clear \/ w.override

\* patchReportIfOpen: the row still takes an approval.
Approvable(w) == ~w.sent /\ ~w.withdrawn /\ w.ready

\* patchReportIfOpen: the row still takes a withdrawal.
Withdrawable(w) == Approvable(w) /\ ~w.approved

\* Mutant: an approval can be taken back under a send's claim.
UnapprovableInFlightMutant(w) == w.approved /\ ~w.sent /\ ~w.withdrawn

\* Mutant: the write trusts what the handler read of the send.
UnapprovableAsReadMutant(w) == w.approved /\ ~w.withdrawn

\* unapproveReportIfUnsent.
Unapprovable(w) == w.approved /\ ~w.sent /\ ~w.withdrawn /\ ~w.claimed

\* Mutant: the claim trusts the approval the queue read.
ApprovedAsReadMutant(w, seen) == w.ready /\ ~w.sent /\ ~w.withdrawn

\* Mutant: a row claimed once is not claimed again, not even by a later run.
ClaimableOnceMutant(w, seen) ==
    InSendQueue(w) /\ w.approvedAt = seen.approvedAt /\ ~w.claimed

\* claimReportForSend: sendable under the approval `seen`, the one the queue read.
Claimable(w, seen) == InSendQueue(w) /\ w.approvedAt = seen.approvedAt

\* The SET of an approve and of an override: a plain approve keeps an override.
Approved(w, at, overriding) ==
    [w EXCEPT !.approved = TRUE, !.approvedAt = at, !.override = w.override \/ overriding]

\* The SET of an unapprove: the override goes with the approval.
Unapproved(w) == [w EXCEPT !.approved = FALSE, !.approvedAt = 0, !.override = FALSE]

\* reportSentMirror: `sent_at`, and the message id when there is one.
Stamped(w, id) == [w EXCEPT !.sent = TRUE, !.messageId = IF id = 0 THEN w.messageId ELSE id]

\* storeChecklistEvidence, storeLighthouseScores and storeGaVisits.
Refreshable(w) == ~w.sent /\ ~w.approved

-----------------------------------------------------------------------------
(* The send batch's record and Resend's *)

RunPc == {"idle", "unqueued", "next", "claim", "send", "release", "stamp", "flip", "done"}

Run == [pc : RunPc, todo : SUBSET Reports, rep : Reports \cup {NoReport},
        seen : [Reports -> Row], gotId : Nat, mailed : SUBSET Reports, red : BOOLEAN]

NothingSeen == [r \in Reports |-> NewRow(FALSE)]

IdleRun == [pc |-> "idle", todo |-> {}, rep |-> NoReport, seen |-> NothingSeen,
            gotId |-> 0, mailed |-> {}, red |-> FALSE]

\* Mutant: a key per approval, not per report.
KeyPerApprovalMutant(r, seen) == <<r, seen.approvedAt>>

\* The Idempotency-Key header of a send: `report:<id>`, whatever the row says now.
IdempotencyKey(r, seen) == r

\* A record Resend keeps for 24 hours: the key, and the email it answered with.
LiveRecord == [key : Reports, rep : Reports, id : Nat]

LiveFor(key) == {e \in live : e.key = key}

\* Resend accepts the request: the email leaves and the key starts its window.
Leaves(r, content, key) ==
    /\ mail' = [mail EXCEPT ![r] = Append(@, content)]
    /\ live' = live \cup {[key |-> key, rep |-> r, id |-> Len(mail[r]) + 1]}

-----------------------------------------------------------------------------
(* Sessions *)

SessionKind == {"idle", "approve", "override", "unapprove", "withdraw", "comment",
                "refresh", "reuse", "requeue", "flagOn", "flagOff"}

Session == [kind : SessionKind, rep : Reports \cup {NoReport}]

IdleSession == [kind |-> "idle", rep |-> NoReport]

Begin(s, kind, r) ==
    /\ session[s].kind = "idle"
    /\ session' = [session EXCEPT ![s] = [kind |-> kind, rep |-> r]]
    /\ UNCHANGED <<row, launched, run, mail, live, clock, lapses>>

Continue(s, kind) == session' = [session EXCEPT ![s].kind = kind]

Finish(s) == session' = [session EXCEPT ![s] = IdleSession]

Init ==
    /\ row \in [Reports -> {NewRow(TRUE), NewRow(FALSE)}]
    /\ \A r \in TopTier : row[r].clear
    /\ launched = {}
    /\ run = IdleRun
    /\ session = [s \in Sessions |-> IdleSession]
    /\ mail = [r \in Reports |-> <<>>]
    /\ live = {}
    /\ clock = 0
    /\ lapses = 0

-----------------------------------------------------------------------------
(* Dashboard: approve, override, unapprove, withdraw, commentary.  A read    *)
(* that refuses writes nothing and is not a step.                            *)

\* approveReport, up to the write: pending, and the send blockers are clear.
ApproveRead(s, r) ==
    /\ clock < MaxApprovals
    /\ PendingApproval(row[r])
    /\ row[r].clear
    /\ Begin(s, "approve", r)

\* approveReport with a reason: the health gate is not asked.
OverrideRead(s, r) ==
    /\ clock < MaxApprovals
    /\ PendingApproval(row[r])
    /\ Begin(s, "override", r)

\* patchReportIfOpen("approvable"): lands on an open row, approved or not.
ApproveWrite(s) ==
    LET r == session[s].rep
        overriding == session[s].kind = "override"
    IN  /\ session[s].kind \in {"approve", "override"}
        /\ IF Approvable(row[r])
           THEN /\ clock' = clock + 1
                /\ row' = [row EXCEPT ![r] = Approved(@, clock + 1, overriding)]
           ELSE UNCHANGED <<row, clock>>
        /\ Finish(s)
        /\ UNCHANGED <<launched, run, mail, live, lapses>>

UnapproveRead(s, r) == Unapprovable(row[r]) /\ Begin(s, "unapprove", r)

\* unapproveReportIfUnsent.
UnapproveWrite(s) ==
    LET r == session[s].rep
    IN  /\ session[s].kind = "unapprove"
        /\ row' = IF Unapprovable(row[r])
                  THEN [row EXCEPT ![r] = Unapproved(@)]
                  ELSE row
        /\ Finish(s)
        /\ UNCHANGED <<launched, run, mail, live, clock, lapses>>

WithdrawRead(s, r) == PendingApproval(row[r]) /\ Begin(s, "withdraw", r)

\* patchReportIfOpen("withdrawable"); the row keeps its ready flag.
WithdrawWrite(s) ==
    LET r == session[s].rep
    IN  /\ session[s].kind = "withdraw"
        /\ row' = IF Withdrawable(row[r]) THEN [row EXCEPT ![r].withdrawn = TRUE] ELSE row
        /\ Finish(s)
        /\ UNCHANGED <<launched, run, mail, live, clock, lapses>>

\* setReportCommentary: the lock is `sent_at`, read here and not asked again.
CommentaryRead(s, r) ==
    /\ row[r].content < MaxEdits
    /\ ~row[r].sent
    /\ Begin(s, "comment", r)

CommentaryWrite(s) ==
    /\ session[s].kind = "comment"
    /\ row' = [row EXCEPT ![session[s].rep].content = @ + 1]
    /\ Finish(s)
    /\ UNCHANGED <<launched, run, mail, live, clock, lapses>>

-----------------------------------------------------------------------------
(* Refresh preview (rerenderReport): an unsent, unapproved report takes the  *)
(* site's current evidence, scores and visits, each in a guarded UPDATE.     *)

RefreshRead(s, r) == Refreshable(row[r]) /\ Begin(s, "refresh", r)

\* One guarded UPDATE: the evidence (the gate may move either way, except on a
\* type that has none) or the numbers the email shows.
RefreshWrite(s) ==
    LET r == session[s].rep
    IN  /\ session[s].kind = "refresh"
        /\ IF Refreshable(row[r])
           THEN \/ /\ r \notin TopTier
                   /\ \E c \in BOOLEAN : row' = [row EXCEPT ![r].clear = c]
                \/ /\ row[r].content < MaxEdits
                   /\ row' = [row EXCEPT ![r].content = @ + 1]
           ELSE UNCHANGED row
        /\ UNCHANGED <<launched, run, session, mail, live, clock, lapses>>

\* The refresh stores the preview body, which no send reads, and is done.
RefreshDone(s) ==
    /\ session[s].kind = "refresh"
    /\ Finish(s)
    /\ UNCHANGED <<row, launched, run, mail, live, clock, lapses>>

-----------------------------------------------------------------------------
(* Drafting: the announce and launch recipes' reuse of this period's row,    *)
(* and the queue flag writes of queueDraft (its plan is module DraftQueue's  *)
(* subject; here any verdict may come out of it).                            *)

\* findReportForPeriod: this period's row, in any state but withdrawn.
ReuseRead(s, r) ==
    /\ r \in TopTier
    /\ ~row[r].withdrawn
    /\ row[r].content < MaxEdits
    /\ Begin(s, "reuse", r)

\* The reuse path patches fresh scores into the row, then queues it.
ReuseWrite(s) ==
    /\ session[s].kind = "reuse"
    /\ row' = [row EXCEPT ![session[s].rep].content = @ + 1]
    /\ Continue(s, "requeue")
    /\ UNCHANGED <<launched, run, mail, live, clock, lapses>>

\* A row that is not ready is a draft to queue, new or half made.
DraftRead(s, r) == ~row[r].withdrawn /\ ~row[r].ready /\ Begin(s, "requeue", r)

\* queueDraft reads the site's rows: a withdrawn row is left alone, any other
\* gets its flag raised or, under a pending higher tier, lowered.
QueueDraftRead(s) ==
    /\ session[s].kind = "requeue"
    /\ IF row[session[s].rep].withdrawn
       THEN Finish(s)
       ELSE \E flag \in {"flagOn", "flagOff"} : Continue(s, flag)
    /\ UNCHANGED <<row, launched, run, mail, live, clock, lapses>>

\* A pending row another draft supersedes.
SupersedeRead(s, r) == PendingApproval(row[r]) /\ Begin(s, "flagOff", r)

\* mirrorReportPatch of `draft_ready`: the row is named by its id alone.
QueueFlagWrite(s) ==
    /\ session[s].kind \in {"flagOn", "flagOff"}
    /\ row' = [row EXCEPT ![session[s].rep].ready = (session[s].kind = "flagOn")]
    /\ Finish(s)
    /\ UNCHANGED <<launched, run, mail, live, clock, lapses>>

-----------------------------------------------------------------------------
(* The send batch: sendApprovedReports and sendOne.                          *)

\* The reads before the loop: the queue, once, for the whole batch.
ReadQueue ==
    LET queue == {r \in Reports : InSendQueue(row[r])}
    IN  /\ run.pc \in {"idle", "done"}
        /\ run' = [IdleRun EXCEPT
                     !.pc = "unqueued",
                     !.todo = queue,
                     !.seen = [r \in Reports |-> IF r \in queue THEN row[r] ELSE NewRow(FALSE)]]
        /\ UNCHANGED <<row, launched, session, mail, live, clock, lapses>>

\* #1613: approvals the queue cannot see red the run, and so does failing to look.
ReadApprovedUnqueued ==
    /\ run.pc = "unqueued"
    /\ \E failed \in BOOLEAN :
          run' = [run EXCEPT !.pc = "next",
                             !.red = @ \/ failed \/ \E r \in Reports : ApprovedUnqueued(row[r])]
    /\ UNCHANGED <<row, launched, session, mail, live, clock, lapses>>

\* The loop moves past the report in hand, with the run's colour.
NextReport(r, red) ==
    run' = [run EXCEPT !.pc = "next", !.rep = NoReport, !.gotId = 0,
                       !.todo = @ \ {r}, !.seen[r] = NewRow(FALSE), !.red = @ \/ red]

\* The checks before the claim, on the row as the queue read it.
BeginSend(r) ==
    /\ run.pc = "next"
    /\ r \in run.todo
    /\ PassesHealthGate(run.seen[r])
    /\ run' = [run EXCEPT !.pc = "claim", !.rep = r]
    /\ UNCHANGED <<row, launched, session, mail, live, clock, lapses>>

\* A check throws before the claim: the gate, or a site with no recipients,
\* scores or header plate.
RefuseSend(r) ==
    /\ run.pc = "next"
    /\ r \in run.todo
    /\ NextReport(r, TRUE)
    /\ UNCHANGED <<row, launched, session, mail, live, clock, lapses>>

\* claimReportForSend, the last step before the email leaves.
ClaimReportForSend ==
    /\ run.pc = "claim"
    /\ IF Claimable(row[run.rep], run.seen[run.rep])
       THEN /\ row' = [row EXCEPT ![run.rep].claimed = TRUE]
            /\ run' = [run EXCEPT !.pc = "send"]
       ELSE /\ NextReport(run.rep, FALSE)
            /\ UNCHANGED row
    /\ UNCHANGED <<launched, session, mail, live, clock, lapses>>

\* The claim throws; its UPDATE may have landed all the same.
ClaimFails ==
    /\ run.pc = "claim"
    /\ \/ UNCHANGED row
       \/ /\ Claimable(row[run.rep], run.seen[run.rep])
          /\ row' = [row EXCEPT ![run.rep].claimed = TRUE]
    /\ NextReport(run.rep, TRUE)
    /\ UNCHANGED <<launched, session, mail, live, clock, lapses>>

RunKey == IdempotencyKey(run.rep, run.seen[run.rep])

\* Resend knows no send under this key: the email leaves.
SendAccepted ==
    /\ run.pc = "send"
    /\ LiveFor(RunKey) = {}
    /\ Leaves(run.rep, run.seen[run.rep].content, RunKey)
    /\ run' = [run EXCEPT !.pc = "stamp", !.gotId = Len(mail[run.rep]) + 1]
    /\ UNCHANGED <<row, launched, session, clock, lapses>>

\* Same key, same body: Resend answers with the first email's id.
SendDeduplicated ==
    /\ run.pc = "send"
    /\ \E e \in LiveFor(RunKey) :
          /\ mail[e.rep][e.id] = run.seen[run.rep].content
          /\ run' = [run EXCEPT !.pc = "stamp", !.gotId = e.id]
    /\ UNCHANGED <<row, launched, session, mail, live, clock, lapses>>

\* Same key, other body (an unchanged row can differ too: the header re-encodes):
\* a 409, taken to mean the email already went out.
SendConflict ==
    /\ run.pc = "send"
    /\ LiveFor(RunKey) # {}
    /\ run' = [run EXCEPT !.pc = "stamp", !.gotId = 0]
    /\ UNCHANGED <<row, launched, session, mail, live, clock, lapses>>

\* No answer, or an answer that does not say: the email may have left.  The
\* claim stays.
SendAmbiguous ==
    /\ run.pc = "send"
    /\ \/ UNCHANGED <<mail, live>>
       \/ /\ LiveFor(RunKey) = {}
          /\ Leaves(run.rep, run.seen[run.rep].content, RunKey)
    /\ NextReport(run.rep, TRUE)
    /\ UNCHANGED <<row, launched, session, clock, lapses>>

\* Mutant: a refusal is taken for the 409 that says already sent.
RejectedAsSentMutant ==
    /\ run.pc = "send"
    /\ run' = [run EXCEPT !.pc = "stamp"]
    /\ UNCHANGED <<row, launched, session, mail, live, clock, lapses>>

\* isDefiniteRejection: Resend refused this request.
SendRejected ==
    /\ run.pc = "send"
    /\ run' = [run EXCEPT !.pc = "release"]
    /\ UNCHANGED <<row, launched, session, mail, live, clock, lapses>>

\* releaseSendClaim, best effort.
ReleaseSendClaim ==
    /\ run.pc = "release"
    /\ \/ UNCHANGED row
       \/ /\ ~row[run.rep].sent
          /\ row' = [row EXCEPT ![run.rep].claimed = FALSE]
    /\ NextReport(run.rep, TRUE)
    /\ UNCHANGED <<launched, session, mail, live, clock, lapses>>

\* After the stamp, whether it landed or not, a Launch goes on to its flip.
AfterStamp(red) ==
    LET r == run.rep
        mailed == run.mailed \cup {r}
    IN  IF r \in Launches
        THEN run' = [run EXCEPT !.pc = "flip", !.mailed = mailed, !.red = @ \/ red]
        ELSE run' = [run EXCEPT !.pc = "next", !.rep = NoReport, !.gotId = 0,
                                !.todo = @ \ {r}, !.seen[r] = NewRow(FALSE),
                                !.mailed = mailed, !.red = @ \/ red]

\* The stamp that takes the row out of the queue for good.
StampSent ==
    LET r == run.rep
    IN  /\ run.pc = "stamp"
        /\ row' = [row EXCEPT ![r] = Stamped(@, run.gotId)]
        /\ \E red \in BOOLEAN : AfterStamp(red)
        /\ UNCHANGED <<launched, session, mail, live, clock, lapses>>

\* Mutant: a lost stamp is logged and leaves the run green.
QuietStampFailMutant ==
    /\ run.pc = "stamp"
    /\ AfterStamp(FALSE)
    /\ UNCHANGED <<row, launched, session, mail, live, clock, lapses>>

\* The stamp is lost: the run goes red and the row replays.
StampFails ==
    /\ run.pc = "stamp"
    /\ AfterStamp(TRUE)
    /\ UNCHANGED <<row, launched, session, mail, live, clock, lapses>>

\* A sent Launch moves its site to maintenance; a failure reds the run.
LaunchFlip ==
    /\ run.pc = "flip"
    /\ \/ /\ launched' = launched \cup {run.rep}
          /\ NextReport(run.rep, FALSE)
       \/ /\ UNCHANGED launched
          /\ NextReport(run.rep, TRUE)
    /\ UNCHANGED <<row, session, mail, live, clock, lapses>>

\* The batch is through; its colour is final.
EndRun ==
    /\ run.pc = "next"
    /\ run.todo = {}
    /\ run' = [run EXCEPT !.pc = "done"]
    /\ UNCHANGED <<row, launched, session, mail, live, clock, lapses>>

\* The job dies: cancelled, timed out, out of memory.
RunCrash ==
    /\ run.pc \notin {"idle", "done"}
    /\ run' = IdleRun
    /\ UNCHANGED <<row, launched, session, mail, live, clock, lapses>>

\* Resend forgets a key 24 hours after it answered under it.
KeyLapses(e) ==
    /\ lapses < MaxLapses
    /\ live' = live \ {e}
    /\ lapses' = lapses + 1
    /\ UNCHANGED <<row, launched, run, session, mail, clock>>

-----------------------------------------------------------------------------

SessionStep(s) ==
    \/ \E r \in Reports :
          \/ ApproveRead(s, r)
          \/ OverrideRead(s, r)
          \/ UnapproveRead(s, r)
          \/ WithdrawRead(s, r)
          \/ CommentaryRead(s, r)
          \/ RefreshRead(s, r)
          \/ ReuseRead(s, r)
          \/ DraftRead(s, r)
          \/ SupersedeRead(s, r)
    \/ ApproveWrite(s)
    \/ UnapproveWrite(s)
    \/ WithdrawWrite(s)
    \/ CommentaryWrite(s)
    \/ RefreshWrite(s)
    \/ RefreshDone(s)
    \/ ReuseWrite(s)
    \/ QueueDraftRead(s)
    \/ QueueFlagWrite(s)

\* A run gets on with its batch.
RunProgress ==
    \/ ReadQueue
    \/ ReadApprovedUnqueued
    \/ \E r \in Reports : BeginSend(r) \/ RefuseSend(r)
    \/ ClaimReportForSend
    \/ ClaimFails
    \/ SendAccepted
    \/ SendDeduplicated
    \/ SendConflict
    \/ SendAmbiguous
    \/ SendRejected
    \/ ReleaseSendClaim
    \/ StampSent
    \/ StampFails
    \/ LaunchFlip
    \/ EndRun

RunStep == RunProgress \/ RunCrash

Next ==
    \/ \E s \in Sessions : SessionStep(s)
    \/ RunStep
    \/ \E e \in live : KeyLapses(e)

Spec == Init /\ [][Next]_vars

\* The cron starts a run every day and a run gets on with its batch.  A step
\* that can fail is not refused for ever: a crash, a Resend failure, a lost
\* write or a site with no recipients is repaired in the end, and the next
\* run's try goes through.
Fairness ==
    /\ WF_vars(RunProgress)
    /\ SF_vars(ReadApprovedUnqueued)
    /\ \A r \in Reports : SF_vars(BeginSend(r))
    /\ SF_vars(ClaimReportForSend)
    /\ SF_vars(SendAccepted \/ SendDeduplicated \/ SendConflict)
    /\ SF_vars(StampSent)

FairSpec == Spec /\ Fairness

-----------------------------------------------------------------------------
(* Properties *)

TypeOK ==
    /\ row \in [Reports -> Row]
    /\ launched \subseteq Launches
    /\ run \in Run
    /\ session \in [Sessions -> Session]
    /\ mail \in [Reports -> Seq(Nat)]
    /\ live \subseteq LiveRecord
    /\ clock \in Nat
    /\ lapses \in Nat

\* An email leaves only for a row that is, at that very moment, approved,
\* claimed, unsent and not withdrawn, and whose own evidence clears the health
\* gate unless an override is on it.  The batch decides all of it on the row the
\* queue read, any number of writes ago (sendOne, claimReportForSend).
EmailsOnlyUnderApproval ==
    [][\A r \in Reports :
          mail'[r] # mail[r] =>
              /\ row[r].approved
              /\ row[r].claimed
              /\ ~row[r].sent
              /\ ~row[r].withdrawn
              /\ PassesHealthGate(row[r])]_vars

\* A row stamped as sent had its email accepted by Resend, on this run or an
\* earlier one, and a stamped message id is the id of one of its emails: the
\* 409 path stamps no sentinel (sendOne's catch, reportSentMirror).
SentMeansEmailed ==
    \A r \in Reports :
        /\ row[r].sent => mail[r] # <<>>
        /\ row[r].messageId # 0 => row[r].sent /\ row[r].messageId <= Len(mail[r])

\* A run that ends green left no email unrecorded: every report it mailed is
\* stamped, and every Launch among them flipped its site (sendApprovedReports'
\* anyFailed, the only thing that tells the operator of a lost stamp).
GreenRunIsRecorded ==
    run.pc = "done" /\ ~run.red =>
        \A r \in run.mailed : row[r].sent /\ (r \in Launches => r \in launched)

\* A sent or withdrawn report is closed: no approve, unapprove, withdraw, claim,
\* release or second stamp decided on an earlier read changes it again
\* (patchReportIfOpen, unapproveReportIfUnsent, claimReportForSend,
\* releaseSendClaim).
ClosedReportsStayClosed ==
    [][\A r \in Reports :
          row[r].sent \/ row[r].withdrawn =>
              /\ row'[r].approved = row[r].approved
              /\ row'[r].approvedAt = row[r].approvedAt
              /\ row'[r].override = row[r].override
              /\ row'[r].claimed = row[r].claimed
              /\ row'[r].sent = row[r].sent
              /\ row'[r].messageId = row[r].messageId
              /\ row'[r].withdrawn = row[r].withdrawn]_vars

\* The approval loop implements what ReportDelivery promises.
Phase(w) ==
    IF w.sent THEN "sent"
    ELSE IF w.withdrawn THEN "withdrawn"
    ELSE IF w.approved THEN "approved" ELSE "open"

Delivery == INSTANCE ReportDelivery WITH
    phase <- [r \in Reports |-> Phase(row[r])],
    delivered <- [r \in Reports |-> Len(mail[r])],
    window <- [r \in Reports |-> \E e \in live : e.rep = r]

DeliverySpec == Delivery!Spec

\* An approved report in the queue that passes the gate is sent in the end,
\* whatever crashes, refusals and lost answers the runs meet, unless its
\* approval is taken back or the drafting path takes it out of the queue
\* (claimReportForSend's re-claim, the row replaying until it is stamped).
ApprovedReportsSettle ==
    \A r \in Reports :
        (InSendQueue(row[r]) /\ PassesHealthGate(row[r])) ~> ~InSendQueue(row[r])

\* The invariant the proofs rest on, in its parts.

\* A step that works on a report has one in hand.
InHand ==
    /\ \A s \in Sessions : session[s].kind # "idle" => session[s].rep \in Reports
    /\ run.pc \in {"claim", "send", "release", "stamp", "flip"} => run.rep \in run.todo
    /\ run.pc = "flip" => run.rep \in Launches

\* What the guarded UPDATEs keep of a row: an override, a claim and a sent stamp
\* stand on an approval, and every approval has its own, older `approved_at`.
RowsConsistent ==
    \A r \in Reports :
        /\ row[r].override => row[r].approved
        /\ row[r].claimed => row[r].approved
        /\ row[r].sent => row[r].approved /\ mail[r] # <<>>
        /\ row[r].withdrawn => ~row[r].approved
        /\ row[r].approvedAt <= clock
        /\ row[r].approved <=> row[r].approvedAt > 0
        /\ row[r].messageId # 0 => row[r].sent /\ row[r].messageId <= Len(mail[r])

\* What the queue read is still true of the row, or the row has another approval.
QueueReadHolds ==
    \A r \in run.todo :
        /\ run.seen[r].approvedAt \in 1..clock
        /\ row[r].approvedAt = run.seen[r].approvedAt =>
              /\ row[r].clear = run.seen[r].clear
              /\ run.seen[r].override => row[r].override

\* From the claim to the stamp the row cannot be reopened, withdrawn or sent.
ClaimHolds ==
    /\ run.pc = "claim" => PassesHealthGate(run.seen[run.rep])
    /\ run.pc \in {"send", "stamp"} =>
          /\ row[run.rep].claimed
          /\ ~row[run.rep].sent
          /\ PassesHealthGate(row[run.rep])
    /\ run.pc = "stamp" => mail[run.rep] # <<>> /\ run.gotId <= Len(mail[run.rep])

\* Resend remembers only emails that left, each under its own report's key.
LiveRecordsHold ==
    \A e \in live : e.key = e.rep /\ e.id \in 1..Len(mail[e.rep])

\* A run that is green so far recorded what it mailed, but for the flip it is at.
GreenSoFar ==
    ~run.red =>
        \A r \in run.mailed :
            /\ row[r].sent
            /\ r \in Launches => r \in launched \/ (run.pc = "flip" /\ run.rep = r)

\* From the queue read to the stamp: the claim, the approval it was taken under
\* and the evidence that cleared the gate stand together (sendApprovedReports,
\* sendOne and every guarded UPDATE of the reports table).
ClaimInvariant ==
    /\ InHand
    /\ RowsConsistent
    /\ QueueReadHolds
    /\ ClaimHolds
    /\ LiveRecordsHold
    /\ GreenSoFar

\* What the source says and the code does not keep, shown by a run.

\* "An ambiguous failure keeps it, because the email may have left": an
\* approval whose email left is not taken back (sendOne, releaseSendClaim,
\* unapproveReportIfUnsent).
NoUnapproveAfterEmail ==
    [][\A r \in Reports : row[r].approved /\ ~row'[r].approved => mail[r] = <<>>]_vars
=============================================================================
