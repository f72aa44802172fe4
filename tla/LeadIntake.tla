----------------------------- MODULE LeadIntake -----------------------------
(***************************************************************************)
(* A visitor's form post on its way to a row of `submissions`: the live    *)
(* handler (form-ingest), the dead letters it falls back to, and           *)
(* `db replay-deadletters`, which runs them through the same               *)
(* ingestSubmission.  Every await of ingestSubmission is a step, so two    *)
(* handlers interleave between any two of them; each may fail, and the     *)
(* process may die, anywhere.                                              *)
(*                                                                         *)
(* A lead is one visitor's form, posted once or, after an answer that      *)
(* looked like a failure, again.  Its `body` is the text the duplicate     *)
(* scan judges (NoBody when that is too short or there is none); `spam` is *)
(* the verdict on its content and token alone.                             *)
(***************************************************************************)
EXTENDS Naturals, Sequences, FiniteSets

CONSTANTS
    Leads,       \* what visitors post
    Sites,       \* the fleet's slugs
    Lead,        \* a function: what each lead says
    NoBody,      \* no text to scan
    Building,    \* the sites still in development, where spam is not handled
    Requests,    \* invocations of the live handler that may run at once
    MaxPosts,    \* bound: posts
    MaxRestored, \* bound: rows the operator puts back in the inbox
    MaxFaults    \* bound: failures and deaths, after which nothing fails

ASSUME LeadIntakeAssumption ==
    /\ Building \subseteq Sites
    /\ \A l \in Leads : /\ Lead[l].site \in Sites
                        /\ Lead[l].form \in {"contact", "newsletter"}
                        /\ Lead[l].spam \in BOOLEAN
                        /\ Lead[l].mayRetro \in BOOLEAN
    /\ "replay" \notin Requests /\ "none" \notin Requests
    /\ MaxPosts \in Nat
    /\ MaxRestored \in Nat
    /\ MaxFaults \in Nat

VARIABLES
    fleet,        \* the sites with a fleet row
    accepted,     \* the leads whose form type normalizeSubmission accepts
    submissions,  \* the rows, in the order they were made
    letters,      \* the dead letters, in the order they were received
    visitor,      \* per lead: the request awaited, and what the visitor was told
    handler,      \* per request, and the replay: where ingestSubmission is
    queue,        \* the letters of the replay's run still to come
    posts, faults,
    disturbed     \* history: two handlers overlapped, or a step failed

vars == <<fleet, accepted, submissions, letters, visitor, handler, queue, posts,
          faults, disturbed>>

-----------------------------------------------------------------------------
Handlers == Requests \union {"replay"}

\* "read" stands for whatever the operator took the row out of the inbox as: read,
\* archived or spam.  `notify` is notify_status, "skipped" until stamped; `fanout`
\* whether fanout_status is; `letter` is the dead letter it was placed from (0: a
\* live post).  `restored` is history: how many rows there were when the operator
\* last put this one back in the inbox (0: he never did).
Submission == [lead : Leads, status : {"new", "spam_auto", "read"},
               notify : {"sent", "failed", "skipped"}, fanout : BOOLEAN, letter : Nat,
               restored : Nat]

\* `outcome` is replay_outcome, `sub` replay_submission_id (0: none).
Letter == [lead : Leads, outcome : {"queued", "accepted", "rejected"},
           abandoned : BOOLEAN, sub : Nat]

\* `letter` is the dead letter under replay (0: a live post), `status` the verdict
\* so far, `retro` the rows to re-bucket, `sub` the row created.
Idle == [pc |-> "idle"]
Running == [pc : {"lookup", "sender", "retro_sender", "body", "retro_body", "create",
                  "tail", "mark", "reject"},
            lead : Leads, letter : Nat, status : {"new", "spam_auto"},
            retro : SUBSET Nat, sub : Nat]

At(h, pc) == handler[h].pc = pc
Begin(l, d) == [pc |-> "lookup", lead |-> l, letter |-> d, status |-> "new",
                retro |-> {}, sub |-> 0]

LeadOf(h) == Lead[handler[h].lead]
Goto(h, pc) == handler' = [handler EXCEPT ![h].pc = pc]
Stop(h) == handler' = [handler EXCEPT ![h] = Idle]

Live(d) == letters[d].outcome = "queued" /\ ~letters[d].abandoned
Quiet == \A h \in Handlers : At(h, "idle")

Fault == faults < MaxFaults /\ faults' = faults + 1 /\ disturbed' = TRUE
NoFault == UNCHANGED <<faults, disturbed>>

-----------------------------------------------------------------------------
(* The visitor, at the site's own server *)

\* The answer reaches the visitor only while this request is the one awaited.
Told(h, what) ==
    IF visitor[handler[h].lead].awaits = h
    THEN [visitor EXCEPT ![handler[h].lead] = [awaits |-> "none", told |-> what]]
    ELSE visitor

\* A visitor posts, or posts again what was reported as failed.
Post(q, l) ==
    /\ posts < MaxPosts
    /\ At(q, "idle")
    /\ visitor[l].awaits = "none" /\ visitor[l].told # "accepted"
    /\ l \in accepted
    /\ posts' = posts + 1
    /\ visitor' = [visitor EXCEPT ![l].awaits = q]
    /\ handler' = [handler EXCEPT ![q] = Begin(l, 0)]
    /\ disturbed' = (disturbed \/ ~Quiet)
    /\ UNCHANGED <<fleet, accepted, submissions, letters, queue, faults>>

\* The site's client aborts after INGEST_TIMEOUT_MS; the handler goes on.
VisitorTimesOut(l) ==
    /\ visitor[l].awaits # "none"
    /\ Fault
    /\ visitor' = [visitor EXCEPT ![l] = [awaits |-> "none", told |-> "failed"]]
    /\ UNCHANGED <<fleet, accepted, submissions, letters, handler, queue, posts>>

-----------------------------------------------------------------------------
(* Placing a lead: the site lookup and the dead letter *)

NewLetter(l) == [lead |-> l, outcome |-> "queued", abandoned |-> FALSE, sub |-> 0]

\* The lookup answers null.  A live post is dead-lettered and answered 404; a
\* replay leaves its letter queued, since ensure-site may yet make the row.
UnknownSite(h) ==
    /\ At(h, "lookup") /\ LeadOf(h).site \notin fleet
    /\ letters' = IF handler[h].letter = 0
                  THEN Append(letters, NewLetter(handler[h].lead)) ELSE letters
    /\ visitor' = IF handler[h].letter = 0 THEN Told(h, "failed") ELSE visitor
    /\ Stop(h)
    /\ NoFault
    /\ UNCHANGED <<fleet, accepted, submissions, queue, posts>>

\* The lookup throws.  A live post is dead-lettered and the visitor told
\* "accepted"; a replay leaves its letter queued.
LookupThrows(h) ==
    /\ At(h, "lookup")
    /\ Fault
    /\ letters' = IF handler[h].letter = 0
                  THEN Append(letters, NewLetter(handler[h].lead)) ELSE letters
    /\ visitor' = IF handler[h].letter = 0 THEN Told(h, "accepted") ELSE visitor
    /\ Stop(h)
    /\ UNCHANGED <<fleet, accepted, submissions, queue, posts>>

\* The write of the dead letter throws too, perhaps with the letter in place: an
\* honest 502.
DeadLetterFails(h) ==
    /\ At(h, "lookup") /\ handler[h].letter = 0
    /\ Fault
    /\ letters' \in {letters, Append(letters, NewLetter(handler[h].lead))}
    /\ visitor' = Told(h, "failed")
    /\ Stop(h)
    /\ UNCHANGED <<fleet, accepted, submissions, queue, posts>>

\* The site is known; one that is still building skips every scan.
SiteFound(h) ==
    /\ At(h, "lookup") /\ LeadOf(h).site \in fleet
    /\ handler' = [handler EXCEPT
         ![h].pc = IF LeadOf(h).site \in Building THEN "create" ELSE "sender",
         ![h].status = IF LeadOf(h).spam /\ LeadOf(h).site \notin Building
                       THEN "spam_auto" ELSE "new"]
    /\ NoFault
    /\ UNCHANGED <<fleet, accepted, submissions, letters, visitor, queue, posts>>

-----------------------------------------------------------------------------
(* The spray scans.  Each reads the rows and re-buckets the still-new copies *)
(* it found in a later request; each is best effort.                         *)

IsContact(l) == Lead[l].form = "contact"

\* listRecentSubmissionsForEmail, on other sites.
SenderMatches(l) ==
    {i \in DOMAIN submissions :
        LET other == submissions[i].lead
        IN  IsContact(other) /\ Lead[other].sender = Lead[l].sender
                             /\ Lead[other].site # Lead[l].site}

\* Mutant: a visitor's own resend is spray evidence.
OwnResendMutant(l, other) == FALSE

\* A genuine resubmission: the same sender on the same site.
OwnResend(l, other) ==
    Lead[other].sender = Lead[l].sender /\ Lead[other].site = Lead[l].site

\* findRecentDuplicateSubmissions, the sender's own resends left out.
BodyMatches(l) ==
    {i \in DOMAIN submissions :
        LET other == submissions[i].lead
        IN  Lead[other].body = Lead[l].body /\ ~OwnResend(l, other)}

StillNew(rows) == {i \in rows : submissions[i].status = "new"}

\* The scan's answer: the verdict, and the rows to re-bucket, if any.
Scanned(h, matches, mayRetro, retroPc, nextPc) ==
    LET retro == IF mayRetro THEN StillNew(matches) ELSE {}
    IN  handler' = [handler EXCEPT
          ![h].status = IF matches # {} THEN "spam_auto" ELSE @,
          ![h].retro = retro,
          ![h].pc = IF retro # {} THEN retroPc ELSE nextPc]

Store == <<fleet, accepted, letters, visitor, queue, posts>>

ScanSender(h) ==
    /\ At(h, "sender")
    /\ LET l == handler[h].lead
       IN  Scanned(h, IF IsContact(l) THEN SenderMatches(l) ELSE {}, TRUE,
                   "retro_sender", "body")
    /\ NoFault
    /\ UNCHANGED <<Store, submissions>>

\* Mutant: a copy already judged spam is not scanned, and so re-buckets nothing.
ScanBodyIfNewMutant(h) ==
    /\ At(h, "body")
    /\ LET l == handler[h].lead
       IN  Scanned(h, IF /\ IsContact(l) /\ Lead[l].body # NoBody
                         /\ handler[h].status = "new"
                      THEN BodyMatches(l) ELSE {},
                   Lead[l].mayRetro, "retro_body", "create")
    /\ NoFault
    /\ UNCHANGED <<Store, submissions>>

ScanBody(h) ==
    /\ At(h, "body")
    /\ LET l == handler[h].lead
       IN  Scanned(h, IF IsContact(l) /\ Lead[l].body # NoBody THEN BodyMatches(l) ELSE {},
                   Lead[l].mayRetro, "retro_body", "create")
    /\ NoFault
    /\ UNCHANGED <<Store, submissions>>

AfterScan(h) == IF handler[h].pc \in {"sender", "retro_sender"} THEN "body" ELSE "create"

\* Mutant: the UPDATE re-buckets what the scan read as new, without asking again.
RetroUnguardedMutant(h) ==
    /\ handler[h].pc \in {"retro_sender", "retro_body"}
    /\ submissions' = [i \in DOMAIN submissions |->
                        IF i \in handler[h].retro
                        THEN [submissions[i] EXCEPT !.status = "spam_auto"]
                        ELSE submissions[i]]
    /\ Goto(h, AfterScan(h))
    /\ NoFault
    /\ UNCHANGED Store

\* markSubmissionsSpamRetro: only rows that are new at the write.
RetroBucket(h) ==
    /\ handler[h].pc \in {"retro_sender", "retro_body"}
    /\ submissions' = [i \in DOMAIN submissions |->
                        IF i \in StillNew(handler[h].retro)
                        THEN [submissions[i] EXCEPT !.status = "spam_auto"]
                        ELSE submissions[i]]
    /\ Goto(h, AfterScan(h))
    /\ NoFault
    /\ UNCHANGED Store

ScanFails(h) ==
    /\ handler[h].pc \in {"sender", "retro_sender", "body", "retro_body"}
    /\ Fault
    /\ Goto(h, AfterScan(h))
    /\ UNCHANGED <<Store, submissions>>

-----------------------------------------------------------------------------
(* The row, and the best-effort tail *)

Inserted(h) ==
    Append(submissions, [lead |-> handler[h].lead, status |-> handler[h].status,
                         notify |-> "skipped", fanout |-> FALSE,
                         letter |-> handler[h].letter, restored |-> 0])

\* The live handler answers once the row is made; the tail runs after.
CreateSubmission(h) ==
    /\ At(h, "create")
    /\ submissions' = Inserted(h)
    /\ visitor' = IF handler[h].letter = 0 THEN Told(h, "accepted") ELSE visitor
    /\ handler' = [handler EXCEPT ![h].pc = "tail", ![h].retro = {},
                                  ![h].sub = Len(submissions) + 1]
    /\ NoFault
    /\ UNCHANGED <<fleet, accepted, letters, queue, posts>>

\* The insert throws, or the read that follows it does, with the row in place: a 502
\* for a live post, another try for a letter.
CreateFails(h) ==
    /\ At(h, "create")
    /\ Fault
    /\ submissions' \in {submissions, Inserted(h)}
    /\ visitor' = IF handler[h].letter = 0 THEN Told(h, "failed") ELSE visitor
    /\ Stop(h)
    /\ UNCHANGED <<fleet, accepted, letters, queue, posts>>

IsSpam(h) == handler[h].status = "spam_auto"

\* The tail's end: a live handler is done, a replay has its letter to mark.
Finish(h) == IF h = "replay" THEN Goto(h, "mark") ELSE Stop(h)

\* notify, stampNotified, and a signup's fan-out with its stamp.  Nothing else reads
\* what they write, so one step stands for all; each may fail, which is swallowed,
\* and a lost stamp leaves the row "skipped".  A row made as spam is silent.
RunTail(h) ==
    /\ At(h, "tail")
    /\ LET clean == ~IsSpam(h)
           signup == clean /\ ~IsContact(handler[h].lead)
       IN  \E notify \in IF clean THEN {"sent", "failed", "skipped"} ELSE {"skipped"},
              fanout \in {FALSE, signup} :
             /\ IF fanout = signup /\ (clean => notify = "sent") THEN NoFault ELSE Fault
             /\ submissions' = [submissions EXCEPT ![handler[h].sub].notify = notify,
                                                   ![handler[h].sub].fanout = fanout]
    /\ Finish(h)
    /\ UNCHANGED Store

\* The process dies.  The platform answers for it, if the visitor still waits.
Dies(h) ==
    /\ ~At(h, "idle")
    /\ Fault
    /\ visitor' = IF handler[h].letter = 0 THEN Told(h, "failed") ELSE visitor
    /\ Stop(h)
    /\ queue' = IF h = "replay" THEN {} ELSE queue
    /\ UNCHANGED <<fleet, accepted, submissions, letters, posts>>

-----------------------------------------------------------------------------
(* db replay-deadletters, one run at a time *)

\* Mutant: the queue is read without asking replayed_at.
NotAbandonedQueueMutant == {d \in DOMAIN letters : ~letters[d].abandoned}

\* The letters a run reads, which it takes oldest first.
LiveQueue == {d \in DOMAIN letters : Live(d)}

Oldest(d) == d \in queue /\ \A e \in queue : d <= e

\* Mutant: one row that cannot be placed wedges the whole queue.
WedgedReplayMutant ==
    /\ At("replay", "idle") /\ queue = {}
    /\ LiveQueue # {}
    /\ \A d \in DOMAIN letters : Live(d) => Lead[letters[d].lead].site \in fleet
    /\ queue' = LiveQueue
    /\ UNCHANGED <<fleet, accepted, submissions, letters, visitor, handler, posts,
                   faults, disturbed>>

\* readUnreplayedDeadLetters, oldest first.
StartReplay ==
    /\ At("replay", "idle") /\ queue = {}
    /\ LiveQueue # {}
    /\ queue' = LiveQueue
    /\ UNCHANGED <<fleet, accepted, submissions, letters, visitor, handler, posts,
                   faults, disturbed>>

\* Mutant: the terminal mark is written before the lead is ingested.
MarkFirstMutant ==
    /\ At("replay", "idle")
    /\ \E d \in queue :
          /\ Oldest(d)
          /\ queue' = queue \ {d}
          /\ handler' = [handler EXCEPT !["replay"] = Begin(letters[d].lead, d)]
          /\ letters' = [letters EXCEPT ![d].outcome = "accepted"]
    /\ disturbed' = (disturbed \/ ~Quiet)
    /\ UNCHANGED <<fleet, accepted, submissions, visitor, posts, faults>>

\* Mutant: the replay's ingest still has its dead-letter writer.
ReplayAsPostMutant ==
    /\ At("replay", "idle")
    /\ \E d \in queue :
          /\ Oldest(d)
          /\ queue' = queue \ {d}
          /\ handler' = [handler EXCEPT !["replay"] = Begin(letters[d].lead, 0)]
    /\ disturbed' = (disturbed \/ ~Quiet)
    /\ UNCHANGED <<fleet, accepted, submissions, letters, visitor, posts, faults>>

\* The next letter of the run; a form type retired since is refused at once.
NextLetter ==
    /\ At("replay", "idle")
    /\ \E d \in queue :
          /\ Oldest(d)
          /\ queue' = queue \ {d}
          /\ handler' = [handler EXCEPT
               !["replay"] = [Begin(letters[d].lead, d) EXCEPT
                   !.pc = IF letters[d].lead \in accepted THEN "lookup" ELSE "reject"]]
    /\ disturbed' = (disturbed \/ ~Quiet)
    /\ UNCHANGED <<fleet, accepted, submissions, letters, visitor, posts, faults>>

\* markDeadLetterReplayed, by id alone; its failure leaves the letter queued.
MarkReplayed ==
    /\ handler["replay"].pc \in {"mark", "reject"}
    /\ LET d == handler["replay"].letter
           outcome == IF At("replay", "mark") THEN "accepted" ELSE "rejected"
       IN  \/ /\ letters' = [letters EXCEPT ![d].outcome = outcome,
                                            ![d].sub = handler["replay"].sub]
              /\ NoFault
           \/ Fault /\ UNCHANGED letters
    /\ Stop("replay")
    /\ UNCHANGED <<fleet, accepted, submissions, visitor, queue, posts>>

-----------------------------------------------------------------------------
(* The operator, and deploys *)

\* Read, Archive or Spam in the cockpit, or markFilteredAsRead.
Triage(i) ==
    /\ submissions[i].status # "read"
    /\ submissions' = [submissions EXCEPT ![i].status = "read"]
    /\ UNCHANGED <<Store, handler, faults, disturbed>>

\* "Not spam -> new".  The button is offered on an auto-spam row; the write asks
\* nothing, so a page loaded before brings back any row.
Restore(i) ==
    /\ submissions[i].status # "new"
    /\ Cardinality({j \in DOMAIN submissions : submissions[j].restored > 0} \ {i}) < MaxRestored
    /\ submissions' = [submissions EXCEPT ![i].status = "new",
                                          ![i].restored = Len(submissions)]
    /\ UNCHANGED <<Store, handler, faults, disturbed>>

Abandon(d) ==
    /\ Live(d)
    /\ letters' = [letters EXCEPT ![d].abandoned = TRUE]
    /\ UNCHANGED <<fleet, accepted, submissions, visitor, handler, queue, posts,
                   faults, disturbed>>

EnsureSite(s) ==
    /\ s \notin fleet
    /\ fleet' = fleet \union {s}
    /\ UNCHANGED <<accepted, submissions, letters, visitor, handler, queue, posts,
                   faults, disturbed>>

\* A deploy retires the form type a lead was posted with.
RetireForm(l) ==
    /\ l \in accepted
    /\ \E d \in DOMAIN letters : letters[d].lead = l
    /\ accepted' = accepted \ {l}
    /\ UNCHANGED <<fleet, submissions, letters, visitor, handler, queue, posts,
                   faults, disturbed>>

-----------------------------------------------------------------------------
Init ==
    /\ fleet \in SUBSET Sites
    /\ accepted = Leads
    /\ submissions = <<>>
    /\ letters = <<>>
    /\ visitor = [l \in Leads |-> [awaits |-> "none", told |-> "nothing"]]
    /\ handler = [h \in Handlers |-> Idle]
    /\ queue = {}
    /\ posts = 0
    /\ faults = 0
    /\ disturbed = FALSE

\* One handler's steps that need no failure.
Work(h) ==
    \/ UnknownSite(h) \/ SiteFound(h)
    \/ ScanSender(h) \/ ScanBody(h) \/ RetroBucket(h)
    \/ CreateSubmission(h) \/ RunTail(h)

Fails(h) ==
    LookupThrows(h) \/ DeadLetterFails(h) \/ ScanFails(h) \/ CreateFails(h) \/ Dies(h)

Replay == StartReplay \/ NextLetter \/ MarkReplayed

Next ==
    \/ \E q \in Requests, l \in Leads : Post(q, l)
    \/ \E l \in Leads : VisitorTimesOut(l)
    \/ \E h \in Handlers : Work(h) \/ Fails(h)
    \/ Replay
    \/ \E i \in DOMAIN submissions : Triage(i) \/ Restore(i)
    \/ \E d \in DOMAIN letters : Abandon(d)
    \/ \E s \in Sites : EnsureSite(s)
    \/ \E l \in Leads : RetireForm(l)

Spec == Init /\ [][Next]_vars

\* A request runs on, and the replay is scheduled every six hours.
FairSpec ==
    /\ Spec
    /\ \A h \in Handlers : WF_vars(Work(h))
    /\ WF_vars(Replay)

-----------------------------------------------------------------------------
TypeOK ==
    /\ fleet \subseteq Sites
    /\ accepted \subseteq Leads
    /\ submissions \in Seq(Submission)
    /\ letters \in Seq(Letter)
    /\ visitor \in [Leads -> [awaits : Requests \union {"none"},
                              told : {"nothing", "accepted", "failed"}]]
    /\ handler \in [Handlers -> {Idle} \union Running]
    /\ \A h \in Handlers : ~At(h, "idle") =>
          /\ handler[h].sub \in 0..Len(submissions)
          /\ handler[h].retro \subseteq DOMAIN submissions
          /\ (h = "replay") = (handler[h].letter # 0)
    /\ queue \subseteq DOMAIN letters
    /\ posts \in 0..MaxPosts /\ faults \in 0..MaxFaults /\ disturbed \in BOOLEAN

RowsOf(l) == {i \in DOMAIN submissions : submissions[i].lead = l}
LettersOf(l) == {d \in DOMAIN letters : letters[d].lead = l}

(* A lead the visitor was told is accepted is a row, or waits as a dead      *)
(* letter, or was written off by a person or refused by its form; a letter   *)
(* marked placed has its row.  Whatever threw, and wherever a replay died    *)
(* (ingest.ts:165, replay.ts:169).                                           *)
AcceptedLeadsAreKept ==
    /\ \A l \in Leads : visitor[l].told = "accepted" => RowsOf(l) # {} \/ LettersOf(l) # {}
    /\ \A d \in DOMAIN letters : letters[d].outcome = "accepted" =>
          /\ letters[d].sub \in DOMAIN submissions
          /\ submissions[letters[d].sub].lead = letters[d].lead

PlacedFrom(d) == {i \in DOMAIN submissions : submissions[i].letter = d}

(* A dead letter is placed twice only when a mark was lost, or a replay died *)
(* or threw with its row already made: each such failure makes at most one   *)
(* duplicate (replay.ts:169).                                                *)
DuplicatesCostFailures ==
    Cardinality({i \in DOMAIN submissions :
        /\ submissions[i].letter # 0
        /\ \E j \in PlacedFrom(submissions[i].letter) : j < i}) <= faults

\* What makes two leads copies of one pitch, to whichever scan meets them.
Spray(k, l) ==
    \/ /\ IsContact(k) /\ IsContact(l)
       /\ Lead[k].sender = Lead[l].sender /\ Lead[k].site # Lead[l].site
    \/ /\ IsContact(k) \/ IsContact(l)
       /\ Lead[k].body # NoBody /\ Lead[k].body = Lead[l].body
       /\ Lead[k].sender # Lead[l].sender \/ Lead[k].site # Lead[l].site

(* A row is auto-spam on its own content, or because a copy was posted by    *)
(* another sender or to another site, and one of the two sites handles spam: *)
(* a visitor who resends, and a lead a replay placed twice, never bury the   *)
(* original (ingest.ts:401).                                                 *)
SpamHasEvidence ==
    \A i \in DOMAIN submissions : submissions[i].status = "spam_auto" =>
        LET l == submissions[i].lead IN
        \/ Lead[l].spam /\ Lead[l].site \notin Building
        \/ \E k \in Leads : /\ visitor[k] # [awaits |-> "none", told |-> "nothing"]
                            /\ Spray(k, l)
                            /\ ~({Lead[k].site, Lead[l].site} \subseteq Building)

\* The row is out of the inbox, unless the operator put it back when there were n
\* rows or more.
OutSince(i, n) == submissions[i].status # "new" \/ submissions[i].restored >= n

(* Once every handler has finished, and none overlapped or failed: of two    *)
(* stored copies of a pitch the later is in the inbox only if the operator   *)
(* put it back there; and the earlier, when the later may judge it, only if  *)
(* he put it back while the later was on its way, or after.  A row he put    *)
(* back before goes out with the next copy (ingest.ts:361).                  *)
SprayIsCaught ==
    Quiet /\ ~disturbed =>
        \A i, j \in DOMAIN submissions :
            LET k == submissions[i].lead
                l == submissions[j].lead
                sameSender == /\ IsContact(k) /\ Lead[k].sender = Lead[l].sender
                              /\ Lead[k].site # Lead[l].site
                sameBody == Lead[k].body = Lead[l].body /\ ~OwnResend(k, l)
            IN  (/\ i < j /\ IsContact(l) /\ Lead[l].site \notin Building
                 /\ sameSender \/ (Lead[l].body # NoBody /\ sameBody))
                    => /\ OutSince(j, j)
                       /\ (sameSender \/ Lead[l].mayRetro) => OutSince(i, j - 1)

(* A row the operator took out of the inbox stays as he left it until he     *)
(* puts it back himself: a scan's list of new rows is stale by the time they *)
(* are re-bucketed (submissions.ts:498).  A row he put back is new again to  *)
(* every scan, and this says nothing of it.                                  *)
OperatorDecisionStands ==
    [][\A i \in DOMAIN submissions : submissions[i].status = "read" =>
          \/ submissions'[i].status = "read"
          \/ submissions'[i].status = "new" /\ submissions'[i].restored = Len(submissions)]_vars

(* A dead letter whose site has a row is placed, refused or abandoned in the *)
(* end, through failures and deaths of the replay, as long as they stop.     *)
QueuedLeadsSettle ==
    \A d \in 1..MaxPosts :
        (d \in DOMAIN letters /\ Lead[letters[d].lead].site \in fleet)
            ~> (d \in DOMAIN letters /\ ~Live(d))
=============================================================================
