----------------------------- MODULE DraftQueue -----------------------------
(***************************************************************************)
(* One site's report rows and the programs that draft them: the nightly    *)
(* `report --due` run (draftDueReports), the announce and launch recipes,  *)
(* and an operator's `report <slug>`.  Each creates or takes a row and     *)
(* hands it to queueDraft, which reads the site's rows and then writes     *)
(* their draft_ready flags one by one.  Meanwhile the operator approves,   *)
(* unapproves and withdraws, and the send batch sends.                     *)
(*                                                                         *)
(* A month is the unit of time and of `period`; the site's Maintenance and *)
(* Testing reports are monthly.  What a row says is ReportSend's subject:  *)
(* here an approve, unapprove, withdraw and send is its guarded UPDATE.    *)
(* A send may come at any time, since an operator may start one by hand.   *)
(***************************************************************************)
EXTENDS Naturals, Sequences, FiniteSetsExt

CONSTANTS
    Programs,  \* what is run: "nightly", "announce", "launch", "manual"
    Overlap,   \* whether the nightly run and the operator's desk overlap in time
    Anchored,  \* whether the site has a maintenance and a testing day (month 0)
    MaxRows,   \* bound: rows of the site
    MaxMonth   \* bound: months

ASSUME DraftQueueAssumption ==
    /\ Programs \subseteq {"nightly", "announce", "launch", "manual"}
    /\ Overlap \in BOOLEAN
    /\ Anchored \in BOOLEAN
    /\ MaxRows \in Nat
    /\ MaxMonth \in Nat \ {0}

VARIABLES
    rows,     \* the site's rows of the reports table, in the order they were made
    drafter,  \* the nightly run and the operator's desk
    now       \* the month

vars == <<rows, drafter, now>>

-----------------------------------------------------------------------------
(* Rows *)

ReportType == {"Maintenance", "Testing", "Announcement", "Launch"}

\* REPORT_TIER: a higher tier says all a lower one does.
Tier(type) ==
    CASE type = "Maintenance" -> 1
      [] type = "Testing" -> 2
      [] OTHER -> 3

\* `month` is the month a sent row was sent in, and any other was drafted in;
\* `reopened` is unapproved_at.
Row == [type : ReportType, period : Nat, ready : BOOLEAN,
        phase : {"open", "approved", "sent", "withdrawn"},
        reopened : BOOLEAN, month : Nat]

NewRow(type, period) ==
    [type |-> type, period |-> period, ready |-> FALSE, phase |-> "open",
     reopened |-> FALSE, month |-> now]

Ids == DOMAIN rows

Matching(type, period) == {i \in Ids : rows[i].type = type /\ rows[i].period = period}

Live(i) == rows[i].phase # "withdrawn"

Unsent(i) == rows[i].phase \in {"open", "approved"}

\* isPendingApproval.
Pending(i) == rows[i].ready /\ rows[i].phase = "open"

-----------------------------------------------------------------------------
(* What is due (findDueReports) *)

\* The months a (site, type) counts from: its sends, and its withdrawn drafts,
\* which use up their cycle.
Past(type) ==
    {rows[i].month : i \in {j \in Ids : /\ rows[j].type = type
                                        /\ rows[j].phase \in {"sent", "withdrawn"}}}

TestingMonths ==
    {rows[i].month : i \in {j \in Ids : rows[j].type = "Testing" /\ rows[j].phase = "sent"}}

\* pushPastTesting from its second round on.  A report of the rounds before is used
\* up, so one covers the month before its own and its own.  Each round moves past the
\* last report that covers the month, and any month it skips is covered too: the
\* rounds end at the first month that is not.  A month to come is not looked at.
Pushed(p) ==
    Min({m \in p..(now + 1) : m > now \/ TestingMonths \cap {m, m + 1} = {}})

\* pushPastTesting: a Testing report within a month of the due date moves it a
\* cycle past the later of the two.
PushPastTesting(p) ==
    LET covering == {m \in TestingMonths : m + 1 \in p..(p + 2)}
    IN  IF covering = {} \/ p > now THEN p ELSE Pushed(p + 1)

\* nextDueDate, as the month it falls in (reportPeriodKey).
DuePeriod(type) ==
    LET base == Past(type) \cup (IF Anchored THEN {0} ELSE {})
    IN  IF base = {} THEN now
        ELSE IF type = "Testing" THEN Max(base) + 1
        ELSE PushPastTesting(Max(base) + 1)

-----------------------------------------------------------------------------
(* What the nightly run decides on the rows it read (draftDueReports) *)

\* A draft to make of (type, period), in a row that is there or in a new one (0).
Job == [type : ReportType, period : Nat, existing : Nat]

\* Mutant: a row that is not ready is not found, and its period is drafted again.
ReadyForPeriodMutant(type, period) ==
    LET matches == {i \in Matching(type, period) : rows[i].ready}
        live == {i \in matches : Live(i)}
    IN  IF live # {} THEN live ELSE matches

\* findExistingForPeriod: the rows it may return; one that is not withdrawn first.
ExistingForPeriod(type, period) ==
    LET matches == Matching(type, period)
        live == {i \in matches : Live(i)}
    IN  IF live # {} THEN live ELSE matches

\* Mutant: the guard counts only drafts nobody approved yet.
OpenEarlierMutant(type, period) ==
    \E i \in Ids : rows[i].type = type /\ Pending(i) /\ rows[i].period < period

\* An earlier draft of this type still waits: do not stack another.
PendingEarlier(type, period) ==
    \E i \in Ids : rows[i].type = type /\ rows[i].ready /\ Unsent(i) /\ rows[i].period < period

\* A row queueDraft took out of the queue, not one a crash left half made.
BlockedByPending(i) ==
    \E j \in Ids \ {i} :
        rows[j].ready /\ Unsent(j) /\ Tier(rows[j].type) >= Tier(rows[i].type)

\* Mutant: a half-made draft counts as already drafted.
NeverCompleteMutant(type) ==
    LET p == DuePeriod(type)
        existing == ExistingForPeriod(type, p)
    IN  IF p > now \/ existing # {} \/ PendingEarlier(type, p) THEN {<<>>}
        ELSE {<<[type |-> type, period |-> p, existing |-> 0]>>}

\* What the run does about one type: nothing (it is not due), complete the half-made
\* row of this period, or create one.
NightlyJobs(type) ==
    LET p == DuePeriod(type)
        existing == ExistingForPeriod(type, p)
        complete == {i \in existing : Live(i) /\ ~rows[i].ready /\ ~BlockedByPending(i)}
    IN  IF p \notin 1..now THEN {<<>>}
        ELSE IF existing = {}
        THEN IF PendingEarlier(type, p) THEN {<<>>}
             ELSE {<<[type |-> type, period |-> p, existing |-> 0]>>}
        ELSE {IF i \in complete THEN <<[type |-> type, period |-> p, existing |-> i]>> ELSE <<>> :
                 i \in existing}

-----------------------------------------------------------------------------
(* The drafting programs *)

\* Two places run them: the nightly workflow (one run at a time) and a desk.
Places == {"workflow", "desk"}

Drafter == [pc : {"idle", "job", "queue", "flags"}, jobs : Seq(Job), draft : Nat,
            off : SUBSET Nat, flag : BOOLEAN]

IdleDrafter == [pc |-> "idle", jobs |-> <<>>, draft |-> 0, off |-> {}, flag |-> FALSE]

Start(d, jobs) ==
    /\ drafter[d].pc = "idle"
    /\ Overlap \/ \A e \in Places : drafter[e].pc = "idle"
    /\ jobs # <<>>
    /\ drafter' = [drafter EXCEPT ![d].pc = "job", ![d].jobs = jobs]
    /\ UNCHANGED <<rows, now>>

\* The next job of the run, or its end.
NextJob(d) ==
    drafter' = [drafter EXCEPT
        ![d] = IF Len(drafter[d].jobs) = 1 THEN IdleDrafter
               ELSE [IdleDrafter EXCEPT !.pc = "job", !.jobs = Tail(drafter[d].jobs)]]

Init ==
    /\ rows = <<>>
    /\ drafter = [d \in Places |-> IdleDrafter]
    /\ now = 1

\* The run reads every report once and decides from that read alone.  A Testing
\* approved in the last days covers the Maintenance as if it had been sent.
StartNightly ==
    /\ "nightly" \in Programs
    /\ \E maintenance \in NightlyJobs("Maintenance"), testing \in NightlyJobs("Testing") :
          \/ Start("workflow", maintenance \o testing)
          \/ /\ \E i \in Ids : rows[i].type = "Testing" /\ rows[i].phase = "approved"
             /\ now <= DuePeriod("Maintenance") + 1
             /\ Start("workflow", testing)

\* Announce and launch look for this month's row of their type (findReportForPeriod).
StartRecipe(program, type) ==
    LET live == {i \in Matching(type, now) : Live(i)}
    IN  /\ program \in Programs
        /\ \E i \in IF live = {} THEN {0} ELSE live :
              Start("desk", <<[type |-> type, period |-> now, existing |-> i]>>)

\* `report <slug> --type`: an operator asking for a draft gets one.
StartManual ==
    /\ "manual" \in Programs
    /\ \E type \in {"Maintenance", "Testing"} :
          Start("desk", <<[type |-> type, period |-> now, existing |-> 0]>>)

\* createReportDraft: a new row, not ready.
CreateDraft(d) ==
    LET job == Head(drafter[d].jobs)
    IN  /\ drafter[d].pc = "job"
        /\ job.existing = 0
        /\ Len(rows) < MaxRows
        /\ rows' = Append(rows, NewRow(job.type, job.period))
        /\ drafter' = [drafter EXCEPT ![d].pc = "queue", ![d].draft = Len(rows) + 1]
        /\ UNCHANGED now

\* Mutant: a job without a row is taken for one that has it.
TakeAnyMutant(d) ==
    /\ drafter[d].pc = "job"
    /\ drafter' = [drafter EXCEPT ![d].pc = "queue", ![d].draft = Head(drafter[d].jobs).existing]
    /\ UNCHANGED <<rows, now>>

\* The row of the period is completed or reused in place.
TakeExisting(d) ==
    LET job == Head(drafter[d].jobs)
    IN  /\ drafter[d].pc = "job"
        /\ job.existing # 0
        /\ drafter' = [drafter EXCEPT ![d].pc = "queue", ![d].draft = job.existing]
        /\ UNCHANGED <<rows, now>>

\* planQueue: a pending report of an equal or higher tier covers the draft.
Subsumed(i, others) ==
    \E j \in others : Tier(rows[j].type) >= Tier(rows[i].type)

\* Mutant: the lower drafts keep their flag.
QueueDraftKeepsOthersMutant(d) ==
    LET i == drafter[d].draft
        others == {j \in Ids \ {i} : Pending(j)}
    IN  /\ drafter[d].pc = "queue"
        /\ IF ~Live(i)
           THEN NextJob(d)
           ELSE drafter' = [drafter EXCEPT ![d].pc = "flags", ![d].off = {},
                                           ![d].flag = ~Subsumed(i, others)]
        /\ UNCHANGED <<rows, now>>

\* queueDraft's read and plan: stand down, or supersede every other pending row.
QueueDraft(d) ==
    LET i == drafter[d].draft
        others == {j \in Ids \ {i} : Pending(j)}
    IN  /\ drafter[d].pc = "queue"
        /\ IF ~Live(i)
           THEN NextJob(d)
           ELSE drafter' = [drafter EXCEPT
                    ![d].pc = "flags",
                    ![d].off = IF Subsumed(i, others) THEN {} ELSE others,
                    ![d].flag = ~Subsumed(i, others)]
        /\ UNCHANGED <<rows, now>>

\* One flag write: the superseded rows first, the draft's own last.
WriteFlag(d) ==
    /\ drafter[d].pc = "flags"
    /\ IF drafter[d].off # {}
       THEN \E i \in drafter[d].off :
               /\ rows' = [rows EXCEPT ![i].ready = FALSE]
               /\ drafter' = [drafter EXCEPT ![d].off = @ \ {i}]
       ELSE /\ rows' = [rows EXCEPT ![drafter[d].draft].ready = drafter[d].flag]
            /\ NextJob(d)
    /\ UNCHANGED now

\* Any step of a job throws (scores, render, insert, body, flag): the run reports
\* it and goes on to its next job; what the job wrote stays.
JobFails(d) ==
    /\ drafter[d].pc # "idle"
    /\ NextJob(d)
    /\ UNCHANGED <<rows, now>>

DrafterDies(d) ==
    /\ drafter[d].pc # "idle"
    /\ drafter' = [drafter EXCEPT ![d] = IdleDrafter]
    /\ UNCHANGED <<rows, now>>

-----------------------------------------------------------------------------
(* The operator and the send batch, as their guarded UPDATEs *)

Move(i, guard, to) ==
    /\ guard
    /\ rows' = [rows EXCEPT ![i] = to]
    /\ UNCHANGED <<drafter, now>>

Approve(i) == Move(i, Pending(i), [rows[i] EXCEPT !.phase = "approved"])

Unapprove(i) ==
    Move(i, rows[i].phase = "approved", [rows[i] EXCEPT !.phase = "open", !.reopened = TRUE])

Withdraw(i) == Move(i, Pending(i), [rows[i] EXCEPT !.phase = "withdrawn"])

Send(i) ==
    Move(i, rows[i].ready /\ rows[i].phase = "approved",
         [rows[i] EXCEPT !.phase = "sent", !.month = now])

NextMonth ==
    /\ now < MaxMonth
    /\ now' = now + 1
    /\ UNCHANGED <<rows, drafter>>

Drafts(d) ==
    \/ CreateDraft(d)
    \/ TakeExisting(d)
    \/ QueueDraft(d)
    \/ WriteFlag(d)

Next ==
    \/ StartNightly
    \/ StartRecipe("announce", "Announcement")
    \/ StartRecipe("launch", "Launch")
    \/ StartManual
    \/ \E d \in Places : Drafts(d) \/ JobFails(d) \/ DrafterDies(d)
    \/ \E i \in Ids : Approve(i) \/ Unapprove(i) \/ Withdraw(i) \/ Send(i)
    \/ NextMonth

Spec == Init /\ [][Next]_vars

\* A new row is asked for and the model's table is full: the insert fails.
TableFull(d) ==
    /\ drafter[d].pc = "job"
    /\ Head(drafter[d].jobs).existing = 0
    /\ Len(rows) = MaxRows

\* A run goes on to its end, and the workflow runs every night.  Whatever fails in
\* a draft (a render, a write, the run itself) does not fail for ever.  The
\* operator owes nothing.
Fairness ==
    /\ SF_vars(StartNightly)
    /\ \A d \in Places : WF_vars(Drafts(d) \/ (TableFull(d) /\ JobFails(d)))
    /\ <>[][\A d \in Places : ~DrafterDies(d) /\ (JobFails(d) => TableFull(d))]_vars

FairSpec == Spec /\ Fairness

-----------------------------------------------------------------------------
(* Properties *)

\* Types, and a draft that is queued is a row of the site (queueDraft).
TypeOK ==
    /\ rows \in Seq(Row)
    /\ drafter \in [Places -> Drafter]
    /\ now \in 1..MaxMonth
    /\ \A d \in Places :
          /\ drafter[d].pc \in {"queue", "flags"} => drafter[d].draft \in Ids
          /\ drafter[d].off \subseteq Ids

\* At most one report of the site waits for the operator's yes, but for a report
\* whose approval was taken back: unapprove returns a row to the queue without
\* asking what was queued since (queueDraft, unapproveReportIfUnsent).
OnePendingReport ==
    \A i, j \in Ids : i # j /\ Pending(i) /\ Pending(j) => rows[i].reopened \/ rows[j].reopened

\* One draft per type and period, crashes and re-runs included: at most one row of
\* a (type, period) is not withdrawn (findExistingForPeriod, findReportForPeriod).
OneDraftPerPeriod ==
    \A i, j \in Ids :
        /\ i # j
        /\ rows[i].type = rows[j].type
        /\ rows[i].period = rows[j].period
        /\ Live(i)
        => ~Live(j)

\* The scheduled reports do not pile up: at most one Maintenance and one Testing
\* is ready and unsent (draftDueReports' pendingEarlier).
NoPileUp ==
    \A i, j \in Ids :
        /\ i # j
        /\ rows[i].type = rows[j].type
        /\ rows[i].type \in {"Maintenance", "Testing"}
        /\ rows[i].ready /\ Unsent(i)
        => ~(rows[j].ready /\ Unsent(j))

\* A Testing draft that a crash or a supersede left out of the queue, still due,
\* with nothing of its tier or a higher one in the way.
Stranded(i) ==
    /\ i \in Ids
    /\ rows[i].type = "Testing"
    /\ rows[i].period = DuePeriod("Testing")
    /\ rows[i].phase = "open"
    /\ ~rows[i].ready
    /\ ~BlockedByPending(i)

\* A later night completes it, whatever crashed before (draftDueReports'
\* completeRowId path).
StrandedDraftsAreCompleted == \A i \in 1..MaxRows : Stranded(i) ~> ~Stranded(i)
=============================================================================
