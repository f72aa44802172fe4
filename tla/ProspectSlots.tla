--------------------------- MODULE ProspectSlots ----------------------------
(***************************************************************************)
(* The daily cap on prospect audits as a reservation protocol over the     *)
(* prospect_audits table.  A click in the cockpit looks for a recent audit *)
(* of the url, reserves a row, dispatches a job in another repository and  *)
(* gives the row back when the dispatch fails.  The job, or an operator,   *)
(* runs the CLI: it claims a reservation made for the site or reserves a   *)
(* row itself, buys the audit, and turns the row into a report, into       *)
(* "failed" or, when nothing was bought, into nothing.                     *)
(*                                                                         *)
(* Time is what the protocol is about: rows and runs carry their age in    *)
(* ticks, an age of a + 1 standing for more than a ticks.  A request takes *)
(* seconds and a tick many minutes, so a tick waits for requests.          *)
(***************************************************************************)
EXTENDS Integers, FiniteSets

CONSTANTS
    Urls,
    SiteOf,     \* siteKey: the site a url belongs to
    Clicks,     \* requests to the trigger that may be under way at once
    None,       \* no url, no row
    Runs,       \* jobs and CLI processes that may exist at once
    Cap,        \* PROSPECT_AUDIT_DAILY_CAP
    Duplicate,  \* PROSPECT_AUDIT_DUPLICATE_WINDOW_MS, in ticks
    RunLimit,   \* the job step's timeout, in ticks; assumed of a run by hand
    Stale,      \* PROSPECT_AUDIT_STALE_AFTER_MS, in ticks
    Window,     \* DAILY_CAP_WINDOW_MS, in ticks
    RowIds,     \* bound: rows that may matter at once
    Bills,      \* bound: numbers for the purchases that may matter at once, more
                \* than Cap of them
    MaxFaults   \* bound: failed dispatches, lost jobs and requests, writes that threw

ASSUME ProspectSlotsAssumption ==
    /\ DOMAIN SiteOf = Urls
    /\ {Cap, Duplicate, RunLimit, Stale, Window, MaxFaults} \subseteq Nat
    /\ IsFiniteSet(Clicks) /\ IsFiniteSet(Runs) /\ IsFiniteSet(RowIds)
    /\ Bills \subseteq Nat
    /\ None \notin RowIds \cup Urls \cup Bills
    /\ Duplicate < RunLimit /\ RunLimit < Stale /\ Stale + RunLimit <= Window

VARIABLES
    rows,    \* prospect_audits: the rows young enough to matter
    clicks,  \* requests to the trigger
    runs,    \* jobs and CLI processes
    spent,   \* history: purchases the cap answers for, each with its age and its row
    faults   \* bound: faults so far

vars == <<rows, clicks, runs, spent, faults>>

-----------------------------------------------------------------------------
(* Rows *)

Ages == 0 .. Window

Never == -1

Older(age) == IF age = Never THEN Never ELSE age + 1

\* `claimed` is the age of claimed_at, Never when it is null.
Row == [status : {"running", "ended"}, url : Urls,
        created : Ages, claimed : Ages \cup {Never}]

NoRow == [status |-> "none"]

Reserved(url, claimed) ==
    [status |-> "running", url |-> url, created |-> 0, claimed |-> claimed]

\* A report and a failure that paid: no statement tells "failed" from the
\* statuses of a report, or reads the claim of a row that ended.
Ended(url) == [status |-> "ended", url |-> url, created |-> 0, claimed |-> Never]

Exists(i) == rows[i] # NoRow

Running(i) == rows[i].status = "running"

\* Mutant: staleness runs from the reservation, not from the claim.
HeldSinceReservedMutant(row) == row.created

\* COALESCE(claimed_at, created_at).
HeldFor(row) == IF row.claimed = Never THEN row.created ELSE row.claimed

\* Mutant: a row counts for as long as it exists.
CountsForeverMutant(row) == row.status = "running" => HeldFor(row) <= Stale

\* The rows countedTowardCap selects.
Counts(row) ==
    /\ row.created <= Window
    /\ row.status = "running" => HeldFor(row) <= Stale

CountedTowardCap == {i \in RowIds : Exists(i) /\ Counts(rows[i])}

HasSlot == Cardinality(CountedTowardCap) < Cap

Insert(i, row) == ~Exists(i) /\ rows' = [rows EXCEPT ![i] = row]

\* Mutant: the subquery looks at claimed rows too.
OldestRunningMutant(url) ==
    LET found == {i \in RowIds :
            /\ Exists(i)
            /\ SiteOf[rows[i].url] = SiteOf[url]
            /\ Running(i)
            /\ rows[i].created <= Stale}
    IN  {i \in found : \A j \in found : rows[j].created <= rows[i].created}

\* The row claimProspectAuditReservation's subquery selects: the oldest
\* unclaimed reservation of the site that is not stale.
Candidates(url) ==
    LET found == {i \in RowIds :
            /\ Exists(i)
            /\ SiteOf[rows[i].url] = SiteOf[url]
            /\ Running(i)
            /\ rows[i].claimed = Never
            /\ rows[i].created <= Stale}
    IN  {i \in found : \A j \in found : rows[j].created <= rows[i].created}

\* The rows the UPDATE around it writes.
Claimable(url) == {i \in Candidates(url) : rows[i].claimed = Never}

-----------------------------------------------------------------------------
(* Requests and runs *)

Click == [pc : {"idle", "checked", "dispatching", "releasing"},
          url : Urls \cup {None}, row : RowIds \cup {None}]

NoClick == [pc |-> "idle", url |-> None, row |-> None]

\* `row` is the reservation the run holds, None when the brake did not answer;
\* `age` counts from the start, `bill` is what it bought on that row.
Run == [pc : {"idle", "queued", "reserving", "working", "paid"},
        url : Urls \cup {None}, dispatched : BOOLEAN, row : RowIds \cup {None},
        age : 0 .. RunLimit, bill : Bills \cup {None}]

NoRun == [pc |-> "idle", url |-> None, dispatched |-> FALSE, row |-> None,
          age |-> 0, bill |-> None]

\* The run is past its reservation and may spend.
Live(r) == runs[r].pc \in {"working", "paid"}

\* A process that still runs the CLI.
Started(r) == runs[r].pc \in {"reserving", "working", "paid"}

Fault == faults < MaxFaults /\ faults' = faults + 1

Bill == [row : RowIds, age : Ages]

NoBill == [row |-> None, age |-> Never]

\* A purchase goes into the history, at its first free place, when its slot was
\* reserved, and comes out when its run ends with no code left to hold the slot.
Bought(r, b) ==
    /\ spent[b] = NoBill /\ \A c \in Bills : spent[c] = NoBill => b <= c
    /\ spent' = [spent EXCEPT ![b] = [row |-> runs[r].row, age |-> 0]]

Excused(r) == [b \in Bills |-> IF b = runs[r].bill THEN NoBill ELSE spent[b]]

End(r) == runs' = [runs EXCEPT ![r] = NoRun]

-----------------------------------------------------------------------------
Init ==
    /\ rows = [i \in RowIds |-> NoRow]
    /\ clicks = [c \in Clicks |-> NoClick]
    /\ runs = [r \in Runs |-> NoRun]
    /\ spent = [b \in Bills |-> NoBill]
    /\ faults = 0

(* The cockpit: triggerProspectAudit *)

\* listRecent finds no row of the url inside the duplicate window.
CheckDuplicate(c, url) ==
    /\ clicks[c].pc = "idle"
    /\ \A i \in RowIds :
        Exists(i) /\ rows[i].url = url => rows[i].created > Duplicate
    /\ clicks' = [clicks EXCEPT ![c] = [NoClick EXCEPT !.pc = "checked", !.url = url]]
    /\ UNCHANGED <<rows, runs, spent, faults>>

\* One conditional INSERT; "daily-cap" when it inserts nothing.
ReserveForClick(c) ==
    /\ clicks[c].pc = "checked"
    /\ IF HasSlot
       THEN \E i \in RowIds :
            /\ Insert(i, Reserved(clicks[c].url, Never))
            /\ clicks' = [clicks EXCEPT ![c] = [@ EXCEPT !.pc = "dispatching", !.row = i]]
       ELSE /\ clicks' = [clicks EXCEPT ![c] = NoClick]
            /\ UNCHANGED rows
    /\ UNCHANGED <<runs, spent, faults>>

\* A dispatch GitHub takes queues a job.
QueueJob(url) ==
    \E r \in Runs :
        /\ runs[r].pc = "idle"
        /\ runs' = [runs EXCEPT ![r] = [NoRun EXCEPT
                        !.pc = "queued", !.url = url, !.dispatched = TRUE]]

Dispatched(c) ==
    /\ clicks[c].pc = "dispatching"
    /\ QueueJob(clicks[c].url)
    /\ clicks' = [clicks EXCEPT ![c] = NoClick]
    /\ UNCHANGED <<rows, spent, faults>>

DispatchFailed(c) ==
    /\ clicks[c].pc = "dispatching"
    /\ Fault
    /\ clicks' = [clicks EXCEPT ![c].pc = "releasing"]
    /\ UNCHANGED <<rows, runs, spent>>

\* GitHub took the dispatch and the answer was lost.
DispatchFailedButQueued(c) ==
    /\ clicks[c].pc = "dispatching"
    /\ Fault
    /\ QueueJob(clicks[c].url)
    /\ clicks' = [clicks EXCEPT ![c].pc = "releasing"]
    /\ UNCHANGED <<rows, spent>>

\* Mutant: a release deletes by id, whatever the row has become.
ReleasableByIdMutant(i, onlyIfUnclaimed) == Exists(i)

\* releaseProspectAuditReservation deletes what is running, and for the
\* cockpit only what no run has claimed.
Releasable(i, onlyIfUnclaimed) ==
    /\ Running(i)
    /\ onlyIfUnclaimed => rows[i].claimed = Never

Release(i, onlyIfUnclaimed) ==
    rows' = IF Releasable(i, onlyIfUnclaimed) THEN [rows EXCEPT ![i] = NoRow] ELSE rows

ReleaseForClick(c) ==
    /\ clicks[c].pc = "releasing"
    /\ Release(clicks[c].row, TRUE)
    /\ clicks' = [clicks EXCEPT ![c] = NoClick]
    /\ UNCHANGED <<runs, spent, faults>>

\* The request ends early: the INSERT threw before it was applied, or the
\* reservation stays behind because the INSERT's answer was lost, the function
\* died or the release threw.
AbandonClick(c) ==
    /\ clicks[c].pc \in {"checked", "dispatching", "releasing"}
    /\ Fault
    /\ clicks' = [clicks EXCEPT ![c] = NoClick]
    /\ UNCHANGED <<rows, runs, spent>>

-----------------------------------------------------------------------------
(* The CLI: runProspectAuditCommand *)

Work(r, url, isJob, row) ==
    runs' = [runs EXCEPT ![r] = [NoRun EXCEPT
                !.pc = "working", !.url = url, !.dispatched = isJob, !.row = row]]

ToReserve(r, url, isJob) ==
    runs' = [runs EXCEPT ![r] = [NoRun EXCEPT
                !.pc = "reserving", !.url = url, !.dispatched = isJob]]

MarkClaimed(i) == rows' = [rows EXCEPT ![i].claimed = 0]

\* reserveDailyCapSlot: claim, and reserve when there was nothing to claim.  A
\* statement that throws, applied or not, lets the run go on unreserved.
Claim(r, url, isJob) ==
    \/ \E i \in Claimable(url) :
        /\ MarkClaimed(i)
        /\ Work(r, url, isJob, i)
        /\ UNCHANGED faults
    \/ /\ Claimable(url) = {}
       /\ ToReserve(r, url, isJob)
       /\ UNCHANGED <<rows, faults>>
    \/ /\ Fault
       /\ UNCHANGED rows \/ \E i \in Claimable(url) : MarkClaimed(i)
       /\ Work(r, url, isJob, None)

\* The workflow's concurrency group runs one job of a url at a time.
StartJob(r) ==
    /\ runs[r].pc = "queued"
    /\ \A q \in Runs : runs[q].dispatched /\ Started(q) => runs[q].url # runs[r].url
    /\ Claim(r, runs[r].url, TRUE)
    /\ UNCHANGED <<clicks, spent>>

\* An operator runs the CLI.
StartByHand(r, url) ==
    /\ runs[r].pc = "idle"
    /\ Claim(r, url, FALSE)
    /\ UNCHANGED <<clicks, spent>>

\* The job is cancelled in the queue, or dies before it holds a slot.
LoseJob(r) ==
    /\ runs[r].pc \in {"queued", "reserving"}
    /\ Fault
    /\ End(r)
    /\ UNCHANGED <<rows, clicks, spent>>

ReserveForRun(r) ==
    /\ runs[r].pc = "reserving"
    /\ \/ /\ HasSlot
          /\ \E i \in RowIds :
                /\ Insert(i, Reserved(runs[r].url, 0))
                /\ Work(r, runs[r].url, runs[r].dispatched, i)
          /\ UNCHANGED faults
       \/ /\ ~HasSlot
          /\ End(r)
          /\ UNCHANGED <<rows, faults>>
       \/ /\ Fault
          /\ \/ UNCHANGED rows
             \/ HasSlot /\ \E i \in RowIds : Insert(i, Reserved(runs[r].url, 0))
          /\ Work(r, runs[r].url, runs[r].dispatched, None)
    /\ UNCHANGED <<clicks, spent>>

Pays(r, bill) == runs' = [runs EXCEPT ![r] = [@ EXCEPT !.pc = "paid", !.bill = bill]]

\* The first paid stage starts (spendStarted).
StartPaidStage(r) ==
    /\ runs[r].pc = "working"
    /\ \/ /\ runs[r].row = None
          /\ Pays(r, None)
          /\ UNCHANGED spent
       \/ /\ runs[r].row # None
          /\ \E b \in Bills : Bought(r, b) /\ Pays(r, b)
    /\ UNCHANGED <<rows, clicks, faults>>

\* The pipeline throws before a paid stage: the slot is given back, or the
\* release throws too.
ThrowUnpaid(r) ==
    /\ runs[r].pc = "working"
    /\ \/ /\ IF runs[r].row # None THEN Release(runs[r].row, FALSE) ELSE UNCHANGED rows
          /\ UNCHANGED faults
       \/ Fault /\ UNCHANGED rows
    /\ End(r)
    /\ UNCHANGED <<clicks, spent>>

\* Mutant: a run that throws gives its slot back, whatever it bought.
FailByReleaseMutant(i) == Release(i, FALSE)

\* failProspectAudit.
Fail(i) ==
    rows' = IF Running(i)
            THEN [rows EXCEPT ![i] = Ended(rows[i].url)]
            ELSE rows

\* The pipeline throws after a paid stage started: the row is marked.
ThrowPaid(r) ==
    /\ runs[r].pc = "paid"
    /\ IF runs[r].row # None THEN Fail(runs[r].row) ELSE UNCHANGED rows
    /\ End(r)
    /\ UNCHANGED <<clicks, spent, faults>>

\* finishProspectAudit, and createProspectAudit when it wrote no row.
FinishRow(r) ==
    LET i == runs[r].row IN
    IF i # None /\ Running(i)
    THEN rows' = [rows EXCEPT ![i] = Ended(runs[r].url)]
    ELSE \E j \in RowIds : Insert(j, Ended(runs[r].url))

\* A run with no paid stage ends here too: its checks failed, so it asked no
\* model.
Finish(r) ==
    /\ Live(r)
    /\ FinishRow(r)
    /\ End(r)
    /\ UNCHANGED <<clicks, spent, faults>>

\* The run ends and its row is not written: its process was killed, or the
\* mark or the persist threw.
Vanish(r) ==
    /\ Live(r)
    /\ Fault
    /\ spent' = Excused(r)
    /\ End(r)
    /\ UNCHANGED <<rows, clicks>>

-----------------------------------------------------------------------------
(* Time *)

AgedRun(run) ==
    IF run.pc \in {"working", "paid"}
    THEN [run EXCEPT !.age = @ + 1]
    ELSE run

AgedRow(row) ==
    [row EXCEPT !.created = Older(@), !.claimed = Older(@)]

\* A row no count selects and no run holds is never selected again.
NextRow(i) ==
    IF Exists(i) /\ (Counts(AgedRow(rows[i])) \/ \E r \in Runs : runs[r].row = i)
    THEN AgedRow(rows[i])
    ELSE NoRow

NextBill(b) ==
    IF spent[b] # NoBill /\ spent[b].age < Window
    THEN [spent[b] EXCEPT !.age = @ + 1]
    ELSE NoBill

\* The timeout ends a run before it is older than RunLimit (Vanish).
Tick ==
    /\ \A c \in Clicks : clicks[c].pc = "idle"
    /\ \A r \in Runs : runs[r].pc # "reserving"
    /\ \A r \in Runs : Live(r) => runs[r].age < RunLimit
    /\ rows' = [i \in RowIds |-> NextRow(i)]
    /\ runs' = [r \in Runs |-> AgedRun(runs[r])]
    /\ spent' = [b \in Bills |-> NextBill(b)]
    /\ UNCHANGED <<clicks, faults>>

Next ==
    \/ \E c \in Clicks :
        \/ \E url \in Urls : CheckDuplicate(c, url)
        \/ ReserveForClick(c)
        \/ Dispatched(c)
        \/ DispatchFailed(c)
        \/ DispatchFailedButQueued(c)
        \/ ReleaseForClick(c)
        \/ AbandonClick(c)
    \/ \E r \in Runs :
        \/ StartJob(r)
        \/ \E url \in Urls : StartByHand(r, url)
        \/ LoseJob(r)
        \/ ReserveForRun(r)
        \/ StartPaidStage(r)
        \/ ThrowUnpaid(r)
        \/ ThrowPaid(r)
        \/ Finish(r)
        \/ Vanish(r)
    \/ Tick

Spec == Init /\ [][Next]_vars

-----------------------------------------------------------------------------
(* Properties *)

\* Types; a run holds a row exactly when it was reserved one.
TypeOK ==
    /\ rows \in [RowIds -> Row \cup {NoRow}]
    /\ clicks \in [Clicks -> Click]
    /\ runs \in [Runs -> Run]
    /\ \A r \in Runs : runs[r].row # None => Live(r)
    /\ spent \in [Bills -> Bill \cup {NoBill}]
    /\ faults \in 0 .. MaxFaults

\* The brake: whatever clicks, jobs and operators interleave, and whichever
\* runs throw before or after they paid, no more than Cap audits were bought in
\* the last Window, beside those whose reservation threw and those whose run
\* ended unable to mark its row.
CapHolds == Cardinality({b \in Bills : spent[b] # NoBill}) <= Cap

\* A run that may spend holds a row that is its own, still running and counted,
\* however long its job waited before it claimed the row and whatever release
\* of the cockpit's came late (#907, P3 and P4).
SpendingRunsAreCounted ==
    \A r \in Runs : Live(r) /\ runs[r].row # None =>
        /\ Running(runs[r].row)
        /\ runs[r].row \in CountedTowardCap
        /\ \A q \in Runs \ {r} : runs[q].row # runs[r].row

Of(site, url) == url # None /\ SiteOf[url] = site

\* One audit, one slot: the slots of a site nobody has claimed are no more than
\* the requests and jobs of the site still on their way to claim one, beside one
\* for each fault, though jobs claim by site and take each other's rows (#907,
\* M1).
OneSlotPerAudit ==
    \A site \in {SiteOf[url] : url \in Urls} :
        LET unclaimed == {i \in CountedTowardCap :
                Running(i) /\ rows[i].claimed = Never /\ Of(site, rows[i].url)}
            asking == {c \in Clicks :
                clicks[c].pc \in {"dispatching", "releasing"} /\ Of(site, clicks[c].url)}
            queued == {r \in Runs : runs[r].pc = "queued" /\ Of(site, runs[r].url)}
        IN  Cardinality(unclaimed) <= Cardinality(asking) + Cardinality(queued) + faults

\* A row that ended, a report or a failure that paid, is never written over,
\* deleted or reopened: it only ages, for as long as the cap counts it.
ReportsAreKept ==
    [][\A i \in RowIds : Exists(i) /\ ~Running(i) =>
          \/ rows'[i] \in {rows[i], AgedRow(rows[i])}
          \/ rows[i].created = Window /\ rows'[i] = NoRow]_vars
=============================================================================
