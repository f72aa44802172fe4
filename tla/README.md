# TLA+ models of reddoor-maintenance

The repository keeps about forty client websites in maintenance. A nightly chain of
workflows measures every site and writes what it found to Turso. A draft step makes a report
per site and period. An operator approves each report in a dashboard (the cockpit), and a
daily send batch mails the approved ones through Resend, beside a digest of what needs
attention. Webhooks, form submissions, prospect audits and operator recipes write to the same
database. Nothing holds a lock across two statements: every handler reads in one round trip
and writes in a later one, and correctness rests on the `WHERE` of that write.

This directory models those parts, checks them with TLC on small instances and proves with
TLAPS, for every value of the constants, every invariant, action property and refinement the
passing runs check. Liveness is model-checked only.

    tlc -workers 2 -config ReportSend.cfg MCReportSend.tla
    tlc -workers 2 -config LeadIntake.cfg MCLeadIntake.tla
    tlapm ReportSendProofs.tla
    tlapm DraftQueueProofs.tla

## Inventory

Paths are under the repository root.

| Component | State | Operations | What is hard | What makes it correct | Module |
|---|---|---|---|---|---|
| **Approve-and-send loop** `src/reports/send/`, `src/dashboard/{approve,unapprove,withdraw,report-commentary}.ts`, reports part of `src/db/fleet-state.ts` | the `reports` rows: `draft_ready`, `approved_to_send`, `approved_at`, `send_override`, evidence, `send_started_at`, `sent_at`, `resend_message_id`, `withdrawn_at` | approve, override, unapprove, withdraw, edit commentary, refresh preview, send batch | read then write in separate requests; a queue read once per batch; lost answers and lost stamps; a 24 h idempotency window | an email leaves only under a standing approval; a stamp means an email; a green run lost nothing; sent and withdrawn are final | `ReportSend`, `ReportDelivery`, `ReportSendProofs` |
| **Draft queue** `src/reports/{queue,create-report,draft}.ts` | `draft_ready` over one site's rows | create, complete, supersede, block | flags written one by one; recipes beside the nightly run | one pending report per site, highest tier; a half-made draft is completed | `DraftQueue`, `DraftQueueProofs` |
| **Draft scheduling** `src/reports/due.ts`, `src/cli/commands/report.ts` | next due dates, `period` | find due, skip, draft | month ends, pushes past testing, re-runs | one draft per (site, type, period) | `DraftQueue`, partly |
| **Delivery webhook** `netlify/functions/resend-webhook.mts`, `src/reports/webhook-events.ts` | `delivery_status`, `notify_status`, `bounce_type`, `bounce_ack_at` | delivered, bounced, complained; acknowledge | duplicated, reordered and concurrent events; events before the sent stamp | a bounce is never downgraded; an event answered 200 is on its row | `DeliveryWebhook`, `DeliveryRecord`, `DeliveryWebhookProofs` |
| **Form ingest, dead letters** `netlify/functions/form-ingest.mts`, `src/forms/{ingest,replay}.ts`, `src/db/{submissions,deadletter}.ts` | submissions, dead letters | ingest, scan, re-bucket, notify, fan out, dead-letter, replay, abandon | a failure or death between any two steps; resends and replays of one lead | no lead is lost; only a failure mints one twice; a scan buries sprays and nothing else | `LeadIntake`, `LeadIntakeProofs` |
| **Health mirror** `src/db/fleet-state.ts` 335-417, `src/audits/write-audits.ts`, `src/retest/` | `site_health` with one stamp per audit | sweep, write-back, gate; re-test, read back | an old sweep landing after a newer re-test; sites lost, renamed or blind behind a green gate | a stamped set moves as one, never backwards; green means fresh | `HealthStamps`, `HealthStampsProofs` |
| **Digest** `src/reports/digest.ts`, `src/alerts/`, `src/db/digest-state.ts` | first-flagged days, send log | collect, decide, send, store | a digest sent whose log is lost; reruns of a day; a list that flickers | news is mailed, once; an item that waits is not forgotten | `AlertDigest`, `AlertDigestProofs` |
| **Prospect audits** `src/prospect/daily-cap.ts`, `src/db/prospect-audits.ts`, `src/dashboard/prospect-audit-trigger.ts`, `src/cli/commands/prospect-audit.ts` | `prospect_audits`: status, url, `created_at`, `claimed_at`; overrides | click, reserve, dispatch, release; claim, run, finish, fail; override | a job that starts late, twice or never; a dispatch reported failed that was taken; crashes that leave a slot held | the cap holds; a run that spends holds a counted row of its own; a report is never written over | `ProspectSlots`, `ProspectSlotsProofs`, overrides planned |
| **Nightly conductor, landing** `scripts/` | workflow runs, merges | dispatch, wait, batch | a dispatch whose run is not visible yet | order of the chain; no batch lands red | planned |
| Migrations, fleet-daily, recipes, Prismic, Blux, GitHub client, cockpit screens, sign-in, site client | | | one writer, pure data or I/O | | not modelled, reasons in `PROJECT.json` |

The parts share the database and Resend and nothing else: every interaction is a race on a
row. The send batch reads what the dashboard and the drafting path wrote, and stamps what the
webhook later looks up by message id; so does the ingest tail for a lead's notification. The
digest reads what the sweep wrote, as facts. Where two modules touch the same row, the one
without the detail has the other's effect as a free choice: `ReportSend` lets a drafting job
write any verdict `DraftQueue` may compute, and `DeliveryWebhook` lets the stamp of
`ReportSend` or `LeadIntake` come, be lost, or come late.

## What is modelled

### ReportSend

The whole life of a report between its draft and its email.

| Variable | Code |
|---|---|
| `row` | the `reports` table. `content` counts versions of everything a render reads (commentary, scores, visits); `clear` is `isHealthGateClear` of the stored evidence; `approvedAt` is the n-th approval written |
| `session` | the requests and drafting jobs in flight: what each decided on its read and is about to write |
| `run` | the send batch: its program counter, the queue it read (`seen`, the rows as they were then), the report in hand, the reports mailed, its colour |
| `mail`, `live` | Resend (external): every email that left, and the idempotency records not yet 24 hours old |
| `launched` | Launch sites flipped to maintained |
| `clock`, `lapses` | the last `approved_at`; how many windows ran out |

Every dashboard handler is a `...Read` action (its refusals are the guard: a refusal writes
nothing) and a `...Write` action, one guarded `UPDATE`. Between the two anything may happen. A
request that dies in between is one whose write never comes; no write is forced.
`RefreshWrite` may repeat: a refresh has up to three guarded updates. The drafting path appears
through its writes only: `DraftRead`, `SupersedeRead` and `ReuseRead` start a job that ends in an
unguarded flag write, under any verdict `queueDraft` may reach.

The batch is one action per call: queue read, check for approvals the queue cannot see, gate
and preconditions (`BeginSend` or `RefuseSend`), claim, send, release, stamp, flip.
`RunCrash` ends it anywhere. One run at a time is what the workflow's concurrency group
`m3-daily` gives (`.github/workflows/daily-reports.yml`); a run begun by hand beside it is not
modelled. Resend's five answers are separate actions:
accepted, same answer again, 409 conflict, ambiguous (the email may have left) and refused. A
conflict is possible with an unchanged row too, since the header image encodes differently
each time.

### ReportDelivery

The promise, without queue, claim, batch or sessions: a report moves between open, approved,
withdrawn and sent; it is delivered only while approved and not again while Resend
remembers; it is recorded as sent only after a delivery. `ReportSend` implements it with
`phase` read off the row, `delivered` the number of emails and `window` whether a live record
is left. The promise is no stronger than that on purpose: after a lost stamp and a lapsed
window a second email does leave, as the code's own comment says.

### DraftQueue

One site's rows and the programs that draft them. `ReportSend` lets any drafting job write any
verdict on a row; `DraftQueue` computes the verdicts.

| Variable | Code |
|---|---|
| `rows` | the site's rows of `reports`: type, `period` and the months as numbers, `ready` is `draft_ready`, `phase` reads approval, stamp and withdrawal together, `reopened` is `unapproved_at` |
| `drafter` | the two places a drafting program runs: the nightly workflow (`m3-daily`, one at a time) and an operator's desk. Its job list, the row in hand, and the flags `queueDraft` has planned and not written |
| `now` | the month |

`StartNightly` is `draftDueReports` up to its loop: one read of the reports, from which
everything the run will do follows (due, skipped, completed, created); no item's outcome can
change the next one's decision for the same site, so the jobs are computed at once. `StartRecipe` is
the announce or launch lookup (`findReportForPeriod`), `StartManual` is `report <slug>`, which looks
for nothing. A job then takes the code's steps: insert or take the row, `queueDraft`'s read and
plan, one flag write per step, superseded rows in any order and the draft's own last. Any
step may throw (`JobFails`: the run reports it and goes on) and the program may die
(`DrafterDies`). An approve, unapprove, withdraw or send is its guarded `UPDATE` at any
moment; a send may be started by hand beside the nightly run, and is one step from its claim to its
stamp, since no drafting program asks for the claim.

What is due is decided at month granularity, as if everything in a month happened on its same
day, for monthly cycles: the base is the last send or withdrawn draft, a Testing report
within a month pushes the Maintenance report past it. The code's loop uses each Testing report
once; the months it then lands on are the first one that no Testing report of its own or the next
month covers, which is how `Pushed` states it, so that it can be reasoned about without unrolling
the loop. A Testing report approved in the
last three days covers Maintenance and an older approval does not; the model allows both.

### LeadIntake

A visitor's form post until it is a row of `submissions`.

| Variable | Code |
|---|---|
| `fleet`, `accepted` | the sites with a fleet row; the leads whose form type the deployed code still takes |
| `submissions` | the rows: `status`, `notify_status`, whether `fanout_status` is stamped, the dead letter the row was placed from, and, as history, when the operator last put it back |
| `letters` | the dead letters: outcome, `abandoned`, the row's id |
| `visitor` | what the site's form told each visitor, and the request still awaited |
| `handler` | `ingestSubmission` in each live request and in the replay, at its next await |
| `queue` | the letters `db replay-deadletters` read and has not reached; it takes the oldest first |
| `posts`, `faults`, `disturbed` | the bounds, and whether two handlers ever overlapped or a step failed |

One action per await: site lookup, sender scan, its re-bucket, body scan, its re-bucket,
insert, tail, mark. Each has a failing counterpart with the code's answer (404 or accepted with a
dead letter, 502, best effort), and `Dies` ends a handler anywhere. `CreateFails` may leave the
row made, since `createSubmission` reads its row back after the insert. The tail (notify,
its stamp, a signup's fan-out) is one step: nothing else reads what it writes. What a lead says
is a record of a constant function: site, sender, body, form, the content verdict, and whether its
copy may re-bucket others (`mayRetroBucket`). The visitor times out or posts again what was reported
as failed; the operator abandons letters and makes missing sites; a deploy retires a
form type. `Triage` takes a row out of the inbox (read, archived or spam, all one to the scans).
`Restore` is "Not spam -> new": `setSubmissionStatus` writes whatever status it is asked for, and a
row that is new again is new to every scan.

### DeliveryRecord and DeliveryWebhook

`DeliveryRecord` is what the cockpit relies on: a status belongs to a row that knows its message id
and only gets worse, and a stored bounce classification and an acknowledgement stay.
`DeliveryWebhook` is the handler.

| Variable | Code |
|---|---|
| `owner` | whose email it is: a report's, a lead notification's, nobody's (the digest) |
| `record` | the row: whether the message id is stamped, status, `bounce_type`, `bounce_ack_at` |
| `event` | per email and type, svix's queue and the handler: `lead` is the lookup by message id in `submissions`, `report` the lookup in `reports`, `write` the status about to be written, compared on the row read before |

An answer of 200 may not be heard, in which case svix delivers again. An event is `old` once
`ORPHAN_RETRY_WINDOW_MS` have passed since Resend created it.

### HealthStamps

| Variable | Code |
|---|---|
| `row` | `site_health`: per audit its verdict and stamp (one set of `HEALTH_STAMPED_SETS`) |
| `name` | how often a site was renamed: the roster slug is made from its name |
| `clock` | per site, the measurements made: stamps of two sites are never compared |
| `sweep` | `audit --fleet turso --write-back`: what is left to measure or write, the roster it read again, the pooled results, how each site is filed, the gate's verdict |
| `retest` | `site-retest`: the reasons it set out to clear, its results, how they were filed |
| `left` | what remains of the bounds |

The sweep measures every site, then reads the roster again, then writes site by site. No
step looks at an outcome before the write, so the write chooses it. `Guarded` is the
stamp guard in the `UPDATE`; `Red` is `fleetWriteGate`. The re-test measures what its row
reports, writes through the same code, reads the row back and reports what cleared. A write that threw
may have landed, or not.

### AlertDigest

| Variable | Code |
|---|---|
| `day` | the UTC day |
| `snap` | `digest_state`: the day each slow key was first flagged |
| `log` | the send log: the day of the last mail, and per key the metric it is judged by and the day it went |
| `resend` | Resend (external): the last accepted mail's day, and its body under `digest-<day>` |
| `run` | the run: its list, the snapshot to store, the log it read, whether it mails |
| `told`, `gone`, `last`, `since`, `mails` | history, for the properties: the worst the operator was told of a key since it last went away for good (by a mail, or by the same mail answered again: the operator has that list); the day it went; what the last logged run found and whether it mailed; and so on |

A run reads everything and decides (`Begin`), sends, stores the snapshot, stores the log. Each may
fail, and the run may die between any two. What the collectors report is chosen freely each run:
any set of items may appear, grow, shrink and vanish, which is also what a failed
collector looks like. Days may have several runs or none. `Conflict` is the 409 of a rerun that finds another
list than the day's mail: nothing is stored and the run is green, since `runDigest` returns 0 and the
workflow exits 0 on "Digest already sent today" before its gates. The date is taken once, before
anything is read, so a run that crosses midnight is a run of the day it began.

### ProspectSlots

The daily cap on prospect audits: who holds a slot, from the click to the report. The slot is a row.

| Variable | Code |
|---|---|
| `rows` | `prospect_audits`: `status` (running, or ended: a report or `failed`), the url, the ages of `created_at` and `claimed_at` |
| `clicks` | `triggerProspectAudit` in each request: before the reservation, before the dispatch, before the release |
| `runs` | the job GitHub queued, and the CLI in it or on an operator's machine: its row, its age, when it first paid |
| `spent` | history: the purchases the cap answers for, each with its row and age, under numbers from `Bills` |
| `faults` | the bound |

Time is a tick; a row carries ages instead of dates, so a state does not remember when it began. An
age of `a + 1` stands for "more than `a` ticks", and a tick waits for the requests under way and for a
run between its claim and its reservation, which take seconds where a tick is many minutes. The windows
keep the order the code gives them (`ProspectSlotsAssumption`): a duplicate window shorter than a run,
a run (the job step's `timeout-minutes`) shorter than the stale window, and both together no longer
than the cap's. No timeout ends a run by hand; the model assumes that it is no longer than a
job. A row is dropped from the model when no count and no run can select it any more: no statement
reads it then, but for the reports' own pages.

`CheckDuplicate`, `ReserveForClick`, the dispatch and `ReleaseForClick` are the trigger's awaits.
`DispatchFailedButQueued` is GitHub taking a dispatch whose answer is lost. `StartJob` waits for the
workflow's concurrency group, which takes one url at a time; `Claim` then takes the oldest unclaimed
reservation of the *site*, and `ReserveForRun` makes one when there was none. `StartPaidStage` is
`spendStarted`; a run that throws gives its row back before it (`ThrowUnpaid`) and marks it `failed` after
it (`ThrowPaid`); `Finish` rewrites the row in place, url and `created_at` included, or inserts a new
one. A claim or reservation that throws lets the run go on without a slot, on purpose, and `spent` leaves
its purchases out, as it does those of a run that ended without code left to write its row (killed, or
the write threw: the stale window then frees the slot, which is what the code says of it).

## Runs

| Run | Instance | Question |
|---|---|---|
| `send` | a Testing and a Launch report, one session, 2 approvals, 1 lapse | every safety property of `ReportSend`, and `DeliverySpec` |
| `liveness` | one Launch report, one session, 2 approvals, 1 edit, 1 lapse | `ApprovedReportsSettle` |
| `queue_months` | nightly run and announce recipe, one at a time, 3 rows, 2 months | `OneDraftPerPeriod`, `NoPileUp` |
| `queue_liveness` | every program, one at a time, 2 rows, 2 months | `OnePendingReport`, `StrandedDraftsAreCompleted` |
| `intake` | 4 leads (a pitch on two sites, a known pitch, a signup), 2 live requests and the replay, 2 posts, 1 row put back, 1 fault | no lead lost, duplicates paid for by failures, the spray scans, the operator's decision |
| `intake_liveness` | 2 leads, one on a site still building, 2 posts, 1 fault | `QueuedLeadsSettle` |
| `webhook` | one email of any owner, all three events, 3 faults, one delivery at a time | `RecordSpec`, `AckedIsRecorded`, `EventsSettle` |
| `health` | 4 sites, 2 audits, a sweep, a re-test, 1 trouble | `VerdictsOnlyAge`, `RetestTellsTruth`, `GreenNightIsFresh` |
| `digest` | a critical, a noisy and a slow key, 5 days of up to 2 runs, 1 fault | one mail a day, an honest log, news and heartbeat mailed or waiting for the next day, critical rises, slow items listed |
| `prospect_slots` | two spellings of one site, 1 request and 2 runs at a time, cap 2, 1 fault | the cap, a counted row under every spending run, one slot per audit, reports kept |
| `unapprove_after_email`, `concurrent_deliveries` | as small as they show it | statements of the source the code does not keep |

### Bounds

`ReportSend`. The proofs cover any number of reports and sessions; the runs are there to find a wrong
formula cheaply and to show that the cases happen. Two reports under one session have every read
and write of the dashboard against every step of the batch, and what a batch adds (a stale row for
the second report while the first is sent). `liveness` takes the Launch report, which a recipe's reuse edits and
whose send has one step more to die in. Two approvals are needed for the hazard the claim
exists for: approved, read by the queue, unapproved, refreshed to red evidence, approved
again with an override. One lapse makes a second email possible. One edit (`liveness`) tells an old
body from a new one (the 409); a conflict is possible without one too. The number of runs of the
batch, of refusals and of crashes is not bounded.

`DraftQueue`. Three rows hold a draft, the one it supersedes and the one that
supersedes it, or two periods of a type and a blocker; two months are the least in which a
period can be skipped, piled up or pushed. A recipe beside the nightly run only ever takes a
Maintenance or Testing row out of the queue, so `queue_months` runs them one at a time; the
operator, the send batch and the month still move between any two steps. With two rows
`queue_liveness` still has a Testing draft left behind by a crash and one superseded by an
announcement that is then withdrawn or sent. A table at its bound is an insert that fails.

`LeadIntake`. Two posts give two copies that overlap, one copy posted twice, and a copy against a replay.
One fault is enough for each single failure and for a crash of the replay between placing and marking; a second
replay of the same letter follows. One row put back is one of a pair of copies, before, during or
after the other's scan; `MaxRestored` counts rows, and the row may be taken out and put back again.
`intake_liveness` has none: no letter waits for the operator's inbox. The four leads differ in whatever a scan asks: same sender
on two sites, same body from another sender, verdict by content, permission to re-bucket (`mayRetroBucket`), no text.

`DeliveryWebhook`. Events of two emails touch nothing in common, so one is the general case. Three
faults allow a lost answer, a failed lookup and a dead handler on one event.

`HealthStamps`. The gate lets a quarter pass: four sites are the least at which one may fail on a green night. One
re-test overtakes, or is overtaken by, the sweep at every step. All sites start failing at stamp
0, so that each is re-testable. Two audits are the least that tell a Lighthouse miss, filed after the
write, from an audit that measured nothing. Sites are interchangeable (symmetry).

`AlertDigest`. The windows are scaled to days a run reaches: heartbeat 2 for 7, memory 3 for 28,
tolerance 1 for 5, watch days 2 for 7; they are constants. Five days hold a heartbeat, an item that goes,
is forgotten and returns, and a noisy one that returns inside and outside its memory.

`ProspectSlots`. Time has no end in the model: every age is bounded by the window it is compared with.
The windows are the smallest in their order: duplicate 0 ticks, run 1, stale 2, cap 3. Two urls that are two
spellings of one site are all the url can do: the duplicate check and the concurrency group tell
them apart, the claim does not. Two runs, a cap of two and three rows have a job claim the other's
row, a run by hand take the last slot while a job waits, and a full cap. One fault is enough for each of
a failed dispatch, a lost job, a write that threw and a crash. One request at a time leaves the double
click out; see below. `Bills` has one number more than the cap, so that a purchase too many can
be made; a run finds one while the cap holds, for a purchase is forgotten when it leaves the window. Requests, runs and rows are interchangeable (symmetry).

Deadlock is checked in the runs of `ReportSend`, `DraftQueue` and `ProspectSlots`, which have no end. The others
stop when their bounds (posts, events, sweeps, days) are used up.

### Fairness

`liveness`. A run is started every day and a step it can take is taken:
`WF(RunProgress)`. A claim, an accepted send and a stamp can each be pre-empted by their
failure, or by a crash; that they do not fail for ever is `SF` on each of them. That is the
assumption the code makes when it leaves a failed row for the next run. Sessions and Resend's
clock have no fairness: no operator is obliged to do anything.

`queue_liveness`. The workflow starts every night: `SF(StartNightly)`, strong because
in this run the desk may be busy in between. A program that runs goes on. Failures and kills of
the drafting programs stop in the end; the code's own repair ("complete it in place") rests on that. The
operator owes nothing: a draft blocked by a report nobody decides on stays blocked, and
`Stranded` says so.

`intake_liveness`. The replay is scheduled every six hours (`forms-deadletter-replay.yml`) and a handler that runs goes on:
`WF(Replay)`, `WF(Work)`. Failures are bounded. No fairness on the operator: a letter whose site has
no row may wait for ever.

`webhook`. svix delivers again until it hears a 200, a handler runs on, the stamp comes or is lost: `WF`. Time passes:
`SF(Age)`, strong because the ten minutes only pass, in the model, while no handler has the event.
Failures are bounded; Resend is not obliged to emit anything.

### What the violation runs show

- `NoUnapproveAfterEmail`. `sendOne` drops the claim when Resend "refused the send, so no email
  went out" and keeps it on an ambiguous failure "because the email may have left". The refusal
  is of the second run's request. The email of the first one left, and the claim
  dropped is the only mark of it; the dashboard then lets the operator take back the approval
  of a delivered report, which re-opens it for another.
- `NeverDowngraded`. `webhook-events.ts` says a bounce is never downgraded by a retried or out-of-order
  webhook. One delivery at a time that holds (`webhook`). Two handled at once both read the pending
  row; the one that writes `delivered` last wins, and the bounce was answered and never comes again.

### Known behaviours no run is spent on

- A commentary save that overlaps the stamp edits a sent row (the lock is read before the write
  and not part of it), and a recipe's reuse patches scores into this period's row, sent or not.
- Of two overlapping approves the second rewrites `approved_at`; a batch that read the first skips the
  report until the next run.
- With `Overlap = TRUE` the nightly run and a recipe each see an empty queue and both queue theirs:
  `OnePendingReport` holds for programs run one at a time.
- A report taken out of the queue stays out while its blocker is approved and unsent: the test asks
  for the stamp, not the approval.
- A letter abandoned while a replay has it in hand is still placed and marked.
- "A critical count that falls and rises again is mailed at once" (`tests/alerts/digest-send.test.ts:213`,
  which tries it on an otherwise quiet list). `CriticalRisesAreMailed` says so of a fall on a night
  without a mail, and asks only for what was last found, not for the worst ever told. When the count
  falls on a night that mails for another item, the mail says 1, the log keeps 2 (`Baseline`), and 2 again
  is silent until the heartbeat: the code does not keep the test's title there, and `NewsIsMailed`,
  which compares with the worst told, does not ask for it.
- A rerun after the day's mail that finds other items ends green with nobody mailed (`HeldBack`). It
  stores nothing, so the items are still news to the next day's first run, if there is one. The
  code says that the first send has stored its snapshot; when the first run's answer was lost it has
  not, and the rerun is green all the same.
- "Rows the operator already read/replied/archived/marked are NEVER touched" (`submissions.ts:498`) holds of
  rows that are not new. One the operator marked as no spam is new: the next copy's scan, or a scan
  that listed it before, buries it again. `OperatorDecisionStands` says nothing of such a row, and
  `SprayIsCaught` says what becomes of it.
- Two clicks on one url at once both pass the duplicate check, each take a slot and dispatch a job. The
  concurrency group makes the second job wait and then run: the audit is bought and mailed twice, which
  the trigger's comment says it must not. The cap counts both.
- A job claims by site. When it takes the row of another spelling whose own dispatch failed, its own
  reservation is left unclaimed until it is stale, and one audit holds two slots for two hours;
  `OneSlotPerAudit` allows one such slot per fault.
- A lead's bounce whose lookup failed and that is past the retry window is answered as an orphan and lost;
  `AckedIsRecorded` excuses it. A stamp that comes later than the window loses its events too
  (`LateStamps`), and so does a 409 answer, which has no message id to stamp.

## Proofs

Each `...Proofs` module extends the model it is about. Constants have the model's own assumption and
no other, unless a theorem names one. An invariant a run checks is seldom inductive; each module
states the strengthening (`IInv`, or one per theorem), shows `Init => IInv` and that every action
keeps it, and draws the theorems from it. The strengthenings were checked by TLC first.

| Module | Theorem | Property | Besides the model's assumption |
|---|---|---|---|
| `ReportSendProofs` | `TypeCorrect`, `InvariantHolds`, `StampsAreTrue`, `GreenMeansRecorded`, `EmailsNeedApproval`, `ClosedIsClosed`, `ImplementsDelivery` | `TypeOK`, `ClaimInvariant`, `SentMeansEmailed`, `GreenRunIsRecorded`, `EmailsOnlyUnderApproval`, `ClosedReportsStayClosed`, `DeliverySpec` | |
| `DraftQueueProofs` | `TypeCorrect` | `TypeOK` | |
| | `OneDraftOfAPeriod`, `NothingPilesUp` | `OneDraftPerPeriod`, `NoPileUp` | no `report <slug>` |
| | `OneReportWaits` | `OnePendingReport` | programs do not overlap |
| `LeadIntakeProofs` | `TypeCorrect`, `AcceptedLeadsStay`, `DuplicatesArePaidFor`, `SpamIsProven`, `SprayNeverEscapes`, `DecisionsStand` | `TypeOK`, `AcceptedLeadsAreKept`, `DuplicatesCostFailures`, `SpamHasEvidence`, `SprayIsCaught`, `OperatorDecisionStands` | |
| `DeliveryWebhookProofs` | `TypeCorrect` | `TypeOK` | |
| | `ImplementsRecord`, `OneAtATimeNeverDowngrades` | `RecordSpec`, `NeverDowngraded` | deliveries of an email do not overlap |
| | `AcknowledgedIsRecorded` | `AckedIsRecorded` | the same, and no stamp later than the retry window |
| `HealthStampsProofs` | `TypeCorrect`, `RowsOnlyAge`, `RetestIsTrue`, `GreenNightHolds` | `TypeOK`, `VerdictsOnlyAge`, `RetestTellsTruth`, `GreenNightIsFresh` | |
| `AlertDigestProofs` | `TypeCorrect`, `OneMailOfADay`, `LogIsTrue`, `NewsReachesTheOperator`, `CriticalRisesGoOut`, `HeartbeatHolds`, `SlowItemsAreListed` | `TypeOK`, `OneMailADay`, `LogOnlyClaimsMail`, `NewsIsMailed`, `CriticalRisesAreMailed`, `HeartbeatIsKept`, `SlowItemsSurface` | |
| `ProspectSlotsProofs` | `TypeCorrect`, `SpendingIsCounted`, `ReportsStay`, `CapIsKept`, `OneAuditOneSlot` | `TypeOK`, `SpendingRunsAreCounted`, `ReportsAreKept`, `CapHolds`, `OneSlotPerAudit` | |

### ReportSend

`EmailsOnlyUnderApproval` is not inductive: the batch decides on a copy of the row. Three facts
carry it from the copy to the row.

1. `RowsConsistent`: an approval has its own `approved_at`, older than the clock, and an
   override, a claim and a stamp stand on an approval.
2. `QueueReadHolds`: as long as `approved_at` is the one the queue read, the evidence is
   what it was (a refresh asks for an unapproved row) and an override still stands.
3. `ClaimHolds`: the claim is taken under that same `approved_at`, and from there to the stamp no
   unapprove, withdraw or refresh matches the row, so the gate the copy passed is passed by the
   row.

`LiveRecordsHold` (a key names its own report) and `GreenSoFar` give the stamped message id and
the run's colour. The conjunction, `ClaimInvariant`, is inductive together with `TypeOK`. The proof
does not go through the forty actions once per conjunct: a session step changes one row by one of
seven moves (`RowMove` lemmas), and each part of the invariant is shown to be kept by a move. The
run's steps are then taken one by one per part. The refinement maps each step to at most one
abstract step, or a stutter, under the invariant.

### DraftQueue

Three invariants, one per property, over the types and `Working` (a run under way has jobs whose rows
exist).

- `OneDraftPerPeriod`. A run decides on one read and inserts minutes later. `StillMissing` says a row
  it is yet to make is still missing, and `OnePlace` why: each type is drafted in one of the two places
  and by one job of a run, so nobody else makes it meanwhile. That holds for overlapping programs;
  it does not for `report <slug>`, which looks for nothing.
- `OnePendingReport`. `FlagsCover`: a run that will raise its draft's flag has every other waiting row on
  the list it clears first, but for a row whose approval was taken back since the list was made. A run
  that dies in between leaves fewer flags, never more.
- `NoPileUp`. The guard `pendingEarlier` asks for earlier drafts only. `Ahead`: what stands in the
  queue is of the due period or an earlier one, since the month that is due never goes back, whatever is
  sent, withdrawn or pushed past Testing (`DueGrows`, `PushGrows`). `ClearWay` keeps that through
  the run: what its jobs are of has nothing standing. That every month has a first uncovered one
  after it is a least-counterexample argument (`LeastNat`), since induction is out of reach.

The two assumptions are the model's switches `Overlap` and `Programs`, and both of their values are
what the code can do. With the other value the property is false, and known to be
(see the known behaviours): the theorem says exactly what the property rests on.

### LeadIntake

`AcceptedLeadsAreKept` is inductive with `Underway`: a handler past its insert has its row, the replay's
letter is queued and in nobody else's hands, the letters still to come are queued. For
`DuplicatesCostFailures` a count is needed that no single step disturbs: `Paid` adds to the rows
beyond the first of their letter (`Duplicates`) the letters placed that no mark says so of (`Loose`),
each of which may make one more duplicate; the sum is at most the failures so far. `Evidence` carries
what a scan found through to the verdict and the re-bucketing, and rests on `AllPosted`. `Caught`
is the undisturbed state in full: at most one handler, which of a spray's rows it has dealt with at
each of its steps, and which are left for the re-bucket it is about to write. A row the operator put back
is dealt with as of the number of rows there were then (`OutSince`): a copy that came later has no excuse.

### DeliveryWebhook

`WriteHolds`: a status about to be written is still no downgrade of the row it was compared with.
That is what a second delivery in between breaks (`concurrent_deliveries`), and `Serial` keeps. The
refinement follows step by step. `AckedIsRecorded` needs in addition that nothing past the
window is still waited for (`StampsKnown`) and that an old event which went past its lead had
a failed lookup (`MissedByFailure`). `~Overlap` and `~LateStamps` are the model's switches again: the
code does not enforce either, and the violated property shows what the first is worth.

### HealthStamps

`Unwritten` is the heart of it: results under way bear a stamp that neither the row nor any other results
of the site bear, so `VerdictsOnlyAge` needs only the guard of the `UPDATE`. `Rewritten` (what a re-test filed
as written is in the row, or something newer) gives `RetestTellsTruth`. `Night` says what each filing
of the sweep means for the row; the gate then counts filings, and `GreenNightIsFresh` is two
inequalities between cardinalities of sets of sites, for any finite fleet.

### AlertDigest

`LogFits` (a record claims no more than was mailed, and knows since when its key is gone), `ClockFits` (the
snapshot is at least as old as the item) and `RunFits`, what the run in hand carries from its reads
to its writes: its log is the stored one or none, it mails what that log makes news, and past sending
today's mail lists what it lists. `LogFits` also says that a critical record is what the last
logged run found, when that run did not mail: this is what `CriticalRisesAreMailed` rests on. A green end is
either a stored log or a conflict (`GreenEnds`), and the action properties are about that step: with the
log stored the list meets it, and a conflict changes neither log nor snapshot on a day that has its mail.

### ProspectSlots

`Held`: a run's row is running, claimed by nobody else, its claim as old as the run. With the order of
the windows (`RunLimit < Stale`, `Stale + RunLimit <= Window`) the row is then counted for as long as
the run may live. For the cap, `RunsBilled` and `RowsBilled` give each purchase a row of its own that
is counted while the purchase is in the window, so that counting purchases is counting rows;
`Charged` are the rows a slot was granted for, of which there are at most `Cap` since every insert asks.
`SlotsAsked` counts, per site, unclaimed slots against requests and jobs on their way to claim one: a
claim takes one of each away, and only a fault parts them.

### Model-checked only

The liveness properties `ApprovedReportsSettle`, `StrandedDraftsAreCompleted`, `QueuedLeadsSettle` and
`EventsSettle` (liveness under fairness, and `ENABLED`, are outside the prover's reach), and the two
violated properties. The proofs are about the models: that a model is faithful to the code is argued
by the map in `PROJECT.json` and not by a proof.

## Not modelled

Sending: the content of an email, recipients and the rendering are data: a missing recipient or header
plate is `RefuseSend`. The stored preview body is not read by a send and is left out. Fleet
events are best effort and change no decision. Millisecond collisions of `approved_at` are not
modelled: every approval has its own. A send begun by hand beside the nightly one is not.

Intake: test probes, the screen-out beacon, the rescore command, and letters whose stored body cannot
be read. A payload refused before the lookup writes nothing and is left out. One replay runs at a time, as the
workflow does; one begun by hand beside it is not modelled.

Webhook: an event without `created_at` cannot be aged and is retried by design; every event of
the model has one.

Health: the sets without a stamp guard (a11y, deps, security, smoke, form-e2e as the sweep writes
them) are last-writer-wins and so have nothing to check; sites that share a slug, sites without a
row, Lighthouse categories that are null one by one, and the "kept" results of form-e2e. An absent stamp
always writes; every audit of the model stamps. Lighthouse is
part of every sweep, so the "na" and "empty" filings come from re-tests only.

Digest: the collectors, the vulnerability waiting clocks, the two-level rise of a key, badges, ages and
the cockpit rollup. A snapshot that cannot be read ends the run with nothing changed, so it is no
step. Two digests run by hand at once are not modelled: the workflow's concurrency group forbids it.

Prospect audits: what the stages find, rendering, mailing, and the recovery files of a run whose row could not be
saved; a run without a database, which no count sees. The duplicate check looks at the last 25 audits only;
the cap is 25 too and nobody reaches the limit in ten minutes, so the model looks at all. The overrides
of a report are planned.

The rest of the inventory is planned below or out of scope, with the reason in `PROJECT.json`. Most
of the repository's lines are probes, renderers, compilers and tables: they keep no state that two
actors share.

## Plan

1. `DueDates`: the pure recurrence functions (month ends, quarterly and yearly cycles) against a
   reference definition.
2. `OverrideCas`: concurrent edits of a prospect's report.
3. `LandPrs` and `NightlyConductor`.
