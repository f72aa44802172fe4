---------------------------- MODULE AlertDigest ----------------------------
(***************************************************************************)
(* The operator's nightly mail: what a run of `report --digest` reads,     *)
(* decides, sends and stores.  A night mails when its list holds something *)
(* the send log has no record of, something worse than recorded, or when   *)
(* the last mail is Heartbeat days old; the send log and the snapshot (the *)
(* day each item was first flagged) are stored after the mail, each by a   *)
(* write of its own that may fail.  Runs do not overlap (concurrency group *)
(* m3-daily), and a day may have several.                                  *)
(*                                                                         *)
(* An item is a key and a metric.  Ask parts and reports ready for a yes   *)
(* are keys of metric 1.                                                   *)
(***************************************************************************)
EXTENDS Naturals

CONSTANTS
    Keys,       \* what may need attention
    Critical,   \* keys of severity critical
    Noisy,      \* Lighthouse keys: judged with a tolerance, long remembered
    Slow,       \* Renovate keys: on the list once flagged WatchDays
    Metrics,    \* the values a key's metric takes, 0 when it is not flagged
    Heartbeat,  \* DIGEST_HEARTBEAT_DAYS
    Memory,     \* NOISY_MEMORY_DAYS
    Tolerance,  \* LIGHTHOUSE_WORSE_POINTS
    WatchDays,  \* RENOVATE_ATTENTION_DAYS
    MaxDays,    \* bound: days
    DayRuns,    \* bound: runs of one day
    MaxFaults   \* bound: reads, sends, answers and writes that fail, dead runs

ASSUME AlertDigestAssumption ==
    /\ Critical \cup Noisy \cup Slow \subseteq Keys
    /\ Critical \cap Noisy = {}
    /\ Metrics \in [Keys -> SUBSET Nat]
    /\ \A k \in Keys : 0 \in Metrics[k]
    /\ {Heartbeat, Memory, WatchDays, MaxDays} \subseteq Nat \ {0}
    /\ {Tolerance, DayRuns, MaxFaults} \subseteq Nat

VARIABLES
    day,     \* the UTC day, from 1
    snap,    \* digest_state: the day each Slow key was first flagged, 0 when it is
             \* not in it; the other keys' days are only printed
    log,     \* the send log: the day of the last mail, and each key's record
    resend,  \* the day of the last mail Resend accepted, and its body under that day's key
    run,     \* the run under way
    left,    \* what remains of the bounds
    told,    \* history: the most any mail said of a key since it last went away for good
    gone,    \* history: the day the logged runs first missed a key they listed
    last,    \* history: what the last logged run found of the critical keys, and
             \* whether it mailed
    since,   \* history: of an unbroken series of runs that saw a Slow key, the day of
             \* the first that stored its snapshot and its log
    mails    \* history: mails that reached the operator today

vars == <<day, snap, log, resend, run, left, told, gone, last, since, mails>>

-----------------------------------------------------------------------------
(* The list *)

Lists == [Keys -> Nat]

Empty == [k \in Keys |-> 0]

NoDays == [k \in Slow |-> 0]

On(list) == {k \in Keys : list[k] > 0}

Facts == {f \in [Keys -> UNION {Metrics[k] : k \in Keys}] : \A k \in Keys : f[k] \in Metrics[k]}

\* diffAttention: exactly the current keys, each with the day it was first flagged.
FirstFlagged(facts) ==
    [k \in Slow |-> IF facts[k] = 0 THEN 0 ELSE IF snap[k] > 0 THEN snap[k] ELSE day]

\* A Slow key is Watch, and Watch is not mailed, until it has been flagged WatchDays.
ListOf(facts) ==
    [k \in Keys |-> IF k \in Slow /\ day < FirstFlagged(facts)[k] + WatchDays THEN 0 ELSE facts[k]]

-----------------------------------------------------------------------------
(* The send log (digest-send.ts) *)

\* A key's record: the metric it is judged by, and the day it left the list.
Record == [metric : Nat, gone : Nat]

NoRecord == [metric |-> 0, gone |-> 0]

EmptyLog == [on |-> 0, sent |-> [k \in Keys |-> NoRecord]]

Slack(k) == IF k \in Noisy THEN Tolerance ELSE 0

Added(list, l) == {k \in On(list) : l.sent[k].metric = 0}

Worse(list, l) == {k \in On(list) \ Added(list, l) : list[k] > l.sent[k].metric + Slack(k)}

\* Mutant: the weekly mail goes out a day late.
SendsLateMutant(list, l) ==
    l.on = 0 \/ Added(list, l) \cup Worse(list, l) # {} \/ day > l.on + Heartbeat

\* decideDigestSend, for a list that is not empty.
Sends(list, l) ==
    l.on = 0 \/ Added(list, l) \cup Worse(list, l) # {} \/ day >= l.on + Heartbeat

\* Mutant: a critical key keeps its height on a night without a mail, as others do.
CriticalHeightMutant(k, was, now, sending) ==
    IF sending THEN IF was > now THEN was ELSE now ELSE was

\* The metric a listed key is judged by from now on: the highest mailed, but a
\* critical one follows its count down on a night without a mail.
Baseline(k, was, now, sending) ==
    IF sending THEN IF was > now THEN was ELSE now
    ELSE IF k \in Critical /\ now < was THEN now ELSE was

\* Mutant: a key back on the list is never news, however long it was gone.
NeverForgottenMutant(k, was) ==
    /\ k \notin Critical
    /\ was.metric > 0

\* Mutant: a critical key has the one-run grace of the others.
CriticalGraceMutant(k, was) ==
    /\ was.metric > 0
    /\ was.gone \in {0, day} \/ (k \in Noisy /\ day < was.gone + Memory)

\* Whether the record of a key that is off the list is kept: for one day's runs,
\* a Noisy one for Memory days, a critical one not at all.
Remembered(k, was) ==
    /\ k \notin Critical
    /\ was.metric > 0
    /\ was.gone \in {0, day} \/ (k \in Noisy /\ day < was.gone + Memory)

NextSent(sent, list, sending) ==
    [k \in Keys |->
        CASE list[k] > 0 -> [metric |-> IF sent[k].metric = 0 THEN list[k]
                                        ELSE Baseline(k, sent[k].metric, list[k], sending),
                             gone |-> 0]
          [] list[k] = 0 /\ Remembered(k, sent[k]) ->
                [sent[k] EXCEPT !.gone = IF @ = 0 THEN day ELSE @]
          [] OTHER -> NoRecord]

-----------------------------------------------------------------------------
(* A run *)

NoRun == [pc |-> "idle", list |-> Empty, next |-> NoDays, log |-> EmptyLog,
          sending |-> FALSE, result |-> "none"]

Ends(result) == run' = [NoRun EXCEPT !.result = result]

Fault == left.faults > 0 /\ left' = [left EXCEPT !.faults = @ - 1]

\* The run reads the fleet, the snapshot and the log, and decides.  A log that
\* cannot be read is taken as never sent, and the run is red.
Begin ==
    /\ run.pc = "idle"
    /\ left.runs > 0
    /\ \E facts \in Facts, read \in {"ok", "failed"} :
          LET list == ListOf(facts)
              l == IF read = "ok" THEN log ELSE EmptyLog
              sending == On(list) # {} /\ Sends(list, l)
          IN  /\ run' = [pc |-> IF sending THEN "send" ELSE "snapshot", list |-> list,
                         next |-> FirstFlagged(facts), log |-> l, sending |-> sending,
                         result |-> read]
              /\ left' = [left EXCEPT !.runs = @ - 1,
                                      !.faults = IF read = "ok" THEN @ ELSE @ - 1]
              /\ read = "failed" => left.faults > 0
    /\ since' = [k \in Slow |-> IF run'.next[k] = 0 THEN 0 ELSE since[k]]
    /\ UNCHANGED <<day, snap, log, resend, told, gone, last, mails>>

\* Mutant: the idempotency key is the run's, so a second run's mail is a mail.
KeyPerRunMutant(body) == "accept"

\* Resend under the key `digest-<day>`: the first body of a day is accepted, the
\* same body is answered as accepted, and another is a conflict.  The same list
\* is the same body only if its ages, badges and counts are.
Answers(body) ==
    IF resend.day # day THEN "accept"
    ELSE IF resend.body = body THEN "replay" ELSE "conflict"

\* Today's mail lists what the run does: the operator knows of it from now on.
Tells == told' = [k \in Keys |-> IF run.list[k] > told[k] THEN run.list[k] ELSE told[k]]

\* The mail reaches the operator.
Reaches ==
    /\ mails' = mails + 1
    /\ Tells
    /\ resend' = [day |-> day, body |-> run.list]

Send ==
    /\ run.pc = "send"
    /\ \/ Answers(run.list) = "accept" /\ Reaches
       \/ Answers(run.list) = "replay" /\ Tells /\ UNCHANGED <<mails, resend>>
    /\ run' = [run EXCEPT !.pc = "snapshot"]
    /\ UNCHANGED <<day, snap, log, left, gone, last, since>>

\* Mutant: a conflict is taken for the mail of this list, and logged as sent.
ConflictIsSentMutant ==
    /\ run.pc = "send"
    /\ Answers(run.list) # "accept"
    /\ run' = [run EXCEPT !.pc = "snapshot"]
    /\ UNCHANGED <<day, snap, log, resend, left, told, gone, last, since, mails>>

\* 409: today's mail already went out, with other content.  Nothing is stored, and
\* the workflow takes "already sent today" for a good night, before it asks after the
\* snapshot or the log.
Conflict ==
    /\ run.pc = "send"
    /\ Answers(run.list) # "accept"
    /\ Ends("green")
    /\ UNCHANGED <<day, snap, log, resend, left, told, gone, last, since, mails>>

\* Any other error ends the run red with nothing stored: Resend refused it, or
\* took it and the answer was lost.
SendFails ==
    /\ run.pc = "send"
    /\ Fault
    /\ \/ UNCHANGED <<mails, told, resend>>
       \/ Answers(run.list) = "accept" /\ Reaches
    /\ Ends("red")
    /\ UNCHANGED <<day, snap, log, gone, last, since>>

\* Mutant: a night that mails nothing stores no snapshot.
SnapshotOnMailMutant ==
    /\ run.pc = "snapshot"
    /\ snap' = IF run.sending THEN run.next ELSE snap
    /\ run' = [run EXCEPT !.pc = "log"]
    /\ UNCHANGED <<day, log, resend, left, told, gone, last, since, mails>>

SaveSnapshot ==
    /\ run.pc = "snapshot"
    /\ snap' = run.next
    /\ run' = [run EXCEPT !.pc = "log"]
    /\ UNCHANGED <<day, log, resend, left, told, gone, last, since, mails>>

\* The failed write is printed, which makes the run red, and the run goes on.
SaveSnapshotFails ==
    /\ run.pc = "snapshot"
    /\ Fault
    /\ run' = [run EXCEPT !.pc = "log", !.result = "failed"]
    /\ UNCHANGED <<day, snap, log, resend, told, gone, last, since, mails>>

\* A key has gone away for good once logged runs missed it on a second day, a Noisy
\* one once they did for Memory days, and a critical one at once.
ForGood(k) ==
    k \in Critical \/ (gone[k] > 0 /\ day > gone[k] /\ (k \in Noisy => day >= gone[k] + Memory))

\* What a logged run adds to the histories.
Recall(list) ==
    /\ gone' = [k \in Keys |-> IF list[k] > 0 THEN 0 ELSE IF gone[k] > 0 THEN gone[k] ELSE day]
    /\ told' = [k \in Keys |-> IF list[k] = 0 /\ ForGood(k) THEN 0 ELSE told[k]]
    /\ last' = [found |-> [k \in Critical |-> list[k]], mailed |-> run.sending]

SaveLog ==
    /\ run.pc = "log"
    /\ log' = [on |-> IF run.sending THEN day ELSE run.log.on,
               sent |-> NextSent(run.log.sent, run.list, run.sending)]
    /\ Recall(run.list)
    /\ Ends(IF run.result = "ok" THEN "green" ELSE "red")
    /\ since' = [k \in Slow |-> IF run'.result = "green" /\ run.next[k] > 0 /\ since[k] = 0
                               THEN day ELSE since[k]]
    /\ UNCHANGED <<day, snap, resend, left, mails>>

SaveLogFails ==
    /\ run.pc = "log"
    /\ Fault
    /\ Ends("red")
    /\ UNCHANGED <<day, snap, log, resend, told, gone, last, since, mails>>

\* The runner is lost.
Dies ==
    /\ run.pc # "idle"
    /\ Fault
    /\ Ends("red")
    /\ UNCHANGED <<day, snap, log, resend, told, gone, last, since, mails>>

\* A day passes, whether or not it had a run; its mail has another key.  No run is
\* under way: a run takes the date once, before it reads anything, and nothing else
\* looks at the clock, so one that crosses midnight is a run of the day it began.
NewDay ==
    /\ run.pc = "idle"
    /\ day < MaxDays
    /\ day' = day + 1
    /\ mails' = 0
    /\ left' = [left EXCEPT !.runs = DayRuns]
    /\ resend' = [resend EXCEPT !.body = Empty]
    /\ Ends("none")
    /\ UNCHANGED <<snap, log, told, gone, last, since>>

Init ==
    /\ day = 1
    /\ snap = NoDays
    /\ log = EmptyLog
    /\ resend = [day |-> 0, body |-> Empty]
    /\ run = NoRun
    /\ left = [runs |-> DayRuns, faults |-> MaxFaults]
    /\ told = Empty
    /\ gone = Empty
    /\ last = [found |-> [k \in Critical |-> 0], mailed |-> FALSE]
    /\ since = NoDays
    /\ mails = 0

Next ==
    \/ Begin
    \/ Send \/ Conflict \/ SendFails
    \/ SaveSnapshot \/ SaveSnapshotFails
    \/ SaveLog \/ SaveLogFails
    \/ Dies
    \/ NewDay

Spec == Init /\ [][Next]_vars

-----------------------------------------------------------------------------
(* Properties *)

\* Types, and a critical key that is off the list has no record.
TypeOK ==
    /\ day \in 1..MaxDays
    /\ snap \in [Slow -> 0..day] /\ since \in [Slow -> 0..day]
    /\ log.on \in 0..day /\ log.sent \in [Keys -> Record]
    /\ \A k \in Critical : log.sent[k].gone = 0
    /\ resend.day \in 0..day /\ resend.body \in Lists
    /\ run.pc \in {"idle", "send", "snapshot", "log"}
    /\ run.list \in Lists /\ run.next \in [Slow -> 0..day]
    /\ run.result \in {"none", "ok", "failed", "green", "red"}
    /\ told \in Lists /\ gone \in [Keys -> 0..day]
    /\ last \in [found : [Critical -> Nat], mailed : BOOLEAN]

\* The operator gets one digest a UTC day at most, whatever a rerun finds changed
\* and whatever became of the first run's answer, its log or its runner.
OneMailADay == mails <= 1

\* The log never says more than the mails did: no answer lost, conflict or failed
\* write leaves a record of a key worse than the operator was told, or of a mail
\* on a day Resend took none, so a later night cannot stay silent on its account.
LogOnlyClaimsMail ==
    /\ log.on <= resend.day
    /\ \A k \in Keys : log.sent[k].metric <= told[k]

EndsGreen == run.pc # "idle" /\ run'.result = "green"

\* Today's mail already went out with another list, and this one waits for
\* tomorrow's key: the run records nothing, so what is news stays news.
HeldBack == run.pc = "send" /\ resend.day = day /\ UNCHANGED <<log, snap>>

\* A green run leaves the operator told of everything on its list, as bad as it is
\* but for the tolerance, since the item last went away for good, though runs before
\* it lost their answer, their log or their snapshot.  One green run may not: a
\* rerun after the day's mail, whose news is held back and not recorded.
NewsIsMailed ==
    [][EndsGreen =>
          \/ \A k \in On(run.list) : told'[k] > 0 /\ run.list[k] <= told'[k] + Slack(k)
          \/ HeldBack]_vars

\* A critical count that fell on a night without a mail and rises again is mailed at
\* once, or held back: it need not reach the worst the operator was ever told.  A
\* fall that a mail reported is not covered, since the log then keeps the height.
CriticalRisesAreMailed ==
    [][EndsGreen => \A k \in Critical :
          ~last.mailed /\ run.list[k] > last.found[k] => run.sending /\ resend.day = day]_vars

\* A green night whose list is not empty has a mail of the last Heartbeat days.
HeartbeatIsKept ==
    [][EndsGreen /\ On(run.list) # {} => day < resend.day + Heartbeat]_vars

\* A Slow item that every run has seen since one stored its snapshot and its log,
\* WatchDays ago, is on the list of a green run: quiet nights, conflicts and failed
\* writes do not set its clock back.
SlowItemsSurface ==
    [][EndsGreen => \A k \in Slow :
          since[k] > 0 /\ day >= since[k] + WatchDays => run.list[k] > 0]_vars
=============================================================================
