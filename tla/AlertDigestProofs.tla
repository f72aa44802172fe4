------------------------- MODULE AlertDigestProofs --------------------------
(***************************************************************************)
(* Theorems about AlertDigest, for every set of keys, every window and any *)
(* number of days, runs and failures.  They rest on one invariant: what    *)
(* the log, the snapshot and a run under way have to do with the mails,    *)
(* with the operator's memory and with each other.                         *)
(***************************************************************************)
EXTENDS AlertDigest, TLAPS

-----------------------------------------------------------------------------
(* The inductive invariant *)

Logs == [on : Nat, sent : [Keys -> Record]]

Runs == [pc : {"idle", "send", "snapshot", "log"}, list : Lists, next : [Slow -> Nat],
         log : Logs, sending : BOOLEAN,
         result : {"none", "ok", "failed", "green", "red"}]

\* TypeOK, and the types it leaves out.
TypeInv ==
    /\ TypeOK
    /\ log \in Logs /\ run \in Runs
    /\ resend \in [day : Nat, body : Lists]
    /\ left \in [runs : Nat, faults : Nat]
    /\ mails \in Nat

\* Resend has a mail of today exactly when the operator has.
OneMailPerKey == mails = IF resend.day = day THEN 1 ELSE 0

\* A record says no more than the mails, knows since when its key is gone, and after a
\* night without a mail has every critical count at what that night found.
LogFits ==
    /\ LogOnlyClaimsMail
    /\ \A k \in Keys : log.sent[k].metric > 0 => log.sent[k].gone = gone[k]
    /\ ~last.mailed => \A k \in Critical : log.sent[k].metric = last.found[k]

\* The snapshot has an item since its first green run, if not longer.
ClockFits == \A k \in Slow : since[k] > 0 => 0 < snap[k] /\ snap[k] <= since[k]

\* A run's log is the stored one, or none; it mails what that log makes news; today's
\* mail lists what it lists once it is past sending; its snapshot keeps the clocks.
RunFits ==
    run.pc # "idle" =>
        /\ run.result \in {"ok", "failed"}
        /\ run.log \in {log, EmptyLog}
        /\ run.sending = (On(run.list) # {} /\ Sends(run.list, run.log))
        /\ run.pc = "send" => run.sending
        /\ run.pc # "send" /\ run.sending =>
              resend.day = day /\ \A k \in Keys : run.list[k] <= told[k]
        /\ \A k \in Slow :
              /\ since[k] > 0 => 0 < run.next[k] /\ run.next[k] <= since[k]
              /\ run.next[k] > 0 /\ day >= run.next[k] + WatchDays => run.list[k] > 0
        /\ run.pc = "log" /\ run.result = "ok" => snap = run.next

IInv == TypeInv /\ OneMailPerKey /\ LogFits /\ ClockFits /\ RunFits

-----------------------------------------------------------------------------
(* The list and the log *)

LEMMA ConstantsTyped ==
  /\ Critical \subseteq Keys /\ Noisy \subseteq Keys /\ Slow \subseteq Keys
  /\ Heartbeat \in Nat \ {0} /\ Memory \in Nat \ {0} /\ WatchDays \in Nat \ {0}
  /\ Tolerance \in Nat /\ MaxDays \in Nat \ {0} /\ DayRuns \in Nat /\ MaxFaults \in Nat
BY AlertDigestAssumption

LEMMA FactsTyped ==
  ASSUME NEW facts \in Facts, NEW k \in Keys
  PROVE  facts[k] \in Nat
<1>1. facts[k] \in Metrics[k] /\ Metrics[k] \in SUBSET Nat
  BY AlertDigestAssumption DEF Facts
<1>. QED
  BY <1>1

LEMMA ListTyped ==
  ASSUME NEW facts \in Facts, day \in Nat, snap \in [Slow -> 0..day]
  PROVE  /\ FirstFlagged(facts) \in [Slow -> 0..day]
         /\ \A k \in Slow :
               /\ FirstFlagged(facts)[k] = 0 <=> facts[k] = 0 \/ (snap[k] = 0 /\ day = 0)
               /\ FirstFlagged(facts)[k] > 0 /\ snap[k] > 0 => FirstFlagged(facts)[k] = snap[k]
         /\ ListOf(facts) \in Lists
         /\ \A k \in Slow :
               FirstFlagged(facts)[k] > 0 /\ day >= FirstFlagged(facts)[k] + WatchDays =>
                  ListOf(facts)[k] > 0
<1>1. \A k \in Keys : facts[k] \in Nat
  BY FactsTyped
<1>2. /\ FirstFlagged(facts) \in [Slow -> 0..day]
      /\ \A k \in Slow :
            FirstFlagged(facts)[k] = IF facts[k] = 0 THEN 0 ELSE IF snap[k] > 0 THEN snap[k] ELSE day
  BY <1>1, ConstantsTyped DEF FirstFlagged
<1>3. /\ ListOf(facts) \in Lists
      /\ \A k \in Keys :
            ListOf(facts)[k] = IF k \in Slow /\ day < FirstFlagged(facts)[k] + WatchDays
                               THEN 0 ELSE facts[k]
  BY <1>1 DEF ListOf, Lists
<1>. HIDE DEF ListOf, FirstFlagged
<1>. QED
  BY <1>1, <1>2, <1>3, ConstantsTyped

\* The record of a key after a run.
LEMMA NextSentIs ==
  ASSUME NEW sent \in [Keys -> Record], NEW list \in Lists, NEW sending \in BOOLEAN,
         day \in Nat
  PROVE  /\ NextSent(sent, list, sending) \in [Keys -> Record]
         /\ \A k \in Keys :
              LET next == NextSent(sent, list, sending)[k]
              IN  /\ list[k] > 0 =>
                       /\ next.gone = 0
                       /\ next.metric = IF sent[k].metric = 0 THEN list[k]
                                        ELSE Baseline(k, sent[k].metric, list[k], sending)
                  /\ list[k] = 0 /\ Remembered(k, sent[k]) =>
                       /\ next.gone = IF sent[k].gone = 0 THEN day ELSE sent[k].gone
                       /\ next.metric = sent[k].metric
                  /\ list[k] = 0 /\ ~Remembered(k, sent[k]) => next = NoRecord
<1>. DEFINE Next1(k) ==
        CASE list[k] > 0 -> [metric |-> IF sent[k].metric = 0 THEN list[k]
                                        ELSE Baseline(k, sent[k].metric, list[k], sending),
                             gone |-> 0]
          [] list[k] = 0 /\ Remembered(k, sent[k]) ->
                [sent[k] EXCEPT !.gone = IF @ = 0 THEN day ELSE @]
          [] OTHER -> NoRecord
<1>1. NextSent(sent, list, sending) = [k \in Keys |-> Next1(k)]
  BY DEF NextSent
<1>2. ASSUME NEW k \in Keys
      PROVE  /\ Next1(k) \in Record
             /\ list[k] > 0 =>
                  /\ Next1(k).gone = 0
                  /\ Next1(k).metric = IF sent[k].metric = 0 THEN list[k]
                                       ELSE Baseline(k, sent[k].metric, list[k], sending)
             /\ list[k] = 0 /\ Remembered(k, sent[k]) =>
                  /\ Next1(k).gone = IF sent[k].gone = 0 THEN day ELSE sent[k].gone
                  /\ Next1(k).metric = sent[k].metric
             /\ list[k] = 0 /\ ~Remembered(k, sent[k]) => Next1(k) = NoRecord
  <2>1. list[k] \in Nat /\ sent[k] \in Record
    BY DEF Lists
  <2>2. CASE list[k] > 0
    <3>1. Baseline(k, sent[k].metric, list[k], sending) \in Nat
      BY <2>1 DEF Baseline, Record
    <3>. QED
      BY <2>1, <2>2, <3>1 DEF Record
  <2>3. CASE list[k] = 0 /\ Remembered(k, sent[k])
    <3>1. Next1(k) = [sent[k] EXCEPT !.gone = IF @ = 0 THEN day ELSE @]
      BY <2>3
    <3>. HIDE DEF Next1
    <3>. QED
      BY <2>1, <2>3, <3>1 DEF Record
  <2>4. CASE list[k] = 0 /\ ~Remembered(k, sent[k])
    <3>1. Next1(k) = NoRecord
      BY <2>4
    <3>. HIDE DEF Next1
    <3>. QED
      BY <2>1, <2>4, <3>1 DEF Record, NoRecord
  <2>. QED
    BY <2>1, <2>2, <2>3, <2>4
<1>. HIDE DEF Next1
<1>. QED
  BY <1>1, <1>2

\* What a silent night means: everything on the list is on record, and hardly worse.
LEMMA SilenceIs ==
  ASSUME NEW list \in Lists, NEW l \in Logs, day \in Nat, On(list) # {}, ~Sends(list, l)
  PROVE  /\ l.on # 0 /\ day < l.on + Heartbeat
         /\ \A k \in On(list) :
               l.sent[k].metric > 0 /\ list[k] <= l.sent[k].metric + Slack(k)
<1>1. l.on \in Nat /\ l.on # 0 /\ day < l.on + Heartbeat
  BY ConstantsTyped DEF Sends, Logs
<1>2. Added(list, l) = {} /\ Worse(list, l) = {}
  BY DEF Sends
<1>3. ASSUME NEW k \in On(list)
      PROVE  l.sent[k].metric > 0 /\ list[k] <= l.sent[k].metric + Slack(k)
  <2>1. k \in Keys /\ list[k] \in Nat /\ l.sent[k].metric \in Nat
    BY DEF On, Lists, Logs, Record
  <2>2. Slack(k) \in Nat
    BY ConstantsTyped DEF Slack
  <2>3. l.sent[k].metric # 0
    BY <1>2 DEF Added
  <2>4. ~(list[k] > l.sent[k].metric + Slack(k))
    BY <1>2, <2>3 DEF Added, Worse
  <2>. QED
    BY <2>1, <2>2, <2>3, <2>4
<1>. QED
  BY <1>1, <1>3

-----------------------------------------------------------------------------
(* Initially *)

LEMMA InitFits == Init => IInv
<1>. SUFFICES ASSUME Init PROVE IInv
  OBVIOUS
<1>1. EmptyLog \in Logs /\ NoRun \in Runs /\ Empty \in Lists /\ NoDays \in [Slow -> Nat]
  BY DEF EmptyLog, Logs, NoRecord, Record, NoRun, Runs, Empty, Lists, NoDays
<1>2. TypeInv
  BY <1>1, ConstantsTyped
     DEF Init, TypeInv, TypeOK, NoRun, NoDays, EmptyLog, NoRecord, Empty, Lists, Logs, Record
<1>3. OneMailPerKey /\ LogFits /\ ClockFits /\ RunFits
  BY ConstantsTyped
     DEF Init, OneMailPerKey, LogFits, LogOnlyClaimsMail, ClockFits, RunFits, NoRun, NoDays,
         EmptyLog, NoRecord, Empty
<1>. QED
  BY <1>2, <1>3 DEF IInv

-----------------------------------------------------------------------------
(* The run begins *)

LEMMA BeginFits ==
  ASSUME IInv, Begin PROVE IInv'
<1>1. PICK facts \in Facts, read \in {"ok", "failed"} :
        LET list == ListOf(facts)
            l == IF read = "ok" THEN log ELSE EmptyLog
            sending == On(list) # {} /\ Sends(list, l)
        IN  /\ run' = [pc |-> IF sending THEN "send" ELSE "snapshot", list |-> list,
                       next |-> FirstFlagged(facts), log |-> l, sending |-> sending,
                       result |-> read]
            /\ left' = [left EXCEPT !.runs = @ - 1,
                                    !.faults = IF read = "ok" THEN @ ELSE @ - 1]
            /\ read = "failed" => left.faults > 0
  BY DEF Begin
<1>. DEFINE list == ListOf(facts)
            l == IF read = "ok" THEN log ELSE EmptyLog
            next == FirstFlagged(facts)
            sending == On(list) # {} /\ Sends(list, l)
<1>2. /\ day \in Nat /\ snap \in [Slow -> 0..day] /\ log \in Logs /\ since \in [Slow -> 0..day]
      /\ left \in [runs : Nat, faults : Nat] /\ left.runs > 0
      /\ \A k \in Critical : log.sent[k].gone = 0
  BY DEF IInv, TypeInv, TypeOK, Begin
<1>3. /\ next \in [Slow -> 0..day] /\ list \in Lists
      /\ \A k \in Slow :
            /\ next[k] > 0 /\ snap[k] > 0 => next[k] = snap[k]
            /\ next[k] > 0 /\ day >= next[k] + WatchDays => list[k] > 0
  BY <1>2, ListTyped
<1>4. l \in Logs /\ l \in {log, EmptyLog}
  BY <1>2 DEF EmptyLog, Logs, NoRecord, Record
<1>5. sending \in BOOLEAN
  OBVIOUS
<1>6. /\ run'.pc = IF sending THEN "send" ELSE "snapshot"
      /\ run'.list = list /\ run'.next = next /\ run'.log = l
      /\ run'.sending = sending /\ run'.result = read
      /\ run' = [pc |-> run'.pc, list |-> list, next |-> next, log |-> l,
                 sending |-> sending, result |-> read]
  BY <1>1
<1>7. left' \in [runs : Nat, faults : Nat]
  <2>. DEFINE faults == IF read = "ok" THEN left.faults ELSE left.faults - 1
  <2>1. left' = [left EXCEPT !.runs = left.runs - 1, !.faults = faults]
    BY <1>1
  <2>2. faults \in Nat /\ left.runs - 1 \in Nat
    BY <1>1, <1>2
  <2>. HIDE DEF faults
  <2>. QED
    BY <1>2, <2>1, <2>2
<1>8. since' = [k \in Slow |-> IF run'.next[k] = 0 THEN 0 ELSE since[k]]
      /\ UNCHANGED <<day, snap, log, resend, told, gone, last, mails>>
  BY DEF Begin
<1>9. (run.sending = (On(run.list) # {} /\ Sends(run.list, run.log)))'
  BY <1>6, <1>8 DEF Sends, Added, Worse
<1>. HIDE DEF list, l, next, sending
<1>10. run' \in Runs
  <2>1. next \in [Slow -> Nat]
    BY <1>2, <1>3
  <2>. QED
    BY <1>3, <1>4, <1>5, <1>6, <2>1 DEF Runs
<1>11. since' \in [Slow -> 0..day]
  BY <1>2, <1>8
<1>12. TypeInv'
  BY <1>3, <1>6, <1>7, <1>8, <1>10, <1>11 DEF IInv, TypeInv, TypeOK, Runs
<1>13. OneMailPerKey' /\ LogFits'
  BY <1>8 DEF IInv, OneMailPerKey, LogFits, LogOnlyClaimsMail
<1>14. \A k \in Slow : since'[k] > 0 => 0 < next[k] /\ next[k] <= since'[k]
  BY <1>2, <1>3, <1>6, <1>8 DEF IInv, ClockFits
<1>15. ClockFits'
  BY <1>2, <1>8 DEF IInv, ClockFits
<1>16. RunFits'
  BY <1>3, <1>4, <1>5, <1>6, <1>8, <1>9, <1>14 DEF RunFits
<1>. QED
  BY <1>12, <1>13, <1>15, <1>16 DEF IInv

-----------------------------------------------------------------------------
(* The mail *)

LEMMA RunEnds ==
  ASSUME NEW result \in {"none", "ok", "failed", "green", "red"}, Ends(result)
  PROVE  run' \in Runs /\ run'.pc = "idle" /\ run'.result = result /\ run'.next = NoDays
<1>1. NoRun \in Runs /\ NoRun.pc = "idle" /\ NoRun.next = NoDays
  BY DEF NoRun, Runs, EmptyLog, Logs, NoRecord, Record, Empty, Lists, NoDays
<1>. QED
  BY <1>1 DEF Ends, Runs

LEMMA FaultCosts ==
  ASSUME left \in [runs : Nat, faults : Nat], Fault
  PROVE  left' \in [runs : Nat, faults : Nat]
BY DEF Fault

LEMMA TellsAll ==
  ASSUME told \in Lists, run.list \in Lists, Tells
  PROVE  /\ told' \in Lists
         /\ \A k \in Keys : told'[k] >= told[k] /\ told'[k] >= run.list[k]
BY DEF Tells, Lists

\* Whatever became of the answer, a mail or a replay leaves the rest standing.
LEMMA MailFits ==
  ASSUME IInv, \/ Answers(run.list) = "accept" /\ Reaches
               \/ Answers(run.list) = "replay" /\ Tells /\ UNCHANGED <<mails, resend>>
               \/ UNCHANGED <<mails, told, resend>>,
         UNCHANGED <<day, log, gone, last>>
  PROVE  /\ told' \in Lists /\ resend' \in [day : Nat, body : Lists] /\ mails' \in Nat
         /\ resend'.day \in 0..day
         /\ OneMailPerKey' /\ LogFits'
<1>1. /\ day \in Nat /\ log \in Logs /\ told \in Lists /\ mails \in Nat
      /\ run \in Runs /\ run.list \in Lists
      /\ resend \in [day : Nat, body : Lists] /\ resend.day \in 0..day
  BY DEF IInv, TypeInv, TypeOK
<1>2. told' \in Lists /\ \A k \in Keys : told'[k] >= told[k]
  BY <1>1, TellsAll DEF Reaches, Lists
<1>3. \/ resend' = [day |-> day, body |-> run.list] /\ mails' = mails + 1 /\ resend.day # day
      \/ UNCHANGED <<mails, resend>>
  BY DEF Reaches, Answers
<1>4. /\ resend' \in [day : Nat, body : Lists] /\ mails' \in Nat
      /\ resend'.day \in 0..day /\ resend'.day >= resend.day
  BY <1>1, <1>3
<1>5. OneMailPerKey'
  BY <1>1, <1>3 DEF IInv, OneMailPerKey
<1>6. LogOnlyClaimsMail'
  <2>1. log.on \in Nat /\ log.on <= resend.day
    BY <1>1 DEF IInv, LogFits, LogOnlyClaimsMail, Logs
  <2>2. \A k \in Keys :
          /\ log.sent[k].metric \in Nat /\ told[k] \in Nat /\ told'[k] \in Nat
          /\ log.sent[k].metric <= told[k]
    BY <1>1, <1>2 DEF IInv, LogFits, LogOnlyClaimsMail, Logs, Record, Lists
  <2>. QED
    BY <1>1, <1>2, <1>4, <2>1, <2>2 DEF LogOnlyClaimsMail
<1>7. LogFits'
  BY <1>6 DEF IInv, LogFits
<1>. QED
  BY <1>2, <1>4, <1>5, <1>7

LEMMA SendFits ==
  ASSUME IInv, Send PROVE IInv'
<1>1. /\ run \in Runs /\ run.list \in Lists /\ told \in Lists /\ day \in Nat
      /\ run' = [run EXCEPT !.pc = "snapshot"]
      /\ UNCHANGED <<day, snap, log, left, gone, last, since>> /\ run.pc = "send"
  BY DEF IInv, TypeInv, TypeOK, Send
<1>2. /\ run' \in Runs /\ run'.pc = "snapshot" /\ run'.list = run.list /\ run'.next = run.next
      /\ run'.log = run.log /\ run'.sending = run.sending /\ run'.result = run.result
  BY <1>1 DEF Runs
<1>3. /\ told' \in Lists /\ resend' \in [day : Nat, body : Lists] /\ mails' \in Nat
      /\ resend'.day \in 0..day
      /\ OneMailPerKey' /\ LogFits'
  BY MailFits DEF Send
<1>4. TypeInv'
  BY <1>1, <1>2, <1>3 DEF IInv, TypeInv, TypeOK, Runs
<1>5. resend'.day = day /\ \A k \in Keys : run.list[k] <= told'[k]
  <2>1. resend'.day = day
    BY <1>1 DEF Send, Answers, Reaches
  <2>2. Tells
    BY DEF Send, Reaches
  <2>3. \A k \in Keys : told'[k] >= run.list[k]
    BY <1>1, <2>2, TellsAll
  <2>4. \A k \in Keys : told'[k] \in Nat /\ run.list[k] \in Nat
    BY <1>1, <1>3 DEF Lists
  <2>. QED
    BY <2>1, <2>3, <2>4
<1>6. ClockFits'
  BY <1>1 DEF IInv, ClockFits
<1>7. (run.sending = (On(run.list) # {} /\ Sends(run.list, run.log)))'
  BY <1>1, <1>2 DEF IInv, RunFits, Sends, Added, Worse
<1>8. RunFits'
  BY <1>1, <1>2, <1>5, <1>7 DEF IInv, RunFits
<1>. QED
  BY <1>3, <1>4, <1>6, <1>8 DEF IInv

\* A run that ends without a log.
LEMMA EndFits ==
  ASSUME IInv, Conflict \/ SendFails \/ SaveLogFails \/ Dies
  PROVE  IInv'
<1>1. /\ UNCHANGED <<day, snap, log, gone, last, since>>
      /\ left' = left \/ Fault
      /\ Ends("green") \/ Ends("red")
  BY DEF Conflict, SendFails, SaveLogFails, Dies
<1>2. /\ told' \in Lists /\ resend' \in [day : Nat, body : Lists] /\ mails' \in Nat
      /\ resend'.day \in 0..day
      /\ OneMailPerKey' /\ LogFits'
  BY <1>1, MailFits DEF Conflict, SendFails, SaveLogFails, Dies
<1>3. run' \in Runs /\ run'.pc = "idle" /\ run'.next = NoDays
  BY <1>1, RunEnds
<1>4. run'.next \in [Slow -> 0..day]
  BY <1>3 DEF IInv, TypeInv, TypeOK, NoDays
<1>5. TypeInv'
  BY <1>1, <1>2, <1>3, <1>4, FaultCosts DEF IInv, TypeInv, TypeOK, Runs
<1>. QED
  BY <1>1, <1>2, <1>3, <1>5 DEF IInv, ClockFits, RunFits

-----------------------------------------------------------------------------
(* What is stored *)

LEMMA SnapshotFits ==
  ASSUME IInv, SaveSnapshot \/ SaveSnapshotFails PROVE IInv'
<1>1. /\ run \in Runs /\ run.pc = "snapshot"
      /\ UNCHANGED <<day, log, resend, told, gone, last, since, mails>>
      /\ \/ snap' = run.next /\ run' = [run EXCEPT !.pc = "log"] /\ UNCHANGED left
         \/ snap' = snap /\ run' = [run EXCEPT !.pc = "log", !.result = "failed"] /\ Fault
  BY DEF IInv, TypeInv, SaveSnapshot, SaveSnapshotFails
<1>2. /\ run' \in Runs /\ run'.pc = "log" /\ run'.list = run.list /\ run'.next = run.next
      /\ run'.log = run.log /\ run'.sending = run.sending
      /\ \/ run'.result = "failed"
         \/ run'.result = run.result /\ snap' = run.next
  BY <1>1 DEF Runs
<1>3. TypeInv'
  BY <1>1, <1>2, FaultCosts DEF IInv, TypeInv, TypeOK, Runs
<1>4. OneMailPerKey' /\ LogFits'
  BY <1>1 DEF IInv, OneMailPerKey, LogFits, LogOnlyClaimsMail
<1>5. ClockFits'
  BY <1>1 DEF IInv, ClockFits, RunFits
<1>6. (run.sending = (On(run.list) # {} /\ Sends(run.list, run.log)))'
  BY <1>1, <1>2 DEF IInv, RunFits, Sends, Added, Worse
<1>7. RunFits'
  BY <1>1, <1>2, <1>6 DEF IInv, RunFits
<1>. QED
  BY <1>3, <1>4, <1>5, <1>7 DEF IInv

LEMMA NewDayFits ==
  ASSUME IInv, NewDay PROVE IInv'
<1>1. /\ day \in 1..MaxDays /\ day < MaxDays /\ day' = day + 1 /\ mails' = 0
      /\ left \in [runs : Nat, faults : Nat] /\ left' = [left EXCEPT !.runs = DayRuns]
      /\ resend \in [day : Nat, body : Lists] /\ resend.day \in 0..day
      /\ resend' = [resend EXCEPT !.body = Empty]
      /\ Ends("none") /\ UNCHANGED <<snap, log, told, gone, last, since>>
  BY DEF IInv, TypeInv, TypeOK, NewDay
<1>2. resend' \in [day : Nat, body : Lists] /\ resend'.day = resend.day
  <2>1. Empty \in Lists
    BY DEF Empty, Lists
  <2>. QED
    BY <1>1, <2>1
<1>3. left' \in [runs : Nat, faults : Nat] /\ day' \in 1..MaxDays /\ day' \in Nat
  BY <1>1, ConstantsTyped
<1>4. run' \in Runs /\ run'.pc = "idle" /\ run'.next = NoDays
  BY <1>1, RunEnds
<1>5. run'.next \in [Slow -> 0..day']
  BY <1>3, <1>4 DEF NoDays
<1>6. snap' \in [Slow -> 0..day'] /\ since' \in [Slow -> 0..day'] /\ gone' \in [Keys -> 0..day']
  BY <1>1 DEF IInv, TypeInv, TypeOK
<1>7. TypeInv'
  BY <1>1, <1>2, <1>3, <1>4, <1>5, <1>6 DEF IInv, TypeInv, TypeOK, Runs
<1>8. OneMailPerKey' /\ LogFits'
  BY <1>1, <1>2 DEF IInv, OneMailPerKey, LogFits, LogOnlyClaimsMail
<1>. QED
  BY <1>1, <1>4, <1>7, <1>8 DEF IInv, ClockFits, RunFits

-----------------------------------------------------------------------------
(* The log is stored *)

\* What a run knows of the log it read.
LEMMA RunLogFits ==
  ASSUME IInv, run.pc # "idle"
  PROVE  /\ run.log \in Logs /\ run.log.on <= resend.day
         /\ \A k \in Keys :
               /\ run.log.sent[k] \in Record
               /\ run.log.sent[k].metric <= told[k]
               /\ run.log.sent[k].metric > 0 => run.log.sent[k].gone = gone[k]
<1>1. run.log \in {log, EmptyLog} /\ log \in Logs /\ told \in Lists
      /\ resend.day \in Nat
  BY DEF IInv, RunFits, TypeInv, TypeOK
<1>2. CASE run.log = log
  BY <1>1, <1>2 DEF IInv, LogFits, LogOnlyClaimsMail, Logs
<1>3. CASE run.log = EmptyLog
  <2>1. EmptyLog \in Logs /\ EmptyLog.on = 0
        /\ \A k \in Keys : EmptyLog.sent[k] = NoRecord /\ told[k] \in Nat
    BY <1>1 DEF EmptyLog, Logs, NoRecord, Record, Lists
  <2>2. NoRecord \in Record /\ NoRecord.metric = 0
    BY DEF NoRecord, Record
  <2>. QED
    BY <1>1, <1>3, <2>1, <2>2
<1>. QED
  BY <1>1, <1>2, <1>3

LEMMA RecallIs ==
  ASSUME NEW list \in Lists, run.sending \in BOOLEAN, Recall(list),
         told \in Lists, day \in Nat, gone \in [Keys -> 0..day]
  PROVE  /\ gone' \in [Keys -> 0..day] /\ told' \in Lists
         /\ last' \in [found : [Critical -> Nat], mailed : BOOLEAN]
         /\ last'.mailed = run.sending /\ \A k \in Critical : last'.found[k] = list[k]
         /\ \A k \in Keys :
              /\ list[k] > 0 => gone'[k] = 0 /\ told'[k] = told[k]
              /\ list[k] = 0 =>
                    /\ gone'[k] = IF gone[k] > 0 THEN gone[k] ELSE day
                    /\ ~ForGood(k) => told'[k] = told[k]
<1>1. \A k \in Keys : list[k] \in Nat /\ told[k] \in Nat
  BY DEF Lists
<1>2. /\ gone' \in [Keys -> 0..day]
      /\ \A k \in Keys :
            gone'[k] = IF list[k] > 0 THEN 0 ELSE IF gone[k] > 0 THEN gone[k] ELSE day
  BY DEF Recall
<1>3. /\ told' \in Lists
      /\ \A k \in Keys : told'[k] = IF list[k] = 0 /\ ForGood(k) THEN 0 ELSE told[k]
  BY <1>1 DEF Recall, Lists
<1>4. /\ last' \in [found : [Critical -> Nat], mailed : BOOLEAN]
      /\ last'.mailed = run.sending /\ \A k \in Critical : last'.found[k] = list[k]
  BY <1>1, ConstantsTyped DEF Recall
<1>. QED
  BY <1>1, <1>2, <1>3, <1>4

\* What the log says after a run, and what the operator knows.
LEMMA Logged ==
  ASSUME IInv, SaveLog
  PROVE  /\ log' \in Logs /\ log'.on \in 0..day /\ log'.on <= resend.day
         /\ \A k \in Critical : log'.sent[k].gone = 0
         /\ told' \in Lists /\ gone' \in [Keys -> 0..day]
         /\ last' \in [found : [Critical -> Nat], mailed : BOOLEAN]
         /\ ~last'.mailed => \A k \in Critical : log'.sent[k].metric = last'.found[k]
         /\ \A k \in Keys :
               /\ log'.sent[k].metric <= told'[k]
               /\ log'.sent[k].metric > 0 => log'.sent[k].gone = gone'[k]
               /\ run.list[k] > 0 => told'[k] > 0 /\ run.list[k] <= told'[k] + Slack(k)
<1>. DEFINE sent == NextSent(run.log.sent, run.list, run.sending)
<1>1. /\ run.pc = "log" /\ run \in Runs /\ run.list \in Lists /\ run.sending \in BOOLEAN
      /\ day \in Nat /\ told \in Lists /\ gone \in [Keys -> 0..day]
      /\ resend.day \in 0..day
  BY DEF SaveLog, IInv, TypeInv, TypeOK, Runs
<1>2. /\ run.log \in Logs /\ run.log.on <= resend.day
      /\ \A k \in Keys :
            /\ run.log.sent[k] \in Record
            /\ run.log.sent[k].metric <= told[k]
            /\ run.log.sent[k].metric > 0 => run.log.sent[k].gone = gone[k]
  BY <1>1, RunLogFits
<1>3. run.log.sent \in [Keys -> Record] /\ run.log.on \in Nat
  BY <1>2 DEF Logs
<1>4. log' = [on |-> IF run.sending THEN day ELSE run.log.on, sent |-> sent]
      /\ Recall(run.list)
  BY DEF SaveLog
<1>5. log'.sent = sent /\ log'.on = IF run.sending THEN day ELSE run.log.on
  BY <1>4
<1>6. sent \in [Keys -> Record]
  BY <1>1, <1>3, NextSentIs
<1>7. log' \in Logs /\ log'.on \in 0..day /\ log'.on <= resend.day
  <2>1. run.sending => resend.day = day
    BY <1>1 DEF IInv, RunFits
  <2>2. log'.on \in 0..day /\ log'.on <= resend.day
    BY <1>1, <1>2, <1>3, <1>5, <2>1
  <2>3. log' \in Logs
    BY <1>1, <1>3, <1>4, <1>6 DEF Logs
  <2>. QED
    BY <2>2, <2>3
<1>8. /\ told' \in Lists /\ gone' \in [Keys -> 0..day]
      /\ last' \in [found : [Critical -> Nat], mailed : BOOLEAN]
      /\ last'.mailed = run.sending /\ \A k \in Critical : last'.found[k] = run.list[k]
  BY <1>1, <1>4, RecallIs
<1>9. ASSUME NEW k \in Keys
      PROVE  /\ sent[k].metric <= told'[k]
             /\ sent[k].metric > 0 => sent[k].gone = gone'[k]
             /\ run.list[k] > 0 => told'[k] > 0 /\ run.list[k] <= told'[k] + Slack(k)
             /\ k \in Critical => sent[k].gone = 0
             /\ k \in Critical /\ ~run.sending => sent[k].metric = run.list[k]
  <2>. DEFINE was == run.log.sent[k]
              now == run.list[k]
  <2>1. /\ was.metric \in Nat /\ was.gone \in Nat /\ now \in Nat /\ told[k] \in Nat
        /\ told'[k] \in Nat /\ gone[k] \in 0..day /\ Slack(k) \in Nat
    BY <1>1, <1>2, <1>8, ConstantsTyped DEF Record, Lists, Slack
  <2>2. was.metric <= told[k] /\ (was.metric > 0 => was.gone = gone[k])
    BY <1>2
  <2>3. CASE now > 0
    <3>1. /\ sent[k].gone = 0 /\ gone'[k] = 0
          /\ sent[k].metric = IF was.metric = 0 THEN now
                              ELSE Baseline(k, was.metric, now, run.sending)
          /\ told'[k] = told[k]
      BY <1>1, <1>3, <1>4, <2>3, NextSentIs, RecallIs
    <3>2. CASE run.sending
      <4>1. now <= told[k]
        BY <1>1, <3>2 DEF IInv, RunFits
      <4>. QED
        BY <2>1, <2>2, <2>3, <3>1, <3>2, <4>1 DEF Baseline
    <3>3. CASE ~run.sending
      <4>1. k \in On(run.list)
        BY <2>3 DEF On
      <4>2. was.metric > 0 /\ now <= was.metric + Slack(k)
        <5>1. ~Sends(run.list, run.log)
          BY <1>1, <3>3, <4>1 DEF IInv, RunFits
        <5>. QED
          BY <1>1, <1>2, <4>1, <5>1, SilenceIs
      <4>3. k \in Critical => Slack(k) = 0
        BY AlertDigestAssumption DEF Slack
      <4>. QED
        BY <2>1, <2>2, <2>3, <3>1, <3>3, <4>2, <4>3 DEF Baseline
    <3>. QED
      BY <3>2, <3>3
  <2>4. CASE now = 0 /\ Remembered(k, was)
    <3>1. /\ sent[k].metric = was.metric
          /\ sent[k].gone = IF was.gone = 0 THEN day ELSE was.gone
          /\ gone'[k] = IF gone[k] > 0 THEN gone[k] ELSE day
          /\ ~ForGood(k) => told'[k] = told[k]
      <4>1. /\ sent[k].metric = was.metric
            /\ sent[k].gone = IF was.gone = 0 THEN day ELSE was.gone
        BY <1>1, <1>3, <2>4, NextSentIs
      <4>2. /\ gone'[k] = IF gone[k] > 0 THEN gone[k] ELSE day
            /\ ~ForGood(k) => told'[k] = told[k]
        BY <1>1, <1>4, <2>4, RecallIs
      <4>. QED
        BY <4>1, <4>2
    <3>2. k \notin Critical /\ was.metric > 0 /\ ~ForGood(k)
      BY <1>1, <2>1, <2>2, <2>4, ConstantsTyped DEF Remembered, ForGood
    <3>. QED
      BY <2>1, <2>2, <2>4, <3>1, <3>2
  <2>5. CASE now = 0 /\ ~Remembered(k, was)
    <3>1. sent[k] = NoRecord
      BY <1>1, <1>3, <2>5, NextSentIs
    <3>. QED
      BY <2>1, <2>5, <3>1 DEF NoRecord
  <2>. QED
    BY <2>1, <2>3, <2>4, <2>5
<1>. QED
  BY <1>5, <1>7, <1>8, <1>9, ConstantsTyped

LEMMA SaveLogFits ==
  ASSUME IInv, SaveLog PROVE IInv'
<1>1. /\ run.pc = "log" /\ run.next \in [Slow -> 0..day] /\ day \in 1..MaxDays
      /\ UNCHANGED <<day, snap, resend, left, mails>>
  BY DEF SaveLog, IInv, TypeInv, TypeOK
<1>2. /\ log' \in Logs /\ log'.on \in 0..day /\ log'.on <= resend.day
      /\ \A k \in Critical : log'.sent[k].gone = 0
      /\ told' \in Lists /\ gone' \in [Keys -> 0..day]
      /\ last' \in [found : [Critical -> Nat], mailed : BOOLEAN]
      /\ ~last'.mailed => \A k \in Critical : log'.sent[k].metric = last'.found[k]
      /\ \A k \in Keys :
            /\ log'.sent[k].metric <= told'[k]
            /\ log'.sent[k].metric > 0 => log'.sent[k].gone = gone'[k]
  BY Logged
<1>3. /\ run' \in Runs /\ run'.pc = "idle" /\ run'.next = NoDays
      /\ run'.result = IF run.result = "ok" THEN "green" ELSE "red"
  BY RunEnds DEF SaveLog
<1>4. run'.next \in [Slow -> 0..day]
  BY <1>1, <1>3 DEF NoDays
<1>5. since' = [k \in Slow |-> IF run'.result = "green" /\ run.next[k] > 0 /\ since[k] = 0
                               THEN day ELSE since[k]]
  BY DEF SaveLog
<1>6. since \in [Slow -> 0..day] /\ since' \in [Slow -> 0..day]
  BY <1>1, <1>5 DEF IInv, TypeInv, TypeOK
<1>7. TypeInv'
  BY <1>1, <1>2, <1>3, <1>4, <1>6 DEF IInv, TypeInv, TypeOK, Runs, Logs
<1>8. OneMailPerKey' /\ LogFits'
  BY <1>1, <1>2 DEF IInv, OneMailPerKey, LogFits, LogOnlyClaimsMail
<1>9. ClockFits'
  <2>1. run'.result = "green" => snap = run.next
    BY <1>1, <1>3 DEF IInv, RunFits
  <2>. QED
    BY <1>1, <1>5, <1>6, <2>1 DEF IInv, ClockFits
<1>. QED
  BY <1>3, <1>7, <1>8, <1>9 DEF IInv, RunFits

-----------------------------------------------------------------------------
(* The theorems *)

LEMMA StepFits == IInv /\ [Next]_vars => IInv'
<1>. SUFFICES ASSUME IInv, [Next]_vars PROVE IInv'
  OBVIOUS
<1>1. CASE UNCHANGED vars
  <2>1. UNCHANGED <<day, snap, log, resend, run, left, told, gone, last, since, mails>>
    BY <1>1 DEF vars
  <2>2. TypeInv'
    BY <2>1 DEF IInv, TypeInv, TypeOK
  <2>3. OneMailPerKey' /\ LogFits' /\ ClockFits'
    BY <2>1 DEF IInv, OneMailPerKey, LogFits, LogOnlyClaimsMail, ClockFits
  <2>4. RunFits'
    BY <2>1 DEF IInv, RunFits, Sends, Added, Worse
  <2>. QED
    BY <2>2, <2>3, <2>4 DEF IInv
<1>. QED
  BY <1>1, BeginFits, SendFits, EndFits, SnapshotFits, SaveLogFits, NewDayFits DEF Next

LEMMA InvariantHolds == Spec => []IInv
BY InitFits, StepFits, PTL DEF Spec

\* Every variable keeps its type, whatever fails, and a critical key off the list has
\* no record.
THEOREM TypeCorrect == Spec => []TypeOK
<1>1. IInv => TypeOK
  BY DEF IInv, TypeInv
<1>. QED
  BY <1>1, InvariantHolds, PTL

\* The operator gets at most one digest a day, however many runs the day has and
\* whatever they find or lose (the key `digest-<day>`).
THEOREM OneMailOfADay == Spec => []OneMailADay
<1>1. IInv => OneMailADay
  BY DEF IInv, OneMailPerKey, OneMailADay
<1>. QED
  BY <1>1, InvariantHolds, PTL

\* The send log never claims more than was mailed (nextSent, and the writes of it
\* in runDigest).
THEOREM LogIsTrue == Spec => []LogOnlyClaimsMail
<1>1. IInv => LogOnlyClaimsMail
  BY DEF IInv, LogFits
<1>. QED
  BY <1>1, InvariantHolds, PTL

\* A run ends green when it stores its log, or when the day's mail keeps its own back.
LEMMA GreenEnds ==
  ASSUME IInv, [Next]_vars, EndsGreen
  PROVE  SaveLog \/ (Conflict /\ HeldBack)
<1>1. run.pc # "idle" /\ run.result \in {"ok", "failed"} /\ run'.result = "green"
  BY DEF IInv, RunFits, EndsGreen
<1>2. ~UNCHANGED vars
  BY <1>1 DEF vars
<1>3. ~SendFails /\ ~SaveLogFails /\ ~Dies
  BY <1>1, RunEnds DEF SendFails, SaveLogFails, Dies
<1>4. ~Send /\ ~SaveSnapshot /\ ~SaveSnapshotFails
  BY <1>1 DEF IInv, TypeInv, Runs, Send, SaveSnapshot, SaveSnapshotFails
<1>5. Conflict => HeldBack
  BY DEF Conflict, HeldBack, Answers
<1>. QED
  BY <1>1, <1>2, <1>3, <1>4, <1>5 DEF Next, Begin, NewDay

\* A green run leaves nothing on its list the operator was not told of, as bad as it is
\* but for the tolerance, unless today's mail went out with another list, in which case
\* the run records nothing (decideDigestSend against the log it reads and writes, and
\* the 409 of a rerun).
THEOREM NewsReachesTheOperator == Spec => NewsIsMailed
<1>. DEFINE Step == EndsGreen =>
                      \/ \A k \in On(run.list) :
                            told'[k] > 0 /\ run.list[k] <= told'[k] + Slack(k)
                      \/ HeldBack
<1>1. IInv /\ [Next]_vars => [Step]_vars
  <2>. SUFFICES ASSUME IInv, [Next]_vars, EndsGreen, ~HeldBack, NEW k \in On(run.list)
                PROVE  told'[k] > 0 /\ run.list[k] <= told'[k] + Slack(k)
    OBVIOUS
  <2>1. SaveLog /\ k \in Keys /\ run.list[k] > 0
    BY GreenEnds DEF On
  <2>. QED
    BY <2>1, Logged
<1>. QED
  BY <1>1, InvariantHolds, PTL DEF Spec, NewsIsMailed

\* A critical count above what the last night without a mail found is in today's mail,
\* or kept back by it, however far below the worst the operator was told (baseline, and
\* the log it is judged by).
THEOREM CriticalRisesGoOut == Spec => CriticalRisesAreMailed
<1>. DEFINE Step == EndsGreen => \A k \in Critical :
                      ~last.mailed /\ run.list[k] > last.found[k]
                         => run.sending /\ resend.day = day
<1>1. IInv /\ [Next]_vars => [Step]_vars
  <2>. SUFFICES ASSUME IInv, [Next]_vars, EndsGreen, NEW k \in Critical,
                       ~last.mailed, run.list[k] > last.found[k]
                PROVE  run.sending /\ resend.day = day
    OBVIOUS
  <2>1. /\ run.pc # "idle" /\ run.list \in Lists /\ k \in Keys /\ day \in Nat
        /\ run.list[k] \in Nat /\ last.found[k] \in Nat
        /\ log.sent[k].metric = last.found[k]
        /\ run.log \in {log, EmptyLog} /\ run.log \in Logs
    BY ConstantsTyped, RunLogFits DEF EndsGreen, IInv, TypeInv, TypeOK, LogFits, RunFits, Lists
  <2>2. Sends(run.list, run.log)
    <3>1. CASE run.log = EmptyLog
      BY <3>1 DEF Sends, EmptyLog
    <3>2. CASE run.log = log
      <4>1. Slack(k) = 0 /\ k \in On(run.list)
        BY <2>1, AlertDigestAssumption DEF Slack, On
      <4>2. ~(run.list[k] <= run.log.sent[k].metric + Slack(k))
        BY <2>1, <3>2, <4>1
      <4>. QED
        BY <2>1, <4>1, <4>2, SilenceIs
    <3>. QED
      BY <2>1, <3>1, <3>2
  <2>3. run.sending
    <3>1. k \in On(run.list)
      BY <2>1 DEF On
    <3>. QED
      BY <2>1, <2>2, <3>1 DEF IInv, RunFits
  <2>4. CASE SaveLog
    BY <2>3, <2>4 DEF SaveLog, IInv, RunFits
  <2>5. CASE HeldBack
    BY <2>3, <2>5 DEF HeldBack
  <2>. QED
    BY <2>4, <2>5, GreenEnds
<1>. QED
  BY <1>1, InvariantHolds, PTL DEF Spec, CriticalRisesAreMailed

\* A green night with anything on its list has a mail of the last Heartbeat days
\* (DIGEST_HEARTBEAT_DAYS).
THEOREM HeartbeatHolds == Spec => HeartbeatIsKept
<1>. DEFINE Step == EndsGreen /\ On(run.list) # {} => day < resend.day + Heartbeat
<1>1. IInv /\ [Next]_vars => [Step]_vars
  <2>. SUFFICES ASSUME IInv, [Next]_vars, EndsGreen, On(run.list) # {}
                PROVE  day < resend.day + Heartbeat
    OBVIOUS
  <2>1. /\ run.pc # "idle" /\ day \in Nat /\ run.list \in Lists /\ resend.day \in Nat
        /\ run.sending = (On(run.list) # {} /\ Sends(run.list, run.log))
    BY DEF EndsGreen, IInv, TypeInv, TypeOK, RunFits
  <2>2. run.sending => resend.day = day
    BY GreenEnds DEF SaveLog, HeldBack, IInv, RunFits
  <2>3. CASE run.sending
    BY <2>1, <2>2, <2>3, ConstantsTyped
  <2>4. CASE ~run.sending
    <3>1. run.log \in Logs /\ run.log.on <= resend.day
      BY <2>1, RunLogFits
    <3>2. day < run.log.on + Heartbeat
      BY <2>1, <2>4, <3>1, SilenceIs
    <3>. QED
      BY <2>1, <3>1, <3>2, ConstantsTyped DEF Logs
  <2>. QED
    BY <2>3, <2>4
<1>. QED
  BY <1>1, InvariantHolds, PTL DEF Spec, HeartbeatIsKept

\* Quiet nights, conflicts and failed writes do not set a slow item's clock back
\* (diffAttention, and the snapshot every night stores).
THEOREM SlowItemsAreListed == Spec => SlowItemsSurface
<1>. DEFINE Step == EndsGreen => \A k \in Slow :
                      since[k] > 0 /\ day >= since[k] + WatchDays => run.list[k] > 0
<1>1. IInv /\ [Next]_vars => [Step]_vars
  <2>. SUFFICES ASSUME IInv, [Next]_vars, EndsGreen, NEW k \in Slow,
                       since[k] > 0, day >= since[k] + WatchDays
                PROVE  run.list[k] > 0
    OBVIOUS
  <2>1. /\ day \in Nat /\ since[k] \in Nat /\ run.next[k] \in Nat
        /\ 0 < run.next[k] /\ run.next[k] <= since[k]
        /\ run.next[k] > 0 /\ day >= run.next[k] + WatchDays => run.list[k] > 0
    BY DEF EndsGreen, IInv, TypeInv, TypeOK, RunFits
  <2>. QED
    BY <2>1, ConstantsTyped
<1>. QED
  BY <1>1, InvariantHolds, PTL DEF Spec, SlowItemsSurface
=============================================================================
