----------------------- MODULE DeliveryWebhookProofs ------------------------
(***************************************************************************)
(* Theorems about DeliveryWebhook, for every set of emails and every bound *)
(* on faults.  Types hold as they are; the promise and what an answer of   *)
(* 200 stands for rest on what a handler in flight knows of its row, which *)
(* stands only while no other delivery of the same email is handled.       *)
(***************************************************************************)
EXTENDS DeliveryWebhook, TLAPS

-----------------------------------------------------------------------------
(* What a step does to one event and to one record *)

Events == [Emails -> [Types -> Event]]

Records == [Emails -> Promise!Record]

OnlyEvent(e, t) ==
    /\ event' \in Events
    /\ \A f \in Emails, u \in Types : f # e \/ u # t => event'[f][u] = event[f][u]

OnlyRecord(e) ==
    /\ record' \in Records
    /\ \A f \in Emails : f # e => record'[f] = record[f]

LEMMA SetEvent ==
  ASSUME event \in Events, NEW e \in Emails, NEW t \in Types, NEW x \in Event,
         event' = [event EXCEPT ![e][t] = x]
  PROVE  OnlyEvent(e, t) /\ event'[e][t] = x
<1>1. [event[e] EXCEPT ![t] = x] \in [Types -> Event]
  BY DEF Events
<1>2. event' = [event EXCEPT ![e] = [event[e] EXCEPT ![t] = x]]
  OBVIOUS
<1>. QED
  BY <1>1, <1>2 DEF Events, OnlyEvent

LEMMA GotoMoves ==
  ASSUME event \in Events, NEW e \in Emails, NEW t \in Types,
         NEW pc \in {"queued", "lead", "report", "write", "acked"}, Goto(e, t, pc)
  PROVE  /\ OnlyEvent(e, t)
         /\ event'[e][t].pc = pc /\ event'[e][t].old = event[e][t].old
<1>. DEFINE x == [event[e][t] EXCEPT !.pc = pc]
<1>1. event[e][t] \in Event
  BY DEF Events
<1>2. x \in Event /\ x.pc = pc /\ x.old = event[e][t].old
  BY <1>1 DEF Event
<1>3. event' = [event EXCEPT ![e][t] = x]
  BY DEF Goto
<1>. HIDE DEF x
<1>. QED
  BY <1>2, <1>3, SetEvent

LEMMA AgeMoves ==
  ASSUME event \in Events, NEW e \in Emails, NEW t \in Types, Age(e, t)
  PROVE  OnlyEvent(e, t) /\ event'[e][t].pc = event[e][t].pc
<1>. DEFINE x == [event[e][t] EXCEPT !.old = TRUE]
<1>1. event[e][t] \in Event
  BY DEF Events
<1>2. x \in Event /\ x.pc = event[e][t].pc
  BY <1>1 DEF Event
<1>3. event' = [event EXCEPT ![e][t] = x]
  BY DEF Age
<1>. HIDE DEF x
<1>. QED
  BY <1>2, <1>3, SetEvent

LEMMA SetRecord ==
  ASSUME record \in Records, NEW e \in Emails, NEW w \in Promise!Record,
         record' = [record EXCEPT ![e] = w]
  PROVE  OnlyRecord(e) /\ record'[e] = w
BY DEF Records, OnlyRecord

\* The stamp comes or not, or the operator acknowledges.
LEMMA RowMoves ==
  ASSUME record \in Records, NEW e \in Emails
  PROVE  /\ \A stamped \in {"yes", "lost"} :
               record' = [record EXCEPT ![e].stamped = stamped] =>
                  /\ OnlyRecord(e)
                  /\ record'[e].stamped = stamped /\ record'[e].status = record[e].status
         /\ record' = [record EXCEPT ![e].acked = TRUE] =>
                  /\ OnlyRecord(e)
                  /\ record'[e].stamped = record[e].stamped
                  /\ record'[e].status = record[e].status
<1>1. record[e] \in Promise!Record
  BY DEF Records
<1>2. ASSUME NEW stamped \in {"yes", "lost"}, record' = [record EXCEPT ![e].stamped = stamped]
      PROVE  /\ OnlyRecord(e)
             /\ record'[e].stamped = stamped /\ record'[e].status = record[e].status
  <2>. DEFINE w == [record[e] EXCEPT !.stamped = stamped]
  <2>1. w \in Promise!Record /\ w.stamped = stamped /\ w.status = record[e].status
    BY <1>1 DEF Promise!Record
  <2>2. record' = [record EXCEPT ![e] = w]
    BY <1>2
  <2>. HIDE DEF w
  <2>. QED
    BY <2>1, <2>2, SetRecord
<1>3. ASSUME record' = [record EXCEPT ![e].acked = TRUE]
      PROVE  /\ OnlyRecord(e)
             /\ record'[e].stamped = record[e].stamped
             /\ record'[e].status = record[e].status
  <2>. DEFINE w == [record[e] EXCEPT !.acked = TRUE]
  <2>1. w \in Promise!Record /\ w.stamped = record[e].stamped /\ w.status = record[e].status
    BY <1>1 DEF Promise!Record
  <2>2. record' = [record EXCEPT ![e] = w]
    BY <1>3
  <2>. HIDE DEF w
  <2>. QED
    BY <2>1, <2>2, SetRecord
<1>. QED
  BY <1>2, <1>3

\* A status is written: by the lead's UPDATE, or by the report's.
LEMMA StatusMoves ==
  ASSUME record \in Records, NEW e \in Emails, NEW t \in Types
  PROVE  /\ record' = Bounced(e, t) =>
              /\ OnlyRecord(e)
              /\ record'[e].stamped = record[e].stamped /\ record'[e].status = "bounced"
         /\ record' = [record EXCEPT ![e].status = t] =>
              /\ OnlyRecord(e)
              /\ record'[e].stamped = record[e].stamped /\ record'[e].status = t
<1>1. record[e] \in Promise!Record
  BY DEF Records
<1>2. t \in Promise!Status /\ "bounced" \in Promise!Status
  BY DEF Types, Promise!Status
<1>3. ASSUME record' = Bounced(e, t)
      PROVE  /\ OnlyRecord(e)
             /\ record'[e].stamped = record[e].stamped /\ record'[e].status = "bounced"
  <2>. DEFINE classified == record[e].classified \/ Classifies(t)
              w == [record[e] EXCEPT !.status = "bounced", !.classified = classified]
  <2>1. classified \in BOOLEAN
    OBVIOUS
  <2>2. record' = [record EXCEPT ![e] = w]
    BY <1>3 DEF Bounced
  <2>. HIDE DEF classified
  <2>3. w \in Promise!Record /\ w.stamped = record[e].stamped /\ w.status = "bounced"
    BY <1>1, <1>2, <2>1 DEF Promise!Record
  <2>. HIDE DEF w
  <2>. QED
    BY <2>2, <2>3, SetRecord
<1>4. ASSUME record' = [record EXCEPT ![e].status = t]
      PROVE  /\ OnlyRecord(e)
             /\ record'[e].stamped = record[e].stamped /\ record'[e].status = t
  <2>. DEFINE w == [record[e] EXCEPT !.status = t]
  <2>1. w \in Promise!Record /\ w.stamped = record[e].stamped /\ w.status = t
    BY <1>1, <1>2 DEF Promise!Record
  <2>2. record' = [record EXCEPT ![e] = w]
    BY <1>4
  <2>. HIDE DEF w
  <2>. QED
    BY <2>1, <2>2, SetRecord
<1>. QED
  BY <1>3, <1>4

-----------------------------------------------------------------------------
(* Type correctness *)

LEMMA InitTyped == Init => TypeOK
BY DeliveryWebhookAssumption
   DEF Init, TypeOK, Promise!Record, Promise!NewRecord, Promise!Status, Event, NoEvent, Types

LEMMA StepTyped == TypeOK /\ [Next]_vars => TypeOK'
<1>. SUFFICES ASSUME TypeOK, [Next]_vars PROVE TypeOK'
  OBVIOUS
<1>1. /\ owner \in [Emails -> {"report", "lead", "none"}]
      /\ record \in Records
      /\ event \in Events
      /\ faults \in Nat /\ faults <= MaxFaults
  BY DeliveryWebhookAssumption DEF TypeOK, Events, Records
<1>2. ASSUME owner' = owner, record' \in Records, event' \in Events, UNCHANGED faults \/ Fault
      PROVE  TypeOK'
  BY <1>1, <1>2, DeliveryWebhookAssumption DEF TypeOK, Fault, Events, Records
<1>3. ASSUME NEW e \in Emails, Stamp(e) \/ StampIsLost(e) \/ Acknowledge(e)
      PROVE  TypeOK'
  BY <1>1, <1>2, <1>3, RowMoves DEF Stamp, StampIsLost, Acknowledge, OnlyRecord
<1>4. ASSUME NEW e \in Emails, NEW t \in Types, Emit(e, t) \/ Deliver(e, t)
      PROVE  TypeOK'
  BY <1>1, <1>2, <1>4, GotoMoves DEF Emit, Deliver, OnlyEvent
<1>5. ASSUME NEW e \in Emails, NEW t \in Types, Age(e, t)
      PROVE  TypeOK'
  BY <1>1, <1>2, <1>5, AgeMoves DEF Age, OnlyEvent
<1>6. ASSUME NEW e \in Emails, NEW t \in Types,
             LeadLookupFails(e, t) \/ StoreFails(e, t) \/ HandlerDies(e, t)
      PROVE  TypeOK'
  BY <1>1, <1>2, <1>6, GotoMoves DEF LeadLookupFails, StoreFails, HandlerDies, Refused, OnlyEvent
<1>7. ASSUME NEW e \in Emails, NEW t \in Types, Handle(e, t)
      PROVE  TypeOK'
  <2>1. event' \in Events
    BY <1>1, <1>7, GotoMoves
       DEF Handle, LeadLookup, ReportFound, Unmatched, WriteStatus, Acked, Refused, OnlyEvent
  <2>2. record' \in Records
    BY <1>1, <1>7, StatusMoves
       DEF Handle, LeadLookup, ReportFound, Unmatched, WriteStatus, OnlyRecord
  <2>3. owner' = owner /\ (UNCHANGED faults \/ Fault)
    BY <1>7 DEF Handle, LeadLookup, ReportFound, Unmatched, WriteStatus, Acked
  <2>. QED
    BY <1>2, <2>1, <2>2, <2>3
<1>8. CASE UNCHANGED vars
  BY <1>8 DEF vars, TypeOK
<1>. QED
  BY <1>3, <1>4, <1>5, <1>6, <1>7, <1>8 DEF Next

\* Every variable keeps its type, whatever is emitted, delayed and retried.
THEOREM TypeCorrect == Spec => []TypeOK
BY InitTyped, StepTyped, PTL DEF Spec

-----------------------------------------------------------------------------
(* What a handler in flight knows *)

\* One delivery of an email is handled at a time.
Serial ==
    \A e \in Emails, t, u \in Types : InFlight(e, t) /\ InFlight(e, u) => t = u

\* A status about to be written is still no downgrade of the report it was compared
\* with.
WriteHolds ==
    \A e \in Emails, t \in Types :
        event[e][t].pc = "write" =>
            owner[e] = "report" /\ record[e].stamped = "yes"
                /\ ~IsDowngrade(record[e].status, t)

HandlerInv == TypeOK /\ Serial /\ WriteHolds

\* Only an email of ours is stamped; nothing is waited for past the window.
StampsKnown ==
    \A e \in Emails :
        /\ record[e].stamped = "yes" => owner[e] # "none"
        /\ \A t \in Types : event[e][t].old \/ event[e][t].pc = "acked" =>
               record[e].stamped # "awaited"

\* An old event that went past the lead it is about had a failed lookup.
MissedByFailure ==
    \A e \in Emails, t \in Types :
        /\ event[e][t].pc = "report" /\ event[e][t].old /\ t # "delivered"
        /\ owner[e] = "lead" /\ record[e].stamped = "yes"
        => faults > 0

AckInv == HandlerInv /\ StampsKnown /\ MissedByFailure /\ AckedIsRecorded

-----------------------------------------------------------------------------
(* The promise *)

LEMMA InitHandler == Init => HandlerInv
BY InitTyped DEF Init, HandlerInv, Serial, WriteHolds, InFlight, NoEvent

\* A handler that moves on, or stops, without writing.
LEMMA MovesOn ==
  ASSUME HandlerInv, NEW e \in Emails, NEW t \in Types, OnlyEvent(e, t),
         UNCHANGED <<owner, record>>, event'[e][t].pc # "write",
         InFlight(e, t)' => InFlight(e, t)
  PROVE  Serial' /\ WriteHolds'
<1>1. \A f \in Emails, u \in Types : InFlight(f, u)' => InFlight(f, u)
  BY DEF OnlyEvent, InFlight
<1>2. \A f \in Emails, u \in Types :
         event'[f][u].pc = "write" => event[f][u].pc = "write"
  BY DEF OnlyEvent
<1>3. Serial'
  BY <1>1 DEF HandlerInv, Serial
<1>4. WriteHolds'
  BY <1>2 DEF HandlerInv, WriteHolds
<1>. QED
  BY <1>3, <1>4

\* A row moves under handlers that do not write.
LEMMA RowMovesOn ==
  ASSUME HandlerInv, NEW e \in Emails, OnlyRecord(e), UNCHANGED <<owner, event>>,
         record[e].stamped = "yes" =>
            record'[e].stamped = "yes" /\ record'[e].status = record[e].status
  PROVE  Serial' /\ WriteHolds'
<1>1. Serial'
  BY DEF HandlerInv, Serial, InFlight
<1>2. WriteHolds'
  BY DEF HandlerInv, WriteHolds, OnlyRecord
<1>. QED
  BY <1>1, <1>2

LEMMA StepHandler == ~Overlap /\ HandlerInv /\ [Next]_vars => HandlerInv'
<1>. SUFFICES ASSUME ~Overlap, HandlerInv, [Next]_vars PROVE Serial' /\ WriteHolds'
  BY StepTyped DEF HandlerInv
<1>1. record \in Records /\ event \in Events
  BY DEF HandlerInv, TypeOK, Events, Records
<1>2. ASSUME NEW e \in Emails, Stamp(e) \/ StampIsLost(e) \/ Acknowledge(e)
      PROVE  Serial' /\ WriteHolds'
  BY <1>1, <1>2, RowMoves, RowMovesOn DEF Stamp, StampIsLost, Acknowledge
<1>3. ASSUME NEW e \in Emails, NEW t \in Types,
             \/ Emit(e, t) \/ Age(e, t) \/ LeadLookupFails(e, t) \/ Unmatched(e, t)
             \/ StoreFails(e, t) \/ HandlerDies(e, t)
      PROVE  Serial' /\ WriteHolds'
  <2>1. CASE Age(e, t)
    <3>1. OnlyEvent(e, t) /\ event'[e][t].pc = event[e][t].pc /\ UNCHANGED <<owner, record>>
      BY <1>1, <2>1, AgeMoves DEF Age
    <3>2. \A f \in Emails, u \in Types : event'[f][u].pc = event[f][u].pc
      BY <3>1 DEF OnlyEvent
    <3>3. Serial'
      BY <3>2 DEF HandlerInv, Serial, InFlight
    <3>4. WriteHolds'
      BY <3>1, <3>2 DEF HandlerInv, WriteHolds
    <3>. QED
      BY <3>3, <3>4
  <2>2. CASE Emit(e, t) \/ Unmatched(e, t) \/ StoreFails(e, t) \/ HandlerDies(e, t)
    BY <1>1, <2>2, GotoMoves, MovesOn
       DEF Emit, Unmatched, StoreFails, HandlerDies, Acked, Refused, InFlight
  <2>3. CASE LeadLookupFails(e, t)
    BY <1>1, <2>3, GotoMoves, MovesOn DEF LeadLookupFails, InFlight
  <2>. QED
    BY <1>3, <2>1, <2>2, <2>3
<1>4. ASSUME NEW e \in Emails, NEW t \in Types, Deliver(e, t)
      PROVE  Serial' /\ WriteHolds'
  <2>1. /\ OnlyEvent(e, t) /\ event'[e][t].pc \in {"report", "lead"}
        /\ \A u \in Types : ~InFlight(e, u)
        /\ UNCHANGED <<owner, record>>
    BY <1>1, <1>4, GotoMoves DEF Deliver
  <2>2. Serial'
    BY <2>1 DEF HandlerInv, Serial, InFlight, OnlyEvent
  <2>3. WriteHolds'
    BY <2>1 DEF HandlerInv, WriteHolds, OnlyEvent
  <2>. QED
    BY <2>2, <2>3
<1>5. ASSUME NEW e \in Emails, NEW t \in Types, LeadLookup(e, t)
      PROVE  Serial' /\ WriteHolds'
  <2>1. CASE Matches(e, "lead")
    <3>1. OnlyRecord(e) /\ OnlyEvent(e, t) /\ event'[e][t].pc \in {"acked", "queued"}
      BY <1>1, <1>5, <2>1, StatusMoves, GotoMoves DEF LeadLookup, Acked
    <3>2. Serial'
      BY <3>1 DEF HandlerInv, Serial, InFlight, OnlyEvent
    <3>3. WriteHolds'
      BY <1>5, <2>1, <3>1 DEF HandlerInv, WriteHolds, OnlyEvent, OnlyRecord, Matches, LeadLookup
    <3>. QED
      BY <3>2, <3>3
  <2>2. CASE ~Matches(e, "lead")
    BY <1>1, <1>5, <2>2, GotoMoves, MovesOn DEF LeadLookup, InFlight
  <2>. QED
    BY <2>1, <2>2
<1>6. ASSUME NEW e \in Emails, NEW t \in Types, ReportFound(e, t)
      PROVE  Serial' /\ WriteHolds'
  <2>1. CASE Goto(e, t, "write") /\ ~IsDowngrade(record[e].status, t)
    <3>1. OnlyEvent(e, t) /\ InFlight(e, t) /\ UNCHANGED <<owner, record>>
      BY <1>1, <1>6, <2>1, GotoMoves DEF ReportFound, InFlight
    <3>2. Serial'
      BY <3>1 DEF HandlerInv, Serial, InFlight, OnlyEvent
    <3>3. WriteHolds'
      BY <1>6, <2>1, <3>1 DEF HandlerInv, WriteHolds, OnlyEvent, Matches, ReportFound
    <3>. QED
      BY <3>2, <3>3
  <2>2. CASE Acked(e, t)
    BY <1>1, <1>6, <2>2, GotoMoves, MovesOn DEF ReportFound, Acked, InFlight
  <2>. QED
    BY <1>6, <2>1, <2>2 DEF ReportFound
<1>7. ASSUME NEW e \in Emails, NEW t \in Types, WriteStatus(e, t)
      PROVE  Serial' /\ WriteHolds'
  <2>1. OnlyRecord(e) /\ OnlyEvent(e, t) /\ event'[e][t].pc \in {"acked", "queued"}
        /\ InFlight(e, t)
    BY <1>1, <1>7, StatusMoves, GotoMoves DEF WriteStatus, Acked, InFlight
  <2>2. Serial'
    BY <2>1 DEF HandlerInv, Serial, InFlight, OnlyEvent
  <2>3. \A u \in Types : event'[e][u].pc # "write"
    BY <2>1 DEF HandlerInv, Serial, InFlight, OnlyEvent
  <2>4. WriteHolds'
    BY <1>7, <2>1, <2>3 DEF HandlerInv, WriteHolds, OnlyEvent, OnlyRecord, WriteStatus
  <2>. QED
    BY <2>2, <2>4
<1>8. CASE UNCHANGED vars
  BY <1>8 DEF vars, HandlerInv, Serial, WriteHolds, InFlight
<1>. QED
  BY <1>2, <1>3, <1>4, <1>5, <1>6, <1>7, <1>8 DEF Next, Handle

\* Raise, as a change of one row.
LEMMA RaiseIs ==
  ASSUME record \in Records, NEW e \in Emails, NEW status \in Promise!Status,
         NEW classified \in BOOLEAN, record[e].classified => classified,
         record[e].stamped = "yes", Rank(status) >= Rank(record[e].status),
         record' = [record EXCEPT ![e].status = status, ![e].classified = classified]
  PROVE  Promise!Next
<1>1. Promise!Raise(e, status)
  BY DEF Promise!Raise, Rank
<1>. QED
  BY <1>1 DEF Promise!Next

\* An UPDATE of the status alone keeps the classification.
LEMMA StatusAlone ==
  ASSUME record \in Records, NEW e \in Emails, NEW status \in Promise!Status
  PROVE  [record EXCEPT ![e].status = status]
            = [record EXCEPT ![e].status = status, ![e].classified = record[e].classified]
<1>. DEFINE w == [record[e] EXCEPT !.status = status]
            x == [w EXCEPT !.classified = record[e].classified]
<1>1. record[e] \in Promise!Record
  BY DEF Records
<1>2. w \in Promise!Record /\ w.classified = record[e].classified
  BY <1>1 DEF Promise!Record
<1>3. x = w
  BY <1>1, <1>2 DEF Promise!Record
<1>4. [record EXCEPT ![e].status = status, ![e].classified = record[e].classified]
        = [[record EXCEPT ![e] = w] EXCEPT ![e] = x]
  <2>1. [record EXCEPT ![e] = w][e] = w
    BY DEF Records
  <2>. QED
    BY <2>1
<1>. HIDE DEF w, x
<1>5. [[record EXCEPT ![e] = w] EXCEPT ![e] = x] = [record EXCEPT ![e] = w]
  BY <1>3 DEF Records
<1>. QED
  BY <1>4, <1>5 DEF w

LEMMA RanksOrdered ==
  \A status \in Promise!Status : Rank(status) \in 0..2 /\ Rank("bounced") >= Rank(status)
BY DEF Rank, Promise!Rank, Promise!Status

LEMMA StepKeepsPromise ==
  ASSUME HandlerInv, [Next]_vars
  PROVE  Promise!Next \/ UNCHANGED record
<1>1. record \in Records /\ \A e \in Emails : record[e].status \in Promise!Status
  BY DEF HandlerInv, TypeOK, Records, Promise!Record
<1>2. ASSUME NEW e \in Emails, Stamp(e) \/ StampIsLost(e)
      PROVE  Promise!Next
  <2>1. Promise!Settle(e)
    BY <1>2 DEF Stamp, StampIsLost, Promise!Settle
  <2>. QED
    BY <2>1 DEF Promise!Next
<1>3. ASSUME NEW e \in Emails, Acknowledge(e)
      PROVE  Promise!Next
  <2>1. Promise!Acknowledge(e)
    BY <1>3 DEF Acknowledge, Promise!Acknowledge
  <2>. QED
    BY <2>1 DEF Promise!Next
<1>4. ASSUME NEW e \in Emails, NEW t \in Types, LeadLookup(e, t)
      PROVE  Promise!Next \/ UNCHANGED record
  <2>1. CASE Matches(e, "lead")
    <3>. DEFINE classified == record[e].classified \/ Classifies(t)
    <3>1. record' = [record EXCEPT ![e].status = "bounced", ![e].classified = classified]
      BY <1>4, <2>1 DEF LeadLookup, Bounced
    <3>2. classified \in BOOLEAN /\ (record[e].classified => classified)
      OBVIOUS
    <3>3. "bounced" \in Promise!Status /\ record[e].stamped = "yes"
      BY <2>1 DEF Promise!Status, Matches
    <3>. HIDE DEF classified
    <3>. QED
      BY <1>1, <3>1, <3>2, <3>3, RaiseIs, RanksOrdered
  <2>2. CASE ~Matches(e, "lead")
    BY <1>4, <2>2 DEF LeadLookup
  <2>. QED
    BY <2>1, <2>2
<1>5. ASSUME NEW e \in Emails, NEW t \in Types, WriteStatus(e, t)
      PROVE  Promise!Next
  <2>1. record[e].stamped = "yes" /\ ~IsDowngrade(record[e].status, t)
    BY <1>5 DEF WriteStatus, HandlerInv, WriteHolds
  <2>2. t \in Promise!Status
    BY DEF Types, Promise!Status
  <2>3. Rank(t) >= Rank(record[e].status)
    BY <1>1, <2>1, <2>2, RanksOrdered DEF IsDowngrade
  <2>4. record[e].classified \in BOOLEAN
    BY <1>1 DEF Records, Promise!Record
  <2>5. record' = [record EXCEPT ![e].status = t, ![e].classified = record[e].classified]
    BY <1>1, <1>5, <2>2, StatusAlone DEF WriteStatus
  <2>. QED
    BY <1>1, <2>1, <2>2, <2>3, <2>4, <2>5, RaiseIs
<1>6. ASSUME NEW e \in Emails, NEW t \in Types,
             \/ Emit(e, t) \/ Age(e, t) \/ Deliver(e, t) \/ LeadLookupFails(e, t)
             \/ ReportFound(e, t) \/ Unmatched(e, t) \/ StoreFails(e, t) \/ HandlerDies(e, t)
      PROVE  UNCHANGED record
  BY <1>6 DEF Emit, Age, Deliver, LeadLookupFails, ReportFound, Unmatched, StoreFails, HandlerDies
<1>7. CASE UNCHANGED vars
  BY <1>7 DEF vars
<1>. QED
  BY <1>2, <1>3, <1>4, <1>5, <1>6, <1>7 DEF Next, Handle

\* While one delivery per email is handled at a time, the webhook implements
\* DeliveryRecord: a status is only raised, on a row that knows its message id, and a
\* classification and an acknowledgement are kept (isStatusDowngrade,
\* markNotifyBouncedByMessageId).
THEOREM ImplementsRecord ==
  ASSUME ~Overlap PROVE Spec => RecordSpec
<1>1. Init => Promise!Init
  BY DEF Init, Promise!Init
<1>2. HandlerInv /\ [Next]_vars => HandlerInv'
  BY StepHandler
<1>3. HandlerInv /\ [Next]_vars => [Promise!Next]_record
  BY StepKeepsPromise
<1>. QED
  BY InitHandler, <1>1, <1>2, <1>3, PTL DEF Spec, RecordSpec, Promise!Spec

\* A row's status never gets better, while one delivery per email is handled at a time
\* (isStatusDowngrade).
THEOREM OneAtATimeNeverDowngrades ==
  ASSUME ~Overlap PROVE Spec => NeverDowngraded
<1>. DEFINE Step == \A e \in Emails : Rank(record'[e].status) >= Rank(record[e].status)
<1>1. ASSUME HandlerInv, [Next]_vars
      PROVE  Step \/ UNCHANGED record
  <2>1. record \in Records /\ \A e \in Emails : record[e].status \in Promise!Status
    BY <1>1 DEF HandlerInv, TypeOK, Records, Promise!Record
  <2>2. \A e \in Emails : Rank(record[e].status) \in 0..2
    BY <2>1, RanksOrdered
  <2>3. ASSUME NEW e \in Emails, Promise!Settle(e) \/ Promise!Acknowledge(e)
        PROVE  Step
    BY <2>1, <2>2, <2>3, RowMoves DEF Promise!Settle, Promise!Acknowledge, OnlyRecord
  <2>4. ASSUME NEW e \in Emails, NEW status \in Promise!Status, Promise!Raise(e, status)
        PROVE  Step
    <3>1. PICK classified \in BOOLEAN :
             record' = [record EXCEPT ![e].status = status, ![e].classified = classified]
      BY <2>4 DEF Promise!Raise
    <3>. DEFINE w == [record[e] EXCEPT !.status = status, !.classified = classified]
    <3>2. record[e] \in Promise!Record
      BY <2>1 DEF Records
    <3>3. w \in Promise!Record /\ w.status = status
      BY <3>2 DEF Promise!Record
    <3>4. record' = [record EXCEPT ![e] = w]
      BY <3>1
    <3>. HIDE DEF w
    <3>5. OnlyRecord(e) /\ record'[e] = w
      BY <2>1, <3>3, <3>4, SetRecord
    <3>6. Rank(status) >= Rank(record[e].status)
      BY <2>4 DEF Promise!Raise, Rank
    <3>. QED
      BY <2>2, <3>3, <3>5, <3>6 DEF OnlyRecord
  <2>. QED
    BY <1>1, <2>3, <2>4, StepKeepsPromise DEF Promise!Next
<1>2. HandlerInv /\ [Next]_vars => HandlerInv'
  BY StepHandler
<1>3. HandlerInv /\ [Next]_vars => [Step]_record
  BY <1>1
<1>. QED
  BY InitHandler, <1>2, <1>3, PTL DEF Spec, NeverDowngraded

-----------------------------------------------------------------------------
(* What a 200 stands for *)

LEMMA InitAck == Init => AckInv
BY InitHandler
   DEF Init, AckInv, StampsKnown, MissedByFailure, AckedIsRecorded, NoEvent, Promise!NewRecord

\* What the row says of an event that is done with.
Recorded(e, t) ==
    record[e].stamped = "yes" =>
        \/ owner[e] = "report" /\ Rank(record[e].status) >= Rank(t)
        \/ owner[e] = "lead" /\ (t = "delivered" \/ record[e].status = "bounced" \/ faults > 0)

\* An event moves while its row stays: what has to hold of it afterwards.
LEMMA EventMoves ==
  ASSUME AckInv, NEW e \in Emails, NEW t \in Types, OnlyEvent(e, t),
         UNCHANGED <<owner, record>>, UNCHANGED faults \/ Fault,
         event'[e][t].old \/ event'[e][t].pc = "acked" => record[e].stamped # "awaited",
         event'[e][t].pc = "acked" => Recorded(e, t)',
         event'[e][t].pc = "report" /\ event'[e][t].old /\ t # "delivered" =>
            owner[e] # "lead" \/ record[e].stamped # "yes" \/ faults' > 0
  PROVE  StampsKnown' /\ MissedByFailure' /\ AckedIsRecorded'
<1>1. faults > 0 => faults' > 0
  BY DEF AckInv, HandlerInv, TypeOK, Fault
<1>2. StampsKnown'
  BY DEF AckInv, StampsKnown, OnlyEvent
<1>3. MissedByFailure'
  BY <1>1 DEF AckInv, MissedByFailure, OnlyEvent
<1>4. ASSUME NEW f \in Emails, NEW u \in Types, event'[f][u].pc = "acked"
      PROVE  Recorded(f, u)'
  <2>1. CASE f = e /\ u = t
    BY <1>4, <2>1
  <2>2. CASE f # e \/ u # t
    BY <1>1, <1>4, <2>2 DEF AckInv, AckedIsRecorded, OnlyEvent, Recorded
  <2>. QED
    BY <2>1, <2>2
<1>5. AckedIsRecorded'
  BY <1>4 DEF AckedIsRecorded, Recorded
<1>. QED
  BY <1>2, <1>3, <1>5

LEMMA StepAck == ~Overlap /\ ~LateStamps /\ AckInv /\ [Next]_vars => AckInv'
<1>. SUFFICES ASSUME ~Overlap, ~LateStamps, AckInv, [Next]_vars
              PROVE  StampsKnown' /\ MissedByFailure' /\ AckedIsRecorded'
  BY StepHandler DEF AckInv
<1>. DEFINE Kept == StampsKnown' /\ MissedByFailure' /\ AckedIsRecorded'
<1>1. /\ record \in Records /\ event \in Events /\ faults \in Nat
      /\ \A f \in Emails : Rank(record[f].status) \in 0..2
  BY RanksOrdered DEF AckInv, HandlerInv, TypeOK, Events, Records, Promise!Record
<1>2. \A u \in Types : Rank(u) \in 0..2 /\ (u = "delivered" \/ Rank(u) = 2)
  BY DEF Types, Rank, Promise!Rank
<1>3. Fault => faults' > 0
  BY <1>1 DEF Fault
<1>4. ASSUME NEW e \in Emails, Stamp(e) \/ StampIsLost(e)
      PROVE  Kept
  <2>1. /\ OnlyRecord(e) /\ record[e].stamped = "awaited"
        /\ record'[e].stamped \in {"yes", "lost"}
        /\ record'[e].stamped = "yes" => owner[e] # "none"
        /\ UNCHANGED <<owner, event, faults>>
    BY <1>1, <1>4, RowMoves DEF Stamp, StampIsLost
  <2>2. \A u \in Types : ~event[e][u].old /\ event[e][u].pc # "acked"
    BY <2>1 DEF AckInv, StampsKnown
  <2>. QED
    BY <2>1, <2>2 DEF AckInv, StampsKnown, MissedByFailure, AckedIsRecorded, OnlyRecord
<1>5. ASSUME NEW e \in Emails, Acknowledge(e)
      PROVE  Kept
  <2>1. /\ OnlyRecord(e) /\ record'[e].stamped = record[e].stamped
        /\ record'[e].status = record[e].status /\ UNCHANGED <<owner, event, faults>>
    BY <1>1, <1>5, RowMoves DEF Acknowledge
  <2>. QED
    BY <2>1 DEF AckInv, StampsKnown, MissedByFailure, AckedIsRecorded, OnlyRecord
<1>6. ASSUME NEW e \in Emails, NEW t \in Types, Emit(e, t)
      PROVE  Kept
  <2>1. OnlyEvent(e, t) /\ event'[e][t].pc = "queued" /\ event'[e][t].old = event[e][t].old
        /\ UNCHANGED <<owner, record, faults>>
    BY <1>1, <1>6, GotoMoves DEF Emit
  <2>. QED
    BY <2>1, EventMoves DEF AckInv, StampsKnown
<1>7. ASSUME NEW e \in Emails, NEW t \in Types, Age(e, t)
      PROVE  Kept
  <2>1. OnlyEvent(e, t) /\ event'[e][t].pc = event[e][t].pc
        /\ UNCHANGED <<owner, record, faults>>
    BY <1>1, <1>7, AgeMoves DEF Age
  <2>2. /\ record[e].stamped # "awaited"
        /\ event[e][t].pc # "report" /\ event[e][t].pc # "acked"
    BY <1>7 DEF Age, InFlight
  <2>. QED
    BY <2>1, <2>2, EventMoves
<1>8. ASSUME NEW e \in Emails, NEW t \in Types, Deliver(e, t)
      PROVE  Kept
  <2>1. /\ OnlyEvent(e, t) /\ event'[e][t].old = event[e][t].old
        /\ event'[e][t].pc \in {"lead", "report"}
        /\ event'[e][t].pc = "report" => t = "delivered"
        /\ UNCHANGED <<owner, record, faults>>
    BY <1>1, <1>8, GotoMoves DEF Deliver
  <2>. QED
    BY <2>1, EventMoves DEF AckInv, StampsKnown
<1>9. ASSUME NEW e \in Emails, NEW t \in Types,
             LeadLookupFails(e, t) \/ StoreFails(e, t) \/ HandlerDies(e, t)
      PROVE  Kept
  <2>1. /\ OnlyEvent(e, t) /\ event'[e][t].old = event[e][t].old
        /\ event'[e][t].pc \in {"queued", "report"}
        /\ UNCHANGED <<owner, record>> /\ Fault
    BY <1>1, <1>9, GotoMoves DEF LeadLookupFails, StoreFails, HandlerDies, Refused
  <2>. QED
    BY <1>3, <2>1, EventMoves DEF AckInv, StampsKnown
<1>10. ASSUME NEW e \in Emails, NEW t \in Types, LeadLookup(e, t)
       PROVE  Kept
  <2>1. CASE Matches(e, "lead")
    <3>1. /\ OnlyRecord(e) /\ record'[e].stamped = "yes" /\ record'[e].status = "bounced"
          /\ OnlyEvent(e, t) /\ event'[e][t].pc \in {"acked", "queued"}
          /\ owner' = owner /\ owner[e] = "lead" /\ record[e].stamped = "yes"
          /\ UNCHANGED faults \/ Fault
      BY <1>1, <1>10, <2>1, StatusMoves, GotoMoves DEF LeadLookup, Acked, Matches
    <3>2. faults > 0 => faults' > 0
      BY <1>1, <3>1 DEF Fault
    <3>3. StampsKnown'
      BY <3>1 DEF AckInv, StampsKnown, OnlyRecord, OnlyEvent
    <3>4. MissedByFailure'
      BY <3>1, <3>2 DEF AckInv, MissedByFailure, OnlyRecord, OnlyEvent
    <3>5. AckedIsRecorded'
      BY <3>1, <3>2 DEF AckInv, AckedIsRecorded, OnlyRecord, OnlyEvent
    <3>. QED
      BY <3>3, <3>4, <3>5
  <2>2. CASE ~Matches(e, "lead")
    <3>1. /\ OnlyEvent(e, t) /\ event'[e][t].old = event[e][t].old
          /\ event'[e][t].pc = "report" /\ UNCHANGED <<owner, record, faults>>
      BY <1>1, <1>10, <2>2, GotoMoves DEF LeadLookup
    <3>2. owner[e] # "lead" \/ record[e].stamped # "yes"
      BY <2>2 DEF Matches
    <3>. QED
      BY <3>1, <3>2, EventMoves DEF AckInv, StampsKnown
  <2>. QED
    BY <2>1, <2>2
<1>11. ASSUME NEW e \in Emails, NEW t \in Types, ReportFound(e, t)
       PROVE  Kept
  <2>1. CASE Goto(e, t, "write") /\ UNCHANGED faults
    <3>1. /\ OnlyEvent(e, t) /\ event'[e][t].old = event[e][t].old
          /\ event'[e][t].pc = "write" /\ UNCHANGED <<owner, record, faults>>
      BY <1>1, <1>11, <2>1, GotoMoves DEF ReportFound
    <3>. QED
      BY <3>1, EventMoves DEF AckInv, StampsKnown
  <2>2. CASE Acked(e, t) /\ IsDowngrade(record[e].status, t)
    <3>1. /\ OnlyEvent(e, t) /\ event'[e][t].pc \in {"acked", "queued"}
          /\ UNCHANGED <<owner, record>> /\ (UNCHANGED faults \/ Fault)
      BY <1>1, <1>11, <2>2, GotoMoves DEF ReportFound, Acked
    <3>2. owner[e] = "report" /\ record[e].stamped = "yes"
      BY <1>11 DEF ReportFound, Matches
    <3>3. Rank(record[e].status) >= Rank(t)
      BY <1>1, <1>2, <2>2 DEF IsDowngrade
    <3>4. Recorded(e, t)'
      BY <3>1, <3>2, <3>3 DEF Recorded
    <3>. QED
      BY <3>1, <3>2, <3>4, EventMoves
  <2>. QED
    BY <1>11, <2>1, <2>2 DEF ReportFound
<1>12. ASSUME NEW e \in Emails, NEW t \in Types, Unmatched(e, t)
       PROVE  Kept
  <2>1. CASE event[e][t].old /\ Acked(e, t)
    <3>1. /\ OnlyEvent(e, t) /\ event'[e][t].pc \in {"acked", "queued"}
          /\ UNCHANGED <<owner, record>> /\ (UNCHANGED faults \/ Fault)
      BY <1>1, <1>12, <2>1, GotoMoves DEF Unmatched, Acked
    <3>2. faults > 0 => faults' > 0
      BY <1>1, <3>1 DEF Fault
    <3>3. record[e].stamped # "awaited"
      BY <2>1 DEF AckInv, StampsKnown
    <3>4. /\ owner[e] \in {"report", "lead", "none"}
          /\ owner[e] # "none" \/ record[e].stamped # "yes"
      BY DEF AckInv, HandlerInv, TypeOK, StampsKnown
    <3>5. Recorded(e, t)'
      BY <1>12, <2>1, <3>1, <3>2, <3>4
         DEF Unmatched, Matches, Recorded, AckInv, MissedByFailure
    <3>. QED
      BY <3>1, <3>3, <3>5, EventMoves
  <2>2. CASE ~event[e][t].old /\ Refused(e, t) /\ UNCHANGED faults
    <3>1. /\ OnlyEvent(e, t) /\ event'[e][t].old = event[e][t].old
          /\ event'[e][t].pc = "queued" /\ UNCHANGED <<owner, record, faults>>
      BY <1>1, <1>12, <2>2, GotoMoves DEF Unmatched, Refused
    <3>. QED
      BY <2>2, <3>1, EventMoves
  <2>. QED
    BY <1>12, <2>1, <2>2 DEF Unmatched
<1>13. ASSUME NEW e \in Emails, NEW t \in Types, WriteStatus(e, t)
       PROVE  Kept
  <2>1. /\ OnlyRecord(e) /\ record'[e].stamped = record[e].stamped /\ record'[e].status = t
        /\ OnlyEvent(e, t) /\ event'[e][t].pc \in {"acked", "queued"}
        /\ owner' = owner /\ (UNCHANGED faults \/ Fault)
    BY <1>1, <1>13, StatusMoves, GotoMoves DEF WriteStatus, Acked
  <2>2. /\ owner[e] = "report" /\ record[e].stamped = "yes"
        /\ ~IsDowngrade(record[e].status, t)
    BY <1>13 DEF WriteStatus, AckInv, HandlerInv, WriteHolds
  <2>3. Rank(t) >= Rank(record[e].status)
    BY <1>1, <1>2, <2>2 DEF IsDowngrade
  <2>4. faults > 0 => faults' > 0
    BY <1>1, <2>1 DEF Fault
  <2>5. StampsKnown'
    BY <2>1, <2>2 DEF AckInv, StampsKnown, OnlyRecord, OnlyEvent
  <2>6. MissedByFailure'
    BY <2>1, <2>2, <2>4 DEF AckInv, MissedByFailure, OnlyRecord, OnlyEvent
  <2>7. ASSUME NEW f \in Emails, NEW u \in Types, event'[f][u].pc = "acked"
        PROVE  Recorded(f, u)'
    <3>1. CASE f = e /\ u = t
      BY <1>2, <2>1, <2>2, <3>1 DEF Recorded
    <3>2. CASE f = e /\ u # t
      <4>1. Rank(record[e].status) >= Rank(u)
        BY <2>1, <2>2, <2>7, <3>2 DEF AckInv, AckedIsRecorded, OnlyEvent
      <4>2. Rank(record'[e].status) >= Rank(u)
        BY <1>1, <1>2, <2>1, <2>3, <4>1
      <4>. QED
        BY <2>1, <2>2, <3>2, <4>2 DEF Recorded
    <3>3. CASE f # e
      BY <2>1, <2>4, <2>7, <3>3 DEF AckInv, AckedIsRecorded, OnlyEvent, OnlyRecord, Recorded
    <3>. QED
      BY <3>1, <3>2, <3>3
  <2>8. AckedIsRecorded'
    BY <2>7 DEF AckedIsRecorded, Recorded
  <2>. QED
    BY <2>5, <2>6, <2>8
<1>14. CASE UNCHANGED vars
  BY <1>14 DEF vars, AckInv, StampsKnown, MissedByFailure, AckedIsRecorded
<1>. QED
  BY <1>4, <1>5, <1>6, <1>7, <1>8, <1>9, <1>10, <1>11, <1>12, <1>13, <1>14 DEF Next, Handle

\* What svix was told is dealt with is on the row: as long as stamps do not come later
\* than the retry window, no order of stamps, retries and events loses one
\* (classifyUnmatchedEvent, ORPHAN_RETRY_WINDOW_MS).
THEOREM AcknowledgedIsRecorded ==
  ASSUME ~Overlap, ~LateStamps PROVE Spec => []AckedIsRecorded
<1>1. AckInv /\ [Next]_vars => AckInv'
  BY StepAck
<1>2. AckInv => AckedIsRecorded
  BY DEF AckInv
<1>. QED
  BY InitAck, <1>1, <1>2, PTL DEF Spec
=============================================================================
