-------------------------- MODULE DraftQueueProofs --------------------------
(***************************************************************************)
(* Theorems about DraftQueue, for every number of rows and of months.      *)
(* They rest on what a drafting run carries with it: the jobs it decided   *)
(* on, none of which has been drafted since, and the flags it has yet to   *)
(* write.                                                                  *)
(***************************************************************************)
EXTENDS DraftQueue, SequenceTheorems, WellFoundedInduction, TLAPS

-----------------------------------------------------------------------------
(* The inductive invariant *)

\* A run under way has jobs; a row one of them completes is there.
Working ==
    \A d \in Places : drafter[d].pc # "idle" =>
        /\ drafter[d].jobs # <<>>
        /\ \A k \in DOMAIN drafter[d].jobs : drafter[d].jobs[k].existing \in Ids \cup {0}

Inv == TypeOK /\ Working

\* The types the nightly run drafts.
Monthly == {"Maintenance", "Testing"}

\* Each type is drafted in one place, and by one job of a run.
OnePlace ==
    \A d \in Places : drafter[d].pc # "idle" =>
        /\ \A k \in DOMAIN drafter[d].jobs :
              drafter[d].jobs[k].type \in IF d = "workflow" THEN Monthly
                                          ELSE {"Announcement", "Launch"}
        /\ \A k, m \in DOMAIN drafter[d].jobs :
              drafter[d].jobs[k].type = drafter[d].jobs[m].type => k = m

\* Job k of the run is still to be started.
ToDo(d, k) == k \in DOMAIN drafter[d].jobs /\ (k > 1 \/ drafter[d].pc = "job")

\* A row a job is to make is still missing.
StillMissing ==
    \A d \in Places : drafter[d].pc # "idle" =>
        \A k \in DOMAIN drafter[d].jobs :
            ToDo(d, k) /\ drafter[d].jobs[k].existing = 0 =>
                \A i \in Matching(drafter[d].jobs[k].type, drafter[d].jobs[k].period) : ~Live(i)

DraftInv == Inv /\ OnePlace /\ StillMissing /\ OneDraftPerPeriod

\* At most one run is under way.
OneRun == \A d, e \in Places : drafter[d].pc # "idle" /\ drafter[e].pc # "idle" => d = e

\* A run that is to raise its draft's flag has every other waiting report in its
\* list, but those whose approval was taken back since.
FlagsCover ==
    \A d \in Places : drafter[d].pc = "flags" /\ drafter[d].flag =>
        \A j \in Ids : Pending(j) =>
            j = drafter[d].draft \/ j \in drafter[d].off \/ rows[j].reopened

QueueInv == Inv /\ OneRun /\ FlagsCover /\ OnePendingReport

\* A report that is ready and not sent.
Stands(i) == rows[i].ready /\ Unsent(i)

NoneStands(type) == \A i \in Ids : rows[i].type = type => ~Stands(i)

\* No month or scheduled period lies ahead.
Dated ==
    \A i \in Ids :
        /\ rows[i].month \in 1..now
        /\ rows[i].type \in Monthly => rows[i].period \in 1..now

\* A job is about its row, and the row in hand is the first job's.
RowsOfJobs ==
    \A d \in Places : drafter[d].pc # "idle" =>
        /\ \A k \in DOMAIN drafter[d].jobs : drafter[d].jobs[k].existing # 0 =>
              /\ rows[drafter[d].jobs[k].existing].type = drafter[d].jobs[k].type
              /\ rows[drafter[d].jobs[k].existing].period = drafter[d].jobs[k].period
        /\ drafter[d].pc \in {"queue", "flags"} =>
              /\ rows[drafter[d].draft].type = drafter[d].jobs[1].type
              /\ rows[drafter[d].draft].period = drafter[d].jobs[1].period

\* A draft that stands is of the period that is due, or of an earlier one.
Ahead ==
    \A i \in Ids, type \in Monthly :
        rows[i].type = type /\ Stands(i) => rows[i].period <= DuePeriod(type)

\* Nothing stands in the way of a job of the nightly run, nor comes to while it runs.
ClearWay ==
    drafter["workflow"].pc # "idle" =>
        \A k \in DOMAIN drafter["workflow"].jobs, type \in Monthly :
            drafter["workflow"].jobs[k].type = type =>
                /\ NoneStands(type)
                /\ drafter["workflow"].jobs[k].period \in 1..now
                /\ drafter["workflow"].jobs[k].period <= DuePeriod(type)

PileInv == Inv /\ OnePlace /\ Dated /\ RowsOfJobs /\ Ahead /\ ClearWay /\ NoPileUp

-----------------------------------------------------------------------------
(* Types *)

LEMMA IdleIs ==
  /\ IdleDrafter \in Drafter /\ IdleDrafter.pc = "idle" /\ IdleDrafter.jobs = <<>>
  /\ IdleDrafter.draft = 0 /\ IdleDrafter.off = {} /\ IdleDrafter.flag = FALSE
<1>1. <<>> \in Seq(Job)
  OBVIOUS
<1>. QED
  BY <1>1 DEF IdleDrafter, Drafter

LEMMA RowsAre ==
  ASSUME TypeOK
  PROVE  /\ Ids = 1..Len(rows) /\ Len(rows) \in Nat
         /\ \A i \in Ids : i \in Nat /\ i # 0 /\ rows[i] \in Row
<1>1. rows \in Seq(Row)
  BY DEF TypeOK
<1>. QED
  BY <1>1 DEF Ids

\* The run at d becomes x; the other place does not change.
Becomes(d, x) ==
    drafter'[d] = x /\ \A e \in Places : e # d => drafter'[e] = drafter[e]

LEMMA ReplaceRun ==
  ASSUME TypeOK, NEW d \in Places, NEW x \in Drafter, drafter' = [drafter EXCEPT ![d] = x]
  PROVE  drafter' \in [Places -> Drafter] /\ Becomes(d, x)
BY DEF TypeOK, Becomes

\* What a run that takes up its next job, or ends, becomes.
NextOf(x) ==
    IF Len(x.jobs) = 1 THEN IdleDrafter
    ELSE [IdleDrafter EXCEPT !.pc = "job", !.jobs = Tail(x.jobs)]

LEMMA TailIs ==
  ASSUME NEW s \in Seq(Job), s # <<>>, Len(s) # 1
  PROVE  /\ Tail(s) \in Seq(Job) /\ Tail(s) # <<>>
         /\ \A k \in DOMAIN Tail(s) : k \in Nat /\ k + 1 \in DOMAIN s /\ k + 1 > 1
                                     /\ Tail(s)[k] = s[k + 1]
<1>1. /\ Tail(s) \in Seq(Job) /\ Len(Tail(s)) = Len(s) - 1
      /\ \A i \in 1..Len(Tail(s)) : Tail(s)[i] = s[i + 1]
  BY HeadTailProperties
<1>2. Len(s) \in Nat /\ Len(s) # 0 /\ DOMAIN s = 1..Len(s)
  BY EmptySeq
<1>3. Len(Tail(s)) \in Nat /\ DOMAIN Tail(s) = 1..Len(Tail(s)) /\ Len(Tail(s)) # 0
  BY <1>1, <1>2
<1>4. Len(<<>>) = 0
  OBVIOUS
<1>5. Tail(s) # <<>>
  BY <1>3, <1>4
<1>. QED
  BY <1>1, <1>2, <1>3, <1>5

LEMMA NextOfIs ==
  ASSUME NEW x \in Drafter, x.jobs # <<>>
  PROVE  /\ NextOf(x) \in Drafter
         /\ NextOf(x).pc \in {"idle", "job"} /\ NextOf(x).off = {} /\ ~NextOf(x).flag
         /\ NextOf(x).pc # "idle" =>
               /\ NextOf(x).jobs # <<>>
               /\ \A k \in DOMAIN NextOf(x).jobs :
                     /\ k + 1 \in DOMAIN x.jobs /\ k + 1 > 1
                     /\ NextOf(x).jobs[k] = x.jobs[k + 1]
                     /\ k \in Nat
<1>1. x.jobs \in Seq(Job)
  BY DEF Drafter
<1>2. CASE Len(x.jobs) = 1
  BY <1>2, IdleIs DEF NextOf
<1>3. CASE Len(x.jobs) # 1
  <2>. DEFINE t == Tail(x.jobs)
  <2>1. /\ t \in Seq(Job) /\ t # <<>>
        /\ \A k \in DOMAIN t : k \in Nat /\ k + 1 \in DOMAIN x.jobs /\ k + 1 > 1
                               /\ t[k] = x.jobs[k + 1]
    BY <1>1, <1>3, TailIs
  <2>2. NextOf(x) = [IdleDrafter EXCEPT !.pc = "job", !.jobs = t]
    BY <1>3 DEF NextOf
  <2>. HIDE DEF t
  <2>4. NextOf(x) = [pc |-> "job", jobs |-> t, draft |-> 0, off |-> {}, flag |-> FALSE]
    BY <2>2 DEF IdleDrafter
  <2>3. /\ NextOf(x) \in Drafter /\ NextOf(x).pc = "job" /\ NextOf(x).jobs = t
        /\ NextOf(x).off = {} /\ NextOf(x).flag = FALSE
    BY <2>1, <2>4 DEF Drafter
  <2>. QED
    BY <2>1, <2>3
<1>. QED
  BY <1>2, <1>3

\* The rows a step leaves as they were but for their flags and phases.
RowsStay ==
    /\ Len(rows) <= Len(rows')
    /\ \A i \in Ids :
          /\ i \in Ids'
          /\ rows'[i].type = rows[i].type /\ rows'[i].period = rows[i].period
          /\ rows[i].reopened => rows'[i].reopened
          /\ ~Live(i) => ~Live(i)'

LEMMA ReplaceRow ==
  ASSUME TypeOK, NEW i \in Ids, NEW r \in Row,
         r.type = rows[i].type, r.period = rows[i].period,
         rows[i].reopened => r.reopened,
         rows[i].phase = "withdrawn" => r.phase = "withdrawn",
         rows' = [rows EXCEPT ![i] = r]
  PROVE  /\ rows' \in Seq(Row) /\ Len(rows') = Len(rows) /\ Ids' = Ids
         /\ rows'[i] = r /\ \A j \in Ids : j # i => rows'[j] = rows[j]
         /\ RowsStay
<1>1. rows \in Seq(Row) /\ Ids = 1..Len(rows) /\ Len(rows) \in Nat
  BY RowsAre DEF TypeOK
<1>2. /\ rows' \in Seq(Row) /\ Len(rows') = Len(rows) /\ DOMAIN rows' = DOMAIN rows
  BY <1>1 DEF Ids
<1>3. rows'[i] = r /\ \A j \in Ids : j # i => rows'[j] = rows[j]
  BY DEF Ids
<1>. QED
  BY <1>1, <1>2, <1>3 DEF Ids, RowsStay, Live

LEMMA SameRows ==
  ASSUME TypeOK, UNCHANGED rows
  PROVE  /\ rows' \in Seq(Row) /\ Len(rows') = Len(rows) /\ Ids' = Ids
         /\ RowsStay
BY RowsAre DEF TypeOK, RowsStay, Ids, Live

\* A run's own data, fitting the rows.
RunFits(x) ==
    /\ x.pc \in {"queue", "flags"} => x.draft \in Ids
    /\ x.off \subseteq Ids
    /\ x.pc # "idle" =>
          /\ x.jobs # <<>>
          /\ \A k \in DOMAIN x.jobs : x.jobs[k].existing \in Ids \cup {0}

LEMMA InvParts ==
  ASSUME Inv, NEW d \in Places
  PROVE  drafter[d] \in Drafter /\ RunFits(drafter[d])
BY DEF Inv, TypeOK, Working, RunFits

LEMMA InvMade ==
  ASSUME Inv, rows' \in Seq(Row), RowsStay, now' \in 1..MaxMonth,
         drafter' \in [Places -> Drafter],
         NEW d \in Places, \A e \in Places : e # d => drafter'[e] = drafter[e],
         NEW x, drafter'[d] = x, RunFits(x)
  PROVE  Inv'
<1>1. Ids \subseteq Ids'
  BY DEF RowsStay
<1>2. \A e \in Places :
         /\ drafter'[e].pc \in {"queue", "flags"} => drafter'[e].draft \in Ids'
         /\ drafter'[e].off \subseteq Ids'
         /\ drafter'[e].pc # "idle" =>
               /\ drafter'[e].jobs # <<>>
               /\ \A k \in DOMAIN drafter'[e].jobs :
                     drafter'[e].jobs[k].existing \in Ids' \cup {0}
  BY <1>1, InvParts DEF RunFits
<1>. QED
  BY <1>2 DEF Inv, TypeOK, Working

-----------------------------------------------------------------------------
(* What a run is started with *)

\* A job that may be started: its row is there, or nothing live stands for it.
Fits(j) ==
    /\ j \in Job
    /\ j.existing \in Ids \cup {0}
    /\ j.existing = 0 => \A i \in Matching(j.type, j.period) : ~Live(i)
    /\ j.existing # 0 => j.existing \in Matching(j.type, j.period)

\* A job of the nightly run that no other report stands in the way of.
Clear(j) ==
    /\ NoneStands(j.type)
    /\ j.period \in 1..now
    /\ j.period <= DuePeriod(j.type)

LEMMA NightlyJobIs ==
  ASSUME Inv, NEW type \in Monthly, NEW s \in NightlyJobs(type)
  PROVE  \/ s = <<>>
         \/ \E j \in Job : s = <<j>> /\ j.type = type /\ Fits(j) /\ (Ahead => Clear(j))
<1>. DEFINE p == DuePeriod(type)
            existing == ExistingForPeriod(type, p)
            complete == {i \in existing : Live(i) /\ ~rows[i].ready /\ ~BlockedByPending(i)}
<1>1. existing \subseteq Matching(type, p) /\ (existing = {} => Matching(type, p) = {})
      /\ Matching(type, p) \subseteq Ids
  BY DEF ExistingForPeriod, Matching
<1>2. \/ s = <<>>
      \/ /\ p \in 1..now /\ existing = {} /\ ~PendingEarlier(type, p)
         /\ s = <<[type |-> type, period |-> p, existing |-> 0]>>
      \/ /\ p \in 1..now
         /\ \E i \in complete : s = <<[type |-> type, period |-> p, existing |-> i]>>
  BY DEF NightlyJobs
<1>3. p = DuePeriod(type)
  OBVIOUS
<1>4. \A i \in complete : i \in existing /\ ~rows[i].ready /\ ~BlockedByPending(i)
  OBVIOUS
<1>. HIDE DEF p, existing, complete
<1>5. /\ 1..now \subseteq Nat /\ Ids \subseteq Nat \ {0}
      /\ type \in ReportType
      /\ \A i \in Ids : rows[i].period \in Nat
  BY RowsAre DEF Inv, TypeOK, ReportType, Monthly, Row
<1>6. ASSUME p \in 1..now, existing = {}, ~PendingEarlier(type, p),
             s = <<[type |-> type, period |-> p, existing |-> 0]>>
      PROVE  \E j \in Job : s = <<j>> /\ j.type = type /\ Fits(j) /\ (Ahead => Clear(j))
  <2>. DEFINE j == [type |-> type, period |-> p, existing |-> 0]
  <2>1. j \in Job /\ j.type = type /\ j.period = p /\ j.existing = 0
    BY <1>5, <1>6 DEF Job
  <2>2. s = <<j>>
    BY <1>6
  <2>. HIDE DEF j
  <2>3. Fits(j)
    BY <1>1, <1>6, <2>1 DEF Fits
  <2>4. Ahead => NoneStands(type)
    <3>. SUFFICES ASSUME Ahead, NEW i \in Ids, rows[i].type = type, Stands(i) PROVE FALSE
      BY DEF NoneStands
    <3>1. rows[i].period <= p /\ rows[i].period # p
      BY <1>1, <1>3, <1>6 DEF Ahead, Matching
    <3>2. rows[i].period < p
      BY <1>5, <1>6, <3>1
    <3>. QED
      BY <1>6, <3>2 DEF PendingEarlier, Stands
  <2>5. Ahead => Clear(j)
    BY <1>3, <1>5, <1>6, <2>1, <2>4 DEF Clear
  <2>. QED
    BY <2>1, <2>2, <2>3, <2>5
<1>7. ASSUME p \in 1..now, NEW i \in complete,
             s = <<[type |-> type, period |-> p, existing |-> i]>>
      PROVE  \E j \in Job : s = <<j>> /\ j.type = type /\ Fits(j) /\ (Ahead => Clear(j))
  <2>. DEFINE j == [type |-> type, period |-> p, existing |-> i]
  <2>1. j \in Job /\ j.type = type /\ j.period = p /\ j.existing = i /\ i \in Ids /\ i # 0
    BY <1>1, <1>4, <1>5, <1>7 DEF Job
  <2>2. s = <<j>>
    BY <1>7
  <2>. HIDE DEF j
  <2>3. Fits(j)
    BY <1>1, <1>4, <2>1 DEF Fits
  <2>4. NoneStands(type)
    <3>. SUFFICES ASSUME NEW k \in Ids, rows[k].type = type, Stands(k) PROVE FALSE
      BY DEF NoneStands
    <3>1. k # i /\ rows[i].type = type
      BY <1>1, <1>4 DEF Stands, Matching
    <3>2. Tier(rows[k].type) >= Tier(rows[i].type)
      BY <3>1 DEF Tier
    <3>. QED
      BY <1>4, <2>1, <3>1, <3>2 DEF BlockedByPending, Stands
  <2>5. Clear(j)
    BY <1>3, <1>5, <1>7, <2>1, <2>4 DEF Clear
  <2>. QED
    BY <2>1, <2>2, <2>3, <2>5
<1>. QED
  BY <1>2, <1>6, <1>7

\* The jobs of a run: sound, and none of another's type.
JobsFit(jobs) ==
    /\ jobs \in Seq(Job)
    /\ \A k \in DOMAIN jobs : Fits(jobs[k])
    /\ \A k, m \in DOMAIN jobs : jobs[k].type = jobs[m].type => k = m

LEMMA OneJobFits ==
  ASSUME NEW j, Fits(j)
  PROVE  JobsFit(<<j>>) /\ DOMAIN <<j>> = {1} /\ <<j>>[1] = j /\ <<j>> # <<>>
<1>1. <<j>> \in Seq(Job) /\ DOMAIN <<j>> = {1} /\ <<j>>[1] = j /\ <<j>> # <<>>
  BY DEF Fits
<1>. QED
  BY <1>1 DEF JobsFit

LEMMA NightlyJobsFit ==
  ASSUME Inv, NEW m \in NightlyJobs("Maintenance"), NEW t \in NightlyJobs("Testing"),
         NEW jobs \in {m \o t, t}
  PROVE  /\ JobsFit(jobs)
         /\ \A k \in DOMAIN jobs : jobs[k].type \in Monthly /\ (Ahead => Clear(jobs[k]))
<1>1. \/ m = <<>>
      \/ \E j \in Job : /\ m = <<j>> /\ j.type = "Maintenance" /\ Fits(j)
                        /\ Ahead => Clear(j)
  BY NightlyJobIs DEF Monthly
<1>2. \/ t = <<>>
      \/ \E j \in Job : t = <<j>> /\ j.type = "Testing" /\ Fits(j) /\ (Ahead => Clear(j))
  BY NightlyJobIs DEF Monthly
<1>3. CASE jobs = <<>>
  <2>1. jobs \in Seq(Job) /\ DOMAIN jobs = {}
    BY <1>3
  <2>. QED
    BY <2>1 DEF JobsFit
<1>4. ASSUME NEW j \in Job, jobs = <<j>>, j.type \in Monthly, Fits(j), Ahead => Clear(j)
      PROVE  /\ JobsFit(jobs)
             /\ \A k \in DOMAIN jobs : jobs[k].type \in Monthly /\ (Ahead => Clear(jobs[k]))
  BY <1>4, OneJobFits
<1>5. ASSUME NEW i \in Job, NEW j \in Job, jobs = <<i>> \o <<j>>, Fits(i), Fits(j),
             i.type = "Maintenance", j.type = "Testing",
             Ahead => Clear(i), Ahead => Clear(j)
      PROVE  /\ JobsFit(jobs)
             /\ \A k \in DOMAIN jobs : jobs[k].type \in Monthly /\ (Ahead => Clear(jobs[k]))
  <2>1. /\ <<i>> \in Seq(Job) /\ Len(<<i>>) = 1 /\ <<i>>[1] = i
        /\ <<j>> \in Seq(Job) /\ Len(<<j>>) = 1 /\ <<j>>[1] = j
    OBVIOUS
  <2>2. jobs \in Seq(Job) /\ DOMAIN jobs = 1..2 /\ jobs[1] = i /\ jobs[2] = j
    BY <1>5, <2>1, ConcatProperties
  <2>3. \A k \in DOMAIN jobs : k = 1 \/ k = 2
    BY <2>2
  <2>. QED
    BY <1>5, <2>2, <2>3 DEF JobsFit, Monthly
<1>6. ASSUME NEW j \in Job
      PROVE  <<>> \o <<j>> = <<j>> /\ <<j>> \o <<>> = <<j>> /\ <<>> \o <<>> = <<>>
  OBVIOUS
<1>7. CASE jobs = t
  BY <1>2, <1>3, <1>4, <1>7 DEF Monthly
<1>8. CASE jobs = m \o t
  <2>1. CASE m = <<>> /\ t = <<>>
    BY <1>8, <2>1, <1>3
  <2>2. ASSUME m = <<>>, NEW j \in Job, t = <<j>>, j.type = "Testing"
        PROVE  jobs = <<j>>
    BY <1>8, <2>2, <1>6
  <2>3. ASSUME t = <<>>, NEW j \in Job, m = <<j>>, j.type = "Maintenance"
        PROVE  jobs = <<j>>
    BY <1>8, <2>3, <1>6
  <2>. QED
    BY <1>1, <1>2, <1>4, <1>5, <1>8, <2>1, <2>2, <2>3 DEF Monthly
<1>. QED
  BY <1>7, <1>8

\* The job of a recipe, and of an operator.
LEMMA DeskJobFits ==
  ASSUME Inv, NEW type \in ReportType, NEW i,
         LET live == {k \in Matching(type, now) : Live(k)}
         IN  i \in IF live = {} THEN {0} ELSE live
  PROVE  Fits([type |-> type, period |-> now, existing |-> i])
<1>1. \/ i = 0 /\ \A k \in Matching(type, now) : ~Live(k)
      \/ i \in Ids /\ i # 0 /\ i \in Matching(type, now)
  BY RowsAre DEF Matching, Inv
<1>2. i \in Nat /\ now \in Nat
  BY <1>1, RowsAre DEF Inv, TypeOK
<1>. QED
  BY <1>1, <1>2 DEF Fits, Job

-----------------------------------------------------------------------------
(* What each step does, and that Inv survives it *)

\* The rows a run's jobs complete are there.
Sound(jobs) ==
    /\ jobs \in Seq(Job)
    /\ \A k \in DOMAIN jobs : jobs[k].existing \in Ids \cup {0}

\* A run is started.
Begins(d, jobs) ==
    /\ Sound(jobs) /\ jobs # <<>>
    /\ drafter[d].pc = "idle"
    /\ Overlap \/ \A e \in Places : drafter[e].pc = "idle"
    /\ UNCHANGED rows
    /\ \E x \in Drafter : x.pc = "job" /\ x.jobs = jobs /\ RunFits(x) /\ Becomes(d, x)

LEMMA StartIs ==
  ASSUME Inv, NEW d \in Places, NEW jobs, Sound(jobs), Start(d, jobs)
  PROVE  Begins(d, jobs) /\ Inv'
<1>. DEFINE x == [drafter[d] EXCEPT !.pc = "job", !.jobs = jobs]
<1>1. drafter[d] \in Drafter /\ RunFits(drafter[d])
  BY InvParts
<1>2. /\ x \in Drafter /\ x.pc = "job" /\ x.jobs = jobs /\ x.off = drafter[d].off
  BY <1>1 DEF Drafter, Sound
<1>3. drafter' = [drafter EXCEPT ![d] = x]
  BY DEF Start
<1>. HIDE DEF x
<1>4. drafter' \in [Places -> Drafter] /\ Becomes(d, x)
  BY <1>2, <1>3, ReplaceRun DEF Inv
<1>5. RunFits(x)
  BY <1>1, <1>2 DEF RunFits, Sound, Start
<1>6. rows' \in Seq(Row) /\ RowsStay /\ now' \in 1..MaxMonth
  BY SameRows DEF Start, Inv, TypeOK
<1>. QED
  BY <1>2, <1>4, <1>5, <1>6, InvMade DEF Begins, Becomes, Start

\* x is the run at d with a row in hand: the first job's, or the one it had.
InHand(d, x) ==
    /\ x.pc \in {"queue", "flags"}
    /\ x.jobs = drafter[d].jobs
    /\ IF drafter[d].pc = "job"
       THEN x.draft = drafter[d].jobs[1].existing /\ x.draft # 0
       ELSE x.draft = drafter[d].draft

\* The run at d goes on with x and makes no row.
GoesOn(d, x) ==
    /\ x \in Drafter /\ RunFits(x) /\ Becomes(d, x)
    /\ drafter[d].pc # "idle"
    /\ InHand(d, x) \/ x = NextOf(drafter[d]) \/ x = IdleDrafter

LEMMA NextRunFits ==
  ASSUME Inv, NEW d \in Places, drafter[d].pc # "idle"
  PROVE  RunFits(NextOf(drafter[d])) /\ NextOf(drafter[d]) \in Drafter
<1>1. drafter[d] \in Drafter /\ RunFits(drafter[d])
  BY InvParts
<1>2. drafter[d].jobs # <<>>
  BY <1>1 DEF RunFits
<1>3. /\ NextOf(drafter[d]) \in Drafter
      /\ NextOf(drafter[d]).pc \in {"idle", "job"} /\ NextOf(drafter[d]).off = {}
      /\ NextOf(drafter[d]).pc # "idle" =>
            /\ NextOf(drafter[d]).jobs # <<>>
            /\ \A k \in DOMAIN NextOf(drafter[d]).jobs :
                  /\ k + 1 \in DOMAIN drafter[d].jobs
                  /\ NextOf(drafter[d]).jobs[k] = drafter[d].jobs[k + 1]
  BY <1>1, <1>2, NextOfIs
<1>. QED
  BY <1>1, <1>3 DEF RunFits

LEMMA EndFits == IdleDrafter \in Drafter /\ RunFits(IdleDrafter)
BY IdleIs DEF RunFits

LEMMA GoOn ==
  ASSUME Inv, NEW d \in Places, NEW x \in Drafter, RunFits(x),
         drafter' = [drafter EXCEPT ![d] = x], drafter[d].pc # "idle",
         InHand(d, x) \/ x = NextOf(drafter[d]) \/ x = IdleDrafter,
         rows' \in Seq(Row), RowsStay, UNCHANGED now
  PROVE  GoesOn(d, x) /\ Inv'
<1>1. drafter' \in [Places -> Drafter] /\ Becomes(d, x)
  BY ReplaceRun DEF Inv
<1>2. now' \in 1..MaxMonth
  BY DEF Inv, TypeOK
<1>. QED
  BY <1>1, <1>2, InvMade DEF GoesOn, Becomes

LEMMA NextJobGoesOn ==
  ASSUME Inv, NEW d \in Places, drafter[d].pc # "idle", NextJob(d),
         rows' \in Seq(Row), RowsStay, UNCHANGED now
  PROVE  GoesOn(d, NextOf(drafter[d])) /\ Inv'
<1>1. drafter' = [drafter EXCEPT ![d] = NextOf(drafter[d])]
  BY DEF NextJob, NextOf
<1>. QED
  BY <1>1, NextRunFits, GoOn

LEMMA FirstJob ==
  ASSUME Inv, NEW d \in Places, drafter[d].pc # "idle"
  PROVE  /\ 1 \in DOMAIN drafter[d].jobs
         /\ Head(drafter[d].jobs) = drafter[d].jobs[1]
         /\ drafter[d].jobs[1] \in Job
         /\ drafter[d].jobs[1].existing \in Ids \cup {0}
<1>1. drafter[d].jobs \in Seq(Job) /\ drafter[d].jobs # <<>>
  BY InvParts DEF Drafter, RunFits
<1>2. 1 \in DOMAIN drafter[d].jobs
  BY <1>1, EmptySeq
<1>. QED
  BY <1>1, <1>2, InvParts DEF RunFits

\* The row a job makes.
Makes(d, r) ==
    /\ drafter[d].pc = "job"
    /\ drafter[d].jobs[1].existing = 0
    /\ r \in Row /\ r.type = drafter[d].jobs[1].type /\ r.period = drafter[d].jobs[1].period
    /\ ~r.ready /\ r.phase = "open" /\ r.month = now
    /\ Len(rows') = Len(rows) + 1 /\ Ids' = Ids \cup {Len(rows) + 1} /\ Len(rows) + 1 \notin Ids
    /\ rows'[Len(rows) + 1] = r
    /\ \A i \in Ids : rows'[i] = rows[i]

LEMMA CreateIs ==
  ASSUME Inv, NEW d \in Places, CreateDraft(d)
  PROVE  /\ Inv'
         /\ \E r \in Row : Makes(d, r)
         /\ \E x \in Drafter : /\ x.jobs = drafter[d].jobs /\ x.pc = "queue"
                             /\ x.draft = Len(rows) + 1 /\ Becomes(d, x)
         /\ now' = now
<1>. DEFINE job == drafter[d].jobs[1]
            r == NewRow(job.type, job.period)
            n == Len(rows) + 1
            x == [drafter[d] EXCEPT !.pc = "queue", !.draft = n]
<1>1. /\ drafter[d].pc = "job" /\ job.existing = 0 /\ rows' = Append(rows, r)
      /\ drafter' = [drafter EXCEPT ![d] = x] /\ now' = now
  BY FirstJob DEF CreateDraft
<1>2. job \in Job /\ now \in Nat
  BY <1>1, FirstJob DEF Inv, TypeOK
<1>3. /\ r \in Row /\ r.type = job.type /\ r.period = job.period /\ r.ready = FALSE
      /\ r.phase = "open" /\ r.month = now
  BY <1>2 DEF NewRow, Row, Job
<1>. HIDE DEF r
<1>4. rows \in Seq(Row) /\ Len(rows) \in Nat /\ Ids = 1..Len(rows)
  BY RowsAre DEF Inv, TypeOK
<1>5. /\ rows' \in Seq(Row) /\ Len(rows') = n /\ rows'[n] = r
      /\ \A i \in 1..Len(rows) : rows'[i] = rows[i]
  BY <1>1, <1>3, <1>4, AppendProperties
<1>6. DOMAIN rows' = 1..n
  BY <1>4, <1>5
<1>7. Ids' = Ids \cup {n} /\ n \notin Ids /\ n \in Nat
  BY <1>4, <1>6 DEF Ids
<1>8. RowsStay
  BY <1>4, <1>5, <1>7 DEF RowsStay, Live
<1>9. drafter[d] \in Drafter /\ RunFits(drafter[d])
  BY InvParts
<1>10. x \in Drafter /\ x.pc = "queue" /\ x.jobs = drafter[d].jobs /\ x.draft = n
       /\ x.off = drafter[d].off
  BY <1>7, <1>9 DEF Drafter
<1>. HIDE DEF x
<1>11. drafter' \in [Places -> Drafter] /\ Becomes(d, x)
  BY <1>1, <1>10, ReplaceRun DEF Inv
<1>12. Ids \subseteq Ids'
  BY <1>7
<1>13. \A e \in Places :
         /\ drafter'[e].pc \in {"queue", "flags"} => drafter'[e].draft \in Ids'
         /\ drafter'[e].off \subseteq Ids'
         /\ drafter'[e].pc # "idle" =>
               /\ drafter'[e].jobs # <<>>
               /\ \A k \in DOMAIN drafter'[e].jobs :
                     drafter'[e].jobs[k].existing \in Ids' \cup {0}
  <2>1. \A e \in Places : e # d => drafter'[e] = drafter[e] /\ RunFits(drafter[e])
    BY <1>11, InvParts DEF Becomes
  <2>. QED
    BY <1>1, <1>7, <1>9, <1>10, <1>11, <1>12, <2>1 DEF Becomes, RunFits
<1>14. Inv'
  BY <1>1, <1>5, <1>11, <1>13 DEF Inv, TypeOK, Working
<1>15. Makes(d, r)
  BY <1>1, <1>3, <1>4, <1>5, <1>7 DEF Makes
<1>. QED
  BY <1>1, <1>3, <1>10, <1>11, <1>14, <1>15

\* No row is made, and none comes to wait but one whose approval was taken back.
Calm ==
    /\ Ids' = Ids
    /\ RowsStay
    /\ \A j \in Ids : Pending(j)' => Pending(j) \/ rows'[j].reopened

LEMMA UnchangedCalm ==
  ASSUME Inv, UNCHANGED rows
  PROVE  Calm /\ rows' \in Seq(Row) /\ RowsStay
BY SameRows DEF Inv, Calm, Pending

LEMMA TakeIs ==
  ASSUME Inv, NEW d \in Places, TakeExisting(d)
  PROVE  /\ Inv' /\ Calm
         /\ \E x \in Drafter : GoesOn(d, x) /\ x.pc = "queue"
<1>. DEFINE x == [drafter[d] EXCEPT !.pc = "queue", !.draft = drafter[d].jobs[1].existing]
<1>1. /\ drafter[d].pc = "job" /\ drafter[d].jobs[1].existing # 0
      /\ drafter' = [drafter EXCEPT ![d] = x] /\ UNCHANGED <<rows, now>>
  BY FirstJob DEF TakeExisting
<1>2. drafter[d].jobs[1].existing \in Ids /\ drafter[d].jobs[1].existing \in Nat
  BY <1>1, FirstJob, RowsAre DEF Inv
<1>3. drafter[d] \in Drafter /\ RunFits(drafter[d])
  BY InvParts
<1>4. /\ x \in Drafter /\ x.pc = "queue" /\ x.jobs = drafter[d].jobs
      /\ x.draft = drafter[d].jobs[1].existing /\ x.off = drafter[d].off
  BY <1>2, <1>3 DEF Drafter
<1>. HIDE DEF x
<1>5. RunFits(x) /\ InHand(d, x)
  BY <1>1, <1>2, <1>3, <1>4 DEF RunFits, InHand
<1>6. GoesOn(d, x) /\ Inv'
  BY <1>1, <1>4, <1>5, UnchangedCalm, GoOn
<1>. QED
  BY <1>1, <1>4, <1>6, UnchangedCalm

LEMMA QueueIs ==
  ASSUME Inv, NEW d \in Places, QueueDraft(d)
  PROVE  /\ Inv' /\ Calm /\ UNCHANGED rows
         /\ \E x \in Drafter :
               /\ GoesOn(d, x)
               /\ x.flag /\ x.pc = "flags" =>
                     \A j \in Ids : Pending(j) => j = x.draft \/ j \in x.off
<1>. DEFINE i == drafter[d].draft
            others == {j \in Ids \ {i} : Pending(j)}
            x == [drafter[d] EXCEPT !.pc = "flags",
                                    !.off = IF Subsumed(i, others) THEN {} ELSE others,
                                    !.flag = ~Subsumed(i, others)]
<1>1. drafter[d].pc = "queue" /\ UNCHANGED <<rows, now>>
  BY DEF QueueDraft
<1>2. CASE ~Live(i)
  <2>1. NextJob(d)
    BY <1>2 DEF QueueDraft
  <2>2. GoesOn(d, NextOf(drafter[d])) /\ Inv'
    BY <1>1, <2>1, UnchangedCalm, NextJobGoesOn
  <2>3. NextOf(drafter[d]).pc # "flags" /\ NextOf(drafter[d]) \in Drafter
    BY <1>1, NextOfIs, InvParts DEF RunFits
  <2>. QED
    BY <1>1, <2>2, <2>3, UnchangedCalm
<1>3. CASE Live(i)
  <2>1. drafter' = [drafter EXCEPT ![d] = x]
    BY <1>3 DEF QueueDraft
  <2>2. drafter[d] \in Drafter /\ RunFits(drafter[d]) /\ Ids \subseteq Nat
    BY InvParts, RowsAre DEF Inv
  <2>3. others \subseteq Ids /\ Subsumed(i, others) \in BOOLEAN
    BY DEF Subsumed
  <2>4. \A j \in Ids : Pending(j) => j = i \/ j \in others
    OBVIOUS
  <2>. HIDE DEF others
  <2>5. /\ x \in Drafter /\ x.pc = "flags" /\ x.jobs = drafter[d].jobs /\ x.draft = i
        /\ x.off \subseteq Ids /\ (x.flag => x.off = others)
    BY <2>2, <2>3 DEF Drafter
  <2>. HIDE DEF x
  <2>6. RunFits(x) /\ InHand(d, x)
    BY <1>1, <2>2, <2>5 DEF RunFits, InHand
  <2>7. GoesOn(d, x) /\ Inv'
    BY <1>1, <2>1, <2>5, <2>6, UnchangedCalm, GoOn
  <2>. QED
    BY <1>1, <2>4, <2>5, <2>7, UnchangedCalm
<1>. QED
  BY <1>2, <1>3

\* No row is approved, sent or withdrawn.
PhasesStay ==
    /\ Ids' = Ids
    /\ \A j \in Ids : rows'[j].phase = rows[j].phase /\ rows'[j].month = rows[j].month

\* A flag goes off, or the draft's own is written and the run goes on.
WritesFlag(d) ==
    \/ \E i \in drafter[d].off, x \in Drafter :
          /\ Calm /\ PhasesStay /\ GoesOn(d, x) /\ ~Pending(i)'
          /\ \A j \in Ids : Stands(j)' => Stands(j)
          /\ x.flag = drafter[d].flag /\ x.draft = drafter[d].draft
          /\ x.off = drafter[d].off \ {i}
    \/ /\ drafter[d].off = {} /\ drafter[d].draft \in Ids
       /\ Ids' = Ids /\ RowsStay /\ PhasesStay
       /\ \A j \in Ids :
             /\ Pending(j)' => Pending(j) \/ (drafter[d].flag /\ j = drafter[d].draft)
             /\ Stands(j)' => Stands(j) \/ j = drafter[d].draft
       /\ GoesOn(d, NextOf(drafter[d]))

LEMMA FlagIs ==
  ASSUME Inv, NEW i \in Ids, NEW b \in BOOLEAN, rows' = [rows EXCEPT ![i].ready = b]
  PROVE  /\ rows' \in Seq(Row) /\ Ids' = Ids /\ RowsStay
         /\ PhasesStay
         /\ \A j \in Ids : Pending(j)' => Pending(j) \/ (b /\ j = i)
         /\ \A j \in Ids : Stands(j)' => Stands(j) \/ (b /\ j = i)
         /\ Pending(i)' => b
<1>1. rows[i] \in Row
  BY RowsAre DEF Inv
<1>2. PICK r \in Row :
         /\ r.type = rows[i].type /\ r.period = rows[i].period
         /\ rows[i].reopened => r.reopened
         /\ r.ready = b /\ r.phase = rows[i].phase /\ r.month = rows[i].month
         /\ rows' = [rows EXCEPT ![i] = r]
  BY <1>1, [rows[i] EXCEPT !.ready = b] \in Row DEF Row
<1>3. /\ r.type = rows[i].type /\ r.period = rows[i].period
      /\ rows[i].reopened => r.reopened
      /\ rows[i].phase = "withdrawn" => r.phase = "withdrawn"
      /\ rows' = [rows EXCEPT ![i] = r]
  BY <1>2
<1>4. /\ rows' \in Seq(Row) /\ Ids' = Ids /\ RowsStay
      /\ rows'[i] = r /\ \A j \in Ids : j # i => rows'[j] = rows[j]
  BY <1>3, ReplaceRow DEF Inv
<1>5. \A j \in Ids : j # i => (Pending(j)' => Pending(j)) /\ (Stands(j)' => Stands(j))
  BY <1>4 DEF Pending, Stands, Unsent
<1>6. b = FALSE => ~Pending(i)' /\ ~Stands(i)'
  BY <1>2, <1>4 DEF Pending, Stands
<1>7. PhasesStay
  BY <1>2, <1>4 DEF PhasesStay
<1>. QED
  BY <1>4, <1>5, <1>6, <1>7

LEMMA WriteIs ==
  ASSUME Inv, NEW d \in Places, WriteFlag(d)
  PROVE  Inv' /\ WritesFlag(d) /\ drafter[d].pc = "flags"
<1>1. drafter[d].pc = "flags" /\ UNCHANGED now
  BY DEF WriteFlag
<1>2. drafter[d] \in Drafter /\ RunFits(drafter[d]) /\ drafter[d].draft \in Ids
      /\ drafter[d].off \subseteq Ids /\ drafter[d].flag \in BOOLEAN
  BY <1>1, InvParts DEF RunFits, Drafter
<1>3. ASSUME NEW i \in drafter[d].off, rows' = [rows EXCEPT ![i].ready = FALSE],
             drafter' = [drafter EXCEPT ![d].off = @ \ {i}]
      PROVE  Inv' /\ WritesFlag(d)
  <2>. DEFINE x == [drafter[d] EXCEPT !.off = drafter[d].off \ {i}]
  <2>1. drafter' = [drafter EXCEPT ![d] = x]
    BY <1>3
  <2>2. /\ x \in Drafter /\ x.pc = "flags" /\ x.jobs = drafter[d].jobs
        /\ x.flag = drafter[d].flag /\ x.draft = drafter[d].draft
        /\ x.off = drafter[d].off \ {i}
    BY <1>1, <1>2 DEF Drafter
  <2>. HIDE DEF x
  <2>3. RunFits(x) /\ InHand(d, x)
    BY <1>1, <1>2, <2>2 DEF RunFits, InHand
  <2>4. /\ rows' \in Seq(Row) /\ Ids' = Ids /\ RowsStay /\ PhasesStay /\ ~Pending(i)'
        /\ \A j \in Ids : (Pending(j)' => Pending(j)) /\ (Stands(j)' => Stands(j))
    BY <1>2, <1>3, FlagIs
  <2>5. GoesOn(d, x) /\ Inv'
    BY <1>1, <2>1, <2>2, <2>3, <2>4, GoOn
  <2>. QED
    BY <2>2, <2>4, <2>5 DEF WritesFlag, Calm
<1>4. ASSUME drafter[d].off = {}, NextJob(d),
             rows' = [rows EXCEPT ![drafter[d].draft].ready = drafter[d].flag]
      PROVE  Inv' /\ WritesFlag(d)
  <2>1. /\ rows' \in Seq(Row) /\ Ids' = Ids /\ RowsStay /\ PhasesStay
        /\ \A j \in Ids :
              /\ Pending(j)' => Pending(j) \/ (drafter[d].flag /\ j = drafter[d].draft)
              /\ Stands(j)' => Stands(j) \/ j = drafter[d].draft
    BY <1>2, <1>4, FlagIs
  <2>2. GoesOn(d, NextOf(drafter[d])) /\ Inv'
    BY <1>1, <1>4, <2>1, NextJobGoesOn
  <2>. QED
    BY <1>2, <1>4, <2>1, <2>2 DEF WritesFlag
<1>. QED
  BY <1>1, <1>3, <1>4 DEF WriteFlag

LEMMA FailsIs ==
  ASSUME Inv, NEW d \in Places, JobFails(d) \/ DrafterDies(d)
  PROVE  /\ Inv' /\ Calm
         /\ \E x \in Drafter : GoesOn(d, x) /\ x.pc \in {"idle", "job"}
<1>1. UNCHANGED <<rows, now>> /\ drafter[d].pc # "idle"
  BY DEF JobFails, DrafterDies
<1>2. CASE JobFails(d)
  <2>1. GoesOn(d, NextOf(drafter[d])) /\ Inv'
    BY <1>1, <1>2, UnchangedCalm, NextJobGoesOn DEF JobFails
  <2>2. NextOf(drafter[d]) \in Drafter /\ NextOf(drafter[d]).pc \in {"idle", "job"}
    BY <1>1, NextOfIs, InvParts DEF RunFits
  <2>. QED
    BY <1>1, <2>1, <2>2, UnchangedCalm
<1>3. CASE DrafterDies(d)
  <2>1. GoesOn(d, IdleDrafter) /\ Inv'
    BY <1>1, <1>3, UnchangedCalm, EndFits, GoOn DEF DrafterDies
  <2>. QED
    BY <1>1, <2>1, UnchangedCalm, IdleIs
<1>. QED
  BY <1>2, <1>3

LEMMA MoveIs ==
  ASSUME Inv, NEW i \in Ids, Approve(i) \/ Unapprove(i) \/ Withdraw(i) \/ Send(i)
  PROVE  Inv' /\ Calm /\ UNCHANGED <<drafter, now>>
<1>1. rows[i] \in Row /\ now \in Nat
  BY RowsAre DEF Inv, TypeOK
<1>2. PICK r \in Row :
         /\ r.type = rows[i].type /\ r.period = rows[i].period
         /\ rows[i].reopened => r.reopened
         /\ rows[i].phase # "withdrawn"
         /\ r.phase = "open" => r.reopened
         /\ rows' = [rows EXCEPT ![i] = r] /\ UNCHANGED <<drafter, now>>
  <2>1. CASE Approve(i)
    BY <1>1, <2>1, [rows[i] EXCEPT !.phase = "approved"] \in Row DEF Approve, Move, Pending, Row
  <2>2. CASE Unapprove(i)
    BY <1>1, <2>2, [rows[i] EXCEPT !.phase = "open", !.reopened = TRUE] \in Row
       DEF Unapprove, Move, Row
  <2>3. CASE Withdraw(i)
    BY <1>1, <2>3, [rows[i] EXCEPT !.phase = "withdrawn"] \in Row DEF Withdraw, Move, Pending, Row
  <2>4. CASE Send(i)
    BY <1>1, <2>4, [rows[i] EXCEPT !.phase = "sent", !.month = now] \in Row DEF Send, Move, Row
  <2>. QED
    BY <2>1, <2>2, <2>3, <2>4
<1>3. /\ rows' \in Seq(Row) /\ Ids' = Ids /\ RowsStay
      /\ rows'[i] = r /\ \A j \in Ids : j # i => rows'[j] = rows[j]
  BY <1>2, ReplaceRow DEF Inv
<1>4. Calm
  BY <1>2, <1>3 DEF Calm, Pending
<1>5. Inv'
  <2>1. \A d \in Places : drafter'[d] = drafter[d] /\ RunFits(drafter[d])
    BY <1>2, InvParts
  <2>. QED
    BY <1>2, <1>3, <2>1 DEF Inv, TypeOK, Working, RunFits
<1>. QED
  BY <1>2, <1>4, <1>5

LEMMA RestIs ==
  ASSUME Inv, NextMonth \/ UNCHANGED vars
  PROVE  Inv' /\ Calm /\ UNCHANGED <<rows, drafter>>
<1>1. UNCHANGED <<rows, drafter>> /\ now' \in 1..MaxMonth
  BY DraftQueueAssumption DEF NextMonth, vars, Inv, TypeOK
<1>2. Ids' = Ids
  BY <1>1, UnchangedCalm DEF Calm
<1>. QED
  BY <1>1, <1>2, UnchangedCalm DEF Inv, TypeOK, Working

-----------------------------------------------------------------------------
(* The starts *)

LEMMA NightlyBegins ==
  ASSUME Inv, StartNightly
  PROVE  /\ Inv'
         /\ \E jobs \in Seq(Job) :
               /\ Begins("workflow", jobs) /\ JobsFit(jobs)
               /\ \A k \in DOMAIN jobs : jobs[k].type \in Monthly /\ (Ahead => Clear(jobs[k]))
<1>1. PICK m \in NightlyJobs("Maintenance"), t \in NightlyJobs("Testing") :
         Start("workflow", m \o t) \/ Start("workflow", t)
  BY DEF StartNightly
<1>2. PICK jobs \in {m \o t, t} : Start("workflow", jobs)
  BY <1>1
<1>3. /\ JobsFit(jobs)
      /\ \A k \in DOMAIN jobs : jobs[k].type \in Monthly /\ (Ahead => Clear(jobs[k]))
  BY NightlyJobsFit
<1>4. jobs \in Seq(Job) /\ Sound(jobs)
  BY <1>3 DEF JobsFit, Fits, Sound
<1>. QED
  BY <1>2, <1>3, <1>4, StartIs DEF Places

LEMMA RecipeBegins ==
  ASSUME Inv, NEW program, NEW type \in {"Announcement", "Launch"}, StartRecipe(program, type)
  PROVE  /\ Inv'
         /\ \E jobs \in Seq(Job) :
               /\ Begins("desk", jobs) /\ JobsFit(jobs)
               /\ \A k \in DOMAIN jobs : jobs[k].type \in {"Announcement", "Launch"}
<1>. DEFINE live == {i \in Matching(type, now) : Live(i)}
<1>1. PICK i \in IF live = {} THEN {0} ELSE live :
         Start("desk", <<[type |-> type, period |-> now, existing |-> i]>>)
  BY DEF StartRecipe
<1>. DEFINE j == [type |-> type, period |-> now, existing |-> i]
<1>2. Fits(j) /\ j.type = type
  BY DeskJobFits DEF ReportType
<1>. HIDE DEF j
<1>3. /\ JobsFit(<<j>>) /\ \A k \in DOMAIN <<j>> : k = 1
      /\ <<j>>[1] = j /\ <<j>> \in Seq(Job)
  BY <1>2, OneJobFits DEF JobsFit
<1>4. Sound(<<j>>)
  BY <1>3 DEF JobsFit, Fits, Sound
<1>5. Start("desk", <<j>>)
  BY <1>1 DEF j
<1>6. \A k \in DOMAIN <<j>> : <<j>>[k].type \in {"Announcement", "Launch"}
  BY <1>2, <1>3
<1>. HIDE DEF live
<1>. QED
  BY <1>3, <1>4, <1>5, <1>6, StartIs DEF Places

LEMMA ManualBegins ==
  ASSUME Inv, StartManual
  PROVE  Inv' /\ "manual" \in Programs /\ \E jobs \in Seq(Job) : Begins("desk", jobs)
<1>1. PICK type \in {"Maintenance", "Testing"} :
         Start("desk", <<[type |-> type, period |-> now, existing |-> 0]>>)
  BY DEF StartManual
<1>. DEFINE j == [type |-> type, period |-> now, existing |-> 0]
<1>2. j \in Job /\ j.existing = 0
  BY DEF Job, ReportType, Inv, TypeOK
<1>. HIDE DEF j
<1>3. <<j>> \in Seq(Job) /\ \A k \in DOMAIN <<j>> : <<j>>[k] = j
  BY <1>2
<1>4. Sound(<<j>>)
  BY <1>2, <1>3 DEF Sound
<1>5. Start("desk", <<j>>)
  BY <1>1 DEF j
<1>. QED
  BY <1>3, <1>4, <1>5, StartIs DEF Places, StartManual

LEMMA InvInit ==
  ASSUME Init
  PROVE  Inv
<1>1. rows \in Seq(Row) /\ rows = <<>> /\ now \in 1..MaxMonth
  BY DraftQueueAssumption DEF Init
<1>2. \A d \in Places : drafter[d] = IdleDrafter
  BY DEF Init
<1>3. drafter \in [Places -> Drafter]
  BY <1>2, IdleIs DEF Init
<1>. QED
  BY <1>1, <1>2, <1>3, IdleIs DEF Inv, TypeOK, Working

LEMMA InvKept ==
  ASSUME Inv, [Next]_vars
  PROVE  Inv'
<1>1. CASE StartNightly
  BY <1>1, NightlyBegins
<1>2. CASE StartRecipe("announce", "Announcement") \/ StartRecipe("launch", "Launch")
  BY <1>2, RecipeBegins
<1>3. CASE StartManual
  BY <1>3, ManualBegins
<1>4. ASSUME NEW d \in Places, Drafts(d) \/ JobFails(d) \/ DrafterDies(d)
      PROVE  Inv'
  BY <1>4, CreateIs, TakeIs, QueueIs, WriteIs, FailsIs DEF Drafts
<1>5. ASSUME NEW i \in Ids, Approve(i) \/ Unapprove(i) \/ Withdraw(i) \/ Send(i)
      PROVE  Inv'
  BY <1>5, MoveIs
<1>6. CASE NextMonth \/ UNCHANGED vars
  BY <1>6, RestIs
<1>. QED
  BY <1>1, <1>2, <1>3, <1>4, <1>5, <1>6 DEF Next

\* The types hold, and a draft that a run queues or flags is a row of the site:
\* no reset of a run, crash or re-run leaves it with a row that was never made.
THEOREM TypeCorrect == Spec => []TypeOK
<1>1. Init => Inv
  BY InvInit
<1>2. Inv /\ [Next]_vars => Inv'
  BY InvKept
<1>3. Inv => TypeOK
  BY DEF Inv
<1>. QED
  BY <1>1, <1>2, <1>3, PTL DEF Spec

-----------------------------------------------------------------------------
(* One draft per period *)

\* The run at e has no job it did not have before the step.
Shrinks(e) ==
    drafter'[e].pc # "idle" =>
        /\ drafter[e].pc # "idle"
        /\ \E o \in {0, 1} : \A k \in DOMAIN drafter'[e].jobs :
              /\ k \in Nat /\ k + o \in DOMAIN drafter[e].jobs
              /\ drafter'[e].jobs[k] = drafter[e].jobs[k + o]
              /\ ToDo(e, k)' => ToDo(e, k + o)

LEMMA JobsAre ==
  ASSUME Inv, NEW e \in Places
  PROVE  /\ drafter[e].jobs \in Seq(Job) /\ DOMAIN drafter[e].jobs \subseteq Nat \ {0}
         /\ \A k \in DOMAIN drafter[e].jobs : drafter[e].jobs[k] \in Job
<1>1. drafter[e].jobs \in Seq(Job)
  BY InvParts DEF Drafter
<1>. QED
  BY <1>1

LEMMA OtherShrinks ==
  ASSUME Inv, NEW e \in Places, drafter'[e] = drafter[e]
  PROVE  Shrinks(e)
<1>1. \A k \in DOMAIN drafter[e].jobs : k \in Nat /\ k + 0 = k
  BY JobsAre
<1>2. \A k : ToDo(e, k)' => ToDo(e, k)
  BY DEF ToDo
<1>3. \A k \in DOMAIN drafter'[e].jobs :
         /\ k \in Nat /\ k + 0 \in DOMAIN drafter[e].jobs
         /\ drafter'[e].jobs[k] = drafter[e].jobs[k + 0]
         /\ ToDo(e, k)' => ToDo(e, k + 0)
  BY <1>1, <1>2
<1>. QED
  BY <1>3 DEF Shrinks

LEMMA SameJobsShrink ==
  ASSUME Inv, NEW d \in Places, drafter[d].pc # "idle", drafter'[d].jobs = drafter[d].jobs,
         drafter'[d].pc \in {"queue", "flags"},
         \A e \in Places : e # d => drafter'[e] = drafter[e]
  PROVE  \A e \in Places : Shrinks(e)
<1>1. \A k \in DOMAIN drafter[d].jobs : k \in Nat /\ k + 0 = k
  BY JobsAre
<1>2. \A k \in DOMAIN drafter[d].jobs : ToDo(d, k)' => ToDo(d, k)
  BY DEF ToDo
<1>3. \A k \in DOMAIN drafter'[d].jobs :
         /\ k \in Nat /\ k + 0 \in DOMAIN drafter[d].jobs
         /\ drafter'[d].jobs[k] = drafter[d].jobs[k + 0]
         /\ ToDo(d, k)' => ToDo(d, k + 0)
  BY <1>1, <1>2
<1>. QED
  BY <1>3, OtherShrinks DEF Shrinks

LEMMA GoesOnShrinks ==
  ASSUME Inv, NEW d \in Places, NEW x, GoesOn(d, x)
  PROVE  \A e \in Places : Shrinks(e)
<1>1. /\ drafter'[d] = x /\ drafter[d].pc # "idle" /\ x \in Drafter
      /\ \A e \in Places : e # d => drafter'[e] = drafter[e]
  BY DEF GoesOn, Becomes
<1>2. CASE InHand(d, x)
  BY <1>1, <1>2, SameJobsShrink DEF InHand
<1>3. CASE x = NextOf(drafter[d])
  <2>1. drafter[d] \in Drafter /\ drafter[d].jobs # <<>>
    BY <1>1, InvParts DEF RunFits
  <2>2. x.pc # "idle" => \A k \in DOMAIN x.jobs :
           /\ k + 1 \in DOMAIN drafter[d].jobs /\ k + 1 > 1
           /\ x.jobs[k] = drafter[d].jobs[k + 1]
           /\ k \in Nat
    BY <1>3, <2>1, NextOfIs
  <2>3. ASSUME x.pc # "idle", NEW k \in DOMAIN x.jobs
        PROVE  ToDo(d, k + 1)
    BY <2>2, <2>3 DEF ToDo
  <2>4. drafter'[d].pc # "idle" => \A k \in DOMAIN drafter'[d].jobs :
           /\ k \in Nat /\ k + 1 \in DOMAIN drafter[d].jobs
           /\ drafter'[d].jobs[k] = drafter[d].jobs[k + 1]
           /\ ToDo(d, k)' => ToDo(d, k + 1)
    BY <1>1, <2>2, <2>3
  <2>. QED
    BY <1>1, <2>4, OtherShrinks DEF Shrinks
<1>4. CASE x = IdleDrafter
  BY <1>1, <1>4, IdleIs, OtherShrinks DEF Shrinks
<1>. QED
  BY <1>2, <1>3, <1>4 DEF GoesOn

LEMMA OnePlaceKept ==
  ASSUME Inv, OnePlace, \A e \in Places : Shrinks(e)
  PROVE  OnePlace'
<1>. SUFFICES ASSUME NEW e \in Places, drafter'[e].pc # "idle"
              PROVE  /\ \A k \in DOMAIN drafter'[e].jobs :
                           drafter'[e].jobs[k].type \in
                              IF e = "workflow" THEN Monthly
                              ELSE {"Announcement", "Launch"}
                     /\ \A k, m \in DOMAIN drafter'[e].jobs :
                           drafter'[e].jobs[k].type = drafter'[e].jobs[m].type => k = m
  BY DEF OnePlace
<1>1. PICK o \in {0, 1} : \A k \in DOMAIN drafter'[e].jobs :
         /\ k \in Nat /\ k + o \in DOMAIN drafter[e].jobs
         /\ drafter'[e].jobs[k] = drafter[e].jobs[k + o]
  BY DEF Shrinks
<1>2. drafter[e].pc # "idle"
  BY DEF Shrinks
<1>3. /\ \A k \in DOMAIN drafter[e].jobs :
            drafter[e].jobs[k].type \in IF e = "workflow" THEN Monthly
                                        ELSE {"Announcement", "Launch"}
      /\ \A k, m \in DOMAIN drafter[e].jobs :
            drafter[e].jobs[k].type = drafter[e].jobs[m].type => k = m
  BY <1>2 DEF OnePlace
<1>4. \A k, m \in DOMAIN drafter'[e].jobs : k + o = m + o => k = m
  BY <1>1
<1>. QED
  BY <1>1, <1>3, <1>4

\* A step that starts no run and makes no row keeps the promise.
LEMMA DraftShrinks ==
  ASSUME DraftInv, Inv', Ids' = Ids, RowsStay, \A e \in Places : Shrinks(e)
  PROVE  DraftInv'
<1>1. /\ Inv /\ Inv' /\ OnePlace /\ StillMissing /\ OneDraftPerPeriod
  BY DEF DraftInv
<1>2. OnePlace'
  BY <1>1, OnePlaceKept
<1>3. StillMissing'
  <2>. SUFFICES ASSUME NEW e \in Places, drafter'[e].pc # "idle",
                       NEW k \in DOMAIN drafter'[e].jobs,
                       ToDo(e, k)', drafter'[e].jobs[k].existing = 0,
                       NEW i \in Ids, rows'[i].type = drafter'[e].jobs[k].type,
                       rows'[i].period = drafter'[e].jobs[k].period
                PROVE  ~Live(i)'
    BY DEF StillMissing, Matching
  <2>1. PICK m \in DOMAIN drafter[e].jobs :
           drafter'[e].jobs[k] = drafter[e].jobs[m] /\ ToDo(e, m)
    BY DEF Shrinks
  <2>2. rows[i].type = drafter[e].jobs[m].type /\ rows[i].period = drafter[e].jobs[m].period
    BY <2>1 DEF RowsStay
  <2>3. i \in Matching(drafter[e].jobs[m].type, drafter[e].jobs[m].period)
    BY <2>2 DEF Matching
  <2>4. ~Live(i)
    BY <1>1, <2>1, <2>3 DEF StillMissing, Shrinks
  <2>. QED
    BY <2>4 DEF RowsStay
<1>4. OneDraftPerPeriod'
  BY <1>1 DEF OneDraftPerPeriod, RowsStay
<1>. QED
  BY <1>1, <1>2, <1>3, <1>4 DEF DraftInv

\* A run that starts has looked at the rows there are.
LEMMA DraftBegins ==
  ASSUME DraftInv, Inv', NEW d \in Places, NEW jobs \in Seq(Job),
         Begins(d, jobs), JobsFit(jobs),
         \A k \in DOMAIN jobs : jobs[k].type \in
             IF d = "workflow" THEN Monthly ELSE {"Announcement", "Launch"}
  PROVE  DraftInv'
<1>1. /\ Inv /\ OnePlace /\ StillMissing /\ OneDraftPerPeriod
  BY DEF DraftInv
<1>2. /\ UNCHANGED rows /\ drafter'[d].jobs = jobs
      /\ \A e \in Places : e # d => drafter'[e] = drafter[e]
  BY DEF Begins, Becomes
<1>3. OnePlace'
  BY <1>1, <1>2 DEF OnePlace, JobsFit
<1>4. Ids' = Ids /\ (\A i : Live(i)' <=> Live(i))
      /\ \A type, period : Matching(type, period)' = Matching(type, period)
  BY <1>2 DEF Ids, Live, Matching
<1>5. StillMissing'
  <2>. SUFFICES ASSUME NEW e \in Places, drafter'[e].pc # "idle",
                       NEW k \in DOMAIN drafter'[e].jobs,
                       ToDo(e, k)', drafter'[e].jobs[k].existing = 0,
                       NEW i \in Ids', rows'[i].type = drafter'[e].jobs[k].type,
                       rows'[i].period = drafter'[e].jobs[k].period
                PROVE  ~Live(i)'
    BY DEF StillMissing, Matching
  <2>0. i \in Matching(drafter'[e].jobs[k].type, drafter'[e].jobs[k].period)
    BY <1>2 DEF Matching, Ids
  <2>1. CASE e = d
    BY <1>2, <1>4, <2>0, <2>1 DEF JobsFit, Fits
  <2>2. CASE e # d
    <3>1. ToDo(e, k)
      BY <1>2, <2>2 DEF ToDo
    <3>. QED
      BY <1>1, <1>2, <1>4, <2>0, <2>2, <3>1 DEF StillMissing
  <2>. QED
    BY <2>1, <2>2
<1>6. OneDraftPerPeriod'
  BY <1>1, <1>2 DEF OneDraftPerPeriod, Ids, Live
<1>. QED
  BY <1>1, <1>3, <1>5, <1>6 DEF DraftInv

\* The row a job makes was still missing, and no other job is to make it.
LEMMA DraftMakes ==
  ASSUME DraftInv, NEW d \in Places, CreateDraft(d)
  PROVE  DraftInv'
<1>1. /\ Inv /\ OnePlace /\ StillMissing /\ OneDraftPerPeriod
  BY DEF DraftInv
<1>2. /\ Inv'
      /\ \E r \in Row : Makes(d, r)
      /\ \E x \in Drafter : x.jobs = drafter[d].jobs /\ x.pc = "queue" /\ Becomes(d, x)
  BY <1>1, CreateIs
<1>3. /\ drafter'[d].jobs = drafter[d].jobs /\ drafter'[d].pc = "queue"
      /\ \A e \in Places : e # d => drafter'[e] = drafter[e]
  BY <1>2 DEF Becomes
<1>. DEFINE n == Len(rows) + 1
            job == drafter[d].jobs[1]
<1>4. /\ drafter[d].pc = "job" /\ job.existing = 0
      /\ Ids' = Ids \cup {n} /\ n \notin Ids
      /\ rows'[n].type = job.type /\ rows'[n].period = job.period
      /\ \A i \in Ids : rows'[i] = rows[i]
  BY <1>2 DEF Makes
<1>5. 1 \in DOMAIN drafter[d].jobs
  BY <1>1, <1>4, FirstJob
<1>. HIDE DEF n, job
<1>6. OnePlace'
  BY <1>1, <1>3, <1>4 DEF OnePlace
<1>7. \A i \in Ids : rows[i].type = job.type /\ rows[i].period = job.period => ~Live(i)
  <2>1. ToDo(d, 1)
    BY <1>4, <1>5 DEF ToDo
  <2>. QED
    BY <1>1, <1>4, <1>5, <2>1 DEF StillMissing, Matching, job
<1>8. StillMissing'
  <2>. SUFFICES ASSUME NEW e \in Places, drafter'[e].pc # "idle",
                       NEW k \in DOMAIN drafter'[e].jobs,
                       ToDo(e, k)', drafter'[e].jobs[k].existing = 0,
                       NEW i \in Ids', rows'[i].type = drafter'[e].jobs[k].type,
                       rows'[i].period = drafter'[e].jobs[k].period
                PROVE  ~Live(i)'
    BY DEF StillMissing, Matching
  <2>1. drafter'[e].jobs = drafter[e].jobs /\ drafter[e].pc # "idle" /\ ToDo(e, k)
    BY <1>3, <1>4 DEF ToDo
  <2>2. i # n
    <3>. SUFFICES ASSUME i = n PROVE FALSE
      OBVIOUS
    <3>1. drafter[e].jobs[k].type = job.type
      BY <1>4, <2>1
    <3>2. e = d
      <4>1. drafter[e].jobs[k].type \in IF e = "workflow" THEN Monthly
                                        ELSE {"Announcement", "Launch"}
        BY <1>1, <2>1 DEF OnePlace
      <4>2. job.type \in IF d = "workflow" THEN Monthly
                         ELSE {"Announcement", "Launch"}
        BY <1>1, <1>4, <1>5 DEF OnePlace, job
      <4>. QED
        BY <3>1, <4>1, <4>2 DEF Places, Monthly
    <3>3. k = 1
      BY <1>1, <1>4, <1>5, <2>1, <3>1, <3>2 DEF OnePlace, job
    <3>. QED
      BY <1>3, <3>2, <3>3 DEF ToDo
  <2>3. i \in Ids /\ rows'[i] = rows[i]
    BY <1>4, <2>2
  <2>4. i \in Matching(drafter[e].jobs[k].type, drafter[e].jobs[k].period)
    BY <2>1, <2>3 DEF Matching
  <2>5. ~Live(i)
    BY <1>1, <2>1, <2>4 DEF StillMissing
  <2>. QED
    BY <2>3, <2>5 DEF Live
<1>9. OneDraftPerPeriod'
  BY <1>1, <1>4, <1>7 DEF OneDraftPerPeriod, Live
<1>. QED
  BY <1>2, <1>6, <1>8, <1>9 DEF DraftInv

LEMMA DraftKept ==
  ASSUME DraftInv, [Next]_vars, "manual" \notin Programs
  PROVE  DraftInv'
<1>1. Inv /\ Inv'
  BY InvKept DEF DraftInv
<1>2. CASE StartNightly
  BY <1>1, <1>2, NightlyBegins, DraftBegins DEF Places
<1>3. ASSUME NEW program, NEW type \in {"Announcement", "Launch"}, StartRecipe(program, type)
      PROVE  DraftInv'
  BY <1>1, <1>3, RecipeBegins, DraftBegins DEF Places
<1>4. CASE StartManual
  BY <1>1, <1>4, ManualBegins
<1>5. ASSUME NEW d \in Places, Drafts(d) \/ JobFails(d) \/ DrafterDies(d)
      PROVE  DraftInv'
  <2>1. CASE CreateDraft(d)
    BY <2>1, DraftMakes
  <2>2. CASE TakeExisting(d)
    BY <1>1, <2>2, TakeIs, GoesOnShrinks, DraftShrinks DEF Calm
  <2>3. CASE QueueDraft(d)
    BY <1>1, <2>3, QueueIs, GoesOnShrinks, DraftShrinks DEF Calm
  <2>4. CASE WriteFlag(d)
    BY <1>1, <2>4, WriteIs, GoesOnShrinks, DraftShrinks DEF Calm, WritesFlag
  <2>5. CASE JobFails(d) \/ DrafterDies(d)
    BY <1>1, <2>5, FailsIs, GoesOnShrinks, DraftShrinks DEF Calm
  <2>. QED
    BY <1>5, <2>1, <2>2, <2>3, <2>4, <2>5 DEF Drafts
<1>6. ASSUME NEW i \in Ids, Approve(i) \/ Unapprove(i) \/ Withdraw(i) \/ Send(i)
      PROVE  DraftInv'
  BY <1>1, <1>6, MoveIs, OtherShrinks, DraftShrinks DEF Calm
<1>7. CASE NextMonth \/ UNCHANGED vars
  BY <1>1, <1>7, RestIs, OtherShrinks, DraftShrinks DEF Calm
<1>. QED
  BY <1>2, <1>3, <1>4, <1>5, <1>6, <1>7 DEF Next

\* One draft per type and period, whatever crashes and however the nightly run and
\* the recipes overlap: a run makes only rows that were missing when it read, and
\* nobody else makes a row of its types meanwhile (draftDueReports, announce,
\* launch).  Not so an operator's `report <slug>`, who gets the draft he asks for.
THEOREM OneDraftOfAPeriod ==
  ASSUME "manual" \notin Programs
  PROVE  Spec => []OneDraftPerPeriod
<1>1. Init => DraftInv
  <2>. SUFFICES ASSUME Init PROVE DraftInv
    OBVIOUS
  <2>1. Inv /\ Ids = {} /\ \A d \in Places : drafter[d].pc = "idle"
    BY InvInit, IdleIs DEF Init, Ids
  <2>. QED
    BY <2>1 DEF DraftInv, OnePlace, StillMissing, OneDraftPerPeriod
<1>2. DraftInv /\ [Next]_vars => DraftInv'
  BY DraftKept
<1>3. DraftInv => OneDraftPerPeriod
  BY DEF DraftInv
<1>. QED
  BY <1>1, <1>2, <1>3, PTL DEF Spec

-----------------------------------------------------------------------------
(* One report waits for the operator *)

\* A step of the only run, that leaves the waiting rows as they were.
LEMMA QueueGoesOn ==
  ASSUME QueueInv, Inv', NEW d \in Places, NEW x, Becomes(d, x), drafter[d].pc # "idle",
         x.pc = "flags" /\ x.flag =>
            \A j \in Ids' : Pending(j)' => j = x.draft \/ j \in x.off \/ rows'[j].reopened,
         OnePendingReport'
  PROVE  QueueInv'
<1>1. Inv /\ OneRun
  BY DEF QueueInv
<1>2. drafter'[d] = x /\ \A e \in Places : e # d => drafter'[e] = drafter[e]
  BY DEF Becomes
<1>3. \A e \in Places : e # d => drafter'[e].pc = "idle"
  BY <1>1, <1>2 DEF OneRun
<1>4. OneRun'
  BY <1>3 DEF OneRun
<1>5. FlagsCover'
  BY <1>2, <1>3 DEF FlagsCover
<1>. QED
  BY <1>4, <1>5 DEF QueueInv

LEMMA CalmPending ==
  ASSUME OnePendingReport, Calm
  PROVE  OnePendingReport'
<1>. SUFFICES ASSUME NEW i \in Ids, NEW j \in Ids, i # j, Pending(i)', Pending(j)',
                     ~rows'[i].reopened, ~rows'[j].reopened
              PROVE  FALSE
  BY DEF OnePendingReport, Calm
<1>1. Pending(i) /\ Pending(j)
  BY DEF Calm
<1>2. rows[i].reopened \/ rows[j].reopened
  BY <1>1 DEF OnePendingReport
<1>. QED
  BY <1>2 DEF Calm, RowsStay

\* Nothing of a run changes.
LEMMA QueueStays ==
  ASSUME QueueInv, Inv', Calm, UNCHANGED drafter
  PROVE  QueueInv'
<1>1. OneRun /\ FlagsCover /\ OnePendingReport
  BY DEF QueueInv
<1>2. OneRun'
  BY <1>1 DEF OneRun
<1>3. FlagsCover'
  <2>. SUFFICES ASSUME NEW d \in Places, drafter[d].pc = "flags" /\ drafter[d].flag,
                       NEW j \in Ids, Pending(j)', ~rows'[j].reopened
                PROVE  j = drafter[d].draft \/ j \in drafter[d].off
    BY DEF FlagsCover, Calm
  <2>1. Pending(j) /\ ~rows[j].reopened
    BY DEF Calm, RowsStay
  <2>. QED
    BY <1>1, <2>1 DEF FlagsCover
<1>. QED
  BY <1>1, <1>2, <1>3, CalmPending DEF QueueInv

LEMMA QueueBegins ==
  ASSUME QueueInv, Inv', ~Overlap, NEW d \in Places, NEW jobs, Begins(d, jobs)
  PROVE  QueueInv'
<1>1. Inv /\ OnePendingReport
  BY DEF QueueInv
<1>2. PICK x \in Drafter : x.pc = "job" /\ Becomes(d, x)
  BY DEF Begins
<1>3. /\ drafter'[d].pc = "job"
      /\ \A e \in Places : e # d => drafter'[e] = drafter[e] /\ drafter[e].pc = "idle"
  BY <1>2 DEF Begins, Becomes
<1>4. OneRun' /\ FlagsCover'
  BY <1>3 DEF OneRun, FlagsCover
<1>5. Calm
  BY <1>1, UnchangedCalm DEF Begins
<1>. QED
  BY <1>1, <1>4, <1>5, CalmPending DEF QueueInv

LEMMA QueueMakes ==
  ASSUME QueueInv, NEW d \in Places, CreateDraft(d)
  PROVE  QueueInv'
<1>1. Inv /\ OnePendingReport
  BY DEF QueueInv
<1>2. PICK r \in Row : Makes(d, r)
  BY <1>1, CreateIs
<1>3. PICK x \in Drafter : x.pc = "queue" /\ Becomes(d, x)
  BY <1>1, CreateIs
<1>4. \A j \in Ids' : Pending(j)' => j \in Ids /\ rows'[j] = rows[j] /\ Pending(j)
  BY <1>2 DEF Makes, Pending
<1>5. OnePendingReport'
  BY <1>1, <1>4 DEF OnePendingReport
<1>6. drafter[d].pc # "idle"
  BY <1>2 DEF Makes
<1>. QED
  BY <1>1, <1>3, <1>5, <1>6, CreateIs, QueueGoesOn

LEMMA QueuePlans ==
  ASSUME QueueInv, NEW d \in Places, QueueDraft(d)
  PROVE  QueueInv'
<1>1. Inv /\ OnePendingReport
  BY DEF QueueInv
<1>2. Inv' /\ Calm /\ UNCHANGED rows
  BY <1>1, QueueIs
<1>3. PICK x \in Drafter :
         /\ GoesOn(d, x)
         /\ x.flag /\ x.pc = "flags" => \A j \in Ids : Pending(j) => j = x.draft \/ j \in x.off
  BY <1>1, QueueIs
<1>4. \A j \in Ids' : Pending(j)' => j \in Ids /\ Pending(j)
  BY <1>2 DEF Calm, Pending
<1>. QED
  BY <1>1, <1>2, <1>3, <1>4, CalmPending, QueueGoesOn DEF GoesOn

\* The draft's own flag goes up when every other waiting row's has gone down.
LEMMA QueueWrites ==
  ASSUME QueueInv, NEW d \in Places, WriteFlag(d)
  PROVE  QueueInv'
<1>1. Inv /\ FlagsCover /\ OnePendingReport
  BY DEF QueueInv
<1>2. Inv' /\ WritesFlag(d) /\ drafter[d].pc = "flags"
  BY <1>1, WriteIs
<1>3. ASSUME NEW i \in drafter[d].off, NEW x \in Drafter,
             Calm, GoesOn(d, x), ~Pending(i)',
             x.flag = drafter[d].flag, x.draft = drafter[d].draft, x.off = drafter[d].off \ {i}
      PROVE  QueueInv'
  <2>1. ASSUME x.flag, NEW j \in Ids', Pending(j)', ~rows'[j].reopened
        PROVE  j = x.draft \/ j \in x.off
    <3>1. j \in Ids /\ Pending(j) /\ ~rows[j].reopened /\ j # i
      BY <1>3, <2>1 DEF Calm, RowsStay
    <3>2. drafter[d].flag
      BY <1>3, <2>1
    <3>3. j = drafter[d].draft \/ j \in drafter[d].off
      BY <1>1, <1>2, <3>1, <3>2 DEF FlagsCover
    <3>. QED
      BY <1>3, <3>1, <3>3
  <2>. QED
    BY <1>1, <1>2, <1>3, <2>1, CalmPending, QueueGoesOn DEF GoesOn
<1>4. ASSUME drafter[d].off = {}, Ids' = Ids, RowsStay, GoesOn(d, NextOf(drafter[d])),
             \A j \in Ids : Pending(j)' => Pending(j) \/ (drafter[d].flag /\ j = drafter[d].draft)
      PROVE  QueueInv'
  <2>1. OnePendingReport'
    <3>. SUFFICES ASSUME NEW i \in Ids, NEW j \in Ids, i # j, Pending(i)', Pending(j)',
                         ~rows'[i].reopened, ~rows'[j].reopened
                  PROVE  FALSE
      BY <1>4 DEF OnePendingReport
    <3>1. ~rows[i].reopened /\ ~rows[j].reopened
      BY <1>4 DEF RowsStay
    <3>2. CASE drafter[d].flag
      <4>1. \A k \in Ids : Pending(k) /\ ~rows[k].reopened => k = drafter[d].draft
        BY <1>1, <1>2, <1>4, <3>2 DEF FlagsCover
      <4>. QED
        BY <1>4, <3>1, <4>1
    <3>3. CASE ~drafter[d].flag
      BY <1>1, <1>4, <3>1, <3>3 DEF OnePendingReport
    <3>. QED
      BY <3>2, <3>3
  <2>2. NextOf(drafter[d]).pc # "flags"
    BY <1>1, <1>2, NextOfIs, InvParts DEF RunFits
  <2>. QED
    BY <1>2, <1>4, <2>1, <2>2, QueueGoesOn DEF GoesOn
<1>. QED
  BY <1>2, <1>3, <1>4 DEF WritesFlag

\* A step that only takes a run on.
LEMMA QueueRuns ==
  ASSUME QueueInv, Inv', Calm, NEW d \in Places, NEW x, GoesOn(d, x), x.pc # "flags"
  PROVE  QueueInv'
<1>1. OnePendingReport
  BY DEF QueueInv
<1>. QED
  BY <1>1, CalmPending, QueueGoesOn DEF GoesOn

LEMMA QueueKept ==
  ASSUME QueueInv, [Next]_vars, ~Overlap
  PROVE  QueueInv'
<1>1. Inv /\ Inv'
  BY InvKept DEF QueueInv
<1>2. CASE StartNightly
  BY <1>1, <1>2, NightlyBegins, QueueBegins DEF Places
<1>3. ASSUME NEW program, NEW type \in {"Announcement", "Launch"}, StartRecipe(program, type)
      PROVE  QueueInv'
  BY <1>1, <1>3, RecipeBegins, QueueBegins DEF Places
<1>4. CASE StartManual
  BY <1>1, <1>4, ManualBegins, QueueBegins DEF Places
<1>5. ASSUME NEW d \in Places, Drafts(d) \/ JobFails(d) \/ DrafterDies(d)
      PROVE  QueueInv'
  <2>1. CASE TakeExisting(d)
    BY <1>1, <2>1, TakeIs, QueueRuns
  <2>2. CASE JobFails(d) \/ DrafterDies(d)
    BY <1>1, <2>2, FailsIs, QueueRuns
  <2>. QED
    BY <1>5, <2>1, <2>2, QueueMakes, QueuePlans, QueueWrites DEF Drafts
<1>6. ASSUME NEW i \in Ids, Approve(i) \/ Unapprove(i) \/ Withdraw(i) \/ Send(i)
      PROVE  QueueInv'
  BY <1>1, <1>6, MoveIs, QueueStays
<1>7. CASE NextMonth \/ UNCHANGED vars
  BY <1>1, <1>7, RestIs, QueueStays
<1>. QED
  BY <1>2, <1>3, <1>4, <1>5, <1>6, <1>7 DEF Next

\* At most one report of a site waits for the operator, while no two runs overlap:
\* queueDraft takes every other waiting report out before it raises its own flag, so
\* a crash between two writes leaves none too many, and only a report whose approval
\* was taken back meanwhile can stand beside it.
THEOREM OneReportWaits ==
  ASSUME ~Overlap
  PROVE  Spec => []OnePendingReport
<1>1. Init => QueueInv
  <2>. SUFFICES ASSUME Init PROVE QueueInv
    OBVIOUS
  <2>1. Inv /\ Ids = {} /\ \A d \in Places : drafter[d].pc = "idle"
    BY InvInit, IdleIs DEF Init, Ids
  <2>. QED
    BY <2>1 DEF QueueInv, OneRun, FlagsCover, OnePendingReport
<1>2. QueueInv /\ [Next]_vars => QueueInv'
  BY QueueKept
<1>3. QueueInv => OnePendingReport
  BY DEF QueueInv
<1>. QED
  BY <1>1, <1>2, <1>3, PTL DEF Spec

-----------------------------------------------------------------------------
(* No pile-up *)

\* The least number of a set, from the order of the naturals being well founded.
LEMMA LeastNat ==
  ASSUME NEW S, S \subseteq Nat, S # {}
  PROVE  \E m \in S : \A k \in S : m <= k
<1>. DEFINE R == OpToRel(<, Nat)
<1>1. IsWellFoundedOn(R, Nat)
  BY NatLessThanWellFounded
<1>2. \A a, b \in Nat : a < b => <<a, b>> \in R
  BY DEF OpToRel
<1>. HIDE DEF R
<1>3. PICK m \in S : \A k \in S : ~ (<<k, m>> \in R)
  BY <1>1, WFMin
<1>4. ASSUME NEW k \in S PROVE m <= k
  <2>1. ~ (<<k, m>> \in R) /\ k \in Nat /\ m \in Nat
    BY <1>3
  <2>2. ~ (k < m)
    BY <1>2, <2>1
  <2>. QED
    BY <2>1, <2>2
<1>. QED
  BY <1>4

LEMMA MinIs ==
  ASSUME NEW S, S \subseteq Nat, S # {}
  PROVE  Min(S) \in S /\ \A k \in S : Min(S) <= k
BY LeastNat DEF Min

LEMMA MaxIs ==
  ASSUME NEW n \in Nat, NEW S, S \subseteq 0..n, S # {}
  PROVE  Max(S) \in S /\ \A k \in S : Max(S) >= k
<1>. DEFINE T == {n - s : s \in S}
<1>1. T \subseteq Nat /\ T # {}
  OBVIOUS
<1>2. PICK m \in T : \A k \in T : m <= k
  BY <1>1, LeastNat
<1>3. PICK s \in S : m = n - s
  BY <1>2
<1>4. ASSUME NEW k \in S PROVE s >= k
  <2>1. n - k \in T
    OBVIOUS
  <2>2. n - s <= n - k /\ s \in 0..n /\ k \in 0..n
    BY <1>2, <1>3, <2>1
  <2>. QED
    BY <2>2
<1>5. \E x \in S : \A y \in S : x >= y
  BY <1>4
<1>. QED
  BY <1>5 DEF Max

\* PushPastTesting with the Testing months and the month as parameters.
FirstFree(T, n, q) == Min({m \in q..(n + 1) : m > n \/ T \cap {m, m + 1} = {}})

Push(T, n, q) ==
    LET covering == {m \in T : m + 1 \in q..(q + 2)}
    IN  IF covering = {} \/ q > n THEN q ELSE FirstFree(T, n, q + 1)

LEMMA FirstFreeIs ==
  ASSUME NEW n \in Nat, NEW q \in 1..(n + 1), NEW T
  PROVE  /\ FirstFree(T, n, q) \in q..(n + 1)
         /\ FirstFree(T, n, q) > n \/ T \cap {FirstFree(T, n, q), FirstFree(T, n, q) + 1} = {}
         /\ \A m \in q..(n + 1) : T \cap {m, m + 1} = {} => FirstFree(T, n, q) <= m
<1>. DEFINE S == {m \in q..(n + 1) : m > n \/ T \cap {m, m + 1} = {}}
<1>1. S \subseteq Nat /\ n + 1 \in S
  OBVIOUS
<1>2. Min(S) \in S /\ \A k \in S : Min(S) <= k
  BY <1>1, MinIs
<1>. QED
  BY <1>2 DEF FirstFree

\* Time and more Testing reports never bring a due month forward: a month already
\* reached stays reached.
LEMMA PushGrows ==
  ASSUME NEW n \in Nat, NEW n2 \in Nat, n <= n2, NEW T, NEW T2, T \subseteq T2,
         NEW q \in Nat \ {0}, NEW p \in 1..n, p <= Push(T, n, q)
  PROVE  p <= Push(T2, n2, q)
<1>1. CASE p <= q
  <2>1. q <= n2 => FirstFree(T2, n2, q + 1) \in (q + 1)..(n2 + 1)
    BY FirstFreeIs
  <2>2. Push(T2, n2, q) = q \/ (q <= n2 /\ Push(T2, n2, q) = FirstFree(T2, n2, q + 1))
    BY DEF Push
  <2>. QED
    BY <1>1, <2>1, <2>2
<1>2. CASE p > q
  <2>1. {m \in T : m + 1 \in q..(q + 2)} # {} /\ q <= n /\ p <= FirstFree(T, n, q + 1)
    BY <1>2 DEF Push
  <2>2. {m \in T2 : m + 1 \in q..(q + 2)} # {} /\ q <= n2
    BY <2>1
  <2>3. Push(T2, n2, q) = FirstFree(T2, n2, q + 1)
    BY <2>2 DEF Push
  <2>. DEFINE f == FirstFree(T2, n2, q + 1)
  <2>4. f \in (q + 1)..(n2 + 1) /\ (f > n2 \/ T2 \cap {f, f + 1} = {})
    BY <2>2, FirstFreeIs
  <2>5. \A m \in (q + 1)..(n + 1) : T \cap {m, m + 1} = {} => FirstFree(T, n, q + 1) <= m
    BY <2>1, FirstFreeIs
  <2>6. FirstFree(T, n, q + 1) \in (q + 1)..(n + 1)
    BY <2>1, FirstFreeIs
  <2>. HIDE DEF f
  <2>7. ASSUME f < p PROVE FALSE
    <3>1. T \cap {f, f + 1} = {} /\ f \in (q + 1)..(n + 1)
      BY <2>4, <2>7
    <3>2. FirstFree(T, n, q + 1) <= f
      BY <2>5, <3>1
    <3>. QED
      BY <2>1, <2>4, <2>6, <2>7, <3>2
  <2>8. f \in Nat
    BY <2>4
  <2>. QED
    BY <2>3, <2>7, <2>8 DEF f
<1>. QED
  BY <1>1, <1>2

\* The months a type counts from.
Base(type) == Past(type) \cup (IF Anchored THEN {0} ELSE {})

LEMMA DueGrows ==
  ASSUME now \in Nat, now' \in Nat, now <= now', NEW type \in Monthly,
         Past(type)' = Past(type), Past(type) \subseteq 1..now,
         TestingMonths \subseteq TestingMonths',
         NEW p \in 1..now, p <= DuePeriod(type)
  PROVE  p <= DuePeriod(type)'
<1>1. /\ DuePeriod(type) = IF Base(type) = {} THEN now
                           ELSE IF type = "Testing" THEN Max(Base(type)) + 1
                           ELSE Push(TestingMonths, now, Max(Base(type)) + 1)
      /\ DuePeriod(type)' = IF Base(type)' = {} THEN now'
                            ELSE IF type = "Testing" THEN Max(Base(type)') + 1
                            ELSE Push(TestingMonths', now', Max(Base(type)') + 1)
  BY DEF DuePeriod, Base, PushPastTesting, Pushed, Push, FirstFree
<1>2. Base(type)' = Base(type) /\ Base(type) \subseteq 0..now
  BY DEF Base
<1>3. CASE Base(type) = {}
  BY <1>1, <1>2, <1>3
<1>4. CASE Base(type) # {}
  <2>. DEFINE q == Max(Base(type)) + 1
  <2>1. q \in Nat \ {0}
    BY <1>2, <1>4, MaxIs
  <2>2. CASE type = "Testing"
    BY <1>1, <1>2, <1>4, <2>2
  <2>3. CASE type # "Testing"
    <3>1. DuePeriod(type) = Push(TestingMonths, now, q)
          /\ DuePeriod(type)' = Push(TestingMonths', now', q)
      BY <1>1, <1>2, <1>4, <2>3
    <3>. HIDE DEF q
    <3>. QED
      BY <2>1, <3>1, PushGrows
  <2>. QED
    BY <2>2, <2>3
<1>. QED
  BY <1>3, <1>4

\* A job of the run after the step is one it had before.
LEMMA OldJob ==
  ASSUME NEW e \in Places, Shrinks(e), drafter'[e].pc # "idle",
         NEW k \in DOMAIN drafter'[e].jobs
  PROVE  /\ drafter[e].pc # "idle"
         /\ \E m \in DOMAIN drafter[e].jobs : drafter'[e].jobs[k] = drafter[e].jobs[m]
BY DEF Shrinks

\* A run without a row in hand, or with one of its first job's, has its jobs' rows.
LEMMA RowsOfJobsKept ==
  ASSUME Inv, RowsOfJobs, RowsStay, \A e \in Places : Shrinks(e),
         \A e \in Places : drafter'[e].pc \in {"queue", "flags"} =>
            /\ rows'[drafter'[e].draft].type = drafter'[e].jobs[1].type
            /\ rows'[drafter'[e].draft].period = drafter'[e].jobs[1].period
  PROVE  RowsOfJobs'
<1>1. ASSUME NEW e \in Places, drafter'[e].pc # "idle",
             NEW k \in DOMAIN drafter'[e].jobs, drafter'[e].jobs[k].existing # 0
      PROVE  /\ rows'[drafter'[e].jobs[k].existing].type = drafter'[e].jobs[k].type
             /\ rows'[drafter'[e].jobs[k].existing].period = drafter'[e].jobs[k].period
  <2>1. PICK m \in DOMAIN drafter[e].jobs : drafter'[e].jobs[k] = drafter[e].jobs[m]
    BY <1>1, OldJob
  <2>2. drafter[e].pc # "idle"
    BY <1>1, OldJob
  <2>3. drafter[e].jobs[m].existing \in Ids
    BY <1>1, <2>1, <2>2, InvParts DEF RunFits
  <2>. QED
    BY <1>1, <2>1, <2>2, <2>3 DEF RowsOfJobs, RowsStay
<1>. QED
  BY <1>1 DEF RowsOfJobs

LEMMA HandIs ==
  ASSUME Inv, RowsOfJobs, RowsStay, NEW d \in Places, NEW x, GoesOn(d, x)
  PROVE  RowsOfJobs'
<1>1. /\ drafter'[d] = x /\ drafter[d].pc # "idle" /\ x \in Drafter /\ drafter[d] \in Drafter
      /\ \A e \in Places : e # d => drafter'[e] = drafter[e]
  BY InvParts DEF GoesOn, Becomes
<1>2. ASSUME NEW e \in Places, drafter'[e].pc \in {"queue", "flags"}
      PROVE  /\ rows'[drafter'[e].draft].type = drafter'[e].jobs[1].type
             /\ rows'[drafter'[e].draft].period = drafter'[e].jobs[1].period
  <2>1. CASE e # d
    <3>1. drafter[e].draft \in Ids /\ drafter'[e] = drafter[e]
      BY <1>1, <1>2, <2>1, InvParts DEF RunFits
    <3>. QED
      BY <1>2, <3>1 DEF RowsOfJobs, RowsStay
  <2>2. CASE e = d
    <3>1. InHand(d, x)
      <4>1. NextOf(drafter[d]).pc \in {"idle", "job"}
        BY <1>1, NextOfIs, InvParts DEF RunFits
      <4>. QED
        BY <1>1, <1>2, <2>2, <4>1, IdleIs DEF GoesOn
    <3>2. CASE drafter[d].pc = "job"
      <4>1. /\ x.draft = drafter[d].jobs[1].existing /\ x.draft # 0
            /\ 1 \in DOMAIN drafter[d].jobs /\ drafter[d].jobs[1].existing \in Ids \cup {0}
            /\ x.jobs = drafter[d].jobs
        BY <1>1, <3>1, <3>2, FirstJob DEF InHand
      <4>. QED
        BY <1>1, <2>2, <4>1 DEF RowsOfJobs, RowsStay
    <3>3. CASE drafter[d].pc # "job"
      <4>1. drafter[d].pc \in {"queue", "flags"} /\ drafter[d].draft \in Ids
        BY <1>1, <3>3, InvParts DEF Drafter, RunFits
      <4>2. /\ rows[drafter[d].draft].type = drafter[d].jobs[1].type
            /\ rows[drafter[d].draft].period = drafter[d].jobs[1].period
        BY <1>1, <4>1 DEF RowsOfJobs
      <4>3. x.draft = drafter[d].draft /\ x.jobs = drafter[d].jobs
        BY <3>1, <3>3 DEF InHand
      <4>. QED
        BY <1>1, <2>2, <4>1, <4>2, <4>3 DEF RowsStay
    <3>. QED
      BY <3>2, <3>3
  <2>. QED
    BY <2>1, <2>2
<1>. QED
  BY <1>2, GoesOnShrinks, RowsOfJobsKept

\* A step that raises no scheduled report and moves a type's past only when it takes
\* away the report that stood.
LEMMA PileKept ==
  ASSUME PileInv, Inv', RowsStay, Dated', RowsOfJobs', now <= now',
         \A e \in Places : Shrinks(e),
         \A i \in Ids' : rows'[i].type \in Monthly /\ Stands(i)' => i \in Ids /\ Stands(i),
         \A type \in Monthly :
            Past(type)' = Past(type) \/ (~NoneStands(type) /\ NoneStands(type)'),
         TestingMonths \subseteq TestingMonths'
  PROVE  PileInv'
<1>1. /\ Inv /\ OnePlace /\ Dated /\ Ahead /\ ClearWay /\ NoPileUp
      /\ now \in Nat /\ now' \in Nat
  BY DEF PileInv, Inv, TypeOK
<1>2. OnePlace'
  BY <1>1, OnePlaceKept
<1>3. \A type : Past(type) \subseteq 1..now
  BY <1>1 DEF Past, Dated
<1>4. ASSUME NEW type \in Monthly, NEW p \in 1..now, p <= DuePeriod(type),
             Past(type)' = Past(type)
      PROVE  p <= DuePeriod(type)'
  BY <1>1, <1>3, <1>4, DueGrows
<1>5. Ahead'
  <2>. SUFFICES ASSUME NEW i \in Ids', NEW type \in Monthly, rows'[i].type = type, Stands(i)'
                PROVE  rows'[i].period <= DuePeriod(type)'
    BY DEF Ahead
  <2>1. /\ i \in Ids /\ Stands(i) /\ rows[i].type = type
        /\ rows'[i].period = rows[i].period
    BY DEF RowsStay
  <2>2. PICK p \in 1..now : p = rows[i].period
    BY <1>1, <2>1 DEF Dated
  <2>3. p <= DuePeriod(type)
    BY <1>1, <2>1, <2>2 DEF Ahead
  <2>4. Past(type)' = Past(type)
    BY <2>1 DEF NoneStands
  <2>. QED
    BY <1>4, <2>1, <2>2, <2>3, <2>4
<1>6. ClearWay'
  <2>. SUFFICES ASSUME drafter'["workflow"].pc # "idle",
                       NEW k \in DOMAIN drafter'["workflow"].jobs, NEW type \in Monthly,
                       drafter'["workflow"].jobs[k].type = type
                PROVE  /\ NoneStands(type)'
                       /\ drafter'["workflow"].jobs[k].period \in 1..now'
                       /\ drafter'["workflow"].jobs[k].period <= DuePeriod(type)'
    BY DEF ClearWay
  <2>1. PICK m \in DOMAIN drafter["workflow"].jobs :
           drafter'["workflow"].jobs[k] = drafter["workflow"].jobs[m]
    BY OldJob DEF Places
  <2>2. drafter["workflow"].pc # "idle"
    BY OldJob DEF Places
  <2>3. drafter["workflow"].jobs[m].type = type
    BY <2>1
  <2>4. PICK p \in 1..now : p = drafter["workflow"].jobs[m].period
    BY <1>1, <2>2, <2>3 DEF ClearWay
  <2>5. NoneStands(type) /\ p <= DuePeriod(type)
    BY <1>1, <2>2, <2>3, <2>4 DEF ClearWay
  <2>6. NoneStands(type)'
    BY <2>5 DEF NoneStands, RowsStay
  <2>7. p <= DuePeriod(type)' /\ p \in 1..now'
    BY <1>1, <1>4, <2>5, <2>6
  <2>. QED
    BY <2>1, <2>4, <2>6, <2>7
<1>7. NoPileUp'
  <2>. SUFFICES ASSUME NEW i \in Ids', NEW j \in Ids', i # j, rows'[i].type = rows'[j].type,
                       rows'[i].type \in Monthly, Stands(i)', Stands(j)'
                PROVE  FALSE
    BY DEF NoPileUp, Monthly, Stands
  <2>1. i \in Ids /\ j \in Ids /\ Stands(i) /\ Stands(j)
    OBVIOUS
  <2>2. rows[i].type = rows'[i].type /\ rows[j].type = rows'[j].type
    BY <2>1 DEF RowsStay
  <2>. QED
    BY <1>1, <2>1, <2>2 DEF NoPileUp, Monthly, Stands
<1>. QED
  BY <1>2, <1>5, <1>6, <1>7 DEF PileInv

\* What counts as past stays as it is while no row is approved, sent or withdrawn.
LEMMA PastStays ==
  ASSUME RowsStay, PhasesStay
  PROVE  (\A type : Past(type)' = Past(type)) /\ TestingMonths' = TestingMonths
<1>1. /\ Ids' = Ids
      /\ \A j \in Ids : /\ rows'[j].phase = rows[j].phase /\ rows'[j].month = rows[j].month
                        /\ rows'[j].type = rows[j].type
  BY DEF RowsStay, PhasesStay
<1>2. ASSUME NEW type PROVE Past(type)' = Past(type)
  BY <1>1 DEF Past
<1>3. TestingMonths' = TestingMonths
  BY <1>1 DEF TestingMonths
<1>. QED
  BY <1>2, <1>3

LEMMA DatedStays ==
  ASSUME Dated, RowsStay, PhasesStay, now \in Nat, now' \in Nat, now <= now'
  PROVE  Dated'
<1>1. \A i \in Ids : /\ rows'[i].month = rows[i].month /\ rows'[i].type = rows[i].type
                     /\ rows'[i].period = rows[i].period
  BY DEF RowsStay, PhasesStay
<1>. QED
  BY <1>1 DEF Dated, PhasesStay

\* A step that leaves the rows alone and takes a run on.
LEMMA PileGoesOn ==
  ASSUME PileInv, Inv', UNCHANGED rows, now <= now', RowsOfJobs',
         \A e \in Places : Shrinks(e)
  PROVE  PileInv'
<1>1. Inv /\ Dated /\ now \in Nat /\ now' \in Nat
  BY DEF PileInv, Inv, TypeOK
<1>2. RowsStay /\ PhasesStay
  BY <1>1, UnchangedCalm DEF Calm, PhasesStay
<1>3. Dated'
  BY <1>1, <1>2, DatedStays
<1>4. \A i \in Ids' : Stands(i)' => i \in Ids /\ Stands(i)
  BY <1>2 DEF PhasesStay, Stands, Unsent
<1>. QED
  BY <1>2, <1>3, <1>4, PastStays, PileKept

LEMMA PileBegins ==
  ASSUME PileInv, Inv', NEW d \in Places, NEW jobs \in Seq(Job), Begins(d, jobs), JobsFit(jobs),
         UNCHANGED now,
         \A k \in DOMAIN jobs : jobs[k].type \in
             IF d = "workflow" THEN Monthly ELSE {"Announcement", "Launch"},
         d = "workflow" => \A k \in DOMAIN jobs : Clear(jobs[k])
  PROVE  PileInv'
<1>1. /\ Inv /\ OnePlace /\ Dated /\ RowsOfJobs /\ Ahead /\ ClearWay /\ NoPileUp
  BY DEF PileInv
<1>2. /\ UNCHANGED <<rows, now>> /\ drafter'[d].jobs = jobs /\ drafter'[d].pc = "job"
      /\ \A e \in Places : e # d => drafter'[e] = drafter[e]
  BY DEF Begins, Becomes
<1>3. OnePlace'
  BY <1>1, <1>2 DEF OnePlace, JobsFit
<1>4. Dated' /\ NoPileUp'
  BY <1>1, <1>2 DEF Dated, NoPileUp, Ids, Unsent
<1>5. RowsOfJobs'
  <2>1. \A k \in DOMAIN jobs : jobs[k].existing # 0 =>
           /\ rows[jobs[k].existing].type = jobs[k].type
           /\ rows[jobs[k].existing].period = jobs[k].period
    BY DEF JobsFit, Fits, Matching
  <2>. QED
    BY <1>1, <1>2, <2>1 DEF RowsOfJobs
<1>6. \A type \in Monthly : DuePeriod(type)' = DuePeriod(type)
  BY <1>2 DEF DuePeriod, PushPastTesting, Pushed, TestingMonths, Past, Ids
<1>7. \A type : NoneStands(type)' <=> NoneStands(type)
  BY <1>2 DEF NoneStands, Stands, Unsent, Ids
<1>8. Ahead'
  BY <1>1, <1>2, <1>6 DEF Ahead, Stands, Unsent, Ids
<1>9. ClearWay'
  <2>. SUFFICES ASSUME drafter'["workflow"].pc # "idle",
                       NEW k \in DOMAIN drafter'["workflow"].jobs, NEW type \in Monthly,
                       drafter'["workflow"].jobs[k].type = type
                PROVE  /\ NoneStands(type)'
                       /\ drafter'["workflow"].jobs[k].period \in 1..now'
                       /\ drafter'["workflow"].jobs[k].period <= DuePeriod(type)'
    BY DEF ClearWay
  <2>1. CASE d = "workflow"
    <3>1. Clear(jobs[k]) /\ drafter'["workflow"].jobs[k] = jobs[k] /\ jobs[k].type = type
      BY <1>2, <2>1
    <3>2. NoneStands(type) /\ jobs[k].period \in 1..now /\ jobs[k].period <= DuePeriod(type)
      BY <3>1 DEF Clear
    <3>. QED
      BY <1>2, <1>6, <1>7, <3>1, <3>2
  <2>2. CASE d # "workflow"
    <3>1. drafter'["workflow"] = drafter["workflow"]
      BY <1>2, <2>2 DEF Places
    <3>. QED
      BY <1>1, <1>2, <1>6, <1>7, <3>1 DEF ClearWay
  <2>. QED
    BY <2>1, <2>2
<1>. QED
  BY <1>3, <1>4, <1>5, <1>8, <1>9 DEF PileInv

LEMMA PileMakes ==
  ASSUME PileInv, NEW d \in Places, CreateDraft(d)
  PROVE  PileInv'
<1>1. /\ Inv /\ OnePlace /\ Dated /\ RowsOfJobs /\ ClearWay /\ now \in Nat /\ now # 0
  BY DEF PileInv, Inv, TypeOK
<1>2. PICK r \in Row : Makes(d, r)
  BY <1>1, CreateIs
<1>3. PICK x \in Drafter : /\ x.jobs = drafter[d].jobs /\ x.pc = "queue"
                           /\ x.draft = Len(rows) + 1 /\ Becomes(d, x)
  BY <1>1, CreateIs
<1>4. Inv' /\ now' = now
  BY <1>1, CreateIs
<1>. DEFINE n == Len(rows) + 1
<1>5. /\ drafter'[d].jobs = drafter[d].jobs /\ drafter'[d].pc = "queue" /\ drafter'[d].draft = n
      /\ \A e \in Places : e # d => drafter'[e] = drafter[e]
  BY <1>3 DEF Becomes
<1>6. /\ drafter[d].pc = "job" /\ r.type = drafter[d].jobs[1].type
      /\ r.period = drafter[d].jobs[1].period
      /\ ~r.ready /\ r.phase = "open" /\ r.month = now
      /\ Ids' = Ids \cup {n} /\ n \notin Ids /\ rows'[n] = r
      /\ \A i \in Ids : rows'[i] = rows[i]
      /\ Len(rows') = n
  BY <1>2 DEF Makes
<1>7. Len(rows) \in Nat /\ 1 \in DOMAIN drafter[d].jobs
  BY <1>1, <1>6, RowsAre, FirstJob DEF Inv
<1>8. RowsStay
  BY <1>6, <1>7 DEF RowsStay, Live
<1>. HIDE DEF n
<1>9. \A e \in Places : Shrinks(e)
  BY <1>1, <1>5, <1>6, SameJobsShrink
<1>10. RowsOfJobs'
  <2>1. ASSUME NEW e \in Places, drafter'[e].pc \in {"queue", "flags"}
        PROVE  /\ rows'[drafter'[e].draft].type = drafter'[e].jobs[1].type
               /\ rows'[drafter'[e].draft].period = drafter'[e].jobs[1].period
    <3>1. CASE e = d
      BY <1>5, <1>6, <3>1
    <3>2. CASE e # d
      <4>1. drafter[e].draft \in Ids /\ drafter'[e] = drafter[e]
        BY <1>1, <1>5, <2>1, <3>2, InvParts DEF RunFits
      <4>. QED
        BY <1>1, <1>6, <2>1, <4>1 DEF RowsOfJobs
    <3>. QED
      BY <3>1, <3>2
  <2>. QED
    BY <1>1, <1>8, <1>9, <2>1, RowsOfJobsKept
<1>11. Dated'
  <2>1. r.type \in Monthly => r.period \in 1..now
    <3>. SUFFICES ASSUME r.type \in Monthly PROVE r.period \in 1..now
      OBVIOUS
    <3>1. d = "workflow"
      BY <1>1, <1>6, <1>7 DEF OnePlace, Monthly, Places
    <3>. QED
      BY <1>1, <1>6, <1>7, <3>1 DEF ClearWay
  <2>2. \A i \in Ids : rows'[i].month \in 1..now' /\
                       (rows'[i].type \in Monthly => rows'[i].period \in 1..now')
    BY <1>1, <1>4, <1>6 DEF Dated
  <2>3. r.month \in 1..now'
    BY <1>1, <1>4, <1>6
  <2>. QED
    BY <1>4, <1>6, <2>1, <2>2, <2>3 DEF Dated
<1>12. \A i \in Ids' : Stands(i)' => i \in Ids /\ Stands(i)
  BY <1>6 DEF Stands, Unsent
<1>13. ASSUME NEW type PROVE Past(type)' = Past(type)
  <2>1. {j \in Ids' : rows'[j].type = type /\ rows'[j].phase \in {"sent", "withdrawn"}}
         = {j \in Ids : rows[j].type = type /\ rows[j].phase \in {"sent", "withdrawn"}}
    BY <1>6
  <2>2. \A i \in Ids : rows'[i].month = rows[i].month
    BY <1>6
  <2>. QED
    BY <2>1, <2>2 DEF Past
<1>14. TestingMonths' = TestingMonths
  <2>1. {j \in Ids' : rows'[j].type = "Testing" /\ rows'[j].phase = "sent"}
         = {j \in Ids : rows[j].type = "Testing" /\ rows[j].phase = "sent"}
    BY <1>6
  <2>2. \A i \in Ids : rows'[i].month = rows[i].month
    BY <1>6
  <2>. QED
    BY <2>1, <2>2 DEF TestingMonths
<1>. QED
  BY <1>1, <1>4, <1>8, <1>9, <1>10, <1>11, <1>12, <1>13, <1>14, PileKept

LEMMA DueStays ==
  ASSUME RowsStay, PhasesStay, UNCHANGED now, NEW type \in Monthly
  PROVE  DuePeriod(type)' = DuePeriod(type)
<1>1. Past(type)' = Past(type) /\ TestingMonths' = TestingMonths
  BY PastStays
<1>. QED
  BY <1>1 DEF DuePeriod, PushPastTesting, Pushed

\* The nightly run raises the flag of its draft: nothing of the type stood, nothing of
\* a later period is due, and its other job is of the other type.
LEMMA PileRaises ==
  ASSUME PileInv, Inv', UNCHANGED now, RowsStay, PhasesStay,
         drafter["workflow"].pc = "flags", GoesOn("workflow", NextOf(drafter["workflow"])),
         \A j \in Ids : Stands(j)' => Stands(j) \/ j = drafter["workflow"].draft
  PROVE  PileInv'
<1>. DEFINE w == "workflow"
            i == drafter[w].draft
            job == drafter[w].jobs[1]
<1>1. /\ Inv /\ OnePlace /\ Dated /\ RowsOfJobs /\ Ahead /\ ClearWay /\ NoPileUp
      /\ now \in Nat /\ w \in Places
  BY DEF PileInv, Inv, TypeOK, Places
<1>2. \A e \in Places : Shrinks(e)
  BY <1>1, GoesOnShrinks
<1>3. OnePlace' /\ RowsOfJobs' /\ Dated'
  BY <1>1, <1>2, OnePlaceKept, HandIs, DatedStays
<1>4. /\ 1 \in DOMAIN drafter[w].jobs /\ i \in Ids
      /\ rows[i].type = job.type /\ rows[i].period = job.period /\ job.type \in Monthly
  BY <1>1, FirstJob, InvParts DEF RunFits, RowsOfJobs, OnePlace
<1>5. \A type \in Monthly : DuePeriod(type)' = DuePeriod(type)
  BY DueStays
<1>6. Ids' = Ids /\ \A j \in Ids : /\ rows'[j].type = rows[j].type
                                   /\ rows'[j].period = rows[j].period
  BY DEF PhasesStay, RowsStay
<1>7. /\ NoneStands(job.type) /\ job.period <= DuePeriod(job.type)
  BY <1>1, <1>4 DEF ClearWay
<1>8. \A j \in Ids : Stands(j)' => Stands(j) \/ j = i
  OBVIOUS
<1>9. /\ drafter'[w] = NextOf(drafter[w]) /\ drafter[w] \in Drafter
      /\ drafter[w].jobs # <<>>
  BY <1>1, InvParts DEF GoesOn, Becomes, RunFits
<1>10. \A t \in Monthly : t = job.type => job.period <= DuePeriod(t)
  BY <1>7
<1>. HIDE DEF i, job, w
<1>11. Ahead'
  <2>. SUFFICES ASSUME NEW j \in Ids, NEW type \in Monthly, rows'[j].type = type, Stands(j)'
                PROVE  rows'[j].period <= DuePeriod(type)'
    BY <1>6 DEF Ahead
  <2>1. CASE Stands(j)
    BY <1>1, <1>5, <1>6, <2>1 DEF Ahead
  <2>2. CASE j = i
    BY <1>4, <1>5, <1>6, <1>10, <2>2
  <2>. QED
    BY <1>8, <2>1, <2>2
<1>12. ClearWay'
  <2>. SUFFICES ASSUME drafter'[w].pc # "idle",
                       NEW k \in DOMAIN drafter'[w].jobs, NEW type \in Monthly,
                       drafter'[w].jobs[k].type = type
                PROVE  /\ NoneStands(type)'
                       /\ drafter'[w].jobs[k].period \in 1..now'
                       /\ drafter'[w].jobs[k].period <= DuePeriod(type)'
    BY DEF ClearWay, w
  <2>1. /\ k + 1 \in DOMAIN drafter[w].jobs /\ k + 1 > 1
        /\ drafter'[w].jobs[k] = drafter[w].jobs[k + 1]
    BY <1>9, NextOfIs
  <2>2. drafter[w].pc # "idle"
    BY DEF w
  <2>3. type # job.type
    BY <1>1, <1>4, <2>1, <2>2 DEF OnePlace, job
  <2>4. /\ NoneStands(type) /\ drafter[w].jobs[k + 1].period \in 1..now
        /\ drafter[w].jobs[k + 1].period <= DuePeriod(type)
    BY <1>1, <2>1, <2>2 DEF ClearWay, w
  <2>5. NoneStands(type)'
    BY <1>4, <1>6, <1>8, <2>3, <2>4 DEF NoneStands
  <2>. QED
    BY <1>5, <2>1, <2>4, <2>5
<1>13. NoPileUp'
  <2>. SUFFICES ASSUME NEW j \in Ids, NEW k \in Ids, j # k, rows[j].type = rows[k].type,
                       rows[j].type \in Monthly, Stands(j)', Stands(k)'
                PROVE  FALSE
    BY <1>6 DEF NoPileUp, Monthly, Stands
  <2>1. CASE Stands(j) /\ Stands(k)
    BY <1>1, <2>1 DEF NoPileUp, Monthly, Stands
  <2>2. CASE j = i
    BY <1>4, <1>7, <1>8, <2>2 DEF NoneStands
  <2>3. CASE k = i
    BY <1>4, <1>7, <1>8, <2>3 DEF NoneStands
  <2>. QED
    BY <1>8, <2>1, <2>2, <2>3
<1>. QED
  BY <1>3, <1>11, <1>12, <1>13 DEF PileInv

LEMMA PileWrites ==
  ASSUME PileInv, NEW d \in Places, WriteFlag(d)
  PROVE  PileInv'
<1>1. Inv /\ OnePlace /\ Dated /\ RowsOfJobs /\ now \in Nat
  BY DEF PileInv, Inv, TypeOK
<1>2. Inv' /\ WritesFlag(d) /\ drafter[d].pc = "flags" /\ now' = now
  BY <1>1, WriteIs DEF WriteFlag
<1>3. ASSUME NEW x, RowsStay, PhasesStay, GoesOn(d, x),
             \A i \in Ids : rows[i].type \in Monthly /\ Stands(i)' => Stands(i)
      PROVE  PileInv'
  <2>1. \A e \in Places : Shrinks(e)
    BY <1>1, <1>3, GoesOnShrinks
  <2>2. RowsOfJobs' /\ Dated'
    BY <1>1, <1>2, <1>3, HandIs, DatedStays
  <2>3. \A i \in Ids' : rows'[i].type \in Monthly /\ Stands(i)' => i \in Ids /\ Stands(i)
    BY <1>3 DEF PhasesStay, RowsStay
  <2>. QED
    BY <1>1, <1>2, <1>3, <2>1, <2>2, <2>3, PastStays, PileKept
<1>4. ASSUME NEW i \in drafter[d].off, NEW x \in Drafter, Calm, PhasesStay, GoesOn(d, x),
             \A j \in Ids : Stands(j)' => Stands(j)
      PROVE  PileInv'
  BY <1>3, <1>4 DEF Calm
<1>5. ASSUME RowsStay, PhasesStay, GoesOn(d, NextOf(drafter[d])), drafter[d].draft \in Ids,
             \A j \in Ids : Stands(j)' => Stands(j) \/ j = drafter[d].draft
      PROVE  PileInv'
  <2>1. CASE d = "workflow"
    BY <1>2, <1>5, <2>1, PileRaises
  <2>2. CASE d # "workflow"
    <3>1. 1 \in DOMAIN drafter[d].jobs
      BY <1>1, <1>2, FirstJob
    <3>2. rows[drafter[d].draft].type \notin Monthly
      BY <1>1, <1>2, <2>2, <3>1 DEF OnePlace, RowsOfJobs, Monthly
    <3>. QED
      BY <1>3, <1>5, <3>2
  <2>. QED
    BY <2>1, <2>2
<1>. QED
  BY <1>2, <1>4, <1>5 DEF WritesFlag

\* What the operator and the send batch do to a row.
LEMMA PileMoves ==
  ASSUME PileInv, NEW i \in Ids, Approve(i) \/ Unapprove(i) \/ Withdraw(i) \/ Send(i)
  PROVE  PileInv'
<1>1. Inv /\ Dated /\ RowsOfJobs /\ NoPileUp /\ now \in Nat /\ now # 0
  BY DEF PileInv, Inv, TypeOK
<1>2. Inv' /\ Calm /\ UNCHANGED <<drafter, now>>
  BY <1>1, MoveIs
<1>3. rows[i] \in Row /\ rows \in Seq(Row)
  BY <1>1, RowsAre DEF Inv, TypeOK
<1>4. PICK r \in Row :
         /\ r.type = rows[i].type /\ r.period = rows[i].period /\ r.ready = rows[i].ready
         /\ \/ rows[i].phase \in {"open", "approved"} /\ r.phase \in {"open", "approved"}
               /\ r.month = rows[i].month
            \/ Stands(i) /\ r.phase \in {"sent", "withdrawn"} /\ r.month \in {rows[i].month, now}
         /\ rows' = [rows EXCEPT ![i] = r]
  <2>1. CASE Approve(i)
    BY <1>3, <2>1, [rows[i] EXCEPT !.phase = "approved"] \in Row DEF Approve, Move, Pending, Row
  <2>2. CASE Unapprove(i)
    BY <1>3, <2>2, [rows[i] EXCEPT !.phase = "open", !.reopened = TRUE] \in Row
       DEF Unapprove, Move, Row
  <2>3. CASE Withdraw(i)
    BY <1>3, <2>3, [rows[i] EXCEPT !.phase = "withdrawn"] \in Row
       DEF Withdraw, Move, Pending, Row, Stands, Unsent
  <2>4. CASE Send(i)
    BY <1>1, <1>3, <2>4, [rows[i] EXCEPT !.phase = "sent", !.month = now] \in Row
       DEF Send, Move, Row, Stands, Unsent
  <2>. QED
    BY <2>1, <2>2, <2>3, <2>4
<1>5. /\ Ids' = Ids /\ RowsStay /\ rows'[i] = r
      /\ \A j \in Ids : j # i => rows'[j] = rows[j]
  BY <1>2, <1>3, <1>4 DEF Calm, Ids
<1>6. \A e \in Places : Shrinks(e)
  BY <1>1, <1>2, OtherShrinks
<1>7. Dated'
  BY <1>1, <1>2, <1>4, <1>5 DEF Dated
<1>8. RowsOfJobs'
  <2>1. ASSUME NEW e \in Places, drafter'[e].pc \in {"queue", "flags"}
        PROVE  /\ rows'[drafter'[e].draft].type = drafter'[e].jobs[1].type
               /\ rows'[drafter'[e].draft].period = drafter'[e].jobs[1].period
    <3>1. drafter[e].draft \in Ids /\ drafter'[e] = drafter[e]
      BY <1>1, <1>2, <2>1, InvParts DEF RunFits
    <3>. QED
      BY <1>1, <1>5, <2>1, <3>1 DEF RowsOfJobs, RowsStay
  <2>. QED
    BY <1>1, <1>5, <1>6, <2>1, RowsOfJobsKept
<1>9. \A j \in Ids' : Stands(j)' => j \in Ids /\ Stands(j)
  BY <1>4, <1>5 DEF Stands, Unsent
<1>10. CASE rows[i].phase \in {"open", "approved"} /\ r.phase \in {"open", "approved"}
  <2>1. ASSUME NEW type PROVE Past(type)' = Past(type)
    <3>1. {j \in Ids' : rows'[j].type = type /\ rows'[j].phase \in {"sent", "withdrawn"}}
           = {j \in Ids : rows[j].type = type /\ rows[j].phase \in {"sent", "withdrawn"}}
      BY <1>5, <1>10
    <3>2. \A j \in {k \in Ids : rows[k].type = type /\ rows[k].phase \in {"sent", "withdrawn"}} :
             rows'[j].month = rows[j].month
      BY <1>5, <1>10
    <3>. QED
      BY <3>1, <3>2 DEF Past
  <2>2. TestingMonths \subseteq TestingMonths'
    <3>1. \A j \in Ids : rows[j].phase = "sent" => rows'[j] = rows[j]
      BY <1>5, <1>10
    <3>. QED
      BY <1>5, <3>1 DEF TestingMonths
  <2>. QED
    BY <1>1, <1>2, <1>5, <1>6, <1>7, <1>8, <1>9, <2>1, <2>2, PileKept
<1>11. CASE Stands(i) /\ r.phase \in {"sent", "withdrawn"}
  <2>1. ASSUME NEW type \in Monthly
        PROVE  Past(type)' = Past(type) \/ (~NoneStands(type) /\ NoneStands(type)')
    <3>1. CASE type = rows[i].type
      <4>1. ~NoneStands(type)
        BY <1>11, <3>1 DEF NoneStands
      <4>2. \A j \in Ids : j # i /\ rows[j].type = type => ~Stands(j)
        BY <1>1, <1>11, <3>1 DEF NoPileUp, Monthly, Stands
      <4>3. ~Stands(i)'
        BY <1>5, <1>11 DEF Stands, Unsent
      <4>4. NoneStands(type)'
        BY <1>5, <1>9, <4>2, <4>3 DEF NoneStands
      <4>. QED
        BY <4>1, <4>4
    <3>2. CASE type # rows[i].type
      <4>1. {j \in Ids' : rows'[j].type = type /\ rows'[j].phase \in {"sent", "withdrawn"}}
             = {j \in Ids : rows[j].type = type /\ rows[j].phase \in {"sent", "withdrawn"}}
        BY <1>4, <1>5, <3>2
      <4>2. \A j \in {k \in Ids : rows[k].type = type /\ rows[k].phase \in {"sent", "withdrawn"}} :
               rows'[j].month = rows[j].month
        BY <1>5, <3>2
      <4>. QED
        BY <4>1, <4>2 DEF Past
    <3>. QED
      BY <3>1, <3>2
  <2>2. TestingMonths \subseteq TestingMonths'
    <3>1. \A j \in Ids : rows[j].phase = "sent" => rows'[j] = rows[j]
      BY <1>5, <1>11 DEF Stands, Unsent
    <3>. QED
      BY <1>5, <3>1 DEF TestingMonths
  <2>. QED
    BY <1>1, <1>2, <1>5, <1>6, <1>7, <1>8, <1>9, <2>1, <2>2, PileKept
<1>. QED
  BY <1>4, <1>10, <1>11

LEMMA PileStepKept ==
  ASSUME PileInv, [Next]_vars, "manual" \notin Programs
  PROVE  PileInv'
<1>1. Inv /\ Inv' /\ Ahead /\ RowsOfJobs /\ now \in Nat
  BY InvKept DEF PileInv, Inv, TypeOK
<1>2. CASE StartNightly
  <2>1. PICK jobs \in Seq(Job) :
           /\ Begins("workflow", jobs) /\ JobsFit(jobs)
           /\ \A k \in DOMAIN jobs : jobs[k].type \in Monthly /\ (Ahead => Clear(jobs[k]))
    BY <1>1, <1>2, NightlyBegins
  <2>2. now' = now
    BY <1>2 DEF StartNightly, Start
  <2>3. /\ "workflow" \in Places
        /\ \A k \in DOMAIN jobs : jobs[k].type \in IF "workflow" = "workflow" THEN Monthly
                                                   ELSE {"Announcement", "Launch"}
        /\ \A k \in DOMAIN jobs : Clear(jobs[k])
    BY <1>1, <2>1 DEF Places
  <2>. QED
    BY <1>1, <2>1, <2>2, <2>3, PileBegins
<1>3. ASSUME NEW program, NEW type \in {"Announcement", "Launch"}, StartRecipe(program, type)
      PROVE  PileInv'
  <2>1. PICK jobs \in Seq(Job) :
           /\ Begins("desk", jobs) /\ JobsFit(jobs)
           /\ \A k \in DOMAIN jobs : jobs[k].type \in {"Announcement", "Launch"}
    BY <1>1, <1>3, RecipeBegins
  <2>2. now' = now
    BY <1>3 DEF StartRecipe, Start
  <2>3. "desk" \in Places /\ "desk" # "workflow"
    BY DEF Places
  <2>. QED
    BY <1>1, <2>1, <2>2, <2>3, PileBegins
<1>4. CASE StartManual
  BY <1>1, <1>4, ManualBegins
<1>5. ASSUME NEW d \in Places, TakeExisting(d) \/ QueueDraft(d) \/ JobFails(d) \/ DrafterDies(d)
      PROVE  PileInv'
  <2>1. UNCHANGED <<rows, now>>
    BY <1>5 DEF TakeExisting, QueueDraft, JobFails, DrafterDies
  <2>2. RowsStay
    BY <1>1, <2>1, UnchangedCalm
  <2>3. PICK x \in Drafter : GoesOn(d, x)
    BY <1>1, <1>5, TakeIs, QueueIs, FailsIs
  <2>4. RowsOfJobs' /\ \A e \in Places : Shrinks(e)
    BY <1>1, <2>2, <2>3, HandIs, GoesOnShrinks
  <2>. QED
    BY <1>1, <2>1, <2>4, PileGoesOn
<1>6. ASSUME NEW i \in Ids, Approve(i) \/ Unapprove(i) \/ Withdraw(i) \/ Send(i)
      PROVE  PileInv'
  BY <1>6, PileMoves
<1>7. CASE NextMonth \/ UNCHANGED vars
  <2>1. UNCHANGED <<rows, drafter>> /\ now <= now'
    BY <1>1, <1>7 DEF NextMonth, vars
  <2>2. RowsOfJobs'
    BY <1>1, <2>1 DEF RowsOfJobs
  <2>. QED
    BY <1>1, <2>1, <2>2, OtherShrinks, PileGoesOn
<1>. QED
  BY <1>2, <1>3, <1>4, <1>5, <1>6, <1>7, PileMakes, PileWrites DEF Next, Drafts

\* The scheduled reports do not pile up, whatever crashes and however the nightly run,
\* the recipes, the operator and the months interleave: what is due never falls behind
\* what stands, so the nightly run's guard sees every draft of the type there can be
\* (draftDueReports' pendingEarlier, pushPastTesting).
THEOREM NothingPilesUp ==
  ASSUME "manual" \notin Programs
  PROVE  Spec => []NoPileUp
<1>1. Init => PileInv
  <2>. SUFFICES ASSUME Init PROVE PileInv
    OBVIOUS
  <2>1. Inv /\ Ids = {} /\ \A d \in Places : drafter[d].pc = "idle"
    BY InvInit, IdleIs DEF Init, Ids
  <2>. QED
    BY <2>1 DEF PileInv, OnePlace, Dated, RowsOfJobs, Ahead, ClearWay, NoPileUp, Places
<1>2. PileInv /\ [Next]_vars => PileInv'
  BY PileStepKept
<1>3. PileInv => NoPileUp
  BY DEF PileInv
<1>. QED
  BY <1>1, <1>2, <1>3, PTL DEF Spec
=============================================================================
