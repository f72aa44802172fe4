------------------------ MODULE ProspectSlotsProofs -------------------------
(***************************************************************************)
(* Theorems about ProspectSlots, for every cap, window and finite number   *)
(* of requests, runs, rows and faults.  They rest on what a run that holds *)
(* a row knows of it, and on the row that answers for each purchase.       *)
(***************************************************************************)
EXTENDS ProspectSlots, FiniteSetTheorems, WellFoundedInduction, TLAPS

-----------------------------------------------------------------------------
(* The inductive invariant *)

\* Types, and what a request and a run that are under way carry.
Shape ==
    /\ TypeOK
    /\ \A i \in RowIds : Exists(i) /\ ~Running(i) => rows[i].claimed = Never
    /\ \A c \in Clicks :
          /\ clicks[c].pc # "idle" => clicks[c].url \in Urls
          /\ clicks[c].pc \in {"dispatching", "releasing"} => clicks[c].row \in RowIds
    /\ \A r \in Runs : runs[r].pc # "idle" => runs[r].url \in Urls

\* A run's row is running, its claim as old as the run, its reservation not stale when
\* it was claimed, and no other run's.
Held ==
    \A r \in Runs : runs[r].row # None =>
        /\ Running(runs[r].row)
        /\ rows[runs[r].row].claimed = runs[r].age
        /\ rows[runs[r].row].created <= Stale + runs[r].age
        /\ \A q \in Runs : runs[q].row = runs[r].row => q = r

\* What a run bought on its row is in the history.
RunsBilled ==
    \A r \in Runs :
        /\ runs[r].bill # None => runs[r].pc = "paid" /\ runs[r].row # None
        /\ runs[r].pc = "paid" /\ runs[r].row # None =>
              /\ runs[r].bill \in Bills
              /\ spent[runs[r].bill].row = runs[r].row
              /\ spent[runs[r].bill].age <= runs[r].age

Used(b) == spent[b] # NoBill

\* A purchase has a row of its own: its run still holds it, or it ended since.
RowsBilled ==
    \A b \in Bills : Used(b) =>
        /\ \/ \E r \in Runs : runs[r].bill = b
           \/ /\ Exists(spent[b].row) /\ ~Running(spent[b].row)
              /\ rows[spent[b].row].created <= spent[b].age
        /\ \A c \in Bills : Used(c) /\ spent[c].row = spent[b].row => c = b

\* The rows a reservation was granted for and that still hold their slot.
Charged ==
    {i \in CountedTowardCap : Running(i) \/ \E b \in Bills : Used(b) /\ spent[b].row = i}

IInv == Shape /\ Held /\ RunsBilled /\ RowsBilled

Sites == {SiteOf[url] : url \in Urls}

Unclaimed(site) ==
    {i \in CountedTowardCap : Running(i) /\ rows[i].claimed = Never /\ Of(site, rows[i].url)}

Dispatching(site) == {c \in Clicks : clicks[c].pc = "dispatching" /\ Of(site, clicks[c].url)}

Queued(site) == {r \in Runs : runs[r].pc = "queued" /\ Of(site, runs[r].url)}

\* Stronger than OneSlotPerAudit: a request that gives its row back has had its fault.
SlotsAsked ==
    \A site \in Sites :
        Cardinality(Unclaimed(site))
            <= Cardinality(Dispatching(site)) + Cardinality(Queued(site)) + faults

CapInv == Cardinality(Charged) <= Cap

-----------------------------------------------------------------------------
(* Types *)

LEMMA ConstantsTyped ==
  /\ Duplicate \in Nat /\ RunLimit \in Nat \ {0} /\ Stale \in Nat /\ Window \in Nat
  /\ Cap \in Nat /\ MaxFaults \in Nat
  /\ RunLimit < Stale /\ Stale + RunLimit <= Window
  /\ None \notin RowIds /\ None \notin Urls /\ None \notin Bills
  /\ Ages = 0..Window /\ Never \in Int /\ Never \notin Ages
BY ProspectSlotsAssumption DEF Ages, Never

LEMMA NoRowIsNone == NoRow \notin Row /\ NoRow.status = "none"
BY DEF NoRow, Row

LEMMA NoBillIsNone == NoBill \notin Bill /\ NoBill.row = None
BY ConstantsTyped DEF NoBill, Bill

LEMMA NoRunIs ==
  /\ NoRun \in Run /\ NoRun.pc = "idle" /\ NoRun.row = None /\ NoRun.bill = None
  /\ NoClick \in Click /\ NoClick.pc = "idle"
BY ConstantsTyped DEF NoRun, Run, NoClick, Click

LEMMA RowTyped ==
  ASSUME rows \in [RowIds -> Row \cup {NoRow}], NEW i \in RowIds
  PROVE  /\ Exists(i) <=> rows[i] \in Row
         /\ Running(i) => Exists(i)
         /\ Exists(i) =>
               /\ rows[i].status \in {"running", "ended"} /\ rows[i].url \in Urls
               /\ rows[i].created \in 0..Window
               /\ rows[i].claimed \in (0..Window) \cup {Never}
<1>1. rows[i] \in Row \/ rows[i] = NoRow
  OBVIOUS
<1>. QED
  BY <1>1, NoRowIsNone, ConstantsTyped DEF Exists, Running, Row

LEMMA InitFits == Init => IInv /\ SlotsAsked /\ CapInv
<1>. SUFFICES ASSUME Init PROVE IInv /\ SlotsAsked /\ CapInv
  OBVIOUS
<1>1. TypeOK
  BY ConstantsTyped, NoRunIs DEF Init, TypeOK
<1>2. Shape
  BY <1>1, NoRunIs DEF Init, Shape, Exists
<1>3. Held /\ RunsBilled /\ RowsBilled
  BY NoRunIs DEF Init, Held, RunsBilled, RowsBilled, Used
<1>4. CountedTowardCap = {}
  BY DEF Init, CountedTowardCap, Exists
<1>5. CapInv
  BY <1>4, FS_EmptySet, ConstantsTyped DEF CapInv, Charged
<1>6. \A site : Unclaimed(site) = {} /\ Dispatching(site) = {} /\ Queued(site) = {}
  BY <1>4, NoRunIs DEF Unclaimed, Dispatching, Queued, Init
<1>7. SlotsAsked
  BY <1>6, FS_EmptySet DEF SlotsAsked, Init
<1>. QED
  BY <1>2, <1>3, <1>5, <1>7 DEF IInv

-----------------------------------------------------------------------------
(* What a step does to a row, a run and a request *)

LEMMA SetRow ==
  ASSUME rows \in [RowIds -> Row \cup {NoRow}], NEW i \in RowIds, NEW x \in Row \cup {NoRow},
         rows' = [rows EXCEPT ![i] = x]
  PROVE  /\ rows' \in [RowIds -> Row \cup {NoRow}] /\ rows'[i] = x
         /\ \A j \in RowIds : j # i => rows'[j] = rows[j]
OBVIOUS

LEMMA SetRun ==
  ASSUME runs \in [Runs -> Run], NEW r \in Runs, NEW x \in Run,
         runs' = [runs EXCEPT ![r] = x]
  PROVE  /\ runs' \in [Runs -> Run] /\ runs'[r] = x
         /\ \A q \in Runs : q # r => runs'[q] = runs[q]
OBVIOUS

LEMMA SetClick ==
  ASSUME clicks \in [Clicks -> Click], NEW c \in Clicks, NEW x \in Click,
         clicks' = [clicks EXCEPT ![c] = x]
  PROVE  /\ clicks' \in [Clicks -> Click] /\ clicks'[c] = x
         /\ \A d \in Clicks : d # c => clicks'[d] = clicks[d]
OBVIOUS

\* The invariant's part about requests.
ClicksFit ==
    /\ clicks \in [Clicks -> Click]
    /\ \A c \in Clicks :
          /\ clicks[c].pc # "idle" => clicks[c].url \in Urls
          /\ clicks[c].pc \in {"dispatching", "releasing"} => clicks[c].row \in RowIds

\* A row of a run, or the report it became, is where it was.
RowsKept ==
    /\ rows' \in [RowIds -> Row \cup {NoRow}]
    /\ \A i \in RowIds :
          /\ Exists(i) /\ (~Running(i) \/ \E r \in Runs : runs[r].row = i) => rows'[i] = rows[i]
          /\ rows'[i] # rows[i] /\ rows'[i] # NoRow /\ rows'[i].status # "running" =>
                rows'[i].claimed = Never

\* A run is as it was, or has no row before and after.
RunsKept ==
    /\ runs' \in [Runs -> Run]
    /\ \A r \in Runs :
          \/ runs'[r] = runs[r]
          \/ /\ runs[r].row = None /\ runs'[r].row = None /\ runs'[r].bill = None
             /\ runs'[r].pc # "idle" => runs'[r].url \in Urls

LEMMA KeptFits ==
  ASSUME IInv, ClicksFit', RowsKept, RunsKept, UNCHANGED spent, faults' = faults \/ Fault
  PROVE  IInv'
<1>1. /\ rows \in [RowIds -> Row \cup {NoRow}] /\ runs \in [Runs -> Run]
      /\ spent \in [Bills -> Bill \cup {NoBill}] /\ faults \in 0..MaxFaults
      /\ \A r \in Runs : runs[r].row # None => Live(r)
  BY DEF IInv, Shape, TypeOK
<1>2. TypeOK'
  <2>1. faults' \in 0..MaxFaults
    BY <1>1, ConstantsTyped DEF Fault
  <2>2. \A r \in Runs : runs'[r].row # None => Live(r)'
    BY <1>1 DEF RunsKept, Live
  <2>. QED
    BY <1>1, <2>1, <2>2 DEF TypeOK, ClicksFit, RowsKept, RunsKept
<1>3. Shape'
  <2>1. \A i \in RowIds : Exists(i)' /\ ~Running(i)' => rows'[i].claimed = Never
    BY DEF IInv, Shape, RowsKept, Exists, Running
  <2>2. \A r \in Runs : runs'[r].pc # "idle" => runs'[r].url \in Urls
    BY DEF IInv, Shape, RunsKept
  <2>. QED
    BY <1>2, <2>1, <2>2 DEF Shape, ClicksFit
<1>4. \A r \in Runs : runs'[r].row = runs[r].row
  BY DEF RunsKept
<1>5. ASSUME NEW r \in Runs, runs'[r].row # None
      PROVE  /\ runs'[r] = runs[r] /\ runs[r].row \in RowIds
             /\ rows'[runs[r].row] = rows[runs[r].row]
  <2>1. runs'[r] = runs[r]
    BY <1>5 DEF RunsKept
  <2>2. runs[r].row \in RowIds
    BY <1>1, <1>5, <2>1 DEF Run
  <2>3. Exists(runs[r].row)
    BY <1>1, <1>5, <2>1, <2>2, RowTyped DEF IInv, Held
  <2>. QED
    BY <2>1, <2>2, <2>3 DEF RowsKept
<1>6. Held'
  BY <1>4, <1>5 DEF IInv, Held, Running
<1>7. RunsBilled'
  <2>1. ASSUME NEW r \in Runs
        PROVE  runs'[r] = runs[r] \/ (runs'[r].bill = None /\ runs'[r].row = None)
    BY DEF RunsKept
  <2>. QED
    BY <2>1 DEF IInv, RunsBilled
<1>8. RowsBilled'
  <2>1. ASSUME NEW b \in Bills, Used(b)
        PROVE  \/ \E r \in Runs : runs'[r].bill = b
               \/ /\ Exists(spent[b].row)' /\ ~Running(spent[b].row)'
                  /\ rows'[spent[b].row].created <= spent[b].age
    <3>1. CASE \E r \in Runs : runs[r].bill = b
      <4>1. PICK r \in Runs : runs[r].bill = b
        BY <3>1
      <4>2. runs[r].row # None
        BY <4>1, ConstantsTyped DEF IInv, RunsBilled
      <4>. QED
        BY <1>4, <1>5, <4>1, <4>2
    <3>2. CASE ~\E r \in Runs : runs[r].bill = b
      <4>1. /\ Exists(spent[b].row) /\ ~Running(spent[b].row)
            /\ rows[spent[b].row].created <= spent[b].age
        BY <2>1, <3>2 DEF IInv, RowsBilled
      <4>2. spent[b].row \in RowIds
        BY <1>1, <2>1 DEF Used, Bill
      <4>3. rows'[spent[b].row] = rows[spent[b].row]
        BY <4>1, <4>2 DEF RowsKept
      <4>. QED
        BY <4>1, <4>3 DEF Exists, Running
    <3>. QED
      BY <3>1, <3>2
  <2>. QED
    BY <2>1 DEF IInv, RowsBilled, Used, Exists, Running
<1>. QED
  BY <1>3, <1>6, <1>7, <1>8 DEF IInv

LEMMA InsertKeeps ==
  ASSUME IInv, NEW i \in RowIds, NEW x \in Row, x.status = "running" \/ x.claimed = Never,
         Insert(i, x)
  PROVE  RowsKept /\ rows'[i] = x /\ \A j \in RowIds : j # i => rows'[j] = rows[j]
<1>1. rows \in [RowIds -> Row \cup {NoRow}] /\ ~Exists(i)
  BY DEF IInv, Shape, TypeOK, Insert
<1>2. /\ rows' \in [RowIds -> Row \cup {NoRow}] /\ rows'[i] = x
      /\ \A j \in RowIds : j # i => rows'[j] = rows[j]
  BY <1>1, SetRow DEF Insert
<1>. QED
  BY <1>1, <1>2 DEF RowsKept

LEMMA SameRowsKept == ASSUME IInv, UNCHANGED rows PROVE RowsKept
BY DEF IInv, Shape, TypeOK, RowsKept

LEMMA SameRunsKept == ASSUME IInv, UNCHANGED runs PROVE RunsKept
BY DEF IInv, Shape, TypeOK, RunsKept

LEMMA SameClicksFit == ASSUME IInv, UNCHANGED clicks PROVE ClicksFit'
BY DEF IInv, Shape, TypeOK, ClicksFit

LEMMA ReservedTyped ==
  ASSUME NEW url \in Urls, NEW claimed \in {0, Never}
  PROVE  /\ Reserved(url, claimed) \in Row /\ Reserved(url, claimed).status = "running"
         /\ Ended(url) \in Row /\ Ended(url).status = "ended" /\ Ended(url).claimed = Never
BY ConstantsTyped DEF Reserved, Ended, Row

-----------------------------------------------------------------------------
(* The cockpit *)

\* A request moves on.
LEMMA ClickMoves ==
  ASSUME IInv, NEW c \in Clicks, NEW pc \in {"checked", "dispatching", "releasing"},
         NEW url \in Urls, NEW row \in RowIds \cup {None}, NEW x \in Click,
         x.pc = pc, x.url = url, x.row = row, pc # "checked" => row \in RowIds,
         clicks' = [clicks EXCEPT ![c] = x]
  PROVE  ClicksFit'
<1>1. clicks \in [Clicks -> Click]
  BY DEF IInv, Shape, TypeOK
<1>2. /\ clicks' \in [Clicks -> Click] /\ clicks'[c] = x
      /\ \A d \in Clicks : d # c => clicks'[d] = clicks[d]
  BY <1>1, SetClick
<1>. QED
  BY <1>2 DEF IInv, Shape, ClicksFit

LEMMA ClickEnds ==
  ASSUME IInv, NEW c \in Clicks, clicks' = [clicks EXCEPT ![c] = NoClick]
  PROVE  ClicksFit'
<1>1. clicks \in [Clicks -> Click]
  BY DEF IInv, Shape, TypeOK
<1>2. /\ clicks' \in [Clicks -> Click] /\ clicks'[c] = NoClick
      /\ \A d \in Clicks : d # c => clicks'[d] = clicks[d]
  BY <1>1, NoRunIs, SetClick
<1>. QED
  BY <1>2, NoRunIs DEF IInv, Shape, ClicksFit

\* Only the pc of a request changes.
LEMMA ClickGoesOn ==
  ASSUME IInv, NEW c \in Clicks, clicks[c].pc \in {"dispatching", "releasing"},
         clicks' = [clicks EXCEPT ![c].pc = "releasing"]
  PROVE  ClicksFit'
<1>. DEFINE x == [clicks[c] EXCEPT !.pc = "releasing"]
<1>1. clicks[c] \in Click /\ clicks[c].url \in Urls /\ clicks[c].row \in RowIds
  BY DEF IInv, Shape, TypeOK
<1>2. x \in Click /\ x.pc = "releasing" /\ x.url = clicks[c].url /\ x.row = clicks[c].row
  BY <1>1 DEF Click
<1>3. clicks' = [clicks EXCEPT ![c] = x]
  OBVIOUS
<1>. HIDE DEF x
<1>. QED
  BY <1>1, <1>2, <1>3, ClickMoves

LEMMA QueueKeeps ==
  ASSUME IInv, NEW url \in Urls, QueueJob(url)
  PROVE  /\ RunsKept
         /\ \E r \in Runs :
               /\ runs[r].pc = "idle" /\ runs'[r].pc = "queued" /\ runs'[r].url = url
               /\ \A q \in Runs : q # r => runs'[q] = runs[q]
<1>1. PICK r \in Runs :
         /\ runs[r].pc = "idle"
         /\ runs' = [runs EXCEPT ![r] = [NoRun EXCEPT
                         !.pc = "queued", !.url = url, !.dispatched = TRUE]]
  BY DEF QueueJob
<1>. DEFINE x == [NoRun EXCEPT !.pc = "queued", !.url = url, !.dispatched = TRUE]
<1>2. /\ x \in Run /\ x.pc = "queued" /\ x.url = url /\ x.row = None /\ x.bill = None
  BY NoRunIs DEF Run
<1>3. runs \in [Runs -> Run] /\ runs[r].row = None
  BY <1>1 DEF IInv, Shape, TypeOK, Live
<1>4. runs' = [runs EXCEPT ![r] = x]
  BY <1>1
<1>. HIDE DEF x
<1>5. /\ runs' \in [Runs -> Run] /\ runs'[r] = x
      /\ \A q \in Runs : q # r => runs'[q] = runs[q]
  BY <1>2, <1>3, <1>4, SetRun
<1>. QED
  BY <1>1, <1>2, <1>3, <1>5 DEF RunsKept

\* A release from the cockpit finds no row of a run.
LEMMA ReleaseKeeps ==
  ASSUME IInv, NEW i \in RowIds, Release(i, TRUE)
  PROVE  /\ RowsKept
         /\ \A j \in RowIds : rows'[j] = rows[j] \/ rows'[j] = NoRow
<1>1. rows \in [RowIds -> Row \cup {NoRow}]
  BY DEF IInv, Shape, TypeOK
<1>2. CASE Releasable(i, TRUE)
  <2>1. /\ rows' \in [RowIds -> Row \cup {NoRow}] /\ rows'[i] = NoRow
        /\ \A j \in RowIds : j # i => rows'[j] = rows[j]
    BY <1>1, <1>2, SetRow DEF Release
  <2>2. Running(i) /\ rows[i].claimed = Never
    BY <1>2 DEF Releasable
  <2>3. \A r \in Runs : runs[r].row # i
    <3>1. ASSUME NEW r \in Runs, runs[r].row = i PROVE FALSE
      <4>1. rows[i].claimed = runs[r].age
        BY <3>1, ConstantsTyped DEF IInv, Held
      <4>2. runs[r].age \in 0..RunLimit
        BY DEF IInv, Shape, TypeOK, Run
      <4>. QED
        BY <2>2, <4>1, <4>2 DEF Never
    <3>. QED
      BY <3>1
  <2>. QED
    BY <2>1, <2>2, <2>3 DEF RowsKept
<1>3. CASE ~Releasable(i, TRUE)
  BY <1>1, <1>3, SameRowsKept DEF Release
<1>. QED
  BY <1>2, <1>3

LEMMA CockpitFits ==
  ASSUME IInv, NEW c \in Clicks,
         \/ \E url \in Urls : CheckDuplicate(c, url)
         \/ ReserveForClick(c) \/ Dispatched(c) \/ DispatchFailed(c)
         \/ DispatchFailedButQueued(c) \/ ReleaseForClick(c) \/ AbandonClick(c)
  PROVE  IInv'
<1>1. /\ clicks[c] \in Click
      /\ clicks[c].pc # "idle" => clicks[c].url \in Urls
      /\ clicks[c].pc \in {"dispatching", "releasing"} => clicks[c].row \in RowIds
  BY DEF IInv, Shape, TypeOK
<1>2. ASSUME NEW url \in Urls, CheckDuplicate(c, url)
      PROVE  IInv'
  <2>. DEFINE x == [NoClick EXCEPT !.pc = "checked", !.url = url]
  <2>1. x \in Click /\ x.pc = "checked" /\ x.url = url /\ x.row = None
    BY DEF NoClick, Click
  <2>2. clicks' = [clicks EXCEPT ![c] = x] /\ UNCHANGED <<rows, runs, spent, faults>>
    BY <1>2 DEF CheckDuplicate
  <2>. HIDE DEF x
  <2>3. ClicksFit'
    BY <2>1, <2>2, ClickMoves
  <2>. QED
    BY <2>2, <2>3, KeptFits, SameRowsKept, SameRunsKept
<1>3. CASE ReserveForClick(c)
  <2>1. clicks[c].pc = "checked" /\ clicks[c].url \in Urls /\ UNCHANGED <<runs, spent, faults>>
    BY <1>1, <1>3 DEF ReserveForClick
  <2>2. CASE HasSlot
    <3>1. PICK i \in RowIds :
             /\ Insert(i, Reserved(clicks[c].url, Never))
             /\ clicks' = [clicks EXCEPT ![c] = [@ EXCEPT !.pc = "dispatching", !.row = i]]
      BY <1>3, <2>2 DEF ReserveForClick
    <3>. DEFINE x == [clicks[c] EXCEPT !.pc = "dispatching", !.row = i]
    <3>2. x \in Click /\ x.pc = "dispatching" /\ x.url = clicks[c].url /\ x.row = i
      BY <1>1 DEF Click
    <3>3. clicks' = [clicks EXCEPT ![c] = x]
      BY <3>1
    <3>. HIDE DEF x
    <3>4. ClicksFit'
      BY <2>1, <3>2, <3>3, ClickMoves
    <3>5. RowsKept
      BY <2>1, <3>1, ReservedTyped, InsertKeeps
    <3>. QED
      BY <2>1, <3>4, <3>5, KeptFits, SameRunsKept
  <2>3. CASE ~HasSlot
    BY <1>3, <2>1, <2>3, ClickEnds, KeptFits, SameRowsKept, SameRunsKept DEF ReserveForClick
  <2>. QED
    BY <2>2, <2>3
<1>4. CASE Dispatched(c)
  <2>1. clicks[c].url \in Urls
    BY <1>1, <1>4 DEF Dispatched
  <2>. QED
    BY <1>4, <2>1, QueueKeeps, ClickEnds, KeptFits, SameRowsKept DEF Dispatched
<1>5. CASE DispatchFailed(c)
  BY <1>5, ClickGoesOn, KeptFits, SameRowsKept, SameRunsKept DEF DispatchFailed
<1>6. CASE DispatchFailedButQueued(c)
  <2>1. clicks[c].url \in Urls
    BY <1>1, <1>6 DEF DispatchFailedButQueued
  <2>. QED
    BY <1>6, <2>1, QueueKeeps, ClickGoesOn, KeptFits, SameRowsKept DEF DispatchFailedButQueued
<1>7. CASE ReleaseForClick(c)
  <2>1. clicks[c].row \in RowIds
    BY <1>1, <1>7 DEF ReleaseForClick
  <2>. QED
    BY <1>7, <2>1, ReleaseKeeps, ClickEnds, KeptFits, SameRunsKept DEF ReleaseForClick
<1>8. CASE AbandonClick(c)
  BY <1>8, ClickEnds, KeptFits, SameRowsKept, SameRunsKept DEF AbandonClick
<1>. QED
  BY <1>2, <1>3, <1>4, <1>5, <1>6, <1>7, <1>8

-----------------------------------------------------------------------------
(* A run takes a row *)

LEMMA WorkIs ==
  ASSUME runs \in [Runs -> Run], NEW r \in Runs, NEW url \in Urls, NEW isJob \in BOOLEAN,
         NEW row \in RowIds \cup {None}, Work(r, url, isJob, row)
  PROVE  /\ runs' \in [Runs -> Run]
         /\ runs'[r].pc = "working" /\ runs'[r].url = url /\ runs'[r].row = row
         /\ runs'[r].age = 0 /\ runs'[r].bill = None
         /\ \A q \in Runs : q # r => runs'[q] = runs[q]
<1>. DEFINE x == [NoRun EXCEPT !.pc = "working", !.url = url, !.dispatched = isJob, !.row = row]
<1>1. NoRun.age = 0
  BY DEF NoRun
<1>2. /\ x \in Run /\ x.pc = "working" /\ x.url = url /\ x.row = row /\ x.age = 0
      /\ x.bill = None
  BY <1>1, NoRunIs DEF Run
<1>3. runs' = [runs EXCEPT ![r] = x]
  BY DEF Work
<1>. HIDE DEF x
<1>. QED
  BY <1>2, <1>3, SetRun

LEMMA ReservingIs ==
  ASSUME runs \in [Runs -> Run], NEW r \in Runs, NEW url \in Urls, NEW isJob \in BOOLEAN,
         ToReserve(r, url, isJob)
  PROVE  /\ runs' \in [Runs -> Run]
         /\ runs'[r].pc = "reserving" /\ runs'[r].url = url /\ runs'[r].row = None
         /\ runs'[r].bill = None
         /\ \A q \in Runs : q # r => runs'[q] = runs[q]
<1>. DEFINE x == [NoRun EXCEPT !.pc = "reserving", !.url = url, !.dispatched = isJob]
<1>1. /\ x \in Run /\ x.pc = "reserving" /\ x.url = url /\ x.row = None /\ x.bill = None
  BY NoRunIs DEF Run
<1>2. runs' = [runs EXCEPT ![r] = x]
  BY DEF ToReserve
<1>. HIDE DEF x
<1>. QED
  BY <1>1, <1>2, SetRun

\* A claim writes a row nobody holds.
LEMMA ClaimIs ==
  ASSUME IInv, NEW url \in Urls, NEW i \in Claimable(url), MarkClaimed(i)
  PROVE  /\ i \in RowIds /\ RowsKept /\ \A q \in Runs : runs[q].row # i
         /\ Running(i) /\ rows[i].claimed = Never /\ SiteOf[rows[i].url] = SiteOf[url]
         /\ rows[i].created <= Stale
         /\ rows'[i] \in Row /\ Running(i)' /\ rows'[i].claimed = 0
         /\ rows'[i].created = rows[i].created /\ rows'[i].url = rows[i].url
         /\ \A j \in RowIds : j # i => rows'[j] = rows[j]
<1>1. /\ i \in RowIds /\ Exists(i) /\ Running(i) /\ rows[i].claimed = Never
      /\ rows[i].created <= Stale /\ SiteOf[rows[i].url] = SiteOf[url]
  BY DEF Claimable, Candidates
<1>2. rows \in [RowIds -> Row \cup {NoRow}] /\ rows[i] \in Row
  BY <1>1, RowTyped DEF IInv, Shape, TypeOK
<1>. DEFINE x == [rows[i] EXCEPT !.claimed = 0]
<1>3. /\ x \in Row /\ x.status = rows[i].status /\ x.claimed = 0
      /\ x.created = rows[i].created /\ x.url = rows[i].url
  BY <1>2, ConstantsTyped DEF Row
<1>4. rows' = [rows EXCEPT ![i] = x]
  BY DEF MarkClaimed
<1>. HIDE DEF x
<1>5. /\ rows' \in [RowIds -> Row \cup {NoRow}] /\ rows'[i] = x
      /\ \A j \in RowIds : j # i => rows'[j] = rows[j]
  BY <1>1, <1>2, <1>3, <1>4, SetRow
<1>6. \A q \in Runs : runs[q].row # i
  <2>1. ASSUME NEW q \in Runs, runs[q].row = i PROVE FALSE
    <3>1. rows[i].claimed = runs[q].age
      BY <1>1, <2>1, ConstantsTyped DEF IInv, Held
    <3>2. runs[q].age \in 0..RunLimit
      BY DEF IInv, Shape, TypeOK, Run
    <3>. QED
      BY <1>1, <3>1, <3>2 DEF Never
  <2>. QED
    BY <2>1
<1>7. RowsKept
  BY <1>1, <1>3, <1>5, <1>6 DEF RowsKept, Running
<1>. QED
  BY <1>1, <1>3, <1>5, <1>6, <1>7 DEF Running

LEMMA TakeFits ==
  ASSUME IInv, NEW r \in Runs, ~Live(r), NEW url \in Urls, NEW isJob \in BOOLEAN,
         NEW i \in RowIds, Work(r, url, isJob, i),
         RowsKept, \A q \in Runs : runs[q].row # i,
         rows'[i] \in Row, Running(i)', rows'[i].claimed = 0, rows'[i].created <= Stale,
         UNCHANGED <<clicks, spent, faults>>
  PROVE  IInv'
<1>1. /\ rows \in [RowIds -> Row \cup {NoRow}] /\ runs \in [Runs -> Run]
      /\ spent \in [Bills -> Bill \cup {NoBill}] /\ faults \in 0..MaxFaults
      /\ clicks \in [Clicks -> Click]
      /\ \A q \in Runs : runs[q].row # None => Live(q)
  BY DEF IInv, Shape, TypeOK
<1>2. /\ runs' \in [Runs -> Run]
      /\ runs'[r].pc = "working" /\ runs'[r].url = url /\ runs'[r].row = i
      /\ runs'[r].age = 0 /\ runs'[r].bill = None
      /\ \A q \in Runs : q # r => runs'[q] = runs[q]
  BY <1>1, WorkIs
<1>3. Shape'
  <2>1. TypeOK'
    BY <1>1, <1>2 DEF TypeOK, RowsKept, Live
  <2>2. \A j \in RowIds : Exists(j)' /\ ~Running(j)' => rows'[j].claimed = Never
    BY DEF IInv, Shape, RowsKept, Exists, Running
  <2>3. \A q \in Runs : runs'[q].pc # "idle" => runs'[q].url \in Urls
    BY <1>2 DEF IInv, Shape
  <2>. QED
    BY <2>1, <2>2, <2>3 DEF IInv, Shape
<1>4. ASSUME NEW q \in Runs, runs[q].row # None
      PROVE  /\ q # r /\ runs'[q] = runs[q] /\ rows'[runs[q].row] = rows[runs[q].row]
             /\ runs[q].row # i
  <2>1. q # r
    BY <1>1, <1>4
  <2>2. runs[q].row \in RowIds
    BY <1>1, <1>4 DEF Run
  <2>3. Exists(runs[q].row)
    BY <1>1, <1>4, <2>2, RowTyped DEF IInv, Held
  <2>. QED
    BY <1>2, <1>4, <2>1, <2>2, <2>3 DEF RowsKept
<1>5. Held'
  <2>1. ASSUME NEW q \in Runs, runs'[q].row # None, q # r
        PROVE  /\ rows'[runs'[q].row].status = "running"
               /\ rows'[runs'[q].row].claimed = runs'[q].age
               /\ rows'[runs'[q].row].created <= Stale + runs'[q].age
               /\ \A p \in Runs : runs'[p].row = runs'[q].row => p = q
    <3>1. runs'[q] = runs[q] /\ runs[q].row # None
      BY <1>2, <2>1
    <3>2. rows'[runs[q].row] = rows[runs[q].row] /\ runs[q].row # i
      BY <1>4, <3>1
    <3>3. \A p \in Runs : runs'[p].row = runs[q].row => p = q
      BY <1>2, <3>1, <3>2 DEF IInv, Held
    <3>. QED
      BY <3>1, <3>2, <3>3 DEF IInv, Held, Running
  <2>2. /\ Running(i)' /\ rows'[i].claimed = runs'[r].age
        /\ rows'[i].created <= Stale + runs'[r].age
        /\ \A p \in Runs : runs'[p].row = i => p = r
    <3>1. rows'[i].created \in Nat
      BY ConstantsTyped DEF Row
    <3>. QED
      BY <1>2, <3>1, ConstantsTyped
  <2>. QED
    BY <1>2, <2>1, <2>2 DEF Held, Running
<1>6. RunsBilled'
  BY <1>2 DEF IInv, RunsBilled
<1>7. RowsBilled'
  <2>1. ASSUME NEW b \in Bills, Used(b)
        PROVE  \/ \E q \in Runs : runs'[q].bill = b
               \/ /\ Exists(spent[b].row)' /\ ~Running(spent[b].row)'
                  /\ rows'[spent[b].row].created <= spent[b].age
    <3>1. CASE \E q \in Runs : runs[q].bill = b
      <4>1. PICK q \in Runs : runs[q].bill = b
        BY <3>1
      <4>2. runs[q].row # None
        BY <4>1, ConstantsTyped DEF IInv, RunsBilled
      <4>. QED
        BY <1>4, <4>1, <4>2
    <3>2. CASE ~\E q \in Runs : runs[q].bill = b
      <4>1. /\ Exists(spent[b].row) /\ ~Running(spent[b].row)
            /\ rows[spent[b].row].created <= spent[b].age
        BY <2>1, <3>2 DEF IInv, RowsBilled
      <4>2. spent[b].row \in RowIds
        BY <1>1, <2>1 DEF Used, Bill
      <4>3. rows'[spent[b].row] = rows[spent[b].row]
        BY <4>1, <4>2 DEF RowsKept
      <4>. QED
        BY <4>1, <4>3 DEF Exists, Running
    <3>. QED
      BY <3>1, <3>2
  <2>. QED
    BY <2>1 DEF IInv, RowsBilled, Used, Exists, Running
<1>. QED
  BY <1>3, <1>5, <1>6, <1>7 DEF IInv

LEMMA RunEnds ==
  ASSUME runs \in [Runs -> Run], NEW r \in Runs, End(r)
  PROVE  /\ runs' \in [Runs -> Run] /\ runs'[r] = NoRun
         /\ \A q \in Runs : q # r => runs'[q] = runs[q]
BY NoRunIs, SetRun DEF End

\* A run without a row moves, and still has none.
LEMMA RowlessKeeps ==
  ASSUME IInv, NEW r \in Runs, runs[r].row = None, runs' \in [Runs -> Run],
         \A q \in Runs : q # r => runs'[q] = runs[q],
         runs'[r].row = None, runs'[r].bill = None, runs'[r].pc # "idle" => runs'[r].url \in Urls
  PROVE  RunsKept
BY DEF RunsKept

LEMMA EndKeeps ==
  ASSUME IInv, NEW r \in Runs, runs[r].row = None, End(r)
  PROVE  RunsKept
<1>1. runs \in [Runs -> Run]
  BY DEF IInv, Shape, TypeOK
<1>. QED
  BY <1>1, RunEnds, RowlessKeeps, NoRunIs

LEMMA ClaimFits ==
  ASSUME IInv, NEW r \in Runs, ~Live(r), NEW url \in Urls, NEW isJob \in BOOLEAN,
         Claim(r, url, isJob), UNCHANGED <<clicks, spent>>
  PROVE  IInv'
<1>1. runs \in [Runs -> Run] /\ runs[r].row = None
  BY DEF IInv, Shape, TypeOK
<1>2. ASSUME NEW i \in Claimable(url), MarkClaimed(i), Work(r, url, isJob, i),
             UNCHANGED faults
      PROVE  IInv'
  BY <1>2, ClaimIs, TakeFits
<1>3. CASE ToReserve(r, url, isJob) /\ UNCHANGED <<rows, faults>>
  <2>1. RunsKept
    BY <1>1, <1>3, ReservingIs, RowlessKeeps
  <2>. QED
    BY <1>3, <2>1, KeptFits, SameRowsKept, SameClicksFit
<1>4. CASE /\ Fault
           /\ UNCHANGED rows \/ \E i \in Claimable(url) : MarkClaimed(i)
           /\ Work(r, url, isJob, None)
  <2>1. RunsKept
    BY <1>1, <1>4, WorkIs, RowlessKeeps
  <2>2. RowsKept
    BY <1>4, ClaimIs, SameRowsKept
  <2>. QED
    BY <1>4, <2>1, <2>2, KeptFits, SameClicksFit
<1>. QED
  BY <1>2, <1>3, <1>4 DEF Claim

LEMMA ReserveFits ==
  ASSUME IInv, NEW r \in Runs, ReserveForRun(r)
  PROVE  IInv'
<1>1. /\ runs \in [Runs -> Run] /\ runs[r].pc = "reserving" /\ runs[r].row = None
      /\ runs[r].url \in Urls /\ ~Live(r) /\ runs[r].dispatched \in BOOLEAN
      /\ UNCHANGED <<clicks, spent>>
  BY DEF IInv, Shape, TypeOK, ReserveForRun, Live, Run
<1>2. ASSUME NEW i \in RowIds, Insert(i, Reserved(runs[r].url, 0))
      PROVE  /\ RowsKept /\ rows'[i] \in Row /\ Running(i)' /\ rows'[i].claimed = 0
             /\ rows'[i].created <= Stale /\ \A q \in Runs : runs[q].row # i
  <2>1. /\ Reserved(runs[r].url, 0) \in Row /\ Reserved(runs[r].url, 0).status = "running"
        /\ Reserved(runs[r].url, 0).claimed = 0 /\ Reserved(runs[r].url, 0).created = 0
    BY <1>1, ReservedTyped DEF Reserved
  <2>2. RowsKept /\ rows'[i] = Reserved(runs[r].url, 0)
    BY <1>2, <2>1, InsertKeeps
  <2>3. \A q \in Runs : runs[q].row # i
    BY <1>2, RowTyped, ConstantsTyped DEF Insert, IInv, Held, Shape, TypeOK
  <2>. QED
    BY <2>1, <2>2, <2>3, ConstantsTyped DEF Running
<1>3. CASE /\ \E i \in RowIds : /\ Insert(i, Reserved(runs[r].url, 0))
                               /\ Work(r, runs[r].url, runs[r].dispatched, i)
           /\ UNCHANGED faults
  BY <1>1, <1>2, <1>3, TakeFits
<1>4. CASE End(r) /\ UNCHANGED <<rows, faults>>
  BY <1>1, <1>4, EndKeeps, KeptFits, SameRowsKept, SameClicksFit
<1>5. CASE /\ Fault
           /\ UNCHANGED rows \/ \E i \in RowIds : Insert(i, Reserved(runs[r].url, 0))
           /\ Work(r, runs[r].url, runs[r].dispatched, None)
  <2>1. RunsKept
    BY <1>1, <1>5, WorkIs, RowlessKeeps
  <2>2. RowsKept
    BY <1>2, <1>5, SameRowsKept
  <2>. QED
    BY <1>1, <1>5, <2>1, <2>2, KeptFits, SameClicksFit
<1>. QED
  BY <1>3, <1>4, <1>5 DEF ReserveForRun

-----------------------------------------------------------------------------
(* A run buys *)

\* A row whose run has bought nothing yet answers for nothing.
LEMMA Unbilled ==
  ASSUME IInv, NEW r \in Runs, runs[r].row # None, runs[r].pc = "working",
         NEW b \in Bills, Used(b)
  PROVE  spent[b].row # runs[r].row
<1>1. CASE \E q \in Runs : runs[q].bill = b
  <2>1. PICK q \in Runs : runs[q].bill = b
    BY <1>1
  <2>2. runs[q].pc = "paid" /\ spent[b].row = runs[q].row
    BY <2>1, ConstantsTyped DEF IInv, RunsBilled
  <2>. QED
    BY <2>2 DEF IInv, Held
<1>2. CASE ~\E q \in Runs : runs[q].bill = b
  BY <1>2 DEF IInv, RowsBilled, Held
<1>. QED
  BY <1>1, <1>2

LEMMA PaysIs ==
  ASSUME runs \in [Runs -> Run], NEW r \in Runs, NEW bill \in Bills \cup {None}, Pays(r, bill)
  PROVE  /\ runs' \in [Runs -> Run]
         /\ runs'[r].pc = "paid" /\ runs'[r].url = runs[r].url /\ runs'[r].row = runs[r].row
         /\ runs'[r].age = runs[r].age /\ runs'[r].bill = bill
         /\ \A q \in Runs : q # r => runs'[q] = runs[q]
<1>. DEFINE x == [runs[r] EXCEPT !.pc = "paid", !.bill = bill]
<1>1. /\ x \in Run /\ x.pc = "paid" /\ x.url = runs[r].url /\ x.row = runs[r].row
      /\ x.age = runs[r].age /\ x.bill = bill
  BY DEF Run
<1>2. runs' = [runs EXCEPT ![r] = x]
  BY DEF Pays
<1>. HIDE DEF x
<1>. QED
  BY <1>1, <1>2, SetRun

LEMMA PaidStageFits ==
  ASSUME IInv, NEW r \in Runs, StartPaidStage(r)
  PROVE  IInv'
<1>1. /\ rows \in [RowIds -> Row \cup {NoRow}] /\ runs \in [Runs -> Run]
      /\ spent \in [Bills -> Bill \cup {NoBill}]
      /\ runs[r].pc = "working" /\ runs[r].url \in Urls
      /\ UNCHANGED <<rows, clicks, faults>>
  BY DEF IInv, Shape, TypeOK, StartPaidStage
<1>2. CASE runs[r].row = None
  <2>1. Pays(r, None) /\ UNCHANGED spent
    BY <1>2 DEF StartPaidStage
  <2>2. RunsKept
    BY <1>1, <1>2, <2>1, PaysIs, RowlessKeeps
  <2>. QED
    BY <1>1, <2>1, <2>2, KeptFits, SameRowsKept, SameClicksFit
<1>3. ASSUME runs[r].row # None, NEW b \in Bills, Bought(r, b), Pays(r, b)
      PROVE  IInv'
  <2>1. runs[r].row \in RowIds /\ runs[r].age \in Nat
    BY <1>1, <1>3, ConstantsTyped DEF Run
  <2>2. /\ runs' \in [Runs -> Run]
        /\ runs'[r].pc = "paid" /\ runs'[r].url = runs[r].url /\ runs'[r].row = runs[r].row
        /\ runs'[r].age = runs[r].age /\ runs'[r].bill = b
        /\ \A q \in Runs : q # r => runs'[q] = runs[q]
    BY <1>1, <1>3, PaysIs
  <2>. DEFINE x == [row |-> runs[r].row, age |-> 0]
  <2>3. x \in Bill /\ x.row = runs[r].row /\ x.age = 0 /\ x # NoBill
    BY <2>1, NoBillIsNone, ConstantsTyped DEF Bill
  <2>4. ~Used(b) /\ spent' = [spent EXCEPT ![b] = x]
    BY <1>3 DEF Bought, Used
  <2>. HIDE DEF x
  <2>5. /\ spent' \in [Bills -> Bill \cup {NoBill}] /\ spent'[b] = x
        /\ \A c \in Bills : c # b => spent'[c] = spent[c]
    BY <1>1, <2>3, <2>4
  <2>6. Shape'
    <3>1. TypeOK'
      BY <1>1, <1>3, <2>2, <2>5 DEF IInv, Shape, TypeOK, Live
    <3>. QED
      BY <1>1, <2>2, <3>1 DEF IInv, Shape, Exists, Running
  <2>7. \A q \in Runs : runs'[q].row = runs[q].row /\ runs'[q].age = runs[q].age
    BY <2>2
  <2>8. Held'
    BY <1>1, <2>7 DEF IInv, Held, Running
  <2>9. ASSUME NEW q \in Runs, q # r, runs[q].bill # None
        PROVE  runs[q].bill # b
    <3>1. runs[q].bill \in Bills /\ spent[runs[q].bill].row = runs[q].row /\ runs[q].row # None
      BY <2>9 DEF IInv, RunsBilled
    <3>. QED
      BY <2>4, <3>1, NoBillIsNone DEF Used
  <2>10. RunsBilled'
    <3>1. ASSUME NEW q \in Runs, q # r
          PROVE  /\ runs'[q].bill # None => runs'[q].pc = "paid" /\ runs'[q].row # None
                 /\ runs'[q].pc = "paid" /\ runs'[q].row # None =>
                       /\ runs'[q].bill \in Bills
                       /\ spent'[runs'[q].bill].row = runs'[q].row
                       /\ spent'[runs'[q].bill].age <= runs'[q].age
      BY <2>2, <2>5, <2>9, <3>1, ConstantsTyped DEF IInv, RunsBilled
    <3>2. /\ runs'[r].pc = "paid" /\ runs'[r].row # None /\ runs'[r].bill = b
          /\ spent'[b].row = runs'[r].row /\ spent'[b].age <= runs'[r].age
      BY <1>3, <2>1, <2>2, <2>3, <2>5
    <3>. QED
      BY <3>1, <3>2 DEF RunsBilled
  <2>11. RowsBilled'
    <3>1. ASSUME NEW c \in Bills, Used(c), c # b
          PROVE  /\ \/ \E q \in Runs : runs'[q].bill = c
                    \/ /\ rows'[spent[c].row] # NoRow
                       /\ rows'[spent[c].row].status # "running"
                       /\ rows'[spent[c].row].created <= spent[c].age
                 /\ spent[c].row # runs[r].row
      <4>1. \A q \in Runs : runs[q].bill = c => q # r
        BY <1>1, <3>1, ConstantsTyped DEF IInv, RunsBilled
      <4>2. \/ \E q \in Runs : runs'[q].bill = c
            \/ /\ Exists(spent[c].row) /\ ~Running(spent[c].row)
               /\ rows[spent[c].row].created <= spent[c].age
        BY <2>2, <3>1, <4>1 DEF IInv, RowsBilled
      <4>3. spent[c].row # runs[r].row
        BY <1>1, <1>3, <3>1, Unbilled
      <4>. QED
        BY <1>1, <4>2, <4>3 DEF Exists, Running
    <3>2. \A c \in Bills : c # b => (Used(c)' <=> Used(c))
      BY <2>5 DEF Used
    <3>3. \E q \in Runs : runs'[q].bill = b
      BY <2>2
    <3>4. \A c, d \in Bills : Used(c) /\ Used(d) /\ spent[c].row = spent[d].row => c = d
      BY DEF IInv, RowsBilled
    <3>5. spent'[b].row = runs[r].row
      BY <2>3, <2>5
    <3>6. ASSUME NEW c \in Bills, Used(c)'
          PROVE  /\ \/ \E q \in Runs : runs'[q].bill = c
                    \/ /\ rows'[spent'[c].row] # NoRow
                       /\ rows'[spent'[c].row].status # "running"
                       /\ rows'[spent'[c].row].created <= spent'[c].age
                 /\ \A d \in Bills : Used(d)' /\ spent'[d].row = spent'[c].row => d = c
      <4>1. CASE c = b
        <5>1. ASSUME NEW d \in Bills, d # b, Used(d)' PROVE spent'[d].row # spent'[b].row
          BY <2>5, <3>1, <3>2, <3>5, <5>1
        <5>. QED
          BY <3>3, <4>1, <5>1
      <4>2. CASE c # b
        <5>1. ASSUME NEW d \in Bills, Used(d)', spent'[d].row = spent'[c].row PROVE d = c
          BY <2>5, <3>1, <3>2, <3>4, <3>5, <3>6, <4>2, <5>1
        <5>. QED
          BY <2>5, <3>1, <3>2, <3>6, <4>2, <5>1 DEF Exists, Running
      <4>. QED
        BY <4>1, <4>2
    <3>. QED
      BY <3>6 DEF RowsBilled, Exists, Running
  <2>. QED
    BY <2>6, <2>8, <2>10, <2>11 DEF IInv
<1>. QED
  BY <1>2, <1>3 DEF StartPaidStage

-----------------------------------------------------------------------------
(* A run ends *)

\* A run that holds a row leaves it as it is, deletes it or ends it, and what it
\* bought is excused unless the row ended.
LEMMA HolderEnds ==
  ASSUME IInv, NEW r \in Runs, NEW i \in RowIds, runs[r].row = i, End(r), UNCHANGED clicks,
         rows' \in [RowIds -> Row \cup {NoRow}],
         \A j \in RowIds : j # i => rows'[j] = rows[j],
         \/ rows'[i] \in {rows[i], NoRow}
         \/ /\ rows'[i] \in Row /\ rows'[i].status = "ended"
            /\ rows'[i].claimed = Never /\ rows'[i].created = 0,
         \/ /\ UNCHANGED spent
            /\ runs[r].bill = None \/ (rows'[i] \in Row /\ rows'[i].status = "ended")
         \/ spent' = Excused(r),
         faults' = faults \/ Fault
  PROVE  IInv'
<1>1. /\ rows \in [RowIds -> Row \cup {NoRow}] /\ runs \in [Runs -> Run]
      /\ spent \in [Bills -> Bill \cup {NoBill}] /\ faults \in 0..MaxFaults
      /\ clicks \in [Clicks -> Click]
      /\ \A q \in Runs : runs[q].row # None => Live(q)
  BY DEF IInv, Shape, TypeOK
<1>2. /\ runs' \in [Runs -> Run] /\ runs'[r] = NoRun
      /\ \A q \in Runs : q # r => runs'[q] = runs[q]
  BY <1>1, RunEnds
<1>3. Running(i) /\ Exists(i) /\ i # None
  BY <1>1, RowTyped, ConstantsTyped DEF IInv, Held
<1>4. /\ spent' \in [Bills -> Bill \cup {NoBill}]
      /\ \A b \in Bills : spent'[b] \in {spent[b], NoBill}
      /\ \A b \in Bills : b # runs[r].bill => spent'[b] = spent[b]
  BY <1>1 DEF Excused
<1>5. Shape'
  <2>1. faults' \in 0..MaxFaults
    BY <1>1, ConstantsTyped DEF Fault
  <2>2. \A q \in Runs : runs'[q].row # None => Live(q)'
    BY <1>1, <1>2, NoRunIs DEF Live
  <2>3. \A j \in RowIds : Exists(j)' /\ ~Running(j)' => rows'[j].claimed = Never
    BY <1>3 DEF IInv, Shape, Exists, Running
  <2>4. \A q \in Runs : runs'[q].pc # "idle" => runs'[q].url \in Urls
    BY <1>2, NoRunIs DEF IInv, Shape
  <2>. QED
    BY <1>1, <1>2, <1>4, <2>1, <2>2, <2>3, <2>4 DEF IInv, Shape, TypeOK
<1>6. ASSUME NEW q \in Runs, runs'[q].row # None
      PROVE  /\ q # r /\ runs'[q] = runs[q] /\ runs[q].row \in RowIds \ {i}
             /\ rows'[runs[q].row] = rows[runs[q].row]
  <2>1. q # r /\ runs'[q] = runs[q]
    BY <1>2, <1>6, NoRunIs
  <2>2. runs[q].row \in RowIds
    BY <1>1, <1>6, <2>1 DEF Run
  <2>3. runs[q].row # i
    BY <1>3, <2>1 DEF IInv, Held
  <2>. QED
    BY <2>1, <2>2, <2>3
<1>7. Held'
  <2>1. ASSUME NEW q \in Runs, runs'[q].row # None
        PROVE  /\ rows'[runs'[q].row].status = "running"
               /\ rows'[runs'[q].row].claimed = runs'[q].age
               /\ rows'[runs'[q].row].created <= Stale + runs'[q].age
               /\ \A p \in Runs : runs'[p].row = runs'[q].row => p = q
    BY <1>2, <1>6, <2>1 DEF IInv, Held, Running
  <2>. QED
    BY <2>1 DEF Held, Running
<1>8. RunsBilled'
  <2>1. ASSUME NEW q \in Runs, q # r, runs[q].bill # None
        PROVE  runs[q].bill # runs[r].bill
    <3>1. SUFFICES ASSUME runs[q].bill = runs[r].bill PROVE FALSE
      OBVIOUS
    <3>2. runs[q].row = spent[runs[q].bill].row /\ runs[r].row = spent[runs[r].bill].row
      BY <2>1, <3>1 DEF IInv, RunsBilled
    <3>. QED
      BY <1>3, <2>1, <3>1, <3>2 DEF IInv, Held
  <2>2. ASSUME NEW q \in Runs, q # r
        PROVE  /\ runs'[q].bill # None => runs'[q].pc = "paid" /\ runs'[q].row # None
               /\ runs'[q].pc = "paid" /\ runs'[q].row # None =>
                     /\ runs'[q].bill \in Bills
                     /\ spent'[runs'[q].bill].row = runs'[q].row
                     /\ spent'[runs'[q].bill].age <= runs'[q].age
    BY <1>2, <1>4, <2>1, <2>2, ConstantsTyped DEF IInv, RunsBilled
  <2>. QED
    BY <1>2, <2>2, NoRunIs DEF RunsBilled
<1>9. RowsBilled'
  <2>1. ASSUME NEW b \in Bills, spent'[b] # NoBill
        PROVE  /\ Used(b) /\ spent'[b] = spent[b]
               /\ \/ \E q \in Runs : runs'[q].bill = b
                  \/ /\ rows'[spent[b].row] # NoRow /\ rows'[spent[b].row].status # "running"
                     /\ rows'[spent[b].row].created <= spent[b].age
    <3>1. Used(b) /\ spent'[b] = spent[b]
      BY <1>4, <2>1 DEF Used
    <3>2. spent[b].row \in RowIds /\ spent[b].age \in Nat
      BY <1>1, <3>1, ConstantsTyped DEF Used, Bill
    <3>3. CASE runs[r].bill = b
      <4>1. UNCHANGED spent /\ rows'[i].status = "ended" /\ rows'[i] \in Row
        BY <2>1, <3>3, ConstantsTyped DEF Excused
      <4>2. spent[b].row = i
        BY <3>3, ConstantsTyped DEF IInv, RunsBilled
      <4>3. rows'[i].created = 0 /\ rows'[i] # NoRow
        BY <1>3, <4>1, NoRowIsNone DEF Running
      <4>. QED
        BY <3>1, <3>2, <4>1, <4>2, <4>3
    <3>4. ASSUME NEW q \in Runs, q # r, runs[q].bill = b
          PROVE  \E p \in Runs : runs'[p].bill = b
      BY <1>2, <3>4
    <3>5. CASE ~\E q \in Runs : runs[q].bill = b
      <4>1. /\ Exists(spent[b].row) /\ ~Running(spent[b].row)
            /\ rows[spent[b].row].created <= spent[b].age
        BY <3>1, <3>5 DEF IInv, RowsBilled
      <4>2. spent[b].row # i
        BY <1>3, <4>1
      <4>. QED
        BY <3>1, <3>2, <4>1, <4>2 DEF Exists, Running
    <3>. QED
      BY <3>1, <3>3, <3>4, <3>5
  <2>2. \A b, c \in Bills : Used(b) /\ Used(c) /\ spent[b].row = spent[c].row => b = c
    BY DEF IInv, RowsBilled
  <2>3. ASSUME NEW b \in Bills, spent'[b] # NoBill,
               NEW c \in Bills, spent'[c] # NoBill, spent'[c].row = spent'[b].row
        PROVE  c = b
    BY <2>1, <2>2, <2>3
  <2>4. ASSUME NEW b \in Bills, spent'[b] # NoBill
        PROVE  \/ \E q \in Runs : runs'[q].bill = b
               \/ /\ rows'[spent'[b].row] # NoRow /\ rows'[spent'[b].row].status # "running"
                  /\ rows'[spent'[b].row].created <= spent'[b].age
    BY <2>1, <2>4
  <2>. QED
    BY <2>3, <2>4 DEF RowsBilled, Used, Exists, Running
<1>. QED
  BY <1>5, <1>7, <1>8, <1>9 DEF IInv

\* What a run that holds a row knows of it.
LEMMA HolderIs ==
  ASSUME IInv, NEW r \in Runs, runs[r].row # None
  PROVE  /\ runs[r].row \in RowIds /\ Live(r) /\ runs[r].url \in Urls
         /\ rows[runs[r].row] \in Row /\ Running(runs[r].row)
<1>1. /\ rows \in [RowIds -> Row \cup {NoRow}] /\ runs[r] \in Run
      /\ Live(r) /\ runs[r].row \in RowIds /\ Running(runs[r].row)
  BY DEF IInv, Shape, TypeOK, Held, Run
<1>2. rows[runs[r].row] \in Row
  BY <1>1, RowTyped
<1>3. runs[r].url \in Urls
  BY <1>1 DEF IInv, Shape, Live
<1>. QED
  BY <1>1, <1>2, <1>3

LEMMA ThrowUnpaidFits ==
  ASSUME IInv, NEW r \in Runs, ThrowUnpaid(r)
  PROVE  IInv'
<1>1. /\ rows \in [RowIds -> Row \cup {NoRow}] /\ End(r) /\ UNCHANGED <<clicks, spent>>
      /\ runs[r].pc = "working" /\ runs[r].bill = None /\ (faults' = faults \/ Fault)
  BY DEF IInv, Shape, TypeOK, RunsBilled, ThrowUnpaid
<1>2. CASE runs[r].row = None
  BY <1>1, <1>2, EndKeeps, KeptFits, SameRowsKept, SameClicksFit DEF ThrowUnpaid
<1>3. CASE runs[r].row # None
  <2>. DEFINE i == runs[r].row
  <2>1. i \in RowIds
    BY <1>3, HolderIs
  <2>2. UNCHANGED rows \/ rows' = [rows EXCEPT ![i] = NoRow]
    BY <1>3 DEF ThrowUnpaid, Release
  <2>3. /\ rows' \in [RowIds -> Row \cup {NoRow}] /\ rows'[i] \in {rows[i], NoRow}
        /\ \A j \in RowIds : j # i => rows'[j] = rows[j]
    BY <1>1, <2>1, <2>2, SetRow
  <2>. QED
    BY <1>1, <2>1, <2>3, HolderEnds
<1>. QED
  BY <1>2, <1>3

LEMMA ThrowPaidFits ==
  ASSUME IInv, NEW r \in Runs, ThrowPaid(r)
  PROVE  IInv'
<1>1. /\ rows \in [RowIds -> Row \cup {NoRow}] /\ End(r) /\ UNCHANGED <<clicks, spent, faults>>
  BY DEF IInv, Shape, TypeOK, ThrowPaid
<1>2. CASE runs[r].row = None
  BY <1>1, <1>2, EndKeeps, KeptFits, SameRowsKept, SameClicksFit DEF ThrowPaid
<1>3. CASE runs[r].row # None
  <2>. DEFINE i == runs[r].row
              x == Ended(rows[i].url)
  <2>1. i \in RowIds /\ Running(i) /\ rows[i].url \in Urls
    BY <1>3, HolderIs DEF Row
  <2>2. /\ x \in Row /\ x.status = "ended" /\ x.claimed = Never /\ x.created = 0
    BY <2>1, ReservedTyped DEF Ended
  <2>3. rows' = [rows EXCEPT ![i] = x]
    BY <1>3, <2>1 DEF ThrowPaid, Fail
  <2>. HIDE DEF x
  <2>4. /\ rows' \in [RowIds -> Row \cup {NoRow}] /\ rows'[i] = x
        /\ \A j \in RowIds : j # i => rows'[j] = rows[j]
    BY <1>1, <2>1, <2>2, <2>3, SetRow
  <2>. QED
    BY <1>1, <2>1, <2>2, <2>4, HolderEnds
<1>. QED
  BY <1>2, <1>3

LEMMA FinishFits ==
  ASSUME IInv, NEW r \in Runs, Finish(r)
  PROVE  IInv'
<1>1. /\ rows \in [RowIds -> Row \cup {NoRow}] /\ End(r) /\ UNCHANGED <<clicks, spent, faults>>
      /\ runs[r].url \in Urls /\ FinishRow(r)
  BY DEF IInv, Shape, TypeOK, Finish, Live
<1>. DEFINE x == Ended(runs[r].url)
<1>2. /\ x \in Row /\ x.status = "ended" /\ x.claimed = Never /\ x.created = 0
  BY <1>1, ReservedTyped DEF Ended
<1>3. CASE runs[r].row = None
  <2>1. \E j \in RowIds : Insert(j, x)
    BY <1>1, <1>3 DEF FinishRow
  <2>. HIDE DEF x
  <2>2. RowsKept
    BY <1>2, <2>1, InsertKeeps
  <2>. QED
    BY <1>1, <1>3, <2>2, EndKeeps, KeptFits, SameClicksFit
<1>4. CASE runs[r].row # None
  <2>. DEFINE i == runs[r].row
  <2>1. i \in RowIds /\ Running(i)
    BY <1>4, HolderIs
  <2>2. rows' = [rows EXCEPT ![i] = x]
    BY <1>1, <1>4, <2>1 DEF FinishRow
  <2>. HIDE DEF x
  <2>3. /\ rows' \in [RowIds -> Row \cup {NoRow}] /\ rows'[i] = x
        /\ \A j \in RowIds : j # i => rows'[j] = rows[j]
    BY <1>1, <1>2, <2>1, <2>2, SetRow
  <2>. QED
    BY <1>1, <1>2, <2>1, <2>3, HolderEnds
<1>. QED
  BY <1>3, <1>4

LEMMA VanishFits ==
  ASSUME IInv, NEW r \in Runs, Vanish(r)
  PROVE  IInv'
<1>1. /\ rows \in [RowIds -> Row \cup {NoRow}] /\ End(r) /\ UNCHANGED <<rows, clicks>>
      /\ Fault /\ spent' = Excused(r)
      /\ spent \in [Bills -> Bill \cup {NoBill}]
  BY DEF IInv, Shape, TypeOK, Vanish
<1>2. CASE runs[r].row = None
  <2>1. runs[r].bill = None
    BY <1>2 DEF IInv, RunsBilled
  <2>2. UNCHANGED spent
    BY <1>1, <2>1, ConstantsTyped DEF Excused
  <2>. QED
    BY <1>1, <1>2, <2>2, EndKeeps, KeptFits, SameRowsKept, SameClicksFit
<1>3. CASE runs[r].row # None
  BY <1>1, <1>3, HolderIs, HolderEnds
<1>. QED
  BY <1>2, <1>3

LEMMA LoseJobFits ==
  ASSUME IInv, NEW r \in Runs, LoseJob(r)
  PROVE  IInv'
<1>1. runs[r].row = None
  BY DEF IInv, Shape, TypeOK, LoseJob, Live
<1>. QED
  BY <1>1, EndKeeps, KeptFits, SameRowsKept, SameClicksFit DEF LoseJob

LEMMA StartFits ==
  ASSUME IInv, NEW r \in Runs, StartJob(r) \/ \E url \in Urls : StartByHand(r, url)
  PROVE  IInv'
<1>1. runs[r].pc = "queued" => runs[r].url \in Urls
  BY DEF IInv, Shape
<1>2. CASE StartJob(r)
  BY <1>1, <1>2, ClaimFits DEF StartJob, Live
<1>3. ASSUME NEW url \in Urls, StartByHand(r, url) PROVE IInv'
  BY <1>3, ClaimFits DEF StartByHand, Live
<1>. QED
  BY <1>2, <1>3

-----------------------------------------------------------------------------
(* Time passes *)

LEMMA AgedRowIs ==
  ASSUME NEW x \in Row, x.created < Window, x.claimed < Window
  PROVE  /\ AgedRow(x) \in Row /\ AgedRow(x).status = x.status /\ AgedRow(x).url = x.url
         /\ AgedRow(x).created = x.created + 1
         /\ AgedRow(x).claimed = IF x.claimed = Never THEN Never ELSE x.claimed + 1
<1>. DEFINE created == Older(x.created)
            claimed == Older(x.claimed)
<1>1. x.created \in 0..Window /\ x.claimed \in (0..Window) \cup {Never}
  BY ConstantsTyped DEF Row
<1>2. /\ created = x.created + 1 /\ created \in Ages
      /\ claimed = IF x.claimed = Never THEN Never ELSE x.claimed + 1
      /\ claimed \in Ages \cup {Never}
  BY <1>1, ConstantsTyped DEF Older, Never
<1>3. AgedRow(x) = [x EXCEPT !.created = created, !.claimed = claimed]
  BY DEF AgedRow
<1>. HIDE DEF created, claimed
<1>. QED
  BY <1>2, <1>3 DEF Row

LEMMA AgedRunIs ==
  ASSUME NEW x \in Run, x.pc \in {"working", "paid"} => x.age < RunLimit
  PROVE  /\ AgedRun(x) \in Run /\ AgedRun(x).pc = x.pc /\ AgedRun(x).url = x.url
         /\ AgedRun(x).row = x.row /\ AgedRun(x).bill = x.bill
         /\ AgedRun(x).age = IF x.pc \in {"working", "paid"} THEN x.age + 1 ELSE x.age
         /\ AgedRun(x).dispatched = x.dispatched
<1>1. x.age \in 0..RunLimit
  BY DEF Run
<1>2. x.pc \in {"working", "paid"} => x.age + 1 \in 0..RunLimit
  BY <1>1, ConstantsTyped
<1>. QED
  BY <1>1, <1>2 DEF AgedRun, Run

\* What a tick does to a row: the row of a run stays, and so does a report the cap
\* still counts.
LEMMA TickRows ==
  ASSUME IInv, Tick, NEW i \in RowIds
  PROVE  /\ rows'[i] \in Row \cup {NoRow}
         /\ rows'[i] \in Row =>
              /\ rows[i] \in Row /\ rows[i].created < Window
              /\ rows'[i] = AgedRow(rows[i])
              /\ rows'[i].status = rows[i].status
              /\ rows'[i].url = rows[i].url
              /\ rows'[i].created = rows[i].created + 1
              /\ rows'[i].claimed = IF rows[i].claimed = Never THEN Never
                                                               ELSE rows[i].claimed + 1
         /\ (\E r \in Runs : runs[r].row = i) => rows'[i] \in Row
         /\ Exists(i) /\ ~Running(i) => (rows'[i] \in Row <=> rows[i].created < Window)
<1>1. /\ rows \in [RowIds -> Row \cup {NoRow}] /\ runs \in [Runs -> Run]
      /\ \A r \in Runs : Live(r) => runs[r].age < RunLimit
      /\ rows'[i] = NextRow(i)
  BY DEF IInv, Shape, TypeOK, Tick
<1>2. ASSUME NEW r \in Runs, runs[r].row = i
      PROVE  rows[i].created < Window /\ rows[i].claimed < Window /\ Exists(i)
  <2>1. Live(r) /\ rows[i] \in Row /\ runs[r].age \in Nat /\ runs[r].age < RunLimit
    BY <1>1, <1>2, HolderIs, ConstantsTyped DEF Run
  <2>2. rows[i].claimed = runs[r].age /\ rows[i].created <= Stale + runs[r].age
    BY <1>2, ConstantsTyped DEF IInv, Held
  <2>3. rows[i].created \in Nat
    BY <2>1, ConstantsTyped DEF Row
  <2>. QED
    BY <1>1, <2>1, <2>2, <2>3, RowTyped, ConstantsTyped
<1>3. ASSUME Exists(i), ~Running(i)
      PROVE  rows[i].claimed = Never
  BY <1>3 DEF IInv, Shape
<1>4. ASSUME Exists(i)
      PROVE  /\ rows[i] \in Row /\ rows[i].created \in 0..Window
             /\ rows[i].claimed \in (0..Window) \cup {Never}
  BY <1>1, <1>4, RowTyped
<1>5. AgedRow(rows[i]).created = Older(rows[i].created) \/ ~Exists(i)
  BY <1>4 DEF AgedRow, Row
<1>6. AgedRow(rows[i]).claimed = Older(rows[i].claimed) \/ ~Exists(i)
  BY <1>4 DEF AgedRow, Row
<1>7. AgedRow(rows[i]).status = rows[i].status \/ ~Exists(i)
  BY <1>4 DEF AgedRow, Row
<1>8. ASSUME Exists(i), Counts(AgedRow(rows[i]))
      PROVE  rows[i].created < Window /\ rows[i].claimed < Window
  <2>1. rows[i].created < Window
    BY <1>4, <1>5, <1>8, ConstantsTyped DEF Counts, Older
  <2>2. CASE Running(i)
    <3>1. HeldFor(AgedRow(rows[i])) <= Stale
      BY <1>7, <1>8, <2>2 DEF Counts, Running
    <3>2. rows[i].claimed = Never \/ rows[i].claimed + 1 <= Stale
      BY <1>4, <1>6, <1>8, <3>1, ConstantsTyped DEF HeldFor, Older, Never
    <3>. QED
      BY <1>4, <1>8, <2>1, <3>2, ConstantsTyped DEF Never
  <2>3. CASE ~Running(i)
    BY <1>3, <1>8, <2>1, <2>3, ConstantsTyped DEF Never
  <2>. QED
    BY <2>2, <2>3
<1>9. ASSUME Exists(i), ~Running(i)
      PROVE  Counts(AgedRow(rows[i])) <=> rows[i].created < Window
  BY <1>4, <1>5, <1>7, <1>9, ConstantsTyped DEF Counts, Older, Running
<1>10. CASE /\ Exists(i)
            /\ Counts(AgedRow(rows[i])) \/ \E r \in Runs : runs[r].row = i
  <2>1. rows[i] \in Row /\ rows[i].created < Window /\ rows[i].claimed < Window
    BY <1>2, <1>4, <1>8, <1>10
  <2>2. rows'[i] = AgedRow(rows[i])
    BY <1>1, <1>10 DEF NextRow
  <2>. QED
    BY <1>9, <1>10, <2>1, <2>2, AgedRowIs
<1>11. CASE ~(/\ Exists(i)
              /\ Counts(AgedRow(rows[i])) \/ \E r \in Runs : runs[r].row = i)
  <2>1. rows'[i] = NoRow
    BY <1>1, <1>11 DEF NextRow
  <2>. QED
    BY <1>2, <1>9, <1>11, <2>1, NoRowIsNone
<1>. QED
  BY <1>10, <1>11

\* What a tick does to a purchase.
LEMMA TickBills ==
  ASSUME IInv, Tick, NEW b \in Bills
  PROVE  /\ spent'[b] \in Bill \cup {NoBill}
         /\ Used(b)' =>
              /\ Used(b) /\ spent[b] \in Bill /\ spent[b].age < Window
              /\ spent'[b].row = spent[b].row /\ spent'[b].age = spent[b].age + 1
         /\ Used(b) /\ spent[b].age < Window => Used(b)'
<1>1. spent[b] \in Bill \cup {NoBill} /\ spent'[b] = NextBill(b)
  BY DEF IInv, Shape, TypeOK, Tick
<1>2. CASE Used(b) /\ spent[b].age < Window
  <2>. DEFINE x == [spent[b] EXCEPT !.age = @ + 1]
  <2>1. spent[b] \in Bill /\ spent[b].age \in 0..Window
    BY <1>1, <1>2, ConstantsTyped DEF Used, Bill
  <2>2. x \in Bill /\ x.row = spent[b].row /\ x.age = spent[b].age + 1
    BY <1>2, <2>1, ConstantsTyped DEF Bill
  <2>3. spent'[b] = x
    BY <1>1, <1>2 DEF NextBill, Used
  <2>. HIDE DEF x
  <2>. QED
    BY <1>2, <2>1, <2>2, <2>3, NoBillIsNone DEF Used
<1>3. CASE ~(Used(b) /\ spent[b].age < Window)
  BY <1>1, <1>3 DEF NextBill, Used
<1>. QED
  BY <1>2, <1>3

LEMMA TickRuns ==
  ASSUME IInv, Tick, NEW r \in Runs
  PROVE  /\ runs'[r] \in Run /\ runs'[r].pc = runs[r].pc /\ runs'[r].url = runs[r].url
         /\ runs'[r].row = runs[r].row /\ runs'[r].bill = runs[r].bill
         /\ runs'[r].age = IF Live(r) THEN runs[r].age + 1 ELSE runs[r].age
         /\ Live(r) => runs[r].age < RunLimit
<1>1. runs[r] \in Run /\ runs'[r] = AgedRun(runs[r]) /\ (Live(r) => runs[r].age < RunLimit)
  BY DEF IInv, Shape, TypeOK, Tick
<1>. QED
  BY <1>1, AgedRunIs DEF Live

LEMMA TickFits ==
  ASSUME IInv, Tick
  PROVE  IInv'
<1>1. /\ rows \in [RowIds -> Row \cup {NoRow}] /\ runs \in [Runs -> Run]
      /\ \A r \in Runs : runs[r].row # None => Live(r)
      /\ UNCHANGED <<clicks, faults>>
  BY DEF IInv, Shape, TypeOK, Tick
<1>2. Shape'
  <2>1. rows' \in [RowIds -> Row \cup {NoRow}]
    BY TickRows DEF Tick
  <2>2. runs' \in [Runs -> Run]
    BY TickRuns DEF Tick
  <2>3. spent' \in [Bills -> Bill \cup {NoBill}]
    BY TickBills DEF Tick
  <2>4. \A r \in Runs : runs'[r].row # None => Live(r)'
    BY <1>1, TickRuns DEF Live
  <2>5. ASSUME NEW i \in RowIds, Exists(i)', ~Running(i)'
        PROVE  rows'[i].claimed = Never
    <3>1. rows'[i] \in Row
      BY <2>1, <2>5 DEF Exists
    <3>2. Exists(i) /\ ~Running(i)
      BY <1>1, <2>5, <3>1, TickRows, RowTyped DEF Running
    <3>3. rows[i].claimed = Never
      BY <3>2 DEF IInv, Shape
    <3>. QED
      BY <3>1, <3>3, TickRows
  <2>6. \A r \in Runs : runs'[r].pc # "idle" => runs'[r].url \in Urls
    BY TickRuns DEF IInv, Shape
  <2>. QED
    BY <1>1, <2>1, <2>2, <2>3, <2>4, <2>5, <2>6 DEF IInv, Shape, TypeOK
<1>3. Held'
  <2>1. ASSUME NEW r \in Runs, runs'[r].row # None
        PROVE  /\ rows'[runs'[r].row].status = "running"
               /\ rows'[runs'[r].row].claimed = runs'[r].age
               /\ rows'[runs'[r].row].created <= Stale + runs'[r].age
               /\ \A q \in Runs : runs'[q].row = runs'[r].row => q = r
    <3>. DEFINE i == runs[r].row
    <3>1. runs'[r].row = i /\ i # None
      BY <2>1, TickRuns
    <3>2. i \in RowIds /\ Live(r) /\ Running(i) /\ runs[r].age \in Nat
      BY <1>1, <3>1, HolderIs, ConstantsTyped DEF Run
    <3>3. /\ rows[i].claimed = runs[r].age /\ rows[i].created <= Stale + runs[r].age
          /\ \A q \in Runs : runs[q].row = i => q = r
      BY <3>1 DEF IInv, Held
    <3>4. rows'[i] \in Row /\ runs'[r].age = runs[r].age + 1
      BY <3>2, TickRows, TickRuns
    <3>5. rows[i].created \in Nat
      BY <3>2, <3>4, TickRows, ConstantsTyped DEF Row
    <3>6. /\ rows'[i].status = rows[i].status /\ rows'[i].created = rows[i].created + 1
          /\ rows'[i].claimed = rows[i].claimed + 1
      BY <3>2, <3>3, <3>4, TickRows DEF Never
    <3>7. rows'[i].created <= Stale + runs'[r].age
      BY <3>2, <3>3, <3>4, <3>5, <3>6, ConstantsTyped
    <3>8. \A q \in Runs : runs'[q].row = i => q = r
      BY <3>3, TickRuns
    <3>. QED
      BY <3>1, <3>2, <3>3, <3>4, <3>6, <3>7, <3>8 DEF Running
  <2>. QED
    BY <2>1 DEF Held, Running
<1>4. RunsBilled'
  <2>1. ASSUME NEW r \in Runs
        PROVE  /\ runs'[r].bill # None => runs'[r].pc = "paid" /\ runs'[r].row # None
               /\ runs'[r].pc = "paid" /\ runs'[r].row # None =>
                     /\ runs'[r].bill \in Bills
                     /\ spent'[runs'[r].bill].row = runs'[r].row
                     /\ spent'[runs'[r].bill].age <= runs'[r].age
    <3>1. runs[r].bill # None => runs[r].pc = "paid" /\ runs[r].row # None
      BY DEF IInv, RunsBilled
    <3>2. CASE runs[r].pc = "paid" /\ runs[r].row # None
      <4>. DEFINE b == runs[r].bill
      <4>1. /\ b \in Bills /\ spent[b].row = runs[r].row /\ spent[b].age <= runs[r].age
        BY <3>2 DEF IInv, RunsBilled
      <4>2. Live(r) /\ runs[r].row \in RowIds /\ runs[r].age \in Nat
        BY <1>1, <3>2, HolderIs, ConstantsTyped DEF Run
      <4>3. runs[r].age < RunLimit /\ runs'[r].age = runs[r].age + 1
        BY <4>2, TickRuns
      <4>4. Used(b) /\ spent[b].age \in Nat
        BY <3>2, <4>1, NoBillIsNone, ConstantsTyped DEF Used, Bill, IInv, Shape, TypeOK
      <4>5. spent[b].age < Window
        BY <4>1, <4>2, <4>3, <4>4, ConstantsTyped
      <4>6. spent'[b].row = spent[b].row /\ spent'[b].age = spent[b].age + 1
        BY <4>1, <4>4, <4>5, TickBills
      <4>7. spent'[b].age <= runs'[r].age
        BY <4>1, <4>2, <4>3, <4>4, <4>6
      <4>. QED
        BY <3>2, <4>1, <4>6, <4>7, TickRuns
    <3>3. CASE ~(runs[r].pc = "paid" /\ runs[r].row # None)
      BY <3>1, <3>3, TickRuns
    <3>. QED
      BY <3>2, <3>3
  <2>. QED
    BY <2>1 DEF RunsBilled
<1>5. RowsBilled'
  <2>1. ASSUME NEW b \in Bills, spent'[b] # NoBill
        PROVE  /\ Used(b) /\ spent'[b].row = spent[b].row
               /\ \/ \E q \in Runs : runs'[q].bill = b
                  \/ /\ rows'[spent'[b].row] # NoRow
                     /\ rows'[spent'[b].row].status # "running"
                     /\ rows'[spent'[b].row].created <= spent'[b].age
    <3>1. /\ Used(b) /\ spent[b] \in Bill /\ spent[b].age < Window
          /\ spent'[b].row = spent[b].row /\ spent'[b].age = spent[b].age + 1
      BY <2>1, TickBills DEF Used
    <3>2. CASE \E q \in Runs : runs[q].bill = b
      BY <3>1, <3>2, TickRuns
    <3>3. CASE ~\E q \in Runs : runs[q].bill = b
      <4>. DEFINE i == spent[b].row
      <4>1. /\ Exists(i) /\ ~Running(i) /\ rows[i].created <= spent[b].age
        BY <3>1, <3>3 DEF IInv, RowsBilled
      <4>2. i \in RowIds /\ spent[b].age \in Nat
        BY <3>1, ConstantsTyped DEF Bill
      <4>3. rows[i].created \in Nat
        BY <1>1, <4>1, <4>2, RowTyped, ConstantsTyped
      <4>4. rows'[i] \in Row
        BY <3>1, <4>1, <4>2, <4>3, TickRows, ConstantsTyped
      <4>5. rows'[i].status = rows[i].status /\ rows'[i].created = rows[i].created + 1
        BY <4>2, <4>4, TickRows
      <4>6. rows'[i].created <= spent'[b].age
        BY <3>1, <4>1, <4>2, <4>3, <4>5
      <4>. QED
        BY <3>1, <4>1, <4>4, <4>5, <4>6, NoRowIsNone DEF Running
    <3>. QED
      BY <3>2, <3>3
  <2>2. \A b, c \in Bills : Used(b) /\ Used(c) /\ spent[b].row = spent[c].row => b = c
    BY DEF IInv, RowsBilled
  <2>3. ASSUME NEW b \in Bills, spent'[b] # NoBill,
               NEW c \in Bills, spent'[c] # NoBill, spent'[c].row = spent'[b].row
        PROVE  c = b
    BY <2>1, <2>2, <2>3
  <2>. QED
    BY <2>1, <2>3 DEF RowsBilled, Used, Exists, Running
<1>. QED
  BY <1>2, <1>3, <1>4, <1>5 DEF IInv

-----------------------------------------------------------------------------
(* Types, and the brake on a run *)

LEMMA StepFits == IInv /\ [Next]_vars => IInv'
<1>. SUFFICES ASSUME IInv, [Next]_vars PROVE IInv'
  OBVIOUS
<1>1. ASSUME NEW c \in Clicks,
             \/ \E url \in Urls : CheckDuplicate(c, url)
             \/ ReserveForClick(c) \/ Dispatched(c) \/ DispatchFailed(c)
             \/ DispatchFailedButQueued(c) \/ ReleaseForClick(c) \/ AbandonClick(c)
      PROVE  IInv'
  BY <1>1, CockpitFits
<1>2. ASSUME NEW r \in Runs,
             \/ StartJob(r) \/ (\E url \in Urls : StartByHand(r, url)) \/ LoseJob(r)
             \/ ReserveForRun(r) \/ StartPaidStage(r) \/ ThrowUnpaid(r) \/ ThrowPaid(r)
             \/ Finish(r) \/ Vanish(r)
      PROVE  IInv'
  BY <1>2, StartFits, LoseJobFits, ReserveFits, PaidStageFits, ThrowUnpaidFits,
     ThrowPaidFits, FinishFits, VanishFits
<1>3. CASE Tick
  BY <1>3, TickFits
<1>4. CASE UNCHANGED vars
  BY <1>4 DEF vars, IInv, Shape, TypeOK, Held, RunsBilled, RowsBilled, Exists, Running, Live,
              Used
<1>. QED
  BY <1>1, <1>2, <1>3, <1>4 DEF Next

LEMMA IInvHolds == Spec => []IInv
<1>. QED
  BY InitFits, StepFits, PTL DEF Spec

\* Every row, request, run and purchase stays in its type, and a run holds a row only
\* while it may spend.
THEOREM TypeCorrect == Spec => []TypeOK
<1>1. IInv => TypeOK
  BY DEF IInv, Shape
<1>. QED
  BY <1>1, IInvHolds, PTL

\* runProspectAuditCommand: a run that may spend holds a row of its own that is running
\* and that the cap counts.  Its claim is as old as the run, so neither staleness nor the
\* window can overtake it before its time limit does; and what the cockpit releases late
\* is a row no run has claimed.
THEOREM SpendingIsCounted == Spec => []SpendingRunsAreCounted
<1>1. IInv => SpendingRunsAreCounted
  <2>. SUFFICES ASSUME IInv, NEW r \in Runs, runs[r].row # None
                PROVE  /\ Running(runs[r].row) /\ runs[r].row \in CountedTowardCap
                       /\ \A q \in Runs \ {r} : runs[q].row # runs[r].row
    BY DEF SpendingRunsAreCounted
  <2>. DEFINE i == runs[r].row
  <2>1. i \in RowIds /\ rows[i] \in Row /\ Running(i) /\ runs[r].age \in 0..RunLimit
    BY HolderIs DEF IInv, Shape, TypeOK, Run
  <2>2. /\ rows[i].claimed = runs[r].age /\ rows[i].created <= Stale + runs[r].age
        /\ \A q \in Runs : runs[q].row = i => q = r
    BY DEF IInv, Held
  <2>3. rows[i].created \in Nat
    BY <2>1, ConstantsTyped DEF Row
  <2>4. rows[i].created <= Window
    BY <2>1, <2>2, <2>3, ConstantsTyped
  <2>5. HeldFor(rows[i]) <= Stale
    BY <2>1, <2>2, ConstantsTyped DEF HeldFor, Never
  <2>6. Exists(i)
    BY <2>1, NoRowIsNone DEF Exists
  <2>. QED
    BY <2>1, <2>2, <2>4, <2>5, <2>6 DEF CountedTowardCap, Counts
<1>. QED
  BY <1>1, IInvHolds, PTL

LEMMA InsertedElsewhere ==
  ASSUME IInv, NEW i \in RowIds, Exists(i), NEW j \in RowIds, NEW x, Insert(j, x)
  PROVE  rows'[i] = rows[i]
BY DEF Insert, IInv, Shape, TypeOK

LEMMA ReportStays ==
  ASSUME IInv, [Next]_vars, NEW i \in RowIds, Exists(i), ~Running(i)
  PROVE  \/ rows'[i] \in {rows[i], AgedRow(rows[i])}
         \/ rows[i].created = Window /\ rows'[i] = NoRow
<1>1. ASSUME NEW c \in Clicks,
             \/ \E url \in Urls : CheckDuplicate(c, url)
             \/ Dispatched(c) \/ DispatchFailed(c)
             \/ DispatchFailedButQueued(c) \/ AbandonClick(c)
      PROVE  rows'[i] = rows[i]
  BY <1>1 DEF CheckDuplicate, Dispatched, DispatchFailed, DispatchFailedButQueued, AbandonClick
<1>2. ASSUME NEW c \in Clicks, ReserveForClick(c)
      PROVE  rows'[i] = rows[i]
  BY <1>2, InsertedElsewhere DEF ReserveForClick
<1>3. ASSUME NEW j, NEW only \in BOOLEAN, Release(j, only)
      PROVE  rows'[i] = rows[i]
  BY <1>3 DEF Release, Releasable, IInv, Shape, TypeOK
<1>4. ASSUME NEW c \in Clicks, ReleaseForClick(c)
      PROVE  rows'[i] = rows[i]
  BY <1>3, <1>4 DEF ReleaseForClick
<1>5. ASSUME NEW url, NEW j \in Claimable(url), MarkClaimed(j)
      PROVE  rows'[i] = rows[i]
  <2>1. Running(j)
    BY DEF Claimable, Candidates
  <2>. QED
    BY <1>5, <2>1 DEF MarkClaimed, IInv, Shape, TypeOK
<1>6. ASSUME NEW r \in Runs, StartJob(r) \/ \E url \in Urls : StartByHand(r, url)
      PROVE  rows'[i] = rows[i]
  BY <1>5, <1>6 DEF StartJob, StartByHand, Claim
<1>7. ASSUME NEW r \in Runs, LoseJob(r) \/ StartPaidStage(r) \/ Vanish(r)
      PROVE  rows'[i] = rows[i]
  BY <1>7 DEF LoseJob, StartPaidStage, Vanish
<1>8. ASSUME NEW r \in Runs, ReserveForRun(r)
      PROVE  rows'[i] = rows[i]
  BY <1>8, InsertedElsewhere DEF ReserveForRun
<1>9. ASSUME NEW r \in Runs, ThrowUnpaid(r)
      PROVE  rows'[i] = rows[i]
  BY <1>3, <1>9 DEF ThrowUnpaid
<1>10. ASSUME NEW r \in Runs, ThrowPaid(r)
       PROVE  rows'[i] = rows[i]
  BY <1>10 DEF ThrowPaid, Fail, IInv, Shape, TypeOK
<1>11. ASSUME NEW r \in Runs, Finish(r)
       PROVE  rows'[i] = rows[i]
  BY <1>11, InsertedElsewhere DEF Finish, FinishRow, IInv, Shape, TypeOK
<1>12. CASE Tick
  <2>1. rows'[i] = NextRow(i) /\ rows[i].created \in 0..Window
    BY <1>12, RowTyped DEF Tick, IInv, Shape, TypeOK
  <2>2. rows[i].created < Window => rows'[i] \in Row
    BY <1>12, TickRows
  <2>3. rows[i].created < Window => rows'[i] = AgedRow(rows[i])
    BY <1>12, <2>2, TickRows
  <2>. QED
    BY <2>1, <2>3, ConstantsTyped DEF NextRow
<1>13. CASE UNCHANGED vars
  BY <1>13 DEF vars
<1>. QED
  BY <1>1, <1>2, <1>4, <1>6, <1>7, <1>8, <1>9, <1>10, <1>11, <1>12, <1>13 DEF Next

\* releaseProspectAuditReservation, failProspectAudit and finishProspectAudit: whatever run
\* or request comes late, a row that ended is never written over, deleted or reopened.
THEOREM ReportsStay == Spec => ReportsAreKept
<1>1. IInv /\ [Next]_vars =>
         [\A i \in RowIds : Exists(i) /\ ~Running(i) =>
             \/ rows'[i] \in {rows[i], AgedRow(rows[i])}
             \/ rows[i].created = Window /\ rows'[i] = NoRow]_vars
  BY ReportStays
<1>. QED
  BY <1>1, IInvHolds, PTL DEF Spec, ReportsAreKept

-----------------------------------------------------------------------------
(* The cap *)

LEMMA ChargedIs ==
  ASSUME NEW i \in RowIds
  PROVE  i \in Charged' <=> /\ rows'[i] # NoRow /\ Counts(rows'[i])
                            /\ \/ rows'[i].status = "running"
                               \/ \E b \in Bills : spent'[b] # NoBill /\ spent'[b].row = i
BY DEF Charged, CountedTowardCap, Exists, Counts, Running, Used, HeldFor

\* Beside the rows of S, no row joins the charged ones.
LEMMA Fades ==
  ASSUME IInv, NEW S,
         \A b \in Bills : spent'[b] \in {spent[b], NoBill},
         \A i \in RowIds \ S : rows'[i] \in {rows[i], NoRow} \/ i \in Charged
  PROVE  Charged' \subseteq Charged \cup S
<1>1. ASSUME NEW i \in RowIds \ S, i \in Charged', rows'[i] = rows[i]
      PROVE  i \in Charged
  <2>1. Exists(i) /\ Counts(rows[i])
    BY <1>1, ChargedIs DEF Exists
  <2>2. Running(i) \/ \E b \in Bills : Used(b) /\ spent[b].row = i
    BY <1>1, ChargedIs DEF Running, Used
  <2>. QED
    BY <2>1, <2>2 DEF Charged, CountedTowardCap
<1>2. Charged' \subseteq RowIds
  BY DEF Charged, CountedTowardCap
<1>. QED
  BY <1>1, <1>2, ChargedIs

LEMMA HolderIsCharged ==
  ASSUME IInv, NEW r \in Runs, runs[r].row # None
  PROVE  runs[r].row \in Charged
<1>. DEFINE i == runs[r].row
<1>1. i \in RowIds /\ rows[i] \in Row /\ Running(i) /\ runs[r].age \in 0..RunLimit
  BY HolderIs DEF IInv, Shape, TypeOK, Run
<1>2. rows[i].claimed = runs[r].age /\ rows[i].created <= Stale + runs[r].age
  BY DEF IInv, Held
<1>3. rows[i].created \in Nat
  BY <1>1, ConstantsTyped DEF Row
<1>4. rows[i].created <= Window
  BY <1>1, <1>2, <1>3, ConstantsTyped
<1>5. HeldFor(rows[i]) <= Stale
  BY <1>1, <1>2, ConstantsTyped DEF HeldFor, Never
<1>6. Exists(i)
  BY <1>1, NoRowIsNone DEF Exists
<1>. QED
  BY <1>1, <1>4, <1>5, <1>6 DEF Charged, CountedTowardCap, Counts

LEMMA ClaimableIsCharged ==
  ASSUME IInv, NEW url, NEW i \in Claimable(url)
  PROVE  i \in Charged
<1>1. i \in RowIds /\ Exists(i) /\ Running(i) /\ rows[i].claimed = Never
      /\ rows[i].created <= Stale
  BY DEF Claimable, Candidates
<1>2. rows[i].created \in 0..Window
  BY <1>1, RowTyped DEF IInv, Shape, TypeOK
<1>. QED
  BY <1>1, <1>2, ConstantsTyped DEF Charged, CountedTowardCap, Counts, HeldFor

LEMMA ElsewhereKept ==
  ASSUME IInv, NEW j \in RowIds, NEW x, rows' = [rows EXCEPT ![j] = x], UNCHANGED spent
  PROVE  Charged' \subseteq Charged \cup {j}
<1>1. \A i \in RowIds \ {j} : rows'[i] = rows[i]
  BY DEF IInv, Shape, TypeOK
<1>. QED
  BY <1>1, Fades

\* A row the cap counts after a tick was counted before.
LEMMA TickCounts ==
  ASSUME IInv, Tick, NEW i \in RowIds, rows'[i] # NoRow, Counts(rows'[i])
  PROVE  /\ rows[i] \in Row /\ rows'[i].status = rows[i].status
         /\ rows'[i].url = rows[i].url
         /\ rows'[i].claimed = Never => rows[i].claimed = Never
         /\ Counts(rows[i])
<1>1. rows'[i] \in Row
  BY TickRows
<1>2. /\ rows[i] \in Row /\ rows[i].created < Window
      /\ rows'[i].status = rows[i].status /\ rows'[i].created = rows[i].created + 1
      /\ rows'[i].url = rows[i].url
      /\ rows'[i].claimed = IF rows[i].claimed = Never THEN Never ELSE rows[i].claimed + 1
  BY <1>1, TickRows
<1>3. rows[i].created \in 0..Window /\ rows[i].claimed \in (0..Window) \cup {Never}
  BY <1>2, ConstantsTyped DEF Row
<1>4. HeldFor(rows'[i]) = HeldFor(rows[i]) + 1
  BY <1>2, <1>3, ConstantsTyped DEF HeldFor, Never
<1>5. HeldFor(rows[i]) \in 0..Window
  BY <1>3 DEF HeldFor
<1>6. Counts(rows[i])
  BY <1>2, <1>3, <1>4, <1>5, ConstantsTyped DEF Counts
<1>. QED
  BY <1>2, <1>3, <1>6 DEF Never

\* Only a reservation the INSERT's condition granted adds a row to the charged ones.
LEMMA ChargedStep ==
  ASSUME IInv, [Next]_vars
  PROVE  \/ Charged' \subseteq Charged
         \/ HasSlot /\ \E i \in RowIds : Charged' \subseteq Charged \cup {i}
<1>1. ASSUME UNCHANGED rows, \A b \in Bills : spent'[b] \in {spent[b], NoBill}
      PROVE  Charged' \subseteq Charged
  BY <1>1, Fades
<1>2. ASSUME NEW c \in Clicks,
             \/ \E url \in Urls : CheckDuplicate(c, url)
             \/ Dispatched(c) \/ DispatchFailed(c)
             \/ DispatchFailedButQueued(c) \/ AbandonClick(c)
      PROVE  Charged' \subseteq Charged
  BY <1>1, <1>2 DEF CheckDuplicate, Dispatched, DispatchFailed, DispatchFailedButQueued,
                    AbandonClick
<1>3. ASSUME NEW c \in Clicks, ReserveForClick(c)
      PROVE  \/ Charged' \subseteq Charged
             \/ HasSlot /\ \E i \in RowIds : Charged' \subseteq Charged \cup {i}
  <2>1. CASE HasSlot
    BY <1>3, <2>1, ElsewhereKept DEF ReserveForClick, Insert
  <2>2. CASE ~HasSlot
    BY <1>1, <1>3, <2>2 DEF ReserveForClick
  <2>. QED
    BY <2>1, <2>2
<1>4. ASSUME NEW j \in RowIds, NEW only \in BOOLEAN, Release(j, only), UNCHANGED spent
      PROVE  Charged' \subseteq Charged
  <2>1. \A i \in RowIds : rows'[i] \in {rows[i], NoRow}
    BY <1>4 DEF Release, IInv, Shape, TypeOK
  <2>. QED
    BY <1>4, <2>1, Fades
<1>5. ASSUME NEW c \in Clicks, ReleaseForClick(c)
      PROVE  Charged' \subseteq Charged
  <2>1. clicks[c].row \in RowIds
    BY <1>5 DEF ReleaseForClick, IInv, Shape
  <2>. QED
    BY <1>4, <1>5, <2>1 DEF ReleaseForClick
<1>6. ASSUME NEW url, NEW j \in Claimable(url), MarkClaimed(j), UNCHANGED spent
      PROVE  Charged' \subseteq Charged
  <2>1. j \in RowIds /\ j \in Charged
    BY ClaimableIsCharged DEF Claimable, Candidates
  <2>2. \A i \in RowIds \ {j} : rows'[i] = rows[i]
    BY <1>6 DEF MarkClaimed, IInv, Shape, TypeOK
  <2>3. Charged' \subseteq Charged \cup {}
    BY <1>6, <2>1, <2>2, Fades
  <2>. QED
    BY <2>3
<1>7. ASSUME NEW r \in Runs, StartJob(r) \/ \E url \in Urls : StartByHand(r, url)
      PROVE  Charged' \subseteq Charged
  BY <1>1, <1>6, <1>7 DEF StartJob, StartByHand, Claim
<1>8. ASSUME NEW r \in Runs, LoseJob(r)
      PROVE  Charged' \subseteq Charged
  BY <1>1, <1>8 DEF LoseJob
<1>9. ASSUME NEW r \in Runs, Vanish(r)
      PROVE  Charged' \subseteq Charged
  BY <1>1, <1>9 DEF Vanish, Excused
<1>10. ASSUME NEW r \in Runs, ReserveForRun(r)
       PROVE  \/ Charged' \subseteq Charged
              \/ HasSlot /\ \E i \in RowIds : Charged' \subseteq Charged \cup {i}
  BY <1>1, <1>10, ElsewhereKept DEF ReserveForRun, Insert
<1>11. ASSUME NEW r \in Runs, StartPaidStage(r)
       PROVE  Charged' \subseteq Charged
  <2>1. CASE UNCHANGED spent
    BY <1>1, <1>11, <2>1 DEF StartPaidStage
  <2>2. ASSUME runs[r].row # None, NEW b \in Bills, Bought(r, b) PROVE Charged' \subseteq Charged
    <3>1. runs[r].row \in Charged
      BY <2>2, HolderIsCharged
    <3>2. \A c \in Bills : spent'[c] = spent[c] \/ spent'[c].row = runs[r].row
      BY <2>2 DEF Bought, IInv, Shape, TypeOK
    <3>3. ASSUME NEW i \in RowIds, i \in Charged', i # runs[r].row PROVE i \in Charged
      <4>1. rows'[i] = rows[i] /\ rows[i] # NoRow /\ Counts(rows[i])
        BY <1>11, <3>3, ChargedIs DEF StartPaidStage
      <4>2. Running(i) \/ \E c \in Bills : spent'[c] # NoBill /\ spent'[c].row = i
        BY <3>3, <4>1, ChargedIs DEF Running
      <4>3. Running(i) \/ \E c \in Bills : Used(c) /\ spent[c].row = i
        BY <3>2, <3>3, <4>2 DEF Used
      <4>. QED
        BY <4>1, <4>3 DEF Charged, CountedTowardCap, Exists
    <3>4. Charged' \subseteq RowIds
      BY DEF Charged, CountedTowardCap
    <3>. QED
      BY <3>1, <3>3, <3>4
  <2>. QED
    BY <1>11, <2>1, <2>2 DEF StartPaidStage
<1>12. ASSUME NEW r \in Runs, ThrowUnpaid(r)
       PROVE  Charged' \subseteq Charged
  BY <1>1, <1>4, <1>12, HolderIs DEF ThrowUnpaid
<1>13. ASSUME NEW j \in RowIds, j \in Charged, NEW x, rows' = [rows EXCEPT ![j] = x],
              UNCHANGED spent
       PROVE  Charged' \subseteq Charged
  BY <1>13, ElsewhereKept
<1>14. ASSUME NEW r \in Runs, ThrowPaid(r)
       PROVE  Charged' \subseteq Charged
  <2>1. CASE runs[r].row = None
    BY <1>1, <1>14, <2>1 DEF ThrowPaid
  <2>2. CASE runs[r].row # None
    <3>1. /\ runs[r].row \in RowIds /\ runs[r].row \in Charged /\ Running(runs[r].row)
          /\ rows' = [rows EXCEPT ![runs[r].row] = Ended(rows[runs[r].row].url)]
          /\ UNCHANGED spent
      BY <1>14, <2>2, HolderIs, HolderIsCharged DEF ThrowPaid, Fail
    <3>. QED
      BY <1>13, <3>1
  <2>. QED
    BY <2>1, <2>2
<1>15. ASSUME NEW r \in Runs, Finish(r)
       PROVE  Charged' \subseteq Charged
  <2>1. CASE runs[r].row = None
    <3>1. PICK j \in RowIds : Insert(j, Ended(runs[r].url))
      BY <1>15, <2>1 DEF Finish, FinishRow
    <3>2. /\ UNCHANGED spent /\ ~Exists(j)
          /\ rows' = [rows EXCEPT ![j] = Ended(runs[r].url)]
      BY <1>15, <3>1 DEF Finish, Insert
    <3>3. Charged' \subseteq Charged \cup {j}
      BY <3>2, ElsewhereKept
    <3>4. rows'[j].status = "ended"
      BY <3>2 DEF IInv, Shape, TypeOK, Ended
    <3>5. ASSUME NEW b \in Bills, Used(b), spent[b].row = j PROVE FALSE
      <4>1. \E q \in Runs : runs[q].bill = b
        BY <3>2, <3>5 DEF IInv, RowsBilled
      <4>2. PICK q \in Runs : runs[q].bill = b
        BY <4>1
      <4>3. runs[q].row = j /\ runs[q].row # None
        BY <3>5, <4>2, ConstantsTyped DEF IInv, RunsBilled
      <4>. QED
        BY <3>2, <4>3, HolderIs, NoRowIsNone DEF Exists
    <3>6. j \notin Charged'
      BY <3>2, <3>4, <3>5, ChargedIs DEF Used
    <3>. QED
      BY <3>3, <3>6
  <2>2. CASE runs[r].row # None
    <3>1. /\ runs[r].row \in RowIds /\ runs[r].row \in Charged /\ Running(runs[r].row)
          /\ rows' = [rows EXCEPT ![runs[r].row] = Ended(runs[r].url)]
          /\ UNCHANGED spent
      BY <1>15, <2>2, HolderIs, HolderIsCharged DEF Finish, FinishRow
    <3>. QED
      BY <1>13, <3>1
  <2>. QED
    BY <2>1, <2>2
<1>16. CASE Tick
  <2>1. ASSUME NEW i \in RowIds, i \in Charged' PROVE i \in Charged
    <3>1. /\ rows[i] \in Row /\ rows'[i].status = rows[i].status /\ Counts(rows[i])
      BY <1>16, <2>1, ChargedIs, TickCounts
    <3>2. Running(i) \/ \E b \in Bills : Used(b) /\ spent[b].row = i
      BY <1>16, <2>1, <3>1, ChargedIs, TickBills DEF Running, Used
    <3>. QED
      BY <3>1, <3>2, NoRowIsNone DEF Charged, CountedTowardCap, Exists
  <2>2. Charged' \subseteq RowIds
    BY DEF Charged, CountedTowardCap
  <2>. QED
    BY <2>1, <2>2
<1>17. CASE UNCHANGED vars
  BY <1>1, <1>17 DEF vars
<1>. QED
  BY <1>2, <1>3, <1>5, <1>7, <1>8, <1>9, <1>10, <1>11, <1>12, <1>14, <1>15, <1>16, <1>17
     DEF Next

LEMMA CapStep == IInv /\ CapInv /\ [Next]_vars => CapInv'
<1>. SUFFICES ASSUME IInv, CapInv, [Next]_vars PROVE CapInv'
  OBVIOUS
<1>1. /\ IsFiniteSet(RowIds) /\ CountedTowardCap \in SUBSET RowIds
      /\ Charged \in SUBSET CountedTowardCap
  BY ProspectSlotsAssumption DEF CountedTowardCap, Charged
<1>2. IsFiniteSet(CountedTowardCap) /\ IsFiniteSet(Charged)
      /\ Cardinality(Charged) <= Cardinality(CountedTowardCap)
      /\ Cardinality(Charged) \in Nat /\ Cardinality(CountedTowardCap) \in Nat
  <2>1. IsFiniteSet(CountedTowardCap)
    BY <1>1, FS_Subset
  <2>2. IsFiniteSet(Charged) /\ Cardinality(Charged) <= Cardinality(CountedTowardCap)
    BY <1>1, <2>1, FS_Subset
  <2>. QED
    BY <2>1, <2>2, FS_CardinalityType
<1>3. CASE Charged' \subseteq Charged
  <2>1. Charged' \in SUBSET Charged
    BY <1>3
  <2>2. IsFiniteSet(Charged') /\ Cardinality(Charged') <= Cardinality(Charged)
    BY <1>2, <2>1, FS_Subset
  <2>3. Cardinality(Charged') \in Nat
    BY <2>2, FS_CardinalityType
  <2>4. Cardinality(Charged') <= Cap
    BY <1>2, <2>2, <2>3, ConstantsTyped DEF CapInv
  <2>. QED
    BY <2>4 DEF CapInv
<1>4. ASSUME HasSlot, NEW i \in RowIds, Charged' \subseteq Charged \cup {i}
      PROVE  CapInv'
  <2>1. /\ IsFiniteSet(Charged \cup {i})
        /\ Cardinality(Charged \cup {i}) <= Cardinality(Charged) + 1
        /\ Cardinality(Charged \cup {i}) \in Nat
    <3>1. /\ IsFiniteSet(Charged \cup {i})
          /\ Cardinality(Charged \cup {i}) =
                IF i \in Charged THEN Cardinality(Charged) ELSE Cardinality(Charged) + 1
      BY <1>2, FS_AddElement
    <3>. QED
      BY <1>2, <3>1
  <2>2. Charged' \in SUBSET (Charged \cup {i})
    BY <1>4
  <2>3. IsFiniteSet(Charged') /\ Cardinality(Charged') <= Cardinality(Charged \cup {i})
    BY <2>1, <2>2, FS_Subset
  <2>4. Cardinality(Charged') \in Nat
    BY <2>3, FS_CardinalityType
  <2>5. Cardinality(CountedTowardCap) < Cap
    BY <1>4 DEF HasSlot
  <2>6. Cardinality(Charged') <= Cap
    BY <1>2, <2>1, <2>3, <2>4, <2>5, ConstantsTyped
  <2>. QED
    BY <2>6 DEF CapInv
<1>. QED
  BY <1>3, <1>4, ChargedStep

\* reserveProspectAudit and countedTowardCap: whatever clicks, jobs and operators
\* interleave, and whichever runs throw, no more than Cap audits were bought in the last
\* window, beside those the brake answered with an error and those whose run could not
\* mark its row.
THEOREM CapIsKept == Spec => []CapHolds
<1>1. Spec => []CapInv
  BY InitFits, IInvHolds, CapStep, PTL DEF Spec
<1>2. IInv /\ CapInv => CapHolds
  <2>. SUFFICES ASSUME IInv, CapInv PROVE CapHolds
    OBVIOUS
  <2>. DEFINE used == {b \in Bills : spent[b] # NoBill}
              rowOf == [b \in used |-> spent[b].row]
  <2>1. ASSUME NEW b \in used PROVE spent[b].row \in Charged
    <3>1. /\ Used(b) /\ b \in Bills /\ spent[b].row \in RowIds /\ spent[b].age \in 0..Window
      BY ConstantsTyped DEF Used, IInv, Shape, TypeOK, Bill
    <3>2. CASE \E r \in Runs : runs[r].bill = b
      <4>1. PICK r \in Runs : runs[r].bill = b
        BY <3>2
      <4>2. runs[r].row # None /\ runs[r].row = spent[b].row
        BY <3>1, <4>1, ConstantsTyped DEF IInv, RunsBilled
      <4>. QED
        BY <4>2, HolderIsCharged
    <3>3. CASE ~\E r \in Runs : runs[r].bill = b
      <4>. DEFINE i == spent[b].row
      <4>1. Exists(i) /\ ~Running(i) /\ rows[i].created <= spent[b].age
        BY <3>1, <3>3 DEF IInv, RowsBilled
      <4>2. rows[i].created \in 0..Window
        BY <3>1, <4>1, RowTyped DEF IInv, Shape, TypeOK
      <4>3. Counts(rows[i])
        BY <4>1, <4>2 DEF Counts, Running
      <4>. QED
        BY <3>1, <4>1, <4>3 DEF Charged, CountedTowardCap
    <3>. QED
      BY <3>2, <3>3
  <2>2. \A b, c \in used : spent[b].row = spent[c].row => b = c
    BY DEF IInv, RowsBilled, Used
  <2>3. rowOf \in Injection(used, Charged)
    BY <2>1, <2>2 DEF Injection, IsInjective
  <2>4. IsFiniteSet(Charged)
    <3>1. IsFiniteSet(RowIds) /\ Charged \in SUBSET RowIds
      BY ProspectSlotsAssumption DEF CountedTowardCap, Charged
    <3>. QED
      BY <3>1, FS_Subset
  <2>5. /\ IsFiniteSet(used) /\ Cardinality(used) <= Cardinality(Charged)
    BY <2>3, <2>4, FS_Injection
  <2>6. Cardinality(used) \in Nat /\ Cardinality(Charged) \in Nat
    BY <2>4, <2>5, FS_CardinalityType
  <2>7. Cardinality(used) <= Cap
    BY <2>5, <2>6, ConstantsTyped DEF CapInv
  <2>. QED
    BY <2>7 DEF CapHolds
<1>. QED
  BY <1>1, <1>2, IInvHolds, PTL

-----------------------------------------------------------------------------
(* One audit, one slot *)

LEMMA Smaller ==
  ASSUME NEW T, IsFiniteSet(T), NEW S, S \subseteq T
  PROVE  /\ IsFiniteSet(S) /\ Cardinality(S) \in Nat /\ Cardinality(T) \in Nat
         /\ Cardinality(S) <= Cardinality(T)
<1>1. IsFiniteSet(S) /\ Cardinality(S) <= Cardinality(T)
  BY FS_Subset
<1>. QED
  BY <1>1, FS_CardinalityType

LEMMA OneMoreAtMost ==
  ASSUME NEW T, IsFiniteSet(T), NEW S, NEW x, S \subseteq T \cup {x}
  PROVE  /\ IsFiniteSet(S) /\ Cardinality(S) \in Nat /\ Cardinality(T) \in Nat
         /\ Cardinality(S) <= Cardinality(T) + 1
<1>1. Cardinality(T) \in Nat
  BY FS_CardinalityType
<1>2. /\ IsFiniteSet(T \cup {x})
      /\ Cardinality(T \cup {x}) = IF x \in T THEN Cardinality(T) ELSE Cardinality(T) + 1
  BY FS_AddElement
<1>3. /\ IsFiniteSet(S) /\ Cardinality(S) \in Nat
      /\ Cardinality(S) <= Cardinality(T \cup {x})
  BY <1>2, Smaller
<1>. QED
  BY <1>1, <1>2, <1>3

LEMMA OneMoreAtLeast ==
  ASSUME NEW T, IsFiniteSet(T), NEW S, NEW x, S \subseteq T, x \in T, x \notin S
  PROVE  /\ Cardinality(S) \in Nat /\ Cardinality(T) \in Nat
         /\ Cardinality(S) + 1 <= Cardinality(T)
<1>1. IsFiniteSet(S) /\ Cardinality(S) \in Nat
  BY Smaller
<1>2. Cardinality(S \cup {x}) = Cardinality(S) + 1
  BY <1>1, FS_AddElement
<1>3. /\ Cardinality(T) \in Nat /\ Cardinality(S \cup {x}) <= Cardinality(T)
  BY Smaller
<1>. QED
  BY <1>1, <1>2, <1>3

LEMMA SetsAreFinite ==
  ASSUME NEW site
  PROVE  /\ IsFiniteSet(Unclaimed(site)) /\ IsFiniteSet(Dispatching(site))
         /\ IsFiniteSet(Queued(site))
         /\ IsFiniteSet(Unclaimed(site)') /\ IsFiniteSet(Dispatching(site)')
         /\ IsFiniteSet(Queued(site)')
<1>1. /\ Unclaimed(site) \subseteq RowIds /\ Unclaimed(site)' \subseteq RowIds
      /\ Dispatching(site) \subseteq Clicks /\ Dispatching(site)' \subseteq Clicks
      /\ Queued(site) \subseteq Runs /\ Queued(site)' \subseteq Runs
  BY DEF Unclaimed, CountedTowardCap, Dispatching, Queued
<1>. QED
  BY <1>1, Smaller, ProspectSlotsAssumption

\* The bound of one site, and what keeps it: each pair of sets gains or loses one at most.
Asked(site) ==
    Cardinality(Unclaimed(site))
        <= Cardinality(Dispatching(site)) + Cardinality(Queued(site)) + faults

LEMMA NothingAsked ==
  ASSUME IInv, NEW site, Asked(site), faults' \in Nat, faults' >= faults,
         Unclaimed(site)' \subseteq Unclaimed(site),
         Dispatching(site) \subseteq Dispatching(site)', Queued(site) \subseteq Queued(site)'
  PROVE  Asked(site)'
<1>1. faults \in Nat
  BY ConstantsTyped DEF IInv, Shape, TypeOK
<1>2. /\ Cardinality(Unclaimed(site)) \in Nat /\ Cardinality(Unclaimed(site)') \in Nat
      /\ Cardinality(Unclaimed(site)') <= Cardinality(Unclaimed(site))
  BY SetsAreFinite, Smaller
<1>3. /\ Cardinality(Dispatching(site)) \in Nat /\ Cardinality(Dispatching(site)') \in Nat
      /\ Cardinality(Dispatching(site)) <= Cardinality(Dispatching(site)')
  BY SetsAreFinite, Smaller
<1>4. /\ Cardinality(Queued(site)) \in Nat /\ Cardinality(Queued(site)') \in Nat
      /\ Cardinality(Queued(site)) <= Cardinality(Queued(site)')
  BY SetsAreFinite, Smaller
<1>. QED
  BY <1>1, <1>2, <1>3, <1>4 DEF Asked

\* A row is reserved by a request that starts to dispatch.
LEMMA RowAsked ==
  ASSUME IInv, NEW site, Asked(site), UNCHANGED faults, NEW i, NEW c,
         Unclaimed(site)' \subseteq Unclaimed(site) \cup {i},
         Dispatching(site) \subseteq Dispatching(site)',
         c \in Dispatching(site)', c \notin Dispatching(site),
         Queued(site) \subseteq Queued(site)'
  PROVE  Asked(site)'
<1>1. faults \in Nat
  BY ConstantsTyped DEF IInv, Shape, TypeOK
<1>2. /\ Cardinality(Unclaimed(site)) \in Nat /\ Cardinality(Unclaimed(site)') \in Nat
      /\ Cardinality(Unclaimed(site)') <= Cardinality(Unclaimed(site)) + 1
  BY SetsAreFinite, OneMoreAtMost
<1>3. /\ Cardinality(Dispatching(site)) \in Nat /\ Cardinality(Dispatching(site)') \in Nat
      /\ Cardinality(Dispatching(site)) + 1 <= Cardinality(Dispatching(site)')
  BY SetsAreFinite, OneMoreAtLeast
<1>4. /\ Cardinality(Queued(site)) \in Nat /\ Cardinality(Queued(site)') \in Nat
      /\ Cardinality(Queued(site)) <= Cardinality(Queued(site)')
  BY SetsAreFinite, Smaller
<1>. QED
  BY <1>1, <1>2, <1>3, <1>4 DEF Asked

\* A request that stops dispatching leaves a job in the queue, or had a fault.
LEMMA RequestPassedOn ==
  ASSUME IInv, NEW site, Asked(site), NEW c,
         Unclaimed(site)' \subseteq Unclaimed(site),
         Dispatching(site) \subseteq Dispatching(site)' \cup {c},
         Queued(site) \subseteq Queued(site)',
         \/ faults' = faults + 1
         \/ UNCHANGED faults /\ \E r : r \in Queued(site)' /\ r \notin Queued(site)
  PROVE  Asked(site)'
<1>1. faults \in Nat
  BY ConstantsTyped DEF IInv, Shape, TypeOK
<1>2. /\ Cardinality(Unclaimed(site)) \in Nat /\ Cardinality(Unclaimed(site)') \in Nat
      /\ Cardinality(Unclaimed(site)') <= Cardinality(Unclaimed(site))
  BY SetsAreFinite, Smaller
<1>3. /\ Cardinality(Dispatching(site)) \in Nat /\ Cardinality(Dispatching(site)') \in Nat
      /\ Cardinality(Dispatching(site)) <= Cardinality(Dispatching(site)') + 1
  BY SetsAreFinite, OneMoreAtMost
<1>4. /\ Cardinality(Queued(site)) \in Nat /\ Cardinality(Queued(site)') \in Nat
      /\ Cardinality(Queued(site)) <= Cardinality(Queued(site)')
  BY SetsAreFinite, Smaller
<1>5. CASE faults' = faults + 1
  BY <1>1, <1>2, <1>3, <1>4, <1>5 DEF Asked
<1>6. CASE UNCHANGED faults /\ \E r : r \in Queued(site)' /\ r \notin Queued(site)
  <2>1. Cardinality(Queued(site)) + 1 <= Cardinality(Queued(site)')
    BY <1>6, SetsAreFinite, OneMoreAtLeast
  <2>. QED
    BY <1>1, <1>2, <1>3, <1>4, <1>6, <2>1 DEF Asked
<1>. QED
  BY <1>5, <1>6

\* A job that leaves the queue claims a row, finds the site without one, or had a fault.
LEMMA JobTaken ==
  ASSUME IInv, NEW site, Asked(site), NEW r,
         Unclaimed(site)' \subseteq Unclaimed(site),
         Dispatching(site) \subseteq Dispatching(site)',
         Queued(site) \subseteq Queued(site)' \cup {r},
         \/ faults' = faults + 1
         \/ UNCHANGED faults /\ Unclaimed(site)' = {}
         \/ UNCHANGED faults /\ \E i : i \in Unclaimed(site) /\ i \notin Unclaimed(site)'
  PROVE  Asked(site)'
<1>1. faults \in Nat
  BY ConstantsTyped DEF IInv, Shape, TypeOK
<1>2. /\ Cardinality(Unclaimed(site)) \in Nat /\ Cardinality(Unclaimed(site)') \in Nat
      /\ Cardinality(Unclaimed(site)') <= Cardinality(Unclaimed(site))
  BY SetsAreFinite, Smaller
<1>3. /\ Cardinality(Dispatching(site)) \in Nat /\ Cardinality(Dispatching(site)') \in Nat
      /\ Cardinality(Dispatching(site)) <= Cardinality(Dispatching(site)')
  BY SetsAreFinite, Smaller
<1>4. /\ Cardinality(Queued(site)) \in Nat /\ Cardinality(Queued(site)') \in Nat
      /\ Cardinality(Queued(site)) <= Cardinality(Queued(site)') + 1
  BY SetsAreFinite, OneMoreAtMost
<1>5. CASE faults' = faults + 1
  BY <1>1, <1>2, <1>3, <1>4, <1>5 DEF Asked
<1>6. CASE UNCHANGED faults /\ Unclaimed(site)' = {}
  BY <1>1, <1>3, <1>4, <1>6, FS_EmptySet DEF Asked
<1>7. CASE UNCHANGED faults /\ \E i : i \in Unclaimed(site) /\ i \notin Unclaimed(site)'
  <2>1. Cardinality(Unclaimed(site)') + 1 <= Cardinality(Unclaimed(site))
    BY <1>7, SetsAreFinite, OneMoreAtLeast
  <2>. QED
    BY <1>1, <1>2, <1>3, <1>4, <1>7, <2>1 DEF Asked
<1>. QED
  BY <1>5, <1>6, <1>7

LEMMA UnclaimedIs ==
  ASSUME NEW site, NEW i \in RowIds
  PROVE  /\ i \in Unclaimed(site) <=>
               /\ rows[i] # NoRow /\ Counts(rows[i]) /\ rows[i].status = "running"
               /\ rows[i].claimed = Never /\ Of(site, rows[i].url)
         /\ i \in Unclaimed(site)' <=>
               /\ rows'[i] # NoRow /\ Counts(rows'[i]) /\ rows'[i].status = "running"
               /\ rows'[i].claimed = Never /\ Of(site, rows'[i].url)
BY DEF Unclaimed, CountedTowardCap, Exists, Counts, Running, HeldFor, Of

LEMMA UnclaimedFades ==
  ASSUME NEW site, NEW S,
         \A i \in RowIds \ S :
            \/ rows'[i] \in {rows[i], NoRow}
            \/ rows'[i].status # "running" \/ rows'[i].claimed # Never
  PROVE  Unclaimed(site)' \subseteq Unclaimed(site) \cup S
<1>1. Unclaimed(site)' \subseteq RowIds
  BY DEF Unclaimed, CountedTowardCap
<1>. QED
  BY <1>1, UnclaimedIs

LEMMA DispatchingIs ==
  ASSUME NEW site, NEW c \in Clicks,
         \A d \in Clicks : d # c => clicks'[d] = clicks[d]
  PROVE  /\ Dispatching(site) \subseteq Dispatching(site)' \cup {c}
         /\ clicks[c].pc # "dispatching" \/ ~Of(site, clicks[c].url) =>
               c \notin Dispatching(site) /\ Dispatching(site) \subseteq Dispatching(site)'
         /\ clicks'[c].pc = "dispatching" /\ Of(site, clicks'[c].url) =>
               c \in Dispatching(site)'
BY DEF Dispatching, Of

LEMMA QueuedIs ==
  ASSUME NEW site, NEW r \in Runs,
         \A q \in Runs : q # r => runs'[q] = runs[q]
  PROVE  /\ Queued(site) \subseteq Queued(site)' \cup {r}
         /\ runs[r].pc # "queued" \/ ~Of(site, runs[r].url) =>
               r \notin Queued(site) /\ Queued(site) \subseteq Queued(site)'
         /\ runs'[r].pc = "queued" /\ Of(site, runs'[r].url) => r \in Queued(site)'
BY DEF Queued, Of

LEMMA SameSets ==
  ASSUME NEW site
  PROVE  /\ UNCHANGED rows => Unclaimed(site)' \subseteq Unclaimed(site)
         /\ UNCHANGED clicks => Dispatching(site) \subseteq Dispatching(site)'
         /\ UNCHANGED runs => Queued(site) \subseteq Queued(site)'
BY DEF Unclaimed, CountedTowardCap, Exists, Counts, Running, HeldFor, Of, Dispatching, Queued

LEMMA RunChange ==
  ASSUME IInv, NEW r \in Runs, NEW x, runs' = [runs EXCEPT ![r] = x]
  PROVE  runs'[r] = x /\ \A q \in Runs : q # r => runs'[q] = runs[q]
BY DEF IInv, Shape, TypeOK

LEMMA RowChange ==
  ASSUME IInv, NEW i \in RowIds, NEW x, rows' = [rows EXCEPT ![i] = x]
  PROVE  rows'[i] = x /\ \A j \in RowIds : j # i => rows'[j] = rows[j]
BY DEF IInv, Shape, TypeOK

LEMMA CockpitAsked ==
  ASSUME IInv, NEW site, Asked(site), NEW c \in Clicks,
         \/ \E url \in Urls : CheckDuplicate(c, url)
         \/ ReserveForClick(c) \/ Dispatched(c) \/ DispatchFailed(c)
         \/ DispatchFailedButQueued(c) \/ ReleaseForClick(c) \/ AbandonClick(c)
  PROVE  Asked(site)'
<1>1. faults \in Nat
  BY ConstantsTyped DEF IInv, Shape, TypeOK
<1>2. \A d \in Clicks : d # c => clicks'[d] = clicks[d]
  BY DEF CheckDuplicate, ReserveForClick, Dispatched, DispatchFailed, DispatchFailedButQueued,
         ReleaseForClick, AbandonClick, IInv, Shape, TypeOK
<1>3. ASSUME NEW url \in Urls, CheckDuplicate(c, url) PROVE Asked(site)'
  <2>1. /\ UNCHANGED <<rows, runs, faults>>
        /\ Dispatching(site) \subseteq Dispatching(site)'
    BY <1>2, <1>3, DispatchingIs DEF CheckDuplicate
  <2>. QED
    BY <1>1, <2>1, SameSets, NothingAsked
<1>4. CASE ReserveForClick(c)
  <2>1. /\ UNCHANGED <<runs, faults>> /\ Dispatching(site) \subseteq Dispatching(site)'
        /\ c \notin Dispatching(site)
    BY <1>2, <1>4, DispatchingIs DEF ReserveForClick
  <2>2. ASSUME NEW i \in RowIds, Insert(i, Reserved(clicks[c].url, Never)),
               clicks' = [clicks EXCEPT ![c] = [@ EXCEPT !.pc = "dispatching", !.row = i]]
        PROVE  Asked(site)'
    <3>1. /\ rows'[i].url = clicks[c].url
          /\ \A j \in RowIds : j # i => rows'[j] = rows[j]
      <4>1. /\ rows'[i] = Reserved(clicks[c].url, Never)
            /\ \A j \in RowIds : j # i => rows'[j] = rows[j]
        BY <2>2, RowChange DEF Insert
      <4>. QED
        BY <4>1 DEF Reserved
    <3>2. Unclaimed(site)' \subseteq Unclaimed(site) \cup {i}
      BY <3>1, UnclaimedFades
    <3>3. clicks'[c].pc = "dispatching" /\ clicks'[c].url = clicks[c].url
      BY <2>2 DEF IInv, Shape, TypeOK, Click
    <3>4. CASE Of(site, clicks[c].url)
      <4>1. c \in Dispatching(site)'
        BY <1>2, <3>3, <3>4, DispatchingIs
      <4>. QED
        BY <2>1, <3>2, <4>1, SameSets, RowAsked
    <3>5. CASE ~Of(site, clicks[c].url)
      <4>1. i \notin Unclaimed(site)'
        BY <3>1, <3>5, UnclaimedIs
      <4>. QED
        BY <1>1, <2>1, <3>2, <4>1, SameSets, NothingAsked
    <3>. QED
      BY <3>4, <3>5
  <2>3. CASE UNCHANGED rows
    BY <1>1, <2>1, <2>3, SameSets, NothingAsked
  <2>. QED
    BY <1>4, <2>2, <2>3 DEF ReserveForClick
<1>5. ASSUME QueueJob(clicks[c].url), clicks[c].pc = "dispatching"
      PROVE  /\ Queued(site) \subseteq Queued(site)'
             /\ Of(site, clicks[c].url) => \E r : r \in Queued(site)' /\ r \notin Queued(site)
  <2>1. clicks[c].url \in Urls
    BY <1>5 DEF IInv, Shape
  <2>2. PICK r \in Runs :
           /\ runs[r].pc = "idle" /\ runs'[r].pc = "queued" /\ runs'[r].url = clicks[c].url
           /\ \A q \in Runs : q # r => runs'[q] = runs[q]
    BY <1>5, <2>1, QueueKeeps
  <2>. QED
    BY <2>2, QueuedIs
<1>6. Dispatching(site) \subseteq Dispatching(site)' \cup {c}
  BY <1>2, DispatchingIs
<1>7. CASE Dispatched(c)
  <2>1. UNCHANGED <<rows, faults>> /\ clicks[c].pc = "dispatching" /\ QueueJob(clicks[c].url)
    BY <1>7 DEF Dispatched
  <2>2. CASE Of(site, clicks[c].url)
    BY <1>5, <1>6, <2>1, <2>2, SameSets, RequestPassedOn
  <2>3. CASE ~Of(site, clicks[c].url)
    <3>1. Dispatching(site) \subseteq Dispatching(site)'
      BY <1>2, <2>3, DispatchingIs
    <3>. QED
      BY <1>1, <1>5, <2>1, <3>1, SameSets, NothingAsked
  <2>. QED
    BY <2>2, <2>3
<1>8. CASE DispatchFailed(c) \/ AbandonClick(c)
  BY <1>6, <1>8, SameSets, RequestPassedOn DEF DispatchFailed, AbandonClick, Fault
<1>9. CASE DispatchFailedButQueued(c)
  BY <1>5, <1>6, <1>9, SameSets, RequestPassedOn DEF DispatchFailedButQueued, Fault
<1>10. CASE ReleaseForClick(c)
  <2>1. /\ UNCHANGED <<runs, faults>> /\ Dispatching(site) \subseteq Dispatching(site)'
        /\ Release(clicks[c].row, TRUE)
    BY <1>2, <1>10, DispatchingIs DEF ReleaseForClick
  <2>2. \A i \in RowIds : rows'[i] \in {rows[i], NoRow}
    BY <2>1 DEF Release, IInv, Shape, TypeOK
  <2>3. Unclaimed(site)' \subseteq Unclaimed(site) \cup {}
    BY <2>2, UnclaimedFades
  <2>. QED
    BY <1>1, <2>1, <2>3, SameSets, NothingAsked
<1>. QED
  BY <1>3, <1>4, <1>7, <1>8, <1>9, <1>10

\* A site with an unclaimed reservation has an oldest one to claim.
LEMMA OldestIsFound ==
  ASSUME IInv, NEW url \in Urls, Claimable(url) = {}
  PROVE  Unclaimed(SiteOf[url]) = {}
<1>. SUFFICES ASSUME NEW k \in Unclaimed(SiteOf[url]) PROVE FALSE
  OBVIOUS
<1>. DEFINE found == {i \in RowIds :
                /\ Exists(i)
                /\ SiteOf[rows[i].url] = SiteOf[url]
                /\ Running(i)
                /\ rows[i].claimed = Never
                /\ rows[i].created <= Stale}
            left == {Stale - rows[i].created : i \in found}
<1>1. k \in RowIds
  BY DEF Unclaimed, CountedTowardCap
<1>2. k \in found
  BY <1>1, UnclaimedIs DEF Exists, Running, Of, Counts, HeldFor
<1>3. \A i \in found : rows[i].created \in 0..Window /\ rows[i].created <= Stale
  BY RowTyped DEF IInv, Shape, TypeOK
<1>4. left \subseteq Nat /\ left # {}
  <2>1. \A i \in found : Stale - rows[i].created \in Nat
    BY <1>3, ConstantsTyped
  <2>. HIDE DEF found
  <2>. QED
    BY <1>2, <2>1
<1>5. \E m \in left : \A n \in left : ~(<<n, m>> \in OpToRel(<, Nat))
  BY <1>4, NatLessThanWellFounded, WFMin
<1>6. PICK i \in found : \A n \in left : ~(<<n, Stale - rows[i].created>> \in OpToRel(<, Nat))
  BY <1>5
<1>7. \A j \in found : ~(Stale - rows[j].created < Stale - rows[i].created)
  BY <1>4, <1>6 DEF OpToRel
<1>8. \A j \in found : rows[j].created <= rows[i].created
  BY <1>3, <1>7, ConstantsTyped
<1>9. i \in Claimable(url)
  BY <1>8 DEF Claimable, Candidates
<1>. QED
  BY <1>9

LEMMA ClaimAsked ==
  ASSUME IInv, NEW site, Asked(site), NEW r \in Runs, NEW url \in Urls, NEW isJob \in BOOLEAN,
         runs[r].pc = "queued" => runs[r].url = url,
         Claim(r, url, isJob), UNCHANGED clicks
  PROVE  Asked(site)'
<1>1. faults \in Nat /\ url # None
  BY ConstantsTyped DEF IInv, Shape, TypeOK
<1>2. \A q \in Runs : q # r => runs'[q] = runs[q]
  BY RunChange DEF Claim, Work, ToReserve
<1>3. /\ Queued(site) \subseteq Queued(site)' \cup {r}
      /\ ~Of(site, url) => Queued(site) \subseteq Queued(site)'
  BY <1>2, QueuedIs
<1>4. Dispatching(site) \subseteq Dispatching(site)'
  BY SameSets
<1>5. ASSUME NEW i \in Claimable(url), MarkClaimed(i)
      PROVE  /\ Unclaimed(site)' \subseteq Unclaimed(site)
             /\ Of(site, url) => i \in Unclaimed(site) /\ i \notin Unclaimed(site)'
  <2>1. /\ i \in RowIds /\ rows[i] # NoRow /\ Running(i) /\ rows[i].claimed = Never
        /\ SiteOf[rows[i].url] = SiteOf[url] /\ rows'[i].claimed = 0
        /\ \A j \in RowIds : j # i => rows'[j] = rows[j]
    BY <1>5, ClaimIs, NoRowIsNone DEF Running
  <2>2. i \notin Unclaimed(site)'
    BY <2>1, UnclaimedIs DEF Never
  <2>3. Unclaimed(site)' \subseteq Unclaimed(site) \cup {i}
    BY <2>1, UnclaimedFades
  <2>4. Counts(rows[i]) /\ rows[i].url \in Urls
    BY <2>1, ClaimableIsCharged, RowTyped
       DEF Charged, CountedTowardCap, IInv, Shape, TypeOK, Exists
  <2>5. Of(site, url) => i \in Unclaimed(site)
    BY <2>1, <2>4, UnclaimedIs, ConstantsTyped DEF Running, Of
  <2>. QED
    BY <2>2, <2>3, <2>5
<1>6. ASSUME NEW i \in Claimable(url), MarkClaimed(i), UNCHANGED faults
      PROVE  Asked(site)'
  <2>1. CASE Of(site, url)
    BY <1>3, <1>4, <1>5, <1>6, <2>1, JobTaken
  <2>2. CASE ~Of(site, url)
    BY <1>1, <1>3, <1>4, <1>5, <1>6, <2>2, NothingAsked
  <2>. QED
    BY <2>1, <2>2
<1>7. CASE Claimable(url) = {} /\ UNCHANGED <<rows, faults>>
  <2>1. Unclaimed(site)' \subseteq Unclaimed(site)
    BY <1>7, SameSets
  <2>2. CASE Of(site, url)
    <3>1. Unclaimed(site) = {}
      BY <1>7, <2>2, OldestIsFound DEF Of
    <3>2. Unclaimed(site)' = {}
      BY <2>1, <3>1
    <3>. QED
      BY <1>3, <1>4, <1>7, <3>2, <2>1, JobTaken
  <2>3. CASE ~Of(site, url)
    BY <1>1, <1>3, <1>4, <1>7, <2>1, <2>3, NothingAsked
  <2>. QED
    BY <2>2, <2>3
<1>8. CASE Fault /\ (UNCHANGED rows \/ \E i \in Claimable(url) : MarkClaimed(i))
  <2>1. Unclaimed(site)' \subseteq Unclaimed(site) /\ faults' = faults + 1
    BY <1>5, <1>8, SameSets DEF Fault
  <2>. QED
    BY <1>3, <1>4, <2>1, JobTaken
<1>. QED
  BY <1>6, <1>7, <1>8 DEF Claim

\* A run that was not in the queue.
LEMMA RunAsked ==
  ASSUME IInv, NEW site, Asked(site), NEW r \in Runs, runs[r].pc # "queued",
         \A q \in Runs : q # r => runs'[q] = runs[q],
         UNCHANGED clicks, faults' = faults \/ Fault,
         \A i \in RowIds :
            \/ rows'[i] \in {rows[i], NoRow}
            \/ rows'[i].status # "running" \/ rows'[i].claimed # Never
  PROVE  Asked(site)'
<1>1. faults \in Nat /\ faults' \in Nat /\ faults' >= faults
  BY ConstantsTyped DEF IInv, Shape, TypeOK, Fault
<1>2. Queued(site) \subseteq Queued(site)'
  BY QueuedIs
<1>3. Unclaimed(site)' \subseteq Unclaimed(site) \cup {}
  BY UnclaimedFades
<1>. QED
  BY <1>1, <1>2, <1>3, SameSets, NothingAsked

LEMMA RunsAsked ==
  ASSUME IInv, NEW site, Asked(site), NEW r \in Runs,
         \/ StartJob(r) \/ (\E url \in Urls : StartByHand(r, url)) \/ LoseJob(r)
         \/ ReserveForRun(r) \/ StartPaidStage(r) \/ ThrowUnpaid(r) \/ ThrowPaid(r)
         \/ Finish(r) \/ Vanish(r)
  PROVE  Asked(site)'
<1>1. CASE StartJob(r) \/ \E url \in Urls : StartByHand(r, url)
  <2>1. runs[r].pc = "queued" => runs[r].url \in Urls
    BY DEF IInv, Shape
  <2>. QED
    BY <1>1, <2>1, ClaimAsked DEF StartJob, StartByHand
<1>2. CASE LoseJob(r)
  <2>1. \A q \in Runs : q # r => runs'[q] = runs[q]
    BY <1>2, RunChange DEF LoseJob, End
  <2>. QED
    BY <1>2, <2>1, QueuedIs, SameSets, JobTaken DEF LoseJob, Fault
<1>3. CASE ReserveForRun(r)
  <2>1. /\ runs[r].pc # "queued" /\ UNCHANGED clicks /\ (faults' = faults \/ Fault)
    BY <1>3 DEF ReserveForRun
  <2>2. \A q \in Runs : q # r => runs'[q] = runs[q]
    BY <1>3, RunChange DEF ReserveForRun, Work, End
  <2>3. \/ UNCHANGED rows
        \/ \E i \in RowIds : rows' = [rows EXCEPT ![i] = Reserved(runs[r].url, 0)]
    BY <1>3 DEF ReserveForRun, Insert
  <2>4. ASSUME NEW i \in RowIds, rows' = [rows EXCEPT ![i] = Reserved(runs[r].url, 0)]
        PROVE  /\ rows'[i].claimed # Never
               /\ \A j \in RowIds : j # i => rows'[j] = rows[j]
    <3>1. Reserved(runs[r].url, 0).claimed # Never
      BY DEF Reserved, Never
    <3>. QED
      BY <2>4, <3>1, RowChange
  <2>5. \A i \in RowIds : rows'[i] = rows[i] \/ rows'[i].claimed # Never
    BY <2>3, <2>4
  <2>. QED
    BY <2>1, <2>2, <2>5, RunAsked
<1>4. CASE StartPaidStage(r)
  <2>1. \A q \in Runs : q # r => runs'[q] = runs[q]
    BY <1>4, RunChange DEF StartPaidStage, Pays
  <2>. QED
    BY <1>4, <2>1, RunAsked DEF StartPaidStage
<1>5. CASE ThrowUnpaid(r)
  <2>1. /\ runs[r].pc # "queued" /\ UNCHANGED clicks /\ (faults' = faults \/ Fault)
    BY <1>5 DEF ThrowUnpaid
  <2>2. \A q \in Runs : q # r => runs'[q] = runs[q]
    BY <1>5, RunChange DEF ThrowUnpaid, End
  <2>3. \A i \in RowIds : rows'[i] \in {rows[i], NoRow}
    BY <1>5 DEF ThrowUnpaid, Release, IInv, Shape, TypeOK
  <2>. QED
    BY <2>1, <2>2, <2>3, RunAsked
<1>6. ASSUME NEW i \in RowIds, NEW url, rows' = [rows EXCEPT ![i] = Ended(url)]
      PROVE  \A j \in RowIds : rows'[j] = rows[j] \/ rows'[j].status # "running"
  <2>1. Ended(url).status # "running"
    BY DEF Ended
  <2>. QED
    BY <1>6, <2>1, RowChange
<1>7. CASE ThrowPaid(r)
  <2>1. /\ runs[r].pc # "queued" /\ UNCHANGED <<clicks, faults>>
    BY <1>7 DEF ThrowPaid
  <2>2. \A q \in Runs : q # r => runs'[q] = runs[q]
    BY <1>7, RunChange DEF ThrowPaid, End
  <2>3. \A i \in RowIds : rows'[i] = rows[i] \/ rows'[i].status # "running"
    BY <1>6, <1>7, HolderIs DEF ThrowPaid, Fail
  <2>. QED
    BY <2>1, <2>2, <2>3, RunAsked
<1>8. CASE Finish(r)
  <2>1. /\ runs[r].pc # "queued" /\ UNCHANGED <<clicks, faults>>
    BY <1>8 DEF Finish, Live
  <2>2. \A q \in Runs : q # r => runs'[q] = runs[q]
    BY <1>8, RunChange DEF Finish, End
  <2>3. \A i \in RowIds : rows'[i] = rows[i] \/ rows'[i].status # "running"
    BY <1>6, <1>8, HolderIs DEF Finish, FinishRow, Insert
  <2>. QED
    BY <2>1, <2>2, <2>3, RunAsked
<1>9. CASE Vanish(r)
  <2>1. \A q \in Runs : q # r => runs'[q] = runs[q]
    BY <1>9, RunChange DEF Vanish, End
  <2>2. /\ runs[r].pc # "queued" /\ UNCHANGED <<clicks, rows>> /\ Fault
    BY <1>9 DEF Vanish, Live
  <2>. QED
    BY <2>1, <2>2, RunAsked
<1>. QED
  BY <1>1, <1>2, <1>3, <1>4, <1>5, <1>7, <1>8, <1>9

LEMMA TickAsked ==
  ASSUME IInv, NEW site, Asked(site), Tick
  PROVE  Asked(site)'
<1>1. faults \in Nat /\ UNCHANGED <<clicks, faults>>
  BY ConstantsTyped DEF IInv, Shape, TypeOK, Tick
<1>2. Unclaimed(site)' \subseteq Unclaimed(site)
  <2>1. ASSUME NEW i \in RowIds, i \in Unclaimed(site)' PROVE i \in Unclaimed(site)
    <3>1. /\ rows'[i] # NoRow /\ Counts(rows'[i]) /\ rows'[i].status = "running"
          /\ rows'[i].claimed = Never /\ Of(site, rows'[i].url)
      BY <2>1, UnclaimedIs
    <3>2. /\ rows[i] \in Row /\ rows'[i].status = rows[i].status
          /\ rows'[i].url = rows[i].url /\ rows[i].claimed = Never /\ Counts(rows[i])
      BY <3>1, TickCounts
    <3>. QED
      BY <3>1, <3>2, UnclaimedIs, NoRowIsNone
  <2>2. Unclaimed(site)' \subseteq RowIds
    BY DEF Unclaimed, CountedTowardCap
  <2>. QED
    BY <2>1, <2>2
<1>3. Queued(site) \subseteq Queued(site)'
  BY TickRuns DEF Queued, Of
<1>. QED
  BY <1>1, <1>2, <1>3, SameSets, NothingAsked

LEMMA AskedStep == IInv /\ SlotsAsked /\ [Next]_vars => SlotsAsked'
<1>. SUFFICES ASSUME IInv, SlotsAsked, [Next]_vars, NEW site \in Sites PROVE Asked(site)'
  BY DEF SlotsAsked, Sites, Asked
<1>1. Asked(site)
  BY DEF SlotsAsked, Asked
<1>2. CASE UNCHANGED vars
  <2>1. UNCHANGED <<rows, clicks, runs, faults>> /\ faults \in Nat
    BY <1>2, ConstantsTyped DEF vars, IInv, Shape, TypeOK
  <2>. QED
    BY <1>1, <2>1, SameSets, NothingAsked
<1>. QED
  BY <1>1, <1>2, CockpitAsked, RunsAsked, TickAsked DEF Next

\* triggerProspectAudit and reserveDailyCapSlot: the slots of a site that nobody has
\* claimed are no more than the requests and jobs on their way to claim one, beside one
\* for each fault, for jobs that claim by site take one row each and find the oldest.
THEOREM OneAuditOneSlot == Spec => []OneSlotPerAudit
<1>1. Spec => []SlotsAsked
  BY InitFits, IInvHolds, AskedStep, PTL DEF Spec
<1>2. IInv /\ SlotsAsked => OneSlotPerAudit
  <2>. SUFFICES ASSUME IInv, SlotsAsked, NEW url \in Urls
                PROVE  LET site == SiteOf[url]
                           asking == {c \in Clicks :
                               /\ clicks[c].pc \in {"dispatching", "releasing"}
                               /\ Of(site, clicks[c].url)}
                       IN  Cardinality(Unclaimed(site))
                               <= Cardinality(asking) + Cardinality(Queued(site)) + faults
    BY DEF OneSlotPerAudit, Unclaimed, Queued
  <2>. DEFINE site == SiteOf[url]
              asking == {c \in Clicks :
                 clicks[c].pc \in {"dispatching", "releasing"} /\ Of(site, clicks[c].url)}
  <2>1. IsFiniteSet(asking)
    BY Smaller, ProspectSlotsAssumption
  <2>2. Dispatching(site) \subseteq asking
    BY DEF Dispatching
  <2>3. /\ Cardinality(Dispatching(site)) \in Nat /\ Cardinality(asking) \in Nat
        /\ Cardinality(Dispatching(site)) <= Cardinality(asking)
    BY <2>1, <2>2, Smaller
  <2>4. /\ Cardinality(Unclaimed(site)) \in Nat /\ Cardinality(Queued(site)) \in Nat
        /\ faults \in Nat
    BY SetsAreFinite, FS_CardinalityType, ConstantsTyped DEF IInv, Shape, TypeOK
  <2>5. Cardinality(Unclaimed(site))
           <= Cardinality(Dispatching(site)) + Cardinality(Queued(site)) + faults
    BY DEF SlotsAsked, Sites
  <2>. HIDE DEF asking
  <2>. QED
    BY <2>3, <2>4, <2>5 DEF asking
<1>. QED
  BY <1>1, <1>2, IInvHolds, PTL
=============================================================================
