------------------------- MODULE HealthStampsProofs -------------------------
(***************************************************************************)
(* Theorems about HealthStamps, for every finite set of sites and audits   *)
(* and every number of sweeps, re-tests and troubles.  They rest on the    *)
(* results under way: no two measurements of a site share a stamp, and     *)
(* none of them is in the row before it is written.                        *)
(***************************************************************************)
EXTENDS HealthStamps, FiniteSetTheorems, TLAPS

-----------------------------------------------------------------------------
(* The inductive invariant *)

SweepState ==
    [pc : {"idle", "measure", "write"}, todo : SUBSET Sites, began : [Sites -> Nat],
     roster : [Sites -> Nat], res : [Sites -> Results], filed : [Sites -> SUBSET Filing],
     gate : {"none", "red", "green"}]

RetestState ==
    [pc : {"measure", "write", "read"}, site : Sites, slug : Nat, asked : SUBSET Audits,
     res : Results, filed : SUBSET Filing]

Shape ==
    /\ row \in [Sites -> Cells]
    /\ name \in [Sites -> Nat]
    /\ clock \in [Sites -> Nat]
    /\ sweep \in SweepState
    /\ retest \in [Retests -> RetestState \cup {NoRetest}]
    /\ left \in [sweeps : Nat, retests : Nat, troubles : Nat]

\* A stamp, in the row or in results under way, is of a measurement that was made.
Stamped ==
    /\ \A s \in Sites, a \in Audits : row[s][a].at <= clock[s]
    /\ \A s \in Sites : sweep.res[s].at <= clock[s]
    /\ \A t \in Retests : retest[t].pc # "idle" => retest[t].res.at <= clock[retest[t].site]

\* The sweep has results of the site it has not written.
Holds(s) == s \in Reached /\ (sweep.pc = "write" => s \in sweep.todo)

\* Results not written yet bear a stamp that neither the row nor other such results bear.
Unwritten ==
    /\ \A s \in Sites, a \in Audits : Holds(s) => row[s][a].at # sweep.res[s].at
    /\ \A t \in Retests : retest[t].pc = "write" =>
          /\ \A a \in Audits : row[retest[t].site][a].at # retest[t].res.at
          /\ Holds(retest[t].site) => sweep.res[retest[t].site].at # retest[t].res.at
          /\ \A u \in Retests \ {t} :
                retest[u].pc = "write" /\ retest[u].site = retest[t].site =>
                    retest[u].res.at # retest[t].res.at

\* What a re-test wrote is in the row, or something newer.
Rewritten ==
    \A t \in Retests :
        retest[t].pc = "read" /\ retest[t].filed \subseteq {"written", "missed"} =>
            \A a \in Fields(retest[t].res) : row[retest[t].site][a].at >= retest[t].res.at

\* What a filing of the sweep says of the site's results and row.
FiledAs(s) ==
    \E f \in Filing :
        /\ sweep.filed[s] = {f}
        /\ f = "na" => Applicable(sweep.res[s]) = {}
        /\ f = "written" =>
              /\ ~LighthouseMiss(sweep.res[s])
              /\ \A a \in Fields(sweep.res[s]) : row[s][a].at >= sweep.res[s].at

\* A sweep under way: its results are of this night, and filed as they came out.
Night ==
    sweep.pc # "idle" =>
        /\ sweep.gate = "none"
        /\ \A s \in Sites : sweep.began[s] <= clock[s]
        /\ \A s \in Reached : sweep.res[s].at > sweep.began[s]
        /\ sweep.pc = "write" =>
              /\ sweep.todo \subseteq Reached
              /\ \A s \in Reached \ sweep.todo : FiledAs(s)

IInv == Shape /\ Stamped /\ Unwritten /\ Rewritten /\ Night

-----------------------------------------------------------------------------
(* Types *)

LEMMA NoResultsIs ==
  /\ NoResults \in Results /\ NoResults.at = 0
  /\ \A a \in Audits : NoResults.out[a] = "unrun"
BY DEF NoResults, Results, Unrun, Outcome

LEMMA NoSweepIs ==
  /\ NoSweep \in SweepState /\ NoSweep.pc = "idle" /\ NoSweep.todo = {}
  /\ NoSweep.gate = "none"
  /\ \A s \in Sites : NoSweep.res[s] = NoResults
BY NoResultsIs DEF NoSweep, SweepState

LEMMA RetestIs ==
  ASSUME Shape, NEW t \in Retests
  PROVE  /\ retest[t].pc # "idle" <=> retest[t] \in RetestState
         /\ retest[t].pc = "idle" => retest[t] = NoRetest
         /\ retest[t].pc \in {"idle", "measure", "write", "read"}
BY DEF Shape, RetestState, NoRetest

LEMMA InitFits == Init => IInv
<1>. SUFFICES ASSUME Init PROVE IInv
  OBVIOUS
<1>1. Shape
  BY NoSweepIs, HealthStampsAssumption DEF Init, Shape, Cells, Verdict
<1>2. /\ sweep.pc = "idle" /\ \A s \in Sites : sweep.res[s] = NoResults
      /\ \A t \in Retests : retest[t].pc = "idle"
  BY NoSweepIs DEF Init, NoRetest
<1>3. Stamped
  BY <1>2, NoResultsIs DEF Init, Stamped
<1>4. Unwritten /\ Rewritten /\ Night
  BY <1>2 DEF Unwritten, Holds, Reached, Rewritten, Night
<1>. QED
  BY <1>1, <1>3, <1>4 DEF IInv

\* What a write does to the row of the site, and what its filing says.
LEMMA WriteIs ==
  ASSUME Shape, NEW s \in Sites, NEW slug, NEW r \in Results, NEW f \in Filing,
         WriteBack(s, slug, r, f)
  PROVE  /\ row' \in [Sites -> Cells]
         /\ left' \in [sweeps : Nat, retests : Nat, troubles : Nat]
         /\ \A z \in Sites : z # s => row'[z] = row[z]
         /\ \A a \in Audits :
               \/ row'[s][a] = row[s][a]
               \/ row'[s][a].at = r.at /\ row[s][a].at <= r.at
         /\ f \in {"written", "missed"} => \A a \in Fields(r) : row'[s][a].at >= r.at
         /\ f = "written" => ~LighthouseMiss(r)
         /\ f = "na" => Applicable(r) = {}
<1>1. /\ row \in [Sites -> Cells] /\ left \in [sweeps : Nat, retests : Nat, troubles : Nat]
      /\ r.at \in Nat /\ r.out \in [Audits -> Outcome]
  BY DEF Shape, Results
<1>2. Fields(r) \subseteq Audits /\ \A a \in Fields(r) : r.out[a] \in Verdict
  BY DEF Fields
<1>3. CASE f \in Unwritable(slug, r) /\ UNCHANGED <<row, left>>
  <2>1. f # "written" /\ (f = "missed" => Fields(r) = {})
    BY <1>3 DEF Unwritable
  <2>2. f = "na" => Fields(r) = {} /\ ~LighthouseMiss(r) /\ Unmeasured(r) = {}
    BY <1>3 DEF Unwritable
  <2>3. f = "na" => Applicable(r) = {}
    BY <1>1, <2>2 DEF Fields, LighthouseMiss, Unmeasured, Applicable, Outcome
  <2>. QED
    BY <1>1, <1>3, <2>1, <2>3
<1>4. ASSUME row' = [row EXCEPT ![s] = Guarded(row[s], r)]
      PROVE  /\ row' \in [Sites -> Cells] /\ \A z \in Sites : z # s => row'[z] = row[z]
             /\ \A a \in Audits :
                   /\ \/ row'[s][a] = row[s][a]
                      \/ row'[s][a].at = r.at /\ row[s][a].at <= r.at
                   /\ a \in Fields(r) => row'[s][a].at >= r.at
  <2>. DEFINE x == Guarded(row[s], r)
  <2>1. /\ x \in Cells
        /\ \A a \in Audits :
              \/ x[a] = row[s][a] /\ (a \in Fields(r) => row[s][a].at > r.at)
              \/ x[a].at = r.at /\ row[s][a].at <= r.at
    BY <1>1, <1>2 DEF Guarded, Cells
  <2>. HIDE DEF x
  <2>2. row' \in [Sites -> Cells] /\ row'[s] = x /\ \A z \in Sites : z # s => row'[z] = row[z]
    BY <1>1, <1>4, <2>1 DEF x
  <2>3. \A a \in Fields(r) : x[a].at >= r.at
    BY <1>1, <1>2, <2>1 DEF Cells
  <2>. QED
    BY <2>1, <2>2, <2>3
<1>5. CASE /\ Unwritable(slug, r) = {}
           /\ f = IF LighthouseMiss(r) THEN "missed" ELSE "written"
           /\ row' = [row EXCEPT ![s] = Guarded(row[s], r)]
           /\ UNCHANGED left
  BY <1>1, <1>2, <1>4, <1>5
<1>6. CASE /\ Unwritable(slug, r) = {} /\ left.troubles > 0 /\ f = "lost"
           /\ left' = [left EXCEPT !.troubles = @ - 1]
           /\ row' \in {row, [row EXCEPT ![s] = Guarded(row[s], r)]}
  <2>1. left' \in [sweeps : Nat, retests : Nat, troubles : Nat]
    BY <1>1, <1>6
  <2>2. CASE row' = row
    BY <1>1, <1>6, <2>1, <2>2
  <2>3. CASE row' = [row EXCEPT ![s] = Guarded(row[s], r)]
    BY <1>4, <1>6, <2>1, <2>3
  <2>. QED
    BY <1>6, <2>2, <2>3
<1>. QED
  BY <1>3, <1>5, <1>6 DEF WriteBack

-----------------------------------------------------------------------------
(* The sweep *)

\* The re-tests, while they, the rows and what the sweep holds stay, but for results the
\* sweep loses.
RetestsKept ==
    /\ UNCHANGED <<row, retest>>
    /\ \A s \in Sites : clock'[s] >= clock[s]
    /\ \A s \in Sites : Holds(s)' => Holds(s) /\ sweep'.res[s] = sweep.res[s]

LEMMA KeptUnwritten ==
  ASSUME IInv, RetestsKept
  PROVE  Unwritten' /\ Rewritten'
<1>1. Unwritten'
  BY RetestIs DEF IInv, Unwritten, RetestsKept, RetestState
<1>2. Rewritten'
  BY DEF IInv, Rewritten, RetestsKept, Fields
<1>. QED
  BY <1>1, <1>2

LEMMA BeginFits == IInv /\ Begin => IInv'
<1>. SUFFICES ASSUME IInv, Begin PROVE IInv'
  OBVIOUS
<1>1. /\ sweep' = [NoSweep EXCEPT !.pc = "measure", !.todo = Sites, !.began = clock]
      /\ UNCHANGED <<row, name, clock, retest>> /\ Shape
      /\ clock \in [Sites -> Nat]
  BY DEF Begin, IInv, Shape
<1>2. /\ sweep' \in SweepState /\ sweep'.pc = "measure" /\ sweep'.gate = "none"
      /\ sweep'.began = clock /\ \A s \in Sites : sweep'.res[s] = NoResults
  BY <1>1, NoSweepIs DEF SweepState
<1>3. Shape'
  BY <1>1, <1>2 DEF Begin, Shape
<1>4. \A s \in Sites : ~Holds(s)' /\ s \notin Reached'
  BY <1>2 DEF Holds, Reached
<1>5. Stamped'
  BY <1>1, <1>2, NoResultsIs DEF IInv, Stamped
<1>6. Unwritten' /\ Rewritten'
  BY <1>1, <1>4, KeptUnwritten DEF RetestsKept
<1>7. Night'
  BY <1>1, <1>2, <1>4 DEF Night, Reached
<1>. QED
  BY <1>3, <1>5, <1>6, <1>7 DEF IInv

LEMMA MeasuredIs ==
  ASSUME Shape, NEW s \in Sites
  PROVE  /\ Measured(s) \in Results /\ Measured(s).at = clock[s] + 1
         /\ Measured(s) # NoResults
BY NoResultsIs DEF Shape, Measured, Results, Unrun, Outcome, NoResults

LEMMA MeasureFits ==
  ASSUME IInv, NEW s \in Sites, Measure(s)
  PROVE  IInv'
<1>. DEFINE res == [sweep.res EXCEPT ![s] = Measured(s)]
<1>1. /\ sweep.pc = "measure" /\ UNCHANGED <<row, name, retest, left>>
      /\ sweep' = [sweep EXCEPT !.todo = @ \ {s}, !.res = res]
      /\ clock' = [clock EXCEPT ![s] = @ + 1]
  BY DEF Measure
<1>2. Shape /\ sweep \in SweepState /\ clock \in [Sites -> Nat]
  BY DEF IInv, Shape
<1>3. /\ res \in [Sites -> Results] /\ res[s].at = clock[s] + 1
      /\ \A z \in Sites : z # s => res[z] = sweep.res[z]
  BY <1>2, MeasuredIs DEF SweepState
<1>. HIDE DEF res
<1>4. /\ sweep' \in SweepState /\ sweep'.pc = "measure" /\ sweep'.gate = sweep.gate
      /\ sweep'.res = res /\ sweep'.began = sweep.began
  BY <1>1, <1>2, <1>3 DEF SweepState
<1>5. /\ clock' \in [Sites -> Nat] /\ clock'[s] = clock[s] + 1
      /\ \A z \in Sites : z # s => clock'[z] = clock[z]
  BY <1>1, <1>2
<1>6. Shape'
  BY <1>1, <1>2, <1>4, <1>5 DEF Shape
<1>7. \A z \in Sites : clock'[z] \in Nat /\ clock[z] \in Nat /\ clock'[z] >= clock[z]
  BY <1>2, <1>5
<1>8. Stamped'
  <2>1. \A z \in Sites, a \in Audits : row'[z][a].at <= clock'[z]
    BY <1>1, <1>2, <1>7 DEF IInv, Stamped, Shape, Cells
  <2>2. \A z \in Sites : sweep'.res[z].at <= clock'[z]
    BY <1>2, <1>3, <1>4, <1>5, <1>7 DEF IInv, Stamped
  <2>3. \A t \in Retests : retest'[t].pc # "idle" => retest'[t].res.at <= clock'[retest'[t].site]
    <3>1. ASSUME NEW t \in Retests, retest[t].pc # "idle"
          PROVE  /\ retest[t].site \in Sites /\ retest[t].res.at \in Nat
                 /\ retest[t].res.at <= clock[retest[t].site]
      BY <1>2, <3>1, RetestIs DEF RetestState, Results, IInv, Stamped
    <3>. QED
      BY <1>1, <1>7, <3>1
  <2>. QED
    BY <2>1, <2>2, <2>3 DEF Stamped
<1>9. \A z \in Sites : z # s => (Holds(z)' => Holds(z) /\ sweep'.res[z] = sweep.res[z])
  BY <1>1, <1>3, <1>4 DEF Holds, Reached
<1>10. Unwritten'
  <2>1. ASSUME NEW a \in Audits PROVE row[s][a].at # res[s].at
    BY <1>2, <1>3 DEF IInv, Stamped, Shape, Cells
  <2>2. \A z \in Sites, a \in Audits : Holds(z)' => row'[z][a].at # sweep'.res[z].at
    BY <1>1, <1>4, <1>9, <2>1 DEF IInv, Unwritten
  <2>3. ASSUME NEW t \in Retests, retest[t].pc = "write"
        PROVE  /\ \A a \in Audits : row[retest[t].site][a].at # retest[t].res.at
               /\ Holds(retest[t].site)' =>
                     sweep'.res[retest[t].site].at # retest[t].res.at
               /\ \A u \in Retests \ {t} :
                     retest[u].pc = "write" /\ retest[u].site = retest[t].site =>
                         retest[u].res.at # retest[t].res.at
    <3>1. /\ retest[t].site \in Sites /\ retest[t].res.at \in Nat
          /\ retest[t].res.at <= clock[retest[t].site]
      BY <1>2, <2>3, RetestIs DEF RetestState, Results, IInv, Stamped
    <3>2. CASE retest[t].site = s
      <4>1. retest[t].res.at # res[s].at
        BY <1>2, <1>3, <3>1, <3>2
      <4>. QED
        BY <1>4, <2>3, <3>2, <4>1 DEF IInv, Unwritten
    <3>3. CASE retest[t].site # s
      BY <1>1, <1>9, <2>3, <3>1, <3>3 DEF IInv, Unwritten
    <3>. QED
      BY <3>2, <3>3
  <2>. QED
    BY <1>1, <2>2, <2>3 DEF Unwritten
<1>11. Rewritten'
  BY <1>1 DEF IInv, Rewritten, Fields
<1>12. Night'
  <2>1. \A z \in Sites : sweep.began[z] \in Nat /\ sweep.began[z] <= clock[z]
    BY <1>1, <1>2 DEF IInv, Night, SweepState
  <2>2. ASSUME NEW z \in Reached' PROVE sweep'.res[z].at > sweep'.began[z]
    <3>1. CASE z = s
      BY <1>2, <1>3, <1>4, <2>1, <3>1
    <3>2. CASE z # s
      BY <1>1, <1>3, <1>4, <3>2 DEF IInv, Night, Reached
    <3>. QED
      BY <3>1, <3>2
  <2>. QED
    BY <1>1, <1>4, <1>7, <2>1, <2>2 DEF IInv, Night
<1>. QED
  BY <1>6, <1>8, <1>10, <1>11, <1>12 DEF IInv

LEMMA LoseSiteFits ==
  ASSUME IInv, NEW s \in Sites, LoseSite(s)
  PROVE  IInv'
<1>1. /\ sweep.pc = "measure" /\ UNCHANGED <<row, name, clock, retest>> /\ Shape
      /\ sweep \in SweepState /\ sweep' = [sweep EXCEPT !.todo = @ \ {s}]
  BY DEF LoseSite, IInv, Shape
<1>2. /\ sweep' \in SweepState /\ sweep'.pc = "measure" /\ sweep'.gate = sweep.gate
      /\ sweep'.res = sweep.res /\ sweep'.began = sweep.began
  BY <1>1 DEF SweepState
<1>3. Shape'
  BY <1>1, <1>2 DEF LoseSite, Shape
<1>4. Reached' = Reached /\ \A z \in Sites : Holds(z)' => Holds(z)
  BY <1>1, <1>2 DEF Reached, Holds
<1>5. Stamped'
  BY <1>1, <1>2 DEF IInv, Stamped
<1>6. Unwritten' /\ Rewritten'
  BY <1>1, <1>2, <1>4, KeptUnwritten DEF RetestsKept, Shape
<1>7. Night'
  BY <1>1, <1>2, <1>4 DEF IInv, Night
<1>. QED
  BY <1>3, <1>5, <1>6, <1>7 DEF IInv

LEMMA BeginWritingFits == IInv /\ BeginWriting => IInv'
<1>. SUFFICES ASSUME IInv, BeginWriting PROVE IInv'
  OBVIOUS
<1>1. /\ sweep.pc = "measure" /\ UNCHANGED <<row, name, clock, retest, left>> /\ Shape
      /\ sweep \in SweepState /\ name \in [Sites -> Nat]
      /\ sweep' = [sweep EXCEPT !.pc = "write", !.todo = Reached, !.roster = name]
  BY DEF BeginWriting, IInv, Shape
<1>2. /\ sweep' \in SweepState /\ sweep'.pc = "write" /\ sweep'.gate = sweep.gate
      /\ sweep'.res = sweep.res /\ sweep'.began = sweep.began /\ sweep'.todo = Reached
  BY <1>1 DEF SweepState, Reached
<1>3. Shape'
  BY <1>1, <1>2 DEF Shape
<1>4. Reached' = Reached /\ \A z \in Sites : Holds(z)' => Holds(z)
  BY <1>1, <1>2 DEF Reached, Holds
<1>5. Stamped'
  BY <1>1, <1>2 DEF IInv, Stamped
<1>6. Unwritten' /\ Rewritten'
  BY <1>1, <1>2, <1>4, KeptUnwritten DEF RetestsKept, Shape
<1>7. Night'
  BY <1>1, <1>2, <1>4 DEF IInv, Night
<1>. QED
  BY <1>3, <1>5, <1>6, <1>7 DEF IInv

\* The sweep is over.
LEMMA SweepEnds ==
  ASSUME IInv, NEW gate \in {"red", "green"}, sweep' = [NoSweep EXCEPT !.gate = gate],
         UNCHANGED <<row, name, clock, retest>>,
         left' \in [sweeps : Nat, retests : Nat, troubles : Nat]
  PROVE  IInv' /\ sweep'.gate = gate
<1>1. /\ sweep' \in SweepState /\ sweep'.pc = "idle" /\ sweep'.gate = gate
      /\ \A s \in Sites : sweep'.res[s] = NoResults
  BY NoSweepIs DEF SweepState
<1>2. Shape'
  BY <1>1 DEF IInv, Shape
<1>3. \A z \in Sites : ~Holds(z)'
  BY <1>1 DEF Holds, Reached
<1>4. Stamped'
  BY <1>1, NoResultsIs DEF IInv, Shape, Stamped
<1>5. Unwritten' /\ Rewritten'
  BY <1>3, KeptUnwritten DEF RetestsKept, IInv, Shape
<1>. QED
  BY <1>1, <1>2, <1>4, <1>5 DEF IInv, Night

LEMMA EndFits == IInv /\ (Finish \/ SweepDies) => IInv'
<1>1. ASSUME IInv, Finish PROVE IInv'
  BY <1>1, SweepEnds DEF Finish, IInv, Shape
<1>2. ASSUME IInv, SweepDies PROVE IInv'
  <2>1. left' \in [sweeps : Nat, retests : Nat, troubles : Nat]
    BY <1>2 DEF SweepDies, IInv, Shape
  <2>. QED
    BY <1>2, <2>1, SweepEnds DEF SweepDies
<1>. QED
  BY <1>1, <1>2

LEMMA RenameFits ==
  ASSUME IInv, NEW s \in Sites, Rename(s)
  PROVE  IInv'
<1>1. UNCHANGED <<row, clock, sweep, retest>>
  BY DEF Rename
<1>2. Shape'
  BY DEF Rename, IInv, Shape
<1>. QED
  BY <1>1, <1>2 DEF IInv, Stamped, Unwritten, Holds, Reached, Rewritten, Fields, Night, FiledAs,
                    Applicable, LighthouseMiss

-----------------------------------------------------------------------------
(* Writes *)

\* What every write does to the rows: the site's take the stamp of the results, or stay.
Overwrites(s, at) ==
    /\ row' \in [Sites -> Cells]
    /\ \A z \in Sites : z # s => row'[z] = row[z]
    /\ \A a \in Audits :
          \/ row'[s][a] = row[s][a]
          \/ row'[s][a].at = at /\ row[s][a].at <= at

LEMMA RowsAge ==
  ASSUME row \in [Sites -> Cells], NEW s \in Sites, NEW at \in Nat, Overwrites(s, at)
  PROVE  \A z \in Sites, a \in Audits :
            /\ row[z][a].at \in Nat /\ row'[z][a].at \in Nat
            /\ row'[z][a].at >= row[z][a].at
            /\ row'[z][a].at = row[z][a].at \/ (z = s /\ row'[z][a].at = at)
BY DEF Overwrites, Cells

LEMMA RetestAt ==
  ASSUME IInv, NEW t \in Retests, retest[t].pc # "idle"
  PROVE  /\ retest[t] \in RetestState
         /\ retest[t].site \in Sites /\ retest[t].asked \subseteq Audits
         /\ retest[t].res \in Results /\ retest[t].res.at \in Nat
         /\ retest[t].res.at <= clock[retest[t].site]
BY RetestIs DEF IInv, RetestState, Results, Stamped

\* Results under way stay apart from the rows, whoever writes.
LEMMA RewrittenAges ==
  ASSUME IInv, NEW s \in Sites, NEW at \in Nat, Overwrites(s, at),
         NEW t \in Retests, retest[t].pc = "read",
         retest[t].filed \subseteq {"written", "missed"}, NEW a \in Fields(retest[t].res)
  PROVE  row'[retest[t].site][a].at >= retest[t].res.at
<1>1. row \in [Sites -> Cells] /\ retest[t].site \in Sites /\ retest[t].res.at \in Nat
  BY RetestAt DEF IInv, Shape
<1>2. a \in Audits
  BY DEF Fields
<1>3. row[retest[t].site][a].at >= retest[t].res.at
  BY DEF IInv, Rewritten
<1>. QED
  BY <1>1, <1>2, <1>3, RowsAge

LEMMA WriteFits ==
  ASSUME IInv, NEW s \in Sites, Write(s)
  PROVE  IInv'
<1>1. PICK f \in Filing, o \in Outcomes(Audits) :
         /\ WriteBack(s, sweep.roster[s], [sweep.res[s] EXCEPT !.out = o], f)
         /\ sweep' = [sweep EXCEPT !.todo = @ \ {s},
                         !.res[s] = [sweep.res[s] EXCEPT !.out = o], !.filed[s] = {f}]
  BY DEF Write
<1>. DEFINE r == [sweep.res[s] EXCEPT !.out = o]
            res == [sweep.res EXCEPT ![s] = r]
            filed == [sweep.filed EXCEPT ![s] = {f}]
<1>2. /\ Shape /\ sweep \in SweepState /\ row \in [Sites -> Cells] /\ clock \in [Sites -> Nat]
      /\ sweep.pc = "write" /\ s \in sweep.todo /\ UNCHANGED <<name, clock, retest>>
  BY DEF Write, IInv, Shape
<1>3. r \in Results /\ r.at = sweep.res[s].at /\ r.at \in Nat
  <2>1. sweep.res[s] \in Results /\ o \in [Audits -> Outcome]
    BY <1>2 DEF SweepState, Outcomes
  <2>. QED
    BY <2>1 DEF Results
<1>4. sweep' = [sweep EXCEPT !.todo = @ \ {s}, !.res = res, !.filed = filed]
  BY <1>1
<1>5. /\ Overwrites(s, r.at) /\ left' \in [sweeps : Nat, retests : Nat, troubles : Nat]
      /\ f \in {"written", "missed"} => \A a \in Fields(r) : row'[s][a].at >= r.at
      /\ f = "written" => ~LighthouseMiss(r)
      /\ f = "na" => Applicable(r) = {}
  <2>1. WriteBack(s, sweep.roster[s], r, f)
    BY <1>1
  <2>. HIDE DEF r
  <2>. QED
    BY <1>2, <1>3, <2>1, WriteIs DEF Overwrites
<1>. HIDE DEF r
<1>6. /\ res \in [Sites -> Results] /\ res[s] = r
      /\ \A z \in Sites : z # s => res[z] = sweep.res[z]
      /\ filed \in [Sites -> SUBSET Filing] /\ filed[s] = {f}
      /\ \A z \in Sites : z # s => filed[z] = sweep.filed[z]
  BY <1>2, <1>3 DEF SweepState
<1>. HIDE DEF res, filed
<1>7. /\ sweep' \in SweepState /\ sweep'.pc = "write" /\ sweep'.gate = sweep.gate
      /\ sweep'.res = res /\ sweep'.filed = filed /\ sweep'.began = sweep.began
      /\ sweep'.todo = sweep.todo \ {s}
  BY <1>2, <1>4, <1>6 DEF SweepState
<1>8. \A z \in Sites, a \in Audits :
         /\ row[z][a].at \in Nat /\ row'[z][a].at \in Nat
         /\ row'[z][a].at >= row[z][a].at
         /\ row'[z][a].at = row[z][a].at \/ (z = s /\ row'[z][a].at = r.at)
  BY <1>2, <1>3, <1>5, RowsAge
<1>9. Shape'
  BY <1>2, <1>5, <1>7 DEF Shape, Overwrites
<1>10. sweep.res[s].at <= clock[s]
  BY DEF IInv, Stamped
<1>11. Stamped'
  <2>1. \A z \in Sites, a \in Audits : row'[z][a].at <= clock[z]
    BY <1>3, <1>8, <1>10 DEF IInv, Stamped
  <2>2. \A z \in Sites : sweep'.res[z].at <= clock[z]
    BY <1>3, <1>6, <1>7 DEF IInv, Stamped
  <2>. QED
    BY <1>2, <2>1, <2>2 DEF IInv, Stamped
<1>12. /\ s \in Reached /\ Holds(s) /\ r.at > sweep.began[s] /\ sweep.began[s] \in Nat
  BY <1>2, <1>3 DEF IInv, Night, Holds, SweepState
<1>13. Reached' = Reached
  <2>1. r # NoResults
    BY <1>3, <1>12, NoResultsIs
  <2>. QED
    BY <1>6, <1>7, <1>12, <2>1 DEF Reached
<1>14. \A z \in Sites : Holds(z)' => z # s /\ Holds(z) /\ sweep'.res[z] = sweep.res[z]
  BY <1>2, <1>6, <1>7, <1>13 DEF Holds
<1>15. Unwritten'
  <2>1. \A z \in Sites, a \in Audits : Holds(z)' => row'[z][a].at # sweep'.res[z].at
    BY <1>8, <1>14 DEF IInv, Unwritten
  <2>2. ASSUME NEW t \in Retests, retest[t].pc = "write"
        PROVE  /\ \A a \in Audits : row'[retest[t].site][a].at # retest[t].res.at
               /\ Holds(retest[t].site)' =>
                     sweep'.res[retest[t].site].at # retest[t].res.at
    <3>1. retest[t].site \in Sites
      BY <2>2, RetestAt
    <3>2. retest[t].site = s => r.at # retest[t].res.at
      BY <1>3, <1>12, <2>2 DEF IInv, Unwritten
    <3>3. \A a \in Audits : row'[retest[t].site][a].at # retest[t].res.at
      BY <1>8, <2>2, <3>1, <3>2 DEF IInv, Unwritten
    <3>4. ASSUME Holds(retest[t].site)'
          PROVE  sweep'.res[retest[t].site].at # retest[t].res.at
      BY <1>2, <1>14, <2>2, <3>1, <3>4 DEF IInv, Unwritten
    <3>. QED
      BY <3>3, <3>4
  <2>. QED
    BY <1>2, <2>1, <2>2 DEF IInv, Unwritten
<1>16. Rewritten'
  BY <1>2, <1>3, <1>5, RewrittenAges DEF Rewritten, Fields
<1>17. Night'
  <2>1. \A z \in Reached' : sweep'.res[z].at > sweep'.began[z]
    BY <1>2, <1>6, <1>7, <1>12, <1>13 DEF IInv, Night, Reached
  <2>2. FiledAs(s)'
    BY <1>5, <1>6, <1>7 DEF FiledAs, LighthouseMiss, Fields, Applicable
  <2>3. ASSUME NEW z \in Sites, z # s, FiledAs(z) PROVE FiledAs(z)'
    <3>1. PICK g \in Filing :
             /\ sweep.filed[z] = {g}
             /\ g = "na" => Applicable(sweep.res[z]) = {}
             /\ g = "written" =>
                   /\ ~LighthouseMiss(sweep.res[z])
                   /\ \A a \in Fields(sweep.res[z]) : row[z][a].at >= sweep.res[z].at
      BY <2>3 DEF FiledAs
    <3>2. row'[z] = row[z] /\ sweep'.res[z] = sweep.res[z] /\ sweep'.filed[z] = {g}
      BY <1>5, <1>6, <1>7, <2>3, <3>1 DEF Overwrites
    <3>. QED
      BY <3>1, <3>2 DEF FiledAs, LighthouseMiss, Fields, Applicable
  <2>4. \A z \in Reached' \ sweep'.todo : FiledAs(z)'
    BY <1>2, <1>7, <1>13, <2>2, <2>3 DEF IInv, Night, Reached
  <2>5. sweep'.todo \subseteq Reached'
    BY <1>2, <1>7, <1>13 DEF IInv, Night
  <2>. QED
    BY <1>2, <1>7, <2>1, <2>4, <2>5 DEF IInv, Night
<1>. QED
  BY <1>9, <1>11, <1>15, <1>16, <1>17 DEF IInv

-----------------------------------------------------------------------------
(* The re-tests *)

LEMMA SetRetest ==
  ASSUME Shape, NEW t \in Retests, NEW x \in RetestState \cup {NoRetest},
         retest' = [retest EXCEPT ![t] = x]
  PROVE  /\ retest' \in [Retests -> RetestState \cup {NoRetest}] /\ retest'[t] = x
         /\ \A u \in Retests : u # t => retest'[u] = retest[u]
BY DEF Shape

\* The sweep's part of the invariant does not look at the re-tests.
LEMMA SweepKept ==
  ASSUME IInv, UNCHANGED sweep, \A s \in Sites : clock'[s] \in Nat /\ clock'[s] >= clock[s],
         \A s \in Sites, a \in Audits : row'[s][a].at \in Nat /\ row'[s][a].at >= row[s][a].at
  PROVE  Night'
<1>1. /\ Reached' = Reached /\ sweep \in SweepState /\ clock \in [Sites -> Nat]
      /\ row \in [Sites -> Cells]
  BY DEF Reached, IInv, Shape
<1>2. CASE sweep.pc # "idle"
  <2>1. \A s \in Sites : sweep.began[s] \in Nat /\ sweep.began[s] <= clock[s]
    BY <1>1, <1>2 DEF IInv, Night, SweepState
  <2>2. \A s \in Sites : sweep.began[s] <= clock'[s]
    BY <1>1, <2>1
  <2>3. ASSUME sweep.pc = "write", NEW s \in Reached \ sweep.todo PROVE FiledAs(s)'
    <3>1. PICK f \in Filing :
             /\ sweep.filed[s] = {f}
             /\ f = "na" => Applicable(sweep.res[s]) = {}
             /\ f = "written" =>
                   /\ ~LighthouseMiss(sweep.res[s])
                   /\ \A a \in Fields(sweep.res[s]) : row[s][a].at >= sweep.res[s].at
      BY <2>3 DEF IInv, Night, FiledAs
    <3>2. s \in Sites /\ sweep.res[s].at \in Nat
      BY <1>1 DEF Reached, SweepState, Results
    <3>3. ASSUME NEW a \in Fields(sweep.res[s]), row[s][a].at >= sweep.res[s].at
          PROVE  row'[s][a].at >= sweep.res[s].at
      <4>1. a \in Audits
        BY DEF Fields
      <4>2. row[s][a].at \in Nat
        BY <1>1, <3>2, <4>1 DEF Cells
      <4>. QED
        BY <3>2, <3>3, <4>1, <4>2
    <3>. QED
      BY <3>1, <3>3 DEF FiledAs, LighthouseMiss, Fields, Applicable
  <2>. QED
    BY <1>1, <1>2, <2>2, <2>3 DEF IInv, Night
<1>3. CASE sweep.pc = "idle"
  BY <1>3 DEF Night
<1>. QED
  BY <1>2, <1>3

\* A re-test that measures nothing and writes nothing.
LEMMA RetestMoves ==
  ASSUME IInv, NEW t \in Retests, NEW x \in RetestState \cup {NoRetest},
         retest' = [retest EXCEPT ![t] = x], UNCHANGED <<row, name, clock, sweep>>,
         left' \in [sweeps : Nat, retests : Nat, troubles : Nat],
         x.pc = "idle" \/ (x.pc = "measure" /\ x.site \in Sites /\ x.res.at = 0)
  PROVE  IInv'
<1>1. Shape /\ clock \in [Sites -> Nat] /\ row \in [Sites -> Cells]
  BY DEF IInv, Shape
<1>2. /\ retest' \in [Retests -> RetestState \cup {NoRetest}] /\ retest'[t] = x
      /\ \A u \in Retests : u # t => retest'[u] = retest[u]
  BY <1>1, SetRetest
<1>3. Shape'
  BY <1>1, <1>2 DEF Shape
<1>4. Stamped'
  <2>1. ASSUME NEW u \in Retests, retest'[u].pc # "idle"
        PROVE  retest'[u].res.at <= clock[retest'[u].site]
    BY <1>1, <1>2, <2>1 DEF IInv, Stamped
  <2>. QED
    BY <2>1 DEF IInv, Stamped
<1>5. \A u \in Retests : retest'[u].pc \in {"write", "read"} => u # t /\ retest'[u] = retest[u]
  BY <1>2
<1>6. Unwritten'
  <2>1. ASSUME NEW u \in Retests, retest'[u].pc = "write"
        PROVE  /\ \A a \in Audits : row[retest'[u].site][a].at # retest'[u].res.at
               /\ Holds(retest'[u].site) =>
                     sweep.res[retest'[u].site].at # retest'[u].res.at
               /\ \A v \in Retests \ {u} :
                     retest'[v].pc = "write" /\ retest'[v].site = retest'[u].site =>
                         retest'[v].res.at # retest'[u].res.at
    BY <1>5, <2>1 DEF IInv, Unwritten
  <2>. QED
    BY <2>1 DEF IInv, Unwritten, Holds, Reached
<1>7. Rewritten'
  BY <1>5 DEF IInv, Rewritten, Fields
<1>8. Night'
  BY <1>1, SweepKept DEF Cells
<1>. QED
  BY <1>3, <1>4, <1>6, <1>7, <1>8 DEF IInv

LEMMA PlanFits ==
  ASSUME IInv, NEW t \in Retests, NEW s \in Sites, Plan(t, s)
  PROVE  IInv'
<1>. DEFINE x == [pc |-> "measure", site |-> s, slug |-> name[s], asked |-> Reasons(row[s]),
                  res |-> NoResults, filed |-> {}]
<1>1. name[s] \in Nat /\ Reasons(row[s]) \subseteq Audits
  BY DEF IInv, Shape, Reasons
<1>2. x \in RetestState /\ x.pc = "measure" /\ x.site = s /\ x.res.at = 0
  BY <1>1, NoResultsIs DEF RetestState
<1>3. /\ retest' = [retest EXCEPT ![t] = x] /\ UNCHANGED <<row, name, clock, sweep>>
      /\ left' \in [sweeps : Nat, retests : Nat, troubles : Nat]
  BY DEF Plan, IInv, Shape
<1>. HIDE DEF x
<1>. QED
  BY <1>2, <1>3, RetestMoves

LEMMA ReportFits ==
  ASSUME IInv, NEW t \in Retests, Report(t)
  PROVE  IInv'
BY RetestMoves DEF Report, NoRetest, IInv, Shape

LEMMA RemeasureFits ==
  ASSUME IInv, NEW t \in Retests, Remeasure(t)
  PROVE  IInv'
<1>. DEFINE s == retest[t].site
            x == [retest[t] EXCEPT !.pc = "write", !.res = Measured(s)]
<1>1. /\ retest[t].pc = "measure" /\ UNCHANGED <<row, name, sweep, left>> /\ Shape
      /\ clock \in [Sites -> Nat] /\ row \in [Sites -> Cells] /\ sweep \in SweepState
  BY DEF Remeasure, IInv, Shape
<1>2. retest[t] \in RetestState /\ s \in Sites
  BY <1>1, RetestAt
<1>3. CASE retest' = [retest EXCEPT ![t] = NoRetest] /\ UNCHANGED clock
  BY <1>1, <1>3, RetestMoves DEF NoRetest, Shape
<1>4. CASE /\ retest' = [retest EXCEPT ![t].pc = "write", ![t].res = Measured(s)]
           /\ clock' = [clock EXCEPT ![s] = @ + 1]
  <2>1. Measured(s) \in Results /\ Measured(s).at = clock[s] + 1
    BY <1>1, <1>2, MeasuredIs
  <2>2. x \in RetestState /\ x.pc = "write" /\ x.site = s /\ x.res.at = clock[s] + 1
    BY <1>2, <2>1 DEF RetestState
  <2>3. retest' = [retest EXCEPT ![t] = x]
    BY <1>1, <1>4 DEF Shape
  <2>. HIDE DEF x
  <2>4. /\ retest' \in [Retests -> RetestState \cup {NoRetest}] /\ retest'[t] = x
        /\ \A u \in Retests : u # t => retest'[u] = retest[u]
    BY <1>1, <2>2, <2>3, SetRetest
  <2>5. /\ clock' \in [Sites -> Nat] /\ clock'[s] = clock[s] + 1
        /\ \A z \in Sites : z # s => clock'[z] = clock[z]
    BY <1>1, <1>2, <1>4
  <2>6. \A z \in Sites : clock[z] \in Nat /\ clock'[z] \in Nat /\ clock'[z] >= clock[z]
    BY <1>1, <2>5
  <2>7. Shape'
    BY <1>1, <2>4, <2>5 DEF Shape
  <2>8. Stamped'
    <3>1. \A z \in Sites, a \in Audits : row[z][a].at <= clock'[z]
      BY <1>1, <2>6 DEF IInv, Stamped, Cells
    <3>2. \A z \in Sites : sweep.res[z].at <= clock'[z]
      BY <1>1, <2>6 DEF IInv, Stamped, SweepState, Results
    <3>3. ASSUME NEW u \in Retests, retest'[u].pc # "idle"
          PROVE  retest'[u].res.at <= clock'[retest'[u].site]
      <4>1. CASE u = t
        BY <1>1, <1>2, <2>2, <2>4, <2>5, <4>1
      <4>2. CASE u # t
        BY <2>4, <2>6, <3>3, <4>2, RetestAt
      <4>. QED
        BY <4>1, <4>2
    <3>. QED
      BY <1>1, <3>1, <3>2, <3>3 DEF Stamped
  <2>9. Unwritten'
    <3>1. \A a \in Audits : row[s][a].at # x.res.at
      BY <1>1, <1>2, <2>2 DEF IInv, Stamped, Cells
    <3>2. sweep.res[s].at # x.res.at
      BY <1>1, <1>2, <2>2 DEF IInv, Stamped, SweepState, Results
    <3>3. ASSUME NEW u \in Retests, u # t, retest[u].pc = "write", retest[u].site = s
          PROVE  retest[u].res.at # x.res.at
      BY <1>1, <1>2, <2>2, <3>3, RetestAt
    <3>4. ASSUME NEW u \in Retests, retest'[u].pc = "write"
          PROVE  /\ \A a \in Audits : row[retest'[u].site][a].at # retest'[u].res.at
                 /\ Holds(retest'[u].site) =>
                       sweep.res[retest'[u].site].at # retest'[u].res.at
                 /\ \A v \in Retests \ {u} :
                       retest'[v].pc = "write" /\ retest'[v].site = retest'[u].site =>
                           retest'[v].res.at # retest'[u].res.at
      <4>1. CASE u = t
        BY <2>2, <2>4, <3>1, <3>2, <3>3, <4>1
      <4>2. CASE u # t
        <5>1. retest'[u] = retest[u] /\ retest[u].pc = "write"
          BY <2>4, <3>4, <4>2
        <5>2. \A v \in Retests \ {u} :
                 retest'[v].pc = "write" /\ retest'[v].site = retest[u].site =>
                     retest'[v].res.at # retest[u].res.at
          BY <2>2, <2>4, <3>3, <4>2, <5>1 DEF IInv, Unwritten
        <5>. QED
          BY <5>1, <5>2 DEF IInv, Unwritten
      <4>. QED
        BY <4>1, <4>2
    <3>. QED
      BY <1>1, <3>4 DEF IInv, Unwritten, Holds, Reached
  <2>10. Rewritten'
    BY <1>1, <2>2, <2>4 DEF IInv, Rewritten, Fields
  <2>11. Night'
    BY <1>1, <2>6, SweepKept DEF Cells
  <2>. QED
    BY <2>7, <2>8, <2>9, <2>10, <2>11 DEF IInv
<1>. QED
  BY <1>3, <1>4 DEF Remeasure

LEMMA RewriteFits ==
  ASSUME IInv, NEW t \in Retests, Rewrite(t)
  PROVE  IInv'
<1>. DEFINE s == retest[t].site
<1>1. PICK f \in Filing, o \in Outcomes(retest[t].asked) :
         /\ WriteBack(s, name[s], [retest[t].res EXCEPT !.out = o], f)
         /\ retest' = [retest EXCEPT ![t].pc = "read",
                          ![t].res = [retest[t].res EXCEPT !.out = o], ![t].filed = {f}]
  BY DEF Rewrite
<1>. DEFINE r == [retest[t].res EXCEPT !.out = o]
            x == [retest[t] EXCEPT !.pc = "read", !.res = r, !.filed = {f}]
<1>2. /\ retest[t].pc = "write" /\ UNCHANGED <<name, clock, sweep>> /\ Shape
      /\ clock \in [Sites -> Nat] /\ row \in [Sites -> Cells] /\ sweep \in SweepState
  BY DEF Rewrite, IInv, Shape
<1>3. /\ retest[t] \in RetestState /\ s \in Sites /\ retest[t].res \in Results
      /\ retest[t].res.at <= clock[s]
  BY <1>2, RetestAt
<1>4. r \in Results /\ r.at = retest[t].res.at /\ r.at \in Nat
  <2>1. o \in [Audits -> Outcome]
    BY DEF Outcomes
  <2>. QED
    BY <1>3, <2>1 DEF Results
<1>5. x \in RetestState /\ x.pc = "read" /\ x.site = s /\ x.res = r /\ x.filed = {f}
  BY <1>3, <1>4 DEF RetestState
<1>6. retest' = [retest EXCEPT ![t] = x]
  BY <1>1, <1>2 DEF Shape
<1>. HIDE DEF x
<1>7. /\ retest' \in [Retests -> RetestState \cup {NoRetest}] /\ retest'[t] = x
      /\ \A u \in Retests : u # t => retest'[u] = retest[u]
  BY <1>2, <1>5, <1>6, SetRetest
<1>8. /\ Overwrites(s, r.at) /\ left' \in [sweeps : Nat, retests : Nat, troubles : Nat]
      /\ f \in {"written", "missed"} => \A a \in Fields(r) : row'[s][a].at >= r.at
  <2>1. WriteBack(s, name[s], r, f)
    BY <1>1
  <2>. HIDE DEF r
  <2>. QED
    BY <1>2, <1>3, <1>4, <2>1, WriteIs DEF Overwrites
<1>. HIDE DEF r
<1>9. \A z \in Sites, a \in Audits :
         /\ row[z][a].at \in Nat /\ row'[z][a].at \in Nat
         /\ row'[z][a].at >= row[z][a].at
         /\ row'[z][a].at = row[z][a].at \/ (z = s /\ row'[z][a].at = r.at)
  BY <1>2, <1>3, <1>4, <1>8, RowsAge
<1>10. Shape'
  BY <1>2, <1>7, <1>8 DEF Shape, Overwrites
<1>11. Stamped'
  <2>1. \A z \in Sites, a \in Audits : row'[z][a].at <= clock[z]
    BY <1>3, <1>4, <1>9 DEF IInv, Stamped
  <2>2. ASSUME NEW u \in Retests, retest'[u].pc # "idle"
        PROVE  retest'[u].res.at <= clock[retest'[u].site]
    BY <1>3, <1>4, <1>5, <1>7, <2>2 DEF IInv, Stamped
  <2>. QED
    BY <1>2, <2>1, <2>2 DEF IInv, Stamped
<1>12. \A u \in Retests : retest'[u].pc = "write" => u # t /\ retest'[u] = retest[u]
  BY <1>5, <1>7
<1>13. Unwritten'
  <2>1. Holds(s) => sweep.res[s].at # r.at
    BY <1>2, <1>4 DEF IInv, Unwritten
  <2>2. \A z \in Sites, a \in Audits : Holds(z) => row'[z][a].at # sweep.res[z].at
    BY <1>9, <2>1 DEF IInv, Unwritten
  <2>3. ASSUME NEW u \in Retests, retest'[u].pc = "write"
        PROVE  /\ \A a \in Audits : row'[retest'[u].site][a].at # retest'[u].res.at
               /\ Holds(retest'[u].site) =>
                     sweep.res[retest'[u].site].at # retest'[u].res.at
               /\ \A v \in Retests \ {u} :
                     retest'[v].pc = "write" /\ retest'[v].site = retest'[u].site =>
                         retest'[v].res.at # retest'[u].res.at
    <3>1. u # t /\ retest'[u] = retest[u] /\ retest[u].pc = "write" /\ retest[u].site \in Sites
      BY <1>12, <2>3, RetestAt
    <3>2. retest[u].site = s => r.at # retest[u].res.at
      BY <1>2, <1>4, <3>1 DEF IInv, Unwritten
    <3>3. \A a \in Audits : row'[retest[u].site][a].at # retest[u].res.at
      BY <1>9, <3>1, <3>2 DEF IInv, Unwritten
    <3>4. Holds(retest[u].site) => sweep.res[retest[u].site].at # retest[u].res.at
      BY <3>1 DEF IInv, Unwritten
    <3>5. \A v \in Retests \ {u} :
             retest'[v].pc = "write" /\ retest'[v].site = retest[u].site =>
                 retest'[v].res.at # retest[u].res.at
      BY <1>12, <3>1 DEF IInv, Unwritten
    <3>. QED
      BY <3>1, <3>3, <3>4, <3>5
  <2>. QED
    BY <1>2, <2>2, <2>3 DEF Unwritten, Holds, Reached
<1>14. Rewritten'
  <2>1. ASSUME NEW u \in Retests, retest'[u].pc = "read",
               retest'[u].filed \subseteq {"written", "missed"},
               NEW a \in Audits, retest'[u].res.out[a] \in Verdict
        PROVE  row'[retest'[u].site][a].at >= retest'[u].res.at
    <3>1. CASE u = t
      <4>1. f \in {"written", "missed"} /\ a \in Fields(r)
        BY <1>5, <1>7, <2>1, <3>1 DEF Fields
      <4>. QED
        BY <1>5, <1>7, <1>8, <3>1, <4>1
    <3>2. CASE u # t
      <4>1. retest'[u] = retest[u] /\ a \in Fields(retest[u].res)
        BY <1>7, <2>1, <3>2 DEF Fields
      <4>. QED
        BY <1>3, <1>4, <1>8, <2>1, <4>1, RewrittenAges
    <3>. QED
      BY <3>1, <3>2
  <2>. QED
    BY <2>1 DEF Rewritten, Fields
<1>15. Night'
  BY <1>2, <1>9, SweepKept
<1>. QED
  BY <1>10, <1>11, <1>13, <1>14, <1>15 DEF IInv

-----------------------------------------------------------------------------
(* Theorems *)

LEMMA StepFits == IInv /\ [Next]_vars => IInv'
<1>. SUFFICES ASSUME IInv, [Next]_vars PROVE IInv'
  OBVIOUS
<1>1. CASE UNCHANGED vars
  BY <1>1 DEF vars, IInv, Shape, Stamped, Unwritten, Holds, Reached, Rewritten, Fields, Night,
              FiledAs, Applicable, LighthouseMiss
<1>. QED
  BY <1>1, BeginFits, MeasureFits, LoseSiteFits, WriteFits, RenameFits, BeginWritingFits,
     EndFits, PlanFits, RemeasureFits, RewriteFits, ReportFits DEF Next

LEMMA IInvHolds == Spec => []IInv
BY InitFits, StepFits, PTL DEF Spec

\* Every row, result and filing stays in its type, and a stamp in the row is of a
\* measurement that was made.
THEOREM TypeCorrect == Spec => []TypeOK
<1>1. IInv => TypeOK
  BY RetestIs DEF IInv, Shape, Stamped, TypeOK, SweepState, RetestState
<1>. QED
  BY <1>1, IInvHolds, PTL

\* A write meets an older verdict under another stamp, or leaves the row alone.
LEMMA WriteAges ==
  ASSUME row \in [Sites -> Cells], NEW s \in Sites, NEW at \in Nat, Overwrites(s, at),
         \A a \in Audits : row[s][a].at # at,
         NEW z \in Sites, NEW a \in Audits
  PROVE  /\ row'[z][a].at >= row[z][a].at
         /\ row'[z][a].ok # row[z][a].ok => row'[z][a].at > row[z][a].at
<1>1. row'[z][a] = row[z][a] \/ (z = s /\ row'[z][a].at = at /\ row[z][a].at <= at)
  BY DEF Overwrites
<1>2. row[z][a].at \in Nat
  BY DEF Cells
<1>. QED
  BY <1>1, <1>2

LEMMA VerdictAges ==
  ASSUME IInv, [Next]_vars, NEW z \in Sites, NEW a \in Audits
  PROVE  /\ row'[z][a].at >= row[z][a].at
         /\ row'[z][a].ok # row[z][a].ok => row'[z][a].at > row[z][a].at
<1>1. Shape /\ row \in [Sites -> Cells] /\ sweep \in SweepState
  BY DEF IInv, Shape
<1>2. CASE UNCHANGED row
  BY <1>1, <1>2 DEF Cells
<1>3. ASSUME NEW s \in Sites, Write(s)
      PROVE  /\ row'[z][a].at >= row[z][a].at
             /\ row'[z][a].ok # row[z][a].ok => row'[z][a].at > row[z][a].at
  <2>1. PICK f \in Filing, o \in Outcomes(Audits) :
           WriteBack(s, sweep.roster[s], [sweep.res[s] EXCEPT !.out = o], f)
    BY <1>3 DEF Write
  <2>. DEFINE r == [sweep.res[s] EXCEPT !.out = o]
  <2>2. r \in Results /\ r.at = sweep.res[s].at /\ r.at \in Nat
    BY <1>1 DEF SweepState, Outcomes, Results
  <2>. HIDE DEF r
  <2>3. Overwrites(s, r.at)
    BY <1>1, <2>1, <2>2, WriteIs DEF r, Overwrites
  <2>4. Holds(s)
    BY <1>3 DEF Write, IInv, Night, Holds
  <2>. QED
    BY <1>1, <2>2, <2>3, <2>4, WriteAges DEF IInv, Unwritten
<1>4. ASSUME NEW t \in Retests, Rewrite(t)
      PROVE  /\ row'[z][a].at >= row[z][a].at
             /\ row'[z][a].ok # row[z][a].ok => row'[z][a].at > row[z][a].at
  <2>. DEFINE s == retest[t].site
  <2>1. PICK f \in Filing, o \in Outcomes(retest[t].asked) :
           WriteBack(s, name[s], [retest[t].res EXCEPT !.out = o], f)
    BY <1>4 DEF Rewrite
  <2>2. retest[t].pc = "write" /\ s \in Sites /\ retest[t].res \in Results
    BY <1>4, RetestAt DEF Rewrite
  <2>. DEFINE r == [retest[t].res EXCEPT !.out = o]
  <2>3. r \in Results /\ r.at = retest[t].res.at /\ r.at \in Nat
    BY <2>2 DEF Outcomes, Results
  <2>. HIDE DEF r
  <2>4. Overwrites(s, r.at)
    BY <1>1, <2>1, <2>2, <2>3, WriteIs DEF r, Overwrites
  <2>. QED
    BY <1>1, <2>2, <2>3, <2>4, WriteAges DEF IInv, Unwritten
<1>5. CASE UNCHANGED vars
  BY <1>2, <1>5 DEF vars
<1>. QED
  BY <1>2, <1>3, <1>4, <1>5 DEF Next, Begin, Measure, LoseSite, Rename, BeginWriting, Finish,
     SweepDies, Plan, Remeasure, Report

\* guardStampedSets: whatever sweeps and re-tests overlap, a row never goes back in time,
\* and a verdict never changes under the stamp of another measurement.
THEOREM RowsOnlyAge == Spec => VerdictsOnlyAge
<1>1. IInv /\ [Next]_vars =>
         [\A s \in Sites, a \in Audits :
             /\ row'[s][a].at >= row[s][a].at
             /\ row'[s][a].ok # row[s][a].ok => row'[s][a].at > row[s][a].at]_vars
  BY VerdictAges
<1>. QED
  BY <1>1, IInvHolds, PTL DEF Spec, VerdictsOnlyAge

\* runSiteRetestCommand: what a re-test reports cleared, or green, stands on its own
\* measurement or a newer one, whoever wrote the row in between.
THEOREM RetestIsTrue == Spec => []RetestTellsTruth
<1>1. IInv => RetestTellsTruth
  <2>. SUFFICES ASSUME IInv, NEW t \in Retests, retest[t].pc = "read"
                PROVE  LET cells == row[retest[t].site]
                           known(a) == cells[a].at >= retest[t].res.at
                       IN  /\ \A a \in Cleared(t, cells) : known(a) /\ cells[a].ok = "pass"
                           /\ RetestGreen(t, cells) =>
                                  \A a \in retest[t].asked : known(a) /\ cells[a].ok # "null"
    BY DEF RetestTellsTruth
  <2>1. \A a \in RetestMeasured(t) : row[retest[t].site][a].at >= retest[t].res.at
    BY DEF RetestMeasured, IInv, Rewritten
  <2>. QED
    BY <2>1 DEF Cleared, RetestGreen
<1>. QED
  BY <1>1, IInvHolds, PTL

LEMMA Fewer ==
  ASSUME NEW T, NEW S, T \subseteq Sites, S \subseteq T
  PROVE  /\ Cardinality(S) \in Nat /\ Cardinality(T) \in Nat
         /\ Cardinality(S) <= Cardinality(T)
<1>1. IsFiniteSet(T)
  BY FS_Subset, HealthStampsAssumption
<1>2. IsFiniteSet(S) /\ Cardinality(S) <= Cardinality(T)
  BY <1>1, FS_Subset
<1>. QED
  BY <1>1, <1>2, FS_CardinalityType

\* The verdict of a sweep whose gate is green.
LEMMA GreenIsFresh ==
  ASSUME IInv, sweep.pc = "write", sweep.todo = {}, ~Red, NEW a \in Audits
  PROVE  LET owed == {s \in Owed : a \in Applicable(sweep.res[s]) \/ s \in Missing}
             stale == {s \in owed : row[s][a].at <= sweep.began[s]}
         IN  /\ 4 * Cardinality(stale \ Blind(a)) <= Cardinality(Owed)
             /\ 4 * Cardinality(stale \cap Blind(a)) <= Cardinality(Owed)
<1>. DEFINE owed == {s \in Owed : a \in Applicable(sweep.res[s]) \/ s \in Missing}
            stale == {s \in owed : row[s][a].at <= sweep.began[s]}
            failed == Filed({"gone", "empty", "lost", "missed"}) \cup Missing
<1>1. /\ sweep \in SweepState /\ row \in [Sites -> Cells]
      /\ \A s \in Reached : FiledAs(s) /\ sweep.res[s].at > sweep.began[s]
  BY DEF IInv, Shape, Night
<1>2. /\ ~(Cardinality(failed) * 4 > Cardinality(Owed))
      /\ ~(Cardinality(Blind(a)) * 4 > Cardinality(AppliedTo(a)))
  BY DEF Red
<1>3. stale \ Blind(a) \subseteq failed
  <2>. SUFFICES ASSUME NEW s \in stale, s \notin Blind(a), s \notin failed PROVE FALSE
    OBVIOUS
  <2>1. /\ s \in Sites /\ s \in Reached /\ s \notin Filed({"na"})
        /\ s \notin Filed({"gone", "empty", "lost", "missed"})
        /\ a \in Applicable(sweep.res[s]) /\ row[s][a].at <= sweep.began[s]
    BY DEF Owed, Missing
  <2>2. PICK f \in Filing :
           /\ sweep.filed[s] = {f}
           /\ f = "written" =>
                 /\ ~LighthouseMiss(sweep.res[s])
                 /\ \A b \in Fields(sweep.res[s]) : row[s][b].at >= sweep.res[s].at
    BY <1>1, <2>1 DEF FiledAs
  <2>3. f = "written"
    BY <2>1, <2>2 DEF Filed, Filing
  <2>4. /\ sweep.res[s] \in Results /\ sweep.began[s] \in Nat /\ row[s][a].at \in Nat
        /\ sweep.res[s].at \in Nat
    BY <1>1, <2>1 DEF SweepState, Results, Cells
  <2>5. a \notin Fields(sweep.res[s])
    BY <1>1, <2>1, <2>2, <2>3, <2>4
  <2>6. sweep.res[s].out[a] = "none"
    BY <2>1, <2>4, <2>5 DEF Applicable, Fields, Results, Outcome
  <2>7. a \in Unmeasured(sweep.res[s])
    BY <2>2, <2>3, <2>6 DEF Unmeasured, LighthouseMiss
  <2>. QED
    BY <2>1, <2>7 DEF Blind, AppliedTo, Filed
<1>4. AppliedTo(a) \subseteq Owed
  <2>. SUFFICES ASSUME NEW s \in AppliedTo(a), s \in Filed({"na"}) PROVE FALSE
    BY DEF AppliedTo, Owed, Reached
  <2>1. s \in Reached /\ a \in Applicable(sweep.res[s]) /\ sweep.filed[s] \cap {"na"} # {}
    BY DEF AppliedTo, Filed
  <2>. QED
    BY <1>1, <2>1 DEF FiledAs
<1>5. /\ failed \subseteq Sites /\ Owed \subseteq Sites /\ Blind(a) \subseteq AppliedTo(a)
      /\ AppliedTo(a) \subseteq Sites
  BY DEF Filed, Missing, Owed, Blind, AppliedTo, Reached
<1>. HIDE DEF stale, failed, owed
<1>6. /\ Cardinality(stale \ Blind(a)) \in Nat /\ Cardinality(failed) \in Nat
      /\ Cardinality(stale \ Blind(a)) <= Cardinality(failed)
  BY <1>3, <1>5, Fewer
<1>7. /\ Cardinality(stale \cap Blind(a)) \in Nat /\ Cardinality(Blind(a)) \in Nat
      /\ Cardinality(stale \cap Blind(a)) <= Cardinality(Blind(a))
  <2>1. stale \cap Blind(a) \subseteq Blind(a) /\ Blind(a) \subseteq Sites
    BY <1>5
  <2>. QED
    BY <2>1, Fewer
<1>8. /\ Cardinality(AppliedTo(a)) \in Nat /\ Cardinality(Owed) \in Nat
      /\ Cardinality(AppliedTo(a)) <= Cardinality(Owed)
  BY <1>4, <1>5, Fewer
<1>9. 4 * Cardinality(stale \ Blind(a)) <= Cardinality(Owed)
  BY <1>2, <1>6, <1>8
<1>10. 4 * Cardinality(stale \cap Blind(a)) <= Cardinality(Owed)
  BY <1>2, <1>7, <1>8
<1>. QED
  BY <1>9, <1>10 DEF stale, owed

LEMMA OnlyFinishTurnsGreen ==
  ASSUME IInv, [Next]_vars, sweep.pc = "write", sweep'.gate = "green"
  PROVE  sweep.todo = {} /\ ~Red
<1>1. sweep.gate = "none" /\ sweep \in SweepState
  BY DEF IInv, Shape, Night
<1>2. ASSUME UNCHANGED sweep PROVE FALSE
  BY <1>1, <1>2
<1>3. ASSUME NEW s \in Sites, Write(s) PROVE FALSE
  <2>1. sweep'.gate = sweep.gate
    BY <1>1, <1>3 DEF Write, SweepState
  <2>. QED
    BY <1>1, <2>1
<1>4. CASE SweepDies
  BY <1>4, NoSweepIs DEF SweepDies, SweepState
<1>5. CASE Finish
  BY <1>5, NoSweepIs DEF Finish, SweepState
<1>. QED
  BY <1>2, <1>3, <1>4, <1>5 DEF Next, vars, Begin, Measure, LoseSite, Rename, BeginWriting,
     Plan, Remeasure, Rewrite, Report

\* fleetWriteGate: a night that ends green is evidence.  An audit without a verdict of
\* this night or a newer one is short on at most a quarter of the sites owed it, beside
\* the at most a quarter where the night itself says the audit measured nothing.
THEOREM GreenNightHolds == Spec => GreenNightIsFresh
<1>1. IInv /\ [Next]_vars =>
         [sweep.pc = "write" /\ sweep'.gate = "green" =>
            \A a \in Audits :
               LET owed == {s \in Owed : a \in Applicable(sweep.res[s]) \/ s \in Missing}
                   stale == {s \in owed : row[s][a].at <= sweep.began[s]}
               IN  /\ 4 * Cardinality(stale \ Blind(a)) <= Cardinality(Owed)
                   /\ 4 * Cardinality(stale \cap Blind(a)) <= Cardinality(Owed)]_vars
  <2>1. ASSUME IInv, [Next]_vars, sweep.pc = "write", sweep'.gate = "green"
        PROVE  \A a \in Audits :
                  LET owed == {s \in Owed : a \in Applicable(sweep.res[s]) \/ s \in Missing}
                      stale == {s \in owed : row[s][a].at <= sweep.began[s]}
                  IN  /\ 4 * Cardinality(stale \ Blind(a)) <= Cardinality(Owed)
                      /\ 4 * Cardinality(stale \cap Blind(a)) <= Cardinality(Owed)
    BY <2>1, OnlyFinishTurnsGreen, GreenIsFresh
  <2>. QED
    BY <2>1
<1>. QED
  BY <1>1, IInvHolds, PTL DEF Spec, GreenNightIsFresh
=============================================================================
