---------------------------- MODULE HealthStamps ----------------------------
(***************************************************************************)
(* The verdicts of the fleet's audits in site_health, and who writes them: *)
(* the nightly sweep (`audit --fleet turso --write-back`), which measures  *)
(* every site, reads the roster again and only then writes, site by site,  *)
(* and the re-test of one site, which measures what its row reports as     *)
(* failing, writes through the same code and reads the row back.  The      *)
(* sweep ends on a gate (fleetWriteGate), the re-test on a report.         *)
(*                                                                         *)
(* An audit's columns are one verdict: "pass", "fail" or "null" (it ran    *)
(* and cleared the cell), beside its stamp.  Every audit here is one of    *)
(* HEALTH_STAMPED_SETS.  Stamps of two sites are never compared, so each   *)
(* site has a clock of its own, counted in measurements.                   *)
(***************************************************************************)
EXTENDS Naturals, FiniteSets

CONSTANTS
    Sites,
    Audits,      \* the audits a sweep runs, each re-testable
    Lighthouse,  \* the audit whose miss is filed after the row is written
    Comes,       \* what each audit may come to
    Retests,     \* re-test runs that may be under way at once
    MaxSweeps,   \* bound: sweeps
    MaxRetests,  \* bound: re-tests
    MaxTroubles  \* bound: renames, lost writes, sites lost at prep, dead sweeps

Verdict == {"pass", "fail", "null"}

\* What an audit came to: a verdict, nothing measured, not applicable here, or
\* it was not asked for.  Lighthouse applies to every site and writes scores or
\* nothing.
Outcome == Verdict \cup {"none", "na", "unrun"}

ASSUME HealthStampsAssumption ==
    /\ Lighthouse \in Audits
    /\ IsFiniteSet(Sites) /\ IsFiniteSet(Audits)
    /\ Comes \in [Audits -> SUBSET (Outcome \ {"unrun"})]
    /\ Comes[Lighthouse] \subseteq {"pass", "fail", "none"}
    /\ {MaxSweeps, MaxRetests, MaxTroubles} \subseteq Nat

VARIABLES
    row,     \* site_health: each audit's verdict and stamp
    name,    \* how often the site's Name changed: the roster slug follows it
    clock,   \* measurements of the site so far
    sweep,   \* the nightly sweep
    retest,  \* the re-tests
    left     \* what remains of the bounds

vars == <<row, name, clock, sweep, retest, left>>

-----------------------------------------------------------------------------
(* Results *)

\* One site's pooled results: under the slug the run resolved the site by.  No
\* step looks at what the audits came to before the write, which chooses it.
Results == [at : Nat, slug : Nat, out : [Audits -> Outcome]]

Unrun == [a \in Audits |-> "unrun"]

NoResults == [at |-> 0, slug |-> 0, out |-> Unrun]

Measured(s) == [at |-> clock[s] + 1, slug |-> name[s], out |-> Unrun]

Outcomes(asked) ==
    {o \in [Audits -> Outcome] : \A a \in Audits : o[a] \in IF a \in asked THEN Comes[a] ELSE {"unrun"}}

\* The audits that give the row a value (planAuditWrite).
Fields(r) == {a \in Audits : r.out[a] \in Verdict}

LighthouseMiss(r) == r.out[Lighthouse] = "none"

Unmeasured(r) == {a \in Audits \ {Lighthouse} : r.out[a] = "none"}

Applicable(r) == {a \in Audits : r.out[a] \notin {"na", "unrun"}}

-----------------------------------------------------------------------------
(* The write (writeFleetAudits, mirrorHealthFields) *)

\* Mutant: the write before the guard: whoever writes last wins.
LastWriteWinsMutant(cells, r) ==
    [a \in Audits |-> IF a \in Fields(r) THEN [at |-> r.at, ok |-> r.out[a]] ELSE cells[a]]

\* Mutant: the stamp is taken when the row is written, not when it was measured.
StampedAtWriteMutant(cells, r) ==
    [a \in Audits |-> IF a \in Fields(r) /\ cells[a].at <= r.at
                      THEN [at |-> r.at + 1, ok |-> r.out[a]]
                      ELSE cells[a]]

\* guardStampedSets: a set whose stored stamp is newer stays, stamp and columns.
Guarded(cells, r) ==
    [a \in Audits |-> IF a \in Fields(r) /\ cells[a].at <= r.at
                      THEN [at |-> r.at, ok |-> r.out[a]]
                      ELSE cells[a]]

\* How a site is filed: "gone" is no row for the slug, "empty" an audit that
\* measured nothing, "missed" a Lighthouse miss, filed after the write.
Filing == {"written", "gone", "empty", "na", "lost", "missed"}

\* A filing without a write, by the roster the write-back read.
Unwritable(slug, r) ==
    CASE r.slug # slug -> {"gone"}
      [] r.slug = slug /\ Fields(r) = {} /\ LighthouseMiss(r) -> {"missed"}
      [] r.slug = slug /\ Fields(r) = {} /\ ~LighthouseMiss(r) ->
            IF Unmeasured(r) = {} THEN {"na"} ELSE {"empty"}
      [] OTHER -> {}

\* The write of one site, by its id, and how it is filed: one that threw is lost to
\* the run, though the row may hold it.
WriteBack(s, slug, r, filed) ==
    \/ /\ filed \in Unwritable(slug, r)
       /\ UNCHANGED <<row, left>>
    \/ /\ Unwritable(slug, r) = {}
       /\ filed = IF LighthouseMiss(r) THEN "missed" ELSE "written"
       /\ row' = [row EXCEPT ![s] = Guarded(row[s], r)]
       /\ UNCHANGED left
    \/ /\ Unwritable(slug, r) = {}
       /\ left.troubles > 0
       /\ filed = "lost"
       /\ left' = [left EXCEPT !.troubles = @ - 1]
       /\ row' \in {row, [row EXCEPT ![s] = Guarded(row[s], r)]}

-----------------------------------------------------------------------------
(* The sweep *)

\* No sweep under way, with what the last one came to.
NoSweep == [pc |-> "idle", todo |-> {}, began |-> [s \in Sites |-> 0],
            roster |-> [s \in Sites |-> 0],
            res |-> [s \in Sites |-> NoResults], filed |-> [s \in Sites |-> {}],
            gate |-> "none"]

Begin ==
    /\ sweep.pc = "idle"
    /\ left.sweeps > 0
    /\ sweep' = [NoSweep EXCEPT !.pc = "measure", !.todo = Sites, !.began = clock]
    /\ left' = [left EXCEPT !.sweeps = @ - 1]
    /\ UNCHANGED <<row, name, clock, retest>>

\* One site's audits run together.
Measure(s) ==
    /\ sweep.pc = "measure"
    /\ s \in sweep.todo
    /\ sweep' = [sweep EXCEPT !.todo = @ \ {s}, !.res[s] = Measured(s)]
    /\ clock' = [clock EXCEPT ![s] = @ + 1]
    /\ UNCHANGED <<row, name, retest, left>>

\* The site is dropped at prep, or lost on the way: it has no result.
LoseSite(s) ==
    /\ sweep.pc = "measure"
    /\ s \in sweep.todo
    /\ left.troubles > 0
    /\ sweep' = [sweep EXCEPT !.todo = @ \ {s}]
    /\ left' = [left EXCEPT !.troubles = @ - 1]
    /\ UNCHANGED <<row, name, clock, retest>>

Reached == {s \in Sites : sweep.res[s] # NoResults}

\* The roster is read again, and the results are matched against it.
BeginWriting ==
    /\ sweep.pc = "measure"
    /\ sweep.todo = {}
    /\ sweep' = [sweep EXCEPT !.pc = "write", !.todo = Reached, !.roster = name]
    /\ UNCHANGED <<row, name, clock, retest, left>>

Write(s) ==
    /\ sweep.pc = "write"
    /\ s \in sweep.todo
    /\ \E f \in Filing, o \in Outcomes(Audits) :
          LET r == [sweep.res[s] EXCEPT !.out = o]
          IN  /\ WriteBack(s, sweep.roster[s], r, f)
              /\ sweep' = [sweep EXCEPT !.todo = @ \ {s}, !.res[s] = r, !.filed[s] = {f}]
    /\ UNCHANGED <<name, clock, retest>>

Filed(kinds) == {s \in Sites : sweep.filed[s] \cap kinds # {}}

Missing == Sites \ Reached

\* The sites of the run that had anything to measure.
Owed == Sites \ Filed({"na"})

\* The sites an audit applied to, of those whose row was found, and those of
\* them where it measured nothing; a Lighthouse miss is a failed site instead.
AppliedTo(a) == {s \in Reached \ Filed({"gone"}) : a \in Applicable(sweep.res[s])}

Blind(a) == {s \in AppliedTo(a) : a \in Unmeasured(sweep.res[s])}

\* Mutant: a site that never reached write-back is not counted.
ForgetMissingMutant ==
    \/ Filed({"written"}) = {}
    \/ Cardinality(Filed({"gone", "empty", "lost", "missed"})) * 4 > Cardinality(Owed)
    \/ Filed({"gone"}) # {}
    \/ \E a \in Audits : Cardinality(Blind(a)) * 4 > Cardinality(AppliedTo(a))

\* fleetWriteGate: failed and missing sites may be a quarter of those owed, and
\* an audit may be blind on a quarter of the sites it applied to.
Red ==
    \/ Filed({"written"}) = {}
    \/ Cardinality(Filed({"gone", "empty", "lost", "missed"}) \cup Missing) * 4 > Cardinality(Owed)
    \/ Filed({"gone"}) # {}
    \/ \E a \in Audits : Cardinality(Blind(a)) * 4 > Cardinality(AppliedTo(a))

Finish ==
    /\ sweep.pc = "write"
    /\ sweep.todo = {}
    /\ sweep' = [NoSweep EXCEPT !.gate = IF Red THEN "red" ELSE "green"]
    /\ UNCHANGED <<row, name, clock, retest, left>>

\* The step runs out of its 75 minutes, or the runner is lost: no verdict line
\* is a red night.
SweepDies ==
    /\ sweep.pc # "idle"
    /\ left.troubles > 0
    /\ sweep' = [NoSweep EXCEPT !.gate = "red"]
    /\ left' = [left EXCEPT !.troubles = @ - 1]
    /\ UNCHANGED <<row, name, clock, retest>>

-----------------------------------------------------------------------------
(* The re-test (runSiteRetestCommand) *)

\* No re-test under way.
NoRetest == [pc |-> "idle"]

\* The audits behind the row's current reasons (retestPlanForRow).
Reasons(cells) == {a \in Audits : cells[a].ok = "fail"}

Plan(t, s) ==
    /\ retest[t].pc = "idle"
    /\ left.retests > 0
    /\ Reasons(row[s]) # {}
    /\ retest' = [retest EXCEPT ![t] =
          [pc |-> "measure", site |-> s, slug |-> name[s], asked |-> Reasons(row[s]),
           res |-> NoResults, filed |-> {}]]
    /\ left' = [left EXCEPT !.retests = @ - 1]
    /\ UNCHANGED <<row, name, clock, sweep>>

\* The audit run resolves the site by the slug the command read, and refuses a
\* slug nobody answers to any more.
Remeasure(t) ==
    /\ retest[t].pc = "measure"
    /\ LET s == retest[t].site
       IN  \/ /\ retest[t].slug = name[s]
              /\ retest' = [retest EXCEPT ![t].pc = "write", ![t].res = Measured(s)]
              /\ clock' = [clock EXCEPT ![s] = @ + 1]
           \/ /\ retest[t].slug # name[s]
              /\ retest' = [retest EXCEPT ![t] = NoRetest]
              /\ UNCHANGED clock
    /\ UNCHANGED <<row, name, sweep, left>>

Rewrite(t) ==
    /\ retest[t].pc = "write"
    /\ \E f \in Filing, o \in Outcomes(retest[t].asked) :
          LET r == [retest[t].res EXCEPT !.out = o]
          IN  /\ WriteBack(retest[t].site, name[retest[t].site], r, f)
              /\ retest' = [retest EXCEPT ![t].pc = "read", ![t].res = r, ![t].filed = {f}]
    /\ UNCHANGED <<name, clock, sweep>>

\* retestMeasured: a Lighthouse miss unmeasures Lighthouse alone.
RetestMeasured(t) ==
    IF retest[t].filed \subseteq {"written", "missed"} THEN Fields(retest[t].res) ELSE {}

\* Mutant: a reason that left the list is cleared, whoever's verdict took it off.
ClearedIfGoneMutant(t, cells) == retest[t].asked \ Reasons(cells)

\* A reason is cleared when its audit was measured and the row holds a pass.
Cleared(t, cells) ==
    {a \in retest[t].asked \cap RetestMeasured(t) : cells[a].ok = "pass"}

\* The run is green when nothing failed to write and every audit asked for was
\* measured, a null verdict not being one.
RetestGreen(t, cells) ==
    /\ retest[t].filed = {"written"}
    /\ retest[t].asked \subseteq RetestMeasured(t)
    /\ \A a \in retest[t].asked : cells[a].ok # "null"

\* The row is read back, by the site's id, and printed as what cleared and
\* whether the run was green.
Report(t) ==
    /\ retest[t].pc = "read"
    /\ retest' = [retest EXCEPT ![t] = NoRetest]
    /\ UNCHANGED <<row, name, clock, sweep, left>>

-----------------------------------------------------------------------------

\* An operator retitles a site.
Rename(s) ==
    /\ left.troubles > 0
    /\ name' = [name EXCEPT ![s] = @ + 1]
    /\ left' = [left EXCEPT !.troubles = @ - 1]
    /\ UNCHANGED <<row, clock, sweep, retest>>

\* A fleet whose last night was all red, at stamp 0.
Init ==
    /\ row = [s \in Sites |-> [a \in Audits |-> [at |-> 0, ok |-> "fail"]]]
    /\ name = [s \in Sites |-> 0]
    /\ clock = [s \in Sites |-> 0]
    /\ sweep = NoSweep
    /\ retest = [t \in Retests |-> NoRetest]
    /\ left = [sweeps |-> MaxSweeps, retests |-> MaxRetests, troubles |-> MaxTroubles]

Next ==
    \/ Begin
    \/ \E s \in Sites : Measure(s) \/ LoseSite(s) \/ Write(s) \/ Rename(s)
    \/ BeginWriting
    \/ Finish
    \/ SweepDies
    \/ \E t \in Retests, s \in Sites : Plan(t, s)
    \/ \E t \in Retests : Remeasure(t) \/ Rewrite(t) \/ Report(t)

Spec == Init /\ [][Next]_vars

-----------------------------------------------------------------------------
(* Properties *)

Cells == [Audits -> [at : Nat, ok : Verdict]]

\* Types, and a stamp in the row is of a measurement that was made.
TypeOK ==
    /\ row \in [Sites -> Cells]
    /\ \A s \in Sites, a \in Audits : row[s][a].at <= clock[s]
    /\ sweep.pc \in {"idle", "measure", "write"}
    /\ sweep.gate \in {"none", "red", "green"}
    /\ sweep.res \in [Sites -> Results]
    /\ sweep.filed \in [Sites -> SUBSET Filing]
    /\ \A t \in Retests : retest[t].pc # "idle" => retest[t].res \in Results

\* A row never goes back in time, and a verdict never changes under the stamp of
\* another measurement: a sweep that measured a site before a re-test did, and
\* writes it an hour after, leaves the re-test's verdict alone (#1886).
VerdictsOnlyAge ==
    [][\A s \in Sites, a \in Audits :
          /\ row'[s][a].at >= row[s][a].at
          /\ row'[s][a].ok # row[s][a].ok => row'[s][a].at > row[s][a].at]_vars

\* A night that ends green is evidence: whatever was lost, renamed, blind or
\* overtaken by re-tests, an audit without a verdict of this night, or a newer
\* one, is short on at most a quarter of the sites owed it, beside the at most a
\* quarter where the night itself says the audit measured nothing.
GreenNightIsFresh ==
    [][sweep.pc = "write" /\ sweep'.gate = "green" =>
          \A a \in Audits :
             LET owed == {s \in Owed : a \in Applicable(sweep.res[s]) \/ s \in Missing}
                 stale == {s \in owed : row[s][a].at <= sweep.began[s]}
             IN  /\ 4 * Cardinality(stale \ Blind(a)) <= Cardinality(Owed)
                 /\ 4 * Cardinality(stale \cap Blind(a)) <= Cardinality(Owed)]_vars

\* What a re-test reports, whenever it reads the row back, stands on its own
\* measurement or a newer one, though a sweep or another re-test wrote before,
\* after or in between: a reason it says is cleared reads a pass, and a green
\* re-test reads a verdict on each.
RetestTellsTruth ==
    \A t \in Retests : retest[t].pc = "read" =>
        LET cells == row[retest[t].site]
            known(a) == cells[a].at >= retest[t].res.at
        IN  /\ \A a \in Cleared(t, cells) : known(a) /\ cells[a].ok = "pass"
            /\ RetestGreen(t, cells) =>
                   \A a \in retest[t].asked : known(a) /\ cells[a].ok # "null"
=============================================================================
