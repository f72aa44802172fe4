-------------------------- MODULE MCProspectSlots --------------------------
(* Instances of ProspectSlots for TLC. *)
EXTENDS ProspectSlots, TLC

CONSTANTS u, w, c1, r1, r2, a1, a2, a3, none

TwoUrls == {u, w}

\* Two spellings of one site: what the duplicate check takes for two urls and
\* the claim for one.
SiteKey == [url \in Urls |-> "site"]

OneClick == {c1}

TwoRuns == {r1, r2}

ThreeRows == {a1, a2, a3}

\* Requests, runs and rows differ by nothing but their name.
SlotSymmetry == Permutations(Clicks) \cup Permutations(Runs) \cup Permutations(RowIds)
=============================================================================
