--------------------------- MODULE MCHealthStamps ---------------------------
(* Instances of HealthStamps for TLC. *)
EXTENDS HealthStamps, TLC

CONSTANTS p1, p2, p3, p4, t1

FourSites == {p1, p2, p3, p4}

OneRetest == {t1}

\* Lighthouse passes or misses; the other audit clears its cell ("null"),
\* measures nothing or does not apply.  A row not measured keeps its "fail".
SmallOutcomes == [a \in {"lighthouse", "browser"} |->
                IF a = "lighthouse" THEN {"pass", "none"} ELSE {"null", "none", "na"}]

\* Sites differ by nothing but their name.
SiteSymmetry == Permutations(FourSites)
=============================================================================
