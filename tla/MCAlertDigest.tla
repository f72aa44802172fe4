--------------------------- MODULE MCAlertDigest ---------------------------
(* Instances of AlertDigest for TLC: a vuln count, a Lighthouse shortfall and *)
(* a red Renovate PR, the windows scaled down to days a run can reach.        *)
EXTENDS AlertDigest

ThreeKeys == {"vuln", "lighthouse", "renovate"}

SmallMetrics ==
    [k \in ThreeKeys |-> CASE k = "vuln" -> {0, 1, 2}
                          [] k = "lighthouse" -> {0, 1, 3}
                          [] k = "renovate" -> {0, 1}]
=============================================================================
