---------------------------- MODULE MCReportSend ----------------------------
(* Instances of ReportSend for TLC. *)
EXTENDS ReportSend

CONSTANTS r1, r2, s1

\* A Testing report, whose evidence gates the send.
OneChecked == {r1}

\* A Launch report: no evidence, a site to flip.
OneLaunch == {r2}

Both == {r1, r2}

OneSession == {s1}
=============================================================================
