---------------------------- MODULE MCDashboard ----------------------------
(* Dashboard with one chart: the three are drawn by the same steps.         *)
EXTENDS Dashboard
=============================================================================
