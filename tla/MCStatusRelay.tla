--------------------------- MODULE MCStatusRelay ---------------------------
(* StatusRelay for TLC: a bound on lines and updates together.  None of the *)
(* steps it cuts off is one the fairness asks for.                          *)
EXTENDS StatusRelay

CONSTANT MaxReports

ReportsBounded == lines + updates <= MaxReports
=============================================================================
