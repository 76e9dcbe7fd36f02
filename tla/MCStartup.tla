----------------------------- MODULE MCStartup ------------------------------
(***************************************************************************)
(* Model values for the runs of Startup: one table of each sort.           *)
(***************************************************************************)
EXTENDS Startup

CONSTANTS a, b  \* instances

TwoInstances == {a, b}

(* Users are never deleted; a press unit has no revisions; a print run has. *)
ThreeTables == <<"users", "press_units", "print_runs">>
=============================================================================
