---------------------------- MODULE MCDashboard ----------------------------
(***************************************************************************)
(* Two calls of refresh() at a time, a page of one row, a ledger of two,   *)
(* and one restart.                                                        *)
(***************************************************************************)
EXTENDS Dashboard
=============================================================================
