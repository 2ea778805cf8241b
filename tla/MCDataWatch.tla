----------------------------- MODULE MCDataWatch -----------------------------
(* A bounded instance of DataWatch for TLC.                                *)
EXTENDS DataWatch
=============================================================================
