----------------------------- MODULE MCUpdates -----------------------------
(* A bounded instance of Updates for TLC.                                  *)
EXTENDS Updates
=============================================================================
