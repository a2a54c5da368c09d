---------------------------- MODULE MCSafeBatch ----------------------------
(* Finite instance of SafeBatch alone: two transactions. *)
EXTENDS SafeBatch
CONSTANTS t1, t2
=============================================================================
