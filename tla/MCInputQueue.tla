---------------------------- MODULE MCInputQueue -----------------------------
(***************************************************************************)
(* Small instances of InputQueue: one key going down (1) and up (2).       *)
(***************************************************************************)
EXTENDS InputQueue

MCDeltas == {-2, 1}
==============================================================================
