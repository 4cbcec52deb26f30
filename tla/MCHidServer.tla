----------------------------- MODULE MCHidServer -----------------------------
(***************************************************************************)
(* Small instances of HidServer: two connections; a key with two virtual   *)
(* aliases; the key wake() taps; a button.                                 *)
(***************************************************************************)
EXTENDS HidServer, TLC

CONSTANTS c1, c2, va, vb, A, Shift, B1

MCClients == {c1, c2}
MCVKs == {va, vb}
MCKeys == {A, Shift}
MCButtons == {B1}
MCKeyOf == (va :> A) @@ (vb :> A)
==============================================================================
