----------------------------- MODULE MCKvmClient -----------------------------
(***************************************************************************)
(* Small instances of KvmClient; the constants are set in the .cfg.        *)
(***************************************************************************)
EXTENDS KvmClient
==============================================================================
