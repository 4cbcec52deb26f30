--------------------------- MODULE MCVideoPipeline ---------------------------
(***************************************************************************)
(* Small instances of VideoPipeline; the constants are set in the .cfg.    *)
(***************************************************************************)
EXTENDS VideoPipeline
==============================================================================
