----------------------------- MODULE MCRngPool -----------------------------
(***************************************************************************)
(* A pool that needs three words of RDSEED, or two and the embedder's      *)
(* source, with one retune of the jitter source left, an interval that is  *)
(* not a multiple of the chunk, and four nonces.                           *)
(***************************************************************************)
EXTENDS RngPool
=============================================================================
