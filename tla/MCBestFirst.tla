---------------------------- MODULE MCBestFirst -----------------------------
(* Word envelopes for model-checking BestFirst: none, and the narrowest: it *)
(* closes a length after the first hypothesis of it.                        *)
EXTENDS BestFirst

Envelopes == {-1, 0}
=============================================================================
