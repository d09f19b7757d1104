----------------------------- MODULE MCAdinCut ------------------------------
(* Read sizes for model-checking AdinCut.                                   *)
EXTENDS AdinCut

\* Fragments shorter than, equal to and longer than a chunk.
AnyRead == {1, 2, 3}

\* Fragments shorter than a chunk of three, and longer ones that leave a rest.
AlsaRead == {2, 4}

\* Fragments of half a chunk, as a capture device with a short latency gives.
ShortRead == {1}
=============================================================================
