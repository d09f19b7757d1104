----------------------------- MODULE MCMultiGram -----------------------------
(* Grammar files for model-checking MultiGram.                              *)
EXTENDS MultiGram

\* Two categories, the second the pause.
WithPause == [words |-> <<0, 1>>, terms |-> 2, sp |-> 1, ok |-> TRUE]
NoPause   == [words |-> <<0>>, terms |-> 1, sp |-> Invalid, ok |-> TRUE]
Unmapped  == [words |-> <<0>>, terms |-> 1, sp |-> Invalid, ok |-> FALSE]

AllKinds == {WithPause, NoPause, Unmapped}
Known    == {0}
Unknown  == {0, Invalid}
InputCancel == <<WithPause, WithPause>>
OneLoaded == <<WithPause>>
=============================================================================
