--------------------------- MODULE HypothesisStack ---------------------------
(***************************************************************************)
(* What a hypothesis stack of the second pass promises: a bounded priority  *)
(* queue.  It keeps the best scores that were pushed, gives the best one    *)
(* first, and turns away what is not better than the worst it keeps.        *)
(***************************************************************************)
EXTENDS Integers, Sequences

CONSTANTS
  Size,    \* how many it keeps, at least one
  Scores   \* a set of integers

VARIABLE kept   \* the scores, best first

Worst(q) == q[Len(q)]
Front(q) == SubSeq(q, 1, Len(q) - 1)

\* q with s in its place: better scores stay where they are, the others move down
\* by one.
Inserted(q, s) ==
  [i \in 1..Len(q) + 1 |->
     IF i <= Len(q) /\ q[i] > s THEN q[i]
     ELSE IF 1 < i /\ q[i - 1] <= s THEN q[i - 1] ELSE s]

Init == kept = << >>

Push(s) ==
  \/ Len(kept) < Size /\ kept' = Inserted(kept, s)
  \/ Len(kept) = Size /\ Worst(kept) < s /\ kept' = Inserted(Front(kept), s)
  \/ Len(kept) = Size /\ Worst(kept) >= s /\ kept' = kept

PopBest == kept # << >> /\ kept' = Tail(kept)

Next == (\E s \in Scores : Push(s)) \/ PopBest

Spec == Init /\ [][Next]_kept
=============================================================================
