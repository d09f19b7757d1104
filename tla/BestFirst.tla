------------------------------ MODULE BestFirst ------------------------------
(***************************************************************************)
(* The second pass: wchmm_fbs of libjulius/src/search_bestfirst_main.c, an  *)
(* enveloped best-first search over word hypotheses.                       *)
(*                                                                         *)
(* Hypotheses live in nodes.  A node is on one of three linked lists (the   *)
(* stack, the local stack where the words of one expansion are compared,    *)
(* the result stack), is the one being expanded, or waits in the stocker    *)
(* for its next use.                                                       *)
(*                                                                         *)
(* Grain.  The search runs alone.  One action per hypothesis popped, word   *)
(* generated, hypothesis moved from the local stack, and node freed at the  *)
(* end.  Scores are what the acoustic model and the trellis of the first    *)
(* pass give: any, LogZero for a word that -looktrellis does not find on    *)
(* the trellis.  A grammar is the language model, CM_SEARCH is on and no    *)
(* word graph is made, as in the default build and the configuration of     *)
(* HAS.  The grammar may list more words than the local stack holds, as it  *)
(* lists a word once for every arc that leads to it (dfa_decode.c:173-208). *)
(***************************************************************************)
EXTENDS Integers, Sequences, FiniteSets

CONSTANTS
  MaxScore,    \* scores are 1..MaxScore, and LogZero
  StackSize,   \* -s
  NBest,       \* -n, sentences to be found
  OutputMax,   \* -output, sentences to be given
  MaxHypo,     \* -m, hypotheses popped before the search is given up
  Widths,      \* -b2, the word envelope that may be configured; negative for none
  MaxSeqNum,   \* MAXSEQNUM
  Vocab,       \* winfo->num, the limit of the local stack (cm_init)
  LookTrellis, \* looktrellis_flag
  Fallback     \* fallback_pass1_flag

ASSUME SearchAssumption ==
  /\ {StackSize, NBest, OutputMax, MaxHypo, MaxSeqNum, Vocab, MaxScore} \subseteq Nat \ {0}
  /\ Widths \subseteq Int /\ LookTrellis \in BOOLEAN /\ Fallback \in BOOLEAN

NULL == 0
LogZero == 0
Scores == 1..MaxScore

\* All that is ever needed at once: a full stack, all but one of the sentences,
\* a full local stack and one word more, the hypothesis they continue, and that
\* with a pause.
Room == StackSize + NBest + Vocab + 2
Nodes == 1..Room

VARIABLES
  mem,                  \* the nodes, and which of them are free
  stack, local, result, \* start, bottom and number of each list
  now, now_noise,       \* the hypothesis expanded, and with a pause inserted
  pc,
  popctr, finishnum, last_score,
  width, hypo_len_count, maximum_filled_length,
  sent, status,
  \* history: the score of every sentence found
  found

lists    == <<stack, local, result>>
counters == <<popctr, finishnum, last_score, found>>
envelope == <<width, hypo_len_count, maximum_filled_length>>
output   == <<sent, status>>
vars     == <<mem, lists, now, now_noise, pc, counters, envelope, output>>

TypeOK ==
  /\ mem.node \in [Nodes -> [score : 0..MaxScore, seqnum : 0..MaxSeqNum, endflag : BOOLEAN,
                             next : 0..Room, prev : 0..Room]]
  /\ mem.free \subseteq Nodes
  /\ \A s \in {stack, local, result} :
       s.start \in 0..Room /\ s.bottom \in 0..Room /\ s.num \in 0..Room
  /\ now \in 0..Room /\ now_noise \in 0..Room
  /\ pc \in {"words", "local", "pop", "accept", "output", "done"}
  /\ popctr \in Nat /\ finishnum \in 0..NBest /\ last_score \in 0..MaxScore
  /\ width \in Widths /\ hypo_len_count \in [1..MaxSeqNum -> Nat] /\ maximum_filled_length \in -1..MaxSeqNum
  /\ Len(sent) <= OutputMax /\ status \in {"none", "success", "fail"}

-----------------------------------------------------------------------------
(* Nodes and lists.                                                        *)

Blank == [score |-> LogZero, seqnum |-> 0, endflag |-> FALSE, next |-> NULL, prev |-> NULL]
EmptyList == [start |-> NULL, bottom |-> NULL, num |-> 0]

\* free_node puts a node into the stocker; newnode takes one from there or makes
\* one, which tells nothing apart.
Freed(m, n) == [m EXCEPT !.node[n] = Blank, !.free = @ \cup {n}]
NewNode(m) == CHOOSE n \in m.free : \A x \in m.free : n <= x
With(m, score, seqnum, endflag) ==
  LET n == NewNode(m)
  IN  [m EXCEPT !.free = @ \ {n},
                !.node[n] = [Blank EXCEPT !.score = score, !.seqnum = seqnum, !.endflag = endflag]]

\* get_best_from_stack: the list without its first node.
TopOff(m, s) ==
  LET rest == m.node[s.start].next
  IN  [mem  |-> IF rest = NULL THEN m ELSE [m EXCEPT !.node[rest].prev = NULL],
       list |-> [s EXCEPT !.start = rest, !.num = @ - 1]]

\* The i-th node from p along the links dir; NULL behind the end.
Along(m, p, dir) ==
  LET link == [x \in 0..Room |-> IF x = NULL THEN NULL ELSE m.node[x][dir]]
      f[i \in 0..Room] == IF i = 0 THEN p ELSE link[f[i - 1]]
  IN  f

\* The first node from p along dir that is in stops.
FirstAlong(m, p, dir, stops) ==
  LET walk == Along(m, p, dir)
      hits == {i \in 0..Room : walk[i] \in stops}
  IN  walk[CHOOSE i \in hits : \A j \in hits : i <= j]

\* Mutant: the walk from the top stops one node late.
BetweenLate(m, s, n) ==
  LET NotBetter(x) == m.node[x].score <= m.node[n].score
      below == FirstAlong(m, s.start, "next", {x \in Nodes : NotBetter(x)})
  IN  IF s.start = NULL \/ NotBetter(s.start) THEN <<NULL, s.start>>
      ELSE IF ~NotBetter(s.bottom) THEN <<s.bottom, NULL>>
      ELSE <<below, m.node[below].next>>

\* Between which nodes put_to_stack links n: at an end of the list, or where
\* the walk from the end that is nearer in score stops.
Between(m, s, n) ==
  LET score(x) == m.node[x].score
      NotWorse(x)  == score(x) >= score(n)
      NotBetter(x) == score(x) <= score(n)
      above == FirstAlong(m, s.bottom, "prev", {x \in Nodes : NotWorse(x)})
      below == FirstAlong(m, s.start, "next", {x \in Nodes : NotBetter(x)})
  IN  IF s.start = NULL \/ NotBetter(s.start) THEN <<NULL, s.start>>
      ELSE IF NotWorse(s.bottom) THEN <<s.bottom, NULL>>
      ELSE IF score(s.start) + score(s.bottom) > 2 * score(n)
           THEN <<above, m.node[above].next>>
           ELSE <<m.node[below].prev, below>>

\* n linked into the list.
Linked(m, s, n) ==
  LET a == Between(m, s, n)[1]
      b == Between(m, s, n)[2]
      linked(x) == [m.node[x] EXCEPT !.prev = IF x = n THEN a ELSE IF x = b THEN n ELSE @,
                                     !.next = IF x = n THEN b ELSE IF x = a THEN n ELSE @]
  IN  [mem  |-> [m EXCEPT !.node = [x \in Nodes |-> linked(x)]],
       list |-> [start  |-> IF a = NULL THEN n ELSE s.start,
                 bottom |-> IF b = NULL THEN n ELSE s.bottom,
                 num    |-> s.num + 1]]

\* Mutant: the predecessor of the bottom still leads to it.
EvictedOpen(m, s) ==
  [mem |-> Freed(m, s.bottom), list |-> [s EXCEPT !.bottom = m.node[@].prev, !.num = @ - 1]]

\* The list without its bottom, which is freed.
Evicted(m, s) ==
  LET up == m.node[s.bottom].prev
      cut == IF up = NULL THEN m ELSE [m EXCEPT !.node[up].next = NULL]
  IN  [mem |-> Freed(cut, s.bottom), list |-> [s EXCEPT !.bottom = up, !.num = @ - 1]]

\* put_to_stack: at the limit the worse one of n and the bottom is freed.
\* can_put_to_stack asks the same question before.
Put(m, s, n, size) ==
  IF s.num + 1 <= size THEN Linked(m, s, n)
  ELSE IF m.node[s.bottom].score < m.node[n].score
       THEN LET e == Evicted(m, s) IN Linked(e.mem, e.list, n)
       ELSE [mem |-> Freed(m, n), list |-> s]

-----------------------------------------------------------------------------
(* The search.                                                             *)

\* A search begins with no hypothesis and looks for first words.
Init ==
  /\ stack = EmptyList /\ local = EmptyList /\ result = EmptyList
  /\ mem = [node |-> [x \in Nodes |-> Blank], free |-> Nodes]
  /\ now = NULL /\ now_noise = NULL /\ pc = "words"
  /\ popctr = 0 /\ finishnum = 0 /\ last_score = LogZero
  /\ width \in Widths /\ hypo_len_count = [l \in 1..MaxSeqNum |-> 0] /\ maximum_filled_length = -1
  /\ sent = << >> /\ status = "none" /\ found = << >>

\* One word that can follow: a hypothesis for the local stack, however full that
\* is, unless the word is not on the trellis.  The first word that a pause may
\* precede makes now_noise.
NextWord(score, sp) ==
  /\ pc = "words"
  /\ sp => now # NULL
  /\ LET seqnum == IF now = NULL THEN 1 ELSE mem.node[now].seqnum + 1
         noisy == sp /\ now_noise = NULL
         m == IF noisy THEN With(mem, LogZero, seqnum - 1, FALSE) ELSE mem
         n == NewNode(m)
         w == With(m, score, seqnum, FALSE)
         p == IF score = LogZero THEN [mem |-> Freed(w, n), list |-> local]
              ELSE Put(w, local, n, Vocab)
     IN  /\ now_noise' = IF noisy THEN NewNode(mem) ELSE now_noise
         /\ mem' = p.mem /\ local' = p.list
  /\ UNCHANGED <<stack, result, now, pc, counters, envelope, output>>

\* With -looktrellis, and no pause on the trellis: the word is given up, and the
\* hypothesis with a pause is made again for the next one.
PauseOffTrellis ==
  /\ pc = "words" /\ LookTrellis /\ now # NULL /\ now_noise = NULL
  /\ LET seqnum == mem.node[now].seqnum
         m == With(mem, LogZero, seqnum, FALSE)
         w == With(m, LogZero, seqnum, FALSE)
     IN  mem' = Freed(Freed(w, NewNode(m)), NewNode(mem))
  /\ UNCHANGED <<lists, now, now_noise, pc, counters, envelope, output>>

\* No more words: the local stack is emptied into the stack, best first.
Push ==
  /\ pc \in {"words", "local"} /\ local.start # NULL
  /\ LET t == TopOff(mem, local)
         p == Put(t.mem, stack, local.start, StackSize)
     IN  mem' = p.mem /\ stack' = p.list /\ local' = t.list
  /\ pc' = "local"
  /\ UNCHANGED <<result, now, now_noise, counters, envelope, output>>

\* The expanded hypothesis is freed.
Expanded ==
  /\ pc \in {"words", "local"} /\ local.start = NULL
  /\ LET m == IF now_noise = NULL THEN mem ELSE Freed(mem, now_noise)
     IN  mem' = IF now = NULL THEN m ELSE Freed(m, now)
  /\ now' = NULL /\ now_noise' = NULL /\ pc' = "pop"
  /\ UNCHANGED <<lists, counters, envelope, output>>

\* wb_ok: not deeper than a length whose count went over the width.
Enveloped(n) == width >= 0 /\ mem.node[n].seqnum <= maximum_filled_length

\* wb_ok counts the hypothesis, and closes its length and all shorter ones.
Count(n) ==
  LET l == mem.node[n].seqnum
  IN  IF width < 0 THEN UNCHANGED envelope
      ELSE /\ UNCHANGED width
           /\ hypo_len_count' = [hypo_len_count EXCEPT ![l] = @ + 1]
           /\ maximum_filled_length' = IF hypo_len_count'[l] > width /\ maximum_filled_length < l
                                       THEN l ELSE maximum_filled_length

\* The best hypothesis is taken off the stack.
Popped(n) == pc = "pop" /\ n # NULL /\ n = stack.start /\ stack' = TopOff(mem, stack).list
MemPopped == TopOff(mem, stack).mem

\* The stack is exhausted.
Exhausted ==
  /\ pc = "pop" /\ stack.start = NULL /\ pc' = "output"
  /\ UNCHANGED <<mem, lists, now, now_noise, counters, envelope, output>>

\* A bogus score, or outside the envelope: dropped uncounted.
PopPruned(n) ==
  /\ Popped(n) /\ (mem.node[n].score <= LogZero \/ Enveloped(n))
  /\ mem' = Freed(MemPopped, n)
  /\ UNCHANGED <<local, result, now, now_noise, pc, counters, envelope, output>>

\* A hypothesis that counts.
Considered(n) ==
  /\ Popped(n) /\ mem.node[n].score > LogZero /\ ~Enveloped(n)
  /\ Count(n) /\ popctr' = popctr + 1

\* A sentence with the score of the last one found is taken for the same.
PopAgain(n) ==
  /\ Considered(n) /\ mem.node[n].endflag /\ mem.node[n].score = last_score
  /\ mem' = Freed(MemPopped, n)
  /\ UNCHANGED <<local, result, now, now_noise, pc, finishnum, last_score, found, output>>

PopSentence(n) ==
  /\ Considered(n) /\ mem.node[n].endflag /\ mem.node[n].score # last_score
  /\ finishnum' = finishnum + 1 /\ last_score' = mem.node[n].score
  /\ found' = Append(found, mem.node[n].score)
  /\ LET p == Put(MemPopped, result, n, NBest) IN mem' = p.mem /\ result' = p.list
  /\ pc' = IF finishnum' >= NBest THEN "output" ELSE "pop"
  /\ UNCHANGED <<local, now, now_noise, output>>

\* Too many hypotheses popped: the search is given up.
GiveUp(n) ==
  /\ Considered(n) /\ ~mem.node[n].endflag /\ popctr' >= MaxHypo
  /\ mem' = Freed(MemPopped, n) /\ pc' = "output"
  /\ UNCHANGED <<local, result, now, now_noise, finishnum, last_score, found, output>>

\* Too long to be expanded.
PopTooLong(n) ==
  /\ Considered(n) /\ ~mem.node[n].endflag /\ popctr' < MaxHypo
  /\ mem.node[n].seqnum >= MaxSeqNum
  /\ mem' = Freed(MemPopped, n)
  /\ UNCHANGED <<local, result, now, now_noise, pc, finishnum, last_score, found, output>>

PopToExpand(n) ==
  /\ Considered(n) /\ ~mem.node[n].endflag /\ popctr' < MaxHypo
  /\ mem.node[n].seqnum < MaxSeqNum
  /\ mem' = MemPopped /\ now' = n /\ pc' = "accept"
  /\ UNCHANGED <<local, result, now_noise, finishnum, last_score, found, output>>

\* Not acceptable as a sentence, or not near the beginning of the input yet.
NotAccepted ==
  /\ pc = "accept" /\ pc' = "words"
  /\ UNCHANGED <<mem, lists, now, now_noise, counters, envelope, output>>

\* Mutant: without a path only the copy goes.
AcceptedLeaks(score) ==
  /\ pc = "accept" /\ score = LogZero
  /\ mem' = Freed(With(mem, score, mem.node[now].seqnum, TRUE), NewNode(mem))
  /\ now' = NULL /\ pc' = "pop"
  /\ UNCHANGED <<lists, now_noise, counters, envelope, output>>

\* Acceptable: a copy with the final score goes back to the stack, and the
\* hypothesis is expanded as well; without a path to the first frame both go.
Accepted(score) ==
  /\ pc = "accept"
  /\ LET n == NewNode(mem)
         m == With(mem, score, mem.node[now].seqnum, TRUE)
         p == Put(m, stack, n, StackSize)
     IN  IF score = LogZero
         THEN /\ mem' = Freed(Freed(m, n), now) /\ now' = NULL /\ pc' = "pop"
              /\ UNCHANGED stack
         ELSE /\ mem' = p.mem /\ stack' = p.list /\ pc' = "words"
              /\ UNCHANGED now
  /\ UNCHANGED <<local, result, now_noise, counters, envelope, output>>

\* Mutant: a further sentence overwrites the last one.
OutputOverwrites ==
  /\ pc = "output" /\ result.start # NULL
  /\ LET n == result.start
         t == TopOff(mem, result)
     IN  /\ sent' = IF Len(sent) < OutputMax THEN Append(sent, mem.node[n].score)
                    ELSE [sent EXCEPT ![OutputMax] = mem.node[n].score]
         /\ mem' = Freed(t.mem, n) /\ result' = t.list
  /\ status' = "success"
  /\ UNCHANGED <<stack, local, now, now_noise, pc, counters, envelope>>

\* result_reorder_and_output: the best sentences are given, the others freed.
Output ==
  /\ pc = "output" /\ result.start # NULL
  /\ LET n == result.start
         t == TopOff(mem, result)
     IN  /\ sent' = IF Len(sent) < OutputMax THEN Append(sent, mem.node[n].score) ELSE sent
         /\ mem' = Freed(t.mem, n) /\ result' = t.list
  /\ status' = "success"
  /\ UNCHANGED <<stack, local, now, now_noise, pc, counters, envelope>>

\* pass2_finalize_on_no_result: the result of the first pass, or failure.
NoResult ==
  /\ pc = "output" /\ finishnum = 0 /\ status = "none"
  /\ mem' = LET n == NewNode(mem) IN Freed(With(mem, LogZero, 1, FALSE), n)
  /\ IF Fallback THEN sent' = <<LogZero>> /\ status' = "success"
                 ELSE sent' = sent /\ status' = "fail"
  /\ UNCHANGED <<lists, now, now_noise, pc, counters, envelope>>

\* free_all_nodes.
FreeRest ==
  /\ pc = "output" /\ status # "none" /\ result.start = NULL
  /\ IF stack.start # NULL
     THEN /\ mem' = Freed(MemPopped, stack.start)
          /\ stack' = TopOff(mem, stack).list /\ UNCHANGED pc
     ELSE UNCHANGED <<mem, stack>> /\ pc' = "done"
  /\ UNCHANGED <<local, result, now, now_noise, counters, envelope, output>>

Pop ==
  \E n \in Nodes :
    \/ PopPruned(n) \/ PopAgain(n) \/ PopSentence(n)
    \/ GiveUp(n) \/ PopTooLong(n) \/ PopToExpand(n)

Next ==
  \/ \E score \in 0..MaxScore, sp \in BOOLEAN : NextWord(score, sp)
  \/ PauseOffTrellis \/ Push \/ Expanded
  \/ Exhausted \/ Pop
  \/ NotAccepted \/ \E score \in 0..MaxScore : Accepted(score)
  \/ Output \/ NoResult \/ FreeRest

Spec == Init /\ [][Next]_vars

-----------------------------------------------------------------------------
(* Properties.                                                             *)

Members(p) == {Along(mem, p, "next")[i] : i \in 0..Room} \ {NULL}

\* The links of a list agree both ways and with its number, whatever was put
\* in, taken off the top or driven out at the bottom (208-361), and every length
\* and count is in its range.  The bottom of an empty list is stale, and never
\* read.
WellLinked(s) ==
  LET down == Along(mem, s.start, "next")
      up   == Along(mem, s.bottom, "prev")
  IN  /\ \A i \in 0..Room : (down[i] # NULL) <=> (i < s.num)
      /\ s.num > 0 =>
           /\ \A i \in 0..s.num - 1 : down[i] = up[s.num - 1 - i]
           /\ up[s.num] = NULL

StacksAreLists == TypeOK /\ \A s \in {stack, local, result} : WellLinked(s)

\* Every node is in one place: none is lost, given out while still in use, or
\* freed twice (search_bestfirst_v1.c:170-216); at the end all are free.
EachNodeOnce ==
  LET places == <<Members(stack.start), Members(local.start), Members(result.start),
                  mem.free, {now} \ {NULL}, {now_noise} \ {NULL}>>
  IN  /\ \A n \in Nodes : Cardinality({i \in DOMAIN places : n \in places[i]}) = 1
      /\ pc = "done" => mem.free = Nodes

\* How many of the sequence q are at least s.
AtLeast(q, s) == Cardinality({i \in DOMAIN q : q[i] >= s})
Least(a, b) == IF a <= b THEN a ELSE b

\* What is given is the best of what was found, best first, although
\* sentences are not found in the order of their scores.
GivesTheBest ==
  pc = "done" /\ found # << >> =>
    /\ \A i, j \in DOMAIN sent : i < j => sent[i] >= sent[j]
    /\ \A s \in 0..MaxScore : AtLeast(sent, s) = Least(OutputMax, AtLeast(found, s))

\* The linked lists implement bounded priority queues.
ScoresOf(s) == [i \in 1..s.num |-> mem.node[Along(mem, s.start, "next")[i - 1]].score]
StackQueue  == INSTANCE HypothesisStack WITH kept <- ScoresOf(stack), Size <- StackSize
ResultQueue == INSTANCE HypothesisStack WITH kept <- ScoresOf(result), Size <- NBest
StackKeepsTheBest == StackQueue!Spec
ResultsKeepTheBest == ResultQueue!Spec

-----------------------------------------------------------------------------
(* What a comment says and the code does not guarantee.                    *)

\* search_bestfirst_main.c:1607-1608: "If the popped hypothesis already reached to
\* the end, we can treat it as a recognition result."
FullSentenceIsResult ==
  [][stack.start # NULL /\ mem.node[stack.start].endflag /\ pc = "pop" =>
       finishnum' = finishnum + 1]_vars
=============================================================================
