-------------------------- MODULE BestFirstProofs --------------------------
(***************************************************************************)
(* Proofs about BestFirst, for every stack and local stack of two or more,   *)
(* and any number of words in an expansion, scores and other limits.        *)
(*                                                                         *)
(* A list is a sequence of nodes the links agree with (IsList); taking the  *)
(* top, putting a node in and driving the bottom out are proved to do to    *)
(* that sequence what they should.  Held says where every node is: on one   *)
(* of the three lists, free, the expanded one, the one with a pause, or in  *)
(* hand within an action; and which scores each list holds.  The inductive  *)
(* invariant is SearchInv; ReckonInv adds the account of the sentences.     *)
(***************************************************************************)
EXTENDS BestFirst, FiniteSetTheorems, FunctionTheorems, SequenceTheorems, WellFoundedInduction, TLAPS

\* A set of naturals with an element has a least one.
LEMMA LeastNumber ==
  ASSUME NEW S \in SUBSET Nat, S # {}
  PROVE  \E n \in S : \A k \in S : n <= k
<1> DEFINE R == OpToRel(<, Nat)
<1>1. IsWellFoundedOn(R, Nat)
  BY NatLessThanWellFounded
<1>2. PICK n \in S : \A k \in S : <<k, n>> \notin R
  BY <1>1, WFMin
<1>3. \A k \in S : ~(k < n)
  BY <1>2 DEF OpToRel
<1> QED
  BY <1>3

\* g begins at p and follows the links dir.
Follows(m, p, dir, g) ==
  /\ g \in [0..Room -> 0..Room] /\ g[0] = p
  /\ \A i \in 1..Room : g[i] = IF g[i - 1] = NULL THEN NULL ELSE m.node[g[i - 1]][dir]

\* A walk is the one function that begins at p and follows the links.
LEMMA AlongIs ==
  ASSUME NEW m, NEW p, NEW dir, NEW g, Follows(m, p, dir, g)
  PROVE  Along(m, p, dir) = g
<1> USE SearchAssumption DEF Follows
<1> DEFINE link == [x \in 0..Room |-> IF x = NULL THEN NULL ELSE m.node[x][dir]]
           Walk(f) == [i \in 0..Room |-> IF i = 0 THEN p ELSE link[f[i - 1]]]
           a == Along(m, p, dir)
<1>0. Room \in Nat /\ NULL = 0
  BY DEF Room, NULL
<1>1. g = Walk(g)
  <2>1. ASSUME NEW i \in 0..Room
        PROVE  g[i] = Walk(g)[i]
    <3>1. CASE i = 0
      BY <3>1
    <3>2. CASE i # 0
      <4>1. i \in 1..Room /\ i - 1 \in 0..Room
        BY <1>0, <3>2
      <4>2. g[i - 1] \in 0..Room
        BY <4>1
      <4> QED
        BY <3>2, <4>1, <4>2
    <3> QED
      BY <3>1, <3>2
  <2> QED
    BY <2>1
<1>2. a = CHOOSE f : f = Walk(f)
  BY DEF Along
<1>3. a = Walk(a)
  <2> HIDE DEF Walk, a
  <2>1. \E f : f = Walk(f)
    BY <1>1
  <2> QED
    BY <1>2, <2>1, Zenon
<1>4. \A i \in 0..Room : a[i] = g[i]
  <2> DEFINE D == {i \in 0..Room : a[i] # g[i]}
  <2> SUFFICES ASSUME D # {} PROVE FALSE
    OBVIOUS
  <2>1. D \in SUBSET Nat
    BY <1>0
  <2>2. PICK n \in D : \A k \in D : n <= k
    BY <2>1, LeastNumber
  <2>3. n \in 0..Room /\ a[n] # g[n]
    BY <2>2
  <2>4. a[n] = IF n = 0 THEN p ELSE link[a[n - 1]]
    BY <1>3, <2>3
  <2>5. g[n] = IF n = 0 THEN p ELSE link[g[n - 1]]
    BY <1>1, <2>3
  <2>6. n # 0
    BY <2>3, <2>4, <2>5
  <2>7. n - 1 \in 0..Room /\ ~(n <= n - 1)
    BY <1>0, <2>3, <2>6
  <2>8. a[n - 1] = g[n - 1]
    BY <2>2, <2>7
  <2> QED
    BY <2>3, <2>4, <2>5, <2>6, <2>8
<1>5. a = [i \in 0..Room |-> a[i]]
  BY <1>3
<1>6. g = [i \in 0..Room |-> g[i]]
  OBVIOUS
<1> QED
  BY <1>4, <1>5, <1>6

-----------------------------------------------------------------------------
(* Linked lists.                                                           *)

\* What a node, the memory and the record of a list may be.
Hypothesis ==
  [score : 0..MaxScore, seqnum : 0..MaxSeqNum, endflag : BOOLEAN, next : 0..Room, prev : 0..Room]

Memory == [node : [Nodes -> Hypothesis], free : SUBSET Nodes]

ListRecord == [start : 0..Room, bottom : 0..Room, num : Nat]

\* List s consists of the nodes q[1], q[2], ..., best first.
IsList(m, s, q) ==
  /\ s \in ListRecord
  /\ q \in [1..s.num -> Nodes]
  /\ \A i, j \in 1..s.num : q[i] = q[j] => i = j
  /\ \A i \in 1..s.num :
       /\ m.node[q[i]].next = IF i < s.num THEN q[i + 1] ELSE NULL
       /\ m.node[q[i]].prev = IF 1 < i THEN q[i - 1] ELSE NULL
  /\ s.start = IF 0 < s.num THEN q[1] ELSE NULL
  /\ 0 < s.num => s.bottom = q[s.num]
  /\ \A i, j \in 1..s.num : i <= j => m.node[q[i]].score >= m.node[q[j]].score

\* The nodes of a list.
In(s, q) == {q[i] : i \in 1..s.num}

\* The nodes are numbered from one, and there is one at least.
LEMMA RoomIs == Room \in Nat /\ Room > 0 /\ NULL = 0 /\ NULL \notin Nodes /\ Nodes = 1..Room
BY SearchAssumption DEF Room, NULL, Nodes

\* A list has no more places than there are nodes.
LEMMA FewNodes ==
  ASSUME NEW m, NEW s, NEW q, IsList(m, s, q)
  PROVE  s.num \in Nat /\ s.num <= Room
<1> DEFINE n == s.num
           D == 1..n
<1>1. n \in Nat /\ q \in [D -> Nodes] /\ \A i, j \in D : q[i] = q[j] => i = j
  BY DEF IsList, ListRecord
<1>2. IsFiniteSet(Nodes) /\ Cardinality(Nodes) = Room
  <2>1. Cardinality(1..Room) = IF 1 > Room THEN 0 ELSE Room - 1 + 1
    BY RoomIs, FS_Interval
  <2> QED
    BY <2>1, RoomIs, FS_Interval
<1> HIDE DEF n
<1>3. IsFiniteSet(D) /\ Cardinality(D) = n
  <2>1. Cardinality(1..n) = IF 1 > n THEN 0 ELSE n - 1 + 1
    BY <1>1, FS_Interval
  <2> QED
    BY <2>1, <1>1, FS_Interval
<1> HIDE DEF D
<1>4. q \in Injection(D, Nodes)
  BY <1>1, Fun_IsInj
<1>5. Cardinality(D) <= Cardinality(Nodes)
  BY <1>2, <1>4, FS_Injection
<1> QED
  BY <1>1, <1>2, <1>3, <1>5 DEF n

\* Down the links from the top.
LEMMA WalkDown ==
  ASSUME NEW m, NEW s, NEW q, IsList(m, s, q)
  PROVE  Follows(m, s.start, "next", [i \in 0..Room |-> IF i < s.num THEN q[i + 1] ELSE NULL])
<1> DEFINE g == [i \in 0..Room |-> IF i < s.num THEN q[i + 1] ELSE NULL]
<1>1. s.num \in Nat /\ s.num <= Room /\ s.start \in 0..Room /\ q \in [1..s.num -> Nodes]
  BY FewNodes DEF IsList, ListRecord
<1>2. g \in [0..Room -> 0..Room] /\ g[0] = s.start
  <2>1. ASSUME NEW i \in 0..Room, i < s.num
        PROVE  q[i + 1] \in 0..Room
    <3>1. i + 1 \in 1..s.num
      BY <2>1, <1>1
    <3> QED
      BY <3>1, <1>1, RoomIs
  <2>2. g[0] = s.start
    <3>1. 0 \in 0..Room /\ 0 + 1 = 1
      BY RoomIs
    <3> QED
      BY <3>1 DEF IsList
  <2> QED
    BY <2>1, <2>2, RoomIs
<1>3. ASSUME NEW i \in 1..Room
      PROVE  g[i] = IF g[i - 1] = NULL THEN NULL ELSE m.node[g[i - 1]]["next"]
  <2>1. i - 1 \in 0..Room /\ i \in 0..Room /\ i - 1 + 1 = i
    BY RoomIs
  <2>2. CASE i - 1 < s.num
    <3>1. i \in 1..s.num /\ g[i - 1] = q[i]
      BY <1>1, <2>1, <2>2
    <3>2. q[i] # NULL /\ m.node[q[i]].next = IF i < s.num THEN q[i + 1] ELSE NULL
      BY <3>1, <1>1, RoomIs DEF IsList
    <3> QED
      BY <2>1, <3>1, <3>2
  <2>3. CASE ~(i - 1 < s.num)
    <3>1. g[i - 1] = NULL /\ ~(i < s.num)
      BY <1>1, <2>1, <2>3
    <3> QED
      BY <2>1, <3>1
  <2> QED
    BY <2>2, <2>3
<1> QED
  BY <1>1, <1>2, <1>3 DEF Follows

\* Up the links from the bottom.
LEMMA WalkUp ==
  ASSUME NEW m, NEW s, NEW q, IsList(m, s, q), 0 < s.num
  PROVE  Follows(m, s.bottom, "prev", [i \in 0..Room |-> IF i < s.num THEN q[s.num - i] ELSE NULL])
<1> DEFINE g == [i \in 0..Room |-> IF i < s.num THEN q[s.num - i] ELSE NULL]
<1>1. s.num \in Nat /\ s.num <= Room /\ s.bottom \in 0..Room /\ q \in [1..s.num -> Nodes]
  BY FewNodes DEF IsList, ListRecord
<1>2. g \in [0..Room -> 0..Room] /\ g[0] = s.bottom
  <2>1. ASSUME NEW i \in 0..Room, i < s.num
        PROVE  q[s.num - i] \in 0..Room
    <3>1. s.num - i \in 1..s.num
      BY <2>1, <1>1
    <3> QED
      BY <3>1, <1>1, RoomIs
  <2>2. g[0] = s.bottom
    <3>1. 0 \in 0..Room /\ s.num - 0 = s.num
      BY <1>1, RoomIs
    <3> QED
      BY <3>1 DEF IsList
  <2> QED
    BY <2>1, <2>2, RoomIs
<1>3. ASSUME NEW i \in 1..Room
      PROVE  g[i] = IF g[i - 1] = NULL THEN NULL ELSE m.node[g[i - 1]]["prev"]
  <2> DEFINE k == s.num - (i - 1)
  <2>1. i - 1 \in 0..Room /\ i \in 0..Room /\ k \in Int /\ s.num - i = k - 1
    BY <1>1, RoomIs
  <2>2. CASE i - 1 < s.num
    <3>1. k \in 1..s.num /\ g[i - 1] = q[k] /\ (1 < k <=> i < s.num)
      BY <1>1, <2>1, <2>2
    <3>2. q[k] # NULL /\ m.node[q[k]].prev = IF 1 < k THEN q[k - 1] ELSE NULL
      BY <3>1, <1>1, RoomIs DEF IsList
    <3>3. g[i] = IF i < s.num THEN q[s.num - i] ELSE NULL
      BY <2>1
    <3> QED
      BY <2>1, <3>1, <3>2, <3>3
  <2>3. CASE ~(i - 1 < s.num)
    <3>1. g[i - 1] = NULL /\ ~(i < s.num)
      BY <1>1, <2>1, <2>3
    <3> QED
      BY <2>1, <3>1
  <2> QED
    BY <2>2, <2>3
<1> QED
  BY <1>1, <1>2, <1>3 DEF Follows
\* What put_to_stack finds on a walk: the first node in stops.
LEMMA FirstOnWalk ==
  ASSUME NEW m, NEW p, NEW dir, NEW g, Follows(m, p, dir, g), NEW stops,
         NEW k \in 0..Room, g[k] \in stops, \A j \in 0..Room : j < k => g[j] \notin stops
  PROVE  FirstAlong(m, p, dir, stops) = g[k]
<1> DEFINE hits == {i \in 0..Room : g[i] \in stops}
           first == CHOOSE i \in hits : \A j \in hits : i <= j
<1>1. Along(m, p, dir) = g
  BY AlongIs
<1>2. FirstAlong(m, p, dir, stops) = g[first]
  BY <1>1 DEF FirstAlong
<1>3. k \in hits /\ \A j \in hits : k <= j
  BY RoomIs
<1>4. first \in hits /\ \A j \in hits : first <= j
  BY <1>3
<1>5. first = k
  BY <1>3, <1>4, RoomIs
<1> QED
  BY <1>2, <1>5

\* Both walks meet all nodes of the list and then stop.
LEMMA ListIsLinked ==
  ASSUME NEW s, NEW q, IsList(mem, s, q)
  PROVE  WellLinked(s)
<1> DEFINE g == [i \in 0..Room |-> IF i < s.num THEN q[i + 1] ELSE NULL]
           h == [i \in 0..Room |-> IF i < s.num THEN q[s.num - i] ELSE NULL]
<1>1. s.num \in Nat /\ s.num <= Room /\ q \in [1..s.num -> Nodes]
  BY FewNodes DEF IsList, ListRecord
<1>2. Along(mem, s.start, "next") = g /\ (0 < s.num => Along(mem, s.bottom, "prev") = h)
  BY WalkDown, WalkUp, AlongIs
<1>3. ASSUME NEW i \in 0..Room
      PROVE  (g[i] # NULL) <=> (i < s.num)
  <2>1. i < s.num => i + 1 \in 1..s.num
    BY <1>1
  <2> QED
    BY <1>1, <2>1, RoomIs
<1>4. ASSUME 0 < s.num, NEW i \in 0..s.num - 1
      PROVE  g[i] = h[s.num - 1 - i]
  <2>1. i \in 0..Room /\ i < s.num /\ s.num - 1 - i \in 0..Room /\ s.num - 1 - i < s.num
        /\ s.num - (s.num - 1 - i) = i + 1
    BY <1>1, RoomIs
  <2> QED
    BY <2>1
<1>5. h[s.num] = NULL
  BY <1>1
<1> HIDE DEF g, h
<1> QED
  BY <1>2, <1>3, <1>4, <1>5 DEF WellLinked

\* The nodes that a walk from the top meets are those of the list.
LEMMA MembersOfList ==
  ASSUME NEW s, NEW q, IsList(mem, s, q)
  PROVE  Members(s.start) = In(s, q)
<1> DEFINE g == [i \in 0..Room |-> IF i < s.num THEN q[i + 1] ELSE NULL]
<1>1. s.num \in Nat /\ s.num <= Room /\ q \in [1..s.num -> Nodes]
  BY FewNodes DEF IsList, ListRecord
<1>2. Members(s.start) = {g[i] : i \in 0..Room} \ {NULL}
  <2>1. Along(mem, s.start, "next") = g
    BY WalkDown, AlongIs
  <2> HIDE DEF g
  <2> QED
    BY <2>1 DEF Members
<1>3. ASSUME NEW i \in 0..Room, g[i] # NULL
      PROVE  g[i] \in In(s, q)
  <2>1. i < s.num /\ i + 1 \in 1..s.num /\ g[i] = q[i + 1]
    BY <1>1, <1>3
  <2> QED
    BY <2>1 DEF In
<1>4. ASSUME NEW i \in 1..s.num
      PROVE  \E j \in 0..Room : g[j] = q[i] /\ g[j] # NULL
  <2>1. i - 1 \in 0..Room /\ i - 1 < s.num /\ i - 1 + 1 = i
    BY <1>1, RoomIs
  <2>2. g[i - 1] = q[i] /\ q[i] # NULL
    BY <1>1, <2>1, RoomIs
  <2> QED
    BY <2>1, <2>2
<1> HIDE DEF g
<1> QED
  BY <1>2, <1>3, <1>4 DEF In

-----------------------------------------------------------------------------
(* Putting a node into a list.                                             *)

\* The place behind the k-th node keeps the order of the scores.
Splits(m, s, q, n, k) ==
  /\ k \in 0..s.num
  /\ \A i \in 1..k : m.node[q[i]].score >= m.node[n].score
  /\ \A i \in k + 1..s.num : m.node[q[i]].score <= m.node[n].score

\* The neighbours of the place behind the k-th node of list s.
Before(q, k) == IF 0 < k THEN q[k] ELSE NULL
After(s, q, k) == IF k < s.num THEN q[k + 1] ELSE NULL

\* The ranges of what a list is made of, and its two ends.
LEMMA ListFacts ==
  ASSUME NEW m \in Memory, NEW s, NEW q, IsList(m, s, q)
  PROVE  /\ s.num \in Nat /\ s.num <= Room /\ q \in [1..s.num -> Nodes]
         /\ s.start \in 0..Room /\ s.bottom \in 0..Room
         /\ \A i \in 1..s.num : q[i] \in Nodes /\ q[i] # NULL /\ m.node[q[i]] \in Hypothesis
         /\ \A x \in Nodes : m.node[x] \in Hypothesis /\ m.node[x].score \in Int
<1>1. s.num \in Nat /\ s.num <= Room /\ q \in [1..s.num -> Nodes]
      /\ s.start \in 0..Room /\ s.bottom \in 0..Room
  BY FewNodes DEF IsList, ListRecord
<1>2. \A x \in Nodes : m.node[x] \in Hypothesis /\ m.node[x].score \in Int
  BY SearchAssumption DEF Memory, Hypothesis
<1> QED
  BY <1>1, <1>2, RoomIs

\* Scores do not grow towards the bottom.
LEMMA Descending ==
  ASSUME NEW m \in Memory, NEW s, NEW q, IsList(m, s, q),
         NEW i \in 1..s.num, NEW j \in 1..s.num, i <= j
  PROVE  m.node[q[i]].score >= m.node[q[j]].score
BY DEF IsList

\* The walk from the top.
LEMMA PlaceFromTop ==
  ASSUME NEW m \in Memory, NEW s, NEW q, IsList(m, s, q), NEW n \in Nodes, 0 < s.num,
         ~(m.node[s.start].score <= m.node[n].score),
         ~(m.node[s.bottom].score >= m.node[n].score)
  PROVE  \E k \in 1..s.num - 1 :
           /\ Splits(m, s, q, n, k)
           /\ FirstAlong(m, s.start, "next", {x \in Nodes : m.node[x].score <= m.node[n].score}) = q[k + 1]
<1> DEFINE g == [i \in 0..Room |-> IF i < s.num THEN q[i + 1] ELSE NULL]
           stops == {x \in Nodes : m.node[x].score <= m.node[n].score}
           hits == {i \in 0..Room : g[i] \in stops}
<1>1. /\ s.num \in Nat /\ s.num <= Room /\ Room \in Nat
      /\ \A i \in 1..s.num : q[i] \in Nodes /\ m.node[q[i]].score \in Int
      /\ m.node[n].score \in Int
  BY ListFacts, RoomIs
<1>2. s.start = q[1] /\ s.bottom = q[s.num]
  BY DEF IsList
<1>3. \A i \in 0..Room : i \in hits <=> i < s.num /\ m.node[q[i + 1]].score <= m.node[n].score
  <2>1. ASSUME NEW i \in 0..Room
        PROVE  i \in hits <=> i < s.num /\ m.node[q[i + 1]].score <= m.node[n].score
    <3>1. CASE i < s.num
      <4>1. i + 1 \in 1..s.num /\ g[i] = q[i + 1]
        BY <1>1, <3>1
      <4> QED
        BY <1>1, <3>1, <4>1
    <3>2. CASE ~(i < s.num)
      BY <3>2, RoomIs
    <3> QED
      BY <3>1, <3>2
  <2> QED
    BY <2>1
<1>4. s.num - 1 \in hits
  <2>1. s.num - 1 \in 0..Room /\ s.num - 1 < s.num /\ s.num - 1 + 1 = s.num /\ s.num \in 1..s.num
    BY <1>1
  <2>2. m.node[q[s.num]].score <= m.node[n].score
    BY <1>1, <1>2, <2>1
  <2> QED
    BY <1>3, <2>1, <2>2
<1>5. PICK k \in hits : \A j \in hits : k <= j
  <2>1. hits \in SUBSET Nat
    BY <1>1
  <2> HIDE DEF hits
  <2> QED
    BY <1>4, <2>1, LeastNumber
<1>6. k \in 0..Room /\ k < s.num /\ m.node[q[k + 1]].score <= m.node[n].score /\ k + 1 \in 1..s.num
  BY <1>1, <1>3, <1>5
<1>7. k # 0
  BY <1>2, <1>6
<1>8. k \in 1..s.num - 1
  BY <1>1, <1>6, <1>7
<1>9. \A j \in 0..Room : j < k => j \notin hits
  BY <1>1, <1>5, <1>6
<1>10. \A i \in 1..k : m.node[q[i]].score >= m.node[n].score
  <2>1. ASSUME NEW i \in 1..k
        PROVE  m.node[q[i]].score >= m.node[n].score
    <3>1. i - 1 \in 0..Room /\ i - 1 < k /\ i - 1 < s.num /\ i - 1 + 1 = i /\ i \in 1..s.num
      BY <1>1, <1>6
    <3>2. ~(m.node[q[i]].score <= m.node[n].score)
      BY <1>3, <1>9, <3>1
    <3> QED
      BY <1>1, <3>1, <3>2
  <2> QED
    BY <2>1
<1>11. \A i \in k + 1..s.num : m.node[q[i]].score <= m.node[n].score
  <2>1. ASSUME NEW i \in k + 1..s.num
        PROVE  m.node[q[i]].score <= m.node[n].score
    <3>1. i \in 1..s.num /\ k + 1 <= i
      BY <1>1, <1>6
    <3>2. m.node[q[k + 1]].score >= m.node[q[i]].score
      BY <1>6, <3>1 DEF IsList
    <3> QED
      BY <1>1, <1>6, <3>1, <3>2
  <2> QED
    BY <2>1
<1>12. Splits(m, s, q, n, k)
  BY <1>1, <1>6, <1>10, <1>11 DEF Splits
<1>13. FirstAlong(m, s.start, "next", stops) = g[k]
  <2>1. Follows(m, s.start, "next", g)
    BY WalkDown
  <2>2. g[k] \in stops /\ \A j \in 0..Room : j < k => g[j] \notin stops
    BY <1>5, <1>6, <1>9
  <2> HIDE DEF g, stops
  <2> QED
    BY <1>6, <2>1, <2>2, FirstOnWalk
<1>14. g[k] = q[k + 1]
  BY <1>6
<1> QED
  BY <1>8, <1>12, <1>13, <1>14

\* The walk from the bottom.
LEMMA PlaceFromBottom ==
  ASSUME NEW m \in Memory, NEW s, NEW q, IsList(m, s, q), NEW n \in Nodes, 0 < s.num,
         ~(m.node[s.start].score <= m.node[n].score),
         ~(m.node[s.bottom].score >= m.node[n].score)
  PROVE  \E k \in 1..s.num - 1 :
           /\ Splits(m, s, q, n, k)
           /\ FirstAlong(m, s.bottom, "prev", {x \in Nodes : m.node[x].score >= m.node[n].score}) = q[k]
<1> DEFINE g == [i \in 0..Room |-> IF i < s.num THEN q[s.num - i] ELSE NULL]
           stops == {x \in Nodes : m.node[x].score >= m.node[n].score}
           hits == {i \in 0..Room : g[i] \in stops}
<1>1. /\ s.num \in Nat /\ s.num <= Room /\ Room \in Nat
      /\ \A i \in 1..s.num : q[i] \in Nodes /\ m.node[q[i]].score \in Int
      /\ m.node[n].score \in Int
  BY ListFacts, RoomIs
<1>2. s.start = q[1] /\ s.bottom = q[s.num]
  BY DEF IsList
<1>3. \A i \in 0..Room : i \in hits <=> i < s.num /\ m.node[q[s.num - i]].score >= m.node[n].score
  <2>1. ASSUME NEW i \in 0..Room
        PROVE  i \in hits <=> i < s.num /\ m.node[q[s.num - i]].score >= m.node[n].score
    <3>1. CASE i < s.num
      <4>1. s.num - i \in 1..s.num /\ g[i] = q[s.num - i]
        BY <1>1, <3>1
      <4> QED
        BY <1>1, <3>1, <4>1
    <3>2. CASE ~(i < s.num)
      BY <3>2, RoomIs
    <3> QED
      BY <3>1, <3>2
  <2> QED
    BY <2>1
<1>4. s.num - 1 \in hits
  <2>1. s.num - 1 \in 0..Room /\ s.num - 1 < s.num /\ s.num - (s.num - 1) = 1 /\ 1 \in 1..s.num
    BY <1>1
  <2>2. m.node[q[1]].score >= m.node[n].score
    BY <1>1, <1>2, <2>1
  <2> QED
    BY <1>3, <2>1, <2>2
<1>5. PICK j \in hits : \A i \in hits : j <= i
  <2>1. hits \in SUBSET Nat
    BY <1>1
  <2> HIDE DEF hits
  <2> QED
    BY <1>4, <2>1, LeastNumber
<1> DEFINE k == s.num - j
<1>6. j \in 0..Room /\ j < s.num /\ m.node[q[k]].score >= m.node[n].score /\ k \in 1..s.num
  BY <1>1, <1>3, <1>5
<1>7. j # 0
  BY <1>1, <1>2, <1>6
<1>8. k \in 1..s.num - 1
  BY <1>1, <1>6, <1>7
<1>9. \A i \in 0..Room : i < j => i \notin hits
  BY <1>1, <1>5, <1>6
<1>10. \A i \in k + 1..s.num : m.node[q[i]].score <= m.node[n].score
  <2>1. ASSUME NEW i \in k + 1..s.num
        PROVE  m.node[q[i]].score <= m.node[n].score
    <3>1. s.num - i \in 0..Room /\ s.num - i < j /\ s.num - i < s.num /\ s.num - (s.num - i) = i /\ i \in 1..s.num
      BY <1>1, <1>6
    <3>2. ~(m.node[q[i]].score >= m.node[n].score)
      BY <1>3, <1>9, <3>1
    <3> QED
      BY <1>1, <3>1, <3>2
  <2> QED
    BY <2>1
<1>11. \A i \in 1..k : m.node[q[i]].score >= m.node[n].score
  <2>1. ASSUME NEW i \in 1..k
        PROVE  m.node[q[i]].score >= m.node[n].score
    <3>1. i \in 1..s.num /\ i <= k
      BY <1>1, <1>6
    <3>2. m.node[q[i]].score >= m.node[q[k]].score
      BY <1>6, <3>1 DEF IsList
    <3> QED
      BY <1>1, <1>6, <3>1, <3>2
  <2> QED
    BY <2>1
<1>12. Splits(m, s, q, n, k)
  BY <1>1, <1>6, <1>10, <1>11 DEF Splits
<1>13. FirstAlong(m, s.bottom, "prev", stops) = g[j]
  <2>1. Follows(m, s.bottom, "prev", g)
    BY WalkUp
  <2>2. g[j] \in stops /\ \A i \in 0..Room : i < j => g[i] \notin stops
    BY <1>5, <1>6, <1>9
  <2> HIDE DEF g, stops
  <2> QED
    BY <1>6, <2>1, <2>2, FirstOnWalk
<1>14. g[j] = q[k]
  BY <1>6
<1> QED
  BY <1>8, <1>12, <1>13, <1>14

\* put_to_stack finds two neighbours between which the order is kept, whichever
\* end it comes from.
LEMMA BetweenIs ==
  ASSUME NEW m \in Memory, NEW s, NEW q, IsList(m, s, q), NEW n \in Nodes
  PROVE  \E k \in 0..s.num :
           Splits(m, s, q, n, k) /\ Between(m, s, n) = <<Before(q, k), After(s, q, k)>>
<1> DEFINE NotWorse(x)  == m.node[x].score >= m.node[n].score
           NotBetter(x) == m.node[x].score <= m.node[n].score
           above == FirstAlong(m, s.bottom, "prev", {x \in Nodes : NotWorse(x)})
           below == FirstAlong(m, s.start, "next", {x \in Nodes : NotBetter(x)})
<1>1. /\ s.num \in Nat
      /\ \A i \in 1..s.num : q[i] \in Nodes /\ q[i] # NULL /\ m.node[q[i]].score \in Int
      /\ m.node[n].score \in Int
  BY ListFacts
<1>2. /\ s.start = IF 0 < s.num THEN q[1] ELSE NULL
      /\ 0 < s.num => s.bottom = q[s.num]
      /\ \A i \in 1..s.num :
           /\ m.node[q[i]].next = IF i < s.num THEN q[i + 1] ELSE NULL
           /\ m.node[q[i]].prev = IF 1 < i THEN q[i - 1] ELSE NULL
      /\ \A i, j \in 1..s.num : i <= j => m.node[q[i]].score >= m.node[q[j]].score
  BY DEF IsList
<1>3. CASE s.start = NULL \/ NotBetter(s.start)
  <2>1. Between(m, s, n) = <<NULL, s.start>>
    BY <1>3 DEF Between
  <2>2. ASSUME NEW i \in 1..s.num
        PROVE  NotBetter(q[i])
    <3>1. 1 \in 1..s.num /\ 0 < s.num /\ 1 <= i
      BY <1>1
    <3>2. NotBetter(q[1])
      BY <1>1, <1>2, <1>3, <3>1
    <3> QED
      BY <1>1, <1>2, <3>1, <3>2
  <2>3. Splits(m, s, q, n, 0)
    BY <1>1, <2>2 DEF Splits
  <2>4. Before(q, 0) = NULL /\ After(s, q, 0) = s.start /\ 0 \in 0..s.num
    BY <1>1, <1>2 DEF Before, After
  <2> QED
    BY <2>1, <2>3, <2>4
<1>4. CASE ~(s.start = NULL \/ NotBetter(s.start)) /\ NotWorse(s.bottom)
  <2>1. Between(m, s, n) = <<s.bottom, NULL>>
    BY <1>4 DEF Between
  <2>2. 0 < s.num /\ s.num \in 1..s.num /\ s.bottom = q[s.num]
    BY <1>1, <1>2, <1>4
  <2>3. ASSUME NEW i \in 1..s.num
        PROVE  NotWorse(q[i])
    <3>1. i <= s.num
      BY <1>1
    <3>2. m.node[q[i]].score >= m.node[q[s.num]].score
      BY <1>2, <2>2, <3>1
    <3> QED
      BY <1>1, <1>4, <2>2, <3>2
  <2>4. Splits(m, s, q, n, s.num)
    BY <1>1, <2>3 DEF Splits
  <2>5. Before(q, s.num) = s.bottom /\ After(s, q, s.num) = NULL /\ s.num \in 0..s.num
    BY <1>1, <2>2 DEF Before, After
  <2> QED
    BY <2>1, <2>4, <2>5
<1>5. CASE ~(s.start = NULL \/ NotBetter(s.start)) /\ ~NotWorse(s.bottom)
  <2>1. 0 < s.num /\ ~NotBetter(s.start) /\ ~NotWorse(s.bottom)
    BY <1>1, <1>2, <1>5
  <2>2. CASE m.node[s.start].score + m.node[s.bottom].score > 2 * m.node[n].score
    <3>1. Between(m, s, n) = <<above, m.node[above].next>>
      BY <1>5, <2>2 DEF Between
    <3>2. PICK k \in 1..s.num - 1 : Splits(m, s, q, n, k) /\ above = q[k]
      BY <2>1, PlaceFromBottom
    <3>3. k \in 0..s.num /\ k \in 1..s.num /\ k < s.num /\ 0 < k
      BY <1>1
    <3>4. Before(q, k) = above /\ After(s, q, k) = m.node[above].next
      BY <1>2, <3>2, <3>3 DEF Before, After
    <3> QED
      BY <3>1, <3>2, <3>3, <3>4
  <2>3. CASE ~(m.node[s.start].score + m.node[s.bottom].score > 2 * m.node[n].score)
    <3>1. Between(m, s, n) = <<m.node[below].prev, below>>
      BY <1>5, <2>3 DEF Between
    <3>2. PICK k \in 1..s.num - 1 : Splits(m, s, q, n, k) /\ below = q[k + 1]
      BY <2>1, PlaceFromTop
    <3>3. k \in 0..s.num /\ k + 1 \in 1..s.num /\ k < s.num /\ 0 < k /\ 1 < k + 1 /\ k + 1 - 1 = k
      BY <1>1
    <3>4. m.node[q[k + 1]].prev = q[k]
      BY <1>2, <3>3
    <3> HIDE DEF below
    <3>5. Before(q, k) = m.node[below].prev /\ After(s, q, k) = below
      BY <3>2, <3>3, <3>4 DEF Before, After
    <3> QED
      BY <3>1, <3>2, <3>3, <3>5
  <2> QED
    BY <2>2, <2>3
<1> QED
  BY <1>3, <1>4, <1>5

\* The nodes with n behind the k-th.
Ins(s, q, k, n) ==
  [i \in 1..s.num + 1 |-> IF i <= k THEN q[i] ELSE IF i = k + 1 THEN n ELSE q[i - 1]]

\* What a hypothesis is worth, apart from its links.
SameHypothesis(h, g) == h.score = g.score /\ h.seqnum = g.seqnum /\ h.endflag = g.endflag

\* Where the nodes are once n is in place k + 1.
LEMMA InsFacts ==
  ASSUME NEW s, NEW q, s.num \in Nat, q \in [1..s.num -> Nodes], NEW k \in 0..s.num, NEW n \in Nodes
  PROVE  /\ Ins(s, q, k, n) \in [1..s.num + 1 -> Nodes]
         /\ \A i \in 1..k : i \in 1..s.num /\ i \in 1..s.num + 1 /\ Ins(s, q, k, n)[i] = q[i]
         /\ k + 1 \in 1..s.num + 1 /\ Ins(s, q, k, n)[k + 1] = n
         /\ \A i \in k + 2..s.num + 1 :
              i - 1 \in 1..s.num /\ i \in 1..s.num + 1 /\ Ins(s, q, k, n)[i] = q[i - 1]
         /\ \A i \in 1..s.num + 1 : i \in 1..k \/ i = k + 1 \/ i \in k + 2..s.num + 1
<1> DEFINE r == Ins(s, q, k, n)
<1>1. r = [i \in 1..s.num + 1 |-> IF i <= k THEN q[i] ELSE IF i = k + 1 THEN n ELSE q[i - 1]]
  BY DEF Ins
<1>2. \A i \in 1..k : i \in 1..s.num /\ i \in 1..s.num + 1 /\ i <= k
  OBVIOUS
<1>3. k + 1 \in 1..s.num + 1 /\ ~(k + 1 <= k)
  OBVIOUS
<1>4. \A i \in k + 2..s.num + 1 : i - 1 \in 1..s.num /\ i \in 1..s.num + 1 /\ ~(i <= k) /\ i # k + 1
  OBVIOUS
<1>5. \A i \in 1..s.num + 1 : i \in 1..k \/ i = k + 1 \/ i \in k + 2..s.num + 1
  OBVIOUS
<1> HIDE DEF r
<1>6. \A i \in 1..k : r[i] = q[i]
  BY <1>1, <1>2
<1>7. r[k + 1] = n
  BY <1>1, <1>3
<1>8. \A i \in k + 2..s.num + 1 : r[i] = q[i - 1]
  BY <1>1, <1>4
<1>9. \A i \in 1..s.num + 1 : r[i] \in Nodes
  BY <1>2, <1>4, <1>5, <1>6, <1>7, <1>8
<1>10. r \in [1..s.num + 1 -> Nodes]
  BY <1>1, <1>9
<1> QED
  BY <1>2, <1>3, <1>4, <1>5, <1>6, <1>7, <1>8, <1>10 DEF r

\* What linking changes in the nodes.
LEMMA LinkedFields ==
  ASSUME NEW m \in Memory, NEW s \in ListRecord, NEW n \in Nodes, NEW a \in 0..Room, NEW b \in 0..Room,
         Between(m, s, n) = <<a, b>>
  PROVE  /\ Linked(m, s, n).mem \in Memory /\ Linked(m, s, n).mem.free = m.free
         /\ Linked(m, s, n).list \in ListRecord
         /\ Linked(m, s, n).list.start = IF a = NULL THEN n ELSE s.start
         /\ Linked(m, s, n).list.bottom = IF b = NULL THEN n ELSE s.bottom
         /\ Linked(m, s, n).list.num = s.num + 1
         /\ \A x \in Nodes :
              /\ SameHypothesis(Linked(m, s, n).mem.node[x], m.node[x])
              /\ Linked(m, s, n).mem.node[x].prev = IF x = n THEN a ELSE IF x = b THEN n ELSE m.node[x].prev
              /\ Linked(m, s, n).mem.node[x].next = IF x = n THEN b ELSE IF x = a THEN n ELSE m.node[x].next
              /\ x \notin {n, a, b} => Linked(m, s, n).mem.node[x] = m.node[x]
<1> DEFINE new(x) == [m.node[x] EXCEPT !.prev = IF x = n THEN a ELSE IF x = b THEN n ELSE @,
                                       !.next = IF x = n THEN b ELSE IF x = a THEN n ELSE @]
           node2 == [x \in Nodes |-> new(x)]
           mem2 == [m EXCEPT !.node = node2]
           list2 == [start  |-> IF a = NULL THEN n ELSE s.start,
                     bottom |-> IF b = NULL THEN n ELSE s.bottom,
                     num    |-> s.num + 1]
<1>1. Linked(m, s, n) = [mem |-> mem2, list |-> list2]
  BY DEF Linked
<1>2. n \in 0..Room
  BY RoomIs
<1>3. ASSUME NEW x \in Nodes
      PROVE  /\ new(x) \in Hypothesis /\ SameHypothesis(new(x), m.node[x])
             /\ new(x).prev = IF x = n THEN a ELSE IF x = b THEN n ELSE m.node[x].prev
             /\ new(x).next = IF x = n THEN b ELSE IF x = a THEN n ELSE m.node[x].next
             /\ x \notin {n, a, b} => new(x) = m.node[x]
  <2>1. m.node[x] \in Hypothesis
    BY DEF Memory
  <2>2. new(x) \in Hypothesis
    BY <1>2, <2>1 DEF Hypothesis
  <2>3. /\ SameHypothesis(new(x), m.node[x])
        /\ new(x).prev = IF x = n THEN a ELSE IF x = b THEN n ELSE m.node[x].prev
        /\ new(x).next = IF x = n THEN b ELSE IF x = a THEN n ELSE m.node[x].next
    BY <2>1 DEF Hypothesis, SameHypothesis
  <2>4. x \notin {n, a, b} => new(x) = m.node[x]
    BY <2>1 DEF Hypothesis
  <2> QED
    BY <2>2, <2>3, <2>4
<1>4. node2 \in [Nodes -> Hypothesis]
  BY <1>3
<1>5. mem2 \in Memory /\ mem2.free = m.free /\ mem2.node = node2
  <2> HIDE DEF node2
  <2> QED
    BY <1>4 DEF Memory
<1>6. list2 \in ListRecord
  BY <1>2 DEF ListRecord
<1>7. \A x \in Nodes : mem2.node[x] = new(x)
  BY <1>5
<1>8. Linked(m, s, n).mem = mem2 /\ Linked(m, s, n).list = list2
  <2> HIDE DEF mem2, list2
  <2> QED
    BY <1>1
<1> HIDE DEF mem2, new, node2
<1> QED
  BY <1>3, <1>5, <1>6, <1>7, <1>8

\* Linked makes a list of one more: n is in it, where Between found its place.
LEMMA LinkedIs ==
  ASSUME NEW m \in Memory, NEW s, NEW q, IsList(m, s, q), NEW n \in Nodes, n \notin In(s, q)
  PROVE  /\ Linked(m, s, n).mem \in Memory /\ Linked(m, s, n).mem.free = m.free
         /\ Linked(m, s, n).list.num = s.num + 1
         /\ \E k \in 0..s.num :
              Splits(m, s, q, n, k) /\ IsList(Linked(m, s, n).mem, Linked(m, s, n).list, Ins(s, q, k, n))
         /\ \A x \in Nodes :
              /\ SameHypothesis(Linked(m, s, n).mem.node[x], m.node[x])
              /\ x # n /\ x \notin In(s, q) => Linked(m, s, n).mem.node[x] = m.node[x]
<1>1. PICK k \in 0..s.num : Splits(m, s, q, n, k) /\ Between(m, s, n) = <<Before(q, k), After(s, q, k)>>
  BY BetweenIs
<1> DEFINE a == Before(q, k)
           b == After(s, q, k)
           m2 == Linked(m, s, n).mem
           s2 == Linked(m, s, n).list
           r == Ins(s, q, k, n)
<1>2. /\ s.num \in Nat /\ s.num <= Room /\ q \in [1..s.num -> Nodes] /\ s \in ListRecord
      /\ \A i \in 1..s.num : q[i] \in Nodes /\ q[i] # NULL /\ q[i] \in 0..Room /\ q[i] # n
      /\ \A x \in Nodes : m.node[x].score \in Int
      /\ n # NULL /\ n \in 0..Room /\ NULL \in 0..Room
  <2>1. s \in ListRecord /\ \A i \in 1..s.num : q[i] # n
    BY DEF IsList, In
  <2>2. \A x \in Nodes : x # NULL /\ x \in 0..Room
    BY RoomIs
  <2>3. NULL \in 0..Room
    BY RoomIs
  <2> QED
    BY <2>1, <2>2, <2>3, ListFacts
<1>3. a = IF 0 < k THEN q[k] ELSE NULL
  BY DEF Before
<1>4. b = IF k < s.num THEN q[k + 1] ELSE NULL
  BY DEF After
<1>5. a \in 0..Room /\ b \in 0..Room /\ Between(m, s, n) = <<a, b>>
  <2>1. 0 < k => k \in 1..s.num
    BY <1>2
  <2>2. k < s.num => k + 1 \in 1..s.num
    BY <1>2
  <2> QED
    BY <1>1, <1>2, <1>3, <1>4, <2>1, <2>2
<1>6. /\ m2 \in Memory /\ m2.free = m.free
      /\ s2 \in ListRecord
      /\ s2.start = IF a = NULL THEN n ELSE s.start
      /\ s2.bottom = IF b = NULL THEN n ELSE s.bottom
      /\ s2.num = s.num + 1
      /\ \A x \in Nodes :
           /\ SameHypothesis(m2.node[x], m.node[x])
           /\ m2.node[x].prev = IF x = n THEN a ELSE IF x = b THEN n ELSE m.node[x].prev
           /\ m2.node[x].next = IF x = n THEN b ELSE IF x = a THEN n ELSE m.node[x].next
           /\ x \notin {n, a, b} => m2.node[x] = m.node[x]
  <2> HIDE DEF a, b
  <2> QED
    BY <1>2, <1>5, LinkedFields
<1>7. /\ r \in [1..s.num + 1 -> Nodes]
      /\ \A i \in 1..k : i \in 1..s.num /\ i \in 1..s.num + 1 /\ r[i] = q[i]
      /\ k + 1 \in 1..s.num + 1 /\ r[k + 1] = n
      /\ \A i \in k + 2..s.num + 1 : i - 1 \in 1..s.num /\ i \in 1..s.num + 1 /\ r[i] = q[i - 1]
      /\ \A i \in 1..s.num + 1 : i \in 1..k \/ i = k + 1 \/ i \in k + 2..s.num + 1
  BY <1>2, InsFacts
<1>8. /\ \A i, j \in 1..s.num : q[i] = q[j] => i = j
      /\ \A i \in 1..s.num :
           /\ m.node[q[i]].next = IF i < s.num THEN q[i + 1] ELSE NULL
           /\ m.node[q[i]].prev = IF 1 < i THEN q[i - 1] ELSE NULL
      /\ s.start = IF 0 < s.num THEN q[1] ELSE NULL
      /\ 0 < s.num => s.bottom = q[s.num]
      /\ \A i, j \in 1..s.num : i <= j => m.node[q[i]].score >= m.node[q[j]].score
  BY DEF IsList
<1> HIDE DEF a, b, m2, s2, r
<1>9. ASSUME NEW i \in 1..s.num + 1, NEW j \in 1..s.num + 1, r[i] = r[j]
      PROVE  i = j
  <2>1. CASE i \in 1..k
    <3>1. r[i] = q[i] /\ i \in 1..s.num /\ i <= k
      BY <1>7, <2>1
    <3>2. CASE j \in 1..k
      BY <1>7, <1>8, <1>9, <3>1, <3>2
    <3>3. CASE j = k + 1
      BY <1>2, <1>7, <1>9, <3>1, <3>3
    <3>4. CASE j \in k + 2..s.num + 1
      <4>1. r[j] = q[j - 1] /\ j - 1 \in 1..s.num /\ j - 1 > k
        BY <1>2, <1>7, <3>4
      <4>2. i = j - 1
        BY <1>8, <1>9, <3>1, <4>1
      <4> QED
        BY <1>2, <3>1, <4>1, <4>2
    <3> QED
      BY <1>7, <3>2, <3>3, <3>4
  <2>2. CASE i = k + 1
    <3>1. r[i] = n
      BY <1>7, <2>2
    <3>2. CASE j \in 1..k
      BY <1>2, <1>7, <1>9, <3>1, <3>2
    <3>3. CASE j \in k + 2..s.num + 1
      BY <1>2, <1>7, <1>9, <3>1, <3>3
    <3> QED
      BY <1>7, <2>2, <3>2, <3>3
  <2>3. CASE i \in k + 2..s.num + 1
    <3>1. r[i] = q[i - 1] /\ i - 1 \in 1..s.num /\ i - 1 > k
      BY <1>2, <1>7, <2>3
    <3>2. CASE j \in 1..k
      <4>1. r[j] = q[j] /\ j \in 1..s.num /\ j <= k
        BY <1>7, <3>2
      <4>2. j = i - 1
        BY <1>8, <1>9, <3>1, <4>1
      <4> QED
        BY <1>2, <3>1, <4>1, <4>2
    <3>3. CASE j = k + 1
      BY <1>2, <1>7, <1>9, <3>1, <3>3
    <3>4. CASE j \in k + 2..s.num + 1
      <4>1. r[j] = q[j - 1] /\ j - 1 \in 1..s.num
        BY <1>2, <1>7, <3>4
      <4>2. i - 1 = j - 1
        BY <1>8, <1>9, <3>1, <4>1
      <4> QED
        BY <4>2
    <3> QED
      BY <1>7, <3>2, <3>3, <3>4
  <2> QED
    BY <1>7, <2>1, <2>2, <2>3
<1>10. ASSUME NEW i \in 1..s.num + 1
       PROVE  m2.node[r[i]].next = IF i < s.num + 1 THEN r[i + 1] ELSE NULL
  <2>1. CASE i \in 1..k
    <3>1. r[i] = q[i] /\ i \in 1..s.num /\ i <= k /\ i < s.num + 1 /\ q[i] \in Nodes /\ q[i] # n
      BY <1>2, <1>7, <2>1
    <3>2. CASE i = k
      <4>1. a = q[i] /\ r[i + 1] = n
        BY <1>2, <1>3, <1>7, <3>2, <2>1
      <4> QED
        BY <1>6, <3>1, <4>1
    <3>3. CASE i # k
      <4>1. i + 1 \in 1..k /\ k \in 1..s.num /\ 0 < k /\ i < s.num
        BY <1>2, <2>1, <3>3
      <4>2. q[i] # a
        BY <1>3, <1>8, <3>1, <3>3, <4>1
      <4>3. r[i + 1] = q[i + 1] /\ m.node[q[i]].next = q[i + 1]
        BY <1>7, <1>8, <3>1, <4>1
      <4> QED
        BY <1>6, <3>1, <4>2, <4>3
    <3> QED
      BY <3>2, <3>3
  <2>2. CASE i = k + 1
    <3>1. r[i] = n /\ m2.node[n].next = b
      BY <1>6, <1>7, <2>2
    <3>2. CASE k < s.num
      <4>1. k + 2 \in k + 2..s.num + 1 /\ k + 2 - 1 = k + 1 /\ i + 1 = k + 2 /\ i < s.num + 1
        BY <1>2, <2>2, <3>2
      <4>2. r[k + 2] = q[k + 1]
        BY <1>7, <4>1
      <4> QED
        BY <1>4, <3>1, <3>2, <4>1, <4>2
    <3>3. CASE ~(k < s.num)
      <4>1. ~(i < s.num + 1)
        BY <1>2, <2>2, <3>3
      <4> QED
        BY <1>4, <3>1, <3>3, <4>1
    <3> QED
      BY <3>2, <3>3
  <2>3. CASE i \in k + 2..s.num + 1
    <3>1. r[i] = q[i - 1] /\ i - 1 \in 1..s.num /\ i - 1 > k /\ q[i - 1] \in Nodes /\ q[i - 1] # n
      BY <1>2, <1>7, <2>3
    <3>2. q[i - 1] # a
      <4>1. 0 < k => k \in 1..s.num /\ k # i - 1
        BY <1>2, <3>1
      <4> QED
        BY <1>2, <1>3, <1>8, <3>1, <4>1
    <3>3. m2.node[r[i]].next = m.node[q[i - 1]].next
      BY <1>6, <3>1, <3>2
    <3>4. m.node[q[i - 1]].next = IF i - 1 < s.num THEN q[i - 1 + 1] ELSE NULL
      BY <1>8, <3>1
    <3>5. i < s.num + 1 => r[i + 1] = q[i]
      <4>1. i < s.num + 1 => i + 1 \in k + 2..s.num + 1 /\ i + 1 - 1 = i
        BY <1>2, <2>3
      <4> QED
        BY <1>7, <4>1
    <3>6. i - 1 + 1 = i /\ (i - 1 < s.num <=> i < s.num + 1)
      BY <1>2
    <3> QED
      BY <3>3, <3>4, <3>5, <3>6
  <2> QED
    BY <1>7, <2>1, <2>2, <2>3
<1>11. ASSUME NEW i \in 1..s.num + 1
       PROVE  m2.node[r[i]].prev = IF 1 < i THEN r[i - 1] ELSE NULL
  <2>1. CASE i \in 1..k
    <3>1. r[i] = q[i] /\ i \in 1..s.num /\ i <= k /\ q[i] \in Nodes /\ q[i] # n
      BY <1>2, <1>7, <2>1
    <3>2. q[i] # b
      <4>1. k < s.num => k + 1 \in 1..s.num /\ k + 1 # i
        BY <1>2, <3>1
      <4> QED
        BY <1>2, <1>4, <1>8, <3>1, <4>1
    <3>3. m2.node[r[i]].prev = m.node[q[i]].prev
      BY <1>6, <3>1, <3>2
    <3>4. 1 < i => r[i - 1] = q[i - 1]
      <4>1. 1 < i => i - 1 \in 1..k
        BY <1>2, <2>1
      <4> QED
        BY <1>7, <4>1
    <3> QED
      BY <1>8, <3>1, <3>3, <3>4
  <2>2. CASE i = k + 1
    <3>1. r[i] = n /\ m2.node[n].prev = a
      BY <1>6, <1>7, <2>2
    <3>2. 0 < k => k \in 1..k /\ 1 < i /\ i - 1 = k
      BY <2>2
    <3>3. ~(0 < k) => ~(1 < i)
      BY <2>2
    <3>4. 0 < k => r[i - 1] = q[k]
      BY <1>7, <3>2
    <3> QED
      BY <1>3, <3>1, <3>2, <3>3, <3>4
  <2>3. CASE i \in k + 2..s.num + 1
    <3>1. r[i] = q[i - 1] /\ i - 1 \in 1..s.num /\ i - 1 > k /\ 1 < i /\ q[i - 1] \in Nodes /\ q[i - 1] # n
      <4>1. r[i] = q[i - 1] /\ i - 1 \in 1..s.num
        BY <1>7, <2>3
      <4>2. i - 1 > k /\ 1 < i
        BY <1>2, <2>3
      <4> QED
        BY <1>2, <4>1, <4>2
    <3>2. k < s.num /\ k + 1 \in 1..s.num /\ b = q[k + 1]
      BY <1>2, <1>4, <3>1
    <3>3. CASE i = k + 2
      <4>1. i - 1 = k + 1
        BY <3>3
      <4>2. r[i - 1] = n /\ q[i - 1] = b
        BY <1>7, <3>2, <4>1
      <4> QED
        BY <1>6, <3>1, <4>2
    <3>4. CASE i # k + 2
      <4>1. i - 1 \in k + 2..s.num + 1 /\ i - 1 # k + 1 /\ 1 < i - 1
        BY <1>2, <2>3, <3>1, <3>4
      <4>2. q[i - 1] # b
        BY <1>8, <3>1, <3>2, <4>1
      <4>3. r[i - 1] = q[i - 1 - 1] /\ m.node[q[i - 1]].prev = q[i - 1 - 1]
        BY <1>7, <1>8, <3>1, <4>1
      <4> QED
        BY <1>6, <3>1, <4>2, <4>3
    <3> QED
      BY <3>3, <3>4
  <2> QED
    BY <1>7, <2>1, <2>2, <2>3
<1>12. s2.start = r[1]
  <2>1. CASE 0 < k
    <3>1. 1 \in 1..k /\ k \in 1..s.num /\ 0 < s.num
      BY <1>2, <2>1
    <3>2. a # NULL /\ r[1] = q[1] /\ s.start = q[1]
      BY <1>2, <1>3, <1>7, <1>8, <2>1, <3>1
    <3> QED
      BY <1>6, <3>2
  <2>2. CASE ~(0 < k)
    <3>1. k + 1 = 1 /\ a = NULL
      BY <1>3, <2>2
    <3> QED
      BY <1>6, <1>7, <3>1
  <2> QED
    BY <2>1, <2>2
<1>13. s2.bottom = r[s.num + 1]
  <2>1. CASE k < s.num
    <3>1. s.num + 1 \in k + 2..s.num + 1 /\ k + 1 \in 1..s.num /\ 0 < s.num /\ s.num + 1 - 1 = s.num
      BY <1>2, <2>1
    <3>2. b # NULL /\ s.bottom = q[s.num]
      BY <1>2, <1>4, <1>8, <2>1, <3>1
    <3>3. \A t \in k + 2..s.num + 1 : t - 1 = s.num => r[t] = q[s.num]
      BY <1>7
    <3>4. r[s.num + 1] = q[s.num]
      <4> DEFINE t == s.num + 1
      <4>1. t \in k + 2..s.num + 1 /\ t - 1 = s.num
        BY <1>2, <3>1
      <4> HIDE DEF t
      <4>2. r[t] = q[s.num]
        BY <3>3, <4>1
      <4> QED
        BY <4>2 DEF t
    <3> QED
      BY <1>6, <3>2, <3>4
  <2>2. CASE ~(k < s.num)
    <3>1. k + 1 = s.num + 1 /\ b = NULL
      BY <1>2, <1>4, <2>2
    <3> QED
      BY <1>6, <1>7, <3>1
  <2> QED
    BY <2>1, <2>2
<1>14. ASSUME NEW i \in 1..s.num + 1, NEW j \in 1..s.num + 1, i <= j
       PROVE  m2.node[r[i]].score >= m2.node[r[j]].score
  <2>1. \A x \in Nodes : m2.node[x].score = m.node[x].score
    BY <1>6 DEF SameHypothesis
  <2>2. /\ \A l \in 1..k : m.node[q[l]].score >= m.node[n].score
        /\ \A l \in k + 1..s.num : m.node[q[l]].score <= m.node[n].score
    BY <1>1 DEF Splits
  <2>3. r[i] \in Nodes /\ r[j] \in Nodes
    BY <1>7
  <2> SUFFICES m.node[r[i]].score >= m.node[r[j]].score
    BY <2>1, <2>3
  <2>4. CASE i \in 1..k
    <3>1. r[i] = q[i] /\ i \in 1..s.num /\ m.node[q[i]].score >= m.node[n].score
      BY <1>7, <2>2, <2>4
    <3>2. CASE j \in 1..k
      BY <1>7, <1>8, <1>14, <3>1, <3>2
    <3>3. CASE j = k + 1
      BY <1>7, <3>1, <3>3
    <3>4. CASE j \in k + 2..s.num + 1
      <4>1. r[j] = q[j - 1] /\ j - 1 \in 1..s.num /\ i <= j - 1
        BY <1>2, <1>7, <2>4, <3>4
      <4> QED
        BY <1>8, <3>1, <4>1
    <3> QED
      BY <1>7, <3>2, <3>3, <3>4
  <2>5. CASE i = k + 1
    <3>1. CASE j = k + 1
      BY <1>2, <1>7, <2>5, <3>1
    <3>2. CASE j \in k + 2..s.num + 1
      <4>1. r[j] = q[j - 1] /\ j - 1 \in k + 1..s.num /\ j - 1 \in 1..s.num
        BY <1>2, <1>7, <3>2
      <4>2. m.node[q[j - 1]].score <= m.node[n].score /\ q[j - 1] \in Nodes
        BY <1>2, <2>2, <4>1
      <4> QED
        BY <1>2, <1>7, <2>5, <4>1, <4>2
    <3> QED
      BY <1>7, <1>14, <2>5, <3>1, <3>2
  <2>6. CASE i \in k + 2..s.num + 1
    <3>1. j \in k + 2..s.num + 1
      BY <1>2, <1>14, <2>6
    <3>2. r[i] = q[i - 1] /\ i - 1 \in 1..s.num /\ r[j] = q[j - 1] /\ j - 1 \in 1..s.num /\ i - 1 <= j - 1
      BY <1>2, <1>7, <1>14, <2>6, <3>1
    <3> QED
      BY <1>8, <3>2
  <2> QED
    BY <1>7, <2>4, <2>5, <2>6
<1>15. IsList(m2, s2, r)
  <2>1. 0 < s.num + 1
    BY <1>2
  <2> QED
    BY <1>6, <1>7, <1>9, <1>10, <1>11, <1>12, <1>13, <1>14, <2>1 DEF IsList
<1>16. ASSUME NEW x \in Nodes, x # n, x \notin In(s, q)
       PROVE  m2.node[x] = m.node[x]
  <2>1. 0 < k => k \in 1..s.num
    BY <1>2
  <2>2. k < s.num => k + 1 \in 1..s.num
    BY <1>2
  <2>3. x # a /\ x # b
    BY <1>3, <1>4, <1>16, <2>1, <2>2, RoomIs DEF In
  <2> QED
    BY <1>6, <1>16, <2>3
<1> QED
  BY <1>1, <1>6, <1>15, <1>16 DEF m2, s2, r

-----------------------------------------------------------------------------
(* Taking nodes out of a list, and giving nodes out and back.              *)

\* The nodes without the first, and without the last.
Rest(s, q) == [i \in 1..s.num - 1 |-> q[i + 1]]
\* The list without its bottom.
Upper(s, q) == [i \in 1..s.num - 1 |-> q[i]]

\* A list whose nodes do not change is still a list.
LEMMA ListFrame ==
  ASSUME NEW m, NEW p, NEW s, NEW q, IsList(m, s, q), \A x \in In(s, q) : p.node[x] = m.node[x]
  PROVE  IsList(p, s, q)
<1>1. \A i \in 1..s.num : p.node[q[i]] = m.node[q[i]]
  BY DEF In
<1>2. /\ \A i \in 1..s.num :
           /\ m.node[q[i]].next = IF i < s.num THEN q[i + 1] ELSE NULL
           /\ m.node[q[i]].prev = IF 1 < i THEN q[i - 1] ELSE NULL
      /\ \A i, j \in 1..s.num : i <= j => m.node[q[i]].score >= m.node[q[j]].score
  BY DEF IsList
<1>3. \A i \in 1..s.num :
        /\ p.node[q[i]].next = IF i < s.num THEN q[i + 1] ELSE NULL
        /\ p.node[q[i]].prev = IF 1 < i THEN q[i - 1] ELSE NULL
  BY <1>1, <1>2
<1>4. \A i, j \in 1..s.num : i <= j => p.node[q[i]].score >= p.node[q[j]].score
  BY <1>1, <1>2
<1> QED
  BY <1>3, <1>4 DEF IsList

\* What free_node changes.
LEMMA FreedFacts ==
  ASSUME NEW m \in Memory, NEW n \in Nodes
  PROVE  /\ Freed(m, n) \in Memory /\ Freed(m, n).free = m.free \cup {n}
         /\ \A x \in Nodes : x # n => Freed(m, n).node[x] = m.node[x]
<1>1. Blank \in Hypothesis
  BY SearchAssumption, RoomIs DEF Blank, Hypothesis, LogZero
<1>2. Freed(m, n) \in Memory
  BY <1>1 DEF Freed, Memory
<1> QED
  BY <1>2 DEF Freed, Memory

\* What newnode and the assignments behind it change.
LEMMA WithFacts ==
  ASSUME NEW m \in Memory, m.free # {}, NEW score \in 0..MaxScore, NEW seqnum \in 0..MaxSeqNum,
         NEW endflag \in BOOLEAN
  PROVE  /\ NewNode(m) \in m.free /\ NewNode(m) \in Nodes
         /\ With(m, score, seqnum, endflag) \in Memory
         /\ With(m, score, seqnum, endflag).free = m.free \ {NewNode(m)}
         /\ With(m, score, seqnum, endflag).node[NewNode(m)].score = score
         /\ With(m, score, seqnum, endflag).node[NewNode(m)].seqnum = seqnum
         /\ With(m, score, seqnum, endflag).node[NewNode(m)].endflag = endflag
         /\ \A x \in Nodes : x # NewNode(m) => With(m, score, seqnum, endflag).node[x] = m.node[x]
<1> DEFINE n == NewNode(m)
<1>1. n \in m.free /\ n \in Nodes
  <2>1. m.free \in SUBSET Nat /\ m.free \subseteq Nodes
    BY RoomIs DEF Memory
  <2>2. \E x \in m.free : \A y \in m.free : x <= y
    BY <2>1, LeastNumber
  <2>3. n \in m.free
    BY <2>2 DEF NewNode
  <2> QED
    BY <2>1, <2>3
<1> HIDE DEF n
<1> DEFINE hypo == [Blank EXCEPT !.score = score, !.seqnum = seqnum, !.endflag = endflag]
           p == [m EXCEPT !.free = @ \ {n}, !.node[n] = hypo]
<1>2. With(m, score, seqnum, endflag) = p
  BY DEF With, n
<1>3. hypo \in Hypothesis /\ hypo.score = score /\ hypo.seqnum = seqnum /\ hypo.endflag = endflag
  <2>1. Blank \in Hypothesis
    BY SearchAssumption, RoomIs DEF Blank, Hypothesis, LogZero
  <2> QED
    BY <2>1 DEF Hypothesis
<1> HIDE DEF hypo
<1>4. /\ p \in Memory /\ p.free = m.free \ {n}
      /\ p.node[n] = hypo /\ \A x \in Nodes : x # n => p.node[x] = m.node[x]
  BY <1>1, <1>3 DEF Memory
<1> QED
  BY <1>1, <1>2, <1>3, <1>4 DEF n

\* The link prev of one node taken out.
CutPrev(m, x, p) == p = [m EXCEPT !.node[x].prev = NULL]

\* What is left when the link of a node upwards is cleared,
LEMMA PrevCut ==
  ASSUME NEW m \in Memory, NEW x \in Nodes, NEW p, CutPrev(m, x, p)
  PROVE  /\ p \in Memory /\ p.free = m.free
         /\ p.node[x].prev = NULL /\ p.node[x].next = m.node[x].next
         /\ \A y \in Nodes :
              SameHypothesis(p.node[y], m.node[y]) /\ (y # x => p.node[y] = m.node[y])
<1> DEFINE h == [m.node[x] EXCEPT !.prev = NULL]
<1>1. p = [m EXCEPT !.node[x] = h]
  BY DEF CutPrev
<1>2. m.node[x] \in Hypothesis
  BY DEF Memory
<1>3. h \in Hypothesis /\ h.prev = NULL /\ h.next = m.node[x].next /\ SameHypothesis(h, m.node[x])
  BY <1>2, RoomIs DEF Hypothesis, SameHypothesis
<1> HIDE DEF h
<1>4. /\ p \in Memory /\ p.free = m.free /\ p.node[x] = h
      /\ \A y \in Nodes : y # x => p.node[y] = m.node[y]
  BY <1>1, <1>3 DEF Memory
<1>5. \A y \in Nodes : SameHypothesis(p.node[y], m.node[y])
  <2>1. \A y \in Nodes : SameHypothesis(m.node[y], m.node[y])
    BY DEF SameHypothesis
  <2> QED
    BY <1>3, <1>4, <2>1
<1> QED
  BY <1>3, <1>4, <1>5

\* The link next of one node taken out.
CutNext(m, x, p) == p = [m EXCEPT !.node[x].next = NULL]

\* and when its link downwards is.
LEMMA NextCut ==
  ASSUME NEW m \in Memory, NEW x \in Nodes, NEW p, CutNext(m, x, p)
  PROVE  /\ p \in Memory /\ p.free = m.free
         /\ p.node[x].next = NULL /\ p.node[x].prev = m.node[x].prev
         /\ \A y \in Nodes :
              SameHypothesis(p.node[y], m.node[y]) /\ (y # x => p.node[y] = m.node[y])
<1> DEFINE h == [m.node[x] EXCEPT !.next = NULL]
<1>1. p = [m EXCEPT !.node[x] = h]
  BY DEF CutNext
<1>2. m.node[x] \in Hypothesis
  BY DEF Memory
<1>3. h \in Hypothesis /\ h.next = NULL /\ h.prev = m.node[x].prev /\ SameHypothesis(h, m.node[x])
  BY <1>2, RoomIs DEF Hypothesis, SameHypothesis
<1> HIDE DEF h
<1>4. /\ p \in Memory /\ p.free = m.free /\ p.node[x] = h
      /\ \A y \in Nodes : y # x => p.node[y] = m.node[y]
  BY <1>1, <1>3 DEF Memory
<1>5. \A y \in Nodes : SameHypothesis(p.node[y], m.node[y])
  <2>1. \A y \in Nodes : SameHypothesis(m.node[y], m.node[y])
    BY DEF SameHypothesis
  <2> QED
    BY <1>3, <1>4, <2>1
<1> QED
  BY <1>3, <1>4, <1>5

\* Taking the top off.
LEMMA TopOffIs ==
  ASSUME NEW m \in Memory, NEW s, NEW q, IsList(m, s, q), 0 < s.num
  PROVE  /\ s.start \in Nodes /\ s.start = q[1] /\ s.start \in In(s, q)
         /\ TopOff(m, s).mem \in Memory /\ TopOff(m, s).mem.free = m.free
         /\ TopOff(m, s).list.num = s.num - 1
         /\ IsList(TopOff(m, s).mem, TopOff(m, s).list, Rest(s, q))
         /\ In(TopOff(m, s).list, Rest(s, q)) = In(s, q) \ {s.start}
         /\ \A x \in Nodes :
              /\ SameHypothesis(TopOff(m, s).mem.node[x], m.node[x])
              /\ x = s.start \/ x \notin In(s, q) => TopOff(m, s).mem.node[x] = m.node[x]
<1> DEFINE rest == m.node[s.start].next
           m2 == TopOff(m, s).mem
           s2 == TopOff(m, s).list
           r == Rest(s, q)
<1>1. /\ s.num \in Nat /\ q \in [1..s.num -> Nodes] /\ s \in ListRecord
      /\ \A i \in 1..s.num : q[i] \in Nodes /\ q[i] # NULL
      /\ \A x \in Nodes : m.node[x].score \in Int
  <2>1. s \in ListRecord
    BY DEF IsList
  <2> QED
    BY <2>1, ListFacts
<1>2. /\ \A i, j \in 1..s.num : q[i] = q[j] => i = j
      /\ \A i \in 1..s.num :
           /\ m.node[q[i]].next = IF i < s.num THEN q[i + 1] ELSE NULL
           /\ m.node[q[i]].prev = IF 1 < i THEN q[i - 1] ELSE NULL
      /\ s.start = q[1]
      /\ s.bottom = q[s.num]
      /\ \A i, j \in 1..s.num : i <= j => m.node[q[i]].score >= m.node[q[j]].score
  BY DEF IsList
<1>3. 1 \in 1..s.num /\ s.start \in Nodes /\ s.start \in In(s, q)
  BY <1>1, <1>2 DEF In
<1>4. rest = IF 1 < s.num THEN q[2] ELSE NULL
  BY <1>2, <1>3
<1>5. m2 = IF rest = NULL THEN m ELSE [m EXCEPT !.node[rest].prev = NULL]
  BY DEF TopOff
<1>6. /\ s2 \in ListRecord /\ s2.start = rest /\ s2.bottom = s.bottom /\ s2.num = s.num - 1
  <2>1. s2 = [s EXCEPT !.start = rest, !.num = @ - 1]
    BY DEF TopOff
  <2>2. rest \in 0..Room
    BY <1>3 DEF Memory, Hypothesis
  <2>3. s.num - 1 \in Nat
    BY <1>1
  <2> HIDE DEF rest, s2
  <2> QED
    BY <1>1, <2>1, <2>2, <2>3 DEF ListRecord
<1>7. 1 < s.num => 2 \in 1..s.num /\ q[2] \in Nodes
  BY <1>1
<1>8. /\ m2 \in Memory /\ m2.free = m.free
      /\ 1 < s.num => m2.node[q[2]].prev = NULL /\ m2.node[q[2]].next = m.node[q[2]].next
      /\ \A x \in Nodes :
           /\ SameHypothesis(m2.node[x], m.node[x])
           /\ x # rest => m2.node[x] = m.node[x]
  <2>1. CASE 1 < s.num
    <3>1. rest = q[2] /\ q[2] \in Nodes /\ m2 = [m EXCEPT !.node[rest].prev = NULL]
      BY <1>1, <1>4, <1>5, <1>7, <2>1
    <3> HIDE DEF m2, rest
    <3>2. rest \in Nodes
      BY <3>1
    <3> QED
      <4>1. /\ m2 \in Memory /\ m2.free = m.free
            /\ m2.node[rest].prev = NULL /\ m2.node[rest].next = m.node[rest].next
            /\ \A y \in Nodes :
                 SameHypothesis(m2.node[y], m.node[y]) /\ (y # rest => m2.node[y] = m.node[y])
        <5>1. CutPrev(m, rest, m2)
          BY <3>1 DEF CutPrev
        <5> QED
          BY <3>2, <5>1, PrevCut
      <4> QED
        BY <3>1, <4>1
  <2>2. CASE ~(1 < s.num)
    <3>1. m2 = m
      BY <1>4, <1>5, <2>2
    <3> HIDE DEF m2, rest
    <3> QED
      BY <2>2, <3>1 DEF SameHypothesis
  <2> QED
    BY <2>1, <2>2
<1>9. /\ r \in [1..s.num - 1 -> Nodes]
      /\ \A i \in 1..s.num - 1 : i + 1 \in 1..s.num /\ r[i] = q[i + 1] /\ r[i] \in Nodes
  <2>1. \A i \in 1..s.num - 1 : i + 1 \in 1..s.num
    BY <1>1
  <2> QED
    BY <1>1, <2>1 DEF Rest
<1> HIDE DEF rest, m2, s2, r
<1>10. In(s2, r) = In(s, q) \ {s.start}
  <2>1. ASSUME NEW i \in 1..s.num - 1
        PROVE  r[i] \in In(s, q) /\ r[i] # s.start
    <3>1. i + 1 \in 1..s.num /\ i + 1 # 1 /\ r[i] = q[i + 1]
      BY <1>9
    <3> QED
      BY <1>2, <1>3, <3>1 DEF In
  <2>2. ASSUME NEW i \in 1..s.num, q[i] # s.start
        PROVE  \E j \in 1..s.num - 1 : r[j] = q[i]
    <3>1. i # 1 /\ i - 1 \in 1..s.num - 1 /\ i - 1 + 1 = i
      BY <1>1, <1>2, <2>2
    <3>2. r[i - 1] = q[i]
      BY <1>9, <3>1
    <3> QED
      BY <3>1, <3>2
  <2> QED
    BY <1>6, <2>1, <2>2 DEF In
<1>11. \A i, j \in 1..s.num - 1 : r[i] = r[j] => i = j
  <2>1. ASSUME NEW i \in 1..s.num - 1, NEW j \in 1..s.num - 1, r[i] = r[j]
        PROVE  i = j
    <3>1. i + 1 = j + 1
      BY <1>2, <1>9, <2>1
    <3> QED
      BY <3>1
  <2> QED
    BY <2>1
<1>12. ASSUME NEW i \in 1..s.num - 1
       PROVE  /\ m2.node[r[i]].next = IF i < s.num - 1 THEN r[i + 1] ELSE NULL
              /\ m2.node[r[i]].prev = IF 1 < i THEN r[i - 1] ELSE NULL
  <2>1. i + 1 \in 1..s.num /\ r[i] = q[i + 1] /\ 1 < s.num /\ q[i + 1] \in Nodes
    BY <1>1, <1>9
  <2>2. m2.node[r[i]].next = m.node[q[i + 1]].next
    BY <1>4, <1>8, <2>1
  <2>3. m.node[q[i + 1]].next = IF i + 1 < s.num THEN q[i + 1 + 1] ELSE NULL
    BY <1>2, <2>1
  <2>4. i < s.num - 1 => r[i + 1] = q[i + 1 + 1]
    <3>1. i < s.num - 1 => i + 1 \in 1..s.num - 1
      BY <1>1
    <3> QED
      BY <1>9, <3>1
  <2>5. i < s.num - 1 <=> i + 1 < s.num
    BY <1>1
  <2>6. CASE i = 1
    <3>1. r[i] = q[2] /\ ~(1 < i)
      BY <2>1, <2>6
    <3> QED
      BY <1>8, <2>1, <2>2, <2>3, <2>4, <2>5, <3>1
  <2>7. CASE i # 1
    <3>1. 1 < i /\ i - 1 \in 1..s.num - 1 /\ i - 1 + 1 = i /\ i + 1 # 2 /\ i + 1 - 1 = i /\ 1 < i + 1
      BY <1>1, <2>7
    <3>2. q[i + 1] # q[2]
      BY <1>2, <1>7, <2>1, <3>1
    <3>3. m2.node[r[i]].prev = m.node[q[i + 1]].prev
      BY <1>4, <1>8, <2>1, <3>2
    <3>4. m.node[q[i + 1]].prev = q[i]
      BY <1>2, <2>1, <3>1
    <3>5. r[i - 1] = q[i]
      BY <1>9, <3>1
    <3> QED
      BY <2>2, <2>3, <2>4, <2>5, <3>1, <3>3, <3>4, <3>5
  <2> QED
    BY <2>6, <2>7
<1>13. s2.start = IF 0 < s.num - 1 THEN r[1] ELSE NULL
  <2>1. 0 < s.num - 1 <=> 1 < s.num
    BY <1>1
  <2>2. 1 < s.num => 1 \in 1..s.num - 1
    BY <1>1
  <2>3. 1 < s.num => r[1] = q[2]
    BY <1>9, <2>2
  <2> QED
    BY <1>4, <1>6, <2>1, <2>3
<1>14. 0 < s.num - 1 => s2.bottom = r[s.num - 1]
  <2>1. 0 < s.num - 1 => s.num - 1 \in 1..s.num - 1 /\ s.num - 1 + 1 = s.num
    BY <1>1
  <2> QED
    BY <1>2, <1>6, <1>9, <2>1
<1>15. \A i, j \in 1..s.num - 1 : i <= j => m2.node[r[i]].score >= m2.node[r[j]].score
  <2>1. \A x \in Nodes : m2.node[x].score = m.node[x].score
    BY <1>8 DEF SameHypothesis
  <2>2. ASSUME NEW i \in 1..s.num - 1, NEW j \in 1..s.num - 1, i <= j
        PROVE  m.node[q[i + 1]].score >= m.node[q[j + 1]].score
    <3>1. i + 1 \in 1..s.num /\ j + 1 \in 1..s.num /\ i + 1 <= j + 1
      BY <1>9, <2>2
    <3> QED
      BY <1>2, <3>1
  <2> QED
    BY <1>9, <2>1, <2>2
<1>16. IsList(m2, s2, r)
  <2>1. s2.num = s.num - 1
    BY <1>6
  <2> QED
    BY <1>6, <1>9, <1>11, <1>12, <1>13, <1>14, <1>15, <2>1 DEF IsList
<1>17. ASSUME NEW x \in Nodes, x = s.start \/ x \notin In(s, q)
       PROVE  m2.node[x] = m.node[x]
  <2>1. 1 < s.num => q[2] # s.start /\ q[2] \in In(s, q)
    BY <1>2, <1>3, <1>7 DEF In
  <2>2. x # rest
    BY <1>4, <1>17, <2>1, RoomIs
  <2> QED
    BY <1>8, <2>2
<1> QED
  BY <1>2, <1>3, <1>6, <1>8, <1>10, <1>16, <1>17 DEF m2, s2, r

\* Driving the bottom out: with one more node above, as a stack of one has no
\* node that the bottom could go to.
LEMMA EvictedIs ==
  ASSUME NEW m \in Memory, NEW s, NEW q, IsList(m, s, q), 1 < s.num
  PROVE  /\ s.bottom \in Nodes /\ s.bottom = q[s.num] /\ s.bottom \in In(s, q)
         /\ Evicted(m, s).mem \in Memory /\ Evicted(m, s).mem.free = m.free \cup {s.bottom}
         /\ Evicted(m, s).list.num = s.num - 1
         /\ IsList(Evicted(m, s).mem, Evicted(m, s).list, Upper(s, q))
         /\ In(Evicted(m, s).list, Upper(s, q)) = In(s, q) \ {s.bottom}
         /\ \A x \in Nodes :
              /\ x # s.bottom => SameHypothesis(Evicted(m, s).mem.node[x], m.node[x])
              /\ x \notin In(s, q) => Evicted(m, s).mem.node[x] = m.node[x]
<1> DEFINE up == m.node[s.bottom].prev
           cut == IF up = NULL THEN m ELSE [m EXCEPT !.node[up].next = NULL]
           m2 == Evicted(m, s).mem
           s2 == Evicted(m, s).list
           r == Upper(s, q)
<1>1. /\ s.num \in Nat /\ q \in [1..s.num -> Nodes] /\ s \in ListRecord
      /\ \A i \in 1..s.num : q[i] \in Nodes /\ q[i] # NULL
      /\ \A x \in Nodes : m.node[x].score \in Int
  <2>1. s \in ListRecord
    BY DEF IsList
  <2> QED
    BY <2>1, ListFacts
<1>2. /\ \A i, j \in 1..s.num : q[i] = q[j] => i = j
      /\ \A i \in 1..s.num :
           /\ m.node[q[i]].next = IF i < s.num THEN q[i + 1] ELSE NULL
           /\ m.node[q[i]].prev = IF 1 < i THEN q[i - 1] ELSE NULL
      /\ s.start = q[1]
      /\ s.bottom = q[s.num]
      /\ \A i, j \in 1..s.num : i <= j => m.node[q[i]].score >= m.node[q[j]].score
  <2>1. 0 < s.num
    BY <1>1
  <2> QED
    BY <2>1 DEF IsList
<1>3. s.num \in 1..s.num /\ s.bottom \in Nodes /\ s.bottom \in In(s, q)
  BY <1>1, <1>2 DEF In
<1>4. /\ s.num - 1 \in 1..s.num /\ s.num - 1 # s.num
      /\ up = q[s.num - 1] /\ up \in Nodes /\ up # NULL /\ up # s.bottom /\ up \in In(s, q)
  <2>1. s.num - 1 \in 1..s.num /\ s.num - 1 # s.num
    BY <1>1
  <2>2. up = q[s.num - 1]
    BY <1>2, <1>3
  <2> QED
    BY <1>1, <1>2, <1>3, <2>1, <2>2 DEF In
<1>5. m2 = Freed(cut, s.bottom) /\ CutNext(m, up, cut)
  <2>1. Evicted(m, s) = [mem |-> Freed(cut, s.bottom), list |-> [s EXCEPT !.bottom = up, !.num = @ - 1]]
    BY DEF Evicted
  <2>2. CutNext(m, up, cut)
    BY <1>4 DEF CutNext
  <2> HIDE DEF cut, up
  <2> QED
    BY <2>1, <2>2
<1>6. /\ s2 \in ListRecord /\ s2.start = s.start /\ s2.bottom = up /\ s2.num = s.num - 1
  <2>1. s2 = [s EXCEPT !.bottom = up, !.num = @ - 1]
    BY DEF Evicted
  <2>2. up \in 0..Room
    BY <1>4, RoomIs
  <2>3. s.num - 1 \in Nat
    BY <1>1
  <2> HIDE DEF up, s2
  <2> QED
    BY <1>1, <2>1, <2>2, <2>3 DEF ListRecord
<1> HIDE DEF up, cut
<1>7. /\ cut \in Memory /\ cut.free = m.free
      /\ cut.node[up].next = NULL /\ cut.node[up].prev = m.node[up].prev
      /\ \A y \in Nodes :
           SameHypothesis(cut.node[y], m.node[y]) /\ (y # up => cut.node[y] = m.node[y])
  BY <1>4, <1>5, NextCut
<1> HIDE DEF m2
<1>8. /\ m2 \in Memory /\ m2.free = m.free \cup {s.bottom}
      /\ \A y \in Nodes : y # s.bottom => m2.node[y] = cut.node[y]
  <2> DEFINE b == s.bottom
  <2>1. b \in Nodes /\ m2 = Freed(cut, b)
    BY <1>3, <1>5
  <2> HIDE DEF b
  <2>2. /\ m2 \in Memory /\ m2.free = m.free \cup {b}
        /\ \A y \in Nodes : y # b => m2.node[y] = cut.node[y]
    BY <1>7, <2>1, FreedFacts
  <2> QED
    BY <2>2 DEF b
<1>9. /\ r \in [1..s.num - 1 -> Nodes]
      /\ \A i \in 1..s.num - 1 : i \in 1..s.num /\ i # s.num /\ r[i] = q[i] /\ r[i] \in Nodes
  <2>1. \A i \in 1..s.num - 1 : i \in 1..s.num /\ i # s.num
    BY <1>1
  <2> QED
    BY <1>1, <2>1 DEF Upper
<1> HIDE DEF s2, r
<1>10. \A i \in 1..s.num - 1 : r[i] # s.bottom
  BY <1>2, <1>3, <1>9
<1>11. In(s2, r) = In(s, q) \ {s.bottom}
  <2>1. \A i \in 1..s.num - 1 : r[i] \in In(s, q)
    BY <1>9 DEF In
  <2>2. ASSUME NEW i \in 1..s.num, q[i] # s.bottom
        PROVE  \E j \in 1..s.num - 1 : r[j] = q[i]
    <3>1. i # s.num /\ i \in 1..s.num - 1
      BY <1>1, <1>2, <2>2
    <3> QED
      BY <1>9, <3>1
  <2> QED
    BY <1>6, <1>10, <2>1, <2>2 DEF In
<1>12. ASSUME NEW i \in 1..s.num - 1
       PROVE  /\ m2.node[r[i]].next = IF i < s.num - 1 THEN r[i + 1] ELSE NULL
              /\ m2.node[r[i]].prev = IF 1 < i THEN r[i - 1] ELSE NULL
  <2>1. i \in 1..s.num /\ r[i] = q[i] /\ q[i] \in Nodes /\ i < s.num /\ m2.node[r[i]] = cut.node[q[i]]
    BY <1>1, <1>8, <1>9, <1>10
  <2>2. m.node[q[i]].prev = IF 1 < i THEN q[i - 1] ELSE NULL
    BY <1>2, <2>1
  <2>3. m2.node[r[i]].prev = m.node[q[i]].prev
    BY <1>7, <2>1
  <2>4. 1 < i => r[i - 1] = q[i - 1]
    <3>1. 1 < i => i - 1 \in 1..s.num - 1
      BY <1>1
    <3> QED
      BY <1>9, <3>1
  <2>5. m2.node[r[i]].next = IF i < s.num - 1 THEN r[i + 1] ELSE NULL
    <3>1. CASE i = s.num - 1
      <4>1. q[i] = up /\ ~(i < s.num - 1)
        BY <1>1, <1>4, <3>1
      <4> QED
        BY <1>7, <2>1, <4>1
    <3>2. CASE i # s.num - 1
      <4>1. q[i] # up /\ i < s.num - 1 /\ i + 1 \in 1..s.num - 1
        BY <1>1, <1>2, <1>4, <2>1, <3>2
      <4>2. r[i + 1] = q[i + 1] /\ m.node[q[i]].next = q[i + 1]
        BY <1>2, <1>9, <2>1, <4>1
      <4> QED
        BY <1>7, <2>1, <4>1, <4>2
    <3> QED
      BY <3>1, <3>2
  <2> QED
    BY <2>2, <2>3, <2>4, <2>5
<1>13. 0 < s.num - 1 /\ 1 \in 1..s.num - 1 /\ s.num - 1 \in 1..s.num - 1 /\ 0 < s.num
  BY <1>1
<1>14. s2.start = r[1] /\ s2.bottom = r[s.num - 1]
  BY <1>2, <1>4, <1>6, <1>9, <1>13
<1>15. \A i, j \in 1..s.num - 1 : i <= j => m2.node[r[i]].score >= m2.node[r[j]].score
  <2>1. \A i \in 1..s.num - 1 : m2.node[r[i]].score = m.node[q[i]].score
    BY <1>7, <1>8, <1>9, <1>10 DEF SameHypothesis
  <2> QED
    BY <1>2, <1>9, <2>1
<1>16. \A i, j \in 1..s.num - 1 : r[i] = r[j] => i = j
  BY <1>2, <1>9
<1>17. IsList(m2, s2, r)
  <2>1. s2.num = s.num - 1
    BY <1>6
  <2> QED
    BY <1>6, <1>9, <1>12, <1>13, <1>14, <1>15, <1>16, <2>1 DEF IsList
<1>18. ASSUME NEW x \in Nodes
       PROVE  /\ x # s.bottom => SameHypothesis(m2.node[x], m.node[x])
              /\ x \notin In(s, q) => m2.node[x] = m.node[x]
  BY <1>3, <1>4, <1>7, <1>8
<1> QED
  BY <1>2, <1>3, <1>6, <1>8, <1>11, <1>17, <1>18 DEF m2, s2, r

\* A list with n put in has the nodes it had, and n.
LEMMA InOfIns ==
  ASSUME NEW s, NEW q, s.num \in Nat, q \in [1..s.num -> Nodes], NEW k \in 0..s.num, NEW n \in Nodes,
         NEW t, t.num = s.num + 1
  PROVE  In(t, Ins(s, q, k, n)) = In(s, q) \cup {n}
<1> DEFINE r == Ins(s, q, k, n)
<1>1. /\ \A i \in 1..k : i \in 1..s.num /\ i \in 1..s.num + 1 /\ r[i] = q[i]
      /\ k + 1 \in 1..s.num + 1 /\ r[k + 1] = n
      /\ \A i \in k + 2..s.num + 1 : i - 1 \in 1..s.num /\ i \in 1..s.num + 1 /\ r[i] = q[i - 1]
      /\ \A i \in 1..s.num + 1 : i \in 1..k \/ i = k + 1 \/ i \in k + 2..s.num + 1
  BY InsFacts, SMTT(30)
<1> HIDE DEF r
<1>2. \A i \in 1..s.num + 1 : r[i] \in In(s, q) \cup {n}
  BY <1>1 DEF In
<1>3. ASSUME NEW i \in 1..s.num
      PROVE  \E j \in 1..s.num + 1 : r[j] = q[i]
  <2>1. CASE i \in 1..k
    BY <1>1, <2>1
  <2>2. CASE i \notin 1..k
    <3>1. i + 1 \in k + 2..s.num + 1 /\ i + 1 - 1 = i
      BY <2>2
    <3>2. i + 1 \in 1..s.num + 1 /\ r[i + 1] = q[i]
      BY <1>1, <3>1
    <3> QED
      BY <3>2
  <2> QED
    BY <2>1, <2>2
<1> QED
  BY <1>1, <1>2, <1>3 DEF In, r

\* The list with one node less.
Shorter(s) == [s EXCEPT !.num = @ - 1]

\* What p = put_to_stack makes of list s with nodes q: n is linked in, or is
\* linked in when the bottom is gone, or is not better than the bottom.
Pushes(m, s, q, n, size, p, r) ==
  \/ /\ s.num < size /\ p.list.num = s.num + 1
     /\ \E k \in 0..s.num : Splits(m, s, q, n, k) /\ r = Ins(s, q, k, n)
  \/ /\ s.num = size /\ p.list.num = s.num
     /\ m.node[q[s.num]].score < m.node[n].score
     /\ \E k \in 0..s.num - 1 :
          Splits(m, Shorter(s), Upper(s, q), n, k) /\ r = Ins(Shorter(s), Upper(s, q), k, n)
  \/ /\ s.num = size /\ p.list = s /\ r = q
     /\ m.node[q[s.num]].score >= m.node[n].score

\* d is the node that is freed, if any.
Places(m, s, q, n, p, r, d) ==
  /\ p.mem \in Memory /\ IsList(p.mem, p.list, r)
  /\ d \in In(s, q) \cup {n, NULL}
  /\ In(p.list, r) = (In(s, q) \cup {n}) \ {d}
  /\ p.mem.free = m.free \cup ({d} \ {NULL})
  /\ \A x \in Nodes :
       /\ x # d => SameHypothesis(p.mem.node[x], m.node[x])
       /\ x \notin In(s, q) /\ x # n => p.mem.node[x] = m.node[x]

\* put_to_stack below the limit,
LEMMA PutFits ==
  ASSUME NEW m \in Memory, NEW s, NEW q, IsList(m, s, q), NEW n \in Nodes, n \notin In(s, q),
         NEW size \in Nat, s.num < size
  PROVE  \E r : Places(m, s, q, n, Put(m, s, n, size), r, NULL)
                /\ Pushes(m, s, q, n, size, Put(m, s, n, size), r)
<1> DEFINE p == Put(m, s, n, size)
<1>1. s.num \in Nat /\ q \in [1..s.num -> Nodes] /\ s.num + 1 <= size
  BY ListFacts
<1>2. p = Linked(m, s, n)
  BY <1>1 DEF Put
<1>3. /\ p.mem \in Memory /\ p.mem.free = m.free
      /\ p.list.num = s.num + 1
      /\ \E k \in 0..s.num : Splits(m, s, q, n, k) /\ IsList(p.mem, p.list, Ins(s, q, k, n))
      /\ \A x \in Nodes :
           /\ SameHypothesis(p.mem.node[x], m.node[x])
           /\ x # n /\ x \notin In(s, q) => p.mem.node[x] = m.node[x]
  BY <1>2, LinkedIs
<1> HIDE DEF p
<1>4. PICK k \in 0..s.num : Splits(m, s, q, n, k) /\ IsList(p.mem, p.list, Ins(s, q, k, n))
  BY <1>3
<1> DEFINE r == Ins(s, q, k, n)
           t == p.list
<1>5. t.num = s.num + 1
  BY <1>3
<1> HIDE DEF t
<1>6. In(t, r) = In(s, q) \cup {n}
  BY <1>1, <1>5, InOfIns
<1>7. NULL \notin In(s, q) \cup {n}
  BY <1>1, RoomIs DEF In
<1>8. Places(m, s, q, n, p, r, NULL)
  BY <1>3, <1>4, <1>6, <1>7 DEF Places, t
<1>9. Pushes(m, s, q, n, size, p, r)
  BY <1>3, <1>4 DEF Pushes
<1> QED
  BY <1>8, <1>9 DEF p

\* at the limit when the bottom is worse, which needs a predecessor of the bottom,
LEMMA PutEvicts ==
  ASSUME NEW m \in Memory, NEW s, NEW q, IsList(m, s, q), NEW n \in Nodes, n \notin In(s, q),
         1 < s.num, m.node[s.bottom].score < m.node[n].score
  PROVE  \E r : Places(m, s, q, n, Put(m, s, n, s.num), r, s.bottom)
                /\ Pushes(m, s, q, n, s.num, Put(m, s, n, s.num), r)
<1> DEFINE p == Put(m, s, n, s.num)
           e == Evicted(m, s).mem
           es == Evicted(m, s).list
           u == Upper(s, q)
<1>1. s.num \in Nat /\ q \in [1..s.num -> Nodes] /\ ~(s.num + 1 <= s.num)
  BY ListFacts
<1>2. p = Linked(e, es, n)
  BY <1>1 DEF Put
<1>3. /\ s.bottom \in Nodes /\ s.bottom = q[s.num] /\ s.bottom \in In(s, q)
      /\ e \in Memory /\ e.free = m.free \cup {s.bottom}
      /\ es.num = s.num - 1
      /\ IsList(e, es, u)
      /\ In(es, u) = In(s, q) \ {s.bottom}
      /\ \A x \in Nodes :
           /\ x # s.bottom => SameHypothesis(e.node[x], m.node[x])
           /\ x \notin In(s, q) => e.node[x] = m.node[x]
  BY EvictedIs
<1> HIDE DEF p, e, es
<1>4. n \notin In(es, u)
  BY <1>3
<1>5. /\ Linked(e, es, n).mem \in Memory /\ Linked(e, es, n).mem.free = e.free
      /\ Linked(e, es, n).list.num = es.num + 1
      /\ \E k \in 0..es.num :
           Splits(e, es, u, n, k) /\ IsList(Linked(e, es, n).mem, Linked(e, es, n).list, Ins(es, u, k, n))
      /\ \A x \in Nodes :
           /\ SameHypothesis(Linked(e, es, n).mem.node[x], e.node[x])
           /\ x # n /\ x \notin In(es, u) => Linked(e, es, n).mem.node[x] = e.node[x]
  <2> HIDE DEF u
  <2> QED
    BY <1>3, <1>4, LinkedIs
<1>6. PICK k \in 0..es.num : Splits(e, es, u, n, k) /\ IsList(p.mem, p.list, Ins(es, u, k, n))
  BY <1>2, <1>5
<1> DEFINE r == Ins(es, u, k, n)
           t == p.list
<1>7. es.num \in Nat /\ u \in [1..es.num -> Nodes] /\ t.num = es.num + 1 /\ t.num = s.num
  <2>1. es.num \in Nat /\ u \in [1..es.num -> Nodes]
    BY <1>3 DEF IsList, ListRecord
  <2>2. t.num = es.num + 1
    BY <1>2, <1>5
  <2> QED
    BY <1>1, <1>3, <2>1, <2>2
<1> HIDE DEF t
<1>8. In(t, r) = In(es, u) \cup {n}
  <2> HIDE DEF u
  <2> QED
    BY <1>7, InOfIns
<1>9. n # s.bottom /\ NULL # s.bottom
  BY <1>3, RoomIs
<1>10. p.mem.free = m.free \cup ({s.bottom} \ {NULL})
  BY <1>2, <1>3, <1>5, <1>9
<1>11. In(t, r) = (In(s, q) \cup {n}) \ {s.bottom}
  BY <1>3, <1>8, <1>9
<1>12. ASSUME NEW x \in Nodes
       PROVE  /\ x # s.bottom => SameHypothesis(p.mem.node[x], m.node[x])
              /\ x \notin In(s, q) /\ x # n => p.mem.node[x] = m.node[x]
  <2>1. x # s.bottom => SameHypothesis(p.mem.node[x], m.node[x])
    BY <1>2, <1>3, <1>5 DEF SameHypothesis
  <2>2. x \notin In(s, q) /\ x # n => p.mem.node[x] = m.node[x]
    BY <1>2, <1>3, <1>5
  <2> QED
    BY <2>1, <2>2
<1>13. Places(m, s, q, n, p, r, s.bottom)
  BY <1>2, <1>3, <1>5, <1>6, <1>10, <1>11, <1>12 DEF Places, t
<1>14. Splits(m, Shorter(s), u, n, k) /\ k \in 0..s.num - 1 /\ r = Ins(Shorter(s), u, k, n)
  <2>1. Shorter(s).num = es.num
    BY <1>3 DEF Shorter, IsList, ListRecord
  <2>2. \A i \in 1..es.num : e.node[u[i]].score = m.node[u[i]].score
    <3>1. \A i \in 1..es.num : u[i] \in Nodes /\ u[i] # s.bottom
      BY <1>3, <1>7 DEF In
    <3> QED
      BY <1>3, <3>1 DEF SameHypothesis
  <2>3. e.node[n].score = m.node[n].score
    BY <1>3, <1>9 DEF SameHypothesis
  <2>4. \A i : (i \in 1..k \/ i \in k + 1..es.num) => i \in 1..es.num
    BY <1>6, <1>7
  <2>5. Splits(m, Shorter(s), u, n, k)
    BY <1>6, <2>1, <2>2, <2>3, <2>4 DEF Splits
  <2>6. r = Ins(Shorter(s), u, k, n)
    BY <2>1 DEF Ins
  <2> QED
    BY <1>3, <2>5, <2>6
<1>15. Pushes(m, s, q, n, s.num, p, r)
  <2>1. m.node[q[s.num]].score < m.node[n].score /\ p.list.num = s.num
    BY <1>3, <1>7 DEF t
  <2> HIDE DEF r
  <2> QED
    BY <1>14, <2>1 DEF Pushes
<1> QED
  BY <1>13, <1>15 DEF p

\* and at the limit when it is not.
LEMMA PutTurnsAway ==
  ASSUME NEW m \in Memory, NEW s, NEW q, IsList(m, s, q), NEW n \in Nodes, n \notin In(s, q),
         0 < s.num, ~(m.node[s.bottom].score < m.node[n].score)
  PROVE  /\ Places(m, s, q, n, Put(m, s, n, s.num), q, n)
         /\ Pushes(m, s, q, n, s.num, Put(m, s, n, s.num), q)
<1> DEFINE p == Put(m, s, n, s.num)
<1>1. /\ s.num \in Nat /\ q \in [1..s.num -> Nodes] /\ ~(s.num + 1 <= s.num)
      /\ \A i \in 1..s.num : q[i] \in Nodes /\ m.node[q[i]].score \in Int
      /\ m.node[n].score \in Int
  BY ListFacts
<1>2. p = [mem |-> Freed(m, n), list |-> s]
  BY <1>1 DEF Put
<1>3. /\ p.mem \in Memory /\ p.mem.free = m.free \cup {n} /\ p.list = s
      /\ \A x \in Nodes : x # n => p.mem.node[x] = m.node[x]
  BY <1>2, FreedFacts
<1> HIDE DEF p
<1>4. IsList(p.mem, s, q)
  <2>1. \A x \in In(s, q) : p.mem.node[x] = m.node[x]
    BY <1>1, <1>3 DEF In
  <2> DEFINE pm == p.mem
  <2> HIDE DEF pm
  <2>2. IsList(pm, s, q)
    BY <2>1, ListFrame DEF pm
  <2> QED
    BY <2>2 DEF pm
<1>5. Places(m, s, q, n, p, q, n)
  <2>1. n # NULL
    BY RoomIs
  <2> QED
    BY <1>3, <1>4, <2>1 DEF Places, SameHypothesis
<1>6. s.bottom = q[s.num] /\ s.num \in 1..s.num
  BY <1>1 DEF IsList
<1>7. m.node[q[s.num]].score >= m.node[n].score
  BY <1>1, <1>6
<1>8. Pushes(m, s, q, n, s.num, p, q)
  BY <1>3, <1>7 DEF Pushes
<1> QED
  BY <1>5, <1>8 DEF p

\* put_to_stack, whatever its case.
LEMMA PutIs ==
  ASSUME NEW m \in Memory, NEW s, NEW q, IsList(m, s, q), NEW n \in Nodes, n \notin In(s, q),
         NEW size \in Nat, s.num <= size, size # 0, s.num = size => 1 < size
  PROVE  \E r, d : Places(m, s, q, n, Put(m, s, n, size), r, d)
                   /\ Pushes(m, s, q, n, size, Put(m, s, n, size), r)
<1>1. s.num \in Nat
  BY ListFacts
<1>2. CASE s.num < size
  BY <1>2, PutFits
<1>3. CASE ~(s.num < size)
  <2>1. s.num = size /\ 1 < s.num /\ 0 < s.num
    BY <1>1, <1>3
  <2>2. CASE m.node[s.bottom].score < m.node[n].score
    BY <2>1, <2>2, PutEvicts
  <2>3. CASE ~(m.node[s.bottom].score < m.node[n].score)
    BY <2>1, <2>3, PutTurnsAway
  <2> QED
    BY <2>2, <2>3
<1> QED
  BY <1>2, <1>3

-----------------------------------------------------------------------------
(* Where every node is.                                                    *)

\* The places where a node may be.
ListIds == {"stack", "local", "result"}
OffLists == {"now", "noise", "hand"}
Spots == ListIds \cup OffLists \cup {"free"}

\* Memory m has the lists L, made of the nodes Q, and at says where each node is:
\* on one list, in the stocker, being expanded, or in the hand of a step.
Holds(m, L, Q, at) ==
  /\ m \in Memory
  /\ at \in [Nodes -> Spots]
  /\ \A id \in ListIds : IsList(m, L[id], Q[id])
  /\ \A x \in Nodes, id \in ListIds : x \in In(L[id], Q[id]) <=> at[x] = id
  /\ \A x \in Nodes : x \in m.free <=> at[x] = "free"

\* f with s for id.
Change(f, id, s) == [i \in ListIds |-> IF i = id THEN s ELSE f[i]]
\* at with node n moved to spot.
Moved(at, n, spot) == [at EXCEPT ![n] = spot]

\* What is on a list is nowhere else.
LEMMA Apart ==
  ASSUME NEW m, NEW L, NEW Q, NEW at, Holds(m, L, Q, at), NEW id \in ListIds
  PROVE  /\ m \in Memory /\ IsList(m, L[id], Q[id]) /\ L[id].num \in Nat
         /\ In(L[id], Q[id]) \subseteq Nodes
         /\ \A x \in In(L[id], Q[id]) : at[x] = id
<1>1. m \in Memory /\ IsList(m, L[id], Q[id])
  BY DEF Holds
<1>2. L[id].num \in Nat /\ Q[id] \in [1..L[id].num -> Nodes]
  <2>1. L[id] \in ListRecord /\ Q[id] \in [1..L[id].num -> Nodes]
    BY <1>1 DEF IsList
  <2> QED
    BY <2>1 DEF ListRecord
<1>3. In(L[id], Q[id]) \subseteq Nodes
  BY <1>2 DEF In
<1> QED
  BY <1>1, <1>2, <1>3 DEF Holds

\* A step that changes list id and the nodes of it and in the hand.
LEMMA HoldsChanged ==
  ASSUME NEW m, NEW L, NEW Q, NEW at, Holds(m, L, Q, at), NEW id \in ListIds,
         NEW p \in Memory, NEW s, NEW r, IsList(p, s, r), NEW new \in [Nodes -> Spots],
         \A x \in Nodes : at[x] \in ListIds \ {id} => p.node[x] = m.node[x],
         \A x \in Nodes, i \in ListIds \ {id} : new[x] = i <=> at[x] = i,
         \A x \in Nodes : (x \in In(s, r) <=> new[x] = id) /\ (x \in p.free <=> new[x] = "free")
  PROVE  Holds(p, Change(L, id, s), Change(Q, id, r), new)
<1> DEFINE K == Change(L, id, s)
           P == Change(Q, id, r)
<1>1. K[id] = s /\ P[id] = r /\ \A i \in ListIds \ {id} : K[i] = L[i] /\ P[i] = Q[i]
  BY DEF Change
<1> HIDE DEF K, P
<1>2. ASSUME NEW i \in ListIds
      PROVE  IsList(p, K[i], P[i]) /\ \A x \in Nodes : x \in In(K[i], P[i]) <=> new[x] = i
  <2>1. CASE i = id
    BY <1>1, <2>1
  <2>2. CASE i # id
    <3>1. K[i] = L[i] /\ P[i] = Q[i] /\ i \in ListIds \ {id}
      BY <1>1, <2>2
    <3>2. IsList(m, L[i], Q[i]) /\ \A x \in In(L[i], Q[i]) : x \in Nodes /\ at[x] = i
      BY <2>2, Apart
    <3>3. \A x \in In(L[i], Q[i]) : p.node[x] = m.node[x]
      BY <3>1, <3>2
    <3>4. IsList(p, L[i], Q[i])
      <4> DEFINE l == L[i]
                 q == Q[i]
      <4> HIDE DEF l, q
      <4>1. IsList(p, l, q)
        BY <3>2, <3>3, ListFrame DEF l, q
      <4> QED
        BY <4>1 DEF l, q
    <3>5. \A x \in Nodes : x \in In(L[i], Q[i]) <=> at[x] = i
      BY DEF Holds
    <3> QED
      BY <3>1, <3>4, <3>5
  <2> QED
    BY <2>1, <2>2
<1> QED
  BY <1>2 DEF Holds, K, P

\* A step that leaves the lists alone.
LEMMA HoldsOffLists ==
  ASSUME NEW m, NEW L, NEW Q, NEW at, Holds(m, L, Q, at),
         NEW p \in Memory, NEW new \in [Nodes -> Spots],
         \A x \in Nodes : at[x] \in ListIds => p.node[x] = m.node[x],
         \A x \in Nodes, i \in ListIds : new[x] = i <=> at[x] = i,
         \A x \in Nodes : x \in p.free <=> new[x] = "free"
  PROVE  Holds(p, L, Q, new)
<1>1. ASSUME NEW i \in ListIds
      PROVE  IsList(p, L[i], Q[i]) /\ \A x \in Nodes : x \in In(L[i], Q[i]) <=> new[x] = i
  <2>1. IsList(m, L[i], Q[i]) /\ \A x \in In(L[i], Q[i]) : x \in Nodes /\ at[x] = i
    BY Apart
  <2>2. \A x \in In(L[i], Q[i]) : p.node[x] = m.node[x]
    BY <2>1
  <2>3. IsList(p, L[i], Q[i])
    <3> DEFINE l == L[i]
               q == Q[i]
    <3> HIDE DEF l, q
    <3>1. IsList(p, l, q)
      BY <2>1, <2>2, ListFrame DEF l, q
    <3> QED
      BY <3>1 DEF l, q
  <2>4. \A x \in Nodes : x \in In(L[i], Q[i]) <=> at[x] = i
    BY DEF Holds
  <2> QED
    BY <2>3, <2>4
<1> QED
  BY <1>1 DEF Holds

\* A node off the lists is freed.
LEMMA HoldsFreed ==
  ASSUME NEW m, NEW L, NEW Q, NEW at, Holds(m, L, Q, at), NEW n \in Nodes, at[n] \notin ListIds
  PROVE  /\ Holds(Freed(m, n), L, Q, Moved(at, n, "free"))
         /\ \A x \in Nodes : x # n => Freed(m, n).node[x] = m.node[x]
<1> DEFINE p == Freed(m, n)
           new == Moved(at, n, "free")
<1>1. m \in Memory /\ at \in [Nodes -> Spots] /\ \A x \in Nodes : x \in m.free <=> at[x] = "free"
  BY DEF Holds
<1>2. p \in Memory /\ p.free = m.free \cup {n} /\ \A x \in Nodes : x # n => p.node[x] = m.node[x]
  BY <1>1, FreedFacts
<1>3. new \in [Nodes -> Spots] /\ new[n] = "free" /\ \A x \in Nodes : x # n => new[x] = at[x]
  BY <1>1 DEF Moved, Spots
<1> HIDE DEF p, new
<1>4. \A x \in Nodes : at[x] \in ListIds => p.node[x] = m.node[x]
  BY <1>2
<1>5. \A x \in Nodes, i \in ListIds : new[x] = i <=> at[x] = i
  BY <1>3 DEF ListIds
<1>6. \A x \in Nodes : x \in p.free <=> new[x] = "free"
  BY <1>1, <1>2, <1>3
<1>7. Holds(p, L, Q, new)
  BY <1>2, <1>3, <1>4, <1>5, <1>6, HoldsOffLists
<1> QED
  BY <1>2, <1>7 DEF p, new

\* A node is taken from the stocker.
LEMMA HoldsWith ==
  ASSUME NEW m, NEW L, NEW Q, NEW at, Holds(m, L, Q, at), m.free # {}, NEW score \in 0..MaxScore,
         NEW seqnum \in 0..MaxSeqNum, NEW endflag \in BOOLEAN, NEW spot \in OffLists
  PROVE  /\ NewNode(m) \in Nodes /\ at[NewNode(m)] = "free"
         /\ Holds(With(m, score, seqnum, endflag), L, Q, Moved(at, NewNode(m), spot))
         /\ With(m, score, seqnum, endflag).node[NewNode(m)].score = score
         /\ With(m, score, seqnum, endflag).node[NewNode(m)].seqnum = seqnum
         /\ \A x \in Nodes : x # NewNode(m) => With(m, score, seqnum, endflag).node[x] = m.node[x]
<1> DEFINE n == NewNode(m)
           p == With(m, score, seqnum, endflag)
           new == Moved(at, n, spot)
<1>1. m \in Memory /\ at \in [Nodes -> Spots] /\ \A x \in Nodes : x \in m.free <=> at[x] = "free"
  BY DEF Holds
<1>2. /\ n \in m.free /\ n \in Nodes /\ p \in Memory /\ p.free = m.free \ {n}
      /\ p.node[n].score = score /\ p.node[n].seqnum = seqnum
      /\ \A x \in Nodes : x # n => p.node[x] = m.node[x]
  BY <1>1, WithFacts
<1> HIDE DEF n, p
<1>3. new \in [Nodes -> Spots] /\ new[n] = spot /\ \A x \in Nodes : x # n => new[x] = at[x]
  BY <1>1, <1>2 DEF Moved, Spots
<1> HIDE DEF new
<1>4. at[n] = "free" /\ spot \notin ListIds /\ spot # "free" /\ "free" \notin ListIds
  BY <1>1, <1>2 DEF OffLists, ListIds
<1>5. \A x \in Nodes : at[x] \in ListIds => p.node[x] = m.node[x]
  BY <1>2, <1>4
<1>6. \A x \in Nodes, i \in ListIds : new[x] = i <=> at[x] = i
  BY <1>3, <1>4
<1>7. \A x \in Nodes : x \in p.free <=> new[x] = "free"
  BY <1>1, <1>2, <1>3, <1>4
<1>8. Holds(p, L, Q, new)
  BY <1>2, <1>3, <1>5, <1>6, <1>7, HoldsOffLists
<1> QED
  BY <1>2, <1>4, <1>8 DEF p, n, new

\* A node off the lists changes its role.
LEMMA HoldsMoved ==
  ASSUME NEW m, NEW L, NEW Q, NEW at, Holds(m, L, Q, at), NEW n \in Nodes, at[n] \in OffLists,
         NEW spot \in OffLists
  PROVE  Holds(m, L, Q, Moved(at, n, spot))
<1> DEFINE new == Moved(at, n, spot)
<1>1. m \in Memory /\ at \in [Nodes -> Spots] /\ \A x \in Nodes : x \in m.free <=> at[x] = "free"
  BY DEF Holds
<1>2. new \in [Nodes -> Spots] /\ new[n] = spot /\ \A x \in Nodes : x # n => new[x] = at[x]
  BY <1>1 DEF Moved, Spots
<1> HIDE DEF new
<1>3. \A i \in OffLists : i \notin ListIds /\ i # "free"
  BY DEF OffLists, ListIds
<1>4. \A x \in Nodes, i \in ListIds : new[x] = i <=> at[x] = i
  BY <1>2, <1>3
<1>5. \A x \in Nodes : x \in m.free <=> new[x] = "free"
  BY <1>1, <1>2, <1>3
<1>6. Holds(m, L, Q, new)
  BY <1>1, <1>2, <1>4, <1>5, HoldsOffLists
<1> QED
  BY <1>6 DEF new

\* The top of a list is taken into the hand.
LEMMA HoldsTop ==
  ASSUME NEW m, NEW L, NEW Q, NEW at, Holds(m, L, Q, at), NEW id \in ListIds, 0 < L[id].num
  PROVE  /\ L[id].start \in Nodes /\ L[id].start = Q[id][1] /\ at[L[id].start] = id
         /\ Holds(TopOff(m, L[id]).mem, Change(L, id, TopOff(m, L[id]).list),
                  Change(Q, id, Rest(L[id], Q[id])), Moved(at, L[id].start, "hand"))
         /\ TopOff(m, L[id]).list.num = L[id].num - 1
         /\ \A x \in Nodes : SameHypothesis(TopOff(m, L[id]).mem.node[x], m.node[x])
         /\ \A x \in Nodes : at[x] # id => TopOff(m, L[id]).mem.node[x] = m.node[x]
<1> DEFINE s == L[id]
           q == Q[id]
           n == s.start
           p == TopOff(m, s).mem
           t == TopOff(m, s).list
           r == Rest(s, q)
           new == Moved(at, n, "hand")
<1>1. /\ m \in Memory /\ at \in [Nodes -> Spots] /\ IsList(m, s, q)
      /\ \A x \in Nodes : x \in m.free <=> at[x] = "free"
      /\ \A x \in Nodes : x \in In(s, q) <=> at[x] = id
      /\ In(s, q) \subseteq Nodes
  BY Apart DEF Holds
<1> HIDE DEF s, q
<1>2. 0 < s.num
  BY DEF s
<1>3. /\ n \in Nodes /\ n = q[1] /\ n \in In(s, q)
      /\ p \in Memory /\ p.free = m.free
      /\ t.num = s.num - 1 /\ IsList(p, t, r)
      /\ In(t, r) = In(s, q) \ {n}
      /\ \A x \in Nodes :
           /\ SameHypothesis(p.node[x], m.node[x])
           /\ x = n \/ x \notin In(s, q) => p.node[x] = m.node[x]
  BY <1>1, <1>2, TopOffIs
<1> HIDE DEF n, p, t, r
<1>4. new \in [Nodes -> Spots] /\ new[n] = "hand" /\ \A x \in Nodes : x # n => new[x] = at[x]
  BY <1>1, <1>3 DEF Moved, Spots, OffLists
<1> HIDE DEF new
<1>5. "hand" \notin ListIds /\ "hand" # "free" /\ id # "free" /\ at[n] = id
  BY <1>1, <1>3 DEF ListIds
<1>6. \A x \in Nodes : at[x] # id => p.node[x] = m.node[x]
  BY <1>1, <1>3
<1>7. \A x \in Nodes, i \in ListIds \ {id} : new[x] = i <=> at[x] = i
  BY <1>4, <1>5
<1>8. \A x \in Nodes : (x \in In(t, r) <=> new[x] = id) /\ (x \in p.free <=> new[x] = "free")
  BY <1>1, <1>3, <1>4, <1>5
<1>9. Holds(p, Change(L, id, t), Change(Q, id, r), new)
  BY <1>3, <1>4, <1>6, <1>7, <1>8, HoldsChanged
<1> QED
  BY <1>3, <1>5, <1>6, <1>9 DEF s, q, n, p, t, r, new

\* The node n of the hand went to list id, and d to the stocker.
PutDown(m, L, Q, at, id, n, size, r, d) ==
  LET p == Put(m, L[id], n, size)
  IN  /\ Holds(p.mem, Change(L, id, p.list), Change(Q, id, r),
               [x \in Nodes |-> IF x = d THEN "free" ELSE IF x = n THEN id ELSE at[x]])
      /\ d \in In(L[id], Q[id]) \cup {n, NULL}
      /\ Pushes(m, L[id], Q[id], n, size, p, r)
      /\ \A x \in Nodes : x # d => SameHypothesis(p.mem.node[x], m.node[x])
      /\ \A x \in Nodes : at[x] # id /\ x # n => p.mem.node[x] = m.node[x]

\* What is in the hand is put into a list; it, or the bottom, may be freed instead.
LEMMA HoldsPut ==
  ASSUME NEW m, NEW L, NEW Q, NEW at, Holds(m, L, Q, at), NEW id \in ListIds,
         NEW n \in Nodes, at[n] = "hand",
         NEW size \in Nat, L[id].num <= size, size # 0, L[id].num = size => 1 < size
  PROVE  \E r, d : PutDown(m, L, Q, at, id, n, size, r, d)
<1> DEFINE s == L[id]
           q == Q[id]
           p == Put(m, s, n, size)
<1>1. /\ m \in Memory /\ at \in [Nodes -> Spots] /\ IsList(m, s, q)
      /\ \A x \in Nodes : x \in m.free <=> at[x] = "free"
      /\ \A x \in Nodes : x \in In(s, q) <=> at[x] = id
      /\ In(s, q) \subseteq Nodes
  BY Apart DEF Holds
<1>2. s.num <= size /\ (s.num = size => 1 < size)
  OBVIOUS
<1> HIDE DEF s, q
<1>3. "hand" \notin ListIds /\ "hand" # "free" /\ id # "free" /\ id \in Spots /\ "free" \in Spots
  BY DEF ListIds, Spots
<1>4. n \notin In(s, q)
  BY <1>1, <1>3
<1>5. PICK r, d : Places(m, s, q, n, p, r, d) /\ Pushes(m, s, q, n, size, p, r)
  BY <1>1, <1>2, <1>4, PutIs
<1> DEFINE pm == p.mem
           t == p.list
           new == [x \in Nodes |-> IF x = d THEN "free" ELSE IF x = n THEN id ELSE at[x]]
<1>6. /\ pm \in Memory /\ IsList(pm, t, r)
      /\ d \in In(s, q) \cup {n, NULL}
      /\ In(t, r) = (In(s, q) \cup {n}) \ {d}
      /\ pm.free = m.free \cup ({d} \ {NULL})
      /\ \A x \in Nodes :
           /\ x # d => SameHypothesis(pm.node[x], m.node[x])
           /\ x \notin In(s, q) /\ x # n => pm.node[x] = m.node[x]
  BY <1>5 DEF Places
<1> HIDE DEF p, pm, t
<1>7. /\ new \in [Nodes -> Spots]
      /\ \A x \in Nodes : new[x] = IF x = d THEN "free" ELSE IF x = n THEN id ELSE at[x]
  BY <1>1, <1>3
<1> HIDE DEF new
<1>8. \A x \in Nodes : at[x] \in ListIds \ {id} => pm.node[x] = m.node[x]
  BY <1>1, <1>3, <1>6
<1>9. \A x \in Nodes, i \in ListIds \ {id} : new[x] = i <=> at[x] = i
  <2>1. \A x \in Nodes, i \in ListIds \ {id} : at[x] = i => x # d /\ x # n
    BY <1>1, <1>3, <1>6, RoomIs
  <2>2. "free" \notin ListIds
    BY DEF ListIds
  <2> QED
    BY <1>3, <1>7, <2>1, <2>2
<1>10. ASSUME NEW x \in Nodes
       PROVE  (x \in In(t, r) <=> new[x] = id) /\ (x \in pm.free <=> new[x] = "free")
  <2>1. CASE x = d
    <3>1. new[x] = "free" /\ x \notin In(t, r) /\ x # NULL
      BY <1>6, <1>7, <2>1, RoomIs
    <3> QED
      BY <1>3, <1>6, <2>1, <3>1
  <2>2. CASE x # d /\ x = n
    <3>1. new[x] = id /\ x \in In(t, r) /\ x \notin m.free
      BY <1>1, <1>3, <1>6, <1>7, <2>2
    <3> QED
      BY <1>3, <1>6, <2>2, <3>1
  <2>3. CASE x # d /\ x # n
    <3>1. new[x] = at[x] /\ (x \in In(t, r) <=> x \in In(s, q)) /\ (x \in pm.free <=> x \in m.free)
      BY <1>6, <1>7, <2>3
    <3> QED
      BY <1>1, <3>1
  <2> QED
    BY <2>1, <2>2, <2>3
<1>11. Holds(pm, Change(L, id, t), Change(Q, id, r), new)
  BY <1>6, <1>7, <1>8, <1>9, <1>10, HoldsChanged
<1>12. \A x \in Nodes : at[x] # id /\ x # n => pm.node[x] = m.node[x]
  BY <1>1, <1>6
<1>13. PutDown(m, L, Q, at, id, n, size, r, d)
  <2>1. /\ Holds(p.mem, Change(L, id, p.list), Change(Q, id, r), new)
        /\ \A x \in Nodes : x # d => SameHypothesis(p.mem.node[x], m.node[x])
        /\ \A x \in Nodes : at[x] # id /\ x # n => p.mem.node[x] = m.node[x]
    BY <1>6, <1>11, <1>12 DEF pm, t
  <2>2. d \in In(L[id], Q[id]) \cup {n, NULL} /\ Pushes(m, L[id], Q[id], n, size, p, r)
    BY <1>5, <1>6 DEF s, q
  <2>3. p = Put(m, L[id], n, size)
    BY DEF p, s
  <2>4. new = [x \in Nodes |-> IF x = d THEN "free" ELSE IF x = n THEN id ELSE at[x]]
    BY DEF new
  <2> QED
    BY <2>1, <2>2, <2>3, <2>4 DEF PutDown
<1> QED
  BY <1>13

\* The nodes off the lists: expanded, with a pause, in the hand of a step.
Hands(at, a, b, h) ==
  \A x \in Nodes : (at[x] = "now" <=> x = a) /\ (at[x] = "noise" <=> x = b) /\ (at[x] = "hand" <=> x = h)

\* The scores of a list.
Contents(m, s, q) == [i \in 1..s.num |-> m.node[q[i]].score]

\* The lists hold the scores C.
ContentsAre(m, L, Q, C) == \A id \in ListIds : C[id] = Contents(m, L[id], Q[id])

\* Memory m has the lists L with the scores C; a, b and h are the nodes off them.
Held(m, L, C, a, b, h) ==
  \E Q, at : Holds(m, L, Q, at) /\ Hands(at, a, b, h) /\ ContentsAre(m, L, Q, C)

\* Scores stay while those of the listed nodes do.
LEMMA ContentsSame ==
  ASSUME NEW m, NEW p, NEW L, NEW Q, NEW at, NEW C, Holds(m, L, Q, at), ContentsAre(m, L, Q, C),
         \A x \in Nodes : at[x] \in ListIds => p.node[x].score = m.node[x].score
  PROVE  ContentsAre(p, L, Q, C)
<1> SUFFICES ASSUME NEW id \in ListIds PROVE C[id] = Contents(p, L[id], Q[id])
  BY DEF ContentsAre
<1>1. C[id] = Contents(m, L[id], Q[id])
  BY DEF ContentsAre
<1>2. \A i \in 1..L[id].num : Q[id][i] \in Nodes /\ at[Q[id][i]] = id
  <2>1. Q[id] \in [1..L[id].num -> Nodes]
    BY DEF Holds, IsList
  <2>2. \A i \in 1..L[id].num : Q[id][i] \in In(L[id], Q[id])
    BY DEF In
  <2> QED
    BY <2>1, <2>2, Apart
<1>3. \A i \in 1..L[id].num : p.node[Q[id][i]].score = m.node[Q[id][i]].score
  BY <1>2
<1> QED
  BY <1>1, <1>3 DEF Contents

\* A list has at most as many nodes as its number says.
LEMMA FewInList ==
  ASSUME NEW m, NEW s, NEW q, IsList(m, s, q)
  PROVE  IsFiniteSet(In(s, q)) /\ Cardinality(In(s, q)) \in Nat /\ Cardinality(In(s, q)) <= s.num
<1>1. s.num \in Nat /\ q \in [1..s.num -> Nodes]
  BY DEF IsList, ListRecord
<1>2. IsFiniteSet(1..s.num) /\ Cardinality(1..s.num) = s.num
  <2>1. 1 \in Int /\ s.num \in Int
    BY <1>1
  <2>2. IsFiniteSet(1..s.num) /\ Cardinality(1..s.num) = IF 1 > s.num THEN 0 ELSE s.num - 1 + 1
    BY <2>1, FS_Interval
  <2> QED
    BY <1>1, <2>2
<1>3. q \in Surjection(1..s.num, In(s, q))
  BY <1>1 DEF Surjection, In
<1>4. IsFiniteSet(In(s, q)) /\ Cardinality(In(s, q)) <= Cardinality(1..s.num)
  BY <1>2, <1>3, FS_Surjection
<1> QED
  BY <1>2, <1>4, FS_CardinalityType

\* Two sets together have no more elements than both.
LEMMA FewTogether ==
  ASSUME NEW S, NEW T, IsFiniteSet(S), IsFiniteSet(T)
  PROVE  /\ IsFiniteSet(S \cup T) /\ Cardinality(S \cup T) \in Nat
         /\ Cardinality(S \cup T) <= Cardinality(S) + Cardinality(T)
<1>1. IsFiniteSet(S \cup T) /\ IsFiniteSet(S \cap T)
      /\ Cardinality(S \cup T) = Cardinality(S) + Cardinality(T) - Cardinality(S \cap T)
  BY FS_Union, FS_Intersection
<1>2. Cardinality(S) \in Nat /\ Cardinality(T) \in Nat /\ Cardinality(S \cap T) \in Nat /\ Cardinality(S \cup T) \in Nat
  BY <1>1, FS_CardinalityType
<1> QED
  BY <1>1, <1>2

\* A node is free as long as the lists and the nodes off them do not need all.
LEMMA RoomLeft ==
  ASSUME NEW m, NEW L, NEW C, NEW a, NEW b, NEW h, Held(m, L, C, a, b, h), NEW x1, NEW x2,
         {a, b, h} \ {NULL} \subseteq {x1, x2},
         L["stack"].num + L["local"].num + L["result"].num + 2 < Room
  PROVE  m.free # {}
<1>1. PICK Q, at : Holds(m, L, Q, at) /\ Hands(at, a, b, h)
  BY DEF Held
<1> DEFINE S(id) == In(L[id], Q[id])
           two == {x1, x2}
<1>2. \A id \in ListIds : IsFiniteSet(S(id)) /\ Cardinality(S(id)) \in Nat
                          /\ Cardinality(S(id)) <= L[id].num /\ L[id].num \in Nat
  BY <1>1, FewInList DEF Holds, IsList, ListRecord
<1>3. IsFiniteSet(two) /\ Cardinality(two) \in Nat /\ Cardinality(two) <= 2
  <2>1. IsFiniteSet({x1}) /\ Cardinality({x1}) = 1 /\ IsFiniteSet({x2}) /\ Cardinality({x2}) = 1
    BY FS_Singleton
  <2>2. two = {x1} \cup {x2}
    OBVIOUS
  <2> QED
    BY <2>1, <2>2, FewTogether
<1> DEFINE A == S("stack") \cup S("local")
           B == A \cup S("result")
           D == B \cup two
<1>4. IsFiniteSet(A) /\ Cardinality(A) \in Nat /\ Cardinality(A) <= Cardinality(S("stack")) + Cardinality(S("local"))
  BY <1>2, FewTogether DEF ListIds
<1>5. IsFiniteSet(B) /\ Cardinality(B) \in Nat /\ Cardinality(B) <= Cardinality(A) + Cardinality(S("result"))
  <2> HIDE DEF A
  <2> QED
    BY <1>2, <1>4, FewTogether DEF ListIds
<1>6. IsFiniteSet(D) /\ Cardinality(D) \in Nat /\ Cardinality(D) <= Cardinality(B) + Cardinality(two)
  <2> HIDE DEF B, two
  <2> QED
    BY <1>3, <1>5, FewTogether
<1>7. IsFiniteSet(Nodes) /\ Cardinality(Nodes) = Room
  <2>1. IsFiniteSet(1..Room) /\ Cardinality(1..Room) = IF 1 > Room THEN 0 ELSE Room - 1 + 1
    BY RoomIs, FS_Interval
  <2> QED
    BY <2>1, RoomIs
<1>8. SUFFICES ASSUME m.free = {} PROVE FALSE
  OBVIOUS
<1>9. Nodes \subseteq D
  <2>1. SUFFICES ASSUME NEW x \in Nodes PROVE x \in D
    OBVIOUS
  <2>2. at[x] \in Spots /\ at[x] # "free"
    BY <1>1, <1>8 DEF Holds
  <2>3. CASE at[x] \in ListIds
    <3>1. x \in S(at[x])
      BY <1>1, <2>3 DEF Holds
    <3> QED
      BY <2>3, <3>1 DEF ListIds
  <2>4. CASE at[x] \in OffLists
    <3>1. x \in {a, b, h} /\ x # NULL
      BY <1>1, <2>4, RoomIs DEF Hands, OffLists
    <3> QED
      BY <3>1
  <2> QED
    BY <2>2, <2>3, <2>4 DEF Spots
<1>10. Cardinality(Nodes) <= Cardinality(D)
  <2> HIDE DEF D
  <2> QED
    BY <1>6, <1>9, FS_Subset
<1>11. /\ Cardinality(S("stack")) <= L["stack"].num /\ Cardinality(S("local")) <= L["local"].num
       /\ Cardinality(S("result")) <= L["result"].num
       /\ Cardinality(S("stack")) \in Nat /\ Cardinality(S("local")) \in Nat /\ Cardinality(S("result")) \in Nat
       /\ L["stack"].num \in Nat /\ L["local"].num \in Nat /\ L["result"].num \in Nat
  BY <1>2 DEF ListIds
<1> DEFINE cA == Cardinality(A)
           cB == Cardinality(B)
           cC == Cardinality(D)
           c2 == Cardinality(two)
           c(id) == Cardinality(S(id))
           n(id) == L[id].num
<1>12. /\ c("stack") \in Nat /\ c("local") \in Nat /\ c("result") \in Nat
       /\ n("stack") \in Nat /\ n("local") \in Nat /\ n("result") \in Nat
       /\ c("stack") <= n("stack") /\ c("local") <= n("local") /\ c("result") <= n("result")
       /\ cA \in Nat /\ cA <= c("stack") + c("local")
       /\ cB \in Nat /\ cB <= cA + c("result")
       /\ c2 \in Nat /\ c2 <= 2
       /\ cC \in Nat /\ cC <= cB + c2
       /\ n("stack") + n("local") + n("result") + 2 < Room
       /\ Room \in Nat
  BY <1>3, <1>4, <1>5, <1>6, <1>11, RoomIs
<1>13. Room <= cC
  BY <1>7, <1>10
<1> HIDE DEF cA, cB, cC, c2, c, n
<1> QED
  BY <1>12, <1>13

\* A function on 1..n is a sequence of length n.
LEMMA SeqOfFunction ==
  ASSUME NEW S, NEW n \in Nat, NEW c \in [1..n -> S]
  PROVE  c \in Seq(S) /\ Len(c) = n
<1>1. c \in Seq(S)
  BY SeqDef
<1>2. Len(c) \in Nat /\ DOMAIN c = 1..Len(c) /\ DOMAIN c = 1..n
  BY <1>1, LenProperties
<1> DEFINE l == Len(c)
<1>3. l \in Nat /\ 1..l = 1..n
  BY <1>2
<1> HIDE DEF l
<1>4. l = n
  <2>1. 0 < l => l \in 1..n
    BY <1>3
  <2>2. 0 < n => n \in 1..l
    BY <1>3
  <2> QED
    BY <1>3, <2>1, <2>2
<1> QED
  BY <1>1, <1>4 DEF l

\* The scores of a list are a sequence as long as the list.
LEMMA ContentsType ==
  ASSUME NEW m \in Memory, NEW s, NEW q, IsList(m, s, q)
  PROVE  Contents(m, s, q) \in Seq(0..MaxScore) /\ Len(Contents(m, s, q)) = s.num
<1>1. s.num \in Nat /\ q \in [1..s.num -> Nodes]
  BY DEF IsList, ListRecord
<1>2. \A x \in Nodes : m.node[x].score \in 0..MaxScore
  BY DEF Memory, Hypothesis
<1>3. \A i \in 1..s.num : m.node[q[i]].score \in 0..MaxScore
  BY <1>1, <1>2
<1> DEFINE c == Contents(m, s, q)
<1>4. c \in [1..s.num -> 0..MaxScore]
  BY <1>3 DEF Contents
<1> HIDE DEF c
<1>5. c \in Seq(0..MaxScore) /\ Len(c) = s.num
  BY <1>1, <1>4, SeqOfFunction
<1> QED
  BY <1>5 DEF c

\* What a step may assume of a list.
LEMMA HeldFacts ==
  ASSUME NEW m, NEW L, NEW C, NEW a, NEW b, NEW h, Held(m, L, C, a, b, h), NEW id \in ListIds
  PROVE  /\ m \in Memory /\ L[id] \in ListRecord /\ L[id].num \in Nat /\ L[id].num <= Room
         /\ L[id].start \in 0..Room /\ (L[id].start = NULL <=> L[id].num = 0)
         /\ C[id] \in Seq(0..MaxScore) /\ Len(C[id]) = L[id].num
         /\ \A i, j \in 1..L[id].num : i <= j => C[id][i] >= C[id][j]
<1>1. PICK Q, at : Holds(m, L, Q, at) /\ ContentsAre(m, L, Q, C)
  BY DEF Held
<1>2. m \in Memory /\ IsList(m, L[id], Q[id])
  BY <1>1 DEF Holds
<1>3. L[id].num \in Nat /\ L[id].num <= Room
  BY <1>2, FewNodes
<1>4. L[id] \in ListRecord /\ L[id].start \in 0..Room
  BY <1>2 DEF IsList, ListRecord
<1>5. L[id].start = NULL <=> L[id].num = 0
  <2>1. L[id].start = IF 0 < L[id].num THEN Q[id][1] ELSE NULL
    BY <1>2 DEF IsList
  <2>2. Q[id] \in [1..L[id].num -> Nodes]
    BY <1>2 DEF IsList
  <2>3. CASE L[id].num = 0
    BY <2>1, <2>3
  <2>4. CASE 0 < L[id].num
    <3>1. 1 \in 1..L[id].num
      BY <1>3, <2>4
    <3>2. Q[id][1] \in Nodes
      BY <2>2, <3>1
    <3> QED
      BY <2>1, <2>4, <3>2, <1>3, RoomIs
  <2> QED
    BY <1>3, <2>3, <2>4
<1>6. /\ C[id] \in Seq(0..MaxScore) /\ Len(C[id]) = L[id].num
      /\ \A i, j \in 1..L[id].num : i <= j => C[id][i] >= C[id][j]
  <2>1. C[id] = Contents(m, L[id], Q[id])
    BY <1>1 DEF ContentsAre
  <2>2. C[id] \in Seq(0..MaxScore) /\ Len(C[id]) = L[id].num
    BY <1>2, <2>1, ContentsType
  <2>3. \A i \in 1..L[id].num : C[id][i] = m.node[Q[id][i]].score
    BY <2>1 DEF Contents
  <2>4. ASSUME NEW i \in 1..L[id].num, NEW j \in 1..L[id].num, i <= j PROVE C[id][i] >= C[id][j]
    BY <1>2, <2>3, <2>4, Descending
  <2> QED
    BY <2>2, <2>4
<1> QED
  BY <1>2, <1>3, <1>4, <1>5, <1>6

\* free_node of what is in the hand,
LEMMA HandFreed ==
  ASSUME NEW m, NEW L, NEW C, NEW a, NEW b, NEW h \in Nodes, Held(m, L, C, a, b, h)
  PROVE  /\ Held(Freed(m, h), L, C, a, b, NULL)
         /\ \A x \in Nodes : x # h => Freed(m, h).node[x] = m.node[x]
<1>1. PICK Q, at : Holds(m, L, Q, at) /\ Hands(at, a, b, h) /\ ContentsAre(m, L, Q, C)
  BY DEF Held
<1>2. at \in [Nodes -> Spots] /\ at[h] = "hand"
  BY <1>1 DEF Holds, Hands
<1>3. /\ Holds(Freed(m, h), L, Q, Moved(at, h, "free"))
      /\ \A x \in Nodes : x # h => Freed(m, h).node[x] = m.node[x]
  <2>1. at[h] \notin ListIds
    BY <1>2 DEF ListIds
  <2> QED
    BY <1>1, <2>1, HoldsFreed
<1>4. Hands(Moved(at, h, "free"), a, b, NULL)
  BY <1>1, <1>2, RoomIs DEF Hands, Moved
<1>5. ContentsAre(Freed(m, h), L, Q, C)
  <2>1. \A x \in Nodes : at[x] \in ListIds => Freed(m, h).node[x].score = m.node[x].score
    BY <1>2, <1>3 DEF ListIds
  <2> QED
    BY <1>1, <2>1, ContentsSame
<1> QED
  BY <1>3, <1>4, <1>5 DEF Held

\* of the expanded hypothesis,
LEMMA NowFreed ==
  ASSUME NEW m, NEW L, NEW C, NEW a \in Nodes, NEW b, NEW h, Held(m, L, C, a, b, h)
  PROVE  Held(Freed(m, a), L, C, NULL, b, h)
<1>1. PICK Q, at : Holds(m, L, Q, at) /\ Hands(at, a, b, h) /\ ContentsAre(m, L, Q, C)
  BY DEF Held
<1>2. at \in [Nodes -> Spots] /\ at[a] = "now"
  BY <1>1 DEF Holds, Hands
<1>3. /\ Holds(Freed(m, a), L, Q, Moved(at, a, "free"))
      /\ \A x \in Nodes : x # a => Freed(m, a).node[x] = m.node[x]
  <2>1. at[a] \notin ListIds
    BY <1>2 DEF ListIds
  <2> QED
    BY <1>1, <2>1, HoldsFreed
<1>4. Hands(Moved(at, a, "free"), NULL, b, h)
  BY <1>1, <1>2, RoomIs DEF Hands, Moved
<1>5. ContentsAre(Freed(m, a), L, Q, C)
  <2>1. \A x \in Nodes : at[x] \in ListIds => Freed(m, a).node[x].score = m.node[x].score
    BY <1>2, <1>3 DEF ListIds
  <2> QED
    BY <1>1, <2>1, ContentsSame
<1> QED
  BY <1>3, <1>4, <1>5 DEF Held

\* and of the one with a pause.
LEMMA NoiseFreed ==
  ASSUME NEW m, NEW L, NEW C, NEW a, NEW b \in Nodes, NEW h, Held(m, L, C, a, b, h)
  PROVE  Held(Freed(m, b), L, C, a, NULL, h)
<1>1. PICK Q, at : Holds(m, L, Q, at) /\ Hands(at, a, b, h) /\ ContentsAre(m, L, Q, C)
  BY DEF Held
<1>2. at \in [Nodes -> Spots] /\ at[b] = "noise"
  BY <1>1 DEF Holds, Hands
<1>3. /\ Holds(Freed(m, b), L, Q, Moved(at, b, "free"))
      /\ \A x \in Nodes : x # b => Freed(m, b).node[x] = m.node[x]
  <2>1. at[b] \notin ListIds
    BY <1>2 DEF ListIds
  <2> QED
    BY <1>1, <2>1, HoldsFreed
<1>4. Hands(Moved(at, b, "free"), a, NULL, h)
  BY <1>1, <1>2, RoomIs DEF Hands, Moved
<1>5. ContentsAre(Freed(m, b), L, Q, C)
  <2>1. \A x \in Nodes : at[x] \in ListIds => Freed(m, b).node[x].score = m.node[x].score
    BY <1>2, <1>3 DEF ListIds
  <2> QED
    BY <1>1, <2>1, ContentsSame
<1> QED
  BY <1>3, <1>4, <1>5 DEF Held

\* A node taken from the stocker.
LEMMA HandNew ==
  ASSUME NEW m, NEW L, NEW C, NEW a, NEW b, Held(m, L, C, a, b, NULL), m.free # {},
         NEW score \in 0..MaxScore, NEW seqnum \in 0..MaxSeqNum, NEW endflag \in BOOLEAN
  PROVE  /\ NewNode(m) \in Nodes /\ NewNode(m) # a /\ NewNode(m) # b
         /\ Held(With(m, score, seqnum, endflag), L, C, a, b, NewNode(m))
         /\ With(m, score, seqnum, endflag).node[NewNode(m)].score = score
         /\ With(m, score, seqnum, endflag).node[NewNode(m)].seqnum = seqnum
         /\ \A x \in Nodes : x # NewNode(m) => With(m, score, seqnum, endflag).node[x] = m.node[x]
<1>1. PICK Q, at : Holds(m, L, Q, at) /\ Hands(at, a, b, NULL) /\ ContentsAre(m, L, Q, C)
  BY DEF Held
<1> DEFINE n == NewNode(m)
           w == With(m, score, seqnum, endflag)
<1>2. /\ n \in Nodes /\ at[n] = "free"
      /\ Holds(w, L, Q, Moved(at, n, "hand"))
      /\ w.node[n].score = score /\ w.node[n].seqnum = seqnum
      /\ \A x \in Nodes : x # n => w.node[x] = m.node[x]
  <2>1. "hand" \in OffLists
    BY DEF OffLists
  <2> QED
    BY <1>1, <2>1, HoldsWith
<1> HIDE DEF n, w
<1>3. at \in [Nodes -> Spots]
  BY <1>1 DEF Holds
<1>4. Hands(Moved(at, n, "hand"), a, b, n) /\ n # a /\ n # b
  BY <1>1, <1>2, <1>3, RoomIs DEF Hands, Moved
<1>5. ContentsAre(w, L, Q, C)
  <2>1. \A x \in Nodes : at[x] \in ListIds => w.node[x].score = m.node[x].score
    BY <1>2 DEF ListIds
  <2> QED
    BY <1>1, <2>1, ContentsSame
<1>6. Held(w, L, C, a, b, n)
  BY <1>2, <1>4, <1>5 DEF Held
<1> QED
  BY <1>2, <1>4, <1>6 DEF n, w

\* What was popped becomes the expanded hypothesis.
LEMMA HandToNow ==
  ASSUME NEW m, NEW L, NEW C, NEW b, NEW h \in Nodes, Held(m, L, C, NULL, b, h)
  PROVE  Held(m, L, C, h, b, NULL)
<1>1. PICK Q, at : Holds(m, L, Q, at) /\ Hands(at, NULL, b, h) /\ ContentsAre(m, L, Q, C)
  BY DEF Held
<1>2. at \in [Nodes -> Spots] /\ at[h] = "hand"
  BY <1>1 DEF Holds, Hands
<1>3. Holds(m, L, Q, Moved(at, h, "now"))
  <2>1. at[h] \in OffLists /\ "now" \in OffLists
    BY <1>2 DEF OffLists
  <2> QED
    BY <1>1, <2>1, HoldsMoved
<1>4. Hands(Moved(at, h, "now"), h, b, NULL)
  BY <1>1, <1>2, RoomIs DEF Hands, Moved
<1> QED
  BY <1>1, <1>3, <1>4 DEF Held

\* A new node becomes the hypothesis with a pause.
LEMMA HandToNoise ==
  ASSUME NEW m, NEW L, NEW C, NEW a, NEW h \in Nodes, Held(m, L, C, a, NULL, h)
  PROVE  Held(m, L, C, a, h, NULL)
<1>1. PICK Q, at : Holds(m, L, Q, at) /\ Hands(at, a, NULL, h) /\ ContentsAre(m, L, Q, C)
  BY DEF Held
<1>2. at \in [Nodes -> Spots] /\ at[h] = "hand"
  BY <1>1 DEF Holds, Hands
<1>3. Holds(m, L, Q, Moved(at, h, "noise"))
  <2>1. at[h] \in OffLists /\ "noise" \in OffLists
    BY <1>2 DEF OffLists
  <2> QED
    BY <1>1, <2>1, HoldsMoved
<1>4. Hands(Moved(at, h, "noise"), a, h, NULL)
  BY <1>1, <1>2, RoomIs DEF Hands, Moved
<1> QED
  BY <1>1, <1>3, <1>4 DEF Held

\* Taking the top of a list takes the first score.
LEMMA ContentsTop ==
  ASSUME NEW m, NEW L, NEW Q, NEW at, NEW C, Holds(m, L, Q, at), ContentsAre(m, L, Q, C),
         NEW id \in ListIds, 0 < L[id].num
  PROVE  /\ ContentsAre(TopOff(m, L[id]).mem, Change(L, id, TopOff(m, L[id]).list),
                        Change(Q, id, Rest(L[id], Q[id])), Change(C, id, Tail(C[id])))
         /\ C[id] # << >> /\ m.node[L[id].start].score = C[id][1]
<1> DEFINE s == L[id]
           q == Q[id]
           c == C[id]
           t == TopOff(m, s)
           tm == t.mem
           tl == t.list
<1>1. m \in Memory /\ IsList(m, s, q) /\ 0 < s.num /\ s.num \in Nat /\ q \in [1..s.num -> Nodes]
  BY DEF Holds, IsList, ListRecord
<1>2. s.start = q[1] /\ tl.num = s.num - 1 /\ \A x \in Nodes : SameHypothesis(tm.node[x], m.node[x])
  BY <1>1, TopOffIs
<1>3. c = Contents(m, s, q)
  BY DEF ContentsAre
<1>4. c \in Seq(0..MaxScore) /\ Len(c) = s.num
  BY <1>1, <1>3, ContentsType
<1>5. \A i \in 1..s.num : c[i] = m.node[q[i]].score
  BY <1>3 DEF Contents
<1>6. c # << >> /\ m.node[s.start].score = c[1]
  BY <1>1, <1>2, <1>4, <1>5
<1> HIDE DEF c, tm, tl
<1>7. Tail(c) = Contents(tm, tl, Rest(s, q))
  <2>1. Tail(c) = [i \in 1..s.num - 1 |-> c[i + 1]]
    <3>1. /\ Tail(c) \in Seq(0..MaxScore) /\ Len(Tail(c)) = s.num - 1
          /\ \A i \in 1..Len(Tail(c)) : Tail(c)[i] = c[i + 1]
      BY <1>4, <1>6, HeadTailProperties
    <3> DEFINE b == Tail(c)
    <3>2. b \in Seq(0..MaxScore) /\ Len(b) = s.num - 1 /\ \A i \in 1..s.num - 1 : b[i] = c[i + 1]
      BY <3>1
    <3> HIDE DEF b
    <3>3. b = [i \in 1..s.num - 1 |-> b[i]]
      BY <3>2
    <3>4. b = [i \in 1..s.num - 1 |-> c[i + 1]]
      BY <3>2, <3>3
    <3> QED
      BY <3>4 DEF b
  <2>2. ASSUME NEW i \in 1..s.num - 1 PROVE c[i + 1] = tm.node[Rest(s, q)[i]].score
    <3>1. i + 1 \in 1..s.num /\ Rest(s, q)[i] = q[i + 1] /\ q[i + 1] \in Nodes
      BY <1>1 DEF Rest
    <3> DEFINE j == i + 1
    <3>2. c[j] = m.node[q[j]].score /\ SameHypothesis(tm.node[q[j]], m.node[q[j]])
      BY <1>2, <1>5, <3>1
    <3> QED
      BY <3>1, <3>2 DEF SameHypothesis
  <2> QED
    BY <1>2, <2>1, <2>2 DEF Contents
<1>8. ASSUME NEW i \in ListIds, i # id PROVE C[i] = Contents(tm, L[i], Q[i])
  <2>1. C[i] = Contents(m, L[i], Q[i])
    BY DEF ContentsAre
  <2>2. Q[i] \in [1..L[i].num -> Nodes]
    BY DEF Holds, IsList
  <2>3. \A k \in 1..L[i].num : tm.node[Q[i][k]].score = m.node[Q[i][k]].score
    BY <1>2, <2>2 DEF SameHypothesis
  <2> QED
    BY <2>1, <2>3 DEF Contents
<1>9. ContentsAre(tm, Change(L, id, tl), Change(Q, id, Rest(s, q)), Change(C, id, Tail(c)))
  BY <1>7, <1>8 DEF ContentsAre, Change
<1> QED
  BY <1>6, <1>9 DEF c, tm, tl, t, s, q

\* The top of a list in the hand.
LEMMA HandTop ==
  ASSUME NEW m, NEW L, NEW C, NEW a, NEW b, Held(m, L, C, a, b, NULL), NEW id \in ListIds, 0 < L[id].num
  PROVE  /\ L[id].start \in Nodes
         /\ Held(TopOff(m, L[id]).mem, Change(L, id, TopOff(m, L[id]).list), Change(C, id, Tail(C[id])),
                 a, b, L[id].start)
         /\ C[id] # << >> /\ m.node[L[id].start].score = C[id][1]
         /\ TopOff(m, L[id]).list.num = L[id].num - 1
         /\ \A x \in Nodes : SameHypothesis(TopOff(m, L[id]).mem.node[x], m.node[x])
<1>1. PICK Q, at : Holds(m, L, Q, at) /\ Hands(at, a, b, NULL) /\ ContentsAre(m, L, Q, C)
  BY DEF Held
<1> DEFINE n == L[id].start
<1>2. /\ n \in Nodes /\ at[n] = id
      /\ Holds(TopOff(m, L[id]).mem, Change(L, id, TopOff(m, L[id]).list),
               Change(Q, id, Rest(L[id], Q[id])), Moved(at, n, "hand"))
      /\ TopOff(m, L[id]).list.num = L[id].num - 1
      /\ \A x \in Nodes : SameHypothesis(TopOff(m, L[id]).mem.node[x], m.node[x])
  BY <1>1, HoldsTop
<1> HIDE DEF n
<1>3. at \in [Nodes -> Spots]
  BY <1>1 DEF Holds
<1>4. id # "now" /\ id # "noise"
  BY DEF ListIds
<1>5. Hands(Moved(at, n, "hand"), a, b, n)
  BY <1>1, <1>2, <1>3, <1>4, RoomIs DEF Hands, Moved
<1>6. /\ ContentsAre(TopOff(m, L[id]).mem, Change(L, id, TopOff(m, L[id]).list),
                     Change(Q, id, Rest(L[id], Q[id])), Change(C, id, Tail(C[id])))
      /\ C[id] # << >> /\ m.node[n].score = C[id][1]
  BY <1>1, ContentsTop DEF n
<1>7. Held(TopOff(m, L[id]).mem, Change(L, id, TopOff(m, L[id]).list), Change(C, id, Tail(C[id])), a, b, n)
  BY <1>2, <1>5, <1>6 DEF Held
<1> QED
  BY <1>2, <1>6, <1>7 DEF n

\* What putting a score s into a list of scores c gives, as HypothesisStack says.
KeptOf(c, s, size, k) ==
  \/ Len(c) < size /\ k = StackQueue!Inserted(c, s)
  \/ Len(c) = size /\ StackQueue!Worst(c) < s /\ k = StackQueue!Inserted(StackQueue!Front(c), s)
  \/ Len(c) = size /\ StackQueue!Worst(c) >= s /\ k = c

\* The scores of list s once n is in place k + 1.
ScoresWith(m, s, q, k, n) == [i \in 1..s.num + 1 |-> m.node[Ins(s, q, k, n)[i]].score]

\* The scores along a list descend.
Sorted(m, s, q) == \A i, j \in 1..s.num : i <= j => m.node[q[i]].score >= m.node[q[j]].score

\* Any place that keeps the order gives the same scores.
LEMMA InsertedIs ==
  ASSUME NEW m \in Memory, NEW s, NEW q, s.num \in Nat, q \in [1..s.num -> Nodes], NEW n \in Nodes,
         Sorted(m, s, q), NEW k \in 0..s.num, Splits(m, s, q, n, k)
  PROVE  ScoresWith(m, s, q, k, n) = StackQueue!Inserted(Contents(m, s, q), m.node[n].score)
<1> DEFINE sc(x) == m.node[x].score
           z == m.node[n].score
           c == Contents(m, s, q)
           N == s.num
           g == Ins(s, q, k, n)
<1>1. \A x \in Nodes : sc(x) \in Int
  BY DEF Memory, Hypothesis
<1>2. z \in Int /\ N \in Nat
  BY <1>1
<1>3. c = [i \in 1..N |-> sc(q[i])] /\ \A i \in 1..N : c[i] = sc(q[i]) /\ c[i] \in Int
  BY <1>1 DEF Contents
<1>4. Len(c) = N
  BY <1>2, <1>3
<1>6. \A i \in 1..k : i \in 1..N /\ c[i] >= z
  <2>1. \A i \in 1..k : i \in 1..N
    BY <1>2
  <2>2. \A i \in 1..k : sc(q[i]) >= z
    BY DEF Splits
  <2> QED
    BY <1>3, <2>1, <2>2
<1>7. \A i \in k + 1..N : i \in 1..N /\ c[i] <= z
  <2>1. \A i \in k + 1..N : i \in 1..N
    BY <1>2
  <2>2. \A i \in k + 1..N : sc(q[i]) <= z
    BY DEF Splits
  <2> QED
    BY <1>3, <2>1, <2>2
<1>8. /\ \A i \in 1..k : sc(g[i]) = c[i]
      /\ sc(g[k + 1]) = z
      /\ \A i \in k + 2..N + 1 : sc(g[i]) = c[i - 1]
  <2>1. /\ \A i \in 1..k : i \in 1..N /\ g[i] = q[i]
        /\ g[k + 1] = n
        /\ \A i \in k + 2..N + 1 : i - 1 \in 1..N /\ g[i] = q[i - 1]
    BY InsFacts
  <2>2. \A i \in k + 2..N + 1 : c[i - 1] = sc(q[i - 1])
    BY <1>3, <2>1
  <2> HIDE DEF g
  <2> QED
    BY <1>3, <2>1, <2>2
<1>8a. k \in 0..N
  OBVIOUS
<1> HIDE DEF z, c, N, g, sc
<1>9. ASSUME NEW i \in 1..N + 1
      PROVE  sc(g[i]) = IF i <= N /\ c[i] > z THEN c[i] ELSE IF 1 < i /\ c[i - 1] <= z THEN c[i - 1] ELSE z
  <2>1. CASE i \in 1..k
    <3>1. i \in 1..N /\ c[i] >= z /\ c[i] \in Int /\ sc(g[i]) = c[i]
      BY <1>3, <1>6, <1>8, <2>1
    <3>2. 1 < i => i - 1 \in 1..N /\ i - 1 \in 1..k
      BY <1>2, <2>1, <3>1
    <3>3. 1 < i => c[i - 1] >= z /\ c[i - 1] \in Int
      <4> DEFINE j == i - 1
      <4>1. 1 < i => j \in 1..N /\ j \in 1..k
        BY <3>2
      <4> HIDE DEF j
      <4>2. 1 < i => c[j] >= z /\ c[j] \in Int
        BY <1>3, <1>6, <4>1
      <4> QED
        BY <4>2 DEF j
    <3> QED
      BY <1>2, <3>1, <3>3
  <2>2. CASE i = k + 1
    <3>1. i <= N => c[i] <= z /\ c[i] \in Int
      <4>1. i <= N => i \in k + 1..N /\ i \in 1..N
        BY <1>2, <1>8a, <2>2
      <4>2. i \in k + 1..N => c[i] <= z
        BY <1>7
      <4>3. i \in 1..N => c[i] \in Int
        BY <1>3
      <4> QED
        BY <4>1, <4>2, <4>3
    <3>2. 1 < i => c[i - 1] >= z /\ c[i - 1] \in Int
      <4> DEFINE j == i - 1
      <4>1. 1 < i => j \in 1..N /\ j \in 1..k
        BY <1>2, <1>8a, <2>2
      <4> HIDE DEF j
      <4>2. 1 < i => c[j] >= z /\ c[j] \in Int
        BY <1>3, <1>6, <4>1
      <4> QED
        BY <4>2 DEF j
    <3>3. sc(g[i]) = z
      BY <1>8, <2>2
    <3> QED
      BY <1>2, <3>1, <3>2, <3>3
  <2>3. CASE i \in k + 2..N + 1
    <3>1. i <= N => c[i] <= z /\ c[i] \in Int
      <4>1. i <= N => i \in k + 1..N /\ i \in 1..N
        BY <1>2, <1>8a, <2>3
      <4>2. i \in k + 1..N => c[i] <= z
        BY <1>7
      <4>3. i \in 1..N => c[i] \in Int
        BY <1>3
      <4> QED
        BY <4>1, <4>2, <4>3
    <3> DEFINE j == i - 1
    <3>2. j \in k + 1..N /\ 1 < i
      BY <1>2, <2>3
    <3>3. sc(g[i]) = c[j]
      BY <1>8, <2>3
    <3> HIDE DEF j
    <3>4. c[j] <= z
      BY <1>7, <3>2
    <3> QED
      BY <1>2, <3>1, <3>2, <3>3, <3>4 DEF j
  <2> QED
    BY <1>2, <2>1, <2>2, <2>3
<1>10. StackQueue!Inserted(c, z)
         = [i \in 1..N + 1 |-> IF i <= N /\ c[i] > z THEN c[i]
                               ELSE IF 1 < i /\ c[i - 1] <= z THEN c[i - 1] ELSE z]
  BY <1>4 DEF StackQueue!Inserted
<1>11. [i \in 1..N + 1 |-> sc(g[i])] = StackQueue!Inserted(c, z)
  BY <1>9, <1>10
<1> QED
  BY <1>11 DEF z, c, N, g, sc, ScoresWith

\* Putting a node into a list changes the scores as KeptOf says.
LEMMA ContentsPut ==
  ASSUME NEW m, NEW L, NEW Q, NEW at, NEW C, Holds(m, L, Q, at), ContentsAre(m, L, Q, C),
         NEW id \in ListIds, NEW n \in Nodes, at[n] = "hand", NEW size \in Nat, size # 0,
         NEW r, NEW d, PutDown(m, L, Q, at, id, n, size, r, d)
  PROVE  \E k : /\ KeptOf(C[id], m.node[n].score, size, k)
                /\ ContentsAre(Put(m, L[id], n, size).mem, Change(L, id, Put(m, L[id], n, size).list),
                               Change(Q, id, r), Change(C, id, k))
<1> DEFINE s == L[id]
           q == Q[id]
           c == C[id]
           p == Put(m, s, n, size)
           pm == p.mem
           pl == p.list
           z == m.node[n].score
           new == [x \in Nodes |-> IF x = d THEN "free" ELSE IF x = n THEN id ELSE at[x]]
           K == Change(L, id, pl)
           P == Change(Q, id, r)
<1>1. m \in Memory /\ IsList(m, s, q) /\ s.num \in Nat /\ q \in [1..s.num -> Nodes]
  BY DEF Holds, IsList, ListRecord
<1>2. /\ Holds(pm, K, P, new)
      /\ Pushes(m, s, q, n, size, p, r)
      /\ \A x \in Nodes : x # d => SameHypothesis(pm.node[x], m.node[x])
      /\ \A x \in Nodes : at[x] # id /\ x # n => pm.node[x] = m.node[x]
  BY DEF PutDown
<1>3. \A i \in ListIds : C[i] = Contents(m, L[i], Q[i])
  BY DEF ContentsAre
<1>4. c \in Seq(0..MaxScore) /\ Len(c) = s.num /\ \A i \in 1..s.num : c[i] = m.node[q[i]].score
  <2>1. c = Contents(m, s, q)
    BY <1>3
  <2> HIDE DEF c
  <2>2. c \in Seq(0..MaxScore) /\ Len(c) = s.num
    BY <1>1, <2>1, ContentsType
  <2>3. \A i \in 1..s.num : c[i] = m.node[q[i]].score
    BY <2>1 DEF Contents
  <2> QED
    BY <2>2, <2>3
<1>5. K[id] = pl /\ P[id] = r
  BY DEF Change
<1>6. r \in [1..pl.num -> Nodes] /\ \A i \in 1..pl.num : r[i] # d
  <2> HIDE DEF K, P, new, pl, pm
  <2>1. IsList(pm, pl, r)
    BY <1>2, <1>5 DEF Holds
  <2>2. r \in [1..pl.num -> Nodes]
    BY <2>1 DEF IsList
  <2>3. \A x \in Nodes : x \in In(pl, r) <=> new[x] = id
    BY <1>2, <1>5 DEF Holds
  <2>4. d \in Nodes => new[d] # id
    BY DEF new, ListIds
  <2>5. \A i \in 1..pl.num : r[i] \in In(pl, r)
    BY DEF In
  <2> QED
    BY <2>2, <2>3, <2>4, <2>5
<1>7. Contents(pm, pl, r) = [i \in 1..pl.num |-> m.node[r[i]].score]
  <2> HIDE DEF pl, pm
  <2>1. \A i \in 1..pl.num : pm.node[r[i]].score = m.node[r[i]].score
    BY <1>2, <1>6 DEF SameHypothesis
  <2> QED
    BY <2>1 DEF Contents
<1>8. ASSUME NEW i \in ListIds, i # id PROVE C[i] = Contents(pm, L[i], Q[i])
  <2> HIDE DEF pm
  <2>1. Q[i] \in [1..L[i].num -> Nodes]
    BY DEF Holds, IsList
  <2>2. \A k \in 1..L[i].num : Q[i][k] \in In(L[i], Q[i])
    BY DEF In
  <2>3. \A k \in 1..L[i].num : at[Q[i][k]] = i
    BY <2>2, Apart
  <2>4. i # "hand"
    BY DEF ListIds
  <2>5. \A k \in 1..L[i].num : pm.node[Q[i][k]] = m.node[Q[i][k]]
    BY <1>2, <1>8, <2>1, <2>3, <2>4
  <2> QED
    BY <1>3, <2>5 DEF Contents
<1>9. Sorted(m, s, q)
  BY <1>1 DEF IsList, Sorted
<1> HIDE DEF pl, pm
<1>10. KeptOf(c, z, size, Contents(pm, pl, r))
  <2>1. CASE s.num < size /\ pl.num = s.num + 1
             /\ \E k \in 0..s.num : Splits(m, s, q, n, k) /\ r = Ins(s, q, k, n)
    <3>1. PICK k \in 0..s.num : Splits(m, s, q, n, k) /\ r = Ins(s, q, k, n)
      BY <2>1
    <3>2. ScoresWith(m, s, q, k, n) = StackQueue!Inserted(Contents(m, s, q), z)
      BY <1>1, <1>9, <3>1, InsertedIs
    <3>3. c = Contents(m, s, q)
      BY <1>3
    <3> QED
      BY <1>4, <1>7, <2>1, <3>1, <3>2, <3>3 DEF KeptOf, ScoresWith
  <2>2. CASE s.num = size /\ pl.num = s.num /\ m.node[q[s.num]].score < z
             /\ \E k \in 0..s.num - 1 : Splits(m, Shorter(s), Upper(s, q), n, k) /\ r = Ins(Shorter(s), Upper(s, q), k, n)
    <3> DEFINE t == Shorter(s)
               u == Upper(s, q)
    <3>1. PICK k \in 0..s.num - 1 : Splits(m, t, u, n, k) /\ r = Ins(t, u, k, n)
      BY <2>2
    <3>2. s.num \in 1..s.num
      BY <1>1, <2>2
    <3>3. t.num = s.num - 1
      <4>1. s \in ListRecord
        BY <1>1 DEF IsList
      <4> QED
        BY <4>1 DEF Shorter, ListRecord
    <3>4. t.num \in Nat /\ u \in [1..t.num -> Nodes] /\ \A i \in 1..t.num : i \in 1..s.num /\ u[i] = q[i]
      BY <1>1, <3>2, <3>3 DEF Upper
    <3>5. StackQueue!Front(c) = Contents(m, t, u)
      <4>1. StackQueue!Front(c) = [i \in 1..s.num - 1 |-> c[i]]
        BY <1>1, <1>4, <3>2 DEF StackQueue!Front
      <4>2. \A i \in 1..s.num - 1 : c[i] = m.node[u[i]].score
        BY <1>1, <1>4, <3>3, <3>4
      <4> HIDE DEF t, u
      <4> QED
        BY <3>3, <4>1, <4>2 DEF Contents
    <3>6. Sorted(m, t, u)
      BY <1>9, <3>4 DEF Sorted
    <3>7. StackQueue!Worst(c) < z
      BY <1>4, <2>2, <3>2 DEF StackQueue!Worst
    <3> HIDE DEF t, u, z
    <3>8. ScoresWith(m, t, u, k, n) = StackQueue!Inserted(Contents(m, t, u), m.node[n].score)
      BY <1>1, <3>1, <3>3, <3>4, <3>6, InsertedIs
    <3>9. Contents(pm, pl, r) = StackQueue!Inserted(StackQueue!Front(c), z)
      <4>1. pl.num = t.num + 1
        BY <1>1, <2>2, <3>3
      <4> QED
        BY <1>7, <3>1, <3>5, <3>8, <4>1 DEF z, ScoresWith
    <3> QED
      BY <1>4, <2>2, <3>7, <3>9 DEF KeptOf
  <2>3. CASE s.num = size /\ pl = s /\ r = q /\ m.node[q[s.num]].score >= z
    <3>1. Contents(pm, pl, r) = c
      <4>1. pl = s /\ r = q
        BY <2>3
      <4>2. Contents(pm, pl, r) = [i \in 1..s.num |-> m.node[q[i]].score]
        BY <1>7, <4>1
      <4>3. c = Contents(m, s, q)
        BY <1>3
      <4> HIDE DEF s, q, c
      <4> QED
        BY <4>2, <4>3 DEF Contents
    <3>2. s.num \in 1..s.num
      BY <1>1, <2>3
    <3>3. StackQueue!Worst(c) >= z
      BY <1>4, <2>3, <3>2 DEF StackQueue!Worst
    <3> QED
      BY <1>4, <2>3, <3>1, <3>3 DEF KeptOf
  <2> QED
    BY <1>2, <2>1, <2>2, <2>3 DEF Pushes, pl
<1>11. ContentsAre(pm, K, P, Change(C, id, Contents(pm, pl, r)))
  BY <1>8 DEF ContentsAre, Change
<1> QED
  BY <1>10, <1>11 DEF pl, pm

\* The node in the hand put into a list.
LEMMA HandPut ==
  ASSUME NEW m, NEW L, NEW C, NEW a, NEW b, NEW h \in Nodes, Held(m, L, C, a, b, h), NEW id \in ListIds,
         NEW size \in Nat, L[id].num <= size, size # 0, L[id].num = size => 1 < size
  PROVE  /\ \E k : /\ KeptOf(C[id], m.node[h].score, size, k)
                   /\ Held(Put(m, L[id], h, size).mem, Change(L, id, Put(m, L[id], h, size).list),
                           Change(C, id, k), a, b, NULL)
         /\ Put(m, L[id], h, size).list.num \in Nat
         /\ Put(m, L[id], h, size).list.num <= size
         /\ Put(m, L[id], h, size).list.num <= L[id].num + 1
         /\ a \in Nodes => Put(m, L[id], h, size).mem.node[a] = m.node[a]
<1>1. PICK Q, at : Holds(m, L, Q, at) /\ Hands(at, a, b, h) /\ ContentsAre(m, L, Q, C)
  BY DEF Held
<1>2. at \in [Nodes -> Spots] /\ at[h] = "hand" /\ L[id].num \in Nat
  BY <1>1, Apart DEF Holds, Hands
<1> DEFINE p == Put(m, L[id], h, size)
<1>3. PICK r, d : PutDown(m, L, Q, at, id, h, size, r, d)
  BY <1>1, <1>2, HoldsPut
<1>3a. /\ Holds(p.mem, Change(L, id, p.list), Change(Q, id, r),
                [x \in Nodes |-> IF x = d THEN "free" ELSE IF x = h THEN id ELSE at[x]])
       /\ d \in In(L[id], Q[id]) \cup {h, NULL}
       /\ Pushes(m, L[id], Q[id], h, size, p, r)
       /\ \A x \in Nodes : at[x] # id /\ x # h => p.mem.node[x] = m.node[x]
  BY <1>3 DEF PutDown
<1> HIDE DEF p
<1> DEFINE new == [x \in Nodes |-> IF x = d THEN "free" ELSE IF x = h THEN id ELSE at[x]]
<1>4. id # "now" /\ id # "noise" /\ id # "hand"
  BY DEF ListIds
<1>5. d \in Nodes => at[d] \in {id, "hand"}
  <2>1. \A x \in In(L[id], Q[id]) : at[x] = id
    BY <1>1, Apart
  <2> QED
    BY <1>2, <1>3a, <2>1, RoomIs
<1>6. Hands(new, a, b, NULL)
  <2>1. SUFFICES ASSUME NEW x \in Nodes
                 PROVE  (new[x] = "now" <=> x = a) /\ (new[x] = "noise" <=> x = b) /\ new[x] # "hand"
    BY RoomIs DEF Hands
  <2>2. (at[x] = "now" <=> x = a) /\ (at[x] = "noise" <=> x = b) /\ (at[x] = "hand" <=> x = h)
    BY <1>1 DEF Hands
  <2>3. CASE x = d
    BY <1>4, <1>5, <2>2, <2>3
  <2>4. CASE x # d /\ x = h
    BY <1>4, <2>2, <2>4
  <2>5. CASE x # d /\ x # h
    BY <2>2, <2>5
  <2> QED
    BY <2>3, <2>4, <2>5
<1>7. \E k : KeptOf(C[id], m.node[h].score, size, k) /\ Held(p.mem, Change(L, id, p.list), Change(C, id, k), a, b, NULL)
  <2>1. PICK k : /\ KeptOf(C[id], m.node[h].score, size, k)
                 /\ ContentsAre(p.mem, Change(L, id, p.list), Change(Q, id, r), Change(C, id, k))
    BY <1>1, <1>2, <1>3, ContentsPut DEF p
  <2>2. Held(p.mem, Change(L, id, p.list), Change(C, id, k), a, b, NULL)
    BY <1>3a, <1>6, <2>1 DEF Held
  <2> QED
    BY <2>1, <2>2
<1>8. p.list.num \in Nat /\ p.list.num <= size /\ p.list.num <= L[id].num + 1
  <2>1. (p.list.num = L[id].num + 1 /\ L[id].num < size) \/ p.list.num = L[id].num
    BY <1>3a DEF Pushes
  <2> QED
    BY <1>2, <2>1
<1>9. a \in Nodes => p.mem.node[a] = m.node[a]
  <2>1. SUFFICES ASSUME a \in Nodes PROVE at[a] # id /\ a # h
    BY <1>3a
  <2> QED
    BY <1>1, <1>4, <2>1 DEF Hands
<1> QED
  BY <1>7, <1>8, <1>9 DEF p
-----------------------------------------------------------------------------
(* The search.                                                             *)

\* The three lists, or what belongs to each, by name.
ListsOf(st, lo, re) ==
  [id \in ListIds |-> IF id = "stack" THEN st ELSE IF id = "local" THEN lo ELSE re]

\* Reading and changing one of the three.
LEMMA OfLists ==
  ASSUME NEW st, NEW lo, NEW re, NEW s
  PROVE  /\ "stack" \in ListIds /\ ListsOf(st, lo, re)["stack"] = st
         /\ "local" \in ListIds /\ ListsOf(st, lo, re)["local"] = lo
         /\ "result" \in ListIds /\ ListsOf(st, lo, re)["result"] = re
         /\ Change(ListsOf(st, lo, re), "stack", s) = ListsOf(s, lo, re)
         /\ Change(ListsOf(st, lo, re), "local", s) = ListsOf(st, s, re)
         /\ Change(ListsOf(st, lo, re), "result", s) = ListsOf(st, lo, s)
<1>1. /\ "stack" \in ListIds /\ ListsOf(st, lo, re)["stack"] = st
      /\ "local" \in ListIds /\ ListsOf(st, lo, re)["local"] = lo
      /\ "result" \in ListIds /\ ListsOf(st, lo, re)["result"] = re
  BY DEF ListIds, ListsOf
<1>2. Change(ListsOf(st, lo, re), "stack", s) = ListsOf(s, lo, re)
  BY DEF ListIds, ListsOf, Change
<1>3. Change(ListsOf(st, lo, re), "local", s) = ListsOf(st, s, re)
  BY DEF ListIds, ListsOf, Change
<1>4. Change(ListsOf(st, lo, re), "result", s) = ListsOf(st, lo, s)
  BY DEF ListIds, ListsOf, Change
<1> QED
  BY <1>1, <1>2, <1>3, <1>4

\* The same for each list.
LEMMA StackTop ==
  ASSUME NEW m, NEW st, NEW lo, NEW re, NEW u, NEW v, NEW w, NEW a, NEW b,
         Held(m, ListsOf(st, lo, re), ListsOf(u, v, w), a, b, NULL), 0 < st.num
  PROVE  /\ st.start \in Nodes
         /\ Held(TopOff(m, st).mem, ListsOf(TopOff(m, st).list, lo, re), ListsOf(Tail(u), v, w),
                 a, b, st.start)
         /\ u # << >> /\ m.node[st.start].score = u[1]
         /\ TopOff(m, st).list.num = st.num - 1
         /\ \A x \in Nodes : SameHypothesis(TopOff(m, st).mem.node[x], m.node[x])
<1> DEFINE L == ListsOf(st, lo, re)
           C == ListsOf(u, v, w)
           s == TopOff(m, st).list
           t == Tail(u)
<1>1. /\ "stack" \in ListIds /\ L["stack"] = st /\ Change(L, "stack", s) = ListsOf(s, lo, re)
      /\ C["stack"] = u /\ Change(C, "stack", t) = ListsOf(t, v, w)
  BY OfLists
<1>2. Held(m, L, C, a, b, NULL)
  OBVIOUS
<1> HIDE DEF L, C, t
<1>3. /\ L["stack"].start \in Nodes
      /\ Held(TopOff(m, L["stack"]).mem, Change(L, "stack", TopOff(m, L["stack"]).list),
              Change(C, "stack", Tail(C["stack"])), a, b, L["stack"].start)
      /\ C["stack"] # << >> /\ m.node[L["stack"].start].score = C["stack"][1]
      /\ TopOff(m, L["stack"]).list.num = L["stack"].num - 1
      /\ \A x \in Nodes : SameHypothesis(TopOff(m, L["stack"]).mem.node[x], m.node[x])
  BY <1>1, <1>2, HandTop
<1>4. Tail(C["stack"]) = t
  BY <1>1 DEF t
<1> QED
  BY <1>1, <1>3, <1>4 DEF t

\* The same for the local stack,
LEMMA LocalTop ==
  ASSUME NEW m, NEW st, NEW lo, NEW re, NEW u, NEW v, NEW w, NEW a, NEW b,
         Held(m, ListsOf(st, lo, re), ListsOf(u, v, w), a, b, NULL), 0 < lo.num
  PROVE  /\ lo.start \in Nodes
         /\ Held(TopOff(m, lo).mem, ListsOf(st, TopOff(m, lo).list, re), ListsOf(u, Tail(v), w),
                 a, b, lo.start)
         /\ v # << >> /\ m.node[lo.start].score = v[1]
         /\ TopOff(m, lo).list.num = lo.num - 1
         /\ \A x \in Nodes : SameHypothesis(TopOff(m, lo).mem.node[x], m.node[x])
<1> DEFINE L == ListsOf(st, lo, re)
           C == ListsOf(u, v, w)
           s == TopOff(m, lo).list
           t == Tail(v)
<1>1. /\ "local" \in ListIds /\ L["local"] = lo /\ Change(L, "local", s) = ListsOf(st, s, re)
      /\ C["local"] = v /\ Change(C, "local", t) = ListsOf(u, t, w)
  BY OfLists
<1>2. Held(m, L, C, a, b, NULL)
  OBVIOUS
<1> HIDE DEF L, C, t
<1>3. /\ L["local"].start \in Nodes
      /\ Held(TopOff(m, L["local"]).mem, Change(L, "local", TopOff(m, L["local"]).list),
              Change(C, "local", Tail(C["local"])), a, b, L["local"].start)
      /\ C["local"] # << >> /\ m.node[L["local"].start].score = C["local"][1]
      /\ TopOff(m, L["local"]).list.num = L["local"].num - 1
      /\ \A x \in Nodes : SameHypothesis(TopOff(m, L["local"]).mem.node[x], m.node[x])
  BY <1>1, <1>2, HandTop
<1>4. Tail(C["local"]) = t
  BY <1>1 DEF t
<1> QED
  BY <1>1, <1>3, <1>4 DEF t

\* and for the result stack.
LEMMA ResultTop ==
  ASSUME NEW m, NEW st, NEW lo, NEW re, NEW u, NEW v, NEW w, NEW a, NEW b,
         Held(m, ListsOf(st, lo, re), ListsOf(u, v, w), a, b, NULL), 0 < re.num
  PROVE  /\ re.start \in Nodes
         /\ Held(TopOff(m, re).mem, ListsOf(st, lo, TopOff(m, re).list), ListsOf(u, v, Tail(w)),
                 a, b, re.start)
         /\ w # << >> /\ m.node[re.start].score = w[1]
         /\ TopOff(m, re).list.num = re.num - 1
         /\ \A x \in Nodes : SameHypothesis(TopOff(m, re).mem.node[x], m.node[x])
<1> DEFINE L == ListsOf(st, lo, re)
           C == ListsOf(u, v, w)
           s == TopOff(m, re).list
           t == Tail(w)
<1>1. /\ "result" \in ListIds /\ L["result"] = re /\ Change(L, "result", s) = ListsOf(st, lo, s)
      /\ C["result"] = w /\ Change(C, "result", t) = ListsOf(u, v, t)
  BY OfLists
<1>2. Held(m, L, C, a, b, NULL)
  OBVIOUS
<1> HIDE DEF L, C, t
<1>3. /\ L["result"].start \in Nodes
      /\ Held(TopOff(m, L["result"]).mem, Change(L, "result", TopOff(m, L["result"]).list),
              Change(C, "result", Tail(C["result"])), a, b, L["result"].start)
      /\ C["result"] # << >> /\ m.node[L["result"].start].score = C["result"][1]
      /\ TopOff(m, L["result"]).list.num = L["result"].num - 1
      /\ \A x \in Nodes : SameHypothesis(TopOff(m, L["result"]).mem.node[x], m.node[x])
  BY <1>1, <1>2, HandTop
<1>4. Tail(C["result"]) = t
  BY <1>1 DEF t
<1> QED
  BY <1>1, <1>3, <1>4 DEF t

\* A node put into the stack,
LEMMA StackPut ==
  ASSUME NEW m, NEW st, NEW lo, NEW re, NEW u, NEW v, NEW w, NEW a, NEW b, NEW h \in Nodes,
         Held(m, ListsOf(st, lo, re), ListsOf(u, v, w), a, b, h),
         NEW size \in Nat, st.num <= size, size # 0, st.num = size => 1 < size
  PROVE  /\ \E k : /\ KeptOf(u, m.node[h].score, size, k)
                   /\ Held(Put(m, st, h, size).mem, ListsOf(Put(m, st, h, size).list, lo, re),
                           ListsOf(k, v, w), a, b, NULL)
         /\ Put(m, st, h, size).list.num \in Nat
         /\ Put(m, st, h, size).list.num <= size
         /\ Put(m, st, h, size).list.num <= st.num + 1
         /\ a \in Nodes => Put(m, st, h, size).mem.node[a] = m.node[a]
<1> DEFINE L == ListsOf(st, lo, re)
           C == ListsOf(u, v, w)
           s == Put(m, st, h, size).list
<1>1. /\ "stack" \in ListIds /\ L["stack"] = st /\ Change(L, "stack", s) = ListsOf(s, lo, re)
      /\ C["stack"] = u /\ \A k : Change(C, "stack", k) = ListsOf(k, v, w)
  BY OfLists
<1>2. Held(m, L, C, a, b, h)
  OBVIOUS
<1> HIDE DEF L, C
<1>3. /\ \E k : /\ KeptOf(C["stack"], m.node[h].score, size, k)
                /\ Held(Put(m, L["stack"], h, size).mem, Change(L, "stack", Put(m, L["stack"], h, size).list),
                        Change(C, "stack", k), a, b, NULL)
      /\ Put(m, L["stack"], h, size).list.num \in Nat
      /\ Put(m, L["stack"], h, size).list.num <= size
      /\ Put(m, L["stack"], h, size).list.num <= L["stack"].num + 1
      /\ a \in Nodes => Put(m, L["stack"], h, size).mem.node[a] = m.node[a]
  BY <1>1, <1>2, HandPut
<1> QED
  BY <1>1, <1>3

\* into the local stack,
LEMMA LocalPut ==
  ASSUME NEW m, NEW st, NEW lo, NEW re, NEW u, NEW v, NEW w, NEW a, NEW b, NEW h \in Nodes,
         Held(m, ListsOf(st, lo, re), ListsOf(u, v, w), a, b, h),
         NEW size \in Nat, lo.num <= size, size # 0, lo.num = size => 1 < size
  PROVE  /\ \E k : /\ KeptOf(v, m.node[h].score, size, k)
                   /\ Held(Put(m, lo, h, size).mem, ListsOf(st, Put(m, lo, h, size).list, re),
                           ListsOf(u, k, w), a, b, NULL)
         /\ Put(m, lo, h, size).list.num \in Nat
         /\ Put(m, lo, h, size).list.num <= size
         /\ Put(m, lo, h, size).list.num <= lo.num + 1
         /\ a \in Nodes => Put(m, lo, h, size).mem.node[a] = m.node[a]
<1> DEFINE L == ListsOf(st, lo, re)
           C == ListsOf(u, v, w)
           s == Put(m, lo, h, size).list
<1>1. /\ "local" \in ListIds /\ L["local"] = lo /\ Change(L, "local", s) = ListsOf(st, s, re)
      /\ C["local"] = v /\ \A k : Change(C, "local", k) = ListsOf(u, k, w)
  BY OfLists
<1>2. Held(m, L, C, a, b, h)
  OBVIOUS
<1> HIDE DEF L, C
<1>3. /\ \E k : /\ KeptOf(C["local"], m.node[h].score, size, k)
                /\ Held(Put(m, L["local"], h, size).mem, Change(L, "local", Put(m, L["local"], h, size).list),
                        Change(C, "local", k), a, b, NULL)
      /\ Put(m, L["local"], h, size).list.num \in Nat
      /\ Put(m, L["local"], h, size).list.num <= size
      /\ Put(m, L["local"], h, size).list.num <= L["local"].num + 1
      /\ a \in Nodes => Put(m, L["local"], h, size).mem.node[a] = m.node[a]
  BY <1>1, <1>2, HandPut
<1> QED
  BY <1>1, <1>3

\* or into the result stack.
LEMMA ResultPut ==
  ASSUME NEW m, NEW st, NEW lo, NEW re, NEW u, NEW v, NEW w, NEW a, NEW b, NEW h \in Nodes,
         Held(m, ListsOf(st, lo, re), ListsOf(u, v, w), a, b, h),
         NEW size \in Nat, re.num <= size, size # 0, re.num = size => 1 < size
  PROVE  /\ \E k : /\ KeptOf(w, m.node[h].score, size, k)
                   /\ Held(Put(m, re, h, size).mem, ListsOf(st, lo, Put(m, re, h, size).list),
                           ListsOf(u, v, k), a, b, NULL)
         /\ Put(m, re, h, size).list.num \in Nat
         /\ Put(m, re, h, size).list.num <= size
         /\ Put(m, re, h, size).list.num <= re.num + 1
         /\ a \in Nodes => Put(m, re, h, size).mem.node[a] = m.node[a]
<1> DEFINE L == ListsOf(st, lo, re)
           C == ListsOf(u, v, w)
           s == Put(m, re, h, size).list
<1>1. /\ "result" \in ListIds /\ L["result"] = re /\ Change(L, "result", s) = ListsOf(st, lo, s)
      /\ C["result"] = w /\ \A k : Change(C, "result", k) = ListsOf(u, v, k)
  BY OfLists
<1>2. Held(m, L, C, a, b, h)
  OBVIOUS
<1> HIDE DEF L, C
<1>3. /\ \E k : /\ KeptOf(C["result"], m.node[h].score, size, k)
                /\ Held(Put(m, L["result"], h, size).mem, Change(L, "result", Put(m, L["result"], h, size).list),
                        Change(C, "result", k), a, b, NULL)
      /\ Put(m, L["result"], h, size).list.num \in Nat
      /\ Put(m, L["result"], h, size).list.num <= size
      /\ Put(m, L["result"], h, size).list.num <= L["result"].num + 1
      /\ a \in Nodes => Put(m, L["result"], h, size).mem.node[a] = m.node[a]
  BY <1>1, <1>2, HandPut
<1> QED
  BY <1>1, <1>3

\* Every node is on one list, in the stocker, being expanded, or with a pause.
PlaceInv ==
  Held(mem, ListsOf(stack, local, result), ListsOf(ScoresOf(stack), ScoresOf(local), ScoresOf(result)),
       now, now_noise, NULL)

\* Only words on the trellis stay on the local stack.
ScoredInv == \A i \in 1..Len(ScoresOf(local)) : ScoresOf(local)[i] \in Scores

\* What is in use in which phase of the search.
PhaseInv ==
  /\ pc \in {"words", "local", "pop", "accept", "output", "done"}
  /\ pc \in {"pop", "output", "done"} => now = NULL
  /\ pc \in {"pop", "accept", "output", "done"} => now_noise = NULL /\ local.num = 0
  /\ pc = "accept" => now # NULL
  /\ pc \notin {"output", "done"} => finishnum < NBest
  /\ pc = "done" => stack.num = 0 /\ result.num = 0

\* Lists and lengths stay within their limits.
LimitInv ==
  /\ stack.num <= StackSize /\ local.num <= Vocab /\ result.num <= finishnum /\ finishnum \in 0..NBest
  /\ now \in 0..Room /\ now_noise \in 0..Room
  /\ now # NULL => mem.node[now].seqnum < MaxSeqNum

\* The ranges of the counters and of the output.
CountInv ==
  /\ popctr \in Nat /\ last_score \in 0..MaxScore
  /\ width \in Widths /\ hypo_len_count \in [1..MaxSeqNum -> Nat]
  /\ maximum_filled_length \in -1..MaxSeqNum
  /\ sent \in Seq(0..MaxScore) /\ Len(sent) <= OutputMax
  /\ status \in {"none", "success", "fail"}

\* The inductive invariant.
SearchInv == PlaceInv /\ PhaseInv /\ LimitInv /\ CountInv /\ ScoredInv

\* What the proofs use of the constants.
LEMMA SizesAre ==
  /\ StackSize \in Nat \ {0} /\ NBest \in Nat \ {0} /\ OutputMax \in Nat \ {0} /\ MaxHypo \in Nat \ {0}
  /\ MaxSeqNum \in Nat \ {0} /\ Vocab \in Nat \ {0} /\ MaxScore \in Nat \ {0}
  /\ Room = StackSize + NBest + Vocab + 2 /\ LogZero = 0 /\ NULL = 0 /\ Room \in Nat
BY SearchAssumption DEF Room, LogZero, NULL

\* What the proof of a step begins with.
LEMMA SearchFacts ==
  ASSUME PlaceInv
  PROVE  /\ mem \in Memory
         /\ stack \in ListRecord /\ stack.num \in Nat /\ (stack.start = NULL <=> stack.num = 0)
         /\ local \in ListRecord /\ local.num \in Nat /\ (local.start = NULL <=> local.num = 0)
         /\ result \in ListRecord /\ result.num \in Nat /\ (result.start = NULL <=> result.num = 0)
         /\ \A s \in {stack, local, result} :
              /\ ScoresOf(s) \in Seq(0..MaxScore) /\ Len(ScoresOf(s)) = s.num
              /\ \A i, j \in 1..s.num : i <= j => ScoresOf(s)[i] >= ScoresOf(s)[j]
<1> DEFINE L == ListsOf(stack, local, result)
           C == ListsOf(ScoresOf(stack), ScoresOf(local), ScoresOf(result))
<1>1. /\ L["stack"] = stack /\ L["local"] = local /\ L["result"] = result
      /\ C["stack"] = ScoresOf(stack) /\ C["local"] = ScoresOf(local) /\ C["result"] = ScoresOf(result)
      /\ "stack" \in ListIds /\ "local" \in ListIds /\ "result" \in ListIds
  <2>1. L["stack"] = stack /\ L["local"] = local /\ L["result"] = result
    BY OfLists
  <2>2. C["stack"] = ScoresOf(stack) /\ C["local"] = ScoresOf(local) /\ C["result"] = ScoresOf(result)
    BY OfLists
  <2> QED
    BY <2>1, <2>2 DEF ListIds
<1>2. Held(mem, L, C, now, now_noise, NULL)
  BY DEF PlaceInv
<1> HIDE DEF L, C
<1>3. \A id \in ListIds :
        /\ mem \in Memory /\ L[id] \in ListRecord /\ L[id].num \in Nat
        /\ (L[id].start = NULL <=> L[id].num = 0)
        /\ C[id] \in Seq(0..MaxScore) /\ Len(C[id]) = L[id].num
        /\ \A i, j \in 1..L[id].num : i <= j => C[id][i] >= C[id][j]
  BY <1>2, HeldFacts
<1>4. /\ mem \in Memory
      /\ stack \in ListRecord /\ stack.num \in Nat /\ (stack.start = NULL <=> stack.num = 0)
      /\ local \in ListRecord /\ local.num \in Nat /\ (local.start = NULL <=> local.num = 0)
      /\ result \in ListRecord /\ result.num \in Nat /\ (result.start = NULL <=> result.num = 0)
  BY <1>1, <1>3
<1>5. /\ ScoresOf(stack) \in Seq(0..MaxScore) /\ Len(ScoresOf(stack)) = stack.num
      /\ \A i, j \in 1..stack.num : i <= j => ScoresOf(stack)[i] >= ScoresOf(stack)[j]
  BY <1>1, <1>3
<1>6. /\ ScoresOf(local) \in Seq(0..MaxScore) /\ Len(ScoresOf(local)) = local.num
      /\ \A i, j \in 1..local.num : i <= j => ScoresOf(local)[i] >= ScoresOf(local)[j]
  BY <1>1, <1>3
<1>7. /\ ScoresOf(result) \in Seq(0..MaxScore) /\ Len(ScoresOf(result)) = result.num
      /\ \A i, j \in 1..result.num : i <= j => ScoresOf(result)[i] >= ScoresOf(result)[j]
  BY <1>1, <1>3
<1> QED
  BY <1>4, <1>5, <1>6, <1>7

\* ScoresOf in any memory.
ScoresIn(m, s) == [i \in 1..s.num |-> m.node[Along(m, s.start, "next")[i - 1]].score]

\* The scores along the links are those of the nodes of the list.
LEMMA ScoresAre ==
  ASSUME NEW m, NEW s, NEW q, IsList(m, s, q)
  PROVE  ScoresIn(m, s) = Contents(m, s, q)
<1> DEFINE g == [i \in 0..Room |-> IF i < s.num THEN q[i + 1] ELSE NULL]
           walk == Along(m, s.start, "next")
<1>1. walk = g
  <2>1. Follows(m, s.start, "next", g)
    BY WalkDown
  <2> HIDE DEF g
  <2> QED
    BY <2>1, AlongIs
<1>2. s.num \in Nat /\ s.num <= Room /\ Room \in Nat
  BY FewNodes, RoomIs
<1> HIDE DEF walk
<1>3. ASSUME NEW i \in 1..s.num PROVE walk[i - 1] = q[i]
  <2> DEFINE k == i - 1
  <2>1. k \in 0..Room /\ k < s.num /\ k + 1 = i
    BY <1>2
  <2> HIDE DEF k
  <2>2. g[k] = q[i]
    BY <2>1
  <2> QED
    BY <1>1, <2>2 DEF k
<1>4. ScoresIn(m, s) = [i \in 1..s.num |-> m.node[walk[i - 1]].score]
  BY DEF ScoresIn, walk
<1> QED
  BY <1>3, <1>4 DEF Contents

\* The scores held are those along the links.
LEMMA HeldScores ==
  ASSUME NEW m, NEW st, NEW lo, NEW re, NEW u, NEW v, NEW w, NEW a, NEW b, NEW h,
         Held(m, ListsOf(st, lo, re), ListsOf(u, v, w), a, b, h)
  PROVE  u = ScoresIn(m, st) /\ v = ScoresIn(m, lo) /\ w = ScoresIn(m, re)
<1> DEFINE L == ListsOf(st, lo, re)
           C == ListsOf(u, v, w)
<1>1. /\ "stack" \in ListIds /\ L["stack"] = st /\ C["stack"] = u
      /\ "local" \in ListIds /\ L["local"] = lo /\ C["local"] = v
      /\ "result" \in ListIds /\ L["result"] = re /\ C["result"] = w
  <2>1. L["stack"] = st /\ L["local"] = lo /\ L["result"] = re
    BY OfLists
  <2>2. C["stack"] = u /\ C["local"] = v /\ C["result"] = w
    BY DEF ListsOf, ListIds
  <2> QED
    BY <2>1, <2>2 DEF ListIds
<1>2. PICK Q, at : Holds(m, L, Q, at) /\ ContentsAre(m, L, Q, C)
  BY DEF Held
<1> HIDE DEF L, C
<1>3. \A id \in ListIds : C[id] = ScoresIn(m, L[id])
  BY <1>2, ScoresAre DEF Holds, ContentsAre
<1> QED
  BY <1>1, <1>3

\* PlaceInv after a step, from what the step made of the lists.
LEMMA PlaceThen ==
  ASSUME NEW u, NEW v, NEW w,
         Held(mem', ListsOf(stack', local', result'), ListsOf(u, v, w), now', now_noise', NULL)
  PROVE  /\ PlaceInv'
         /\ ScoresOf(stack)' = u /\ ScoresOf(local)' = v /\ ScoresOf(result)' = w
<1>1. u = ScoresIn(mem', stack') /\ v = ScoresIn(mem', local') /\ w = ScoresIn(mem', result')
  BY HeldScores
<1>2. u = ScoresOf(stack)' /\ v = ScoresOf(local)' /\ w = ScoresOf(result)'
  BY <1>1 DEF ScoresIn, ScoresOf
<1> QED
  BY <1>2 DEF PlaceInv

\* A step that leaves nodes and lists alone keeps PlaceInv.
LEMMA PlaceSame ==
  ASSUME PlaceInv, UNCHANGED <<mem, stack, local, result, now, now_noise>>
  PROVE  /\ PlaceInv'
         /\ UNCHANGED ScoresOf(stack) /\ UNCHANGED ScoresOf(local) /\ UNCHANGED ScoresOf(result)
<1>1. UNCHANGED ScoresOf(stack) /\ UNCHANGED ScoresOf(local) /\ UNCHANGED ScoresOf(result)
  BY DEF ScoresOf
<1> QED
  BY <1>1 DEF PlaceInv

\* What a step may do to the stack.
StackStep == [StackQueue!Next]_(ScoresOf(stack))

\* A change as put_to_stack makes it is a step of the queue,
LEMMA QueuePush ==
  ASSUME NEW s \in Scores, KeptOf(ScoresOf(stack), s, StackSize, ScoresOf(stack)')
  PROVE  StackStep
<1>1. StackQueue!Push(s)
  BY DEF KeptOf, StackQueue!Push
<1> QED
  BY <1>1 DEF StackStep, StackQueue!Next

\* and so is one that takes the first score.
LEMMA QueuePop ==
  ASSUME ScoresOf(stack) # << >>, ScoresOf(stack)' = Tail(ScoresOf(stack))
  PROVE  StackStep
<1>1. StackQueue!PopBest
  BY DEF StackQueue!PopBest
<1> QED
  BY <1>1 DEF StackStep, StackQueue!Next

\* The search begins with all nodes free.
LEMMA SearchBegins == Init => SearchInv /\ StackQueue!Init
<1> SUFFICES ASSUME Init PROVE SearchInv /\ StackQueue!Init
  OBVIOUS
<1> DEFINE L == ListsOf(stack, local, result)
           Q == [id \in ListIds |-> [i \in 1..0 |-> NULL]]
           at == [x \in Nodes |-> "free"]
<1>1. mem \in Memory /\ mem.free = Nodes
  <2>1. Blank \in Hypothesis
    BY SizesAre DEF Blank, Hypothesis
  <2> QED
    BY <2>1 DEF Init, Memory
<1>2. \A id \in ListIds : L[id] = EmptyList
  BY DEF Init, ListsOf, ListIds
<1>3. \A id \in ListIds : IsList(mem, L[id], Q[id])
  <2>1. SUFFICES ASSUME NEW id \in ListIds PROVE IsList(mem, EmptyList, [i \in 1..0 |-> NULL])
    BY <1>2
  <2>2. EmptyList \in ListRecord /\ EmptyList.num = 0 /\ EmptyList.start = NULL
    BY SizesAre DEF EmptyList, ListRecord
  <2>3. 1..0 = {} /\ ~(0 < 0)
    OBVIOUS
  <2> QED
    BY <2>2, <2>3 DEF IsList
<1>4. \A x \in Nodes, id \in ListIds : x \in In(L[id], Q[id]) <=> at[x] = id
  <2>1. \A id \in ListIds : In(L[id], Q[id]) = {}
    <3>1. \A id \in ListIds : L[id].num = 0
      BY <1>2 DEF EmptyList
    <3>2. 1..0 = {}
      OBVIOUS
    <3> QED
      BY <3>1, <3>2 DEF In
  <2>2. "free" \notin ListIds
    BY DEF ListIds
  <2> QED
    BY <2>1, <2>2
<1>5. at \in [Nodes -> Spots] /\ \A x \in Nodes : x \in mem.free <=> at[x] = "free"
  BY <1>1 DEF Spots
<1>6. Holds(mem, L, Q, at)
  BY <1>1, <1>3, <1>4, <1>5 DEF Holds
<1>7. Hands(at, now, now_noise, NULL)
  BY RoomIs DEF Hands, Init
<1>8. PlaceInv /\ ScoresOf(stack) = << >> /\ ScoresOf(local) = << >>
  <2> DEFINE C == ListsOf(<< >>, << >>, << >>)
  <2>1. ContentsAre(mem, L, Q, C)
    <3>1. \A id \in ListIds : C[id] = << >> /\ L[id].num = 0
      BY <1>2 DEF ListsOf, ListIds, EmptyList
    <3>2. 1..0 = {}
      OBVIOUS
    <3> HIDE DEF C, L
    <3>3. \A id \in ListIds : Contents(mem, L[id], Q[id]) = << >>
      BY <3>1, <3>2 DEF Contents
    <3> QED
      BY <3>1, <3>3 DEF ContentsAre
  <2> HIDE DEF L, Q, at, C
  <2>2. Held(mem, L, C, now, now_noise, NULL)
    BY <1>6, <1>7, <2>1 DEF Held
  <2>3. << >> = ScoresIn(mem, stack) /\ << >> = ScoresIn(mem, local) /\ << >> = ScoresIn(mem, result)
    BY <2>2, HeldScores DEF L, C
  <2>4. << >> = ScoresOf(stack) /\ << >> = ScoresOf(local) /\ << >> = ScoresOf(result)
    BY <2>3 DEF ScoresIn, ScoresOf
  <2> QED
    BY <2>2, <2>4 DEF PlaceInv, L, C
<1>9. PhaseInv
  BY SizesAre DEF Init, PhaseInv
<1>10. LimitInv
  BY SizesAre DEF Init, LimitInv, EmptyList
<1>11. CountInv
  BY SizesAre DEF Init, CountInv
<1>12. ScoredInv
  BY <1>8 DEF ScoredInv
<1> QED
  BY <1>8, <1>9, <1>10, <1>11, <1>12 DEF SearchInv, StackQueue!Init

\* After the pop the best hypothesis is in the hand and the rest of the stack is a list.
LEMMA PoppedFacts ==
  ASSUME SearchInv, NEW n \in Nodes, Popped(n)
  PROVE  /\ now = NULL /\ now_noise = NULL /\ local.num = 0 /\ finishnum < NBest
         /\ stack'.num \in Nat /\ stack'.num <= StackSize
         /\ Held(MemPopped, ListsOf(stack', local, result),
                 ListsOf(Tail(ScoresOf(stack)), ScoresOf(local), ScoresOf(result)), NULL, NULL, n)
         /\ ScoresOf(stack) # << >>
         /\ SameHypothesis(MemPopped.node[n], mem.node[n]) /\ mem.node[n] \in Hypothesis
<1>1. pc = "pop" /\ n = stack.start /\ stack' = TopOff(mem, stack).list
  BY DEF Popped
<1>2. now = NULL /\ now_noise = NULL /\ local.num = 0 /\ finishnum < NBest
  BY <1>1 DEF SearchInv, PhaseInv
<1>3. mem \in Memory /\ stack.num \in Nat /\ 0 < stack.num
  <2>1. mem \in Memory /\ stack.num \in Nat /\ (stack.start = NULL <=> stack.num = 0)
    BY SearchFacts DEF SearchInv
  <2> QED
    BY <1>1, <2>1, RoomIs
<1> DEFINE U == ScoresOf(stack)
           V == ScoresOf(local)
           W == ScoresOf(result)
<1>4. Held(mem, ListsOf(stack, local, result), ListsOf(U, V, W), NULL, NULL, NULL)
  BY <1>2 DEF SearchInv, PlaceInv
<1> HIDE DEF U, V, W
<1>5. /\ Held(TopOff(mem, stack).mem, ListsOf(TopOff(mem, stack).list, local, result), ListsOf(Tail(U), V, W),
              NULL, NULL, stack.start)
      /\ U # << >>
      /\ TopOff(mem, stack).list.num = stack.num - 1
      /\ \A x \in Nodes : SameHypothesis(TopOff(mem, stack).mem.node[x], mem.node[x])
  BY <1>3, <1>4, StackTop
<1>6. stack.num <= StackSize
  BY DEF SearchInv, LimitInv
<1> QED
  BY <1>1, <1>2, <1>3, <1>5, <1>6, SizesAre DEF MemPopped, Memory, U, V, W

\* The envelope stays in range when a hypothesis is counted.
LEMMA CountKeeps ==
  ASSUME SearchInv, NEW n \in Nodes, Considered(n)
  PROVE  /\ popctr' \in Nat /\ width' \in Widths /\ hypo_len_count' \in [1..MaxSeqNum -> Nat]
         /\ maximum_filled_length' \in -1..MaxSeqNum
<1>1. mem.node[n].seqnum \in 0..MaxSeqNum
  BY PoppedFacts DEF Considered, Hypothesis
<1>2. /\ popctr \in Nat /\ width \in Widths /\ hypo_len_count \in [1..MaxSeqNum -> Nat]
      /\ maximum_filled_length \in -1..MaxSeqNum
  BY DEF SearchInv, CountInv
<1>3. popctr' = popctr + 1 /\ Count(n)
  BY DEF Considered
<1>4. CASE width < 0
  BY <1>2, <1>3, <1>4 DEF Count, envelope
<1>5. CASE ~(width < 0)
  <2> DEFINE l == mem.node[n].seqnum
  <2>1. /\ width' = width /\ hypo_len_count' = [hypo_len_count EXCEPT ![l] = @ + 1]
        /\ maximum_filled_length' \in {l, maximum_filled_length}
    BY <1>3, <1>5 DEF Count
  <2>2. l \in -1..MaxSeqNum
    BY <1>1, SizesAre
  <2> HIDE DEF l
  <2>3. hypo_len_count' \in [1..MaxSeqNum -> Nat]
    <3> DEFINE c == hypo_len_count
    <3>1. hypo_len_count' = [i \in 1..MaxSeqNum |-> IF i = l THEN c[l] + 1 ELSE c[i]]
      BY <1>2, <2>1
    <3>2. c \in [1..MaxSeqNum -> Nat]
      BY <1>2
    <3> HIDE DEF c
    <3>3. ASSUME NEW i \in 1..MaxSeqNum PROVE (IF i = l THEN c[l] + 1 ELSE c[i]) \in Nat
      BY <3>2
    <3> QED
      BY <3>1, <3>3
  <2> QED
    BY <1>2, <1>3, <2>1, <2>2, <2>3
<1> QED
  BY <1>4, <1>5

\* The ways in which a popped hypothesis is dropped.
LEMMA DropKeeps ==
  ASSUME SearchInv, NEW n \in Nodes, Popped(n), mem' = Freed(MemPopped, n), pc' \in {"pop", "output"},
         UNCHANGED <<local, result, now, now_noise, finishnum, last_score, output>>,
         /\ popctr' \in Nat /\ width' \in Widths /\ hypo_len_count' \in [1..MaxSeqNum -> Nat]
         /\ maximum_filled_length' \in -1..MaxSeqNum
  PROVE  SearchInv' /\ StackStep /\ UNCHANGED ScoresOf(result)
<1> DEFINE U == ScoresOf(stack)
           V == ScoresOf(local)
           W == ScoresOf(result)
<1>1. /\ now = NULL /\ now_noise = NULL /\ local.num = 0 /\ finishnum < NBest
      /\ stack'.num \in Nat /\ stack'.num <= StackSize
      /\ Held(MemPopped, ListsOf(stack', local, result), ListsOf(Tail(U), V, W), NULL, NULL, n)
      /\ U # << >>
  BY PoppedFacts
<1>2. Held(Freed(MemPopped, n), ListsOf(stack', local, result), ListsOf(Tail(U), V, W), NULL, NULL, NULL)
  <2> HIDE DEF U, V, W
  <2> QED
    BY <1>1, HandFreed
<1>3. PlaceInv' /\ ScoresOf(stack)' = Tail(U) /\ ScoresOf(local)' = V /\ ScoresOf(result)' = W
  <2> HIDE DEF U, V, W
  <2>1. Held(mem', ListsOf(stack', local', result'), ListsOf(Tail(U), V, W), now', now_noise', NULL)
    BY <1>1, <1>2
  <2> QED
    BY <2>1, PlaceThen
<1>4. PhaseInv'
  BY <1>1 DEF PhaseInv
<1>5. LimitInv'
  BY <1>1, RoomIs DEF LimitInv, SearchInv
<1>6. CountInv'
  BY DEF CountInv, SearchInv, output
<1>7. ScoredInv'
  BY <1>3 DEF ScoredInv, SearchInv
<1>8. StackStep
  BY <1>1, <1>3, QueuePop
<1> QED
  BY <1>3, <1>4, <1>5, <1>6, <1>7, <1>8 DEF SearchInv

\* The ways in which what was popped is dropped,
LEMMA PrunedKeeps ==
  ASSUME SearchInv, NEW n \in Nodes, PopPruned(n)
  PROVE  SearchInv' /\ StackStep /\ UNCHANGED ScoresOf(result)
<1>1. Popped(n) /\ mem' = Freed(MemPopped, n) /\ pc' \in {"pop", "output"}
  BY DEF PopPruned, Popped
<1>2. UNCHANGED <<local, result, now, now_noise, finishnum, last_score, output>>
  BY DEF PopPruned, counters
<1>3. UNCHANGED <<popctr, width, hypo_len_count, maximum_filled_length>>
  BY DEF PopPruned, counters, envelope
<1>4. /\ popctr' \in Nat /\ width' \in Widths /\ hypo_len_count' \in [1..MaxSeqNum -> Nat]
      /\ maximum_filled_length' \in -1..MaxSeqNum
  BY <1>3 DEF SearchInv, CountInv
<1> QED
  BY <1>1, <1>2, <1>4, DropKeeps

\* uncounted or counted,
LEMMA DroppedKeeps ==
  ASSUME SearchInv, NEW n \in Nodes, PopAgain(n) \/ GiveUp(n) \/ PopTooLong(n)
  PROVE  SearchInv' /\ StackStep /\ UNCHANGED ScoresOf(result)
<1>1. /\ Considered(n) /\ Popped(n) /\ mem' = Freed(MemPopped, n) /\ pc' \in {"pop", "output"}
      /\ UNCHANGED <<local, result, now, now_noise, finishnum, last_score, output>>
  BY DEF PopAgain, GiveUp, PopTooLong, Considered, Popped
<1>2. /\ popctr' \in Nat /\ width' \in Widths /\ hypo_len_count' \in [1..MaxSeqNum -> Nat]
      /\ maximum_filled_length' \in -1..MaxSeqNum
  BY <1>1, CountKeeps
<1> QED
  BY <1>1, <1>2, DropKeeps

\* or goes to the result stack as a sentence,
LEMMA SentenceKeeps ==
  ASSUME SearchInv, NEW n \in Nodes, PopSentence(n)
  PROVE  SearchInv' /\ StackStep /\ KeptOf(ScoresOf(result), mem.node[n].score, NBest, ScoresOf(result)')
<1> DEFINE U == ScoresOf(stack)
           V == ScoresOf(local)
           W == ScoresOf(result)
<1>1. /\ Considered(n) /\ Popped(n) /\ finishnum' = finishnum + 1 /\ last_score' = mem.node[n].score
      /\ mem' = Put(MemPopped, result, n, NBest).mem /\ result' = Put(MemPopped, result, n, NBest).list
      /\ pc' = IF finishnum' >= NBest THEN "output" ELSE "pop"
      /\ UNCHANGED <<local, now, now_noise, output>>
  BY DEF PopSentence, Considered
<1>2. /\ now = NULL /\ now_noise = NULL /\ local.num = 0 /\ finishnum < NBest
      /\ stack'.num \in Nat /\ stack'.num <= StackSize
      /\ Held(MemPopped, ListsOf(stack', local, result), ListsOf(Tail(U), V, W), NULL, NULL, n)
      /\ U # << >>
      /\ mem.node[n] \in Hypothesis /\ MemPopped.node[n].score = mem.node[n].score
  BY <1>1, PoppedFacts DEF SameHypothesis
<1>3. result.num \in Nat /\ result.num <= finishnum /\ finishnum \in 0..NBest
  BY SearchFacts DEF SearchInv, LimitInv
<1> DEFINE p == Put(MemPopped, result, n, NBest)
<1>4. /\ \E k : /\ KeptOf(W, MemPopped.node[n].score, NBest, k)
                /\ Held(p.mem, ListsOf(stack', local, p.list), ListsOf(Tail(U), V, k), NULL, NULL, NULL)
      /\ p.list.num \in Nat /\ p.list.num <= result.num + 1
  <2> DEFINE T == Tail(U)
             st == stack'
  <2>0. Held(MemPopped, ListsOf(st, local, result), ListsOf(T, V, W), NULL, NULL, n)
    BY <1>2
  <2> HIDE DEF T, V, W, st
  <2>1. NBest \in Nat /\ NBest # 0 /\ result.num <= NBest /\ result.num # NBest
    BY <1>2, <1>3, SizesAre
  <2>2. /\ \E k : /\ KeptOf(W, MemPopped.node[n].score, NBest, k)
                  /\ Held(p.mem, ListsOf(st, local, p.list), ListsOf(T, V, k), NULL, NULL, NULL)
        /\ p.list.num \in Nat /\ p.list.num <= result.num + 1
    BY <2>0, <2>1, ResultPut
  <2> QED
    BY <2>2 DEF st, T
<1> HIDE DEF p
<1>5. mem' = p.mem /\ result' = p.list
  BY <1>1 DEF p
<1>6. /\ PlaceInv' /\ ScoresOf(stack)' = Tail(U) /\ ScoresOf(local)' = V
      /\ KeptOf(W, mem.node[n].score, NBest, ScoresOf(result)')
  <2> HIDE DEF U, V, W
  <2>1. PICK k : /\ KeptOf(W, mem.node[n].score, NBest, k)
                 /\ Held(p.mem, ListsOf(stack', local, p.list), ListsOf(Tail(U), V, k), NULL, NULL, NULL)
    BY <1>2, <1>4
  <2>2. Held(mem', ListsOf(stack', local', result'), ListsOf(Tail(U), V, k), now', now_noise', NULL)
    BY <1>1, <1>2, <1>5, <2>1
  <2>3. PlaceInv' /\ ScoresOf(stack)' = Tail(U) /\ ScoresOf(local)' = V /\ ScoresOf(result)' = k
    BY <2>2, PlaceThen
  <2> QED
    BY <2>1, <2>3
<1>7. finishnum' \in 0..NBest /\ result'.num <= finishnum' /\ last_score' \in 0..MaxScore
  <2>1. finishnum' = finishnum + 1 /\ last_score' = mem.node[n].score
    BY <1>1
  <2>2. finishnum < NBest /\ mem.node[n] \in Hypothesis
    BY <1>2
  <2>3. result'.num \in Nat /\ result'.num <= result.num + 1
    BY <1>4, <1>5
  <2>4. last_score' \in 0..MaxScore
    BY <2>1, <2>2 DEF Hypothesis
  <2>5. NBest \in Nat
    BY SizesAre
  <2> QED
    BY <1>3, <2>1, <2>2, <2>3, <2>4, <2>5
<1>8. PhaseInv'
  BY <1>1, <1>2, <1>7, SizesAre DEF PhaseInv
<1>9. LimitInv'
  BY <1>1, <1>2, <1>7, SizesAre, RoomIs DEF LimitInv, SearchInv
<1>10. CountInv'
  <2>1. /\ popctr' \in Nat /\ width' \in Widths /\ hypo_len_count' \in [1..MaxSeqNum -> Nat]
        /\ maximum_filled_length' \in -1..MaxSeqNum
    BY <1>1, CountKeeps
  <2> QED
    BY <1>1, <1>7, <2>1 DEF CountInv, SearchInv, output
<1>11. ScoredInv'
  BY <1>6 DEF ScoredInv, SearchInv
<1>12. StackStep
  BY <1>2, <1>6, QueuePop
<1> QED
  BY <1>6, <1>8, <1>9, <1>10, <1>11, <1>12 DEF SearchInv

\* or is expanded.
LEMMA ToExpandKeeps ==
  ASSUME SearchInv, NEW n \in Nodes, PopToExpand(n)
  PROVE  SearchInv' /\ StackStep /\ UNCHANGED ScoresOf(result)
<1> DEFINE U == ScoresOf(stack)
           V == ScoresOf(local)
           W == ScoresOf(result)
<1>1. /\ Considered(n) /\ Popped(n) /\ mem.node[n].seqnum < MaxSeqNum
      /\ mem' = MemPopped /\ now' = n /\ pc' = "accept"
      /\ UNCHANGED <<local, result, now_noise, finishnum, last_score, output>>
  BY DEF PopToExpand, Considered
<1>2. /\ now = NULL /\ now_noise = NULL /\ local.num = 0 /\ finishnum < NBest
      /\ stack'.num \in Nat /\ stack'.num <= StackSize
      /\ Held(MemPopped, ListsOf(stack', local, result), ListsOf(Tail(U), V, W), NULL, NULL, n)
      /\ U # << >>
      /\ SameHypothesis(MemPopped.node[n], mem.node[n])
  BY <1>1, PoppedFacts
<1>3. Held(MemPopped, ListsOf(stack', local, result), ListsOf(Tail(U), V, W), n, NULL, NULL)
  <2> HIDE DEF U, V, W
  <2> QED
    BY <1>2, HandToNow
<1>4. PlaceInv' /\ ScoresOf(stack)' = Tail(U) /\ ScoresOf(local)' = V /\ ScoresOf(result)' = W
  <2> HIDE DEF U, V, W
  <2>1. Held(mem', ListsOf(stack', local', result'), ListsOf(Tail(U), V, W), now', now_noise', NULL)
    BY <1>1, <1>2, <1>3
  <2> QED
    BY <2>1, PlaceThen
<1>5. PhaseInv'
  BY <1>1, <1>2, RoomIs DEF PhaseInv
<1>6. LimitInv'
  <2>1. mem'.node[now'].seqnum < MaxSeqNum
    BY <1>1, <1>2 DEF SameHypothesis
  <2> QED
    BY <1>1, <1>2, <2>1, RoomIs DEF LimitInv, SearchInv
<1>7. CountInv'
  <2>1. /\ popctr' \in Nat /\ width' \in Widths /\ hypo_len_count' \in [1..MaxSeqNum -> Nat]
        /\ maximum_filled_length' \in -1..MaxSeqNum
    BY <1>1, CountKeeps
  <2> QED
    BY <1>1, <2>1 DEF CountInv, SearchInv, output
<1>8. ScoredInv'
  BY <1>4 DEF ScoredInv, SearchInv
<1>9. StackStep
  BY <1>2, <1>4, QueuePop
<1> QED
  BY <1>4, <1>5, <1>6, <1>7, <1>8, <1>9 DEF SearchInv

\* A list limited to one has no node that could become the bottom when the bottom
\* is driven out.  The result stack never reaches its limit.
BottomHasAbove == StackSize > 1 /\ Vocab > 1

\* The local stack keeps words with a score only, when its top is taken
LEMMA TailScored ==
  ASSUME NEW c \in Seq(0..MaxScore), c # << >>, \A i \in 1..Len(c) : c[i] \in Scores
  PROVE  \A i \in 1..Len(Tail(c)) : Tail(c)[i] \in Scores
<1>1. /\ Len(Tail(c)) = Len(c) - 1 /\ \A i \in 1..Len(Tail(c)) : Tail(c)[i] = c[i + 1]
      /\ Len(c) \in Nat
  BY HeadTailProperties, LenProperties
<1>2. \A i \in 1..Len(c) - 1 : i + 1 \in 1..Len(c)
  BY <1>1
<1> QED
  BY <1>1, <1>2

\* when a word is added
LEMMA InsertedScored ==
  ASSUME NEW c \in Seq(0..MaxScore), NEW s \in Scores, \A i \in 1..Len(c) : c[i] \in Scores,
         NEW k, k = StackQueue!Inserted(c, s)
  PROVE  \A i \in 1..Len(k) : k[i] \in Scores
<1>1. Len(c) \in Nat
  BY LenProperties
<1> DEFINE n == Len(c)
<1>2. k = [i \in 1..n + 1 |-> IF i <= n /\ c[i] > s THEN c[i]
                              ELSE IF 1 < i /\ c[i - 1] <= s THEN c[i - 1] ELSE s]
  BY DEF StackQueue!Inserted
<1>3. n \in Nat /\ \A i \in 1..n : c[i] \in Scores
  BY <1>1
<1> HIDE DEF n
<1>4. ASSUME NEW i \in 1..n + 1 PROVE k[i] \in Scores
  <2>1. (i <= n => i \in 1..n) /\ (1 < i => i - 1 \in 1..n)
    BY <1>3
  <2>2. (i <= n => c[i] \in Scores) /\ (1 < i => c[i - 1] \in Scores)
    BY <1>3, <2>1
  <2>3. k[i] = IF i <= n /\ c[i] > s THEN c[i] ELSE IF 1 < i /\ c[i - 1] <= s THEN c[i - 1] ELSE s
    BY <1>2
  <2> QED
    BY <2>2, <2>3
<1>5. k \in [1..n + 1 -> Scores]
  <2>1. k = [i \in 1..n + 1 |-> k[i]]
    BY <1>2
  <2> QED
    BY <1>4, <2>1
<1>6. Len(k) = n + 1
  <2>1. n + 1 \in Nat
    BY <1>3
  <2> DEFINE l == n + 1
  <2>2. l \in Nat /\ k \in [1..l -> Scores]
    BY <1>5, <2>1
  <2> HIDE DEF l
  <2> QED
    BY <2>2, SeqOfFunction DEF l
<1> QED
  BY <1>4, <1>6

\* and when one drives out the bottom or is turned away.
LEMMA KeptScored ==
  ASSUME NEW c \in Seq(0..MaxScore), NEW s \in Scores, \A i \in 1..Len(c) : c[i] \in Scores,
         NEW size \in Nat, size # 0, NEW k, KeptOf(c, s, size, k)
  PROVE  \A i \in 1..Len(k) : k[i] \in Scores
<1>1. CASE k = StackQueue!Inserted(c, s)
  BY <1>1, InsertedScored
<1>2. CASE Len(c) = size /\ k = StackQueue!Inserted(StackQueue!Front(c), s)
  <2> DEFINE f == SubSeq(c, 1, size - 1)
  <2>1. /\ f \in Seq(0..MaxScore) /\ Len(f) = size - 1 /\ size - 1 \in Nat
        /\ \A i \in 1..size - 1 : f[i] = c[i]
    <3> DEFINE l == size - 1
               S == 0..MaxScore
    <3>1. l \in Nat /\ l <= Len(c) /\ l \in Int /\ 1 \in Int /\ Len(c) \in Nat /\ c \in Seq(S)
      BY <1>2
    <3> HIDE DEF l, S
    <3>2. \A i \in 1..l : c[i] \in S
      <4>1. \A i \in 1..l : i \in 1..Len(c)
        BY <3>1
      <4>2. \A i \in 1..Len(c) : c[i] \in S
        BY <3>1
      <4> QED
        BY <4>1, <4>2
    <3>3. /\ SubSeq(c, 1, l) \in Seq(S)
          /\ Len(SubSeq(c, 1, l)) = IF 1 <= l THEN l - 1 + 1 ELSE 0
          /\ \A i \in 1..l - 1 + 1 : SubSeq(c, 1, l)[i] = c[1 + i - 1]
      BY <3>1, <3>2, SubSeqProperties
    <3>4. /\ Len(SubSeq(c, 1, l)) = l /\ \A i \in 1..l : SubSeq(c, 1, l)[i] = c[i]
      BY <3>1, <3>3
    <3> QED
      BY <3>1, <3>3, <3>4 DEF l, S
  <2>2. \A i \in 1..Len(f) : f[i] \in Scores
    BY <1>2, <2>1
  <2>3. k = StackQueue!Inserted(f, s)
    BY <1>2 DEF StackQueue!Front
  <2> HIDE DEF f
  <2> QED
    BY <2>1, <2>2, <2>3, InsertedScored
<1>3. CASE k = c
  BY <1>3
<1> QED
  BY <1>1, <1>2, <1>3 DEF KeptOf

\* The best word moves from the local stack to the stack.
LEMMA PushKeeps ==
  ASSUME BottomHasAbove, SearchInv, Push
  PROVE  SearchInv' /\ StackStep /\ UNCHANGED ScoresOf(result)
<1> DEFINE U == ScoresOf(stack)
           V == ScoresOf(local)
           W == ScoresOf(result)
<1> DEFINE n == local.start
           t == TopOff(mem, local)
           p == Put(t.mem, stack, n, StackSize)
<1>1. /\ pc \in {"words", "local"} /\ n # NULL /\ pc' = "local"
      /\ mem' = p.mem /\ stack' = p.list /\ local' = t.list
      /\ UNCHANGED <<result, now, now_noise, counters, envelope, output>>
  BY DEF Push
<1>2. /\ mem \in Memory /\ local.num \in Nat /\ 0 < local.num /\ stack.num \in Nat
      /\ Held(mem, ListsOf(stack, local, result), ListsOf(U, V, W), now, now_noise, NULL)
  <2>1. mem \in Memory /\ local.num \in Nat /\ (local.start = NULL <=> local.num = 0) /\ stack.num \in Nat
    BY SearchFacts DEF SearchInv
  <2> QED
    BY <1>1, <2>1 DEF SearchInv, PlaceInv
<1>2a. V \in Seq(0..MaxScore) /\ Len(V) = local.num /\ \A i \in 1..Len(V) : V[i] \in Scores
  BY SearchFacts DEF SearchInv, ScoredInv
<1> HIDE DEF U, V, W
<1>3. /\ n \in Nodes
      /\ Held(t.mem, ListsOf(stack, t.list, result), ListsOf(U, Tail(V), W), now, now_noise, n)
      /\ V # << >> /\ mem.node[n].score = V[1]
      /\ t.list.num = local.num - 1
      /\ \A x \in Nodes : SameHypothesis(t.mem.node[x], mem.node[x])
  BY <1>2, LocalTop
<1>4. /\ stack.num <= StackSize /\ local.num <= Vocab /\ now \in 0..Room
      /\ (now # NULL => mem.node[now].seqnum < MaxSeqNum)
  BY DEF SearchInv, LimitInv
<1> DEFINE tm == t.mem
           tl == t.list
           T == Tail(V)
<1>5. Held(tm, ListsOf(stack, tl, result), ListsOf(U, T, W), now, now_noise, n)
  BY <1>3
<1>5a. tm.node[n].score = V[1] /\ V[1] \in Scores
  <2>1. tm.node[n].score = mem.node[n].score
    BY <1>3 DEF SameHypothesis
  <2>2. 1 \in 1..Len(V)
    BY <1>2, <1>2a
  <2> QED
    BY <1>2a, <1>3, <2>1, <2>2
<1>5b. \A i \in 1..Len(T) : T[i] \in Scores
  BY <1>2a, <1>3, TailScored
<1> HIDE DEF n, tm, tl, T
<1> DEFINE pp == Put(tm, stack, n, StackSize)
<1>6. /\ \E k : /\ KeptOf(U, tm.node[n].score, StackSize, k)
                /\ Held(pp.mem, ListsOf(pp.list, tl, result), ListsOf(k, T, W), now, now_noise, NULL)
      /\ pp.list.num \in Nat /\ pp.list.num <= StackSize
      /\ now \in Nodes => pp.mem.node[now] = tm.node[now]
  <2>1. StackSize \in Nat /\ StackSize # 0 /\ 1 < StackSize
    BY SizesAre DEF BottomHasAbove
  <2> QED
    BY <1>2, <1>3, <1>4, <1>5, <2>1, StackPut
<1>7. mem' = pp.mem /\ stack' = pp.list /\ local' = tl
  BY <1>1 DEF tm, tl
<1> HIDE DEF pp, t, p
<1>8. /\ PlaceInv' /\ KeptOf(U, V[1], StackSize, ScoresOf(stack)')
      /\ ScoresOf(local)' = T /\ ScoresOf(result)' = W
  <2>1. PICK k : /\ KeptOf(U, V[1], StackSize, k)
                 /\ Held(pp.mem, ListsOf(pp.list, tl, result), ListsOf(k, T, W), now, now_noise, NULL)
    BY <1>5a, <1>6
  <2>2. Held(mem', ListsOf(stack', local', result'), ListsOf(k, T, W), now', now_noise', NULL)
    BY <1>1, <1>7, <2>1
  <2>3. PlaceInv' /\ ScoresOf(stack)' = k /\ ScoresOf(local)' = T /\ ScoresOf(result)' = W
    BY <2>2, PlaceThen
  <2> QED
    BY <2>1, <2>3
<1>9. PhaseInv'
  BY <1>1 DEF PhaseInv, SearchInv, counters
<1>10. LimitInv'
  <2>1. now # NULL => mem'.node[now].seqnum < MaxSeqNum
    <3>1. SUFFICES ASSUME now # NULL PROVE mem'.node[now].seqnum < MaxSeqNum
      OBVIOUS
    <3>2. now \in Nodes
      BY <1>4, <3>1, RoomIs
    <3>3. SameHypothesis(tm.node[now], mem.node[now])
      BY <1>3, <3>2 DEF tm
    <3> QED
      BY <1>4, <1>6, <1>7, <3>1, <3>2, <3>3 DEF SameHypothesis
  <2>2. stack'.num <= StackSize /\ local'.num <= Vocab
    <3>1. tl.num = local.num - 1
      BY <1>3 DEF tl
    <3> QED
      BY <1>2, <1>4, <1>6, <1>7, <3>1, SizesAre
  <2>3. UNCHANGED <<result, now, now_noise, finishnum>>
    BY <1>1 DEF counters
  <2> QED
    BY <2>1, <2>2, <2>3 DEF LimitInv, SearchInv
<1>11. CountInv'
  BY <1>1 DEF CountInv, SearchInv, counters, envelope, output
<1>12. ScoredInv'
  BY <1>5b, <1>8 DEF ScoredInv
<1>13. StackStep
  <2> DEFINE z == V[1]
  <2>1. z \in Scores /\ KeptOf(ScoresOf(stack), z, StackSize, ScoresOf(stack)')
    BY <1>5a, <1>8 DEF U
  <2> HIDE DEF z
  <2> QED
    BY <2>1, QueuePush
<1> QED
  BY <1>8, <1>9, <1>10, <1>11, <1>12, <1>13 DEF SearchInv, W

\* The expansion ends: both hypotheses are freed.
LEMMA ExpandedKeeps ==
  ASSUME SearchInv, Expanded
  PROVE  SearchInv' /\ UNCHANGED ScoresOf(stack) /\ UNCHANGED ScoresOf(result)
<1> DEFINE m == IF now_noise = NULL THEN mem ELSE Freed(mem, now_noise)
           L == ListsOf(stack, local, result)
           C == ListsOf(ScoresOf(stack), ScoresOf(local), ScoresOf(result))
<1>1. /\ pc \in {"words", "local"} /\ local.start = NULL
      /\ mem' = IF now = NULL THEN m ELSE Freed(m, now)
      /\ now' = NULL /\ now_noise' = NULL /\ pc' = "pop"
      /\ UNCHANGED <<lists, counters, envelope, output>>
  BY DEF Expanded
<1>2. /\ Held(mem, L, C, now, now_noise, NULL) /\ now \in 0..Room /\ now_noise \in 0..Room
      /\ local.num = 0
  BY <1>1, SearchFacts DEF SearchInv, PlaceInv, LimitInv
<1> HIDE DEF L, C
<1>3. Held(m, L, C, now, NULL, NULL)
  <2>1. CASE now_noise = NULL
    BY <1>2, <2>1
  <2>2. CASE now_noise # NULL
    <3>1. now_noise \in Nodes
      BY <1>2, <2>2, RoomIs
    <3>2. Held(Freed(mem, now_noise), L, C, now, NULL, NULL)
      BY <1>2, <3>1, NoiseFreed
    <3> QED
      BY <2>2, <3>2
  <2> QED
    BY <2>1, <2>2
<1> HIDE DEF m
<1>4. Held(mem', L, C, NULL, NULL, NULL)
  <2>1. CASE now = NULL
    BY <1>1, <1>3, <2>1
  <2>2. CASE now # NULL
    <3>1. now \in Nodes
      BY <1>2, <2>2, RoomIs
    <3>2. Held(Freed(m, now), L, C, NULL, NULL, NULL)
      BY <1>3, <3>1, NowFreed
    <3> QED
      BY <1>1, <2>2, <3>2
  <2> QED
    BY <2>1, <2>2
<1>5. /\ PlaceInv' /\ UNCHANGED ScoresOf(stack) /\ UNCHANGED ScoresOf(local)
      /\ UNCHANGED ScoresOf(result)
  <2> DEFINE U == ScoresOf(stack)
             V == ScoresOf(local)
             W == ScoresOf(result)
  <2>1. Held(mem', ListsOf(stack', local', result'), ListsOf(U, V, W), now', now_noise', NULL)
    BY <1>1, <1>4 DEF lists, L, C
  <2> HIDE DEF U, V, W
  <2>2. PlaceInv' /\ ScoresOf(stack)' = U /\ ScoresOf(local)' = V /\ ScoresOf(result)' = W
    BY <2>1, PlaceThen
  <2> QED
    BY <2>2 DEF U, V, W
<1>6. PhaseInv'
  BY <1>1, <1>2 DEF PhaseInv, SearchInv, counters, lists
<1>7. LimitInv'
  BY <1>1, RoomIs DEF LimitInv, SearchInv, counters, lists
<1>8. CountInv'
  BY <1>1 DEF CountInv, SearchInv, counters, envelope, output
<1>9. ScoredInv'
  BY <1>5 DEF ScoredInv, SearchInv
<1> QED
  BY <1>5, <1>6, <1>7, <1>8, <1>9 DEF SearchInv

\* The steps that only go on to another phase.
LEMMA OnwardKeeps ==
  ASSUME SearchInv, Exhausted \/ NotAccepted
  PROVE  SearchInv' /\ UNCHANGED ScoresOf(stack) /\ UNCHANGED ScoresOf(result)
<1>1. /\ (pc = "pop" /\ pc' = "output") \/ (pc = "accept" /\ pc' = "words")
      /\ UNCHANGED <<mem, lists, now, now_noise, counters, envelope, output>>
  BY DEF Exhausted, NotAccepted
<1>2. /\ PlaceInv' /\ UNCHANGED ScoresOf(stack) /\ UNCHANGED ScoresOf(local)
      /\ UNCHANGED ScoresOf(result)
  BY <1>1, PlaceSame DEF SearchInv, lists
<1>3. PhaseInv'
  BY <1>1 DEF PhaseInv, SearchInv, lists, counters
<1>4. LimitInv'
  BY <1>1 DEF LimitInv, SearchInv, lists, counters
<1>5. CountInv'
  BY <1>1 DEF CountInv, SearchInv, counters, envelope, output
<1>6. ScoredInv'
  BY <1>2 DEF ScoredInv, SearchInv
<1> QED
  BY <1>2, <1>3, <1>4, <1>5, <1>6 DEF SearchInv

\* A sentence is given or freed: the first of the result stack.
LEMMA OutputKeeps ==
  ASSUME SearchInv, Output
  PROVE  /\ SearchInv' /\ UNCHANGED ScoresOf(stack)
         /\ ScoresOf(result) # << >> /\ ScoresOf(result)' = Tail(ScoresOf(result))
         /\ mem.node[result.start].score = ScoresOf(result)[1]
<1> DEFINE U == ScoresOf(stack)
           V == ScoresOf(local)
           W == ScoresOf(result)
<1> DEFINE n == result.start
           t == TopOff(mem, result)
<1>1. /\ pc = "output" /\ n # NULL /\ mem' = Freed(t.mem, n) /\ result' = t.list
      /\ sent' = (IF Len(sent) < OutputMax THEN Append(sent, mem.node[n].score) ELSE sent)
      /\ status' = "success"
      /\ UNCHANGED <<stack, local, now, now_noise, pc, counters, envelope>>
  BY DEF Output
<1>2. /\ mem \in Memory /\ result.num \in Nat /\ 0 < result.num
      /\ Held(mem, ListsOf(stack, local, result), ListsOf(U, V, W), now, now_noise, NULL)
  <2>1. mem \in Memory /\ result.num \in Nat /\ (result.start = NULL <=> result.num = 0)
    BY SearchFacts DEF SearchInv
  <2> QED
    BY <1>1, <2>1 DEF SearchInv, PlaceInv
<1> HIDE DEF U, V, W
<1>3. /\ n \in Nodes
      /\ Held(t.mem, ListsOf(stack, local, t.list), ListsOf(U, V, Tail(W)), now, now_noise, n)
      /\ W # << >> /\ mem.node[n].score = W[1]
      /\ t.list.num = result.num - 1
  BY <1>2, ResultTop
<1> DEFINE tm == t.mem
           tl == t.list
           T == Tail(W)
<1>4. Held(tm, ListsOf(stack, local, tl), ListsOf(U, V, T), now, now_noise, n) /\ tl.num = result.num - 1
  BY <1>3
<1>5. mem' = Freed(tm, n) /\ result' = tl
  BY <1>1
<1>5a. mem.node[result.start].score = W[1]
  BY <1>3
<1> HIDE DEF n, t, tm, tl, T
<1>6. Held(Freed(tm, n), ListsOf(stack, local, tl), ListsOf(U, V, T), now, now_noise, NULL)
  BY <1>3, <1>4, HandFreed
<1>7. PlaceInv' /\ ScoresOf(stack)' = U /\ ScoresOf(local)' = V /\ ScoresOf(result)' = T
  <2>1. Held(mem', ListsOf(stack', local', result'), ListsOf(U, V, T), now', now_noise', NULL)
    BY <1>1, <1>5, <1>6
  <2> QED
    BY <2>1, PlaceThen
<1>8. PhaseInv'
  BY <1>1 DEF PhaseInv, SearchInv, counters
<1>9. LimitInv'
  <2>1. now = NULL /\ result.num <= finishnum /\ finishnum \in 0..NBest
    BY <1>1 DEF SearchInv, PhaseInv, LimitInv
  <2>2. result'.num <= finishnum
    BY <1>2, <1>4, <1>5, <2>1, SizesAre
  <2> QED
    BY <1>1, <2>1, <2>2 DEF LimitInv, SearchInv, counters
<1>10. CountInv'
  <2>1. mem.node[n].score \in 0..MaxScore
    BY <1>2, <1>3 DEF Memory, Hypothesis
  <2>2. sent \in Seq(0..MaxScore) /\ Len(sent) <= OutputMax
    BY DEF SearchInv, CountInv
  <2>3. sent' \in Seq(0..MaxScore) /\ Len(sent') <= OutputMax
    <3>1. CASE Len(sent) < OutputMax
      <4>1. sent' = Append(sent, mem.node[n].score)
        BY <1>1, <3>1
      <4>2. sent' \in Seq(0..MaxScore) /\ Len(sent') = Len(sent) + 1
        BY <2>1, <2>2, <4>1
      <4> QED
        BY <2>2, <3>1, <4>2, SizesAre
    <3>2. CASE ~(Len(sent) < OutputMax)
      BY <1>1, <2>2, <3>2
    <3> QED
      BY <3>1, <3>2
  <2> QED
    BY <1>1, <2>3 DEF CountInv, SearchInv, counters, envelope
<1>11. ScoredInv'
  BY <1>7 DEF ScoredInv, SearchInv, V
<1> QED
  BY <1>3, <1>5a, <1>7, <1>8, <1>9, <1>10, <1>11 DEF SearchInv, U, W, T

\* What is left on the stack is freed.
LEMMA FreeRestKeeps ==
  ASSUME SearchInv, FreeRest
  PROVE  SearchInv' /\ StackStep /\ UNCHANGED ScoresOf(result)
<1> DEFINE U == ScoresOf(stack)
           V == ScoresOf(local)
           W == ScoresOf(result)
<1>1. /\ pc = "output" /\ result.start = NULL
      /\ UNCHANGED <<local, result, now, now_noise, counters, envelope, output>>
  BY DEF FreeRest
<1>2. /\ mem \in Memory /\ stack.num \in Nat /\ (stack.start = NULL <=> stack.num = 0) /\ result.num = 0
      /\ Held(mem, ListsOf(stack, local, result), ListsOf(U, V, W), now, now_noise, NULL)
  BY <1>1, SearchFacts DEF SearchInv, PlaceInv
<1>3. now = NULL
  BY <1>1 DEF SearchInv, PhaseInv
<1>4. CountInv'
  BY <1>1 DEF CountInv, SearchInv, counters, envelope, output
<1>5. CASE stack.start # NULL
  <2> DEFINE n == stack.start
             t == TopOff(mem, stack)
             tm == t.mem
             tl == t.list
             T == Tail(U)
  <2>1. mem' = Freed(tm, n) /\ stack' = tl /\ pc' = pc
    BY <1>5 DEF FreeRest, MemPopped
  <2> HIDE DEF U, V, W
  <2>2. /\ n \in Nodes /\ Held(tm, ListsOf(tl, local, result), ListsOf(T, V, W), now, now_noise, n)
        /\ U # << >> /\ tl.num = stack.num - 1
    BY <1>2, <1>5, StackTop
  <2> HIDE DEF n, t, tm, tl, T
  <2>3. Held(Freed(tm, n), ListsOf(tl, local, result), ListsOf(T, V, W), now, now_noise, NULL)
    BY <2>2, HandFreed
  <2>4. PlaceInv' /\ ScoresOf(stack)' = T /\ ScoresOf(local)' = V /\ ScoresOf(result)' = W
    <3>1. Held(mem', ListsOf(stack', local', result'), ListsOf(T, V, W), now', now_noise', NULL)
      BY <1>1, <2>1, <2>3
    <3> QED
      BY <3>1, PlaceThen
  <2>5. PhaseInv'
    BY <1>1, <2>1 DEF PhaseInv, SearchInv, counters
  <2>6. LimitInv'
    <3>1. stack'.num <= StackSize
      BY <1>2, <2>1, <2>2, SizesAre DEF SearchInv, LimitInv
    <3> QED
      BY <1>1, <1>3, <3>1 DEF LimitInv, SearchInv, counters
  <2>7. ScoredInv'
    BY <2>4 DEF ScoredInv, SearchInv, V
  <2>8. StackStep
    <3>1. ScoresOf(stack) # << >> /\ ScoresOf(stack)' = Tail(ScoresOf(stack))
      BY <2>2, <2>4 DEF U, T
    <3> QED
      BY <3>1, QueuePop
  <2> QED
    BY <1>4, <2>4, <2>5, <2>6, <2>7, <2>8 DEF SearchInv, W
<1>6. CASE stack.start = NULL
  <2>1. UNCHANGED <<mem, stack>> /\ pc' = "done"
    BY <1>6 DEF FreeRest
  <2>2. stack.num = 0
    BY <1>2, <1>6
  <2>3. /\ PlaceInv' /\ UNCHANGED ScoresOf(stack) /\ UNCHANGED ScoresOf(local)
        /\ UNCHANGED ScoresOf(result)
    BY <1>1, <2>1, PlaceSame DEF SearchInv
  <2>4. PhaseInv'
    BY <1>1, <1>2, <2>1, <2>2 DEF PhaseInv, SearchInv, counters
  <2>5. LimitInv'
    BY <1>1, <2>1 DEF LimitInv, SearchInv, counters
  <2>6. ScoredInv'
    BY <2>3 DEF ScoredInv, SearchInv
  <2> QED
    BY <1>4, <2>3, <2>4, <2>5, <2>6 DEF SearchInv, StackStep
<1> QED
  BY <1>5, <1>6

\* Room for one more node in the phases that take one.
LEMMA RoomIn ==
  ASSUME NEW m, NEW st, NEW lo, NEW re, NEW C, NEW a, NEW b,
         Held(m, ListsOf(st, lo, re), C, a, b, NULL),
         st.num \in Nat, lo.num \in Nat, re.num \in Nat, st.num + lo.num + re.num + 2 < Room
  PROVE  m.free # {}
<1> DEFINE L == ListsOf(st, lo, re)
<1>1. L["stack"] = st /\ L["local"] = lo /\ L["result"] = re
  BY DEF ListsOf, ListIds
<1>2. Held(m, L, C, a, b, NULL)
  OBVIOUS
<1> HIDE DEF L
<1>3. L["stack"].num + L["local"].num + L["result"].num + 2 < Room
  BY <1>1
<1>4. {a, b, NULL} \ {NULL} \subseteq {a, b}
  OBVIOUS
<1> QED
  BY <1>2, <1>3, <1>4, RoomLeft

\* Without a sentence a node is made for the result and freed.
LEMMA NoResultKeeps ==
  ASSUME SearchInv, NoResult
  PROVE  SearchInv' /\ UNCHANGED ScoresOf(stack) /\ UNCHANGED ScoresOf(result)
<1> DEFINE U == ScoresOf(stack)
           V == ScoresOf(local)
           W == ScoresOf(result)
<1> DEFINE n == NewNode(mem)
           w == With(mem, LogZero, 1, FALSE)
           L == ListsOf(stack, local, result)
           C == ListsOf(U, V, W)
<1>1. /\ pc = "output" /\ finishnum = 0 /\ mem' = Freed(w, n)
      /\ (sent' = <<LogZero>> /\ status' = "success") \/ (sent' = sent /\ status' = "fail")
      /\ UNCHANGED <<lists, now, now_noise, pc, counters, envelope>>
  BY DEF NoResult
<1>2. /\ stack.num \in Nat /\ local.num \in Nat /\ result.num \in Nat
      /\ Held(mem, L, C, now, now_noise, NULL)
  BY SearchFacts DEF SearchInv, PlaceInv
<1> HIDE DEF C
<1>3. now = NULL /\ now_noise = NULL /\ local.num = 0 /\ result.num = 0 /\ stack.num <= StackSize
  <2>1. now = NULL /\ now_noise = NULL /\ local.num = 0 /\ result.num <= 0 /\ stack.num <= StackSize
    BY <1>1 DEF SearchInv, PhaseInv, LimitInv
  <2> QED
    BY <1>2, <2>1
<1>4. mem.free # {}
  <2>1. stack.num + local.num + result.num + 2 < Room
    BY <1>2, <1>3, SizesAre
  <2> QED
    BY <1>2, <2>1, RoomIn
<1>5. n \in Nodes /\ Held(w, L, C, now, now_noise, n)
  <2>1. LogZero \in 0..MaxScore /\ 1 \in 0..MaxSeqNum /\ FALSE \in BOOLEAN
    BY SizesAre
  <2> QED
    BY <1>2, <1>4, <2>1, HandNew
<1> HIDE DEF n, w
<1>6. Held(Freed(w, n), L, C, now, now_noise, NULL)
  BY <1>5, HandFreed
<1> HIDE DEF U, V, W
<1>7. PlaceInv' /\ ScoresOf(stack)' = U /\ ScoresOf(local)' = V /\ ScoresOf(result)' = W
  <2>1. Held(mem', ListsOf(stack', local', result'), ListsOf(U, V, W), now', now_noise', NULL)
    BY <1>1, <1>6 DEF lists, C
  <2> QED
    BY <2>1, PlaceThen
<1>8. PhaseInv'
  BY <1>1 DEF PhaseInv, SearchInv, counters, lists
<1>9. LimitInv'
  BY <1>1, <1>3 DEF LimitInv, SearchInv, counters, lists
<1>10. CountInv'
  <2>1. sent' \in Seq(0..MaxScore) /\ Len(sent') <= OutputMax
    <3>1. CASE sent' = <<LogZero>>
      <4>1. LogZero \in 0..MaxScore /\ 1 <= OutputMax
        BY SizesAre
      <4> QED
        BY <3>1, <4>1
    <3>2. CASE sent' = sent
      BY <3>2 DEF SearchInv, CountInv
    <3> QED
      BY <1>1, <3>1, <3>2
  <2> QED
    BY <1>1, <2>1 DEF CountInv, SearchInv, counters, envelope
<1>11. ScoredInv'
  BY <1>7 DEF ScoredInv, SearchInv, V
<1> QED
  BY <1>7, <1>8, <1>9, <1>10, <1>11 DEF SearchInv, U, W

\* The copy of a sentence goes back to the stack, or both nodes go.
LEMMA AcceptedKeeps ==
  ASSUME BottomHasAbove, SearchInv, NEW score \in 0..MaxScore, Accepted(score)
  PROVE  SearchInv' /\ StackStep /\ UNCHANGED ScoresOf(result)
<1> DEFINE U == ScoresOf(stack)
           V == ScoresOf(local)
           W == ScoresOf(result)
<1> DEFINE n == NewNode(mem)
           l == mem.node[now].seqnum
           m == With(mem, score, l, TRUE)
           p == Put(m, stack, n, StackSize)
           L == ListsOf(stack, local, result)
           C == ListsOf(U, V, W)
<1>1. /\ pc = "accept"
      /\ \/ mem' = Freed(Freed(m, n), now) /\ now' = NULL /\ pc' = "pop" /\ UNCHANGED stack
         \/ score # LogZero /\ mem' = p.mem /\ stack' = p.list /\ pc' = "words" /\ UNCHANGED now
      /\ UNCHANGED <<local, result, now_noise, counters, envelope, output>>
  BY DEF Accepted
<1>2. /\ stack.num \in Nat /\ local.num \in Nat /\ result.num \in Nat
      /\ Held(mem, L, C, now, now_noise, NULL)
  BY SearchFacts DEF SearchInv, PlaceInv
<1> HIDE DEF C
<1>3. /\ now # NULL /\ now_noise = NULL /\ local.num = 0 /\ finishnum < NBest
      /\ result.num <= finishnum /\ finishnum \in 0..NBest /\ stack.num <= StackSize
      /\ now \in 0..Room /\ l < MaxSeqNum
  BY <1>1 DEF SearchInv, PhaseInv, LimitInv
<1>4. now \in Nodes /\ l \in 0..MaxSeqNum
  <2>1. now \in Nodes
    BY <1>3, RoomIs
  <2>2. mem \in Memory
    BY SearchFacts DEF SearchInv
  <2> QED
    BY <2>1, <2>2 DEF Memory, Hypothesis
<1>5. mem.free # {}
  <2>1. stack.num + local.num + result.num + 2 < Room
    BY <1>2, <1>3, SizesAre
  <2> QED
    BY <1>2, <2>1, RoomIn
<1>6. /\ n \in Nodes /\ n # now /\ Held(m, L, C, now, now_noise, n) /\ m.node[n].score = score
      /\ \A x \in Nodes : x # n => m.node[x] = mem.node[x]
  <2> HIDE DEF l, L
  <2> DEFINE e == TRUE
  <2>1. e \in BOOLEAN /\ Held(mem, L, C, now, NULL, NULL) /\ l \in 0..MaxSeqNum
    BY <1>2, <1>3, <1>4
  <2> HIDE DEF e
  <2>2. /\ NewNode(mem) \in Nodes /\ NewNode(mem) # now
        /\ Held(With(mem, score, l, e), L, C, now, NULL, NewNode(mem))
        /\ With(mem, score, l, e).node[NewNode(mem)].score = score
        /\ \A x \in Nodes : x # NewNode(mem) => With(mem, score, l, e).node[x] = mem.node[x]
    BY <1>5, <2>1, HandNew
  <2> QED
    BY <1>3, <2>2 DEF e
<1> HIDE DEF m, n
<1>7. CountInv'
  BY <1>1 DEF CountInv, SearchInv, counters, envelope, output
<1>8. CASE mem' = Freed(Freed(m, n), now) /\ now' = NULL /\ pc' = "pop" /\ UNCHANGED stack
  <2> DEFINE f == Freed(m, n)
  <2>1. Held(f, L, C, now, now_noise, NULL)
    BY <1>6, HandFreed
  <2> HIDE DEF f
  <2>2. Held(Freed(f, now), L, C, NULL, now_noise, NULL)
    BY <1>4, <2>1, NowFreed
  <2>3. mem' = Freed(f, now)
    BY <1>8 DEF f
  <2> HIDE DEF U, V, W
  <2>4. PlaceInv' /\ ScoresOf(stack)' = U /\ ScoresOf(local)' = V /\ ScoresOf(result)' = W
    <3>1. Held(mem', ListsOf(stack', local', result'), ListsOf(U, V, W), now', now_noise', NULL)
      BY <1>1, <1>8, <2>2, <2>3 DEF C
    <3> QED
      BY <3>1, PlaceThen
  <2>5. PhaseInv'
    BY <1>1, <1>3, <1>8 DEF PhaseInv, counters
  <2>6. LimitInv'
    BY <1>1, <1>8, RoomIs DEF LimitInv, SearchInv, counters
  <2>7. ScoredInv'
    BY <2>4 DEF ScoredInv, SearchInv, V
  <2> QED
    BY <1>7, <2>4, <2>5, <2>6, <2>7 DEF SearchInv, StackStep, U, W
<1>9. CASE score # LogZero /\ mem' = p.mem /\ stack' = p.list /\ pc' = "words" /\ UNCHANGED now
  <2> HIDE DEF U, V, W
  <2>0. Held(m, ListsOf(stack, local, result), ListsOf(U, V, W), now, now_noise, n)
    BY <1>6 DEF C
  <2>1. /\ \E k : /\ KeptOf(U, m.node[n].score, StackSize, k)
                  /\ Held(p.mem, ListsOf(p.list, local, result), ListsOf(k, V, W), now, now_noise, NULL)
        /\ p.list.num \in Nat /\ p.list.num <= StackSize
        /\ now \in Nodes => p.mem.node[now] = m.node[now]
    <3>1. StackSize \in Nat /\ StackSize # 0 /\ 1 < StackSize
      BY SizesAre DEF BottomHasAbove
    <3> QED
      BY <1>2, <1>3, <1>6, <2>0, <3>1, StackPut
  <2> HIDE DEF p
  <2>2. /\ PlaceInv' /\ KeptOf(U, score, StackSize, ScoresOf(stack)')
        /\ ScoresOf(local)' = V /\ ScoresOf(result)' = W
    <3>1. PICK k : /\ KeptOf(U, score, StackSize, k)
                   /\ Held(p.mem, ListsOf(p.list, local, result), ListsOf(k, V, W), now, now_noise, NULL)
      BY <1>6, <2>1
    <3>2. Held(mem', ListsOf(stack', local', result'), ListsOf(k, V, W), now', now_noise', NULL)
      BY <1>1, <1>9, <3>1
    <3>3. PlaceInv' /\ ScoresOf(stack)' = k /\ ScoresOf(local)' = V /\ ScoresOf(result)' = W
      BY <3>2, PlaceThen
    <3> QED
      BY <3>1, <3>3
  <2>3. PhaseInv'
    BY <1>1, <1>3, <1>9 DEF PhaseInv, counters
  <2>4. LimitInv'
    <3>1. mem'.node[now].seqnum < MaxSeqNum
      BY <1>3, <1>4, <1>6, <1>9, <2>1
    <3> QED
      BY <1>1, <1>9, <2>1, <3>1 DEF LimitInv, SearchInv, counters
  <2>5. ScoredInv'
    BY <2>2 DEF ScoredInv, SearchInv, V
  <2>6. StackStep
    <3>1. score \in Scores
      BY <1>9, SizesAre DEF Scores
    <3>2. KeptOf(ScoresOf(stack), score, StackSize, ScoresOf(stack)')
      BY <2>2 DEF U
    <3> QED
      BY <3>1, <3>2, QueuePush
  <2> QED
    BY <1>7, <2>2, <2>3, <2>4, <2>5, <2>6 DEF SearchInv, W
<1> QED
  BY <1>1, <1>8, <1>9

\* A word is put on the local stack, which may be full; the first after a pause
\* makes a second node.
LEMMA NextWordKeeps ==
  ASSUME BottomHasAbove, SearchInv, NEW score \in 0..MaxScore, NEW sp \in BOOLEAN, NextWord(score, sp)
  PROVE  SearchInv' /\ UNCHANGED ScoresOf(stack) /\ UNCHANGED ScoresOf(result)
<1> DEFINE U == ScoresOf(stack)
           V == ScoresOf(local)
           W == ScoresOf(result)
<1> DEFINE seqnum == IF now = NULL THEN 1 ELSE mem.node[now].seqnum + 1
           noisy == sp /\ now_noise = NULL
           m == IF noisy THEN With(mem, LogZero, seqnum - 1, FALSE) ELSE mem
           n == NewNode(m)
           w == With(m, score, seqnum, FALSE)
           p == IF score = LogZero THEN [mem |-> Freed(w, n), list |-> local] ELSE Put(w, local, n, Vocab)
           L == ListsOf(stack, local, result)
           C == ListsOf(U, V, W)
<1>1. /\ pc = "words"
      /\ now_noise' = IF noisy THEN NewNode(mem) ELSE now_noise
      /\ mem' = p.mem /\ local' = p.list
      /\ UNCHANGED <<stack, result, now, pc, counters, envelope, output>>
  BY DEF NextWord
<1>2. /\ stack.num \in Nat /\ local.num \in Nat /\ result.num \in Nat /\ mem \in Memory
      /\ Held(mem, L, C, now, now_noise, NULL)
  BY SearchFacts DEF SearchInv, PlaceInv
<1>2a. V \in Seq(0..MaxScore) /\ Len(V) = local.num /\ \A i \in 1..Len(V) : V[i] \in Scores
  BY SearchFacts DEF SearchInv, ScoredInv
<1> HIDE DEF C
<1>3. /\ finishnum < NBest /\ result.num <= finishnum /\ finishnum \in 0..NBest /\ stack.num <= StackSize
      /\ local.num <= Vocab /\ now \in 0..Room /\ now_noise \in 0..Room
      /\ now # NULL => mem.node[now].seqnum < MaxSeqNum
  BY <1>1 DEF SearchInv, PhaseInv, LimitInv
<1>4. stack.num + local.num + result.num + 2 < Room
  BY <1>1, <1>2, <1>3, SizesAre
<1>5. seqnum \in 0..MaxSeqNum /\ seqnum - 1 \in 0..MaxSeqNum
  <2>1. CASE now = NULL
    BY <2>1, SizesAre
  <2>2. CASE now # NULL
    <3>1. now \in Nodes
      BY <1>3, <2>2, RoomIs
    <3> DEFINE l == mem.node[now].seqnum
    <3>2. l \in 0..MaxSeqNum /\ l < MaxSeqNum
      BY <1>2, <1>3, <2>2, <3>1 DEF Memory, Hypothesis
    <3>3. seqnum = l + 1
      BY <2>2
    <3> HIDE DEF l, seqnum
    <3> QED
      BY <3>2, <3>3, SizesAre
  <2> QED
    BY <2>1, <2>2
<1> HIDE DEF seqnum, L
<1>6. /\ Held(m, L, C, now, now_noise', NULL) /\ now_noise' \in 0..Room
      /\ now # NULL => m.node[now] = mem.node[now]
  <2>1. CASE noisy
    <3> DEFINE k == seqnum - 1
               x == NewNode(mem)
               e == FALSE
               v == With(mem, LogZero, k, e)
    <3>1. mem.free # {}
      BY <1>2, <1>4, RoomIn DEF L
    <3>2. LogZero \in 0..MaxScore /\ k \in 0..MaxSeqNum /\ e \in BOOLEAN
          /\ Held(mem, L, C, now, NULL, NULL)
      BY <1>2, <1>5, <2>1, SizesAre
    <3> HIDE DEF k, e
    <3>3. /\ x \in Nodes /\ x # now /\ Held(v, L, C, now, NULL, x)
          /\ \A y \in Nodes : y # x => v.node[y] = mem.node[y]
      BY <3>1, <3>2, HandNew
    <3>4. m = v /\ now_noise' = x
      BY <1>1, <2>1 DEF k, e
    <3> HIDE DEF v, x
    <3>5. Held(v, L, C, now, x, NULL)
      BY <3>3, HandToNoise
    <3>6. now # NULL => now \in Nodes
      BY <1>3, RoomIs
    <3>7. now # NULL => v.node[now] = mem.node[now]
      BY <3>3, <3>6
    <3> HIDE DEF m
    <3> QED
      BY <3>3, <3>4, <3>5, <3>7, RoomIs
  <2>2. CASE ~noisy
    BY <1>1, <1>2, <1>3, <2>2
  <2> QED
    BY <2>1, <2>2
<1> HIDE DEF m, noisy
<1>7. m.free # {}
  BY <1>2, <1>4, <1>6, RoomIn DEF L
<1>8. /\ n \in Nodes /\ n # now /\ Held(w, L, C, now, now_noise', n) /\ w.node[n].score = score
      /\ \A x \in Nodes : x # n => w.node[x] = m.node[x]
  <2> DEFINE nn == now_noise'
             e == FALSE
             v == With(m, score, seqnum, e)
             z == NewNode(m)
  <2>1. Held(m, L, C, now, nn, NULL) /\ e \in BOOLEAN
    BY <1>6
  <2> HIDE DEF nn, e
  <2>2. /\ z \in Nodes /\ z # now /\ Held(v, L, C, now, nn, z) /\ v.node[z].score = score
        /\ \A x \in Nodes : x # z => v.node[x] = m.node[x]
    BY <1>5, <1>7, <2>1, HandNew
  <2>3. w = v /\ n = z
    BY DEF e
  <2> HIDE DEF w, n, v, z
  <2> QED
    BY <2>2, <2>3 DEF nn
<1> HIDE DEF w, n
<1>9. /\ \E k : /\ \A i \in 1..Len(k) : k[i] \in Scores
                /\ Held(p.mem, ListsOf(stack, p.list, result), ListsOf(U, k, W), now, now_noise', NULL)
      /\ p.list.num \in Nat /\ p.list.num <= Vocab
      /\ now \in Nodes => p.mem.node[now] = w.node[now]
  <2>1. CASE score = LogZero
    <3>1. p.mem = Freed(w, n) /\ p.list = local
      BY <2>1
    <3>2. Held(Freed(w, n), L, C, now, now_noise', NULL) /\ \A x \in Nodes : x # n => Freed(w, n).node[x] = w.node[x]
      BY <1>8, HandFreed
    <3> HIDE DEF p
    <3> QED
      BY <1>2, <1>2a, <1>3, <1>8, <3>1, <3>2, SizesAre DEF L, C
  <2>2. CASE score # LogZero
    <3> DEFINE pp == Put(w, local, n, Vocab)
               nn == now_noise'
    <3> HIDE DEF U, V, W
    <3>1. Held(w, ListsOf(stack, local, result), ListsOf(U, V, W), now, nn, n)
      BY <1>8 DEF L, C
    <3>2. Vocab \in Nat /\ Vocab # 0 /\ local.num <= Vocab /\ 1 < Vocab
      BY <1>3, SizesAre DEF BottomHasAbove
    <3> HIDE DEF nn
    <3>3. /\ \E k : /\ KeptOf(V, w.node[n].score, Vocab, k)
                    /\ Held(pp.mem, ListsOf(stack, pp.list, result), ListsOf(U, k, W), now, nn, NULL)
          /\ pp.list.num \in Nat /\ pp.list.num <= Vocab
          /\ now \in Nodes => pp.mem.node[now] = w.node[now]
      BY <1>2, <1>8, <3>1, <3>2, LocalPut
    <3>4. p = pp
      BY <2>2
    <3> HIDE DEF p, pp
    <3>5. PICK k : /\ KeptOf(V, score, Vocab, k)
                   /\ Held(p.mem, ListsOf(stack, p.list, result), ListsOf(U, k, W), now, nn, NULL)
      BY <1>8, <3>3, <3>4
    <3>6. score \in Scores
      BY <2>2, SizesAre DEF Scores
    <3>7. \A i \in 1..Len(k) : k[i] \in Scores
      BY <1>2a, <3>2, <3>5, <3>6, KeptScored
    <3> QED
      BY <3>3, <3>4, <3>5, <3>7 DEF nn
  <2> QED
    BY <2>1, <2>2
<1> HIDE DEF p
<1> HIDE DEF U, V, W
<1>10. PlaceInv' /\ ScoredInv' /\ ScoresOf(stack)' = U /\ ScoresOf(result)' = W
  <2>1. PICK k : /\ \A i \in 1..Len(k) : k[i] \in Scores
                 /\ Held(p.mem, ListsOf(stack, p.list, result), ListsOf(U, k, W), now, now_noise', NULL)
    BY <1>9
  <2>2. Held(mem', ListsOf(stack', local', result'), ListsOf(U, k, W), now', now_noise', NULL)
    BY <1>1, <2>1
  <2>3. PlaceInv' /\ ScoresOf(stack)' = U /\ ScoresOf(local)' = k /\ ScoresOf(result)' = W
    BY <2>2, PlaceThen
  <2> QED
    BY <2>1, <2>3 DEF ScoredInv
<1>11. PhaseInv'
  BY <1>1, <1>3 DEF PhaseInv, counters
<1>12. LimitInv'
  <2>1. now # NULL => mem'.node[now].seqnum < MaxSeqNum
    <3>1. now # NULL => now \in Nodes
      BY <1>3, RoomIs
    <3> QED
      BY <1>1, <1>3, <1>6, <1>8, <1>9, <3>1
  <2> QED
    BY <1>1, <1>3, <1>6, <1>9, <2>1 DEF LimitInv, counters
<1>13. CountInv'
  BY <1>1 DEF CountInv, SearchInv, counters, envelope, output
<1> QED
  BY <1>10, <1>11, <1>12, <1>13 DEF SearchInv, U, W

\* Without a pause on the trellis the two nodes made for the word go again.
LEMMA PauseOffKeeps ==
  ASSUME SearchInv, PauseOffTrellis
  PROVE  SearchInv' /\ UNCHANGED ScoresOf(stack) /\ UNCHANGED ScoresOf(result)
<1> DEFINE U == ScoresOf(stack)
           V == ScoresOf(local)
           W == ScoresOf(result)
<1> DEFINE k == mem.node[now].seqnum
           e == FALSE
           x == NewNode(mem)
           m == With(mem, LogZero, k, e)
           n == NewNode(m)
           w == With(m, LogZero, k, e)
           f == Freed(w, n)
           L == ListsOf(stack, local, result)
           C == ListsOf(U, V, W)
<1>1. /\ pc = "words" /\ now # NULL /\ now_noise = NULL /\ mem' = Freed(f, x)
      /\ UNCHANGED <<lists, now, now_noise, pc, counters, envelope, output>>
  BY DEF PauseOffTrellis
<1>2. /\ stack.num \in Nat /\ local.num \in Nat /\ result.num \in Nat /\ mem \in Memory
      /\ Held(mem, L, C, now, now_noise, NULL)
  BY SearchFacts DEF SearchInv, PlaceInv
<1> HIDE DEF C
<1>3. /\ finishnum < NBest /\ result.num <= finishnum /\ finishnum \in 0..NBest /\ stack.num <= StackSize
      /\ local.num <= Vocab /\ now \in 0..Room /\ mem.node[now].seqnum < MaxSeqNum
  BY <1>1 DEF SearchInv, PhaseInv, LimitInv
<1>4. stack.num + local.num + result.num + 2 < Room
  BY <1>2, <1>3, SizesAre
<1>5. now \in Nodes /\ k \in 0..MaxSeqNum /\ LogZero \in 0..MaxScore /\ e \in BOOLEAN
  <2>1. now \in Nodes
    BY <1>1, <1>3, RoomIs
  <2> QED
    BY <1>2, <2>1, SizesAre DEF Memory, Hypothesis
<1>6. mem.free # {}
  BY <1>2, <1>4, RoomIn
<1> HIDE DEF k, e, L
<1>7. /\ x \in Nodes /\ x # now /\ Held(m, L, C, now, NULL, x)
      /\ \A y \in Nodes : y # x => m.node[y] = mem.node[y]
  BY <1>1, <1>2, <1>5, <1>6, HandNew
<1> HIDE DEF m, x
<1>8. Held(m, L, C, now, x, NULL)
  BY <1>7, HandToNoise
<1>9. m.free # {}
  BY <1>2, <1>4, <1>8, RoomIn DEF L
<1>10. /\ n \in Nodes /\ n # now /\ Held(w, L, C, now, x, n)
       /\ \A y \in Nodes : y # n => w.node[y] = m.node[y]
  BY <1>5, <1>8, <1>9, HandNew
<1> HIDE DEF n, w
<1>11. Held(f, L, C, now, x, NULL) /\ \A y \in Nodes : y # n => f.node[y] = w.node[y]
  BY <1>10, HandFreed
<1>12. /\ Held(Freed(f, x), L, C, now, NULL, NULL)
       /\ \A y \in Nodes : y # x => Freed(f, x).node[y] = f.node[y]
  <2> HIDE DEF f
  <2>1. Held(Freed(f, x), L, C, now, NULL, NULL)
    BY <1>7, <1>11, NoiseFreed
  <2>2. f \in Memory
    BY <1>11 DEF Held, Holds
  <2> QED
    BY <1>7, <2>1, <2>2, FreedFacts
<1> HIDE DEF f
<1> HIDE DEF U, V, W
<1>13. PlaceInv' /\ ScoresOf(stack)' = U /\ ScoresOf(local)' = V /\ ScoresOf(result)' = W
  <2>1. Held(mem', ListsOf(stack', local', result'), ListsOf(U, V, W), now', now_noise', NULL)
    BY <1>1, <1>12 DEF lists, L, C
  <2> QED
    BY <2>1, PlaceThen
<1>14. PhaseInv'
  BY <1>1 DEF PhaseInv, SearchInv, counters, lists
<1>15. LimitInv'
  <2>1. mem'.node[now] = mem.node[now]
    BY <1>1, <1>5, <1>7, <1>10, <1>11, <1>12
  <2> QED
    BY <1>1, <2>1 DEF LimitInv, SearchInv, counters, lists
<1>16. CountInv'
  BY <1>1 DEF CountInv, SearchInv, counters, envelope, output
<1>17. ScoredInv'
  BY <1>13 DEF ScoredInv, SearchInv, V
<1> QED
  BY <1>13, <1>14, <1>15, <1>16, <1>17 DEF SearchInv, U, W

\* Every step keeps the invariant and is a step of the queue or none.
LEMMA SearchKeeps == BottomHasAbove /\ SearchInv /\ [Next]_vars => SearchInv' /\ StackStep
<1> SUFFICES ASSUME BottomHasAbove, SearchInv, [Next]_vars PROVE SearchInv' /\ StackStep
  OBVIOUS
<1>1. ASSUME NEW score \in 0..MaxScore, NEW sp \in BOOLEAN, NextWord(score, sp) PROVE SearchInv' /\ StackStep
  BY <1>1, NextWordKeeps DEF StackStep
<1>1a. CASE PauseOffTrellis
  BY <1>1a, PauseOffKeeps DEF StackStep
<1>2. CASE Push
  BY <1>2, PushKeeps
<1>3. CASE Expanded
  BY <1>3, ExpandedKeeps DEF StackStep
<1>4. CASE Exhausted \/ NotAccepted
  BY <1>4, OnwardKeeps DEF StackStep
<1>5. CASE Pop
  <2>1. PICK n \in Nodes : \/ PopPruned(n) \/ PopAgain(n) \/ PopSentence(n)
                           \/ GiveUp(n) \/ PopTooLong(n) \/ PopToExpand(n)
    BY <1>5 DEF Pop
  <2> QED
    BY <2>1, PrunedKeeps, DroppedKeeps, SentenceKeeps, ToExpandKeeps
<1>6. ASSUME NEW score \in 0..MaxScore, Accepted(score) PROVE SearchInv' /\ StackStep
  BY <1>6, AcceptedKeeps
<1>7. CASE Output
  <2>1. ScoresOf(stack)' = ScoresOf(stack) /\ SearchInv'
    BY <1>7, OutputKeeps
  <2> QED
    BY <2>1 DEF StackStep
<1>8. CASE NoResult
  BY <1>8, NoResultKeeps DEF StackStep
<1>9. CASE FreeRest
  BY <1>9, FreeRestKeeps
<1>10. CASE UNCHANGED vars
  <2>1. UNCHANGED <<mem, lists, now, now_noise, pc, counters, envelope, output>>
    BY <1>10 DEF vars
  <2>2. /\ PlaceInv' /\ UNCHANGED ScoresOf(stack) /\ UNCHANGED ScoresOf(local)
    BY <2>1, PlaceSame DEF SearchInv, lists
  <2>3. PhaseInv'
    BY <2>1 DEF PhaseInv, SearchInv, lists, counters
  <2>4. LimitInv'
    BY <2>1 DEF LimitInv, SearchInv, lists, counters
  <2>5. CountInv'
    BY <2>1 DEF CountInv, SearchInv, counters, envelope, output
  <2>6. ScoredInv'
    BY <2>2 DEF ScoredInv, SearchInv
  <2> QED
    BY <2>2, <2>3, <2>4, <2>5, <2>6 DEF SearchInv, StackStep
<1> QED
  BY <1>1, <1>1a, <1>2, <1>3, <1>4, <1>5, <1>6, <1>7, <1>8, <1>9, <1>10 DEF Next

\* For any stack and local stack of two or more, and any number of words that can
\* follow: lists are lists, whatever was put in, taken off the top or driven out.
THEOREM ListsStayLinked == BottomHasAbove => (Spec => []StacksAreLists)
<1> SUFFICES ASSUME BottomHasAbove PROVE Spec => []StacksAreLists
  OBVIOUS
<1>1. SearchInv => StacksAreLists
  <2> SUFFICES ASSUME SearchInv PROVE StacksAreLists
    OBVIOUS
  <2>1. PICK Q, at : Holds(mem, ListsOf(stack, local, result), Q, at)
    BY SearchFacts DEF SearchInv, PlaceInv, Held
  <2>2. /\ IsList(mem, stack, Q["stack"]) /\ IsList(mem, local, Q["local"])
        /\ IsList(mem, result, Q["result"])
    <3> DEFINE L == ListsOf(stack, local, result)
    <3>1. \A id \in ListIds : IsList(mem, L[id], Q[id])
      BY <2>1 DEF Holds
    <3>2. /\ "stack" \in ListIds /\ L["stack"] = stack /\ "local" \in ListIds /\ L["local"] = local
          /\ "result" \in ListIds /\ L["result"] = result
      BY OfLists
    <3> HIDE DEF L
    <3>3. IsList(mem, L["stack"], Q["stack"]) /\ IsList(mem, L["local"], Q["local"])
          /\ IsList(mem, L["result"], Q["result"])
      BY <3>1, <3>2
    <3> QED
      BY <3>2, <3>3
  <2>3. \A s \in {stack, local, result} : WellLinked(s) /\ s.num \in Nat /\ s.num <= Room
    BY <2>2, ListIsLinked, FewNodes
  <2>4. \A s \in {stack, local, result} : s.start \in 0..Room /\ s.bottom \in 0..Room /\ s.num \in 0..Room
    <3>1. \A s \in {stack, local, result} : s \in ListRecord
      BY SearchFacts DEF SearchInv
    <3> QED
      BY <2>3, <3>1, RoomIs DEF ListRecord
  <2>5. TypeOK
    <3>1. mem \in Memory
      BY SearchFacts DEF SearchInv
    <3>2. Len(sent) <= OutputMax /\ status \in {"none", "success", "fail"} /\ popctr \in Nat
          /\ last_score \in 0..MaxScore /\ width \in Widths /\ hypo_len_count \in [1..MaxSeqNum -> Nat]
          /\ maximum_filled_length \in -1..MaxSeqNum
      BY DEF SearchInv, CountInv
    <3>3. now \in 0..Room /\ now_noise \in 0..Room /\ finishnum \in 0..NBest
          /\ pc \in {"words", "local", "pop", "accept", "output", "done"}
      BY DEF SearchInv, LimitInv, PhaseInv
    <3> QED
      BY <2>4, <3>1, <3>2, <3>3 DEF TypeOK, Memory, Hypothesis
  <2> QED
    BY <2>3, <2>5 DEF StacksAreLists
<1>2. Init => SearchInv
  BY SearchBegins
<1>3. SearchInv /\ [Next]_vars => SearchInv'
  BY SearchKeeps
<1> QED
  BY <1>1, <1>2, <1>3, PTL DEF Spec

\* For any stack and local stack of two or more, on every path of an expansion: no
\* node is lost, given out twice or freed twice, and at the end all are free.
THEOREM NodesAreOnce == BottomHasAbove => (Spec => []EachNodeOnce)
<1> SUFFICES ASSUME BottomHasAbove PROVE Spec => []EachNodeOnce
  OBVIOUS
<1>1. SearchInv => EachNodeOnce
  <2> SUFFICES ASSUME SearchInv PROVE EachNodeOnce
    OBVIOUS
  <2>1. PICK Q, at : Holds(mem, ListsOf(stack, local, result), Q, at) /\ Hands(at, now, now_noise, NULL)
    BY DEF SearchInv, PlaceInv, Held
  <2> DEFINE L == ListsOf(stack, local, result)
             S == In(stack, Q["stack"])
             M == In(local, Q["local"])
             R == In(result, Q["result"])
  <2>2. /\ "stack" \in ListIds /\ L["stack"] = stack /\ "local" \in ListIds /\ L["local"] = local
        /\ "result" \in ListIds /\ L["result"] = result
    BY OfLists
  <2>3. /\ \A id \in ListIds : IsList(mem, L[id], Q[id])
        /\ \A x \in Nodes, id \in ListIds : x \in In(L[id], Q[id]) <=> at[x] = id
        /\ \A x \in Nodes : x \in mem.free <=> at[x] = "free"
        /\ at \in [Nodes -> Spots]
    BY <2>1 DEF Holds
  <2> HIDE DEF L
  <2>4. IsList(mem, stack, Q["stack"]) /\ IsList(mem, local, Q["local"]) /\ IsList(mem, result, Q["result"])
    <3>1. IsList(mem, L["stack"], Q["stack"]) /\ IsList(mem, L["local"], Q["local"])
          /\ IsList(mem, L["result"], Q["result"])
      BY <2>2, <2>3
    <3> QED
      BY <2>2, <3>1
  <2>5. Members(stack.start) = S /\ Members(local.start) = M /\ Members(result.start) = R
    BY <2>4, MembersOfList
  <2>6. \A x \in Nodes : (x \in S <=> at[x] = "stack") /\ (x \in M <=> at[x] = "local")
                         /\ (x \in R <=> at[x] = "result")
    BY <2>2, <2>3
  <2> HIDE DEF S, M, R
  <2> DEFINE places == <<Members(stack.start), Members(local.start), Members(result.start),
                         mem.free, {now} \ {NULL}, {now_noise} \ {NULL}>>
  <2>7. /\ DOMAIN places = 1..6
        /\ places[1] = S /\ places[2] = M /\ places[3] = R /\ places[4] = mem.free
        /\ places[5] = {now} \ {NULL} /\ places[6] = {now_noise} \ {NULL}
    BY <2>5
  <2> HIDE DEF places
  <2>8. ASSUME NEW n \in Nodes PROVE Cardinality({i \in DOMAIN places : n \in places[i]}) = 1
    <3>1. /\ (n \in places[1] <=> at[n] = "stack") /\ (n \in places[2] <=> at[n] = "local")
          /\ (n \in places[3] <=> at[n] = "result") /\ (n \in places[4] <=> at[n] = "free")
      BY <2>3, <2>6, <2>7
    <3>2. (n \in places[5] <=> at[n] = "now") /\ (n \in places[6] <=> at[n] = "noise") /\ at[n] # "hand"
      BY <2>1, <2>7, RoomIs DEF Hands
    <3>3. at[n] \in {"stack", "local", "result", "free", "now", "noise"}
      BY <2>3, <3>2 DEF Spots, ListIds, OffLists
    <3>4. \A i \in DOMAIN places : i \in {1, 2, 3, 4, 5, 6}
      BY <2>7
    <3>5. \E k : {i \in DOMAIN places : n \in places[i]} = {k}
      <4>1. CASE at[n] = "stack"
        <5>1. {i \in DOMAIN places : n \in places[i]} = {1}
          BY <2>7, <3>1, <3>2, <3>4, <4>1
        <5> QED
          BY <5>1
      <4>2. CASE at[n] = "local"
        <5>1. {i \in DOMAIN places : n \in places[i]} = {2}
          BY <2>7, <3>1, <3>2, <3>4, <4>2
        <5> QED
          BY <5>1
      <4>3. CASE at[n] = "result"
        <5>1. {i \in DOMAIN places : n \in places[i]} = {3}
          BY <2>7, <3>1, <3>2, <3>4, <4>3
        <5> QED
          BY <5>1
      <4>4. CASE at[n] = "free"
        <5>1. {i \in DOMAIN places : n \in places[i]} = {4}
          BY <2>7, <3>1, <3>2, <3>4, <4>4
        <5> QED
          BY <5>1
      <4>5. CASE at[n] = "now"
        <5>1. {i \in DOMAIN places : n \in places[i]} = {5}
          BY <2>7, <3>1, <3>2, <3>4, <4>5
        <5> QED
          BY <5>1
      <4>6. CASE at[n] = "noise"
        <5>1. {i \in DOMAIN places : n \in places[i]} = {6}
          BY <2>7, <3>1, <3>2, <3>4, <4>6
        <5> QED
          BY <5>1
      <4> QED
        BY <3>3, <4>1, <4>2, <4>3, <4>4, <4>5, <4>6
    <3> QED
      BY <3>5, FS_Singleton
  <2>9. pc = "done" => mem.free = Nodes
    <3> SUFFICES ASSUME pc = "done" PROVE mem.free = Nodes
      OBVIOUS
    <3>1. now = NULL /\ now_noise = NULL /\ local.num = 0 /\ stack.num = 0 /\ result.num = 0
      BY DEF SearchInv, PhaseInv
    <3>2. S = {} /\ M = {} /\ R = {}
      <4>1. 1..0 = {}
        OBVIOUS
      <4> QED
        BY <3>1, <4>1 DEF S, M, R, In
    <3>3. \A x \in Nodes : at[x] = "free"
      <4>1. SUFFICES ASSUME NEW x \in Nodes PROVE at[x] = "free"
        OBVIOUS
      <4>2. at[x] \notin {"stack", "local", "result"}
        BY <2>6, <3>2
      <4>3. at[x] \notin {"now", "noise", "hand"}
        BY <2>1, <3>1, RoomIs DEF Hands
      <4> QED
        BY <2>3, <4>2, <4>3 DEF Spots, ListIds, OffLists
    <3>4. mem.free \subseteq Nodes
      BY SearchFacts DEF SearchInv, Memory
    <3> QED
      BY <2>3, <3>3, <3>4
  <2> QED
    BY <2>8, <2>9 DEF EachNodeOnce, places
<1>2. Init => SearchInv
  BY SearchBegins
<1>3. SearchInv /\ [Next]_vars => SearchInv'
  BY SearchKeeps
<1> QED
  BY <1>1, <1>2, <1>3, PTL DEF Spec

\* For any stack and local stack of two or more the stack of the search is the
\* bounded priority queue of HypothesisStack: with every step its scores change as
\* that queue lets them, or not at all.
THEOREM StackIsQueue == BottomHasAbove => (Spec => StackKeepsTheBest)
<1> SUFFICES ASSUME BottomHasAbove PROVE Spec => StackKeepsTheBest
  OBVIOUS
<1>1. Init => SearchInv /\ StackQueue!Init
  BY SearchBegins
<1>2. SearchInv /\ [Next]_vars => SearchInv'
  BY SearchKeeps
<1>3. SearchInv /\ [Next]_vars => [StackQueue!Next]_(ScoresOf(stack))
  BY SearchKeeps DEF StackStep
<1> QED
  BY <1>1, <1>2, <1>3, PTL DEF Spec, StackKeepsTheBest, StackQueue!Spec

\* The result stack changes by a sentence found or given, and not otherwise.
ResultStep == [ResultQueue!Next]_(ScoresOf(result))

\* Only a sentence found and a sentence given change the result stack.
LEMMA ResultKeeps == BottomHasAbove /\ SearchInv /\ [Next]_vars => ResultStep
<1> SUFFICES ASSUME BottomHasAbove, SearchInv, [Next]_vars PROVE ResultStep
  OBVIOUS
<1> DEFINE R == ScoresOf(result)
<1>1. ASSUME NEW n \in Nodes, PopSentence(n) PROVE ResultStep
  <2> DEFINE x == mem.node[n].score
             k == R'
  <2>1. KeptOf(R, x, NBest, k)
    BY <1>1, SentenceKeeps
  <2>2. mem.node[n].score \in 0..MaxScore /\ mem.node[n].score > LogZero
    <3>1. mem \in Memory
      BY SearchFacts DEF SearchInv
    <3> QED
      BY <1>1, <3>1 DEF Memory, Hypothesis, PopSentence, Considered
  <2>3. x \in Scores
    BY <2>2, SizesAre DEF Scores
  <2> HIDE DEF x, R, k
  <2>4. \/ Len(R) < NBest /\ k = ResultQueue!Inserted(R, x)
        \/ Len(R) = NBest /\ ResultQueue!Worst(R) < x /\ k = ResultQueue!Inserted(ResultQueue!Front(R), x)
        \/ Len(R) = NBest /\ ResultQueue!Worst(R) >= x /\ k = R
    BY <2>1 DEF KeptOf, StackQueue!Inserted, StackQueue!Worst, StackQueue!Front, ResultQueue!Inserted,
                ResultQueue!Worst, ResultQueue!Front
  <2>5. ResultQueue!Push(x)
    BY <2>4 DEF ResultQueue!Push, R, k
  <2>6. ResultQueue!Next
    BY <2>3, <2>5 DEF ResultQueue!Next
  <2> QED
    BY <2>6 DEF ResultStep
<1>2. CASE Output
  <2>1. ScoresOf(result) # << >> /\ ScoresOf(result)' = Tail(ScoresOf(result))
    BY <1>2, OutputKeeps
  <2>2. ResultQueue!PopBest
    BY <2>1 DEF ResultQueue!PopBest
  <2>3. ResultQueue!Next
    BY <2>2 DEF ResultQueue!Next
  <2> QED
    BY <2>3 DEF ResultStep
<1>3. ASSUME UNCHANGED R PROVE ResultStep
  BY <1>3 DEF ResultStep
<1>4. ASSUME NEW score \in 0..MaxScore, NEW sp \in BOOLEAN, NextWord(score, sp) PROVE ResultStep
  BY <1>3, <1>4, NextWordKeeps
<1>4a. CASE PauseOffTrellis
  BY <1>3, <1>4a, PauseOffKeeps
<1>5. CASE Push
  BY <1>3, <1>5, PushKeeps
<1>6. CASE Expanded
  BY <1>3, <1>6, ExpandedKeeps
<1>7. CASE Exhausted \/ NotAccepted
  BY <1>3, <1>7, OnwardKeeps
<1>8. ASSUME NEW n \in Nodes, PopPruned(n) \/ PopAgain(n) \/ GiveUp(n) \/ PopTooLong(n) \/ PopToExpand(n)
      PROVE  ResultStep
  BY <1>3, <1>8, PrunedKeeps, DroppedKeeps, ToExpandKeeps
<1>9. ASSUME NEW score \in 0..MaxScore, Accepted(score) PROVE ResultStep
  BY <1>3, <1>9, AcceptedKeeps
<1>10. CASE NoResult
  BY <1>3, <1>10, NoResultKeeps
<1>11. CASE FreeRest
  BY <1>3, <1>11, FreeRestKeeps
<1>12. CASE UNCHANGED vars
  <2>1. UNCHANGED <<mem, result>>
    BY <1>12 DEF vars, lists
  <2> QED
    BY <1>3, <2>1 DEF ScoresOf
<1> QED
  BY <1>1, <1>2, <1>4, <1>4a, <1>5, <1>6, <1>7, <1>8, <1>9, <1>10, <1>11, <1>12 DEF Next, Pop

\* The search begins without results.
LEMMA NoResultsAtFirst == Init => ScoresOf(result) = << >>
<1> SUFFICES ASSUME Init PROVE ScoresOf(result) = << >>
  OBVIOUS
<1>1. SearchInv /\ result.num = 0
  BY SearchBegins DEF Init, EmptyList
<1>2. result \in {stack, local, result}
  OBVIOUS
<1> DEFINE R == ScoresOf(result)
<1>3. R \in Seq(0..MaxScore) /\ Len(R) = 0
  BY <1>1, <1>2, SearchFacts DEF SearchInv
<1> HIDE DEF R
<1>4. R = << >>
  BY <1>3, EmptySeq
<1> QED
  BY <1>4 DEF R

\* The result stack is such a queue as well, although sentences do not come in the
\* order of their scores (search_bestfirst_main.c:1630-1632).
THEOREM ResultsAreQueue == BottomHasAbove => (Spec => ResultsKeepTheBest)
<1> SUFFICES ASSUME BottomHasAbove PROVE Spec => ResultsKeepTheBest
  OBVIOUS
<1>1. Init => SearchInv /\ ResultQueue!Init
  BY SearchBegins, NoResultsAtFirst DEF ResultQueue!Init
<1>2. SearchInv /\ [Next]_vars => SearchInv'
  BY SearchKeeps
<1>3. SearchInv /\ [Next]_vars => [ResultQueue!Next]_(ScoresOf(result))
  BY ResultKeeps DEF ResultStep
<1> QED
  BY <1>1, <1>2, <1>3, PTL DEF Spec, ResultsKeepTheBest, ResultQueue!Spec

-----------------------------------------------------------------------------
(* The sentences: nothing of what was found is lost on the way to the output. *)

\* Best first.
Descends(q) == \A i, j \in 1..Len(q) : i <= j => q[i] >= q[j]

\* No more than there are.
LEMMA CountOf ==
  ASSUME NEW q \in Seq(0..MaxScore), NEW s \in Int
  PROVE  AtLeast(q, s) \in Nat /\ AtLeast(q, s) <= Len(q)
<1> DEFINE T == {i \in DOMAIN q : q[i] >= s}
<1>1. Len(q) \in Nat /\ DOMAIN q = 1..Len(q)
  BY LenProperties
<1>2. T \in SUBSET (1..Len(q))
  BY <1>1
<1>3. IsFiniteSet(1..Len(q)) /\ Cardinality(1..Len(q)) = Len(q)
  BY <1>1, FS_Interval, SMTT(30)
<1> HIDE DEF T
<1>4. IsFiniteSet(T) /\ Cardinality(T) <= Len(q)
  BY <1>2, <1>3, FS_Subset
<1>5. Cardinality(T) \in Nat
  BY <1>4, FS_CardinalityType
<1> QED
  BY <1>4, <1>5 DEF AtLeast, T

\* In a descending sequence those that are at least s are the first ones.
LEMMA CountTo ==
  ASSUME NEW q \in Seq(0..MaxScore), NEW s \in Int, NEW c \in 0..Len(q),
         \A i \in 1..Len(q) : q[i] >= s <=> i <= c
  PROVE  AtLeast(q, s) = c
<1>1. Len(q) \in Nat /\ DOMAIN q = 1..Len(q)
  BY LenProperties
<1>2. {i \in DOMAIN q : q[i] >= s} = 1..c
  BY <1>1
<1>3. Cardinality(1..c) = c
  <2>1. c \in Int /\ 1 \in Int /\ c >= 0
    BY <1>1
  <2>2. Cardinality(1..c) = IF 1 > c THEN 0 ELSE c - 1 + 1
    BY <2>1, FS_Interval
  <2> QED
    BY <2>1, <2>2
<1> QED
  BY <1>2, <1>3 DEF AtLeast

\* Of a descending sequence: up to where it is at least s.
Border(q, s, c) == c \in 0..Len(q) /\ \A i \in 1..Len(q) : q[i] >= s <=> i <= c

\* A descending sequence has such a border, and AtLeast tells where.
LEMMA BorderIs ==
  ASSUME NEW q \in Seq(0..MaxScore), Descends(q), NEW s \in Int
  PROVE  Border(q, s, AtLeast(q, s))
<1>1. Len(q) \in Nat /\ \A i \in 1..Len(q) : q[i] \in Int
  <2>1. Len(q) \in Nat /\ q \in [1..Len(q) -> 0..MaxScore]
    BY LenProperties
  <2> QED
    BY <2>1
<1> DEFINE T == {i \in 1..Len(q) + 1 : i = Len(q) + 1 \/ q[i] < s}
<1>2. T \subseteq Nat /\ Len(q) + 1 \in T
  BY <1>1
<1> HIDE DEF T
<1>3. PICK k \in T : \A j \in T : k <= j
  BY <1>2, LeastNumber
<1>4. k \in 1..Len(q) + 1 /\ (k = Len(q) + 1 \/ q[k] < s)
  BY DEF T
<1>5. \A i \in 1..Len(q) : i < k => ~(q[i] < s)
  <2> SUFFICES ASSUME NEW i \in 1..Len(q), i < k, q[i] < s PROVE FALSE
    OBVIOUS
  <2>1. i \in T
    BY <1>1 DEF T
  <2> QED
    BY <1>1, <1>3, <1>4, <2>1
<1>6. \A i \in 1..Len(q) : k <= i => q[i] < s
  <2> SUFFICES ASSUME NEW i \in 1..Len(q), k <= i PROVE q[i] < s
    OBVIOUS
  <2>1. k \in 1..Len(q) /\ q[k] < s
    BY <1>1, <1>4
  <2>2. q[k] >= q[i] /\ q[k] \in Int /\ q[i] \in Int
    BY <1>1, <2>1 DEF Descends
  <2> QED
    BY <2>1, <2>2
<1> DEFINE c == k - 1
<1>7. c \in 0..Len(q) /\ \A i \in 1..Len(q) : i <= c <=> i < k
  BY <1>1, <1>4
<1>8. \A i \in 1..Len(q) : q[i] >= s <=> i <= c
  <2> SUFFICES ASSUME NEW i \in 1..Len(q) PROVE q[i] >= s <=> i <= c
    OBVIOUS
  <2>1. q[i] \in Int
    BY <1>1
  <2>2. CASE i < k
    <3>1. ~(q[i] < s)
      BY <1>5, <2>2
    <3>2. i <= c
      BY <1>7, <2>2
    <3> QED
      BY <2>1, <3>1, <3>2
  <2>3. CASE ~(i < k)
    <3>1. k <= i
      BY <1>1, <1>4, <2>3
    <3>2. q[i] < s
      BY <1>6, <3>1
    <3>3. ~(i <= c)
      BY <1>7, <2>3
    <3> QED
      BY <2>1, <3>2, <3>3
  <2> QED
    BY <2>2, <2>3
<1> HIDE DEF c
<1>9. AtLeast(q, s) = c
  BY <1>7, <1>8, CountTo
<1> QED
  BY <1>7, <1>8, <1>9 DEF Border

\* One more when what is appended counts.
LEMMA CountAppend ==
  ASSUME NEW q \in Seq(0..MaxScore), NEW x \in 0..MaxScore, NEW s \in Int
  PROVE  AtLeast(Append(q, x), s) = AtLeast(q, s) + (IF x >= s THEN 1 ELSE 0)
<1> DEFINE p == Append(q, x)
           n == Len(q) + 1
           T == {i \in DOMAIN q : q[i] >= s}
           P == {i \in DOMAIN p : p[i] >= s}
<1>1. /\ p \in Seq(0..MaxScore) /\ Len(p) = n /\ Len(q) \in Nat /\ DOMAIN q = 1..Len(q)
      /\ DOMAIN p = 1..n /\ p[n] = x
      /\ \A i \in 1..Len(q) : p[i] = q[i]
  <2>1. /\ p \in Seq(0..MaxScore) /\ Len(p) = n /\ p[n] = x
        /\ \A i \in 1..Len(q) : p[i] = q[i]
    BY AppendProperties
  <2> HIDE DEF p
  <2>2. Len(q) \in Nat /\ DOMAIN q = 1..Len(q) /\ DOMAIN p = 1..Len(p)
    BY <2>1, LenProperties
  <2> QED
    BY <2>1, <2>2
<1> HIDE DEF p
<1>2. 1..n = 1..Len(q) \cup {n} /\ n \notin 1..Len(q)
  BY <1>1
<1>3. IsFiniteSet(T) /\ n \notin T
  <2>1. T \in SUBSET (1..Len(q))
    BY <1>1
  <2>2. IsFiniteSet(1..Len(q))
    BY <1>1, FS_Interval
  <2> HIDE DEF T
  <2>3. IsFiniteSet(T)
    BY <2>1, <2>2, FS_Subset
  <2> QED
    BY <1>2, <2>1, <2>3
<1>4. Cardinality(T) \in Nat
  BY <1>3, FS_CardinalityType
<1> HIDE DEF n
<1>5. CASE x >= s
  <2>1. P = T \cup {n}
    BY <1>1, <1>2, <1>5
  <2> HIDE DEF T, P
  <2>2. Cardinality(T \cup {n}) = Cardinality(T) + 1
    BY <1>3, FS_AddElement
  <2> QED
    BY <1>5, <2>1, <2>2 DEF AtLeast, T, P, p
<1>6. CASE ~(x >= s)
  <2>1. P = T
    BY <1>1, <1>2, <1>6
  <2> HIDE DEF T, P
  <2>2. Cardinality(P) = Cardinality(T) + 0
    BY <1>4, <2>1
  <2> QED
    BY <1>6, <2>2 DEF AtLeast, T, P, p
<1> QED
  BY <1>5, <1>6

\* One less when the first one counted.
LEMMA CountTail ==
  ASSUME NEW q \in Seq(0..MaxScore), q # << >>, Descends(q), NEW s \in Int
  PROVE  AtLeast(q, s) = AtLeast(Tail(q), s) + (IF q[1] >= s THEN 1 ELSE 0)
<1> DEFINE t == Tail(q)
           c == AtLeast(q, s)
           d == IF q[1] >= s THEN c - 1 ELSE c
<1>1. /\ t \in Seq(0..MaxScore) /\ Len(t) = Len(q) - 1 /\ \A i \in 1..Len(t) : t[i] = q[i + 1]
      /\ Len(q) \in Nat /\ Len(q) # 0
  <2>1. /\ t \in Seq(0..MaxScore) /\ Len(t) = Len(q) - 1 /\ \A i \in 1..Len(t) : t[i] = q[i + 1]
    BY HeadTailProperties
  <2>2. Len(q) \in Nat /\ Len(q) # 0
    BY EmptySeq
  <2> QED
    BY <2>1, <2>2
<1>2. Border(q, s, c)
  BY BorderIs
<1> HIDE DEF t, c
<1>3. c \in 0..Len(q) /\ \A i \in 1..Len(q) : q[i] >= s <=> i <= c
  BY <1>2 DEF Border
<1>4. 1 \in 1..Len(q) /\ (q[1] >= s <=> 1 <= c)
  <2>1. 1 \in 1..Len(q)
    BY <1>1
  <2> QED
    BY <1>3, <2>1
<1>5. d \in 0..Len(t)
  BY <1>1, <1>3, <1>4
<1>6. \A i \in 1..Len(t) : t[i] >= s <=> i <= d
  <2> SUFFICES ASSUME NEW i \in 1..Len(t) PROVE t[i] >= s <=> i <= d
    OBVIOUS
  <2>1. i + 1 \in 1..Len(q) /\ t[i] = q[i + 1]
    BY <1>1
  <2>2. t[i] >= s <=> i + 1 <= c
    BY <1>3, <2>1
  <2>3. i + 1 <= c <=> i <= d
    BY <1>1, <1>3, <1>4
  <2> QED
    BY <2>2, <2>3
<1>7. c = d + (IF q[1] >= s THEN 1 ELSE 0)
  BY <1>1, <1>3
<1> HIDE DEF d
<1>8. AtLeast(t, s) = d
  BY <1>1, <1>5, <1>6, CountTo
<1> QED
  BY <1>7, <1>8 DEF t, c

\* One more when what is inserted counts, wherever its place is.
LEMMA CountInserted ==
  ASSUME NEW q \in Seq(0..MaxScore), Descends(q), NEW x \in 0..MaxScore, NEW s \in Int,
         NEW p \in Seq(0..MaxScore), p = StackQueue!Inserted(q, x)
  PROVE  AtLeast(p, s) = AtLeast(q, s) + (IF x >= s THEN 1 ELSE 0)
<1> DEFINE c == AtLeast(q, s)
           d == IF x >= s THEN c + 1 ELSE c
<1>1. Len(q) \in Nat /\ q \in [1..Len(q) -> 0..MaxScore]
  BY LenProperties
<1>2. /\ Len(p) = Len(q) + 1
      /\ \A i \in 1..Len(q) + 1 : p[i] = IF i <= Len(q) /\ q[i] > x THEN q[i]
                                         ELSE IF 1 < i /\ q[i - 1] <= x THEN q[i - 1] ELSE x
  BY <1>1 DEF StackQueue!Inserted
<1>3. Border(q, s, c)
  BY BorderIs
<1> HIDE DEF c
<1>4. c \in 0..Len(q) /\ \A i \in 1..Len(q) : q[i] >= s <=> i <= c
  BY <1>3 DEF Border
<1>5. \A i \in 1..Len(q) : q[i] \in Int
  BY <1>1
<1>6. \A i \in 1..Len(p) : p[i] >= s <=> i <= d
  <2> SUFFICES ASSUME NEW i \in 1..Len(p) PROVE p[i] >= s <=> i <= d
    OBVIOUS
  <2>1. i \in 1..Len(q) + 1 /\ i \in Int
    BY <1>1, <1>2
  <2>2. p[i] = IF i <= Len(q) /\ q[i] > x THEN q[i]
               ELSE IF 1 < i /\ q[i - 1] <= x THEN q[i - 1] ELSE x
    BY <1>2, <2>1
  <2>3. i <= Len(q) => q[i] \in Int /\ (q[i] >= s <=> i <= c)
    BY <1>1, <1>4, <1>5, <2>1
  <2>4. 1 < i => q[i - 1] \in Int /\ (q[i - 1] >= s <=> i - 1 <= c)
    <3>1. 1 < i => i - 1 \in 1..Len(q)
      BY <1>1, <2>1
    <3> QED
      BY <1>4, <1>5, <3>1
  <2>5. c \in Int /\ c <= Len(q) /\ 0 <= c /\ x \in Int
    BY <1>1, <1>4
  <2>6. CASE i <= Len(q) /\ q[i] > x
    BY <1>1, <2>1, <2>2, <2>3, <2>5, <2>6
  <2>7. CASE ~(i <= Len(q) /\ q[i] > x) /\ 1 < i /\ q[i - 1] <= x
    <3>1. p[i] = q[i - 1]
      BY <2>2, <2>7
    <3>2. p[i] >= s <=> i - 1 <= c
      BY <2>4, <2>7, <3>1
    <3>3. ~(x >= s) => ~(i - 1 <= c)
      BY <2>4, <2>5, <2>7
    <3>4. i - 1 <= c <=> i <= c + 1
      BY <2>1, <2>5
    <3>5. ~(x >= s) => ~(i <= c)
      BY <2>1, <2>5, <3>3
    <3> QED
      BY <3>2, <3>3, <3>4, <3>5
  <2>8. CASE ~(i <= Len(q) /\ q[i] > x) /\ ~(1 < i /\ q[i - 1] <= x)
    <3>1. p[i] = x
      BY <2>2, <2>8
    <3>2. ASSUME x >= s PROVE i <= c + 1
      <4>1. CASE i = 1
        BY <2>5, <4>1
      <4>2. CASE i # 1
        <5>1. 1 < i /\ q[i - 1] \in Int /\ q[i - 1] > x
          BY <2>1, <2>4, <2>5, <2>8, <4>2
        <5>2. i - 1 <= c
          BY <2>4, <3>2, <5>1, <2>5
        <5> QED
          BY <2>1, <2>5, <5>2
      <4> QED
        BY <4>1, <4>2
    <3>3. ASSUME ~(x >= s) PROVE ~(i <= c)
      <4>1. CASE i <= Len(q)
        <5>1. q[i] <= x
          BY <2>3, <2>5, <2>8, <4>1
        <5>2. ~(q[i] >= s)
          BY <2>3, <2>5, <3>3, <4>1, <5>1
        <5> QED
          BY <2>3, <4>1, <5>2
      <4>2. CASE ~(i <= Len(q))
        BY <1>1, <2>1, <2>5, <4>2
      <4> QED
        BY <4>1, <4>2
    <3> QED
      BY <3>1, <3>2, <3>3
  <2> QED
    BY <2>6, <2>7, <2>8
<1>7. d \in 0..Len(p) /\ d = c + (IF x >= s THEN 1 ELSE 0)
  BY <1>1, <1>2, <1>4
<1> HIDE DEF d
<1>8. AtLeast(p, s) = d
  BY <1>6, <1>7, CountTo
<1> QED
  BY <1>7, <1>8 DEF c

\* What was given, with what waits on the result stack, makes up what was found;
\* once the output is full it is the best of it.
Reckoned(q, r, f) ==
  /\ Descends(q)
  /\ \A i \in 1..Len(q), j \in 1..Len(r) : q[i] >= r[j]
  /\ \A s \in 0..MaxScore :
       IF Len(q) < OutputMax THEN AtLeast(q, s) + AtLeast(r, s) = AtLeast(f, s)
       ELSE AtLeast(q, s) = Least(OutputMax, AtLeast(f, s))

\* The account of the sentences; it does not hold of a result of the first pass.
ReckonInv ==
  /\ found \in Seq(0..MaxScore) /\ Len(found) = finishnum
  /\ pc \notin {"output", "done"} => sent = << >>
  /\ found # << >> \/ sent = << >> => Reckoned(sent, ScoresOf(result), found)

\* A sentence found.
LEMMA ReckonFound ==
  ASSUME NEW r \in Seq(0..MaxScore), NEW f \in Seq(0..MaxScore), NEW x \in 0..MaxScore, Descends(r),
         NEW k \in Seq(0..MaxScore), k = StackQueue!Inserted(r, x), Reckoned(<< >>, r, f)
  PROVE  Reckoned(<< >>, k, Append(f, x))
<1> DEFINE e == << >>
           g == Append(f, x)
<1>1. e \in Seq(0..MaxScore) /\ Len(e) = 0 /\ Len(e) < OutputMax
  BY EmptySeq, SizesAre
<1>2. Reckoned(e, r, f)
  OBVIOUS
<1>2a. 1..0 = {}
  OBVIOUS
<1> HIDE DEF e
<1>3. Descends(e) /\ \A i \in 1..Len(e), j \in 1..Len(k) : e[i] >= k[j]
  BY <1>1, <1>2a DEF Descends
<1>4. ASSUME NEW s \in 0..MaxScore PROVE AtLeast(e, s) + AtLeast(k, s) = AtLeast(g, s)
  <2>1. s \in Int
    BY SizesAre
  <2>2. AtLeast(e, s) + AtLeast(r, s) = AtLeast(f, s)
    BY <1>1, <1>2 DEF Reckoned
  <2>3. AtLeast(k, s) = AtLeast(r, s) + (IF x >= s THEN 1 ELSE 0)
    BY <2>1, CountInserted
  <2>4. AtLeast(g, s) = AtLeast(f, s) + (IF x >= s THEN 1 ELSE 0)
    BY <2>1, CountAppend
  <2>5. AtLeast(e, s) \in Nat /\ AtLeast(r, s) \in Nat /\ AtLeast(f, s) \in Nat
    BY <1>1, <2>1, CountOf
  <2> HIDE DEF g
  <2> QED
    BY <2>2, <2>3, <2>4, <2>5
<1> HIDE DEF g
<1>5. Reckoned(e, k, g)
  BY <1>1, <1>3, <1>4 DEF Reckoned
<1> QED
  BY <1>5 DEF e, g

\* A sentence given, or freed when enough were given.
LEMMA ReckonGiven ==
  ASSUME NEW q \in Seq(0..MaxScore), NEW r \in Seq(0..MaxScore), NEW f \in Seq(0..MaxScore),
         r # << >>, Descends(r), Len(q) <= OutputMax, Reckoned(q, r, f)
  PROVE  Reckoned(IF Len(q) < OutputMax THEN Append(q, r[1]) ELSE q, Tail(r), f)
<1> DEFINE x == r[1]
           t == Tail(r)
           p == Append(q, x)
<1>1. /\ t \in Seq(0..MaxScore) /\ Len(t) = Len(r) - 1 /\ \A i \in 1..Len(t) : t[i] = r[i + 1]
      /\ Len(r) \in Nat /\ Len(r) # 0 /\ r \in [1..Len(r) -> 0..MaxScore]
  <2>1. /\ t \in Seq(0..MaxScore) /\ Len(t) = Len(r) - 1 /\ \A i \in 1..Len(t) : t[i] = r[i + 1]
    BY HeadTailProperties
  <2>2. Len(r) \in Nat /\ Len(r) # 0 /\ r \in [1..Len(r) -> 0..MaxScore]
    BY EmptySeq, LenProperties
  <2> QED
    BY <2>1, <2>2
<1>2. x \in 0..MaxScore /\ \A j \in 1..Len(r) : x >= r[j]
  <2>1. 1 \in 1..Len(r) /\ \A j \in 1..Len(r) : 1 <= j
    BY <1>1
  <2> QED
    BY <1>1, <2>1 DEF Descends
<1>3. \A j \in 1..Len(t) : x >= t[j] /\ j + 1 \in 1..Len(r)
  BY <1>1, <1>2
<1>4. Len(q) \in Nat /\ q \in [1..Len(q) -> 0..MaxScore]
  BY LenProperties
<1>5. \A s \in 0..MaxScore : AtLeast(r, s) = AtLeast(t, s) + (IF x >= s THEN 1 ELSE 0)
  <2> SUFFICES ASSUME NEW s \in 0..MaxScore PROVE AtLeast(r, s) = AtLeast(t, s) + (IF x >= s THEN 1 ELSE 0)
    OBVIOUS
  <2>1. s \in Int
    BY SizesAre
  <2> QED
    BY <2>1, CountTail
<1>6. CASE ~(Len(q) < OutputMax)
  <2>1. \A i \in 1..Len(q), j \in 1..Len(t) : q[i] >= t[j]
    BY <1>1, <1>3 DEF Reckoned
  <2> HIDE DEF t
  <2>2. Reckoned(q, t, f)
    BY <1>6, <2>1 DEF Reckoned
  <2> QED
    BY <1>6, <2>2 DEF t
<1>7. CASE Len(q) < OutputMax
  <2>1. /\ p \in Seq(0..MaxScore) /\ Len(p) = Len(q) + 1 /\ p[Len(q) + 1] = x
        /\ \A i \in 1..Len(q) : p[i] = q[i]
    BY <1>2, AppendProperties
  <2>2. \A s \in 0..MaxScore : AtLeast(p, s) = AtLeast(q, s) + (IF x >= s THEN 1 ELSE 0)
    <3> SUFFICES ASSUME NEW s \in 0..MaxScore PROVE AtLeast(p, s) = AtLeast(q, s) + (IF x >= s THEN 1 ELSE 0)
      OBVIOUS
    <3>1. s \in Int
      BY SizesAre
    <3> HIDE DEF x
    <3> QED
      BY <1>2, <3>1, CountAppend
  <2> HIDE DEF p, t
  <2>3. \A i \in 1..Len(q) : p[i] = q[i] /\ p[i] \in Int /\ p[i] >= x
    <3>1. 1 \in 1..Len(r)
      BY <1>1
    <3>2. \A i \in 1..Len(q) : q[i] >= r[1] /\ q[i] \in Int
      BY <1>4, <3>1 DEF Reckoned
    <3> QED
      BY <2>1, <3>2
  <2> HIDE DEF x
  <2>3a. x \in Int
    BY <1>2
  <2>4. Descends(p)
    <3> SUFFICES ASSUME NEW i \in 1..Len(p), NEW j \in 1..Len(p), i <= j PROVE p[i] >= p[j]
      BY DEF Descends
    <3>1. CASE j = Len(q) + 1
      <4>1. CASE i = Len(q) + 1
        BY <2>1, <2>3a, <3>1, <4>1
      <4>2. CASE i # Len(q) + 1
        <5>1. i \in 1..Len(q)
          BY <1>4, <2>1, <4>2
        <5> QED
          BY <2>1, <2>3, <3>1, <5>1
      <4> QED
        BY <4>1, <4>2
    <3>2. CASE j # Len(q) + 1
      <4>1. i \in 1..Len(q) /\ j \in 1..Len(q)
        BY <1>4, <2>1, <3>2
      <4> QED
        BY <2>1, <4>1 DEF Reckoned, Descends
    <3> QED
      BY <3>1, <3>2
  <2>5. \A i \in 1..Len(p), j \in 1..Len(t) : p[i] >= t[j]
    <3> SUFFICES ASSUME NEW i \in 1..Len(p), NEW j \in 1..Len(t) PROVE p[i] >= t[j]
      OBVIOUS
    <3>1. p[i] >= x /\ p[i] \in Int
      <4>1. CASE i = Len(q) + 1
        BY <2>1, <2>3a, <4>1
      <4>2. CASE i # Len(q) + 1
        <5>1. i \in 1..Len(q)
          BY <1>4, <2>1, <4>2
        <5> QED
          BY <2>3, <5>1
      <4> QED
        BY <4>1, <4>2
    <3>2. x >= t[j] /\ t[j] \in Int
      <4>1. t \in [1..Len(t) -> 0..MaxScore]
        BY <1>1, LenProperties
      <4> QED
        BY <1>3, <4>1
    <3> QED
      BY <2>3a, <3>1, <3>2
  <2>6. ASSUME NEW s \in 0..MaxScore
        PROVE  IF Len(p) < OutputMax THEN AtLeast(p, s) + AtLeast(t, s) = AtLeast(f, s)
               ELSE AtLeast(p, s) = Least(OutputMax, AtLeast(f, s))
    <3>1. s \in Int
      BY SizesAre
    <3>2. AtLeast(q, s) + AtLeast(r, s) = AtLeast(f, s)
      BY <1>7 DEF Reckoned
    <3>3. /\ AtLeast(p, s) = AtLeast(q, s) + (IF x >= s THEN 1 ELSE 0)
          /\ AtLeast(r, s) = AtLeast(t, s) + (IF x >= s THEN 1 ELSE 0)
      BY <1>5, <2>2
    <3>4. /\ AtLeast(p, s) \in Nat /\ AtLeast(q, s) \in Nat /\ AtLeast(t, s) \in Nat /\ AtLeast(q, s) <= Len(q)
          /\ AtLeast(p, s) <= Len(p)
      BY <1>1, <2>1, <3>1, CountOf
    <3>5. AtLeast(p, s) + AtLeast(t, s) = AtLeast(f, s)
      BY <3>2, <3>3, <3>4
    <3>6. CASE Len(p) < OutputMax
      BY <3>5, <3>6
    <3>7. CASE ~(Len(p) < OutputMax)
      <4>1. Len(p) = OutputMax /\ OutputMax \in Nat
        BY <1>4, <1>7, <2>1, <3>7, SizesAre
      <4>2. CASE x >= s
        <5>1. AtLeast(p, s) = Len(p)
          <6>1. \A i \in 1..Len(p) : p[i] >= s <=> i <= Len(p)
            <7> SUFFICES ASSUME NEW i \in 1..Len(p) PROVE p[i] >= s
              BY <1>4, <2>1
            <7>1. CASE i = Len(q) + 1
              BY <2>1, <4>2, <7>1
            <7>2. CASE i # Len(q) + 1
              <8>1. i \in 1..Len(q)
                BY <1>4, <2>1, <7>2
              <8>2. p[i] >= x /\ p[i] \in Int
                BY <2>3, <8>1
              <8> QED
                BY <2>3a, <3>1, <4>2, <8>2
            <7> QED
              BY <7>1, <7>2
          <6>2. Len(p) \in 0..Len(p)
            BY <1>4, <2>1
          <6> QED
            BY <2>1, <3>1, <6>1, <6>2, CountTo
        <5> QED
          BY <3>4, <3>5, <3>7, <4>1, <5>1 DEF Least
      <4>3. CASE ~(x >= s)
        <5>1. AtLeast(t, s) = 0
          <6>1. \A i \in 1..Len(t) : t[i] >= s <=> i <= 0
            <7> SUFFICES ASSUME NEW i \in 1..Len(t) PROVE ~(t[i] >= s)
              OBVIOUS
            <7>1. t \in [1..Len(t) -> 0..MaxScore]
              BY <1>1, LenProperties
            <7>2. t[i] \in Int /\ x >= t[i]
              BY <1>3, <7>1
            <7> QED
              BY <2>3a, <3>1, <4>3, <7>2
          <6>2. 0 \in 0..Len(t)
            BY <1>1
          <6> QED
            BY <1>1, <3>1, <6>1, <6>2, CountTo
        <5> QED
          BY <3>4, <3>5, <3>7, <4>1, <5>1 DEF Least
      <4> QED
        BY <4>2, <4>3
    <3> QED
      BY <3>6, <3>7
  <2>7. Reckoned(p, t, f)
    BY <2>4, <2>5, <2>6 DEF Reckoned
  <2> QED
    BY <1>7, <2>7 DEF p, t, x
<1> QED
  BY <1>6, <1>7

\* The steps that neither find nor give a sentence.
LEMMA ReckonSame ==
  ASSUME ReckonInv, UNCHANGED ScoresOf(result), UNCHANGED <<found, finishnum, sent>>,
         pc \in {"output", "done"} => pc' \in {"output", "done"}
  PROVE  ReckonInv'
BY DEF ReckonInv

\* The scores of the results are scores after a step too.
LEMMA ResultsScored == SearchInv' => (ScoresOf(result) \in Seq(0..MaxScore))'
<1>1. SearchInv => ScoresOf(result) \in Seq(0..MaxScore)
  <2>1. result \in {stack, local, result}
    OBVIOUS
  <2> QED
    BY <2>1, SearchFacts DEF SearchInv
<1> QED
  BY <1>1, PTL

\* Every step keeps the account.
LEMMA ReckonKeeps == BottomHasAbove /\ SearchInv /\ ReckonInv /\ [Next]_vars => ReckonInv'
<1> SUFFICES ASSUME BottomHasAbove, SearchInv, ReckonInv, [Next]_vars PROVE ReckonInv'
  OBVIOUS
<1> DEFINE R == ScoresOf(result)
<1>0. /\ found \in Seq(0..MaxScore) /\ Len(found) = finishnum
      /\ R \in Seq(0..MaxScore) /\ Len(R) = result.num /\ Descends(R)
      /\ sent \in Seq(0..MaxScore) /\ Len(sent) <= OutputMax
      /\ result.num \in Nat /\ result.num <= finishnum
  <2>1. result \in {stack, local, result}
    OBVIOUS
  <2>2. /\ ScoresOf(result) \in Seq(0..MaxScore) /\ Len(ScoresOf(result)) = result.num
        /\ \A i, j \in 1..result.num : i <= j => ScoresOf(result)[i] >= ScoresOf(result)[j]
    BY <2>1, SearchFacts DEF SearchInv
  <2>3. result.num \in Nat
    BY SearchFacts DEF SearchInv
  <2> QED
    BY <2>2, <2>3 DEF ReckonInv, SearchInv, CountInv, LimitInv, Descends
<1>1. ASSUME NEW score \in 0..MaxScore, NEW sp \in BOOLEAN, NextWord(score, sp) PROVE ReckonInv'
  <2>1. UNCHANGED <<pc, found, finishnum, sent>>
    BY <1>1 DEF NextWord, counters, output
  <2>2. UNCHANGED ScoresOf(result)
    BY <1>1, NextWordKeeps
  <2> QED
    BY <2>1, <2>2, ReckonSame
<1>1a. CASE PauseOffTrellis
  <2>1. UNCHANGED <<pc, found, finishnum, sent>>
    BY <1>1a DEF PauseOffTrellis, counters, output
  <2>2. UNCHANGED ScoresOf(result)
    BY <1>1a, PauseOffKeeps
  <2> QED
    BY <2>1, <2>2, ReckonSame
<1>2. CASE Push
  <2>1. UNCHANGED <<found, finishnum, sent>> /\ pc \in {"words", "local"}
    BY <1>2 DEF Push, counters, output
  <2> QED
    BY <1>2, <2>1, PushKeeps, ReckonSame
<1>3. CASE Expanded
  <2>1. UNCHANGED <<found, finishnum, sent>> /\ pc \in {"words", "local"}
    BY <1>3 DEF Expanded, counters, output
  <2> QED
    BY <1>3, <2>1, ExpandedKeeps, ReckonSame
<1>4. CASE Exhausted \/ NotAccepted
  <2>1. UNCHANGED <<found, finishnum, sent>> /\ pc \in {"pop", "accept"}
    BY <1>4 DEF Exhausted, NotAccepted, counters, output
  <2> QED
    BY <1>4, <2>1, OnwardKeeps, ReckonSame
<1>5. ASSUME NEW n \in Nodes, PopPruned(n) PROVE ReckonInv'
  <2>1. UNCHANGED <<found, finishnum, sent>> /\ pc = "pop"
    BY <1>5 DEF PopPruned, Popped, counters, output
  <2> QED
    BY <1>5, <2>1, PrunedKeeps, ReckonSame
<1>6. ASSUME NEW n \in Nodes, PopAgain(n) \/ GiveUp(n) \/ PopTooLong(n) PROVE ReckonInv'
  <2>1. UNCHANGED <<found, finishnum, sent>> /\ pc = "pop"
    BY <1>6 DEF PopAgain, GiveUp, PopTooLong, Considered, Popped, output
  <2> QED
    BY <1>6, <2>1, DroppedKeeps, ReckonSame
<1>7. ASSUME NEW n \in Nodes, PopToExpand(n) PROVE ReckonInv'
  <2>1. UNCHANGED <<found, finishnum, sent>> /\ pc = "pop"
    BY <1>7 DEF PopToExpand, Considered, Popped, output
  <2> QED
    BY <1>7, <2>1, ToExpandKeeps, ReckonSame
<1>8. ASSUME NEW n \in Nodes, PopSentence(n) PROVE ReckonInv'
  <2> DEFINE x == mem.node[n].score
             k == R'
  <2>1. /\ pc = "pop" /\ finishnum' = finishnum + 1 /\ found' = Append(found, x) /\ sent' = sent
    BY <1>8 DEF PopSentence, Considered, Popped, output
  <2>2. SearchInv' /\ KeptOf(R, x, NBest, k)
    BY <1>8, SentenceKeeps
  <2>3. k \in Seq(0..MaxScore)
    BY <2>2, ResultsScored
  <2>4. x \in 0..MaxScore
    <3>1. mem \in Memory
      BY SearchFacts DEF SearchInv
    <3> QED
      BY <3>1 DEF Memory, Hypothesis
  <2>5. sent = << >> /\ Reckoned(sent, R, found)
    BY <2>1 DEF ReckonInv
  <2>6. finishnum < NBest
    BY <2>1 DEF SearchInv, PhaseInv
  <2>7. k = StackQueue!Inserted(R, x)
    <3>1. Len(R) < NBest
      <4>1. finishnum \in 0..NBest /\ result.num <= finishnum
        BY DEF SearchInv, LimitInv
      <4>2. NBest \in Nat
        BY SizesAre
      <4> QED
        BY <1>0, <2>6, <4>1, <4>2
    <3> QED
      BY <1>0, <2>2, <3>1, SizesAre DEF KeptOf
  <2> HIDE DEF R, k, x
  <2>8. Reckoned(<< >>, k, Append(found, x))
    BY <1>0, <2>3, <2>4, <2>5, <2>7, ReckonFound
  <2>9. Append(found, x) \in Seq(0..MaxScore) /\ Len(Append(found, x)) = finishnum + 1
    BY <1>0, <2>4, AppendProperties
  <2> QED
    BY <2>1, <2>5, <2>8, <2>9 DEF ReckonInv, k, R
<1>9. ASSUME NEW score \in 0..MaxScore, Accepted(score) PROVE ReckonInv'
  <2>1. UNCHANGED <<found, finishnum, sent>> /\ pc = "accept"
    BY <1>9 DEF Accepted, counters, output
  <2> QED
    BY <1>9, <2>1, AcceptedKeeps, ReckonSame
<1>10. CASE Output
  <2>1. /\ pc = "output" /\ UNCHANGED <<pc, found, finishnum>>
        /\ sent' = (IF Len(sent) < OutputMax THEN Append(sent, mem.node[result.start].score) ELSE sent)
    BY <1>10 DEF Output, counters
  <2>2. R # << >> /\ R' = Tail(R) /\ mem.node[result.start].score = R[1]
    BY <1>10, OutputKeeps
  <2>3. found # << >>
    <3>1. Len(R) # 0
      BY <1>0, <2>2, EmptySeq
    <3>2. Len(found) # 0
      BY <1>0, <3>1, SizesAre DEF SearchInv, LimitInv
    <3> QED
      BY <1>0, <3>2, EmptySeq
  <2>4. Reckoned(sent, R, found)
    BY <2>3 DEF ReckonInv
  <2> HIDE DEF R
  <2>5. Reckoned(IF Len(sent) < OutputMax THEN Append(sent, R[1]) ELSE sent, Tail(R), found)
    BY <1>0, <2>2, <2>4, ReckonGiven
  <2>6. Reckoned(sent', R', found)
    BY <2>1, <2>2, <2>5
  <2> QED
    BY <1>0, <2>1, <2>6 DEF ReckonInv, R
<1>11. CASE NoResult
  <2>1. pc = "output" /\ finishnum = 0 /\ UNCHANGED <<pc, found, finishnum>>
        /\ (sent' = <<LogZero>> \/ sent' = sent)
    BY <1>11 DEF NoResult, counters
  <2>2. UNCHANGED ScoresOf(result)
    BY <1>11, NoResultKeeps
  <2>3. found = << >>
    BY <1>0, <2>1, EmptySeq
  <2>4. CASE sent' = sent
    BY <2>1, <2>2, <2>4, ReckonSame
  <2>5. CASE sent' = <<LogZero>>
    <3>1. sent' # << >>
      BY <2>5
    <3> QED
      BY <1>0, <2>1, <2>3, <3>1 DEF ReckonInv
  <2> QED
    BY <2>1, <2>4, <2>5
<1>12. CASE FreeRest
  <2>1. UNCHANGED <<found, finishnum, sent>> /\ pc = "output" /\ pc' \in {"output", "done"}
    BY <1>12 DEF FreeRest, counters, output
  <2> QED
    BY <1>12, <2>1, FreeRestKeeps, ReckonSame
<1>13. CASE UNCHANGED vars
  <2>1. UNCHANGED <<mem, stack, local, result, now, now_noise, pc, found, finishnum, sent>>
    BY <1>13 DEF vars, lists, counters, output
  <2>2. UNCHANGED ScoresOf(result)
    BY <2>1 DEF ScoresOf
  <2> QED
    BY <2>1, <2>2, ReckonSame
<1> QED
  BY <1>1, <1>1a, <1>2, <1>3, <1>4, <1>5, <1>6, <1>7, <1>8, <1>9, <1>10, <1>11, <1>12, <1>13 DEF Next, Pop

\* It begins with nothing found and nothing given.
LEMMA ReckonBegins == Init => ReckonInv
<1> SUFFICES ASSUME Init PROVE ReckonInv
  OBVIOUS
<1> DEFINE e == << >>
           R == ScoresOf(result)
<1>1. found = e /\ finishnum = 0 /\ sent = e
  BY DEF Init
<1>2. e \in Seq(0..MaxScore) /\ Len(e) = 0 /\ Len(e) < OutputMax
  BY EmptySeq, SizesAre
<1>3. R = e
  BY NoResultsAtFirst
<1>4. 1..0 = {}
  OBVIOUS
<1> HIDE DEF e, R
<1>5. Descends(e) /\ \A i \in 1..Len(e), j \in 1..Len(R) : e[i] >= R[j]
  BY <1>2, <1>4 DEF Descends
<1>6. ASSUME NEW s \in 0..MaxScore PROVE AtLeast(e, s) + AtLeast(R, s) = AtLeast(e, s)
  <2>1. s \in Int
    BY SizesAre
  <2>2. AtLeast(e, s) \in Nat /\ AtLeast(e, s) <= 0
    BY <1>2, <2>1, CountOf
  <2> QED
    BY <1>3, <2>2
<1>7. Reckoned(e, R, e)
  BY <1>2, <1>5, <1>6 DEF Reckoned
<1> QED
  BY <1>1, <1>2, <1>7 DEF ReckonInv, R

\* For any stack and local stack of two or more, any number of sentences found and
\* given: the output is the best of what was found, best first (result_reorder_and_output).
THEOREM BestAreGiven == BottomHasAbove => (Spec => []GivesTheBest)
<1> SUFFICES ASSUME BottomHasAbove PROVE Spec => []GivesTheBest
  OBVIOUS
<1>1. Init => SearchInv /\ ReckonInv
  BY SearchBegins, ReckonBegins
<1>2. SearchInv /\ ReckonInv /\ [Next]_vars => SearchInv' /\ ReckonInv'
  BY SearchKeeps, ReckonKeeps
<1>3. SearchInv /\ ReckonInv => GivesTheBest
  <2> SUFFICES ASSUME SearchInv, ReckonInv, pc = "done", found # << >>
               PROVE  /\ \A i, j \in DOMAIN sent : i < j => sent[i] >= sent[j]
                      /\ \A s \in 0..MaxScore : AtLeast(sent, s) = Least(OutputMax, AtLeast(found, s))
    BY DEF GivesTheBest
  <2> DEFINE R == ScoresOf(result)
  <2>1. Reckoned(sent, R, found) /\ found \in Seq(0..MaxScore)
    BY DEF ReckonInv
  <2>2. R \in Seq(0..MaxScore) /\ Len(R) = 0
    <3>1. result \in {stack, local, result} /\ result.num = 0
      BY DEF SearchInv, PhaseInv
    <3> QED
      BY <3>1, SearchFacts DEF SearchInv
  <2>3. sent \in Seq(0..MaxScore) /\ Len(sent) <= OutputMax
    BY DEF SearchInv, CountInv
  <2>4. DOMAIN sent = 1..Len(sent) /\ Len(sent) \in Nat
    BY <2>3, LenProperties
  <2> HIDE DEF R
  <2>5. \A i, j \in DOMAIN sent : i < j => sent[i] >= sent[j]
    BY <2>1, <2>4 DEF Reckoned, Descends
  <2>6. ASSUME NEW s \in 0..MaxScore PROVE AtLeast(sent, s) = Least(OutputMax, AtLeast(found, s))
    <3>1. s \in Int
      BY SizesAre
    <3>2. AtLeast(R, s) \in Nat /\ AtLeast(R, s) <= 0
      BY <2>2, <3>1, CountOf
    <3>3. AtLeast(sent, s) \in Nat /\ AtLeast(sent, s) <= Len(sent)
      BY <2>3, <3>1, CountOf
    <3>4. CASE Len(sent) < OutputMax
      <4>1. AtLeast(sent, s) + AtLeast(R, s) = AtLeast(found, s)
        BY <2>1, <3>4 DEF Reckoned
      <4>2. AtLeast(found, s) \in Nat
        BY <2>1, <3>1, CountOf
      <4>3. AtLeast(sent, s) = AtLeast(found, s) /\ AtLeast(found, s) < OutputMax
        BY <2>4, <3>2, <3>3, <3>4, <4>1, <4>2, SizesAre
      <4>4. ~(OutputMax <= AtLeast(found, s))
        BY <4>2, <4>3, SizesAre
      <4> QED
        BY <4>2, <4>3, <4>4, SizesAre DEF Least
    <3>5. CASE ~(Len(sent) < OutputMax)
      BY <2>1, <3>5 DEF Reckoned
    <3> QED
      BY <3>4, <3>5
  <2> QED
    BY <2>5, <2>6
<1> QED
  BY <1>1, <1>2, <1>3, PTL DEF Spec
=============================================================================
