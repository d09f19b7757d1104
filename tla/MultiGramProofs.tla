-------------------------- MODULE MultiGramProofs --------------------------
(***************************************************************************)
(* Grammars keep their places in the global lexicon, for any grammars,     *)
(* limits and requests: the proof of the safety properties of module       *)
(* MultiGram.                                                              *)
(*                                                                         *)
(* The argument: ids are given out once (ListInv), and the categories that *)
(* belong to a grammar in the lexicon are one block behind its offset      *)
(* (CategoriesInv), wherever deletions have moved it.  The words are one   *)
(* block too while the grammar has no mark that says otherwise, and no     *)
(* word is of a grammar that is not listed (WordsInv).                     *)
(***************************************************************************)
EXTENDS MultiGram, FiniteSetTheorems, FunctionTheorems, SequenceTheorems, TLAPS

-----------------------------------------------------------------------------
(* Taking elements out of a list.                                          *)

\* The elements of a finite set of numbers have ranks from 1 to their number,
\* each rank once, and the ranks grow with the elements.
LEMMA Ranks ==
  ASSUME NEW n \in Nat, NEW K \in SUBSET (1..n)
  PROVE  /\ IsFiniteSet(K) /\ Cardinality(K) \in Nat /\ Cardinality(K) <= n
         /\ \A i \in K : Cardinality({j \in K : j <= i}) \in 1..Cardinality(K)
         /\ \A a, b \in K :
              a < b => Cardinality({j \in K : j <= a}) < Cardinality({j \in K : j <= b})
         /\ \A k \in 1..Cardinality(K) : \E i \in K : Cardinality({j \in K : j <= i}) = k
<1> DEFINE Upto(i) == {j \in K : j <= i}
           rank == [i \in K |-> Cardinality(Upto(i))]
<1>1. IsFiniteSet(K) /\ Cardinality(K) \in Nat /\ Cardinality(K) <= n
  <2>1. IsFiniteSet(1..n) /\ Cardinality(1..n) = n
    <3>1. Cardinality(1..n) = IF 1 > n THEN 0 ELSE n - 1 + 1
      BY FS_Interval
    <3> QED
      BY <3>1, FS_Interval
  <2>2. IsFiniteSet(K) /\ Cardinality(K) <= Cardinality(1..n)
    BY <2>1, FS_Subset
  <2> QED
    BY <2>1, <2>2, FS_CardinalityType
<1>2. ASSUME NEW i \in K
      PROVE  IsFiniteSet(Upto(i)) /\ Cardinality(Upto(i)) \in 1..Cardinality(K)
  <2>1. Upto(i) \in SUBSET K /\ i \in Upto(i)
    OBVIOUS
  <2> HIDE DEF Upto
  <2>2. IsFiniteSet(Upto(i)) /\ Cardinality(Upto(i)) <= Cardinality(K)
    BY <1>1, <2>1, FS_Subset
  <2>3. Cardinality(Upto(i)) \in Nat /\ Cardinality(Upto(i)) # 0
    BY <2>1, <2>2, FS_CardinalityType, FS_EmptySet
  <2> QED
    BY <1>1, <2>2, <2>3
<1>3. ASSUME NEW a \in K, NEW b \in K, a < b
      PROVE  Cardinality(Upto(a)) < Cardinality(Upto(b))
  <2>1. Upto(a) \in SUBSET Upto(b) /\ b \in Upto(b) /\ b \notin Upto(a)
    <3>1. \A j \in K : j \in Int
      OBVIOUS
    <3>2. \A j \in K : j <= a => j <= b
      BY <3>1, <1>3
    <3>3. b <= b /\ ~(b <= a)
      BY <3>1, <1>3
    <3> QED
      BY <3>2, <3>3
  <2>2. IsFiniteSet(Upto(b)) /\ Cardinality(Upto(b)) \in 1..Cardinality(K)
        /\ Cardinality(Upto(a)) \in 1..Cardinality(K)
    BY <1>2
  <2> HIDE DEF Upto
  <2>3. /\ Cardinality(Upto(a)) <= Cardinality(Upto(b))
        /\ Cardinality(Upto(b)) = Cardinality(Upto(a)) => Upto(b) = Upto(a)
    BY <2>1, <2>2, FS_Subset
  <2> QED
    BY <1>1, <2>1, <2>2, <2>3
<1>4. ASSUME NEW k \in 1..Cardinality(K)
      PROVE  \E i \in K : Cardinality(Upto(i)) = k
  <2> DEFINE T == 1..Cardinality(K)
  <2>1. rank \in [K -> T]
    BY <1>2
  <2>2. \A a, b \in K : rank[a] = rank[b] => a = b
    <3> SUFFICES ASSUME NEW a \in K, NEW b \in K, rank[a] = rank[b], a # b
                 PROVE  FALSE
      OBVIOUS
    <3>1. a < b \/ b < a
      OBVIOUS
    <3>2. rank[a] < rank[b] \/ rank[b] < rank[a]
      BY <3>1, <1>3
    <3>3. rank[a] \in T /\ rank[b] \in T
      BY <2>1
    <3> QED
      BY <3>2, <3>3, <1>1
  <2>3. IsFiniteSet(T) /\ Cardinality(T) = Cardinality(K)
    <3> DEFINE m == Cardinality(K)
    <3>1. m \in Nat /\ 1 \in Int
      BY <1>1
    <3> HIDE DEF m
    <3>2. IsFiniteSet(1..m) /\ Cardinality(1..m) = IF 1 > m THEN 0 ELSE m - 1 + 1
      BY <3>1, FS_Interval
    <3>3. IsFiniteSet(1..m) /\ Cardinality(1..m) = m
      BY <3>1, <3>2
    <3> QED
      BY <3>3 DEF m
  <2> HIDE DEF rank, T
  <2>4. rank \in Injection(K, T)
    BY <2>1, <2>2, Fun_IsInj
  <2>5. rank \in Surjection(K, T)
    BY <2>3, <2>4, FS_Injection
  <2>6. k \in T
    BY DEF T
  <2>7. PICK i \in K : rank[i] = k
    BY <2>5, <2>6 DEF Surjection
  <2> QED
    BY <2>7 DEF rank
<1> QED
  BY <1>1, <1>2, <1>3, <1>4

\* Without takes out the places in D and nothing else, and keeps the order.
LEMMA WithoutKeepsOrder ==
  ASSUME NEW S, NEW list \in Seq(S), NEW D
  PROVE  /\ Without(list, D) \in Seq(S)
         /\ Len(Without(list, D)) <= Len(list)
         /\ \E h \in [1..Len(Without(list, D)) -> DOMAIN list \ D] :
              /\ \A k \in 1..Len(Without(list, D)) : Without(list, D)[k] = list[h[k]]
              /\ \A j, k \in 1..Len(Without(list, D)) : j < k => h[j] < h[k]
              /\ \A i \in DOMAIN list \ D : \E k \in 1..Len(Without(list, D)) : h[k] = i
<1> DEFINE K == DOMAIN list \ D
           Rank(i) == Cardinality({j \in K : j <= i})
           Nth(k) == CHOOSE i \in K : Rank(i) = k
           C == Cardinality(K)
           h == [k \in 1..C |-> Nth(k)]
<1>1. Len(list) \in Nat /\ K \in SUBSET (1..Len(list)) /\ \A i \in K : list[i] \in S /\ i \in Nat
  OBVIOUS
<1>2. /\ C \in Nat /\ C <= Len(list)
      /\ \A i \in K : Rank(i) \in 1..C
      /\ \A a, b \in K : a < b => Rank(a) < Rank(b)
      /\ \A k \in 1..C : \E i \in K : Rank(i) = k
  <2> DEFINE n == Len(list)
  <2>1. n \in Nat /\ K \in SUBSET (1..n)
    BY <1>1
  <2> HIDE DEF n, K
  <2>2. /\ IsFiniteSet(K) /\ Cardinality(K) \in Nat /\ Cardinality(K) <= n
        /\ \A i \in K : Cardinality({j \in K : j <= i}) \in 1..Cardinality(K)
        /\ \A a, b \in K :
             a < b => Cardinality({j \in K : j <= a}) < Cardinality({j \in K : j <= b})
        /\ \A k \in 1..Cardinality(K) : \E i \in K : Cardinality({j \in K : j <= i}) = k
    BY <2>1, Ranks
  <2> QED
    BY <2>2 DEF n
<1>3. Without(list, D) = [k \in 1..C |-> list[Nth(k)]]
  BY DEF Without
<1> HIDE DEF Rank, K
<1>4. \A k \in 1..C : Nth(k) \in K /\ Rank(Nth(k)) = k
  BY <1>2
<1> HIDE DEF Nth
<1>5. h \in [1..C -> K] /\ \A k \in 1..C : h[k] = Nth(k)
  BY <1>4
<1>6. Without(list, D) \in Seq(S) /\ Len(Without(list, D)) = C
  <2> HIDE DEF C
  <2>1. \A k \in 1..C : list[Nth(k)] \in S
    BY <1>1, <1>4
  <2> QED
    BY <1>2, <1>3, <2>1
<1>7. \A k \in 1..C : Without(list, D)[k] = list[h[k]]
  BY <1>3, <1>5
<1>8. \A j, k \in 1..C : j < k => h[j] < h[k]
  <2> SUFFICES ASSUME NEW j \in 1..C, NEW k \in 1..C, j < k, ~(h[j] < h[k])
               PROVE  FALSE
    OBVIOUS
  <2>1. h[j] \in K /\ h[k] \in K /\ Rank(h[j]) = j /\ Rank(h[k]) = k
    BY <1>4, <1>5
  <2> HIDE DEF h
  <2>2. h[j] \in Nat /\ h[k] \in Nat
    BY <1>1, <2>1
  <2>3. h[k] < h[j] \/ h[k] = h[j]
    BY <2>2
  <2>4. Rank(h[k]) < Rank(h[j]) \/ h[k] = h[j]
    BY <1>2, <2>1, <2>3
  <2>5. k < j \/ k = j
    BY <2>1, <2>4
  <2> QED
    BY <1>2, <2>5
<1>9. \A i \in K : \E k \in 1..C : h[k] = i
  <2> SUFFICES ASSUME NEW i \in K PROVE h[Rank(i)] = i /\ Rank(i) \in 1..C
    OBVIOUS
  <2>1. Rank(i) \in 1..C
    BY <1>2
  <2>2. h[Rank(i)] \in K /\ Rank(h[Rank(i)]) = Rank(i)
    BY <1>4, <1>5, <2>1
  <2> HIDE DEF h
  <2>3. h[Rank(i)] \in Nat /\ i \in Nat
    BY <1>1, <2>2
  <2>4. ~(h[Rank(i)] < i) /\ ~(i < h[Rank(i)])
    BY <1>2, <2>1, <2>2
  <2> QED
    BY <2>1, <2>3, <2>4
<1> HIDE DEF h, C
<1> QED
  BY <1>2, <1>5, <1>6, <1>7, <1>8, <1>9, ZenonT(40) DEF K

-----------------------------------------------------------------------------
(* The list of grammars.                                                   *)

Marks == {"delete", "activate", "deactivate", "modified"}

Record ==
  [id : Ids, kind : Kinds, words : Seq(Int), hook : SUBSET Marks, newbie : BOOLEAN,
   active : BOOLEAN, mapped : BOOLEAN, cate_begin : Nat, word_begin : Nat]

Lexicon ==
  [words : Seq([gram : Ids, cat : Int]), cats : Seq([gram : Ids, table : BOOLEAN]), sp : Int]

\* The grammars among the first n whose last request w says.
Good(n, w) ==
  {m \in Record : /\ m.id < n /\ ~({"activate", "deactivate"} \subseteq m.hook)
                  /\ Activated(m).active = w[m.id]}

Distinct(list) == \A i, j \in DOMAIN list : list[i].id = list[j].id => i = j

\* Ids are given out once, in the order of the requests.
GrammarsInv ==
  /\ gram_maxid \in 0..MaxAdds
  /\ grammars \in Seq(Good(gram_maxid, want)) /\ Len(grammars) <= gram_maxid
  /\ Distinct(grammars)
  /\ want \in [Ids -> BOOLEAN] /\ \A id \in Ids : id >= gram_maxid => want[id]

\* The loop of the update is at a grammar or behind the last one.
LoopInv ==
  /\ pc \in {"start", "poll", "append", "build", "decode", "paused"}
  /\ rebuild_flag \in BOOLEAN /\ at \in 1..Len(grammars) + 1
  /\ pc # "append" => at = 1

OthersInv ==
  /\ global \in Lexicon /\ global_modified \in BOOLEAN
  /\ live \in [Procs -> BOOLEAN] /\ active \in [Procs -> {-1, 0, 1}]
  /\ process_active \in BOOLEAN /\ failed \subseteq Ids /\ asked \in 0..MaxRequests

ListInv == GrammarsInv /\ LoopInv /\ OthersInv

\* What loading or a request makes of a grammar file.
LEMMA KindFields ==
  ASSUME NEW k \in Kinds
  PROVE  /\ k.words \in Seq(Int) /\ k.words \in Seq(0..k.terms - 1)
         /\ k.terms \in Nat \ {0} /\ k.sp \in Int
<1>1. KindShape(k)
  BY KindAssumption
<1>2. k.words \in Seq(0..k.terms - 1) /\ k.terms \in Nat \ {0} /\ k.sp \in Int
  BY <1>1 DEF KindShape, Invalid
<1>3. k.words \in Seq(Int)
  BY <1>2, SeqMonotonic
<1> QED
  BY <1>2, <1>3

\* The state a grammar has or is about to have.
LEMMA ActiveOf ==
  ASSUME NEW m \in Record
  PROVE  Activated(m).active = IF "activate" \in m.hook THEN TRUE
                               ELSE IF "deactivate" \in m.hook THEN FALSE ELSE m.active
BY DEF Activated, Record

\* A change of a grammar that leaves its id and its switching marks alone.
LEMMA SameSwitch ==
  ASSUME NEW n, NEW w, NEW m \in Good(n, w), NEW new \in Record,
         new.id = m.id, new.active = m.active,
         \A x \in {"activate", "deactivate"} : x \in new.hook <=> x \in m.hook
  PROVE  new \in Good(n, w)
<1>1. m \in Record /\ m.id < n /\ ~({"activate", "deactivate"} \subseteq m.hook)
      /\ Activated(m).active = w[m.id]
  BY DEF Good
<1>2. Activated(new).active = Activated(m).active
  BY <1>1, ActiveOf
<1> QED
  BY <1>1, <1>2 DEF Good

\* A list changed element by element is as long as before.
LEMMA Changed ==
  ASSUME NEW S, NEW R, NEW list \in Seq(S), NEW new \in [DOMAIN list -> R],
         \A i \in DOMAIN list : new[i].id = list[i].id, Distinct(list)
  PROVE  new \in Seq(R) /\ Len(new) = Len(list) /\ DOMAIN new = DOMAIN list /\ Distinct(new)
<1>1. DOMAIN list = 1..Len(list) /\ Len(list) \in Nat
  OBVIOUS
<1>2. new \in Seq(R) /\ Len(new) = Len(list)
  BY <1>1
<1> QED
  BY <1>1, <1>2 DEF Distinct

\* So is what is kept of a list a list of the same grammars.
LEMMA KeptPart ==
  ASSUME NEW S, NEW list \in Seq(S), Distinct(list)
  PROVE  /\ Kept(list) \in Seq(S) /\ Len(Kept(list)) <= Len(list) /\ Distinct(Kept(list))
         /\ \A k \in DOMAIN Kept(list) : \E i \in DOMAIN list :
              Kept(list)[k] = list[i] /\ "delete" \notin list[i].hook
         /\ \A i \in DOMAIN list :
              "delete" \notin list[i].hook => \E k \in DOMAIN Kept(list) : Kept(list)[k] = list[i]
<1> DEFINE D == {i \in DOMAIN list : "delete" \in list[i].hook}
           new == Without(list, D)
<1>1. Kept(list) = new
  BY DEF Kept
<1>2. \A i \in DOMAIN list : i \in D <=> "delete" \in list[i].hook
  OBVIOUS
<1> HIDE DEF D
<1>3. /\ new \in Seq(S) /\ Len(new) <= Len(list)
      /\ \E h \in [1..Len(new) -> DOMAIN list \ D] :
           /\ \A k \in 1..Len(new) : new[k] = list[h[k]]
           /\ \A j, k \in 1..Len(new) : j < k => h[j] < h[k]
           /\ \A i \in DOMAIN list \ D : \E k \in 1..Len(new) : h[k] = i
  BY WithoutKeepsOrder
<1> HIDE DEF new
<1>4. PICK h \in [1..Len(new) -> DOMAIN list \ D] :
        /\ \A k \in 1..Len(new) : new[k] = list[h[k]]
        /\ \A j, k \in 1..Len(new) : j < k => h[j] < h[k]
        /\ \A i \in DOMAIN list \ D : \E k \in 1..Len(new) : h[k] = i
  BY <1>3
<1>5. DOMAIN new = 1..Len(new) /\ Len(new) \in Nat /\ DOMAIN list \subseteq Nat
  BY <1>3
<1>6. Distinct(new)
  <2> SUFFICES ASSUME NEW j \in 1..Len(new), NEW k \in 1..Len(new), new[j].id = new[k].id
               PROVE  j = k
    BY <1>5 DEF Distinct
  <2>1. h[j] \in DOMAIN list /\ h[k] \in DOMAIN list
    OBVIOUS
  <2>2. h[j] = h[k]
    BY <1>4, <2>1 DEF Distinct
  <2>3. ~(h[j] < h[k]) /\ ~(h[k] < h[j])
    BY <1>5, <2>1, <2>2
  <2>4. ~(j < k) /\ ~(k < j)
    BY <1>4, <2>3
  <2> QED
    BY <1>5, <2>4
<1>7. \A k \in 1..Len(new) : h[k] \in DOMAIN list /\ h[k] \notin D
  OBVIOUS
<1>8. \A k \in DOMAIN new : \E i \in DOMAIN list :
        new[k] = list[i] /\ "delete" \notin list[i].hook
  BY <1>2, <1>4, <1>5, <1>7
<1>9. \A i \in DOMAIN list :
        "delete" \notin list[i].hook => \E k \in DOMAIN new : new[k] = list[i]
  <2> SUFFICES ASSUME NEW i \in DOMAIN list, "delete" \notin list[i].hook
               PROVE  \E k \in DOMAIN new : new[k] = list[i]
    OBVIOUS
  <2>1. PICK k \in 1..Len(new) : h[k] = i
    BY <1>2, <1>4
  <2> QED
    BY <1>4, <1>5, <2>1
<1> QED
  BY <1>1, <1>3, <1>6, <1>8, <1>9

LEMMA FieldsOf ==
  ASSUME NEW n, NEW w, NEW m \in Good(n, w)
  PROVE  /\ m \in Record /\ m.id \in Ids /\ m.id < n /\ m.kind \in Kinds /\ m.words \in Seq(Int)
         /\ m.hook \subseteq Marks /\ m.newbie \in BOOLEAN /\ m.active \in BOOLEAN
         /\ m.mapped \in BOOLEAN /\ m.cate_begin \in Nat /\ m.word_begin \in Nat
         /\ ~({"activate", "deactivate"} \subseteq m.hook)
         /\ Activated(m).active = w[m.id]
BY DEF Good, Record

\* A grammar is found by its id, and only it is altered.
LEMMA Found ==
  ASSUME GrammarsInv, NEW id \in Registered
  PROVE  \E i \in DOMAIN grammars :
           /\ grammars[i].id = id /\ Grammar(id) = grammars[i]
           /\ grammars[i] \in Good(gram_maxid, want)
           /\ \A new : Altered(id, new) =
                [j \in DOMAIN grammars |-> IF j = i THEN new ELSE grammars[j]]
<1>1. PICK i \in DOMAIN grammars : grammars[i].id = id
  BY DEF Registered
<1>2. \A j \in DOMAIN grammars : grammars[j].id = id <=> j = i
  BY <1>1 DEF GrammarsInv, Distinct
<1>3. (CHOOSE j \in DOMAIN grammars : grammars[j].id = id) = i
  BY <1>2
<1>4. Grammar(id) = grammars[i]
  BY <1>3 DEF Grammar
<1>5. grammars[i] \in Good(gram_maxid, want)
  BY DEF GrammarsInv
<1>6. \A new : Altered(id, new) =
        [j \in DOMAIN grammars |-> IF j = i THEN new ELSE grammars[j]]
  BY <1>2 DEF Altered
<1> QED
  BY <1>1, <1>4, <1>5, <1>6

\* A new grammar is asked to be active.
LEMMA NewIsGood ==
  ASSUME GrammarsInv, gram_maxid < MaxAdds, NEW k \in Kinds
  PROVE  NewGrammar(k, gram_maxid) \in Good(gram_maxid + 1, want)
<1>1. gram_maxid \in Ids /\ gram_maxid \in Int /\ want[gram_maxid] = TRUE
  BY LimitAssumption DEF GrammarsInv, Ids
<1>2. NewGrammar(k, gram_maxid) \in Record /\ NewGrammar(k, gram_maxid).id = gram_maxid
      /\ NewGrammar(k, gram_maxid).hook = {"activate"}
  BY <1>1, KindFields DEF NewGrammar, Record, Marks
<1>3. Activated(NewGrammar(k, gram_maxid)).active = TRUE
  BY <1>2, ActiveOf
<1> DEFINE new == NewGrammar(k, gram_maxid)
<1>4. new \in Record /\ new.id = gram_maxid /\ new.hook = {"activate"}
      /\ Activated(new).active = TRUE
  BY <1>2, <1>3
<1> HIDE DEF new
<1>5. new.id < gram_maxid + 1
  BY <1>1, <1>4
<1>6. "deactivate" \notin new.hook
  BY <1>4
<1>7. Activated(new).active = want[new.id]
  BY <1>1, <1>4
<1>8. new \in Good(gram_maxid + 1, want)
  BY <1>4, <1>5, <1>6, <1>7 DEF Good
<1> QED
  BY <1>8 DEF new

LEMMA AddKeepsList ==
  ASSUME ListInv, NEW k \in Kinds, Add(k)
  PROVE  ListInv'
<1> DEFINE new == NewGrammar(k, gram_maxid)
           one == <<new>>
           R == Good(gram_maxid + 1, want)
<1>1. /\ gram_maxid \in Nat /\ gram_maxid < MaxAdds /\ MaxAdds \in Nat
      /\ grammars \in Seq(Good(gram_maxid, want)) /\ Len(grammars) <= gram_maxid
  BY LimitAssumption DEF ListInv, GrammarsInv, Add
<1>2. new \in R /\ new.id = gram_maxid
  BY <1>1, NewIsGood DEF ListInv, NewGrammar
<1>3. grammars \in Seq(R)
  <2>1. Good(gram_maxid, want) \subseteq R
    BY <1>1 DEF Good, Record, Ids
  <2> HIDE DEF R
  <2> QED
    BY <1>1, <2>1, SeqMonotonic
<1> HIDE DEF new, R
<1>4. one \in Seq(R) /\ Len(one) = 1 /\ one[1] = new
  BY <1>2
<1> HIDE DEF one
<1>5. /\ one \o grammars \in Seq(R)
      /\ Len(one \o grammars) = 1 + Len(grammars)
      /\ \A i \in 1..1 + Len(grammars) :
           (one \o grammars)[i] = IF i <= 1 THEN new ELSE grammars[i - 1]
  <2>1. /\ one \o grammars \in Seq(R)
        /\ Len(one \o grammars) = Len(one) + Len(grammars)
        /\ \A i \in 1..Len(one) + Len(grammars) : (one \o grammars)[i] =
             IF i <= Len(one) THEN one[i] ELSE grammars[i - Len(one)]
    BY <1>3, <1>4, ConcatProperties
  <2>2. \A i \in 1..1 + Len(grammars) : i <= 1 => i = 1
    BY <1>3
  <2> QED
    BY <1>4, <2>1, <2>2
<1>6. grammars' = one \o grammars /\ gram_maxid' = gram_maxid + 1 /\ want' = want
  BY DEF Add, one, new
<1>7. Distinct(grammars)'
  <2> SUFFICES ASSUME NEW i \in 1..1 + Len(grammars), NEW j \in 1..1 + Len(grammars),
                      grammars'[i].id = grammars'[j].id
               PROVE  i = j
    BY <1>5, <1>6 DEF Distinct
  <2>1. \A m \in 1..Len(grammars) : grammars[m].id \in Int /\ grammars[m].id < gram_maxid
    BY <1>1, FieldsOf DEF Ids
  <2>2. \A m \in 2..1 + Len(grammars) :
          grammars'[m] = grammars[m - 1] /\ m - 1 \in 1..Len(grammars)
    BY <1>1, <1>5, <1>6
  <2>3. grammars'[1].id = gram_maxid
    BY <1>1, <1>2, <1>5, <1>6
  <2>4. \A m \in 2..1 + Len(grammars) : grammars'[m].id # gram_maxid
    <3> TAKE m \in 2..1 + Len(grammars)
    <3>1. grammars[m - 1].id < gram_maxid /\ grammars[m - 1].id \in Int
      BY <2>1, <2>2
    <3> QED
      BY <1>1, <2>2, <3>1
  <2>5. CASE i = 1 \/ j = 1
    <3>1. (i = 1 \/ i \in 2..1 + Len(grammars)) /\ (j = 1 \/ j \in 2..1 + Len(grammars))
      BY <1>1
    <3> QED
      BY <2>3, <2>5, <2>4, <3>1
  <2>6. CASE i # 1 /\ j # 1
    <3>1. i \in 2..1 + Len(grammars) /\ j \in 2..1 + Len(grammars)
      BY <1>1, <2>6
    <3>2. grammars[i - 1].id = grammars[j - 1].id
          /\ i - 1 \in DOMAIN grammars /\ j - 1 \in DOMAIN grammars
      BY <1>1, <2>2, <3>1
    <3>3. i - 1 = j - 1
      BY <3>2 DEF ListInv, GrammarsInv, Distinct
    <3> QED
      BY <3>1, <3>3
  <2> QED
    BY <2>5, <2>6
<1>8. GrammarsInv'
  <2>1. gram_maxid' \in 0..MaxAdds /\ Len(grammars)' <= gram_maxid'
    BY <1>1, <1>5, <1>6
  <2>2. (Good(gram_maxid, want))' = R
    BY <1>6 DEF R, Good, Record, Activated
  <2>3. grammars' \in Seq((Good(gram_maxid, want))')
    BY <1>5, <1>6, <2>2
  <2>4. \A id \in Ids : id >= gram_maxid' => want'[id]
    BY <1>1, <1>6 DEF ListInv, GrammarsInv, Ids
  <2> QED
    BY <1>6, <1>7, <2>1, <2>3, <2>4 DEF ListInv, GrammarsInv
<1>9. LoopInv'
  BY <1>1, <1>5, <1>6 DEF ListInv, LoopInv, Add, Asks, loopVars
<1>10. OthersInv'
  BY LimitAssumption DEF ListInv, OthersInv, Add, Asks, procVars
<1> QED
  BY <1>8, <1>9, <1>10 DEF ListInv

\* What is left to show when an action changes elements of the list in place.
LEMMA InPlaceChange ==
  ASSUME ListInv, gram_maxid' = gram_maxid,
         NEW new \in [DOMAIN grammars -> Good(gram_maxid, want')],
         \A i \in DOMAIN grammars : new[i].id = grammars[i].id,
         grammars' = new, want' \in [Ids -> BOOLEAN],
         \A id \in Ids : id >= gram_maxid => want'[id]
  PROVE  GrammarsInv' /\ Len(grammars') = Len(grammars) /\ DOMAIN grammars' = DOMAIN grammars
<1> DEFINE R == Good(gram_maxid, want')
<1>1. /\ new \in Seq(R) /\ Len(new) = Len(grammars) /\ DOMAIN new = DOMAIN grammars
      /\ Distinct(new)
  <2>1. grammars \in Seq(Good(gram_maxid, want)) /\ Distinct(grammars)
    BY DEF ListInv, GrammarsInv
  <2> HIDE DEF R
  <2>2. new \in [DOMAIN grammars -> R]
    BY DEF R
  <2> QED
    BY <2>1, <2>2, Changed
<1>2. (Good(gram_maxid, want))' = R
  BY DEF Good, Record, Activated
<1>3. Distinct(grammars)'
  BY <1>1 DEF Distinct
<1>4. grammars' \in Seq((Good(gram_maxid, want))')
  BY <1>1, <1>2
<1> QED
  BY <1>1, <1>3, <1>4 DEF ListInv, GrammarsInv

\* A request other than Add leaves the loop, the lexicon and the number of ids.
LEMMA RestOfRequest ==
  ASSUME ListInv, Asks, UNCHANGED <<loopVars, gram_maxid, global, global_modified, procVars>>,
         failed' \subseteq Ids, GrammarsInv', Len(grammars') = Len(grammars)
  PROVE  ListInv'
<1>1. LoopInv'
  BY DEF ListInv, LoopInv, loopVars
<1>2. asked' \in 0..MaxRequests
  BY LimitAssumption DEF ListInv, OthersInv, Asks
<1>3. OthersInv'
  BY <1>2 DEF ListInv, OthersInv, procVars
<1> QED
  BY <1>1, <1>3 DEF ListInv

LEMMA DeleteKeepsList ==
  ASSUME ListInv, NEW ids \in SUBSET Registered, Delete(ids)
  PROVE  ListInv'
<1> DEFINE e(i) == IF grammars[i].id \in ids THEN [grammars[i] EXCEPT !.hook = @ \cup {"delete"}]
                   ELSE grammars[i]
           new == [i \in DOMAIN grammars |-> e(i)]
<1>1. ASSUME NEW i \in DOMAIN grammars
      PROVE  e(i) \in Good(gram_maxid, want) /\ e(i).id = grammars[i].id
  <2> DEFINE m == grammars[i]
             marked == [m EXCEPT !.hook = @ \cup {"delete"}]
  <2>1. m \in Good(gram_maxid, want)
    BY DEF ListInv, GrammarsInv
  <2> HIDE DEF m
  <2>2. marked \in Record /\ marked.id = m.id /\ marked.active = m.active
        /\ marked.hook = m.hook \cup {"delete"}
    BY <2>1 DEF Good, Record, Marks
  <2> HIDE DEF marked
  <2>3. marked \in Good(gram_maxid, want)
    BY <2>1, <2>2, SameSwitch
  <2> QED
    BY <2>1, <2>2, <2>3 DEF m, marked
<1> HIDE DEF e
<1>2. new \in [DOMAIN grammars -> Good(gram_maxid, want')]
      /\ \A i \in DOMAIN grammars : new[i].id = grammars[i].id
  BY <1>1 DEF Delete
<1>3. grammars' = new
  BY DEF Delete, e
<1> HIDE DEF new
<1>4. gram_maxid' = gram_maxid /\ want' \in [Ids -> BOOLEAN]
      /\ \A id \in Ids : id >= gram_maxid => want'[id]
  BY DEF Delete, ListInv, GrammarsInv
<1>5. GrammarsInv' /\ Len(grammars') = Len(grammars)
  BY <1>2, <1>3, <1>4, InPlaceChange
<1>6. Asks /\ UNCHANGED <<loopVars, gram_maxid, global, global_modified, procVars>>
      /\ failed' \subseteq Ids
  BY DEF Delete, ListInv, OthersInv
<1> QED
  BY <1>5, <1>6, RestOfRequest

\* The grammar that is switched has what was asked for now, the others what was
\* asked for before.
LEMMA SwitchKeepsList ==
  ASSUME ListInv, NEW id \in Ids, NEW on \in BOOLEAN, Switch(id, on)
  PROVE  ListInv'
<1>1. id \in Registered /\ gram_maxid' = gram_maxid
  BY DEF Switch
<1>2. PICK k \in DOMAIN grammars :
        /\ grammars[k].id = id /\ Grammar(id) = grammars[k]
        /\ grammars[k] \in Good(gram_maxid, want)
        /\ \A new : Altered(id, new) =
             [j \in DOMAIN grammars |-> IF j = k THEN new ELSE grammars[j]]
  BY <1>1, Found DEF ListInv
<1> DEFINE m == grammars[k]
           switched == [m EXCEPT !.hook = Switched(@, on)]
           new == [j \in DOMAIN grammars |-> IF j = k THEN switched ELSE grammars[j]]
<1>3. want' \in [Ids -> BOOLEAN] /\ want'[id] = on /\ \A x \in Ids : x # id => want'[x] = want[x]
  BY DEF Switch, ListInv, GrammarsInv
<1>4. switched \in Good(gram_maxid, want') /\ switched.id = id
  <2>1. m \in Good(gram_maxid, want) /\ m.id = id
    BY <1>2
  <2> HIDE DEF m
  <2>2. switched \in Record /\ switched.id = id /\ switched.hook = Switched(m.hook, on)
        /\ m.id < gram_maxid
    BY <2>1 DEF Good, Record, Marks, Switched
  <2> HIDE DEF switched
  <2>3. /\ "activate" \in switched.hook <=> on
        /\ "deactivate" \in switched.hook <=> ~on
    BY <2>2 DEF Switched
  <2>4. Activated(switched).active = on
    BY <2>2, <2>3, ActiveOf
  <2> QED
    BY <1>3, <2>1, <2>2, <2>3, <2>4 DEF Good
<1>5. ASSUME NEW j \in DOMAIN grammars, j # k
      PROVE  grammars[j] \in Good(gram_maxid, want')
  <2>1. grammars[j] \in Good(gram_maxid, want)
    BY DEF ListInv, GrammarsInv
  <2>2. grammars[j].id # id
    BY <1>2, <1>5 DEF ListInv, GrammarsInv, Distinct
  <2>3. grammars[j].id \in Ids
    BY <2>1, FieldsOf
  <2>4. want'[grammars[j].id] = want[grammars[j].id]
    BY <1>3, <2>2, <2>3
  <2> QED
    BY <2>1, <2>4 DEF Good
<1>6. grammars' = new
  BY <1>2 DEF Switch
<1> HIDE DEF switched
<1>7. new \in [DOMAIN grammars -> Good(gram_maxid, want')]
      /\ \A j \in DOMAIN grammars : new[j].id = grammars[j].id
  BY <1>2, <1>4, <1>5
<1>8. \A x \in Ids : x >= gram_maxid => want'[x]
  <2>1. grammars[k].id < gram_maxid /\ grammars[k].id \in Int /\ gram_maxid \in Int
    BY <1>2, FieldsOf DEF ListInv, GrammarsInv, Ids
  <2>2. ~(id >= gram_maxid)
    BY <1>2, <2>1
  <2> QED
    BY <1>3, <2>2 DEF ListInv, GrammarsInv
<1> HIDE DEF new
<1>9. GrammarsInv' /\ Len(grammars') = Len(grammars)
  BY <1>1, <1>3, <1>6, <1>7, <1>8, InPlaceChange
<1>10. Asks /\ UNCHANGED <<loopVars, gram_maxid, global, global_modified, procVars>>
       /\ failed' \subseteq Ids
  BY DEF Switch, ListInv, OthersInv
<1> QED
  BY <1>9, <1>10, RestOfRequest

\* The grammar with a word more.
LEMMA ExtendedIsGood ==
  ASSUME NEW n, NEW w, NEW m \in Good(n, w), NEW cat \in AddedCats, NEW fine \in BOOLEAN,
         NEW new, new = [m EXCEPT !.words = Append(@, cat), !.mapped = fine,
                                  !.hook = IF fine THEN @ \cup {"modified"} ELSE @]
  PROVE  /\ new \in Good(n, w) /\ new.id = m.id /\ new.kind = m.kind /\ new.newbie = m.newbie
         /\ new.words = Append(m.words, cat) /\ new.cate_begin = m.cate_begin
         /\ new.word_begin = m.word_begin
         /\ new.hook = IF fine THEN m.hook \cup {"modified"} ELSE m.hook
<1>1. m \in Record
  BY DEF Good
<1>2. cat \in Int
  BY AddedAssumption DEF Invalid
<1>3. Append(m.words, cat) \in Seq(Int)
  BY <1>1, <1>2 DEF Record
<1>4. new \in Record /\ new.id = m.id /\ new.active = m.active
      /\ new.hook = IF fine THEN m.hook \cup {"modified"} ELSE m.hook
  BY <1>1, <1>3 DEF Record, Marks
<1>5. new \in Good(n, w)
  <2>1. \A x \in {"activate", "deactivate"} : x \in new.hook <=> x \in m.hook
    BY <1>4
  <2> QED
    BY <1>4, <2>1, SameSwitch
<1> QED
  BY <1>1, <1>4, <1>5 DEF Record

LEMMA AddWordKeepsList ==
  ASSUME ListInv, NEW id \in Ids, NEW cat \in AddedCats, AddWord(id, cat)
  PROVE  ListInv'
<1>1. id \in Registered /\ gram_maxid' = gram_maxid /\ want' = want
  BY DEF AddWord
<1>2. PICK k \in DOMAIN grammars :
        /\ grammars[k].id = id /\ Grammar(id) = grammars[k]
        /\ grammars[k] \in Good(gram_maxid, want)
        /\ \A new : Altered(id, new) =
             [j \in DOMAIN grammars |-> IF j = k THEN new ELSE grammars[j]]
  BY <1>1, Found DEF ListInv
<1> DEFINE m == grammars[k]
           fine == cat # Invalid /\ m.kind.ok /\ id \notin failed
           extended == [m EXCEPT !.words = Append(@, cat), !.mapped = fine,
                                 !.hook = IF fine THEN @ \cup {"modified"} ELSE @]
           new == [j \in DOMAIN grammars |-> IF j = k THEN extended ELSE grammars[j]]
<1>3. extended \in Good(gram_maxid, want) /\ extended.id = m.id
  <2>1. m \in Good(gram_maxid, want)
    BY <1>2
  <2>2. fine \in BOOLEAN
    <3>1. m.kind \in Kinds
      BY <2>1, FieldsOf
    <3>2. m.kind.ok \in BOOLEAN
      BY <3>1, KindAssumption DEF KindShape
    <3> QED
      BY <3>2
  <2>3. extended = [m EXCEPT !.words = Append(@, cat), !.mapped = fine,
                            !.hook = IF fine THEN @ \cup {"modified"} ELSE @]
    OBVIOUS
  <2>4. PICK yes : yes \in BOOLEAN /\ yes = fine
    BY <2>2
  <2>5. extended = [m EXCEPT !.words = Append(@, cat), !.mapped = yes,
                            !.hook = IF yes THEN @ \cup {"modified"} ELSE @]
    BY <2>3, <2>4
  <2> HIDE DEF m, fine, extended
  <2>6. cat \in AddedCats
    OBVIOUS
  <2>7. extended \in Good(gram_maxid, want)
    BY <2>1, <2>4, <2>5, <2>6, ExtendedIsGood
  <2>8. extended.id = m.id
    BY <2>1, <2>5 DEF Good, Record
  <2> QED
    BY <2>7, <2>8
<1>4. grammars' = new
  BY <1>2 DEF AddWord
<1> HIDE DEF extended
<1>5. new \in [DOMAIN grammars -> Good(gram_maxid, want')]
      /\ \A j \in DOMAIN grammars : new[j].id = grammars[j].id
  BY <1>1, <1>3 DEF ListInv, GrammarsInv
<1> HIDE DEF new
<1>6. GrammarsInv' /\ Len(grammars') = Len(grammars)
  BY <1>1, <1>4, <1>5, InPlaceChange DEF ListInv, GrammarsInv
<1>7. Asks /\ UNCHANGED <<loopVars, gram_maxid, global, global_modified, procVars>>
  BY DEF AddWord
<1>8. failed' \subseteq Ids
  BY DEF AddWord, ListInv, OthersInv
<1> QED
  BY <1>6, <1>7, <1>8, RestOfRequest

-----------------------------------------------------------------------------
(* The head of a round.                                                    *)

\* The lexicon the words and categories of a grammar are joined to.
LEMMA BaseShape ==
  ASSUME global \in Lexicon
  PROVE  Base \in Lexicon /\ Base.words = global.words /\ Base.cats = global.cats
BY DEF Base, Empty, NoGlobal, Lexicon, Invalid

\* Joining adds the categories of a grammar behind those that are there, and its
\* words, if they fit, behind the words, with their categories shifted.
LEMMA JoinedShape ==
  ASSUME global \in Lexicon, NEW m \in Record
  PROVE  /\ Joined(m) \in Lexicon
         /\ Len(Joined(m).cats) = Len(global.cats) + m.kind.terms
         /\ \A c \in 1..Len(global.cats) : Joined(m).cats[c] = global.cats[c]
         /\ \A c \in 1..m.kind.terms : Joined(m).cats[Len(global.cats) + c].gram = m.id
         /\ ~Fits(m) => Joined(m).words = global.words
         /\ Fits(m) =>
              /\ Len(Joined(m).words) = Len(global.words) + Len(m.words)
              /\ \A w \in 1..Len(global.words) : Joined(m).words[w] = global.words[w]
              /\ \A w \in 1..Len(m.words) :
                   Joined(m).words[Len(global.words) + w] =
                     [gram |-> m.id, cat |-> m.words[w] + Len(global.cats)]
<1> DEFINE W == [gram : Ids, cat : Int]
           T == [gram : Ids, table : BOOLEAN]
           gw == global.words
           gc == global.cats
           jw == JoinedWords(m)
           jc == [c \in 1..m.kind.terms |-> [gram |-> m.id, table |-> Fits(m) /\ m.mapped]]
<1>1. /\ gw \in Seq(W) /\ gc \in Seq(T) /\ Base \in Lexicon
      /\ Base.words = gw /\ Base.cats = gc /\ Base.sp \in Int
  BY BaseShape DEF Lexicon
<1>2. /\ m.id \in Ids /\ m.words \in Seq(Int) /\ m.kind \in Kinds /\ m.kind.terms \in Nat
      /\ m.kind.sp \in Int /\ m.mapped \in BOOLEAN
  <2>1. m.kind \in Kinds
    BY DEF Record
  <2> QED
    BY <2>1, KindFields DEF Record
<1>3. jw \in Seq(W) /\ Len(jw) = Len(m.words)
      /\ \A w \in 1..Len(m.words) : jw[w] = [gram |-> m.id, cat |-> m.words[w] + Len(gc)]
  <2>1. DOMAIN m.words = 1..Len(m.words) /\ Len(m.words) \in Nat /\ Len(gc) \in Nat
    BY <1>1, <1>2
  <2>2. jw = [w \in 1..Len(m.words) |-> [gram |-> m.id, cat |-> m.words[w] + Len(gc)]]
    BY <1>1, <2>1 DEF JoinedWords
  <2>3. \A w \in 1..Len(m.words) : [gram |-> m.id, cat |-> m.words[w] + Len(gc)] \in W
    BY <1>2, <2>1
  <2> HIDE DEF jw, W
  <2> QED
    BY <2>1, <2>2, <2>3
<1>4. jc \in Seq(T) /\ Len(jc) = m.kind.terms /\ \A c \in 1..m.kind.terms : jc[c].gram = m.id
  <2>1. (Fits(m) /\ m.mapped) \in BOOLEAN
    OBVIOUS
  <2>2. [gram |-> m.id, table |-> Fits(m) /\ m.mapped] \in T
    BY <1>2, <2>1
  <2> HIDE DEF T
  <2> QED
    BY <1>2, <2>2, SMTT(30)
<1>5. /\ Joined(m).words = IF Fits(m) THEN gw \o jw ELSE gw
      /\ Joined(m).cats = gc \o jc
      /\ Joined(m).sp = IF Fits(m) /\ Base.sp = Invalid THEN m.kind.sp ELSE Base.sp
      /\ Joined(m) = [words |-> Joined(m).words, cats |-> Joined(m).cats, sp |-> Joined(m).sp]
  BY <1>1 DEF Joined
<1> HIDE DEF W, T, gw, gc, jw, jc
<1>6. /\ gw \o jw \in Seq(W) /\ Len(gw \o jw) = Len(gw) + Len(jw)
      /\ \A i \in 1..Len(gw) + Len(jw) :
           (gw \o jw)[i] = IF i <= Len(gw) THEN gw[i] ELSE jw[i - Len(gw)]
  <2>1. gw \in Seq(W) /\ jw \in Seq(W)
    BY <1>1, <1>3
  <2> QED
    BY <2>1, ConcatProperties
<1>7. /\ gc \o jc \in Seq(T) /\ Len(gc \o jc) = Len(gc) + Len(jc)
      /\ \A i \in 1..Len(gc) + Len(jc) :
           (gc \o jc)[i] = IF i <= Len(gc) THEN gc[i] ELSE jc[i - Len(gc)]
  BY <1>1, <1>4, ConcatProperties
<1>8. Joined(m) \in Lexicon
  <2>1. Joined(m).words \in Seq(W) /\ Joined(m).cats \in Seq(T) /\ Joined(m).sp \in Int
    BY <1>1, <1>2, <1>5, <1>6, <1>7
  <2> QED
    BY <1>5, <2>1 DEF Lexicon, W, T
<1>9. Len(gc) \in Nat /\ Len(gw) \in Nat /\ Len(m.words) \in Nat
  BY <1>1, <1>2
<1>10. /\ Len(Joined(m).cats) = Len(gc) + m.kind.terms
       /\ \A c \in 1..Len(gc) : Joined(m).cats[c] = gc[c]
       /\ \A c \in 1..m.kind.terms : Joined(m).cats[Len(gc) + c].gram = m.id
  <2>1. \A c \in 1..Len(gc) : c \in 1..Len(gc) + Len(jc) /\ c <= Len(gc)
    BY <1>2, <1>4, <1>9
  <2>2. \A c \in 1..m.kind.terms : /\ Len(gc) + c \in 1..Len(gc) + Len(jc)
                                   /\ ~(Len(gc) + c <= Len(gc)) /\ Len(gc) + c - Len(gc) = c
    BY <1>2, <1>4, <1>9
  <2> QED
    BY <1>4, <1>5, <1>7, <2>1, <2>2
<1>11. ASSUME Fits(m)
       PROVE  /\ Len(Joined(m).words) = Len(gw) + Len(m.words)
              /\ \A w \in 1..Len(gw) : Joined(m).words[w] = gw[w]
              /\ \A w \in 1..Len(m.words) :
                   Joined(m).words[Len(gw) + w] = [gram |-> m.id, cat |-> m.words[w] + Len(gc)]
  <2>1. \A w \in 1..Len(gw) : w \in 1..Len(gw) + Len(jw) /\ w <= Len(gw)
    BY <1>3, <1>9
  <2>2. \A w \in 1..Len(m.words) : /\ Len(gw) + w \in 1..Len(gw) + Len(jw)
                                   /\ ~(Len(gw) + w <= Len(gw)) /\ Len(gw) + w - Len(gw) = w
    BY <1>3, <1>9
  <2> QED
    BY <1>3, <1>5, <1>6, <1>11, <2>1, <2>2, SMTT(30)
<1> QED
  BY <1>5, <1>8, <1>10, <1>11 DEF gw, gc

\* Setting a grammar up and forgetting that it was extended.
LEMMA SetUpFields ==
  ASSUME NEW m \in Record
  PROVE  /\ SetUp(m) \in Record /\ SetUp(m).id = m.id /\ SetUp(m).kind = m.kind
         /\ SetUp(m).words = m.words /\ SetUp(m).newbie = m.newbie /\ SetUp(m).active = m.active
         /\ SetUp(m).cate_begin = m.cate_begin /\ SetUp(m).word_begin = m.word_begin
         /\ m.newbie /\ ~(m.kind.ok /\ m.id \notin failed) => SetUp(m).hook = m.hook \cup {"delete"}
         /\ ~m.newbie \/ (m.kind.ok /\ m.id \notin failed) => SetUp(m).hook = m.hook
BY DEF SetUp, Record, Marks

LEMMA SetUpIsGood ==
  ASSUME NEW n, NEW w, NEW m \in Good(n, w)
  PROVE  SetUp(m) \in Good(n, w)
<1>1. m \in Record
  BY DEF Good
<1>2. \A x \in {"activate", "deactivate"} : x \in SetUp(m).hook <=> x \in m.hook
  BY <1>1, SetUpFields
<1>3. SetUp(m) \in Record /\ SetUp(m).id = m.id /\ SetUp(m).active = m.active
  BY <1>1, SetUpFields
<1> QED
  BY <1>2, <1>3, SameSwitch

Unmarked(m) == [m EXCEPT !.hook = @ \ {"modified"}]

LEMMA UnmarkedFields ==
  ASSUME NEW m \in Record
  PROVE  /\ Unmarked(m) \in Record /\ Unmarked(m).id = m.id /\ Unmarked(m).kind = m.kind
         /\ Unmarked(m).words = m.words /\ Unmarked(m).newbie = m.newbie
         /\ Unmarked(m).active = m.active /\ Unmarked(m).cate_begin = m.cate_begin
         /\ Unmarked(m).word_begin = m.word_begin /\ Unmarked(m).hook = m.hook \ {"modified"}
BY DEF Unmarked, Record, Marks

LEMMA UnmarkedIsGood ==
  ASSUME NEW n, NEW w, NEW m \in Good(n, w)
  PROVE  Unmarked(m) \in Good(n, w)
<1>1. m \in Record
  BY DEF Good
<1>2. \A x \in {"activate", "deactivate"} : x \in Unmarked(m).hook <=> x \in m.hook
  BY <1>1, UnmarkedFields
<1>3. Unmarked(m) \in Record /\ Unmarked(m).id = m.id /\ Unmarked(m).active = m.active
  BY <1>1, UnmarkedFields
<1> QED
  BY <1>2, <1>3, SameSwitch

LEMMA PlacedFields ==
  ASSUME global \in Lexicon, NEW m \in Record
  PROVE  /\ Placed(m) \in Record /\ Placed(m).id = m.id /\ Placed(m).kind = m.kind
         /\ Placed(m).words = m.words /\ ~Placed(m).newbie /\ Placed(m).active = m.active
         /\ Placed(m).cate_begin = Len(global.cats) /\ Placed(m).word_begin = Len(global.words)
         /\ Fits(m) => Placed(m).hook = m.hook
         /\ ~Fits(m) => Placed(m).hook = m.hook \cup {"delete"}
<1>1. Len(Base.cats) = Len(global.cats) /\ Len(Base.words) = Len(global.words)
      /\ Len(global.cats) \in Nat /\ Len(global.words) \in Nat
  BY BaseShape DEF Lexicon
<1> QED
  BY <1>1 DEF Placed, Record, Marks

LEMMA PlacedIsGood ==
  ASSUME global \in Lexicon, NEW n, NEW w, NEW m \in Good(n, w)
  PROVE  Placed(m) \in Good(n, w)
<1>1. m \in Record
  BY DEF Good
<1>2. \A x \in {"activate", "deactivate"} : x \in Placed(m).hook <=> x \in m.hook
  BY <1>1, PlacedFields
<1>3. Placed(m) \in Record /\ Placed(m).id = m.id /\ Placed(m).active = m.active
  BY <1>1, PlacedFields
<1> QED
  BY <1>2, <1>3, SameSwitch

\* Carrying out a booked switch does not change what a grammar is about to be.
LEMMA ActivatedFields ==
  ASSUME NEW m \in Record
  PROVE  /\ Activated(m) \in Record /\ Activated(m).id = m.id /\ Activated(m).kind = m.kind
         /\ Activated(m).words = m.words /\ Activated(m).newbie = m.newbie
         /\ Activated(m).cate_begin = m.cate_begin /\ Activated(m).word_begin = m.word_begin
         /\ Activated(m).hook = m.hook \ {"activate", "deactivate"}
BY DEF Activated, Record

LEMMA ActivatedIsGood ==
  ASSUME NEW n, NEW w, NEW m \in Good(n, w)
  PROVE  Activated(m) \in Good(n, w)
<1> DEFINE a == Activated(m)
<1>1. m \in Record /\ m.id < n /\ a.active = w[m.id]
  BY DEF Good
<1>2. a \in Record /\ a.id = m.id /\ a.hook = m.hook \ {"activate", "deactivate"}
  BY <1>1, ActivatedFields
<1> HIDE DEF a
<1>3. Activated(a).active = a.active
  BY <1>2, ActiveOf
<1>4. a \in Good(n, w)
  BY <1>1, <1>2, <1>3 DEF Good
<1> QED
  BY <1>4 DEF a

\* A shorter list of the same grammars.
LEMMA ListOfGood ==
  ASSUME ListInv, UNCHANGED <<gram_maxid, want>>,
         grammars' \in Seq(Good(gram_maxid, want)), Len(grammars') <= Len(grammars),
         Distinct(grammars')
  PROVE  GrammarsInv'
<1>1. Len(grammars) \in Nat /\ Len(grammars') \in Nat /\ gram_maxid \in Nat
      /\ Len(grammars) <= gram_maxid
  BY LimitAssumption DEF ListInv, GrammarsInv
<1>2. Len(grammars') <= gram_maxid
  BY <1>1
<1>3. (Good(gram_maxid, want))' = Good(gram_maxid, want)
  BY DEF Good, Record, Activated
<1>4. grammars' \in Seq((Good(gram_maxid, want))')
  BY <1>3
<1>5. Distinct(grammars)'
  BY DEF Distinct
<1> QED
  BY <1>2, <1>4, <1>5 DEF ListInv, GrammarsInv

\* UpdateBegin keeps the grammars not marked for deletion once they are set up.
LEMMA UpdateBeginList ==
  ASSUME ListInv, UpdateBegin
  PROVE  /\ ListInv'
         /\ rebuild_flag' = MustRebuild([i \in DOMAIN grammars |-> SetUp(grammars[i])])
         /\ \A k \in DOMAIN grammars' : \E i \in DOMAIN grammars :
              /\ "delete" \notin SetUp(grammars[i]).hook
              /\ grammars'[k] = Unmarked(SetUp(grammars[i]))
         /\ \A i \in DOMAIN grammars : "delete" \notin SetUp(grammars[i]).hook =>
              \E k \in DOMAIN grammars' : grammars'[k] = Unmarked(SetUp(grammars[i]))
<1> DEFINE G == Good(gram_maxid, want)
           list == [i \in DOMAIN grammars |-> SetUp(grammars[i])]
           kept == Kept(list)
           new == [i \in DOMAIN kept |-> Unmarked(kept[i])]
<1>1. grammars \in Seq(G) /\ Distinct(grammars) /\ Len(grammars) \in Nat
  BY DEF ListInv, GrammarsInv
<1>2. \A i \in DOMAIN grammars : SetUp(grammars[i]) \in G /\ SetUp(grammars[i]).id = grammars[i].id
  <2> TAKE i \in DOMAIN grammars
  <2>1. grammars[i] \in G /\ grammars[i] \in Record
    BY <1>1 DEF Good
  <2> QED
    BY <2>1, SetUpIsGood, SetUpFields
<1> HIDE DEF G
<1>3. list \in Seq(G) /\ Len(list) = Len(grammars) /\ DOMAIN list = DOMAIN grammars
      /\ Distinct(list)
  <2>1. list \in [DOMAIN grammars -> G] /\ \A i \in DOMAIN grammars : list[i].id = grammars[i].id
    BY <1>2
  <2> HIDE DEF list
  <2> QED
    BY <1>1, <2>1, Changed
<1>4. \A i \in DOMAIN grammars : list[i] = SetUp(grammars[i])
  OBVIOUS
<1> HIDE DEF list
<1>5. /\ kept \in Seq(G) /\ Len(kept) <= Len(list) /\ Distinct(kept)
      /\ \A k \in DOMAIN kept : \E i \in DOMAIN list :
           kept[k] = list[i] /\ "delete" \notin list[i].hook
      /\ \A i \in DOMAIN list :
           "delete" \notin list[i].hook => \E k \in DOMAIN kept : kept[k] = list[i]
  BY <1>3, KeptPart
<1> HIDE DEF kept
<1>6. \A i \in DOMAIN kept : Unmarked(kept[i]) \in G /\ Unmarked(kept[i]).id = kept[i].id
  <2> TAKE i \in DOMAIN kept
  <2>1. kept[i] \in Good(gram_maxid, want) /\ kept[i] \in Record
    BY <1>5 DEF G, Good
  <2> QED
    BY <2>1, UnmarkedIsGood, UnmarkedFields DEF G
<1>7. new \in Seq(G) /\ Len(new) = Len(kept) /\ DOMAIN new = DOMAIN kept /\ Distinct(new)
  <2>1. new \in [DOMAIN kept -> G] /\ \A i \in DOMAIN kept : new[i].id = kept[i].id
    BY <1>6
  <2> HIDE DEF new
  <2> QED
    BY <1>5, <2>1, Changed
<1>8. grammars' = new /\ rebuild_flag' = MustRebuild(list)
  BY DEF UpdateBegin, list, kept, Unmarked
<1>9. \A i \in DOMAIN kept : new[i] = Unmarked(kept[i])
  OBVIOUS
<1> HIDE DEF new
<1>10. gram_maxid' = gram_maxid /\ want' = want /\ at' = 1 /\ pc' = "append"
  BY DEF UpdateBegin, history
<1>11. GrammarsInv'
  BY <1>3, <1>5, <1>7, <1>8, <1>10, ListOfGood DEF G
<1>12. LoopInv'
  <2>1. rebuild_flag' \in BOOLEAN
    BY <1>8 DEF MustRebuild
  <2>2. Len(grammars') \in Nat
    BY <1>7, <1>8
  <2>3. at' \in 1..Len(grammars') + 1
    BY <1>10, <2>2
  <2> QED
    BY <1>10, <2>1, <2>3 DEF LoopInv
<1>13. OthersInv'
  <2>1. NoGlobal \in Lexicon
    BY DEF NoGlobal, Lexicon
  <2>2. global' \in Lexicon
    BY <2>1 DEF UpdateBegin, ListInv, OthersInv
  <2> QED
    BY <2>2 DEF UpdateBegin, ListInv, OthersInv, procVars, history
<1>14. \A k \in DOMAIN grammars' : \E i \in DOMAIN grammars :
         /\ "delete" \notin SetUp(grammars[i]).hook
         /\ grammars'[k] = Unmarked(SetUp(grammars[i]))
  <2> SUFFICES ASSUME NEW k \in DOMAIN kept
               PROVE  \E i \in DOMAIN grammars : /\ "delete" \notin SetUp(grammars[i]).hook
                                                 /\ new[k] = Unmarked(SetUp(grammars[i]))
    BY <1>7, <1>8
  <2>1. PICK i \in DOMAIN list : kept[k] = list[i] /\ "delete" \notin list[i].hook
    BY <1>5
  <2> QED
    BY <1>3, <1>4, <1>9, <2>1
<1>15. \A i \in DOMAIN grammars : "delete" \notin SetUp(grammars[i]).hook =>
         \E k \in DOMAIN grammars' : grammars'[k] = Unmarked(SetUp(grammars[i]))
  <2> SUFFICES ASSUME NEW i \in DOMAIN grammars, "delete" \notin SetUp(grammars[i]).hook
               PROVE  \E k \in DOMAIN kept : new[k] = Unmarked(SetUp(grammars[i]))
    BY <1>7, <1>8
  <2>1. PICK k \in DOMAIN kept : kept[k] = list[i]
    BY <1>3, <1>4, <1>5
  <2> QED
    BY <1>4, <1>9, <2>1
<1> QED
  BY <1>8, <1>11, <1>12, <1>13, <1>14, <1>15 DEF ListInv, list

\* The grammar the loop is at is placed when all are joined or it is new.
LEMMA JoinNextList ==
  ASSUME ListInv, JoinNext
  PROVE  /\ ListInv' /\ Len(grammars') = Len(grammars) /\ DOMAIN grammars' = DOMAIN grammars
         /\ at \in DOMAIN grammars /\ at' = at + 1
         /\ \/ /\ rebuild_flag \/ grammars[at].newbie
               /\ grammars'[at] = Placed(grammars[at])
               /\ \A i \in DOMAIN grammars : i # at => grammars'[i] = grammars[i]
               /\ global' = Joined(grammars[at])
               /\ global_modified' = (global_modified \/ ~rebuild_flag)
            \/ /\ ~(rebuild_flag \/ grammars[at].newbie)
               /\ UNCHANGED <<grammars, global, global_modified>>
<1> DEFINE m == grammars[at]
           new == [i \in DOMAIN grammars |-> IF i = at THEN Placed(m) ELSE grammars[i]]
<1>1. grammars \in Seq(Good(gram_maxid, want)) /\ Len(grammars) \in Nat
      /\ DOMAIN grammars = 1..Len(grammars)
  BY DEF ListInv, GrammarsInv
<1>2. at \in DOMAIN grammars
  BY <1>1 DEF ListInv, LoopInv, JoinNext
<1>3. m \in Good(gram_maxid, want) /\ m \in Record
  BY <1>1, <1>2 DEF Good
<1>4. /\ gram_maxid' = gram_maxid /\ want' = want /\ at' = at + 1 /\ pc' = pc
      /\ rebuild_flag' = rebuild_flag /\ pc = "append" /\ at <= Len(grammars)
  BY DEF JoinNext, history
<1>5. want' \in [Ids -> BOOLEAN] /\ \A id \in Ids : id >= gram_maxid => want'[id]
  BY <1>4 DEF ListInv, GrammarsInv
<1>6. Placed(m) \in Good(gram_maxid, want) /\ Placed(m).id = m.id
  <2>1. global \in Lexicon
    BY DEF ListInv, OthersInv
  <2> HIDE DEF m
  <2> QED
    BY <1>3, <2>1, PlacedIsGood, PlacedFields
<1>7. CASE rebuild_flag \/ m.newbie
  <2>1. grammars' = [grammars EXCEPT ![at] = Placed(m)] /\ global' = Joined(m)
        /\ global_modified' = (global_modified \/ ~rebuild_flag)
    BY <1>7 DEF JoinNext
  <2>2. grammars' = new
    BY <2>1
  <2>3. new \in [DOMAIN grammars -> Good(gram_maxid, want')]
        /\ \A i \in DOMAIN grammars : new[i].id = grammars[i].id
    BY <1>1, <1>4, <1>6
  <2>4. GrammarsInv' /\ Len(grammars') = Len(grammars) /\ DOMAIN grammars' = DOMAIN grammars
    <3> HIDE DEF new
    <3> QED
      BY <1>4, <1>5, <2>2, <2>3, InPlaceChange
  <2>5. LoopInv'
    BY <1>1, <1>2, <1>4, <2>4 DEF ListInv, LoopInv
  <2>6. global' \in Lexicon
    BY <1>3, <2>1, JoinedShape DEF ListInv, OthersInv
  <2>7. OthersInv'
    BY <2>1, <2>6 DEF JoinNext, ListInv, OthersInv, procVars, history
  <2> QED
    BY <1>2, <1>4, <1>7, <2>1, <2>2, <2>4, <2>5, <2>7 DEF ListInv
<1>8. CASE ~(rebuild_flag \/ m.newbie)
  <2>1. UNCHANGED <<grammars, global, global_modified>>
    BY <1>8 DEF JoinNext
  <2>2. GrammarsInv'
    BY <1>1, <1>4, <2>1, ListOfGood DEF ListInv, GrammarsInv
  <2>3. LoopInv'
    BY <1>1, <1>2, <1>4, <2>1 DEF ListInv, LoopInv
  <2>4. OthersInv'
    BY <2>1 DEF JoinNext, ListInv, OthersInv, procVars, history
  <2> QED
    BY <1>2, <1>4, <1>8, <2>1, <2>2, <2>3, <2>4 DEF ListInv
<1> QED
  BY <1>7, <1>8

\* After the loop the booked switches are carried out; a rebuild drops the
\* grammars that did not fit.
LEMMA UpdateEndList ==
  ASSUME ListInv, UpdateEnd
  PROVE  /\ ListInv'
         /\ \A k \in DOMAIN grammars' : \E i \in DOMAIN grammars :
              /\ rebuild_flag => "delete" \notin grammars[i].hook
              /\ grammars'[k] = Activated(grammars[i])
         /\ \A i \in DOMAIN grammars :
              \/ rebuild_flag /\ "delete" \in grammars[i].hook
              \/ \E k \in DOMAIN grammars' : grammars'[k] = Activated(grammars[i])
<1> DEFINE G == Good(gram_maxid, want)
           list == IF rebuild_flag THEN Kept(grammars) ELSE grammars
           new == [i \in DOMAIN list |-> Activated(list[i])]
<1>1. grammars \in Seq(G) /\ Distinct(grammars) /\ Len(grammars) \in Nat
  BY DEF ListInv, GrammarsInv
<1> HIDE DEF G
<1>2. /\ list \in Seq(G) /\ Len(list) <= Len(grammars) /\ Distinct(list)
      /\ \A k \in DOMAIN list : \E i \in DOMAIN grammars :
           list[k] = grammars[i] /\ (rebuild_flag => "delete" \notin grammars[i].hook)
      /\ \A i \in DOMAIN grammars :
           \/ rebuild_flag /\ "delete" \in grammars[i].hook
           \/ \E k \in DOMAIN list : list[k] = grammars[i]
  <2>1. CASE rebuild_flag
    <3> DEFINE kept == Kept(grammars)
    <3>1. /\ kept \in Seq(G) /\ Len(kept) <= Len(grammars) /\ Distinct(kept)
          /\ \A k \in DOMAIN kept : \E i \in DOMAIN grammars :
               kept[k] = grammars[i] /\ "delete" \notin grammars[i].hook
          /\ \A i \in DOMAIN grammars :
               "delete" \notin grammars[i].hook => \E k \in DOMAIN kept : kept[k] = grammars[i]
      BY <1>1, KeptPart
    <3>2. list = kept
      BY <2>1
    <3> HIDE DEF kept, list
    <3> QED
      BY <2>1, <3>1, <3>2
  <2>2. CASE ~rebuild_flag
    <3>1. list = grammars
      BY <2>2
    <3> HIDE DEF list
    <3> QED
      BY <1>1, <2>2, <3>1
  <2> QED
    BY <2>1, <2>2
<1>3. grammars' = new
  BY DEF UpdateEnd
<1> HIDE DEF list
<1>4. \A i \in DOMAIN list : Activated(list[i]) \in G /\ Activated(list[i]).id = list[i].id
  <2> TAKE i \in DOMAIN list
  <2>1. list[i] \in Good(gram_maxid, want) /\ list[i] \in Record
    BY <1>2 DEF G, Good
  <2> QED
    BY <2>1, ActivatedIsGood, ActivatedFields DEF G
<1>5. new \in Seq(G) /\ Len(new) = Len(list) /\ DOMAIN new = DOMAIN list /\ Distinct(new)
  <2>1. new \in [DOMAIN list -> G] /\ \A i \in DOMAIN list : new[i].id = list[i].id
    BY <1>4
  <2> HIDE DEF new
  <2> QED
    BY <1>2, <2>1, Changed
<1>6. \A i \in DOMAIN list : new[i] = Activated(list[i])
  OBVIOUS
<1> HIDE DEF new
<1>7. gram_maxid' = gram_maxid /\ want' = want /\ at' = 1 /\ pc' = "build"
      /\ rebuild_flag' = rebuild_flag
  BY DEF UpdateEnd, history
<1>8. GrammarsInv'
  BY <1>2, <1>3, <1>5, <1>7, ListOfGood DEF G
<1>9. LoopInv'
  <2>1. Len(grammars') \in Nat
    BY <1>3, <1>5
  <2>2. at' \in 1..Len(grammars') + 1
    BY <1>7, <2>1
  <2> QED
    BY <1>7, <2>2 DEF ListInv, LoopInv
<1>10. OthersInv'
  BY DEF UpdateEnd, ListInv, OthersInv, procVars, history
<1>11. \A k \in DOMAIN grammars' : \E i \in DOMAIN grammars :
         /\ rebuild_flag => "delete" \notin grammars[i].hook
         /\ grammars'[k] = Activated(grammars[i])
  <2> SUFFICES ASSUME NEW k \in DOMAIN list
               PROVE  \E i \in DOMAIN grammars :
                        /\ rebuild_flag => "delete" \notin grammars[i].hook
                        /\ new[k] = Activated(grammars[i])
    BY <1>3, <1>5
  <2>1. PICK i \in DOMAIN grammars :
          list[k] = grammars[i] /\ (rebuild_flag => "delete" \notin grammars[i].hook)
    BY <1>2
  <2> QED
    BY <1>6, <2>1
<1>12. \A i \in DOMAIN grammars :
         \/ rebuild_flag /\ "delete" \in grammars[i].hook
         \/ \E k \in DOMAIN grammars' : grammars'[k] = Activated(grammars[i])
  <2> SUFFICES ASSUME NEW i \in DOMAIN grammars, ~(rebuild_flag /\ "delete" \in grammars[i].hook)
               PROVE  \E k \in DOMAIN list : new[k] = Activated(grammars[i])
    BY <1>3, <1>5
  <2>1. PICK k \in DOMAIN list : list[k] = grammars[i]
    BY <1>2
  <2> QED
    BY <1>6, <2>1
<1> QED
  BY <1>8, <1>9, <1>10, <1>11, <1>12 DEF ListInv

\* The actions that leave the list and the lexicon alone.
Quiet ==
  \/ \E r \in Procs, on \in BOOLEAN : Book(r, on)
  \/ \E on \in BOOLEAN : Ask(on)
  \/ Start \/ Rest \/ WakeUp \/ Build \/ RoundEnd

LEMMA QuietFrame ==
  ASSUME Quiet
  PROVE  /\ UNCHANGED <<grammars, gram_maxid, global, rebuild_flag, at, want, failed>>
         /\ pc # "append" /\ pc' # "append"
<1>1. CASE \E r \in Procs, on \in BOOLEAN : Book(r, on)
  BY <1>1 DEF Book, Asks, lmVars, loopVars
<1>2. CASE \E on \in BOOLEAN : Ask(on)
  BY <1>2 DEF Ask, Asks, lmVars, loopVars
<1>3. CASE Start
  BY <1>3 DEF Start, lmVars, history
<1>4. CASE Rest \/ WakeUp \/ RoundEnd
  BY <1>4 DEF Rest, WakeUp, RoundEnd, lmVars, history
<1>5. CASE Build
  BY <1>5 DEF Build, history
<1> QED
  BY <1>1, <1>2, <1>3, <1>4, <1>5 DEF Quiet

LEMMA QuietKeepsList ==
  ASSUME ListInv, Quiet
  PROVE  ListInv'
<1>1. /\ UNCHANGED <<grammars, gram_maxid, global, rebuild_flag, at, want, failed>>
      /\ pc # "append" /\ pc' # "append"
  BY QuietFrame
<1>2. GrammarsInv'
  BY <1>1 DEF ListInv, GrammarsInv, Good, Record, Activated, Distinct
<1>3. OthersInv' /\ pc' \in {"start", "poll", "append", "build", "decode", "paused"}
  <2>1. CASE \E r \in Procs, on \in BOOLEAN : Book(r, on)
    BY <2>1, LimitAssumption
       DEF Book, Asks, ListInv, LoopInv, OthersInv, lmVars, loopVars
  <2>2. CASE \E on \in BOOLEAN : Ask(on)
    BY <2>2, LimitAssumption
       DEF Ask, Asks, ListInv, LoopInv, OthersInv, lmVars, loopVars
  <2>3. CASE Start
    <3>1. live' \in [Procs -> BOOLEAN] /\ active' \in [Procs -> {-1, 0, 1}]
          /\ process_active' \in BOOLEAN
      BY <2>3 DEF Start, ListInv, OthersInv
    <3>2. pc' \in {"start", "poll", "append", "build", "decode", "paused"}
      BY <2>3 DEF Start
    <3> QED
      BY <2>3, <3>1, <3>2 DEF Start, ListInv, OthersInv, lmVars, history
  <2>4. CASE Rest \/ WakeUp \/ RoundEnd
    BY <2>4 DEF Rest, WakeUp, RoundEnd, ListInv, LoopInv, OthersInv, lmVars, procVars, history
  <2>5. CASE Build
    <3>1. active' \in [Procs -> {-1, 0, 1}] /\ global_modified' = FALSE
      BY <2>5 DEF Build, ListInv, OthersInv
    <3>2. pc' \in {"start", "poll", "append", "build", "decode", "paused"}
      BY <2>5 DEF Build
    <3> QED
      BY <2>5, <3>1, <3>2 DEF Build, ListInv, OthersInv, history
  <2> QED
    BY <2>1, <2>2, <2>3, <2>4, <2>5 DEF Quiet
<1>4. LoopInv'
  BY <1>1, <1>3 DEF ListInv, LoopInv
<1> QED
  BY <1>2, <1>3, <1>4 DEF ListInv

LEMMA NextCases ==
  ASSUME Next
  PROVE  \/ \E k \in Kinds : Add(k)
         \/ \E ids \in SUBSET Registered : Delete(ids)
         \/ \E id \in Ids, on \in BOOLEAN : Switch(id, on)
         \/ \E id \in Ids, cat \in AddedCats : AddWord(id, cat)
         \/ UpdateBegin \/ JoinNext \/ UpdateEnd \/ Quiet
BY DEF Next, Requests, Engine, Quiet

\* The grammars of the configuration.
LEMMA InitList == Init => ListInv
<1> SUFFICES ASSUME Init PROVE ListInv
  OBVIOUS
<1> DEFINE n == Len(Loaded)
           G == Good(n, want)
           new(i) == NewGrammar(Loaded[n + 1 - i], n - i)
<1>1. n \in Nat /\ n <= MaxAdds /\ MaxAdds \in Nat /\ \A i \in 1..n : Loaded[i] \in Kinds
  BY LoadedAssumption, LimitAssumption
<1>2. grammars = [i \in 1..n |-> new(i)] /\ gram_maxid = n
      /\ want = [i \in Ids |-> TRUE]
  BY DEF Init
<1> HIDE DEF n
<1>3. ASSUME NEW i \in 1..n
      PROVE  new(i) \in G /\ new(i).id = n - i
  <2> DEFINE k == Loaded[n + 1 - i]
             m == new(i)
  <2>1. k \in Kinds /\ n - i \in Ids /\ n - i < n
    BY <1>1 DEF Ids
  <2> HIDE DEF k
  <2>2. m \in Record /\ m.id = n - i /\ m.hook = {"activate"}
    BY <2>1, KindFields DEF NewGrammar, Record, Marks, k
  <2> HIDE DEF m
  <2>3. Activated(m).active = TRUE
    BY <2>2, ActiveOf
  <2>4. want[m.id] = TRUE
    BY <1>2, <2>1, <2>2
  <2>5. m.id < n /\ "deactivate" \notin m.hook
    BY <2>1, <2>2
  <2>6. m \in G
    BY <2>2, <2>3, <2>4, <2>5 DEF Good
  <2> QED
    BY <2>2, <2>6 DEF m
<1> HIDE DEF G, new
<1>4. grammars \in Seq(G) /\ Len(grammars) = n /\ DOMAIN grammars = 1..n
      /\ \A i \in 1..n : grammars[i].id = n - i
  BY <1>1, <1>2, <1>3
<1>5. Distinct(grammars)
  BY <1>1, <1>4 DEF Distinct
<1>6. GrammarsInv
  <2>1. want \in [Ids -> BOOLEAN] /\ \A id \in Ids : want[id]
    BY <1>2
  <2>2. gram_maxid \in 0..MaxAdds /\ Len(grammars) <= gram_maxid
    BY <1>1, <1>2, <1>4
  <2>3. grammars \in Seq(Good(gram_maxid, want))
    BY <1>2, <1>4 DEF G
  <2> QED
    BY <1>5, <2>1, <2>2, <2>3 DEF GrammarsInv
<1>7. LoopInv
  <2>1. pc = "start" /\ rebuild_flag = FALSE /\ at = 1
    BY DEF Init
  <2>2. Len(grammars) \in Nat
    BY <1>1, <1>4
  <2>3. 1 \in 1..Len(grammars) + 1
    BY <2>2
  <2>4. at \in 1..Len(grammars) + 1
    BY <2>1, <2>3
  <2> QED
    BY ONLY <2>1, <2>4 DEF LoopInv
<1>8. OthersInv
  <2>1. NoGlobal \in Lexicon
    BY DEF NoGlobal, Lexicon
  <2>2. /\ global = NoGlobal /\ global_modified = FALSE /\ process_active = TRUE
        /\ live = [r \in Procs |-> FALSE] /\ active = [r \in Procs |-> 1]
        /\ failed = {} /\ asked = 0
    BY DEF Init
  <2>3. live \in [Procs -> BOOLEAN] /\ active \in [Procs -> {-1, 0, 1}]
    BY <2>2
  <2>4. asked \in 0..MaxRequests
    BY <2>2, LimitAssumption
  <2> QED
    BY <2>1, <2>2, <2>3, <2>4 DEF OthersInv
<1> QED
  BY <1>6, <1>7, <1>8 DEF ListInv

LEMMA StepList == ListInv /\ [Next]_vars => ListInv'
<1> SUFFICES ASSUME ListInv, [Next]_vars PROVE ListInv'
  OBVIOUS
<1>1. CASE UNCHANGED vars
  BY <1>1 DEF vars, lmVars, procVars, loopVars, history, ListInv, GrammarsInv, LoopInv,
              OthersInv, Good, Record, Activated, Distinct
<1>2. CASE Next
  BY <1>2, NextCases, AddKeepsList, DeleteKeepsList, SwitchKeepsList, AddWordKeepsList,
     UpdateBeginList, JoinNextList, UpdateEndList, QuietKeepsList
<1> QED
  BY <1>1, <1>2

LEMMA AlwaysList == Spec => []ListInv
<1> QED
  BY InitList, StepList, PTL DEF Spec

\* Every variable keeps its type, and the loop of the update stays inside the
\* list while grammars are placed and deleted under it (multi-gram.c:611-773).
THEOREM GramTypeCorrect == Spec => []TypeOK
<1>1. ASSUME ListInv PROVE TypeOK
  <2>1. \A i \in DOMAIN grammars : grammars[i] \in Good(gram_maxid, want)
    BY <1>1 DEF ListInv, GrammarsInv
  <2>2. at \in 1..MaxAdds + 1
    <3>1. Len(grammars) \in Nat /\ Len(grammars) <= MaxAdds /\ MaxAdds \in Nat
      BY <1>1, LimitAssumption DEF ListInv, GrammarsInv
    <3> QED
      BY <1>1, <3>1 DEF ListInv, LoopInv
  <2>3. ASSUME NEW i \in DOMAIN grammars
        PROVE  LET m == grammars[i] IN
               /\ m.id \in Ids /\ m.hook \subseteq {"delete", "activate", "deactivate", "modified"}
               /\ m.newbie \in BOOLEAN /\ m.active \in BOOLEAN /\ m.mapped \in BOOLEAN
               /\ m.cate_begin \in Nat /\ m.word_begin \in Nat
               /\ ~({"activate", "deactivate"} \subseteq m.hook)
    BY <2>1 DEF Good, Record, Marks
  <2> QED
    BY <1>1, <2>2, <2>3 DEF ListInv, GrammarsInv, LoopInv, OthersInv, TypeOK
<1> QED
  BY <1>1, AlwaysList, PTL

\* Whatever requests come in which order, between rounds or in them, the state a
\* grammar has or is about to have is the one asked for last: a request supersedes
\* the booked one, and carrying a booking out changes nothing for the others
\* (multi-gram.c:446-584).
THEOREM LastSwitchWins == Spec => []LastRequestWins
<1>1. ASSUME ListInv PROVE LastRequestWins
  BY <1>1 DEF ListInv, GrammarsInv, LastRequestWins, Good
<1> QED
  BY <1>1, AlwaysList, PTL

-----------------------------------------------------------------------------
(* The categories of the global lexicon.                                   *)

\* The grammar number i has its place in the lexicon.
InPlace(i) == ~grammars[i].newbie /\ (pc = "append" /\ rebuild_flag => i < at)

\* The categories of m in lexicon g are those from its beginning on.
Sits(m, g) ==
  /\ m.cate_begin + m.kind.terms <= Len(g.cats)
  /\ \A c \in 1..Len(g.cats) :
       g.cats[c].gram = m.id <=> m.cate_begin < c /\ c <= m.cate_begin + m.kind.terms

Absent(m, g) == \A c \in 1..Len(g.cats) : g.cats[c].gram # m.id

\* The category of a word is one of the grammar it is from.
Labelled(g) ==
  \A w \in 1..Len(g.words) :
    /\ g.words[w].cat \in 0..Len(g.cats) - 1
    /\ g.cats[g.words[w].cat + 1].gram = g.words[w].gram

CategoriesInv ==
  /\ \A i \in DOMAIN grammars :
       /\ InPlace(i) => Sits(grammars[i], global)
       /\ ~InPlace(i) => Absent(grammars[i], global)
       /\ grammars[i].words \in Seq(0..grammars[i].kind.terms - 1)
  /\ \A c \in 1..Len(global.cats) : global.cats[c].gram < gram_maxid
  /\ Labelled(global)

\* Two records of a grammar that agree in what places it.
Alike(m, new) ==
  /\ new.id = m.id /\ new.kind = m.kind /\ new.newbie = m.newbie
  /\ new.cate_begin = m.cate_begin /\ new.word_begin = m.word_begin

\* A step that leaves the lexicon alone and moves no grammar in it.
LEMMA PlacesKept ==
  ASSUME CategoriesInv, UNCHANGED <<global, gram_maxid>>,
         \A k \in DOMAIN grammars' : \E i \in DOMAIN grammars :
           /\ Alike(grammars[i], grammars'[k])
           /\ InPlace(i) <=> InPlace(k)'
           /\ grammars[i].words \in Seq(0..grammars[i].kind.terms - 1) =>
                grammars'[k].words \in Seq(0..grammars'[k].kind.terms - 1)
  PROVE  CategoriesInv'
<1>1. ASSUME NEW k \in DOMAIN grammars'
      PROVE  /\ InPlace(k)' => Sits(grammars'[k], global)
             /\ ~InPlace(k)' => Absent(grammars'[k], global)
             /\ grammars'[k].words \in Seq(0..grammars'[k].kind.terms - 1)
  <2>1. PICK i \in DOMAIN grammars :
          /\ Alike(grammars[i], grammars'[k])
          /\ InPlace(i) <=> InPlace(k)'
          /\ grammars[i].words \in Seq(0..grammars[i].kind.terms - 1) =>
               grammars'[k].words \in Seq(0..grammars'[k].kind.terms - 1)
    OBVIOUS
  <2>2. /\ Sits(grammars[i], global) => Sits(grammars'[k], global)
        /\ Absent(grammars[i], global) => Absent(grammars'[k], global)
    BY <2>1 DEF Alike, Sits, Absent
  <2> QED
    BY <2>1, <2>2 DEF CategoriesInv
<1> QED
  BY <1>1 DEF CategoriesInv

\* The grammar that is placed next gets the categories behind those there are, and
\* no other grammar's place is touched.
LEMMA JoinedSits ==
  ASSUME global \in Lexicon, NEW m \in Record, Absent(m, global),
         m.words \in Seq(0..m.kind.terms - 1), Labelled(global)
  PROVE  /\ Sits(Placed(m), Joined(m))
         /\ Labelled(Joined(m))
         /\ \A o \in Record : o.id # m.id =>
              /\ Sits(o, global) => Sits(o, Joined(m))
              /\ Absent(o, global) => Absent(o, Joined(m))
         /\ \A n \in Int : m.id < n /\ (\A c \in 1..Len(global.cats) : global.cats[c].gram < n) =>
              \A c \in 1..Len(Joined(m).cats) : Joined(m).cats[c].gram < n
<1> DEFINE g == Joined(m)
           L == Len(global.cats)
           N == Len(global.words)
           t == m.kind.terms
<1>1. /\ g \in Lexicon /\ Len(g.cats) = L + t
      /\ \A c \in 1..L : g.cats[c] = global.cats[c]
      /\ \A c \in 1..t : g.cats[L + c].gram = m.id
      /\ ~Fits(m) => g.words = global.words
      /\ Fits(m) =>
           /\ Len(g.words) = N + Len(m.words)
           /\ \A w \in 1..N : g.words[w] = global.words[w]
           /\ \A w \in 1..Len(m.words) :
                g.words[N + w] = [gram |-> m.id, cat |-> m.words[w] + L]
  BY JoinedShape
<1>2. L \in Nat /\ N \in Nat /\ t \in Nat /\ Len(m.words) \in Nat /\ m.id \in Ids
  <2>1. m.kind \in Kinds
    BY DEF Record
  <2> QED
    BY <2>1, KindFields DEF Lexicon, Record
<1> HIDE DEF g, L, N, t
<1>3. \A c \in L + 1..L + t : g.cats[c].gram = m.id
  <2> TAKE c \in L + 1..L + t
  <2> DEFINE d == c - L
  <2>1. d \in 1..t /\ L + d = c
    BY <1>2
  <2> HIDE DEF d
  <2>2. g.cats[L + d].gram = m.id
    BY <1>1, <2>1
  <2> QED
    BY <2>1, <2>2
<1>4. \A c \in 1..L + t : c \in 1..L \/ c \in L + 1..L + t
  BY <1>2
<1>5. \A c \in 1..L : g.cats[c].gram # m.id
  BY <1>1 DEF Absent, L
<1>6. Sits(Placed(m), g)
  <2>1. Placed(m).id = m.id /\ Placed(m).kind = m.kind /\ Placed(m).cate_begin = L
    BY PlacedFields DEF L
  <2>2. \A c \in 1..L + t : g.cats[c].gram = m.id <=> L < c /\ c <= L + t
    <3> TAKE c \in 1..L + t
    <3>1. CASE c \in 1..L
      BY <1>2, <1>5, <3>1
    <3>2. CASE c \in L + 1..L + t
      BY <1>2, <1>3, <3>2
    <3> QED
      BY <1>4, <3>1, <3>2
  <2>3. L + t <= L + t
    BY <1>2
  <2> QED
    BY <1>1, <2>1, <2>2, <2>3 DEF Sits, t
<1>7. Labelled(g)
  <2>1. ASSUME NEW w \in 1..N
        PROVE  /\ global.words[w].cat \in 0..L + t - 1
               /\ g.cats[global.words[w].cat + 1].gram = global.words[w].gram
    <3> DEFINE c == global.words[w].cat
    <3>1. c \in 0..L - 1 /\ global.cats[c + 1].gram = global.words[w].gram
      BY DEF Labelled, L, N
    <3> HIDE DEF c
    <3>2. c \in 0..L + t - 1 /\ c + 1 \in 1..L
      BY <1>2, <3>1
    <3>3. g.cats[c + 1] = global.cats[c + 1]
      BY <1>1, <3>2
    <3> QED
      BY <3>1, <3>2, <3>3 DEF c
  <2>2. CASE ~Fits(m)
    <3>1. g.words = global.words /\ Len(g.words) = N /\ Len(g.cats) = L + t
      BY <1>1, <2>2 DEF N
    <3>2. \A w \in 1..N : /\ g.words[w].cat \in 0..L + t - 1
                          /\ g.cats[g.words[w].cat + 1].gram = g.words[w].gram
      BY <2>1, <3>1
    <3>3. 0..Len(g.cats) - 1 = 0..L + t - 1 /\ 1..Len(g.words) = 1..N
      BY <1>2, <3>1
    <3>4. \A w \in 1..Len(g.words) :
            /\ g.words[w].cat \in 0..Len(g.cats) - 1
            /\ g.cats[g.words[w].cat + 1].gram = g.words[w].gram
      BY ONLY <3>2, <3>3
    <3> QED
      BY ONLY <3>4 DEF Labelled
  <2>3. CASE Fits(m)
    <3>1. ASSUME NEW w \in 1..N + Len(m.words)
          PROVE  /\ g.words[w].cat \in 0..L + t - 1
                 /\ g.cats[g.words[w].cat + 1].gram = g.words[w].gram
      <4>1. CASE w \in 1..N
        BY <1>1, <2>1, <2>3, <4>1
      <4>2. CASE w \notin 1..N
        <5> DEFINE v == w - N
        <5>1. v \in 1..Len(m.words) /\ N + v = w
          BY <1>2, <4>2
        <5> DEFINE x == m.words[v]
        <5> HIDE DEF v
        <5>2. x \in 0..t - 1
          <6>1. m.words \in Seq(0..t - 1)
            BY DEF t
          <6> QED
            BY <5>1, <6>1, ElementOfSeq
        <5>3. g.words[N + v] = [gram |-> m.id, cat |-> x + L]
          BY <1>1, <2>3, <5>1
        <5> HIDE DEF x
        <5>4. g.words[w].gram = m.id /\ g.words[w].cat = x + L
          BY <5>1, <5>3
        <5>5. x + L \in 0..L + t - 1 /\ x + L + 1 \in L + 1..L + t
          BY <1>2, <5>2
        <5> QED
          BY <1>3, <5>4, <5>5
      <4> QED
        BY <4>1, <4>2
    <3>2. Len(g.words) = N + Len(m.words) /\ Len(g.cats) = L + t
      BY <1>1, <2>3
    <3>3. 0..Len(g.cats) - 1 = 0..L + t - 1 /\ 1..Len(g.words) = 1..N + Len(m.words)
      BY <1>2, <3>2
    <3>4. \A w \in 1..Len(g.words) :
            /\ g.words[w].cat \in 0..Len(g.cats) - 1
            /\ g.cats[g.words[w].cat + 1].gram = g.words[w].gram
      BY ONLY <3>1, <3>3
    <3> QED
      BY ONLY <3>4 DEF Labelled
  <2> QED
    BY <2>2, <2>3
<1>8. ASSUME NEW o \in Record, o.id # m.id
      PROVE  /\ Sits(o, global) => Sits(o, g)
             /\ Absent(o, global) => Absent(o, g)
  <2>1. \A c \in L + 1..L + t : g.cats[c].gram # o.id
    BY <1>3, <1>8
  <2>2. ASSUME Absent(o, global) PROVE Absent(o, g)
    <3>1. \A c \in 1..L : g.cats[c].gram # o.id
      BY <1>1, <2>2 DEF Absent, L
    <3> QED
      BY <1>1, <1>4, <2>1, <3>1 DEF Absent
  <2>3. ASSUME Sits(o, global) PROVE Sits(o, g)
    <3> DEFINE b == o.cate_begin
               e == o.cate_begin + o.kind.terms
    <3>1. b \in Int /\ e \in Int
      <4>1. o.kind \in Kinds
        BY DEF Record
      <4> QED
        BY <4>1, KindFields DEF Record
    <3>2. e <= L /\ \A c \in 1..L : global.cats[c].gram = o.id <=> b < c /\ c <= e
      BY <2>3 DEF Sits, L
    <3> HIDE DEF b, e
    <3>3. e <= L + t
      BY <1>2, <3>1, <3>2
    <3>4. \A c \in 1..L : g.cats[c].gram = o.id <=> b < c /\ c <= e
      BY <1>1, <3>2
    <3>5. \A c \in L + 1..L + t : ~(c <= e)
      BY <1>2, <3>1, <3>2
    <3>6. \A c \in 1..L + t : g.cats[c].gram = o.id <=> b < c /\ c <= e
      BY <1>4, <2>1, <3>4, <3>5
    <3> QED
      BY <1>1, <3>3, <3>6 DEF Sits, b, e
  <2> QED
    BY <2>2, <2>3
<1>9. ASSUME NEW n \in Int, m.id < n, \A c \in 1..L : global.cats[c].gram < n
      PROVE  \A c \in 1..L + t : g.cats[c].gram < n
  BY <1>1, <1>3, <1>4, <1>9
<1> QED
  BY <1>1, <1>6, <1>7, <1>8, <1>9 DEF g, L

\* A request leaves every grammar where it is; between updates a grammar has its
\* place when it is not new.
LEMMA RequestKeepsPlaces ==
  ASSUME CategoriesInv, Asks, UNCHANGED <<global, gram_maxid, loopVars>>,
         DOMAIN grammars' = DOMAIN grammars,
         \A i \in DOMAIN grammars :
           /\ Alike(grammars[i], grammars'[i])
           /\ grammars[i].words \in Seq(0..grammars[i].kind.terms - 1) =>
                grammars'[i].words \in Seq(0..grammars'[i].kind.terms - 1)
  PROVE  CategoriesInv'
<1>1. pc # "append" /\ pc' # "append"
  BY DEF Asks, loopVars
<1>2. \A i \in DOMAIN grammars : InPlace(i) <=> InPlace(i)'
  BY <1>1 DEF InPlace, Alike
<1> QED
  BY <1>2, PlacesKept

LEMMA DeleteKeepsPlaces ==
  ASSUME ListInv, CategoriesInv, NEW ids \in SUBSET Registered, Delete(ids)
  PROVE  CategoriesInv'
<1>1. Asks /\ UNCHANGED <<global, gram_maxid, loopVars>> /\ DOMAIN grammars' = DOMAIN grammars
  BY DEF Delete
<1>2. ASSUME NEW i \in DOMAIN grammars
      PROVE  Alike(grammars[i], grammars'[i]) /\ grammars'[i].words = grammars[i].words
  <2>1. grammars[i] \in Record
    BY DEF ListInv, GrammarsInv, Good
  <2>2. \/ grammars'[i] = [grammars[i] EXCEPT !.hook = @ \cup {"delete"}]
        \/ grammars'[i] = grammars[i]
    BY DEF Delete
  <2> QED
    BY <2>1, <2>2 DEF Record, Alike
<1>3. \A i \in DOMAIN grammars :
        grammars[i].words \in Seq(0..grammars[i].kind.terms - 1) =>
          grammars'[i].words \in Seq(0..grammars'[i].kind.terms - 1)
  BY <1>2 DEF Alike
<1> QED
  BY <1>1, <1>2, <1>3, RequestKeepsPlaces

LEMMA SwitchKeepsPlaces ==
  ASSUME ListInv, CategoriesInv, NEW id \in Ids, NEW on \in BOOLEAN, Switch(id, on)
  PROVE  CategoriesInv'
<1>1. Asks /\ UNCHANGED <<global, gram_maxid, loopVars>> /\ id \in Registered
  BY DEF Switch
<1>2. PICK k \in DOMAIN grammars :
        /\ Grammar(id) = grammars[k]
        /\ \A new : Altered(id, new) =
             [j \in DOMAIN grammars |-> IF j = k THEN new ELSE grammars[j]]
  BY <1>1, Found DEF ListInv
<1>3. grammars' = [j \in DOMAIN grammars |->
                     IF j = k THEN [grammars[k] EXCEPT !.hook = Switched(@, on)] ELSE grammars[j]]
  BY <1>2 DEF Switch
<1>4. ASSUME NEW i \in DOMAIN grammars
      PROVE  Alike(grammars[i], grammars'[i]) /\ grammars'[i].words = grammars[i].words
  <2>1. grammars[i] \in Record
    BY DEF ListInv, GrammarsInv, Good
  <2>2. \/ grammars'[i] = [grammars[i] EXCEPT !.hook = Switched(@, on)]
        \/ grammars'[i] = grammars[i]
    BY <1>3
  <2> QED
    BY <2>1, <2>2 DEF Record, Alike
<1>5. \A i \in DOMAIN grammars :
        grammars[i].words \in Seq(0..grammars[i].kind.terms - 1) =>
          grammars'[i].words \in Seq(0..grammars'[i].kind.terms - 1)
  BY <1>4 DEF Alike
<1>6. DOMAIN grammars' = DOMAIN grammars
  BY <1>3
<1> QED
  BY <1>1, <1>4, <1>5, <1>6, RequestKeepsPlaces

\* What AddWord makes of the list: one grammar has a word more.
LEMMA AddWordList ==
  ASSUME ListInv, NEW id \in Ids, NEW cat \in AddedCats, AddWord(id, cat)
  PROVE  /\ DOMAIN grammars' = DOMAIN grammars
         /\ \E k \in DOMAIN grammars :
              /\ grammars[k].id = id
              /\ \A i \in DOMAIN grammars : i # k => grammars'[i] = grammars[i]
              /\ Alike(grammars[k], grammars'[k])
              /\ grammars'[k].words = Append(grammars[k].words, cat)
              /\ (cat # Invalid /\ grammars[k].kind.ok /\ id \notin failed) =>
                   "modified" \in grammars'[k].hook /\ failed' = failed
              /\ ~(cat # Invalid /\ grammars[k].kind.ok /\ id \notin failed) =>
                   grammars'[k].hook = grammars[k].hook /\ failed' = failed \cup {id}
              /\ \A x \in {"delete"} : x \in grammars'[k].hook <=> x \in grammars[k].hook
<1>1. id \in Registered
  BY DEF AddWord
<1>2. PICK k \in DOMAIN grammars :
        /\ grammars[k].id = id /\ Grammar(id) = grammars[k]
        /\ \A new : Altered(id, new) =
             [j \in DOMAIN grammars |-> IF j = k THEN new ELSE grammars[j]]
  BY <1>1, Found DEF ListInv
<1> DEFINE m == grammars[k]
           fine == cat # Invalid /\ m.kind.ok /\ id \notin failed
           extended == [m EXCEPT !.words = Append(@, cat), !.mapped = fine,
                                 !.hook = IF fine THEN @ \cup {"modified"} ELSE @]
<1>3. grammars' = [j \in DOMAIN grammars |-> IF j = k THEN extended ELSE grammars[j]]
      /\ failed' = IF fine THEN failed ELSE failed \cup {id}
  BY <1>2 DEF AddWord
<1>4. grammars'[k] = extended /\ m \in Record
  BY <1>3 DEF ListInv, GrammarsInv, Good
<1>5. Alike(m, extended) /\ extended.words = Append(m.words, cat)
      /\ extended.hook = IF fine THEN m.hook \cup {"modified"} ELSE m.hook
  BY <1>4 DEF Record, Alike
<1>6. DOMAIN grammars' = DOMAIN grammars
      /\ \A i \in DOMAIN grammars : i # k => grammars'[i] = grammars[i]
  BY <1>3
<1> HIDE DEF extended
<1>7. /\ fine => "modified" \in grammars'[k].hook /\ failed' = failed
      /\ ~fine => grammars'[k].hook = m.hook /\ failed' = failed \cup {id}
      /\ \A x \in {"delete"} : x \in grammars'[k].hook <=> x \in m.hook
  <2> HIDE DEF m
  <2>1. CASE fine
    BY <1>3, <1>4, <1>5, <2>1
  <2>2. CASE ~fine
    BY <1>3, <1>4, <1>5, <2>2
  <2> QED
    BY <2>1, <2>2
<1> QED
  BY <1>2, <1>4, <1>5, <1>6, <1>7

LEMMA AddWordKeepsPlaces ==
  ASSUME ListInv, CategoriesInv, Invalid \notin AddedCats,
         NEW id \in Ids, NEW cat \in AddedCats, AddWord(id, cat)
  PROVE  CategoriesInv'
<1>1. Asks /\ UNCHANGED <<global, gram_maxid, loopVars>>
  BY DEF AddWord
<1>2. DOMAIN grammars' = DOMAIN grammars
  BY AddWordList
<1>3. PICK k \in DOMAIN grammars :
        /\ \A i \in DOMAIN grammars : i # k => grammars'[i] = grammars[i]
        /\ Alike(grammars[k], grammars'[k])
        /\ grammars'[k].words = Append(grammars[k].words, cat)
  BY AddWordList
<1>4. cat = 0
  BY AddedAssumption
<1>5. ASSUME NEW i \in DOMAIN grammars
      PROVE  /\ Alike(grammars[i], grammars'[i])
             /\ grammars[i].words \in Seq(0..grammars[i].kind.terms - 1) =>
                  grammars'[i].words \in Seq(0..grammars'[i].kind.terms - 1)
  <2>1. CASE i # k
    BY <1>3, <2>1 DEF Alike
  <2>2. CASE i = k
    <3> DEFINE W == 0..grammars[k].kind.terms - 1
               words == grammars[k].words
    <3>1. grammars[k].kind \in Kinds
      BY DEF ListInv, GrammarsInv, Good, Record
    <3>2. 0 \in W
      BY <3>1, KindFields
    <3> HIDE DEF W, words
    <3>3. words \in Seq(W) => Append(words, 0) \in Seq(W)
      BY <3>2
    <3>4. grammars'[k].kind = grammars[k].kind
      BY <1>3 DEF Alike
    <3> QED
      BY <1>3, <1>4, <2>2, <3>3, <3>4 DEF W, words
  <2> QED
    BY <2>1, <2>2
<1> QED
  BY <1>1, <1>2, <1>5, RequestKeepsPlaces

\* The list Add makes: the new grammar, then those of before.
LEMMA AddList ==
  ASSUME ListInv, NEW k \in Kinds, Add(k)
  PROVE  /\ DOMAIN grammars' = 1..1 + Len(grammars) /\ Len(grammars) \in Nat
         /\ \A i \in 1..1 + Len(grammars) :
              grammars'[i] = IF i <= 1 THEN NewGrammar(k, gram_maxid) ELSE grammars[i - 1]
         /\ DOMAIN grammars = 1..Len(grammars)
<1> DEFINE new == NewGrammar(k, gram_maxid)
           one == <<new>>
<1>1. grammars \in Seq(Record)
  <2>1. Good(gram_maxid, want) \subseteq Record
    BY DEF Good
  <2>2. grammars \in Seq(Good(gram_maxid, want))
    BY DEF ListInv, GrammarsInv
  <2> HIDE DEF Record
  <2> QED
    BY <2>1, <2>2, SeqMonotonic
<1>2. new \in Record
  BY NewIsGood DEF ListInv, Add, Good
<1> HIDE DEF new
<1>3. one \in Seq(Record) /\ Len(one) = 1 /\ one[1] = new
  BY <1>2
<1>4. grammars' = one \o grammars
  BY DEF Add, new
<1> HIDE DEF one
<1>5. /\ one \o grammars \in Seq(Record)
      /\ Len(one \o grammars) = Len(one) + Len(grammars)
      /\ \A i \in 1..Len(one) + Len(grammars) : (one \o grammars)[i] =
           IF i <= Len(one) THEN one[i] ELSE grammars[i - Len(one)]
  BY <1>1, <1>3, ConcatProperties
<1>6. DOMAIN grammars = 1..Len(grammars) /\ Len(grammars) \in Nat
      /\ \A i \in 1..1 + Len(grammars) : i <= 1 => i = 1
  BY <1>1
<1>7. DOMAIN grammars' = 1..1 + Len(grammars)
  BY <1>3, <1>4, <1>5
<1> QED
  BY <1>3, <1>4, <1>5, <1>6, <1>7 DEF new

LEMMA AddKeepsPlaces ==
  ASSUME ListInv, CategoriesInv, NEW k \in Kinds, Add(k)
  PROVE  CategoriesInv'
<1> DEFINE new == NewGrammar(k, gram_maxid)
<1>1. pc # "append" /\ pc' # "append" /\ gram_maxid' = gram_maxid + 1 /\ global' = global
      /\ gram_maxid \in Int
  BY DEF Add, Asks, loopVars, ListInv, GrammarsInv
<1>2. /\ DOMAIN grammars' = 1..1 + Len(grammars) /\ Len(grammars) \in Nat
      /\ \A i \in 1..1 + Len(grammars) :
           grammars'[i] = IF i <= 1 THEN new ELSE grammars[i - 1]
      /\ DOMAIN grammars = 1..Len(grammars)
  BY AddList
<1>3. /\ new.newbie /\ new.id = gram_maxid /\ new.words = k.words /\ new.kind = k
  BY DEF NewGrammar
<1>4. new.words \in Seq(0..new.kind.terms - 1)
  BY <1>3, KindFields
<1>5. Absent(new, global)
  <2>1. \A c \in 1..Len(global.cats) : global.cats[c].gram < gram_maxid
    BY DEF CategoriesInv
  <2>2. \A c \in 1..Len(global.cats) : global.cats[c].gram # gram_maxid
    BY <1>1, <2>1
  <2> HIDE DEF new
  <2> QED
    BY <1>3, <2>2 DEF Absent
<1> HIDE DEF new
<1>6. ASSUME NEW i \in 1..1 + Len(grammars)
      PROVE  /\ InPlace(i)' => Sits(grammars'[i], global)
             /\ ~InPlace(i)' => Absent(grammars'[i], global)
             /\ grammars'[i].words \in Seq(0..grammars'[i].kind.terms - 1)
  <2>1. CASE i = 1
    <3>1. grammars'[i] = new
      BY <1>2, <2>1
    <3> QED
      BY <1>3, <1>4, <1>5, <3>1 DEF InPlace
  <2>2. CASE i # 1
    <3> DEFINE j == i - 1
    <3>1. j \in DOMAIN grammars /\ grammars'[i] = grammars[j]
      BY <1>2, <2>2
    <3> HIDE DEF j
    <3>2. InPlace(j) <=> InPlace(i)'
      BY <1>1, <3>1 DEF InPlace
    <3> QED
      BY <3>1, <3>2 DEF CategoriesInv
  <2> QED
    BY <2>1, <2>2
<1>7. \A c \in 1..Len(global.cats) : global.cats[c].gram < gram_maxid + 1
  <2> TAKE c \in 1..Len(global.cats)
  <2>1. global.cats[c].gram \in Ids /\ global.cats[c].gram < gram_maxid
    <3>1. global.cats \in Seq([gram : Ids, table : BOOLEAN])
      BY DEF ListInv, OthersInv, Lexicon
    <3>2. global.cats[c] \in [gram : Ids, table : BOOLEAN]
      BY <3>1, ElementOfSeq
    <3> QED
      BY <3>2 DEF CategoriesInv
  <2>2. global.cats[c].gram \in Int
    BY <2>1 DEF Ids
  <2> QED
    BY <1>1, <2>1, <2>2
<1> QED
  BY <1>1, <1>2, <1>6, <1>7 DEF CategoriesInv

LEMMA QuietKeepsPlaces ==
  ASSUME ListInv, CategoriesInv, Quiet
  PROVE  CategoriesInv'
<1>1. /\ UNCHANGED <<grammars, gram_maxid, global, rebuild_flag, at, want, failed>>
      /\ pc # "append" /\ pc' # "append"
  BY QuietFrame
<1>2. \A k \in DOMAIN grammars' : InPlace(k) <=> InPlace(k)'
  BY <1>1 DEF InPlace
<1>3. \A k \in DOMAIN grammars' : Alike(grammars[k], grammars'[k])
  BY <1>1 DEF Alike
<1> QED
  BY <1>1, <1>2, <1>3, PlacesKept

\* A rebuild starts from an empty lexicon; otherwise those that are kept stay.
LEMMA UpdateBeginKeepsPlaces ==
  ASSUME ListInv, CategoriesInv, UpdateBegin
  PROVE  CategoriesInv'
<1>1. /\ pc' = "append" /\ at' = 1 /\ pc = "poll" /\ gram_maxid' = gram_maxid
      /\ global' = IF rebuild_flag' THEN NoGlobal ELSE global
  BY DEF UpdateBegin
<1>2. ASSUME NEW k \in DOMAIN grammars'
      PROVE  \E i \in DOMAIN grammars : /\ Alike(grammars[i], grammars'[k])
                                        /\ grammars'[k].words = grammars[i].words
  <2>1. PICK i \in DOMAIN grammars : grammars'[k] = Unmarked(SetUp(grammars[i]))
    BY UpdateBeginList
  <2>2. grammars[i] \in Record
    BY DEF ListInv, GrammarsInv, Good
  <2> DEFINE s == SetUp(grammars[i])
  <2>3. s \in Record /\ Alike(grammars[i], s) /\ s.words = grammars[i].words
    BY <2>2, SetUpFields DEF Alike
  <2>4. grammars'[k] = Unmarked(s)
    BY <2>1
  <2> HIDE DEF s
  <2>5. Alike(s, Unmarked(s)) /\ Unmarked(s).words = s.words
    BY <2>3, UnmarkedFields DEF Alike
  <2> QED
    BY <2>3, <2>4, <2>5 DEF Alike
<1>3. CASE rebuild_flag'
  <2>1. global' = NoGlobal /\ Len(global'.cats) = 0 /\ Len(global'.words) = 0
    BY <1>1, <1>3 DEF NoGlobal
  <2>2. ASSUME NEW k \in DOMAIN grammars'
        PROVE  /\ ~InPlace(k)'
               /\ Absent(grammars'[k], global')
               /\ grammars'[k].words \in Seq(0..grammars'[k].kind.terms - 1)
    <3>1. PICK i \in DOMAIN grammars : /\ Alike(grammars[i], grammars'[k])
                                       /\ grammars'[k].words = grammars[i].words
      BY <1>2
    <3>2. DOMAIN grammars' \subseteq Nat \ {0}
      <4>1. grammars' \in Seq((Good(gram_maxid, want))')
        BY UpdateBeginList DEF ListInv, GrammarsInv
      <4>2. DOMAIN grammars' = 1..Len(grammars')
        BY <4>1, LenProperties
      <4> QED
        BY <4>2
    <3>3. ~InPlace(k)'
      BY <1>1, <1>3, <3>2 DEF InPlace
    <3> QED
      BY <2>1, <3>1, <3>3 DEF CategoriesInv, Alike, Absent
  <2> QED
    BY <2>1, <2>2 DEF CategoriesInv, Labelled
<1>4. CASE ~rebuild_flag'
  <2>1. ASSUME NEW k \in DOMAIN grammars'
        PROVE  \E i \in DOMAIN grammars :
           /\ Alike(grammars[i], grammars'[k])
           /\ InPlace(i) <=> InPlace(k)'
           /\ grammars[i].words \in Seq(0..grammars[i].kind.terms - 1) =>
                grammars'[k].words \in Seq(0..grammars'[k].kind.terms - 1)
    <3>1. PICK i \in DOMAIN grammars : /\ Alike(grammars[i], grammars'[k])
                                       /\ grammars'[k].words = grammars[i].words
      BY <1>2
    <3>2. InPlace(i) <=> InPlace(k)'
      BY <1>1, <1>4, <3>1 DEF InPlace, Alike
    <3> QED
      BY <3>1, <3>2 DEF Alike
  <2> QED
    BY <1>1, <1>4, <2>1, PlacesKept
<1> QED
  BY <1>3, <1>4

LEMMA JoinNextKeepsPlaces ==
  ASSUME ListInv, CategoriesInv, JoinNext
  PROVE  CategoriesInv'
<1> DEFINE m == grammars[at]
<1>1. /\ pc = "append" /\ pc' = "append" /\ gram_maxid' = gram_maxid
      /\ rebuild_flag' = rebuild_flag
  BY DEF JoinNext
<1>2. /\ DOMAIN grammars' = DOMAIN grammars /\ at \in DOMAIN grammars /\ at' = at + 1
      /\ DOMAIN grammars \subseteq Nat
  BY JoinNextList DEF ListInv, GrammarsInv
<1>3. \A i \in DOMAIN grammars : i # at /\ grammars'[i] = grammars[i] => (InPlace(i) <=> InPlace(i)')
  BY <1>1, <1>2 DEF InPlace
<1>4. CASE UNCHANGED <<grammars, global>> /\ ~rebuild_flag
  <2>1. \A i \in DOMAIN grammars : InPlace(i) <=> InPlace(i)'
    BY <1>1, <1>4 DEF InPlace
  <2>2. \A i \in DOMAIN grammars : Alike(grammars[i], grammars'[i])
    BY <1>4 DEF Alike
  <2> QED
    BY <1>1, <1>4, <2>1, <2>2, PlacesKept
<1>5. CASE /\ rebuild_flag \/ m.newbie
           /\ grammars'[at] = Placed(m)
           /\ \A i \in DOMAIN grammars : i # at => grammars'[i] = grammars[i]
           /\ global' = Joined(m)
  <2>1. m \in Record /\ m.id \in Ids /\ m.id < gram_maxid /\ global \in Lexicon
        /\ gram_maxid \in Int
    BY <1>2, FieldsOf DEF ListInv, GrammarsInv, OthersInv
  <2>2. ~InPlace(at) /\ Absent(m, global) /\ m.words \in Seq(0..m.kind.terms - 1)
    <3>1. ~InPlace(at)
      BY <1>1, <1>2, <1>5 DEF InPlace
    <3> QED
      BY <1>2, <3>1 DEF CategoriesInv
  <2>3. Labelled(global)
    BY DEF CategoriesInv
  <2> HIDE DEF m
  <2>4. /\ Sits(Placed(m), Joined(m))
        /\ Labelled(Joined(m))
        /\ \A o \in Record : o.id # m.id =>
             /\ Sits(o, global) => Sits(o, Joined(m))
             /\ Absent(o, global) => Absent(o, Joined(m))
        /\ \A n \in Int : m.id < n /\ (\A c \in 1..Len(global.cats) : global.cats[c].gram < n) =>
             \A c \in 1..Len(Joined(m).cats) : Joined(m).cats[c].gram < n
    BY <2>1, <2>2, <2>3, JoinedSits
  <2>5. \A c \in 1..Len(global'.cats) : global'.cats[c].gram < gram_maxid'
    BY <1>1, <1>5, <2>1, <2>4 DEF CategoriesInv
  <2>6. ASSUME NEW i \in DOMAIN grammars
        PROVE  /\ InPlace(i)' => Sits(grammars'[i], global')
               /\ ~InPlace(i)' => Absent(grammars'[i], global')
               /\ grammars'[i].words \in Seq(0..grammars'[i].kind.terms - 1)
    <3>1. CASE i = at
      <4>1. grammars'[i] = Placed(m)
        BY <1>5, <3>1
      <4>2. ~Placed(m).newbie /\ Placed(m).words = m.words /\ Placed(m).kind = m.kind
        BY <2>1, PlacedFields
      <4>3. InPlace(i)'
        BY <1>1, <1>2, <3>1, <4>1, <4>2 DEF InPlace
      <4> QED
        BY <1>5, <2>2, <2>4, <4>1, <4>2, <4>3
    <3>2. CASE i # at
      <4>1. grammars'[i] = grammars[i] /\ (InPlace(i) <=> InPlace(i)')
        BY <1>3, <1>5, <3>2
      <4>2. grammars[i] \in Record
        BY DEF ListInv, GrammarsInv, Good
      <4>3. grammars[i].id # m.id
        BY <1>2, <3>2 DEF ListInv, GrammarsInv, Distinct, m
      <4> QED
        BY <1>5, <2>4, <4>1, <4>2, <4>3 DEF CategoriesInv
    <3> QED
      BY <3>1, <3>2
  <2>7. Labelled(global)'
    BY <1>5, <2>4 DEF Labelled
  <2> QED
    BY <1>2, <2>5, <2>6, <2>7 DEF CategoriesInv
<1> QED
  BY <1>4, <1>5, JoinNextList

\* After the loop all that are not new have their place.
LEMMA UpdateEndKeepsPlaces ==
  ASSUME ListInv, CategoriesInv, UpdateEnd
  PROVE  CategoriesInv'
<1>1. /\ pc = "append" /\ at > Len(grammars) /\ pc' = "build" /\ gram_maxid' = gram_maxid
      /\ global' = global
  BY DEF UpdateEnd
<1>2. DOMAIN grammars = 1..Len(grammars) /\ Len(grammars) \in Nat /\ at \in Nat
  BY DEF ListInv, GrammarsInv, LoopInv
<1>3. ASSUME NEW k \in DOMAIN grammars'
      PROVE  \E i \in DOMAIN grammars :
           /\ Alike(grammars[i], grammars'[k])
           /\ InPlace(i) <=> InPlace(k)'
           /\ grammars[i].words \in Seq(0..grammars[i].kind.terms - 1) =>
                grammars'[k].words \in Seq(0..grammars'[k].kind.terms - 1)
  <2>1. PICK i \in DOMAIN grammars : grammars'[k] = Activated(grammars[i])
    BY UpdateEndList
  <2>2. grammars[i] \in Record
    BY DEF ListInv, GrammarsInv, Good
  <2>3. Alike(grammars[i], grammars'[k]) /\ grammars'[k].words = grammars[i].words
    BY <2>1, <2>2, ActivatedFields DEF Alike
  <2>4. InPlace(i) <=> InPlace(k)'
    BY <1>1, <1>2, <2>3 DEF InPlace, Alike
  <2> QED
    BY <2>3, <2>4 DEF Alike
<1> QED
  BY <1>1, <1>3, PlacesKept

LEMMA InitPlaces == Init => CategoriesInv
<1> SUFFICES ASSUME Init PROVE CategoriesInv
  OBVIOUS
<1>1. global.cats = << >> /\ global.words = << >> /\ Len(global.cats) = 0 /\ Len(global.words) = 0
  BY DEF Init, NoGlobal
<1>2. ASSUME NEW i \in DOMAIN grammars
      PROVE  grammars[i].newbie /\ grammars[i].words \in Seq(0..grammars[i].kind.terms - 1)
  <2> DEFINE n == Len(Loaded)
             k == Loaded[n + 1 - i]
  <2>1. i \in 1..n /\ n \in Nat /\ grammars[i] = NewGrammar(k, n - i)
    BY LoadedAssumption DEF Init
  <2>2. k \in Kinds
    BY <2>1, LoadedAssumption
  <2> HIDE DEF k
  <2>3. k.words \in Seq(0..k.terms - 1)
    BY <2>2, KindFields
  <2> QED
    BY <2>1, <2>3 DEF NewGrammar
<1>3. \A i \in DOMAIN grammars : ~InPlace(i) /\ Absent(grammars[i], global)
  BY <1>1, <1>2 DEF InPlace, Absent
<1>4. Labelled(global)
  BY <1>1 DEF Labelled
<1> QED
  BY <1>1, <1>2, <1>3, <1>4 DEF CategoriesInv

LEMMA StepPlaces ==
  ASSUME Invalid \notin AddedCats, ListInv, CategoriesInv, [Next]_vars
  PROVE  CategoriesInv'
<1>1. CASE UNCHANGED vars
  <2>1. UNCHANGED <<grammars, gram_maxid, global, pc, rebuild_flag, at>>
    BY <1>1 DEF vars, lmVars, loopVars
  <2>2. \A k \in DOMAIN grammars' :
          (InPlace(k) <=> InPlace(k)') /\ Alike(grammars[k], grammars'[k])
    BY <2>1 DEF InPlace, Alike
  <2> QED
    BY <2>1, <2>2, PlacesKept
<1>2. CASE Next
  BY <1>2, NextCases, AddKeepsPlaces, DeleteKeepsPlaces, SwitchKeepsPlaces, AddWordKeepsPlaces,
     UpdateBeginKeepsPlaces, JoinNextKeepsPlaces, UpdateEndKeepsPlaces, QuietKeepsPlaces
<1> QED
  BY <1>1, <1>2

\* A category of the lexicon leads to the grammar that holds it, if it is still
\* registered, and to none if not.
LEMMA GrammarOfPlace ==
  ASSUME ListInv, CategoriesInv, pc # "append", NEW w \in DOMAIN global.words
  PROVE  GramOfCategory(global.words[w].cat) =
           IF global.words[w].gram \in Registered THEN global.words[w].gram ELSE -1
<1> DEFINE c == global.words[w].cat
           g == global.words[w].gram
           hit == {i \in DOMAIN grammars :
                     /\ ~grammars[i].newbie
                     /\ c \in grammars[i].cate_begin ..
                              grammars[i].cate_begin + grammars[i].kind.terms - 1}
<1>1. w \in 1..Len(global.words) /\ Len(global.cats) \in Nat
  BY DEF ListInv, OthersInv, Lexicon
<1>2. c \in 0..Len(global.cats) - 1 /\ global.cats[c + 1].gram = g
  BY <1>1 DEF CategoriesInv, Labelled
<1> HIDE DEF c, g
<1>3. c \in Int /\ c + 1 \in 1..Len(global.cats)
  BY <1>1, <1>2
<1>4. \A i \in DOMAIN grammars : i \in hit <=> grammars[i].id = g
  <2> TAKE i \in DOMAIN grammars
  <2>1. grammars[i].cate_begin \in Int /\ grammars[i].kind.terms \in Int
    <3>1. grammars[i] \in Record /\ grammars[i].kind \in Kinds
      BY DEF ListInv, GrammarsInv, Good, Record
    <3> QED
      BY <3>1, KindFields DEF Record
  <2>2. InPlace(i) <=> ~grammars[i].newbie
    BY DEF InPlace
  <2>3. ~InPlace(i) => grammars[i].id # g
    BY <1>2, <1>3 DEF CategoriesInv, Absent
  <2>4. InPlace(i) => (grammars[i].id = g <=>
          grammars[i].cate_begin < c + 1 /\ c + 1 <= grammars[i].cate_begin + grammars[i].kind.terms)
    BY <1>2, <1>3 DEF CategoriesInv, Sits
  <2>5. c \in grammars[i].cate_begin .. grammars[i].cate_begin + grammars[i].kind.terms - 1
        <=> grammars[i].cate_begin < c + 1
            /\ c + 1 <= grammars[i].cate_begin + grammars[i].kind.terms
    BY <1>3, <2>1
  <2> QED
    BY <2>2, <2>3, <2>4, <2>5
<1>5. \A i, j \in hit : i = j
  BY <1>4 DEF ListInv, GrammarsInv, Distinct
<1>6. hit \subseteq DOMAIN grammars /\ DOMAIN grammars \subseteq Nat
  BY DEF ListInv, GrammarsInv
<1>7. GramOfCategory(c) =
        IF hit = {} THEN -1 ELSE grammars[CHOOSE i \in hit : \A j \in hit : i <= j].id
  BY DEF GramOfCategory
<1> HIDE DEF hit
<1>8. CASE hit = {}
  <2>1. g \notin Registered
    BY <1>4, <1>8 DEF Registered
  <2> QED
    BY <1>7, <1>8, <2>1 DEF c, g
<1>9. CASE hit # {}
  <2>1. PICK i \in hit : TRUE
    BY <1>9
  <2>2. i <= i
    BY <1>6
  <2>3. \A j \in hit : i <= j
    BY <1>5, <2>2
  <2>4. (CHOOSE x \in hit : \A j \in hit : x <= j) = i
    BY <1>5, <2>3
  <2>5. grammars[i].id = g /\ g \in Registered
    BY <1>4, <1>6, <2>1 DEF Registered
  <2> QED
    BY <1>7, <1>9, <2>4, <2>5 DEF c, g
<1> QED
  BY <1>8, <1>9

\* While no word of an unknown category is added, the grammar reported for a
\* sentence is the one its words come from, for every order of adding, deleting and
\* extending grammars, with and without rebuilds, and also when a grammar did not
\* fit: its categories stay behind without words (multi-gram.c:211-241, 691-743,
\* 959-972).
THEOREM WordsFindTheirGrammar ==
  ASSUME Invalid \notin AddedCats
  PROVE  Spec => []OwnCategory
<1>1. Init => ListInv /\ CategoriesInv
  BY InitList, InitPlaces
<1>2. (ListInv /\ CategoriesInv) /\ [Next]_vars => (ListInv /\ CategoriesInv)'
  BY StepList, StepPlaces
<1>3. ListInv /\ CategoriesInv => OwnCategory
  BY GrammarOfPlace DEF OwnCategory, Settled
<1> QED
  BY <1>1, <1>2, <1>3, PTL DEF Spec

-----------------------------------------------------------------------------
(* The words of the global lexicon.                                        *)

NoWords(m, g) == \A w \in 1..Len(g.words) : g.words[w].gram # m.id

\* The words of m in lexicon g are those from its beginning on, all it has.
HasWords(m, g) ==
  /\ m.word_begin + Len(m.words) <= Len(g.words)
  /\ \A w \in 1..Len(g.words) :
       g.words[w].gram = m.id <=> m.word_begin < w /\ w <= m.word_begin + Len(m.words)

\* No mark says that the words in the lexicon are not those of the grammar.
Clean(m) == "delete" \notin m.hook /\ "modified" \notin m.hook

\* The words of the grammar at i: none before it is placed; all of them while no
\* mark says otherwise.  What the loop finds was set up, and a mark for deletion
\* that comes up in it is that of a grammar whose words did not fit.
WordsAt(i) ==
  /\ ~InPlace(i) => NoWords(grammars[i], global)
  /\ InPlace(i) /\ Clean(grammars[i]) => HasWords(grammars[i], global)
  /\ pc = "append" =>
       /\ "modified" \notin grammars[i].hook
       /\ "delete" \in grammars[i].hook => InPlace(i) /\ NoWords(grammars[i], global)
  /\ ~grammars[i].newbie \/ pc = "append" => grammars[i].kind.ok /\ grammars[i].id \notin failed

WordsInv ==
  /\ \A i \in DOMAIN grammars : WordsAt(i)
  /\ \A w \in 1..Len(global.words) : \E i \in DOMAIN grammars :
       grammars[i].id = global.words[w].gram

\* A request leaves the words of a grammar alone or marks it.
LEMMA RequestKeepsWords ==
  ASSUME WordsInv, Asks, UNCHANGED <<global, loopVars>>,
         DOMAIN grammars' = DOMAIN grammars,
         \A i \in DOMAIN grammars :
           /\ Alike(grammars[i], grammars'[i])
           /\ Clean(grammars'[i]) /\ ~grammars[i].newbie =>
                Clean(grammars[i]) /\ grammars'[i].words = grammars[i].words
           /\ ~grammars[i].newbie /\ grammars[i].kind.ok /\ grammars[i].id \notin failed =>
                grammars[i].id \notin failed'
  PROVE  WordsInv'
<1>1. pc # "append" /\ pc' # "append" /\ global' = global
  BY DEF Asks, loopVars
<1>2. ASSUME NEW i \in DOMAIN grammars
      PROVE  WordsAt(i)'
  <2>1. Alike(grammars[i], grammars'[i]) /\ WordsAt(i)
    BY DEF WordsInv
  <2>2. InPlace(i) <=> ~grammars[i].newbie
    BY <1>1 DEF InPlace
  <2>3. InPlace(i)' <=> ~grammars[i].newbie
    BY <1>1, <2>1 DEF InPlace, Alike
  <2>4. ~InPlace(i)' => NoWords(grammars'[i], global)
    BY <2>1, <2>2, <2>3 DEF WordsAt, NoWords, Alike
  <2>5. InPlace(i)' /\ Clean(grammars'[i]) => HasWords(grammars'[i], global)
    BY <2>1, <2>2, <2>3 DEF WordsAt, HasWords, Alike
  <2>6. ~grammars'[i].newbie => grammars'[i].kind.ok /\ grammars'[i].id \notin failed'
    BY <2>1 DEF WordsAt, Alike
  <2> QED
    BY <1>1, <2>4, <2>5, <2>6 DEF WordsAt
<1>3. \A w \in 1..Len(global.words) : \E i \in DOMAIN grammars :
        grammars'[i].id = global.words[w].gram
  BY DEF WordsInv, Alike
<1> QED
  BY <1>1, <1>2, <1>3 DEF WordsInv

LEMMA DeleteKeepsWords ==
  ASSUME ListInv, WordsInv, NEW ids \in SUBSET Registered, Delete(ids)
  PROVE  WordsInv'
<1>1. Asks /\ UNCHANGED <<global, loopVars>> /\ DOMAIN grammars' = DOMAIN grammars
      /\ failed' = failed
  BY DEF Delete
<1>2. ASSUME NEW i \in DOMAIN grammars
      PROVE  /\ Alike(grammars[i], grammars'[i])
             /\ Clean(grammars'[i]) => Clean(grammars[i]) /\ grammars'[i].words = grammars[i].words
  <2>1. grammars[i] \in Record
    BY DEF ListInv, GrammarsInv, Good
  <2>2. CASE grammars'[i] = [grammars[i] EXCEPT !.hook = @ \cup {"delete"}]
    BY <2>1, <2>2 DEF Record, Alike, Clean
  <2>3. CASE grammars'[i] = grammars[i]
    BY <2>3 DEF Alike
  <2> QED
    BY <2>2, <2>3 DEF Delete
<1> QED
  BY <1>1, <1>2, RequestKeepsWords

LEMMA SwitchKeepsWords ==
  ASSUME ListInv, WordsInv, NEW id \in Ids, NEW on \in BOOLEAN, Switch(id, on)
  PROVE  WordsInv'
<1>1. Asks /\ UNCHANGED <<global, loopVars>> /\ id \in Registered /\ failed' = failed
  BY DEF Switch
<1>2. PICK k \in DOMAIN grammars :
        /\ Grammar(id) = grammars[k]
        /\ \A new : Altered(id, new) =
             [j \in DOMAIN grammars |-> IF j = k THEN new ELSE grammars[j]]
  BY <1>1, Found DEF ListInv
<1>3. grammars' = [j \in DOMAIN grammars |->
                     IF j = k THEN [grammars[k] EXCEPT !.hook = Switched(@, on)] ELSE grammars[j]]
  BY <1>2 DEF Switch
<1>4. ASSUME NEW i \in DOMAIN grammars
      PROVE  /\ Alike(grammars[i], grammars'[i])
             /\ Clean(grammars'[i]) => Clean(grammars[i]) /\ grammars'[i].words = grammars[i].words
  <2>1. grammars[i] \in Record
    BY DEF ListInv, GrammarsInv, Good
  <2>2. CASE grammars'[i] = [grammars[i] EXCEPT !.hook = Switched(@, on)]
    <3>1. grammars'[i].hook = Switched(grammars[i].hook, on)
      BY <2>1, <2>2 DEF Record
    <3>2. Clean(grammars'[i]) => Clean(grammars[i])
      BY <3>1 DEF Clean, Switched
    <3> QED
      BY <2>1, <2>2, <3>2 DEF Record, Alike
  <2>3. CASE grammars'[i] = grammars[i]
    BY <2>3 DEF Alike
  <2> QED
    BY <1>3, <2>2, <2>3
<1>5. DOMAIN grammars' = DOMAIN grammars
  BY <1>3
<1> QED
  BY <1>1, <1>4, <1>5, RequestKeepsWords

\* A grammar in the lexicon can be extended; then it is marked.
LEMMA AddWordKeepsWords ==
  ASSUME Invalid \notin AddedCats, ListInv, WordsInv,
         NEW id \in Ids, NEW cat \in AddedCats, AddWord(id, cat)
  PROVE  WordsInv'
<1>1. Asks /\ UNCHANGED <<global, loopVars>>
  BY DEF AddWord
<1>2. DOMAIN grammars' = DOMAIN grammars
  BY AddWordList
<1>3. PICK k \in DOMAIN grammars :
        /\ grammars[k].id = id
        /\ \A i \in DOMAIN grammars : i # k => grammars'[i] = grammars[i]
        /\ Alike(grammars[k], grammars'[k])
        /\ (cat # Invalid /\ grammars[k].kind.ok /\ id \notin failed) =>
             "modified" \in grammars'[k].hook /\ failed' = failed
        /\ ~(cat # Invalid /\ grammars[k].kind.ok /\ id \notin failed) =>
             grammars'[k].hook = grammars[k].hook /\ failed' = failed \cup {id}
  BY AddWordList
<1>4. cat # Invalid
  OBVIOUS
<1>5. ~grammars[k].newbie => "modified" \in grammars'[k].hook /\ failed' = failed
  BY <1>3, <1>4 DEF WordsInv, WordsAt
<1>6. failed' \subseteq failed \cup {id}
  BY <1>3
<1>7. ASSUME NEW i \in DOMAIN grammars
      PROVE  /\ Alike(grammars[i], grammars'[i])
             /\ Clean(grammars'[i]) /\ ~grammars[i].newbie =>
                  Clean(grammars[i]) /\ grammars'[i].words = grammars[i].words
             /\ ~grammars[i].newbie /\ grammars[i].kind.ok /\ grammars[i].id \notin failed =>
                  grammars[i].id \notin failed'
  <2>1. CASE i = k
    BY <1>3, <1>5, <2>1 DEF Clean
  <2>2. CASE i # k
    <3>1. grammars[i].id # id
      BY <1>3, <2>2 DEF ListInv, GrammarsInv, Distinct
    <3> QED
      BY <1>3, <1>6, <2>2, <3>1 DEF Alike
  <2> QED
    BY <2>1, <2>2
<1> QED
  BY <1>1, <1>2, <1>7, RequestKeepsWords

LEMMA AddKeepsWords ==
  ASSUME ListInv, WordsInv, NEW k \in Kinds, Add(k)
  PROVE  WordsInv'
<1> DEFINE new == NewGrammar(k, gram_maxid)
<1>1. pc # "append" /\ pc' # "append" /\ global' = global /\ failed' = failed
      /\ gram_maxid \in Int
  BY DEF Add, Asks, loopVars, ListInv, GrammarsInv
<1>2. /\ DOMAIN grammars' = 1..1 + Len(grammars) /\ Len(grammars) \in Nat
      /\ \A i \in 1..1 + Len(grammars) :
           grammars'[i] = IF i <= 1 THEN new ELSE grammars[i - 1]
      /\ DOMAIN grammars = 1..Len(grammars)
  BY AddList
<1>3. new.newbie /\ new.id = gram_maxid
  BY DEF NewGrammar
<1>4. NoWords(new, global)
  <2>1. ASSUME NEW w \in 1..Len(global.words), global.words[w].gram = gram_maxid PROVE FALSE
    <3>1. PICK i \in DOMAIN grammars : grammars[i].id = gram_maxid
      BY <2>1 DEF WordsInv
    <3>2. grammars[i].id < gram_maxid
      BY DEF ListInv, GrammarsInv, Good
    <3> QED
      BY <1>1, <3>1, <3>2
  <2> HIDE DEF new
  <2> QED
    BY <1>3, <2>1 DEF NoWords
<1> HIDE DEF new
<1>5. ASSUME NEW j \in DOMAIN grammars
      PROVE  j + 1 \in DOMAIN grammars' /\ grammars'[j + 1] = grammars[j]
  <2> DEFINE i == j + 1
  <2>1. i \in 1..1 + Len(grammars) /\ ~(i <= 1) /\ i - 1 = j
    BY <1>2
  <2> HIDE DEF i
  <2>2. grammars'[i] = grammars[i - 1]
    BY <1>2, <2>1
  <2> QED
    BY <1>2, <2>1, <2>2 DEF i
<1>6. ASSUME NEW i \in DOMAIN grammars'
      PROVE  WordsAt(i)'
  <2>1. CASE i = 1
    <3>1. grammars'[i] = new
      BY <1>2, <2>1
    <3> QED
      BY <1>1, <1>3, <1>4, <3>1 DEF WordsAt, InPlace
  <2>2. CASE i # 1
    <3> DEFINE j == i - 1
    <3>1. j \in DOMAIN grammars /\ grammars'[i] = grammars[j]
      BY <1>2, <2>2
    <3> HIDE DEF j
    <3>2. InPlace(j) <=> InPlace(i)'
      BY <1>1, <3>1 DEF InPlace
    <3>3. WordsAt(j)
      BY <3>1 DEF WordsInv
    <3> QED
      BY <1>1, <3>1, <3>2, <3>3 DEF WordsAt
  <2> QED
    BY <2>1, <2>2
<1>7. \A w \in 1..Len(global.words) : \E i \in DOMAIN grammars' :
        grammars'[i].id = global.words[w].gram
  BY <1>5 DEF WordsInv
<1> QED
  BY <1>1, <1>6, <1>7 DEF WordsInv

LEMMA QuietKeepsWords ==
  ASSUME WordsInv, Quiet
  PROVE  WordsInv'
<1>1. /\ UNCHANGED <<grammars, gram_maxid, global, rebuild_flag, at, want, failed>>
      /\ pc # "append" /\ pc' # "append"
  BY QuietFrame
<1>2. \A k \in DOMAIN grammars : InPlace(k) <=> InPlace(k)'
  BY <1>1 DEF InPlace
<1>3. \A k \in DOMAIN grammars : WordsAt(k)'
  BY <1>1, <1>2 DEF WordsInv, WordsAt
<1> QED
  BY <1>1, <1>3 DEF WordsInv

\* A rebuild is made when a placed grammar is deleted or one that is kept was
\* extended; otherwise the kept grammars have the words they had.
LEMMA UpdateBeginKeepsWords ==
  ASSUME ListInv, WordsInv, UpdateBegin
  PROVE  WordsInv'
<1>1. /\ pc' = "append" /\ at' = 1 /\ pc = "poll" /\ failed' = failed
      /\ global' = IF rebuild_flag' THEN NoGlobal ELSE global
  BY DEF UpdateBegin, history
<1>2. \A i \in DOMAIN grammars : InPlace(i) <=> ~grammars[i].newbie
  BY <1>1 DEF InPlace
<1>3. ASSUME NEW i \in DOMAIN grammars, NEW new, new = Unmarked(SetUp(grammars[i]))
      PROVE  /\ Alike(grammars[i], new) /\ new.words = grammars[i].words
             /\ new.hook = SetUp(grammars[i]).hook \ {"modified"}
  <2>1. grammars[i] \in Record
    BY DEF ListInv, GrammarsInv, Good
  <2> DEFINE s == SetUp(grammars[i])
  <2>2. s \in Record /\ Alike(grammars[i], s) /\ s.words = grammars[i].words
    BY <2>1, SetUpFields DEF Alike
  <2>3. new = Unmarked(s)
    BY <1>3
  <2> HIDE DEF s
  <2>4. Alike(s, new) /\ new.words = s.words /\ new.hook = s.hook \ {"modified"}
    BY <2>2, <2>3, UnmarkedFields DEF Alike
  <2> QED
    BY <2>2, <2>4 DEF Alike, s
<1>4. ASSUME NEW i \in DOMAIN grammars, "delete" \notin SetUp(grammars[i]).hook
      PROVE  grammars[i].kind.ok /\ grammars[i].id \notin failed /\ "delete" \notin grammars[i].hook
             /\ SetUp(grammars[i]).hook = grammars[i].hook
  <2>1. grammars[i] \in Record
    BY DEF ListInv, GrammarsInv, Good
  <2>2. WordsAt(i)
    BY DEF WordsInv
  <2>3. CASE ~grammars[i].newbie
    BY <1>4, <2>1, <2>2, <2>3, SetUpFields DEF WordsAt
  <2>4. CASE grammars[i].newbie
    <3>1. grammars[i].kind.ok /\ grammars[i].id \notin failed
      BY <1>4, <2>1, <2>4, SetUpFields
    <3> QED
      BY <1>4, <2>1, <3>1, SetUpFields
  <2> QED
    BY <2>3, <2>4
<1>5. ASSUME NEW i \in DOMAIN grammars, ~rebuild_flag'
      PROVE  /\ "delete" \in SetUp(grammars[i]).hook => grammars[i].newbie
             /\ "delete" \notin SetUp(grammars[i]).hook => "modified" \notin grammars[i].hook
  <2> DEFINE list == [j \in DOMAIN grammars |-> SetUp(grammars[j])]
  <2>1. ~MustRebuild(list)
    BY <1>5, UpdateBeginList
  <2>2. i \in DOMAIN list /\ list[i] = SetUp(grammars[i])
    OBVIOUS
  <2> HIDE DEF list
  <2>3. ~(IF "delete" \in SetUp(grammars[i]).hook
          THEN ~SetUp(grammars[i]).newbie ELSE "modified" \in SetUp(grammars[i]).hook)
    BY <2>1, <2>2 DEF MustRebuild
  <2>4. SetUp(grammars[i]).newbie = grammars[i].newbie
    <3>1. grammars[i] \in Record
      BY DEF ListInv, GrammarsInv, Good
    <3> QED
      BY <3>1, SetUpFields
  <2> QED
    BY <1>4, <2>3, <2>4
<1>6. ASSUME NEW k \in DOMAIN grammars'
      PROVE  WordsAt(k)'
  <2>1. PICK i \in DOMAIN grammars : /\ "delete" \notin SetUp(grammars[i]).hook
                                     /\ grammars'[k] = Unmarked(SetUp(grammars[i]))
    BY UpdateBeginList
  <2>2. /\ Alike(grammars[i], grammars'[k]) /\ grammars'[k].words = grammars[i].words
        /\ grammars'[k].hook = SetUp(grammars[i]).hook \ {"modified"}
    BY <1>3, <2>1
  <2>3. /\ "modified" \notin grammars'[k].hook /\ "delete" \notin grammars'[k].hook
        /\ grammars'[k].kind.ok /\ grammars'[k].id \notin failed
    BY <1>4, <2>1, <2>2 DEF Alike
  <2>4. CASE rebuild_flag'
    <3>1. ~InPlace(k)'
      <4>1. k \in Nat \ {0}
        <5>1. grammars' \in Seq((Good(gram_maxid, want))')
          BY UpdateBeginList DEF ListInv, GrammarsInv
        <5>2. DOMAIN grammars' = 1..Len(grammars')
          BY <5>1, LenProperties
        <5> QED
          BY <5>2
      <4> QED
        BY <1>1, <2>4, <4>1 DEF InPlace
    <3>2. Len(global'.words) = 0
      BY <1>1, <2>4 DEF NoGlobal
    <3>3. NoWords(grammars'[k], global')
      BY <3>2 DEF NoWords
    <3> QED
      BY <1>1, <2>3, <3>1, <3>3 DEF WordsAt
  <2>5. CASE ~rebuild_flag'
    <3>1. InPlace(k)' <=> InPlace(i)
      BY <1>1, <1>2, <2>2, <2>5 DEF InPlace, Alike
    <3>2. global' = global /\ WordsAt(i)
      BY <1>1, <2>5 DEF WordsInv
    <3>3. Clean(grammars[i])
      BY <1>4, <1>5, <2>1, <2>5 DEF Clean
    <3>4. ~InPlace(k)' => NoWords(grammars'[k], global')
      BY <2>2, <3>1, <3>2 DEF WordsAt, NoWords, Alike
    <3>5. InPlace(k)' => HasWords(grammars'[k], global')
      BY <2>2, <3>1, <3>2, <3>3 DEF WordsAt, HasWords, Alike
    <3> QED
      BY <1>1, <2>3, <3>4, <3>5 DEF WordsAt
  <2> QED
    BY <2>4, <2>5
<1>7. ASSUME NEW w \in 1..Len(global'.words)
      PROVE  \E k \in DOMAIN grammars' : grammars'[k].id = global'.words[w].gram
  <2>1. CASE rebuild_flag'
    <3>1. Len(global'.words) = 0
      BY <1>1, <2>1 DEF NoGlobal
    <3> QED
      BY <3>1
  <2>2. CASE ~rebuild_flag'
    <3>1. global' = global
      BY <1>1, <2>2
    <3>2. PICK i \in DOMAIN grammars : grammars[i].id = global.words[w].gram
      BY <3>1 DEF WordsInv
    <3>3. InPlace(i)
      BY <3>1, <3>2 DEF WordsInv, WordsAt, NoWords
    <3>4. "delete" \notin SetUp(grammars[i]).hook
      BY <1>2, <1>5, <2>2, <3>3
    <3>5. PICK k \in DOMAIN grammars' : grammars'[k] = Unmarked(SetUp(grammars[i]))
      BY <3>4, UpdateBeginList
    <3>6. grammars'[k].id = grammars[i].id
      BY <1>3, <3>5 DEF Alike
    <3> QED
      BY <3>1, <3>2, <3>6
  <2> QED
    BY <2>1, <2>2
<1> QED
  BY <1>6, <1>7 DEF WordsInv

\* The words of the grammar that is placed next come behind those there are.
LEMMA JoinedHas ==
  ASSUME global \in Lexicon, NEW m \in Record, NoWords(m, global)
  PROVE  /\ Fits(m) => HasWords(Placed(m), Joined(m))
         /\ ~Fits(m) => NoWords(Placed(m), Joined(m))
         /\ \A w \in 1..Len(Joined(m).words) :
              \/ Joined(m).words[w].gram = m.id
              \/ w \in 1..Len(global.words) /\ Joined(m).words[w] = global.words[w]
         /\ \A o \in Record : o.id # m.id =>
              /\ HasWords(o, global) => HasWords(o, Joined(m))
              /\ NoWords(o, global) => NoWords(o, Joined(m))
<1> DEFINE g == Joined(m)
           N == Len(global.words)
           l == Len(m.words)
<1>1. /\ ~Fits(m) => g.words = global.words
      /\ Fits(m) =>
           /\ Len(g.words) = N + l
           /\ \A w \in 1..N : g.words[w] = global.words[w]
           /\ \A w \in 1..l : g.words[N + w] = [gram |-> m.id, cat |-> m.words[w] + Len(global.cats)]
  BY JoinedShape
<1>2. N \in Nat /\ l \in Nat
  BY DEF Lexicon, Record
<1>3. Placed(m).id = m.id /\ Placed(m).word_begin = N /\ Placed(m).words = m.words
  BY PlacedFields
<1> HIDE DEF g, N, l
<1>4. CASE ~Fits(m)
  BY <1>1, <1>3, <1>4 DEF NoWords, HasWords, g, N
<1>5. CASE Fits(m)
  <2>1. Len(g.words) = N + l /\ \A w \in 1..N : g.words[w] = global.words[w]
    BY <1>1, <1>5
  <2>2. \A w \in N + 1..N + l : g.words[w].gram = m.id
    <3> TAKE w \in N + 1..N + l
    <3> DEFINE v == w - N
    <3>1. v \in 1..l /\ N + v = w
      BY <1>2
    <3> HIDE DEF v
    <3>2. g.words[N + v] = [gram |-> m.id, cat |-> m.words[v] + Len(global.cats)]
      BY <1>1, <1>5, <3>1
    <3>3. g.words[N + v].gram = m.id
      BY <3>2
    <3> QED
      BY <3>1, <3>3
  <2>3. \A w \in 1..N + l : w \in 1..N \/ w \in N + 1..N + l
    BY <1>2
  <2>4. HasWords(Placed(m), g)
    <3>1. \A w \in 1..N : g.words[w].gram # m.id
      BY <2>1 DEF NoWords, N
    <3>2. \A w \in 1..N + l : g.words[w].gram = m.id <=> N < w /\ w <= N + l
      <4> TAKE w \in 1..N + l
      <4>1. CASE w \in 1..N
        BY <1>2, <3>1, <4>1
      <4>2. CASE w \in N + 1..N + l
        BY <1>2, <2>2, <4>2
      <4> QED
        BY <2>3, <4>1, <4>2
    <3>3. N + l <= N + l
      BY <1>2
    <3> QED
      BY <1>3, <2>1, <3>2, <3>3 DEF HasWords, l
  <2>5. \A w \in 1..N + l : \/ g.words[w].gram = m.id
                            \/ w \in 1..N /\ g.words[w] = global.words[w]
    BY <2>1, <2>2, <2>3
  <2>6. ASSUME NEW o \in Record, o.id # m.id
        PROVE  /\ HasWords(o, global) => HasWords(o, g)
               /\ NoWords(o, global) => NoWords(o, g)
    <3>1. \A w \in N + 1..N + l : g.words[w].gram # o.id
      BY <2>2, <2>6
    <3>2. ASSUME NoWords(o, global) PROVE NoWords(o, g)
      <4>1. \A w \in 1..N : g.words[w].gram # o.id
        BY <2>1, <3>2 DEF NoWords, N
      <4> QED
        BY <2>1, <2>3, <3>1, <4>1 DEF NoWords
    <3>3. ASSUME HasWords(o, global) PROVE HasWords(o, g)
      <4> DEFINE b == o.word_begin
                 e == o.word_begin + Len(o.words)
      <4>1. b \in Int /\ e \in Int
        BY DEF Record
      <4>2. e <= N /\ \A w \in 1..N : global.words[w].gram = o.id <=> b < w /\ w <= e
        BY <3>3 DEF HasWords, N
      <4> HIDE DEF b, e
      <4>3. e <= N + l
        BY <1>2, <4>1, <4>2
      <4>4. \A w \in 1..N : g.words[w].gram = o.id <=> b < w /\ w <= e
        BY <2>1, <4>2
      <4>5. \A w \in N + 1..N + l : ~(w <= e)
        BY <1>2, <4>1, <4>2
      <4>6. \A w \in 1..N + l : g.words[w].gram = o.id <=> b < w /\ w <= e
        BY <2>3, <3>1, <4>4, <4>5
      <4> QED
        BY <2>1, <4>3, <4>6 DEF HasWords, b, e
    <3> QED
      BY <3>2, <3>3
  <2> QED
    BY <1>5, <2>1, <2>4, <2>5, <2>6 DEF g, N
<1> QED
  BY <1>4, <1>5

LEMMA JoinNextKeepsWords ==
  ASSUME ListInv, WordsInv, JoinNext
  PROVE  WordsInv'
<1> DEFINE m == grammars[at]
<1>1. /\ pc = "append" /\ pc' = "append" /\ rebuild_flag' = rebuild_flag /\ failed' = failed
  BY DEF JoinNext, history
<1>2. /\ DOMAIN grammars' = DOMAIN grammars /\ at \in DOMAIN grammars /\ at' = at + 1
      /\ DOMAIN grammars \subseteq Nat
  BY JoinNextList DEF ListInv, GrammarsInv
<1>3. CASE UNCHANGED <<grammars, global>> /\ ~rebuild_flag
  <2>1. \A i \in DOMAIN grammars : InPlace(i) <=> InPlace(i)'
    BY <1>1, <1>3 DEF InPlace
  <2>2. \A i \in DOMAIN grammars : WordsAt(i)'
    BY <1>1, <1>3, <2>1 DEF WordsInv, WordsAt
  <2> QED
    BY <1>3, <2>2 DEF WordsInv
<1>4. CASE /\ rebuild_flag \/ m.newbie
           /\ grammars'[at] = Placed(m)
           /\ \A i \in DOMAIN grammars : i # at => grammars'[i] = grammars[i]
           /\ global' = Joined(m)
  <2>1. m \in Record /\ global \in Lexicon
    BY <1>2 DEF ListInv, GrammarsInv, OthersInv, Good
  <2>2. ~InPlace(at)
    BY <1>1, <1>2, <1>4 DEF InPlace
  <2>3. /\ NoWords(m, global) /\ "delete" \notin m.hook /\ "modified" \notin m.hook
        /\ m.kind.ok /\ m.id \notin failed
    BY <1>1, <1>2, <2>2 DEF WordsInv, WordsAt
  <2> HIDE DEF m
  <2>4. /\ Fits(m) => HasWords(Placed(m), Joined(m))
        /\ ~Fits(m) => NoWords(Placed(m), Joined(m))
        /\ \A w \in 1..Len(Joined(m).words) :
             \/ Joined(m).words[w].gram = m.id
             \/ w \in 1..Len(global.words) /\ Joined(m).words[w] = global.words[w]
        /\ \A o \in Record : o.id # m.id =>
             /\ HasWords(o, global) => HasWords(o, Joined(m))
             /\ NoWords(o, global) => NoWords(o, Joined(m))
    BY <2>1, <2>3, JoinedHas
  <2>5. ASSUME NEW i \in DOMAIN grammars
        PROVE  WordsAt(i)' /\ grammars'[i].id = grammars[i].id
    <3>1. CASE i = at
      <4>1. grammars'[i] = Placed(m)
        BY <1>4, <3>1
      <4>2. /\ Placed(m).id = m.id /\ Placed(m).kind = m.kind /\ ~Placed(m).newbie
            /\ Fits(m) => Placed(m).hook = m.hook
            /\ ~Fits(m) => Placed(m).hook = m.hook \cup {"delete"}
        BY <2>1, PlacedFields
      <4>3. InPlace(i)'
        BY <1>1, <1>2, <3>1, <4>1, <4>2 DEF InPlace
      <4>4. /\ Clean(Placed(m)) => HasWords(Placed(m), Joined(m))
            /\ "modified" \notin Placed(m).hook
            /\ "delete" \in Placed(m).hook => NoWords(Placed(m), Joined(m))
        BY <2>3, <2>4, <4>2 DEF Clean
      <4>5. grammars'[i].kind.ok /\ grammars'[i].id \notin failed'
        BY <1>1, <2>3, <4>1, <4>2
      <4>6. WordsAt(i)'
        BY <1>4, <4>1, <4>3, <4>4, <4>5 DEF WordsAt
      <4> QED
        BY <3>1, <4>1, <4>2, <4>6 DEF m
    <3>2. CASE i # at
      <4>1. grammars'[i] = grammars[i] /\ WordsAt(i)
        BY <1>4, <3>2 DEF WordsInv
      <4>2. InPlace(i) <=> InPlace(i)'
        BY <1>1, <1>2, <3>2, <4>1 DEF InPlace
      <4>3. grammars[i] \in Record
        BY DEF ListInv, GrammarsInv, Good
      <4>4. grammars[i].id # m.id
        BY <1>2, <3>2 DEF ListInv, GrammarsInv, Distinct, m
      <4>5. /\ HasWords(grammars[i], global) => HasWords(grammars'[i], global')
            /\ NoWords(grammars[i], global) => NoWords(grammars'[i], global')
        BY <1>4, <2>4, <4>1, <4>3, <4>4
      <4> QED
        BY <1>1, <4>1, <4>2, <4>5 DEF WordsAt
    <3> QED
      BY <3>1, <3>2
  <2>6. ASSUME NEW w \in 1..Len(global'.words)
        PROVE  \E i \in DOMAIN grammars : grammars[i].id = global'.words[w].gram
    <3>1. CASE global'.words[w].gram = m.id
      BY <1>2, <3>1 DEF m
    <3>2. CASE w \in 1..Len(global.words) /\ global'.words[w] = global.words[w]
      BY <3>2 DEF WordsInv
    <3> QED
      BY <1>4, <2>4, <3>1, <3>2
  <2> QED
    BY <1>2, <2>5, <2>6 DEF WordsInv
<1> QED
  BY <1>3, <1>4, JoinNextList

\* What a rebuild drops has no words in the lexicon.
LEMMA UpdateEndKeepsWords ==
  ASSUME ListInv, WordsInv, UpdateEnd
  PROVE  WordsInv'
<1>1. /\ pc = "append" /\ at > Len(grammars) /\ pc' = "build" /\ failed' = failed
      /\ global' = global
  BY DEF UpdateEnd, history
<1>2. DOMAIN grammars = 1..Len(grammars) /\ Len(grammars) \in Nat /\ at \in Nat
  BY DEF ListInv, GrammarsInv, LoopInv
<1>3. ASSUME NEW i \in DOMAIN grammars, NEW new, new = Activated(grammars[i])
      PROVE  /\ Alike(grammars[i], new) /\ new.words = grammars[i].words
             /\ Clean(new) <=> Clean(grammars[i])
  <2>1. grammars[i] \in Record
    BY DEF ListInv, GrammarsInv, Good
  <2>2. /\ Alike(grammars[i], new) /\ new.words = grammars[i].words
        /\ new.hook = grammars[i].hook \ {"activate", "deactivate"}
    BY <1>3, <2>1, ActivatedFields DEF Alike
  <2> QED
    BY <2>2 DEF Clean
<1>4. ASSUME NEW k \in DOMAIN grammars'
      PROVE  WordsAt(k)'
  <2>1. PICK i \in DOMAIN grammars : grammars'[k] = Activated(grammars[i])
    BY UpdateEndList
  <2>2. /\ Alike(grammars[i], grammars'[k]) /\ grammars'[k].words = grammars[i].words
        /\ Clean(grammars'[k]) <=> Clean(grammars[i])
    BY <1>3, <2>1
  <2>3. InPlace(i) <=> InPlace(k)'
    BY <1>1, <1>2, <2>2 DEF InPlace, Alike
  <2>4. WordsAt(i)
    BY DEF WordsInv
  <2>5. ~InPlace(k)' => NoWords(grammars'[k], global')
    BY <1>1, <2>2, <2>3, <2>4 DEF WordsAt, NoWords, Alike
  <2>6. InPlace(k)' /\ Clean(grammars'[k]) => HasWords(grammars'[k], global')
    BY <1>1, <2>2, <2>3, <2>4 DEF WordsAt, HasWords, Alike
  <2>7. grammars'[k].kind.ok /\ grammars'[k].id \notin failed'
    BY <1>1, <2>2, <2>4 DEF WordsAt, Alike
  <2> QED
    BY <1>1, <2>5, <2>6, <2>7 DEF WordsAt
<1>5. ASSUME NEW w \in 1..Len(global.words)
      PROVE  \E k \in DOMAIN grammars' : grammars'[k].id = global.words[w].gram
  <2>1. PICK i \in DOMAIN grammars : grammars[i].id = global.words[w].gram
    BY DEF WordsInv
  <2>2. "delete" \notin grammars[i].hook
    BY <1>1, <2>1 DEF WordsInv, WordsAt, NoWords
  <2>3. PICK k \in DOMAIN grammars' : grammars'[k] = Activated(grammars[i])
    BY <2>2, UpdateEndList
  <2>4. grammars'[k].id = grammars[i].id
    BY <1>3, <2>3 DEF Alike
  <2> QED
    BY <2>1, <2>4
<1> QED
  BY <1>1, <1>4, <1>5 DEF WordsInv

LEMMA InitWords == Init => WordsInv
<1> SUFFICES ASSUME Init PROVE WordsInv
  OBVIOUS
<1>1. Len(global.words) = 0 /\ pc # "append"
  BY DEF Init, NoGlobal
<1>2. \A i \in DOMAIN grammars : grammars[i].newbie
  BY DEF Init, NewGrammar
<1>3. \A i \in DOMAIN grammars : WordsAt(i)
  BY <1>1, <1>2 DEF WordsAt, InPlace, NoWords
<1> QED
  BY <1>1, <1>3 DEF WordsInv

LEMMA StepWords ==
  ASSUME Invalid \notin AddedCats, ListInv, WordsInv, [Next]_vars
  PROVE  WordsInv'
<1>1. CASE UNCHANGED vars
  <2>1. UNCHANGED <<grammars, global, pc, rebuild_flag, at, failed>>
    BY <1>1 DEF vars, lmVars, loopVars, history
  <2>2. \A i \in DOMAIN grammars : InPlace(i) <=> InPlace(i)'
    BY <2>1 DEF InPlace
  <2>3. \A i \in DOMAIN grammars : WordsAt(i)'
    BY <2>1, <2>2 DEF WordsInv, WordsAt
  <2> QED
    BY <2>1, <2>3 DEF WordsInv
<1>2. CASE Next
  BY <1>2, NextCases, AddKeepsWords, DeleteKeepsWords, SwitchKeepsWords, AddWordKeepsWords,
     UpdateBeginKeepsWords, JoinNextKeepsWords, UpdateEndKeepsWords, QuietKeepsWords
<1> QED
  BY <1>1, <1>2

-----------------------------------------------------------------------------
(* The trees of the processes.                                             *)

OneProcess == \A r, s \in Procs : r = s

\* The tree of a process is built from the present lexicon, or the change is still
\* to be noticed.
TreeInv ==
  /\ pc \in {"poll", "append", "build", "decode"} => \E r \in Procs : live[r]
  /\ \A r \in Procs :
       \/ pc = "append" /\ rebuild_flag
       \/ global_modified
       \/ global = NoGlobal
       \/ wchmm[r] = global
  /\ pc = "decode" => ~global_modified /\ global # NoGlobal

LEMMA InitTree == Init => TreeInv
BY DEF Init, TreeInv

\* A request does not touch a tree or the lexicon.
LEMMA RequestKeepsTree ==
  ASSUME TreeInv, Asks, UNCHANGED <<pc, rebuild_flag, global, global_modified, live, wchmm>>
  PROVE  TreeInv'
BY DEF TreeInv, Asks

LEMMA StepTree ==
  ASSUME OneProcess, ListInv, TreeInv, [Next]_vars
  PROVE  TreeInv'
<1>1. CASE UNCHANGED vars
  BY <1>1 DEF vars, lmVars, procVars, loopVars, TreeInv
<1>2. CASE Requests
  <2>1. Asks /\ UNCHANGED <<pc, rebuild_flag, global, global_modified, live, wchmm>>
    <3>1. CASE \E k \in Kinds : Add(k)
      BY <3>1 DEF Add, procVars, loopVars
    <3>2. CASE \E ids \in SUBSET Registered : Delete(ids)
      BY <3>2 DEF Delete, procVars, loopVars
    <3>3. CASE \E id \in Ids, on \in BOOLEAN : Switch(id, on)
      BY <3>3 DEF Switch, procVars, loopVars
    <3>4. CASE \E id \in Ids, cat \in AddedCats : AddWord(id, cat)
      BY <3>4 DEF AddWord, procVars, loopVars
    <3>5. CASE \E r \in Procs, on \in BOOLEAN : Book(r, on)
      BY <3>5 DEF Book, lmVars, loopVars
    <3>6. CASE \E on \in BOOLEAN : Ask(on)
      BY <3>6 DEF Ask, lmVars, loopVars
    <3> QED
      BY <1>2, <3>1, <3>2, <3>3, <3>4, <3>5, <3>6 DEF Requests
  <2> QED
    BY <2>1, RequestKeepsTree
<1>3. CASE Start
  <2>1. pc = "start" /\ pc' \in {"poll", "paused"} /\ process_active' \in BOOLEAN
        /\ UNCHANGED <<global, global_modified, wchmm>>
    BY <1>3 DEF Start, lmVars, ListInv, OthersInv
  <2>2. pc' = "poll" => \E r \in Procs : live'[r]
    BY <1>3 DEF Start
  <2> QED
    BY <2>1, <2>2 DEF TreeInv
<1>4. CASE Rest \/ WakeUp \/ RoundEnd
  BY <1>4 DEF Rest, WakeUp, RoundEnd, lmVars, procVars, TreeInv
<1>5. CASE UpdateBegin
  <2>1. /\ pc = "poll" /\ pc' = "append" /\ UNCHANGED <<live, wchmm, global_modified>>
        /\ rebuild_flag' \in BOOLEAN
        /\ ~rebuild_flag' => global' = global
    BY <1>5, UpdateBeginList DEF UpdateBegin, procVars, ListInv, LoopInv
  <2> QED
    BY <2>1 DEF TreeInv
<1>6. CASE JoinNext
  <2>1. /\ pc = "append" /\ pc' = "append" /\ UNCHANGED <<live, wchmm, rebuild_flag>>
        /\ \/ global_modified' = (global_modified \/ ~rebuild_flag)
           \/ UNCHANGED <<global, global_modified>>
    BY <1>6 DEF JoinNext, procVars
  <2>2. rebuild_flag \/ global_modified' \/ UNCHANGED <<global, global_modified>>
    BY <2>1 DEF ListInv, LoopInv, OthersInv
  <2>3. \A r \in Procs : \/ pc' = "append" /\ rebuild_flag'
                         \/ global_modified' \/ global' = NoGlobal \/ wchmm'[r] = global'
    BY <2>1, <2>2 DEF TreeInv
  <2> QED
    BY <2>1, <2>3 DEF TreeInv
<1>7. CASE UpdateEnd
  <2>1. /\ pc = "append" /\ pc' = "build" /\ UNCHANGED <<live, wchmm, global, rebuild_flag>>
        /\ global_modified' = (global_modified \/ rebuild_flag)
    BY <1>7 DEF UpdateEnd, procVars
  <2> QED
    BY <2>1 DEF TreeInv
<1>8. CASE Build
  <2>1. /\ pc = "build" /\ UNCHANGED <<live, global>> /\ global_modified' = FALSE
        /\ wchmm' = [r \in Procs |-> IF Rebuilds(r) THEN global ELSE wchmm[r]]
        /\ pc' = IF global = NoGlobal /\ \E r \in Procs : live[r] THEN "start" ELSE "decode"
    BY <1>8 DEF Build
  <2>2. \A r \in Procs : live[r]
    BY <2>1 DEF OneProcess, TreeInv
  <2>3. \E r \in Procs : live[r]
    BY <2>1 DEF TreeInv
  <2>4. \A r \in Procs : global = NoGlobal \/ wchmm'[r] = global
    BY <2>1, <2>2 DEF Rebuilds, TreeInv
  <2>5. pc' = "decode" => global # NoGlobal
    BY <2>1, <2>3
  <2>6. pc' \in {"start", "decode"}
    BY <2>1
  <2> QED
    BY <2>1, <2>3, <2>4, <2>5, <2>6 DEF TreeInv
<1> QED
  BY <1>1, <1>2, <1>3, <1>4, <1>5, <1>6, <1>7, <1>8 DEF Next, Engine

\* With one process, as HAS has it, and words of known categories, every input is
\* decoded with exactly the grammars that are registered: deleting, adding and
\* extending in any order leaves no old word in the lexicon, loses none, and the
\* tree is never older than the lexicon (multi-gram.c:651-743, recogmain.c:819-832).
\* The run of two processes shows that the first hypothesis is needed.
THEOREM DecodedAreRegistered ==
  ASSUME Invalid \notin AddedCats, OneProcess
  PROVE  Spec => []DecodesTheList
<1> DEFINE Inv == ListInv /\ WordsInv /\ TreeInv
<1>1. Init => Inv
  BY InitList, InitWords, InitTree
<1>2. Inv /\ [Next]_vars => Inv'
  BY StepList, StepWords, StepTree
<1>3. Inv => DecodesTheList
  <2> SUFFICES ASSUME Inv, pc = "decode", \E r \in Procs : live[r]
               PROVE  /\ \A r \in Procs : live[r] => wchmm[r] = global
                      /\ \A w \in DOMAIN global.words : global.words[w].gram \in Registered
                      /\ \A i \in DOMAIN grammars :
                           LET m == grammars[i] IN
                           ~m.newbie /\ m.hook \cap {"delete", "modified"} = {} =>
                             WordsOf(global, m.id) = m.word_begin + 1 .. m.word_begin + Len(m.words)
    BY DEF DecodesTheList
  <2>1. \A r \in Procs : wchmm[r] = global
    BY DEF TreeInv
  <2>2. DOMAIN global.words = 1..Len(global.words) /\ Len(global.words) \in Nat
    BY DEF ListInv, OthersInv, Lexicon
  <2>3. \A w \in DOMAIN global.words : global.words[w].gram \in Registered
    BY <2>2 DEF WordsInv, Registered
  <2>4. ASSUME NEW i \in DOMAIN grammars, ~grammars[i].newbie,
               grammars[i].hook \cap {"delete", "modified"} = {}
        PROVE  WordsOf(global, grammars[i].id) =
                 grammars[i].word_begin + 1 .. grammars[i].word_begin + Len(grammars[i].words)
    <3> DEFINE b == grammars[i].word_begin
               e == grammars[i].word_begin + Len(grammars[i].words)
    <3>1. b \in Nat /\ e \in Nat
      <4>1. grammars[i] \in Record
        BY DEF ListInv, GrammarsInv, Good
      <4> QED
        BY <4>1 DEF Record
    <3>2. HasWords(grammars[i], global)
      BY <2>4 DEF WordsInv, WordsAt, InPlace, Clean
    <3>3. e <= Len(global.words)
          /\ \A w \in 1..Len(global.words) :
               global.words[w].gram = grammars[i].id <=> b < w /\ w <= e
      BY <3>2 DEF HasWords
    <3> HIDE DEF b, e
    <3>4. \A w : w \in WordsOf(global, grammars[i].id) <=>
                   w \in 1..Len(global.words) /\ b < w /\ w <= e
      BY <2>2, <3>3 DEF WordsOf
    <3>5. \A w : w \in b + 1..e <=> w \in 1..Len(global.words) /\ b < w /\ w <= e
      BY <2>2, <3>1, <3>3
    <3>6. WordsOf(global, grammars[i].id) = b + 1..e
      BY <3>4, <3>5
    <3> QED
      BY <3>6 DEF b, e
  <2> QED
    BY <2>1, <2>3, <2>4
<1> QED
  BY <1>1, <1>2, <1>3, PTL DEF Spec

=============================================================================
