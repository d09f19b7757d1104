----------------------- MODULE CallbackRegistryProofs -----------------------
(***************************************************************************)
(* The counts of the registry and its calls stay sound although the         *)
(* locations remembered for ids go stale, for any number of codes,          *)
(* functions and deletions: the proof of the safety properties of module    *)
(* CallbackRegistry.                                                       *)
(***************************************************************************)
EXTENDS CallbackRegistry, FiniteSetTheorems, SequenceTheorems, TLAPS

Hook == [fn : Funs, reg : Nat]
Entry == [code : Codes, loc : 1..MaxHook, reg : Nat] \cup {Deleted}

\* The functions of a code are in the order in which they were added.
Ordered ==
  \A c \in Codes :
    /\ \A k \in DOMAIN table[c] : table[c][k].reg <= regs
    /\ \A j, k \in DOMAIN table[c] : j < k => table[c][j].reg < table[c][k].reg

\* What callback_exec has yet to reach was added after all it has called.
CalledInv ==
  running # Idle =>
    /\ \A j \in DOMAIN running.called : running.called[j] <= regs
    /\ \A j, k \in DOMAIN running.called : j < k => running.called[j] < running.called[k]
    /\ \A j \in DOMAIN running.called : \A k \in DOMAIN table[running.code] :
         k > running.i => running.called[j] < table[running.code][k].reg

IndInv == TypeOK /\ Ordered /\ CalledInv /\ HookedOnce

-----------------------------------------------------------------------------
\* Deleting takes one function out, whatever the location says: those behind it
\* move up, and a location behind the end takes the last one.
LEMMA UnhookOne ==
  ASSUME NEW S, NEW s \in Seq(S), s # << >>, NEW loc \in Nat \ {0}
  PROVE  /\ Unhook(s, loc) \in Seq(S)
         /\ Len(Unhook(s, loc)) = Len(s) - 1
         /\ \A k \in 1..Len(s) - 1 : Unhook(s, loc)[k] = IF k < loc THEN s[k] ELSE s[k + 1]
<1>1. Len(s) \in Nat \ {0} /\ \A k \in 1..Len(s) : s[k] \in S
  OBVIOUS
<1>2. CASE loc >= Len(s)
  <2>1. Unhook(s, loc) = SubSeq(s, 1, Len(s) - 1)
    BY <1>2 DEF Unhook, Front
  <2>2. /\ SubSeq(s, 1, Len(s) - 1) \in Seq(S)
        /\ Len(SubSeq(s, 1, Len(s) - 1)) = Len(s) - 1
        /\ \A k \in 1..Len(s) - 1 : SubSeq(s, 1, Len(s) - 1)[k] = s[k]
    <3> DEFINE n == Len(s) - 1
    <3>1. n \in Nat /\ 1 \in Int /\ \A i \in 1..n : s[i] \in S
      BY <1>1
    <3> HIDE DEF n
    <3>2. /\ SubSeq(s, 1, n) \in Seq(S)
          /\ Len(SubSeq(s, 1, n)) = IF 1 <= n THEN n - 1 + 1 ELSE 0
          /\ \A i \in 1..n - 1 + 1 : SubSeq(s, 1, n)[i] = s[1 + i - 1]
      BY <3>1, SubSeqProperties
    <3>3. Len(SubSeq(s, 1, n)) = n /\ \A k \in 1..n : SubSeq(s, 1, n)[k] = s[k]
      BY <3>1, <3>2
    <3> QED
      BY <3>2, <3>3 DEF n
  <2>3. \A k \in 1..Len(s) - 1 : k < loc
    BY <1>1, <1>2
  <2> QED
    BY <2>1, <2>2, <2>3
<1>3. CASE loc < Len(s)
  <2> DEFINE a == SubSeq(s, 1, loc - 1)
             b == SubSeq(s, loc + 1, Len(s))
  <2>1. Unhook(s, loc) = a \o b
    <3>1. ~(loc >= Len(s))
      BY <1>1, <1>3
    <3> QED
      BY <3>1 DEF Unhook, RemoveAt
  <2>2. a \in Seq(S) /\ Len(a) = loc - 1 /\ \A k \in 1..loc - 1 : a[k] = s[k]
    BY <1>1, <1>3
  <2>3. b \in Seq(S) /\ Len(b) = Len(s) - loc /\ \A k \in 1..Len(s) - loc : b[k] = s[loc + k]
    BY <1>1, <1>3
  <2> HIDE DEF a, b
  <2>4. /\ a \o b \in Seq(S) /\ Len(a \o b) = Len(a) + Len(b)
        /\ \A k \in 1..Len(a) + Len(b) :
             (a \o b)[k] = IF k <= Len(a) THEN a[k] ELSE b[k - Len(a)]
    BY <2>2, <2>3, ConcatProperties
  <2>5. Len(a) + Len(b) = Len(s) - 1
    BY <1>1, <2>2, <2>3
  <2>6. ASSUME NEW k \in 1..Len(s) - 1
        PROVE  (a \o b)[k] = IF k < loc THEN s[k] ELSE s[k + 1]
    <3>1. CASE k < loc
      <4>1. k \in 1..loc - 1 /\ k <= Len(a)
        BY <2>2, <3>1
      <4> QED
        BY <2>2, <2>4, <2>5, <3>1, <4>1
    <3>2. CASE ~(k < loc)
      <4>1. ~(k <= Len(a)) /\ k - Len(a) = k - loc + 1 /\ k - loc + 1 \in 1..Len(s) - loc
        BY <1>1, <1>3, <2>2, <3>2
      <4>2. b[k - loc + 1] = s[loc + (k - loc + 1)] /\ loc + (k - loc + 1) = k + 1
        BY <2>3, <4>1
      <4> QED
        BY <2>4, <2>5, <3>2, <4>1, <4>2
    <3> QED
      BY <3>1, <3>2
  <2> QED
    BY <2>1, <2>4, <2>5, <2>6
<1> QED
  BY <1>1, <1>2, <1>3

\* The live ids of a code are finitely many.
LEMMA LiveIdsFinite ==
  ASSUME TypeOK, NEW c \in Codes
  PROVE  IsFiniteSet(LiveIds(c)) /\ Cardinality(LiveIds(c)) \in Nat
<1>1. LiveIds(c) \subseteq 1..Len(list) /\ Len(list) \in Nat
  BY DEF LiveIds, TypeOK
<1>2. IsFiniteSet(1..Len(list))
  BY <1>1, FS_Interval
<1>3. IsFiniteSet(LiveIds(c))
  BY <1>1, <1>2, FS_Subset
<1> QED
  BY <1>3, FS_CardinalityType

LEMMA InitInv == Init => IndInv
<1> SUFFICES ASSUME Init PROVE IndInv
  OBVIOUS
<1>1. TypeOK /\ Ordered /\ CalledInv
  BY RegistryAssumption DEF Init, TypeOK, Ordered, CalledInv
<1>2. HookedOnce
  <2> SUFFICES ASSUME NEW c \in Codes PROVE Cardinality(LiveIds(c)) = 0
    BY RegistryAssumption DEF Init, HookedOnce
  <2>1. LiveIds(c) = {}
    BY DEF Init, LiveIds
  <2> QED
    BY <2>1, FS_EmptySet
<1> QED
  BY <1>1, <1>2 DEF IndInv

\* Adding appends a function that is not there and an id for it, if ids are left.
LEMMA AddInv ==
  ASSUME IndInv, NEW c \in Codes, NEW f \in Funs, Add(c, f)
  PROVE  IndInv'
<1> USE RegistryAssumption DEF IndInv
<1> DEFINE h == [fn |-> f, reg |-> regs + 1]
           e == [code |-> c, loc |-> Len(table[c]) + 1, reg |-> regs + 1]
<1>1. /\ table \in [Codes -> Seq(Hook)] /\ list \in Seq(Entry) /\ regs \in Nat
      /\ Len(table[c]) \in Nat /\ Len(table[c]) < MaxHook
  <2>1. table \in [Codes -> Seq(Hook)] /\ regs \in Nat
    BY DEF TypeOK, Hook
  <2>2. list \in Seq(Entry)
    BY DEF TypeOK, Entry
  <2>3. Len(table[c]) \in Nat
    BY <2>1
  <2>4. ~(Len(table[c]) >= MaxHook)
    BY DEF Add, Full
  <2> QED
    BY <2>1, <2>2, <2>3, <2>4
<1>2. /\ regs' = regs + 1 /\ UNCHANGED <<running, deleted>>
      /\ table' = [table EXCEPT ![c] = Append(@, h)]
      /\ list' = list \/ list' = Append(list, e)
  BY DEF Add
<1>3. h \in Hook /\ e \in Entry
  BY <1>1 DEF Hook, Entry
<1>4. /\ table'[c] = Append(table[c], h) /\ table'[c] \in Seq(Hook)
      /\ Len(table'[c]) = Len(table[c]) + 1
      /\ table'[c][Len(table[c]) + 1] = h
      /\ \A k \in 1..Len(table[c]) : table'[c][k] = table[c][k]
      /\ \A d \in Codes : d # c => table'[d] = table[d]
  BY <1>1, <1>2, <1>3
<1> HIDE DEF h, e
<1>5. TypeOK'
  <2>1. table' \in [Codes -> Seq(Hook)]
    BY <1>1, <1>2, <1>4
  <2>2. list' \in Seq(Entry)
    <3>1. Append(list, e) \in Seq(Entry)
      BY <1>1, <1>3
    <3> QED
      BY <1>1, <1>2, <3>1
  <2>3. regs' \in Nat /\ UNCHANGED <<running, deleted>>
    BY <1>1, <1>2
  <2> QED
    BY <2>1, <2>2, <2>3 DEF TypeOK, Hook, Entry
<1>6. ASSUME NEW d \in Codes
      PROVE  /\ \A k \in DOMAIN table'[d] : table'[d][k].reg <= regs'
             /\ \A j, k \in DOMAIN table'[d] : j < k => table'[d][j].reg < table'[d][k].reg
             /\ \A j, k \in DOMAIN table'[d] : table'[d][j].fn = table'[d][k].fn => j = k
  <2>1. /\ \A k \in 1..Len(table[d]) : table[d][k].reg <= regs /\ table[d][k].reg \in Nat
        /\ \A j, k \in 1..Len(table[d]) : j < k => table[d][j].reg < table[d][k].reg
        /\ \A j, k \in 1..Len(table[d]) : table[d][j].fn = table[d][k].fn => j = k
        /\ Len(table[d]) \in Nat
    <3>1. table[d] \in Seq(Hook) /\ DOMAIN table[d] = 1..Len(table[d]) /\ Len(table[d]) \in Nat
      BY <1>1
    <3>2. \A k \in 1..Len(table[d]) : table[d][k].reg \in Nat
      <4>1. \A k \in 1..Len(table[d]) : table[d][k] \in Hook
        BY <3>1
      <4> QED
        BY <4>1 DEF Hook
    <3>3. /\ \A k \in 1..Len(table[d]) : table[d][k].reg <= regs
          /\ \A j, k \in 1..Len(table[d]) : j < k => table[d][j].reg < table[d][k].reg
      BY <3>1 DEF Ordered
    <3>4. \A j, k \in 1..Len(table[d]) : table[d][j].fn = table[d][k].fn => j = k
      BY <3>1 DEF HookedOnce
    <3> QED
      BY <3>1, <3>2, <3>3, <3>4
  <2>2. CASE d # c
    <3>1. table'[d] = table[d] /\ DOMAIN table[d] = 1..Len(table[d])
      BY <1>1, <1>4, <2>2
    <3>2. \A k \in DOMAIN table[d] : table[d][k].reg <= regs + 1
      BY <1>1, <2>1, <3>1
    <3> QED
      BY <1>2, <2>1, <3>1, <3>2, ZenonT(40)
  <2>3. CASE d = c
    <3>1. DOMAIN table'[c] = 1..Len(table[c]) + 1 /\ h.reg = regs + 1 /\ h.fn = f
      BY <1>1, <1>4 DEF h
    <3>2. \A k \in 1..Len(table[c]) : table[c][k].fn # f
      BY <1>1 DEF Add, Hooked
    <3>3. \A k \in DOMAIN table'[c] : k \in 1..Len(table[c]) \/ k = Len(table[c]) + 1
      BY <1>1, <3>1
    <3> QED
      BY <1>1, <1>2, <1>4, <2>1, <2>3, <3>1, <3>2, <3>3, SMTT(30)
  <2> QED
    BY <2>2, <2>3
<1>7. Ordered'
  BY <1>6 DEF Ordered
<1>8. CalledInv'
  <2> SUFFICES ASSUME running # Idle PROVE CalledInv'
    BY <1>2 DEF CalledInv
  <2>1. running.code \in Codes /\ running.i \in Nat /\ running.called \in Seq(Nat)
    BY DEF TypeOK
  <2>2. /\ \A j \in DOMAIN running.called : running.called[j] <= regs /\ running.called[j] \in Nat
        /\ \A j \in DOMAIN running.called : \A k \in DOMAIN table[running.code] :
             k > running.i => running.called[j] < table[running.code][k].reg
    BY <2>1 DEF CalledInv
  <2>3. ASSUME NEW j \in DOMAIN running.called, NEW k \in DOMAIN table'[running.code], k > running.i
        PROVE  running.called[j] < table'[running.code][k].reg
    <3>1. CASE running.code # c
      BY <1>4, <2>1, <2>2, <2>3, <3>1
    <3>2. CASE running.code = c /\ k \in 1..Len(table[c])
      BY <1>1, <1>4, <2>2, <2>3, <3>2
    <3>3. CASE running.code = c /\ k = Len(table[c]) + 1
      BY <1>1, <1>4, <2>2, <3>3 DEF h
    <3> QED
      BY <1>1, <1>4, <2>1, <3>1, <3>2, <3>3, SMTT(30)
  <2> QED
    BY <1>1, <1>2, <2>2, <2>3 DEF CalledInv
<1>9. HookedOnce'
  <2> SUFFICES ASSUME NEW d \in Codes
               PROVE  Cardinality(LiveIds(d)') <= Len(table'[d]) /\ Len(table'[d]) <= MaxHook
    BY <1>6 DEF HookedOnce
  <2>1. /\ IsFiniteSet(LiveIds(d)) /\ Cardinality(LiveIds(d)) \in Nat
        /\ Cardinality(LiveIds(d)) <= Len(table[d]) /\ Len(table[d]) <= MaxHook
    BY LiveIdsFinite DEF HookedOnce
  <2>2. LiveIds(d)' = LiveIds(d) \/ (d = c /\ LiveIds(d)' = LiveIds(d) \cup {Len(list) + 1})
    <3>1. CASE list' = list
      BY <3>1 DEF LiveIds
    <3>2. CASE list' = Append(list, e)
      <4>1. /\ DOMAIN list' = DOMAIN list \cup {Len(list) + 1}
            /\ \A id \in DOMAIN list : list'[id] = list[id]
            /\ list'[Len(list) + 1] = e
        BY <1>1, <1>3, <3>2
      <4>2. e.code = c
        BY DEF e
      <4>3. Len(list) + 1 \notin DOMAIN list
        BY <1>1
      <4> QED
        BY <4>1, <4>2, <4>3 DEF LiveIds
    <3> QED
      BY <1>2, <3>1, <3>2
  <2>3. Cardinality(LiveIds(d)') <= Cardinality(LiveIds(d)) + (IF d = c THEN 1 ELSE 0)
    BY <2>1, <2>2, FS_AddElement
  <2>4. Cardinality(LiveIds(d)') \in Nat
    BY <2>1, <2>2, FS_AddElement, FS_CardinalityType
  <2>5. CASE d = c
    BY <1>1, <1>4, <2>1, <2>3, <2>4, <2>5
  <2>6. CASE d # c
    <3>1. table'[d] = table[d] /\ Len(table[d]) \in Nat
      BY <1>1, <1>4, <2>6
    <3> QED
      BY <2>1, <2>3, <2>4, <2>6, <3>1
  <2> QED
    BY <2>5, <2>6
<1> QED
  BY <1>5, <1>7, <1>8, <1>9

\* Deleting an id takes one function of its code out, not always its own.
LEMMA DeleteInv ==
  ASSUME IndInv, NEW id \in DOMAIN list, Delete(id)
  PROVE  IndInv'
<1> USE RegistryAssumption DEF IndInv
<1> DEFINE c == list[id].code
           loc == list[id].loc
           n == Len(table[c])
<1>1. table \in [Codes -> Seq(Hook)] /\ list \in Seq(Entry) /\ regs \in Nat /\ deleted \in Nat
  <2>1. table \in [Codes -> Seq(Hook)]
    BY DEF TypeOK, Hook
  <2>2. list \in Seq(Entry)
    BY DEF TypeOK, Entry
  <2>3. regs \in Nat /\ deleted \in 0..MaxDelete
    BY DEF TypeOK
  <2> QED
    BY <2>1, <2>2, <2>3
<1>2. c \in Codes /\ loc \in Nat \ {0}
  <2>1. list[id] \in Entry /\ list[id] # Deleted
    BY <1>1 DEF Delete
  <2> QED
    BY <2>1 DEF Entry
<1>3. /\ table' = [table EXCEPT ![c] = Unhook(@, loc)]
      /\ list' = [list EXCEPT ![id] = Deleted]
      /\ deleted' = deleted + 1 /\ deleted < MaxDelete /\ UNCHANGED <<running, regs>>
  BY DEF Delete, Forget
<1> HIDE DEF c, loc
<1>4. id \in LiveIds(c) /\ Cardinality(LiveIds(c)) \in Nat /\ IsFiniteSet(LiveIds(c))
  BY <1>2, LiveIdsFinite DEF LiveIds, c
<1>5. Cardinality(LiveIds(c)) # 0
  BY <1>4, FS_EmptySet
<1>6. n \in Nat \ {0} /\ table[c] # << >>
  <2>1. Cardinality(LiveIds(c)) <= n /\ table[c] \in Seq(Hook) /\ n \in Nat
    BY <1>1, <1>2 DEF HookedOnce
  <2> QED
    BY <1>4, <1>5, <2>1
<1>7. /\ table'[c] \in Seq(Hook) /\ Len(table'[c]) = n - 1
      /\ \A k \in 1..n - 1 : table'[c][k] = IF k < loc THEN table[c][k] ELSE table[c][k + 1]
      /\ \A d \in Codes : d # c => table'[d] = table[d]
  <2>1. /\ Unhook(table[c], loc) \in Seq(Hook)
        /\ Len(Unhook(table[c], loc)) = n - 1
        /\ \A k \in 1..n - 1 :
             Unhook(table[c], loc)[k] = IF k < loc THEN table[c][k] ELSE table[c][k + 1]
    <3>1. table[c] \in Seq(Hook)
      BY <1>1, <1>2
    <3> QED
      BY <1>2, <1>6, <3>1, UnhookOne
  <2>2. table'[c] = Unhook(table[c], loc)
    BY <1>1, <1>2, <1>3
  <2> QED
    BY <1>1, <1>3, <2>1, <2>2
<1> HIDE DEF n
<1>8. TypeOK'
  <2>1. table' \in [Codes -> Seq(Hook)]
    BY <1>1, <1>3, <1>7
  <2>2. list' \in Seq(Entry)
    <3>1. Deleted \in Entry
      BY DEF Entry
    <3> QED
      BY <1>1, <1>3, <3>1
  <2>3. deleted' \in 0..MaxDelete
    BY <1>1, <1>3
  <2> QED
    BY <1>3, <2>1, <2>2, <2>3 DEF TypeOK, Hook, Entry
\* Every function of a code is one it had, as far back at most.
<1>9. ASSUME NEW d \in Codes, NEW k \in DOMAIN table'[d]
      PROVE  \E i \in DOMAIN table[d] :
               /\ table'[d][k] = table[d][i]
               /\ i = IF d # c \/ k < loc THEN k ELSE k + 1
  <2>1. CASE d # c
    BY <1>7, <2>1
  <2>2. CASE d = c
    <3>1. DOMAIN table'[c] = 1..n - 1 /\ DOMAIN table[c] = 1..n
      BY <1>1, <1>2, <1>6, <1>7 DEF n
    <3>2. k \in 1..n - 1 /\ k \in 1..n /\ k + 1 \in 1..n
      BY <1>6, <2>2, <3>1
    <3>3. CASE k < loc
      BY <1>7, <2>2, <3>1, <3>2, <3>3
    <3>4. CASE ~(k < loc)
      BY <1>7, <2>2, <3>1, <3>2, <3>4
    <3> QED
      BY <3>3, <3>4
  <2> QED
    BY <2>1, <2>2
<1>10. \A d \in Codes : DOMAIN table[d] \subseteq Nat /\ DOMAIN table'[d] \subseteq Nat
  BY <1>1, <1>7, <1>8, SMTT(30) DEF TypeOK
<1>11. ASSUME NEW d \in Codes
       PROVE  /\ \A k \in DOMAIN table'[d] : table'[d][k].reg <= regs'
              /\ \A j, k \in DOMAIN table'[d] : j < k => table'[d][j].reg < table'[d][k].reg
              /\ \A j, k \in DOMAIN table'[d] : table'[d][j].fn = table'[d][k].fn => j = k
  <2>1. \A k \in DOMAIN table'[d] : table'[d][k].reg <= regs'
    BY <1>3, <1>9 DEF Ordered
  <2>2. ASSUME NEW j \in DOMAIN table'[d], NEW k \in DOMAIN table'[d]
        PROVE  /\ j < k => table'[d][j].reg < table'[d][k].reg
               /\ table'[d][j].fn = table'[d][k].fn => j = k
    <3>1. PICK x \in DOMAIN table[d] : table'[d][j] = table[d][x] /\ x = IF d # c \/ j < loc THEN j ELSE j + 1
      BY <1>9
    <3>2. PICK y \in DOMAIN table[d] : table'[d][k] = table[d][y] /\ y = IF d # c \/ k < loc THEN k ELSE k + 1
      BY <1>9
    <3>3. (j < k => x < y) /\ (x = y => j = k)
      BY <1>2, <1>10, <3>1, <3>2
    <3>4. x < y => table[d][x].reg < table[d][y].reg
      BY DEF Ordered
    <3>5. table[d][x].fn = table[d][y].fn => x = y
      BY DEF HookedOnce
    <3> QED
      BY <3>1, <3>2, <3>3, <3>4, <3>5
  <2> QED
    BY <2>1, <2>2
<1>12. Ordered'
  BY <1>11 DEF Ordered
<1>13. CalledInv'
  <2> SUFFICES ASSUME running # Idle PROVE CalledInv'
    BY <1>3 DEF CalledInv
  <2>1. running.code \in Codes /\ running.i \in Nat
    BY DEF TypeOK
  <2>2. ASSUME NEW j \in DOMAIN running.called, NEW k \in DOMAIN table'[running.code], k > running.i
        PROVE  running.called[j] < table'[running.code][k].reg
    <3>1. PICK x \in DOMAIN table[running.code] :
            /\ table'[running.code][k] = table[running.code][x]
            /\ x = IF running.code # c \/ k < loc THEN k ELSE k + 1
      BY <1>9, <2>1
    <3>2. x > running.i
      BY <1>10, <2>1, <2>2, <3>1
    <3> QED
      BY <3>1, <3>2 DEF CalledInv
  <2> QED
    BY <1>3, <2>2 DEF CalledInv
<1>14. HookedOnce'
  <2> SUFFICES ASSUME NEW d \in Codes
               PROVE  Cardinality(LiveIds(d)') <= Len(table'[d]) /\ Len(table'[d]) <= MaxHook
    BY <1>11 DEF HookedOnce
  <2>1. /\ IsFiniteSet(LiveIds(d)) /\ Cardinality(LiveIds(d)) \in Nat
        /\ Cardinality(LiveIds(d)) <= Len(table[d]) /\ Len(table[d]) <= MaxHook
    BY LiveIdsFinite DEF HookedOnce
  <2>2. LiveIds(d)' = LiveIds(d) \ {id}
    <3>1. DOMAIN list' = DOMAIN list /\ \A i \in DOMAIN list : list'[i] = IF i = id THEN Deleted ELSE list[i]
      BY <1>1, <1>3
    <3>2. Deleted.code # d
      BY DEF Deleted
    <3> QED
      BY <3>1, <3>2 DEF LiveIds
  <2>3. CASE d # c
    <3>1. id \notin LiveIds(d)
      BY <2>3 DEF LiveIds, c
    <3> QED
      BY <1>7, <2>1, <2>2, <2>3, <3>1
  <2>4. CASE d = c
    <3>1. Cardinality(LiveIds(d)') = Cardinality(LiveIds(d)) - 1
      BY <1>4, <2>1, <2>2, <2>4, FS_RemoveElement, ZenonT(40)
    <3> QED
      BY <1>6, <1>7, <2>1, <2>4, <3>1 DEF n
  <2> QED
    BY <2>3, <2>4
<1> QED
  BY <1>8, <1>12, <1>13, <1>14

\* callback_exec changes nothing but its own progress.
LEMMA ExecInv ==
  ASSUME IndInv, ExecCall \/ ExecEnd \/ \E c \in Codes : ExecBegin(c)
  PROVE  IndInv'
<1> USE RegistryAssumption DEF IndInv
<1>1. UNCHANGED <<table, list, regs, deleted>>
  BY DEF ExecCall, ExecEnd, ExecBegin
<1>2. Ordered' /\ HookedOnce'
  BY <1>1 DEF Ordered, HookedOnce, LiveIds
<1>3. TypeOK' /\ CalledInv'
  <2>1. ASSUME NEW c \in Codes, ExecBegin(c) PROVE TypeOK' /\ CalledInv'
    <3>1. running' = [code |-> c, i |-> 0, called |-> << >>]
      BY <2>1 DEF ExecBegin
    <3>2. running' \in [code : Codes, i : Nat, called : Seq(Nat)]
      BY <3>1
    <3>3. TypeOK'
      BY <1>1, <3>2 DEF TypeOK
    <3>4. running'.called = << >>
      BY <3>1
    <3>5. CalledInv'
      BY <3>4 DEF CalledInv
    <3> QED
      BY <3>3, <3>5
  <2>2. CASE ExecEnd
    BY <1>1, <2>2 DEF ExecEnd, TypeOK, CalledInv
  <2>3. CASE ExecCall
    <3> DEFINE code == running.code
               i == running.i
               called == running.called
               r == table[code][i + 1].reg
    <3>1. code \in Codes /\ i \in Nat /\ called \in Seq(Nat) /\ running # Idle
      BY <2>3 DEF ExecCall, TypeOK
    <3>2. table[code] \in Seq(Hook) /\ i + 1 \in DOMAIN table[code] /\ i + 1 > i
      <4>1. table \in [Codes -> Seq(Hook)]
        BY DEF TypeOK, Hook
      <4>2. i < Len(table[code])
        BY <2>3 DEF ExecCall
      <4> QED
        BY <3>1, <4>1, <4>2
    <3>3. r \in Nat
      <4>1. table[code][i + 1] \in Hook
        BY <3>2
      <4> QED
        BY <4>1 DEF Hook
    <3>4. running' = [code |-> code, i |-> i + 1, called |-> Append(called, r)]
      <4>1. running \in [code : Codes, i : Nat, called : Seq(Nat)]
        BY <3>1 DEF TypeOK
      <4>2. running' = [running EXCEPT !.i = i + 1, !.called = Append(called, r)]
        BY <2>3 DEF ExecCall
      <4> QED
        BY <4>1, <4>2
    <3>5. /\ r <= regs
          /\ \A j \in DOMAIN called : called[j] < r /\ called[j] <= regs /\ called[j] \in Nat
          /\ \A j, k \in DOMAIN called : j < k => called[j] < called[k]
          /\ \A k \in DOMAIN table[code] : k > i + 1 => r < table[code][k].reg
      BY <3>1, <3>2 DEF CalledInv, Ordered
    <3>6. ASSUME NEW j \in DOMAIN called, NEW k \in DOMAIN table[code], k > i + 1
          PROVE  called[j] < table[code][k].reg
      <4>1. table[code] \in Seq(Hook)
        BY <3>2
      <4>2. k \in Nat
        BY <4>1
      <4>3. k > i
        BY <3>1, <3>6, <4>2
      <4> QED
        BY <3>1, <4>3 DEF CalledInv
    <3> HIDE DEF code, i, called, r
    <3>7. running' \in [code : Codes, i : Nat, called : Seq(Nat)]
      BY <3>1, <3>3, <3>4
    <3>8. /\ DOMAIN Append(called, r) = DOMAIN called \cup {Len(called) + 1}
          /\ Append(called, r)[Len(called) + 1] = r
          /\ \A j \in DOMAIN called : Append(called, r)[j] = called[j] /\ j < Len(called) + 1
      BY <3>1, <3>3
    <3>9. running'.code = code /\ running'.i = i + 1 /\ running'.called = Append(called, r)
      BY <3>4
    <3>10. CalledInv'
      <4>1. \A j \in DOMAIN running'.called : running'.called[j] <= regs'
        BY <1>1, <3>5, <3>8, <3>9
      <4>2. \A j, k \in DOMAIN running'.called : j < k => running'.called[j] < running'.called[k]
        BY <3>1, <3>5, <3>8, <3>9
      <4>3. \A j \in DOMAIN running'.called : \A k \in DOMAIN table'[running'.code] :
              k > running'.i => running'.called[j] < table'[running'.code][k].reg
        BY <1>1, <3>5, <3>8, <3>9, <3>6
      <4> QED
        BY <4>1, <4>2, <4>3 DEF CalledInv
    <3> QED
      BY <1>1, <3>7, <3>10 DEF TypeOK
  <2> QED
    BY <2>1, <2>2, <2>3
<1> QED
  BY <1>2, <1>3

LEMMA StepInv == IndInv /\ [Next]_vars => IndInv'
<1> SUFFICES ASSUME IndInv, [Next]_vars PROVE IndInv'
  OBVIOUS
<1>1. CASE UNCHANGED vars
  BY <1>1 DEF vars, IndInv, TypeOK, Ordered, CalledInv, HookedOnce, LiveIds
<1>2. ASSUME NEW c \in Codes, NEW f \in Funs, Add(c, f) PROVE IndInv'
  BY <1>2, AddInv
<1>3. ASSUME NEW id \in DOMAIN list, Delete(id) PROVE IndInv'
  BY <1>3, DeleteInv
<1>4. CASE ExecCall \/ ExecEnd \/ \E c \in Codes : ExecBegin(c)
  BY <1>4, ExecInv
<1> QED
  BY <1>1, <1>2, <1>3, <1>4 DEF Next

\* The registry keeps its types: a deletion by a stale location never drives a
\* count below zero, as the list it shortens would not be one.
THEOREM RegistryTypeCorrect == Spec => []TypeOK
<1>1. IndInv => TypeOK
  BY DEF IndInv
<1> QED
  BY <1>1, InitInv, StepInv, PTL DEF Spec

\* No function is hooked twice, and every live id has a function to delete.
THEOREM HooksAreSingle == Spec => []HookedOnce
<1>1. IndInv => HookedOnce
  BY DEF IndInv
<1> QED
  BY <1>1, InitInv, StepInv, PTL DEF Spec

\* No event calls a registration twice, whatever the called functions add and
\* delete meanwhile.
THEOREM CallsAreSingle == Spec => []CalledOnce
<1>1. IndInv => CalledOnce
  <2> SUFFICES ASSUME IndInv PROVE CalledOnce
    OBVIOUS
  <2>1. CASE running = Idle
    BY <2>1 DEF CalledOnce, Idle
  <2>2. CASE running # Idle
    <3>1. running.called \in Seq(Nat)
      BY <2>2 DEF IndInv, TypeOK
    <3>2. \A j, k \in DOMAIN running.called : j < k => running.called[j] < running.called[k]
      BY <2>2 DEF IndInv, CalledInv
    <3>3. DOMAIN running.called \subseteq Nat /\ \A j \in DOMAIN running.called : running.called[j] \in Nat
      BY <3>1
    <3>4. ASSUME NEW j \in DOMAIN running.called, NEW k \in DOMAIN running.called, j # k
          PROVE  running.called[j] # running.called[k]
      <4>1. j < k \/ k < j
        BY <3>3, <3>4
      <4> QED
        BY <3>2, <3>3, <4>1
    <3> QED
      BY <3>4 DEF CalledOnce
  <2> QED
    BY <2>1, <2>2
<1> QED
  BY <1>1, InitInv, StepInv, PTL DEF Spec

=============================================================================
