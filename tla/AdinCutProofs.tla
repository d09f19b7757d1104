---------------------------- MODULE AdinCutProofs ----------------------------
(***************************************************************************)
(* For every chunk length, margin and sequence of reads that CutAssumption *)
(* allows: swapbuf, whose size comes from the tail margin, always has room *)
(* for what a trailing silence puts aside; the cycle buffer holds the last *)
(* samples; what is passed on of a segment has no gap; a segment ends by a *)
(* silence of bounded length, and repeats no more than a bounded number of *)
(* samples of the one before.                                              *)
(*                                                                         *)
(* The first part counts.  Of the nc silent steps, none longer than a      *)
(* chunk, the first ones use up SbSize - CLength samples of the tail       *)
(* margin and the others are put aside; nc stays below NcMax while the     *)
(* segment lasts.  The second part follows the samples by their numbers:   *)
(* the buffer holds the newest ones, swapbuf the end of those already      *)
(* passed over, and what was given ends where swapbuf begins.  The last    *)
(* part bounds both counts from below, which keeps segments apart.         *)
(***************************************************************************)
EXTENDS AdinCut, SequenceTheorems, FiniteSetTheorems, TLAPS

\* What the steps of the loop range over.
SwapTypes ==
  /\ current_len \in Nat /\ i \in Nat /\ i <= current_len
  /\ purged \in Nat /\ total_captured \in Nat /\ stripped \in Nat
  /\ is_valid_data \in BOOLEAN /\ nc \in Nat /\ rest_tail \in Nat
  /\ swapbuf \in Seq(Nat)

\* A segment with NcMax silent steps is over.
SilenceShort == is_valid_data => nc < NcMax

\* The silent steps of the segment are covered by what was put aside and what
\* was taken from the tail margin.
AsideCounted ==
  is_valid_data /\ nc > 0 =>
    Len(swapbuf) + (SbSize - CLength) - rest_tail <= ChunkSize * nc

SwapInv == SwapTypes /\ SilenceShort /\ AsideCounted

-----------------------------------------------------------------------------
\* The limits that adin_setup_param computes.
LEMMA NcMaxFits ==
  /\ NcMax \in Nat /\ NcMax > 1 /\ SbSize \in Nat
  /\ ChunkSize * NcMax <= TailMargin + 2 * ChunkSize
<1> USE CutAssumption
<1> DEFINE q == TailMargin \div ChunkSize
<1>1. q \in Nat /\ ChunkSize * q <= TailMargin
  OBVIOUS
<1>2. NcMax = q + 2
  BY DEF NcMax
<1> HIDE DEF q
<1>3. ChunkSize * (q + 2) = ChunkSize * q + 2 * ChunkSize
  BY <1>1
<1> QED
  BY <1>1, <1>2, <1>3 DEF SbSize

\* A step is at most a chunk long.
LEMMA StepIsShort ==
  ASSUME current_len \in Nat
  PROVE  WStep \in Nat /\ WStep <= ChunkSize
BY CutAssumption DEF WStep

\* What is put aside is as long as the step.
LEMMA CurrentLength ==
  ASSUME SwapTypes
  PROVE  Current \in Seq(Nat) /\ Len(Current) = WStep
<1> USE CutAssumption DEF SwapTypes
<1>1. WStep \in Nat /\ Processed \in Nat
  BY StepIsShort DEF Processed
<1> DEFINE f == [k \in 1..WStep |-> Processed + k]
<1>2. f \in Seq(Nat) /\ Len(f) = WStep
  BY <1>1
<1>3. Current = f
  BY <1>1 DEF Current, Run
<1> QED
  BY <1>2, <1>3

\* The tail margin that a step uses up is covered by the step.
LEMMA Covered ==
  ASSUME NEW aside \in Int, NEW margin \in Int, NEW rest \in Int, NEW left \in Int,
         NEW covered \in Int, NEW step \in Int, NEW chunk \in Int,
         aside + margin - rest <= covered, rest - left <= step, step <= chunk
  PROVE  aside + margin - left <= covered + chunk
OBVIOUS

LEMMA SwapInit == Init => SwapInv
<1> SUFFICES ASSUME Init PROVE SwapInv
  OBVIOUS
<1>1. SwapTypes
  <2>1. current_len = 0 /\ i = 0 /\ purged = 0 /\ total_captured = 0 /\ stripped = 0
    BY DEF Init
  <2>2. is_valid_data = FALSE /\ nc = 0 /\ rest_tail = 0 /\ swapbuf = << >>
    BY DEF Init
  <2>3. swapbuf \in Seq(Nat)
    BY <2>2, EmptySeq
  <2>4. is_valid_data \in BOOLEAN /\ nc \in Nat /\ rest_tail \in Nat
    BY <2>2
  <2> QED
    BY <2>1, <2>3, <2>4 DEF SwapTypes
<1> QED
  BY <1>1 DEF Init, SwapInv, SilenceShort, AsideCounted

\* One step of the loop: the four cases are a step outside a segment, a loud
\* one, a silent one taken from the tail margin, and one put aside.
LEMMA SwapStep ==
  ASSUME SwapInv, Step
  PROVE  SwapInv'
<1> USE CutAssumption DEF SwapInv
<1>1. PICK crosses \in [1..WStep -> BOOLEAN] :
        LET hot == Count(crosses).zero_cross > NoiseZC
        IN  /\ nc' = NcAfter(hot) /\ rest_tail' = RestAfter(hot) /\ swapbuf' = SwapAfter(hot)
            /\ is_valid_data' = ((is_valid_data \/ hot) /\ ~Over(hot))
  BY DEF Step
<1> DEFINE hot == Count(crosses).zero_cross > NoiseZC
<1>2. hot \in BOOLEAN
  OBVIOUS
<1>3. /\ hot \in BOOLEAN
      /\ nc' = NcAfter(hot) /\ rest_tail' = RestAfter(hot) /\ swapbuf' = SwapAfter(hot)
      /\ is_valid_data' = ((is_valid_data \/ hot) /\ ~Over(hot))
  BY <1>1, <1>2
<1> HIDE DEF hot
<1>4. /\ i' = i + WStep /\ i + WStep <= current_len
      /\ UNCHANGED <<purged, current_len, total_captured, stripped>>
  BY DEF Step, capture
<1>5. /\ WStep \in Nat /\ WStep <= ChunkSize
      /\ Current \in Seq(Nat) /\ Len(Current) = WStep
  BY StepIsShort, CurrentLength DEF SwapTypes
<1>6. NcMax \in Nat /\ NcMax > 1 /\ SbSize \in Nat
  BY NcMaxFits
<1>7. /\ nc \in Nat /\ rest_tail \in Nat /\ swapbuf \in Seq(Nat) /\ Len(swapbuf) \in Nat
      /\ is_valid_data \in BOOLEAN
  BY DEF SwapTypes
<1>8. nc' \in Nat /\ is_valid_data' \in BOOLEAN
  BY <1>3, <1>7 DEF NcAfter
<1>9. rest_tail' \in Nat
  <2>1. RestTail(hot) \in Int
    BY <1>6, <1>7 DEF RestTail
  <2>2. Silent(hot) /\ Taken(hot) => rest_tail' \in Nat
    BY <1>3, <1>5, <2>1 DEF RestAfter
  <2>3. ~(Silent(hot) /\ Taken(hot)) => RestTail(hot) \in Nat
    BY <1>7 DEF RestTail, Taken, PutAside, Silent
  <2> QED
    BY <1>3, <2>2, <2>3 DEF RestAfter
<1>10. swapbuf' \in Seq(Nat)
  BY <1>3, <1>5, <1>7 DEF SwapAfter
<1>11. SwapTypes'
  BY <1>4, <1>5, <1>8, <1>9, <1>10 DEF SwapTypes
<1>12. SilenceShort'
  <2> SUFFICES ASSUME is_valid_data' PROVE nc' < NcMax
    BY DEF SilenceShort
  <2>1. CASE Silent(hot)
    <3>1. nc' = nc + 1 /\ ~(nc + 1 >= NcMax)
      BY <1>3, <2>1 DEF NcAfter, Over
    <3> QED
      BY <1>6, <1>7, <3>1
  <2>2. CASE ~Silent(hot)
    BY <1>3, <1>6, <1>7, <2>2 DEF NcAfter, Silent, SilenceShort
  <2> QED
    BY <2>1, <2>2
<1>13. AsideCounted'
  <2> SUFFICES ASSUME is_valid_data', nc' > 0
               PROVE  Len(swapbuf') + (SbSize - CLength) - rest_tail' <= ChunkSize * nc'
    BY DEF AsideCounted, SbSize
  <2>1. ~hot /\ is_valid_data /\ Silent(hot) /\ ~Over(hot) /\ ~Retriggers(hot)
    BY <1>3 DEF NcAfter, Silent, Retriggers
  <2>2. nc' = nc + 1 /\ ChunkSize * nc' = ChunkSize * nc + ChunkSize
    <3>1. nc' = nc + 1
      BY <1>3, <2>1 DEF NcAfter
    <3> QED
      BY <1>7, <3>1
  <2> DEFINE before == IF nc = 0 THEN << >> ELSE swapbuf
             rest   == IF nc = 0 THEN SbSize - CLength ELSE rest_tail
  <2>3. /\ RestTail(hot) = rest
        /\ swapbuf' = IF PutAside(hot) THEN before \o Current ELSE before
    BY <1>3, <2>1 DEF RestTail, SwapAfter
  <2>4. /\ rest \in Int /\ before \in Seq(Nat) /\ Len(before) \in Nat
        /\ Len(before) + (SbSize - CLength) - rest <= ChunkSize * nc
    <3>1. CASE nc = 0
      BY <1>6, <3>1
    <3>2. CASE nc # 0
      BY <1>7, <2>1, <3>2 DEF AsideCounted
    <3> QED
      BY <3>1, <3>2
  <2> HIDE DEF before, rest
  <2>5. CASE PutAside(hot)
    <3>1. rest = 0 /\ rest_tail' = rest
      BY <1>3, <2>3, <2>5 DEF PutAside, RestAfter, Taken
    <3>2. Len(swapbuf') = Len(before) + WStep
      <4>1. swapbuf' = before \o Current
        BY <2>3, <2>5
      <4>2. Len(before \o Current) = Len(before) + Len(Current)
        BY <1>5, <2>4, ConcatProperties
      <4> QED
        BY <1>5, <4>1, <4>2
    <3> QED
      BY <1>5, <1>6, <1>7, <2>2, <2>4, <3>1, <3>2
  <2>6. CASE ~PutAside(hot)
    <3>1. rest_tail' = IF rest < WStep THEN 0 ELSE rest - WStep
      BY <1>3, <2>1, <2>3, <2>6 DEF RestAfter, Taken
    <3>2. swapbuf' = before
      BY <2>3, <2>6
    <3>3. rest - rest_tail' <= WStep
      BY <1>5, <2>4, <3>1
    <3> DEFINE covered == ChunkSize * nc
    <3>4. covered \in Int /\ CLength \in Int /\ ChunkSize \in Int
      BY <1>7
    <3>5. ChunkSize * nc' = covered + ChunkSize
      BY <2>2
    <3>6. Len(before) + (SbSize - CLength) - rest <= covered
      BY <2>4
    <3> HIDE DEF covered
    <3>7. WStep \in Int /\ WStep <= ChunkSize
      BY <1>5
    <3>8. Len(before) \in Int /\ rest \in Int /\ rest_tail' \in Int /\ SbSize \in Int
      BY <1>6, <1>9, <2>4
    <3> DEFINE margin == SbSize - CLength
               aside  == Len(before)
    <3>9. margin \in Int /\ aside \in Int
      BY <3>4, <3>8
    <3>10. aside + margin - rest <= covered
      BY <3>6
    <3> HIDE DEF margin, aside
    <3>11. aside + margin - rest_tail' <= covered + ChunkSize
      BY <3>3, <3>4, <3>7, <3>8, <3>9, <3>10, Covered
    <3>12. Len(before) + (SbSize - CLength) - rest_tail' <= covered + ChunkSize
      BY <3>11 DEF margin, aside
    <3> QED
      BY <3>2, <3>5, <3>12
  <2> QED
    BY <2>5, <2>6
<1> QED
  BY <1>11, <1>12, <1>13

\* No other action touches the segment.
LEMMA SwapOthers ==
  ASSUME SwapInv,
         \/ \E cnt \in ReadSizes : \E kept \in 0..cnt : Read(cnt, kept)
         \/ \E status \in {-1, 0} : ReadEnd(status)
         \/ Purge \/ Finished \/ UNCHANGED vars
         \/ \E on \in BOOLEAN : Transfer(on)
  PROVE  SwapInv'
<1> USE CutAssumption DEF SwapInv
<1>1. UNCHANGED segment
  BY DEF Read, ReadEnd, Purge, Finished, Transfer, vars
<1>2. SilenceShort' /\ AsideCounted'
  BY <1>1 DEF SilenceShort, AsideCounted, segment, NcMax, SbSize
<1>3. SwapTypes'
  <2>1. ASSUME NEW cnt \in ReadSizes, NEW kept \in 0..cnt, Read(cnt, kept) PROVE SwapTypes'
    BY <1>1, <2>1 DEF Read, SwapTypes, segment
  <2>2. ASSUME NEW status \in {-1, 0}, ReadEnd(status) PROVE SwapTypes'
    BY <1>1, <2>2 DEF ReadEnd, SwapTypes, segment, buffer, capture
  <2>3. CASE Purge
    <3>1. current_len - i \in Nat /\ purged + i \in Nat
      BY <2>3 DEF Purge, SwapTypes, WStep
    <3> QED
      BY <1>1, <2>3, <3>1 DEF Purge, SwapTypes, segment, capture
  <2>4. ASSUME NEW on \in BOOLEAN, Transfer(on) PROVE SwapTypes'
    BY <1>1, <2>4 DEF Transfer, SwapTypes, segment, buffer, capture
  <2>5. CASE Finished \/ UNCHANGED vars
    BY <1>1, <2>5 DEF Finished, vars, SwapTypes, segment, buffer, capture
  <2> QED
    BY <2>1, <2>2, <2>3, <2>4, <2>5
<1> QED
  BY <1>2, <1>3

LEMMA SwapNext == SwapInv /\ [Next]_vars => SwapInv'
<1> SUFFICES ASSUME SwapInv, [Next]_vars PROVE SwapInv'
  OBVIOUS
<1>1. CASE Step
  BY <1>1, SwapStep
<1>2. CASE ~Step
  BY <1>2, SwapOthers DEF Next
<1> QED
  BY <1>1, <1>2

\* What is put aside fits because the segment is not over yet.
LEMMA SwapSuffices == SwapInv => SwapFits
<1> USE CutAssumption DEF SwapInv
<1> SUFFICES ASSUME SwapInv, pc = "step", PutAside(FALSE)
             PROVE  (IF nc = 0 THEN 0 ELSE Len(swapbuf)) + WStep <= SbSize
  BY DEF SwapFits
<1>1. WStep \in Nat /\ WStep <= ChunkSize
  BY StepIsShort DEF SwapTypes
<1>2. is_valid_data /\ nc \in Nat /\ nc < NcMax /\ Len(swapbuf) \in Nat
  BY DEF PutAside, Silent, SwapTypes, SilenceShort
<1>3. CASE nc = 0
  BY <1>1, <1>3, NcMaxFits DEF PutAside, RestTail, Silent
<1>4. CASE nc # 0
  <2>1. rest_tail = 0
    BY <1>4 DEF PutAside, RestTail
  <2>2. Len(swapbuf) + (SbSize - CLength) <= ChunkSize * nc
    BY <1>2, <1>4, <2>1, NcMaxFits DEF AsideCounted
  <2>3. ChunkSize * nc + ChunkSize <= ChunkSize * NcMax
    <3>1. ChunkSize * (nc + 1) <= ChunkSize * NcMax
      BY <1>2, NcMaxFits
    <3> QED
      BY <1>2, <3>1
  <2>4. Len(swapbuf) + WStep <= TailMargin + 2 * ChunkSize - (SbSize - CLength)
    BY <1>1, <1>2, <2>2, <2>3, NcMaxFits
  <2> QED
    BY <1>1, <1>2, <1>4, <2>4 DEF SbSize
<1> QED
  BY <1>3, <1>4

\* The swap buffer, whose length comes from the tail margin alone, is never
\* outgrown, for all margins and chunk lengths that CutAssumption admits and
\* however the device cuts the samples into fragments (adin-cut.c:754-766).
THEOREM SwapHasRoom == Spec => []SwapFits
<1>1. SwapInv => SwapFits
  BY SwapSuffices
<1> QED
  BY <1>1, SwapInit, SwapNext, PTL DEF Spec

-----------------------------------------------------------------------------
(* Sequences of consecutive samples.                                       *)

\* The last n samples up to sample e.
Until(e, n) == Run(e - n + 1, e)

LEMMA UntilIs ==
  ASSUME NEW e \in Int, NEW n \in Nat
  PROVE  /\ Until(e, n) = [k \in 1..n |-> e - n + k]
         /\ Until(e, n) \in Seq(Int) /\ Len(Until(e, n)) = n
<1>1. Until(e, n) = [k \in 1..n |-> e - n + k]
  <2>1. (IF e < e - n + 1 THEN 0 ELSE e - (e - n + 1) + 1) = n
    OBVIOUS
  <2>2. Until(e, n) = [k \in 1..n |-> (e - n + 1) + k - 1]
    BY <2>1 DEF Until, Run
  <2> QED
    BY <2>2
<1>2. [k \in 1..n |-> e - n + k] \in Seq(Int) /\ Len([k \in 1..n |-> e - n + k]) = n
  OBVIOUS
<1> QED
  BY <1>1, <1>2

\* A sequence of consecutive samples is continued by the next ones.
LEMMA UntilJoins ==
  ASSUME NEW e \in Int, NEW n \in Nat, NEW m \in Nat
  PROVE  Until(e, n) \o Until(e + m, m) = Until(e + m, n + m)
<1> DEFINE a == Until(e, n)
           b == Until(e + m, m)
           c == Until(e + m, n + m)
<1>1. /\ a = [k \in 1..n |-> e - n + k] /\ a \in Seq(Int) /\ Len(a) = n
      /\ b = [k \in 1..m |-> e + m - m + k] /\ b \in Seq(Int) /\ Len(b) = m
      /\ c = [k \in 1..n + m |-> e + m - (n + m) + k] /\ c \in Seq(Int) /\ Len(c) = n + m
  <2>1. e + m \in Int /\ n + m \in Nat
    OBVIOUS
  <2>2. a = [k \in 1..n |-> e - n + k] /\ a \in Seq(Int) /\ Len(a) = n
    BY UntilIs
  <2>3. b = [k \in 1..m |-> e + m - m + k] /\ b \in Seq(Int) /\ Len(b) = m
    BY <2>1, UntilIs, SMTT(30)
  <2>4. c = [k \in 1..n + m |-> e + m - (n + m) + k] /\ c \in Seq(Int) /\ Len(c) = n + m
    <3>1. \A x \in Int, l \in Nat : /\ Until(x, l) = [k \in 1..l |-> x - l + k]
                                  /\ Until(x, l) \in Seq(Int) /\ Len(Until(x, l)) = l
      BY UntilIs
    <3>2. PICK x \in Int : x = e + m
      BY <2>1
    <3>3. PICK l \in Nat : l = n + m
      BY <2>1
    <3>4. c = Until(x, l)
      BY <3>2, <3>3
    <3> HIDE DEF c
    <3>5. c = [k \in 1..l |-> x - l + k] /\ c \in Seq(Int) /\ Len(c) = l
      BY <3>1, <3>4
    <3> QED
      BY <3>2, <3>3, <3>5
  <2> QED
    BY <2>2, <2>3, <2>4
<1> HIDE DEF a, b, c
<1>2. /\ a \o b \in Seq(Int) /\ Len(a \o b) = n + m
      /\ \A k \in 1..n + m : (a \o b)[k] = IF k <= n THEN a[k] ELSE b[k - n]
  BY <1>1, ConcatProperties
<1>3. \A k \in 1..n + m : (a \o b)[k] = c[k]
  BY <1>1, <1>2
<1>4. a \o b = c
  BY <1>1, <1>2, <1>3, SeqEqual
<1> QED
  BY <1>4 DEF a, b, c

LEMMA UntilType ==
  ASSUME NEW n \in Nat, NEW e \in Nat, NEW max \in Nat, n <= e, e <= max
  PROVE  Until(e, n) \in Seq(1..max)
<1>1. Until(e, n) = [k \in 1..n |-> e - n + k]
  BY UntilIs
<1>2. \A k \in 1..n : e - n + k \in 1..max
  OBVIOUS
<1> QED
  BY <1>1, <1>2

LEMMA UntilPrefix ==
  ASSUME NEW e \in Int, NEW n \in Nat, NEW m \in 0..n
  PROVE  SubSeq(Until(e, n), 1, n - m) = Until(e - m, n - m)
<1>1. /\ Until(e, n) = [k \in 1..n |-> e - n + k]
      /\ Until(e - m, n - m) = [k \in 1..n - m |-> e - m - (n - m) + k]
  <2>1. e - m \in Int /\ n - m \in Nat /\ n \in Nat
    OBVIOUS
  <2> QED
    BY <2>1, UntilIs
<1>2. SubSeq(Until(e, n), 1, n - m) = [k \in 1..n - m |-> e - n + k]
  <2>1. \A k \in 1..n - m : k \in 1..n
    OBVIOUS
  <2>2. SubSeq(Until(e, n), 1, n - m) = [k \in 1..n - m |-> Until(e, n)[k]]
    OBVIOUS
  <2> QED
    BY <1>1, <2>1, <2>2
<1> QED
  BY <1>1, <1>2

\* The step consists of the samples after those processed.
LEMMA CurrentIs ==
  ASSUME Processed \in Nat, WStep \in Nat
  PROVE  Current = Until(Processed + WStep, WStep)
<1>1. Processed + WStep - WStep + 1 = Processed + 1
  OBVIOUS
<1> QED
  BY <1>1 DEF Current, Until

-----------------------------------------------------------------------------
(* The cycle buffer.                                                       *)

Slots == 0..CLength - 1

\* Buffer z after p samples.  Slot s holds the newest sample that went there:
\* those below the top have been written since the last wrap, the others one
\* wrap before.
CycleAt(z, p) ==
  /\ z.data \in [Slots -> Int] /\ z.is_zc \in [Slots -> BOOLEAN]
  /\ z.top \in Slots /\ z.valid_len \in 0..CLength /\ z.valid_len <= p
  /\ z.valid_len < CLength => z.top = z.valid_len
  /\ \A s \in Slots : s < z.top => z.data[s] = p - z.top + s + 1
  /\ z.valid_len = CLength =>
       \A s \in Slots : s >= z.top => z.data[s] = p - z.top - CLength + s + 1
  /\ z.zero_cross = Cardinality({s \in Slots : z.is_zc[s]})

Cycle == [data |-> data, is_zc |-> is_zc, top |-> top, valid_len |-> valid_len,
          zero_cross |-> zero_cross]

CycleInv == CycleAt(Cycle, Processed)

\* The slot of sample k of the step.
Slot(k) == (top + k - 1) % CLength
NewSlots == {Slot(k) : k \in 1..WStep}

\* Slots in the order of the samples: up to the end of the buffer, then on from
\* its beginning; no two samples of a step share one.
LEMMA SlotIs ==
  ASSUME top \in Slots, WStep \in Nat, WStep <= CLength, NEW k \in 1..WStep
  PROVE  /\ Slot(k) = IF top + k - 1 < CLength THEN top + k - 1 ELSE top + k - 1 - CLength
         /\ Slot(k) \in Slots
<1> USE CutAssumption DEF Slots
<1> DEFINE a == top + k - 1
<1>1. a \in Nat /\ a < 2 * CLength /\ CLength \in Nat /\ CLength > 0
  OBVIOUS
<1>2. a % CLength = IF a < CLength THEN a ELSE a - CLength
  <2> HIDE DEF a
  <2>1. CASE a < CLength
    BY <1>1, <2>1
  <2>2. CASE a >= CLength
    BY <1>1, <2>2
  <2> QED
    BY <1>1, <2>1, <2>2
<1> QED
  BY <1>1, <1>2 DEF Slot

LEMMA SlotOnce ==
  ASSUME top \in Slots, WStep \in Nat, WStep <= CLength,
         NEW k \in 1..WStep, NEW l \in 1..WStep, Slot(k) = Slot(l)
  PROVE  k = l
<1> DEFINE InSlot(a) == IF a < CLength THEN a ELSE a - CLength
<1>1. CLength \in Nat /\ top \in Nat /\ k \in 1..CLength /\ l \in 1..CLength
  BY CutAssumption DEF Slots
<1>2. Slot(k) = IF top + k - 1 < CLength THEN top + k - 1 ELSE top + k - 1 - CLength
  BY SlotIs
<1>3. Slot(l) = IF top + l - 1 < CLength THEN top + l - 1 ELSE top + l - 1 - CLength
  BY SlotIs
<1>4. InSlot(top + k - 1) = InSlot(top + l - 1)
  <2>1. Slot(k) = InSlot(top + k - 1)
    BY <1>1, <1>2
  <2>2. Slot(l) = InSlot(top + l - 1)
    BY <1>1, <1>3
  <2> HIDE DEF InSlot
  <2> QED
    BY <2>1, <2>2
<1> QED
  BY <1>1, <1>4

\* Which slots a step writes, and with what.
LEMMA NewSlotsAre ==
  ASSUME top \in Slots, WStep \in Nat, WStep <= CLength, NEW s \in Slots
  PROVE  /\ s \in NewSlots <=> (s >= top /\ s < top + WStep) \/ s + CLength < top + WStep
         /\ s \in NewSlots =>
              (CHOOSE k \in 1..WStep : Slot(k) = s) =
                IF s >= top THEN s - top + 1 ELSE s + CLength - top + 1
<1> USE CutAssumption DEF Slots
<1> DEFINE k == IF s >= top THEN s - top + 1 ELSE s + CLength - top + 1
           new == (s >= top /\ s < top + WStep) \/ s + CLength < top + WStep
<1>1. ASSUME new PROVE k \in 1..WStep /\ Slot(k) = s
  <2>1. k \in 1..WStep
    BY <1>1
  <2>2. Slot(k) = IF top + k - 1 < CLength THEN top + k - 1 ELSE top + k - 1 - CLength
    BY <2>1, SlotIs
  <2> QED
    BY <1>1, <2>1, <2>2
<1>2. ASSUME s \in NewSlots PROVE new
  <2>1. PICK l \in 1..WStep : s = Slot(l)
    BY <1>2 DEF NewSlots
  <2>2. Slot(l) = IF top + l - 1 < CLength THEN top + l - 1 ELSE top + l - 1 - CLength
    BY SlotIs
  <2> QED
    BY <2>1, <2>2
<1>3. s \in NewSlots <=> new
  BY <1>1, <1>2 DEF NewSlots
<1>4. ASSUME s \in NewSlots PROVE (CHOOSE l \in 1..WStep : Slot(l) = s) = k
  <2>1. k \in 1..WStep /\ Slot(k) = s
    BY <1>1, <1>3, <1>4
  <2> HIDE DEF k
  <2> DEFINE c == CHOOSE l \in 1..WStep : Slot(l) = s
  <2>2. c \in 1..WStep /\ Slot(c) = s
    BY <2>1
  <2> HIDE DEF c
  <2>3. c = k
    BY <2>1, <2>2, SlotOnce
  <2> QED
    BY <2>3 DEF c
<1> QED
  BY <1>3, <1>4

\* A step leaves the buffer with its samples in place.
LEMMA CountPlaces ==
  ASSUME CycleInv, Processed \in Nat, WStep \in Nat, WStep <= CLength,
         NEW crosses \in [1..WStep -> BOOLEAN]
  PROVE  LET z == Count(crosses)
             p == Processed + WStep
         IN  /\ z.data \in [Slots -> Int] /\ z.is_zc \in [Slots -> BOOLEAN]
             /\ z.top \in Slots /\ z.valid_len \in 0..CLength
             /\ WStep <= z.valid_len /\ z.valid_len <= p
             /\ z.valid_len < CLength => z.top = z.valid_len
             /\ \A s \in Slots : s < z.top => z.data[s] = p - z.top + s + 1
             /\ z.valid_len = CLength =>
                  \A s \in Slots : s >= z.top => z.data[s] = p - z.top - CLength + s + 1
<1> DEFINE z == Count(crosses)
           p == Processed + WStep
<1> USE CutAssumption
<1>1. /\ top \in Slots /\ valid_len \in 0..CLength /\ valid_len <= Processed
      /\ data \in [Slots -> Int] /\ is_zc \in [Slots -> BOOLEAN]
      /\ CLength \in Nat /\ CLength > 0 /\ Processed \in Nat /\ WStep \in Nat
      /\ top \in Nat /\ top < CLength
  BY DEF CycleInv, CycleAt, Cycle, Slots
<1>2. /\ z.top = (top + WStep) % CLength
      /\ z.valid_len = IF top + WStep > CLength THEN CLength
                       ELSE IF top + WStep > valid_len THEN top + WStep ELSE valid_len
  BY DEF Count
<1>3. z.top = IF top + WStep < CLength THEN top + WStep ELSE top + WStep - CLength
  <2> DEFINE a == top + WStep
  <2>1. a \in Nat /\ a < 2 * CLength
    BY <1>1
  <2>3. z.top = a % CLength
    BY <1>2
  <2> HIDE DEF a, z
  <2>2. a % CLength = IF a < CLength THEN a ELSE a - CLength
    <3>1. CASE a < CLength
      BY <1>1, <2>1, <3>1
    <3>2. CASE a >= CLength
      BY <1>1, <2>1, <3>2
    <3> QED
      BY <1>1, <2>1, <3>1, <3>2
  <2>4. z.top = IF a < CLength THEN a ELSE a - CLength
    BY <2>2, <2>3
  <2> QED
    BY <1>1, <2>4 DEF a
<1>4. z.data = [s \in Slots |-> IF s \in NewSlots
                                 THEN Processed + CHOOSE k \in 1..WStep : Slot(k) = s
                                 ELSE data[s]]
  <2>1. DOMAIN data = Slots
    BY <1>1
  <2> QED
    BY <2>1 DEF Count, NewSlots, Slot
<1>5. ASSUME NEW s \in Slots
      PROVE  z.data[s] = IF s >= top /\ s < top + WStep THEN Processed + s - top + 1
                         ELSE IF s + CLength < top + WStep THEN Processed + s + CLength - top + 1
                         ELSE data[s]
  <2> DEFINE k == CHOOSE k \in 1..WStep : Slot(k) = s
             new == (s >= top /\ s < top + WStep) \/ s + CLength < top + WStep
  <2>1. /\ s \in NewSlots <=> new
        /\ s \in NewSlots => k = IF s >= top THEN s - top + 1 ELSE s + CLength - top + 1
    BY <1>1, NewSlotsAre
  <2>2. z.data[s] = IF s \in NewSlots THEN Processed + k ELSE data[s]
    BY <1>4, <1>5
  <2> HIDE DEF k, z
  <2>3. s \in Nat /\ s < CLength
    BY <1>1, <1>5 DEF Slots
  <2>4. CASE s >= top /\ s < top + WStep
    BY <1>1, <2>1, <2>2, <2>3, <2>4
  <2>5. CASE ~(s >= top /\ s < top + WStep) /\ s + CLength < top + WStep
    BY <1>1, <2>1, <2>2, <2>3, <2>5
  <2>6. CASE ~new
    BY <2>1, <2>2, <2>6
  <2> QED
    BY <2>4, <2>5, <2>6
<1> HIDE DEF z
<1>6. z.top \in Slots /\ z.top \in Nat /\ z.top < CLength
  BY <1>1, <1>3 DEF Slots
<1>7. z.valid_len \in 0..CLength /\ WStep <= z.valid_len
  BY <1>1, <1>2
<1>8. z.valid_len <= p
  <2>1. valid_len < CLength => top = valid_len
    BY DEF CycleInv, CycleAt, Cycle
  <2>2. top <= Processed
    BY <1>1, <2>1
  <2> QED
    BY <1>1, <1>2, <2>1, <2>2
<1>9. z.valid_len < CLength => z.top = z.valid_len
  <2>1. valid_len < CLength => top = valid_len
    BY DEF CycleInv, CycleAt, Cycle
  <2> QED
    BY <1>1, <1>2, <1>3, <2>1, SMTT(30)
<1>10. ASSUME NEW s \in Slots, s < z.top PROVE z.data[s] = p - z.top + s + 1
  <2>1. s < top => data[s] = Processed - top + s + 1
    BY DEF CycleInv, CycleAt, Cycle
  <2>2. s \in Nat /\ s < CLength
    BY <1>1 DEF Slots
  <2>3. CASE top + WStep < CLength
    <3>1. z.top = top + WStep /\ p - z.top = Processed - top
      BY <1>1, <1>3, <2>3
    <3>2. z.data[s] = Processed - top + s + 1
      <4>1. CASE s < top
        BY <1>1, <1>5, <2>1, <2>2, <2>3, <4>1
      <4>2. CASE s >= top
        <5>1. z.data[s] = Processed + s - top + 1
          BY <1>1, <1>5, <1>10, <2>2, <3>1, <4>2
        <5> QED
          BY <1>1, <2>2, <5>1
      <4> QED
        BY <1>1, <2>2, <4>1, <4>2
    <3> QED
      BY <3>1, <3>2
  <2>4. CASE top + WStep >= CLength
    <3>1. z.top = top + WStep - CLength /\ p - z.top = Processed - top + CLength
      BY <1>1, <1>3, <2>4
    <3>2. z.data[s] = Processed + s + CLength - top + 1
      BY <1>1, <1>5, <1>10, <2>2, <2>4, <3>1
    <3> QED
      BY <1>1, <2>2, <3>1, <3>2
  <2> QED
    BY <1>1, <2>3, <2>4
<1>11. ASSUME z.valid_len = CLength, NEW s \in Slots, s >= z.top
       PROVE  z.data[s] = p - z.top - CLength + s + 1
  <2>1. s < top => data[s] = Processed - top + s + 1
    BY DEF CycleInv, CycleAt, Cycle
  <2>2. valid_len = CLength => (s >= top => data[s] = Processed - top - CLength + s + 1)
    BY DEF CycleInv, CycleAt, Cycle
  <2>3. s \in Nat /\ s < CLength
    BY <1>1 DEF Slots
  <2>4. CASE top + WStep < CLength
    <3>1. valid_len = CLength /\ z.top = top + WStep
      BY <1>1, <1>2, <1>3, <1>11, <2>4
    <3>2. s >= top /\ ~(s < top + WStep) /\ ~(s + CLength < top + WStep)
      BY <1>1, <1>11, <2>3, <2>4, <3>1
    <3>3. z.data[s] = Processed - top - CLength + s + 1
      BY <1>5, <2>2, <3>1, <3>2
    <3>4. p - z.top = Processed - top
      BY <1>1, <3>1
    <3> QED
      BY <3>3, <3>4
  <2>5. CASE top + WStep >= CLength
    <3>1. z.top = top + WStep - CLength
      BY <1>1, <1>3, <2>5
    <3> QED
      BY <1>1, <1>5, <1>11, <2>1, <2>3, <2>5, <3>1
  <2> QED
    BY <1>1, <2>4, <2>5
<1>12. z.is_zc \in [Slots -> BOOLEAN]
  <2>1. DOMAIN is_zc = Slots
    BY <1>1
  <2>2. z.is_zc = [s \in Slots |-> IF s \in NewSlots THEN \E k \in {l \in 1..WStep : crosses[l]} : Slot(k) = s
                                   ELSE is_zc[s]]
    BY <2>1 DEF Count, NewSlots, Slot, z
  <2>3. \A s \in Slots : is_zc[s] \in BOOLEAN
    BY <1>1
  <2> QED
    BY <2>2, <2>3
<1>13. z.data \in [Slots -> Int]
  <2>1. \A s \in Slots : z.data[s] \in Int
    <3> SUFFICES ASSUME NEW s \in Slots PROVE z.data[s] \in Int
      OBVIOUS
    <3>1. s \in Nat /\ data[s] \in Int
      BY <1>1 DEF Slots
    <3> QED
      BY <1>1, <1>5, <3>1
  <2>2. z.data = [s \in Slots |-> z.data[s]]
    BY <1>4
  <2> QED
    BY <2>1, <2>2
<1> QED
  BY <1>6, <1>7, <1>8, <1>9, <1>10, <1>11, <1>12, <1>13 DEF z

\* The count of zero crossings stays the number of those in the buffer.
LEMMA CountCrossings ==
  ASSUME CycleInv, WStep \in Nat, WStep <= CLength, NEW crosses \in [1..WStep -> BOOLEAN]
  PROVE  LET z == Count(crosses)
         IN  z.zero_cross = Cardinality({s \in Slots : z.is_zc[s]})
<1> DEFINE z   == Count(crosses)
           old == {s \in Slots : is_zc[s]}
           set == {k \in 1..WStep : crosses[k]}
           in  == {Slot(k) : k \in set}
           out == {s \in NewSlots : is_zc[s]}
<1>1. /\ top \in Slots /\ is_zc \in [Slots -> BOOLEAN] /\ DOMAIN is_zc = Slots
      /\ zero_cross = Cardinality(old)
  BY DEF CycleInv, CycleAt, Cycle
<1>2. z.zero_cross = zero_cross + Cardinality(set) - Cardinality(out)
  BY DEF Count, NewSlots, Slot
<1>3. z.is_zc = [s \in Slots |-> IF s \in NewSlots THEN \E k \in set : Slot(k) = s ELSE is_zc[s]]
  BY <1>1 DEF Count, NewSlots, Slot
<1>4. NewSlots \subseteq Slots
  BY <1>1, SlotIs DEF NewSlots
<1>5. in \subseteq NewSlots /\ out \subseteq old
  BY <1>4 DEF NewSlots
<1>6. {s \in Slots : z.is_zc[s]} = (old \ out) \cup in
  <2> HIDE DEF z
  <2>1. \A s \in Slots : z.is_zc[s] <=> s \in (old \ out) \cup in
    <3> SUFFICES ASSUME NEW s \in Slots PROVE z.is_zc[s] <=> s \in (old \ out) \cup in
      OBVIOUS
    <3>1. CASE s \in NewSlots
      <4>1. z.is_zc[s] <=> s \in in
        BY <1>3, <3>1
      <4>2. s \notin old \ out
        BY <3>1
      <4> QED
        BY <4>1, <4>2
    <3>2. CASE s \notin NewSlots
      <4>1. z.is_zc[s] <=> s \in old
        BY <1>3, <3>2
      <4>2. s \notin in /\ s \notin out
        BY <1>5, <3>2
      <4> QED
        BY <4>1, <4>2
    <3> QED
      BY <3>1, <3>2
  <2>2. (old \ out) \cup in \subseteq Slots
    BY <1>4, <1>5
  <2> HIDE DEF old, in, out
  <2> QED
    BY <2>1, <2>2
<1> HIDE DEF z
<1>7. IsFiniteSet(old) /\ IsFiniteSet(set) /\ IsFiniteSet(out)
  <2>1. IsFiniteSet(Slots) /\ IsFiniteSet(1..WStep)
    BY CutAssumption, FS_Interval DEF Slots
  <2>2. old \in SUBSET Slots /\ set \in SUBSET (1..WStep) /\ out \in SUBSET old
    BY <1>5
  <2> HIDE DEF old, set, out
  <2>3. IsFiniteSet(old) /\ IsFiniteSet(set)
    BY <2>1, <2>2, FS_Subset
  <2> QED
    BY <2>2, <2>3, FS_Subset
<1>8. IsFiniteSet(in) /\ Cardinality(in) = Cardinality(set)
  <2> DEFINE f == [k \in set |-> Slot(k)]
  <2>1. f \in [set -> in]
    OBVIOUS
  <2>2. \A k, l \in set : f[k] = f[l] => k = l
    BY <1>1, SlotOnce
  <2>3. \A s \in in : \E k \in set : f[k] = s
    OBVIOUS
  <2> HIDE DEF f, in, set
  <2>4. f \in Bijection(set, in)
    <3>1. f \in Injection(set, in)
      BY <2>1, <2>2 DEF Injection, IsInjective
    <3>2. f \in Surjection(set, in)
      BY <2>1, <2>3 DEF Surjection
    <3> QED
      BY <3>1, <3>2 DEF Bijection
  <2>5. ExistsBijection(set, in)
    BY <2>4 DEF ExistsBijection
  <2> QED
    BY <1>7, <2>5, FS_Bijection
<1>9. (old \ out) \cap in = {}
  BY <1>5
<1> HIDE DEF old, set, in, out
<1>10. IsFiniteSet(old \ out) /\ Cardinality(old \ out) = Cardinality(old) - Cardinality(out)
  <2>1. /\ IsFiniteSet(old \ out)
        /\ Cardinality(old \ out) = Cardinality(old) - Cardinality(old \cap out)
    BY <1>7, FS_Difference
  <2>2. old \cap out = out
    BY <1>5
  <2> QED
    BY <2>1, <2>2
<1>11. Cardinality((old \ out) \cup in) = Cardinality(old \ out) + Cardinality(in)
  <2>1. Cardinality((old \ out) \cup in)
          = Cardinality(old \ out) + Cardinality(in) - Cardinality((old \ out) \cap in)
    BY <1>8, <1>10, FS_Union
  <2>2. Cardinality((old \ out) \cap in) = 0
    BY <1>9, FS_EmptySet
  <2>3. Cardinality(old \ out) \in Nat /\ Cardinality(in) \in Nat
    BY <1>8, <1>10, FS_CardinalityType
  <2> QED
    BY <2>1, <2>2, <2>3
<1>12. Cardinality(old) \in Nat /\ Cardinality(out) \in Nat /\ Cardinality(set) \in Nat
  BY <1>7, FS_CardinalityType
<1>13. z.zero_cross = Cardinality((old \ out) \cup in)
  BY <1>1, <1>2, <1>8, <1>10, <1>11, <1>12
<1> QED
  BY <1>6, <1>13 DEF z

\* What a step makes of the buffer.
LEMMA CountKeeps ==
  ASSUME CycleInv, Processed \in Nat, WStep \in Nat, WStep <= CLength,
         NEW crosses \in [1..WStep -> BOOLEAN]
  PROVE  LET z == Count(crosses)
         IN  CycleAt(z, Processed + WStep) /\ WStep <= z.valid_len
<1> DEFINE z == Count(crosses)
           p == Processed + WStep
<1>1. /\ z.data \in [Slots -> Int] /\ z.is_zc \in [Slots -> BOOLEAN]
      /\ z.top \in Slots /\ z.valid_len \in 0..CLength
      /\ WStep <= z.valid_len /\ z.valid_len <= p
      /\ z.valid_len < CLength => z.top = z.valid_len
      /\ \A s \in Slots : s < z.top => z.data[s] = p - z.top + s + 1
      /\ z.valid_len = CLength =>
           \A s \in Slots : s >= z.top => z.data[s] = p - z.top - CLength + s + 1
  BY CountPlaces
<1>2. z.zero_cross = Cardinality({s \in Slots : z.is_zc[s]})
  BY CountCrossings
<1> HIDE DEF z, p
<1>3. CycleAt(z, p) /\ WStep <= z.valid_len
  BY <1>1, <1>2 DEF CycleAt
<1> QED
  BY <1>3 DEF z, p

\* The copy is in the order of the samples, wherever the buffer has wrapped.
LEMMA CopyIs ==
  ASSUME NEW z, NEW p \in Nat, CycleAt(z, p)
  PROVE  Copy(z) = Until(p, z.valid_len)
<1> USE CutAssumption
<1>1. /\ z.top \in Nat /\ z.top < CLength /\ z.valid_len \in Nat /\ z.valid_len <= CLength
      /\ CLength \in Nat /\ CLength > 0
  BY DEF CycleAt, Slots
<1> DEFINE first == IF z.valid_len < CLength THEN 0 ELSE z.top
<1>2. Copy(z) = [k \in 1..z.valid_len |-> z.data[(first + k - 1) % CLength]]
  BY DEF Copy
<1>3. Until(p, z.valid_len) = [k \in 1..z.valid_len |-> p - z.valid_len + k]
  <2> DEFINE n == z.valid_len
  <2>1. n \in Nat
    BY <1>1
  <2> HIDE DEF n
  <2>2. Until(p, n) = [k \in 1..n |-> p - n + k]
    BY <2>1, UntilIs
  <2> QED
    BY <2>2 DEF n
<1>4. ASSUME NEW k \in 1..z.valid_len
      PROVE  z.data[(first + k - 1) % CLength] = p - z.valid_len + k
  <2> DEFINE a == first + k - 1
  <2>1. k \in Nat /\ k >= 1 /\ k <= z.valid_len /\ a \in Nat /\ a < 2 * CLength
    BY <1>1
  <2>2. CASE z.valid_len < CLength
    <3>1. a = k - 1 /\ a < CLength /\ z.top = z.valid_len
      BY <1>1, <2>1, <2>2 DEF CycleAt
    <3>2. a % CLength = a
      <4> HIDE DEF a
      <4> QED
        BY <1>1, <2>1, <3>1
    <3>3. a \in Slots /\ a < z.top
      BY <1>1, <2>1, <3>1 DEF Slots
    <3>4. z.data[a] = p - z.top + a + 1
      BY <3>3 DEF CycleAt
    <3>5. z.data[a] = p - z.valid_len + k
      BY <1>1, <2>1, <3>1, <3>4
    <3> QED
      BY <3>2, <3>5
  <2>3. CASE z.valid_len = CLength
    <3>1. a = z.top + k - 1
      BY <2>3
    <3>2. CASE a < CLength
      <4>1. a % CLength = a
        <5> HIDE DEF a
        <5> QED
          BY <1>1, <2>1, <3>2
      <4>2. a \in Slots /\ a >= z.top
        BY <1>1, <2>1, <3>1, <3>2 DEF Slots
      <4>3. z.data[a] = p - z.top - CLength + a + 1
        BY <2>3, <4>2 DEF CycleAt
      <4>4. z.data[a] = p - z.valid_len + k
        BY <1>1, <2>1, <2>3, <3>1, <4>3
      <4> QED
        BY <4>1, <4>4
    <3>3. CASE a >= CLength
      <4> DEFINE b == a - CLength
      <4>1. a % CLength = b
        <5> HIDE DEF a
        <5> QED
          BY <1>1, <2>1, <3>3
      <4>2. b \in Slots /\ b < z.top
        BY <1>1, <2>1, <2>3, <3>1, <3>3 DEF Slots
      <4>3. z.data[b] = p - z.top + b + 1
        BY <4>2 DEF CycleAt
      <4>4. b = z.top + k - 1 - CLength
        BY <1>1, <2>1, <3>1
      <4> HIDE DEF b
      <4>5. z.data[b] = p - z.valid_len + k
        BY <1>1, <2>1, <2>3, <4>3, <4>4
      <4> QED
        BY <4>1, <4>5
    <3> QED
      BY <1>1, <2>1, <3>2, <3>3
  <2> QED
    BY <1>1, <2>2, <2>3
<1> HIDE DEF first
<1> QED
  BY <1>2, <1>3, <1>4

-----------------------------------------------------------------------------
(* What is handed over.                                                    *)

\* s is a run of samples without a gap, and e is the last one.
EndsAt(s, e) == Len(s) \in Nat /\ Len(s) <= e /\ s = Until(e, Len(s))

\* Two runs of samples, the second where the first ends.
LEMMA UntilContinues ==
  ASSUME NEW e \in Nat, NEW m \in Nat, NEW x \in Nat, x = e + m,
         NEW s, NEW t, EndsAt(s, e), EndsAt(t, x), Len(t) = m
  PROVE  EndsAt(s \o t, x) /\ Len(s \o t) = Len(s) + m
<1> DEFINE n == Len(s)
<1>0. n \in Nat /\ n <= e /\ s = Until(e, n) /\ t = Until(x, m)
  BY DEF EndsAt
<1> HIDE DEF n
<1>1. s \o t = Until(x, n + m)
  <2>1. e \in Int
    OBVIOUS
  <2>2. Until(e, n) \o Until(e + m, m) = Until(e + m, n + m)
    BY <1>0, <2>1, UntilJoins, Zenon
  <2> QED
    BY <1>0, <2>2
<1>2. Len(Until(x, n + m)) = n + m
  <2> DEFINE y == n + m
  <2>1. x \in Int /\ y \in Nat
    BY <1>0
  <2> HIDE DEF y
  <2>2. Len(Until(x, y)) = y
    BY <2>1, UntilIs
  <2> QED
    BY <2>2 DEF y
<1>3. Len(s \o t) = n + m
  BY <1>1, <1>2
<1>4. n + m \in Nat /\ n + m <= x
  BY <1>0
<1>5. EndsAt(s \o t, x)
  BY <1>1, <1>3, <1>4 DEF EndsAt
<1> QED
  BY <1>3, <1>5 DEF n

\* A run of samples, and the empty one.
LEMMA UntilEnds ==
  ASSUME NEW e \in Nat, NEW n \in Nat, n <= e
  PROVE  EndsAt(Until(e, n), e) /\ Len(Until(e, n)) = n /\ EndsAt(<< >>, e)
<1>1. Len(Until(e, n)) = n /\ Until(e, 0) = << >>
  BY UntilIs
<1> QED
  BY <1>1 DEF EndsAt

\* Where the samples read so far are.
CaptureInv ==
  /\ stripped <= MaxStrip /\ total_captured <= MaxSamples
  /\ purged + current_len + stripped = total_captured

\* swapbuf holds the newest samples of a trailing silence that has used up the
\* tail margin; before it has, nothing.
AsideInv ==
  is_valid_data /\ nc > 0 =>
    /\ rest_tail > 0 => swapbuf = << >>
    /\ EndsAt(swapbuf, Processed)

\* What was given ends where that begins.
GivenInv ==
  is_valid_data => Pending <= Processed /\ EndsAt(given, Processed - Pending)

SampleTypes ==
  /\ swapbuf \in Seq(1..MaxSamples) /\ given \in Seq(1..MaxSamples)
  /\ handed \in 0..MaxSamples

HandInv == SwapInv /\ CaptureInv /\ CycleInv /\ SampleTypes /\ AsideInv /\ GivenInv

\* The step that leaves the buffer as z, hot or not.
StepBy(z, hot) ==
  /\ data' = z.data /\ is_zc' = z.is_zc /\ top' = z.top
  /\ valid_len' = z.valid_len /\ zero_cross' = z.zero_cross
  /\ nc' = NcAfter(hot) /\ rest_tail' = RestAfter(hot) /\ swapbuf' = SwapAfter(hot)
  /\ is_valid_data' = ((is_valid_data \/ hot) /\ ~Over(hot))
  /\ last_trigger_len' = SpanAfter(z, hot)
  /\ last_trigger_sample' = IF hot /\ ~is_valid_data
       THEN total_captured - current_len + i + WStep - z.valid_len
       ELSE last_trigger_sample
  /\ IF Over(hot) THEN transfer_online' = FALSE /\ local' = FALSE
     ELSE UNCHANGED <<transfer_online, local>>
  /\ Record(z, hot)

LEMMA StepIs ==
  ASSUME HandInv, Step
  PROVE  \E z : \E hot \in BOOLEAN :
           CycleAt(z, Processed + WStep) /\ WStep <= z.valid_len /\ StepBy(z, hot)
<1>1. PICK crosses \in [1..WStep -> BOOLEAN] :
        StepBy(Count(crosses), Count(crosses).zero_cross > NoiseZC)
  BY DEF Step, StepBy
<1> DEFINE z   == Count(crosses)
           hot == z.zero_cross > NoiseZC
<1>2. CycleAt(z, Processed + WStep) /\ WStep <= z.valid_len
  <2>1. Processed \in Nat
    BY DEF HandInv, SwapInv, SwapTypes, Processed
  <2>2. WStep \in Nat /\ WStep <= CLength
    <3>1. WStep \in Nat /\ WStep <= ChunkSize
      BY StepIsShort DEF HandInv, SwapInv, SwapTypes
    <3> QED
      BY <3>1, CutAssumption
  <2> QED
    BY <2>1, <2>2, CountKeeps DEF HandInv
<1>3. hot \in BOOLEAN
  OBVIOUS
<1>4. StepBy(z, hot)
  BY <1>1
<1> HIDE DEF z, hot
<1> QED
  BY <1>2, <1>3, <1>4

\* What the proofs about one step start from.
LEMMA StepFacts ==
  ASSUME HandInv, Step
  PROVE  /\ Processed \in Nat /\ WStep \in Nat /\ WStep <= CLength
         /\ Processed' = Processed + WStep /\ Processed + WStep <= MaxSamples
         /\ EndsAt(Current, Processed + WStep) /\ Current \in Seq(1..MaxSamples)
         /\ Len(Current) = WStep /\ MaxSamples \in Nat
<1> USE CutAssumption DEF HandInv, SwapInv, SwapTypes
<1>1. Processed \in Nat /\ WStep \in Nat /\ WStep <= CLength
  <2>1. WStep \in Nat /\ WStep <= ChunkSize
    BY StepIsShort
  <2> QED
    BY <2>1 DEF Processed
<1>2. Processed' = Processed + WStep
  BY <1>1 DEF Step, Processed
<1>3. Processed + WStep <= MaxSamples
  <2>1. i + WStep <= current_len
    BY DEF Step
  <2> QED
    BY <1>1, <2>1 DEF CaptureInv, Processed
<1>4. Current = Until(Processed + WStep, WStep)
  BY <1>1, CurrentIs
<1>5. Current \in Seq(1..MaxSamples) /\ Len(Current) = WStep /\ EndsAt(Current, Processed + WStep)
  <2> DEFINE p == Processed + WStep
             w == WStep
  <2>1. p \in Nat /\ w \in Nat /\ w <= p /\ p <= MaxSamples /\ MaxSamples \in Nat /\ p \in Int
    BY <1>1, <1>3
  <2> HIDE DEF p, w
  <2>2. Until(p, w) \in Seq(1..MaxSamples)
    BY <2>1, UntilType
  <2>3. Len(Until(p, w)) = w /\ EndsAt(Until(p, w), p)
    BY <2>1, UntilEnds
  <2> QED
    BY <1>4, <2>2, <2>3 DEF p, w
<1> QED
  BY <1>1, <1>2, <1>3, <1>4, <1>5

\* The head margin is what the buffer held before the step.
LEMMA HeadMarginIs ==
  ASSUME NEW z, Processed \in Nat, WStep \in Nat, CycleAt(z, Processed + WStep),
         WStep <= z.valid_len, Processed + WStep <= MaxSamples
  PROVE  /\ EndsAt(HeadMargin(z), Processed)
         /\ z.valid_len - WStep \in Nat /\ z.valid_len - WStep <= Processed
         /\ HeadMargin(z) \in Seq(1..MaxSamples) /\ Len(HeadMargin(z)) = z.valid_len - WStep
<1> DEFINE p == Processed + WStep
           n == z.valid_len
           w == WStep
<1>1. /\ p \in Nat /\ n \in Nat /\ w \in Nat /\ w <= n /\ n <= p /\ w \in 0..n
      /\ p - w = Processed /\ n - w \in Nat /\ n - w <= Processed /\ Processed <= MaxSamples
      /\ Processed \in Int /\ MaxSamples \in Nat /\ p \in Int
  BY CutAssumption DEF CycleAt
<1>2. Copy(z) = Until(p, n)
  BY <1>1, CopyIs
<1>3. HeadMargin(z) = SubSeq(Until(p, n), 1, n - w)
  BY <1>2 DEF HeadMargin
<1> HIDE DEF p, n, w
<1>4. SubSeq(Until(p, n), 1, n - w) = Until(p - w, n - w)
  BY <1>1, UntilPrefix, Zenon
<1>5. Until(Processed, n - w) \in Seq(1..MaxSamples)
  BY <1>1, UntilType
<1>6. Len(Until(Processed, n - w)) = n - w /\ EndsAt(Until(Processed, n - w), Processed)
  BY <1>1, UntilEnds
<1> QED
  BY <1>1, <1>3, <1>4, <1>5, <1>6 DEF n, w

\* The samples a step hands over.
LEMMA GivenIs ==
  ASSUME NEW z, NEW hot \in BOOLEAN, is_valid_data \in BOOLEAN,
         Current \in Seq(1..MaxSamples), swapbuf \in Seq(1..MaxSamples),
         HeadMargin(z) \in Seq(1..MaxSamples)
  PROVE  /\ ~local \/ ~Taken(hot) => Given(z, hot) = << >>
         /\ local /\ hot /\ ~is_valid_data => Given(z, hot) = HeadMargin(z) \o Current
         /\ local /\ Retriggers(hot) => Given(z, hot) = swapbuf \o Current
         /\ local /\ Taken(hot) /\ is_valid_data /\ ~Retriggers(hot) => Given(z, hot) = Current
<1>1. ~local \/ ~Taken(hot) => Given(z, hot) = << >>
  BY DEF Given
<1>2. ASSUME local, hot, ~is_valid_data PROVE Given(z, hot) = HeadMargin(z) \o Current
  <2>1. Taken(hot) /\ ~Retriggers(hot)
    BY <1>2 DEF Taken, PutAside, Silent, Retriggers
  <2>2. Given(z, hot) = HeadMargin(z) \o << >> \o Current
    BY <1>2, <2>1 DEF Given
  <2>3. HeadMargin(z) \o << >> = HeadMargin(z)
    BY ConcatEmptySeq
  <2> QED
    BY <2>2, <2>3
<1>3. ASSUME local, Retriggers(hot) PROVE Given(z, hot) = swapbuf \o Current
  <2>1. Taken(hot) /\ is_valid_data
    BY <1>3 DEF Taken, PutAside, Silent, Retriggers
  <2>2. Given(z, hot) = << >> \o swapbuf \o Current
    BY <1>3, <2>1 DEF Given
  <2>3. << >> \o swapbuf = swapbuf
    BY ConcatEmptySeq
  <2> QED
    BY <2>2, <2>3
<1>4. ASSUME local, Taken(hot), is_valid_data, ~Retriggers(hot) PROVE Given(z, hot) = Current
  <2>1. Given(z, hot) = << >> \o << >> \o Current
    BY <1>4 DEF Given
  <2>2. << >> \o << >> = << >> /\ << >> \o Current = Current
    <3>1. << >> \in Seq(1..MaxSamples)
      BY EmptySeq
    <3> QED
      BY <3>1, ConcatEmptySeq
  <2> QED
    BY <2>1, <2>2
<1> QED
  BY <1>1, <1>2, <1>3, <1>4

\* What swapbuf holds once a silent step has cleared it, if it does.
Before == IF nc = 0 THEN << >> ELSE swapbuf

LEMMA BeforeIs ==
  ASSUME HandInv, is_valid_data, Processed \in Nat
  PROVE  /\ EndsAt(Before, Processed) /\ Len(Before) = Pending /\ Pending \in Nat
         /\ Before \in Seq(1..MaxSamples)
         /\ ~PutAside(FALSE) => Before = << >>
<1> USE CutAssumption
<1>1. nc \in Nat /\ rest_tail \in Nat /\ swapbuf \in Seq(1..MaxSamples)
  BY NcMaxFits DEF HandInv, SwapInv, SwapTypes, SampleTypes
<1>2. CASE nc = 0
  <2>1. Before = << >> /\ Pending = 0
    BY <1>2 DEF Before, Pending
  <2>2. EndsAt(<< >>, Processed)
    BY UntilEnds
  <2> QED
    BY <2>1, <2>2
<1>3. CASE nc # 0
  <2>1. Before = swapbuf /\ Pending = Len(swapbuf) /\ EndsAt(swapbuf, Processed)
    BY <1>1, <1>3 DEF Before, Pending, HandInv, AsideInv
  <2>2. ASSUME ~PutAside(FALSE) PROVE swapbuf = << >>
    <3>1. RestTail(FALSE) = rest_tail /\ rest_tail # 0
      BY <1>3, <2>2 DEF RestTail, PutAside, Silent
    <3> QED
      BY <1>1, <1>3, <3>1 DEF HandInv, AsideInv
  <2> QED
    BY <1>1, <2>1, <2>2 DEF EndsAt
<1> QED
  BY <1>2, <1>3

\* A silent step in a segment that goes on.
LEMMA SilentStep ==
  ASSUME HandInv, Step, NEW z, NEW hot \in BOOLEAN, StepBy(z, hot),
         is_valid_data', ~hot
  PROVE  /\ is_valid_data /\ ~Over(hot) /\ ~Retriggers(hot) /\ nc' = nc + 1 /\ nc' > 0
         /\ Taken(hot) <=> ~PutAside(hot)
         /\ swapbuf' = IF PutAside(hot) THEN Before \o Current ELSE Before
         /\ rest_tail' = RestAfter(hot)
<1>1. /\ nc' = NcAfter(hot) /\ swapbuf' = SwapAfter(hot) /\ rest_tail' = RestAfter(hot)
      /\ is_valid_data' = ((is_valid_data \/ hot) /\ ~Over(hot))
  BY DEF StepBy
<1>2. is_valid_data /\ Silent(hot) /\ ~Over(hot) /\ ~Retriggers(hot)
  BY <1>1 DEF Silent, Retriggers
<1>3. nc' = nc + 1 /\ nc' > 0
  <2>1. nc \in Nat
    BY NcMaxFits DEF HandInv, SwapInv, SwapTypes
  <2> QED
    BY <1>1, <1>2, <2>1 DEF NcAfter
<1>4. swapbuf' = IF PutAside(hot) THEN Before \o Current ELSE Before
  BY <1>1, <1>2 DEF SwapAfter, Before
<1> QED
  BY <1>1, <1>2, <1>3, <1>4 DEF Taken

\* Once the tail margin is used up, silent steps are put aside and no more taken.
LEMMA AsideStep ==
  ASSUME HandInv, Step, NEW z, NEW hot \in BOOLEAN, StepBy(z, hot)
  PROVE  AsideInv'
<1> SUFFICES ASSUME is_valid_data', nc' > 0
             PROVE  /\ rest_tail' > 0 => swapbuf' = << >>
                    /\ EndsAt(swapbuf', Processed')
  <2>1. EndsAt(swapbuf, Processed)' <=> EndsAt(swapbuf', Processed')
    BY DEF EndsAt, Until, Run
  <2> QED
    BY <2>1 DEF AsideInv
<1>1. ~hot
  BY DEF StepBy, NcAfter, Silent
<1>2. /\ is_valid_data /\ (Taken(hot) <=> ~PutAside(hot))
      /\ swapbuf' = IF PutAside(hot) THEN Before \o Current ELSE Before
      /\ rest_tail' = RestAfter(hot)
  BY <1>1, SilentStep
<1>3. /\ Processed \in Nat /\ WStep \in Nat /\ Processed' = Processed + WStep
      /\ EndsAt(Current, Processed + WStep) /\ Len(Current) = WStep
  BY StepFacts
<1>4. EndsAt(Before, Processed) /\ (~PutAside(hot) => Before = << >>)
  BY <1>1, <1>2, <1>3, BeforeIs
<1>5. CASE PutAside(hot)
  <2>1. EndsAt(Before \o Current, Processed + WStep)
    <3> DEFINE x == Processed + WStep
    <3>1. x \in Nat /\ x = Processed + WStep /\ EndsAt(Current, x) /\ Len(Current) = WStep
      BY <1>3
    <3> HIDE DEF x
    <3>2. EndsAt(Before \o Current, x)
      BY <1>3, <1>4, <3>1, UntilContinues
    <3> QED
      BY <3>2 DEF x
  <2>2. rest_tail' = 0
    <3>1. RestTail(hot) = 0 /\ ~Taken(hot)
      BY <1>5 DEF PutAside, Taken
    <3> QED
      BY <1>2, <3>1 DEF RestAfter
  <2> QED
    BY <1>2, <1>3, <1>5, <2>1, <2>2
<1>6. CASE ~PutAside(hot)
  <2>1. swapbuf' = << >>
    BY <1>2, <1>4, <1>6
  <2>2. Processed' \in Nat
    BY <1>3
  <2> QED
    BY <2>1, <2>2, UntilEnds
<1> QED
  BY <1>5, <1>6

\* A step hands over what comes after what was given before, or starts anew.
LEMMA GivenStep ==
  ASSUME HandInv, Step, NEW z, NEW hot \in BOOLEAN, StepBy(z, hot),
         CycleAt(z, Processed + WStep), WStep <= z.valid_len
  PROVE  GivenInv'
<1> SUFFICES ASSUME is_valid_data'
             PROVE  Pending' <= Processed' /\ EndsAt(given', Processed' - Pending')
  <2>1. EndsAt(given, Processed - Pending)' <=> EndsAt(given', Processed' - Pending')
    BY DEF EndsAt, Until, Run
  <2> QED
    BY <2>1 DEF GivenInv
<1>1. /\ Processed \in Nat /\ WStep \in Nat /\ Processed' = Processed + WStep
      /\ EndsAt(Current, Processed + WStep) /\ Len(Current) = WStep
      /\ Current \in Seq(1..MaxSamples) /\ Processed + WStep <= MaxSamples
  BY StepFacts
<1>2. /\ is_valid_data \in BOOLEAN /\ nc \in Nat
      /\ swapbuf \in Seq(1..MaxSamples) /\ given \in Seq(1..MaxSamples)
  BY NcMaxFits DEF HandInv, SwapInv, SwapTypes, SampleTypes
<1>3. /\ EndsAt(HeadMargin(z), Processed) /\ HeadMargin(z) \in Seq(1..MaxSamples)
  BY <1>1, HeadMarginIs
<1>4. /\ ~local \/ ~Taken(hot) => Given(z, hot) = << >>
      /\ local /\ hot /\ ~is_valid_data => Given(z, hot) = HeadMargin(z) \o Current
      /\ local /\ Retriggers(hot) => Given(z, hot) = swapbuf \o Current
      /\ local /\ Taken(hot) /\ is_valid_data /\ ~Retriggers(hot) => Given(z, hot) = Current
  BY <1>1, <1>2, <1>3, GivenIs
<1>5. /\ nc' = NcAfter(hot) /\ swapbuf' = SwapAfter(hot)
      /\ is_valid_data' = ((is_valid_data \/ hot) /\ ~Over(hot))
      /\ given' = IF hot /\ ~is_valid_data THEN Given(z, hot)
                  ELSE IF Taken(hot) /\ ~local THEN << >>
                  ELSE given \o Given(z, hot)
  BY DEF StepBy, Record
<1> DEFINE x == Processed + WStep
<1>6. x \in Nat /\ x = Processed + WStep /\ EndsAt(Current, x) /\ EndsAt(<< >>, x)
  <2>1. x \in Nat
    BY <1>1
  <2> QED
    BY <1>1, <2>1, UntilEnds
<1> HIDE DEF x
<1>7. ASSUME Pending' = 0, EndsAt(given', x)
      PROVE  Pending' <= Processed' /\ EndsAt(given', Processed' - Pending')
  <2>1. Processed' = x /\ x - 0 = x /\ 0 <= x
    BY <1>1, <1>6
  <2> QED
    BY <1>7, <2>1
<1>8. CASE hot
  <2>1. nc' = 0
    BY <1>5, <1>8 DEF NcAfter, Silent
  <2>2. Pending' = 0
    BY <2>1 DEF Pending
  <2>3. Taken(hot)
    BY <1>8 DEF Taken, PutAside, Silent
  <2>4. CASE ~is_valid_data
    <3>1. CASE local
      <4>1. given' = HeadMargin(z) \o Current
        BY <1>4, <1>5, <1>8, <2>4, <3>1
      <4>2. EndsAt(HeadMargin(z) \o Current, x)
        BY <1>1, <1>3, <1>6, UntilContinues
      <4> QED
        BY <1>7, <2>2, <4>1, <4>2
    <3>2. CASE ~local
      BY <1>4, <1>5, <1>6, <1>7, <1>8, <2>2, <2>4, <3>2
    <3> QED
      BY <3>1, <3>2
  <2>5. CASE is_valid_data /\ Retriggers(hot)
    <3>1. nc > 0 /\ EndsAt(swapbuf, Processed) /\ Pending = Len(swapbuf)
      BY <2>5 DEF Retriggers, Pending, HandInv, AsideInv
    <3>2. CASE local
      <4>1. given' = given \o (swapbuf \o Current)
        BY <1>4, <1>5, <2>3, <2>5, <3>2
      <4>2. EndsAt(swapbuf \o Current, x) /\ Len(swapbuf \o Current) = Len(swapbuf) + WStep
        BY <1>1, <1>6, <3>1, UntilContinues
      <4> DEFINE e == Processed - Len(swapbuf)
                 m == Len(swapbuf) + WStep
                 t == swapbuf \o Current
      <4>3. e \in Nat /\ m \in Nat /\ x = e + m
        <5>1. Len(swapbuf) \in Nat /\ Len(swapbuf) <= Processed
          BY <3>1 DEF EndsAt
        <5> QED
          BY <1>1, <1>6, <5>1
      <4>4. EndsAt(given, e)
        BY <2>5, <3>1 DEF HandInv, GivenInv
      <4>5. EndsAt(t, x) /\ Len(t) = m
        BY <4>2
      <4> HIDE DEF e, m, t
      <4>6. EndsAt(given \o t, x)
        BY <1>6, <4>3, <4>4, <4>5, UntilContinues
      <4>7. given' = given \o t
        BY <4>1 DEF t
      <4> QED
        BY <1>7, <2>2, <4>6, <4>7
    <3>3. CASE ~local
      BY <1>5, <1>6, <1>7, <2>2, <2>3, <2>5, <3>3
    <3> QED
      BY <3>2, <3>3
  <2>6. CASE is_valid_data /\ ~Retriggers(hot)
    <3>1. Pending = 0
      BY <1>2, <1>8, <2>6 DEF Retriggers, Pending
    <3>2. EndsAt(given, Processed)
      <4>1. Processed - 0 = Processed
        BY <1>1
      <4> QED
        BY <2>6, <3>1, <4>1 DEF HandInv, GivenInv
    <3>3. CASE local
      <4>1. given' = given \o Current
        BY <1>4, <1>5, <2>3, <2>6, <3>3
      <4>2. EndsAt(given \o Current, x)
        BY <1>1, <1>6, <3>2, UntilContinues
      <4> QED
        BY <1>7, <2>2, <4>1, <4>2
    <3>4. CASE ~local
      BY <1>5, <1>6, <1>7, <2>2, <2>3, <2>6, <3>4
    <3> QED
      BY <3>3, <3>4
  <2> QED
    BY <1>2, <2>4, <2>5, <2>6
<1>9. CASE ~hot
  <2>1. /\ is_valid_data /\ ~Retriggers(hot) /\ nc' > 0
        /\ (Taken(hot) <=> ~PutAside(hot))
        /\ swapbuf' = IF PutAside(hot) THEN Before \o Current ELSE Before
    BY <1>9, SilentStep
  <2>2. /\ EndsAt(Before, Processed) /\ Len(Before) = Pending /\ Pending \in Nat
        /\ (~PutAside(hot) => Before = << >>)
    BY <1>1, <1>9, <2>1, BeforeIs
  <2>3. Pending' = Len(swapbuf')
    BY <2>1 DEF Pending
  <2>4. Pending <= Processed /\ EndsAt(given, Processed - Pending)
    BY <2>1 DEF HandInv, GivenInv
  <2>5. CASE PutAside(hot)
    <3>1. Given(z, hot) = << >> /\ ~Taken(hot)
      BY <1>4, <2>1, <2>5
    <3>2. given' = given
      <4>1. given' = given \o << >>
        BY <1>5, <1>9, <3>1
      <4> QED
        BY <1>2, <4>1, ConcatEmptySeq
    <3>3. Len(swapbuf') = Pending + WStep
      <4>1. Len(Before \o Current) = Len(Before) + WStep
        BY <1>1, <1>6, <2>2, UntilContinues
      <4> QED
        BY <2>1, <2>2, <2>5, <4>1
    <3>4. Processed' - Pending' = Processed - Pending /\ Pending' <= Processed'
      BY <1>1, <2>2, <2>3, <2>4, <3>3
    <3> QED
      BY <2>4, <3>2, <3>4
  <2>6. CASE ~PutAside(hot)
    <3>1. swapbuf' = << >> /\ Pending = 0
      BY <2>1, <2>2, <2>6
    <3>2. Pending' = 0
      BY <2>3, <3>1
    <3>3. EndsAt(given, Processed)
      <4>1. Processed - 0 = Processed
        BY <1>1
      <4> QED
        BY <2>4, <3>1, <4>1
    <3>4. CASE local
      <4>1. given' = given \o Current
        BY <1>4, <1>5, <1>9, <2>1, <2>6, <3>4
      <4>2. EndsAt(given \o Current, x)
        BY <1>1, <1>6, <3>3, UntilContinues
      <4> QED
        BY <1>7, <3>2, <4>1, <4>2
    <3>5. CASE ~local
      BY <1>5, <1>6, <1>7, <1>9, <2>1, <2>6, <3>2, <3>5
    <3> QED
      BY <3>4, <3>5
  <2> QED
    BY <2>5, <2>6
<1> QED
  BY <1>8, <1>9

\* Only samples that were read are put aside or handed over.
LEMMA TypesStep ==
  ASSUME HandInv, Step, NEW z, NEW hot \in BOOLEAN, StepBy(z, hot),
         CycleAt(z, Processed + WStep), WStep <= z.valid_len
  PROVE  SampleTypes'
<1> DEFINE Samples == Seq(1..MaxSamples)
<1>1. /\ Processed \in Nat /\ WStep \in Nat /\ Current \in Samples
      /\ Processed + WStep <= MaxSamples
  BY StepFacts
<1>2. HeadMargin(z) \in Samples
  BY <1>1, HeadMarginIs
<1>3. swapbuf \in Samples /\ given \in Samples /\ handed \in 0..MaxSamples
  BY DEF HandInv, SampleTypes
<1>4. /\ swapbuf' = SwapAfter(hot)
      /\ given' = IF hot /\ ~is_valid_data THEN Given(z, hot)
                  ELSE IF Taken(hot) /\ ~local THEN << >>
                  ELSE given \o Given(z, hot)
      /\ handed' = IF Given(z, hot) = << >> THEN handed ELSE Last(Given(z, hot))
  BY DEF StepBy, Record
<1>5. << >> \in Samples /\ \A s, t \in Samples : s \o t \in Samples
  OBVIOUS
<1>6. Given(z, hot) \in Samples
  <2> DEFINE one == IF hot /\ ~is_valid_data THEN HeadMargin(z) ELSE << >>
             two == IF Retriggers(hot) THEN swapbuf ELSE << >>
  <2>1. one \in Samples /\ two \in Samples
    BY <1>2, <1>3, <1>5
  <2>2. Given(z, hot) = IF ~local \/ ~Taken(hot) THEN << >> ELSE one \o two \o Current
    BY DEF Given
  <2> HIDE DEF one, two, Samples
  <2> QED
    BY <1>1, <1>5, <2>1, <2>2
<1>7. given' \in Samples
  <2> HIDE DEF Samples
  <2> QED
    BY <1>3, <1>4, <1>5, <1>6
<1>8. swapbuf' \in Samples
  <2> HIDE DEF Samples
  <2>1. (IF Silent(hot) /\ nc = 0 THEN << >> ELSE swapbuf) \in Samples
    BY <1>3, <1>5
  <2> QED
    BY <1>1, <1>3, <1>4, <1>5, <2>1 DEF SwapAfter
<1>9. handed' \in 0..MaxSamples
  <2>1. CASE Given(z, hot) = << >>
    BY <1>3, <1>4, <2>1
  <2>2. CASE Given(z, hot) # << >>
    <3> DEFINE s == Given(z, hot)
    <3>1. s \in Seq(1..MaxSamples) /\ s # << >>
      BY <1>6, <2>2
    <3>2. handed' = Last(s)
      BY <1>4, <2>2
    <3> HIDE DEF s
    <3>3. Len(s) \in 1..Len(s)
      BY <3>1, EmptySeq
    <3>4. s[Len(s)] \in 1..MaxSamples
      BY <3>1, <3>3, ElementOfSeq
    <3>5. Last(s) \in 1..MaxSamples
      BY <3>4 DEF Last
    <3> QED
      BY <3>2, <3>5
  <2> QED
    BY <2>1, <2>2
<1> QED
  BY <1>7, <1>8, <1>9 DEF SampleTypes

\* Where the numbers of the samples come from.
LEMMA HandInit == Init => HandInv
<1> USE CutAssumption
<1> SUFFICES ASSUME Init PROVE HandInv
  OBVIOUS
<1>1. SwapInv
  BY SwapInit
<1>2. CaptureInv
  BY DEF Init, CaptureInv
<1>3. CycleInv
  <2>1. Processed = 0
    BY DEF Init, Processed
  <2>2. /\ data = [k \in Slots |-> 0] /\ is_zc = [k \in Slots |-> FALSE]
        /\ top = 0 /\ valid_len = 0 /\ zero_cross = 0
    BY DEF Init, Slots
  <2>3. {s \in Slots : is_zc[s]} = {}
    BY <2>2
  <2>4. Cardinality({s \in Slots : is_zc[s]}) = 0
    BY <2>3, FS_EmptySet
  <2>5. top \in Slots /\ valid_len \in 0..CLength /\ CLength # 0
    BY <2>2 DEF Slots
  <2>6. data \in [Slots -> Int] /\ is_zc \in [Slots -> BOOLEAN]
    BY <2>2
  <2>7. \A s \in Slots : ~(s < 0)
    BY DEF Slots
  <2> QED
    BY <2>1, <2>2, <2>4, <2>5, <2>6, <2>7 DEF CycleInv, CycleAt, Cycle
<1>4. SampleTypes
  <2>1. << >> \in Seq(1..MaxSamples)
    OBVIOUS
  <2> QED
    BY <2>1 DEF Init, SampleTypes
<1>5. AsideInv /\ GivenInv
  BY DEF Init, AsideInv, GivenInv
<1> QED
  BY <1>1, <1>2, <1>3, <1>4, <1>5 DEF HandInv

\* Reading and purging renumber the buffer, not the samples.
LEMMA HandOthers ==
  ASSUME HandInv,
         \/ \E cnt \in ReadSizes : \E kept \in 0..cnt : Read(cnt, kept)
         \/ \E status \in {-1, 0} : ReadEnd(status)
         \/ Purge \/ Finished \/ UNCHANGED vars
         \/ \E on \in BOOLEAN : Transfer(on)
  PROVE  HandInv'
<1> USE CutAssumption
<1>1. SwapInv'
  BY SwapOthers DEF HandInv
<1>2. purged \in Nat /\ i \in Nat /\ current_len \in Nat /\ i <= current_len
  BY DEF HandInv, SwapInv, SwapTypes
<1>3. Processed' = Processed
  <2>1. CASE Purge
    <3>1. purged' = purged + i /\ i' = 0
      BY <2>1 DEF Purge
    <3> QED
      BY <1>2, <3>1 DEF Processed
  <2>2. CASE ~Purge
    <3>1. purged' = purged /\ i' = i
      BY <2>2 DEF Read, ReadEnd, Finished, Transfer, vars, buffer
    <3> QED
      BY <3>1 DEF Processed
  <2> QED
    BY <2>1, <2>2
<1>4. UNCHANGED <<cycle, segment, given, handed>>
  BY DEF Read, ReadEnd, Purge, Finished, Transfer, vars, history
<1>5. CaptureInv'
  <2>1. ASSUME NEW cnt \in ReadSizes, NEW kept \in 0..cnt, Read(cnt, kept) PROVE CaptureInv'
    <3>1. cnt \in Nat /\ kept \in Nat
      BY <2>1
    <3>2. stripped \in Nat /\ total_captured \in Nat
      BY DEF HandInv, SwapInv, SwapTypes
    <3>3. purged' + current_len' + stripped' = total_captured'
      BY <1>2, <2>1, <3>1, <3>2 DEF Read, CaptureInv, HandInv
    <3> QED
      BY <2>1, <3>3 DEF Read, CaptureInv
  <2>2. CASE Purge
    <3>1. /\ purged' = purged + i /\ current_len' = current_len - i
          /\ stripped' = stripped /\ total_captured' = total_captured
      BY <2>2 DEF Purge, capture
    <3>2. purged' + current_len' = purged + current_len
      BY <1>2, <3>1
    <3> QED
      BY <3>1, <3>2 DEF CaptureInv, HandInv
  <2>3. CASE UNCHANGED <<buffer, capture>>
    BY <2>3 DEF CaptureInv, HandInv, buffer, capture
  <2> QED
    BY <2>1, <2>2, <2>3 DEF ReadEnd, Finished, Transfer, vars
<1>6. CycleInv' /\ SampleTypes'
  BY <1>3, <1>4 DEF HandInv, CycleInv, CycleAt, Cycle, Slots, cycle, SampleTypes, segment
<1>7. AsideInv'
  BY <1>3, <1>4 DEF HandInv, AsideInv, EndsAt, Until, Run, segment
<1>8. GivenInv'
  <2>1. Pending' = Pending
    BY <1>4 DEF Pending, segment
  <2> QED
    BY <1>3, <1>4, <2>1 DEF HandInv, GivenInv, EndsAt, Until, Run, segment
<1> QED
  BY <1>1, <1>5, <1>6, <1>7, <1>8 DEF HandInv

LEMMA HandNext == HandInv /\ [Next]_vars => HandInv'
<1> SUFFICES ASSUME HandInv, [Next]_vars PROVE HandInv'
  OBVIOUS
<1>1. CASE Step
  <2>1. PICK z : \E hot \in BOOLEAN :
          CycleAt(z, Processed + WStep) /\ WStep <= z.valid_len /\ StepBy(z, hot)
    BY <1>1, StepIs
  <2>2. PICK hot \in BOOLEAN : StepBy(z, hot)
    BY <2>1
  <2>3. CycleAt(z, Processed + WStep) /\ WStep <= z.valid_len
    BY <2>1
  <2>4. SwapInv'
    BY <1>1, SwapStep DEF HandInv
  <2>5. CaptureInv'
    BY <1>1 DEF Step, HandInv, CaptureInv, capture
  <2>6. CycleInv'
    <3>1. Processed' = Processed + WStep
      BY <1>1, StepFacts
    <3>2. /\ data' = z.data /\ is_zc' = z.is_zc /\ top' = z.top
          /\ valid_len' = z.valid_len /\ zero_cross' = z.zero_cross
      BY <2>2 DEF StepBy
    <3> QED
      BY <2>3, <3>1, <3>2 DEF CycleInv, CycleAt, Cycle, Slots
  <2>7. SampleTypes'
    BY <1>1, <2>2, <2>3, TypesStep
  <2>8. AsideInv'
    BY <1>1, <2>2, AsideStep
  <2>9. GivenInv'
    BY <1>1, <2>2, <2>3, GivenStep
  <2> QED
    BY <2>4, <2>5, <2>6, <2>7, <2>8, <2>9 DEF HandInv
<1>2. CASE ~Step
  BY <1>2, HandOthers DEF Next
<1> QED
  BY <1>1, <1>2

-----------------------------------------------------------------------------
(* The types of the other variables.                                       *)

CutTypes ==
  /\ transfer_online \in BOOLEAN /\ local \in BOOLEAN /\ pc \in {"read", "step", "done"}
  /\ data \in [Slots -> 0..MaxSamples] /\ nc <= NcMax /\ rest_tail <= SbSize
  /\ last_trigger_sample \in Int /\ last_trigger_len \in Nat
  /\ end_of_stream \in BOOLEAN /\ end_status \in {-1, 0}
  /\ silence \in Nat /\ speaking \in BOOLEAN

LEMMA CutTypesInit == Init => CutTypes
<1> USE CutAssumption
<1> SUFFICES ASSUME Init PROVE CutTypes
  OBVIOUS
<1>1. data \in [Slots -> 0..MaxSamples]
  BY DEF Init, Slots
<1>2. nc <= NcMax /\ rest_tail <= SbSize
  BY NcMaxFits DEF Init
<1>3. /\ transfer_online \in BOOLEAN /\ local \in BOOLEAN /\ pc \in {"read", "step", "done"}
      /\ end_of_stream \in BOOLEAN /\ speaking \in BOOLEAN
  BY DEF Init
<1>4. /\ last_trigger_sample \in Int /\ last_trigger_len \in Nat
      /\ end_status \in {-1, 0} /\ silence \in Nat
  BY DEF Init
<1> QED
  BY <1>1, <1>2, <1>3, <1>4 DEF CutTypes

\* The samples that count_zc_e stores are those of the step.
LEMMA DataStep ==
  ASSUME HandInv, CutTypes, Step
  PROVE  data' \in [Slots -> 0..MaxSamples]
<1> USE CutAssumption
<1>1. PICK crosses \in [1..WStep -> BOOLEAN] : data' = Count(crosses).data
  BY DEF Step
<1>2. data \in [Slots -> 0..MaxSamples] /\ top \in Slots
  BY DEF CutTypes, HandInv, CycleInv, CycleAt, Cycle
<1>3. /\ Processed \in Nat /\ WStep \in Nat /\ WStep <= CLength
      /\ Processed + WStep <= MaxSamples
  BY StepFacts
<1>4. data' = [s \in Slots |-> IF s \in NewSlots
                               THEN Processed + CHOOSE k \in 1..WStep : Slot(k) = s
                               ELSE data[s]]
  BY <1>1, <1>2 DEF Count, NewSlots, Slot
<1>5. ASSUME NEW s \in Slots, s \in NewSlots
      PROVE  Processed + (CHOOSE k \in 1..WStep : Slot(k) = s) \in 0..MaxSamples
  <2> DEFINE c == CHOOSE k \in 1..WStep : Slot(k) = s
  <2>1. \E k \in 1..WStep : Slot(k) = s
    BY <1>5 DEF NewSlots
  <2>2. c \in 1..WStep
    BY <2>1
  <2> HIDE DEF c
  <2>3. Processed + c \in 0..MaxSamples
    BY <1>3, <2>2
  <2> QED
    BY <2>3 DEF c
<1> QED
  BY <1>2, <1>4, <1>5

LEMMA CutTypesStep ==
  ASSUME HandInv, CutTypes, Step
  PROVE  CutTypes'
<1> USE CutAssumption
<1>1. PICK z : \E hot \in BOOLEAN : CycleAt(z, Processed + WStep) /\ StepBy(z, hot)
  BY StepIs
<1>2. PICK hot \in BOOLEAN : StepBy(z, hot)
  BY <1>1
<1>3. WStep \in Nat /\ Processed \in Nat
  BY StepFacts
<1>4. z.valid_len \in Nat /\ z.valid_len \in Int
  BY <1>1 DEF CycleAt
<1>5. /\ swapbuf \in Seq(Nat) /\ nc \in Nat /\ rest_tail \in Nat /\ is_valid_data \in BOOLEAN
      /\ i \in Nat /\ current_len \in Nat /\ total_captured \in Nat
  BY DEF HandInv, SwapInv, SwapTypes
<1>6. data' \in [Slots -> 0..MaxSamples]
  BY DataStep
<1>7. nc' <= NcMax
  <2>1. nc' = NcAfter(hot)
    BY <1>2 DEF StepBy
  <2>2. CASE Silent(hot)
    <3>1. nc < NcMax /\ nc' = nc + 1
      BY <2>1, <2>2 DEF Silent, NcAfter, HandInv, SwapInv, SilenceShort
    <3> QED
      BY <1>5, <3>1, NcMaxFits
  <2>3. CASE ~Silent(hot)
    BY <1>5, <2>1, <2>3, NcMaxFits DEF NcAfter, CutTypes
  <2> QED
    BY <2>2, <2>3
<1>8. rest_tail' <= SbSize
  <2>1. rest_tail' = RestAfter(hot) /\ SbSize \in Nat
    BY <1>2, NcMaxFits DEF StepBy
  <2>2. RestTail(hot) \in Int /\ RestTail(hot) <= SbSize
    BY <1>5, <2>1 DEF RestTail, CutTypes
  <2> QED
    BY <1>3, <2>1, <2>2 DEF RestAfter
<1>9. last_trigger_len' \in Nat
  <2>1. last_trigger_len' = SpanAfter(z, hot)
    BY <1>2 DEF StepBy
  <2>2. Len(swapbuf) \in Nat /\ last_trigger_len \in Nat
    BY <1>5 DEF CutTypes
  <2> QED
    BY <1>3, <1>4, <2>1, <2>2 DEF SpanAfter
<1>10. last_trigger_sample' \in Int
  <2>1. last_trigger_sample' = IF hot /\ ~is_valid_data
          THEN total_captured - current_len + i + WStep - z.valid_len
          ELSE last_trigger_sample
    BY <1>2 DEF StepBy
  <2>2. total_captured - current_len + i + WStep - z.valid_len \in Int
    BY <1>3, <1>4, <1>5
  <2> QED
    BY <2>1, <2>2 DEF CutTypes
<1>11. silence' \in Nat /\ speaking' \in BOOLEAN
  <2>1. /\ silence' = IF hot THEN 0 ELSE silence + WStep
        /\ speaking' = IF hot /\ ~is_valid_data THEN TRUE ELSE speaking /\ ~Over(hot)
    BY <1>2 DEF StepBy, Record
  <2>2. silence' \in Nat
    BY <1>3, <2>1 DEF CutTypes
  <2>3. speaking' \in BOOLEAN
    BY <2>1
  <2> QED
    BY <2>2, <2>3
<1>12. transfer_online' \in BOOLEAN /\ local' \in BOOLEAN
  BY <1>2 DEF StepBy, CutTypes
<1>13. UNCHANGED <<pc, end_of_stream, end_status>>
  BY DEF Step, stream
<1> QED
  BY <1>6, <1>7, <1>8, <1>9, <1>10, <1>11, <1>12, <1>13 DEF CutTypes, NcMax, SbSize, Slots

LEMMA CutTypesNext == HandInv /\ CutTypes /\ [Next]_vars => CutTypes'
<1> SUFFICES ASSUME HandInv, CutTypes, [Next]_vars PROVE CutTypes'
  OBVIOUS
<1> USE DEF CutTypes, NcMax, SbSize, Slots
<1>1. CASE Step
  BY <1>1, CutTypesStep
<1>2. ASSUME NEW cnt \in ReadSizes, NEW kept \in 0..cnt, Read(cnt, kept) PROVE CutTypes'
  BY <1>2 DEF Read, cycle, segment, stream, history
<1>3. ASSUME NEW status \in {-1, 0}, ReadEnd(status) PROVE CutTypes'
  BY <1>3 DEF ReadEnd, cycle, segment
<1>4. CASE Purge
  BY <1>4 DEF Purge, cycle, segment, stream
<1>5. ASSUME NEW on \in BOOLEAN, Transfer(on) PROVE CutTypes'
  BY <1>5 DEF Transfer, cycle, segment, stream, history
<1>6. CASE Finished \/ UNCHANGED vars
  BY <1>6 DEF Finished, vars, cycle, segment, stream, history
<1> QED
  BY <1>1, <1>2, <1>3, <1>4, <1>5, <1>6 DEF Next

-----------------------------------------------------------------------------
(* The length of the silence that ends a segment.                          *)

\* A last step of the stream that is shorter than MinStep has been made.
LastStep == end_of_stream /\ i = current_len /\ current_len < MinStep

\* A batch is long enough for a step of MinStep, but for the last one.
BatchInv == pc = "step" => current_len > 0 /\ (~end_of_stream => current_len >= MinStep)

\* The silence consists of the steps counted.
SilenceCounted ==
  is_valid_data => silence <= ChunkSize * nc /\ (~LastStep => silence >= MinStep * nc)

SilenceInv == HandInv /\ CutTypes /\ BatchInv /\ SilenceCounted

\* The end of a segment, for one step: what SilenceEndsSegment says.
EndsBySilence ==
  is_valid_data => IF is_valid_data' THEN silence' <= ChunkSize * (NcMax - 1)
                   ELSE silence' >= MinStep * (NcMax - 1) + WStep

\* Multiples of a number of samples.
LEMMA Times ==
  ASSUME NEW c \in Nat
  PROVE  \A k \in Int : /\ c * k \in Int /\ c * (k + 1) = c * k + c
                        /\ k <= 0 => c * k <= 0
                        /\ \A l \in Int : k <= l => c * k <= c * l
<1>1. ASSUME NEW k \in Int
      PROVE  /\ c * k \in Int /\ c * (k + 1) = c * k + c
             /\ k <= 0 => c * k <= 0
             /\ \A l \in Int : k <= l => c * k <= c * l
  <2>1. c * k \in Int /\ c * (k + 1) = c * k + c
    OBVIOUS
  <2>2. k <= 0 => c * k <= 0
    OBVIOUS
  <2>3. \A l \in Int : k <= l => c * k <= c * l
    OBVIOUS
  <2> QED
    BY <2>1, <2>2, <2>3
<1> QED
  BY <1>1

\* What one step adds to the silence.
LEMMA SilenceStep ==
  ASSUME SilenceInv, Step
  PROVE  BatchInv' /\ SilenceCounted' /\ EndsBySilence
<1> USE CutAssumption, MinStepAssumption
<1>1. PICK z : \E hot \in BOOLEAN : StepBy(z, hot)
  BY StepIs DEF SilenceInv
<1>2. PICK hot \in BOOLEAN : StepBy(z, hot)
  BY <1>1
<1>3. /\ nc' = NcAfter(hot) /\ silence' = IF hot THEN 0 ELSE silence + WStep
      /\ is_valid_data' = ((is_valid_data \/ hot) /\ ~Over(hot))
  BY <1>2 DEF StepBy, Record
<1>4. /\ pc = "step" /\ i + WStep <= current_len /\ i' = i + WStep
      /\ UNCHANGED <<pc, current_len, end_of_stream>>
  BY DEF Step, stream
<1>5. /\ i \in Nat /\ current_len \in Nat /\ nc \in Nat /\ is_valid_data \in BOOLEAN
      /\ silence \in Nat /\ NcMax \in Nat /\ (is_valid_data => nc < NcMax)
  BY NcMaxFits DEF SilenceInv, HandInv, SwapInv, SwapTypes, CutTypes, SilenceShort
<1>6. WStep \in Nat /\ WStep <= ChunkSize /\ ~LastStep /\ (WStep >= MinStep \/ LastStep')
  <2>1. WStep \in Nat /\ WStep = IF ChunkSize > current_len THEN current_len ELSE ChunkSize
    BY <1>5 DEF WStep
  <2> QED
    BY <1>4, <1>5, <2>1 DEF LastStep, SilenceInv, BatchInv
<1>7. is_valid_data => silence <= ChunkSize * nc /\ silence >= MinStep * nc
  BY <1>6 DEF SilenceInv, SilenceCounted
<1>8. BatchInv'
  BY <1>4 DEF SilenceInv, BatchInv
<1> DEFINE most  == ChunkSize * nc
           least == MinStep * nc
<1>9. /\ most \in Int /\ ChunkSize * (nc + 1) = most + ChunkSize
      /\ least \in Int /\ MinStep * (nc + 1) = least + MinStep
  BY <1>5, Times
<1>10. is_valid_data => silence <= most /\ silence >= least
  BY <1>7
<1> HIDE DEF most, least
<1>11. CASE hot
  <2>1. nc' = 0 /\ silence' = 0 /\ is_valid_data'
    BY <1>3, <1>11 DEF NcAfter, Silent, Over
  <2>2. ChunkSize * nc' = 0 /\ MinStep * nc' = 0
    BY <2>1
  <2>3. SilenceCounted'
    BY <2>1, <2>2 DEF SilenceCounted
  <2>4. 0 <= NcMax - 1 /\ NcMax - 1 \in Int
    BY NcMaxFits
  <2>5. 0 <= ChunkSize * (NcMax - 1)
    BY <2>4
  <2> QED
    BY <1>8, <2>1, <2>3, <2>5 DEF EndsBySilence
<1>12. CASE ~hot /\ ~is_valid_data
  <2>1. ~is_valid_data'
    BY <1>3, <1>12
  <2> QED
    BY <1>8, <1>12, <2>1 DEF SilenceCounted, EndsBySilence
<1>13. CASE ~hot /\ is_valid_data
  <2>1. nc' = nc + 1 /\ silence' = silence + WStep /\ (is_valid_data' <=> nc + 1 < NcMax)
    <3>1. Silent(hot) /\ nc' = nc + 1 /\ silence' = silence + WStep
      BY <1>3, <1>13 DEF NcAfter, Silent
    <3>2. is_valid_data' <=> ~(nc + 1 >= NcMax)
      BY <1>3, <1>13, <3>1 DEF Over
    <3> QED
      BY <1>5, <3>1, <3>2
  <2>2. silence' <= most + ChunkSize /\ silence' >= least + WStep
    BY <1>5, <1>6, <1>9, <1>10, <1>13, <2>1
  <2>3. SilenceCounted'
    <3>1. silence' <= ChunkSize * nc'
      BY <1>9, <2>1, <2>2
    <3>2. WStep >= MinStep => silence' >= MinStep * nc'
      BY <1>5, <1>6, <1>9, <2>1, <2>2
    <3> QED
      BY <1>6, <3>1, <3>2 DEF SilenceCounted
  <2>4. CASE is_valid_data'
    <3>1. nc + 1 <= NcMax - 1 /\ nc + 1 \in Int /\ NcMax - 1 \in Int
      BY <1>5, <2>1, <2>4
    <3>2. ChunkSize * (nc + 1) <= ChunkSize * (NcMax - 1)
      BY <3>1, Times
    <3> DEFINE limit == ChunkSize * (NcMax - 1)
    <3>3. limit \in Int /\ most + ChunkSize <= limit
      BY <1>9, <3>1, <3>2, Times
    <3> HIDE DEF limit
    <3>4. silence' <= limit
      BY <1>5, <1>6, <1>9, <2>1, <2>2, <3>3
    <3> QED
      BY <1>8, <2>3, <2>4, <3>4 DEF EndsBySilence, limit
  <2>5. CASE ~is_valid_data'
    <3>1. NcMax - 1 = nc
      BY <1>5, <1>13, <2>1, <2>5
    <3>2. least = MinStep * (NcMax - 1)
      BY <3>1 DEF least
    <3> QED
      BY <1>8, <2>2, <2>3, <2>5, <3>2 DEF EndsBySilence
  <2> QED
    BY <1>5, <1>3, <2>4, <2>5
<1> QED
  BY <1>5, <1>11, <1>12, <1>13

\* Between the steps the silence does not change, and a batch is filled.
LEMMA SilenceOthers ==
  ASSUME SilenceInv,
         \/ \E cnt \in ReadSizes : \E kept \in 0..cnt : Read(cnt, kept)
         \/ \E status \in {-1, 0} : ReadEnd(status)
         \/ Purge \/ Finished \/ UNCHANGED vars
         \/ \E on \in BOOLEAN : Transfer(on)
  PROVE  BatchInv' /\ SilenceCounted' /\ UNCHANGED <<is_valid_data, nc, silence>>
<1> USE CutAssumption, MinStepAssumption
<1>1. UNCHANGED <<is_valid_data, nc, silence>>
  BY DEF Read, ReadEnd, Purge, Finished, Transfer, vars, segment, history
<1>2. i \in Nat /\ current_len \in Nat /\ stripped \in Nat /\ i <= current_len
  BY DEF SilenceInv, HandInv, SwapInv, SwapTypes
<1>3. ASSUME NEW cnt \in ReadSizes, NEW kept \in 0..cnt, Read(cnt, kept)
      PROVE  BatchInv' /\ SilenceCounted'
  <2>1. cnt \in Nat /\ kept \in Nat /\ kept <= cnt /\ cnt >= MinStep
    OBVIOUS
  <2>2. MaxStrip = 0 => kept = cnt
    <3>1. stripped + (cnt - kept) <= MaxStrip
      BY <1>3 DEF Read
    <3> QED
      BY <1>2, <2>1, <3>1
  <2>3. /\ current_len' = current_len + kept /\ ~end_of_stream
        /\ pc' = "step" => current_len' # 0
    BY <1>3 DEF Read
  <2>4. BatchInv'
    BY <1>2, <2>1, <2>2, <2>3 DEF BatchInv
  <2>5. SilenceCounted'
    BY <1>1, <2>3 DEF SilenceInv, SilenceCounted, LastStep
  <2> QED
    BY <2>4, <2>5
<1>4. ASSUME NEW status \in {-1, 0}, ReadEnd(status)
      PROVE  BatchInv' /\ SilenceCounted'
  <2>1. ~end_of_stream /\ end_of_stream' /\ current_len' = current_len
    BY <1>4 DEF ReadEnd, buffer
  <2>2. pc' = "step" => current_len # 0
    BY <1>4 DEF ReadEnd
  <2>3. BatchInv'
    BY <1>2, <2>1, <2>2 DEF BatchInv
  <2>4. SilenceCounted'
    BY <1>1, <2>1 DEF SilenceInv, SilenceCounted, LastStep
  <2> QED
    BY <2>3, <2>4
<1>5. CASE Purge
  <2>1. current_len' = current_len - i /\ i' = 0 /\ end_of_stream' = end_of_stream
    BY <1>5 DEF Purge, stream
  <2>2. pc = "step" /\ (pc' = "step" => end_of_stream /\ current_len' # 0)
    BY <1>5 DEF Purge
  <2>3. BatchInv'
    BY <1>2, <2>1, <2>2 DEF BatchInv
  <2>4. LastStep => LastStep'
    BY <1>2, <2>1 DEF LastStep
  <2>5. SilenceCounted'
    BY <1>1, <2>4 DEF SilenceInv, SilenceCounted
  <2> QED
    BY <1>1, <2>3, <2>5
<1>6. CASE UNCHANGED <<pc, i, current_len, end_of_stream>>
  BY <1>1, <1>6 DEF SilenceInv, BatchInv, SilenceCounted, LastStep
<1>7. ASSUME NEW on \in BOOLEAN, Transfer(on) PROVE UNCHANGED <<pc, i, current_len, end_of_stream>>
  BY <1>7 DEF Transfer, buffer, stream
<1>8. Finished \/ UNCHANGED vars => UNCHANGED <<pc, i, current_len, end_of_stream>>
  BY DEF Finished, vars, buffer, stream
<1> QED
  BY <1>1, <1>3, <1>4, <1>5, <1>6, <1>7, <1>8

-----------------------------------------------------------------------------
(* Samples in two segments.  Between the last sample given of a segment    *)
(* and the step that ends it lie the steps that were put aside, and the    *)
(* head margin of the next segment reaches no further back than CLength.   *)

\* The silent steps that were not taken from the tail margin were put aside.
AsideLong ==
  is_valid_data /\ nc > 0 /\ ~LastStep =>
    /\ rest_tail # 0 => rest_tail + MinStep * nc <= TailGiven
    /\ MinStep * (nc - TailSteps) <= Len(swapbuf)

\* Nothing was given of what is put aside, and after a segment of what was.
HandedInv ==
  /\ handed <= Processed
  /\ is_valid_data => handed <= Processed - Pending
  /\ ~is_valid_data => handed = 0 \/ handed + AsideAtEnd <= Processed \/ LastStep

TwiceInv == SilenceInv /\ AsideLong /\ HandedInv

\* The steps that use up the tail margin.
LEMMA TailStepsAre ==
  /\ TailGiven \in Int /\ TailSteps \in Nat /\ AsideAtEnd \in Int
  /\ TailGiven < 0 => TailSteps = 1
  /\ \A k \in Nat : MinStep * k < TailGiven => k + 1 <= TailSteps
  /\ \A k \in Int : /\ MinStep * k \in Int /\ MinStep * (k + 1) = MinStep * k + MinStep
                    /\ k <= 0 => MinStep * k <= 0
                    /\ \A l \in Int : k <= l => MinStep * k <= MinStep * l
<1> USE CutAssumption, MinStepAssumption
<1>1. TailGiven \in Int /\ NcMax \in Nat
  BY NcMaxFits DEF TailGiven
<1>2. ASSUME NEW k \in Int
      PROVE  /\ MinStep * k \in Int /\ MinStep * (k + 1) = MinStep * k + MinStep
             /\ k <= 0 => MinStep * k <= 0
             /\ \A l \in Int : k <= l => MinStep * k <= MinStep * l
  BY Times
<1>3. CASE TailGiven < 0
  <2>1. TailSteps = 1
    BY <1>3 DEF TailSteps
  <2>2. \A k \in Nat : ~(MinStep * k < TailGiven)
    BY <1>1, <1>3
  <2>3. AsideAtEnd \in Int
    BY <1>1, <2>1 DEF AsideAtEnd
  <2> QED
    BY <1>1, <1>2, <2>1, <2>2, <2>3
<1>4. CASE TailGiven >= 0
  <2> DEFINE t == TailGiven + MinStep - 1
             q == t \div MinStep
             r == t % MinStep
  <2>1. t \in Nat /\ t = TailGiven + MinStep - 1
    BY <1>1, <1>4
  <2> HIDE DEF t
  <2>2. q \in Nat /\ r \in Nat /\ r < MinStep /\ t = MinStep * q + r
    BY <2>1
  <2>3. TailSteps = q
    BY <1>1, <1>4 DEF TailSteps, t
  <2> HIDE DEF q, r
  <2>4. AsideAtEnd \in Int
    BY <1>1, <2>2, <2>3 DEF AsideAtEnd
  <2>5. ASSUME NEW k \in Nat, MinStep * k < TailGiven PROVE k + 1 <= q
    <3> DEFINE a == MinStep * k
               b == MinStep * q
               c == MinStep * (k + 1)
               d == MinStep * (q + 1)
    <3>1. /\ a \in Int /\ b \in Int /\ c = a + MinStep /\ d = b + MinStep
          /\ a < TailGiven /\ t = b + r
      BY <2>2, <2>5, <1>2
    <3>2. q + 1 <= k + 1 => d <= c
      BY <1>2, <2>2
    <3> HIDE DEF a, b, c, d
    <3>3. c < d
      BY <1>1, <2>1, <2>2, <3>1
    <3>4. c \in Int /\ d \in Int
      BY <3>1
    <3> QED
      BY <2>2, <3>2, <3>3, <3>4
  <2> QED
    BY <1>1, <1>2, <1>4, <2>2, <2>3, <2>4, <2>5
<1> QED
  BY <1>1, <1>3, <1>4

\* A silent step is given while some of the tail margin is left, and that is so
\* for TailSteps steps; the others have been put aside.
LEMMA TailCount ==
  ASSUME TwiceInv, Step, is_valid_data, ~LastStep
  PROVE  /\ RestTail(FALSE) # 0 => nc + 1 <= TailSteps
         /\ RestTail(FALSE) > 0 => RestTail(FALSE) + MinStep * nc <= TailGiven
         /\ MinStep * (nc - TailSteps) <= Pending
<1> USE CutAssumption, MinStepAssumption
<1>1. /\ nc \in Nat /\ rest_tail \in Nat /\ Len(swapbuf) \in Nat
  BY DEF TwiceInv, SilenceInv, HandInv, SwapInv, SwapTypes
<1>2. /\ TailGiven \in Int /\ TailSteps \in Nat /\ (TailGiven < 0 => TailSteps = 1)
      /\ (MinStep * nc < TailGiven => nc + 1 <= TailSteps)
      /\ MinStep * nc \in Int
  BY <1>1, TailStepsAre
<1> DEFINE taken == MinStep * nc
           aside == MinStep * (nc - TailSteps)
           rest  == RestTail(FALSE)
<1>3. taken \in Int /\ aside \in Int
  BY <1>1, <1>2, TailStepsAre
<1>4. CASE nc = 0
  <2>1. rest = TailGiven /\ Pending = 0
    BY <1>4 DEF RestTail, Silent, TailGiven, Pending
  <2>2. taken = 0
    BY <1>4
  <2>3. aside <= 0
    <3>1. nc - TailSteps \in Int /\ nc - TailSteps <= 0
      BY <1>2, <1>4
    <3> QED
      BY <3>1, TailStepsAre
  <2>4. taken < TailGiven => nc + 1 <= TailSteps
    BY <1>2
  <2> HIDE DEF taken, aside, rest
  <2>5. rest # 0 => nc + 1 <= TailSteps
    BY <1>2, <1>3, <1>4, <2>1, <2>2, <2>4
  <2>6. (rest > 0 => rest + taken <= TailGiven) /\ aside <= Pending
    BY <1>2, <1>3, <2>1, <2>2, <2>3
  <2> QED
    BY <2>5, <2>6 DEF taken, aside, rest
<1>5. CASE nc # 0
  <2>1. rest = rest_tail /\ Pending = Len(swapbuf)
    BY <1>1, <1>5 DEF RestTail, Pending
  <2>2. (rest_tail # 0 => rest_tail + taken <= TailGiven) /\ aside <= Len(swapbuf)
    BY <1>1, <1>5 DEF TwiceInv, AsideLong
  <2>3. taken < TailGiven => nc + 1 <= TailSteps
    BY <1>2
  <2> HIDE DEF taken, aside, rest
  <2>4. rest # 0 => nc + 1 <= TailSteps
    BY <1>1, <1>2, <1>3, <2>1, <2>2, <2>3
  <2>5. (rest > 0 => rest + taken <= TailGiven) /\ aside <= Pending
    BY <1>1, <2>1, <2>2
  <2> QED
    BY <2>4, <2>5 DEF taken, aside, rest
<1> QED
  BY <1>4, <1>5

\* The step consists of samples, and only the last one is shorter than MinStep.
LEMMA StepIsLong ==
  ASSUME SilenceInv, Step
  PROVE  ~LastStep /\ WStep > 0 /\ (WStep >= MinStep \/ LastStep')
<1> USE CutAssumption, MinStepAssumption
<1>1. /\ pc = "step" /\ i + WStep <= current_len /\ i' = i + WStep
      /\ UNCHANGED <<pc, current_len, end_of_stream>>
  BY DEF Step, stream
<1>2. i \in Nat /\ current_len \in Nat
  BY DEF SilenceInv, HandInv, SwapInv, SwapTypes
<1>3. WStep \in Nat /\ WStep = IF ChunkSize > current_len THEN current_len ELSE ChunkSize
  BY <1>2 DEF WStep
<1> QED
  BY <1>1, <1>2, <1>3 DEF LastStep, SilenceInv, BatchInv

\* What is put aside grows by a MinStep at least with each silent step.
LEMMA AsideLongStep ==
  ASSUME TwiceInv, Step, NEW z, NEW hot \in BOOLEAN, StepBy(z, hot)
  PROVE  AsideLong'
<1> USE CutAssumption, MinStepAssumption
<1> SUFFICES ASSUME is_valid_data', nc' > 0, WStep >= MinStep
             PROVE  /\ rest_tail' # 0 => rest_tail' + MinStep * nc' <= TailGiven
                    /\ MinStep * (nc' - TailSteps) <= Len(swapbuf')
  BY StepIsLong DEF AsideLong, TwiceInv, TailGiven, TailSteps, SbSize
<1>1. HandInv /\ ~hot
  BY DEF StepBy, NcAfter, Silent, TwiceInv, SilenceInv
<1>2. /\ is_valid_data /\ nc' = nc + 1 /\ (Taken(hot) <=> ~PutAside(hot))
      /\ swapbuf' = IF PutAside(hot) THEN Before \o Current ELSE Before
      /\ rest_tail' = RestAfter(hot)
  BY <1>1, SilentStep
<1>3. /\ Processed \in Nat /\ WStep \in Nat /\ Processed + WStep \in Nat
      /\ EndsAt(Current, Processed + WStep) /\ Len(Current) = WStep
  BY <1>1, StepFacts
<1>4. /\ EndsAt(Before, Processed) /\ Len(Before) = Pending /\ Pending \in Nat
      /\ (~PutAside(hot) => Before = << >>)
  BY <1>1, <1>2, <1>3, BeforeIs
<1> DEFINE rest == RestTail(hot)
<1>5. /\ rest # 0 => nc + 1 <= TailSteps
      /\ rest > 0 => rest + MinStep * nc <= TailGiven
      /\ MinStep * (nc - TailSteps) <= Pending
  BY <1>1, <1>2, StepIsLong, TailCount DEF TwiceInv
<1>6. nc \in Nat /\ rest_tail \in Nat /\ rest \in Int /\ TailGiven \in Int
  BY TailStepsAre DEF TwiceInv, SilenceInv, HandInv, SwapInv, SwapTypes, RestTail, TailGiven
<1>7. PutAside(hot) <=> rest = 0
  BY <1>1, <1>2 DEF PutAside, Silent
<1>8. rest_tail' = IF rest = 0 THEN 0 ELSE IF rest < WStep THEN 0 ELSE rest - WStep
  BY <1>1, <1>2, <1>7 DEF RestAfter, Silent
<1> HIDE DEF rest
<1>9. /\ MinStep * (nc + 1) = MinStep * nc + MinStep /\ MinStep * nc \in Int
      /\ TailSteps \in Nat
  BY <1>6, TailStepsAre
<1>10. rest_tail' # 0 => rest_tail' + MinStep * nc' <= TailGiven
  <2> DEFINE taken == MinStep * nc
  <2>1. taken \in Int /\ MinStep * nc' = taken + MinStep /\ (rest > 0 => rest + taken <= TailGiven)
    BY <1>2, <1>5, <1>9
  <2> HIDE DEF taken
  <2>2. rest_tail' # 0 => rest > 0 /\ rest_tail' = rest - WStep
    BY <1>3, <1>6, <1>8
  <2> QED
    BY <1>3, <1>6, <2>1, <2>2
<1>11. MinStep * (nc' - TailSteps) <= Len(swapbuf')
  <2>1. CASE PutAside(hot)
    <3> DEFINE k == nc - TailSteps
    <3>1. k \in Int /\ k + 1 = nc' - TailSteps
      BY <1>2, <1>6, <1>9
    <3>2. MinStep * k <= Pending
      BY <1>5
    <3> HIDE DEF k
    <3>3. MinStep * (k + 1) = MinStep * k + MinStep /\ MinStep * k \in Int
      BY <3>1, TailStepsAre
    <3>4. Len(swapbuf') = Pending + WStep
      <4> DEFINE x == Processed + WStep
      <4>1. x \in Nat /\ x = Processed + WStep /\ EndsAt(Current, x) /\ Len(Current) = WStep
        BY <1>3
      <4> HIDE DEF x
      <4>2. Len(Before \o Current) = Len(Before) + WStep
        BY <1>3, <1>4, <4>1, UntilContinues
      <4> QED
        BY <1>2, <1>4, <2>1, <4>2
    <3> QED
      BY <1>3, <1>4, <3>1, <3>2, <3>3, <3>4
  <2>2. CASE ~PutAside(hot)
    <3>1. nc' - TailSteps \in Int /\ nc' - TailSteps <= 0
      BY <1>2, <1>5, <1>6, <1>7, <1>9, <2>2
    <3>2. MinStep * (nc' - TailSteps) <= 0
      BY <3>1, TailStepsAre
    <3>3. Len(swapbuf') = 0
      BY <1>2, <1>4, <2>2
    <3> QED
      BY <3>2, <3>3
  <2> QED
    BY <2>1, <2>2
<1> QED
  BY <1>10, <1>11

\* The first and the last sample of a run.
LEMMA EndsOf ==
  ASSUME NEW e \in Nat, NEW s, EndsAt(s, e), Len(s) > 0
  PROVE  s # << >> /\ Head(s) = e - Len(s) + 1 /\ Last(s) = e
<1> DEFINE n == Len(s)
<1>1. n \in Nat /\ n > 0 /\ n \in 1..n /\ 1 \in 1..n /\ e \in Int
  BY DEF EndsAt
<1>2. s = Until(e, n)
  BY DEF EndsAt
<1> HIDE DEF n
<1>3. Until(e, n) = [k \in 1..n |-> e - n + k] /\ Until(e, n) \in Seq(Int) /\ Len(Until(e, n)) = n
  BY <1>1, UntilIs
<1>4. s[1] = e - n + 1 /\ s[n] = e - n + n /\ e - n + n = e
  BY <1>1, <1>2, <1>3
<1>5. s # << >> /\ Head(s) = s[1]
  BY <1>1, <1>2, <1>3
<1> QED
  BY <1>2, <1>3, <1>4, <1>5 DEF n, Last

\* What one step hands over ends with the step, and in a segment begins with
\* what was put aside.
LEMMA GivenEnds ==
  ASSUME HandInv, Step, NEW z, NEW hot \in BOOLEAN, StepBy(z, hot),
         CycleAt(z, Processed + WStep), WStep <= z.valid_len, WStep > 0, local, Taken(hot)
  PROVE  /\ Given(z, hot) # << >> /\ Last(Given(z, hot)) = Processed'
         /\ is_valid_data => Head(Given(z, hot)) = Processed - Pending + 1
         /\ ~is_valid_data => Head(Given(z, hot)) = Processed' - z.valid_len + 1
         /\ Given(z, hot) \in Seq(1..MaxSamples)
<1>1. /\ Processed \in Nat /\ WStep \in Nat /\ Processed' = Processed + WStep
      /\ EndsAt(Current, Processed + WStep) /\ Len(Current) = WStep
      /\ Current \in Seq(1..MaxSamples) /\ Processed + WStep <= MaxSamples
  BY StepFacts
<1>2. /\ is_valid_data \in BOOLEAN /\ nc \in Nat /\ swapbuf \in Seq(1..MaxSamples)
  BY NcMaxFits DEF HandInv, SwapInv, SwapTypes, SampleTypes
<1>3. /\ EndsAt(HeadMargin(z), Processed) /\ HeadMargin(z) \in Seq(1..MaxSamples)
      /\ Len(HeadMargin(z)) = z.valid_len - WStep /\ z.valid_len \in Nat
  BY <1>1, HeadMarginIs, SMTT(30) DEF CycleAt
<1>4. /\ hot /\ ~is_valid_data => Given(z, hot) = HeadMargin(z) \o Current
      /\ Retriggers(hot) => Given(z, hot) = swapbuf \o Current
      /\ is_valid_data /\ ~Retriggers(hot) => Given(z, hot) = Current
  BY <1>1, <1>2, <1>3, GivenIs
<1> DEFINE x == Processed + WStep
           g == Given(z, hot)
<1>5. x \in Nat /\ x = Processed + WStep /\ EndsAt(Current, x) /\ Processed' = x
  BY <1>1
<1>6. \A s : s = Current \/ s = swapbuf \o Current \/ s = HeadMargin(z) \o Current
              => s \in Seq(1..MaxSamples)
  BY <1>1, <1>2, <1>3, ConcatProperties, ZenonT(40)
<1> HIDE DEF x
<1>7. CASE ~is_valid_data
  <2>1. hot
    BY <1>7 DEF Taken
  <2>2. g = HeadMargin(z) \o Current
    BY <1>4, <1>7, <2>1
  <2>3. EndsAt(g, x) /\ Len(g) = Len(HeadMargin(z)) + WStep
    <3>1. EndsAt(HeadMargin(z) \o Current, x) /\ Len(HeadMargin(z) \o Current) = Len(HeadMargin(z)) + WStep
      BY <1>1, <1>3, <1>5, UntilContinues, SMTT(30)
    <3> QED
      BY <2>2, <3>1
  <2> HIDE DEF g
  <2>4. Len(g) = z.valid_len /\ Len(g) > 0
    BY <1>1, <1>3, <2>3
  <2>5. g # << >> /\ Head(g) = x - Len(g) + 1 /\ Last(g) = x
    BY <1>5, <2>3, <2>4, EndsOf
  <2>6. g \in Seq(1..MaxSamples)
    BY <1>6, <2>2
  <2> QED
    BY <1>5, <1>7, <2>4, <2>5, <2>6 DEF g
<1>8. CASE Retriggers(hot)
  <2>1. is_valid_data /\ Pending = Len(swapbuf) /\ EndsAt(swapbuf, Processed)
    BY <1>8 DEF Retriggers, Pending, HandInv, AsideInv
  <2>2. g = swapbuf \o Current
    BY <1>4, <1>8
  <2> HIDE DEF g
  <2>3. EndsAt(g, x) /\ Len(g) = Len(swapbuf) + WStep
    BY <1>1, <1>5, <2>1, <2>2, UntilContinues
  <2>4. Len(g) > 0 /\ x - Len(g) + 1 = Processed - Pending + 1
    BY <1>1, <1>2, <1>5, <2>1, <2>3
  <2>5. g # << >> /\ Head(g) = x - Len(g) + 1 /\ Last(g) = x
    BY <1>5, <2>3, <2>4, EndsOf
  <2>6. g \in Seq(1..MaxSamples)
    BY <1>6, <2>2
  <2> QED
    BY <1>5, <2>1, <2>4, <2>5, <2>6 DEF g
<1>9. CASE is_valid_data /\ ~Retriggers(hot)
  <2>1. Pending = 0
    <3>1. CASE hot
      BY <1>2, <1>9, <3>1 DEF Retriggers, Pending
    <3>2. CASE ~hot
      <4>1. ~PutAside(FALSE)
        BY <3>2 DEF Taken
      <4>2. Before = << >> /\ Len(Before) = Pending
        BY <1>1, <1>9, <4>1, BeforeIs
      <4> QED
        BY <4>2
    <3> QED
      BY <3>1, <3>2
  <2>2. g = Current
    BY <1>4, <1>9
  <2> HIDE DEF g
  <2>3. EndsAt(g, x) /\ Len(g) > 0 /\ x - Len(g) + 1 = Processed - Pending + 1
    BY <1>1, <1>5, <2>1, <2>2
  <2>4. g # << >> /\ Head(g) = x - Len(g) + 1 /\ Last(g) = x
    BY <1>5, <2>3, EndsOf
  <2>5. g \in Seq(1..MaxSamples)
    BY <1>6, <2>2
  <2> QED
    BY <1>5, <1>9, <2>3, <2>4, <2>5 DEF g
<1> QED
  BY <1>7, <1>8, <1>9 DEF Retriggers

\* What is handed over stays behind what is put aside.
LEMMA HandedStep ==
  ASSUME TwiceInv, Step, NEW z, NEW hot \in BOOLEAN, StepBy(z, hot),
         CycleAt(z, Processed + WStep), WStep <= z.valid_len
  PROVE  HandedInv'
<1> USE CutAssumption, MinStepAssumption
<1>1. HandInv /\ SilenceInv /\ WStep > 0 /\ ~LastStep /\ (WStep >= MinStep \/ LastStep')
  BY StepIsLong DEF TwiceInv, SilenceInv
<1>2. /\ Processed \in Nat /\ WStep \in Nat /\ Processed' = Processed + WStep
  BY <1>1, StepFacts
<1>3. /\ is_valid_data \in BOOLEAN /\ nc \in Nat /\ handed \in Nat /\ Len(swapbuf) \in Nat
      /\ Pending \in Nat
  BY <1>1 DEF HandInv, SwapInv, SwapTypes, SampleTypes, Pending
<1>4. /\ nc' = NcAfter(hot) /\ swapbuf' = SwapAfter(hot)
      /\ is_valid_data' = ((is_valid_data \/ hot) /\ ~Over(hot))
      /\ handed' = IF Given(z, hot) = << >> THEN handed ELSE Last(Given(z, hot))
  BY DEF StepBy, Record
<1>5. /\ handed' = handed \/ handed' = Processed'
      /\ ~Taken(hot) => handed' = handed
  <2>1. Given(z, hot) = << >> \/ (local /\ Taken(hot))
    BY DEF Given
  <2>2. local /\ Taken(hot) => Given(z, hot) # << >> /\ Last(Given(z, hot)) = Processed'
    BY <1>1, GivenEnds
  <2>3. ~Taken(hot) => Given(z, hot) = << >>
    BY DEF Given
  <2> QED
    BY <1>4, <2>1, <2>2, <2>3
<1>6. /\ handed <= Processed /\ (is_valid_data => handed <= Processed - Pending)
      /\ (~is_valid_data => handed = 0 \/ handed + AsideAtEnd <= Processed)
  BY <1>1 DEF TwiceInv, HandedInv
<1>7. AsideAtEnd \in Int /\ AsideAtEnd' = AsideAtEnd
  BY TailStepsAre DEF AsideAtEnd, NcMax, TailSteps, TailGiven, SbSize
<1>8. handed' <= Processed' /\ handed' \in Nat /\ Processed' \in Nat
  BY <1>2, <1>3, <1>5, <1>6
<1>9. handed' <= Processed' - 0
  <2>1. \A p \in Nat : p - 0 = p
    OBVIOUS
  <2> QED
    BY <1>8, <2>1
<1>10. CASE hot
  <2>1. nc' = 0 /\ is_valid_data'
    BY <1>4, <1>10 DEF Over, Silent, NcAfter
  <2>2. Pending' = 0
    BY <2>1 DEF Pending
  <2>3. handed' <= Processed' - Pending'
    BY <2>2, <1>9
  <2> QED
    BY <1>8, <2>1, <2>3 DEF HandedInv
<1>11. CASE ~hot /\ ~is_valid_data
  <2>1. ~is_valid_data' /\ handed' = handed
    BY <1>4, <1>5, <1>11 DEF Taken
  <2>2. handed' = 0 \/ handed' + AsideAtEnd <= Processed'
    BY <1>2, <1>3, <1>6, <1>7, <1>11, <2>1
  <2> QED
    BY <1>7, <1>8, <2>1, <2>2 DEF HandedInv
<1>12. CASE ~hot /\ is_valid_data /\ is_valid_data'
  <2>1. /\ nc' > 0 /\ (Taken(hot) <=> ~PutAside(hot))
        /\ swapbuf' = IF PutAside(hot) THEN Before \o Current ELSE Before
    BY <1>1, <1>12, SilentStep
  <2>2. /\ EndsAt(Before, Processed) /\ Len(Before) = Pending
        /\ (~PutAside(hot) => Before = << >>)
    BY <1>1, <1>2, <1>12, BeforeIs
  <2>3. Pending' = Len(swapbuf')
    BY <2>1 DEF Pending
  <2>4. CASE PutAside(hot)
    <3>1. Len(Before \o Current) = Len(Before) + WStep
      <4> DEFINE x == Processed + WStep
      <4>1. x \in Nat /\ x = Processed + WStep /\ EndsAt(Current, x) /\ Len(Current) = WStep
        BY <1>1, <1>2, StepFacts
      <4> HIDE DEF x
      <4> QED
        BY <1>2, <2>2, <4>1, UntilContinues
    <3>2. Pending' = Pending + WStep /\ handed' = handed
      BY <1>5, <2>1, <2>2, <2>3, <2>4, <3>1
    <3>3. handed' <= Processed' - Pending'
      BY <1>2, <1>3, <1>6, <1>12, <3>2
    <3> QED
      BY <1>8, <1>12, <3>3 DEF HandedInv
  <2>5. CASE ~PutAside(hot)
    <3>1. Pending' = 0
      BY <2>1, <2>2, <2>3, <2>5
    <3>2. handed' <= Processed' - Pending'
      BY <1>9, <3>1
    <3> QED
      BY <1>8, <1>12, <3>2 DEF HandedInv
  <2> QED
    BY <2>4, <2>5
<1>13. CASE ~hot /\ is_valid_data /\ ~is_valid_data'
  <2>1. nc + 1 >= NcMax
    BY <1>4, <1>13 DEF Over
  <2> DEFINE k     == nc - TailSteps
             aside == MinStep * k
             rest  == RestTail(FALSE)
  <2>2. /\ rest # 0 => nc + 1 <= TailSteps
        /\ aside <= Pending
    BY <1>1, <1>13, TailCount
  <2>3. /\ PutAside(hot) <=> rest = 0
        /\ PutAside(hot) => ~Taken(hot)
    BY <1>13 DEF PutAside, Silent, Taken
  <2>4. k \in Int /\ NcMax - TailSteps \in Int /\ k + 1 \in Int /\ NcMax - TailSteps <= k + 1
    BY <1>3, <2>1, NcMaxFits, TailStepsAre
  <2>5. rest # 0 => k + 1 <= 0
    <3>1. TailSteps \in Nat
      BY TailStepsAre
    <3> HIDE DEF rest
    <3> QED
      BY <1>3, <2>2, <3>1
  <2> HIDE DEF k, rest
  <2>6. aside \in Int /\ MinStep * (k + 1) = aside + MinStep
    BY <2>4, TailStepsAre
  <2>7. AsideAtEnd <= aside + MinStep
    <3>1. AsideAtEnd <= MinStep * (k + 1)
      BY <2>4, TailStepsAre DEF AsideAtEnd
    <3> QED
      BY <2>6, <3>1
  <2>8. rest # 0 => AsideAtEnd <= 0
    <3>1. rest # 0 => MinStep * (k + 1) <= 0
      BY <2>4, <2>5, TailStepsAre
    <3> QED
      BY <1>7, <2>6, <2>7, <3>1
  <2> HIDE DEF aside
  <2>9. handed' + AsideAtEnd <= Processed' \/ LastStep'
    <3>1. CASE rest # 0
      <4>1. AsideAtEnd \in Int /\ AsideAtEnd <= 0
        BY <1>7, <2>8, <3>1
      <4>2. \A h \in Nat : \A p \in Nat : h <= p => h + AsideAtEnd <= p
        BY <4>1
      <4> QED
        BY <1>8, <4>2
    <3>2. CASE rest = 0 /\ WStep >= MinStep
      BY <1>2, <1>3, <1>5, <1>6, <1>7, <1>13, <2>2, <2>3, <2>6, <2>7, <3>2
    <3> QED
      BY <1>1, <3>1, <3>2
  <2> QED
    BY <1>7, <1>8, <1>13, <2>9 DEF HandedInv
<1> QED
  BY <1>3, <1>10, <1>11, <1>12, <1>13

\* What OverlapIsBounded asks of a step.
Bounded ==
  handed' # handed =>
    \/ given # << >> /\ IsPrefix(given, given')
    \/ Head(given') > handed
    \/ Head(given') + CLength > handed + AsideAtEnd + WStep

\* A head margin is no longer than CLength, and between its segment and the
\* samples handed over before it lies what was put aside.
LEMMA TwiceStep ==
  ASSUME TwiceInv, Step
  PROVE  AsideLong' /\ HandedInv' /\ Bounded
<1> USE CutAssumption, MinStepAssumption
<1>1. HandInv /\ WStep > 0 /\ ~LastStep
  BY StepIsLong DEF TwiceInv, SilenceInv
<1>2. PICK z : \E hot \in BOOLEAN :
        CycleAt(z, Processed + WStep) /\ WStep <= z.valid_len /\ StepBy(z, hot)
  BY <1>1, StepIs
<1>3. PICK hot \in BOOLEAN :
        CycleAt(z, Processed + WStep) /\ WStep <= z.valid_len /\ StepBy(z, hot)
  BY <1>2
<1>4. AsideLong' /\ HandedInv'
  BY <1>3, AsideLongStep, HandedStep
<1>5. ASSUME handed' # handed
      PROVE  \/ given # << >> /\ IsPrefix(given, given')
             \/ Head(given') > handed
             \/ Head(given') + CLength > handed + AsideAtEnd + WStep
  <2> DEFINE g == Given(z, hot)
  <2>1. local /\ Taken(hot)
    BY <1>3, <1>5 DEF StepBy, Record, Given
  <2>2. /\ g # << >> /\ g \in Seq(1..MaxSamples)
        /\ is_valid_data => Head(g) = Processed - Pending + 1
        /\ ~is_valid_data => Head(g) = Processed' - z.valid_len + 1
    BY <1>1, <1>3, <2>1, GivenEnds
  <2>3. given' = IF hot /\ ~is_valid_data THEN g ELSE given \o g
    BY <1>3, <2>1 DEF StepBy, Record
  <2> HIDE DEF g
  <2>4. /\ Processed \in Nat /\ WStep \in Nat /\ Processed' = Processed + WStep
    BY <1>1, StepFacts
  <2>5. /\ is_valid_data \in BOOLEAN /\ handed \in Nat /\ given \in Seq(1..MaxSamples)
        /\ Pending \in Nat /\ AsideAtEnd \in Int
    BY <1>1, TailStepsAre DEF HandInv, SwapInv, SwapTypes, SampleTypes, Pending
  <2>6. /\ is_valid_data => handed <= Processed - Pending
        /\ ~is_valid_data => handed = 0 \/ handed + AsideAtEnd <= Processed
    BY <1>1 DEF TwiceInv, HandedInv
  <2>7. CASE ~is_valid_data
    <3>1. given' = g
      BY <2>1, <2>3, <2>7 DEF Taken
    <3>2. /\ z.valid_len \in Nat /\ z.valid_len <= CLength /\ z.valid_len <= Processed + WStep
      BY <1>3 DEF CycleAt
    <3>3. Head(g) > handed \/ Head(g) + CLength > handed + AsideAtEnd + WStep
      BY <2>2, <2>4, <2>5, <2>6, <2>7, <3>2, SMTT(30)
    <3> QED
      BY <3>1, <3>3
  <2>8. CASE is_valid_data
    <3>1. given' = given \o g
      BY <2>3, <2>8
    <3>2. CASE given = << >>
      <4>1. given' = g
        BY <2>2, <3>1, <3>2, ConcatEmptySeq
      <4>2. Head(g) > handed
        BY <2>2, <2>4, <2>5, <2>6, <2>8
      <4> QED
        BY <4>1, <4>2
    <3>3. CASE given # << >>
      <4> DEFINE n == Len(given)
      <4>1. n \in Nat /\ n \in 1..Len(given) /\ 1 \in 1..Len(given)
        BY <2>5, <3>3
      <4>2. Len(given \o g) = n + Len(g) /\ Len(g) \in Nat
        BY <2>2, <2>5, ConcatProperties
      <4>3. SubSeq(given \o g, 1, n) = SubSeq(given, 1, n)
        BY <2>2, <2>5, <4>1, SubSeqOfConcat1
      <4> QED
        BY <3>1, <3>3, <4>1, <4>2, <4>3 DEF IsPrefix
    <3> QED
      BY <3>2, <3>3
  <2> QED
    BY <2>5, <2>7, <2>8
<1> QED
  BY <1>4, <1>5 DEF Bounded

\* Nothing is given or put aside between the steps.
LEMMA TwiceOthers ==
  ASSUME TwiceInv,
         \/ \E cnt \in ReadSizes : \E kept \in 0..cnt : Read(cnt, kept)
         \/ \E status \in {-1, 0} : ReadEnd(status)
         \/ Purge \/ Finished \/ UNCHANGED vars
         \/ \E on \in BOOLEAN : Transfer(on)
  PROVE  AsideLong' /\ HandedInv' /\ UNCHANGED handed
<1>1. UNCHANGED <<is_valid_data, nc, rest_tail, swapbuf, handed>>
  BY DEF Read, ReadEnd, Purge, Finished, Transfer, vars, segment, history
<1>2. i \in Nat /\ current_len \in Nat /\ purged \in Nat /\ i <= current_len
  BY DEF TwiceInv, SilenceInv, HandInv, SwapInv, SwapTypes
<1>3. Processed' = Processed
  <2>1. CASE Purge
    <3>1. purged' = purged + i /\ i' = 0
      BY <2>1 DEF Purge
    <3> QED
      BY <1>2, <3>1 DEF Processed
  <2>2. CASE ~Purge
    <3>1. purged' = purged /\ i' = i
      BY <2>2 DEF Read, ReadEnd, Finished, Transfer, vars, buffer
    <3> QED
      BY <3>1 DEF Processed
  <2> QED
    BY <2>1, <2>2
<1>4. LastStep => LastStep'
  <2>1. CASE Purge
    <3>1. current_len' = current_len - i /\ i' = 0 /\ end_of_stream' = end_of_stream
      BY <2>1 DEF Purge, stream
    <3> QED
      BY <1>2, <3>1, MinStepAssumption DEF LastStep
  <2>2. CASE UNCHANGED <<i, current_len, end_of_stream>>
    BY <2>2 DEF LastStep
  <2>3. CASE ~end_of_stream
    BY <2>3 DEF LastStep
  <2> QED
    BY <2>1, <2>2, <2>3 DEF Read, ReadEnd, Finished, Transfer, vars, buffer, stream
<1>5. AsideLong'
  BY <1>1, <1>4 DEF TwiceInv, AsideLong, TailGiven, TailSteps, SbSize
<1>6. Pending' = Pending /\ AsideAtEnd' = AsideAtEnd
  BY <1>1 DEF Pending, AsideAtEnd, NcMax, TailSteps, TailGiven, SbSize
<1>7. HandedInv'
  BY <1>1, <1>3, <1>4, <1>6 DEF TwiceInv, HandedInv
<1> QED
  BY <1>1, <1>5, <1>7

\* Before the first step nothing is given, and nothing is put aside.
LEMMA TwiceInit == Init => SilenceInv /\ TwiceInv
<1> USE CutAssumption, MinStepAssumption
<1>1. Init => BatchInv /\ SilenceCounted
  BY DEF Init, BatchInv, SilenceCounted
<1>2. Init => SilenceInv
  BY <1>1, HandInit, CutTypesInit DEF SilenceInv
<1>3. Init => AsideLong
  BY DEF Init, AsideLong
<1>4. Init => HandedInv
  BY DEF Init, HandedInv, Processed
<1> QED
  BY <1>2, <1>3, <1>4 DEF TwiceInv

\* Every step of the system keeps the invariant, and ends a segment in time.
LEMMA SilenceNext ==
  ASSUME SilenceInv, [Next]_vars
  PROVE  SilenceInv' /\ (EndsBySilence \/ UNCHANGED vars)
<1>1. HandInv' /\ CutTypes'
  BY HandNext, CutTypesNext DEF SilenceInv
<1>2. CASE Step
  BY <1>1, <1>2, SilenceStep DEF SilenceInv
<1>3. CASE ~Step
  <2>1. BatchInv' /\ SilenceCounted' /\ UNCHANGED <<is_valid_data, nc, silence>>
    BY <1>3, SilenceOthers DEF Next
  <2>2. SilenceInv'
    BY <1>1, <2>1 DEF SilenceInv
  <2>3. EndsBySilence
    <3> SUFFICES ASSUME is_valid_data PROVE silence <= ChunkSize * (NcMax - 1)
      BY <2>1 DEF EndsBySilence
    <3>1. /\ nc \in Nat /\ silence \in Nat /\ NcMax \in Nat /\ nc < NcMax
          /\ silence <= ChunkSize * nc
      BY NcMaxFits
      DEF SilenceInv, SilenceCounted, HandInv, SwapInv, SwapTypes, CutTypes, SilenceShort
    <3>2. nc <= NcMax - 1 /\ NcMax - 1 \in Int /\ nc \in Int
      BY <3>1
    <3>3. ChunkSize * nc <= ChunkSize * (NcMax - 1)
      BY <3>2, Times, CutAssumption
    <3> DEFINE most == ChunkSize * nc  limit == ChunkSize * (NcMax - 1)
    <3>4. most \in Int /\ limit \in Int /\ silence <= most /\ most <= limit
      BY <3>1, <3>2, <3>3, Times, CutAssumption
    <3> HIDE DEF most, limit
    <3>5. silence <= limit
      BY <3>1, <3>4
    <3> QED
      BY <3>5 DEF limit
  <2> QED
    BY <2>2, <2>3
<1> QED
  BY <1>2, <1>3

LEMMA TwiceNext ==
  ASSUME TwiceInv, [Next]_vars
  PROVE  TwiceInv' /\ Bounded
<1>1. SilenceInv'
  BY SilenceNext DEF TwiceInv
<1>2. CASE Step
  BY <1>1, <1>2, TwiceStep DEF TwiceInv
<1>3. CASE ~Step
  <2>1. AsideLong' /\ HandedInv' /\ UNCHANGED handed
    BY <1>3, TwiceOthers DEF Next
  <2> QED
    BY <1>1, <2>1 DEF TwiceInv, Bounded
<1> QED
  BY <1>2, <1>3

-----------------------------------------------------------------------------
(* The theorems.                                                           *)

\* What adin_cut passes on of a segment is a run of consecutive samples that
\* ends with the newest one not put aside: head margin, segment, tail margin and
\* swapped samples join without a gap or a repetition, for every chunk length,
\* every margin, every fragmentation of the input, and whenever the process
\* thread switches the transfer on and off (adin-cut.c:560-760).
THEOREM GivenHasNoGap == Spec => []GivenWithoutGap
<1>1. HandInv => GivenWithoutGap
  BY DEF HandInv, GivenInv, EndsAt, Until, GivenWithoutGap
<1> QED
  BY <1>1, HandInit, HandNext, PTL DEF Spec

\* zc_copy_buffer returns the newest samples in order and zero_cross counts the
\* crossings among them, wherever the ring has wrapped (zc-e.c:116-178).
THEOREM CycleHoldsLastSamples == Spec => []CycleIsLastSamples
<1>1. HandInv => CycleIsLastSamples
  <2> SUFFICES ASSUME HandInv PROVE CycleIsLastSamples
    OBVIOUS
  <2> DEFINE z == [data |-> data, is_zc |-> is_zc, top |-> top, valid_len |-> valid_len]
  <2>1. CycleAt(Cycle, Processed) /\ Processed \in Nat
    BY DEF HandInv, CycleInv, SwapInv, SwapTypes, Processed
  <2>2. Copy(z) = Copy(Cycle)
    BY DEF Copy, Cycle
  <2>3. Copy(Cycle) = Until(Processed, Cycle.valid_len)
    BY <2>1, CopyIs
  <2>4. Copy(z) = Run(Processed - valid_len + 1, Processed)
    BY <2>2, <2>3 DEF Until, Cycle
  <2>5. DOMAIN is_zc = Slots /\ zero_cross = Cardinality({s \in Slots : is_zc[s]})
    BY <2>1 DEF CycleAt, Cycle
  <2> QED
    BY <2>4, <2>5 DEF CycleIsLastSamples
<1> QED
  BY <1>1, HandInit, HandNext, PTL DEF Spec

\* Types, with the limits that follow from the counts: nc never passes nc_max,
\* rest_tail never leaves the swap buffer's size and never goes below zero, and
\* no more crossings are counted than the cycle buffer has samples.
THEOREM CutTypeCorrect == Spec => []TypeOK
<1>1. HandInv /\ CutTypes => TypeOK
  <2> USE CutAssumption
  <2> SUFFICES ASSUME HandInv, CutTypes PROVE TypeOK
    OBVIOUS
  <2>1. /\ current_len \in Nat /\ i \in Nat /\ i <= current_len /\ purged \in Nat
        /\ total_captured \in Nat /\ stripped \in Nat /\ is_valid_data \in BOOLEAN
        /\ nc \in Nat /\ rest_tail \in Nat
    BY DEF HandInv, SwapInv, SwapTypes
  <2>2. purged \in 0..MaxSamples /\ current_len \in 0..MaxSamples /\ i \in 0..current_len
    BY <2>1 DEF HandInv, CaptureInv
  <2>3. stripped \in 0..MaxStrip
    BY <2>1 DEF HandInv, CaptureInv
  <2>4. nc \in 0..NcMax /\ rest_tail \in 0..SbSize
    BY <2>1, NcMaxFits DEF CutTypes
  <2>5. is_zc \in [Slots -> BOOLEAN] /\ top \in Slots /\ valid_len \in 0..CLength
    BY DEF HandInv, CycleInv, CycleAt, Cycle
  <2>6. zero_cross \in 0..CLength
    <3> DEFINE counted == {s \in Slots : is_zc[s]}
    <3>1. zero_cross = Cardinality(counted) /\ counted \subseteq Slots
      BY DEF HandInv, CycleInv, CycleAt, Cycle
    <3>2. IsFiniteSet(Slots) /\ Cardinality(Slots) = CLength
      <4> DEFINE last == CLength - 1
      <4>1. last \in Int /\ last + 1 = CLength /\ ~(0 > last) /\ last - 0 + 1 = CLength
        OBVIOUS
      <4> HIDE DEF last
      <4>2. IsFiniteSet(0..last) /\ Cardinality(0..last) = last - 0 + 1
        BY <4>1, FS_Interval
      <4> QED
        BY <4>1, <4>2 DEF last, Slots
    <3> HIDE DEF counted
    <3>3. IsFiniteSet(counted) /\ Cardinality(counted) <= Cardinality(Slots)
      BY <3>1, <3>2, FS_Subset
    <3>4. Cardinality(counted) \in Nat
      BY <3>3, FS_CardinalityType
    <3> QED
      BY <3>1, <3>2, <3>3, <3>4
  <2>7. data \in [0..CLength - 1 -> 0..MaxSamples] /\ is_zc \in [0..CLength - 1 -> BOOLEAN]
    BY <2>5 DEF CutTypes, Slots
  <2>8. top \in 0..CLength - 1
    BY <2>5 DEF Slots
  <2> QED
    BY <2>1, <2>2, <2>3, <2>4, <2>5, <2>6, <2>7, <2>8 DEF TypeOK, CutTypes, HandInv, SampleTypes
<1> QED
  BY <1>1, HandInit, HandNext, CutTypesInit, CutTypesNext, PTL DEF Spec

\* However the device cuts the samples into fragments, a segment ends by silence
\* after no fewer than NcMax steps, the last of them perhaps a short one, and no
\* later than after NcMax chunks (adin-cut.c:522, 714-733, 839).
THEOREM SilenceHasItsLength == Spec => SilenceEndsSegment
<1>1. Init => SilenceInv
  BY TwiceInit
<1>2. SilenceInv /\ [Next]_vars => SilenceInv' /\ [EndsBySilence]_vars
  BY SilenceNext
<1>3. SilenceEndsSegment <=> [][EndsBySilence]_vars
  BY PTL DEF SilenceEndsSegment, EndsBySilence
<1> QED
  BY <1>1, <1>2, <1>3, PTL DEF Spec

\* The head margin of a segment reaches back into what the segment before was
\* given by no more than CLength less what a silence puts aside at least and
\* the triggering step, for any margins, fragments and switching of the
\* transfer (adin-cut.c:167-176, 589, 725-787, 839).
THEOREM OverlapHasBound == Spec => OverlapIsBounded
<1>1. Init => TwiceInv
  BY TwiceInit
<1>2. TwiceInv /\ [Next]_vars => TwiceInv' /\ [Bounded]_vars
  BY TwiceNext
<1>3. OverlapIsBounded <=> [][Bounded]_vars
  BY PTL DEF OverlapIsBounded, Bounded
<1> QED
  BY <1>1, <1>2, <1>3, PTL DEF Spec

=============================================================================
