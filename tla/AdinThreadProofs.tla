-------------------------- MODULE AdinThreadProofs --------------------------
(***************************************************************************)
(* Proofs about AdinThread, for every value of its constants: first that   *)
(* the two threads keep speech[] within its bound and unchanged while it   *)
(* is read, then that the samples reach the 1st pass in order and without  *)
(* a gap, and that a head margin repeats no more than the Overlap.         *)
(***************************************************************************)
EXTENDS AdinThread, SequenceTheorems, TLAPS

\* The A/D-in thread: what its program counter says of its own state.  A store
\* call is pending only if the batch saw the transfer online, and a block that
\* passed the unlocked test still fits when it is appended.
AdinInv ==
  /\ apc \in {"chunk", "test", "overflow", "append", "next"} =>
       batch >= 1 /\ captured + batch <= MaxChunks
  /\ apc \in {"test", "overflow", "append"} <=> todo # << >>
  /\ todo # << >> => local
  /\ seg_end <=> is_valid_data /\ nc >= NcMax
  /\ apc \in {"read", "chunk", "exit", "dead"} => ~seg_end
  /\ apc = "append" => Fits(todo[1])

\* The process thread: the lengths it remembers stay within speech[] while the
\* other thread appends, and the flag it polled stays FALSE once FALSE.
MainInv ==
  /\ InCall => prev_len <= Len(speech)
  /\ mpc \in {"check", "terminate", "process", "segment", "error", "reset"} =>
       prev_len <= nowlen /\ nowlen <= Len(speech)
  /\ mpc \in {"process", "segment", "error"} => prev_len < nowlen
  /\ mpc = "reset" => prev_len = nowlen /\ ~online_local
  /\ mpc = "overflow" => overflowed
  /\ mpc \in {"check", "reset"} /\ ~online_local =>
       ~transfer_online /\ Len(speech) = nowlen

\* The handshake: within a call the transfer is offline only if the A/D-in
\* thread knows it, and after a segment closed by silence it stores nothing.
HandshakeInv ==
  /\ InCall /\ ~transfer_online => ~local
  /\ mpc = "idle" /\ ret = 1 /\ ~overflowed =>
       ~local /\ ~transfer_online /\ speech = << >>

IndInv ==
  /\ TypeOK /\ AdinInv /\ MainInv /\ HandshakeInv
  /\ BufferBounded /\ SliceStable

-----------------------------------------------------------------------------
\* A run of consecutive chunks is a sequence of naturals.
LEMMA RunType ==
  ASSUME NEW lo \in Nat, NEW hi \in Nat
  PROVE  Run(lo, hi) \in Seq(Nat)
<1> DEFINE n == IF hi < lo THEN 0 ELSE hi - lo + 1
<1>1. n \in Nat
  OBVIOUS
<1>2. \A i \in 1..n : lo + i - 1 \in Nat
  OBVIOUS
<1> HIDE DEF n
<1>3. [i \in 1..n |-> lo + i - 1] \in Seq(Nat)
  BY <1>1, <1>2
<1> QED
  BY <1>3 DEF Run, n

\* The store calls of a chunk are blocks of chunk numbers, and there are none
\* unless the batch saw the transfer online.
LEMMA StoreCallsType ==
  ASSUME TypeOK, NEW loud \in BOOLEAN
  PROVE  /\ StoreCalls(loud) \in Seq(Seq(Nat))
         /\ ~local => StoreCalls(loud) = << >>
<1> DEFINE c == captured + 1
           trigger == IF loud /\ ~is_valid_data /\ HeadMargin(c) # << >>
                      THEN << HeadMargin(c) >> ELSE << >>
           retrigger == IF loud /\ is_valid_data /\ nc > 0 /\ swapbuf # << >>
                        THEN << swapbuf >> ELSE << >>
           current == IF (is_valid_data \/ loud) /\ ~Swapped(loud)
                      THEN << <<c>> >> ELSE << >>
<1>1. captured \in Nat /\ c \in Nat /\ c - 1 \in Nat /\ swapbuf \in Seq(Nat)
  BY ConstAssumption DEF TypeOK
<1>2. (IF c > HeadLen THEN c - HeadLen ELSE 1) \in Nat
  BY <1>1, ConstAssumption
<1>3. HeadMargin(c) \in Seq(Nat)
  BY <1>1, <1>2, RunType DEF HeadMargin
<1>4. <<c>> \in Seq(Nat)
  BY <1>1
<1>5. trigger \in Seq(Seq(Nat)) /\ retrigger \in Seq(Seq(Nat)) /\ current \in Seq(Seq(Nat))
  BY <1>1, <1>3, <1>4
<1>6. StoreCalls(loud) = IF local THEN trigger \o retrigger \o current ELSE << >>
  BY DEF StoreCalls
<1> HIDE DEF trigger, retrigger, current
<1>7. trigger \o retrigger \o current \in Seq(Seq(Nat))
  BY <1>5
<1> QED
  BY <1>6, <1>7

\* The swap buffer stays a sequence of chunk numbers.
LEMMA SwapAfterType ==
  ASSUME TypeOK, NEW loud \in BOOLEAN
  PROVE  SwapAfter(loud) \in Seq(Nat)
<1>1. captured + 1 \in Nat /\ swapbuf \in Seq(Nat)
  BY ConstAssumption DEF TypeOK
<1> QED
  BY <1>1 DEF SwapAfter

-----------------------------------------------------------------------------
\* Every initial state satisfies the inductive invariant.
LEMMA InitInd == Init => IndInv
<1> SUFFICES ASSUME Init PROVE IndInv
  OBVIOUS
<1> USE ConstAssumption DEF Init
<1>1. TypeOK
  <2>1. << >> \in Seq(Nat) /\ << >> \in Seq(Seq(Nat))
    OBVIOUS
  <2>2. apc \in AdinPC /\ mpc \in MainPC
    BY DEF AdinPC, MainPC
  <2>3. batch \in 0..MaxBatch /\ nc \in 0..NcMax /\ captured \in 0..MaxChunks
    OBVIOUS
  <2>4. ret \in {-2, -1, 0, 1, 2} /\ prev_len \in Nat /\ nowlen \in Nat /\ last_given \in Nat
    OBVIOUS
  <2> QED
    BY <2>1, <2>2, <2>3, <2>4 DEF TypeOK
<1>2. AdinInv
  BY DEF AdinInv
<1>3. MainInv /\ HandshakeInv
  BY DEF MainInv, HandshakeInv, InCall
<1>4. BufferBounded /\ SliceStable
  BY DEF BufferBounded, SliceStable
<1> QED
  BY <1>1, <1>2, <1>3, <1>4 DEF IndInv

\* The device steps preserve it: a batch starts with a fresh copy of the flag.
LEMMA DeviceInd == IndInv /\ Device => IndInv'
<1> SUFFICES ASSUME IndInv, Device PROVE IndInv'
  OBVIOUS
<1> USE ConstAssumption
    DEF IndInv, TypeOK, AdinInv, MainInv, HandshakeInv, BufferBounded, SliceStable,
        InCall, AdinPC, MainPC, shared, mainVars, history, Fits
<1>1. ASSUME NEW n \in 1..MaxBatch, ReadBatch(n) PROVE IndInv'
  BY <1>1 DEF ReadBatch
<1>2. CASE ReadEnd
  BY <1>2 DEF ReadEnd
<1> QED
  BY <1>1, <1>2 DEF Device

\* Trigger detection on a chunk leaves the shared state alone, and asks for
\* store calls only while the batch is online.
LEMMA ChunkInd == ASSUME IndInv, NEW loud \in BOOLEAN, Chunk(loud) PROVE IndInv'
<1> USE ConstAssumption DEF IndInv
<1>1. todo' = StoreCalls(loud) /\ todo' \in Seq(Seq(Nat)) /\ (todo' # << >> => local)
  BY StoreCallsType DEF Chunk
<1>2. swapbuf' \in Seq(Nat)
  BY SwapAfterType DEF Chunk
<1>3. nc' \in 0..NcMax /\ is_valid_data' \in BOOLEAN /\ seg_end' \in BOOLEAN
  <2>1. is_valid_data => nc < NcMax
    BY DEF Chunk, AdinInv, TypeOK
  <2>2. nc' \in 0..NcMax
    BY <2>1 DEF Chunk, NcAfter, TypeOK
  <2> QED
    BY <2>2 DEF Chunk, TypeOK
<1>4. apc' \in AdinPC /\ (apc' \in {"test", "overflow", "append"} <=> todo' # << >>)
      /\ apc' \in {"test", "next"}
  BY <1>1 DEF Chunk, AfterStore, AdinPC
<1>5. TypeOK'
  BY <1>1, <1>2, <1>3, <1>4 DEF Chunk, TypeOK, shared, mainVars, history
<1>6. AdinInv'
  BY <1>1, <1>4, Zenon DEF Chunk, AdinInv, shared, mainVars, history
<1>7. MainInv' /\ HandshakeInv' /\ BufferBounded' /\ SliceStable'
  BY DEF Chunk, MainInv, HandshakeInv, BufferBounded, SliceStable, InCall,
         shared, mainVars, history
<1> QED
  BY <1>5, <1>6, <1>7

\* The unlocked test of adin_store_buffer.
LEMMA StoreTestInd == ASSUME IndInv, StoreTest PROVE IndInv'
BY ConstAssumption
   DEF IndInv, StoreTest, TypeOK, AdinInv, MainInv, HandshakeInv, BufferBounded,
       SliceStable, InCall, AdinPC, MainPC, shared, mainVars, history, Fits

\* A pending call is removed from todo.
LEMMA TodoTail ==
  ASSUME IndInv, todo # << >>, todo' = Tail(todo), apc' = AfterStore(todo')
  PROVE  /\ todo' \in Seq(Seq(Nat)) /\ todo[1] \in Seq(Nat)
         /\ apc' \in AdinPC /\ apc' \in {"test", "next"}
         /\ apc' \in {"test", "overflow", "append"} <=> todo' # << >>
         /\ local
BY SMTT(30) DEF IndInv, TypeOK, AdinInv, AfterStore, AdinPC

\* Dropping a block only sets the flag.
LEMMA StoreOverflowInd == ASSUME IndInv, StoreOverflow PROVE IndInv'
<1>1. todo # << >>
  BY DEF IndInv, AdinInv, StoreOverflow
<1>2. /\ todo' \in Seq(Seq(Nat)) /\ apc' \in AdinPC /\ apc' \in {"test", "next"}
      /\ apc' \in {"test", "overflow", "append"} <=> todo' # << >>
      /\ local
  BY <1>1, TodoTail DEF StoreOverflow
<1>3. TypeOK'
  BY <1>2 DEF IndInv, StoreOverflow, TypeOK, mainVars, history
<1>4. AdinInv'
  BY <1>2 DEF IndInv, StoreOverflow, AdinInv, mainVars, history
<1>5. MainInv' /\ HandshakeInv' /\ BufferBounded' /\ SliceStable'
  BY DEF IndInv, StoreOverflow, MainInv, HandshakeInv, BufferBounded, SliceStable,
         InCall, mainVars, history
<1> QED
  BY <1>3, <1>4, <1>5 DEF IndInv

\* Appending a block extends speech[]: the slice being read stays as it is, and
\* since the caller holds local, no call that saw the transfer offline is open.
LEMMA StoreAppendInd == ASSUME IndInv, StoreAppend PROVE IndInv'
<1>1. todo # << >>
  BY DEF IndInv, AdinInv, StoreAppend
<1>2. /\ todo' \in Seq(Seq(Nat)) /\ todo[1] \in Seq(Nat)
      /\ apc' \in AdinPC /\ apc' \in {"test", "next"}
      /\ apc' \in {"test", "overflow", "append"} <=> todo' # << >>
      /\ local
  BY <1>1, TodoTail DEF StoreAppend
<1>3. speech \in Seq(Nat) /\ prev_len \in Nat /\ nowlen \in Nat
  BY DEF IndInv, TypeOK
<1>4. speech' = speech \o todo[1]
  BY DEF StoreAppend
<1>5. speech' \in Seq(Nat) /\ Len(speech') = Len(speech) + Len(todo[1])
      /\ Len(speech) \in Nat /\ Len(todo[1]) \in Nat
  BY <1>2, <1>3, <1>4
<1>6. TypeOK'
  BY <1>2, <1>5 DEF IndInv, StoreAppend, TypeOK, mainVars, history
<1>7. AdinInv'
  BY <1>2 DEF IndInv, StoreAppend, AdinInv, mainVars, history
<1>8. InCall => transfer_online
  BY <1>2 DEF IndInv, HandshakeInv
<1>9. ~(mpc = "idle" /\ ret = 1 /\ ~overflowed)
  BY <1>2 DEF IndInv, HandshakeInv
<1>10. MainInv' /\ HandshakeInv'
  BY <1>3, <1>5, <1>8, <1>9 DEF IndInv, StoreAppend, MainInv, HandshakeInv, InCall, mainVars
<1>11. BufferBounded'
  BY <1>5 DEF IndInv, StoreAppend, AdinInv, BufferBounded, Fits
<1>12. SliceStable'
  <2> SUFFICES ASSUME mpc = "process"
               PROVE  nowlen <= Len(speech') /\ slice = SubSeq(speech', prev_len + 1, nowlen)
    BY DEF SliceStable, StoreAppend, mainVars, history
  <2>1. prev_len < nowlen /\ nowlen <= Len(speech) /\ slice = SubSeq(speech, prev_len + 1, nowlen)
    BY DEF IndInv, MainInv, SliceStable
  <2>2. prev_len + 1 \in 1..Len(speech) /\ nowlen \in 1..Len(speech)
    BY <1>3, <1>5, <2>1
  <2>3. SubSeq(speech \o todo[1], prev_len + 1, nowlen) = SubSeq(speech, prev_len + 1, nowlen)
    BY <1>2, <1>3, <2>2, SubSeqOfConcat1
  <2> QED
    BY <1>4, <1>5, <1>3, <2>1, <2>3
<1> QED
  BY <1>6, <1>7, <1>10, <1>11, <1>12 DEF IndInv

\* The end of a chunk: a segment that ends takes both copies of the flag down.
LEMMA NextChunkInd == ASSUME IndInv, NextChunk PROVE IndInv'
<1> USE ConstAssumption DEF IndInv, NextChunk, StopTransfer, mainVars, history
<1>1. TypeOK'
  <2>1. captured' \in 0..MaxChunks /\ batch' \in 0..MaxBatch
    BY DEF TypeOK, AdinInv
  <2>2. apc' \in AdinPC /\ seg_end' \in BOOLEAN
    BY DEF AdinPC
  <2>3. /\ is_valid_data' \in BOOLEAN /\ local' \in BOOLEAN /\ transfer_online' \in BOOLEAN
        /\ swapbuf' \in Seq(Nat)
    <3>1. CASE seg_end
      <4>1. /\ is_valid_data' = FALSE /\ local' = FALSE /\ transfer_online' = FALSE
            /\ swapbuf' = << >>
        BY <3>1
      <4>2. << >> \in Seq(Nat)
        OBVIOUS
      <4> QED
        BY <4>1, <4>2
    <3>2. CASE ~seg_end
      BY <3>2 DEF TypeOK
    <3> QED
      BY <3>1, <3>2
  <2> QED
    BY <2>1, <2>2, <2>3 DEF TypeOK
<1>2. AdinInv'
  BY DEF AdinInv, TypeOK
<1>3. MainInv' /\ HandshakeInv' /\ BufferBounded' /\ SliceStable'
  BY DEF MainInv, HandshakeInv, BufferBounded, SliceStable, InCall, AdinInv, TypeOK
<1> QED
  BY <1>1, <1>2, <1>3

\* The thread exits.
LEMMA ThreadExitInd == ASSUME IndInv, ThreadExit PROVE IndInv'
BY ConstAssumption
   DEF IndInv, ThreadExit, TypeOK, AdinInv, MainInv, HandshakeInv, BufferBounded,
       SliceStable, InCall, AdinPC, MainPC, mainVars, history, Fits

\* The process thread opens a call: the transfer goes online and prev_len is 0.
LEMMA ProcessBeginInd == ASSUME IndInv, ProcessBegin PROVE IndInv'
<1> USE DEF IndInv, ProcessBegin, adinVars
<1>1. TypeOK'
  BY DEF TypeOK, MainPC
<1>2. AdinInv'
  BY DEF AdinInv, Fits
<1>3. MainInv' /\ HandshakeInv' /\ BufferBounded' /\ SliceStable'
  BY DEF MainInv, HandshakeInv, BufferBounded, SliceStable, InCall, TypeOK
<1> QED
  BY <1>1, <1>2, <1>3

\* The locked read gives values that are current when it is made.
LEMMA PollInd == ASSUME IndInv, Poll PROVE IndInv'
<1> USE DEF IndInv, Poll, Gone, adinVars, shared, history
<1>1. TypeOK'
  BY DEF TypeOK, MainPC
<1>2. AdinInv'
  BY DEF AdinInv, Fits
<1>3. MainInv' /\ HandshakeInv' /\ BufferBounded' /\ SliceStable'
  BY DEF MainInv, HandshakeInv, BufferBounded, SliceStable, InCall, TypeOK
<1> QED
  BY <1>1, <1>2, <1>3

\* ad_check, and the choice of what the polled values call for.
LEMMA AdCheckInd == ASSUME IndInv, NEW i \in CheckReturns, AdCheck(i) PROVE IndInv'
<1> USE DEF IndInv, AdCheck, SegmentOver, adinVars, shared
<1>0. i \in {0, -1, -2}
  BY ConstAssumption
<1>1. speech \in Seq(Nat) /\ prev_len \in Nat /\ nowlen \in Nat
      /\ prev_len <= nowlen /\ nowlen <= Len(speech)
  BY DEF TypeOK, MainInv
<1>2. slice' \in Seq(Nat)
  <2>1. \A k \in prev_len + 1 .. nowlen : speech[k] \in Nat
    BY <1>1
  <2>2. SubSeq(speech, prev_len + 1, nowlen) \in Seq(Nat)
    BY <1>1, <2>1, SubSeqProperties
  <2> QED
    BY <2>2
<1>3. TypeOK'
  <2>1. mpc' \in MainPC
    BY DEF MainPC
  <2> QED
    BY <1>2, <2>1 DEF TypeOK
<1>4. AdinInv'
  BY DEF AdinInv, Fits
<1>5. MainInv' /\ HandshakeInv' /\ BufferBounded'
  BY <1>0, <1>1 DEF MainInv, HandshakeInv, BufferBounded, InCall, TypeOK
<1>6. SliceStable'
  BY <1>1 DEF SliceStable
<1> QED
  BY <1>3, <1>4, <1>5, <1>6

\* ad_process returns; the slice it read lies within speech[].
LEMMA AdProcessInd == ASSUME IndInv, NEW r \in {0, 1, -1}, AdProcess(r) PROVE IndInv'
<1> USE DEF IndInv, AdProcess, adinVars, shared
<1>1. speech \in Seq(Nat) /\ prev_len \in Nat /\ nowlen \in Nat
      /\ prev_len < nowlen /\ nowlen <= Len(speech)
  BY DEF TypeOK, MainInv
<1>2. speech[nowlen] \in Nat
  BY <1>1
<1>3. mpc' \in {"segment", "error", "poll"} /\ (r # 0 => prev_len' = prev_len)
      /\ (mpc' # "poll" => r # 0) /\ prev_len' \in Nat /\ prev_len' <= Len(speech)
  BY <1>1
<1>4. TypeOK'
  BY <1>2, <1>3 DEF TypeOK, MainPC
<1>5. AdinInv'
  BY DEF AdinInv, Fits
<1>6. MainInv' /\ HandshakeInv' /\ BufferBounded' /\ SliceStable'
  BY <1>1, <1>3 DEF MainInv, HandshakeInv, BufferBounded, SliceStable, InCall, TypeOK
<1> QED
  BY <1>4, <1>5, <1>6

\* The four returns that empty, shorten or keep speech[] never lengthen it, so
\* a block that was found to fit still fits.
LEMMA ReturnInd ==
  ASSUME IndInv,
         OverflowReturn \/ TerminateReturn \/ SegmentReturn \/ ErrorReturn \/ SilenceReturn
  PROVE  IndInv'
<1> USE DEF IndInv, OverflowReturn, TerminateReturn, SegmentReturn, ErrorReturn,
            SilenceReturn, Purged, Return, adinVars, history
<1>1. speech \in Seq(Nat) /\ nowlen \in Nat /\ Len(speech) \in Nat
  BY DEF TypeOK
<1>2. SegmentReturn => speech' \in Seq(Nat) /\ Len(speech') <= Len(speech)
  <2> SUFFICES ASSUME SegmentReturn
               PROVE  speech' \in Seq(Nat) /\ Len(speech') <= Len(speech)
    OBVIOUS
  <2>1. \A k \in nowlen + 1 .. Len(speech) : speech[k] \in Nat
    BY <1>1
  <2>2. /\ SubSeq(speech, nowlen + 1, Len(speech)) \in Seq(Nat)
        /\ Len(SubSeq(speech, nowlen + 1, Len(speech)))
             = IF nowlen + 1 <= Len(speech) THEN Len(speech) - (nowlen + 1) + 1 ELSE 0
    BY <1>1, <2>1, SubSeqProperties
  <2> QED
    BY <1>1, <2>2
<1>3. speech' \in Seq(Nat) /\ Len(speech') <= Len(speech) /\ Len(speech') \in Nat
  <2>1. << >> \in Seq(Nat) /\ Len(<< >>) = 0
    OBVIOUS
  <2>2. CASE SegmentReturn
    BY <1>2, <2>2
  <2>3. CASE ~SegmentReturn
    <3>1. speech' = << >> \/ speech' = speech
      BY <2>3
    <3>2. CASE speech' = << >>
      BY <1>1, <2>1, <3>2
    <3>3. CASE speech' = speech
      BY <1>1, <3>3
    <3> QED
      BY <3>1, <3>2, <3>3
  <2> QED
    BY <2>2, <2>3
<1>4. TypeOK'
  BY <1>3, ZenonT(40) DEF TypeOK, MainPC
<1>5. AdinInv'
  <2>1. apc = "append" => Len(todo[1]) \in Nat
    BY DEF TypeOK, AdinInv
  <2> QED
    BY <1>1, <1>3, <2>1, ConstAssumption DEF AdinInv, Fits
<1>6. MainInv' /\ BufferBounded' /\ SliceStable'
  BY <1>1, <1>3, ConstAssumption DEF MainInv, BufferBounded, SliceStable, InCall
<1>7. HandshakeInv'
  BY DEF HandshakeInv, MainInv, InCall
<1> QED
  BY <1>4, <1>5, <1>6, <1>7

-----------------------------------------------------------------------------
\* The inductive invariant holds in every reachable state of the two threads.
THEOREM Invariance == Spec => []IndInv
<1>1. IndInv /\ [Next]_vars => IndInv'
  <2> SUFFICES ASSUME IndInv, [Next]_vars PROVE IndInv'
    OBVIOUS
  <2>1. CASE AdinStep
    BY <2>1, ChunkInd, StoreTestInd, StoreOverflowInd, StoreAppendInd, NextChunkInd,
       ThreadExitInd DEF AdinStep
  <2>2. CASE Device
    BY <2>2, DeviceInd
  <2>3. CASE MainStep
    BY <2>3, ProcessBeginInd, PollInd, AdCheckInd, AdProcessInd, ReturnInd DEF MainStep
  <2>4. CASE UNCHANGED vars
    BY <2>4 DEF IndInv, TypeOK, AdinInv, MainInv, HandshakeInv, BufferBounded, SliceStable,
                InCall, Fits, vars, shared, adinVars, mainVars, history
  <2> QED
    BY <2>1, <2>2, <2>3, <2>4 DEF Next
<1> QED
  BY <1>1, InitInd, PTL DEF Spec

\* Type correctness of the two threads of adin-cut.c, whatever the sizes.
THEOREM TypeCorrect == Spec => []TypeOK
<1>1. IndInv => TypeOK
  BY DEF IndInv
<1> QED
  BY <1>1, Invariance, PTL

\* The unlocked overflow test is safe: speech[] never outgrows MAXSPEECHLEN.
THEOREM SpeechFits == Spec => []BufferBounded
<1>1. IndInv => BufferBounded
  BY DEF IndInv
<1> QED
  BY <1>1, Invariance, PTL

\* ad_process may read speech[prev_len..nowlen-1] without the lock.
THEOREM UnlockedReadSafe == Spec => []SliceStable
<1>1. IndInv => SliceStable
  BY DEF IndInv
<1> QED
  BY <1>1, Invariance, PTL

\* Closing a segment that ended by silence discards no unprocessed sample.
THEOREM NothingLostAtSilence == Spec => []SilenceLosesNothing
<1>1. IndInv => SilenceLosesNothing
  BY DEF IndInv, MainInv, SilenceLosesNothing
<1> QED
  BY <1>1, Invariance, PTL

\* After a segment that ended by silence, the next call starts empty.
THEOREM NextCallStartsEmpty == Spec => []CleanRestart
<1>1. IndInv => CleanRestart
  BY DEF IndInv, HandshakeInv, CleanRestart
<1> QED
  BY <1>1, Invariance, PTL

-----------------------------------------------------------------------------
(* The order of the samples.  The argument follows the newest chunk that    *)
(* can have been stored.  In a segment it is the last one heard, less the   *)
(* silence in swapbuf; between segments it lies a head margin back, but for *)
(* the Overlap: the silence that ended the segment was longer than what was *)
(* stored of it.  The blocks of the next store calls begin right behind it. *)

\* The chunks that went through the trigger detection.
Storing == apc \in {"test", "overflow", "append"}
Heard == captured + (IF Storing \/ apc = "next" THEN 1 ELSE 0)

\* The newest chunk of the segment that is not in swapbuf.
Newest == Heard - (IF nc > TailStore THEN nc - TailStore ELSE 0)

\* Chunk x is less than Overlap behind all that may be stored from now on; 0
\* is none.
NotAfter(x) ==
  /\ x <= Heard
  /\ IF todo # << >> THEN x < todo[1][1] + Overlap
     ELSE IF is_valid_data THEN x <= Newest
     ELSE x = 0 \/ x <= Heard - HeadLen + Overlap

\* What the trigger detection has prepared: the silence behind Newest is in
\* swapbuf, and the store calls end with the chunk just heard.
VadInv ==
  /\ is_valid_data => nc <= Heard
  /\ is_valid_data /\ nc > 0 => swapbuf = Run(Newest + 1, Heard)
  /\ todo # << >> =>
       /\ is_valid_data /\ nc <= TailStore
       /\ \/ todo = << <<Heard>> >>
          \/ \E lo \in 1..captured : todo = << Run(lo, captured), <<Heard>> >>

\* How much of speech[] was given to the 1st pass.
GivenUpTo ==
  IF mpc \in {"segment", "error"} THEN nowlen ELSE IF mpc = "idle" THEN 0 ELSE prev_len

Rising(s) == \A j, k \in DOMAIN s : j < k => s[j] < s[k] + Overlap

OrderInv ==
  /\ Rising(speech)
  /\ mpc # "stopped" => \A k \in DOMAIN speech : k > GivenUpTo => last_given < speech[k] + Overlap
  /\ mpc = "segment" => last_given = speech[nowlen]
  /\ \A k \in DOMAIN speech : NotAfter(speech[k])
  /\ NotAfter(last_given)

\* In a call what speech[] holds; after a call that the 1st pass ended within
\* the segment the chunk it was given last, and what is kept behind it.
Line == IF mpc = "idle" THEN <<last_given>> \o speech ELSE speech

\* What is stored next continues the line, or nothing is stored any more.
Continues ==
  Line # << >> =>
    /\ ~local => ~transfer_online
    /\ local => IF todo # << >> THEN Line[Len(Line)] + 1 = todo[1][1]
                ELSE is_valid_data /\ Line[Len(Line)] = Newest

\* A call that began with an empty buffer and saw no overflow, or the time
\* after it when it ended within the segment.
Unbroken == (InCall \/ (mpc = "idle" /\ ret = 2)) /\ ~leftover /\ ~overflowed

GapInv == Unbroken => Consecutive(Line) /\ Continues

OrdInv == VadInv /\ OrderInv /\ GapInv

-----------------------------------------------------------------------------
LEMMA RunFacts ==
  ASSUME NEW lo \in Nat, NEW hi \in Nat, lo <= hi + 1
  PROVE  /\ Run(lo, hi) \in Seq(Nat) /\ Len(Run(lo, hi)) = hi - lo + 1
         /\ DOMAIN Run(lo, hi) = 1..hi - lo + 1
         /\ \A k \in 1..hi - lo + 1 : Run(lo, hi)[k] = lo + k - 1
<1>1. (IF hi < lo THEN 0 ELSE hi - lo + 1) = hi - lo + 1 /\ hi - lo + 1 \in Nat
  OBVIOUS
<1>2. Run(lo, hi) = [k \in 1..hi - lo + 1 |-> lo + k - 1]
  BY <1>1 DEF Run
<1>3. \A k \in 1..hi - lo + 1 : lo + k - 1 \in Nat
  OBVIOUS
<1> QED
  BY <1>1, <1>2, <1>3

\* A run grows by its next chunk.
LEMMA RunAppend ==
  ASSUME NEW lo \in Nat, NEW hi \in Nat, lo <= hi + 1
  PROVE  Append(Run(lo, hi), hi + 1) = Run(lo, hi + 1)
<1>1. /\ Run(lo, hi) \in Seq(Nat) /\ Len(Run(lo, hi)) = hi - lo + 1
      /\ \A k \in 1..hi - lo + 1 : Run(lo, hi)[k] = lo + k - 1
  BY RunFacts
<1>2. hi + 1 \in Nat /\ lo <= (hi + 1) + 1
  OBVIOUS
<1>3. /\ Run(lo, hi + 1) \in Seq(Nat) /\ Len(Run(lo, hi + 1)) = (hi + 1) - lo + 1
      /\ \A k \in 1..(hi + 1) - lo + 1 : Run(lo, hi + 1)[k] = lo + k - 1
  BY <1>2, RunFacts
<1> DEFINE s == Append(Run(lo, hi), hi + 1)
           n == hi - lo + 1
<1>4. n \in Nat /\ (hi + 1) - lo + 1 = n + 1
  OBVIOUS
<1>5. s \in Seq(Nat) /\ Len(s) = n + 1 /\ s[n + 1] = hi + 1 /\ \A k \in 1..n : s[k] = Run(lo, hi)[k]
  BY <1>1, <1>2, <1>4
<1>6. \A k \in 1..n + 1 : s[k] = Run(lo, hi + 1)[k]
  <2> SUFFICES ASSUME NEW k \in 1..n + 1 PROVE s[k] = Run(lo, hi + 1)[k]
    OBVIOUS
  <2>1. Run(lo, hi + 1)[k] = lo + k - 1
    BY <1>3, <1>4
  <2>2. CASE k = n + 1
    BY <1>5, <2>1, <2>2
  <2>3. CASE k # n + 1
    <3>1. k \in 1..n
      BY <1>4, <2>3
    <3> QED
      BY <1>1, <1>5, <2>1, <3>1
  <2> QED
    BY <2>2, <2>3
<1> HIDE DEF s, n
<1>7. s = Run(lo, hi + 1)
  BY <1>3, <1>4, <1>5, <1>6, SeqEqual
<1> QED
  BY <1>7 DEF s

LEMMA EmptyConsecutive == Consecutive(<< >>)
<1>1. Len(<< >>) = 0
  OBVIOUS
<1>2. 1..Len(<< >>) - 1 = {}
  BY <1>1
<1> QED
  BY <1>2 DEF Consecutive

LEMMA ShortRange ==
  ASSUME NEW l \in Nat, NEW n \in Nat, NEW k \in 1..l - n
  PROVE  k \in Nat /\ k >= 1 /\ n # l
OBVIOUS

\* What is left of a sequence without its first n elements.
LEMMA WithoutFirst ==
  ASSUME NEW s \in Seq(Nat), NEW n \in Nat, n <= Len(s)
  PROVE  LET t == SubSeq(s, n + 1, Len(s))
         IN  /\ t \in Seq(Nat) /\ Len(t) = Len(s) - n /\ DOMAIN t = 1..Len(s) - n
             /\ \A k \in 1..Len(s) - n : t[k] = s[k + n] /\ k + n \in 1..Len(s)
<1> DEFINE t == SubSeq(s, n + 1, Len(s))
<1>1. Len(s) \in Nat /\ DOMAIN s = 1..Len(s)
  OBVIOUS
<1>2. t \in Seq(Nat)
  BY <1>1
<1>3. Len(t) = Len(s) - n /\ DOMAIN t = 1..Len(s) - n
  <2>1. Len(t) = IF n + 1 <= Len(s) THEN Len(s) - (n + 1) + 1 ELSE 0
    <3>1. \A i \in n + 1..Len(s) : s[i] \in Nat
      BY <1>1
    <3>2. n + 1 \in Int /\ Len(s) \in Int
      BY <1>1
    <3> QED
      BY <3>1, <3>2, SubSeqProperties
  <2> DEFINE l == Len(s)
             m == Len(t)
  <2>2. l \in Nat /\ n <= l /\ m = IF n + 1 <= l THEN l - (n + 1) + 1 ELSE 0
    BY <1>1, <2>1
  <2> HIDE DEF t, l, m
  <2>3. m = l - n
    BY <2>2
  <2>4. DOMAIN t = 1..Len(t)
    BY <1>2
  <2> QED
    BY <2>4, <2>3 DEF l, m
<1>4. ASSUME NEW k \in 1..Len(s) - n PROVE t[k] = s[k + n] /\ k + n \in 1..Len(s)
  <2>1. k + n \in 1..Len(s)
    BY <1>1
  <2>2. t[k] = s[n + 1 + k - 1]
    BY <1>1, SMTT(30)
  <2>3. n + 1 + k - 1 = k + n
    BY <1>1
  <2> QED
    BY <2>1, <2>2, <2>3
<1> QED
  BY <1>2, <1>3, <1>4

\* The types and the parts of IndInv that are used below.
LEMMA Known ==
  ASSUME IndInv
  PROVE  /\ speech \in Seq(Nat) /\ Len(speech) \in Nat /\ DOMAIN speech = 1..Len(speech)
         /\ \A k \in 1..Len(speech) : speech[k] \in Nat
         /\ captured \in Nat /\ nc \in 0..NcMax /\ nc \in Nat /\ swapbuf \in Seq(Nat)
         /\ is_valid_data \in BOOLEAN /\ local \in BOOLEAN /\ transfer_online \in BOOLEAN
         /\ last_given \in Nat /\ prev_len \in Nat /\ nowlen \in Nat
         /\ todo \in Seq(Seq(Nat)) /\ Heard \in Nat
         /\ (Storing <=> todo # << >>) /\ (todo # << >> => local)
         /\ {TailStore, HeadLen, NcMax, Overlap} \subseteq Nat
BY ConstAssumption DEF IndInv, TypeOK, AdinInv, Heard, Storing, Overlap

\* The line is a sequence of chunks, and only those who read or return move it.
LEMMA LineFacts ==
  ASSUME IndInv
  PROVE  /\ Line \in Seq(Nat) /\ Len(Line) \in Nat /\ DOMAIN Line = 1..Len(Line)
         /\ Line # << >> => Len(Line) \in 1..Len(Line) /\ Line[Len(Line)] \in Nat
<1>1. speech \in Seq(Nat) /\ last_given \in Nat
  BY Known
<1>2. <<last_given>> \o speech \in Seq(Nat)
  BY <1>1
<1>3. Line \in Seq(Nat)
  BY <1>1, <1>2 DEF Line
<1> HIDE DEF Line
<1> QED
  BY <1>3

LEMMA LineKept ==
  ASSUME UNCHANGED <<speech, mainVars, history>>
  PROVE  Line' = Line /\ (UNCHANGED overflowed => Unbroken' = Unbroken)
BY DEF Line, Unbroken, InCall, mainVars, history

-----------------------------------------------------------------------------
(* The process thread.                                                     *)

\* A step of the process thread moves the bounds of nothing.
LEMMA BoundsKept ==
  ASSUME VadInv, UNCHANGED adinVars
  PROVE  /\ VadInv' /\ Heard' = Heard /\ Newest' = Newest
         /\ \A x \in Nat : NotAfter(x) => NotAfter(x)'
BY DEF VadInv, NotAfter, Heard, Newest, Storing, Overlap, adinVars

\* It changes neither speech[] nor what was given.
LEMMA MainLooks ==
  ASSUME IndInv, OrdInv, UNCHANGED adinVars, UNCHANGED <<speech, last_given>>,
         mpc # "stopped", mpc' # "stopped" => GivenUpTo' = GivenUpTo,
         mpc' # "idle", mpc' = "segment" => mpc = "segment" /\ nowlen' = nowlen,
         \/ UNCHANGED <<leftover, overflowed, transfer_online>> /\ mpc # "idle" /\ (InCall' => InCall)
         \/ InCall' /\ leftover' = (speech # << >>)
         \/ ~InCall'
  PROVE  OrdInv'
<1>1. VadInv' /\ Newest' = Newest /\ \A x \in Nat : NotAfter(x) => NotAfter(x)'
  BY BoundsKept DEF OrdInv
<1>2. OrderInv'
  <2>1. Rising(speech)'
    BY DEF OrdInv, OrderInv, Rising
  <2>2. /\ mpc' # "stopped" => \A k \in DOMAIN speech' : k > GivenUpTo' => last_given' < speech'[k] + Overlap
        /\ mpc' = "segment" => last_given' = speech'[nowlen']
    BY DEF OrdInv, OrderInv
  <2>3. \A k \in DOMAIN speech : speech[k] \in Nat /\ NotAfter(speech[k])
    BY Known DEF OrdInv, OrderInv
  <2>4. (\A k \in DOMAIN speech : NotAfter(speech[k]))'
    BY <1>1, <2>3 DEF NotAfter
  <2>5. NotAfter(last_given)'
    BY <1>1, Known DEF OrdInv, OrderInv, NotAfter
  <2> QED
    BY <2>1, <2>2, <2>4, <2>5 DEF OrderInv
<1>3. GapInv'
  <2>1. CASE UNCHANGED <<leftover, overflowed, transfer_online>> /\ mpc # "idle" /\ (InCall' => InCall)
    <3>1. Line' = Line /\ (Unbroken' => Unbroken)
      BY <2>1 DEF Line, Unbroken
    <3>2. Unbroken => Consecutive(Line) /\ Continues
      BY DEF OrdInv, GapInv
    <3>3. Consecutive(Line) => Consecutive(Line)'
      BY <3>1 DEF Consecutive
    <3>4. Continues => Continues'
      BY <1>1, <2>1, <3>1 DEF Continues, adinVars
    <3> QED
      BY <3>1, <3>2, <3>3, <3>4 DEF GapInv
  <2>2. CASE InCall' /\ leftover' = (speech # << >>)
    <3>1. ~leftover' => Line' = << >>
      BY <2>2 DEF Line
    <3>2. Line' = << >> => Consecutive(Line')
      BY EmptyConsecutive
    <3>3. Line' = << >> => Continues'
      BY DEF Continues
    <3> QED
      BY <3>1, <3>2, <3>3 DEF GapInv, Unbroken, Consecutive
  <2>3. CASE ~InCall'
    BY <2>3 DEF GapInv, Unbroken
  <2> QED
    BY <2>1, <2>2, <2>3
<1> QED
  BY <1>1, <1>2, <1>3 DEF OrdInv

\* adin_thread_process returns and drops the first n samples.
LEMMA MainDrops ==
  ASSUME IndInv, OrdInv, UNCHANGED adinVars, UNCHANGED last_given, ~InCall',
         mpc' = "idle", NEW n \in Nat, n <= Len(speech),
         speech' = SubSeq(speech, n + 1, Len(speech)),
         n = Len(speech) \/ n >= GivenUpTo, mpc # "stopped"
  PROVE  VadInv' /\ OrderInv' /\ Newest' = Newest
<1>1. VadInv' /\ Newest' = Newest /\ \A x \in Nat : NotAfter(x) => NotAfter(x)'
  BY BoundsKept DEF OrdInv
<1>2. /\ DOMAIN speech' = 1..Len(speech) - n
      /\ \A k \in DOMAIN speech' :
           k \in Nat /\ k >= 1 /\ k + n \in DOMAIN speech /\ speech'[k] = speech[k + n] /\ speech'[k] \in Nat
  <2>1. speech \in Seq(Nat) /\ Len(speech) \in Nat /\ DOMAIN speech = 1..Len(speech)
    BY Known
  <2>2. /\ speech' \in Seq(Nat) /\ DOMAIN speech' = 1..Len(speech) - n
        /\ \A k \in 1..Len(speech) - n : speech'[k] = speech[k + n] /\ k + n \in 1..Len(speech)
    BY <2>1, WithoutFirst
  <2> SUFFICES ASSUME NEW k \in 1..Len(speech) - n
               PROVE  k \in Nat /\ k >= 1 /\ speech'[k] \in Nat
    BY <2>1, <2>2
  <2>3. k \in Nat /\ k >= 1
    BY <2>1, ShortRange
  <2>4. speech[k + n] \in Nat
    BY <2>2, Known
  <2> QED
    BY <2>2, <2>3, <2>4
<1>3. OrderInv'
  <2>1. Rising(speech)'
    BY <1>2 DEF OrdInv, OrderInv, Rising
  <2>2. ASSUME NEW k \in DOMAIN speech', k > GivenUpTo' PROVE last_given' < speech'[k] + Overlap
    <3>1. k + n \in DOMAIN speech /\ k + n > n /\ speech'[k] = speech[k + n]
      BY <1>2
    <3>2. n # Len(speech)
      <4>1. k \in 1..Len(speech) - n
        BY <1>2
      <4> QED
        BY <4>1, Known, ShortRange
    <3>3. GivenUpTo \in Nat
      BY Known DEF GivenUpTo
    <3>4. k + n > GivenUpTo
      BY <1>2, <3>2, <3>3
    <3> QED
      BY <3>1, <3>4 DEF OrdInv, OrderInv
  <2>3. (\A k \in DOMAIN speech : NotAfter(speech[k]))'
    BY <1>1, <1>2 DEF OrdInv, OrderInv, NotAfter
  <2>4. NotAfter(last_given)'
    BY <1>1, Known DEF OrdInv, OrderInv, NotAfter
  <2> QED
    BY <2>1, <2>2, <2>3, <2>4 DEF OrderInv
<1> QED
  BY <1>1, <1>3

\* What is kept behind sample n of a sequence without gaps has none either.
LEMMA KeptFromLast ==
  ASSUME NEW s \in Seq(Nat), NEW n \in Nat, n >= 1, n <= Len(s), Consecutive(s)
  PROVE  LET t == <<s[n]>> \o SubSeq(s, n + 1, Len(s))
         IN  s # << >> /\ t # << >> /\ t[Len(t)] = s[Len(s)] /\ Consecutive(t)
<1> DEFINE l == Len(s)
           u == SubSeq(s, n + 1, l)
           m == l - n
           t == <<s[n]>> \o u
<1>1. l \in Nat /\ m \in Nat /\ DOMAIN s = 1..l /\ n \in 1..l /\ s[n] \in Nat /\ s # << >>
  OBVIOUS
<1>2. /\ u \in Seq(Nat) /\ Len(u) = m
      /\ \A k \in 1..m : u[k] = s[k + n] /\ k + n \in 1..l
  BY WithoutFirst
<1>3. \A i \in 1..l - 1 : s[i + 1] = s[i] + 1
  BY DEF Consecutive
<1> DEFINE h == <<s[n]>>
<1>4. h \in Seq(Nat) /\ Len(h) = 1 /\ h[1] = s[n] /\ t = h \o u
  BY <1>1
<1> HIDE DEF h, t, u, l
<1>5. /\ t \in Seq(Nat) /\ Len(t) = 1 + Len(u)
      /\ \A k \in 1..1 + Len(u) : t[k] = IF k <= 1 THEN h[k] ELSE u[k - 1]
  <2>1. /\ h \o u \in Seq(Nat) /\ Len(h \o u) = Len(h) + Len(u)
        /\ \A k \in 1..Len(h) + Len(u) :
             (h \o u)[k] = IF k <= Len(h) THEN h[k] ELSE u[k - Len(h)]
    BY <1>2, <1>4, ConcatProperties
  <2> QED
    BY <1>4, <2>1
<1> HIDE DEF m
<1>6. Len(t) = 1 + m /\ \A k \in 1..1 + m : t[k] = IF k <= 1 THEN h[k] ELSE u[k - 1]
  BY <1>2, <1>5
<1>7. \A k \in 1..1 + m : t[k] = s[k + n - 1]
  <2> SUFFICES ASSUME NEW k \in 1..1 + m PROVE t[k] = s[k + n - 1]
    OBVIOUS
  <2>1. CASE k = 1
    <3>1. k + n - 1 = n
      BY <1>1, <2>1
    <3> QED
      BY <1>4, <1>6, <2>1, <3>1
  <2>2. CASE k # 1
    <3>1. k - 1 \in 1..m /\ ~(k <= 1) /\ (k - 1) + n = k + n - 1
      BY <1>1, <2>2
    <3> QED
      BY <1>2, <1>6, <3>1
  <2> QED
    BY <2>1, <2>2
<1>8. t # << >>
  BY <1>1, <1>5, <1>6
<1>9. t[Len(t)] = s[l]
  <2>1. 1 + m \in 1..1 + m /\ (1 + m) + n - 1 = l
    BY <1>1 DEF m
  <2> QED
    BY <1>6, <1>7, <2>1
<1>10. Consecutive(t)
  <2> SUFFICES ASSUME NEW k \in 1..(1 + m) - 1 PROVE t[k + 1] = t[k] + 1
    BY <1>6 DEF Consecutive
  <2>1. k \in 1..1 + m /\ k + 1 \in 1..1 + m /\ (k + 1) + n - 1 = (k + n - 1) + 1
        /\ k + n - 1 \in 1..l - 1
    BY <1>1 DEF m
  <2>2. t[k] = s[k + n - 1] /\ t[k + 1] = s[(k + n - 1) + 1]
    BY <1>7, <2>1
  <2> QED
    BY <1>3, <2>1, <2>2
<1> QED
  BY <1>1, <1>8, <1>9, <1>10 DEF t, h, u, l

\* Everything is dropped.
LEMMA EmptyIsDrop ==
  ASSUME IndInv
  PROVE  SubSeq(speech, Len(speech) + 1, Len(speech)) = << >>
<1>1. speech \in Seq(Nat) /\ Len(speech) \in Nat
  BY Known
<1> QED
  BY <1>1

LEMMA MainOrder ==
  ASSUME IndInv, OrdInv, MainStep
  PROVE  OrdInv'
<1> USE DEF InCall
<1>1. CASE ProcessBegin
  <2>1. mpc = "idle" /\ mpc' = "poll" /\ prev_len' = 0 /\ leftover' = (speech # << >>)
        /\ UNCHANGED adinVars /\ UNCHANGED <<speech, last_given>>
    BY <1>1 DEF ProcessBegin
  <2> QED
    BY <2>1, MainLooks DEF GivenUpTo
<1>2. CASE Poll
  <2>1. /\ mpc = "poll" /\ mpc' \in {"stopped", "overflow", "check"} /\ prev_len' = prev_len
        /\ UNCHANGED adinVars /\ UNCHANGED <<speech, last_given, leftover, overflowed, transfer_online>>
    BY <1>2 DEF Poll, shared, history
  <2> QED
    BY <2>1, MainLooks DEF GivenUpTo
<1>3. ASSUME NEW i \in CheckReturns, AdCheck(i) PROVE OrdInv'
  <2>1. /\ mpc = "check" /\ mpc' \in {"terminate", "process", "reset", "poll"} /\ prev_len' = prev_len
        /\ UNCHANGED adinVars /\ UNCHANGED <<speech, last_given, leftover, overflowed, transfer_online>>
    BY <1>3 DEF AdCheck, shared
  <2> QED
    BY <2>1, MainLooks DEF GivenUpTo
<1>4. ASSUME NEW r \in {0, 1, -1}, AdProcess(r) PROVE OrdInv'
  <2>1. /\ mpc = "process" /\ last_given' = speech[nowlen] /\ mpc' \in {"segment", "error", "poll"}
        /\ UNCHANGED adinVars /\ UNCHANGED <<speech, nowlen, leftover, overflowed, transfer_online>>
    BY <1>4 DEF AdProcess, shared
  <2>2. GivenUpTo' = nowlen
    BY <1>4, <2>1 DEF AdProcess, GivenUpTo
  <2>3. nowlen \in DOMAIN speech /\ nowlen \in Nat
    BY <2>1, Known DEF IndInv, MainInv
  <2>4. VadInv' /\ Newest' = Newest /\ \A x \in Nat : NotAfter(x) => NotAfter(x)'
    BY <2>1, BoundsKept DEF OrdInv
  <2>5. \A k \in DOMAIN speech : speech[k] \in Nat /\ NotAfter(speech[k])
    BY Known DEF OrdInv, OrderInv
  <2>6. OrderInv'
    <3>1. /\ Rising(speech)' /\ last_given' = speech'[nowlen']
          /\ \A k \in DOMAIN speech' : k > GivenUpTo' => last_given' < speech'[k] + Overlap
      BY <2>1, <2>2, <2>3, <2>5 DEF OrdInv, OrderInv, Rising
    <3>2. (\A k \in DOMAIN speech : NotAfter(speech[k]))' /\ NotAfter(last_given)'
      BY <2>1, <2>3, <2>4, <2>5 DEF NotAfter
    <3> QED
      BY <3>1, <3>2 DEF OrderInv
  <2>7. GapInv'
    <3>1. Line' = Line /\ Unbroken' = Unbroken
      BY <2>1 DEF Line, Unbroken
    <3>2. Unbroken => Consecutive(Line) /\ Continues
      BY DEF OrdInv, GapInv
    <3>3. Consecutive(Line) => Consecutive(Line)'
      BY <3>1 DEF Consecutive
    <3>4. Continues => Continues'
      BY <2>1, <2>4, <3>1 DEF Continues, adinVars
    <3> QED
      BY <3>1, <3>2, <3>3, <3>4 DEF GapInv
  <2> QED
    BY <2>4, <2>6, <2>7 DEF OrdInv
<1>5. CASE OverflowReturn \/ TerminateReturn \/ SilenceReturn
  <2>1. /\ speech' = SubSeq(speech, Len(speech) + 1, Len(speech)) /\ mpc' = "idle" /\ mpc # "stopped"
        /\ UNCHANGED adinVars /\ UNCHANGED last_given /\ ret' # 2
    <3>1. /\ speech' = << >> /\ mpc' = "idle" /\ mpc # "stopped" /\ ret' \in {1, -2}
          /\ UNCHANGED adinVars /\ UNCHANGED last_given
      BY <1>5 DEF OverflowReturn, TerminateReturn, SilenceReturn, Return, history
    <3> QED
      BY <3>1, EmptyIsDrop
  <2>2. Len(speech) \in Nat /\ Len(speech) <= Len(speech)
    BY Known
  <2>3. ~InCall'
    BY <2>1
  <2>4. GapInv'
    BY <2>1 DEF GapInv, Unbroken
  <2> HIDE DEF InCall
  <2>5. VadInv' /\ OrderInv'
    BY <2>1, <2>2, <2>3, MainDrops
  <2> QED
    BY <2>4, <2>5 DEF OrdInv
<1>6. CASE SegmentReturn
  <2>1. /\ speech' = SubSeq(speech, nowlen + 1, Len(speech)) /\ mpc = "segment" /\ mpc' = "idle"
        /\ UNCHANGED adinVars /\ UNCHANGED <<last_given, leftover, overflowed>> /\ ~transfer_online'
    BY <1>6 DEF SegmentReturn, Purged, history
  <2>2. nowlen \in Nat /\ nowlen >= 1 /\ nowlen <= Len(speech) /\ GivenUpTo = nowlen
    BY <2>1, Known DEF IndInv, MainInv, GivenUpTo
  <2>3. VadInv' /\ OrderInv' /\ Newest' = Newest
    BY <2>1, <2>2, MainDrops
  <2>4. GapInv'
    <3> SUFFICES ASSUME Unbroken' PROVE Consecutive(Line)' /\ Continues'
      BY DEF GapInv
    <3>1. Line = speech /\ Consecutive(speech) /\ Continues
      BY <2>1 DEF Line, Unbroken, OrdInv, GapInv
    <3>2. Line' = <<speech[nowlen]>> \o SubSeq(speech, nowlen + 1, Len(speech))
      BY <2>1 DEF Line, OrdInv, OrderInv
    <3>3. /\ speech # << >> /\ Line' # << >> /\ Line'[Len(Line')] = speech[Len(speech)]
          /\ Consecutive(Line')
      BY <2>2, <3>1, <3>2, Known, KeptFromLast
    <3>4. Consecutive(Line)'
      BY <3>3 DEF Consecutive
    <3>5. Continues'
      BY <2>1, <2>3, <3>1, <3>3 DEF Continues, adinVars
    <3> QED
      BY <3>4, <3>5
  <2> QED
    BY <2>3, <2>4 DEF OrdInv
<1>7. CASE ErrorReturn
  <2>1. mpc = "error" /\ mpc' = "stopped" /\ UNCHANGED adinVars /\ UNCHANGED <<speech, last_given>>
    BY <1>7 DEF ErrorReturn, history
  <2> QED
    BY <2>1, MainLooks
<1> QED
  BY <1>1, <1>2, <1>3, <1>4, <1>5, <1>6, <1>7 DEF MainStep

-----------------------------------------------------------------------------
(* The A/D-in thread.                                                      *)

\* A step that leaves speech[] alone has to keep the bounds.
LEMMA AdinKeeps ==
  ASSUME IndInv, OrdInv, UNCHANGED <<speech, mainVars, history>>, VadInv', GapInv',
         \A x \in Nat : NotAfter(x) => NotAfter(x)'
  PROVE  OrdInv'
<1>1. /\ GivenUpTo' = GivenUpTo /\ last_given' = last_given /\ speech' = speech /\ mpc' = mpc
      /\ nowlen' = nowlen
  BY DEF GivenUpTo, mainVars, history
<1>2. \A k \in DOMAIN speech : speech[k] \in Nat /\ NotAfter(speech[k])
  BY Known DEF OrdInv, OrderInv
<1>3. (\A k \in DOMAIN speech : NotAfter(speech[k]))'
  BY <1>1, <1>2 DEF NotAfter
<1>4. NotAfter(last_given)'
  BY <1>1, Known DEF OrdInv, OrderInv, NotAfter
<1>5. /\ Rising(speech)' /\ (mpc' = "segment" => last_given' = speech'[nowlen'])
      /\ mpc' # "stopped" => \A k \in DOMAIN speech' : k > GivenUpTo' => last_given' < speech'[k] + Overlap
  BY <1>1 DEF OrdInv, OrderInv, Rising
<1> QED
  BY <1>3, <1>4, <1>5 DEF OrdInv, OrderInv

\* The line goes on as long as what is stored next follows its last chunk.
LEMMA GapKept ==
  ASSUME IndInv, OrdInv, UNCHANGED <<speech, mainVars, history, overflowed>>,
         Unbroken /\ Line # << >> /\ Continues => Continues'
  PROVE  GapInv'
<1>1. Line' = Line /\ Unbroken' = Unbroken
  BY LineKept
<1>2. Line = << >> => Continues'
  BY <1>1 DEF Continues
<1>3. Unbroken => Consecutive(Line) /\ Continues
  BY DEF OrdInv, GapInv
<1>4. Consecutive(Line) => Consecutive(Line)'
  BY <1>1 DEF Consecutive
<1> QED
  BY <1>1, <1>2, <1>3, <1>4 DEF GapInv

LEMMA ReadOrder ==
  ASSUME IndInv, OrdInv, Device \/ ThreadExit \/ StoreTest
  PROVE  OrdInv'
<1>1. /\ UNCHANGED <<speech, mainVars, history, transfer_online, overflowed>>
      /\ UNCHANGED <<is_valid_data, nc, swapbuf, todo, captured>>
  BY DEF Device, ReadBatch, ReadEnd, ThreadExit, StoreTest, shared
<1>2. Heard' = Heard
  BY DEF Device, ReadBatch, ReadEnd, ThreadExit, StoreTest, Heard, Storing
<1>3. VadInv' /\ Newest' = Newest /\ \A x \in Nat : NotAfter(x) => NotAfter(x)'
  BY <1>1, <1>2 DEF OrdInv, VadInv, Newest, NotAfter, Overlap
<1>4. local' = local \/ local' = transfer_online
  BY DEF Device, ReadBatch, ReadEnd, ThreadExit, StoreTest
<1>5. Continues => Continues'
  <2>1. Line' = Line
    BY <1>1, LineKept
  <2> QED
    BY <1>1, <1>3, <1>4, <2>1, Known DEF Continues
<1>6. GapInv'
  BY <1>1, <1>5, GapKept
<1> QED
  BY <1>1, <1>3, <1>6, AdinKeeps

\* The end of a chunk.  A segment that ends was silent for longer than what
\* was stored of the silence and the next head margin together, but for the
\* Overlap.
LEMMA NextChunkOrder ==
  ASSUME IndInv, OrdInv, NextChunk
  PROVE  OrdInv'
<1>1. /\ UNCHANGED <<speech, mainVars, history, overflowed, nc, todo>> /\ todo = << >>
      /\ apc = "next" /\ apc' \in {"read", "chunk"} /\ captured' = captured + 1
  BY Known DEF NextChunk, Storing
<1>2. Heard' = Heard /\ Heard \in Nat
  BY <1>1, Known DEF Heard, Storing
<1>3. Line' = Line
  BY <1>1, LineKept
<1>4. CASE seg_end
  <2>1. /\ is_valid_data /\ nc >= NcMax
        /\ ~is_valid_data' /\ ~transfer_online' /\ ~local'
    BY <1>4 DEF NextChunk, StopTransfer, IndInv, AdinInv
  <2>2. VadInv'
    BY <1>1, <2>1 DEF VadInv
  <2>3. Newest <= Heard - HeadLen + Overlap
    <3>1. nc \in Nat /\ HeadLen \in Nat /\ TailStore \in Nat /\ NcMax \in Nat /\ Overlap \in Nat
      BY Known
    <3>2. TailStore + HeadLen - NcMax <= Overlap
      BY <3>1 DEF Overlap
    <3> QED
      BY <1>2, <2>1, <3>1, <3>2 DEF Newest
  <2>4. Newest \in Int
    BY <1>2, Known DEF Newest
  <2>5. ASSUME NEW x \in Nat, NotAfter(x) PROVE NotAfter(x)'
    <3>1. x <= Newest /\ x <= Heard
      BY <1>1, <2>1, <2>5 DEF NotAfter
    <3>2. x <= Heard - HeadLen + Overlap
      BY <1>2, <2>3, <2>4, <3>1, Known, SMTT(30)
    <3> QED
      BY <1>1, <1>2, <2>1, <3>1, <3>2 DEF NotAfter, Overlap
  <2>6. GapInv'
    <3>1. Continues'
      BY <2>1 DEF Continues
    <3> QED
      BY <1>1, <3>1, GapKept
  <2> QED
    BY <1>1, <2>2, <2>5, <2>6, AdinKeeps
<1>5. CASE ~seg_end
  <2>1. UNCHANGED <<is_valid_data, swapbuf, transfer_online, local>>
    BY <1>5 DEF NextChunk
  <2>2. VadInv' /\ Newest' = Newest /\ \A x \in Nat : NotAfter(x) => NotAfter(x)'
    BY <1>1, <1>2, <2>1 DEF OrdInv, VadInv, Newest, NotAfter, Overlap
  <2>3. GapInv'
    <3>1. Continues => Continues'
      BY <1>1, <1>3, <2>1, <2>2 DEF Continues
    <3> QED
      BY <1>1, <3>1, GapKept
  <2> QED
    BY <1>1, <2>2, <2>3, AdinKeeps
<1> QED
  BY <1>4, <1>5

\* The block of a store call is a run of chunks up to the one just heard, or
\* up to the one before it when that one follows.
LEMMA Block ==
  ASSUME IndInv, OrdInv, todo # << >>
  PROVE  /\ is_valid_data /\ nc <= TailStore /\ Newest = Heard
         /\ \E lo, hi \in Nat :
              /\ todo[1] = Run(lo, hi) /\ todo[1][1] = lo /\ lo <= hi
              /\ \/ hi = Heard /\ Tail(todo) = << >>
                 \/ hi + 1 = Heard /\ Tail(todo) = << <<Heard>> >>
<1>1. /\ is_valid_data /\ nc <= TailStore
      /\ \/ todo = << <<Heard>> >>
         \/ \E lo \in 1..captured : todo = << Run(lo, captured), <<Heard>> >>
  BY DEF OrdInv, VadInv
<1>2. Heard \in Nat /\ captured \in Nat /\ nc \in Nat /\ TailStore \in Nat
  BY Known
<1>3. Newest = Heard
  BY <1>1, <1>2 DEF Newest
<1>4. CASE todo = << <<Heard>> >>
  <2>1. todo[1] = <<Heard>> /\ Tail(todo) = << >> /\ todo[1][1] = Heard
    BY <1>4
  <2>2. Run(Heard, Heard) = <<Heard>>
    <3>1. /\ Run(Heard, Heard) \in Seq(Nat) /\ Len(Run(Heard, Heard)) = 1
          /\ Run(Heard, Heard)[1] = Heard
      <4> HIDE DEF Heard
      <4>1. Heard <= Heard + 1 /\ Heard - Heard + 1 = 1 /\ 1 \in 1..1 /\ Heard + 1 - 1 = Heard
        BY <1>2
      <4> QED
        BY <1>2, <4>1, RunFacts
    <3> HIDE DEF Run
    <3>2. /\ <<Heard>> \in Seq(Nat) /\ Len(<<Heard>>) = 1 /\ <<Heard>>[1] = Heard
      BY <1>2
    <3>3. \A k \in 1..1 : Run(Heard, Heard)[k] = <<Heard>>[k]
      BY <3>1, <3>2
    <3> QED
      BY <3>1, <3>2, <3>3, SeqEqual
  <2> QED
    BY <1>1, <1>2, <1>3, <2>1, <2>2
<1>5. CASE \E lo \in 1..captured : todo = << Run(lo, captured), <<Heard>> >>
  <2>1. PICK lo \in 1..captured : todo = << Run(lo, captured), <<Heard>> >>
    BY <1>5
  <2>2. todo[1] = Run(lo, captured) /\ Tail(todo) = << <<Heard>> >>
    BY <2>1
  <2>3. Run(lo, captured)[1] = lo
    <3>1. lo \in Nat /\ lo <= captured + 1 /\ 1 \in 1..captured - lo + 1 /\ lo + 1 - 1 = lo
      BY <1>2
    <3> QED
      BY <1>2, <3>1, RunFacts
  <2>4. captured + 1 = Heard
    <3>1. todo # << >>
      OBVIOUS
    <3> QED
      BY <1>2, <3>1, Known DEF Heard
  <2>5. lo \in Nat /\ lo <= captured
    BY <1>2
  <2> QED
    BY <1>1, <1>2, <1>3, <2>2, <2>3, <2>4, <2>5
<1> QED
  BY <1>1, <1>4, <1>5

\* Dropping or storing the block leaves the bound behind it.
LEMMA StoreMoves ==
  ASSUME IndInv, OrdInv, StoreOverflow \/ StoreAppend,
         NEW lo \in Nat, NEW hi \in Nat, lo <= hi, todo[1][1] = lo,
         \/ hi = Heard /\ Tail(todo) = << >>
         \/ hi + 1 = Heard /\ Tail(todo) = << <<Heard>> >>
  PROVE  /\ todo # << >> /\ local /\ Heard' = Heard
         /\ UNCHANGED <<mainVars, history, transfer_online, is_valid_data, nc, swapbuf, local, captured>>
         /\ VadInv'
         /\ \A x \in Nat : NotAfter(x) => x < lo + Overlap /\ NotAfter(x)'
         /\ \A x \in Nat : x <= hi => NotAfter(x)'
         /\ IF todo' # << >> THEN todo'[1][1] = hi + 1 ELSE is_valid_data' /\ Newest' = hi
<1>1. /\ todo # << >> /\ todo' = Tail(todo) /\ apc' = AfterStore(todo')
      /\ UNCHANGED <<mainVars, history, transfer_online, is_valid_data, nc, swapbuf, local, captured>>
  BY Known DEF StoreOverflow, StoreAppend, Storing
<1>2. local /\ is_valid_data /\ nc <= TailStore /\ Newest = Heard
  BY <1>1, Known, Block
<1>3. Heard' = Heard /\ Heard \in Nat
  BY <1>1, Known DEF Heard, Storing, AfterStore
<1>4. Newest' = Newest
  BY <1>1, <1>3 DEF Newest
<1>5. VadInv'
  <2>1. todo' # << >> => todo' = << <<Heard'>> >>
    BY <1>1, <1>3
  <2> QED
    BY <1>1, <1>2, <1>3, <1>4, <2>1 DEF OrdInv, VadInv
<1>6. \A x \in Nat : NotAfter(x) => x < lo + Overlap /\ x <= Heard
  BY <1>1 DEF NotAfter
<1>7. IF todo' # << >> THEN todo'[1][1] = hi + 1 ELSE is_valid_data' /\ Newest' = hi
  <2>1. CASE hi = Heard /\ Tail(todo) = << >>
    BY <1>1, <1>2, <1>4, <2>1
  <2>2. CASE hi + 1 = Heard /\ Tail(todo) = << <<Heard>> >>
    <3>1. todo' = << <<Heard>> >>
      BY <1>1, <2>2
    <3> HIDE DEF Heard
    <3>2. todo' # << >> /\ todo'[1][1] = Heard
      BY <3>1
    <3> QED
      BY <2>2, <3>2
  <2> QED
    BY <2>1, <2>2
<1>8. hi <= Heard /\ Overlap \in Nat
  BY <1>3, Known
<1>9. ASSUME NEW x \in Nat, x <= Heard, x < lo + Overlap \/ x <= hi PROVE NotAfter(x)'
  <2>1. CASE hi = Heard /\ Tail(todo) = << >>
    BY <1>1, <1>2, <1>3, <1>4, <1>9, <2>1 DEF NotAfter
  <2>2. CASE hi + 1 = Heard /\ Tail(todo) = << <<Heard>> >>
    <3>1. todo' # << >> /\ todo'[1][1] = Heard /\ Heard' = Heard
      <4>1. todo' = << <<Heard>> >> /\ Heard' = Heard
        BY <1>1, <1>3, <2>2
      <4> HIDE DEF Heard
      <4> QED
        BY <4>1
    <3> HIDE DEF Heard
    <3>2. x < Heard + Overlap
      BY <1>3, <1>8, <1>9, <2>2
    <3> QED
      BY <1>9, <3>1, <3>2 DEF NotAfter, Overlap
  <2> QED
    BY <2>1, <2>2
<1>10. \A x \in Nat : x <= hi => x <= Heard
  BY <1>3, <1>8
<1> QED
  BY <1>1, <1>2, <1>3, <1>5, <1>6, <1>7, <1>9, <1>10

LEMMA OverflowOrder ==
  ASSUME IndInv, OrdInv, StoreOverflow
  PROVE  OrdInv'
<1>1. todo # << >>
  BY Known DEF StoreOverflow, Storing
<1>2. PICK lo, hi \in Nat :
        /\ todo[1] = Run(lo, hi) /\ todo[1][1] = lo /\ lo <= hi
        /\ \/ hi = Heard /\ Tail(todo) = << >>
           \/ hi + 1 = Heard /\ Tail(todo) = << <<Heard>> >>
  BY <1>1, Block
<1>3. /\ UNCHANGED <<mainVars, history, local>> /\ VadInv'
      /\ \A x \in Nat : NotAfter(x) => NotAfter(x)'
  BY <1>2, StoreMoves
<1>4. overflowed' => ~Unbroken'
  BY DEF Unbroken
<1>5. speech' = speech /\ overflowed'
  BY DEF StoreOverflow
<1>6. GapInv'
  BY <1>4, <1>5 DEF GapInv
<1> QED
  BY <1>3, <1>5, <1>6, AdinKeeps

\* A sequence with a run of chunks behind it.
LEMMA WithRun ==
  ASSUME NEW s \in Seq(Nat), NEW lo \in Nat, NEW hi \in Nat, lo <= hi
  PROVE  LET t == s \o Run(lo, hi)
         IN  /\ t \in Seq(Nat) /\ Len(t) = Len(s) + (hi - lo + 1)
             /\ \A k \in 1..Len(s) : t[k] = s[k]
             /\ \A k \in Nat : Len(s) < k /\ k <= Len(t) => t[k] = lo + (k - Len(s)) - 1
<1> DEFINE l == Len(s)
           n == hi - lo + 1
           t == s \o Run(lo, hi)
<1>1. l \in Nat /\ n \in Nat /\ lo <= hi + 1
  OBVIOUS
<1>2. /\ Run(lo, hi) \in Seq(Nat) /\ Len(Run(lo, hi)) = n
      /\ \A k \in 1..n : Run(lo, hi)[k] = lo + k - 1
  BY <1>1, RunFacts
<1>3. /\ t \in Seq(Nat) /\ Len(t) = l + n
      /\ \A k \in 1..l + n : t[k] = IF k <= l THEN s[k] ELSE Run(lo, hi)[k - l]
  <2> DEFINE r == Run(lo, hi)
  <2>1. r \in Seq(Nat) /\ Len(r) = n
    BY <1>2
  <2> HIDE DEF r
  <2>2. /\ s \o r \in Seq(Nat) /\ Len(s \o r) = Len(s) + Len(r)
        /\ \A k \in 1..Len(s) + Len(r) :
             (s \o r)[k] = IF k <= Len(s) THEN s[k] ELSE r[k - Len(s)]
    BY <2>1, ConcatProperties
  <2>3. Len(s) + Len(r) = l + n
    BY <2>1
  <2>4. t = s \o r /\ Len(s) = l
    BY DEF r
  <2> HIDE DEF t, l, n
  <2> QED
    BY <2>2, <2>3, <2>4 DEF r
<1> HIDE DEF l, n, t
<1>4. \A k \in 1..l : t[k] = s[k]
  BY <1>1, <1>3
<1>5. ASSUME NEW k \in Nat, l < k, k <= l + n PROVE t[k] = lo + (k - l) - 1
  <2>1. k - l \in 1..n /\ k \in 1..l + n /\ ~(k <= l)
    BY <1>1, <1>5
  <2> QED
    BY <1>2, <1>3, <2>1
<1> QED
  BY <1>3, <1>4, <1>5 DEF l, n, t

\* A sequence without gaps goes on with the run that follows its last element.
LEMMA RunContinues ==
  ASSUME NEW s \in Seq(Nat), NEW lo \in Nat, NEW hi \in Nat, lo <= hi,
         Consecutive(s), s # << >> => s[Len(s)] + 1 = lo
  PROVE  LET t == s \o Run(lo, hi)
         IN  t # << >> /\ t[Len(t)] = hi /\ Consecutive(t)
<1> DEFINE l == Len(s)
           m == l + (hi - lo + 1)
           t == s \o Run(lo, hi)
<1>1. /\ t \in Seq(Nat) /\ Len(t) = m
      /\ \A k \in 1..l : t[k] = s[k]
      /\ \A k \in Nat : l < k /\ k <= m => t[k] = lo + (k - l) - 1
  <2>1. /\ t \in Seq(Nat) /\ Len(t) = l + (hi - lo + 1)
        /\ \A k \in 1..l : t[k] = s[k]
        /\ \A k \in Nat : l < k /\ k <= Len(t) => t[k] = lo + (k - l) - 1
    BY WithRun, Zenon
  <2> HIDE DEF t, l
  <2> QED
    BY <2>1 DEF m
<1>2. l \in Nat /\ m \in Nat /\ l < m /\ m - l = hi - lo + 1
  OBVIOUS
<1>3. \A i \in 1..l - 1 : s[i + 1] = s[i] + 1
  BY DEF Consecutive
<1>4. l # 0 => s[l] + 1 = lo
  OBVIOUS
<1> HIDE DEF l, m, t
<1>5. t # << >> /\ t[Len(t)] = hi
  <2>1. m # 0 /\ m \in Nat /\ lo + (m - l) - 1 = hi
    BY <1>2
  <2> QED
    BY <1>1, <1>2, <2>1
<1>6. Consecutive(t)
  <2> SUFFICES ASSUME NEW j \in 1..m - 1 PROVE t[j + 1] = t[j] + 1
    BY <1>1 DEF Consecutive
  <2>1. j \in Nat /\ j + 1 \in Nat /\ j + 1 <= m /\ j <= m /\ j >= 1
    BY <1>2
  <2>2. CASE j > l
    <3>1. t[j] = lo + (j - l) - 1 /\ t[j + 1] = lo + (j + 1 - l) - 1
      BY <1>1, <1>2, <2>1, <2>2
    <3> QED
      BY <1>2, <2>1, <3>1
  <2>3. CASE j = l
    <3>1. l \in 1..l /\ l # 0 /\ l < l + 1
      BY <1>2, <2>1, <2>3
    <3>2. t[l] = s[l] /\ s[l] + 1 = lo /\ t[l + 1] = lo + (l + 1 - l) - 1
      BY <1>1, <1>4, <2>1, <2>3, <3>1
    <3>3. lo + (l + 1 - l) - 1 = lo
      BY <1>2
    <3> QED
      BY <2>3, <3>2, <3>3
  <2>4. CASE j < l
    <3>1. j \in 1..l - 1 /\ j \in 1..l /\ j + 1 \in 1..l
      BY <1>2, <2>1, <2>4
    <3> QED
      BY <1>1, <1>3, <3>1
  <2> QED
    BY <1>2, <2>1, <2>2, <2>3, <2>4
<1> QED
  BY <1>5, <1>6 DEF t

LEMMA AppendOrder ==
  ASSUME IndInv, OrdInv, StoreAppend
  PROVE  OrdInv'
<1>1. todo # << >> /\ speech' = speech \o todo[1]
  BY Known DEF StoreAppend, Storing
<1>2. PICK lo, hi \in Nat :
        /\ todo[1] = Run(lo, hi) /\ todo[1][1] = lo /\ lo <= hi
        /\ \/ hi = Heard /\ Tail(todo) = << >>
           \/ hi + 1 = Heard /\ Tail(todo) = << <<Heard>> >>
  BY <1>1, Block
<1>3. /\ UNCHANGED <<mainVars, history, transfer_online, local>> /\ local /\ VadInv'
      /\ \A x \in Nat : NotAfter(x) => x < lo + Overlap /\ NotAfter(x)'
      /\ \A x \in Nat : x <= hi => NotAfter(x)'
      /\ IF todo' # << >> THEN todo'[1][1] = hi + 1 ELSE is_valid_data' /\ Newest' = hi
  BY <1>2, StoreMoves
<1> DEFINE l == Len(speech)
           m == l + (hi - lo + 1)
<1>4. l \in Nat /\ m \in Nat /\ l < m /\ DOMAIN speech = 1..l /\ speech \in Seq(Nat)
  BY <1>2, Known, SMTT(30)
<1>5. /\ speech' \in Seq(Nat) /\ Len(speech') = m
      /\ \A k \in 1..l : speech'[k] = speech[k]
      /\ \A k \in Nat : l < k /\ k <= m => speech'[k] = lo + (k - l) - 1
  <2> DEFINE t == speech \o Run(lo, hi)
  <2>1. t = speech'
    BY <1>1, <1>2
  <2>2. /\ t \in Seq(Nat) /\ Len(t) = l + (hi - lo + 1)
        /\ \A k \in 1..l : t[k] = speech[k]
        /\ \A k \in Nat : l < k /\ k <= Len(t) => t[k] = lo + (k - l) - 1
    <3>1. speech \in Seq(Nat) /\ lo \in Nat /\ hi \in Nat /\ lo <= hi
      BY <1>2, <1>4
    <3> QED
      BY <3>1, WithRun, Zenon
  <2> HIDE DEF t, l
  <2> QED
    BY <2>1, <2>2 DEF m
<1>6. DOMAIN speech' = 1..m
  BY <1>5
<1>7. \A k \in 1..l : speech[k] \in Nat /\ NotAfter(speech[k])
  BY <1>4, Known DEF OrdInv, OrderInv
<1>8. last_given \in Nat /\ NotAfter(last_given) /\ Overlap \in Nat
  BY Known DEF OrdInv, OrderInv
<1> HIDE DEF m
<1>9. /\ \A k \in 1..l : speech'[k] = speech[k] /\ speech'[k] \in Nat /\ speech'[k] < lo + Overlap
      /\ \A k \in 1..m : k \notin 1..l => l < k /\ k <= m /\ k \in Nat
  BY <1>3, <1>4, <1>5, <1>7
<1>10. \A k \in 1..m : k \notin 1..l => /\ speech'[k] = lo + (k - l) - 1
                                        /\ lo <= speech'[k] /\ speech'[k] <= hi /\ speech'[k] \in Nat
  <2> SUFFICES ASSUME NEW k \in 1..m, k \notin 1..l
               PROVE  /\ speech'[k] = lo + (k - l) - 1
                      /\ lo <= speech'[k] /\ speech'[k] <= hi /\ speech'[k] \in Nat
    OBVIOUS
  <2>1. l < k /\ k <= m /\ k \in Nat /\ speech'[k] = lo + (k - l) - 1
    BY <1>5, <1>9
  <2> HIDE DEF l
  <2> QED
    BY <1>2, <1>4, <2>1 DEF m
<1>11. Rising(speech)'
  <2> SUFFICES ASSUME NEW j \in 1..m, NEW k \in 1..m, j < k PROVE speech'[j] < speech'[k] + Overlap
    BY <1>6 DEF Rising, Overlap
  <2>1. CASE k \in 1..l
    <3>1. j \in 1..l
      BY <1>4, <2>1
    <3> QED
      BY <1>4, <1>5, <2>1, <3>1 DEF OrdInv, OrderInv, Rising
  <2>2. CASE k \notin 1..l /\ j \in 1..l
    BY <1>2, <1>8, <1>9, <1>10, <2>2
  <2>3. CASE k \notin 1..l /\ j \notin 1..l
    <3>1. speech'[k] = lo + (k - l) - 1 /\ speech'[j] = lo + (j - l) - 1
      BY <1>10, <2>3
    <3> HIDE DEF l
    <3> QED
      BY <1>2, <1>4, <1>8, <3>1
  <2> QED
    BY <2>1, <2>2, <2>3
<1>12. /\ mpc' # "stopped" => \A k \in DOMAIN speech' : k > GivenUpTo' => last_given' < speech'[k] + Overlap
       /\ mpc' = "segment" => last_given' = speech'[nowlen']
  <2>1. mpc' = mpc /\ GivenUpTo' = GivenUpTo /\ last_given' = last_given /\ nowlen' = nowlen
    BY <1>3 DEF mainVars, history, GivenUpTo
  <2>2. last_given < lo + Overlap
    BY <1>3, <1>8
  <2>3. ASSUME mpc # "stopped", NEW k \in 1..m, k > GivenUpTo PROVE last_given < speech'[k] + Overlap
    <3>1. CASE k \in 1..l
      BY <1>4, <1>5, <2>3, <3>1 DEF OrdInv, OrderInv
    <3>2. CASE k \notin 1..l
      BY <1>2, <1>8, <1>10, <2>2, <2>3, <3>2
    <3> QED
      BY <3>1, <3>2
  <2>4. mpc = "segment" => last_given = speech'[nowlen]
    <3>1. mpc = "segment" => nowlen \in 1..l /\ last_given = speech[nowlen]
      BY <1>4, Known DEF IndInv, MainInv, OrdInv, OrderInv
    <3> QED
      BY <1>5, <3>1
  <2> QED
    BY <1>6, <2>1, <2>3, <2>4 DEF Overlap
<1>13. (\A k \in DOMAIN speech : NotAfter(speech[k]))' /\ NotAfter(last_given)'
  <2>1. ASSUME NEW k \in 1..m PROVE NotAfter(speech[k])'
    <3>1. CASE k \in 1..l
      <4>1. speech[k] \in Nat /\ NotAfter(speech[k]) /\ speech'[k] = speech[k]
        BY <1>7, <1>9, <3>1
      <4> QED
        BY <1>3, <4>1 DEF NotAfter
    <3>2. CASE k \notin 1..l
      <4>1. speech'[k] \in Nat /\ speech'[k] <= hi
        BY <1>10, <3>2
      <4> QED
        BY <1>3, <4>1 DEF NotAfter
    <3> QED
      BY <3>1, <3>2
  <2>2. last_given' = last_given
    BY <1>3 DEF history
  <2>3. NotAfter(last_given)'
    BY <1>3, <1>8, <2>2 DEF NotAfter
  <2> QED
    BY <1>6, <2>1, <2>3
<1>14. GapInv'
  <2>1. Unbroken' = Unbroken
    BY <1>3 DEF Unbroken, InCall, mainVars, history, StoreAppend
  <2>2. Line' = Line \o Run(lo, hi)
    <3>1. CASE mpc = "idle"
      <4>1. Line' = <<last_given>> \o (speech \o Run(lo, hi))
        BY <1>1, <1>2, <1>3, <3>1 DEF Line, mainVars, history
      <4> DEFINE g == <<last_given>>
                 r == Run(lo, hi)
      <4>2. g \in Seq(Nat) /\ r \in Seq(Nat) /\ speech \in Seq(Nat)
        BY <1>4, <1>8, RunType
      <4>3. Line = g \o speech
        BY <3>1 DEF Line
      <4> HIDE DEF g, r
      <4>4. g \o (speech \o r) = (g \o speech) \o r
        <5> DEFINE p == speech
        <5>1. p \in Seq(Nat)
          BY <4>2
        <5> HIDE DEF p
        <5>2. (g \o p) \o r = g \o (p \o r)
          BY <4>2, <5>1, SMTT(30)
        <5> QED
          BY <5>2 DEF p
      <4> QED
        BY <4>1, <4>3, <4>4 DEF g, r
    <3>2. CASE mpc # "idle"
      BY <1>1, <1>2, <1>3, <3>2 DEF Line, mainVars
    <3> QED
      BY <3>1, <3>2
  <2> SUFFICES ASSUME Unbroken PROVE Consecutive(Line') /\ Continues'
    BY <2>1 DEF GapInv, Consecutive
  <2>3. Consecutive(Line) /\ (Line # << >> => Line[Len(Line)] + 1 = lo)
    BY <1>1, <1>2, <1>3 DEF OrdInv, GapInv, Continues
  <2>4. Line' # << >> /\ Line'[Len(Line')] = hi /\ Consecutive(Line')
    <3>1. Line \in Seq(Nat)
      BY LineFacts
    <3> DEFINE s == Line
    <3>2. s \in Seq(Nat) /\ Consecutive(s) /\ (s # << >> => s[Len(s)] + 1 = lo) /\ Line' = s \o Run(lo, hi)
      BY <2>2, <2>3, <3>1
    <3> HIDE DEF s
    <3>3. LET t == s \o Run(lo, hi)
          IN  t # << >> /\ t[Len(t)] = hi /\ Consecutive(t)
      <4>1. lo \in Nat /\ hi \in Nat /\ lo <= hi
        BY <1>2
      <4> QED
        BY <3>2, <4>1, RunContinues, Zenon
    <3> QED
      BY <3>2, <3>3
  <2>5. Continues'
    <3>1. local' /\ local' = local
      BY <1>3
    <3> QED
      BY <1>3, <2>4, <3>1 DEF Continues
  <2> QED
    BY <2>4, <2>5
<1> QED
  BY <1>3, <1>11, <1>12, <1>13, <1>14 DEF OrdInv, OrderInv

\* One block before the block of the chunk itself, or none.
LEMMA Blocks ==
  ASSUME NEW x \in Seq(Nat), NEW c \in Nat
  PROVE  /\ << >> \o << >> \o << <<c>> >> = << <<c>> >>
         /\ << x >> \o << >> \o << <<c>> >> = << x, <<c>> >>
         /\ << >> \o << x >> \o << <<c>> >> = << x, <<c>> >>
         /\ << >> \o << >> \o << >> = << >>
<1> DEFINE y == <<c>>
           a == << x >>
           b == << y >>
<1>1. y \in Seq(Nat)
  OBVIOUS
<1> HIDE DEF y
<1>2. a \in Seq(Seq(Nat)) /\ b \in Seq(Seq(Nat)) /\ << >> \in Seq(Seq(Nat))
  BY <1>1
<1>3. a \o b = << x, y >>
  <2>1. /\ a \o b \in Seq(Seq(Nat)) /\ Len(a \o b) = 2 /\ (a \o b)[1] = x /\ (a \o b)[2] = y
    BY <1>1, <1>2
  <2> DEFINE t == << x, y >>
             u == a \o b
  <2>2. t \in Seq(Seq(Nat)) /\ Len(t) = 2 /\ t[1] = x /\ t[2] = y
    BY <1>1
  <2>3. u \in Seq(Seq(Nat)) /\ Len(u) = 2 /\ u[1] = x /\ u[2] = y
    BY <2>1
  <2> HIDE DEF a, b, t, u
  <2>4. \A i \in 1..Len(u) : u[i] = t[i]
    <3>1. \A i \in 1..2 : i = 1 \/ i = 2
      OBVIOUS
    <3> QED
      BY <2>2, <2>3, <3>1
  <2>5. u = t
    <3>1. Len(u) = Len(t)
      BY <2>2, <2>3
    <3> QED
      BY <2>2, <2>3, <2>4, <3>1, SeqEqual, Zenon
  <2> QED
    BY <2>5 DEF t, u
<1> HIDE DEF a, b
<1>4. /\ << >> \o a = a /\ << >> \o b = b /\ a \o << >> = a
      /\ << >> \o << >> = << >>
  BY <1>2, ConcatEmptySeq
<1> QED
  BY <1>3, <1>4 DEF a, b, y

\* The trigger detection on a chunk, outside a segment.
LEMMA ChunkOutside ==
  ASSUME IndInv, OrdInv, NEW loud \in BOOLEAN, Chunk(loud), ~is_valid_data
  PROVE  /\ VadInv' /\ \A x \in Nat : NotAfter(x) => NotAfter(x)'
         /\ local => ~Unbroken \/ Line = << >>
<1> DEFINE c == captured + 1
<1>1. /\ apc = "chunk" /\ todo = << >> /\ captured' = captured /\ local' = local
      /\ todo' = StoreCalls(loud) /\ apc' \in {"next", "test"}
      /\ (apc' = "test" <=> todo' # << >>)
  BY Known DEF Chunk, Storing, AfterStore
<1>2. captured \in Nat /\ c \in Nat /\ HeadLen \in Nat /\ TailStore \in Nat /\ nc \in Nat
  BY Known
<1>3. Heard = captured /\ Heard' = c
  BY <1>1, <1>2 DEF Heard, Storing
<1>4. local => ~Unbroken \/ Line = << >>
  BY <1>1 DEF OrdInv, GapInv, Continues
<1>7. Overlap \in Nat
  BY Known
<1>5. CASE ~loud
  <2>1. is_valid_data' = FALSE
    BY <1>5 DEF Chunk
  <2>2. todo' = << >>
    BY <1>1, <1>2, <1>5, Blocks DEF StoreCalls
  <2>3. VadInv'
    BY <2>1, <2>2 DEF VadInv
  <2>4. \A x \in Nat : NotAfter(x) => NotAfter(x)'
    <3>1. \A x \in Nat : NotAfter(x) => x <= c /\ (x = 0 \/ x <= c - HeadLen + Overlap)
      BY <1>1, <1>2, <1>3, <1>7 DEF NotAfter
    <3> QED
      BY <1>3, <2>1, <2>2, <3>1 DEF NotAfter, Overlap
  <2> QED
    BY <1>4, <2>3, <2>4
<1>6. CASE loud
  <2>1. is_valid_data' = TRUE /\ nc' = 0
    BY <1>6 DEF Chunk, NcAfter
  <2>2. Newest' = c
    BY <1>2, <1>3, <2>1 DEF Newest
  <2> DEFINE lo == IF c > HeadLen THEN c - HeadLen ELSE 1
  <2>3. lo \in Nat /\ lo >= 1 /\ lo <= c /\ HeadMargin(c) = Run(lo, captured)
    <3>1. c - 1 = captured
      BY <1>2
    <3> QED
      BY <1>2, <3>1 DEF HeadMargin
  <2>4. \A x \in Nat : NotAfter(x) => x < lo + Overlap /\ x <= c
    BY <1>1, <1>2, <1>3, <1>7 DEF NotAfter
  <2>5. /\ Run(lo, captured) \in Seq(Nat)
        /\ Run(lo, captured) # << >> => lo <= captured /\ Run(lo, captured)[1] = lo
        /\ Run(lo, captured) = << >> => lo = c
    <3> HIDE DEF lo
    <3>1. lo <= captured + 1
      BY <1>2, <2>3
    <3>2. /\ Run(lo, captured) \in Seq(Nat) /\ Len(Run(lo, captured)) = captured - lo + 1
          /\ \A k \in 1..captured - lo + 1 : Run(lo, captured)[k] = lo + k - 1
      BY <1>2, <2>3, <3>1, RunFacts
    <3>3. CASE lo <= captured
      <4>1. 1 \in 1..captured - lo + 1 /\ lo + 1 - 1 = lo /\ captured - lo + 1 # 0
        BY <1>2, <2>3, <3>3
      <4>2. Len(Run(lo, captured)) # 0
        BY <3>2, <4>1
      <4>3. Run(lo, captured) # << >>
        BY <4>2
      <4> QED
        BY <3>2, <3>3, <4>1, <4>3
    <3>4. CASE ~(lo <= captured)
      <4>1. lo = captured + 1 /\ captured - lo + 1 = 0
        BY <1>2, <2>3, <3>1, <3>4
      <4>2. Run(lo, captured) = << >>
        BY <3>2, <4>1, EmptySeq
      <4> QED
        BY <3>2, <4>1, <4>2
    <3> QED
      BY <3>3, <3>4
  <2> HIDE DEF lo
  <2>6. CASE ~local
    <3>1. todo' = << >>
      BY <1>1, <2>6 DEF StoreCalls
    <3>2. VadInv'
      BY <1>2, <1>3, <2>1, <3>1 DEF VadInv
    <3>3. \A x \in Nat : NotAfter(x) => NotAfter(x)'
      BY <1>2, <1>3, <2>1, <2>2, <2>4, <3>1 DEF NotAfter
    <3> QED
      BY <1>4, <3>2, <3>3
  <2>7. CASE local
    <3>1. todo' = IF Run(lo, captured) # << >> THEN << Run(lo, captured), <<c>> >> ELSE << <<c>> >>
      <4>1. todo' = (IF Run(lo, captured) # << >> THEN << Run(lo, captured) >> ELSE << >>)
                    \o << >> \o << <<c>> >>
        BY <1>1, <1>6, <2>3, <2>7 DEF StoreCalls, Swapped
      <4> HIDE DEF c
      <4> QED
        BY <1>2, <2>5, <4>1, Blocks
    <3>2. todo' # << >> /\ todo'[1][1] = lo
      <4>1. CASE Run(lo, captured) # << >>
        BY <2>5, <3>1, <4>1
      <4>2. CASE Run(lo, captured) = << >>
        <5> HIDE DEF c
        <5> QED
          BY <2>5, <3>1, <4>2
      <4> QED
        BY <4>1, <4>2
    <3>3. VadInv'
      <4>1. \/ todo' = << <<Heard'>> >>
            \/ \E k \in 1..captured' : todo' = << Run(k, captured'), <<Heard'>> >>
        <5>1. Run(lo, captured) # << >> => lo \in 1..captured
          BY <1>2, <2>3, <2>5
        <5> QED
          BY <1>1, <1>3, <3>1, <5>1
      <4> QED
        BY <1>2, <1>3, <2>1, <4>1 DEF VadInv
    <3>4. \A x \in Nat : NotAfter(x) => NotAfter(x)'
      BY <1>3, <2>4, <3>2 DEF NotAfter, Overlap
    <3> QED
      BY <1>4, <3>3, <3>4
  <2> QED
    BY <2>6, <2>7
<1> QED
  BY <1>5, <1>6

\* A loud chunk inside a segment: what is in swapbuf is stored before it.
LEMMA ChunkLoud ==
  ASSUME IndInv, OrdInv, Chunk(TRUE), is_valid_data
  PROVE  /\ VadInv' /\ Newest' = captured + 1 /\ is_valid_data' /\ Newest \in Nat
         /\ \A x \in Nat : NotAfter(x) => NotAfter(x)'
         /\ local => todo' # << >> /\ todo'[1][1] = Newest + 1
<1> DEFINE c == captured + 1
           n == Newest + 1
<1>1. /\ apc = "chunk" /\ todo = << >> /\ captured' = captured /\ local' = local
      /\ todo' = StoreCalls(TRUE) /\ apc' \in {"next", "test"}
      /\ (apc' = "test" <=> todo' # << >>)
      /\ is_valid_data' = TRUE /\ nc' = 0
  BY Known DEF Chunk, Storing, AfterStore, NcAfter
<1>2. captured \in Nat /\ c \in Nat /\ TailStore \in Nat /\ nc \in Nat /\ swapbuf \in Seq(Nat)
  BY Known, SMTT(30)
<1>3. Heard = captured /\ Heard' = c /\ nc <= captured
  BY <1>1, <1>2 DEF Heard, Storing, OrdInv, VadInv
<1>4. Newest \in Nat /\ Newest <= captured /\ (nc = 0 => Newest = captured)
  BY <1>2, <1>3 DEF Newest
<1>5. Newest' = c
  BY <1>1, <1>2, <1>3 DEF Newest
<1>6. nc > 0 => swapbuf = Run(n, captured)
  BY <1>1, <1>3 DEF OrdInv, VadInv
<1>7. /\ n \in Nat /\ n >= 1 /\ n <= captured + 1 /\ (nc = 0 => n = c)
      /\ \A x \in Nat : x <= Newest => x < n
  BY <1>2, <1>4
<1> HIDE DEF n
<1>8. /\ Run(n, captured) # << >> => n <= captured /\ Run(n, captured)[1] = n
      /\ Run(n, captured) = << >> => n = c
  <2>1. /\ Run(n, captured) \in Seq(Nat) /\ Len(Run(n, captured)) = captured - n + 1
        /\ \A k \in 1..captured - n + 1 : Run(n, captured)[k] = n + k - 1
    BY <1>2, <1>7, RunFacts
  <2>2. CASE n <= captured
    <3>1. 1 \in 1..captured - n + 1 /\ n + 1 - 1 = n /\ captured - n + 1 # 0
      BY <1>2, <1>7, <2>2
    <3>2. Len(Run(n, captured)) # 0
      BY <2>1, <3>1
    <3>3. Run(n, captured) # << >>
      BY <3>2
    <3> QED
      BY <2>1, <2>2, <3>1, <3>3
  <2>3. CASE ~(n <= captured)
    <3>1. n = captured + 1 /\ captured - n + 1 = 0
      BY <1>2, <1>7, <2>3
    <3>2. Run(n, captured) = << >>
      BY <2>1, <3>1, EmptySeq
    <3> QED
      BY <3>1, <3>2
  <2> QED
    BY <2>2, <2>3
<1>9. \A x \in Nat : NotAfter(x) => x <= Newest /\ x <= c
  <2>1. \A x \in Nat : NotAfter(x) => x <= Newest
    BY <1>1 DEF NotAfter
  <2> QED
    BY <1>2, <1>4, <2>1
<1>10. nc' <= Heard' /\ ~(nc' > 0) /\ nc' <= TailStore
  BY <1>1, <1>2, <1>3
<1>11. CASE ~local
  <2>1. todo' = << >>
    BY <1>1, <1>11 DEF StoreCalls
  <2>2. VadInv'
    BY <1>10, <2>1 DEF VadInv
  <2>3. \A x \in Nat : NotAfter(x) => NotAfter(x)'
    <3>1. \A x \in Nat : NotAfter(x) => x <= Newest'
      BY <1>2, <1>4, <1>5, <1>9
    <3> QED
      BY <1>1, <1>3, <1>9, <2>1, <3>1 DEF NotAfter
  <2> QED
    BY <1>1, <1>4, <1>5, <1>11, <2>2, <2>3
<1>12. CASE local
  <2>1. todo' = IF nc > 0 /\ swapbuf # << >> THEN << swapbuf, <<c>> >> ELSE << <<c>> >>
    <3>1. todo' = << >> \o (IF nc > 0 /\ swapbuf # << >> THEN << swapbuf >> ELSE << >>)
                  \o << <<c>> >>
      BY <1>1, <1>12 DEF StoreCalls, Swapped
    <3> HIDE DEF c
    <3> QED
      BY <1>2, <3>1, Blocks
  <2>2. todo' # << >> /\ todo'[1][1] = n
    <3>1. CASE nc > 0 /\ swapbuf # << >>
      BY <1>6, <1>8, <2>1, <3>1
    <3>2. CASE ~(nc > 0 /\ swapbuf # << >>)
      <4>1. n = c
        BY <1>2, <1>6, <1>7, <1>8, <3>2
      <4>2. todo' = << <<c>> >>
        BY <2>1, <3>2
      <4> HIDE DEF c
      <4> QED
        BY <4>1, <4>2
    <3> QED
      BY <3>1, <3>2
  <2>3. VadInv'
    <3>1. \/ todo' = << <<Heard'>> >>
          \/ \E k \in 1..captured' : todo' = << Run(k, captured'), <<Heard'>> >>
      <4>1. nc > 0 /\ swapbuf # << >> => n \in 1..captured /\ swapbuf = Run(n, captured)
        BY <1>2, <1>6, <1>7, <1>8
      <4> QED
        BY <1>1, <1>3, <2>1, <4>1
    <3> QED
      BY <1>1, <1>10, <3>1 DEF VadInv
  <2>4. \A x \in Nat : NotAfter(x) => NotAfter(x)'
    <3>1. Overlap \in Nat
      BY Known
    <3>2. \A x \in Nat : NotAfter(x) => x < n + Overlap
      BY <1>7, <1>9, <3>1
    <3> QED
      BY <1>3, <1>9, <2>2, <3>2 DEF NotAfter, Overlap
  <2> QED
    BY <1>1, <1>4, <1>5, <2>2, <2>3, <2>4 DEF n
<1> QED
  BY <1>11, <1>12

\* A silent chunk inside a segment: stored within the tail, else in swapbuf.
LEMMA ChunkSilent ==
  ASSUME IndInv, OrdInv, Chunk(FALSE), is_valid_data
  PROVE  /\ VadInv' /\ is_valid_data'
         /\ \A x \in Nat : NotAfter(x) => NotAfter(x)'
         /\ local => IF todo' # << >> THEN todo'[1][1] = Newest + 1 ELSE Newest' = Newest
<1> DEFINE c == captured + 1
<1>1. /\ apc = "chunk" /\ todo = << >> /\ captured' = captured /\ local' = local
      /\ todo' = StoreCalls(FALSE) /\ apc' \in {"next", "test"}
      /\ (apc' = "test" <=> todo' # << >>)
      /\ is_valid_data' = TRUE /\ nc' = nc + 1 /\ swapbuf' = SwapAfter(FALSE)
  BY Known DEF Chunk, Storing, AfterStore, NcAfter
<1>2. captured \in Nat /\ c \in Nat /\ TailStore \in Nat /\ nc \in Nat /\ swapbuf \in Seq(Nat)
  BY Known, SMTT(30)
<1>3. Heard = captured /\ Heard' = c /\ nc <= captured
  BY <1>1, <1>2 DEF Heard, Storing, OrdInv, VadInv
<1>4. Newest \in Nat /\ Newest <= captured
  BY <1>2, <1>3 DEF Newest
<1>5. \A x \in Nat : NotAfter(x) => x <= Newest
  BY <1>1 DEF NotAfter
<1>9. Overlap \in Nat
  BY Known
<1> DEFINE start == IF nc = 0 THEN << >> ELSE swapbuf
<1>6. start = Run(Newest + 1, captured)
  <2>1. CASE nc = 0
    <3>1. Newest = captured
      BY <1>2, <1>3, <2>1 DEF Newest
    <3>2. /\ captured + 1 \in Nat /\ captured + 1 <= captured + 1 /\ captured - (captured + 1) + 1 = 0
      BY <1>2
    <3>3. /\ Run(captured + 1, captured) \in Seq(Nat) /\ Len(Run(captured + 1, captured)) = 0
      BY <1>2, <3>2, RunFacts
    <3> QED
      BY <2>1, <3>1, <3>3, EmptySeq
  <2>2. CASE nc # 0
    BY <1>1, <1>2, <1>3, <2>2 DEF OrdInv, VadInv
  <2> QED
    BY <2>1, <2>2
<1>7. CASE nc + 1 <= TailStore
  <2>1. Newest = captured /\ Newest' = c
    BY <1>1, <1>2, <1>3, <1>7 DEF Newest
  <2>2. swapbuf' = Run(c, captured)
    BY <1>1, <1>2, <1>6, <1>7, <2>1 DEF SwapAfter, Swapped
  <2>3. swapbuf' = Run(Newest' + 1, Heard')
    <3>1. /\ captured + 1 \in Nat /\ captured + 1 <= captured + 1 /\ captured - (captured + 1) + 1 = 0
          /\ c + 1 \in Nat /\ c + 1 <= c + 1 /\ c - (c + 1) + 1 = 0
      BY <1>2
    <3>2. Run(c, captured) \in Seq(Nat) /\ Len(Run(c, captured)) = 0
      BY <1>2, <3>1, RunFacts
    <3>3. Run(c + 1, c) \in Seq(Nat) /\ Len(Run(c + 1, c)) = 0
      BY <1>2, <3>1, RunFacts
    <3>4. Run(c, captured) = << >> /\ Run(c + 1, c) = << >>
      BY <3>2, <3>3, EmptySeq
    <3> QED
      BY <1>3, <2>1, <2>2, <3>4
  <2>4. todo' = IF local THEN << <<c>> >> ELSE << >>
    <3>1. todo' = IF local THEN << >> \o << >> \o << <<c>> >> ELSE << >>
      BY <1>1, <1>2, <1>7 DEF StoreCalls, Swapped
    <3>2. << >> \in Seq(Nat)
      OBVIOUS
    <3> HIDE DEF c
    <3> QED
      BY <1>2, <3>1, <3>2, Blocks
  <2>5. local => todo' # << >> /\ todo'[1][1] = c
    <3> HIDE DEF c
    <3> QED
      BY <2>4
  <2>6. VadInv'
    <3>1. nc' <= Heard' /\ nc' <= TailStore
      BY <1>1, <1>2, <1>3, <1>7
    <3>2. todo' # << >> => todo' = << <<Heard'>> >>
      BY <1>3, <2>4
    <3> QED
      BY <1>1, <2>3, <3>1, <3>2 DEF VadInv
  <2>7. \A x \in Nat : NotAfter(x) => NotAfter(x)'
    <3>1. \A x \in Nat : NotAfter(x) => x < c
      BY <1>2, <1>4, <1>5
    <3>2. ~local => todo' = << >>
      BY <2>4
    <3>3. \A x \in Nat : x < c => NotAfter(x)'
      <4>1. \A x \in Nat : x < c => x <= Newest' /\ x <= c /\ x < c + Overlap
        BY <1>2, <1>9, <2>1
      <4> QED
        BY <1>1, <1>3, <2>5, <3>2, <4>1 DEF NotAfter, Overlap
    <3> QED
      BY <3>1, <3>3
  <2> QED
    BY <1>1, <2>1, <2>5, <2>6, <2>7
<1>8. CASE ~(nc + 1 <= TailStore)
  <2>1. Newest' = Newest
    BY <1>1, <1>2, <1>3, <1>8 DEF Newest
  <2>2. todo' = << >>
    <3>1. todo' = IF local THEN << >> \o << >> \o << >> ELSE << >>
      BY <1>1, <1>2, <1>8 DEF StoreCalls, Swapped
    <3>2. << >> \in Seq(Nat)
      OBVIOUS
    <3> QED
      BY <1>2, <3>1, <3>2, Blocks
  <2>3. swapbuf' = Run(Newest' + 1, Heard')
    <3>1. swapbuf' = Append(start, c)
      BY <1>1, <1>2, <1>8 DEF SwapAfter, Swapped
    <3>2. Newest + 1 \in Nat /\ Newest + 1 <= captured + 1
      BY <1>2, <1>4
    <3>3. Append(Run(Newest + 1, captured), captured + 1) = Run(Newest + 1, captured + 1)
      BY <1>2, <3>2, RunAppend
    <3> QED
      BY <1>3, <1>6, <2>1, <3>1, <3>3
  <2>4. VadInv'
    <3>1. nc' <= Heard'
      BY <1>1, <1>2, <1>3
    <3> QED
      BY <2>2, <2>3, <3>1 DEF VadInv
  <2>5. \A x \in Nat : NotAfter(x) => NotAfter(x)'
    <3>1. \A x \in Nat : NotAfter(x) => x <= Newest /\ x <= c
      BY <1>2, <1>4, <1>5
    <3> QED
      BY <1>1, <1>3, <2>1, <2>2, <3>1 DEF NotAfter
  <2> QED
    BY <1>1, <2>1, <2>2, <2>4, <2>5
<1> QED
  BY <1>7, <1>8

LEMMA ChunkOrder ==
  ASSUME IndInv, OrdInv, NEW loud \in BOOLEAN, Chunk(loud)
  PROVE  OrdInv'
<1>1. /\ UNCHANGED <<speech, mainVars, history, transfer_online, overflowed, local>>
      /\ todo = << >>
  BY Known DEF Chunk, shared, Storing
<1>2. Line' = Line
  BY <1>1, LineKept
<1>3. CASE ~is_valid_data
  <2>1. /\ VadInv' /\ \A x \in Nat : NotAfter(x) => NotAfter(x)'
        /\ local => ~Unbroken \/ Line = << >>
    BY <1>3, ChunkOutside
  <2>2. GapInv'
    <3>1. Unbroken /\ Line # << >> /\ Continues => Continues'
      BY <1>1, <1>2, <2>1 DEF Continues
    <3> QED
      BY <1>1, <3>1, GapKept
  <2> QED
    BY <1>1, <2>1, <2>2, AdinKeeps
<1>4. CASE is_valid_data /\ loud
  <2>1. Chunk(TRUE)
    BY <1>4
  <2>2. /\ VadInv' /\ \A x \in Nat : NotAfter(x) => NotAfter(x)'
        /\ local => todo' # << >> /\ todo'[1][1] = Newest + 1
    BY <1>4, <2>1, ChunkLoud
  <2>3. GapInv'
    <3>1. Continues => Continues'
      BY <1>1, <1>2, <2>2 DEF Continues
    <3> QED
      BY <1>1, <3>1, GapKept
  <2> QED
    BY <1>1, <2>2, <2>3, AdinKeeps
<1>5. CASE is_valid_data /\ ~loud
  <2>1. Chunk(FALSE)
    BY <1>5
  <2>2. /\ VadInv' /\ is_valid_data' /\ \A x \in Nat : NotAfter(x) => NotAfter(x)'
        /\ local => IF todo' # << >> THEN todo'[1][1] = Newest + 1 ELSE Newest' = Newest
    BY <1>5, <2>1, ChunkSilent
  <2>3. GapInv'
    <3>1. Continues => Continues'
      BY <1>1, <1>2, <2>2 DEF Continues
    <3> QED
      BY <1>1, <3>1, GapKept
  <2> QED
    BY <1>1, <2>2, <2>3, AdinKeeps
<1> QED
  BY <1>3, <1>4, <1>5

-----------------------------------------------------------------------------
LEMMA InitOrder == Init => OrdInv
<1> SUFFICES ASSUME Init PROVE OrdInv
  OBVIOUS
<1>1. todo = << >> /\ ~is_valid_data /\ speech = << >> /\ last_given = 0 /\ mpc = "idle"
      /\ ret = 1 /\ captured = 0 /\ apc = "read"
  BY DEF Init
<1>2. DOMAIN speech = {}
  <2>1. DOMAIN << >> = {}
    OBVIOUS
  <2> QED
    BY <1>1, <2>1
<1>3. NotAfter(last_given)
  BY <1>1 DEF NotAfter, Heard, Storing
<1> QED
  BY <1>1, <1>2, <1>3 DEF OrdInv, VadInv, OrderInv, GapInv, Rising, Unbroken, InCall

LEMMA NextOrder == IndInv /\ OrdInv /\ [Next]_vars => OrdInv'
<1> SUFFICES ASSUME IndInv, OrdInv, [Next]_vars PROVE OrdInv'
  OBVIOUS
<1>1. CASE AdinStep
  BY <1>1, ChunkOrder, ReadOrder, OverflowOrder, AppendOrder, NextChunkOrder DEF AdinStep
<1>2. CASE Device
  BY <1>2, ReadOrder
<1>3. CASE MainStep
  BY <1>3, MainOrder
<1>4. CASE UNCHANGED vars
  <2>1. /\ UNCHANGED <<speech, mainVars, history, transfer_online, overflowed, local, todo>>
        /\ UNCHANGED <<captured, apc, nc, is_valid_data, swapbuf>>
    BY <1>4 DEF vars, shared, adinVars
  <2>2. Heard' = Heard
    BY <2>1 DEF Heard, Storing
  <2>3. VadInv' /\ Newest' = Newest /\ \A x \in Nat : NotAfter(x) => NotAfter(x)'
    BY <2>1, <2>2 DEF OrdInv, VadInv, Newest, NotAfter, Overlap
  <2>4. Line' = Line
    BY <2>1, LineKept
  <2>5. GapInv'
    <3>1. Continues => Continues'
      BY <2>1, <2>3, <2>4 DEF Continues
    <3> QED
      BY <2>1, <3>1, GapKept
  <2> QED
    BY <2>1, <2>3, <2>5, AdinKeeps
<1> QED
  BY <1>1, <1>2, <1>3, <1>4 DEF Next

\* The slice that is being read is in order and begins behind what was given.
LEMMA OrderImplies == IndInv /\ OrdInv => GivenInOrder
<1> SUFFICES ASSUME IndInv, OrdInv PROVE GivenInOrder
  OBVIOUS
<1>1. ~leftover /\ ~overflowed =>
        /\ InCall => Consecutive(speech)
        /\ mpc = "idle" /\ ret = 2 => Consecutive(<<last_given>> \o speech)
  BY DEF OrdInv, GapInv, Unbroken, Line, InCall
<1>2. ASSUME mpc = "process"
      PROVE  /\ last_given < slice[1] + Overlap
             /\ \A i, j \in DOMAIN slice : i < j => slice[i] < slice[j] + Overlap
  <2> DEFINE n == nowlen - prev_len
  <2>1. /\ slice = SubSeq(speech, prev_len + 1, nowlen) /\ prev_len < nowlen
        /\ nowlen <= Len(speech) /\ GivenUpTo = prev_len
    BY <1>2 DEF IndInv, MainInv, SliceStable, GivenUpTo
  <2>2. /\ prev_len \in Nat /\ nowlen \in Nat /\ Len(speech) \in Nat
        /\ DOMAIN speech = 1..Len(speech) /\ \A k \in 1..Len(speech) : speech[k] \in Nat
    BY Known
  <2>3. n \in Nat /\ 1 \in 1..n /\ nowlen - (prev_len + 1) + 1 = n /\ prev_len + 1 <= nowlen
    BY <2>1, <2>2
  <2>4. \A k \in 1..n : prev_len + k \in DOMAIN speech /\ prev_len + 1 + k - 1 = prev_len + k
    <3> DEFINE l == Len(speech)
    <3>1. l \in Nat /\ nowlen <= l /\ DOMAIN speech = 1..l
      BY <2>1, <2>2
    <3> HIDE DEF l
    <3> QED
      BY <2>1, <2>2, <3>1
  <2>5. slice \in Seq(Nat) /\ Len(slice) = n /\ \A k \in 1..n : slice[k] = speech[prev_len + k]
    <3>1. \A k \in prev_len + 1..nowlen : speech[k] \in Nat
      <4> DEFINE l == Len(speech)
      <4>1. l \in Nat /\ nowlen <= l /\ \A k \in 1..l : speech[k] \in Nat
        BY <2>1, <2>2
      <4> HIDE DEF l
      <4> QED
        BY <2>2, <4>1
    <3>2. prev_len + 1 \in Int /\ nowlen \in Int
      BY <2>2
    <3>3. /\ slice \in Seq(Nat)
          /\ Len(slice) = IF prev_len + 1 <= nowlen THEN nowlen - (prev_len + 1) + 1 ELSE 0
          /\ \A k \in 1..nowlen - (prev_len + 1) + 1 : slice[k] = speech[prev_len + 1 + k - 1]
      BY <2>1, <3>1, <3>2, SubSeqProperties
    <3> HIDE DEF n
    <3> QED
      BY <2>3, <2>4, <3>3
  <2>6. DOMAIN slice = 1..n
    BY <2>5
  <2>7. last_given < slice[1] + Overlap
    <3>1. prev_len + 1 \in DOMAIN speech /\ prev_len + 1 > prev_len /\ slice[1] = speech[prev_len + 1]
      BY <2>2, <2>3, <2>4, <2>5
    <3> QED
      BY <1>2, <2>1, <3>1 DEF OrdInv, OrderInv
  <2>8. ASSUME NEW i \in 1..n, NEW j \in 1..n, i < j PROVE slice[i] < slice[j] + Overlap
    <3>1. /\ prev_len + i \in DOMAIN speech /\ prev_len + j \in DOMAIN speech
          /\ slice[i] = speech[prev_len + i] /\ slice[j] = speech[prev_len + j]
      BY <2>4, <2>5
    <3>2. prev_len + i < prev_len + j
      BY <2>2, <2>3, <2>8
    <3> QED
      BY <3>1, <3>2 DEF OrdInv, OrderInv, Rising
  <2> QED
    BY <2>6, <2>7, <2>8
<1> QED
  BY <1>1, <1>2 DEF GivenInOrder

\* ad_process is given the chunks in capture order, over all calls of
\* adin_thread_process and for any margins and steps, but for the Overlap that
\* a head margin may repeat; and without a gap or a repetition unless the
\* buffer overflowed or was not empty at the start of the call.
THEOREM OrderIsKept == Spec => []GivenInOrder
<1>1. Init => OrdInv
  BY InitOrder
<1>2. IndInv /\ OrdInv /\ [Next]_vars => OrdInv'
  BY NextOrder
<1>3. IndInv /\ OrdInv => GivenInOrder
  BY OrderImplies
<1> QED
  BY <1>1, <1>2, <1>3, Invariance, PTL DEF Spec
=============================================================================
