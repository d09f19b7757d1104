----------------------------- MODULE AdinThread -----------------------------
(***************************************************************************)
(* The two threads of threaded audio input in libjulius/src/adin-cut.c.    *)
(*                                                                         *)
(* The A/D-in thread (adin_cut with adin_store_buffer as its ad_process)   *)
(* reads the microphone, finds speech segments and appends the samples of  *)
(* a segment to speech[].  The process thread, inside adin_thread_process, *)
(* polls speech[], hands what is new to ad_process (the 1st pass) and      *)
(* empties speech[] when the segment is over.  transfer_online is the      *)
(* semaphore between them.                                                 *)
(*                                                                         *)
(* Grain.  Samples are counted in chunks (the wstep of adin_cut), and a    *)
(* chunk is the number of its capture.  Everything adin-cut.c does between *)
(* pthread_mutex_lock and pthread_mutex_unlock is one action; accesses     *)
(* outside the lock (the overflow test of adin_store_buffer, ad_process    *)
(* reading speech[], the write of adinthread_ended) are actions of their   *)
(* own.  The configuration is the one HAS runs: microphone input           *)
(* (enable_thread, adin_cut_on), no -spsegment, so that                    *)
(* ignore_speech_while_recog holds and rehash is never requested.          *)
(***************************************************************************)
EXTENDS Integers, Sequences, FiniteSets

CONSTANTS
  MaxSpeech,   \* MAXSPEECHLEN, in chunks
  HeadLen,        \* chunks before the current one in the cycle buffer (c_length)
  TailStore,   \* silent chunks stored before rest_tail is used up
  NcMax,       \* nc_max: silent chunks that end a segment
  MaxBatch,    \* the most chunks one ad_read returns
  CheckReturns,\* what ad_check may return: {0} when nobody asks to stop
  MaxChunks    \* bound: chunks captured in a behaviour

ASSUME ConstAssumption ==
  /\ MaxSpeech \in Nat /\ HeadLen \in Nat /\ TailStore \in Nat
  /\ NcMax \in Nat \ {0} /\ MaxBatch \in Nat \ {0} /\ MaxChunks \in Nat
  /\ CheckReturns \subseteq {0, -1, -2}

VARIABLES
  \* shared, in ADIn
  transfer_online, speech, overflowed, ended,
  \* the A/D-in thread: program counter, chunks of this ad_read still to do,
  \* transfer_online_local, is_valid_data, nc, swapbuf, store calls left for
  \* the current chunk, whether the chunk ends the segment, chunks captured
  apc, batch, local, is_valid_data, nc, swapbuf, todo, seg_end, captured,
  \* the process thread: program counter, the locals of adin_thread_process
  \* and its last return value
  mpc, prev_len, nowlen, online_local, ret,
  \* history: the slice ad_process is reading, the newest chunk it was ever
  \* given, and whether speech[] was not empty when this call began
  slice, last_given, leftover

shared   == <<transfer_online, speech, overflowed, ended>>
adinVars == <<apc, batch, local, is_valid_data, nc, swapbuf, todo, seg_end, captured>>
mainVars == <<mpc, prev_len, nowlen, online_local, ret>>
history  == <<slice, last_given, leftover>>
vars     == <<shared, adinVars, mainVars, history>>

AdinPC == {"read", "chunk", "test", "overflow", "append", "next", "exit", "dead"}
MainPC == {"idle", "poll", "overflow", "check", "terminate", "process",
           "segment", "error", "reset", "stopped"}

Chunks == 1..MaxChunks

TypeOK ==
  /\ transfer_online \in BOOLEAN /\ overflowed \in BOOLEAN /\ ended \in BOOLEAN
  /\ speech \in Seq(Nat)
  /\ apc \in AdinPC /\ batch \in 0..MaxBatch /\ local \in BOOLEAN
  /\ is_valid_data \in BOOLEAN /\ nc \in 0..NcMax /\ swapbuf \in Seq(Nat)
  /\ todo \in Seq(Seq(Nat)) /\ seg_end \in BOOLEAN /\ captured \in 0..MaxChunks
  /\ mpc \in MainPC /\ prev_len \in Nat /\ nowlen \in Nat
  /\ online_local \in BOOLEAN /\ ret \in {-2, -1, 0, 1, 2}
  /\ slice \in Seq(Nat) /\ last_given \in Nat /\ leftover \in BOOLEAN

\* adin_thread_create, then j_recognize_stream about to call adin_go.
Init ==
  /\ transfer_online = FALSE /\ speech = << >> /\ overflowed = FALSE /\ ended = FALSE
  /\ apc = "read" /\ batch = 0 /\ local = FALSE /\ is_valid_data = FALSE /\ nc = 0
  /\ swapbuf = << >> /\ todo = << >> /\ seg_end = FALSE /\ captured = 0
  /\ mpc = "idle" /\ prev_len = 0 /\ nowlen = 0 /\ online_local = FALSE /\ ret = 1
  /\ slice = << >> /\ last_given = 0 /\ leftover = FALSE

-----------------------------------------------------------------------------
(* The A/D-in thread.                                                      *)

\* ad_read returns n chunks, and the thread copies transfer_online once for
\* the whole batch.
ReadBatch(n) ==
  /\ apc = "read" /\ captured + n <= MaxChunks
  /\ batch' = n /\ local' = transfer_online /\ apc' = "chunk"
  /\ UNCHANGED <<shared, is_valid_data, nc, swapbuf, todo, seg_end, captured, mainVars, history>>

\* ad_read fails or reaches the end of the stream: adin_cut returns.
ReadEnd ==
  /\ apc = "read"
  /\ apc' = "exit"
  /\ UNCHANGED <<shared, batch, local, is_valid_data, nc, swapbuf, todo, seg_end, captured, mainVars, history>>

\* adin_thread_input_main after adin_cut: written without the lock.
ThreadExit ==
  /\ apc = "exit"
  /\ ended' = TRUE /\ apc' = "dead"
  /\ UNCHANGED <<transfer_online, speech, overflowed, batch, local, is_valid_data, nc, swapbuf, todo, seg_end, captured, mainVars, history>>

\* The chunks lo..hi in capture order.
Run(lo, hi) == [i \in 1..(IF hi < lo THEN 0 ELSE hi - lo + 1) |-> lo + i - 1]

\* The cycle buffer without the current chunk c: the head margin.
HeadMargin(c) == Run(IF c > HeadLen THEN c - HeadLen ELSE 1, c - 1)

\* Mutant: counts silence outside a segment as well.
NcAfterAlways(loud) == IF loud THEN 0 ELSE nc + 1

\* nc after the chunk.
NcAfter(loud) == IF loud THEN 0 ELSE IF is_valid_data THEN nc + 1 ELSE nc

\* The trailing silence is longer than the tail margin: the chunk goes to the
\* swap buffer instead of being processed.
Swapped(loud) == is_valid_data /\ ~loud /\ nc + 1 > TailStore

\* The ad_process calls of one chunk, in order: the head margin on a trigger,
\* the swap buffer on a re-trigger, then the chunk itself.  None of them is
\* made while transfer_online_local is FALSE.
StoreCalls(loud) ==
  LET c == captured + 1
      trigger == IF loud /\ ~is_valid_data /\ HeadMargin(c) # << >>
                 THEN << HeadMargin(c) >> ELSE << >>
      retrigger == IF loud /\ is_valid_data /\ nc > 0 /\ swapbuf # << >>
                   THEN << swapbuf >> ELSE << >>
      current == IF (is_valid_data \/ loud) /\ ~Swapped(loud)
                 THEN << <<c>> >> ELSE << >>
  IN  IF local THEN trigger \o retrigger \o current ELSE << >>

\* The swap buffer after the chunk: emptied when a trailing silence starts and
\* when it is flushed.  A re-trigger while the transfer is offline leaves it.
SwapAfter(loud) ==
  LET c == captured + 1
      start == IF is_valid_data /\ ~loud /\ nc = 0 THEN << >> ELSE swapbuf
  IN  IF Swapped(loud) THEN Append(start, c)
      ELSE IF loud /\ is_valid_data /\ nc > 0 /\ local THEN << >>
      ELSE start

\* Where the thread goes once the store calls in s remain.
AfterStore(s) == IF s = << >> THEN "next" ELSE "test"

\* Trigger detection on the next chunk.  loud stands for zc > noise_zerocross.
Chunk(loud) ==
  /\ apc = "chunk"
  /\ is_valid_data' = (is_valid_data \/ loud)
  /\ nc' = NcAfter(loud)
  /\ swapbuf' = SwapAfter(loud)
  /\ todo' = StoreCalls(loud)
  /\ seg_end' = (is_valid_data' /\ nc' >= NcMax)
  /\ apc' = AfterStore(todo')
  /\ UNCHANGED <<shared, batch, local, captured, mainVars, history>>

\* Mutant: the test forgets the length of the block.
FitsNow(block) == Len(speech) <= MaxSpeech

\* adin_store_buffer tests speechlen before it takes the lock.
Fits(block) == Len(speech) + Len(block) <= MaxSpeech

StoreTest ==
  /\ apc = "test"
  /\ apc' = IF Fits(todo[1]) THEN "append" ELSE "overflow"
  /\ UNCHANGED <<shared, batch, local, is_valid_data, nc, swapbuf, todo, seg_end, captured, mainVars, history>>

\* Mutant: makes room by dropping the oldest sample.
StoreOverflowOldest ==
  /\ apc = "overflow"
  /\ overflowed' = TRUE /\ speech' = Append(Tail(speech), todo[1][1])
  /\ todo' = Tail(todo) /\ apc' = AfterStore(todo')
  /\ UNCHANGED <<transfer_online, ended, batch, local, is_valid_data, nc, swapbuf, seg_end, captured, mainVars, history>>

\* The block is dropped and the overflow marked.
StoreOverflow ==
  /\ apc = "overflow"
  /\ overflowed' = TRUE
  /\ todo' = Tail(todo) /\ apc' = AfterStore(todo')
  /\ UNCHANGED <<transfer_online, speech, ended, batch, local, is_valid_data, nc, swapbuf, seg_end, captured, mainVars, history>>

StoreAppend ==
  /\ apc = "append"
  /\ speech' = speech \o todo[1]
  /\ todo' = Tail(todo) /\ apc' = AfterStore(todo')
  /\ UNCHANGED <<transfer_online, overflowed, ended, batch, local, is_valid_data, nc, swapbuf, seg_end, captured, mainVars, history>>

\* Mutant: only the shared flag goes offline.
StopTransferShared == transfer_online' = FALSE /\ UNCHANGED local

\* The segment is over: the transfer goes offline in both copies of the flag.
StopTransfer == transfer_online' = FALSE /\ local' = FALSE

\* The end of the chunk: when the trailing silence is over the segment ends.
NextChunk ==
  /\ apc = "next"
  /\ IF seg_end
     THEN is_valid_data' = FALSE /\ swapbuf' = << >> /\ StopTransfer
     ELSE UNCHANGED <<is_valid_data, swapbuf, transfer_online, local>>
  /\ seg_end' = FALSE
  /\ captured' = captured + 1 /\ batch' = batch - 1
  /\ apc' = IF batch = 1 THEN "read" ELSE "chunk"
  /\ UNCHANGED <<speech, overflowed, ended, nc, todo, mainVars, history>>

-----------------------------------------------------------------------------
(* The process thread.                                                     *)

\* adin_go: the entry of adin_thread_process.  speechlen is not touched.
ProcessBegin ==
  /\ mpc = "idle"
  /\ transfer_online' = TRUE /\ overflowed' = FALSE
  /\ prev_len' = 0 /\ mpc' = "poll"
  /\ leftover' = (speech # << >>)
  /\ UNCHANGED <<speech, ended, adinVars, nowlen, online_local, ret, slice, last_given>>

\* Mutant: notices the end of the thread only between segments.
GoneOffline == ended /\ ~transfer_online

\* The A/D-in thread has exited.
Gone == ended

\* The locked read at the head of the loop, and the two early returns on it.
Poll ==
  /\ mpc = "poll"
  /\ nowlen' = Len(speech) /\ online_local' = transfer_online
  /\ mpc' = IF Gone THEN "stopped" ELSE IF overflowed THEN "overflow" ELSE "check"
  /\ ret' = IF Gone THEN 0 ELSE ret
  /\ UNCHANGED <<shared, adinVars, prev_len, history>>

\* Return r to j_recognize_stream_core.
Return(r) == /\ ret' = r /\ UNCHANGED <<prev_len, nowlen, online_local>>

OverflowReturn ==
  /\ mpc = "overflow"
  /\ speech' = << >> /\ transfer_online' = FALSE
  /\ mpc' = "idle" /\ Return(1)
  /\ UNCHANGED <<overflowed, ended, adinVars, history>>

\* Mutant: a segment without data is not taken to be over.
SegmentOverData == ~online_local /\ nowlen > 0

\* The last poll found the transfer offline.
SegmentOver == ~online_local

\* ad_check: -2 on a termination request, -1 on a reload request.
AdCheck(i) ==
  /\ mpc = "check"
  /\ mpc' = IF i = -2 \/ (i = -1 /\ nowlen = 0) THEN "terminate"
            ELSE IF prev_len < nowlen THEN "process"
            ELSE IF SegmentOver THEN "reset" ELSE "poll"
  /\ slice' = IF mpc' = "process" THEN SubSeq(speech, prev_len + 1, nowlen) ELSE << >>
  /\ UNCHANGED <<shared, adinVars, prev_len, nowlen, online_local, ret, last_given, leftover>>

TerminateReturn ==
  /\ mpc = "terminate"
  /\ transfer_online' = FALSE /\ speech' = << >>
  /\ mpc' = "idle" /\ Return(-2)
  /\ UNCHANGED <<overflowed, ended, adinVars, history>>

\* ad_process has read speech[prev_len..nowlen-1] without the lock and returns
\* r: 0 to go on, 1 to segment the input here, -1 on an error.
AdProcess(r) ==
  /\ mpc = "process"
  /\ last_given' = speech[nowlen]
  /\ mpc' = CASE r = 1 -> "segment" [] r = -1 -> "error" [] OTHER -> "poll"
  /\ prev_len' = IF r = 0 THEN nowlen ELSE prev_len
  /\ slice' = << >>
  /\ UNCHANGED <<shared, adinVars, nowlen, online_local, ret, leftover>>

\* Mutant: purges one sample too few.
PurgedShort == SubSeq(speech, nowlen, Len(speech))

\* The processed samples are purged, later ones move to the front.
Purged == SubSeq(speech, nowlen + 1, Len(speech))

SegmentReturn ==
  /\ mpc = "segment"
  /\ speech' = Purged
  /\ transfer_online' = FALSE
  /\ mpc' = "idle" /\ Return(2)
  /\ UNCHANGED <<overflowed, ended, adinVars, history>>

\* The caller, j_recognize_stream_core, gives up on -1.
ErrorReturn ==
  /\ mpc = "error"
  /\ transfer_online' = FALSE
  /\ mpc' = "stopped" /\ Return(-1)
  /\ UNCHANGED <<speech, overflowed, ended, adinVars, history>>

\* Mutant: speech[] is not emptied for the next input.
SilenceReturnKeeps ==
  /\ mpc = "reset"
  /\ mpc' = "idle" /\ Return(1)
  /\ UNCHANGED <<shared, adinVars, history>>

\* The segment ended by silence and everything polled has been processed.
SilenceReturn ==
  /\ mpc = "reset"
  /\ speech' = << >>
  /\ mpc' = "idle" /\ Return(1)
  /\ UNCHANGED <<transfer_online, overflowed, ended, adinVars, history>>

-----------------------------------------------------------------------------
AdinStep ==
  \/ \E loud \in BOOLEAN : Chunk(loud)
  \/ StoreTest \/ StoreOverflow \/ StoreAppend \/ NextChunk \/ ThreadExit

Device == ReadEnd \/ \E n \in 1..MaxBatch : ReadBatch(n)

MainStep ==
  \/ ProcessBegin \/ Poll \/ OverflowReturn \/ TerminateReturn
  \/ SegmentReturn \/ ErrorReturn \/ SilenceReturn
  \/ \E i \in CheckReturns : AdCheck(i)
  \/ \E r \in {0, 1, -1} : AdProcess(r)

Next == AdinStep \/ Device \/ MainStep

Spec == Init /\ [][Next]_vars

\* Both threads keep running; the microphone promises nothing.
FairSpec == Spec /\ WF_vars(AdinStep) /\ WF_vars(MainStep)

-----------------------------------------------------------------------------
(* Properties.                                                             *)

\* adin_thread_process is between its entry and its return.
InCall == mpc \notin {"idle", "stopped"}

\* speech[] never exceeds its allocation, although adin_store_buffer tests
\* speechlen before it takes the lock and the other thread may change it in
\* between (adin-cut.c:930-940).
BufferBounded == Len(speech) <= MaxSpeech

\* What the comment at adin-cut.c:1174-1178 relies on: while ad_process reads
\* speech[prev_len..nowlen-1] without the lock, no thread alters or removes it.
SliceStable ==
  mpc = "process" =>
    nowlen <= Len(speech) /\ slice = SubSeq(speech, prev_len + 1, nowlen)

\* When a segment ended by silence is closed (adin-cut.c:1219-1225), every
\* stored sample has been processed: emptying speech[] loses nothing.
SilenceLosesNothing == mpc = "reset" => Len(speech) = prev_len

\* After a segment that ended by silence the A/D-in thread stores nothing
\* until the process thread listens again: the next call starts empty.
CleanRestart == mpc = "idle" /\ ret = 1 /\ ~overflowed => speech = << >>

\* Successive elements of s are successive chunks.
Consecutive(s) == \A i \in 1..Len(s) - 1 : s[i + 1] = s[i] + 1

\* How far the head margin of a segment may reach back into what was stored of
\* the silence that ended the one before: with the default margins and steps of
\* a full chunk not at all, with ALSA's fragments of 512 samples six steps.
Overlap == IF TailStore + HeadLen > NcMax THEN TailStore + HeadLen - NcMax ELSE 0

\* ad_process is given the chunks in capture order, over all calls, but for the
\* Overlap that a head margin may repeat.  A call that began with an empty
\* buffer and saw no overflow gives them without a gap or a repetition, across
\* head margin, tail margin and re-triggering, even when the segment began
\* before the call (adin-cut.c:583-835); and when the 1st pass ends such a call
\* within the segment, what is kept for the next continues it (1190).
GivenInOrder ==
  /\ mpc = "process" =>
       /\ last_given < slice[1] + Overlap
       /\ \A i, j \in DOMAIN slice : i < j => slice[i] < slice[j] + Overlap
  /\ ~leftover /\ ~overflowed =>
       /\ InCall => Consecutive(speech)
       /\ mpc = "idle" /\ ret = 2 => Consecutive(<<last_given>> \o speech)

\* Once the transfer is offline, adin_thread_process returns.
SegmentReturns == (InCall /\ ~transfer_online) ~> ~InCall

\* Once the A/D-in thread is gone, the process thread ends its stream instead
\* of polling for ever (adin-cut.c:1142-1146).
EndIsNoticed == ended ~> mpc = "stopped"

-----------------------------------------------------------------------------
(* What a comment or header says and the code does not guarantee.          *)

\* recog.h:393-394 on transfer_online: if FALSE the A/D-in thread does not
\* store samples to speech[] (as long as the stream is being recognised).
OfflineNotStored ==
  [][Len(speech') > Len(speech) => transfer_online \/ mpc = "stopped"]_vars
=============================================================================
