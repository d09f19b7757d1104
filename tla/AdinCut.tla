------------------------------ MODULE AdinCut -------------------------------
(***************************************************************************)
(* Voice activity detection of the threaded microphone input, at the level *)
(* of samples: adin_cut, adin_purge and adin_setup_param of libjulius      *)
(* adin-cut.c, with the zero-cross counter of libsent zc-e.c.              *)
(*                                                                         *)
(* Samples are numbered 1, 2, ... in the order in which they enter the     *)
(* temporary buffer.  Their values matter to the code only through the     *)
(* zero crossings they make, so each counted sample crosses or not.        *)
(* Module AdinThread takes the chunks this module produces further, to     *)
(* the buffer shared with the process thread.                              *)
(***************************************************************************)
EXTENDS Integers, SequencesExt

CONSTANTS
  ChunkSize,    \* chunk_size: the processing unit
  CLength,      \* c_length: the cycle buffer, the head margin
  TailMargin,   \* tail_margin_msec, in samples
  TailExtra,    \* c_length * zero_cross_num / 200
  NoiseZC,      \* noise_zerocross: the trigger threshold
  ReadSizes,    \* numbers of samples one ad_read may return
  MinStep,      \* a length that no step but the last of the stream falls below
  MaxSamples,   \* bound: samples read in a behaviour
  MaxStrip      \* bound: zero samples removed by strip_zero

\* adin_setup_param refuses a chunk longer than the head margin.  The last
\* conjunct says that swapbuf holds what a trailing silence puts aside; the
\* default configuration satisfies it (4800 + 2 * 1000 <= 6400 + 2 * 1440),
\* and adin_cut only logs an error for one that does not.
ASSUME CutAssumption ==
  /\ ChunkSize \in Nat \ {0} /\ CLength \in Nat /\ ChunkSize <= CLength
  /\ TailMargin \in Nat /\ TailExtra \in Nat /\ NoiseZC \in Nat
  /\ ReadSizes \subseteq Nat \ {0} /\ MaxSamples \in Nat /\ MaxStrip \in Nat
  /\ CLength + 2 * ChunkSize <= TailMargin + 2 * TailExtra

\* A step is a chunk or what has been read, whichever is less.  A MinStep of 1
\* always does; ALSA's default fragments, say, allow one of 512.
ASSUME MinStepAssumption ==
  /\ MinStep \in 1..ChunkSize /\ \A cnt \in ReadSizes : MinStep <= cnt
  /\ MaxStrip > 0 => MinStep = 1

\* Mutant: the threshold for the end of the segment is one step too high.
NcMaxOffByOne == (TailMargin \div ChunkSize) + 3

NcMax == (TailMargin \div ChunkSize) + 2

SbSize == TailMargin + TailExtra

VARIABLES
  transfer_online,  \* ADIn.transfer_online, shared with the process thread
  pc, local,        \* where adin_cut is, and its transfer_online_local
  purged,           \* samples adin_purge has removed so far
  current_len, i,   \* samples in buffer[], and the loop index
  total_captured, stripped,
  data, is_zc, top, valid_len, zero_cross,    \* ZEROCROSS
  is_valid_data, nc, rest_tail, swapbuf,
  last_trigger_sample, last_trigger_len,
  end_of_stream, end_status,
  given,            \* history: samples passed to ad_process without a gap
  handed,           \* history: highest sample ever passed to ad_process
  silence,          \* history: samples since the trigger went off
  speaking          \* history: SPEECH_START called, SPEECH_STOP not yet

buffer == <<purged, current_len, i>>
capture == <<total_captured, stripped>>
cycle == <<data, is_zc, top, valid_len, zero_cross>>
segment == <<is_valid_data, nc, rest_tail, swapbuf, last_trigger_sample, last_trigger_len>>
stream == <<end_of_stream, end_status>>
history == <<given, handed, silence, speaking>>
vars == <<transfer_online, pc, local, buffer, capture, cycle, segment, stream, history>>

\* The samples lo..hi in order.
Run(lo, hi) == [k \in 1..(IF hi < lo THEN 0 ELSE hi - lo + 1) |-> lo + k - 1]

\* Samples that have gone through the loop.
Processed == purged + i

TypeOK ==
  /\ transfer_online \in BOOLEAN /\ local \in BOOLEAN /\ pc \in {"read", "step", "done"}
  /\ purged \in 0..MaxSamples /\ current_len \in 0..MaxSamples /\ i \in 0..current_len
  /\ total_captured \in Nat /\ stripped \in 0..MaxStrip
  /\ data \in [0..CLength - 1 -> 0..MaxSamples] /\ is_zc \in [0..CLength - 1 -> BOOLEAN]
  /\ top \in 0..CLength - 1 /\ valid_len \in 0..CLength /\ zero_cross \in 0..CLength
  /\ is_valid_data \in BOOLEAN /\ nc \in 0..NcMax /\ rest_tail \in 0..SbSize
  /\ swapbuf \in Seq(1..MaxSamples)
  /\ last_trigger_sample \in Int /\ last_trigger_len \in Nat
  /\ end_of_stream \in BOOLEAN /\ end_status \in {-1, 0}
  /\ given \in Seq(1..MaxSamples) /\ handed \in 0..MaxSamples
  /\ silence \in Nat /\ speaking \in BOOLEAN

\* The first call of adin_cut: need_init is TRUE.
Init ==
  /\ transfer_online = FALSE /\ pc = "read" /\ local = FALSE
  /\ purged = 0 /\ current_len = 0 /\ i = 0 /\ total_captured = 0 /\ stripped = 0
  /\ data = [k \in 0..CLength - 1 |-> 0] /\ is_zc = [k \in 0..CLength - 1 |-> FALSE]
  /\ top = 0 /\ valid_len = 0 /\ zero_cross = 0
  /\ is_valid_data = FALSE /\ nc = 0 /\ rest_tail = 0 /\ swapbuf = << >>
  /\ last_trigger_sample = 0 /\ last_trigger_len = 0
  /\ end_of_stream = FALSE /\ end_status = 0
  /\ given = << >> /\ handed = 0 /\ silence = 0 /\ speaking = FALSE

-----------------------------------------------------------------------------
(* Reading from the device.  Between two reads buffer[] holds bp samples,  *)
(* which is current_len here, and the loop index is 0.                     *)

\* ad_read returns cnt samples, strip_zero leaves kept of them, and the
\* thread copies transfer_online for the whole batch.
Read(cnt, kept) ==
  /\ pc = "read" /\ ~end_of_stream
  /\ total_captured + cnt <= MaxSamples /\ stripped + (cnt - kept) <= MaxStrip
  /\ total_captured' = total_captured + cnt /\ stripped' = stripped + (cnt - kept)
  /\ current_len' = current_len + kept
  /\ IF current_len' = 0
     THEN UNCHANGED <<pc, local>>
     ELSE pc' = "step" /\ local' = transfer_online
  /\ UNCHANGED <<transfer_online, purged, i, cycle, segment, stream, history>>

\* ad_read reports the end of the stream (0) or an error (-1).  The rest of
\* the buffer is still processed, in a last batch.
ReadEnd(status) ==
  /\ pc = "read" /\ ~end_of_stream
  /\ end_of_stream' = TRUE /\ end_status' = status
  /\ IF current_len = 0
     THEN pc' = "done" /\ speaking' = FALSE /\ UNCHANGED local
     ELSE pc' = "step" /\ local' = transfer_online /\ UNCHANGED speaking
  /\ UNCHANGED <<transfer_online, buffer, capture, cycle, segment, given, handed, silence>>

\* wstep: a buffer shorter than a chunk is processed in one short step.
WStep == IF ChunkSize > current_len THEN current_len ELSE ChunkSize

\* The samples buffer[i .. i + wstep - 1].
Current == Run(Processed + 1, Processed + WStep)

-----------------------------------------------------------------------------
(* The zero-cross counter.                                                 *)

\* Mutant: the counter forgets to subtract a crossing it overwrites.
CountKeepsOld(crosses) ==
  LET at(k) == (top + k - 1) % CLength
      new == {at(k) : k \in 1..WStep}
      set == {k \in 1..WStep : crosses[k]}
  IN [zero_cross |-> zero_cross + Cardinality(set) - (IF WStep > 1 THEN Cardinality({s \in new : is_zc[s]}) ELSE 0),
      is_zc |-> [s \in DOMAIN is_zc |-> IF s \in new THEN \E k \in set : at(k) = s ELSE is_zc[s]],
      data |-> [s \in DOMAIN data |-> IF s \in new THEN Processed + CHOOSE k \in 1..WStep : at(k) = s ELSE data[s]],
      top |-> (top + WStep) % CLength,
      valid_len |-> IF top + WStep > CLength THEN CLength ELSE IF top + WStep > valid_len THEN top + WStep ELSE valid_len]

\* count_zc_e on the current step: sample k of it goes to slot at(k), in the
\* place of the oldest sample, whose crossing is no longer counted.
Count(crosses) ==
  LET at(k) == (top + k - 1) % CLength
      new == {at(k) : k \in 1..WStep}
      set == {k \in 1..WStep : crosses[k]}
  IN [zero_cross |-> zero_cross + Cardinality(set) - Cardinality({s \in new : is_zc[s]}),
      is_zc |-> [s \in DOMAIN is_zc |-> IF s \in new THEN \E k \in set : at(k) = s ELSE is_zc[s]],
      data |-> [s \in DOMAIN data |-> IF s \in new THEN Processed + CHOOSE k \in 1..WStep : at(k) = s ELSE data[s]],
      top |-> (top + WStep) % CLength,
      valid_len |-> IF top + WStep > CLength THEN CLength ELSE IF top + WStep > valid_len THEN top + WStep ELSE valid_len]

\* Mutant: copies from slot 0 even when the buffer has wrapped around.
CopyFromZero(z) == [k \in 1..z.valid_len |-> z.data[(k - 1) % CLength]]

\* zc_copy_buffer: from the oldest sample of the cycle buffer to the newest.
Copy(z) ==
  LET first == IF z.valid_len < CLength THEN 0 ELSE z.top
  IN [k \in 1..z.valid_len |-> z.data[(first + k - 1) % CLength]]

\* The cycle buffer without the current step, which is processed afterwards.
HeadMargin(z) == SubSeq(Copy(z), 1, z.valid_len - WStep)

-----------------------------------------------------------------------------
(* One step of the loop.  hot: the count is over the threshold.            *)

\* A silent step of a segment.
Silent(hot) == is_valid_data /\ ~hot

\* A loud step that ends a trailing silence.
Retriggers(hot) == is_valid_data /\ hot /\ nc > 0

\* Mutant: a trigger in a trailing silence does not reset the noise counter.
NcKept(hot) == IF Silent(hot) THEN nc + 1 ELSE IF hot /\ ~is_valid_data THEN 0 ELSE nc

NcAfter(hot) == IF Silent(hot) THEN nc + 1 ELSE IF hot THEN 0 ELSE nc

\* rest_tail when the step is about to be processed.
RestTail(hot) == IF Silent(hot) /\ nc = 0 THEN SbSize - CLength ELSE rest_tail

\* Mutant: the end of the tail margin is never noticed.
PutAsideNever(hot) == Silent(hot) /\ RestTail(hot) < 0

\* The step lies beyond the tail margin: it is put aside in swapbuf.
PutAside(hot) == Silent(hot) /\ RestTail(hot) = 0

\* The step is processed as a part of the segment.
Taken(hot) == (is_valid_data \/ hot) /\ ~PutAside(hot)

\* Mutant: the rest of the tail margin is not kept from going below zero.
RestUnclamped(hot) == IF Silent(hot) /\ Taken(hot) THEN RestTail(hot) - WStep ELSE RestTail(hot)

\* The tail margin still to be processed after the step.
RestAfter(hot) ==
  IF ~(Silent(hot) /\ Taken(hot)) THEN RestTail(hot)
  ELSE IF RestTail(hot) < WStep THEN 0 ELSE RestTail(hot) - WStep

\* Trailing silence over: nc has reached nc_max.
Over(hot) == Silent(hot) /\ nc + 1 >= NcMax

\* swapbuf after the step: emptied when a trailing silence starts and when the
\* segment is over, and handed over on a re-trigger, unless the thread is
\* offline: then it keeps its contents until the next trailing silence.
SwapAfter(hot) ==
  LET before == IF Silent(hot) /\ nc = 0 THEN << >> ELSE swapbuf
  IN IF Retriggers(hot) THEN (IF local THEN << >> ELSE swapbuf)
     ELSE IF Over(hot) THEN << >>
     ELSE IF PutAside(hot) THEN before \o Current ELSE before

\* Mutant: a re-trigger drops the samples that were put aside.
GivenDropsSwap(z, hot) ==
  IF ~local \/ ~Taken(hot) THEN << >>
  ELSE (IF hot /\ ~is_valid_data THEN HeadMargin(z) ELSE << >>) \o Current

\* The ad_process calls of the step, one after the other: head margin or
\* swapped samples first, then the step itself; none while offline.
Given(z, hot) ==
  IF ~local \/ ~Taken(hot) THEN << >>
  ELSE (IF hot /\ ~is_valid_data THEN HeadMargin(z) ELSE << >>)
       \o (IF Retriggers(hot) THEN swapbuf ELSE << >>) \o Current

\* last_trigger_len after the step.
SpanAfter(z, hot) ==
  IF hot /\ ~is_valid_data THEN IF z.valid_len > WStep THEN z.valid_len ELSE WStep
  ELSE IF Retriggers(hot) THEN last_trigger_len + Len(swapbuf) + WStep
  ELSE IF Taken(hot) THEN last_trigger_len + WStep
  ELSE last_trigger_len

\* What the history variables record of the step.
Record(z, hot) ==
  /\ given' = IF hot /\ ~is_valid_data THEN Given(z, hot)
              ELSE IF Taken(hot) /\ ~local THEN << >>
              ELSE given \o Given(z, hot)
  /\ handed' = IF Given(z, hot) = << >> THEN handed ELSE Last(Given(z, hot))
  /\ silence' = IF hot THEN 0 ELSE silence + WStep
  /\ speaking' = IF hot /\ ~is_valid_data THEN TRUE ELSE speaking /\ ~Over(hot)

\* One step: count, trigger handling, processing, end of the segment.  The
\* down trigger stops the transfer in the shared flag and in the local copy.
Step ==
  /\ pc = "step" /\ i + WStep <= current_len
  /\ \E crosses \in [1..WStep -> BOOLEAN] :
       LET z == Count(crosses)
           hot == z.zero_cross > NoiseZC
       IN /\ data' = z.data /\ is_zc' = z.is_zc /\ top' = z.top
          /\ valid_len' = z.valid_len /\ zero_cross' = z.zero_cross
          /\ nc' = NcAfter(hot) /\ rest_tail' = RestAfter(hot)
          /\ swapbuf' = SwapAfter(hot)
          /\ is_valid_data' = ((is_valid_data \/ hot) /\ ~Over(hot))
          /\ last_trigger_len' = SpanAfter(z, hot)
          /\ last_trigger_sample' = IF hot /\ ~is_valid_data
               THEN total_captured - current_len + i + WStep - z.valid_len
               ELSE last_trigger_sample
          /\ IF Over(hot) THEN transfer_online' = FALSE /\ local' = FALSE
             ELSE UNCHANGED <<transfer_online, local>>
          /\ Record(z, hot)
  /\ i' = i + WStep
  /\ UNCHANGED <<pc, purged, current_len, capture, stream>>

\* The batch is done: adin_purge, and out of the loop when the stream has
\* ended and nothing is left.  A stream that ends calls SPEECH_STOP.
Purge ==
  /\ pc = "step" /\ i + WStep > current_len
  /\ purged' = purged + i /\ current_len' = current_len - i /\ i' = 0
  /\ IF ~end_of_stream
     THEN pc' = "read" /\ UNCHANGED <<local, speaking>>
     ELSE IF current_len' = 0
     THEN pc' = "done" /\ speaking' = FALSE /\ UNCHANGED local
     ELSE local' = transfer_online /\ UNCHANGED <<pc, speaking>>
  /\ UNCHANGED <<transfer_online, capture, cycle, segment, stream, given, handed, silence>>

\* The process thread starts and stops the transfer (adin_thread_process).
Transfer(on) ==
  /\ transfer_online # on /\ transfer_online' = on
  /\ UNCHANGED <<pc, local, buffer, capture, cycle, segment, stream, history>>

\* The stream has ended or the bound is reached.
Finished ==
  /\ pc = "done" \/ (pc = "read" /\ total_captured = MaxSamples)
  /\ UNCHANGED vars

Next ==
  \/ \E cnt \in ReadSizes : \E kept \in 0..cnt : Read(cnt, kept)
  \/ \E status \in {-1, 0} : ReadEnd(status)
  \/ Step
  \/ Purge
  \/ \E on \in BOOLEAN : Transfer(on)
  \/ Finished

Spec == Init /\ [][Next]_vars

-----------------------------------------------------------------------------
(* Properties.                                                             *)

\* Samples of the running segment that wait in swapbuf.
Pending == IF nc > 0 THEN Len(swapbuf) ELSE 0

\* zc_copy_buffer returns the last valid_len samples in order however often
\* the buffer wrapped, and the incremental count is the number of crossings in
\* it (count_zc_e, with steps of any length up to a chunk).
CycleIsLastSamples ==
  LET z == [data |-> data, is_zc |-> is_zc, top |-> top, valid_len |-> valid_len]
  IN /\ Copy(z) = Run(Processed - valid_len + 1, Processed)
     /\ zero_cross = Cardinality({s \in DOMAIN is_zc : is_zc[s]})

\* What ad_process gets of a segment has no gap and no repetition, across the
\* head margin, the tail margin and the swap buffer, and misses only what is
\* still put aside, whatever the process thread does with transfer_online.
GivenWithoutGap ==
  is_valid_data => given = Run(Processed - Pending - Len(given) + 1, Processed - Pending)

\* A trailing silence never puts more aside than swapbuf holds: when the next
\* step is silent and has to be put aside, there is room for it.
SwapFits ==
  pc = "step" /\ i + WStep <= current_len /\ PutAside(FALSE) =>
    (IF nc = 0 THEN 0 ELSE Len(swapbuf)) + WStep <= SbSize

\* The trailing silence that ends a segment: never shorter than NcMax steps, and
\* a segment goes on over no silence longer than NcMax - 1 chunks, however the
\* device cuts the samples into fragments.
SilenceEndsSegment ==
  [][is_valid_data => IF is_valid_data' THEN silence' <= ChunkSize * (NcMax - 1)
                      ELSE silence' >= MinStep * (NcMax - 1) + WStep]_vars

\* The samples of a trailing silence that are handed over, and the number of
\* steps that takes at most: one when there are less than none.
TailGiven == SbSize - CLength
TailSteps == IF TailGiven < 0 THEN 1 ELSE (TailGiven + MinStep - 1) \div MinStep

\* What is put aside at least of a silence that ends a segment.
AsideAtEnd == MinStep * (NcMax - TailSteps)

\* A step that hands samples over continues its segment or starts behind those
\* handed over before; the head margin of a new segment repeats no more than
\* what CLength exceeds the samples put aside and those of the step itself.
\* With CLength <= AsideAtEnd + MinStep no sample is in two segments.
OverlapIsBounded ==
  [][handed' # handed =>
       \/ given # << >> /\ IsPrefix(given, given')
       \/ Head(given') > handed
       \/ Head(given') + CLength > handed + AsideAtEnd + WStep]_vars

-----------------------------------------------------------------------------
(* What a comment or header says and the code does not guarantee.          *)

\* A segment ends by silence only after a silence as long as the tail margin.
TailMarginKept ==
  [][is_valid_data /\ ~is_valid_data' => silence' >= TailMargin]_vars

\* SPEECH_STOP is called only for a speech that has started.
StopsWhatStarted == [][pc # "done" /\ pc' = "done" => speaking]_vars
=============================================================================
