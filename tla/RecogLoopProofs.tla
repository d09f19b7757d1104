--------------------------- MODULE RecogLoopProofs ---------------------------
(***************************************************************************)
(* What the script is given, and which events are paired, for any set of    *)
(* requests made from any callback, any length of input and any number of   *)
(* sentences: the proof of the safety properties of module RecogLoop.       *)
(***************************************************************************)
EXTENDS RecogLoop, TLAPS

\* The type invariant in two parts.
FlagTypes ==
  /\ active \in BOOLEAN /\ online \in BOOLEAN
  /\ want_terminate \in BOOLEAN /\ want_reload \in BOOLEAN
  /\ triggered \in BOOLEAN /\ last_is_segmented \in BOOLEAN
  /\ stored \in BOOLEAN /\ overflowed \in BOOLEAN /\ ret \in {-2, -1, 0, 1, 2}
  /\ open \in BOOLEAN /\ cut \in BOOLEAN /\ killed \in BOOLEAN /\ flush_failed \in BOOLEAN

ResultTypes ==
  /\ pc \in PC /\ frames \in 0..MaxFrame + 1
  /\ status \in {"success", "fail", "terminate", "overflow"}
  /\ sent \in Owner /\ sentnum \in 0..MaxSent /\ trellis \in Owner
  /\ delivered \in Seq(Owner) /\ Len(delivered) <= MaxSent

\* Nothing of an input is delivered before its result.
NotYet ==
  pc \in {"listen", "data", "returned", "pass1_end", "search", "result", "rejected"}
    => delivered = << >>

\* The list of sentences is there only between the 1st pass and the result, and
\* is that of the trellis just searched.
SentHeld ==
  /\ pc \notin {"search", "result"} => sent = "null"
  /\ pc = "search" => sent = trellis
  /\ pc = "result" => sent = "null" \/ (sent = trellis /\ status \in {"success", "fail"})

\* The trellis is that of the input as soon as a frame of it was decoded.
TrellisOwn == frames > 0 => trellis = "own"

\* The last frame is kept for the flush.
FrameRoom == pc \in {"listen", "data", "returned"} => frames <= MaxFrame

\* A termination asked for during the 1st pass is either still pending or was
\* taken back, so none is left when the 2nd pass begins.
KilledAsks ==
  /\ killed => want_terminate
  /\ pc \in {"search", "result"} => ~killed

\* Without a frame, the 2nd pass runs only on the two excepted inputs.
SearchedOwn ==
  /\ pc = "pass1_end" /\ frames = 0 /\ status = "success" => last_is_segmented \/ flush_failed
  /\ pc \in {"search", "result"} /\ frames = 0 /\ sent # "null" => last_is_segmented \/ flush_failed

IndInv ==
  /\ FlagTypes /\ ResultTypes /\ NotYet /\ SentHeld /\ TrellisOwn /\ FrameRoom /\ KilledAsks
  /\ SearchedOwn
  /\ OwnSentences /\ DiscardedSilent /\ EndsWhatBegan

-----------------------------------------------------------------------------
\* on_result hands over at most the sentences there are, all of the list.
LEMMA SpokenSentences ==
  ASSUME TypeOK
  PROVE  /\ Spoken \in Seq(Owner) /\ Len(Spoken) <= MaxSent
         /\ \A n \in DOMAIN Spoken : Spoken[n] = sent
         /\ sent = "null" => Spoken = << >>
<1>1. CASE sent = "null"
  BY <1>1, LoopAssumption DEF Spoken
<1>2. CASE sent # "null"
  <2>1. Spoken = [n \in 1..sentnum |-> sent] /\ sentnum \in 0..MaxSent /\ sent \in Owner
    BY <1>2 DEF Spoken, TypeOK
  <2>2. Spoken \in Seq(Owner) /\ Len(Spoken) = sentnum /\ DOMAIN Spoken = 1..sentnum
    BY <2>1, LoopAssumption
  <2> QED
    BY <1>2, <2>1, <2>2, LoopAssumption
<1> QED
  BY <1>1, <1>2

LEMMA TypesInParts == TypeOK <=> FlagTypes /\ ResultTypes
BY DEF TypeOK, FlagTypes, ResultTypes

LEMMA InitInv == Init => IndInv
<1> SUFFICES ASSUME Init PROVE IndInv
  OBVIOUS
<1>1. FlagTypes
  BY DEF Init, FlagTypes
<1>2. ResultTypes
  BY LoopAssumption DEF Init, ResultTypes, PC, Owner
<1>3. /\ NotYet /\ SentHeld /\ TrellisOwn /\ FrameRoom /\ KilledAsks /\ SearchedOwn
      /\ OwnSentences /\ DiscardedSilent /\ EndsWhatBegan
  BY LoopAssumption
  DEF Init, NotYet, SentHeld, TrellisOwn, FrameRoom, KilledAsks, SearchedOwn, OwnSentences,
      DiscardedSilent, EndsWhatBegan
<1> QED
  BY <1>1, <1>2, <1>3 DEF IndInv

\* A request touches the flags only, and asks for a termination of the input
\* only while its 1st pass runs.
LEMMA RequestInv ==
  ASSUME IndInv, NEW q \in Requests, Request(q)
  PROVE  IndInv'
<1> USE DEF IndInv
<1>1. active' \in BOOLEAN /\ want_terminate' \in BOOLEAN /\ want_reload' \in BOOLEAN
  BY DEF Request, RequestPause, RequestTerminate, RequestResume, GrammarUpdate, FlagTypes
<1>2. killed' = (want_terminate' /\ (killed \/ pc \in {"listen", "data", "pass1_end"}))
  BY DEF Request
<1>3. UNCHANGED <<pc, online, pass1, input, result, delivered, open, cut, flush_failed>>
  BY DEF Request
<1>4. FlagTypes' /\ ResultTypes'
  BY <1>1, <1>2, <1>3 DEF FlagTypes, ResultTypes, pass1, input, result
<1>5. NotYet' /\ SentHeld' /\ TrellisOwn' /\ FrameRoom' /\ OwnSentences' /\ SearchedOwn' /\ EndsWhatBegan'
  BY <1>3 DEF NotYet, SentHeld, TrellisOwn, FrameRoom, OwnSentences, SearchedOwn, EndsWhatBegan,
              pass1, input, result
<1>6. KilledAsks'
  BY <1>2, <1>3 DEF KilledAsks
<1>7. DiscardedSilent'
  <2>1. CASE pc \in {"listen", "data", "pass1_end"}
    BY <1>3, <2>1 DEF NotYet, DiscardedSilent
  <2>2. CASE pc \notin {"listen", "data", "pass1_end"}
    BY <1>2, <1>3, <2>2 DEF DiscardedSilent, result
  <2> QED
    BY <2>1, <2>2
<1> QED
  BY <1>4, <1>5, <1>6, <1>7

\* A new input starts with nothing delivered; whose BEGIN may be open does not
\* matter in it.
LEMMA Preparing ==
  ASSUME IndInv, Prepare, pc \in {"poll", "online"},
         active' \in BOOLEAN, online' \in BOOLEAN,
         want_terminate' \in BOOLEAN, want_reload' \in BOOLEAN
  PROVE  IndInv'
<1> USE DEF IndInv
<1>1. /\ pc' = "listen" /\ triggered' = FALSE /\ frames' = 0
      /\ stored' = FALSE /\ overflowed' = FALSE
      /\ delivered' = << >> /\ cut' = FALSE /\ killed' = FALSE /\ flush_failed' = FALSE
      /\ UNCHANGED <<last_is_segmented, ret, status, sentnum, open>>
  BY DEF Prepare
<1>2. /\ trellis' \in Owner /\ sent' \in Owner
  BY DEF Prepare, Aged, ResultTypes, Owner
<1>3. FlagTypes'
  BY <1>1 DEF FlagTypes
<1>4. ResultTypes'
  BY <1>1, <1>2, LoopAssumption DEF ResultTypes, PC
<1>5. SentHeld'
  <2>1. sent' = "null"
    BY DEF SentHeld, Prepare, Aged
  <2> QED
    BY <1>1, <2>1 DEF SentHeld
<1>6. NotYet' /\ OwnSentences' /\ DiscardedSilent'
  BY <1>1 DEF NotYet, OwnSentences, DiscardedSilent
<1>7. TrellisOwn' /\ FrameRoom' /\ KilledAsks' /\ SearchedOwn' /\ EndsWhatBegan'
  BY <1>1, LoopAssumption DEF TrellisOwn, FrameRoom, KilledAsks, SearchedOwn, EndsWhatBegan,
                              BetweenInputs
<1> QED
  BY <1>3, <1>4, <1>5, <1>6, <1>7

LEMMA LoopTop ==
  ASSUME IndInv, LoopHead \/ Status \/ Poll \/ Online \/ Paused \/ Restart
  PROVE  IndInv'
<1> USE DEF IndInv, flags, pass1, input, result, history
<1>1. CASE LoopHead
  <2>1. FlagTypes'
    <3>1. want_reload' \in BOOLEAN /\ online' \in BOOLEAN
      BY <1>1 DEF LoopHead, FlagTypes
    <3>2. UNCHANGED <<active, want_terminate, pass1, input, history>>
      BY <1>1 DEF LoopHead
    <3> QED
      BY <3>1, <3>2 DEF FlagTypes
  <2>2. ResultTypes'
    BY <1>1, LoopAssumption DEF LoopHead, ResultTypes, FrameRoom, PC, Owner
  <2>3. NotYet' /\ SentHeld' /\ OwnSentences' /\ DiscardedSilent'
    BY <1>1 DEF LoopHead, ResultTypes, NotYet, SentHeld, TrellisOwn, KilledAsks,
               OwnSentences, SearchedOwn, DiscardedSilent, Owner
  <2>4. TrellisOwn' /\ FrameRoom' /\ KilledAsks' /\ SearchedOwn' /\ EndsWhatBegan'
    BY <1>1, LoopAssumption DEF LoopHead, ResultTypes, TrellisOwn, FrameRoom,
               KilledAsks, SearchedOwn, SentHeld,
               EndsWhatBegan, BetweenInputs
  <2> QED
    BY <2>1, <2>2, <2>3, <2>4
<1>2. CASE Poll
  <2>1. UNCHANGED <<active, want_terminate>> /\ want_reload' = FALSE
    BY <1>2 DEF Poll
  <2>2. CASE active /\ online
    <3>1. Prepare /\ UNCHANGED online /\ pc = "poll"
      BY <1>2, <2>2 DEF Poll, GoOn
    <3> QED
      BY <2>1, <3>1, Preparing DEF FlagTypes
  <2>3. CASE ~(active /\ online)
    <3>1. /\ pc' \in {"online", "paused"} /\ online' \in BOOLEAN
          /\ UNCHANGED <<pass1, input, result, history>> /\ pc = "poll"
      BY <1>2, <2>3 DEF Poll, GoOn, Sleep, FlagTypes
    <3>2. FlagTypes'
      BY <2>1, <3>1, ZenonT(40) DEF FlagTypes
    <3>3. ResultTypes'
      BY <3>1 DEF ResultTypes, PC
    <3>4. NotYet' /\ SentHeld' /\ OwnSentences' /\ DiscardedSilent'
      BY <3>1 DEF NotYet, SentHeld, OwnSentences, DiscardedSilent
    <3>5. TrellisOwn' /\ FrameRoom' /\ KilledAsks' /\ SearchedOwn' /\ EndsWhatBegan'
      BY <2>1, <3>1 DEF TrellisOwn, FrameRoom, KilledAsks, SearchedOwn, EndsWhatBegan, BetweenInputs
    <3> QED
      BY <3>2, <3>3, <3>4, <3>5
  <2> QED
    BY <2>2, <2>3
<1>3. CASE Paused
  <2>1. FlagTypes'
    BY <1>3 DEF Paused, FlagTypes
  <2>2. ResultTypes'
    BY <1>3, LoopAssumption DEF Paused, ResultTypes, FrameRoom, PC, Owner
  <2>3. NotYet' /\ SentHeld' /\ OwnSentences' /\ DiscardedSilent'
    BY <1>3 DEF Paused, ResultTypes, NotYet, SentHeld, TrellisOwn, KilledAsks,
               OwnSentences, SearchedOwn, DiscardedSilent, Owner
  <2>4. TrellisOwn' /\ FrameRoom' /\ KilledAsks' /\ SearchedOwn' /\ EndsWhatBegan'
    BY <1>3, LoopAssumption DEF Paused, ResultTypes, TrellisOwn, FrameRoom,
               KilledAsks, SearchedOwn, SentHeld,
               EndsWhatBegan, BetweenInputs
  <2> QED
    BY <2>1, <2>2, <2>3, <2>4
<1>4. CASE Restart
  <2>1. FlagTypes'
    BY <1>4 DEF Restart, FlagTypes
  <2>2. ResultTypes'
    BY <1>4, LoopAssumption DEF Restart, ResultTypes, FrameRoom, PC, Owner
  <2>3. NotYet' /\ SentHeld' /\ OwnSentences' /\ DiscardedSilent'
    BY <1>4 DEF Restart, ResultTypes, NotYet, SentHeld, TrellisOwn, KilledAsks,
               OwnSentences, SearchedOwn, DiscardedSilent, Owner
  <2>4. TrellisOwn' /\ FrameRoom' /\ KilledAsks' /\ SearchedOwn' /\ EndsWhatBegan'
    BY <1>4, LoopAssumption DEF Restart, ResultTypes, TrellisOwn, FrameRoom,
               KilledAsks, SearchedOwn, SentHeld,
               EndsWhatBegan, BetweenInputs
  <2> QED
    BY <2>1, <2>2, <2>3, <2>4
<1>5. CASE Status
  <2>1. FlagTypes'
    BY <1>5 DEF Status, FlagTypes
  <2>2. ResultTypes'
    BY <1>5, LoopAssumption DEF Status, ResultTypes, FrameRoom, PC, Owner
  <2>3. NotYet' /\ SentHeld' /\ OwnSentences' /\ DiscardedSilent'
    BY <1>5 DEF Status, ResultTypes, NotYet, SentHeld, TrellisOwn, KilledAsks,
               OwnSentences, SearchedOwn, DiscardedSilent, Owner
  <2>4. TrellisOwn' /\ FrameRoom' /\ KilledAsks' /\ SearchedOwn' /\ EndsWhatBegan'
    BY <1>5, LoopAssumption DEF Status, ResultTypes, TrellisOwn, FrameRoom,
               KilledAsks, SearchedOwn, SentHeld,
               EndsWhatBegan, BetweenInputs
  <2> QED
    BY <2>1, <2>2, <2>3, <2>4
<1>6. CASE Online
  <2>1. Prepare /\ UNCHANGED flags /\ pc = "online"
    BY <1>6 DEF Online
  <2> QED
    BY <2>1, Preparing DEF FlagTypes
<1> QED
  BY <1>1, <1>2, <1>3, <1>4, <1>5, <1>6

\* adin_go and the 1st pass: nothing is delivered, frames make the trellis the
\* input's own.
LEMMA Listening ==
  ASSUME IndInv,
         \/ AdinOverflow \/ StreamEnd \/ OverflowSeen \/ SegmentOver
         \/ \E fresh \in BOOLEAN : AdinCheck(fresh)
         \/ \E n \in 0..1 : Decode(n)
         \/ TooLong \/ Segment \/ DecodeError
  PROVE  IndInv'
<1> USE DEF IndInv, flags, pass1, input, result, history, AdinReturn
<1>1. CASE AdinOverflow
  <2>1. FlagTypes'
    BY <1>1 DEF AdinOverflow, FlagTypes
  <2>2. ResultTypes'
    BY <1>1, LoopAssumption DEF AdinOverflow, ResultTypes, FrameRoom, PC, Owner
  <2>3. NotYet' /\ SentHeld' /\ OwnSentences' /\ DiscardedSilent'
    BY <1>1 DEF AdinOverflow, ResultTypes, NotYet, SentHeld, TrellisOwn, KilledAsks,
               OwnSentences, SearchedOwn, DiscardedSilent, Owner
  <2>4. TrellisOwn' /\ FrameRoom' /\ KilledAsks' /\ SearchedOwn' /\ EndsWhatBegan'
    BY <1>1, LoopAssumption DEF AdinOverflow, ResultTypes, TrellisOwn, FrameRoom,
               KilledAsks, SearchedOwn, SentHeld,
               EndsWhatBegan, BetweenInputs
  <2> QED
    BY <2>1, <2>2, <2>3, <2>4
<1>2. CASE StreamEnd
  <2>1. FlagTypes'
    BY <1>2 DEF StreamEnd, FlagTypes
  <2>2. ResultTypes'
    BY <1>2, LoopAssumption DEF StreamEnd, ResultTypes, FrameRoom, PC, Owner
  <2>3. NotYet' /\ SentHeld' /\ OwnSentences' /\ DiscardedSilent'
    BY <1>2 DEF StreamEnd, ResultTypes, NotYet, SentHeld, TrellisOwn, KilledAsks,
               OwnSentences, SearchedOwn, DiscardedSilent, Owner
  <2>4. TrellisOwn' /\ FrameRoom' /\ KilledAsks' /\ SearchedOwn' /\ EndsWhatBegan'
    BY <1>2, LoopAssumption DEF StreamEnd, ResultTypes, TrellisOwn, FrameRoom,
               KilledAsks, SearchedOwn, SentHeld,
               EndsWhatBegan, BetweenInputs
  <2> QED
    BY <2>1, <2>2, <2>3, <2>4
<1>3. CASE OverflowSeen
  <2>1. FlagTypes'
    BY <1>3 DEF OverflowSeen, FlagTypes
  <2>2. ResultTypes'
    BY <1>3, LoopAssumption DEF OverflowSeen, ResultTypes, FrameRoom, PC, Owner
  <2>3. NotYet' /\ SentHeld' /\ OwnSentences' /\ DiscardedSilent'
    BY <1>3 DEF OverflowSeen, ResultTypes, NotYet, SentHeld, TrellisOwn, KilledAsks,
               OwnSentences, SearchedOwn, DiscardedSilent, Owner
  <2>4. TrellisOwn' /\ FrameRoom' /\ KilledAsks' /\ SearchedOwn' /\ EndsWhatBegan'
    BY <1>3, LoopAssumption DEF OverflowSeen, ResultTypes, TrellisOwn, FrameRoom,
               KilledAsks, SearchedOwn, SentHeld,
               EndsWhatBegan, BetweenInputs
  <2> QED
    BY <2>1, <2>2, <2>3, <2>4
<1>4. CASE SegmentOver
  <2>1. FlagTypes'
    BY <1>4 DEF SegmentOver, FlagTypes
  <2>2. ResultTypes'
    BY <1>4, LoopAssumption DEF SegmentOver, ResultTypes, FrameRoom, PC, Owner
  <2>3. NotYet' /\ SentHeld' /\ OwnSentences' /\ DiscardedSilent'
    BY <1>4 DEF SegmentOver, ResultTypes, NotYet, SentHeld, TrellisOwn, KilledAsks,
               OwnSentences, SearchedOwn, DiscardedSilent, Owner
  <2>4. TrellisOwn' /\ FrameRoom' /\ KilledAsks' /\ SearchedOwn' /\ EndsWhatBegan'
    BY <1>4, LoopAssumption DEF SegmentOver, ResultTypes, TrellisOwn, FrameRoom,
               KilledAsks, SearchedOwn, SentHeld,
               EndsWhatBegan, BetweenInputs
  <2> QED
    BY <2>1, <2>2, <2>3, <2>4
<1>5. ASSUME NEW fresh \in BOOLEAN, AdinCheck(fresh) PROVE IndInv'
  <2>1. FlagTypes'
    BY <1>5 DEF AdinCheck, FlagTypes
  <2>2. ResultTypes'
    BY <1>5, LoopAssumption DEF AdinCheck, ResultTypes, FrameRoom, PC, Owner
  <2>3. NotYet' /\ SentHeld' /\ OwnSentences' /\ DiscardedSilent'
    BY <1>5 DEF AdinCheck, ResultTypes, NotYet, SentHeld, TrellisOwn, KilledAsks,
               OwnSentences, SearchedOwn, DiscardedSilent, Owner
  <2>4. TrellisOwn' /\ FrameRoom' /\ KilledAsks' /\ SearchedOwn' /\ EndsWhatBegan'
    BY <1>5, LoopAssumption DEF AdinCheck, ResultTypes, TrellisOwn, FrameRoom,
               KilledAsks, SearchedOwn, SentHeld,
               EndsWhatBegan, BetweenInputs
  <2> QED
    BY <2>1, <2>2, <2>3, <2>4
<1>6. ASSUME NEW n \in 0..1, Decode(n) PROVE IndInv'
  <2>1. FlagTypes'
    <3>1. triggered' \in BOOLEAN /\ open' \in BOOLEAN /\ last_is_segmented' \in BOOLEAN
      BY <1>6 DEF Decode, Begin, FlagTypes
    <3>2. UNCHANGED <<flags, input, cut, killed, flush_failed>>
      BY <1>6 DEF Decode
    <3> QED
      BY <3>1, <3>2 DEF FlagTypes
  <2>2. ResultTypes'
    BY <1>6, LoopAssumption DEF Decode, RoomFor, Begin, ResultTypes, FrameRoom, PC, Owner
  <2>3. NotYet' /\ SentHeld' /\ OwnSentences' /\ DiscardedSilent'
    BY <1>6 DEF Decode, RoomFor, Begin, ResultTypes, NotYet, SentHeld, TrellisOwn, KilledAsks,
               OwnSentences, SearchedOwn, DiscardedSilent, Owner
  <2>4. TrellisOwn' /\ FrameRoom' /\ KilledAsks' /\ SearchedOwn' /\ EndsWhatBegan'
    BY <1>6, LoopAssumption DEF Decode, RoomFor, Begin, ResultTypes, TrellisOwn, FrameRoom,
               KilledAsks, SearchedOwn, SentHeld,
               EndsWhatBegan, BetweenInputs
  <2> QED
    BY <2>1, <2>2, <2>3, <2>4
<1>7. CASE TooLong
  <2>1. FlagTypes'
    BY <1>7 DEF TooLong, FlagTypes
  <2>2. ResultTypes'
    BY <1>7, LoopAssumption DEF TooLong, ResultTypes, FrameRoom, PC, Owner
  <2>3. NotYet' /\ SentHeld' /\ OwnSentences' /\ DiscardedSilent'
    BY <1>7 DEF TooLong, ResultTypes, NotYet, SentHeld, TrellisOwn, KilledAsks,
               OwnSentences, SearchedOwn, DiscardedSilent, Owner
  <2>4. TrellisOwn' /\ FrameRoom' /\ KilledAsks' /\ SearchedOwn' /\ EndsWhatBegan'
    BY <1>7, LoopAssumption DEF TooLong, ResultTypes, TrellisOwn, FrameRoom,
               KilledAsks, SearchedOwn, SentHeld,
               EndsWhatBegan, BetweenInputs
  <2> QED
    BY <2>1, <2>2, <2>3, <2>4
<1>8. CASE Segment
  <2>1. FlagTypes'
    BY <1>8 DEF Segment, FlagTypes
  <2>2. ResultTypes'
    BY <1>8, LoopAssumption DEF Segment, ResultTypes, FrameRoom, PC, Owner
  <2>3. NotYet' /\ SentHeld' /\ OwnSentences' /\ DiscardedSilent'
    BY <1>8 DEF Segment, ResultTypes, NotYet, SentHeld, TrellisOwn, KilledAsks,
               OwnSentences, SearchedOwn, DiscardedSilent, Owner
  <2>4. TrellisOwn' /\ FrameRoom' /\ KilledAsks' /\ SearchedOwn' /\ EndsWhatBegan'
    BY <1>8, LoopAssumption DEF Segment, ResultTypes, TrellisOwn, FrameRoom,
               KilledAsks, SearchedOwn, SentHeld,
               EndsWhatBegan, BetweenInputs
  <2> QED
    BY <2>1, <2>2, <2>3, <2>4
<1>9. CASE DecodeError
  <2>1. FlagTypes'
    BY <1>9 DEF DecodeError, Begin, FlagTypes
  <2>2. ResultTypes'
    BY <1>9, LoopAssumption DEF DecodeError, Begin, ResultTypes, FrameRoom, PC, Owner
  <2>3. NotYet' /\ SentHeld' /\ OwnSentences' /\ DiscardedSilent'
    BY <1>9 DEF DecodeError, Begin, ResultTypes, NotYet, SentHeld, TrellisOwn, KilledAsks,
               OwnSentences, SearchedOwn, DiscardedSilent, Owner
  <2>4. TrellisOwn' /\ FrameRoom' /\ KilledAsks' /\ SearchedOwn' /\ EndsWhatBegan'
    BY <1>9, LoopAssumption DEF DecodeError, Begin, ResultTypes, TrellisOwn, FrameRoom,
               KilledAsks, SearchedOwn, SentHeld,
               EndsWhatBegan, BetweenInputs
  <2> QED
    BY <2>1, <2>2, <2>3, <2>4
<1> QED
  BY <1>1, <1>2, <1>3, <1>4, <1>5, <1>6, <1>7, <1>8, <1>9

\* The end of the 1st pass: a rejected input has no list of sentences.
LEMMA EndOfPass1 ==
  ASSUME IndInv,
         \/ Terminated \/ Failed \/ Discard \/ FlushError \/ Cancel \/ EndPass1
         \/ \E d \in 0..1 : FinishPass1(d)
  PROVE  IndInv'
<1> USE DEF IndInv, flags, pass1, input, result, history, ResultError
<1>1. CASE Terminated
  <2>1. FlagTypes'
    BY <1>1 DEF Terminated, FlagTypes
  <2>2. ResultTypes'
    BY <1>1, LoopAssumption DEF Terminated, ResultTypes, FrameRoom, PC, Owner
  <2>3. NotYet' /\ SentHeld' /\ OwnSentences' /\ DiscardedSilent'
    BY <1>1 DEF Terminated, ResultTypes, NotYet, SentHeld, TrellisOwn, KilledAsks,
               OwnSentences, SearchedOwn, DiscardedSilent, Owner
  <2>4. TrellisOwn' /\ FrameRoom' /\ KilledAsks' /\ SearchedOwn' /\ EndsWhatBegan'
    BY <1>1, LoopAssumption DEF Terminated, ResultTypes, TrellisOwn, FrameRoom,
               KilledAsks, SearchedOwn, SentHeld,
               EndsWhatBegan, BetweenInputs
  <2> QED
    BY <2>1, <2>2, <2>3, <2>4
<1>2. CASE Failed
  <2>1. FlagTypes'
    BY <1>2 DEF Failed, FlagTypes
  <2>2. ResultTypes'
    BY <1>2, LoopAssumption DEF Failed, ResultTypes, FrameRoom, PC, Owner
  <2>3. NotYet' /\ SentHeld' /\ OwnSentences' /\ DiscardedSilent'
    BY <1>2 DEF Failed, ResultTypes, NotYet, SentHeld, TrellisOwn, KilledAsks,
               OwnSentences, SearchedOwn, DiscardedSilent, Owner
  <2>4. TrellisOwn' /\ FrameRoom' /\ KilledAsks' /\ SearchedOwn' /\ EndsWhatBegan'
    BY <1>2, LoopAssumption DEF Failed, ResultTypes, TrellisOwn, FrameRoom,
               KilledAsks, SearchedOwn, SentHeld,
               EndsWhatBegan, BetweenInputs
  <2> QED
    BY <2>1, <2>2, <2>3, <2>4
<1>3. CASE Discard
  <2>1. FlagTypes'
    BY <1>3 DEF Discard, FlagTypes
  <2>2. ResultTypes'
    BY <1>3, LoopAssumption DEF Discard, ResultTypes, FrameRoom, PC, Owner
  <2>3. NotYet' /\ SentHeld' /\ OwnSentences' /\ DiscardedSilent'
    BY <1>3 DEF Discard, ResultTypes, NotYet, SentHeld, TrellisOwn, KilledAsks,
               OwnSentences, SearchedOwn, DiscardedSilent, Owner
  <2>4. TrellisOwn' /\ FrameRoom' /\ KilledAsks' /\ SearchedOwn' /\ EndsWhatBegan'
    BY <1>3, LoopAssumption DEF Discard, ResultTypes, TrellisOwn, FrameRoom,
               KilledAsks, SearchedOwn, SentHeld,
               EndsWhatBegan, BetweenInputs
  <2> QED
    BY <2>1, <2>2, <2>3, <2>4
<1>4. CASE FlushError
  <2>1. FlagTypes'
    BY <1>4 DEF FlushError, Begin, FlagTypes
  <2>2. ResultTypes'
    BY <1>4, LoopAssumption DEF FlushError, Begin, ResultTypes, FrameRoom, PC, Owner
  <2>3. NotYet' /\ SentHeld' /\ OwnSentences' /\ DiscardedSilent'
    BY <1>4 DEF FlushError, Begin, ResultTypes, NotYet, SentHeld, TrellisOwn, KilledAsks,
               OwnSentences, SearchedOwn, DiscardedSilent, Owner
  <2>4. TrellisOwn' /\ FrameRoom' /\ KilledAsks' /\ SearchedOwn' /\ EndsWhatBegan'
    BY <1>4, LoopAssumption DEF FlushError, Begin, ResultTypes, TrellisOwn, FrameRoom,
               KilledAsks, SearchedOwn, SentHeld,
               EndsWhatBegan, BetweenInputs
  <2> QED
    BY <2>1, <2>2, <2>3, <2>4
<1>5. CASE Cancel
  <2>1. FlagTypes'
    BY <1>5 DEF Cancel, FlagTypes
  <2>2. ResultTypes'
    BY <1>5, LoopAssumption DEF Cancel, ResultTypes, FrameRoom, PC, Owner
  <2>3. NotYet' /\ SentHeld' /\ OwnSentences' /\ DiscardedSilent'
    BY <1>5 DEF Cancel, ResultTypes, NotYet, SentHeld, TrellisOwn, KilledAsks,
               OwnSentences, SearchedOwn, DiscardedSilent, Owner
  <2>4. TrellisOwn' /\ FrameRoom' /\ KilledAsks' /\ SearchedOwn' /\ EndsWhatBegan'
    BY <1>5, LoopAssumption DEF Cancel, ResultTypes, TrellisOwn, FrameRoom,
               KilledAsks, SearchedOwn, SentHeld,
               EndsWhatBegan, BetweenInputs
  <2> QED
    BY <2>1, <2>2, <2>3, <2>4
<1>6. CASE EndPass1
  <2>1. FlagTypes'
    BY <1>6 DEF EndPass1, Cancelled, FlagTypes
  <2>2. ResultTypes'
    BY <1>6, LoopAssumption DEF EndPass1, Cancelled, ResultTypes, FrameRoom, PC, Owner
  <2>3. NotYet' /\ SentHeld' /\ OwnSentences' /\ DiscardedSilent'
    BY <1>6 DEF EndPass1, Cancelled, ResultTypes, NotYet, SentHeld, TrellisOwn, KilledAsks,
               OwnSentences, SearchedOwn, DiscardedSilent, Owner
  <2>4. TrellisOwn' /\ FrameRoom' /\ KilledAsks' /\ SearchedOwn' /\ EndsWhatBegan'
    BY <1>6, LoopAssumption DEF EndPass1, Cancelled, ResultTypes, TrellisOwn, FrameRoom,
               KilledAsks, SearchedOwn, SentHeld,
               EndsWhatBegan, BetweenInputs
  <2> QED
    BY <2>1, <2>2, <2>3, <2>4
<1>7. ASSUME NEW d \in 0..1, FinishPass1(d) PROVE IndInv'
  <2>1. FlagTypes'
    <3>1. triggered' \in BOOLEAN /\ open' \in BOOLEAN
      BY <1>7 DEF FinishPass1, Begin, FlagTypes
    <3>2. UNCHANGED <<flags, last_is_segmented, input, cut, killed, flush_failed>>
      BY <1>7 DEF FinishPass1
    <3> QED
      BY <3>1, <3>2 DEF FlagTypes
  <2>2. ResultTypes'
    BY <1>7, LoopAssumption DEF FinishPass1, Begin, ResultTypes, FrameRoom, PC, Owner
  <2>3. NotYet' /\ SentHeld' /\ OwnSentences' /\ DiscardedSilent'
    BY <1>7 DEF FinishPass1, Begin, ResultTypes, NotYet, SentHeld, TrellisOwn, KilledAsks,
               OwnSentences, SearchedOwn, DiscardedSilent, Owner
  <2>4. TrellisOwn' /\ FrameRoom' /\ KilledAsks' /\ SearchedOwn' /\ EndsWhatBegan'
    BY <1>7, LoopAssumption DEF FinishPass1, Begin, ResultTypes, TrellisOwn, FrameRoom,
               KilledAsks, SearchedOwn, SentHeld,
               EndsWhatBegan, BetweenInputs
  <2> QED
    BY <2>1, <2>2, <2>3, <2>4
<1> QED
  BY <1>1, <1>2, <1>3, <1>4, <1>5, <1>6, <1>7

\* The 2nd pass and the result: what is delivered is the list, of an input that
\* was not discarded.
LEMMA Delivering ==
  ASSUME IndInv, Result \/ Rejected \/ End \/ \E n \in 0..MaxSent : Search(n)
  PROVE  IndInv'
<1> USE DEF IndInv, flags, pass1, input, result, history
<1>1. /\ Spoken \in Seq(Owner) /\ Len(Spoken) <= MaxSent
      /\ \A n \in DOMAIN Spoken : Spoken[n] = sent
      /\ sent = "null" => Spoken = << >>
  BY SpokenSentences, TypesInParts DEF IndInv
<1>2. CASE Result
  <2>1. FlagTypes'
    BY <1>1, <1>2 DEF Result, Clear, FlagTypes
  <2>2. ResultTypes'
    BY <1>1, <1>2, LoopAssumption DEF Result, Clear, ResultTypes, FrameRoom, PC, Owner
  <2>3. NotYet' /\ SentHeld' /\ OwnSentences' /\ DiscardedSilent'
    BY <1>1, <1>2 DEF Result, Clear, ResultTypes, NotYet, SentHeld, TrellisOwn, KilledAsks,
               OwnSentences, SearchedOwn, DiscardedSilent, Owner
  <2>4. TrellisOwn' /\ FrameRoom' /\ KilledAsks' /\ SearchedOwn' /\ EndsWhatBegan'
    BY <1>1, <1>2, LoopAssumption DEF Result, Clear, ResultTypes, TrellisOwn, FrameRoom,
               KilledAsks, SearchedOwn, SentHeld,
               EndsWhatBegan, BetweenInputs
  <2> QED
    BY <2>1, <2>2, <2>3, <2>4
<1>3. CASE Rejected
  <2>1. FlagTypes'
    BY <1>1, <1>3 DEF Rejected, FlagTypes
  <2>2. ResultTypes'
    BY <1>1, <1>3, LoopAssumption DEF Rejected, ResultTypes, FrameRoom, PC, Owner
  <2>3. NotYet' /\ SentHeld' /\ OwnSentences' /\ DiscardedSilent'
    BY <1>1, <1>3 DEF Rejected, ResultTypes, NotYet, SentHeld, TrellisOwn, KilledAsks,
               OwnSentences, SearchedOwn, DiscardedSilent, Owner
  <2>4. TrellisOwn' /\ FrameRoom' /\ KilledAsks' /\ SearchedOwn' /\ EndsWhatBegan'
    BY <1>1, <1>3, LoopAssumption DEF Rejected, ResultTypes, TrellisOwn, FrameRoom,
               KilledAsks, SearchedOwn, SentHeld,
               EndsWhatBegan, BetweenInputs
  <2> QED
    BY <2>1, <2>2, <2>3, <2>4
<1>4. CASE End
  <2>1. open' \in BOOLEAN
    BY <1>4 DEF End
  <2>2. FlagTypes'
    <3>1. UNCHANGED <<flags, pass1, input, cut, killed, flush_failed>>
      BY <1>4 DEF End
    <3> QED
      BY <2>1, <3>1 DEF FlagTypes
  <2>3. ResultTypes'
    BY <1>4, LoopAssumption DEF End, ResultTypes, FrameRoom, PC, Owner
  <2>4. NotYet' /\ SentHeld' /\ OwnSentences' /\ DiscardedSilent'
    BY <1>4 DEF End, ResultTypes, NotYet, SentHeld, TrellisOwn, KilledAsks,
               OwnSentences, SearchedOwn, DiscardedSilent, Owner
  <2>5. TrellisOwn' /\ FrameRoom' /\ KilledAsks' /\ SearchedOwn' /\ EndsWhatBegan'
    BY <1>4, LoopAssumption DEF End, ResultTypes, TrellisOwn, FrameRoom,
               KilledAsks, SearchedOwn, SentHeld,
               EndsWhatBegan, BetweenInputs
  <2> QED
    BY <2>2, <2>3, <2>4, <2>5
<1>5. ASSUME NEW n \in 0..MaxSent, Search(n) PROVE IndInv'
  <2>1. FlagTypes'
    BY <1>5 DEF Search, FlagTypes
  <2>2. ResultTypes'
    BY <1>5, LoopAssumption DEF Search, ResultTypes, FrameRoom, PC, Owner
  <2>3. NotYet' /\ SentHeld' /\ OwnSentences' /\ DiscardedSilent'
    BY <1>5 DEF Search, ResultTypes, NotYet, SentHeld, TrellisOwn, KilledAsks,
               OwnSentences, SearchedOwn, DiscardedSilent, Owner
  <2>4. TrellisOwn' /\ FrameRoom' /\ KilledAsks' /\ SearchedOwn' /\ EndsWhatBegan'
    BY <1>5, LoopAssumption DEF Search, ResultTypes, TrellisOwn, FrameRoom,
               KilledAsks, SearchedOwn, SentHeld,
               EndsWhatBegan, BetweenInputs
  <2> QED
    BY <2>1, <2>2, <2>3, <2>4
<1> QED
  BY <1>2, <1>3, <1>4, <1>5

LEMMA StepInv == IndInv /\ [Next]_vars => IndInv'
<1> SUFFICES ASSUME IndInv, [Next]_vars PROVE IndInv'
  OBVIOUS
<1>1. CASE UNCHANGED vars
  BY <1>1 DEF vars, flags, pass1, input, result, history, IndInv, FlagTypes, ResultTypes, NotYet, SentHeld,
              TrellisOwn, FrameRoom, KilledAsks, SearchedOwn, OwnSentences, DiscardedSilent,
              EndsWhatBegan
<1>2. CASE Engine
  BY <1>2, LoopTop, Listening, EndOfPass1, Delivering DEF Engine
<1>3. CASE Device
  BY <1>3, Listening DEF Device
<1>4. CASE Restart
  BY <1>4, LoopTop
<1>5. ASSUME NEW q \in Requests, Request(q) PROVE IndInv'
  BY <1>5, RequestInv
<1> QED
  BY <1>1, <1>2, <1>3, <1>4, <1>5 DEF Next

\* The flags, the passes and the results keep their types, and no input
\* outgrows its buffer or its list of sentences.
THEOREM LoopTypeCorrect == Spec => []TypeOK
<1>1. IndInv => TypeOK
  BY TypesInParts DEF IndInv
<1> QED
  BY <1>1, InitInv, StepInv, PTL DEF Spec

\* The script is given sentences of the input just heard only, unless that
\* input has no frame and is finalised by a stale flag or after a failed flush.
THEOREM OnlyOwnSentences == Spec => []OwnSentences
<1>1. IndInv => OwnSentences
  BY DEF IndInv
<1> QED
  BY <1>1, InitInv, StepInv, PTL DEF Spec

\* An input discarded for a termination or an overflow is never delivered.
THEOREM NothingOfDiscarded == Spec => []DiscardedSilent
<1>1. IndInv => DiscardedSilent
  BY DEF IndInv
<1> QED
  BY <1>1, InitInv, StepInv, PTL DEF Spec

\* Every RECOGNITION_BEGIN has its RECOGNITION_END before the next input, a pause
\* or the end of the stream, but the one of an error return.
THEOREM BeginsAreEnded == Spec => []EndsWhatBegan
<1>1. IndInv => EndsWhatBegan
  BY DEF IndInv
<1> QED
  BY <1>1, InitInv, StepInv, PTL DEF Spec

=============================================================================
