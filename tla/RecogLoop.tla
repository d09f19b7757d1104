----------------------------- MODULE RecogLoop ------------------------------
(***************************************************************************)
(* The recognition loop of the engine: j_recognize_stream and              *)
(* j_recognize_stream_core (libjulius/src/recogmain.c) with the on-the-fly *)
(* 1st pass (realtime-1stpass.c), the requests an application makes from   *)
(* its callbacks (jfunc.c) and the result callback of HAS                  *)
(* (home_automation_system.cpp:205-233).                                   *)
(*                                                                         *)
(* Grain.  An action runs from one place where callbacks are executed, or  *)
(* where the engine looks at its input, to the next; Request is what the   *)
(* application may ask for in such a callback.  adin_go is seen from its   *)
(* caller: every turn of its loop polls, checks and may hand samples to    *)
(* RealTimePipeLine (AdinThread has its inside).  The configuration is     *)
(* that of HAS: one recognition process, always live, with a grammar,      *)
(* microphone input, no -spsegment, no -rejectshort, no GMM; decoding      *)
(* itself is a nondeterministic choice of outcomes.                        *)
(***************************************************************************)
EXTENDS Integers, Sequences

CONSTANTS
  Requests,  \* what the application may request
  MaxFrame,  \* maxframelen
  MaxSent    \* output_hypo_maxnum

ASSUME LoopAssumption ==
  /\ Requests \subseteq {"pause", "terminate", "resume",
                         "update_terminate", "update_pause", "update_wait"}
  /\ MaxFrame \in Nat \ {0} /\ MaxSent \in Nat \ {0}

VARIABLES
  pc,
  active, online, want_terminate, want_reload,  \* process_* flags of Recog
  triggered, frames, last_is_segmented,         \* triggered, mfcc->f, real.last_is_segmented
  stored, overflowed, ret,     \* speechlen > 0 at the last poll, buffer overflow, result of adin_go
  status, sent, sentnum,       \* r->result; sent tells whose sentences it points to
  trellis,                     \* whose input the word trellis of the 1st pass is
  \* history: sentences handed to the script for this input, whether
  \* RECOGNITION_BEGIN was executed and END not yet, whether the 1st pass ended
  \* by segmentation, whether a termination of this input was asked for, and
  \* whether the flush of the last frames failed
  delivered, open, cut, killed, flush_failed

flags   == <<active, online, want_terminate, want_reload>>
pass1   == <<triggered, frames, last_is_segmented, trellis>>
input   == <<stored, overflowed, ret>>
result  == <<status, sent, sentnum>>
history == <<delivered, open, cut, killed, flush_failed>>
vars    == <<pc, flags, pass1, input, result, history>>

PC == {"head", "status", "poll", "online", "listen", "data", "returned", "pass1_end",
       "search", "result", "rejected", "end", "paused", "stopped"}

\* No input is being recognised.
BetweenInputs == {"head", "status", "poll", "online", "paused", "stopped"}

\* Where callbacks are executed.
CallbackPC == PC \ {"head", "returned", "stopped"}

Owner == {"null", "old", "own"}

TypeOK ==
  /\ pc \in PC
  /\ active \in BOOLEAN /\ online \in BOOLEAN
  /\ want_terminate \in BOOLEAN /\ want_reload \in BOOLEAN
  /\ triggered \in BOOLEAN /\ frames \in 0..MaxFrame + 1 /\ last_is_segmented \in BOOLEAN
  /\ stored \in BOOLEAN /\ overflowed \in BOOLEAN /\ ret \in {-2, -1, 0, 1, 2}
  /\ status \in {"success", "fail", "terminate", "overflow"}
  /\ sent \in Owner /\ sentnum \in 0..MaxSent /\ trellis \in Owner
  /\ delivered \in Seq(Owner) /\ Len(delivered) <= MaxSent
  /\ open \in BOOLEAN /\ cut \in BOOLEAN /\ killed \in BOOLEAN /\ flush_failed \in BOOLEAN

\* The engine as j_recog_new leaves it, when j_recognize_stream is called.
Init ==
  /\ pc = "head"
  /\ active = TRUE /\ online = FALSE /\ want_terminate = FALSE /\ want_reload = FALSE
  /\ triggered = FALSE /\ frames = 0 /\ last_is_segmented = FALSE /\ trellis = "null"
  /\ stored = FALSE /\ overflowed = FALSE /\ ret = 1
  /\ status = "fail" /\ sent = "null" /\ sentnum = 0
  /\ delivered = << >> /\ open = FALSE /\ cut = FALSE /\ killed = FALSE /\ flush_failed = FALSE

-----------------------------------------------------------------------------
(* Requests of the application.                                            *)

\* j_request_pause.
RequestPause ==
  /\ active' = FALSE
  /\ want_terminate' = IF active THEN FALSE ELSE want_terminate
  /\ want_reload' = (want_reload \/ active)

\* j_request_terminate.
RequestTerminate ==
  /\ active' = FALSE
  /\ want_terminate' = (want_terminate \/ active)
  /\ want_reload' = (want_reload \/ active)

\* Mutant: forgets the pending termination.
RequestResumeKeeps ==
  /\ active' = TRUE
  /\ UNCHANGED <<want_terminate, want_reload>>

\* j_request_resume.
RequestResume ==
  /\ active' = TRUE
  /\ want_terminate' = (want_terminate /\ active)
  /\ UNCHANGED want_reload

\* schedule_grammar_update with gram_switch_input_method q.
GrammarUpdate(q) ==
  /\ UNCHANGED active
  /\ want_terminate' = IF active THEN q = "update_terminate" ELSE want_terminate
  /\ want_reload' = IF active THEN q # "update_wait" ELSE want_reload

\* A callback makes request q.
Request(q) ==
  /\ pc \in CallbackPC
  /\ \/ q = "pause" /\ RequestPause
     \/ q = "terminate" /\ RequestTerminate
     \/ q = "resume" /\ RequestResume
     \/ q \in {"update_terminate", "update_pause", "update_wait"} /\ GrammarUpdate(q)
  /\ killed' = (want_terminate' /\ (killed \/ pc \in {"listen", "data", "pass1_end"}))
  /\ UNCHANGED <<pc, online, pass1, input, result, delivered, open, cut, flush_failed>>

-----------------------------------------------------------------------------
(* Between inputs.                                                         *)

\* The head of the loop: CALLBACK_EVENT_PROCESS_ONLINE or OFFLINE is executed
\* when the status changed, CALLBACK_POLL only in an active engine.
LoopHead ==
  /\ pc = "head"
  /\ online' = active
  /\ \/ online # active /\ pc' = "status" /\ UNCHANGED want_reload
     \/ online /\ active /\ pc' = "poll" /\ UNCHANGED want_reload
     \/ ~online /\ ~active /\ pc' = "paused" /\ want_reload' = FALSE
  /\ UNCHANGED <<active, want_terminate, pass1, input, result, history>>

\* After that callback, which may itself have changed the status again.  A
\* sleeping engine drops the reload flag and returns to j_recognize_stream,
\* which executes the pause callbacks.
Status ==
  /\ pc = "status"
  /\ want_reload' = (want_reload /\ active)
  /\ pc' = IF active THEN "poll" ELSE "paused"
  /\ UNCHANGED <<active, online, want_terminate, pass1, input, result, history>>

\* What was the current input becomes an old one.
Aged(owner) == IF owner = "own" THEN "old" ELSE owner

\* RealTimePipeLinePrepare, and adin_go is entered.
Prepare ==
  /\ pc' = "listen"
  /\ triggered' = FALSE /\ frames' = 0
  /\ trellis' = Aged(trellis) /\ sent' = Aged(sent)
  /\ stored' = FALSE /\ overflowed' = FALSE
  /\ delivered' = << >> /\ cut' = FALSE /\ killed' = FALSE /\ flush_failed' = FALSE
  /\ UNCHANGED <<last_is_segmented, ret, status, sentnum, open>>

\* What follows CALLBACK_POLL in an engine still active: an engine resumed in
\* the OFFLINE callback is announced as online here.
GoOn ==
  \/ online /\ Prepare /\ UNCHANGED online
  \/ ~online /\ online' = TRUE /\ pc' = "online" /\ UNCHANGED <<pass1, input, result, history>>

Sleep == pc' = "paused" /\ UNCHANGED <<online, pass1, input, result, history>>

\* Mutant: the reload flag is not dropped.
PollKeepsReload ==
  /\ pc = "poll"
  /\ \/ active /\ GoOn
     \/ ~active /\ Sleep
  /\ UNCHANGED <<active, want_terminate, want_reload>>

\* After CALLBACK_POLL: the reload flag is dropped.
Poll ==
  /\ pc = "poll"
  /\ want_reload' = FALSE
  /\ \/ active /\ GoOn
     \/ ~active /\ Sleep
  /\ UNCHANGED <<active, want_terminate>>

\* After the second ONLINE callback the status is not looked at again.
Online ==
  /\ pc = "online" /\ Prepare
  /\ UNCHANGED flags

\* The pause functions are done: j_recognize_stream calls the core again.
Paused ==
  /\ pc = "paused" /\ pc' = "head"
  /\ UNCHANGED <<flags, pass1, input, result, history>>

-----------------------------------------------------------------------------
(* Listening: the loop of adin_go.                                         *)

\* adin_go returns r.
AdinReturn(r) == pc' = "returned" /\ ret' = r

\* The A/D-in thread finds speech[] full, at any time of the call.
AdinOverflow ==
  /\ pc \in {"listen", "data", "returned"} /\ ~overflowed
  /\ overflowed' = TRUE
  /\ UNCHANGED <<pc, flags, pass1, stored, ret, result, history>>

\* The stream ended or the buffer overflowed, seen before anything else.
StreamEnd ==
  /\ pc = "listen" /\ AdinReturn(0)
  /\ UNCHANGED <<flags, pass1, stored, overflowed, result, history>>

OverflowSeen ==
  /\ pc = "listen" /\ overflowed /\ AdinReturn(1)
  /\ UNCHANGED <<flags, pass1, stored, overflowed, result, history>>

\* Mutant: only a termination is looked at.
CheckNoReload == IF want_terminate THEN -2 ELSE 0

\* callback_check_in_adin.
Check == IF want_terminate THEN -2 ELSE IF want_reload THEN -1 ELSE 0

\* The check stops the call: a reload only as long as no sample was stored.
Stops == Check = -2 \/ (Check = -1 /\ ~stored')

\* One turn of adin_go; fresh when the A/D-in thread has stored new samples.
AdinCheck(fresh) ==
  /\ pc = "listen" /\ ~overflowed
  /\ stored' = (stored \/ fresh)
  /\ IF Stops THEN AdinReturn(-2)
     ELSE pc' = (IF fresh THEN "data" ELSE "listen") /\ UNCHANGED ret
  /\ UNCHANGED <<flags, pass1, overflowed, result, history>>

\* The A/D-in thread found the end of the speech and all of it is processed.
SegmentOver ==
  /\ pc = "listen" /\ ~overflowed /\ ~(Check = -2 \/ (Check = -1 /\ ~stored))
  /\ AdinReturn(1)
  /\ UNCHANGED <<flags, pass1, stored, overflowed, result, history>>

\* proceed_one_frame executes RECOGNITION_BEGIN and PASS1_BEGIN on frame 0.
Begin(p) == IF p THEN triggered' = TRUE /\ open' = TRUE ELSE UNCHANGED <<triggered, open>>

\* Mutant: the length is not limited.
RoomForAny(n) == n \in Nat

\* The input stays within maxframelen.
RoomFor(n) == frames + n <= MaxFrame

\* RealTimePipeLine decodes n more frames without an event.
Decode(n) ==
  /\ pc = "data" /\ RoomFor(n)
  /\ Begin(n > 0 /\ frames = 0)
  /\ frames' = frames + n /\ last_is_segmented' = FALSE
  /\ trellis' = IF n > 0 THEN "own" ELSE trellis
  /\ pc' = "listen"
  /\ UNCHANGED <<flags, input, result, delivered, cut, killed, flush_failed>>

\* The input has reached maxframelen: RealTimePipeLine returns 1.
TooLong ==
  /\ pc = "data" /\ frames = MaxFrame
  /\ last_is_segmented' = FALSE
  /\ AdinReturn(2)
  /\ UNCHANGED <<flags, triggered, frames, trellis, stored, overflowed, result, history>>

\* No node left in the beam: the decoder asks to segment the input here.
Segment ==
  /\ pc = "data" /\ frames \in 1..MaxFrame - 1
  /\ last_is_segmented' = TRUE /\ cut' = TRUE
  /\ AdinReturn(2)
  /\ UNCHANGED <<flags, triggered, frames, trellis, stored, overflowed, result, delivered, open, killed, flush_failed>>

\* The 1st pass cannot be initialised on its first frame.
DecodeError ==
  /\ pc = "data" /\ frames = 0
  /\ Begin(TRUE) /\ last_is_segmented' = FALSE
  /\ AdinReturn(-1)
  /\ UNCHANGED <<flags, frames, trellis, stored, overflowed, result, delivered, cut, killed, flush_failed>>

-----------------------------------------------------------------------------
(* The end of the 1st pass.                                                *)

\* result_error: the status is set, CALLBACK_RESULT is executed if there were frames.
ResultError(s) == status' = s /\ pc' = IF frames > 0 THEN "rejected" ELSE "end"

TerminatedInput == ret < 0 /\ (ret = -2 \/ want_terminate)

\* adin_go was stopped by a termination: only a triggered input is rejected.
Terminated ==
  /\ pc = "returned" /\ TerminatedInput
  /\ IF triggered THEN ResultError("terminate")
     ELSE status' = "fail" /\ pc' = "end"
  /\ UNCHANGED <<flags, pass1, input, sent, sentnum, history>>

\* An error that nobody asked for ends j_recognize_stream.
Failed ==
  /\ pc = "returned" /\ ret = -1 /\ ~TerminatedInput
  /\ pc' = "stopped"
  /\ UNCHANGED <<flags, pass1, input, result, history>>

DiscardedInput == ret \in {1, 2} /\ overflowed

\* The buffer overflowed: the input is discarded.
Discard ==
  /\ pc = "returned" /\ DiscardedInput
  /\ ResultError("overflow")
  /\ UNCHANGED <<flags, pass1, input, sent, sentnum, history>>

\* RealTimeParam and decode_end.  An input cut by the decoder is finalised as it
\* is; otherwise the last d frames are flushed, and an input without a frame
\* fails.
FinishPass1(d) ==
  /\ pc = "returned" /\ ret >= 0 /\ ~DiscardedInput
  /\ d > 0 => stored /\ ~last_is_segmented
  /\ Begin(d > 0 /\ frames = 0)
  /\ frames' = frames + d
  /\ trellis' = IF d > 0 THEN "own" ELSE trellis
  /\ status' \in IF last_is_segmented \/ frames' > 0 THEN {"success", "fail"} ELSE {"fail"}
  /\ pc' = "pass1_end"
  /\ UNCHANGED <<flags, last_is_segmented, input, sent, sentnum, delivered, cut, killed, flush_failed>>

\* Decoding the first frame fails in the flush: RealTimeParam returns -1, which
\* its caller takes for TRUE.
FlushError ==
  /\ pc = "returned" /\ ret >= 0 /\ ~DiscardedInput
  /\ stored /\ frames = 0 /\ ~last_is_segmented
  /\ Begin(TRUE) /\ flush_failed' = TRUE
  /\ pc' = "pass1_end"
  /\ UNCHANGED <<flags, frames, last_is_segmented, trellis, input, result, delivered, cut, killed>>

-----------------------------------------------------------------------------
(* The 2nd pass and the result.                                            *)

\* Mutant: no look at the termination flag after the 1st pass.
CancelledNever == FALSE

\* A termination was requested in the callbacks at the end of the 1st pass.
Cancelled == want_terminate

Cancel ==
  /\ pc = "pass1_end" /\ Cancelled
  /\ ResultError("terminate")
  /\ UNCHANGED <<flags, pass1, input, sent, sentnum, history>>

\* A successful 1st pass gets storage for its sentences and the 2nd pass
\* begins; otherwise CALLBACK_RESULT is executed on what is there.
EndPass1 ==
  /\ pc = "pass1_end" /\ ~Cancelled
  /\ IF status = "success"
     THEN pc' = "search" /\ sent' = trellis /\ sentnum' = 0
     ELSE pc' = "result" /\ UNCHANGED <<sent, sentnum>>
  /\ UNCHANGED <<flags, pass1, input, status, history>>

\* wchmm_fbs finds n sentences.
Search(n) ==
  /\ pc = "search"
  /\ sentnum' = n /\ status' = IF n > 0 THEN "success" ELSE "fail"
  /\ pc' = "result"
  /\ UNCHANGED <<flags, pass1, input, sent, history>>

\* Mutant: without the test for the NULL list.
SpokenUnguarded == [n \in 1..sentnum |-> sent]

\* on_result hands every sentence to the script; sentnum may be that of an
\* earlier input, then sent is NULL.
Spoken == IF sent = "null" THEN << >> ELSE [n \in 1..sentnum |-> sent]

\* clear_result frees the sentences; sentnum stays.
Clear == sent' = "null"

\* CALLBACK_RESULT of a recognised input, then clear_result.
Result ==
  /\ pc = "result"
  /\ delivered' = Spoken
  /\ Clear /\ pc' = "end"
  /\ UNCHANGED <<flags, pass1, input, status, sentnum, open, cut, killed, flush_failed>>

\* Mutant: the loop goes on without RECOGNITION_END.
RejectedNoEnd ==
  /\ pc = "rejected"
  /\ delivered' = Spoken
  /\ pc' = "head"
  /\ UNCHANGED <<flags, pass1, input, result, open, cut, killed, flush_failed>>

\* CALLBACK_RESULT of a rejected input (result_error).
Rejected ==
  /\ pc = "rejected"
  /\ delivered' = Spoken
  /\ pc' = "end"
  /\ UNCHANGED <<flags, pass1, input, result, open, cut, killed, flush_failed>>

\* RECOGNITION_END; the loop ends at the end of the stream.
End ==
  /\ pc = "end"
  /\ open' = FALSE
  /\ pc' = IF ret <= 0 /\ ret # -2 THEN "stopped" ELSE "head"
  /\ UNCHANGED <<flags, pass1, input, result, delivered, cut, killed, flush_failed>>

\* The script calls Julius.start again.
Restart ==
  /\ pc = "stopped" /\ pc' = "head"
  /\ UNCHANGED <<flags, pass1, input, result, history>>

-----------------------------------------------------------------------------
Engine ==
  \/ LoopHead \/ Status \/ Poll \/ Online \/ Paused
  \/ AdinCheck(FALSE) \/ OverflowSeen
  \/ \E n \in 0..1 : Decode(n)
  \/ TooLong \/ Segment \/ DecodeError
  \/ Terminated \/ Failed \/ Discard \/ FlushError
  \/ \E d \in 0..1 : FinishPass1(d)
  \/ Cancel \/ EndPass1 \/ Result \/ Rejected \/ End
  \/ \E n \in 0..MaxSent : Search(n)

\* What the A/D-in thread and the device bring about.
Device == AdinCheck(TRUE) \/ SegmentOver \/ StreamEnd \/ AdinOverflow

Next ==
  \/ Engine \/ Device \/ Restart
  \/ \E q \in Requests : Request(q)

Spec == Init /\ [][Next]_vars

\* The process thread runs.  Nobody has to speak, but speech that was stored
\* ends some time: at the latest when speech[] is full.
FairSpec == Spec /\ WF_vars(Engine) /\ SF_vars(SegmentOver /\ stored)

-----------------------------------------------------------------------------
(* Properties.                                                             *)

\* The script is only given sentences of the input just heard, and never reads
\* through the NULL list, although sentnum is left from an earlier input when
\* an input is rejected or fails (recogmain.c:291-308, 632-655;
\* home_automation_system.cpp:214-218).  Two inputs are excepted, both without
\* a decoded frame, and both give the script old sentences: one that the
\* last_is_segmented of an earlier input finalises (realtime-1stpass.c:1121-1137)
\* and one whose flush failed (FlushErrorStops below).
OwnSentences ==
  (frames = 0 => ~last_is_segmented /\ ~flush_failed)
    => \A n \in DOMAIN delivered : delivered[n] = "own"

\* An input discarded for a termination or an overflow gives the script
\* nothing, though CALLBACK_RESULT is executed for it; and neither does one
\* whose termination was requested during the 1st pass and not taken back,
\* wherever in the pass the request came (recogmain.c:454, 934, 945, 1004).
DiscardedSilent ==
  killed \/ status \in {"terminate", "overflow"} => delivered = << >>

\* RECOGNITION_BEGIN is followed by RECOGNITION_END before the engine looks for
\* the next input, pauses or ends (recogmain.c:1346-1404), whether the input is
\* recognised, rejected, terminated or discarded.  The one way out without an
\* END is the error return after a failed first frame (recogmain.c:949-951):
\* that BEGIN stays open until an input of a later stream ends.
EndsWhatBegan == open /\ pc \in BetweenInputs => ret = -1

\* A requested termination stops the engine whatever the microphone delivers.
TerminateTakesEffect ==
  want_terminate ~> (~want_terminate \/ pc \in {"paused", "stopped"})

\* A requested pause is reached once the current input ends.
PauseTakesEffect == ~active ~> (active \/ pc \in {"paused", "stopped"})

\* An active engine comes to listen with no request pending that would stop it
\* again: each request is used up (recogmain.c:800, jfunc.c:128-146).
Listens ==
  active ~> (~active \/ pc = "stopped" \/ (pc = "listen" /\ ~want_terminate /\ ~want_reload))

-----------------------------------------------------------------------------
(* What a comment or header says and the code does not guarantee.          *)

\* recogmain.c:1439-1440: "recognition will restart immediately after all
\* functions registered in CALLBACK_PAUSE_FUNCTION has been finished".
RestartsAfterPauseFunction == pc = "paused" ~> pc \in {"listen", "stopped"}

\* recog.h:1145-1146 on a reload request during the 1st pass: "it immediately
\* segments the current input", so no further samples are decoded.
ReloadSegments == [][pc = "listen" /\ want_reload => pc' # "data"]_vars

\* callback.h on RECOGNITION_END: "when a valid input segment has ended up",
\* so only for an input that RECOGNITION_BEGIN announced.
EndOnlyAfterBegin == pc = "end" => open

\* recog.h:188: last_is_segmented is "TRUE if last pass was a segmented input".
SegmentedFlagFresh == pc = "pass1_end" /\ last_is_segmented => cut

\* realtime-1stpass.c:1102 and recogmain.c:974-976: RealTimeParam returns FALSE
\* on an error, which terminates the stream.
FlushErrorStops == pc = "search" => ~flush_failed

=============================================================================
