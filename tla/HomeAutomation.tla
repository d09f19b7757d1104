--------------------------- MODULE HomeAutomation ---------------------------
(***************************************************************************)
(* The application: one script that drives speech synthesis, the remote    *)
(* control and the recogniser, and the two threads that run its code       *)
(* (home_automation_system.cpp, julius.cpp, text_to_speech.cpp).           *)
(*                                                                         *)
(* The main thread runs the script; Julius.start keeps it inside the       *)
(* recognition loop, from which it runs onSpeechReady and onResult.  The   *)
(* A/D-in thread of Julius runs onSpeechStart.  Each thread has a stack of *)
(* frames: "js" for code inside V8, "talk" for TextToSpeech, "ir" for a    *)
(* command to the device, "recog" for the loop.  Modules AdinThread,       *)
(* RecogLoop and IRemocon describe the inside of the last two.             *)
(***************************************************************************)
EXTENDS Integers, Sequences, FiniteSets

CONSTANTS
  Script,          \* the statements of the script
  OnSpeechReady, OnSpeechStart, OnResult,   \* those of its handlers
  Words,           \* what scripts and handlers say
  NoText,          \* the empty text; also the contents of a file that is not there or empty
  MaxSent          \* output_hypo_maxnum: sentences of an input

Statements == {"tts_init", "talk", "retalk", "ir_connect", "ir_send", "julius_init", "julius_start"}

\* No handler starts the recogniser a second time.
ASSUME ScriptAssumption ==
  /\ Script \in Seq(Statements)
  /\ {OnSpeechReady, OnSpeechStart, OnResult} \subseteq Seq(Statements \ {"julius_start"})
  /\ NoText \notin Words /\ MaxSent \in Nat

Threads == {"main", "adin"}
Engines == 0..Len(Script) + 2

VARIABLES
  stack,       \* the frames of each thread, innermost first
  status,      \* "run", or "crash" after a call on a null pointer
  tts, ir,     \* if_initialized_ of the OpenJTalk and iRemocon objects
  str,         \* str_: what retalk says
  wav,         \* the contents of __tmp__.wav
  julius,      \* julius_: the current engine, 0 when there is none
  freed,       \* engines whose destructor has run
  listener,    \* the engine the A/D-in thread works for, 0 when there is none
  online,      \* transfer_online
  local,       \* the copy of it the thread took for the batch it processes
  speech,      \* is_valid_data: the microphone is in a speech segment
  stored,      \* speech[] holds samples
  segmented,   \* engines whose last_is_segmented is set
  unopened,    \* history: threads whose last make_wav could not open the file
  overtaken,   \* history: threads after whose last make_wav the other one wrote the file
  kept         \* history: a file that no remove has removed since it was written

script == <<tts, ir, str>>
file == <<wav, unopened, overtaken, kept>>
engine == <<julius, freed>>
audio == <<listener, online, local, speech, stored, segmented>>
vars == <<stack, status, script, file, engine, audio>>

Texts == Words \cup {NoText}

Js(code) == [kind |-> "js", code |-> code]
Talk(text) == [kind |-> "talk", at |-> "make", text |-> text]
Ir == [kind |-> "ir"]
Recog(e) == [kind |-> "recog", engine |-> e, at |-> "ready", left |-> 0, last |-> FALSE]

Frames ==
  [kind : {"js"}, code : Seq(Statements)]
  \cup [kind : {"talk"}, at : {"make", "load", "playing", "remove"}, text : Texts]
  \cup {Ir}
  \cup [kind : {"recog"}, engine : Engines, at : {"ready", "open", "listen", "result"},
        left : 0..MaxSent, last : BOOLEAN]

TypeOK ==
  /\ stack \in [Threads -> Seq(Frames)] /\ status \in {"run", "crash"}
  /\ tts \in BOOLEAN /\ ir \in BOOLEAN /\ str \in Texts /\ wav \in Texts
  /\ julius \in Engines /\ freed \subseteq Engines \ {0}
  /\ listener \in Engines /\ online \in BOOLEAN /\ local \in BOOLEAN /\ speech \in BOOLEAN /\ stored \in BOOLEAN
  /\ segmented \subseteq Engines
  /\ unopened \subseteq Threads /\ overtaken \subseteq Threads /\ kept \in BOOLEAN

\* The constructor has run and exec_script has compiled the script.  A run that
\* was killed may have left its __tmp__.wav.
Init ==
  /\ stack = [main |-> << Js(Script) >>, adin |-> << >>] /\ status = "run"
  /\ tts = FALSE /\ ir = FALSE /\ str = NoText
  /\ wav \in Texts /\ kept = (wav # NoText) /\ unopened = {} /\ overtaken = {}
  /\ julius = 0 /\ freed = {}
  /\ listener = 0 /\ online = FALSE /\ local = FALSE /\ speech = FALSE /\ stored = FALSE
  /\ segmented = {}

-----------------------------------------------------------------------------
(* Frames.                                                                 *)

\* Thread t runs, and its innermost frame is of the kind.
Runs(t, kind) == status = "run" /\ stack[t] # << >> /\ Head(stack[t]).kind = kind

Top(t) == Head(stack[t])
Push(t, frame) == [stack EXCEPT ![t] = << frame >> \o @]
Pop(t) == [stack EXCEPT ![t] = Tail(@)]
Replace(t, frame) == [stack EXCEPT ![t] = << frame >> \o Tail(@)]

\* The thread is at this statement of its innermost script code.
At(t, statement) == Runs(t, "js") /\ Top(t).code # << >> /\ Head(Top(t).code) = statement

\* The stack once the statement is done, and once it has called into frame.
Done(t) == Replace(t, Js(Tail(Top(t).code)))
Into(t, frame) == [stack EXCEPT ![t] = << frame, Js(Tail(Top(t).code)) >> \o Tail(@)]

\* exec returns at the end of the code.
ScriptEnd(t) ==
  /\ Runs(t, "js") /\ Top(t).code = << >>
  /\ stack' = Pop(t)
  /\ UNCHANGED <<status, script, file, engine, audio>>

-----------------------------------------------------------------------------
(* OpenJTalk.                                                              *)

\* init: a new TextToSpeech in the place of the old one.
TtsInit(t) ==
  /\ At(t, "tts_init")
  /\ tts' = TRUE /\ str' = NoText /\ stack' = Done(t)
  /\ UNCHANGED <<status, ir, file, engine, audio>>

\* talk remembers its argument for retalk; before init it returns at once.
TtsTalk(t) ==
  /\ At(t, "talk")
  /\ \/ ~tts /\ stack' = Done(t) /\ UNCHANGED str
     \/ tts /\ \E text \in Words : str' = text /\ stack' = Into(t, Talk(text))
  /\ UNCHANGED <<status, tts, ir, file, engine, audio>>

TtsRetalk(t) ==
  /\ At(t, "retalk")
  /\ stack' = (IF tts THEN Into(t, Talk(str)) ELSE Done(t))
  /\ UNCHANGED <<status, script, file, engine, audio>>

\* make_wav, play_wav, remove_wav all work on the one file __tmp__.wav.
NextPhase(t, phase) == Replace(t, [Top(t) EXCEPT !.at = phase])

\* make_wav only reports that the file cannot be opened.  An open empties the
\* file, and a text without a label, or a write that fails, leaves it so.
MakeWav(t) ==
  /\ Runs(t, "talk") /\ Top(t).at = "make"
  /\ stack' = NextPhase(t, "load")
  /\ \/ /\ unopened' = unopened \cup {t} /\ overtaken' = overtaken \ {t}
        /\ UNCHANGED <<wav, kept>>
     \/ /\ wav' \in {Top(t).text, NoText} /\ kept' = FALSE
        /\ unopened' = unopened \ {t} /\ overtaken' = Threads \ {t}
  /\ UNCHANGED <<status, script, engine, audio>>

\* play_wav reads the file into a buffer and starts it, ...
LoadWav(t) ==
  /\ Runs(t, "talk") /\ Top(t).at = "load"
  /\ stack' = NextPhase(t, "playing")
  /\ UNCHANGED <<status, script, file, engine, audio>>


\* ... polls the source until it does not play any more, ...
PlayEnd(t) ==
  /\ Runs(t, "talk") /\ Top(t).at = "playing"
  /\ stack' = NextPhase(t, "remove")
  /\ UNCHANGED <<status, script, file, engine, audio>>

\* Mutant: nothing removes the file.
LeaveWav(t) ==
  /\ Runs(t, "talk") /\ Top(t).at = "remove"
  /\ stack' = Pop(t)
  /\ UNCHANGED <<status, script, file, engine, audio>>

\* ... and remove_wav deletes the file; nobody looks whether remove() failed.
RemoveWav(t) ==
  /\ Runs(t, "talk") /\ Top(t).at = "remove"
  /\ wav' \in {wav, NoText} /\ kept' = (wav' # NoText) /\ stack' = Pop(t)
  /\ UNCHANGED <<status, script, unopened, overtaken, engine, audio>>

-----------------------------------------------------------------------------
(* iRemocon.                                                               *)

IrConnect(t) ==
  /\ At(t, "ir_connect")
  /\ ir' = TRUE /\ stack' = Done(t)
  /\ UNCHANGED <<status, tts, str, file, engine, audio>>

\* send blocks in exec_command (module IRemocon) until that returns.
IrSend(t) ==
  /\ At(t, "ir_send")
  /\ stack' = (IF ir THEN Into(t, Ir) ELSE Done(t))
  /\ UNCHANGED <<status, script, file, engine, audio>>

IrReturn(t) ==
  /\ Runs(t, "ir") /\ stack' = Pop(t)
  /\ UNCHANGED <<status, script, file, engine, audio>>

-----------------------------------------------------------------------------
(* Julius.                                                                 *)

\* init creates the new engine first; the assignment to julius_ then destroys
\* the old one: ~Julius asks for the cancellation of its A/D-in thread and
\* frees it at once.  The callbacks are registered with the new one.
JuliusInit(t) ==
  /\ At(t, "julius_init") /\ julius + 1 \in Engines
  /\ julius' = julius + 1 /\ freed' = (IF julius = 0 THEN freed ELSE freed \cup {julius})
  /\ stack' = Done(t)
  /\ UNCHANGED <<status, script, file, audio>>

\* start does not ask initialized() and dereferences julius_; it returns when
\* the input stream cannot be opened, and runs the loop otherwise, with a new
\* A/D-in thread.
JuliusStart(t) ==
  /\ At(t, "julius_start")
  /\ \/ julius = 0 /\ status' = "crash" /\ UNCHANGED <<stack, listener, online, stored>>
     \/ julius # 0 /\ stack' = Done(t) /\ UNCHANGED <<status, listener, online, stored>>
     \/ /\ julius # 0 /\ listener = 0
        /\ stack' = Into(t, Recog(julius)) /\ listener' = julius
        /\ online' = FALSE /\ stored' = FALSE
        /\ UNCHANGED status
  /\ UNCHANGED <<script, file, engine, local, speech, segmented>>

\* adin_go: SPEECH_READY first, ...
Ready ==
  /\ Runs("main", "recog") /\ Top("main").at = "ready"
  /\ stack' = [stack EXCEPT !["main"] = << Js(OnSpeechReady), [Top("main") EXCEPT !.at = "open"] >> \o Tail(@)]
  /\ UNCHANGED <<status, script, file, engine, audio>>

\* ... then adin_thread_process switches the transfer on.
Listen ==
  /\ Runs("main", "recog") /\ Top("main").at = "open"
  /\ stack' = Replace("main", [Top("main") EXCEPT !.at = "listen"])
  /\ online' = TRUE
  /\ UNCHANGED <<status, script, file, engine, listener, local, speech, stored, segmented>>

\* adin_go returns and both passes are run, also at the end of the stream.  An
\* input of which nothing was processed has no sentences, unless the
\* last_is_segmented of an earlier one finalises it (module RecogLoop).
InputEnds(last) ==
  /\ \E n \in 0..MaxSent, processed, cut \in BOOLEAN :
       /\ processed => stored
       /\ cut => processed /\ ~last
       /\ n > 0 => processed \/ Top("main").engine \in segmented
       /\ stack' = Replace("main", [Top("main") EXCEPT !.at = "result", !.left = n, !.last = last])
       /\ segmented' = IF cut THEN segmented \cup {Top("main").engine}
                       ELSE IF processed THEN segmented \ {Top("main").engine} ELSE segmented
  /\ online' = FALSE /\ stored' = FALSE
  /\ UNCHANGED <<status, script, file, engine, listener, local, speech>>

\* The segment is over, or the recogniser cuts it.
SegmentOver ==
  /\ Runs("main", "recog") /\ Top("main").at = "listen"
  /\ ~online \/ stored
  /\ InputEnds(FALSE)

\* The A/D-in thread has ended: adin_go returns 0 with what it had processed.
StreamEnd ==
  /\ Runs("main", "recog") /\ Top("main").at = "listen" /\ listener = 0
  /\ InputEnds(TRUE)

\* Mutant: the loop over the sentences runs once too often.
ResultOnceMore ==
  /\ Runs("main", "recog") /\ Top("main").at = "result"
  /\ stack' = [stack EXCEPT !["main"] =
       << Js(OnResult), [Top("main") EXCEPT !.left = @ - 1] >> \o Tail(@)]
  /\ UNCHANGED <<status, script, file, engine, audio>>

\* on_result: onResult for each sentence, then back to the head of the loop;
\* after the last input j_recognize_stream and start return.
Result ==
  /\ Runs("main", "recog") /\ Top("main").at = "result"
  /\ \/ /\ Top("main").left > 0
        /\ stack' = [stack EXCEPT !["main"] =
             << Js(OnResult), [Top("main") EXCEPT !.left = @ - 1] >> \o Tail(@)]
     \/ /\ Top("main").left = 0 /\ ~Top("main").last
        /\ stack' = Replace("main", [Top("main") EXCEPT !.at = "ready"])
     \/ Top("main").left = 0 /\ Top("main").last /\ stack' = Pop("main")
  /\ UNCHANGED <<status, script, file, engine, audio>>

-----------------------------------------------------------------------------
(* The A/D-in thread.                                                      *)

\* The thread is reading the device, and in none of its callbacks.
Reading == status = "run" /\ listener # 0 /\ stack["adin"] = << >>

\* Up trigger: SPEECH_START, which runs onSpeechStart on this thread.
UpTrigger ==
  /\ Reading /\ ~speech /\ speech' = TRUE
  /\ stack' = [stack EXCEPT !["adin"] = << Js(OnSpeechStart) >>]
  /\ UNCHANGED <<status, script, file, engine, listener, online, local, stored, segmented>>

\* The next batch of samples.
Batch ==
  /\ Reading /\ local # online /\ local' = online
  /\ UNCHANGED <<stack, status, script, file, engine, listener, online, speech, stored, segmented>>

\* Samples of the segment go to speech[].
Store ==
  /\ Reading /\ speech /\ local /\ ~stored
  /\ stored' = TRUE
  /\ UNCHANGED <<stack, status, script, file, engine, listener, online, local, speech, segmented>>

\* Down trigger.
DownTrigger ==
  /\ Reading /\ speech
  /\ speech' = FALSE /\ online' = FALSE /\ local' = FALSE
  /\ UNCHANGED <<stack, status, script, file, engine, listener, stored, segmented>>

\* The device fails, or the cancellation that j_close_stream asked for takes
\* effect: the thread ends.
DeviceEnd ==
  /\ Reading /\ listener' = 0 /\ speech' = FALSE
  /\ UNCHANGED <<stack, status, script, file, engine, online, local, stored, segmented>>

Step(t) ==
  \/ ScriptEnd(t) \/ TtsInit(t) \/ TtsTalk(t) \/ TtsRetalk(t)
  \/ MakeWav(t) \/ LoadWav(t) \/ PlayEnd(t) \/ RemoveWav(t)
  \/ IrConnect(t) \/ IrSend(t) \/ IrReturn(t) \/ JuliusInit(t) \/ JuliusStart(t)

Loop == Ready \/ Listen \/ SegmentOver \/ Result \/ StreamEnd

Next ==
  \/ \E t \in Threads : Step(t)
  \/ Loop
  \/ UpTrigger \/ Batch \/ Store \/ DownTrigger \/ DeviceEnd

Spec == Init /\ [][Next]_vars

\* Both threads are scheduled, playing ends, and a command returns.
FairSpec == Spec /\ WF_vars(Loop) /\ \A t \in Threads : WF_vars(Step(t))

-----------------------------------------------------------------------------
(* Properties.                                                             *)

\* The file play_wav loads holds the words of the talk that loads it, or
\* nothing, but for two cases: the other thread has written the file since this
\* talk did; or this talk could not open the file (text_to_speech.cpp:181-184),
\* and what it holds is that of a talk the other thread is in, or of an earlier
\* talk or run whose file was not removed (291-294).
TalksItsArgument ==
  \A t \in Threads :
    Runs(t, "talk") /\ Top(t).at = "load" /\ wav \notin {Top(t).text, NoText} =>
      \/ t \notin unopened /\ t \in overtaken
      \/ /\ t \in unopened
         /\ kept \/ \E u \in Threads \ {t} : Runs(u, "talk") /\ wav = Top(u).text

\* The main thread is inside the recognition loop, handling an input of which
\* the mark tells whether it is the last.
Handling(last) ==
  \E k \in DOMAIN stack["main"] :
    LET frame == stack["main"][k]
    IN  frame.kind = "recog" /\ frame.at = "result" /\ frame.last = last


-----------------------------------------------------------------------------
(* What a comment or header says and the code does not guarantee.          *)

\* Only one thread at a time is inside V8 (v8.h), however the callbacks of
\* Julius are spread over its threads.
OneThreadInV8 ==
  Cardinality({t \in Threads : Runs(t, "js")}) <= 1

\* text_to_speech.cpp:296-313: talk and retalk make, play and remove a file of
\* their words.
PlaysOnlyItsOwn ==
  \A t \in Threads : Runs(t, "talk") /\ Top(t).at = "load" => wav \in {Top(t).text, NoText}

\* A method called before init reports that and returns (the initialized()
\* of every exported class): the program survives it.
NoCrash == status # "crash"

\* Speech that begins after the prompt of SPEECH_READY is listened to.
PromptMeansListening ==
  [][~speech /\ speech' /\ (\E k \in DOMAIN stack["main"] : stack["main"][k].kind = "recog" /\ stack["main"][k].at = "open")
     => online]_vars

\* The engine whose loop or A/D-in thread is running has not been freed.
EngineInUse ==
  /\ listener \notin freed
  /\ \A k \in DOMAIN stack["main"] : stack["main"][k].kind = "recog" => stack["main"][k].engine \notin freed
=============================================================================
