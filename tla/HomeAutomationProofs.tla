------------------------ MODULE HomeAutomationProofs ------------------------
(***************************************************************************)
(* For every script, every set of handlers on either thread and every       *)
(* failure of the file: which words a talk can play although all talks go   *)
(* through one file.                                                        *)
(*                                                                         *)
(* The argument: a talk is the innermost frame of its thread, as it calls   *)
(* nothing that comes back to the script, so each thread is in one talk at  *)
(* most.  A file that is there was written by a talk that is still on, or   *)
(* has survived its remove; and what a talk has written stays until it is   *)
(* removed or the other thread writes.                                      *)
(***************************************************************************)
EXTENDS HomeAutomation, SequenceTheorems, TLAPS

\* The kinds of frames.
JsFrames == [kind : {"js"}, code : Seq(Statements)]
TalkFrames == [kind : {"talk"}, at : {"make", "load", "playing", "remove"}, text : Texts]
RecogFrames ==
  [kind : {"recog"}, engine : Engines, at : {"ready", "open", "listen", "result"},
   left : 0..MaxSent, last : BOOLEAN]

\* Every talk is the innermost frame of its thread.
TalkOnTop == \A t \in Threads : \A k \in DOMAIN stack[t] : k > 1 => stack[t][k].kind # "talk"

\* The part of the invariant that is about frames.
StackInv == stack \in [Threads -> Seq(Frames)] /\ TalkOnTop

\* A frame is innermost that is a talk which has been at the file.
Writer(frame) == frame.kind = "talk" /\ frame.at # "make"
PastMake(t) == stack[t] # << >> /\ Writer(Top(t))

\* The file is what thread u wrote for the talk it is in.
Wrote(u) == PastMake(u) /\ u \notin unopened /\ wav = Top(u).text

\* A file that is there has a talk that will remove it, or none did; and a talk
\* finds what it wrote, or nothing, unless the other thread wrote since.
FileInv ==
  /\ wav # NoText => kept \/ \E u \in Threads : Wrote(u)
  /\ \A t \in Threads :
       PastMake(t) /\ t \notin unopened /\ t \notin overtaken => wav \in {Top(t).text, NoText}

\* The types of what is not in the frames.
DataOK ==
  /\ status \in {"run", "crash"}
  /\ tts \in BOOLEAN /\ ir \in BOOLEAN /\ str \in Texts /\ wav \in Texts
  /\ julius \in Engines /\ freed \subseteq Engines \ {0}
  /\ listener \in Engines /\ online \in BOOLEAN /\ local \in BOOLEAN
  /\ speech \in BOOLEAN /\ stored \in BOOLEAN /\ segmented \subseteq Engines
  /\ unopened \subseteq Threads /\ overtaken \subseteq Threads /\ kept \in BOOLEAN

Inv == StackInv /\ DataOK /\ FileInv

\* Frames are told apart by their kind.
LEMMA FrameKinds ==
  /\ \A f \in Frames : f.kind \in {"js", "talk", "ir", "recog"}
  /\ \A f \in Frames : f.kind = "js" => f \in JsFrames
  /\ \A f \in Frames : f.kind = "talk" => f \in TalkFrames
  /\ \A f \in Frames : f.kind = "recog" => f \in RecogFrames
  /\ JsFrames \subseteq Frames /\ TalkFrames \subseteq Frames /\ RecogFrames \subseteq Frames
  /\ Ir \in Frames
BY DEF Frames, JsFrames, TalkFrames, RecogFrames, Ir

\* The handlers are code.
LEMMA HandlersAreCode ==
  {Script, OnSpeechReady, OnSpeechStart, OnResult} \subseteq Seq(Statements)
BY ScriptAssumption

\* A stack whose innermost frames were exchanged.
LEMMA Exchanged ==
  ASSUME NEW F, NEW s \in Seq(F), s # << >>, NEW f \in F, NEW g \in F
  PROVE  /\ Tail(s) \in Seq(F) /\ Head(s) \in F
         /\ \A k \in DOMAIN Tail(s) : k + 1 \in DOMAIN s /\ Tail(s)[k] = s[k + 1] /\ k >= 1
         /\ << f >> \o Tail(s) \in Seq(F)
         /\ (<< f >> \o Tail(s))[1] = f /\ << f >> \o Tail(s) # << >>
         /\ Head(<< f >> \o Tail(s)) = f
         /\ \A k \in DOMAIN (<< f >> \o Tail(s)) :
              k = 1 \/ (k > 1 /\ k \in DOMAIN s /\ (<< f >> \o Tail(s))[k] = s[k])
         /\ << f, g >> \o Tail(s) \in Seq(F)
         /\ (<< f, g >> \o Tail(s))[1] = f /\ (<< f, g >> \o Tail(s))[2] = g
         /\ << f, g >> \o Tail(s) # << >> /\ Head(<< f, g >> \o Tail(s)) = f
         /\ \A k \in DOMAIN (<< f, g >> \o Tail(s)) :
              \/ k = 1 \/ k = 2
              \/ k > 2 /\ k - 1 > 1 /\ k - 1 \in DOMAIN s /\ (<< f, g >> \o Tail(s))[k] = s[k - 1]
<1> DEFINE n == Len(s)
           t == Tail(s)
<1>1. n \in Nat \ {0} /\ DOMAIN s = 1..n
  OBVIOUS
<1>2. t \in Seq(F) /\ Head(s) \in F /\ Len(t) = n - 1 /\ DOMAIN t = 1..n - 1
      /\ \A k \in 1..n - 1 : t[k] = s[k + 1]
  BY <1>1
<1>3. << f >> \in Seq(F) /\ Len(<< f >>) = 1 /\ << f >>[1] = f
  OBVIOUS
<1>4. << f, g >> \in Seq(F) /\ Len(<< f, g >>) = 2 /\ << f, g >>[1] = f /\ << f, g >>[2] = g
  OBVIOUS
<1> HIDE DEF t
<1>5. /\ << f >> \o t \in Seq(F) /\ Len(<< f >> \o t) = n
      /\ \A k \in 1..n : (<< f >> \o t)[k] = IF k <= 1 THEN f ELSE t[k - 1]
  <2>1. /\ << f >> \o t \in Seq(F) /\ Len(<< f >> \o t) = Len(<< f >>) + Len(t)
        /\ \A k \in 1..Len(<< f >>) + Len(t) : (<< f >> \o t)[k] =
             IF k <= Len(<< f >>) THEN << f >>[k] ELSE t[k - Len(<< f >>)]
    BY <1>2, <1>3, ConcatProperties
  <2>2. Len(<< f >>) + Len(t) = n /\ n \in Nat
    BY <1>1, <1>2, <1>3
  <2>3. ASSUME NEW k \in 1..n
        PROVE  (<< f >> \o t)[k] = IF k <= 1 THEN f ELSE t[k - 1]
    <3>1. (<< f >> \o t)[k] = IF k <= 1 THEN << f >>[k] ELSE t[k - 1]
      BY <1>3, <2>1, <2>2
    <3>2. k <= 1 => k = 1
      BY <2>2
    <3> QED
      BY <1>3, <3>1, <3>2
  <2> QED
    BY <2>1, <2>2, <2>3
<1>6. /\ << f, g >> \o t \in Seq(F) /\ Len(<< f, g >> \o t) = n + 1
      /\ \A k \in 1..n + 1 :
           (<< f, g >> \o t)[k] = IF k = 1 THEN f ELSE IF k = 2 THEN g ELSE t[k - 2]
  <2>1. /\ << f, g >> \o t \in Seq(F) /\ Len(<< f, g >> \o t) = Len(<< f, g >>) + Len(t)
        /\ \A k \in 1..Len(<< f, g >>) + Len(t) : (<< f, g >> \o t)[k] =
             IF k <= Len(<< f, g >>) THEN << f, g >>[k] ELSE t[k - Len(<< f, g >>)]
    BY <1>2, <1>4, ConcatProperties
  <2> QED
    BY <1>1, <1>2, <1>4, <2>1
<1>7. \A k \in DOMAIN t : k + 1 \in DOMAIN s /\ t[k] = s[k + 1] /\ k >= 1
  BY <1>1, <1>2
<1>8. /\ (<< f >> \o t)[1] = f /\ << f >> \o t # << >> /\ Head(<< f >> \o t) = f
      /\ \A k \in DOMAIN (<< f >> \o t) :
           k = 1 \/ (k > 1 /\ k \in DOMAIN s /\ (<< f >> \o t)[k] = s[k])
  BY <1>1, <1>2, <1>5
<1>9. /\ (<< f, g >> \o t)[1] = f /\ (<< f, g >> \o t)[2] = g
      /\ << f, g >> \o t # << >> /\ Head(<< f, g >> \o t) = f
      /\ \A k \in DOMAIN (<< f, g >> \o t) :
           \/ k = 1 \/ k = 2
           \/ k > 2 /\ k - 1 > 1 /\ k - 1 \in DOMAIN s /\ (<< f, g >> \o t)[k] = s[k - 1]
  BY <1>1, <1>2, <1>6
<1> QED
  BY <1>2, <1>5, <1>6, <1>7, <1>8, <1>9 DEF t

-----------------------------------------------------------------------------
(* What the actions do to the frames of a thread.                          *)

\* The innermost frame is left; the next one is no talk.
LEMMA Popped ==
  ASSUME StackInv, NEW t \in Threads, stack[t] # << >>, stack' = Pop(t)
  PROVE  /\ StackInv' /\ ~PastMake(t)'
         /\ \A u \in Threads \ {t} : stack'[u] = stack[u]
<1> USE DEF StackInv
<1>1. stack' = [stack EXCEPT ![t] = Tail(@)] /\ stack[t] \in Seq(Frames)
  BY DEF Pop
<1>2. /\ Tail(stack[t]) \in Seq(Frames)
      /\ \A k \in DOMAIN Tail(stack[t]) :
           k + 1 \in DOMAIN stack[t] /\ Tail(stack[t])[k] = stack[t][k + 1] /\ k >= 1
  <2>1. Ir \in Frames
    BY FrameKinds
  <2> QED
    BY <1>1, <2>1, Exchanged
<1>3. stack' \in [Threads -> Seq(Frames)] /\ stack'[t] = Tail(stack[t])
  BY <1>1, <1>2
<1>4. ASSUME NEW k \in DOMAIN stack'[t] PROVE stack'[t][k].kind # "talk"
  <2>1. k + 1 \in DOMAIN stack[t] /\ stack'[t][k] = stack[t][k + 1] /\ k >= 1
    BY <1>2, <1>3
  <2>2. k \in Nat
    BY <1>3
  <2> QED
    BY <2>1, <2>2 DEF TalkOnTop
<1>5. TalkOnTop'
  BY <1>1, <1>4 DEF TalkOnTop
<1>6. ~PastMake(t)'
  <2>1. stack'[t] # << >> => 1 \in DOMAIN stack'[t] /\ Head(stack'[t]) = stack'[t][1]
    BY <1>3
  <2> QED
    BY <1>4, <2>1 DEF PastMake, Writer, Top
<1> QED
  BY <1>1, <1>3, <1>5, <1>6

\* The innermost frame goes on as f.
LEMMA Replaced ==
  ASSUME StackInv, NEW t \in Threads, stack[t] # << >>, NEW f \in Frames, stack' = Replace(t, f)
  PROVE  /\ StackInv'
         /\ stack'[t] # << >> /\ Head(stack'[t]) = f
         /\ \A u \in Threads \ {t} : stack'[u] = stack[u]
<1> USE DEF StackInv
<1>1. stack' = [stack EXCEPT ![t] = << f >> \o Tail(@)] /\ stack[t] \in Seq(Frames)
  BY DEF Replace
<1>2. /\ << f >> \o Tail(stack[t]) \in Seq(Frames)
      /\ (<< f >> \o Tail(stack[t]))[1] = f /\ << f >> \o Tail(stack[t]) # << >>
      /\ Head(<< f >> \o Tail(stack[t])) = f
      /\ \A k \in DOMAIN (<< f >> \o Tail(stack[t])) :
           k = 1 \/ (k > 1 /\ k \in DOMAIN stack[t] /\ (<< f >> \o Tail(stack[t]))[k] = stack[t][k])
  BY <1>1, Exchanged
<1>3. stack'[t] = << f >> \o Tail(stack[t]) /\ \A u \in Threads \ {t} : stack'[u] = stack[u]
  BY <1>1
<1>4. stack' \in [Threads -> Seq(Frames)]
  BY <1>1, <1>2
<1>5. TalkOnTop'
  <2> SUFFICES ASSUME NEW u \in Threads, NEW k \in DOMAIN stack'[u], k > 1
               PROVE  stack'[u][k].kind # "talk"
    BY DEF TalkOnTop
  <2>1. CASE u = t
    BY <1>2, <1>3, <2>1 DEF TalkOnTop
  <2>2. CASE u # t
    BY <1>3, <2>2 DEF TalkOnTop
  <2> QED
    BY <2>1, <2>2
<1> QED
  BY <1>2, <1>3, <1>4, <1>5

\* The innermost frame goes on as g, which has called f.
LEMMA Entered ==
  ASSUME StackInv, NEW t \in Threads, stack[t] # << >>, NEW f \in Frames, NEW g \in Frames,
         g.kind # "talk", stack' = [stack EXCEPT ![t] = << f, g >> \o Tail(@)]
  PROVE  /\ StackInv'
         /\ stack'[t] # << >> /\ Head(stack'[t]) = f
         /\ \A u \in Threads \ {t} : stack'[u] = stack[u]
<1> USE DEF StackInv
<1> DEFINE s == << f, g >> \o Tail(stack[t])
<1>1. stack[t] \in Seq(Frames)
  OBVIOUS
<1>2. /\ s \in Seq(Frames) /\ s[1] = f /\ s[2] = g /\ s # << >> /\ Head(s) = f
      /\ \A k \in DOMAIN s :
           \/ k = 1 \/ k = 2
           \/ k > 2 /\ k - 1 > 1 /\ k - 1 \in DOMAIN stack[t] /\ s[k] = stack[t][k - 1]
  BY <1>1, Exchanged
<1>3. stack'[t] = s /\ \A u \in Threads \ {t} : stack'[u] = stack[u]
  OBVIOUS
<1> HIDE DEF s
<1>4. stack' \in [Threads -> Seq(Frames)]
  BY <1>2, <1>3
<1>5. TalkOnTop'
  <2> SUFFICES ASSUME NEW u \in Threads, NEW k \in DOMAIN stack'[u], k > 1
               PROVE  stack'[u][k].kind # "talk"
    BY DEF TalkOnTop
  <2>1. CASE u = t
    BY <1>2, <1>3, <2>1 DEF TalkOnTop
  <2>2. CASE u # t
    BY <1>3, <2>2 DEF TalkOnTop
  <2> QED
    BY <2>1, <2>2
<1> QED
  BY <1>2, <1>3, <1>4, <1>5

-----------------------------------------------------------------------------
(* Steps of a thread, by the kind of its innermost frame.                  *)

\* The innermost frame of a thread that runs.
LEMMA TopShape ==
  ASSUME StackInv, NEW t \in Threads, NEW kind, Runs(t, kind)
  PROVE  stack[t] # << >> /\ Top(t) \in Frames /\ Top(t).kind = kind
<1>1. stack[t] \in Seq(Frames) /\ stack[t] # << >>
  BY DEF StackInv, Runs
<1>2. Head(stack[t]) \in Frames
  BY <1>1
<1> QED
  BY <1>1, <1>2 DEF Top, Runs

\* Nothing happens to the file while the talks that were at it stay.
LEMMA FileKept ==
  ASSUME FileInv, UNCHANGED file,
         \A t \in Threads : PastMake(t)' <=> PastMake(t),
         \A t \in Threads : PastMake(t) => Top(t)'.text = Top(t).text
  PROVE  FileInv'
<1>1. wav' = wav /\ kept' = kept /\ unopened' = unopened /\ overtaken' = overtaken
  BY DEF file
<1>2. \A u \in Threads : Wrote(u) => Wrote(u)'
  BY <1>1 DEF Wrote
<1> QED
  BY <1>1, <1>2 DEF FileInv

\* The frame of one thread changes, which is no talk at the file, before or
\* after.
LEMMA FileUntouched ==
  ASSUME FileInv, UNCHANGED file, NEW t \in Threads, ~PastMake(t), ~PastMake(t)',
         \A u \in Threads \ {t} : stack'[u] = stack[u]
  PROVE  FileInv'
<1>1. \A u \in Threads : PastMake(u)' <=> PastMake(u)
  BY DEF PastMake, Top
<1>2. \A u \in Threads : PastMake(u) => Top(u)'.text = Top(u).text
  BY DEF PastMake, Top
<1> QED
  BY <1>1, <1>2, FileKept

LEMMA StackKept ==
  ASSUME StackInv, FileInv, UNCHANGED <<stack, file>>
  PROVE  StackInv' /\ FileInv'
<1>1. StackInv'
  BY DEF StackInv, TalkOnTop
<1>2. \A u \in Threads : PastMake(u)' <=> PastMake(u)
  BY DEF PastMake, Top
<1>3. \A u \in Threads : PastMake(u) => Top(u)'.text = Top(u).text
  BY DEF PastMake, Top
<1> QED
  BY <1>1, <1>2, <1>3, FileKept

\* What follows from being at a statement.
LEMMA AtStatement ==
  ASSUME StackInv, NEW t \in Threads, NEW statement, At(t, statement)
  PROVE  /\ stack[t] # << >> /\ ~PastMake(t)
         /\ Js(Tail(Top(t).code)) \in JsFrames
<1> DEFINE code == Top(t).code
<1>1. stack[t] # << >> /\ Top(t) \in Frames /\ Top(t).kind = "js"
  BY TopShape DEF At
<1>2. code \in Seq(Statements) /\ code # << >>
  BY <1>1, FrameKinds DEF At, JsFrames
<1> HIDE DEF code
<1>3. Tail(code) \in Seq(Statements)
  BY <1>2
<1> QED
  BY <1>1, <1>3 DEF code, Js, JsFrames, PastMake, Writer

\* A statement that calls nothing.
LEMMA StatementDone ==
  ASSUME Inv, NEW t \in Threads, NEW statement, At(t, statement),
         stack' = Done(t), UNCHANGED file, DataOK'
  PROVE  Inv'
<1>1. StackInv /\ FileInv
  BY DEF Inv
<1> DEFINE g == Js(Tail(Top(t).code))
<1>2. stack[t] # << >> /\ ~PastMake(t) /\ g \in JsFrames /\ g.kind = "js"
  BY <1>1, AtStatement DEF Js
<1>3. stack' = Replace(t, g) /\ g \in Frames
  BY <1>2, FrameKinds DEF Done
<1> HIDE DEF g
<1>4. /\ StackInv' /\ stack'[t] # << >> /\ Head(stack'[t]) = g
      /\ \A u \in Threads \ {t} : stack'[u] = stack[u]
  BY <1>1, <1>2, <1>3, Replaced
<1>5. ~PastMake(t)'
  BY <1>2, <1>4 DEF PastMake, Writer, Top
<1> QED
  BY <1>1, <1>2, <1>4, <1>5, FileUntouched DEF Inv

\* A statement that calls into f.
LEMMA StatementInto ==
  ASSUME Inv, NEW t \in Threads, NEW statement, At(t, statement),
         NEW f \in Frames, ~Writer(f),
         stack' = Into(t, f), UNCHANGED file, DataOK'
  PROVE  Inv'
<1>1. StackInv /\ FileInv
  BY DEF Inv
<1> DEFINE g == Js(Tail(Top(t).code))
<1>2. stack[t] # << >> /\ ~PastMake(t) /\ g \in JsFrames /\ g.kind # "talk"
  BY <1>1, AtStatement DEF Js
<1>3. stack' = [stack EXCEPT ![t] = << f, g >> \o Tail(@)] /\ g \in Frames
  BY <1>2, FrameKinds DEF Into
<1> HIDE DEF g
<1>4. /\ StackInv' /\ stack'[t] # << >> /\ Head(stack'[t]) = f
      /\ \A u \in Threads \ {t} : stack'[u] = stack[u]
  BY <1>1, <1>2, <1>3, Entered
<1>5. ~PastMake(t)'
  BY <1>4 DEF PastMake, Top
<1> QED
  BY <1>1, <1>2, <1>4, <1>5, FileUntouched DEF Inv

-----------------------------------------------------------------------------
(* The actions.                                                            *)

\* Statements of the script.
LEMMA ScriptSteps ==
  ASSUME Inv, NEW t \in Threads,
         \/ ScriptEnd(t) \/ TtsInit(t) \/ TtsTalk(t) \/ TtsRetalk(t)
         \/ IrConnect(t) \/ IrSend(t) \/ JuliusInit(t) \/ JuliusStart(t)
  PROVE  Inv'
<1>1. StackInv /\ DataOK /\ FileInv
  BY DEF Inv
<1>2. CASE ScriptEnd(t)
  <2>1. /\ stack[t] # << >> /\ Top(t).kind = "js" /\ stack' = Pop(t) /\ UNCHANGED file /\ DataOK'
    BY <1>1, <1>2, TopShape DEF ScriptEnd, script, file, engine, audio, DataOK
  <2>2. ~PastMake(t)
    BY <2>1 DEF PastMake, Writer
  <2>3. StackInv' /\ ~PastMake(t)' /\ \A u \in Threads \ {t} : stack'[u] = stack[u]
    BY <1>1, <2>1, Popped
  <2> QED
    BY <1>1, <2>1, <2>2, <2>3, FileUntouched DEF Inv
<1>3. CASE TtsInit(t)
  <2>1. At(t, "tts_init") /\ stack' = Done(t) /\ UNCHANGED file
    BY <1>3 DEF TtsInit
  <2>2. NoText \in Texts
    BY DEF Texts
  <2>3. DataOK'
    BY <1>1, <1>3, <2>2 DEF TtsInit, file, engine, audio, DataOK
  <2> QED
    BY <2>1, <2>3, StatementDone
<1>4. CASE TtsTalk(t)
  <2>1. At(t, "talk") /\ UNCHANGED file
    BY <1>4 DEF TtsTalk
  <2>2. CASE ~tts
    <3>1. stack' = Done(t) /\ DataOK'
      BY <1>1, <1>4, <2>2 DEF TtsTalk, file, engine, audio, DataOK
    <3> QED
      BY <2>1, <3>1, StatementDone
  <2>3. CASE tts
    <3>1. PICK text \in Words : str' = text /\ stack' = Into(t, Talk(text))
      BY <1>4, <2>3 DEF TtsTalk
    <3>2. text \in Texts
      BY DEF Texts
    <3>3. DataOK'
      BY <1>1, <1>4, <3>1, <3>2 DEF TtsTalk, file, engine, audio, DataOK
    <3>4. Talk(text) \in Frames /\ ~Writer(Talk(text))
      BY <3>2, FrameKinds DEF Talk, TalkFrames, Writer
    <3> QED
      BY <2>1, <3>1, <3>3, <3>4, StatementInto
  <2> QED
    BY <2>2, <2>3
<1>5. CASE TtsRetalk(t)
  <2>1. At(t, "retalk") /\ UNCHANGED file
    BY <1>5 DEF TtsRetalk
  <2>2. DataOK'
    BY <1>1, <1>5 DEF TtsRetalk, script, file, engine, audio, DataOK
  <2>3. Talk(str) \in Frames /\ ~Writer(Talk(str))
    BY <1>1, FrameKinds DEF Talk, TalkFrames, Writer, DataOK
  <2>4. stack' = Into(t, Talk(str)) \/ stack' = Done(t)
    BY <1>5 DEF TtsRetalk
  <2> QED
    BY <2>1, <2>2, <2>3, <2>4, StatementDone, StatementInto
<1>6. CASE IrConnect(t)
  <2>1. At(t, "ir_connect") /\ stack' = Done(t) /\ UNCHANGED file
    BY <1>6 DEF IrConnect
  <2>2. DataOK'
    BY <1>1, <1>6 DEF IrConnect, file, engine, audio, DataOK
  <2> QED
    BY <2>1, <2>2, StatementDone
<1>7. CASE IrSend(t)
  <2>1. At(t, "ir_send") /\ UNCHANGED file
    BY <1>7 DEF IrSend
  <2>2. DataOK'
    BY <1>1, <1>7 DEF IrSend, script, file, engine, audio, DataOK
  <2>3. Ir \in Frames /\ ~Writer(Ir)
    BY FrameKinds DEF Writer, Ir
  <2>4. stack' = Into(t, Ir) \/ stack' = Done(t)
    BY <1>7 DEF IrSend
  <2> QED
    BY <2>1, <2>2, <2>3, <2>4, StatementDone, StatementInto
<1>8. CASE JuliusInit(t)
  <2>1. At(t, "julius_init") /\ stack' = Done(t) /\ UNCHANGED file
    BY <1>8 DEF JuliusInit
  <2>2. julius' \in Engines /\ freed' \subseteq Engines \ {0}
    BY <1>1, <1>8 DEF JuliusInit, DataOK
  <2>3. DataOK'
    BY <1>1, <1>8, <2>2 DEF JuliusInit, script, file, audio, DataOK
  <2> QED
    BY <2>1, <2>3, StatementDone
<1>9. CASE JuliusStart(t)
  <2>1. At(t, "julius_start") /\ UNCHANGED file
    BY <1>9 DEF JuliusStart
  <2>2. DataOK'
    BY <1>1, <1>9 DEF JuliusStart, script, file, engine, DataOK
  <2>3. Recog(julius) \in Frames /\ ~Writer(Recog(julius))
    <3>1. Recog(julius) \in RecogFrames
      BY <1>1, ScriptAssumption DEF Recog, RecogFrames, DataOK
    <3> QED
      BY <3>1, FrameKinds DEF Writer, RecogFrames
  <2>4. CASE stack' = Into(t, Recog(julius)) \/ stack' = Done(t)
    BY <2>1, <2>2, <2>3, <2>4, StatementDone, StatementInto
  <2>5. CASE UNCHANGED stack
    BY <1>1, <2>1, <2>2, <2>5, StackKept DEF Inv
  <2> QED
    BY <1>9, <2>4, <2>5 DEF JuliusStart
<1> QED
  BY <1>2, <1>3, <1>4, <1>5, <1>6, <1>7, <1>8, <1>9

\* The phases of a talk.
LEMMA TalkSteps ==
  ASSUME Inv, NEW t \in Threads, MakeWav(t) \/ LoadWav(t) \/ PlayEnd(t) \/ RemoveWav(t)
  PROVE  Inv'
<1>1. StackInv /\ DataOK /\ FileInv
  BY DEF Inv
<1>2. Runs(t, "talk")
  BY DEF MakeWav, LoadWav, PlayEnd, RemoveWav
<1>3. stack[t] # << >> /\ Top(t) \in TalkFrames /\ Top(t).kind = "talk" /\ Top(t).text \in Texts
  BY <1>1, <1>2, TopShape, FrameKinds DEF TalkFrames
<1>4. ASSUME NEW phase \in {"load", "playing", "remove"}, stack' = NextPhase(t, phase)
      PROVE  /\ StackInv' /\ PastMake(t)' /\ Top(t)'.text = Top(t).text
             /\ \A u \in Threads \ {t} : stack'[u] = stack[u]
  <2> DEFINE f == [Top(t) EXCEPT !.at = phase]
  <2>1. f \in TalkFrames /\ f.kind = "talk" /\ f.at = phase /\ f.text = Top(t).text
    BY <1>3 DEF TalkFrames
  <2>2. f \in Frames /\ stack' = Replace(t, f)
    BY <1>4, <2>1, FrameKinds DEF NextPhase
  <2> HIDE DEF f
  <2>3. /\ StackInv' /\ stack'[t] # << >> /\ Head(stack'[t]) = f
        /\ \A u \in Threads \ {t} : stack'[u] = stack[u]
    BY <1>1, <1>3, <2>2, Replaced
  <2> QED
    BY <2>1, <2>3 DEF Top, PastMake, Writer
<1>5. CASE MakeWav(t)
  <2>1. stack' = NextPhase(t, "load") /\ UNCHANGED <<status, script, engine, audio>> /\ ~PastMake(t)
    BY <1>5 DEF MakeWav, PastMake, Writer
  <2>2. /\ StackInv' /\ PastMake(t)' /\ Top(t)'.text = Top(t).text
        /\ \A u \in Threads \ {t} : stack'[u] = stack[u]
    BY <1>4, <2>1
  <2>3. CASE /\ unopened' = unopened \cup {t} /\ overtaken' = overtaken \ {t}
             /\ UNCHANGED <<wav, kept>>
    <3>1. DataOK'
      BY <1>1, <2>1, <2>3 DEF script, engine, audio, DataOK
    <3>2. \A u \in Threads : Wrote(u) => Wrote(u)'
      BY <2>1, <2>2, <2>3 DEF Wrote, PastMake, Top
    <3>3. ASSUME NEW u \in Threads, PastMake(u)', u \notin unopened', u \notin overtaken'
          PROVE  wav' \in {Top(u)'.text, NoText}
      <4>1. u # t /\ u \notin unopened /\ u \notin overtaken
        BY <2>3, <3>3
      <4>2. PastMake(u) /\ Top(u)' = Top(u)
        BY <2>2, <3>3, <4>1 DEF PastMake, Top
      <4> QED
        BY <1>1, <2>3, <4>1, <4>2 DEF FileInv
    <3>4. FileInv'
      BY <1>1, <2>3, <3>2, <3>3 DEF FileInv
    <3> QED
      BY <2>2, <3>1, <3>4 DEF Inv
  <2>4. CASE /\ wav' \in {Top(t).text, NoText} /\ kept' = FALSE
             /\ unopened' = unopened \ {t} /\ overtaken' = Threads \ {t}
    <3>1. DataOK'
      BY <1>1, <1>3, <2>1, <2>4 DEF script, engine, audio, DataOK, Texts
    <3>2. wav' # NoText => Wrote(t)'
      BY <2>2, <2>4 DEF Wrote
    <3>3. \A u \in Threads : u \notin overtaken' => u = t
      BY <2>4
    <3>4. FileInv'
      BY <2>2, <2>4, <3>2, <3>3 DEF FileInv
    <3> QED
      BY <2>2, <3>1, <3>4 DEF Inv
  <2> QED
    BY <1>5, <2>3, <2>4 DEF MakeWav
<1>6. CASE LoadWav(t) \/ PlayEnd(t)
  <2>1. /\ UNCHANGED file /\ PastMake(t)
        /\ stack' = NextPhase(t, "playing") \/ stack' = NextPhase(t, "remove")
    BY <1>3, <1>6 DEF LoadWav, PlayEnd, PastMake, Writer
  <2>2. DataOK'
    BY <1>1, <1>6 DEF LoadWav, PlayEnd, script, file, engine, audio, DataOK
  <2>3. /\ StackInv' /\ PastMake(t)' /\ Top(t)'.text = Top(t).text
        /\ \A u \in Threads \ {t} : stack'[u] = stack[u]
    BY <1>4, <2>1
  <2>4. \A u \in Threads : PastMake(u)' <=> PastMake(u)
    BY <2>1, <2>3 DEF PastMake, Top
  <2>5. \A u \in Threads : PastMake(u) => Top(u)'.text = Top(u).text
    BY <2>3 DEF Top
  <2> QED
    BY <1>1, <2>1, <2>2, <2>3, <2>4, <2>5, FileKept DEF Inv
<1>7. CASE RemoveWav(t)
  <2>1. /\ wav' \in {wav, NoText} /\ kept' = (wav' # NoText) /\ stack' = Pop(t)
        /\ UNCHANGED <<status, script, unopened, overtaken, engine, audio>>
    BY <1>7 DEF RemoveWav
  <2>2. DataOK'
    BY <1>1, <2>1 DEF script, engine, audio, DataOK, Texts
  <2>3. StackInv' /\ ~PastMake(t)' /\ \A u \in Threads \ {t} : stack'[u] = stack[u]
    BY <1>1, <1>3, <2>1, Popped
  <2>4. ASSUME NEW u \in Threads, PastMake(u)', u \notin unopened', u \notin overtaken'
        PROVE  wav' \in {Top(u)'.text, NoText}
    <3>1. PastMake(u) /\ Top(u)' = Top(u) /\ u \notin unopened /\ u \notin overtaken
      BY <2>1, <2>3, <2>4 DEF PastMake, Top
    <3> QED
      BY <1>1, <2>1, <3>1 DEF FileInv
  <2>5. FileInv'
    BY <2>1, <2>4 DEF FileInv
  <2> QED
    BY <2>2, <2>3, <2>5 DEF Inv
<1> QED
  BY <1>5, <1>6, <1>7

\* A command returns.
LEMMA IrSteps ==
  ASSUME Inv, NEW t \in Threads, IrReturn(t)
  PROVE  Inv'
<1>1. StackInv /\ DataOK /\ FileInv
  BY DEF Inv
<1>2. /\ stack[t] # << >> /\ Top(t).kind = "ir" /\ stack' = Pop(t) /\ UNCHANGED file
  BY <1>1, TopShape DEF IrReturn
<1>3. DataOK'
  BY <1>1 DEF IrReturn, script, file, engine, audio, DataOK
<1>4. StackInv' /\ ~PastMake(t)' /\ \A u \in Threads \ {t} : stack'[u] = stack[u]
  BY <1>1, <1>2, Popped
<1>5. ~PastMake(t)
  BY <1>2 DEF PastMake, Writer
<1> QED
  BY <1>1, <1>2, <1>3, <1>4, <1>5, FileUntouched DEF Inv

\* The recognition loop, whose frame is on top of the main thread.
LEMMA LoopSteps ==
  ASSUME Inv, Loop
  PROVE  Inv'
<1>1. StackInv /\ DataOK /\ FileInv
  BY DEF Inv
<1> DEFINE top == Top("main")
<1>2. Runs("main", "recog") /\ UNCHANGED file
  BY DEF Loop, Ready, Listen, SegmentOver, Result, StreamEnd, InputEnds
<1>3. /\ stack["main"] # << >> /\ top \in RecogFrames /\ top.kind = "recog"
      /\ "main" \in Threads /\ ~PastMake("main")
  <2>1. "main" \in Threads
    BY DEF Threads
  <2>2. stack["main"] # << >> /\ top \in RecogFrames /\ top.kind = "recog"
    BY <1>1, <1>2, <2>1, TopShape, FrameKinds
  <2> QED
    BY <2>1, <2>2 DEF PastMake, Writer
<1> HIDE DEF top
<1>4. ASSUME NEW f \in RecogFrames, stack' = Replace("main", f) PROVE StackInv' /\ FileInv'
  <2>1. f \in Frames /\ ~Writer(f)
    BY FrameKinds DEF Writer, RecogFrames
  <2>2. /\ StackInv' /\ stack'["main"] # << >> /\ Head(stack'["main"]) = f
        /\ \A u \in Threads \ {"main"} : stack'[u] = stack[u]
    BY <1>1, <1>3, <1>4, <2>1, Replaced
  <2>3. ~PastMake("main")'
    BY <2>1, <2>2 DEF PastMake, Top
  <2> QED
    BY <1>1, <1>2, <1>3, <2>2, <2>3, FileUntouched
<1>5. ASSUME NEW code \in Seq(Statements), NEW f \in RecogFrames,
             stack' = [stack EXCEPT !["main"] = << Js(code), f >> \o Tail(@)]
      PROVE  StackInv' /\ FileInv'
  <2>1. Js(code) \in Frames /\ f \in Frames /\ f.kind # "talk" /\ ~Writer(Js(code))
    BY FrameKinds DEF Js, JsFrames, RecogFrames, Writer
  <2>2. /\ StackInv' /\ stack'["main"] # << >> /\ Head(stack'["main"]) = Js(code)
        /\ \A u \in Threads \ {"main"} : stack'[u] = stack[u]
    BY <1>1, <1>3, <1>5, <2>1, Entered
  <2>3. ~PastMake("main")'
    BY <2>1, <2>2 DEF PastMake, Top
  <2> QED
    BY <1>1, <1>2, <1>3, <2>2, <2>3, FileUntouched
<1>6. CASE Ready
  <2>1. stack' = [stack EXCEPT !["main"] = << Js(OnSpeechReady), [top EXCEPT !.at = "open"] >> \o Tail(@)]
    BY <1>6 DEF Ready, top
  <2>2. [top EXCEPT !.at = "open"] \in RecogFrames
    BY <1>3 DEF RecogFrames
  <2>3. DataOK'
    BY <1>1, <1>6 DEF Ready, script, file, engine, audio, DataOK
  <2> QED
    BY <1>5, <2>1, <2>2, <2>3, HandlersAreCode DEF Inv
<1>7. CASE Listen
  <2>1. stack' = Replace("main", [top EXCEPT !.at = "listen"])
    BY <1>7 DEF Listen, top
  <2>2. [top EXCEPT !.at = "listen"] \in RecogFrames
    BY <1>3 DEF RecogFrames
  <2>3. DataOK'
    BY <1>1, <1>7 DEF Listen, script, file, engine, DataOK
  <2> QED
    BY <1>4, <2>1, <2>2, <2>3 DEF Inv
<1>8. CASE SegmentOver \/ StreamEnd
  <2>1. PICK last \in BOOLEAN : InputEnds(last)
    BY <1>8 DEF SegmentOver, StreamEnd
  <2>2. PICK n \in 0..MaxSent :
          /\ stack' = Replace("main", [top EXCEPT !.at = "result", !.left = n, !.last = last])
          /\ segmented' \in {segmented \cup {top.engine}, segmented \ {top.engine}, segmented}
    BY <2>1 DEF InputEnds, top
  <2>3. [top EXCEPT !.at = "result", !.left = n, !.last = last] \in RecogFrames
    BY <1>3 DEF RecogFrames
  <2>4. top.engine \in Engines
    BY <1>3 DEF RecogFrames
  <2>5. segmented' \subseteq Engines
    BY <1>1, <2>2, <2>4 DEF DataOK
  <2>6. DataOK'
    BY <1>1, <2>1, <2>5 DEF InputEnds, script, file, engine, DataOK
  <2> QED
    BY <1>4, <2>2, <2>3, <2>6 DEF Inv
<1>9. CASE Result
  <2>1. DataOK'
    BY <1>1, <1>9 DEF Result, script, file, engine, audio, DataOK
  <2>2. CASE stack' = Replace("main", [top EXCEPT !.at = "ready"])
    <3>1. [top EXCEPT !.at = "ready"] \in RecogFrames
      BY <1>3 DEF RecogFrames
    <3> QED
      BY <1>4, <2>1, <2>2, <3>1 DEF Inv
  <2>3. CASE /\ top.left > 0
             /\ stack' = [stack EXCEPT !["main"] = << Js(OnResult), [top EXCEPT !.left = @ - 1] >> \o Tail(@)]
    <3>1. top.left - 1 \in 0..MaxSent
      BY <1>3, <2>3, ScriptAssumption DEF RecogFrames
    <3>2. [top EXCEPT !.left = @ - 1] \in RecogFrames
      BY <1>3, <3>1 DEF RecogFrames
    <3> QED
      BY <1>5, <2>1, <2>3, <3>2, HandlersAreCode DEF Inv
  <2>4. CASE stack' = Pop("main")
    <3>1. StackInv' /\ ~PastMake("main")' /\ \A u \in Threads \ {"main"} : stack'[u] = stack[u]
      BY <1>1, <1>3, <2>4, Popped
    <3> QED
      BY <1>1, <1>2, <1>3, <2>1, <3>1, FileUntouched DEF Inv
  <2> QED
    BY <1>9, <2>2, <2>3, <2>4 DEF Result, top
<1> QED
  BY <1>6, <1>7, <1>8, <1>9 DEF Loop

\* The A/D-in thread outside its callbacks, and the start of one.
LEMMA AudioSteps ==
  ASSUME Inv, UpTrigger \/ Batch \/ Store \/ DownTrigger \/ DeviceEnd
  PROVE  Inv'
<1>1. StackInv /\ DataOK /\ FileInv /\ UNCHANGED file
  BY DEF Inv, UpTrigger, Batch, Store, DownTrigger, DeviceEnd
<1>2. DataOK'
  <2>1. 0 \in Engines
    BY ScriptAssumption DEF Engines
  <2>2. CASE UpTrigger
    BY <1>1, <2>2 DEF UpTrigger, script, file, engine, DataOK
  <2>3. CASE Batch \/ Store \/ DownTrigger
    BY <1>1, <2>3 DEF Batch, Store, DownTrigger, script, file, engine, DataOK
  <2>4. CASE DeviceEnd
    BY <1>1, <2>1, <2>4 DEF DeviceEnd, script, file, engine, DataOK
  <2> QED
    BY <2>2, <2>3, <2>4
<1>3. CASE UpTrigger
  <2>1. stack' = [stack EXCEPT !["adin"] = << Js(OnSpeechStart) >>] /\ stack["adin"] = << >>
    BY <1>3 DEF UpTrigger, Reading
  <2>2. Js(OnSpeechStart) \in Frames /\ Js(OnSpeechStart).kind = "js"
    BY HandlersAreCode, FrameKinds DEF Js, JsFrames
  <2>3. /\ << Js(OnSpeechStart) >> \in Seq(Frames) /\ DOMAIN << Js(OnSpeechStart) >> = 1..1
        /\ Head(<< Js(OnSpeechStart) >>) = Js(OnSpeechStart)
    BY <2>2
  <2>4. /\ stack' \in [Threads -> Seq(Frames)]
        /\ stack'["adin"] = << Js(OnSpeechStart) >> /\ stack'["main"] = stack["main"]
    BY <1>1, <2>1, <2>3 DEF StackInv, Threads
  <2>5. TalkOnTop'
    BY <1>1, <2>3, <2>4 DEF StackInv, TalkOnTop, Threads
  <2>6. ~PastMake("adin") /\ ~PastMake("adin")'
    BY <2>1, <2>2, <2>3, <2>4 DEF PastMake, Writer, Top
  <2>7. FileInv'
    BY <1>1, <2>4, <2>6, FileUntouched DEF Threads
  <2> QED
    BY <1>2, <2>4, <2>5, <2>7 DEF Inv, StackInv
<1>4. CASE Batch \/ Store \/ DownTrigger \/ DeviceEnd
  <2>1. UNCHANGED stack
    BY <1>4 DEF Batch, Store, DownTrigger, DeviceEnd
  <2> QED
    BY <1>1, <1>2, <2>1, StackKept DEF Inv
<1> QED
  BY <1>3, <1>4

LEMMA InvInit == Init => Inv
<1> SUFFICES ASSUME Init PROVE Inv
  OBVIOUS
<1>1. << Js(Script) >> \in Seq(Frames) /\ Js(Script).kind = "js"
  BY HandlersAreCode, FrameKinds DEF Js, JsFrames
<1>2. << >> \in Seq(Frames)
  BY EmptySeq
<1>3. /\ stack \in [Threads -> Seq(Frames)]
      /\ stack["adin"] = << >> /\ stack["main"] = << Js(Script) >>
  <2>1. stack = [main |-> << Js(Script) >>, adin |-> << >>]
    BY DEF Init
  <2>2. stack["adin"] = << >> /\ stack["main"] = << Js(Script) >> /\ DOMAIN stack = Threads
    BY <2>1 DEF Threads
  <2> QED
    BY <1>1, <1>2, <2>1, <2>2 DEF Threads
<1>4. TalkOnTop /\ \A t \in Threads : ~PastMake(t)
  BY <1>1, <1>3 DEF TalkOnTop, Threads, PastMake, Writer, Top
<1>5. julius \in Engines /\ listener \in Engines /\ NoText \in Texts
  <2>1. Len(Script) \in Nat
    BY ScriptAssumption
  <2> QED
    BY <2>1 DEF Init, Engines, Texts
<1>6. DataOK
  BY <1>5 DEF Init, DataOK
<1>7. FileInv
  BY <1>4 DEF Init, FileInv
<1> QED
  BY <1>3, <1>4, <1>6, <1>7 DEF Inv, StackInv

LEMMA InvNext == Inv /\ [Next]_vars => Inv'
<1> SUFFICES ASSUME Inv, [Next]_vars PROVE Inv'
  OBVIOUS
<1>1. ASSUME NEW t \in Threads, Step(t) PROVE Inv'
  BY <1>1, ScriptSteps, TalkSteps, IrSteps DEF Step
<1>2. CASE Loop
  BY <1>2, LoopSteps
<1>3. CASE UpTrigger \/ Batch \/ Store \/ DownTrigger \/ DeviceEnd
  BY <1>3, AudioSteps
<1>4. CASE UNCHANGED vars
  <2>1. UNCHANGED <<stack, status, script, file, engine, audio>>
    BY <1>4 DEF vars
  <2>2. DataOK'
    BY <2>1 DEF Inv, DataOK, script, file, engine, audio
  <2> QED
    BY <2>1, <2>2, StackKept DEF Inv
<1> QED
  BY <1>1, <1>2, <1>3, <1>4 DEF Next

-----------------------------------------------------------------------------
\* The stacks of both threads hold frames of their kinds, and the application
\* keeps its types, for every script and every set of handlers.
THEOREM HomeTypeCorrect == Spec => []TypeOK
<1>1. Inv => TypeOK
  BY DEF Inv, StackInv, DataOK, TypeOK
<1> QED
  BY <1>1, InvInit, InvNext, PTL DEF Spec

\* For every script and all handlers, also those that talk on the A/D-in
\* thread, from a disk with or without an old file, and whichever opens,
\* writes and removes fail: a talk plays its own words or nothing, except in
\* the two cases that TalksItsArgument names (text_to_speech.cpp:73, 181-184,
\* 291-313).
THEOREM OwnWordsPlayed == Spec => []TalksItsArgument
<1>1. Inv => TalksItsArgument
  <2> SUFFICES ASSUME Inv, NEW t \in Threads, Runs(t, "talk"), Top(t).at = "load",
                      wav \notin {Top(t).text, NoText}
               PROVE  \/ t \notin unopened /\ t \in overtaken
                      \/ /\ t \in unopened
                         /\ kept \/ \E u \in Threads \ {t} : Runs(u, "talk") /\ wav = Top(u).text
    BY DEF TalksItsArgument
  <2>1. PastMake(t) /\ status = "run"
    BY DEF Runs, PastMake, Writer, Top
  <2>2. CASE t \notin unopened
    BY <2>1, <2>2 DEF Inv, FileInv
  <2>3. CASE t \in unopened /\ ~kept
    <3>1. PICK u \in Threads : Wrote(u)
      BY <2>3 DEF Inv, FileInv
    <3>2. u # t /\ Runs(u, "talk") /\ wav = Top(u).text
      BY <2>1, <2>3, <3>1 DEF Wrote, PastMake, Writer, Runs, Top
    <3> QED
      BY <2>3, <3>2
  <2> QED
    BY <2>2, <2>3
<1> QED
  BY <1>1, InvInit, InvNext, PTL DEF Spec

=============================================================================
