------------------------- MODULE MCHomeAutomation ---------------------------
(* Scripts for model-checking HomeAutomation.                               *)
EXTENDS HomeAutomation

\* Two things to say, so that one may be heard in the place of the other.
TwoWords == {"hello", "done"}

\* test.js: set-up, then the recogniser; a result is spoken, then sent.
TestScript == <<"tts_init", "ir_connect", "julius_init", "julius_start">>
TestResult == <<"talk", "ir_send">>
Nothing == << >>

\* A script that uses the objects before their init, greets, and repeats.
EagerScript == <<"talk", "retalk", "ir_send", "tts_init", "retalk", "talk", "ir_connect", "julius_init", "julius_start", "retalk">>
RepeatResult == <<"talk", "ir_send", "retalk">>

\* A script that starts a recogniser it has not created.
StartFirst == <<"julius_start">>

\* A handler that greets.
Greeting == <<"talk">>

\* A handler that changes to another configuration of the recogniser.
Reconfigure == <<"julius_init">>
=============================================================================
