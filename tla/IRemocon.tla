----------------------------- MODULE IRemocon -------------------------------
(***************************************************************************)
(* A command to the infrared remote control: iRemocon::exec_command, with  *)
(* ir_send and ir_recieve, which only build the command, and the device at *)
(* the other end, which is modelled from how exec_command uses it.  Every  *)
(* call has a TCP connection of its own; the reply is one line that the    *)
(* network may deliver in two pieces, late, or never.                      *)
(***************************************************************************)
EXTENDS Integers, Sequences

CONSTANT MaxCalls    \* bound: calls of exec_command in a behaviour

ASSUME CallsAssumption == MaxCalls \in Nat

Calls == 1..MaxCalls

VARIABLES
  pc,        \* "idle", "connect", "armed", "wait": where exec_command is
  call,      \* number of the running, or last, call
  conn,      \* the call the open connection belongs to, 0 when there is none
  expires,   \* the five seconds of expires_from_now are running
  inbox,     \* pieces of reply lines received and not read yet
  device,    \* what became of each command at the device
  sent,      \* pieces of its reply the device has sent
  result,    \* what each call returned
  judged     \* history: the calls whose reply each call judged

vars == <<pc, call, conn, expires, inbox, device, sent, result, judged>>

TypeOK ==
  /\ pc \in {"idle", "connect", "armed", "wait"} /\ call \in 0..MaxCalls /\ conn \in {0, call}
  /\ expires \in BOOLEAN /\ inbox \in Seq([of : Calls, last : BOOLEAN])
  /\ device \in [Calls -> {"none", "received", "done", "refused"}]
  /\ sent \in [Calls -> 0..2]
  /\ result \in [Calls -> {"none", "true", "false"}] /\ judged \in [Calls -> SUBSET Calls]

Init ==
  /\ pc = "idle" /\ call = 0 /\ conn = 0 /\ expires = FALSE /\ inbox = << >>
  /\ device = [c \in Calls |-> "none"] /\ sent = [c \in Calls |-> 0]
  /\ result = [c \in Calls |-> "none"] /\ judged = [c \in Calls |-> {}]

-----------------------------------------------------------------------------
(* The caller.                                                             *)

\* ir_send, ir_recieve or a script calls exec_command.
Call ==
  /\ pc = "idle" /\ call < MaxCalls
  /\ call' = call + 1 /\ pc' = "connect"
  /\ UNCHANGED <<conn, expires, inbox, device, sent, result, judged>>

\* Mutant: the stream of the call before is still open and is used again.
StreamKept(up) ==
  /\ pc = "connect" /\ pc' = "armed"
  /\ conn' = IF up THEN call ELSE 0
  /\ UNCHANGED <<call, expires, inbox, device, sent, result, judged>>

\* tcp::iostream s(ep_): a new connection, or a stream in its failed state.
\* The expiry is not set yet: only TCP itself bounds this step.
Connect(up) ==
  /\ pc = "connect" /\ pc' = "armed"
  /\ conn' = (IF up THEN call ELSE 0) /\ inbox' = << >>
  /\ UNCHANGED <<call, expires, device, sent, result, judged>>

\* Mutant: the command is written without a deadline.
SendNoExpiry ==
  /\ pc = "armed" /\ pc' = "wait"
  /\ device' = IF conn = 0 THEN device ELSE [device EXCEPT ![call] = "received"]
  /\ UNCHANGED <<call, conn, expires, inbox, sent, result, judged>>

\* expires_from_now, then the command; getline flushes it and waits.
Send ==
  /\ pc = "armed" /\ pc' = "wait"
  /\ expires' = TRUE
  /\ device' = IF conn = 0 THEN device ELSE [device EXCEPT ![call] = "received"]
  /\ UNCHANGED <<call, conn, inbox, sent, result, judged>>

\* A complete line is there.
HasLine == \E k \in DOMAIN inbox : inbox[k].last

\* The pieces getline returns: up to the first end of line, or all there is.
Line ==
  IF HasLine
  THEN SubSeq(inbox, 1, CHOOSE k \in DOMAIN inbox : inbox[k].last /\ \A j \in 1..k - 1 : ~inbox[j].last)
  ELSE inbox

\* The calls whose replies have a piece in the line.
Sources(line) == {line[k].of : k \in DOMAIN line}

\* line.find("err"): a whole line has it exactly when the device refused the
\* command; the first piece alone may or may not have got so far.
MayContainErr(line) == \E c \in Sources(line) : device[c] = "refused"

MustContainErr(line) == MayContainErr(line) /\ HasLine

\* Mutant: an empty line is taken for an answer.
EmptyIsOk(line, found) == ~found

\* The value of exec_command for the line, given what find returned.
Verdict(line, found) == line # << >> /\ ~found

\* Mutant: the stream outlives the call.
ReturnKeepsOpen ==
  /\ pc = "wait" /\ (HasLine \/ conn = 0 \/ expires)
  /\ \E found \in BOOLEAN :
       /\ found => MayContainErr(Line)
       /\ MustContainErr(Line) => found
       /\ result' = [result EXCEPT ![call] = IF Verdict(Line, found) THEN "true" ELSE "false"]
  /\ judged' = [judged EXCEPT ![call] = Sources(Line)]
  /\ pc' = "idle" /\ expires' = FALSE
  /\ UNCHANGED <<call, conn, inbox, device, sent>>

\* getline returns: with a line, on a connection that never came up or that
\* the device has closed, or when the deadline has passed.
Return ==
  /\ pc = "wait" /\ (HasLine \/ conn = 0 \/ expires)
  /\ \E found \in BOOLEAN :
       /\ found => MayContainErr(Line)
       /\ MustContainErr(Line) => found
       /\ result' = [result EXCEPT ![call] = IF Verdict(Line, found) THEN "true" ELSE "false"]
  /\ judged' = [judged EXCEPT ![call] = Sources(Line)]
  /\ pc' = "idle" /\ conn' = 0 /\ expires' = FALSE
  /\ UNCHANGED <<call, inbox, device, sent>>

-----------------------------------------------------------------------------
(* The device and the network.                                             *)

\* The device executes a command it has received, or refuses it, at any time:
\* also when the caller has given up.
Execute(c, outcome) ==
  /\ device[c] = "received" /\ device' = [device EXCEPT ![c] = outcome]
  /\ UNCHANGED <<pc, call, conn, expires, inbox, sent, result, judged>>

\* A piece of the reply arrives, or is dropped with its closed connection.
Reply(c) ==
  /\ device[c] \in {"done", "refused"} /\ sent[c] < 2
  /\ sent' = [sent EXCEPT ![c] = @ + 1]
  /\ inbox' = IF conn = c /\ pc = "wait" THEN Append(inbox, [of |-> c, last |-> sent'[c] = 2]) ELSE inbox
  /\ UNCHANGED <<pc, call, conn, expires, device, result, judged>>

Next ==
  \/ Call
  \/ \E up \in BOOLEAN : Connect(up)
  \/ Send
  \/ Return
  \/ \E c \in Calls, outcome \in {"done", "refused"} : Execute(c, outcome)
  \/ \E c \in Calls : Reply(c)

Spec == Init /\ [][Next]_vars

\* TCP gives up on a connection in the end, and the timer of the stream fires.
FairSpec == Spec /\ WF_vars((\E up \in BOOLEAN : Connect(up)) \/ Send \/ Return)

-----------------------------------------------------------------------------
(* Properties.                                                             *)

\* A call judges nothing but the reply to its own command, however late the
\* replies to earlier ones arrive (a connection per call, iremocon.cpp:20).
OwnReply == \A c \in Calls : judged[c] \subseteq {c}

\* TRUE is never returned for a command the device has not got.
TrueMeansReceived == \A c \in Calls : result[c] = "true" => device[c] \in {"done", "refused"}

\* Every call returns, whatever the device does (the five-second expiry).
CallReturns == (pc # "idle") ~> (pc = "idle")

-----------------------------------------------------------------------------
(* What a comment or header says and the code does not guarantee.          *)

\* FALSE means that the command was not sent (iremocon.hpp:27).
FalseMeansNotSent == \A c \in Calls : result[c] = "false" => device[c] # "done"

\* TRUE means that the device did not report an error (iremocon.cpp:34).
TrueMeansNoError == \A c \in Calls : result[c] = "true" => device[c] # "refused"
=============================================================================
