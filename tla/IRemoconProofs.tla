--------------------------- MODULE IRemoconProofs ---------------------------
(***************************************************************************)
(* Every call of exec_command judges its own reply, for any number of      *)
(* calls and however late the replies come: the proof of the safety        *)
(* properties of module IRemocon.                                          *)
(***************************************************************************)
EXTENDS IRemocon, TLAPS

\* While a connection is in use, what was received on it belongs to the call
\* of that connection, which the device has answered, and is at most what the
\* device sent.
InboxInv ==
  pc \in {"armed", "wait"} =>
    /\ Len(inbox) <= sent[call]
    /\ \A k \in DOMAIN inbox : inbox[k].of = call /\ device[call] \in {"done", "refused"}

\* A call has no result before it returns and nothing happens for it before
\* its command is sent; no connection outlives its call.
FreshInv ==
  /\ pc \in {"idle", "connect"} => conn = 0
  /\ pc # "idle" => call >= 1
  /\ \A c \in Calls :
       (c > call \/ (c = call /\ pc \in {"connect", "armed"})) => device[c] = "none"
  /\ \A c \in Calls : (c > call \/ (c = call /\ pc # "idle")) => result[c] = "none"
  /\ \A c \in Calls : device[c] \in {"none", "received"} => sent[c] = 0

IndInv == TypeOK /\ InboxInv /\ FreshInv /\ OwnReply /\ TrueMeansReceived

-----------------------------------------------------------------------------
\* The line getline returns is made of received pieces, and only of them.
LEMMA LineOfInbox ==
  ASSUME inbox \in Seq([of : Calls, last : BOOLEAN]), Len(inbox) <= 2
  PROVE  /\ Line \in Seq([of : Calls, last : BOOLEAN]) /\ Len(Line) <= Len(inbox)
         /\ \A k \in DOMAIN Line : Line[k] = inbox[k]
<1>1. CASE HasLine
  <2> DEFINE First(k) == k \in DOMAIN inbox /\ inbox[k].last /\ \A j \in 1..k - 1 : ~inbox[j].last
  <2>1. \E k \in DOMAIN inbox : First(k)
    <3>1. PICK k \in DOMAIN inbox : inbox[k].last
      BY <1>1 DEF HasLine
    <3>2. k \in 1..2
      BY <3>1
    <3>3. CASE k = 1
      BY <3>1, <3>3
    <3>4. CASE k = 2
      <4>1. CASE inbox[1].last
        <5>1. 1 \in DOMAIN inbox /\ 1..1 - 1 = {}
          BY <3>1, <3>4
        <5> QED
          BY <4>1, <5>1
      <4>2. CASE ~inbox[1].last
        <5>1. 1..k - 1 = {1}
          BY <3>4
        <5> QED
          BY <3>1, <4>2, <5>1
      <4> QED
        BY <4>1, <4>2
    <3> QED
      BY <3>2, <3>3, <3>4
  <2> DEFINE n == CHOOSE k \in DOMAIN inbox : inbox[k].last /\ \A j \in 1..k - 1 : ~inbox[j].last
  <2>2. n \in 1..Len(inbox)
    BY <2>1
  <2>3. Line = SubSeq(inbox, 1, n)
    BY <1>1 DEF Line
  <2> HIDE DEF n
  <2> DEFINE Piece == [of : Calls, last : BOOLEAN]
  <2>4. Line \in Seq(Piece) /\ Len(Line) = n
    <3>1. inbox \in Seq(Piece)
      OBVIOUS
    <3> HIDE DEF Piece
    <3> QED
      BY <2>2, <2>3, <3>1
  <2>5. \A k \in 1..n : Line[k] = inbox[k]
    BY <2>2, <2>3
  <2> QED
    BY <2>2, <2>4, <2>5
<1>2. CASE ~HasLine
  BY <1>2 DEF Line
<1> QED
  BY <1>1, <1>2

\* The initial state satisfies the invariant.
LEMMA InitInv == Init => IndInv
<1> SUFFICES ASSUME Init PROVE IndInv
  OBVIOUS
<1>1. TypeOK
  <2>1. inbox \in Seq([of : Calls, last : BOOLEAN]) /\ pc = "idle" /\ expires = FALSE
    BY DEF Init
  <2>2. call \in 0..MaxCalls /\ conn \in {0, call}
    BY CallsAssumption DEF Init
  <2>3. device \in [Calls -> {"none", "received", "done", "refused"}] /\ sent \in [Calls -> 0..2]
        /\ result \in [Calls -> {"none", "true", "false"}] /\ judged \in [Calls -> SUBSET Calls]
    BY DEF Init
  <2> QED
    BY <2>1, <2>2, <2>3 DEF TypeOK
<1>2. InboxInv /\ FreshInv
  BY DEF Init, InboxInv, FreshInv
<1>3. OwnReply /\ TrueMeansReceived
  BY DEF Init, OwnReply, TrueMeansReceived
<1> QED
  BY <1>1, <1>2, <1>3 DEF IndInv

\* The caller's steps up to getline keep it: a connection starts empty.
LEMMA CallerInd ==
  ASSUME IndInv, Call \/ (\E up \in BOOLEAN : Connect(up)) \/ Send
  PROVE  IndInv'
<1> USE CallsAssumption
<1>1. CASE Call
  <2>1. TypeOK'
    BY <1>1 DEF Call, IndInv, TypeOK, FreshInv
  <2>2. InboxInv' /\ FreshInv'
    BY <1>1 DEF Call, IndInv, TypeOK, InboxInv, FreshInv, Calls
  <2>3. OwnReply' /\ TrueMeansReceived'
    BY <1>1 DEF Call, IndInv, OwnReply, TrueMeansReceived
  <2> QED
    BY <2>1, <2>2, <2>3 DEF IndInv
<1>2. ASSUME NEW up \in BOOLEAN, Connect(up) PROVE IndInv'
  <2>1. TypeOK'
    BY <1>2 DEF Connect, IndInv, TypeOK
  <2>2. InboxInv' /\ FreshInv'
    BY <1>2 DEF Connect, IndInv, TypeOK, InboxInv, FreshInv, Calls
  <2>3. OwnReply' /\ TrueMeansReceived'
    BY <1>2 DEF Connect, IndInv, OwnReply, TrueMeansReceived
  <2> QED
    BY <2>1, <2>2, <2>3 DEF IndInv
<1>3. CASE Send
  <2>1. call \in Calls /\ device[call] = "none" /\ sent[call] = 0 /\ result[call] = "none"
    BY <1>3 DEF Send, IndInv, TypeOK, FreshInv, Calls
  <2>2. /\ device' \in [Calls -> {"none", "received", "done", "refused"}]
        /\ \A c \in Calls \ {call} : device'[c] = device[c]
        /\ device'[call] \in {"none", "received"}
    BY <1>3, <2>1 DEF Send, IndInv, TypeOK
  <2>3. TypeOK'
    BY <1>3, <2>2 DEF Send, IndInv, TypeOK
  <2>4. Len(inbox) = 0 /\ DOMAIN inbox = {}
    BY <1>3, <2>1 DEF Send, IndInv, TypeOK, InboxInv
  <2>5. InboxInv'
    BY <1>3, <2>1, <2>4 DEF Send, InboxInv
  <2>6. FreshInv'
    BY <1>3, <2>1, <2>2 DEF Send, IndInv, TypeOK, FreshInv, Calls
  <2>7. OwnReply' /\ TrueMeansReceived'
    BY <1>3, <2>1, <2>2 DEF Send, IndInv, OwnReply, TrueMeansReceived
  <2> QED
    BY <2>3, <2>5, <2>6, <2>7 DEF IndInv
<1> QED
  BY <1>1, <1>2, <1>3

\* The return keeps it: the line is of this call, and an empty one is no success.
LEMMA ReturnInd == ASSUME IndInv, Return PROVE IndInv'
<1> USE CallsAssumption
<1> DEFINE Piece == [of : Calls, last : BOOLEAN]
<1>1. inbox \in Seq(Piece)
  BY DEF IndInv, TypeOK
<1> HIDE DEF Piece
<1>2. pc = "wait" /\ call \in 0..MaxCalls /\ sent \in [Calls -> 0..2]
  BY DEF IndInv, TypeOK, Return
<1>3. call \in Calls
  BY <1>2 DEF IndInv, FreshInv, Calls
<1>4. Len(inbox) <= sent[call]
  BY <1>2 DEF IndInv, InboxInv
<1>5. Len(inbox) <= 2 /\ sent[call] <= 2
  BY <1>1, <1>2, <1>3, <1>4
<1>6. call \in Calls /\ sent[call] <= 2 /\ Len(inbox) <= 2
      /\ inbox \in Seq([of : Calls, last : BOOLEAN])
  BY <1>1, <1>3, <1>5 DEF Piece
<1>7. Line \in Seq([of : Calls, last : BOOLEAN]) /\ Len(Line) <= Len(inbox)
      /\ \A k \in DOMAIN Line : Line[k] = inbox[k]
  BY <1>6, LineOfInbox
<1>8. \A k \in DOMAIN Line : k \in DOMAIN inbox
  BY <1>6, <1>7
<1>9. Sources(Line) \subseteq {call}
  BY <1>7, <1>8 DEF IndInv, InboxInv, Return, Sources
<1>10. Line # << >> => device[call] \in {"done", "refused"}
  <2> SUFFICES ASSUME Line # << >> PROVE device[call] \in {"done", "refused"}
    OBVIOUS
  <2>1. 1 \in DOMAIN Line
    BY <1>7
  <2> QED
    BY <2>1, <1>8 DEF IndInv, InboxInv, Return
<1>11. PICK found \in BOOLEAN :
        result' = [result EXCEPT ![call] = IF Verdict(Line, found) THEN "true" ELSE "false"]
  BY DEF Return
<1>12. result' \in [Calls -> {"none", "true", "false"}]
      /\ (\A c \in Calls \ {call} : result'[c] = result[c])
      /\ (result'[call] = "true" => device[call] \in {"done", "refused"})
  BY <1>6, <1>10, <1>11 DEF IndInv, TypeOK, Verdict
<1>13. judged' \in [Calls -> SUBSET Calls]
      /\ (\A c \in Calls \ {call} : judged'[c] = judged[c]) /\ judged'[call] \subseteq {call}
  BY <1>6, <1>9 DEF IndInv, TypeOK, Return
<1>14. TypeOK'
  BY <1>12, <1>13 DEF IndInv, TypeOK, Return
<1>15. InboxInv' /\ FreshInv'
  BY <1>6, <1>12 DEF IndInv, TypeOK, InboxInv, FreshInv, Return, Calls
<1>16. OwnReply' /\ TrueMeansReceived'
  BY <1>12, <1>13 DEF IndInv, OwnReply, TrueMeansReceived, Return
<1> QED
  BY <1>14, <1>15, <1>16 DEF IndInv

\* The device executes a command, or refuses it: an answered command stays so.
LEMMA ExecuteInd ==
  ASSUME IndInv, NEW c \in Calls, NEW outcome \in {"done", "refused"}, Execute(c, outcome)
  PROVE  IndInv'
BY CallsAssumption
   DEF IndInv, TypeOK, InboxInv, FreshInv, OwnReply, TrueMeansReceived, Calls, Execute

\* A piece of a reply keeps it: it reaches only the connection of its own call.
LEMMA ReplyInd == ASSUME IndInv, NEW c \in Calls, Reply(c) PROVE IndInv'
<1> USE CallsAssumption
<1> DEFINE Piece == [of |-> c, last |-> sent'[c] = 2]
<1>1. device[c] \in {"done", "refused"} /\ sent[c] \in 0..1 /\ sent'[c] = sent[c] + 1
      /\ sent' \in [Calls -> 0..2] /\ \A d \in Calls \ {c} : sent'[d] = sent[d]
  BY DEF IndInv, TypeOK, Reply
<1>2. UNCHANGED <<pc, call, conn, expires, device, result, judged>>
  BY DEF Reply
<1>3. Piece \in [of : Calls, last : BOOLEAN] /\ Piece.of = c
  OBVIOUS
<1>4. inbox \in Seq([of : Calls, last : BOOLEAN])
  BY DEF IndInv, TypeOK
<1> HIDE DEF Piece
<1>5. inbox' \in Seq([of : Calls, last : BOOLEAN]) /\ InboxInv'
  <2>1. CASE conn = c /\ pc = "wait"
    <3>1. inbox' = Append(inbox, Piece) /\ c = call
      BY <2>1 DEF Reply, Piece, IndInv, TypeOK, Calls
    <3>2. inbox' \in Seq([of : Calls, last : BOOLEAN]) /\ Len(inbox') = Len(inbox) + 1
          /\ inbox'[Len(inbox) + 1] = Piece /\ \A k \in 1..Len(inbox) : inbox'[k] = inbox[k]
      BY <1>3, <1>4, <3>1
    <3>3. Len(inbox) <= sent[call] /\ \A k \in 1..Len(inbox) : inbox[k].of = call
      BY <1>4, <2>1 DEF IndInv, InboxInv
    <3>4. Len(inbox) \in Nat /\ Len(inbox') <= sent'[call]
      BY <1>1, <1>4, <3>1, <3>2, <3>3
    <3>5. \A k \in 1..Len(inbox) + 1 : inbox'[k].of = call
      BY <1>3, <3>1, <3>2, <3>3, <3>4
    <3> QED
      BY <1>1, <1>2, <3>1, <3>2, <3>4, <3>5 DEF InboxInv
  <2>2. CASE ~(conn = c /\ pc = "wait")
    <3>1. inbox' = inbox
      BY <2>2 DEF Reply
    <3>2. pc \in {"armed", "wait"} => Len(inbox) <= sent'[call]
      <4> SUFFICES ASSUME pc \in {"armed", "wait"} PROVE Len(inbox) <= sent'[call]
        OBVIOUS
      <4>1. call \in Calls /\ Len(inbox) <= sent[call] /\ Len(inbox) \in Nat
        BY <1>4 DEF IndInv, TypeOK, InboxInv, FreshInv, Calls
      <4>2. sent'[call] \in Nat /\ sent[call] \in Nat /\ sent[call] <= sent'[call]
        BY <1>1, <4>1 DEF IndInv, TypeOK
      <4> QED
        BY <4>1, <4>2
    <3> QED
      BY <1>2, <1>4, <3>1, <3>2 DEF IndInv, InboxInv
  <2> QED
    BY <2>1, <2>2
<1>6. TypeOK'
  BY <1>1, <1>2, <1>5 DEF IndInv, TypeOK
<1>7. FreshInv'
  BY <1>1, <1>2 DEF IndInv, FreshInv
<1>8. OwnReply' /\ TrueMeansReceived'
  BY <1>2 DEF IndInv, OwnReply, TrueMeansReceived
<1> QED
  BY <1>5, <1>6, <1>7, <1>8 DEF IndInv

\* The invariant holds in every reachable state.
LEMMA Inductive == Spec => []IndInv
<1>1. IndInv /\ [Next]_vars => IndInv'
  <2> SUFFICES ASSUME IndInv, [Next]_vars PROVE IndInv'
    OBVIOUS
  <2>1. CASE Call \/ (\E up \in BOOLEAN : Connect(up)) \/ Send
    BY <2>1, CallerInd
  <2>2. CASE Return
    BY <2>2, ReturnInd
  <2>3. CASE \E c \in Calls : (\E outcome \in {"done", "refused"} : Execute(c, outcome)) \/ Reply(c)
    BY <2>3, ExecuteInd, ReplyInd
  <2>4. CASE UNCHANGED vars
    BY <2>4 DEF vars, IndInv, TypeOK, InboxInv, FreshInv, OwnReply, TrueMeansReceived
  <2> QED
    BY <2>1, <2>2, <2>3, <2>4 DEF Next
<1> QED
  BY InitInv, <1>1, PTL DEF Spec

\* Type correctness of exec_command, the device and the network.
THEOREM IRemoconTypeCorrect == Spec => []TypeOK
BY Inductive, PTL DEF IndInv

\* A connection per call (iremocon.cpp:20) is enough: no call judges the reply
\* to another one.
THEOREM JudgesOwnReply == Spec => []OwnReply
BY Inductive, PTL DEF IndInv

\* exec_command returns true only for a command the device has got.
THEOREM TrueOnlyIfReceived == Spec => []TrueMeansReceived
BY Inductive, PTL DEF IndInv
=============================================================================
