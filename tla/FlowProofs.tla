------------------------------ MODULE FlowProofs ------------------------------
(***************************************************************************)
(* Proofs about Flow: for any number of connections, frames and writes,     *)
(* both directions of a flow deliver in order and without a gap while its   *)
(* entries stand, a service is dialed once at a time, and OPENED_OK is only *)
(* ever the answer of a service that was reached.                           *)
(***************************************************************************)
EXTENDS Flow, TLAPS

\* The entry exists from open_tcp on, and numbers every write until it is gone.
NumbersCountWrites ==
  /\ app = "idle" <=> ctx = "none"
  /\ ctx # "gone" => sendSeq = wrote

\* A frame's number is that of its chunk, unless it was sent without an entry.
AppDataNumbered ==
  \A f \in toB : f.type = "DATA" =>
    f.chunk = f.seq + 1 \/ (f.seq = 0 /\ ctx = "gone")

\* Only a registered connection has carried data, and the responder's entry
\* counts what its own has received.
FlowOfConnection ==
  /\ \A c \in Conns : ~Registered(c) => svcGot[c] = << >> /\ svcWrote[c] = 0
  /\ flow # NoFlow => /\ Registered(flow.conn)
                      /\ flow.recv = Len(svcGot[flow.conn])

OkMeansServed ==
  (reply = "ok" \/ Ok \in toA) => \E c \in Conns : Registered(c)

\* Data that reaches the initiator comes from a registered connection.
DataFromService ==
  /\ \A f \in toA : f.type = "DATA" => Registered(f.chunk[1])
  /\ (\A c \in Conns : ~Registered(c)) => got = << >> /\ recvSeq = 0

\* While the only entry stands, it numbers all its connection writes, and the
\* initiator's entry counts what it hands on.
RepliesNumbered ==
  OneFlow /\ flow # NoFlow =>
    /\ svcWrote[flow.conn] = flow.send
    /\ \A f \in toA : f.type = "DATA" => f.chunk = <<flow.conn, f.seq + 1>>
    /\ ctx # "gone" /\ app # "done" => recvSeq = Len(got)

IInv ==
  /\ TypeOK
  /\ NumbersCountWrites
  /\ AppDataNumbered
  /\ FlowOfConnection
  /\ WritesInOrder
  /\ OneDialAtATime
  /\ OkMeansServed
  /\ DataFromService
  /\ RepliesNumbered
  /\ ReadsInOrder

-------------------------------------------------------------------------------
\* The kinds of frames are told apart, and Data builds typed ones.
LEMMA FrameTypes ==
  /\ Close \notin AppData /\ Close \notin SvcData
  /\ Ok \notin SvcData /\ Fail \notin SvcData
  /\ Close.type # "DATA" /\ Ok.type # "DATA" /\ Fail.type # "DATA"
  /\ \A s \in Nat, c \in Nat \ {0} : Data(s, c) \in AppData
  /\ \A s \in Nat, c \in Conns \X (Nat \ {0}) : Data(s, c) \in SvcData
BY DEF Close, Ok, Fail, Data, AppData, SvcData

\* The fields of a DATA frame to the responder.
LEMMA AppFrame ==
  ASSUME TypeOK, NEW f \in toB, f.type = "DATA"
  PROVE  f \in AppData /\ f.seq \in Nat /\ f.chunk \in Nat \ {0}
BY FrameTypes DEF TypeOK, AppData

\* The fields of a DATA frame to the initiator.
LEMMA SvcFrame ==
  ASSUME TypeOK, NEW f \in toA, f.type = "DATA"
  PROVE  f \in SvcData /\ f.seq \in Nat /\ f.chunk \in Conns \X (Nat \ {0})
BY FrameTypes DEF TypeOK, SvcData

\* The initial state is typed.
LEMMA TypeInit == Init => TypeOK
<1> SUFFICES ASSUME Init
             PROVE  TypeOK
  OBVIOUS
<1>1. got \in Seq(Conns \X (Nat \ {0})) /\ svcGot \in [Conns -> Seq(Nat \ {0})]
  BY DEF Init
<1>2. flow \in Flows \cup {NoFlow} /\ dial \in [Conns -> {"unused"}]
  BY DEF Init
<1>3. svcWrote \in [Conns -> Nat]
  BY DEF Init
<1>4. QED
  BY <1>1, <1>2, <1>3 DEF Init, TypeOK

\* Every behaviour keeps every variable in its type.
THEOREM TypeCorrect == Spec => []TypeOK
<1>1. Init => TypeOK
  BY TypeInit
<1>2. TypeOK /\ [Next]_vars => TypeOK'
  <2> SUFFICES ASSUME TypeOK, [Next]_vars
               PROVE  TypeOK'
    OBVIOUS
  <2> USE DEF TypeOK
  <2>1. CASE OpenTcp
    BY <2>1 DEF OpenTcp, SendOpen, responder
  <2>2. CASE ResendOpen
    BY <2>2 DEF ResendOpen, SendOpen, initiator, responder
  <2>3. CASE OpenReturns
    BY <2>3 DEF OpenReturns, responder, net
  <2>4. CASE OpenGivesUp
    BY <2>4 DEF OpenGivesUp, CloseA, responder
  <2>5. CASE AppWrite
    BY <2>5, FrameTypes DEF AppWrite, responder
  <2>6. CASE AppClose
    BY <2>6 DEF AppClose, CloseA, responder
  <2>7. CASE AppAborts
    BY <2>7 DEF AppAborts, responder, net
  <2>8. CASE PeerLeftA
    BY <2>8 DEF PeerLeftA, CloseA, responder
  <2>9. CASE RecvOpened
    BY <2>9 DEF RecvOpened, responder
  <2>10. CASE RecvCloseA
    BY <2>10 DEF RecvCloseA, responder
  <2>11. CASE RecvDataA
    <3> PICK f \in toA : RecvDataA!(f)
      BY <2>11 DEF RecvDataA
    <3>1. f.chunk \in Conns \X (Nat \ {0})
      BY SvcFrame
    <3>2. CASE ctx = "live" /\ f.seq = recvSeq
      <4>1. Append(got, f.chunk) \in Seq(Conns \X (Nat \ {0}))
        BY <3>1
      <4>2. recvSeq' \in Nat /\ got' = IF app = "done" THEN got ELSE Append(got, f.chunk)
        BY <3>2
      <4>4. got' \in Seq(Conns \X (Nat \ {0}))
        BY <4>1, <4>2
      <4>3. QED
        BY <3>2, <4>2, <4>4 DEF responder
    <3>3. CASE ~(ctx = "live" /\ f.seq = recvSeq)
      BY <3>3 DEF CloseA, responder
    <3>4. QED
      BY <3>2, <3>3
  <2>12. CASE RecvOpenAgain
    BY <2>12 DEF RecvOpenAgain, initiator, responder
  <2>13. CASE RecvOpenRefused
    BY <2>13 DEF RecvOpenRefused, initiator, responder
  <2>14. CASE RecvOpen
    BY <2>14 DEF RecvOpen, initiator
  <2>15. ASSUME NEW c \in Conns, StartDial(c)
         PROVE  TypeOK'
    BY <2>15 DEF StartDial, initiator, net
  <2>16. CASE SkipDial
    BY <2>16 DEF SkipDial, initiator, net
  <2>17. CASE RecvCloseB
    BY <2>17 DEF RecvCloseB, CloseB, initiator
  <2>18. CASE RecvDataB
    <3> PICK f \in toB : RecvDataB!(f)
      BY <2>18 DEF RecvDataB
    <3>1. f.chunk \in Nat \ {0}
      BY AppFrame
    <3>2. CASE flow # NoFlow /\ InSequence(f)
      <4>1. flow \in Flows /\ flow.conn \in Conns
        BY <3>2 DEF Flows
      <4>4. flow' = [conn |-> flow.conn, send |-> flow.send, recv |-> flow.recv + 1]
        BY <3>2
      <4>5. flow' \in Flows
        BY <4>1, <4>4 DEF Flows
      <4>2. Append(svcGot[flow.conn], f.chunk) \in Seq(Nat \ {0})
        BY <3>1, <4>1
      <4>3. QED
        BY <3>2, <4>1, <4>2, <4>5 DEF initiator
    <3>3. CASE ~(flow # NoFlow /\ InSequence(f))
      BY <3>3 DEF CloseB, initiator
    <3>4. QED
      BY <3>2, <3>3
  <2>19. CASE PeerLeftB
    BY <2>19 DEF PeerLeftB, CloseB, initiator
  <2>20. ASSUME NEW c \in Conns, DialOk(c)
         PROVE  TypeOK'
    BY <2>20 DEF DialOk, Flows, initiator, net
  <2>21. ASSUME NEW c \in Conns, Announce(c)
         PROVE  TypeOK'
    BY <2>21 DEF Announce, initiator
  <2>22. ASSUME NEW c \in Conns, DialFails(c)
         PROVE  TypeOK'
    BY <2>22 DEF DialFails, initiator
  <2>23. ASSUME NEW c \in Conns, SvcWrite(c)
         PROVE  TypeOK'
    <3>1. <<c, svcWrote[c] + 1>> \in Conns \X (Nat \ {0})
      OBVIOUS
    <3>2. flow' \in Flows \cup {NoFlow} /\ toA' \subseteq SvcData \cup {Close, Ok, Fail}
      <4>1. CASE flow = NoFlow
        <5>1. flow' = flow /\ toA' = toA \cup {Data(0, <<c, svcWrote[c] + 1>>)}
          BY <2>23, <4>1 DEF SvcWrite, SvcSend
        <5>2. Data(0, <<c, svcWrote[c] + 1>>) \in SvcData
          BY <3>1, FrameTypes
        <5>3. QED
          BY <5>1, <5>2
      <4>2. CASE flow # NoFlow
        <5>1. flow \in Flows /\ flow.send \in Nat
          BY <4>2 DEF Flows
        <5>2. flow' = [conn |-> flow.conn, send |-> flow.send + 1, recv |-> flow.recv]
          BY <2>23, <4>2 DEF SvcWrite, SvcSend
        <5>3. flow' \in Flows
          BY <5>1, <5>2 DEF Flows
        <5>4. toA' = toA \cup {Data(flow.send, <<c, svcWrote[c] + 1>>)}
          BY <2>23, <4>2 DEF SvcWrite, SvcSend
        <5>5. QED
          BY <3>1, <5>1, <5>3, <5>4, FrameTypes
      <4>3. QED
        BY <4>1, <4>2
    <3>3. QED
      BY <2>23, <3>2 DEF SvcWrite, initiator
  <2>24. ASSUME NEW c \in Conns, SvcClose(c)
         PROVE  TypeOK'
    BY <2>24 DEF SvcClose, CloseB, initiator
  <2>25. CASE UNCHANGED vars
    BY <2>25 DEF vars, initiator, responder, net
  <2>26. QED
    BY <2>1, <2>2, <2>3, <2>4, <2>5, <2>6, <2>7, <2>8, <2>9, <2>10, <2>11,
       <2>12, <2>13, <2>14, <2>15, <2>16, <2>17, <2>18, <2>19, <2>20, <2>21,
       <2>22, <2>23, <2>24, <2>25
    DEF Next, Initiator, Consumer, Connection
<1>3. QED
  BY <1>1, <1>2, PTL DEF Spec

-------------------------------------------------------------------------------
(***************************************************************************)
(* What each step keeps of the invariant.  A step that changes none of the  *)
(* variables a conjunct reads keeps it.                                     *)
(***************************************************************************)

\* The initiator's state changes in its own steps only.
LEMMA Keeps ==
  ASSUME [Next]_vars
  PROVE  Initiator \/ UNCHANGED initiator
BY DEF Next, vars, Consumer, Connection, RecvOpenAgain, RecvOpenRefused, RecvOpen,
       StartDial, SkipDial, RecvCloseB, RecvDataB, PeerLeftB, DialOk, Announce,
       DialFails, SvcWrite, SvcClose

\* The initiator's steps leave the responder alone.
LEMMA InitiatorKeeps ==
  ASSUME Initiator
  PROVE  UNCHANGED <<responder, endB>>
BY DEF Initiator, OpenTcp, ResendOpen, OpenReturns, OpenGivesUp, AppWrite, AppClose,
       AppAborts, PeerLeftA, RecvOpened, RecvCloseA, RecvDataA

\* The responder's state changes in its own steps only.
LEMMA ResponderKeeps ==
  ASSUME [Next]_vars
  PROVE  Consumer \/ (\E c \in Conns : Connection(c)) \/ UNCHANGED responder
BY InitiatorKeeps DEF Next, vars

\* A connection that was registered remains one that was.
LEMMA RegisteredStays ==
  ASSUME TypeOK, [Next]_vars, NEW c \in Conns, Registered(c)
  PROVE  Registered(c)'
<1> USE DEF Registered, TypeOK
<1>1. CASE Consumer
  BY <1>1 DEF Consumer, RecvOpenAgain, RecvOpenRefused, RecvOpen, StartDial, SkipDial,
              RecvCloseB, RecvDataB, PeerLeftB, responder
<1>2. ASSUME NEW d \in Conns, Connection(d)
      PROVE  Registered(c)'
  BY <1>2 DEF Connection, DialOk, Announce, DialFails, SvcWrite, SvcClose
<1>3. CASE UNCHANGED responder
  BY <1>3 DEF responder
<1>4. QED
  BY <1>1, <1>2, <1>3, ResponderKeeps

\* An entry of the initiator that is gone does not come back.
LEMMA CtxStays ==
  ASSUME NumbersCountWrites, [Next]_vars, ctx = "gone"
  PROVE  ctx' = "gone"
BY Keeps DEF NumbersCountWrites, Initiator, initiator, OpenTcp, ResendOpen,
       OpenReturns, OpenGivesUp, AppWrite, AppClose, AppAborts, PeerLeftA, CloseA,
       RecvOpened, RecvCloseA, RecvDataA

\* An application that is done stays done.
LEMMA DoneStays ==
  ASSUME NumbersCountWrites, [Next]_vars, app = "done"
  PROVE  app' = "done"
BY Keeps DEF NumbersCountWrites, Initiator, initiator, OpenTcp, ResendOpen,
       OpenReturns, OpenGivesUp, AppWrite, AppClose, AppAborts, PeerLeftA, CloseA,
       RecvOpened, RecvCloseA, RecvDataA

\* Only a write adds data for the responder.
LEMMA ToBGrows ==
  ASSUME [Next]_vars
  PROVE  AppWrite \/ toB' \subseteq toB \cup {Close}
BY DEF Next, vars, net, Initiator, Consumer, Connection, OpenTcp, SendOpen, ResendOpen,
       OpenReturns, OpenGivesUp, AppClose, AppAborts, PeerLeftA, CloseA,
       RecvOpened, RecvCloseA, RecvDataA, RecvOpenAgain, RecvOpenRefused, RecvOpen,
       StartDial, SkipDial, RecvCloseB, RecvDataB, PeerLeftB, DialOk, Announce,
       DialFails, SvcWrite, SvcClose

\* The initiator's entry goes on numbering what is written.
LEMMA NumbersCountWritesStep ==
  ASSUME TypeOK, NumbersCountWrites, [Next]_vars
  PROVE  NumbersCountWrites'
<1> USE DEF NumbersCountWrites
<1>1. CASE OpenTcp
  BY <1>1 DEF OpenTcp
<1>2. CASE OpenReturns \/ AppAborts
  BY <1>2 DEF OpenReturns, AppAborts
<1>3. CASE OpenGivesUp \/ AppClose \/ PeerLeftA
  BY <1>3 DEF OpenGivesUp, AppClose, PeerLeftA, CloseA
<1>4. CASE AppWrite
  BY <1>4 DEF AppWrite, TypeOK
<1>5. CASE RecvOpened \/ RecvCloseA
  BY <1>5 DEF RecvOpened, RecvCloseA
<1>6. CASE RecvDataA
  BY <1>6 DEF RecvDataA, CloseA
<1>7. CASE ResendOpen \/ UNCHANGED initiator
  BY <1>7 DEF ResendOpen, initiator
<1>8. QED
  BY <1>1, <1>2, <1>3, <1>4, <1>5, <1>6, <1>7, Keeps DEF Initiator

\* Frames to the responder go on carrying the number of their chunk.
LEMMA AppDataNumberedStep ==
  ASSUME TypeOK, NumbersCountWrites, AppDataNumbered, [Next]_vars
  PROVE  AppDataNumbered'
<1> USE DEF AppDataNumbered
<1>0. ctx = "gone" => ctx' = "gone"
  BY CtxStays DEF NumbersCountWrites
<1>1. CASE toB' \subseteq toB \cup {Close}
  BY <1>0, <1>1, FrameTypes
<1>2. CASE AppWrite
  <2>1. CASE ctx = "live"
    <3>1. toB' = toB \cup {Data(sendSeq, wrote + 1)} /\ sendSeq = wrote
      BY <1>2, <2>1 DEF AppWrite, NumbersCountWrites
    <3>2. Data(sendSeq, wrote + 1).chunk = Data(sendSeq, wrote + 1).seq + 1
      BY <3>1 DEF Data
    <3>3. QED
      BY <1>0, <3>1, <3>2
  <2>2. CASE ctx # "live"
    <3>1. toB' = toB \cup {Data(0, wrote + 1)} /\ ctx' = "gone"
      BY <1>2, <2>2 DEF AppWrite, NumbersCountWrites, TypeOK
    <3>2. Data(0, wrote + 1).seq = 0
      BY DEF Data
    <3>3. QED
      BY <1>0, <3>1, <3>2
  <2>3. QED
    BY <2>1, <2>2
<1>3. QED
  BY <1>1, <1>2, ToBGrows

\* The responder's entry goes on counting what its connection received.
LEMMA FlowOfConnectionStep ==
  ASSUME TypeOK, FlowOfConnection, [Next]_vars
  PROVE  FlowOfConnection'
<1> USE DEF FlowOfConnection
<1>1. CASE UNCHANGED <<dial, svcGot, svcWrote>> /\ flow' \in {flow, NoFlow}
  BY <1>1 DEF Registered
<1>2. ASSUME NEW c \in Conns, StartDial(c)
      PROVE  FlowOfConnection'
  BY <1>2 DEF StartDial, Registered, TypeOK
<1>3. CASE RecvDataB
  <2> PICK f \in toB : RecvDataB!(f)
    BY <1>3 DEF RecvDataB
  <2>1. CASE flow # NoFlow /\ InSequence(f)
    <3>1. flow \in Flows /\ flow.conn \in Conns /\ flow.recv \in Nat
      BY <2>1 DEF TypeOK, Flows
    <3>2. flow'.conn = flow.conn /\ flow'.recv = flow.recv + 1
      BY <2>1
    <3>3. svcGot' = [svcGot EXCEPT ![flow.conn] = Append(@, f.chunk)]
      BY <2>1
    <3>4. Len(svcGot'[flow.conn]) = flow.recv + 1
      BY <2>1, <3>1, <3>3, AppFrame DEF TypeOK
    <3>5. \A c \in Conns : ~Registered(c) => svcGot'[c] = << >>
      BY <2>1, <3>1, <3>3 DEF TypeOK
    <3>6. UNCHANGED <<dial, svcWrote>>
      OBVIOUS
    <3>7. QED
      BY <2>1, <3>1, <3>2, <3>4, <3>5, <3>6 DEF Registered
  <2>2. CASE ~(flow # NoFlow /\ InSequence(f))
    BY <2>2, <1>1 DEF CloseB
  <2>3. QED
    BY <2>1, <2>2
<1>4. ASSUME NEW c \in Conns, DialOk(c)
      PROVE  FlowOfConnection'
  <2>1. svcGot[c] = << >>
    BY <1>4 DEF DialOk, Registered
  <2>2. flow' = [conn |-> c, send |-> 0, recv |-> 0] /\ dial'[c] = "registered"
    BY <1>4 DEF DialOk, TypeOK
  <2>3. \A d \in Conns : ~Registered(d)' => ~Registered(d)
    BY <1>4 DEF DialOk, TypeOK, Registered
  <2>4. UNCHANGED <<svcGot, svcWrote>>
    BY <1>4 DEF DialOk
  <2>5. QED
    BY <2>1, <2>2, <2>3, <2>4 DEF Registered
<1>5. ASSUME NEW c \in Conns, Announce(c) \/ DialFails(c)
      PROVE  FlowOfConnection'
  <2>1. \A d \in Conns : Registered(d)' <=> Registered(d)
    BY <1>5 DEF Announce, DialFails, Registered, TypeOK
  <2>2. UNCHANGED <<flow, svcGot, svcWrote>>
    BY <1>5 DEF Announce, DialFails
  <2>3. flow # NoFlow => flow.conn \in Conns
    BY DEF TypeOK, Flows
  <2>4. QED
    BY <2>1, <2>2, <2>3
<1>6. ASSUME NEW c \in Conns, SvcWrite(c)
      PROVE  FlowOfConnection'
  <2>1. flow' # NoFlow => flow # NoFlow /\ flow'.conn = flow.conn /\ flow'.recv = flow.recv
    BY <1>6 DEF SvcWrite, SvcSend
  <2>2. Registered(c) /\ UNCHANGED <<dial, svcGot>>
    BY <1>6 DEF SvcWrite, Registered
  <2>3. svcWrote' = [svcWrote EXCEPT ![c] = @ + 1]
    BY <1>6 DEF SvcWrite
  <2>4. QED
    BY <2>1, <2>2, <2>3 DEF Registered, TypeOK
<1>7. ASSUME NEW c \in Conns, SvcClose(c)
      PROVE  FlowOfConnection'
  BY <1>7 DEF SvcClose, CloseB, Registered, TypeOK
<1>8. CASE RecvOpenAgain \/ RecvOpenRefused \/ RecvOpen \/ SkipDial
  BY <1>1, <1>8 DEF RecvOpenAgain, RecvOpenRefused, RecvOpen, SkipDial, responder
<1>9. CASE RecvCloseB \/ PeerLeftB
  BY <1>1, <1>9 DEF RecvCloseB, PeerLeftB, CloseB
<1>10. CASE UNCHANGED responder
  BY <1>1, <1>10 DEF responder
<1>11. QED
  BY <1>2, <1>3, <1>4, <1>5, <1>6, <1>7, <1>8, <1>9, <1>10, ResponderKeeps
  DEF Consumer, Connection

\* Only DATA in sequence reaches a service.
LEMMA SvcGotGrows ==
  ASSUME [Next]_vars
  PROVE  RecvDataB \/ UNCHANGED svcGot
BY ResponderKeeps DEF Consumer, Connection, RecvOpenAgain, RecvOpenRefused, RecvOpen,
   StartDial, SkipDial, RecvCloseB, PeerLeftB, DialOk, Announce, DialFails, SvcWrite,
   SvcClose, responder

\* Every step keeps the writes in order.
LEMMA WritesInOrderStep ==
  ASSUME TypeOK, NumbersCountWrites, AppDataNumbered, FlowOfConnection,
         WritesInOrder, [Next]_vars
  PROVE  WritesInOrder'
<1> USE DEF WritesInOrder
<1>0. ctx = "gone" => ctx' = "gone"
  BY CtxStays
<1>1. CASE UNCHANGED svcGot
  BY <1>0, <1>1
<1>2. CASE RecvDataB
  <2> PICK f \in toB : RecvDataB!(f)
    BY <1>2 DEF RecvDataB
  <2>1. CASE flow # NoFlow /\ InSequence(f)
    <3>1. flow.conn \in Conns /\ flow.recv = Len(svcGot[flow.conn])
      BY <2>1 DEF FlowOfConnection, TypeOK, Flows
    <3>2. f.seq = flow.recv /\ f.seq \in Nat /\ f.chunk \in Nat
      BY <2>1, AppFrame DEF InSequence
    <3>3. f.chunk = f.seq + 1 \/ (f.seq = 0 /\ ctx' = "gone")
      BY <1>0 DEF AppDataNumbered
    <3>4. svcGot' = [svcGot EXCEPT ![flow.conn] = Append(@, f.chunk)]
      BY <2>1
    <3>5. \A c \in Conns : c # flow.conn => svcGot'[c] = svcGot[c]
      BY <3>1, <3>4 DEF TypeOK
    <3>6. svcGot'[flow.conn] = Append(svcGot[flow.conn], f.chunk)
      BY <3>1, <3>4 DEF TypeOK
    <3>7. svcGot[flow.conn] \in Seq(Nat \ {0})
      BY <3>1 DEF TypeOK
    <3>8. ASSUME NEW i \in DOMAIN svcGot'[flow.conn]
          PROVE  svcGot'[flow.conn][i] = i \/ (i = 1 /\ ctx' = "gone")
      <4>1. CASE i \in DOMAIN svcGot[flow.conn]
        <5>1. svcGot'[flow.conn][i] = svcGot[flow.conn][i]
          BY <3>6, <3>7, <4>1
        <5>2. QED
          BY <1>0, <3>1, <4>1, <5>1
      <4>2. CASE i \notin DOMAIN svcGot[flow.conn]
        <5>1. i = Len(svcGot[flow.conn]) + 1 /\ svcGot'[flow.conn][i] = f.chunk
          BY <3>6, <3>7, <4>2, <3>2
        <5>2. QED
          BY <3>1, <3>2, <3>3, <5>1
      <4>3. QED
        BY <4>1, <4>2
    <3>9. QED
      BY <1>0, <3>5, <3>8
  <2>2. CASE ~(flow # NoFlow /\ InSequence(f))
    BY <1>1, <2>2
  <2>3. QED
    BY <2>1, <2>2
<1>3. QED
  BY <1>1, <1>2, SvcGotGrows

\* Every step keeps the in-flight mark in line with the dials.
LEMMA OneDialAtATimeStep ==
  ASSUME TypeOK, OneDialAtATime, [Next]_vars
  PROVE  OneDialAtATime'
<1> USE DEF OneDialAtATime, InFlight, TypeOK
<1>1. ASSUME NEW c \in Conns, StartDial(c)
      PROVE  OneDialAtATime'
  BY <1>1 DEF StartDial
<1>2. ASSUME NEW c \in Conns, DialOk(c)
      PROVE  OneDialAtATime'
  BY <1>2 DEF DialOk
<1>3. ASSUME NEW c \in Conns, Announce(c) \/ DialFails(c)
      PROVE  OneDialAtATime'
  <2>1. dial' = [dial EXCEPT ![c] = "reading"] \/ dial' = [dial EXCEPT ![c] = "failed"]
    BY <1>3 DEF Announce, DialFails
  <2>2. connecting' = FALSE /\ InFlight(c)
    BY <1>3 DEF Announce, DialFails
  <2>3. \A d \in Conns : ~InFlight(d)'
    BY <2>1, <2>2
  <2>4. QED
    BY <2>2, <2>3
<1>4. ASSUME NEW c \in Conns, SvcClose(c)
      PROVE  OneDialAtATime'
  BY <1>4 DEF SvcClose
<1>5. CASE UNCHANGED <<connecting, dial>>
  BY <1>5
<1>6. QED
  BY <1>1, <1>2, <1>3, <1>4, <1>5, ResponderKeeps
  DEF Consumer, Connection, RecvOpenAgain, RecvOpenRefused, RecvOpen, SkipDial,
      RecvCloseB, RecvDataB, PeerLeftB, SvcWrite, responder

\* Every OPENED_OK goes on resting on a registered connection.
LEMMA OkMeansServedStep ==
  ASSUME TypeOK, FlowOfConnection, OkMeansServed, [Next]_vars
  PROVE  OkMeansServed'
<1>1. (\E c \in Conns : Registered(c)) => \E c \in Conns : Registered(c)'
  BY RegisteredStays
<1>2. reply' = "ok" => reply = "ok" \/ Ok \in toA
  BY DEF Next, Initiator, Consumer, Connection, OpenTcp, ResendOpen, OpenReturns,
     OpenGivesUp, AppWrite, AppClose, AppAborts, PeerLeftA, RecvOpened, RecvCloseA,
     RecvDataA, RecvOpenAgain, RecvOpenRefused, RecvOpen, StartDial, SkipDial,
     RecvCloseB, RecvDataB, PeerLeftB, DialOk, Announce, DialFails, SvcWrite, SvcClose,
     initiator, vars
<1>3. (Ok \in toA' /\ Ok \notin toA) => \E c \in Conns : Registered(c)'
  <2>1. CASE RecvOpenAgain
    <3>1. flow.conn \in Conns /\ Registered(flow.conn)
      BY <2>1 DEF RecvOpenAgain, FlowOfConnection, TypeOK, Flows
    <3>2. QED
      BY <3>1, RegisteredStays
  <2>2. ASSUME NEW c \in Conns, Announce(c)
        PROVE  Registered(c)'
    BY <2>2 DEF Announce, Registered, TypeOK
  <2>3. CASE toA' \subseteq toA \cup {Close, Fail}
    BY <2>3 DEF Ok, Close, Fail
  <2>4. ASSUME NEW c \in Conns, SvcWrite(c)
        PROVE  Ok \in toA' => Ok \in toA
    BY <2>4 DEF SvcWrite, SvcSend, Data, Ok
  <2>5. QED
    BY <2>1, <2>2, <2>3, <2>4
    DEF Next, Initiator, Consumer, Connection, OpenTcp, SendOpen, ResendOpen,
     OpenReturns, OpenGivesUp, AppWrite, AppClose, AppAborts, PeerLeftA, RecvOpened,
     RecvCloseA, RecvDataA, RecvOpenRefused, RecvOpen, StartDial, SkipDial,
     RecvCloseB, RecvDataB, PeerLeftB, CloseB, DialOk, DialFails, SvcClose, net, vars
<1>4. QED
  BY <1>1, <1>2, <1>3 DEF OkMeansServed

\* A frame of data that the initiator may receive was in flight, or its service
\* has just written it.
LEMMA ToAGrows ==
  ASSUME [Next]_vars, NEW f \in toA', f.type = "DATA"
  PROVE  f \in toA \/ \E c \in Conns : SvcWrite(c)
BY FrameTypes
DEF Next, Initiator, Consumer, Connection, OpenTcp, SendOpen, ResendOpen, OpenReturns,
    OpenGivesUp, AppWrite, AppClose, AppAborts, PeerLeftA, RecvOpened, RecvCloseA,
    RecvDataA, RecvOpenAgain, RecvOpenRefused, RecvOpen, StartDial, SkipDial, RecvCloseB,
    RecvDataB, PeerLeftB, CloseB, DialOk, Announce, DialFails, SvcClose, net, vars

\* The frame that SvcWrite adds.
LEMMA SvcFrameSent ==
  ASSUME TypeOK, NEW c \in Conns, SvcWrite(c), NEW f \in toA', f \notin toA
  PROVE  /\ f.chunk = <<c, svcWrote[c] + 1>>
         /\ f.seq = IF flow # NoFlow THEN flow.send ELSE 0
BY DEF SvcWrite, SvcSend, Data

\* Only a frame of data moves what the application has received.
LEMMA GotGrows ==
  ASSUME [Next]_vars
  PROVE  RecvDataA \/ UNCHANGED <<got, recvSeq>>
BY Keeps DEF Initiator, OpenTcp, ResendOpen, OpenReturns, OpenGivesUp, AppWrite,
   AppClose, AppAborts, PeerLeftA, RecvOpened, RecvCloseA, initiator

\* Data goes on coming from registered connections only.
LEMMA DataFromServiceStep ==
  ASSUME TypeOK, DataFromService, [Next]_vars
  PROVE  DataFromService'
<1>1. ASSUME NEW f \in toA', f.type = "DATA"
      PROVE  Registered(f.chunk[1])'
  <2>1. CASE f \in toA
    <3>1. Registered(f.chunk[1]) /\ f.chunk[1] \in Conns
      BY <1>1, <2>1, SvcFrame DEF DataFromService
    <3>2. QED
      BY <3>1, RegisteredStays
  <2>2. ASSUME NEW c \in Conns, SvcWrite(c), f \notin toA
        PROVE  Registered(f.chunk[1])'
    <3>1. f.chunk[1] = c
      BY <2>2, SvcFrameSent
    <3>2. Registered(c)'
      BY <2>2 DEF SvcWrite, Registered
    <3>3. QED
      BY <3>1, <3>2
  <2>3. QED
    BY <1>1, <2>1, <2>2, ToAGrows
<1>2. ASSUME \A c \in Conns : ~Registered(c)'
      PROVE  got' = << >> /\ recvSeq' = 0
  <2>1. \A c \in Conns : ~Registered(c)
    BY <1>2, RegisteredStays
  <2>2. \A f \in toA : f.type # "DATA"
    BY <2>1, SvcFrame DEF DataFromService
  <2>3. ~RecvDataA
    BY <2>2 DEF RecvDataA
  <2>4. QED
    BY <2>1, <2>3, GotGrows DEF DataFromService
<1>3. QED
  BY <1>1, <1>2 DEF DataFromService

\* An entry that stands after a step stood before it, for the same connection,
\* or the step is the dial that inserted it.
LEMMA FlowStands ==
  ASSUME TypeOK, [Next]_vars, flow' # NoFlow
  PROVE  \/ \E c \in Conns : DialOk(c)
         \/ \E c \in Conns : SvcWrite(c) /\ flow # NoFlow /\ flow'.conn = flow.conn
         \/ /\ flow # NoFlow /\ flow'.conn = flow.conn /\ flow'.send = flow.send
            /\ UNCHANGED svcWrote
<1>1. CASE RecvDataB
  BY <1>1 DEF RecvDataB, CloseB
<1>2. ASSUME NEW c \in Conns, SvcWrite(c)
      PROVE  flow # NoFlow /\ flow'.conn = flow.conn
  BY <1>2 DEF SvcWrite, SvcSend
<1>3. ASSUME NEW c \in Conns, StartDial(c) \/ Announce(c) \/ DialFails(c) \/ SvcClose(c)
      PROVE  UNCHANGED <<flow, svcWrote>>
  BY <1>3 DEF StartDial, Announce, DialFails, SvcClose, CloseB
<1>4. CASE \/ RecvOpenAgain \/ RecvOpenRefused \/ RecvOpen \/ SkipDial
           \/ RecvCloseB \/ PeerLeftB \/ UNCHANGED responder
  BY <1>4 DEF RecvOpenAgain, RecvOpenRefused, RecvOpen, SkipDial, RecvCloseB,
              PeerLeftB, CloseB, responder
<1>5. QED
  BY <1>1, <1>2, <1>3, <1>4, ResponderKeeps DEF Consumer, Connection

\* A flow that has had one entry after a step had no other one before it.
LEMMA OneFlowBefore ==
  ASSUME TypeOK, [Next]_vars, OneFlow'
  PROVE  OneFlow
BY RegisteredStays DEF OneFlow

\* A dial that leaves the flow with one entry only is the first to succeed.
LEMMA FirstDial ==
  ASSUME TypeOK, FlowOfConnection, DataFromService, [Next]_vars, OneFlow',
         NEW c \in Conns, DialOk(c)
  PROVE  /\ \A f \in toA' : f.type # "DATA"
         /\ got' = << >> /\ recvSeq' = 0
         /\ svcWrote'[c] = 0 /\ flow' = [conn |-> c, send |-> 0, recv |-> 0]
<1>1. ~Registered(c) /\ Registered(c)'
  BY DEF DialOk, Registered, TypeOK
<1>2. \A d \in Conns : ~Registered(d)
  BY <1>1, RegisteredStays DEF OneFlow
<1>3. \A f \in toA : f.type # "DATA"
  BY <1>2, SvcFrame DEF DataFromService
<1>4. UNCHANGED <<toA, got, recvSeq, svcWrote>>
  BY DEF DialOk, initiator, net
<1>5. QED
  BY <1>2, <1>3, <1>4 DEF DataFromService, FlowOfConnection, DialOk

\* The only entry goes on numbering the replies.
LEMMA RepliesNumberedStep ==
  ASSUME TypeOK, NumbersCountWrites, FlowOfConnection, DataFromService,
         RepliesNumbered, [Next]_vars
  PROVE  RepliesNumbered'
<1> SUFFICES ASSUME OneFlow', flow' # NoFlow
             PROVE  /\ svcWrote'[flow'.conn] = flow'.send
                    /\ \A f \in toA' : f.type = "DATA" =>
                         f.chunk = <<flow'.conn, f.seq + 1>>
                    /\ ctx' # "gone" /\ app' # "done" => recvSeq' = Len(got')
  BY DEF RepliesNumbered
<1>1. ASSUME NEW c \in Conns, DialOk(c)
      PROVE  /\ svcWrote'[flow'.conn] = flow'.send
             /\ \A f \in toA' : f.type # "DATA"
             /\ recvSeq' = Len(got')
  BY <1>1, FirstDial
<1>2. OneFlow
  BY OneFlowBefore
<1>3. flow # NoFlow => flow \in Flows /\ flow.conn \in Conns /\ flow.send \in Nat
  BY DEF TypeOK, Flows
<1>4. ASSUME flow # NoFlow, NEW c \in Conns, SvcWrite(c)
      PROVE  /\ c = flow.conn /\ flow'.conn = flow.conn
             /\ flow'.send = flow.send + 1 /\ svcWrote'[c] = svcWrote[c] + 1
  BY <1>2, <1>3, <1>4
  DEF OneFlow, FlowOfConnection, SvcWrite, SvcSend, Registered, TypeOK
<1>5. ASSUME flow # NoFlow, flow'.conn = flow.conn
      PROVE  \A f \in toA' : f.type = "DATA" => f.chunk = <<flow'.conn, f.seq + 1>>
  <2> SUFFICES ASSUME NEW f \in toA', f.type = "DATA"
               PROVE  f.chunk = <<flow.conn, f.seq + 1>>
    BY <1>5
  <2>1. CASE f \in toA
    BY <1>2, <1>5, <2>1 DEF RepliesNumbered
  <2>2. ASSUME NEW c \in Conns, SvcWrite(c), f \notin toA
        PROVE  f.chunk = <<flow.conn, f.seq + 1>>
    <3>1. f.chunk = <<c, svcWrote[c] + 1>> /\ f.seq = flow.send
      BY <1>5, <2>2, SvcFrameSent
    <3>2. c = flow.conn /\ svcWrote[c] = flow.send
      BY <1>2, <1>4, <1>5, <2>2 DEF RepliesNumbered
    <3>3. QED
      BY <3>1, <3>2
  <2>3. QED
    BY <2>1, <2>2, ToAGrows
<1>6. ASSUME flow # NoFlow, flow'.conn = flow.conn
      PROVE  ctx' # "gone" /\ app' # "done" => recvSeq' = Len(got')
  <2> SUFFICES ASSUME ctx' # "gone", app' # "done"
               PROVE  recvSeq' = Len(got')
    OBVIOUS
  <2>1. ctx # "gone" /\ app # "done"
    BY CtxStays, DoneStays
  <2>2. recvSeq = Len(got)
    BY <1>2, <1>6, <2>1 DEF RepliesNumbered
  <2>3. CASE RecvDataA
    <3> PICK f \in toA : RecvDataA!(f)
      BY <2>3 DEF RecvDataA
    <3>1. CASE ctx = "live" /\ f.seq = recvSeq
      BY <2>1, <2>2, <3>1, SvcFrame DEF TypeOK
    <3>2. CASE ~(ctx = "live" /\ f.seq = recvSeq)
      BY <2>2, <3>2
    <3>3. QED
      BY <3>1, <3>2
  <2>4. CASE UNCHANGED <<got, recvSeq>>
    BY <2>2, <2>4
  <2>5. QED
    BY <2>3, <2>4, GotGrows
<1>7. ASSUME NEW c \in Conns, SvcWrite(c), flow # NoFlow, flow'.conn = flow.conn
      PROVE  svcWrote'[flow'.conn] = flow'.send
  BY <1>2, <1>4, <1>7 DEF RepliesNumbered
<1>8. ASSUME flow # NoFlow, flow'.conn = flow.conn, flow'.send = flow.send,
             UNCHANGED svcWrote
      PROVE  svcWrote'[flow'.conn] = flow'.send
  BY <1>2, <1>8 DEF RepliesNumbered
<1>9. QED
  BY <1>1, <1>5, <1>6, <1>7, <1>8, FlowStands

\* Every step keeps the reads in order.
LEMMA ReadsInOrderStep ==
  ASSUME TypeOK, FlowOfConnection, DataFromService, RepliesNumbered,
         ReadsInOrder, [Next]_vars
  PROVE  ReadsInOrder'
<1> SUFFICES ASSUME OneFlow', flow' # NoFlow
             PROVE  \A i \in DOMAIN got' : got'[i] = <<flow'.conn, i>>
  BY DEF ReadsInOrder
<1>1. ASSUME NEW c \in Conns, DialOk(c)
      PROVE  got' = << >>
  BY <1>1, FirstDial
<1>2. ASSUME flow # NoFlow, flow'.conn = flow.conn
      PROVE  \A i \in DOMAIN got' : got'[i] = <<flow.conn, i>>
  <2>1. \A i \in DOMAIN got : got[i] = <<flow.conn, i>>
    BY <1>2, OneFlowBefore DEF ReadsInOrder
  <2>2. CASE RecvDataA
    <3> PICK f \in toA : RecvDataA!(f)
      BY <2>2 DEF RecvDataA
    <3>1. CASE ctx = "live" /\ f.seq = recvSeq /\ app # "done"
      <4>1. got' = Append(got, f.chunk) /\ got \in Seq(Conns \X (Nat \ {0}))
        BY <3>1 DEF TypeOK
      <4>2. f.chunk = <<flow.conn, f.seq + 1>> /\ f.seq = Len(got)
        BY <1>2, <3>1, OneFlowBefore DEF RepliesNumbered
      <4>3. ASSUME NEW i \in DOMAIN got'
            PROVE  got'[i] = <<flow.conn, i>>
        <5>1. CASE i \in DOMAIN got
          BY <2>1, <4>1, <5>1
        <5>2. CASE i \notin DOMAIN got
          <6>1. i = Len(got) + 1 /\ got'[i] = f.chunk
            BY <3>1, <4>1, <5>2, SvcFrame
          <6>2. QED
            BY <4>2, <6>1
        <5>3. QED
          BY <5>1, <5>2
      <4>4. QED
        BY <4>3
    <3>2. CASE ~(ctx = "live" /\ f.seq = recvSeq /\ app # "done")
      BY <2>1, <3>2
    <3>3. QED
      BY <3>1, <3>2
  <2>3. CASE UNCHANGED <<got, recvSeq>>
    BY <2>1, <2>3
  <2>4. QED
    BY <2>2, <2>3, GotGrows
<1>3. QED
  BY <1>1, <1>2, FlowStands

\* The invariant holds initially.
LEMMA InitIInv == Init => IInv
<1> SUFFICES ASSUME Init
             PROVE  IInv
  OBVIOUS
<1>1. \A c \in Conns : svcGot[c] = << >> /\ svcWrote[c] = 0 /\ dial[c] = "unused"
  BY DEF Init
<1>2. TypeOK
  BY TypeInit
<1>3. QED
  BY <1>1, <1>2
  DEF Init, IInv, NumbersCountWrites, AppDataNumbered, FlowOfConnection, WritesInOrder,
      OneDialAtATime, InFlight, OkMeansServed, DataFromService, RepliesNumbered,
      ReadsInOrder, OneFlow, Registered

\* The invariant holds throughout.
LEMMA Inductive == Spec => []IInv
<1>1. IInv /\ [Next]_vars => (NumbersCountWrites /\ AppDataNumbered)'
  BY NumbersCountWritesStep, AppDataNumberedStep DEF IInv
<1>2. IInv /\ [Next]_vars => (FlowOfConnection /\ WritesInOrder /\ OneDialAtATime)'
  BY FlowOfConnectionStep, WritesInOrderStep, OneDialAtATimeStep DEF IInv
<1>3. IInv /\ [Next]_vars => (OkMeansServed /\ DataFromService)'
  BY OkMeansServedStep, DataFromServiceStep DEF IInv
<1>4. IInv /\ [Next]_vars => (RepliesNumbered /\ ReadsInOrder)'
  BY RepliesNumberedStep, ReadsInOrderStep DEF IInv
<1>5. IInv /\ TypeOK' /\ [Next]_vars => IInv'
  BY <1>1, <1>2, <1>3, <1>4 DEF IInv
<1>6. QED
  BY <1>5, InitIInv, TypeCorrect, PTL DEF Spec

\* A local service receives what the application wrote, in order and without a
\* gap; only the head of a stream whose entry was lost may be wrong.
THEOREM WritesAlwaysInOrder == Spec => []WritesInOrder
<1>1. IInv => WritesInOrder
  BY DEF IInv
<1>2. QED
  BY <1>1, Inductive, PTL

\* The application receives what the service wrote, in order and without a gap,
\* while the responder's only entry stands.
THEOREM ReadsAlwaysInOrder == Spec => []ReadsInOrder
<1>1. IInv => ReadsInOrder
  BY DEF IInv
<1>2. QED
  BY <1>1, Inductive, PTL

\* Neither direction of a flow has a hole or an exchange.
THEOREM DataAlwaysInOrder == Spec => []DataInOrder
<1>1. WritesInOrder /\ ReadsInOrder => DataInOrder
  BY DEF DataInOrder
<1>2. QED
  BY <1>1, WritesAlwaysInOrder, ReadsAlwaysInOrder, PTL

\* OPENED_OK is only ever the answer of a local service that was reached.
THEOREM OpenedAlwaysServed == Spec => []OpenedMeansServed
<1>1. IInv => OpenedMeansServed
  BY DEF IInv, OkMeansServed, OpenedMeansServed
<1>2. QED
  BY <1>1, Inductive, PTL

\* At most one dial runs at a time, and the in-flight mark says whether one does.
THEOREM AlwaysOneDial == Spec => []OneDialAtATime
<1>1. IInv => OneDialAtATime
  BY DEF IInv
<1>2. QED
  BY <1>1, Inductive, PTL

-------------------------------------------------------------------------------
(***************************************************************************)
(* Flow implements Pipe.                                                   *)
(***************************************************************************)

\* What is read was written, and a chunk is in one frame, or was read, or neither.
WritesOnce ==
  /\ \A f \in toB : f.type = "DATA" =>
       f.chunk <= wrote /\ \A c \in Conns : f.chunk \notin ThePipe!Elements(svcGot[c])
  /\ \A f, g \in toB :
       f.type = "DATA" /\ g.type = "DATA" /\ f.chunk = g.chunk => f = g
  /\ \A c \in Conns : \A k \in ThePipe!Elements(svcGot[c]) : k <= wrote

RepliesOnce ==
  /\ \A f \in toA : f.type = "DATA" =>
       f.chunk[2] <= svcWrote[f.chunk[1]] /\ f.chunk \notin ThePipe!Elements(got)
  /\ \A f, g \in toA :
       f.type = "DATA" /\ g.type = "DATA" /\ f.chunk = g.chunk => f = g
  /\ \A k \in ThePipe!Elements(got) : k[2] <= svcWrote[k[1]]

\* What is read of a stream that goes on by one chunk.
LEMMA ElementsAppended ==
  ASSUME NEW S, NEW s \in Seq(S), NEW x \in S
  PROVE  ThePipe!Elements(Append(s, x)) = ThePipe!Elements(s) \cup {x}
<1>1. /\ DOMAIN Append(s, x) = DOMAIN s \cup {Len(s) + 1}
      /\ \A i \in DOMAIN s : Append(s, x)[i] = s[i]
      /\ Append(s, x)[Len(s) + 1] = x
  OBVIOUS
<1>2. QED
  BY <1>1 DEF ThePipe!Elements

\* The types of what is read.
LEMMA ElementsTyped ==
  ASSUME TypeOK
  PROVE  /\ \A c \in Conns : \A k \in ThePipe!Elements(svcGot[c]) : k \in Nat \ {0}
         /\ \A k \in ThePipe!Elements(got) : k \in Conns \X (Nat \ {0})
<1>1. ASSUME NEW c \in Conns, NEW i \in DOMAIN svcGot[c] PROVE svcGot[c][i] \in Nat \ {0}
  BY <1>1 DEF TypeOK
<1>2. ASSUME NEW i \in DOMAIN got PROVE got[i] \in Conns \X (Nat \ {0})
  BY <1>2 DEF TypeOK
<1>3. QED
  BY <1>1, <1>2 DEF ThePipe!Elements

\* A read that the responder makes: which connection reads which chunk.
LEMMA Delivers ==
  ASSUME TypeOK, NEW f \in toB, flow # NoFlow, f.type = "DATA",
         svcGot' = [svcGot EXCEPT ![flow.conn] = Append(@, f.chunk)]
  PROVE  /\ flow.conn \in Conns /\ f.chunk \in Nat \ {0}
         /\ \A c \in Conns : c # flow.conn => svcGot'[c] = svcGot[c]
         /\ ThePipe!Elements(svcGot'[flow.conn])
            = ThePipe!Elements(svcGot[flow.conn]) \cup {f.chunk}
<1>1. flow.conn \in Conns /\ f.chunk \in Nat \ {0}
  BY AppFrame DEF TypeOK, Flows
<1>2. /\ svcGot'[flow.conn] = Append(svcGot[flow.conn], f.chunk)
      /\ svcGot[flow.conn] \in Seq(Nat \ {0})
      /\ \A c \in Conns : c # flow.conn => svcGot'[c] = svcGot[c]
  BY <1>1 DEF TypeOK
<1>3. QED
  BY <1>1, <1>2, ElementsAppended

LEMMA WritesOnceNext ==
  ASSUME TypeOK, WritesOnce, [Next]_vars
  PROVE  WritesOnce'
<1>1. wrote \in Nat
  BY DEF TypeOK
<1>2. CASE AppWrite
  <2>1. PICK n \in Nat : toB' = toB \cup {Data(n, wrote + 1)} /\ wrote' = wrote + 1
    BY <1>2 DEF AppWrite, TypeOK
  <2>2. Data(n, wrote + 1).chunk = wrote + 1 /\ Data(n, wrote + 1).type = "DATA"
    BY DEF Data
  <2>3. UNCHANGED svcGot
    BY <1>2 DEF AppWrite, responder
  <2>4. \A f \in toB : f.type = "DATA" => f.chunk \in Nat /\ f.chunk <= wrote
    BY AppFrame DEF WritesOnce
  <2>5. \A c \in Conns : \A k \in ThePipe!Elements(svcGot[c]) : k \in Nat /\ k <= wrote
    BY ElementsTyped DEF WritesOnce
  <2>6. /\ \A f \in toB : f.type = "DATA" => f.chunk # wrote + 1 /\ f.chunk <= wrote + 1
        /\ \A c \in Conns : wrote + 1 \notin ThePipe!Elements(svcGot[c])
        /\ \A c \in Conns : \A k \in ThePipe!Elements(svcGot[c]) : k <= wrote + 1
        /\ wrote + 1 <= wrote + 1
    BY <1>1, <2>4, <2>5
  <2>7. QED
    BY <2>1, <2>2, <2>3, <2>6 DEF WritesOnce
<1>3. CASE ~AppWrite
  <2>1. toB' \subseteq toB \cup {Close} /\ Close.type # "DATA"
    BY <1>3, ToBGrows, FrameTypes
  <2>2. UNCHANGED wrote
    BY <1>3, Keeps DEF Initiator, initiator, OpenTcp, ResendOpen, OpenReturns, OpenGivesUp,
       AppClose, AppAborts, PeerLeftA, RecvOpened, RecvCloseA, RecvDataA
  <2>3. CASE UNCHANGED svcGot
    BY <2>1, <2>2, <2>3 DEF WritesOnce
  <2>4. CASE RecvDataB /\ ~UNCHANGED svcGot
    <3>1. PICK f \in toB :
            /\ f.type = "DATA" /\ toB' = toB \ {f} /\ flow # NoFlow
            /\ svcGot' = [svcGot EXCEPT ![flow.conn] = Append(@, f.chunk)]
      BY <2>4 DEF RecvDataB
    <3>2. /\ flow.conn \in Conns
          /\ \A c \in Conns : c # flow.conn => svcGot'[c] = svcGot[c]
          /\ ThePipe!Elements(svcGot'[flow.conn])
             = ThePipe!Elements(svcGot[flow.conn]) \cup {f.chunk}
      BY <3>1, Delivers
    <3>3. \A c \in Conns : \A k \in ThePipe!Elements(svcGot'[c]) :
            k \in ThePipe!Elements(svcGot[c]) \/ k = f.chunk
      BY <3>2
    <3>4. \A g \in toB' : g.type = "DATA" => g \in toB /\ g.chunk # f.chunk
      BY <3>1 DEF WritesOnce
    <3>5. QED
      BY <2>2, <3>1, <3>3, <3>4 DEF WritesOnce
  <2>5. QED
    BY <2>3, <2>4, SvcGotGrows
<1>4. QED
  BY <1>2, <1>3

\* What the services wrote, and what is read of it.
LEMMA SvcWroteGrows ==
  ASSUME [Next]_vars
  PROVE  (\E c \in Conns : SvcWrite(c)) \/ UNCHANGED svcWrote
BY ResponderKeeps DEF Consumer, Connection, RecvOpenAgain, RecvOpenRefused, RecvOpen,
   StartDial, SkipDial, RecvCloseB, RecvDataB, PeerLeftB, DialOk, Announce, DialFails,
   SvcClose, responder

LEMMA RepliesOnceNext ==
  ASSUME TypeOK, RepliesOnce, [Next]_vars
  PROVE  RepliesOnce'
<1>1. \A f \in toA : f.type = "DATA" =>
        f.chunk[1] \in Conns /\ f.chunk[2] \in Nat /\ f.chunk = <<f.chunk[1], f.chunk[2]>>
  BY SvcFrame
<1>2. \A k \in ThePipe!Elements(got) : k[1] \in Conns /\ k[2] \in Nat
  BY ElementsTyped
<1>3. ASSUME NEW c \in Conns, SvcWrite(c) PROVE RepliesOnce'
  <2>1. /\ svcWrote'[c] = svcWrote[c] + 1 /\ svcWrote[c] \in Nat /\ UNCHANGED got
        /\ \A d \in Conns : d # c => svcWrote'[d] = svcWrote[d]
        /\ \A d \in Conns : svcWrote[d] \in Nat
    BY <1>3 DEF SvcWrite, initiator, TypeOK
  <2>2. PICK n : toA' = toA \cup {Data(n, <<c, svcWrote[c] + 1>>)}
    BY <1>3 DEF SvcWrite, SvcSend
  <2>3. Data(n, <<c, svcWrote[c] + 1>>).chunk = <<c, svcWrote[c] + 1>>
    BY DEF Data
  <2>4. /\ \A f \in toA : f.type = "DATA" =>
             f.chunk[2] <= svcWrote'[f.chunk[1]] /\ f.chunk # <<c, svcWrote[c] + 1>>
        /\ \A k \in ThePipe!Elements(got) :
             k[2] <= svcWrote'[k[1]] /\ k # <<c, svcWrote[c] + 1>>
    BY <1>1, <1>2, <2>1 DEF RepliesOnce
  <2>5. svcWrote[c] + 1 <= svcWrote'[c]
    BY <2>1
  <2>6. QED
    BY <2>1, <2>2, <2>3, <2>4, <2>5 DEF RepliesOnce
<1>4. CASE ~\E c \in Conns : SvcWrite(c)
  <2>1. UNCHANGED svcWrote /\ \A f \in toA' : f.type = "DATA" => f \in toA
    BY <1>4, SvcWroteGrows, ToAGrows
  <2>2. CASE UNCHANGED got
    BY <2>1, <2>2 DEF RepliesOnce
  <2>3. CASE RecvDataA /\ ~UNCHANGED got
    <3>1. PICK f \in toA :
            f.type = "DATA" /\ toA' = toA \ {f} /\ got' = Append(got, f.chunk)
      BY <2>3 DEF RecvDataA
    <3>2. got \in Seq(Conns \X (Nat \ {0})) /\ f.chunk \in Conns \X (Nat \ {0})
      BY <3>1, SvcFrame DEF TypeOK
    <3>3. ThePipe!Elements(got') = ThePipe!Elements(got) \cup {f.chunk}
      BY <3>1, <3>2, ElementsAppended
    <3>4. \A g \in toA' : g.type = "DATA" => g \in toA /\ g.chunk # f.chunk
      BY <3>1 DEF RepliesOnce
    <3>5. QED
      BY <2>1, <3>1, <3>3, <3>4 DEF RepliesOnce
  <2>4. QED
    BY <2>2, <2>3, GotGrows
<1>5. QED
  BY <1>3, <1>4

\* The service's end stays torn: no second registration is the first.
LEMMA TornStays ==
  ASSUME TypeOK, [Next]_vars, Torn
  PROVE  Torn'
<1>1. PICK c \in Conns : Registered(c)
  BY DEF Torn
<1>2. Registered(c)'
  BY <1>1, RegisteredStays
<1>3. ASSUME OneFlow', flow' # NoFlow PROVE FALSE
  <2>1. flow = NoFlow
    BY <1>3, OneFlowBefore DEF Torn
  <2>2. PICK d \in Conns : DialOk(d)
    BY <1>3, <2>1, FlowStands
  <2>3. ~Registered(d) /\ Registered(d)'
    BY <2>2 DEF DialOk, Registered, TypeOK
  <2>4. c = d
    BY <1>2, <1>3, <2>3 DEF OneFlow
  <2>5. QED
    BY <1>1, <2>3, <2>4
<1>4. QED
  BY <1>2, <1>3 DEF Torn

\* A step that moves no data and touches one end at most cuts or tears it, or nothing.
LEMMA PipeStandsOrEnds ==
  ASSUME UNCHANGED <<wrote, svcGot, svcWrote, got>>,
         ctx = "gone" => ctx' = "gone", Torn => Torn',
         (ctx = "gone" <=> ctx' = "gone") \/ (Torn <=> Torn')
  PROVE  [ThePipe!Next]_<<wrote, svcGot, ctx = "gone", svcWrote, got, Torn>>
<1> DEFINE gone == ctx = "gone"
<1>1. Torn \in BOOLEAN /\ Torn' \in BOOLEAN /\ gone \in BOOLEAN /\ gone' \in BOOLEAN
  BY DEF Torn
<1>2. CASE gone' = gone /\ Torn' = Torn
  BY <1>2
<1>3. CASE ~gone /\ gone' /\ Torn' = Torn
  BY <1>3 DEF ThePipe!Next, ThePipe!Cut, ThePipe!down
<1>4. CASE ~Torn /\ Torn' /\ gone' = gone
  BY <1>4 DEF ThePipe!Next, ThePipe!Tear, ThePipe!up
<1>5. QED
  BY <1>1, <1>2, <1>3, <1>4

\* A step of the responder that leaves its entry, or the lack of one, and the dials that
\* succeeded as they are tears nothing.
LEMMA TornKept ==
  ASSUME flow = NoFlow <=> flow' = NoFlow,
         \A c \in Conns : Registered(c)' <=> Registered(c)
  PROVE  Torn' = Torn
BY DEF Torn, OneFlow

LEMMA PipeDelivers ==
  ASSUME IInv, IInv', WritesOnce, RecvDataB
  PROVE  [ThePipe!Next]_<<wrote, svcGot, ctx = "gone", svcWrote, got, Torn>>
<1> USE DEF IInv
<1>1. PICK f \in toB : RecvDataB!(f)
  BY DEF RecvDataB
<1>2. UNCHANGED <<initiator, dial, svcWrote>>
  BY <1>1
<1>3. UNCHANGED <<wrote, ctx, got, svcWrote>> /\ \A c \in Conns : Registered(c)' <=> Registered(c)
  BY <1>2 DEF initiator, Registered
<1>4. CASE flow # NoFlow /\ InSequence(f)
  <2>1. /\ flow.conn \in Conns /\ f.chunk \in Nat \ {0}
    BY <1>1, <1>4, AppFrame DEF TypeOK, Flows
  <2>2. flow' = [conn |-> flow.conn, send |-> flow.send, recv |-> flow.recv + 1]
    BY <1>1, <1>4
  <2>3. flow' # NoFlow
    BY <2>2, <1>4, NoFlowAssumption DEF TypeOK, Flows
  <2>4. Torn' = Torn
    BY <1>3, <1>4, <2>3, TornKept
  <2>5. /\ svcGot' = [svcGot EXCEPT ![flow.conn] = Append(@, f.chunk)]
        /\ f.chunk = Len(svcGot[flow.conn]) + 1 \/ (ctx = "gone" /\ svcGot[flow.conn] = << >>)
    <3>1. svcGot[flow.conn] \in Seq(Nat \ {0}) /\ f.seq = Len(svcGot[flow.conn])
      BY <1>4, <2>1 DEF InSequence, FlowOfConnection, TypeOK
    <3>2. f.chunk = f.seq + 1 \/ (f.seq = 0 /\ ctx = "gone")
      BY <1>1 DEF AppDataNumbered
    <3>3. QED
      BY <1>1, <1>4, <3>1, <3>2
  <2>6. f.chunk \in 1 .. wrote /\ \A d \in Conns : f.chunk \notin ThePipe!Elements(svcGot[d])
    BY <1>1, <2>1 DEF WritesOnce, TypeOK
  <2>7. ThePipe!Deliver(flow.conn, f.chunk)
    BY <1>3, <2>4, <2>5, <2>6 DEF ThePipe!Deliver, ThePipe!down
  <2>8. QED
    BY <2>1, <2>6, <2>7 DEF ThePipe!Next
<1>5. CASE ~(flow # NoFlow /\ InSequence(f))
  <2>1. UNCHANGED svcGot
    BY <1>1, <1>5
  <2>2. [Next]_vars
    BY DEF Next, Consumer
  <2>3. QED
    BY <1>3, <2>1, <2>2, TornStays, PipeStandsOrEnds
<1>6. QED
  BY <1>4, <1>5

LEMMA PipeReplies ==
  ASSUME IInv, NEW c \in Conns, SvcWrite(c)
  PROVE  [ThePipe!Next]_<<wrote, svcGot, ctx = "gone", svcWrote, got, Torn>>
<1>1. UNCHANGED <<wrote, ctx, got, svcGot, dial>>
  BY DEF SvcWrite, initiator
<1>2. \A d \in Conns : Registered(d)' <=> Registered(d)
  BY <1>1 DEF Registered
<1>3. flow = NoFlow <=> flow' = NoFlow
  BY NoFlowAssumption DEF SvcWrite, SvcSend, IInv, TypeOK, Flows
<1>4. Torn' = Torn
  BY <1>2, <1>3, TornKept
<1>5. ThePipe!Reply(c)
  BY <1>1, <1>4 DEF SvcWrite, ThePipe!Reply, ThePipe!up
<1>6. QED
  BY <1>5 DEF ThePipe!Next

LEMMA PipeHands ==
  ASSUME IInv, RepliesOnce, RecvDataA
  PROVE  [ThePipe!Next]_<<wrote, svcGot, ctx = "gone", svcWrote, got, Torn>>
<1> USE DEF IInv
<1>1. PICK f \in toA : RecvDataA!(f)
  BY DEF RecvDataA
<1>2. UNCHANGED <<wrote, svcGot, svcWrote>> /\ Torn' = Torn
  BY <1>1 DEF responder, Torn, OneFlow, Registered
<1>3. CASE ctx = "live" /\ f.seq = recvSeq /\ app # "done"
  <2> DEFINE c == f.chunk[1]
             k == f.chunk[2]
  <2>1. c \in Conns /\ k \in Nat \ {0} /\ f.chunk = <<c, k>> /\ Registered(c)
    BY <1>1, SvcFrame DEF DataFromService
  <2>2. got' = Append(got, <<c, k>>) /\ UNCHANGED ctx
    BY <1>1, <1>3, <2>1
  <2>3. k \in 1 .. svcWrote[c] /\ <<c, k>> \notin ThePipe!Elements(got)
    <3>1. f.chunk[2] <= svcWrote[f.chunk[1]] /\ f.chunk \notin ThePipe!Elements(got)
      BY <1>1 DEF RepliesOnce
    <3>2. svcWrote[c] \in Nat
      BY <2>1 DEF TypeOK
    <3>3. <<c, k>> \notin ThePipe!Elements(got)
      BY <2>1, <3>1
    <3>4. k \in 1 .. svcWrote[c]
      BY <2>1, <3>1, <3>2
    <3>5. QED
      BY <3>3, <3>4
  <2>4. ~Torn => k = Len(got) + 1 /\ \A i \in DOMAIN got : got[i] = <<c, i>>
    <3> SUFFICES ASSUME ~Torn PROVE k = Len(got) + 1 /\ \A i \in DOMAIN got : got[i] = <<c, i>>
      OBVIOUS
    <3>1. OneFlow /\ flow # NoFlow
      BY <2>1 DEF Torn
    <3>2. f.chunk = <<flow.conn, f.seq + 1>> /\ recvSeq = Len(got)
      BY <1>1, <1>3, <3>1 DEF RepliesNumbered
    <3>3. c = flow.conn /\ k = Len(got) + 1
      BY <1>3, <3>2
    <3>4. QED
      BY <3>1, <3>3 DEF ReadsInOrder
  <2> HIDE DEF c, k
  <2>5. ThePipe!Hand(c, k)
    BY <1>2, <2>2, <2>3, <2>4 DEF ThePipe!Hand, ThePipe!up
  <2>6. QED
    BY <2>1, <2>3, <2>5 DEF ThePipe!Next
<1>4. CASE ~(ctx = "live" /\ f.seq = recvSeq /\ app # "done")
  <2>1. UNCHANGED got /\ (ctx = "gone" => ctx' = "gone")
    BY <1>1, <1>4 DEF CloseA
  <2>2. QED
    BY <1>2, <2>1, PipeStandsOrEnds
<1>5. QED
  BY <1>3, <1>4

\* Every behaviour of a flow is one of the abstract pipe: each end reads once what the
\* other wrote, from the beginning, in order and without a hole, as long as its own
\* direction was not cut or torn (send_frame, on_frame, handle_open).
THEOREM ImplementsPipe == Spec => PipeSpec
<1>1. Init => ThePipe!Init
  BY DEF Init, ThePipe!Init, Torn, Registered
<1>2. Init => WritesOnce /\ RepliesOnce
  BY DEF Init, WritesOnce, RepliesOnce, ThePipe!Elements
<1>3. IInv /\ WritesOnce /\ RepliesOnce /\ [Next]_vars => (WritesOnce /\ RepliesOnce)'
  BY WritesOnceNext, RepliesOnceNext DEF IInv
<1>4. IInv /\ IInv' /\ WritesOnce /\ RepliesOnce /\ [Next]_vars
      => [ThePipe!Next]_<<wrote, svcGot, ctx = "gone", svcWrote, got, Torn>>
  <2> SUFFICES ASSUME IInv, IInv', WritesOnce, RepliesOnce, [Next]_vars
               PROVE  [ThePipe!Next]_<<wrote, svcGot, ctx = "gone", svcWrote, got, Torn>>
    OBVIOUS
  <2>1. TypeOK /\ NumbersCountWrites
    BY DEF IInv
  <2>2. CASE AppWrite
    <3>1. wrote' = wrote + 1 /\ UNCHANGED <<ctx, got, responder>>
      BY <2>2 DEF AppWrite
    <3>2. UNCHANGED <<svcGot, svcWrote>> /\ Torn' = Torn
      BY <3>1 DEF responder, Torn, OneFlow, Registered
    <3>3. QED
      BY <3>1, <3>2 DEF ThePipe!Next, ThePipe!Write, ThePipe!down
  <2>3. CASE Initiator /\ ~AppWrite /\ ~RecvDataA
    <3>1. UNCHANGED <<wrote, got>> /\ (ctx = "gone" => ctx' = "gone")
      BY <2>1, <2>3, CtxStays DEF Initiator, OpenTcp, ResendOpen, OpenReturns, OpenGivesUp,
         AppClose, AppAborts, PeerLeftA, RecvOpened, RecvCloseA, initiator
    <3>2. UNCHANGED <<svcGot, svcWrote>> /\ Torn' = Torn
      BY <2>3, InitiatorKeeps DEF responder, Torn, OneFlow, Registered
    <3>3. QED
      BY <3>1, <3>2, PipeStandsOrEnds
  <2>4. CASE ~Initiator /\ ~RecvDataB /\ ~\E c \in Conns : SvcWrite(c)
    <3>1. UNCHANGED <<wrote, got, ctx>>
      BY <2>4, Keeps DEF initiator
    <3>2. UNCHANGED <<svcGot, svcWrote>>
      BY <2>4, SvcGotGrows, SvcWroteGrows
    <3>3. QED
      BY <2>1, <3>1, <3>2, TornStays, PipeStandsOrEnds
  <2>5. QED
    BY <2>2, <2>3, <2>4, PipeDelivers, PipeReplies, PipeHands
<1>5. QED
  BY <1>1, <1>2, <1>3, <1>4, InitIInv, Inductive, PTL
  DEF Spec, PipeSpec, ThePipe!Spec, ThePipe!vars
===============================================================================
