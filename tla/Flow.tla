--------------------------------- MODULE Flow ---------------------------------
(***************************************************************************)
(* One TCP flow of the FLOW sub-protocol (skiff-node/src/flow.rs): a byte   *)
(* stream between an application at the initiator and a local service at    *)
(* the responder, carried in frames over the mesh.                          *)
(*                                                                         *)
(* The initiator re-sends OPEN until it is answered; the responder dials    *)
(* the exposed local service and answers OPENED_OK or OPENED_FAIL; DATA     *)
(* frames carry a sequence number and a receiver that meets a number it     *)
(* does not expect tears the flow down with CLOSE.  Nothing is             *)
(* retransmitted but OPEN.                                                  *)
(*                                                                         *)
(* The network loses and reorders frames (UDP paths, a path that changes    *)
(* under the flow) and never duplicates one, since the wire layer's replay  *)
(* window drops copies.  A frame that is never delivered is lost.           *)
(*                                                                         *)
(* The responder handles frames in one consumer task; each dial and the     *)
(* read loop it turns into is a task of its own, on another thread.         *)
(***************************************************************************)
EXTENDS Naturals, Sequences, Functions

CONSTANTS
  Conns,      \* local connections the responder may dial
  NoFlow,     \* no entry for the flow in the responder's table
  MaxOpens,   \* bound: OPEN frames the initiator sends
  MaxWrites,  \* bound: chunks the application writes
  MaxReplies  \* bound: chunks the local service writes, on all connections

ASSUME BoundsAssumption ==
  /\ MaxOpens \in Nat
  /\ MaxWrites \in Nat
  /\ MaxReplies \in Nat

\* A chunk of the application is its position in what it wrote; a chunk of the
\* service is named by its connection and its position there.
AppData == [type : {"DATA"}, seq : Nat, chunk : Nat \ {0}]
SvcData == [type : {"DATA"}, seq : Nat, chunk : Conns \X (Nat \ {0})]

Close == [type |-> "CLOSE"]
Ok    == [type |-> "OPENED_OK"]
Fail  == [type |-> "OPENED_FAIL"]
Data(s, c) == [type |-> "DATA", seq |-> s, chunk |-> c]

\* The responder's FlowCtx: the connection its InTcp writer feeds and the two
\* sequence counters.
Flows == [conn : Conns, send : Nat, recv : Nat]

ASSUME NoFlowAssumption == NoFlow \notin Flows

VARIABLES
  \* Initiator.
  app,       \* the caller: "idle", "opening", "streaming" or "done"
  ctx,       \* the flow's table entry: "none", "live" or "gone"
  reply,     \* the oneshot: "waiting", "ok" or "fail"
  sendSeq,   \* next_send_seq of the entry
  recvSeq,   \* next_recv_seq of the entry
  wrote,     \* chunks the application has written
  got,       \* chunks handed to the application
  \* Responder.
  flow,      \* the flow's table entry
  connecting,\* the flow is in the table of dials in flight
  consumer,  \* the consumer task: "idle" or "opening", inside handle_open
  dial,      \* each dial's task: "unused", "dialing", "registered",
             \* "reading", "failed" or "closed"
  svcGot,    \* chunks handed to each local connection
  svcWrote,  \* chunks the service wrote on each local connection
  \* Network.
  opens,     \* OPEN frames in flight
  toB, toA,  \* the other frames in flight, by direction
  opened     \* OPEN frames sent so far (bound only)

\* History, read by no guard: why each side's table entry was last removed.
VARIABLES endA, endB

initiator == <<app, ctx, reply, sendSeq, recvSeq, wrote, got>>
responder == <<flow, connecting, consumer, dial, svcGot, svcWrote>>
net == <<opens, toB, toA, opened>>
vars == <<initiator, responder, net, endA, endB>>

Init ==
  /\ app = "idle" /\ ctx = "none" /\ reply = "waiting"
  /\ sendSeq = 0 /\ recvSeq = 0
  /\ wrote = 0 /\ got = << >>
  /\ flow = NoFlow /\ connecting = FALSE /\ consumer = "idle"
  /\ dial = [c \in Conns |-> "unused"]
  /\ svcGot = [c \in Conns |-> << >>]
  /\ svcWrote = [c \in Conns |-> 0]
  /\ opens = 0 /\ toB = {} /\ toA = {} /\ opened = 0
  /\ endA = "open" /\ endB = "open"

-------------------------------------------------------------------------------
(***************************************************************************)
(* The initiator.                                                          *)
(***************************************************************************)

SendOpen ==
  /\ opened < MaxOpens
  /\ opened' = opened + 1
  /\ opens' = opens + 1
  /\ UNCHANGED <<toB, toA>>

\* close_flow(id, true): removes the entry, if there is one, and tells the peer.
CloseA(why) ==
  IF ctx = "live"
  THEN ctx' = "gone" /\ endA' = why /\ toB' = toB \cup {Close}
  ELSE UNCHANGED <<ctx, endA, toB>>

\* open_tcp inserts the entry and sends the first OPEN.
OpenTcp ==
  /\ app = "idle"
  /\ app' = "opening" /\ ctx' = "live"
  /\ SendOpen
  /\ UNCHANGED <<reply, sendSeq, recvSeq, wrote, got, responder, endA, endB>>

\* The resend task, every 700ms while the entry waits for its answer.
ResendOpen ==
  /\ ctx = "live" /\ reply = "waiting"
  /\ SendOpen
  /\ UNCHANGED <<initiator, responder, endA, endB>>

\* open_tcp returns the stream.
OpenReturns ==
  /\ app = "opening" /\ reply = "ok"
  /\ app' = "streaming"
  /\ UNCHANGED <<ctx, reply, sendSeq, recvSeq, wrote, got, responder, net,
                 endA, endB>>

\* open_tcp gives up: refused, timed out, or its entry was removed under it.
OpenGivesUp ==
  /\ app = "opening" /\ reply # "ok"
  /\ app' = "done"
  /\ CloseA("app")
  /\ UNCHANGED <<reply, sendSeq, recvSeq, wrote, got, responder,
                 opens, toA, opened, endB>>

\* FlowStream::write: a chunk takes the entry's next number, and number 0 when
\* the entry is no longer in the table.
AppWrite ==
  /\ app = "streaming" /\ wrote < MaxWrites
  /\ wrote' = wrote + 1
  /\ IF ctx = "live"
     THEN /\ toB' = toB \cup {Data(sendSeq, wrote + 1)}
          /\ sendSeq' = sendSeq + 1
     ELSE /\ toB' = toB \cup {Data(0, wrote + 1)}
          /\ UNCHANGED sendSeq
  /\ UNCHANGED <<app, ctx, reply, recvSeq, got, responder,
                 opens, toA, opened, endA, endB>>

\* The upload task meets the end of the application's stream: FlowStream::close.
AppClose ==
  /\ app = "streaming"
  /\ app' = "done"
  /\ CloseA("app")
  /\ UNCHANGED <<reply, sendSeq, recvSeq, wrote, got, responder,
                 opens, toA, opened, endB>>

\* The download loop ends, at the end of the flow or on a failed local write,
\* and aborts the upload task: no close is sent.
AppAborts ==
  /\ app = "streaming"
  /\ app' = "done"
  /\ UNCHANGED <<ctx, reply, sendSeq, recvSeq, wrote, got, responder, net,
                 endA, endB>>

\* close_peer: the peer left the network, as the initiator sees it.
PeerLeftA ==
  /\ ctx = "live"
  /\ CloseA("roster")
  /\ UNCHANGED <<app, reply, sendSeq, recvSeq, wrote, got, responder,
                 opens, toA, opened, endB>>

-------------------------------------------------------------------------------
(***************************************************************************)
(* Frames that reach the initiator (on_frame).                             *)
(***************************************************************************)

\* OPENED_OK and OPENED_FAIL: the first one is the answer, others find the
\* oneshot taken.
RecvOpened ==
  \E f \in toA \cap {Ok, Fail} :
    /\ toA' = toA \ {f}
    /\ reply' = IF ctx = "live" /\ reply = "waiting"
                THEN IF f = Ok THEN "ok" ELSE "fail"
                ELSE reply
    /\ UNCHANGED <<app, ctx, sendSeq, recvSeq, wrote, got, responder,
                   opens, toB, opened, endA, endB>>

RecvCloseA ==
  /\ Close \in toA
  /\ toA' = toA \ {Close}
  /\ IF ctx = "live"
     THEN ctx' = "gone" /\ endA' = "peer"
     ELSE UNCHANGED <<ctx, endA>>
  /\ UNCHANGED <<app, reply, sendSeq, recvSeq, wrote, got, responder,
                 opens, toB, opened, endB>>

\* DATA with the expected number is handed on; any other number ends the flow.
RecvDataA ==
  \E f \in toA :
    /\ f.type = "DATA"
    /\ toA' = toA \ {f}
    /\ IF ctx = "live" /\ f.seq = recvSeq
       THEN /\ recvSeq' = recvSeq + 1
            /\ got' = IF app = "done" THEN got ELSE Append(got, f.chunk)
            /\ UNCHANGED <<ctx, endA, toB>>
       ELSE /\ CloseA("gap")
            /\ UNCHANGED <<recvSeq, got>>
    /\ UNCHANGED <<app, reply, sendSeq, wrote, responder, opens, opened, endB>>

-------------------------------------------------------------------------------
(***************************************************************************)
(* The responder's consumer task (on_frame, handle_open).                  *)
(***************************************************************************)

\* Removal of the responder's entry; notify adds a CLOSE for the initiator.
CloseB(why, notify) ==
  IF flow # NoFlow
  THEN /\ flow' = NoFlow /\ endB' = why
       /\ toA' = IF notify THEN toA \cup {Close} ELSE toA
  ELSE UNCHANGED <<flow, endB, toA>>

\* An OPEN for a flow that is established is answered again.
RecvOpenAgain ==
  /\ consumer = "idle" /\ opens > 0 /\ flow # NoFlow
  /\ opens' = opens - 1
  /\ toA' = toA \cup {Ok}
  /\ UNCHANGED <<initiator, responder, toB, opened, endA, endB>>

\* An OPEN while no rule exposes the port.
RecvOpenRefused ==
  /\ consumer = "idle" /\ opens > 0 /\ flow = NoFlow
  /\ opens' = opens - 1
  /\ toA' = toA \cup {Fail}
  /\ UNCHANGED <<initiator, responder, toB, opened, endA, endB>>

\* An OPEN for an unknown flow: the table has been read, the in-flight mark has
\* not been set yet.
RecvOpen ==
  /\ consumer = "idle" /\ opens > 0 /\ flow = NoFlow
  /\ opens' = opens - 1
  /\ consumer' = "opening"
  /\ UNCHANGED <<initiator, flow, connecting, dial, svcGot, svcWrote,
                 toB, toA, opened, endA, endB>>

\* Mutant: connecting.insert's result is ignored.
StartDialUnguarded(c) ==
  /\ consumer = "opening" /\ dial[c] = "unused"
  /\ consumer' = "idle" /\ connecting' = TRUE
  /\ dial' = [dial EXCEPT ![c] = "dialing"]
  /\ UNCHANGED <<initiator, flow, svcGot, svcWrote, net, endA, endB>>

\* connecting.insert finds no mark: a task dials the local service.
StartDial(c) ==
  /\ consumer = "opening" /\ ~connecting /\ dial[c] = "unused"
  /\ consumer' = "idle" /\ connecting' = TRUE
  /\ dial' = [dial EXCEPT ![c] = "dialing"]
  /\ UNCHANGED <<initiator, flow, svcGot, svcWrote, net, endA, endB>>

\* connecting.insert finds the mark: a dial is in flight, the OPEN is ignored.
\* (Bound: so is an OPEN when every connection of the instance is used up.)
SkipDial ==
  /\ consumer = "opening"
  /\ connecting \/ \A c \in Conns : dial[c] # "unused"
  /\ consumer' = "idle"
  /\ UNCHANGED <<initiator, flow, connecting, dial, svcGot, svcWrote, net,
                 endA, endB>>

\* CLOSE removes the entry; a dial in flight is left alone.
RecvCloseB ==
  /\ consumer = "idle" /\ Close \in toB
  /\ toB' = toB \ {Close}
  /\ CloseB("peer", FALSE)
  /\ UNCHANGED <<initiator, connecting, consumer, dial, svcGot, svcWrote,
                 opens, opened, endA>>

\* Mutant: a number ahead of the expected one is accepted.
InSequenceLoose(f) == f.seq >= flow.recv

\* The frame carries exactly the number the entry expects.
InSequence(f) == f.seq = flow.recv

RecvDataB ==
  \E f \in toB :
    /\ consumer = "idle" /\ f.type = "DATA"
    /\ toB' = toB \ {f}
    /\ IF flow # NoFlow /\ InSequence(f)
       THEN /\ flow' = [conn |-> flow.conn, send |-> flow.send, recv |-> flow.recv + 1]
            /\ svcGot' = [svcGot EXCEPT ![flow.conn] = Append(@, f.chunk)]
            /\ UNCHANGED <<endB, toA>>
       ELSE /\ CloseB("gap", TRUE)
            /\ UNCHANGED svcGot
    /\ UNCHANGED <<initiator, connecting, consumer, dial, svcWrote,
                   opens, opened, endA>>

\* close_peer: the peer left the network, as the responder sees it.
PeerLeftB ==
  /\ flow # NoFlow
  /\ CloseB("roster", TRUE)
  /\ UNCHANGED <<initiator, connecting, consumer, dial, svcGot, svcWrote,
                 opens, toB, opened, endA>>

-------------------------------------------------------------------------------
(***************************************************************************)
(* The task of a dial, then the read loop of its connection.               *)
(***************************************************************************)

\* Mutant: an entry that replaces another goes on with its numbers.
DialOkContinues(c) ==
  /\ dial[c] = "dialing"
  /\ dial' = [dial EXCEPT ![c] = "registered"]
  /\ flow' = IF flow = NoFlow THEN [conn |-> c, send |-> 0, recv |-> 0]
             ELSE [flow EXCEPT !.conn = c]
  /\ UNCHANGED <<initiator, connecting, consumer, svcGot, svcWrote, net,
                 endA, endB>>

\* The service accepts: the entry is inserted, over any entry of the same id.
DialOk(c) ==
  /\ dial[c] = "dialing"
  /\ dial' = [dial EXCEPT ![c] = "registered"]
  /\ flow' = [conn |-> c, send |-> 0, recv |-> 0]
  /\ UNCHANGED <<initiator, connecting, consumer, svcGot, svcWrote, net,
                 endA, endB>>

\* The in-flight mark is cleared and OPENED_OK sent.
Announce(c) ==
  /\ dial[c] = "registered"
  /\ dial' = [dial EXCEPT ![c] = "reading"]
  /\ connecting' = FALSE
  /\ toA' = toA \cup {Ok}
  /\ UNCHANGED <<initiator, flow, consumer, svcGot, svcWrote,
                 opens, toB, opened, endA, endB>>

\* Mutant: the in-flight mark survives a failed dial.
DialFailsMarked(c) ==
  /\ dial[c] = "dialing"
  /\ dial' = [dial EXCEPT ![c] = "failed"]
  /\ toA' = toA \cup {Fail}
  /\ UNCHANGED <<initiator, flow, connecting, consumer, svcGot, svcWrote,
                 opens, toB, opened, endA, endB>>

\* The service refuses, or does not accept within 5s.
DialFails(c) ==
  /\ dial[c] = "dialing"
  /\ dial' = [dial EXCEPT ![c] = "failed"]
  /\ connecting' = FALSE
  /\ toA' = toA \cup {Fail}
  /\ UNCHANGED <<initiator, flow, consumer, svcGot, svcWrote,
                 opens, toB, opened, endA, endB>>

\* send_frame of a chunk read from connection c: numbered by whatever entry is
\* in the table, 0 when there is none.
SvcSend(c) ==
  IF flow # NoFlow
  THEN /\ toA' = toA \cup {Data(flow.send, <<c, svcWrote[c] + 1>>)}
       /\ flow' = [conn |-> flow.conn, send |-> flow.send + 1, recv |-> flow.recv]
  ELSE /\ toA' = toA \cup {Data(0, <<c, svcWrote[c] + 1>>)}
       /\ UNCHANGED flow

\* Bound on what the service writes, on all connections together.
RepliesLeft == FoldFunction(+, 0, svcWrote) < MaxReplies

\* The read loop forwards one chunk.
SvcWrite(c) ==
  /\ dial[c] = "reading" /\ RepliesLeft
  /\ svcWrote' = [svcWrote EXCEPT ![c] = @ + 1]
  /\ SvcSend(c)
  /\ UNCHANGED <<initiator, connecting, consumer, dial, svcGot,
                 opens, toB, opened, endA, endB>>

\* The service closes its end: the loop closes the flow of that id.
SvcClose(c) ==
  /\ dial[c] = "reading"
  /\ dial' = [dial EXCEPT ![c] = "closed"]
  /\ CloseB("eof", TRUE)
  /\ UNCHANGED <<initiator, connecting, consumer, svcGot, svcWrote,
                 opens, toB, opened, endA>>

-------------------------------------------------------------------------------
Initiator ==
  \/ OpenTcp \/ ResendOpen \/ OpenReturns \/ OpenGivesUp
  \/ AppWrite \/ AppClose \/ AppAborts \/ PeerLeftA
  \/ RecvOpened \/ RecvCloseA \/ RecvDataA

Consumer ==
  \/ RecvOpenAgain \/ RecvOpenRefused \/ RecvOpen
  \/ (\E c \in Conns : StartDial(c)) \/ SkipDial
  \/ RecvCloseB \/ RecvDataB \/ PeerLeftB

Connection(c) ==
  DialOk(c) \/ Announce(c) \/ DialFails(c) \/ SvcWrite(c) \/ SvcClose(c)

Next == Initiator \/ Consumer \/ (\E c \in Conns : Connection(c))

Spec == Init /\ [][Next]_vars

\* A dial ends within its 5s timeout and its task then runs on; the consumer
\* never waits inside handle_open.
Fairness ==
  /\ \A c \in Conns : WF_vars(DialOk(c) \/ DialFails(c)) /\ WF_vars(Announce(c))
  /\ WF_vars((\E c \in Conns : StartDial(c)) \/ SkipDial)

FairSpec == Spec /\ Fairness

-------------------------------------------------------------------------------
(***************************************************************************)
(* Properties.                                                             *)
(***************************************************************************)

\* Every variable keeps its type.
TypeOK ==
  /\ app \in {"idle", "opening", "streaming", "done"}
  /\ ctx \in {"none", "live", "gone"}
  /\ reply \in {"waiting", "ok", "fail"}
  /\ sendSeq \in Nat /\ recvSeq \in Nat /\ wrote \in Nat
  /\ got \in Seq(Conns \X (Nat \ {0}))
  /\ flow \in Flows \cup {NoFlow}
  /\ connecting \in BOOLEAN
  /\ consumer \in {"idle", "opening"}
  /\ dial \in [Conns -> {"unused", "dialing", "registered", "reading",
                         "failed", "closed"}]
  /\ svcGot \in [Conns -> Seq(Nat \ {0})]
  /\ svcWrote \in [Conns -> Nat]
  /\ opens \in Nat /\ opened \in Nat
  /\ toB \subseteq AppData \cup {Close}
  /\ toA \subseteq SvcData \cup {Close, Ok, Fail}
  /\ endA \in {"open", "app", "peer", "gap", "roster"}
  /\ endB \in {"open", "eof", "peer", "gap", "roster"}

\* What a local service receives is what the application wrote, from its first
\* chunk on and with none missing, whatever the network loses or reorders and
\* however often the flow is dialed again.  The first chunk alone may be a later
\* one, and only when the initiator has lost its entry (send_frame, on_frame).
WritesInOrder ==
  \A c \in Conns : \A i \in DOMAIN svcGot[c] :
    svcGot[c][i] = i \/ (i = 1 /\ ctx = "gone")

Registered(c) == dial[c] \in {"registered", "reading", "closed"}

\* The flow has had one entry only at the responder.
OneFlow == \A c, d \in Conns : Registered(c) /\ Registered(d) => c = d

\* In the other direction: as long as the responder's only entry stands, what
\* the application receives is what the service wrote, in order, none missing.
ReadsInOrder ==
  OneFlow /\ flow # NoFlow =>
    \A i \in DOMAIN got : got[i] = <<flow.conn, i>>

\* Neither end is ever handed a hole or an exchange in the stream (on_frame).
DataInOrder == WritesInOrder /\ ReadsInOrder

\* The responder's entry was removed, or its connection replaced by another one.
Torn == (\E c \in Conns : Registered(c)) /\ ~(OneFlow /\ flow # NoFlow)

\* The flow keeps the promise of the abstract pipe.
ThePipe == INSTANCE Pipe WITH
  delivered <- svcGot, cut <- (ctx = "gone"),
  replied <- svcWrote, handed <- got, torn <- Torn
PipeSpec == ThePipe!Spec

\* OPENED_OK reports a connection: an application that gets its stream has, or
\* had, a local service at the other end (handle_open answers after the dial).
OpenedMeansServed == reply = "ok" => \E c \in Conns : Registered(c)

InFlight(c) == dial[c] \in {"dialing", "registered"}

\* The in-flight mark stands for exactly one dial: a repeated OPEN never starts
\* a second one next to it, and no dial runs unmarked (connecting).
OneDialAtATime ==
  /\ \A c, d \in Conns : InFlight(c) /\ InFlight(d) => c = d
  /\ connecting <=> \E c \in Conns : InFlight(c)

\* The in-flight mark is always cleared, so that a later OPEN can dial again.
DialEnds == connecting ~> ~connecting

-------------------------------------------------------------------------------
(***************************************************************************)
(* A claim of the repository that the code does not keep.                   *)
(***************************************************************************)

\* README.md:314: a lost chunk shows as a broken connection and never as wrong
\* data.  Here: a flow that ends with the service's own end of stream, and on
\* which neither side saw a gap, has delivered all the service wrote.
CleanEndIsComplete ==
  OneFlow /\ endA = "peer" /\ endB = "eof" /\ app = "streaming" =>
    \A c \in Conns : Registered(c) => Len(got) = svcWrote[c]
===============================================================================
