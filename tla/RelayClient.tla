----------------------------- MODULE RelayClient -----------------------------
(***************************************************************************)
(* The node's TCP connection to the relay (transport/relay_tcp.rs): dialed  *)
(* on demand, one at a time, its sending end kept in a slot that every      *)
(* sender looks at, its receiving end read by a task of its own.            *)
(*                                                                         *)
(* The tasks that may dial are the consumer of the outgoing queue           *)
(* (engine.rs) and the warming-up that a change of policy starts.  Two      *)
(* more tasks belong to each connection, the read loop and the write loop.  *)
(* They meet in the slot, which has no memory of whose it is: that is where *)
(* they can hurt each other.                                                *)
(*                                                                         *)
(* The relay is the environment.  It acknowledges, forwards frames, answers *)
(* keepalives; it may refuse, give up on a session without closing it,      *)
(* close, or fall silent.                                                   *)
(***************************************************************************)
EXTENDS Naturals, Sequences

CONSTANTS
  Warmers,    \* tasks that dial ahead of need
  MaxConns,   \* bound: connections dialed in a behaviour
  InboxLimit  \* bound: messages received and not read yet

ASSUME ClientBoundsAssumption ==
  MaxConns \in Nat /\ InboxLimit \in Nat \ {0}
ASSUME WarmersAssumption == "queue" \notin Warmers

Tasks == {"queue"} \cup Warmers
Conns == 1 .. MaxConns
None == 0

\* What the read loop meets: an acknowledgement and a frame are taken, the two
\* others make it return (an Error frame; the answer to a keepalive, which no
\* arm of the match names).
Taken == {"ack", "frame"}
Strays == {"resp", "error"}

VARIABLES
  dialer,         \* where a dialing task is in ensure_connected or send
  conn,       \* the connection a dialing task has opened and not stored yet
  connecting, \* the single-flight flag
  slot,       \* the connection whose sending end is stored, or None
  readLoop,     \* read loop: none, reading, leaving (will clear the slot), gone
              \* (has cleared it), deaf (returned without clearing it)
  writeLoop,     \* write loop: none, running, ended
  dialed,     \* number of connections dialed
  \* The relay and the network.
  link,       \* none, open, closed (closed or reset), silent
  session,    \* none, hello, live, muted (the relay reads no more and still sends
              \* what others send here), over (nothing comes any more)
  inbox,      \* messages that arrived and were not read
  late        \* history: connections stored after their read loop was gone

nodeVars == <<dialer, conn, connecting, slot, readLoop, writeLoop, dialed, late>>
relayVars == <<link, session, inbox>>
clientVars == <<dialer, conn, connecting, slot, readLoop, writeLoop, dialed, late,
          link, session, inbox>>

ClientInit ==
  /\ dialer = [t \in Tasks |-> "idle"] /\ conn = [t \in Tasks |-> None]
  /\ connecting = FALSE /\ slot = None /\ dialed = 0
  /\ readLoop = [c \in Conns |-> "none"] /\ writeLoop = [c \in Conns |-> "none"]
  /\ link = [c \in Conns |-> "none"] /\ session = [c \in Conns |-> "none"]
  /\ inbox = [c \in Conns |-> <<>>] /\ late = {}

\* A sending end keeps its write loop alive: the stored one, and the one a task
\* is about to store.
Held(c) == slot = c \/ \E t \in Tasks : conn[t] = c

-----------------------------------------------------------------------------
(***************************************************************************)
(* Dialing: ensure_connected.  send goes on to the slot whatever came of it.*)
(***************************************************************************)
AfterDial(t) == IF t = "queue" THEN "sending" ELSE "idle"

\* A frame for the relay, or a reason to warm up: the slot is looked at, and
\* released.
LookAtSlot(t) ==
  /\ dialer[t] = "idle" /\ (slot = None \/ t = "queue")
  /\ dialer' = [dialer EXCEPT ![t] = IF slot = None THEN "looked" ELSE "sending"]
  /\ UNCHANGED <<conn, connecting, slot, readLoop, writeLoop, dialed, late, relayVars>>

\* Mutant: the flag is raised without asking whether it is up already.
TakeFlagUnguarded(t) ==
  /\ dialer[t] = "looked"
  /\ connecting' = TRUE /\ dialer' = [dialer EXCEPT ![t] = "dialing"]
  /\ UNCHANGED <<conn, slot, readLoop, writeLoop, dialed, late, relayVars>>

\* connecting.swap(true): the task that finds it down dials.
TakeFlag(t) ==
  /\ dialer[t] = "looked"
  /\ connecting' = TRUE
  /\ dialer' = [dialer EXCEPT ![t] = IF connecting THEN AfterDial(t) ELSE "dialing"]
  /\ UNCHANGED <<conn, slot, readLoop, writeLoop, dialed, late, relayVars>>

\* No connection within ten seconds, or none at all, or REGISTER not written.
DialFails(t) ==
  /\ dialer[t] = "dialing"
  /\ connecting' = FALSE /\ dialer' = [dialer EXCEPT ![t] = AfterDial(t)]
  /\ UNCHANGED <<conn, slot, readLoop, writeLoop, dialed, late, relayVars>>

\* Connected, REGISTER written, both loops started.
DialOk(t) ==
  LET c == dialed + 1 IN
  /\ dialer[t] = "dialing" /\ c \in Conns
  /\ dialer' = [dialer EXCEPT ![t] = "started"] /\ conn' = [conn EXCEPT ![t] = c]
  /\ dialed' = c
  /\ readLoop' = [readLoop EXCEPT ![c] = "reading"]
  /\ writeLoop' = [writeLoop EXCEPT ![c] = "running"]
  /\ link' = [link EXCEPT ![c] = "open"] /\ session' = [session EXCEPT ![c] = "hello"]
  /\ UNCHANGED <<connecting, slot, inbox, late>>

\* The flag goes down before the sending end is stored.
ClearFlag(t) ==
  /\ dialer[t] = "started"
  /\ connecting' = FALSE /\ dialer' = [dialer EXCEPT ![t] = "unstored"]
  /\ UNCHANGED <<conn, slot, readLoop, writeLoop, dialed, late, relayVars>>

Store(t) ==
  /\ dialer[t] = "unstored"
  /\ slot' = conn[t] /\ conn' = [conn EXCEPT ![t] = None]
  /\ dialer' = [dialer EXCEPT ![t] = AfterDial(t)]
  /\ late' = IF readLoop[conn[t]] \in {"reading", "leaving"} THEN late ELSE late \cup {conn[t]}
  /\ UNCHANGED <<connecting, readLoop, writeLoop, dialed, relayVars>>

\* The rest of send: the frame is handed over when the slot holds a sending end
\* whose write loop runs, and refused otherwise; either way the state is as it was.
Send ==
  /\ dialer["queue"] = "sending" /\ dialer' = [dialer EXCEPT !["queue"] = "idle"]
  /\ UNCHANGED <<conn, connecting, slot, readLoop, writeLoop, dialed, late, relayVars>>

-----------------------------------------------------------------------------
(* The loops of a connection. *)

\* Mutant: the write loop ends and the socket stays open.
WriteLoopDoneHolding(c) == FALSE

\* All sending ends are dropped: the loop ends and shuts the socket down.
WriteLoopDone(c) ==
  /\ writeLoop[c] = "running" /\ ~Held(c)
  /\ writeLoop' = [writeLoop EXCEPT ![c] = "ended"]
  /\ UNCHANGED <<dialer, conn, connecting, slot, readLoop, dialed, late, relayVars>>

\* A frame or a keepalive cannot be written.
WriteLoopFails(c) ==
  /\ writeLoop[c] = "running" /\ link[c] = "closed"
  /\ writeLoop' = [writeLoop EXCEPT ![c] = "ended"]
  /\ UNCHANGED <<dialer, conn, connecting, slot, readLoop, dialed, late, relayVars>>

Read(c, r) ==
  /\ readLoop[c] = "reading" /\ inbox[c] # <<>>
  /\ inbox' = [inbox EXCEPT ![c] = Tail(@)]
  /\ readLoop' = [readLoop EXCEPT ![c] = r]
  /\ UNCHANGED <<dialer, conn, connecting, slot, writeLoop, dialed, late,
                 link, session>>

\* The acknowledgement is skipped, a frame becomes an event.
ReadTaken(c) == inbox[c] # <<>> /\ Head(inbox[c]) \in Taken /\ Read(c, "reading")

\* Return, with the slot as it is.
ReadStray(c) == inbox[c] # <<>> /\ Head(inbox[c]) \in Strays /\ Read(c, "deaf")

Leave(c) ==
  /\ readLoop' = [readLoop EXCEPT ![c] = "leaving"]
  /\ UNCHANGED <<dialer, conn, connecting, slot, writeLoop, dialed, late, relayVars>>

\* End of stream, or an error.
ReadEnd(c) ==
  /\ readLoop[c] = "reading" /\ inbox[c] = <<>> /\ link[c] = "closed"
  /\ Leave(c)

\* Mutant: no timeout on the read.
ReadIdleNever(c) == FALSE

\* Ninety seconds without a byte.  They cannot pass while keepalives go out
\* and are answered, nor between two steps of the task that dialed.
ReadIdle(c) ==
  /\ readLoop[c] = "reading" /\ inbox[c] = <<>>
  /\ session[c] \in {"muted", "over"} \/ slot # c
  /\ \A t \in Tasks : conn[t] # c
  /\ Leave(c)

\* Mutant: the loop ends without touching the slot.
ClearSlotNot(c) ==
  /\ readLoop[c] = "leaving"
  /\ readLoop' = [readLoop EXCEPT ![c] = "gone"]
  /\ UNCHANGED <<dialer, conn, connecting, slot, writeLoop, dialed, late, relayVars>>

\* The slot is emptied, whatever it holds.
ClearSlot(c) ==
  /\ readLoop[c] = "leaving"
  /\ readLoop' = [readLoop EXCEPT ![c] = "gone"] /\ slot' = None
  /\ UNCHANGED <<dialer, conn, connecting, writeLoop, dialed, late, relayVars>>

-----------------------------------------------------------------------------
(* The relay and the network. *)

Says(c, m) ==
  /\ link[c] = "open" /\ Len(inbox[c]) < InboxLimit
  /\ inbox' = [inbox EXCEPT ![c] = Append(@, m)]

Acknowledges(c) ==
  /\ session[c] = "hello" /\ Says(c, "ack")
  /\ session' = [session EXCEPT ![c] = "live"]
  /\ UNCHANGED <<nodeVars, link>>

Forwards(c) ==
  /\ session[c] \in {"live", "muted"} /\ Says(c, "frame")
  /\ UNCHANGED <<nodeVars, link, session>>

\* keepalive, every second heartbeat, and its answer.  It never dials.
Keepalive(c) ==
  /\ slot = c /\ writeLoop[c] = "running" /\ session[c] = "live" /\ Says(c, "resp")
  /\ UNCHANGED <<nodeVars, link, session>>

\* REGISTER refused: an error and the end.
Refuses(c) ==
  /\ session[c] = "hello" /\ Says(c, "error")
  /\ session' = [session EXCEPT ![c] = "over"] /\ link' = [link EXCEPT ![c] = "closed"]
  /\ UNCHANGED nodeVars

\* The session ends with an error (the computer slept for two minutes): the relay
\* says so, unless its queue is full, reads no more, and leaves both the socket open
\* and its entry in the table (TcpRelay).
GivesUp(c) ==
  /\ session[c] = "live" /\ link[c] = "open"
  /\ Says(c, "error") \/ UNCHANGED inbox
  /\ session' = [session EXCEPT ![c] = "muted"]
  /\ UNCHANGED <<nodeVars, link>>

\* A restart of the relay, a reset, the kick of a newer registration, or the
\* end of the node's stream, which the relay reads.
Closes(c) ==
  /\ link[c] = "open"
  /\ link' = [link EXCEPT ![c] = "closed"] /\ session' = [session EXCEPT ![c] = "over"]
  /\ UNCHANGED <<nodeVars, inbox>>

\* Nothing passes any more, and neither side is told.
FallsSilent(c) ==
  /\ link[c] = "open"
  /\ link' = [link EXCEPT ![c] = "silent"] /\ session' = [session EXCEPT ![c] = "over"]
  /\ UNCHANGED <<nodeVars, inbox>>

-----------------------------------------------------------------------------
TaskSteps(t) ==
  LookAtSlot(t) \/ TakeFlag(t) \/ DialFails(t) \/ DialOk(t) \/ ClearFlag(t) \/ Store(t)

LoopSteps(c) ==
  \/ WriteLoopDone(c) \/ WriteLoopFails(c)
  \/ ReadTaken(c) \/ ReadStray(c) \/ ReadEnd(c) \/ ReadIdle(c) \/ ClearSlot(c)

RelaySteps(c) ==
  \/ Acknowledges(c) \/ Forwards(c) \/ Keepalive(c) \/ Refuses(c) \/ GivesUp(c)
  \/ Closes(c) \/ FallsSilent(c)

ClientNext ==
  \/ \E t \in Tasks : TaskSteps(t)
  \/ Send
  \/ \E c \in Conns : LoopSteps(c) \/ RelaySteps(c)

ClientSpec == ClientInit /\ [][ClientNext]_clientVars

\* Dials end, tasks that run go on, timers fire.  The relay reads the end of the
\* node's stream while it serves the session, and then closes.  Nothing obliges it to
\* answer, forward or acknowledge, nor to close a session it gave up.
ClientFairness ==
  /\ \A t \in Tasks :
       /\ WF_clientVars(DialFails(t) \/ DialOk(t))
       /\ WF_clientVars(ClearFlag(t)) /\ WF_clientVars(Store(t))
  /\ \A c \in Conns :
       /\ WF_clientVars(WriteLoopDone(c))
       /\ WF_clientVars(/\ writeLoop[c] = "ended" /\ readLoop[c] = "reading"
                         /\ session[c] \in {"hello", "live"} /\ Closes(c))
       /\ WF_clientVars(ReadTaken(c) \/ ReadStray(c)) /\ WF_clientVars(ReadEnd(c) \/ ReadIdle(c))
       /\ WF_clientVars(ClearSlot(c))

ClientFairSpec == ClientSpec /\ ClientFairness

-----------------------------------------------------------------------------
(* Properties. *)

Dialing(t) == dialer[t] \in {"dialing", "started"}

\* Two callers never dial at the same time, and the flag is up exactly while
\* one does ("single-flight", ensure_connected).
OneDialAtATime ==
  /\ \A s, t \in Tasks : Dialing(s) /\ Dialing(t) => s = t
  /\ connecting <=> \E t \in Tasks : Dialing(t)

\* Types; a task holds a connection exactly between opening and storing it, the
\* dialed connections are the ones with loops, and the flag tells whether one dials.
ClientTypeOK ==
  /\ dialer \in [Tasks -> {"idle", "looked", "dialing", "started", "unstored", "sending"}]
  /\ conn \in [Tasks -> Conns \cup {None}]
  /\ \A t \in Tasks : conn[t] # None <=> dialer[t] \in {"started", "unstored"}
  /\ connecting \in BOOLEAN
  /\ slot \in Conns \cup {None}
  /\ dialed \in 0 .. MaxConns
  /\ readLoop \in [Conns -> {"none", "reading", "leaving", "gone", "deaf"}]
  /\ writeLoop \in [Conns -> {"none", "running", "ended"}]
  /\ \A c \in Conns : readLoop[c] = "none" <=> c > dialed
  /\ link \in [Conns -> {"none", "open", "closed", "silent"}]
  /\ session \in [Conns -> {"none", "hello", "live", "muted", "over"}]
  /\ inbox \in [Conns -> Seq(Taken \cup Strays)]
  /\ late \subseteq Conns
  /\ OneDialAtATime

\* The slot holds a connection that nobody reads only in two ways: its read loop
\* met a message that makes it return, or ended before the dialer stored the
\* sending end.  A loop that times out or sees the end of the stream leaves no
\* such slot behind, whatever other connections come and go meanwhile.
DeadSlotExplained ==
  slot # None => readLoop[slot] \in {"reading", "leaving", "deaf"} \/ slot \in late

\* What the callers rely on: while the connection in the slot is one the relay
\* serves, its read loop runs ("sends fine, receives nothing, a zombie
\* connection" is what the arm for the acknowledgement was added against).
SlotIsHeard ==
  slot # None /\ session[slot] = "live" => readLoop[slot] \in {"reading", "leaving"}

\* The flag does not stay up: a dial ends, successfully or not.
DialEnds == connecting ~> ~connecting

\* A dead connection is noticed: the slot gives it up, provided its read loop
\* runs and has no message that makes it return before it.
LossDetected ==
  \A c \in Conns :
    (/\ slot = c /\ readLoop[c] = "reading" /\ link[c] \in {"closed", "silent"}
     /\ \A i \in 1 .. Len(inbox[c]) : inbox[c][i] \in Taken)
    ~> slot # c

\* A connection whose sending end was dropped, by a newer one or by the loop of
\* another connection, leaves no task behind in the node: both loops end, but for a
\* read loop of a session that the relay gave up, which goes on while frames of others
\* come.  What is left at the relay is another matter (DeadLinkReleased of TcpRelay).
OrphansEnd ==
  \A c \in Conns :
    (writeLoop[c] = "running" /\ ~Held(c))
    ~> (writeLoop[c] = "ended" /\ (readLoop[c] # "reading" \/ session[c] = "muted"))

\* In the node no dial and no abandoned connection lasts for ever.
NothingLingers == DialEnds /\ OrphansEnd
=============================================================================
