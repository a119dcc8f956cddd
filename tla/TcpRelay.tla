------------------------------ MODULE TcpRelay ------------------------------
(***************************************************************************)
(* The relay's side of the TCP links (skiff-server/src/relay/tcp_relay.rs): *)
(* one handler task per accepted connection, a write loop behind a bounded  *)
(* queue, the table of the connection each device is registered with, and   *)
(* the admission counters that bound the connections.                       *)
(*                                                                         *)
(* Handlers run in parallel.  The table and the per-address counters are    *)
(* concurrent maps: each call is atomic, and between two calls anything may *)
(* happen.  One address is modelled; the counters of others do not meet.    *)
(*                                                                         *)
(* The client is the environment: it sends what it likes, closes, or falls  *)
(* silent.                                                                  *)
(***************************************************************************)
EXTENDS Naturals, Sequences, FiniteSets

CONSTANTS
  Handlers,   \* connections accepted in a behaviour
  Devices,    \* devices that register
  NoHandler,
  Queue,      \* RELAY_TCP_QUEUE_FRAMES: depth of a write queue
  MaxPerIp,   \* MAX_CONNS_PER_IP
  MaxTotal,   \* MAX_CONNS_TOTAL
  Modulus     \* counters of an address are 32-bit: 2^32

ASSUME NoneAssumption == NoHandler \notin Handlers
ASSUME BoundsAssumption ==
  /\ Queue \in Nat \ {0} /\ MaxPerIp \in Nat \ {0} /\ MaxTotal \in Nat \ {0}
  /\ Modulus \in Nat /\ Modulus > MaxPerIp /\ Modulus > 1
ASSUME FiniteAssumption == IsFiniteSet(Handlers)

Absent == Modulus  \* the address has no counter

VARIABLES
  pc,     \* where a handler is
  dev,    \* the device it authenticated
  table,  \* connections: the handler whose queue frames of a device go to
  queue,  \* what waits in a handler's write queue
  writer, \* its write loop: none, running, ended
  sock,   \* its socket, seen from the client: open, closed, silent
  total,  \* conn_total
  perIp,  \* conn_per_ip of the address, or Absent
  failed  \* history: handlers whose session ended in error

vars == <<pc, dev, table, queue, writer, sock, total, perIp, failed>>

Init ==
  /\ pc = [h \in Handlers |-> "none"]
  /\ dev \in [Handlers -> Devices]
  /\ table = [d \in Devices |-> NoHandler]
  /\ queue = [h \in Handlers |-> <<>>] /\ writer = [h \in Handlers |-> "none"]
  /\ sock = [h \in Handlers |-> "open"]
  /\ total = 0 /\ perIp = Absent /\ failed = {}

Goes(h, from, to) == pc[h] = from /\ pc' = [pc EXCEPT ![h] = to]

-----------------------------------------------------------------------------
(***************************************************************************)
(* Admission: the total is looked at, the address counted under its lock,   *)
(* the total raised.                                                        *)
(***************************************************************************)
Accept(h) ==
  /\ Goes(h, "none", IF total >= MaxTotal THEN "refused" ELSE "counting")
  /\ UNCHANGED <<dev, table, queue, writer, sock, total, perIp, failed>>

Counter == IF perIp = Absent THEN 0 ELSE perIp

CountIp(h) ==
  /\ Goes(h, "counting", IF Counter >= MaxPerIp THEN "refused" ELSE "counted")
  /\ perIp' = IF Counter >= MaxPerIp THEN Counter ELSE Counter + 1
  /\ UNCHANGED <<dev, table, queue, writer, sock, total, failed>>

CountTotal(h) ==
  /\ Goes(h, "counted", "hello")
  /\ total' = total + 1
  /\ UNCHANGED <<dev, table, queue, writer, sock, perIp, failed>>

\* No REGISTER in time, a bad one, an unknown device, a nonce seen before: an
\* error is written and the handler ends.
AuthFails(h) ==
  /\ Goes(h, "hello", "leaving")
  /\ UNCHANGED <<dev, table, queue, writer, sock, total, perIp, failed>>

AuthOk(h) ==
  /\ sock[h] = "open" /\ Goes(h, "hello", "known")
  /\ writer' = [writer EXCEPT ![h] = "running"]
  /\ UNCHANGED <<dev, table, queue, sock, total, perIp, failed>>

-----------------------------------------------------------------------------
(***************************************************************************)
(* Registration: the old entry is taken out and its connection kicked, the  *)
(* new one put in.                                                          *)
(***************************************************************************)
\* try_send: refused when the queue is full or its write loop has ended.
Accepts(h) == writer[h] = "running" /\ Len(queue[h]) < Queue
Put(h, m) == IF h # NoHandler /\ Accepts(h) THEN [queue EXCEPT ![h] = Append(@, m)] ELSE queue

\* Mutant: the old entry is told and left where it is until it is overwritten.
TakeOutLeaving(h) ==
  /\ Goes(h, "known", "registering")
  /\ queue' = Put(table[dev[h]], "kick")
  /\ UNCHANGED <<dev, table, writer, sock, total, perIp, failed>>

TakeOut(h) ==
  /\ Goes(h, "known", "registering")
  /\ queue' = Put(table[dev[h]], "kick")
  /\ table' = [table EXCEPT ![dev[h]] = NoHandler]
  /\ UNCHANGED <<dev, writer, sock, total, perIp, failed>>

PutIn(h) ==
  /\ Goes(h, "registering", "registered")
  /\ table' = [table EXCEPT ![dev[h]] = h]
  /\ UNCHANGED <<dev, queue, writer, sock, total, perIp, failed>>

\* The acknowledgement; a full or dead queue ends the session in order.
Ack(h) ==
  /\ Goes(h, "registered", IF Accepts(h) THEN "live" ELSE "over")
  /\ queue' = Put(h, "ack")
  /\ UNCHANGED <<dev, table, writer, sock, total, perIp, failed>>

-----------------------------------------------------------------------------
(* The session. *)

\* KEEPALIVE: answered, or the session ends in order.
OnKeepalive(h) ==
  /\ sock[h] = "open" /\ Goes(h, "live", IF Accepts(h) THEN "live" ELSE "over")
  /\ queue' = Put(h, "resp")
  /\ UNCHANGED <<dev, table, writer, sock, total, perIp, failed>>

\* SEND: forwarded to the entry of its destination, or dropped and counted.
OnSend(h, d) ==
  /\ sock[h] = "open" /\ pc[h] = "live"
  /\ queue' = Put(table[d], "frame")
  /\ UNCHANGED <<pc, dev, table, writer, sock, total, perIp, failed>>

\* The client closed: the session ends in order.
OnEnd(h) ==
  /\ sock[h] = "closed" /\ Goes(h, "live", "over")
  /\ UNCHANGED <<dev, table, queue, writer, sock, total, perIp, failed>>

\* Two minutes of silence, a read error, a frame too large or out of place: an
\* Error frame is queued and the entry stays.
OnError(h) ==
  /\ Goes(h, "live", "dropping")
  /\ failed' = failed \cup {h}
  /\ queue' = Put(h, "error")
  /\ UNCHANGED <<dev, table, writer, sock, total, perIp>>

\* same_channel: is the entry still this connection's?
TestOwner(h) ==
  /\ Goes(h, "over", IF table[dev[h]] = h THEN "owner" ELSE "dropping")
  /\ UNCHANGED <<dev, table, queue, writer, sock, total, perIp, failed>>

\* The entry is removed by key, whoever's it is by now.
RemoveEntry(h) ==
  /\ Goes(h, "owner", "dropping")
  /\ table' = [table EXCEPT ![dev[h]] = NoHandler]
  /\ UNCHANGED <<dev, queue, writer, sock, total, perIp, failed>>

\* The removal of a device (unregister).
Unregister(d) ==
  /\ table[d] # NoHandler
  /\ table' = [table EXCEPT ![d] = NoHandler]
  /\ UNCHANGED <<pc, dev, queue, writer, sock, total, perIp, failed>>

-----------------------------------------------------------------------------
(* The write loop. *)

WriterEnds(h) ==
  /\ writer' = [writer EXCEPT ![h] = "ended"] /\ queue' = [queue EXCEPT ![h] = <<>>]
  /\ UNCHANGED <<pc, dev, table, sock, total, perIp, failed>>

\* An empty message is the kick; the rest is written.
WriterTakes(h) ==
  /\ writer[h] = "running" /\ queue[h] # <<>>
  /\ \/ Head(queue[h]) = "kick" /\ WriterEnds(h)
     \/ /\ Head(queue[h]) # "kick" /\ sock[h] = "open"
        /\ queue' = [queue EXCEPT ![h] = Tail(@)]
        /\ UNCHANGED <<pc, dev, table, writer, sock, total, perIp, failed>>

\* The write fails: at once on a closed socket, when the retransmissions have
\* run out on a silent one.
WriterFails(h) ==
  /\ writer[h] = "running" /\ queue[h] # <<>> /\ sock[h] # "open"
  /\ WriterEnds(h)

\* The handler keeps a sending end until it drops it, the table another.
Sends(h) ==
  \/ pc[h] \in {"known", "registering", "registered", "live", "over", "owner"}
  \/ table[dev[h]] = h

WriterDone(h) ==
  /\ writer[h] = "running" /\ queue[h] = <<>> /\ ~Sends(h)
  /\ WriterEnds(h)

\* The handler waits for its write loop (writer.await).
Awaited(h) ==
  /\ writer[h] = "ended" /\ Goes(h, "dropping", "leaving")
  /\ UNCHANGED <<dev, table, queue, writer, sock, total, perIp, failed>>

-----------------------------------------------------------------------------
(***************************************************************************)
(* Release (Drop for ConnAdmission): the total, the counter of the address  *)
(* under its lock, and its removal when it was seen at zero.                *)
(***************************************************************************)
ReleaseTotal(h) ==
  /\ Goes(h, "leaving", "left")
  /\ total' = total - 1
  /\ UNCHANGED <<dev, table, queue, writer, sock, perIp, failed>>

\* Mutant: a counter seen at zero stays.
ReleaseIpKeeping(h) ==
  /\ Goes(h, "left", "done")
  /\ perIp' = IF perIp = Absent THEN Absent ELSE (perIp + Modulus - 1) % Modulus
  /\ UNCHANGED <<dev, table, queue, writer, sock, total, failed>>

ReleaseIp(h) ==
  LET left == (perIp + Modulus - 1) % Modulus IN
  /\ Goes(h, "left", IF perIp # Absent /\ left = 0 THEN "zeroed" ELSE "done")
  /\ perIp' = IF perIp = Absent THEN Absent ELSE left
  /\ UNCHANGED <<dev, table, queue, writer, sock, total, failed>>

RemoveIp(h) ==
  /\ Goes(h, "zeroed", "done")
  /\ perIp' = Absent
  /\ UNCHANGED <<dev, table, queue, writer, sock, total, failed>>

-----------------------------------------------------------------------------
(* The client and the network. *)
Turns(h, s) ==
  /\ pc[h] # "none" /\ sock[h] # "closed" /\ sock[h] # s
  /\ sock' = [sock EXCEPT ![h] = s]
  /\ UNCHANGED <<pc, dev, table, queue, writer, total, perIp, failed>>

-----------------------------------------------------------------------------
HandlerSteps(h) ==
  \/ Accept(h) \/ CountIp(h) \/ CountTotal(h) \/ AuthFails(h) \/ AuthOk(h)
  \/ TakeOut(h) \/ PutIn(h) \/ Ack(h)
  \/ OnKeepalive(h) \/ (\E d \in Devices : OnSend(h, d)) \/ OnEnd(h) \/ OnError(h)
  \/ TestOwner(h) \/ RemoveEntry(h) \/ Awaited(h)
  \/ ReleaseTotal(h) \/ ReleaseIp(h) \/ RemoveIp(h)

WriterSteps(h) == WriterTakes(h) \/ WriterFails(h) \/ WriterDone(h)

Next ==
  \/ \E h \in Handlers : HandlerSteps(h) \/ WriterSteps(h)
  \/ \E h \in Handlers, s \in {"closed", "silent"} : Turns(h, s)
  \/ \E d \in Devices : Unregister(d)

Spec == Init /\ [][Next]_vars

\* Handlers and write loops go on; what a dead client leaves is read or times out.
Fairness ==
  \A h \in Handlers :
    /\ WF_vars(CountIp(h)) /\ WF_vars(CountTotal(h))
    /\ WF_vars(AuthFails(h) \/ AuthOk(h))
    /\ WF_vars(TakeOut(h)) /\ WF_vars(PutIn(h)) /\ WF_vars(Ack(h))
    /\ WF_vars(sock[h] # "open" /\ (OnEnd(h) \/ OnError(h)))
    /\ WF_vars(TestOwner(h)) /\ WF_vars(RemoveEntry(h)) /\ WF_vars(Awaited(h))
    /\ WF_vars(ReleaseTotal(h)) /\ WF_vars(ReleaseIp(h)) /\ WF_vars(RemoveIp(h))
    /\ WF_vars(WriterSteps(h))

FairSpec == Spec /\ Fairness

-----------------------------------------------------------------------------
(* Properties. *)

InTotal ==
  {h \in Handlers :
     pc[h] \notin {"none", "refused", "counting", "counted", "left", "zeroed", "done"}}
Holders == {h \in Handlers : pc[h] \notin {"none", "refused", "counting", "zeroed", "done"}}

\* Types; queues keep their bound, and a handler has a write loop once it knows
\* its device.
TypeOK ==
  /\ pc \in [Handlers -> {"none", "refused", "counting", "counted", "hello", "known",
                          "registering", "registered", "live", "over", "owner",
                          "dropping", "leaving", "left", "zeroed", "done"}]
  /\ dev \in [Handlers -> Devices]
  /\ table \in [Devices -> Handlers \cup {NoHandler}]
  /\ queue \in [Handlers -> Seq({"kick", "ack", "resp", "frame", "error"})]
  /\ \A h \in Handlers : Len(queue[h]) <= Queue
  /\ writer \in [Handlers -> {"none", "running", "ended"}]
  /\ sock \in [Handlers -> {"open", "closed", "silent"}]
  /\ total \in Nat /\ perIp \in 0 .. Modulus
  /\ failed \subseteq Handlers

\* The total is the number of handlers that were admitted and have not left, on
\* every way out of a handler (Drop for ConnAdmission).
TotalCounted == total = Cardinality(InTotal)

\* The counter of the address can fall short: a release that saw it at zero
\* removes it after another connection was counted.  It can even pass below zero
\* and wrap.  But it comes to nothing once the connections are gone: no address
\* stays locked out.
PerIpDrains == (\A h \in Handlers : pc[h] \in {"none", "refused", "done"}) => perIp = Absent

\* The limits are given back: neither counter is left behind by a way out of a handler
\* (admit, Drop for ConnAdmission).
AdmissionsGivenBack == TotalCounted /\ PerIpDrains

\* What a client relies on when it is kicked: the connection that was told to go
\* is not the one its device's frames are sent to, then or later.
KickedIsOut ==
  \A h \in Handlers :
    (\E i \in 1 .. Len(queue[h]) : queue[h][i] = "kick") => table[dev[h]] # h

\* A session that ended in order is not in the table when its handler is past
\* the clean-up, whatever registered meanwhile.  (One that ended in error is.)
OrderlyEndUnlists ==
  \A h \in Handlers \ failed :
    pc[h] \in {"dropping", "leaving", "left", "zeroed", "done"} => table[dev[h]] # h

\* Frames of a device go to no connection of which the relay has decided that it is
\* over, by a kick or by its end (register, clean-up of handle_connection).
OverIsUnlisted == KickedIsOut /\ OrderlyEndUnlists

-------------------------------------------------------------------------------
(***************************************************************************)
(* A claim of the repository that the code does not keep.                   *)
(***************************************************************************)

\* "Idle connections are closed after 120s": the handler of a client that is gone
\* or silent ends and gives its admission back.
DeadLinkReleased ==
  \A h \in Handlers : sock[h] # "open" ~> pc[h] \in {"refused", "done"}
=============================================================================
