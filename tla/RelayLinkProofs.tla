--------------------------- MODULE RelayLinkProofs ----------------------------
(***************************************************************************)
(* Proofs about the two ends of a relay link, each for itself: TcpRelay at  *)
(* the server, for any connections, devices, depths of a queue and limits,  *)
(* and RelayClient at the node, for any connections and messages.           *)
(***************************************************************************)
EXTENDS TcpRelay, RelayClient, FiniteSetTheorems, TLAPS

Places == {"none", "refused", "counting", "counted", "hello", "known", "registering",
           "registered", "live", "over", "owner", "dropping", "leaving", "left", "zeroed",
           "done"}
Messages == {"kick", "ack", "resp", "frame", "error"}

\* Types, but for the range of the total, which is a matter of counting.
Typed ==
  /\ pc \in [Handlers -> Places]
  /\ dev \in [Handlers -> Devices]
  /\ table \in [Devices -> Handlers \cup {NoHandler}]
  /\ queue \in [Handlers -> Seq(Messages)]
  /\ \A h \in Handlers : Len(queue[h]) <= Queue
  /\ writer \in [Handlers -> {"none", "running", "ended"}]
  /\ sock \in [Handlers -> {"open", "closed", "silent"}]
  /\ perIp \in 0 .. Modulus
  /\ failed \subseteq Handlers

HasKick(h) == \E i \in 1 .. Len(queue[h]) : queue[h][i] = "kick"

-------------------------------------------------------------------------------
(***************************************************************************)
(* The pieces that actions are made of.                                    *)
(***************************************************************************)

LEMMA GoesMoves ==
  ASSUME Typed, NEW h \in Handlers, NEW from \in Places, NEW to \in Places, Goes(h, from, to)
  PROVE  /\ pc[h] = from /\ pc'[h] = to
         /\ pc' \in [Handlers -> Places]
         /\ \A g \in Handlers : g # h => pc'[g] = pc[g]
BY DEF Typed, Goes

LEMMA PutQueues ==
  ASSUME Typed, NEW h \in Handlers \cup {NoHandler}, NEW m \in Messages, queue' = Put(h, m)
  PROVE  /\ queue' \in [Handlers -> Seq(Messages)]
         /\ \A g \in Handlers : Len(queue'[g]) <= Queue
         /\ \A g \in Handlers : HasKick(g)' => HasKick(g) \/ (g = h /\ m = "kick")
<1>1. CASE h # NoHandler /\ Accepts(h)
  <2>1. h \in Handlers /\ queue' = [queue EXCEPT ![h] = Append(@, m)]
        /\ Len(queue[h]) < Queue
    BY <1>1 DEF Put, Accepts
  <2>2. /\ queue'[h] = Append(queue[h], m) /\ queue[h] \in Seq(Messages)
        /\ queue' \in [Handlers -> Seq(Messages)]
        /\ \A g \in Handlers : g # h => queue'[g] = queue[g]
    BY <2>1 DEF Typed
  <2>3. Len(queue'[h]) <= Queue
    BY <2>1, <2>2, BoundsAssumption
  <2>4. HasKick(h)' => HasKick(h) \/ m = "kick"
    BY <2>2 DEF HasKick
  <2>5. QED
    BY <2>2, <2>3, <2>4 DEF HasKick, Typed
<1>2. CASE ~(h # NoHandler /\ Accepts(h))
  BY <1>2 DEF Put, Typed, HasKick
<1>3. QED
  BY <1>1, <1>2

LEMMA WriterEndsQueues ==
  ASSUME Typed, NEW h \in Handlers, WriterEnds(h)
  PROVE  Typed' /\ \A g \in Handlers : HasKick(g)' => HasKick(g)
<1>1. queue'[h] = <<>> /\ queue' \in [Handlers -> Seq(Messages)]
      /\ \A g \in Handlers : g # h => queue'[g] = queue[g]
  BY DEF Typed, WriterEnds
<1>2. Len(queue'[h]) = 0
  BY <1>1
<1>3. Len(queue'[h]) <= Queue /\ ~HasKick(h)'
  BY <1>2, BoundsAssumption DEF HasKick
<1>4. QED
  BY <1>1, <1>3 DEF Typed, WriterEnds, HasKick

LEMMA WriterQueues ==
  ASSUME Typed, NEW h \in Handlers, WriterSteps(h)
  PROVE  /\ Typed' /\ \A g \in Handlers : HasKick(g)' => HasKick(g)
         /\ UNCHANGED <<pc, dev, table, total, perIp, failed>>
<1>1. CASE WriterEnds(h)
  BY <1>1, WriterEndsQueues DEF WriterEnds
<1>2. CASE queue[h] # <<>> /\ queue' = [queue EXCEPT ![h] = Tail(@)]
           /\ UNCHANGED <<pc, dev, table, writer, sock, total, perIp, failed>>
  <2>1. /\ queue'[h] = Tail(queue[h]) /\ queue[h] \in Seq(Messages)
        /\ queue' \in [Handlers -> Seq(Messages)]
        /\ \A g \in Handlers : g # h => queue'[g] = queue[g]
    BY <1>2 DEF Typed
  <2>2. Len(queue'[h]) <= Queue /\ (HasKick(h)' => HasKick(h))
    BY <1>2, <2>1, BoundsAssumption DEF Typed, HasKick
  <2>3. QED
    BY <1>2, <2>1, <2>2 DEF Typed, HasKick
<1>3. QED
  BY <1>1, <1>2 DEF WriterSteps, WriterTakes, WriterFails, WriterDone

\* A counter of an address taken down by one, with the wrap of its width.
LEMMA Wraps ==
  ASSUME NEW n \in 0 .. Modulus - 1
  PROVE  /\ (n + Modulus - 1) % Modulus \in 0 .. Modulus - 1
         /\ n >= 1 => (n + Modulus - 1) % Modulus = n - 1
<1>1. Modulus \in Nat /\ Modulus > 1 /\ n \in Nat /\ n < Modulus
  BY BoundsAssumption
<1>2. (n + Modulus - 1) % Modulus \in 0 .. Modulus - 1
  BY <1>1
<1>3. ASSUME n >= 1 PROVE (n + Modulus - 1) % Modulus = n - 1
  BY <1>1, <1>3
<1>4. QED
  BY <1>2, <1>3

-------------------------------------------------------------------------------
(***************************************************************************)
(* Types.                                                                  *)
(***************************************************************************)

LEMMA TypedInit == Init => Typed
BY BoundsAssumption DEF Init, Typed, Places, Absent

LEMMA TypedHandler ==
  ASSUME Typed, NEW h \in Handlers, HandlerSteps(h)
  PROVE  Typed'
<1> USE DEF Places
<1>1. ASSUME NEW from \in Places, NEW to \in Places, Goes(h, from, to),
             UNCHANGED <<dev, table, queue, writer, sock, perIp, failed>>
      PROVE  Typed'
  BY <1>1, GoesMoves DEF Typed
<1>2. ASSUME NEW g \in Handlers \cup {NoHandler}, NEW m \in Messages, queue' = Put(g, m),
             pc' \in [Handlers -> Places],
             table' \in [Devices -> Handlers \cup {NoHandler}], failed' \subseteq Handlers,
             UNCHANGED <<dev, writer, sock, perIp>>
      PROVE  Typed'
  BY <1>2, PutQueues DEF Typed
<1>3. dev[h] \in Devices /\ table[dev[h]] \in Handlers \cup {NoHandler}
  BY DEF Typed
<1>4. CASE Accept(h) \/ CountTotal(h) \/ AuthFails(h) \/ OnEnd(h) \/ TestOwner(h)
           \/ Awaited(h) \/ ReleaseTotal(h)
  BY <1>1, <1>4 DEF Accept, CountTotal, AuthFails, OnEnd, TestOwner, Awaited, ReleaseTotal
<1>5. CASE AuthOk(h)
  BY <1>5, GoesMoves DEF AuthOk, Typed
<1>6. CASE CountIp(h)
  <2>1. perIp' \in 0 .. Modulus
    BY <1>6, BoundsAssumption DEF CountIp, Counter, Typed, Absent
  <2>2. pc' \in [Handlers -> Places]
    BY <1>6, GoesMoves DEF CountIp
  <2>3. QED
    BY <1>6, <2>1, <2>2 DEF CountIp, Typed
<1>7. CASE ReleaseIp(h)
  <2>1. perIp' \in 0 .. Modulus
    <3>1. CASE perIp = Absent
      BY <1>7, <3>1 DEF ReleaseIp, Typed
    <3>2. CASE perIp # Absent
      <4>1. perIp \in 0 .. Modulus - 1
        BY <3>2, BoundsAssumption DEF Typed, Absent
      <4>2. perIp' \in 0 .. Modulus - 1
        BY <1>7, <3>2, <4>1, Wraps DEF ReleaseIp
      <4>3. QED
        BY <4>2, BoundsAssumption
    <3>3. QED
      BY <3>1, <3>2
  <2>2. pc' \in [Handlers -> Places]
    BY <1>7, GoesMoves DEF ReleaseIp
  <2>3. QED
    BY <1>7, <2>1, <2>2 DEF ReleaseIp, Typed
<1>8. CASE RemoveIp(h)
  <2>1. perIp' \in 0 .. Modulus
    BY <1>8, BoundsAssumption DEF RemoveIp, Absent
  <2>2. pc' \in [Handlers -> Places]
    BY <1>8, GoesMoves DEF RemoveIp
  <2>3. QED
    BY <1>8, <2>1, <2>2 DEF RemoveIp, Typed
<1>9. CASE TakeOut(h)
  <2>1. pc' \in [Handlers -> Places]
        /\ table' \in [Devices -> Handlers \cup {NoHandler}]
    BY <1>3, <1>9, GoesMoves DEF TakeOut, Typed
  <2>2. QED
    BY <1>2, <1>3, <1>9, <2>1 DEF TakeOut, Messages, Typed
<1>10. CASE PutIn(h) \/ RemoveEntry(h)
  <2>1. pc' \in [Handlers -> Places]
        /\ table' \in [Devices -> Handlers \cup {NoHandler}]
    <3>1. CASE PutIn(h)
      BY <1>3, <3>1, GoesMoves DEF PutIn, Typed
    <3>2. CASE RemoveEntry(h)
      BY <1>3, <3>2, GoesMoves DEF RemoveEntry, Typed
    <3>3. QED
      BY <1>10, <3>1, <3>2
  <2>2. QED
    BY <1>10, <2>1 DEF PutIn, RemoveEntry, Typed
<1>11. CASE Ack(h) \/ OnKeepalive(h) \/ OnError(h)
  <2>1. pc' \in [Handlers -> Places]
    <3>1. CASE Ack(h)
      <4>1. Goes(h, "registered", "live") \/ Goes(h, "registered", "over")
        BY <3>1 DEF Ack
      <4>2. QED
        BY <4>1, GoesMoves
    <3>2. CASE OnKeepalive(h)
      <4>1. Goes(h, "live", "live") \/ Goes(h, "live", "over")
        BY <3>2 DEF OnKeepalive
      <4>2. QED
        BY <4>1, GoesMoves
    <3>3. CASE OnError(h)
      BY <3>3, GoesMoves DEF OnError
    <3>4. QED
      BY <1>11, <3>1, <3>2, <3>3
  <2>2. QED
    BY <1>2, <1>11, <2>1 DEF Ack, OnKeepalive, OnError, Messages, Typed
<1>12. ASSUME NEW d \in Devices, OnSend(h, d) PROVE Typed'
  BY <1>2, <1>12 DEF OnSend, Messages, Typed
<1>13. QED
  BY <1>4, <1>5, <1>6, <1>7, <1>8, <1>9, <1>10, <1>11, <1>12 DEF HandlerSteps

LEMMA TypedNext == Typed /\ [Next]_vars => Typed'
<1> SUFFICES ASSUME Typed, [Next]_vars PROVE Typed'
  OBVIOUS
<1>1. ASSUME NEW h \in Handlers, HandlerSteps(h) PROVE Typed'
  BY <1>1, TypedHandler
<1>2. ASSUME NEW h \in Handlers, WriterSteps(h) PROVE Typed'
  BY <1>2, WriterQueues
<1>3. ASSUME NEW h \in Handlers, NEW s \in {"closed", "silent"}, Turns(h, s) PROVE Typed'
  BY <1>3 DEF Turns, Typed
<1>4. ASSUME NEW d \in Devices, Unregister(d) PROVE Typed'
  BY <1>4 DEF Unregister, Typed
<1>5. CASE UNCHANGED vars
  BY <1>5 DEF vars, Typed
<1>6. QED
  BY <1>1, <1>2, <1>3, <1>4, <1>5 DEF Next

-------------------------------------------------------------------------------
(***************************************************************************)
(* The table.  It holds connections of their own device, which have         *)
(* registered; a connection that is kicked, or past its clean-up, is not in  *)
(* it, and no connection registers twice.                                   *)
(***************************************************************************)

Early == {"none", "refused", "counting", "counted", "hello", "known", "registering"}
Past == {"dropping", "leaving", "left", "zeroed", "done"}

Listed ==
  \A d \in Devices :
    table[d] # NoHandler => dev[table[d]] = d /\ pc[table[d]] \notin Early

Kicked == \A h \in Handlers : HasKick(h) => pc[h] \notin Early /\ table[dev[h]] # h

Cleaned == \A h \in Handlers \ failed : pc[h] \in Past => table[dev[h]] # h

Registered == Listed /\ Kicked /\ Cleaned

LEMMA RegisteredInit == Init => Registered
BY DEF Init, Registered, Listed, Kicked, Cleaned, HasKick, Past

\* A step that registers nothing and kicks nobody, and by which no session that ended in
\* order gets past its clean-up listed.
LEMMA RegisteredQuiet ==
  ASSUME Typed, Registered, UNCHANGED dev,
         \A d \in Devices : table'[d] \in {table[d], NoHandler},
         failed \subseteq failed',
         \A h \in Handlers : pc[h] \notin Early => pc'[h] \notin Early,
         \A h \in Handlers : HasKick(h)' => HasKick(h),
         \A h \in Handlers \ failed' :
           pc'[h] \in Past => pc[h] \in Past \cup Early \/ table'[dev[h]] # h
  PROVE  Registered'
<1>1. \A h \in Handlers : dev[h] \in Devices /\ h # NoHandler
  BY NoneAssumption DEF Typed
<1>2. Listed'
  BY DEF Registered, Listed, Typed
<1>3. Kicked'
  BY <1>1 DEF Registered, Kicked
<1>4. Cleaned'
  <2>1. ASSUME NEW h \in Handlers \ failed', pc'[h] \in Past PROVE table'[dev[h]] # h
    <3>1. table[dev[h]] = h => pc[h] \notin Early /\ (pc[h] \in Past => FALSE)
      BY <1>1 DEF Registered, Listed, Cleaned
    <3>2. QED
      BY <1>1, <2>1, <3>1
  <2>2. QED
    BY <2>1 DEF Cleaned
<1>5. QED
  BY <1>2, <1>3, <1>4 DEF Registered

LEMMA RegisteredHandler ==
  ASSUME Typed, Registered, NEW h \in Handlers, HandlerSteps(h)
  PROVE  Registered'
<1> USE DEF Places, Early, Past
<1>0. /\ dev[h] \in Devices /\ table[dev[h]] \in Handlers \cup {NoHandler}
      /\ \A g \in Handlers : g # NoHandler /\ dev[g] \in Devices
  BY NoneAssumption DEF Typed
<1>1. ASSUME NEW from \in Places, NEW to \in Places, Goes(h, from, to),
             from \notin Early => to \notin Early,
             to \in Past => from \in Past \cup Early \/ table'[dev[h]] # h \/ h \in failed',
             UNCHANGED dev, \A d \in Devices : table'[d] \in {table[d], NoHandler},
             failed \subseteq failed', \A g \in Handlers : HasKick(g)' => HasKick(g)
      PROVE  Registered'
  <2>1. /\ pc[h] = from /\ pc'[h] = to
        /\ \A g \in Handlers : g # h => pc'[g] = pc[g]
    BY <1>1, GoesMoves
  <2>2. \A g \in Handlers : pc[g] \notin Early => pc'[g] \notin Early
    BY <1>1, <2>1
  <2>3. \A g \in Handlers \ failed' :
          pc'[g] \in Past => pc[g] \in Past \cup Early \/ table'[dev[g]] # g
    BY <1>1, <2>1
  <2>4. QED
    BY <1>1, <2>2, <2>3, RegisteredQuiet
<1>2. ASSUME UNCHANGED queue PROVE \A g \in Handlers : HasKick(g)' => HasKick(g)
  BY <1>2 DEF HasKick
<1>3. ASSUME NEW g \in Handlers \cup {NoHandler}, NEW m \in Messages \ {"kick"},
             queue' = Put(g, m)
      PROVE  \A k \in Handlers : HasKick(k)' => HasKick(k)
  BY <1>3, PutQueues
<1>4. CASE Accept(h) \/ CountIp(h) \/ CountTotal(h) \/ AuthFails(h) \/ AuthOk(h)
           \/ OnEnd(h) \/ Awaited(h) \/ ReleaseTotal(h) \/ ReleaseIp(h) \/ RemoveIp(h)
  BY <1>1, <1>2, <1>4 DEF Accept, CountIp, CountTotal, AuthFails, AuthOk, OnEnd, Awaited,
     ReleaseTotal, ReleaseIp, RemoveIp
<1>5. CASE TestOwner(h)
  BY <1>1, <1>2, <1>5 DEF TestOwner
<1>6. CASE RemoveEntry(h)
  <2>1. /\ table'[dev[h]] = NoHandler
        /\ \A d \in Devices : table'[d] \in {table[d], NoHandler}
    BY <1>0, <1>6 DEF RemoveEntry, Typed
  <2>2. Goes(h, "owner", "dropping") /\ UNCHANGED <<dev, queue, failed>>
    BY <1>6 DEF RemoveEntry
  <2>3. QED
    BY <1>0, <1>1, <1>2, <2>1, <2>2
<1>7. CASE Ack(h)
  <2>1. queue' = Put(h, "ack") /\ "ack" \in Messages \ {"kick"}
    BY <1>7 DEF Ack, Messages
  <2>2. QED
    BY <1>1, <1>3, <1>7, <2>1 DEF Ack
<1>8. CASE OnKeepalive(h)
  <2>1. queue' = Put(h, "resp") /\ "resp" \in Messages \ {"kick"}
    BY <1>8 DEF OnKeepalive, Messages
  <2>2. QED
    BY <1>1, <1>3, <1>8, <2>1 DEF OnKeepalive
<1>9. CASE OnError(h)
  <2>1. queue' = Put(h, "error") /\ "error" \in Messages \ {"kick"}
    BY <1>9 DEF OnError, Messages
  <2>2. QED
    BY <1>1, <1>3, <1>9, <2>1 DEF OnError
<1>10. ASSUME NEW d \in Devices, OnSend(h, d) PROVE Registered'
  <2>1. /\ queue' = Put(table[d], "frame") /\ "frame" \in Messages \ {"kick"}
        /\ table[d] \in Handlers \cup {NoHandler}
    BY <1>10 DEF OnSend, Messages, Typed
  <2>2. \A g \in Handlers : HasKick(g)' => HasKick(g)
    BY <1>3, <2>1
  <2>3. UNCHANGED <<pc, dev, table, failed>>
    BY <1>10 DEF OnSend
  <2>4. QED
    BY <2>2, <2>3, RegisteredQuiet
<1>11. CASE TakeOut(h)
  <2> DEFINE old == table[dev[h]]
  <2>1. /\ pc[h] = "known" /\ pc'[h] = "registering"
        /\ \A g \in Handlers : g # h => pc'[g] = pc[g]
    BY <1>11, GoesMoves DEF TakeOut
  <2>2. /\ table'[dev[h]] = NoHandler /\ UNCHANGED <<dev, failed>>
        /\ \A d \in Devices : d # dev[h] => table'[d] = table[d]
    BY <1>0, <1>11 DEF TakeOut, Typed
  <2>3. \A g \in Handlers : HasKick(g)' => HasKick(g) \/ g = old
    BY <1>0, <1>11, PutQueues DEF TakeOut, Messages
  <2>4. old # NoHandler => dev[old] = dev[h] /\ pc[old] \notin Early /\ old # h
    BY <1>0, <2>1 DEF Registered, Listed
  <2>5. Listed'
    <3>1. ASSUME NEW d \in Devices, table'[d] # NoHandler
          PROVE  dev'[table'[d]] = d /\ pc'[table'[d]] \notin Early
      <4>1. table'[d] = table[d] /\ table[d] \in Handlers
        BY <2>2, <3>1 DEF Typed
      <4>2. dev[table[d]] = d /\ pc[table[d]] \notin Early
        BY <3>1, <4>1 DEF Registered, Listed
      <4>3. QED
        BY <2>1, <2>2, <4>1, <4>2
    <3>2. QED
      BY <3>1 DEF Listed
  <2>6. Kicked'
    BY <1>0, <2>1, <2>2, <2>3, <2>4 DEF Registered, Kicked
  <2>7. Cleaned'
    BY <1>0, <2>1, <2>2 DEF Registered, Cleaned
  <2>8. QED
    BY <2>5, <2>6, <2>7 DEF Registered
<1>12. CASE PutIn(h)
  <2>1. /\ pc[h] = "registering" /\ pc'[h] = "registered"
        /\ \A g \in Handlers : g # h => pc'[g] = pc[g]
    BY <1>12, GoesMoves DEF PutIn
  <2>2. /\ table'[dev[h]] = h /\ UNCHANGED <<dev, failed, queue>>
        /\ \A d \in Devices : d # dev[h] => table'[d] = table[d]
    BY <1>0, <1>12 DEF PutIn, Typed
  <2>3. \A g \in Handlers : HasKick(g)' => HasKick(g)
    BY <1>2, <2>2
  <2>4. Listed'
    <3>1. ASSUME NEW d \in Devices, table'[d] # NoHandler
          PROVE  dev'[table'[d]] = d /\ pc'[table'[d]] \notin Early
      <4>1. CASE d = dev[h]
        BY <2>1, <2>2, <4>1
      <4>2. CASE d # dev[h]
        <5>1. table'[d] = table[d] /\ table[d] \in Handlers
          BY <2>2, <3>1, <4>2 DEF Typed
        <5>2. dev[table[d]] = d /\ pc[table[d]] \notin Early
          BY <3>1, <5>1 DEF Registered, Listed
        <5>3. QED
          BY <2>1, <2>2, <5>1, <5>2
      <4>3. QED
        BY <4>1, <4>2
    <3>2. QED
      BY <3>1 DEF Listed
  <2>5. Kicked'
    BY <1>0, <2>1, <2>2, <2>3 DEF Registered, Kicked
  <2>6. Cleaned'
    BY <1>0, <2>1, <2>2 DEF Registered, Cleaned
  <2>7. QED
    BY <2>4, <2>5, <2>6 DEF Registered
<1>13. QED
  BY <1>4, <1>5, <1>6, <1>7, <1>8, <1>9, <1>10, <1>11, <1>12 DEF HandlerSteps

LEMMA RegisteredNext == Typed /\ Registered /\ [Next]_vars => Registered'
<1> SUFFICES ASSUME Typed, Registered, [Next]_vars PROVE Registered'
  OBVIOUS
<1>1. ASSUME NEW h \in Handlers, HandlerSteps(h) PROVE Registered'
  BY <1>1, RegisteredHandler
<1>2. ASSUME NEW h \in Handlers, WriterSteps(h) PROVE Registered'
  BY <1>2, WriterQueues, RegisteredQuiet
<1>3. ASSUME NEW h \in Handlers, NEW s \in {"closed", "silent"}, Turns(h, s)
      PROVE  Registered'
  BY <1>3, RegisteredQuiet DEF Turns, HasKick
<1>4. ASSUME NEW d \in Devices, Unregister(d) PROVE Registered'
  <2>1. \A c \in Devices : table'[c] \in {table[c], NoHandler}
    BY <1>4 DEF Unregister, Typed
  <2>2. QED
    BY <1>4, <2>1, RegisteredQuiet DEF Unregister, HasKick
<1>5. CASE UNCHANGED vars
  BY <1>5, RegisteredQuiet DEF vars, HasKick
<1>6. QED
  BY <1>1, <1>2, <1>3, <1>4, <1>5 DEF Next

\* The connection that was told to go is not the one its device's frames are sent to,
\* then or later.
THEOREM KickedStaysOut == Spec => []KickedIsOut
<1>1. Typed /\ Registered => KickedIsOut
  BY DEF Registered, Kicked, HasKick, KickedIsOut
<1>2. QED
  BY <1>1, TypedInit, TypedNext, RegisteredInit, RegisteredNext, PTL DEF Spec

\* A session that ended in order is not in the table when its handler is past the
\* clean-up, whatever registered meanwhile.
THEOREM OrderlyEndsUnlist == Spec => []OrderlyEndUnlists
<1>1. Registered => OrderlyEndUnlists
  BY DEF Registered, Cleaned, Past, OrderlyEndUnlists
<1>2. QED
  BY <1>1, TypedInit, TypedNext, RegisteredInit, RegisteredNext, PTL DEF Spec

\* No connection that is over is where frames of its device go.
THEOREM OverAlwaysUnlisted == Spec => []OverIsUnlisted
<1>1. KickedIsOut /\ OrderlyEndUnlists => OverIsUnlisted
  BY DEF OverIsUnlisted
<1>2. QED
  BY <1>1, KickedStaysOut, OrderlyEndsUnlist, PTL

-------------------------------------------------------------------------------
(***************************************************************************)
(* Counting.  A set of handlers that is told by where they are changes by    *)
(* the one that moves, or not at all.                                       *)
(***************************************************************************)

In(places) == {h \in Handlers : pc[h] \in places}

TotalPlaces == {"hello", "known", "registering", "registered", "live", "over", "owner",
                "dropping", "leaving"}
IpPlaces == TotalPlaces \cup {"counted", "left"}

LEMMA Counts ==
  ASSUME Typed
  PROVE  /\ InTotal = In(TotalPlaces) /\ Holders = In(IpPlaces)
         /\ IsFiniteSet(InTotal) /\ Cardinality(InTotal) \in Nat
         /\ IsFiniteSet(Holders) /\ Cardinality(Holders) \in Nat
<1>1. InTotal = In(TotalPlaces) /\ Holders = In(IpPlaces)
  BY DEF Typed, Places, InTotal, Holders, In, TotalPlaces, IpPlaces
<1>2. InTotal \in SUBSET Handlers /\ Holders \in SUBSET Handlers
  BY DEF InTotal, Holders
<1>3. IsFiniteSet(InTotal) /\ IsFiniteSet(Holders)
  BY <1>2, FiniteAssumption, FS_Subset
<1>4. QED
  BY <1>1, <1>3, FS_CardinalityType

LEMMA MovesWithin ==
  ASSUME Typed, NEW h \in Handlers, NEW from \in Places, NEW to \in Places,
         Goes(h, from, to), NEW places, from \in places <=> to \in places
  PROVE  In(places)' = In(places)
BY GoesMoves DEF In

LEMMA MovesIn ==
  ASSUME Typed, NEW h \in Handlers, NEW from \in Places, NEW to \in Places,
         Goes(h, from, to), NEW places, from \notin places, to \in places,
         IsFiniteSet(In(places))
  PROVE  Cardinality(In(places)') = Cardinality(In(places)) + 1
<1>1. In(places)' = In(places) \cup {h} /\ h \notin In(places)
  BY GoesMoves DEF In
<1>2. QED
  BY <1>1, FS_AddElement

LEMMA MovesOut ==
  ASSUME Typed, NEW h \in Handlers, NEW from \in Places, NEW to \in Places,
         Goes(h, from, to), NEW places, from \in places, to \notin places,
         IsFiniteSet(In(places))
  PROVE  Cardinality(In(places)') = Cardinality(In(places)) - 1 /\ h \in In(places)
<1>1. In(places)' = In(places) \ {h} /\ h \in In(places)
  BY GoesMoves DEF In
<1>2. QED
  BY <1>1, FS_RemoveElement

\* The steps of a handler that leave the counters alone keep it admitted or not.
LEMMA OtherMoves ==
  ASSUME Typed, NEW h \in Handlers, HandlerSteps(h),
         ~CountIp(h), ~CountTotal(h), ~ReleaseTotal(h), ~ReleaseIp(h), ~RemoveIp(h)
  PROVE  /\ UNCHANGED <<total, perIp>>
         /\ In(TotalPlaces)' = In(TotalPlaces) /\ In(IpPlaces)' = In(IpPlaces)
         /\ \A g \in Handlers : pc'[g] = "zeroed" <=> pc[g] = "zeroed"
<1> USE DEF Places, TotalPlaces, IpPlaces
<1>1. UNCHANGED <<total, perIp>>
  BY DEF HandlerSteps, Accept, AuthFails, AuthOk, TakeOut, PutIn, Ack, OnKeepalive, OnSend,
     OnEnd, OnError, TestOwner, RemoveEntry, Awaited
<1>2. ASSUME NEW from \in Places \ {"zeroed"}, NEW to \in Places \ {"zeroed"},
             Goes(h, from, to),
             from \in TotalPlaces <=> to \in TotalPlaces, from \in IpPlaces <=> to \in IpPlaces
      PROVE  /\ In(TotalPlaces)' = In(TotalPlaces) /\ In(IpPlaces)' = In(IpPlaces)
             /\ \A g \in Handlers : pc'[g] = "zeroed" <=> pc[g] = "zeroed"
  <2>1. In(TotalPlaces)' = In(TotalPlaces) /\ In(IpPlaces)' = In(IpPlaces)
    BY <1>2, MovesWithin
  <2>2. \A g \in Handlers : pc'[g] = "zeroed" <=> pc[g] = "zeroed"
    BY <1>2, GoesMoves
  <2>3. QED
    BY <2>1, <2>2
<1>3. CASE Accept(h) \/ AuthFails(h) \/ AuthOk(h) \/ TakeOut(h) \/ PutIn(h) \/ OnEnd(h)
           \/ OnError(h) \/ RemoveEntry(h) \/ Awaited(h)
  BY <1>1, <1>2, <1>3 DEF Accept, AuthFails, AuthOk, TakeOut, PutIn, OnEnd, OnError,
     RemoveEntry, Awaited
<1>4. CASE TestOwner(h)
  BY <1>1, <1>2, <1>4 DEF TestOwner
<1>5. CASE Ack(h)
  <2>1. Goes(h, "registered", "live") \/ Goes(h, "registered", "over")
    BY <1>5 DEF Ack
  <2>2. QED
    BY <1>1, <1>2, <2>1
<1>6. CASE OnKeepalive(h)
  <2>1. Goes(h, "live", "live") \/ Goes(h, "live", "over")
    BY <1>6 DEF OnKeepalive
  <2>2. QED
    BY <1>1, <1>2, <2>1
<1>7. ASSUME NEW d \in Devices, OnSend(h, d)
      PROVE  /\ In(TotalPlaces)' = In(TotalPlaces) /\ In(IpPlaces)' = In(IpPlaces)
             /\ \A g \in Handlers : pc'[g] = "zeroed" <=> pc[g] = "zeroed"
  BY <1>7 DEF OnSend, In
<1>8. QED
  BY <1>1, <1>3, <1>4, <1>5, <1>6, <1>7 DEF HandlerSteps

-------------------------------------------------------------------------------
(***************************************************************************)
(* The total.                                                              *)
(***************************************************************************)

LEMMA TotalInit == Init => TotalCounted
<1> SUFFICES ASSUME Init PROVE TotalCounted
  OBVIOUS
<1>1. InTotal = {}
  BY DEF Init, InTotal
<1>2. QED
  BY <1>1, FS_EmptySet DEF Init, TotalCounted

LEMMA TotalNext == Typed /\ TotalCounted /\ [Next]_vars => TotalCounted'
<1> SUFFICES ASSUME Typed, TotalCounted, [Next]_vars PROVE TotalCounted'
  OBVIOUS
<1> USE DEF Places, TotalPlaces
<1>1. Typed'
  BY TypedNext
<1>2. /\ InTotal = In(TotalPlaces) /\ InTotal' = In(TotalPlaces)'
      /\ IsFiniteSet(In(TotalPlaces)) /\ Cardinality(In(TotalPlaces)) \in Nat
  <2>1. InTotal = In(TotalPlaces) /\ IsFiniteSet(InTotal) /\ Cardinality(InTotal) \in Nat
    BY Counts
  <2>2. InTotal' = In(TotalPlaces)'
    BY <1>1 DEF Typed, InTotal, In
  <2>3. QED
    BY <2>1, <2>2
<1>3. total = Cardinality(In(TotalPlaces))
  BY <1>2 DEF TotalCounted
<1>4. ASSUME total' = Cardinality(In(TotalPlaces)') PROVE TotalCounted'
  BY <1>2, <1>4 DEF TotalCounted
<1>5. ASSUME UNCHANGED <<pc, total>> PROVE TotalCounted'
  BY <1>3, <1>4, <1>5 DEF In
<1>6. ASSUME NEW h \in Handlers, HandlerSteps(h) PROVE TotalCounted'
  <2>1. CASE CountTotal(h)
    <3>1. Goes(h, "counted", "hello") /\ total' = total + 1
      BY <2>1 DEF CountTotal
    <3>2. Cardinality(In(TotalPlaces)') = Cardinality(In(TotalPlaces)) + 1
      BY <1>2, <3>1, MovesIn
    <3>3. QED
      BY <1>3, <1>4, <3>1, <3>2
  <2>2. CASE ReleaseTotal(h)
    <3>1. Goes(h, "leaving", "left") /\ total' = total - 1
      BY <2>2 DEF ReleaseTotal
    <3>2. Cardinality(In(TotalPlaces)') = Cardinality(In(TotalPlaces)) - 1
      BY <1>2, <3>1, MovesOut
    <3>3. QED
      BY <1>3, <1>4, <3>1, <3>2
  <2>3. CASE CountIp(h) \/ ReleaseIp(h) \/ RemoveIp(h)
    <3>1. total' = total
      BY <2>3 DEF CountIp, ReleaseIp, RemoveIp
    <3>2. In(TotalPlaces)' = In(TotalPlaces)
      BY <2>3, MovesWithin DEF CountIp, ReleaseIp, RemoveIp
    <3>3. QED
      BY <1>3, <1>4, <3>1, <3>2
  <2>4. CASE ~(CountTotal(h) \/ ReleaseTotal(h) \/ CountIp(h) \/ ReleaseIp(h) \/ RemoveIp(h))
    BY <1>3, <1>4, <1>6, <2>4, OtherMoves
  <2>5. QED
    BY <2>1, <2>2, <2>3, <2>4
<1>7. ASSUME NEW h \in Handlers, WriterSteps(h) PROVE TotalCounted'
  BY <1>5, <1>7, WriterQueues
<1>8. ASSUME NEW h \in Handlers, NEW s \in {"closed", "silent"}, Turns(h, s)
      PROVE  TotalCounted'
  BY <1>5, <1>8 DEF Turns
<1>9. ASSUME NEW d \in Devices, Unregister(d) PROVE TotalCounted'
  BY <1>5, <1>9 DEF Unregister
<1>10. CASE UNCHANGED vars
  BY <1>5, <1>10 DEF vars
<1>11. QED
  BY <1>6, <1>7, <1>8, <1>9, <1>10 DEF Next

\* The total is the number of handlers that were admitted and have not left, on every
\* way out of a handler.
THEOREM TotalIsCounted == Spec => []TotalCounted
<1>1. QED
  BY TypedInit, TypedNext, TotalInit, TotalNext, PTL DEF Spec

\* Every variable keeps its type and every queue its bound; the total does not go below
\* zero because it counts.
THEOREM TypeCorrect == Spec => []TypeOK
<1>1. Typed /\ TotalCounted => TypeOK
  <2> SUFFICES ASSUME Typed, TotalCounted PROVE TypeOK
    OBVIOUS
  <2>1. total \in Nat
    BY Counts DEF TotalCounted
  <2>2. QED
    BY <2>1 DEF Typed, TypeOK, Places, Messages
<1>2. QED
  BY <1>1, TypedInit, TypedNext, TotalInit, TotalNext, PTL DEF Spec

-------------------------------------------------------------------------------
(***************************************************************************)
(* The counter of the address.  A handler that saw it at zero will remove    *)
(* it; unless there is one, what it counts is not less than one and not      *)
(* more than the connections that will give theirs back.                    *)
(***************************************************************************)

Drains ==
  \/ perIp = Absent
  \/ \E h \in Handlers : pc[h] = "zeroed"
  \/ 1 <= perIp /\ perIp <= Cardinality(In(IpPlaces))

LEMMA DrainsInit == Init => Drains
BY DEF Init, Drains

LEMMA DrainsNext == Typed /\ Drains /\ [Next]_vars => Drains'
<1> SUFFICES ASSUME Typed, Drains, [Next]_vars PROVE Drains'
  OBVIOUS
<1> USE DEF Places, TotalPlaces, IpPlaces
<1>1. IsFiniteSet(In(IpPlaces)) /\ Cardinality(In(IpPlaces)) \in Nat
  BY Counts
<1>2. ASSUME UNCHANGED perIp, In(IpPlaces)' = In(IpPlaces),
             \A g \in Handlers : pc[g] = "zeroed" => pc'[g] = "zeroed"
      PROVE  Drains'
  BY <1>2 DEF Drains, Absent
<1>3. ASSUME UNCHANGED <<pc, perIp>> PROVE Drains'
  BY <1>2, <1>3 DEF In
<1>4. ASSUME NEW h \in Handlers, HandlerSteps(h) PROVE Drains'
  <2>1. CASE CountIp(h)
    <3>1. CASE Counter >= MaxPerIp
      <4>1. Goes(h, "counting", "refused") /\ perIp' = Counter
        BY <2>1, <3>1 DEF CountIp
      <4>2. Counter = perIp
        BY <3>1, BoundsAssumption DEF Counter
      <4>3. In(IpPlaces)' = In(IpPlaces)
        BY <4>1, MovesWithin
      <4>4. QED
        BY <1>2, <4>1, <4>2, <4>3, GoesMoves
    <3>2. CASE ~(Counter >= MaxPerIp)
      <4>1. Goes(h, "counting", "counted") /\ perIp' = Counter + 1
        BY <2>1, <3>2 DEF CountIp
      <4>2. Cardinality(In(IpPlaces)') = Cardinality(In(IpPlaces)) + 1
        BY <1>1, <4>1, MovesIn
      <4>3. CASE perIp = Absent
        <5>1. perIp' = 1
          BY <4>1, <4>3 DEF Counter
        <5>2. QED
          BY <1>1, <4>2, <5>1 DEF Drains
      <4>4. CASE perIp # Absent /\ \E g \in Handlers : pc[g] = "zeroed"
        BY <4>1, <4>4, GoesMoves DEF Drains
      <4>5. CASE perIp # Absent /\ 1 <= perIp /\ perIp <= Cardinality(In(IpPlaces))
        <5>1. perIp' = perIp + 1 /\ perIp \in Nat
          BY <4>1, <4>5 DEF Counter, Typed
        <5>2. QED
          BY <1>1, <4>2, <4>5, <5>1 DEF Drains
      <4>6. QED
        BY <4>3, <4>4, <4>5 DEF Drains
    <3>3. QED
      BY <3>1, <3>2
  <2>2. CASE ReleaseIp(h)
    <3>1. CASE perIp = Absent
      BY <2>2, <3>1 DEF ReleaseIp, Drains, Absent
    <3>2. CASE perIp # Absent
      <4> DEFINE rest == (perIp + Modulus - 1) % Modulus
      <4>1. perIp \in 0 .. Modulus - 1
        BY <3>2, BoundsAssumption DEF Typed, Absent
      <4>2. perIp' = rest /\ Goes(h, "left", IF rest = 0 THEN "zeroed" ELSE "done")
        BY <2>2, <3>2 DEF ReleaseIp
      <4>3. CASE rest = 0
        <5>1. pc'[h] = "zeroed"
          BY <4>2, <4>3, GoesMoves
        <5>2. QED
          BY <5>1 DEF Drains
      <4>4. CASE rest # 0
        <5>1. Goes(h, "left", "done")
          BY <4>2, <4>4
        <5>2. CASE \E g \in Handlers : pc[g] = "zeroed"
          BY <5>1, <5>2, GoesMoves DEF Drains
        <5>3. CASE 1 <= perIp /\ perIp <= Cardinality(In(IpPlaces))
          <6>1. Cardinality(In(IpPlaces)') = Cardinality(In(IpPlaces)) - 1
            BY <1>1, <5>1, MovesOut
          <6>2. rest = perIp - 1
            BY <4>1, <5>3, Wraps
          <6>3. QED
            BY <1>1, <4>1, <4>2, <4>4, <5>3, <6>1, <6>2 DEF Drains
        <5>4. QED
          BY <3>2, <5>2, <5>3 DEF Drains
      <4>5. QED
        BY <4>3, <4>4
    <3>3. QED
      BY <3>1, <3>2
  <2>3. CASE RemoveIp(h)
    BY <2>3 DEF RemoveIp, Drains, Absent
  <2>4. CASE CountTotal(h) \/ ReleaseTotal(h)
    <3>1. perIp' = perIp
      BY <2>4 DEF CountTotal, ReleaseTotal
    <3>2. In(IpPlaces)' = In(IpPlaces)
      BY <2>4, MovesWithin DEF CountTotal, ReleaseTotal
    <3>3. \A g \in Handlers : pc[g] = "zeroed" => pc'[g] = "zeroed"
      BY <2>4, GoesMoves DEF CountTotal, ReleaseTotal
    <3>4. QED
      BY <1>2, <3>1, <3>2, <3>3
  <2>5. CASE ~(CountTotal(h) \/ ReleaseTotal(h) \/ CountIp(h) \/ ReleaseIp(h) \/ RemoveIp(h))
    BY <1>2, <1>4, <2>5, OtherMoves
  <2>6. QED
    BY <2>1, <2>2, <2>3, <2>4, <2>5
<1>5. ASSUME NEW h \in Handlers, WriterSteps(h) PROVE Drains'
  BY <1>3, <1>5, WriterQueues
<1>6. ASSUME NEW h \in Handlers, NEW s \in {"closed", "silent"}, Turns(h, s) PROVE Drains'
  BY <1>3, <1>6 DEF Turns
<1>7. ASSUME NEW d \in Devices, Unregister(d) PROVE Drains'
  BY <1>3, <1>7 DEF Unregister
<1>8. CASE UNCHANGED vars
  BY <1>3, <1>8 DEF vars
<1>9. QED
  BY <1>4, <1>5, <1>6, <1>7, <1>8 DEF Next

\* The counter of the address comes to nothing once its connections are gone, although
\* it can fall short and wrap meanwhile: no address stays locked out.
THEOREM CounterDrains == Spec => []PerIpDrains
<1>1. Typed /\ Drains => PerIpDrains
  <2> SUFFICES ASSUME Typed, Drains,
                      \A h \in Handlers : pc[h] \in {"none", "refused", "done"}
               PROVE  perIp = Absent
    BY DEF PerIpDrains
  <2>1. In(IpPlaces) = {} /\ ~ \E h \in Handlers : pc[h] = "zeroed"
    BY DEF In, IpPlaces, TotalPlaces
  <2>2. Cardinality(In(IpPlaces)) = 0
    BY <2>1, FS_EmptySet
  <2>3. perIp = Absent \/ (1 <= perIp /\ perIp <= 0 /\ perIp \in Nat)
    BY <2>1, <2>2 DEF Drains, Typed
  <2>4. QED
    BY <2>3
<1>2. QED
  BY <1>1, TypedInit, TypedNext, DrainsInit, DrainsNext, PTL DEF Spec

\* Both limits are given back on every way out of a handler.
THEOREM AdmissionsAlwaysGivenBack == Spec => []AdmissionsGivenBack
<1>1. TotalCounted /\ PerIpDrains => AdmissionsGivenBack
  BY DEF AdmissionsGivenBack
<1>2. QED
  BY <1>1, TotalIsCounted, CounterDrains, PTL

-------------------------------------------------------------------------------
(***************************************************************************)
(* The node's end.                                                         *)
(***************************************************************************)

Dialers == {"idle", "looked", "dialing", "started", "unstored", "sending"}

\* A task that moves without holding a connection, before or after.
LEMMA DialerMoves ==
  ASSUME ClientTypeOK, NEW t \in Tasks, NEW to \in {"idle", "looked", "dialing", "sending"},
         dialer[t] \notin {"started", "unstored"},
         dialer' = [dialer EXCEPT ![t] = to], UNCHANGED conn
  PROVE  /\ dialer' \in [Tasks -> Dialers]
         /\ \A s \in Tasks : conn'[s] # None <=> dialer'[s] \in {"started", "unstored"}
BY DEF ClientTypeOK, Dialers

\* What says which task dials: the flag, before and after a step.
LEMMA DialStarts ==
  ASSUME ClientTypeOK, NEW t \in Tasks, ~connecting, connecting', 
         dialer' = [dialer EXCEPT ![t] = "dialing"]
  PROVE  OneDialAtATime'
BY DEF ClientTypeOK, OneDialAtATime, Dialing

LEMMA DialGoesOn ==
  ASSUME ClientTypeOK, NEW t \in Tasks, dialer[t] = "dialing", UNCHANGED connecting,
         dialer' = [dialer EXCEPT ![t] = "started"]
  PROVE  OneDialAtATime'
BY DEF ClientTypeOK, OneDialAtATime, Dialing

LEMMA DialStops ==
  ASSUME ClientTypeOK, NEW t \in Tasks, Dialing(t), ~connecting',
         NEW to \in {"idle", "sending", "unstored"}, dialer' = [dialer EXCEPT ![t] = to]
  PROVE  OneDialAtATime'
BY DEF ClientTypeOK, OneDialAtATime, Dialing

LEMMA DialUnmoved ==
  ASSUME ClientTypeOK, NEW t \in Tasks, ~Dialing(t), UNCHANGED connecting,
         NEW to \in {"idle", "looked", "sending"}, dialer' = [dialer EXCEPT ![t] = to]
  PROVE  OneDialAtATime'
BY DEF ClientTypeOK, OneDialAtATime, Dialing

LEMMA ClientTypeInit == ClientInit => ClientTypeOK
<1> SUFFICES ASSUME ClientInit PROVE ClientTypeOK
  OBVIOUS
<1>1. OneDialAtATime
  BY DEF ClientInit, OneDialAtATime, Dialing
<1>2. dialed \in 0 .. MaxConns /\ \A c \in Conns : c > dialed
  BY ClientBoundsAssumption DEF ClientInit, Conns
<1>3. inbox \in [Conns -> Seq(Taken \cup Strays)]
  BY DEF ClientInit
<1>4. QED
  BY <1>1, <1>2, <1>3 DEF ClientInit, ClientTypeOK

LEMMA TaskType ==
  ASSUME ClientTypeOK, NEW t \in Tasks, TaskSteps(t)
  PROVE  ClientTypeOK'
<1> USE DEF relayVars
<1>1. AfterDial(t) \in {"idle", "sending"}
  BY DEF AfterDial
<1>2. CASE LookAtSlot(t)
  <2>1. PICK to \in {"looked", "sending"} : dialer' = [dialer EXCEPT ![t] = to]
    BY <1>2 DEF LookAtSlot
  <2>2. OneDialAtATime'
    BY <1>2, <2>1, DialUnmoved DEF LookAtSlot, Dialing
  <2>3. QED
    BY <1>2, <2>1, <2>2, DialerMoves DEF LookAtSlot, ClientTypeOK, Dialers
<1>3. CASE TakeFlag(t)
  <2>1. CASE connecting
    <3>1. OneDialAtATime'
      BY <1>1, <1>3, <2>1, DialUnmoved DEF TakeFlag, Dialing
    <3>2. QED
      BY <1>1, <1>3, <2>1, <3>1, DialerMoves DEF TakeFlag, ClientTypeOK, Dialers
  <2>2. CASE ~connecting
    <3>1. OneDialAtATime'
      BY <1>3, <2>2, DialStarts DEF TakeFlag
    <3>2. QED
      BY <1>3, <2>2, <3>1, DialerMoves DEF TakeFlag, ClientTypeOK, Dialers
  <2>3. QED
    BY <2>1, <2>2 DEF ClientTypeOK
<1>4. CASE DialFails(t)
  <2>1. OneDialAtATime'
    BY <1>1, <1>4, DialStops DEF DialFails, Dialing
  <2>2. QED
    BY <1>1, <1>4, <2>1, DialerMoves DEF DialFails, ClientTypeOK, Dialers
<1>5. CASE DialOk(t)
  <2> DEFINE c == dialed + 1
  <2>1. /\ c \in Conns /\ dialer[t] = "dialing" /\ dialed' = c /\ c # None
        /\ dialer' = [dialer EXCEPT ![t] = "started"] /\ conn' = [conn EXCEPT ![t] = c]
        /\ readLoop' = [readLoop EXCEPT ![c] = "reading"]
    BY <1>5, ClientBoundsAssumption DEF DialOk, Conns, None
  <2>2. OneDialAtATime'
    BY <1>5, <2>1, DialGoesOn DEF DialOk
  <2>3. /\ dialer' \in [Tasks -> Dialers] /\ conn' \in [Tasks -> Conns \cup {None}]
        /\ \A s \in Tasks : conn'[s] # None <=> dialer'[s] \in {"started", "unstored"}
    BY <2>1 DEF ClientTypeOK, Dialers
  <2>4. dialed' \in 0 .. MaxConns /\ \A b \in Conns : readLoop'[b] = "none" <=> b > dialed'
    BY <2>1, ClientBoundsAssumption DEF ClientTypeOK, Conns
  <2>5. QED
    BY <1>5, <2>1, <2>2, <2>3, <2>4 DEF DialOk, ClientTypeOK, Dialers
<1>6. CASE ClearFlag(t)
  <2>1. OneDialAtATime'
    BY <1>6, DialStops DEF ClearFlag, Dialing
  <2>2. QED
    BY <1>6, <2>1 DEF ClearFlag, ClientTypeOK
<1>7. CASE Store(t)
  <2>1. OneDialAtATime'
    BY <1>1, <1>7, DialUnmoved DEF Store, Dialing
  <2>2. conn[t] \in Conns
    BY <1>7 DEF Store, ClientTypeOK
  <2>3. QED
    BY <1>1, <1>7, <2>1, <2>2 DEF Store, ClientTypeOK
<1>8. QED
  BY <1>2, <1>3, <1>4, <1>5, <1>6, <1>7 DEF TaskSteps

\* The steps of loops and of the relay leave the tasks alone.
LEMMA OthersKeepDials ==
  ASSUME ClientTypeOK, UNCHANGED <<dialer, conn, connecting, dialed>>
  PROVE  /\ OneDialAtATime'
         /\ dialer' \in [Tasks -> Dialers]
         /\ conn' \in [Tasks -> Conns \cup {None}]
         /\ \A t \in Tasks : conn'[t] # None <=> dialer'[t] \in {"started", "unstored"}
BY DEF ClientTypeOK, OneDialAtATime, Dialing, Dialers

LEMMA LoopType ==
  ASSUME ClientTypeOK, NEW c \in Conns, LoopSteps(c)
  PROVE  ClientTypeOK'
<1> USE DEF relayVars
<1>1. UNCHANGED <<dialer, conn, connecting, dialed>>
  BY DEF LoopSteps, WriteLoopDone, WriteLoopFails, ReadTaken, ReadStray, Read, ReadEnd,
         ReadIdle, Leave, ClearSlot
<1>2. OneDialAtATime'
  BY <1>1, OthersKeepDials
<1>3. ASSUME NEW r \in {"reading", "deaf"}, Read(c, r) PROVE ClientTypeOK'
  <2>1. inbox[c] \in Seq(Taken \cup Strays) /\ Tail(inbox[c]) \in Seq(Taken \cup Strays)
    BY <1>3 DEF Read, ClientTypeOK
  <2>2. inbox' \in [Conns -> Seq(Taken \cup Strays)]
    BY <1>3, <2>1 DEF Read, ClientTypeOK
  <2>3. QED
    BY <1>2, <1>3, <2>2 DEF Read, ClientTypeOK
<1>4. CASE Leave(c) /\ readLoop[c] = "reading"
  BY <1>2, <1>4 DEF Leave, ClientTypeOK
<1>5. CASE ClearSlot(c)
  BY <1>2, <1>5 DEF ClearSlot, ClientTypeOK
<1>6. CASE WriteLoopDone(c) \/ WriteLoopFails(c)
  BY <1>2, <1>6 DEF WriteLoopDone, WriteLoopFails, ClientTypeOK
<1>7. QED
  BY <1>3, <1>4, <1>5, <1>6 DEF LoopSteps, ReadTaken, ReadStray, ReadEnd, ReadIdle

LEMMA RelayType ==
  ASSUME ClientTypeOK, NEW c \in Conns, RelaySteps(c)
  PROVE  ClientTypeOK' /\ UNCHANGED nodeVars
<1> USE DEF nodeVars
<1>1. UNCHANGED nodeVars
  BY DEF RelaySteps, Acknowledges, Forwards, Keepalive, Refuses, GivesUp, Closes, FallsSilent
<1>2. OneDialAtATime'
  BY <1>1, OthersKeepDials
<1>3. ASSUME NEW m \in Taken \cup Strays, Says(c, m)
      PROVE  inbox' \in [Conns -> Seq(Taken \cup Strays)]
  BY <1>3 DEF Says, ClientTypeOK
<1>4. inbox' \in [Conns -> Seq(Taken \cup Strays)]
  BY <1>3 DEF RelaySteps, Acknowledges, Forwards, Keepalive, Refuses, GivesUp, Closes,
              FallsSilent, Taken, Strays, ClientTypeOK
<1>5. /\ link' \in [Conns -> {"none", "open", "closed", "silent"}]
      /\ session' \in [Conns -> {"none", "hello", "live", "muted", "over"}]
  BY DEF RelaySteps, Acknowledges, Forwards, Keepalive, Refuses, GivesUp, Closes,
         FallsSilent, ClientTypeOK
<1>6. QED
  BY <1>1, <1>2, <1>4, <1>5 DEF ClientTypeOK

LEMMA ClientTypeNext == ClientTypeOK /\ [ClientNext]_clientVars => ClientTypeOK'
<1> SUFFICES ASSUME ClientTypeOK, [ClientNext]_clientVars PROVE ClientTypeOK'
  OBVIOUS
<1>1. CASE Send
  <2>1. "queue" \in Tasks
    BY DEF Tasks
  <2>2. OneDialAtATime'
    BY <1>1, <2>1, DialUnmoved DEF Send, Dialing
  <2>3. QED
    BY <1>1, <2>1, <2>2, DialerMoves DEF Send, ClientTypeOK, Dialers, relayVars
<1>2. CASE UNCHANGED clientVars
  BY <1>2 DEF clientVars, ClientTypeOK, OneDialAtATime, Dialing
<1>3. QED
  BY <1>1, <1>2, TaskType, LoopType, RelayType DEF ClientNext

\* Types; in them, that two tasks never dial at the same time and that the flag
\* is up exactly while one does (ensure_connected).
THEOREM ClientTypeCorrect == ClientSpec => []ClientTypeOK
BY ClientTypeInit, ClientTypeNext, PTL DEF ClientSpec

-------------------------------------------------------------------------------
(***************************************************************************)
(* The slot.                                                               *)
(***************************************************************************)

\* A read loop that goes without being deaf leaves an empty slot behind it.
LEMMA LoopExplains ==
  ASSUME ClientTypeOK, DeadSlotExplained, NEW c \in Conns, LoopSteps(c)
  PROVE  DeadSlotExplained'
<1> USE DEF relayVars
<1>1. CASE ClearSlot(c)
  BY <1>1 DEF ClearSlot, DeadSlotExplained, ClientTypeOK
<1>2. ASSUME NEW r \in {"reading", "deaf", "leaving"},
             readLoop' = [readLoop EXCEPT ![c] = r], UNCHANGED <<slot, late>>
      PROVE  DeadSlotExplained'
  BY <1>2 DEF DeadSlotExplained, ClientTypeOK
<1>3. CASE WriteLoopDone(c) \/ WriteLoopFails(c)
  BY <1>3 DEF WriteLoopDone, WriteLoopFails, DeadSlotExplained
<1>4. QED
  BY <1>1, <1>2, <1>3 DEF LoopSteps, ReadTaken, ReadStray, Read, ReadEnd, ReadIdle, Leave

LEMMA TaskExplains ==
  ASSUME ClientTypeOK, DeadSlotExplained, NEW t \in Tasks, TaskSteps(t)
  PROVE  DeadSlotExplained'
<1> USE DEF relayVars
<1>1. CASE DialOk(t)
  BY <1>1 DEF DialOk, DeadSlotExplained, ClientTypeOK
<1>2. CASE Store(t)
  BY <1>2 DEF Store, DeadSlotExplained, ClientTypeOK
<1>3. CASE LookAtSlot(t) \/ TakeFlag(t) \/ DialFails(t) \/ ClearFlag(t)
  BY <1>3 DEF LookAtSlot, TakeFlag, DialFails, ClearFlag, DeadSlotExplained
<1>4. QED
  BY <1>1, <1>2, <1>3 DEF TaskSteps

LEMMA ExplainedNext ==
  ClientTypeOK /\ DeadSlotExplained /\ [ClientNext]_clientVars => DeadSlotExplained'
<1> SUFFICES ASSUME ClientTypeOK, DeadSlotExplained, [ClientNext]_clientVars
             PROVE  DeadSlotExplained'
  OBVIOUS
<1>1. CASE Send
  BY <1>1 DEF Send, DeadSlotExplained
<1>2. ASSUME NEW c \in Conns, RelaySteps(c) PROVE DeadSlotExplained'
  BY <1>2, RelayType DEF DeadSlotExplained, nodeVars
<1>3. CASE UNCHANGED clientVars
  BY <1>3 DEF clientVars, DeadSlotExplained
<1>4. QED
  BY <1>1, <1>2, <1>3, TaskExplains, LoopExplains DEF ClientNext

\* A slot that nobody reads has one of the two known causes, for any number of
\* tasks that dial and of connections.
THEOREM DeadSlotsExplained == ClientSpec => []DeadSlotExplained
<1>1. ClientInit => DeadSlotExplained
  BY DEF ClientInit, DeadSlotExplained
<1>2. QED
  BY <1>1, ClientTypeCorrect, ExplainedNext, PTL DEF ClientSpec
===============================================================================
