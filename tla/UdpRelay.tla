------------------------------ MODULE UdpRelay ------------------------------
(***************************************************************************)
(* Registration at the UDP relay (skiff-server/src/relay/udp_relay.rs,      *)
(* register_guard.rs), from the node's socket (skiff-node/src/transport/    *)
(* udp_mesh.rs) to the endpoint that is told to it and to its peers.        *)
(*                                                                         *)
(* A node sends REGISTER with a new nonce at every second heartbeat.  The   *)
(* relay has the key of the device from a cache or from the database, tells *)
(* a nonce it has seen, and keeps the address the datagram came from: it    *)
(* forwards frames from that address only, and to the like address of the   *)
(* destination.  One task of the server reads the datagrams; an             *)
(* administrator who deletes the device works in another, between any two   *)
(* steps of it.                                                             *)
(*                                                                         *)
(* Datagrams are lost, repeated and reordered.  Addresses are what the      *)
(* server sees, behind address translation.  Expiry of an entry may come at *)
(* any moment.                                                              *)
(***************************************************************************)
EXTENDS Naturals

CONSTANTS
  Clients,
  Endpoints,
  Nonces,       \* of the REGISTERs of a device that are on the way or remembered
  Nowhere,      \* no endpoint
  MaxFaults     \* bound: changed addresses, failed queries, restarts of the server,
                \* nonces forgotten while copies of their datagram are about

ASSUME EndpointAssumption == Nowhere \notin Endpoints
ASSUME BoundsAssumption == MaxFaults \in Nat

VARIABLES
  \* Nodes and the net.
  addr,       \* address of the device's primary socket
  obs,        \* observed_endpoint, where the node believes to be seen
  sent,       \* where the REGISTER with a nonce came from while copies of it are about
  acks,       \* addresses an ACK is on its way to, or got lost on it
  \* The relay.
  reg,        \* registrations: the address, and whether it has not expired
  cached,     \* key_cache: devices with an entry that has not expired
  refused,    \* key_neg_cache, likewise
  used,       \* what the guard has seen of a device and has not forgotten
  h,          \* the datagram under way in the relay's task
  \* The rest of the server.
  rows,       \* devices in the database
  deleting,   \* how far the deletion of a device is: no, row, relay, done
  observed,   \* observed_udp_endpoint in the presence record
  \* History.
  admits,     \* how often the REGISTER of which copies are about was admitted
  forgot,     \* how often the guard lost its nonce meanwhile
  overlap,    \* devices that were in the relay's hands during their deletion
  faults

nodes == <<addr, obs>>
net == <<sent, acks>>
keys == <<cached, refused>>
admin == <<rows, deleting, overlap>>
counts == <<admits, forgot>>
vars == <<nodes, net, reg, keys, used, h, observed, counts, admin, faults>>

NoReg == [at |-> Nowhere, live |-> FALSE]
Idle == [pc |-> "idle"]
Handling == [pc : {"key", "found", "missing", "admit", "insert", "touch"},
             dev : Clients, from : Endpoints, nonce : Nonces]
Relaying == [pc : {"relay"}, dev : Clients, from : Endpoints, dst : Clients]

Faults == faults < MaxFaults /\ faults' = faults + 1

\* The memory of a server that starts.
Blank ==
  /\ reg' = [d \in Clients |-> NoReg] /\ cached' = {} /\ refused' = {}
  /\ used' = [d \in Clients |-> {}] /\ h' = Idle
  /\ observed' = [d \in Clients |-> Nowhere]

Init ==
  /\ addr \in {a \in [Clients -> Endpoints] : \A d, c \in Clients : a[d] = a[c] => d = c}
  /\ obs = [d \in Clients |-> Nowhere]
  /\ sent = [d \in Clients |-> [n \in Nonces |-> Nowhere]] /\ acks = {}
  /\ reg = [d \in Clients |-> NoReg] /\ cached = {} /\ refused = {}
  /\ used = [d \in Clients |-> {}] /\ h = Idle
  /\ observed = [d \in Clients |-> Nowhere]
  /\ admits = [d \in Clients |-> [n \in Nonces |-> 0]] /\ forgot = admits
  /\ rows = Clients /\ deleting = [d \in Clients |-> "no"] /\ overlap = {}
  /\ faults = 0

-----------------------------------------------------------------------------
(* The node. *)

\* Copies of the REGISTER with a nonce may be handled yet.
About(d, n) == sent[d][n] # Nowhere

\* send_register, with a nonce that neither the net nor the guard has.
SendRegister(d, n) ==
  /\ ~About(d, n) /\ n \notin used[d]
  /\ sent' = [sent EXCEPT ![d][n] = addr[d]]
  /\ UNCHANGED <<nodes, acks, reg, keys, used, h, observed, counts, admin, faults>>

\* classify: an ACK counts if it comes from the relay.
AckArrives(d) ==
  /\ addr[d] \in acks /\ obs' = [obs EXCEPT ![d] = addr[d]]
  /\ acks' = acks \ {addr[d]}
  /\ UNCHANGED <<addr, sent, reg, keys, used, h, observed, counts, admin, faults>>

\* The answer to a heartbeat has the server's view, if it has one.
HeartbeatAnswered(d) ==
  /\ observed[d] # Nowhere /\ obs' = [obs EXCEPT ![d] = observed[d]]
  /\ UNCHANGED <<addr, net, reg, keys, used, h, observed, counts, admin, faults>>

\* Address translation gives the socket another address, or the worker restarts.
Rebind(d, e) ==
  /\ Faults
  /\ \A c \in Clients : addr[c] # e
  /\ addr' = [addr EXCEPT ![d] = e]
  /\ obs' \in {obs, [obs EXCEPT ![d] = Nowhere]}
  /\ UNCHANGED <<net, reg, keys, used, h, observed, counts, admin>>

\* No copy of a datagram is left (which makes no difference before the relay's task is
\* free to take one), so that its history is over.  An ACK that is lost is one that never
\* arrives.
Lose(d, n) ==
  /\ h.pc = "idle" /\ About(d, n) /\ sent' = [sent EXCEPT ![d][n] = Nowhere]
  /\ admits' = [admits EXCEPT ![d][n] = 0] /\ forgot' = [forgot EXCEPT ![d][n] = 0]
  /\ UNCHANGED <<nodes, acks, reg, keys, used, h, observed, admin, faults>>

-----------------------------------------------------------------------------
(***************************************************************************)
(* The relay's task.  A copy of a REGISTER arrives, others may follow.      *)
(***************************************************************************)
Arrive(d, n) ==
  /\ h.pc = "idle" /\ About(d, n)
  /\ h' = [pc |-> "key", dev |-> d, from |-> sent[d][n], nonce |-> n]
  /\ overlap' = IF deleting[d] \in {"row", "relay"} THEN overlap \cup {d} ELSE overlap
  /\ UNCHANGED <<nodes, net, reg, keys, used, observed, counts, rows, deleting, faults>>

Handles(from, to) == h.pc = from /\ h' = IF to = "idle" THEN Idle ELSE [h EXCEPT !.pc = to]

\* relay_key_of: the cache, then the cache of refusals ...
KeyCached ==
  /\ h.pc = "key" /\ h.dev \in cached /\ Handles("key", "admit")
  /\ UNCHANGED <<nodes, net, reg, keys, used, observed, counts, admin, faults>>

KeyRefused ==
  /\ h.pc = "key" /\ h.dev \in refused \ cached /\ Handles("key", "idle")
  /\ UNCHANGED <<nodes, net, reg, keys, used, observed, counts, admin, faults>>

\* ... then the database; an error is taken for a device that does not exist.
KeyQueried ==
  /\ h.pc = "key" /\ h.dev \notin cached \cup refused
  /\ \/ h.dev \in rows /\ Handles("key", "found") /\ UNCHANGED faults
     \/ h.dev \notin rows /\ Handles("key", "missing") /\ UNCHANGED faults
     \/ h.dev \in rows /\ Handles("key", "missing") /\ Faults
  /\ UNCHANGED <<nodes, net, reg, keys, used, observed, counts, admin>>

KeyFound ==
  /\ Handles("found", "admit")
  /\ cached' = cached \cup {h.dev} /\ refused' = refused \ {h.dev}
  /\ UNCHANGED <<nodes, net, reg, used, observed, counts, admin, faults>>

KeyMissing ==
  /\ Handles("missing", "idle") /\ refused' = refused \cup {h.dev}
  /\ UNCHANGED <<nodes, net, reg, cached, used, observed, counts, admin, faults>>

Counted == admits' = [admits EXCEPT ![h.dev][h.nonce] = @ + 1] /\ UNCHANGED forgot

\* Mutant: the nonce is not remembered.
AdmitForgetting ==
  /\ h.pc = "admit" /\ h.nonce \notin used[h.dev]
  /\ Handles("admit", "insert") /\ Counted
  /\ UNCHANGED <<nodes, net, reg, keys, used, observed, admin, faults>>

\* RegisterGuard::admit.
Admit ==
  /\ h.pc = "admit" /\ h.nonce \notin used[h.dev]
  /\ Handles("admit", "insert") /\ Counted
  /\ used' = [used EXCEPT ![h.dev] = @ \cup {h.nonce}]
  /\ UNCHANGED <<nodes, net, reg, keys, observed, admin, faults>>

Seen ==
  /\ h.pc = "admit" /\ h.nonce \in used[h.dev] /\ Handles("admit", "idle")
  /\ UNCHANGED <<nodes, net, reg, keys, used, observed, counts, admin, faults>>

Insert ==
  /\ Handles("insert", "touch")
  /\ reg' = [reg EXCEPT ![h.dev] = [at |-> h.from, live |-> TRUE]]
  /\ UNCHANGED <<nodes, net, keys, used, observed, counts, admin, faults>>

\* touch_relay_udp, and the ACK.
TouchAndAck ==
  /\ Handles("touch", "idle")
  /\ observed' = [observed EXCEPT ![h.dev] = h.from] /\ acks' = acks \cup {h.from}
  /\ UNCHANGED <<nodes, sent, reg, keys, used, counts, admin, faults>>

\* Mutant: where a frame comes from is not looked at.
RelaySourceAnywhere(src, dst, e) ==
  /\ h.pc = "idle" /\ reg[src].live
  /\ h' = [pc |-> "relay", dev |-> src, from |-> e, dst |-> dst]
  /\ overlap' = IF deleting[src] \in {"row", "relay"} THEN overlap \cup {src} ELSE overlap
  /\ UNCHANGED <<nodes, net, reg, keys, used, observed, counts, rows, deleting, faults>>

\* A frame, perhaps a late one from an address the source had: from the address it
\* is registered at, or dropped.
RelaySource(src, dst, e) ==
  /\ h.pc = "idle" /\ reg[src].live /\ reg[src].at = e
  /\ h' = [pc |-> "relay", dev |-> src, from |-> e, dst |-> dst]
  /\ overlap' = IF deleting[src] \in {"row", "relay"} THEN overlap \cup {src} ELSE overlap
  /\ UNCHANGED <<nodes, net, reg, keys, used, observed, counts, rows, deleting, faults>>

\* The destination has a registration that is valid, or the frame is dropped.
RelayForward ==
  /\ Handles("relay", "idle")
  /\ observed' = IF reg[h.dst].live THEN [observed EXCEPT ![h.dev] = h.from] ELSE observed
  /\ UNCHANGED <<nodes, net, reg, keys, used, counts, admin, faults>>

-----------------------------------------------------------------------------
(* Expiry, and the sweep that removes what expired. *)

RegExpires(d) ==
  /\ reg[d].at # Nowhere
  /\ reg' = [reg EXCEPT ![d] = IF @.live THEN [@ EXCEPT !.live = FALSE] ELSE NoReg]
  /\ UNCHANGED <<nodes, net, keys, used, h, observed, counts, admin, faults>>

KeyExpires(d) ==
  /\ d \in cached /\ cached' = cached \ {d}
  /\ UNCHANGED <<nodes, net, reg, refused, used, h, observed, counts, admin, faults>>

\* Mutant: a refusal holds until a query succeeds.
RefusalExpiresNever(d) == FALSE

RefusalExpires(d) ==
  /\ d \in refused /\ refused' = refused \ {d}
  /\ UNCHANGED <<nodes, net, reg, cached, used, h, observed, counts, admin, faults>>

\* Ten minutes after its last admission a nonce is forgotten, whatever copies of the
\* datagram are about by then.
NonceExpires(d, n) ==
  /\ n \in used[d] /\ used' = [used EXCEPT ![d] = @ \ {n}]
  /\ IF About(d, n) THEN Faults /\ forgot' = [forgot EXCEPT ![d][n] = @ + 1]
                    ELSE UNCHANGED <<faults, forgot>>
  /\ UNCHANGED <<nodes, net, reg, keys, h, observed, admits, admin>>

-----------------------------------------------------------------------------
(* admin_delete_device: the row, then the relay's maps, then the presence record. *)

Overlaps(d) == overlap' = IF h.pc # "idle" /\ h.dev = d THEN overlap \cup {d} ELSE overlap

DeleteRow(d) ==
  /\ deleting[d] = "no" /\ deleting' = [deleting EXCEPT ![d] = "row"]
  /\ rows' = rows \ {d} /\ Overlaps(d)
  /\ UNCHANGED <<nodes, net, reg, keys, used, h, observed, counts, faults>>

\* Mutant: the registration goes and the key stays.
RelayUnregisterOnly(d) ==
  /\ deleting[d] = "row" /\ deleting' = [deleting EXCEPT ![d] = "relay"]
  /\ reg' = [reg EXCEPT ![d] = NoReg] /\ Overlaps(d)
  /\ UNCHANGED <<nodes, net, keys, used, h, observed, counts, rows, faults>>

RelayUnregister(d) ==
  /\ deleting[d] = "row" /\ deleting' = [deleting EXCEPT ![d] = "relay"]
  /\ reg' = [reg EXCEPT ![d] = NoReg] /\ cached' = cached \ {d} /\ Overlaps(d)
  /\ UNCHANGED <<nodes, net, refused, used, h, observed, counts, rows, faults>>

RemovePresence(d) ==
  /\ deleting[d] = "relay" /\ deleting' = [deleting EXCEPT ![d] = "done"]
  /\ observed' = [observed EXCEPT ![d] = Nowhere] /\ Overlaps(d)
  /\ UNCHANGED <<nodes, net, reg, keys, used, h, counts, rows, faults>>

\* The database stays; the rest was in memory, what the guard had seen included.
ServerRestart ==
  /\ Faults /\ Blank
  /\ forgot' = [d \in Clients |-> [n \in Nonces |->
                  forgot[d][n] + IF n \in used[d] /\ About(d, n) THEN 1 ELSE 0]]
  /\ deleting' = [d \in Clients |-> IF d \in rows THEN "no" ELSE "done"] /\ overlap' = {}
  /\ UNCHANGED <<nodes, net, rows, admits>>

-----------------------------------------------------------------------------
KeySteps == KeyCached \/ KeyRefused \/ KeyQueried \/ KeyFound \/ KeyMissing

Handle == KeySteps \/ Admit \/ Seen \/ Insert \/ TouchAndAck \/ RelayForward

Next ==
  \/ Handle \/ ServerRestart
  \/ \E d \in Clients :
       \/ AckArrives(d) \/ HeartbeatAnswered(d)
       \/ RegExpires(d) \/ KeyExpires(d) \/ RefusalExpires(d)
       \/ DeleteRow(d) \/ RelayUnregister(d) \/ RemovePresence(d)
       \/ \E n \in Nonces :
            SendRegister(d, n) \/ Lose(d, n) \/ Arrive(d, n) \/ NonceExpires(d, n)
       \/ \E e \in Endpoints : Rebind(d, e) \/ \E c \in Clients : RelaySource(d, c, e)

Spec == Init /\ [][Next]_vars

\* The relay's task goes on; nodes register and send heartbeats; entries expire and
\* copies die out.  The net is fair: of the REGISTERs a node sends again and again,
\* one gets through again and again.
Fairness ==
  /\ WF_vars(Handle)
  /\ \A d \in Clients :
       /\ WF_vars(HeartbeatAnswered(d)) /\ WF_vars(RefusalExpires(d))
       /\ WF_vars(\E n \in Nonces : SendRegister(d, n))
       /\ SF_vars(\E n \in Nonces \ used[d] : Arrive(d, n))
       /\ WF_vars(\E n \in Nonces : NonceExpires(d, n))
       /\ SF_vars(\E n \in Nonces : Lose(d, n))

FairSpec == Spec /\ Fairness

-----------------------------------------------------------------------------
(* Properties. *)

\* Types; an entry without an address is not valid.
TypeOK ==
  /\ addr \in [Clients -> Endpoints]
  /\ obs \in [Clients -> Endpoints \cup {Nowhere}]
  /\ sent \in [Clients -> [Nonces -> Endpoints \cup {Nowhere}]] /\ acks \subseteq Endpoints
  /\ reg \in [Clients -> [at : Endpoints \cup {Nowhere}, live : BOOLEAN]]
  /\ \A d \in Clients : reg[d].live => reg[d].at # Nowhere
  /\ cached \subseteq Clients /\ refused \subseteq Clients
  /\ used \in [Clients -> SUBSET Nonces]
  /\ h \in {Idle} \cup Handling \cup Relaying
  /\ rows \subseteq Clients /\ deleting \in [Clients -> {"no", "row", "relay", "done"}]
  /\ observed \in [Clients -> Endpoints \cup {Nowhere}]
  /\ admits \in [Clients -> [Nonces -> Nat]] /\ forgot \in [Clients -> [Nonces -> Nat]]
  /\ overlap \subseteq Clients
  /\ faults \in 0 .. MaxFaults

\* A REGISTER moves the registration once, however many copies of it arrive, and once more
\* for each time the guard lost its nonce while copies were about, after ten minutes or with
\* the server's memory.
AdmittedOnce == \A d \in Clients, n \in Nonces : admits[d][n] <= 1 + forgot[d][n]

\* What peers are told of a device ("udpEndpoints[0] is the relay-observed endpoint by
\* contract") is the address the relay sends its frames to, but for the moment between
\* the two being written.
ObservedIsRegistered ==
  \A d \in Clients :
    reg[d].at # Nowhere /\ deleting[d] = "no" /\ ~(h.pc = "touch" /\ h.dev = d)
    => observed[d] = reg[d].at

\* Of a device that is deleted the relay keeps nothing: no registration, no key to
\* register with again, no endpoint for others; but if one of its datagrams was in the
\* relay's hands meanwhile.
DeletedIsOut ==
  \A d \in Clients :
    deleting[d] = "done" /\ d \notin overlap
    => reg[d] = NoReg /\ d \notin cached /\ observed[d] = Nowhere

\* A node comes to be registered at the address it has, over and over: after lost and
\* late datagrams, another address, a failed query, a restart of the server.
ReachableAgain ==
  \A d \in Clients : []<>(d \notin rows \/ reg[d] = [at |-> addr[d], live |-> TRUE])

\* In the end the node knows the address it is seen at.
ObservedConverges ==
  \A d \in Clients : <>[](d \notin rows \/ obs[d] = addr[d])

\* Relay and node come to agree with the address the node has.
AddressConverges == ReachableAgain /\ ObservedConverges
=============================================================================
