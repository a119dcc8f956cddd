------------------------------- MODULE Membership -------------------------------
(***************************************************************************)
(* Networks, devices, memberships and enrolment tokens in the server's      *)
(* database (skiff-server/src/repo.rs) under the handlers that change them  *)
(* (skiff-server/src/app.rs).                                               *)
(*                                                                         *)
(* db.rs guards its one connection with a mutex, and a transaction that     *)
(* fails rolls back: a transaction is one step.  A handler that reads       *)
(* before its transaction (who the caller is, whether the network exists,   *)
(* how many networks a device is in) acts later on what it read: such a     *)
(* request is in flight between the two, and other requests run meanwhile.  *)
(* A request whose transaction refuses leaves nothing behind and is         *)
(* Abandon.                                                                 *)
(*                                                                         *)
(* Identifiers of networks, devices and tokens are random and never reused. *)
(* The UNIQUE constraints of the memberships table are left out on purpose: *)
(* that its keys hold all the same says that the transactions never run     *)
(* into them.  The events a handler pushes are not part of this module.     *)
(***************************************************************************)
EXTENDS Ipam, FiniteSets

CONSTANTS
  Networks, Devices, Tokens,  \* identifiers
  Requested,    \* the [addr, size] of the CIDR each network is created with
  Wanted,       \* addresses that callers, tokens and administrators ask for
  NoAddr,       \* no address asked for
  Managed,      \* bound: devices that report a mode or are given settings
  Uses,         \* uses a token may be issued with (1 to 1000 in the code)
  MaxInFlight   \* bound: handlers between their reads and their transaction

\* admin_create_network refuses a prefix above 30.
ASSUME RequestedAssumption ==
  \A n \in Networks : /\ Requested[n].addr \in Nat
                      /\ Requested[n].size \in Nat
                      /\ Requested[n].size >= 4
ASSUME WantedAssumption == Wanted \subseteq Nat /\ NoAddr \notin Nat
ASSUME BoundsAssumption ==
  Managed \subseteq Devices /\ Uses \subseteq Nat \ {0} /\ MaxInFlight \in Nat

VARIABLES
  networks,     \* identifier -> free (not drawn yet), live, or gone
  devices,      \* identifier -> free, live, or gone
  memberships,  \* rows of the table
  tokens,       \* rows of enroll_tokens
  tun,          \* devices whose stored settings say mode = tun
  reported,     \* device -> mode in its presence record, "none" without one
  inflight      \* requests between their reads and their transaction

\* History, read by no guard: uses a token was issued with, and devices it let in.
VARIABLES issued, admitted

history == <<issued, admitted>>
vars == <<networks, devices, memberships, tokens, tun, reported, inflight, history>>

Status == {"free", "live", "gone"}

Membership == [net : Networks, dev : Devices, ip : Nat]

Token == [id : Tokens, net : Networks, left : Nat, ip : Wanted \cup {NoAddr},
          expired : BOOLEAN]

Request ==
  [op : {"join", "tun"}, dev : Devices]
    \cup [op : {"adminJoin"}, dev : Devices, net : Networks, single : BOOLEAN]
    \cup [op : {"setIp"}, dev : Devices, net : Networks]
    \cup [op : {"token"}, net : Networks]

CidrOf(n) == NewCidr(Requested[n].addr, Requested[n].size)

RowsOf(n) == {m \in memberships : m.net = n}

NetsOf(d) == {m.net : m \in {r \in memberships : r.dev = d}}

IsMember(n, d) == n \in NetsOf(d)

Init ==
  /\ networks = [n \in Networks |-> "free"]
  /\ devices = [d \in Devices |-> "free"]
  /\ memberships = {}
  /\ tokens = {}
  /\ tun = {}
  /\ reported = [d \in Devices |-> "none"]
  /\ inflight = {}
  /\ issued = [t \in Tokens |-> 0]
  /\ admitted = [t \in Tokens |-> 0]

\* A handler has read what it decides on and has yet to run its transaction.
Start(r) ==
  /\ r \notin inflight /\ Cardinality(inflight) < MaxInFlight
  /\ inflight' = inflight \cup {r}

Finish(r) == inflight' = inflight \ {r}

Used(n) == {m.ip : m \in RowsOf(n)}

\* The address for a new member of n: the one the caller asks for, else the
\* token's, else the lowest free one; none when it is refused.
Chosen(n, wanted, fallback) ==
  LET asked == IF wanted # NoAddr THEN wanted ELSE fallback
  IN  IF asked = NoAddr THEN Allocate(CidrOf(n), Used(n))
                        ELSE ValidateManual(asked, CidrOf(n), Used(n))

Insert(n, d, ip) ==
  memberships' = memberships \cup {[net |-> n, dev |-> d, ip |-> ip]}

\* Mutant: the network of a token is taken to exist.
AdmitsOrphan(k) == k \in tokens /\ ~ k.expired /\ k.left > 0

\* What enroll and join_network check of the token inside their transaction.
Admits(k) ==
  /\ k \in tokens
  /\ ~ k.expired
  /\ k.left > 0
  /\ networks[k.net] = "live"

Consume(k) ==
  /\ tokens' = (tokens \ {k}) \cup {[k EXCEPT !.left = @ - 1]}
  /\ admitted' = [admitted EXCEPT ![k.id] = @ + 1]

--------------------------------------------------------------------------------
(* Networks and tokens, by the administrator. *)

CreateNetwork(n) ==
  /\ networks[n] = "free"
  /\ networks' = [networks EXCEPT ![n] = "live"]
  /\ UNCHANGED <<devices, memberships, tokens, tun, reported, inflight, history>>

\* The rows of an identifier that names no network go too, a 404 notwithstanding.
DeleteNetwork(n) ==
  /\ networks[n] # "free"
  /\ networks' = [networks EXCEPT ![n] = "gone"]
  /\ memberships' = memberships \ RowsOf(n)
  /\ tokens' = {k \in tokens : k.net # n}
  /\ UNCHANGED <<devices, tun, reported, inflight, history>>

CreateTokenRead(n) ==
  /\ networks[n] = "live"
  /\ Start([op |-> "token", net |-> n])
  /\ UNCHANGED <<networks, devices, memberships, tokens, tun, reported, history>>

\* The insertion does not look whether the network is still there.
CreateToken(n, t, uses, ip) ==
  LET r == [op |-> "token", net |-> n]
  IN  /\ r \in inflight /\ issued[t] = 0
      /\ tokens' = tokens \cup {[id |-> t, net |-> n, left |-> uses, ip |-> ip,
                                 expired |-> FALSE]}
      /\ issued' = [issued EXCEPT ![t] = uses]
      /\ Finish(r)
      /\ UNCHANGED <<networks, devices, memberships, tun, reported, admitted>>

RevokeToken(k) ==
  /\ k \in tokens
  /\ tokens' = tokens \ {k}
  /\ UNCHANGED <<networks, devices, memberships, tun, reported, inflight, history>>

\* expires_at passes.
Expire(k) ==
  /\ k \in tokens /\ ~ k.expired
  /\ tokens' = (tokens \ {k}) \cup {[k EXCEPT !.expired = TRUE]}
  /\ UNCHANGED <<networks, devices, memberships, tun, reported, inflight, history>>

--------------------------------------------------------------------------------
(* Members come and go. *)

\* The device identifier is drawn in the transaction.
Enroll(k, d, wanted) ==
  /\ Admits(k)
  /\ devices[d] = "free"
  /\ \E ip \in Chosen(k.net, wanted, k.ip) : Insert(k.net, d, ip)
  /\ devices' = [devices EXCEPT ![d] = "live"]
  /\ Consume(k)
  /\ UNCHANGED <<networks, tun, reported, inflight, issued>>

\* auth_device; the body of the request is still on its way.
JoinRead(d) ==
  /\ devices[d] = "live"
  /\ Start([op |-> "join", dev |-> d])
  /\ UNCHANGED <<networks, devices, memberships, tokens, tun, reported, history>>

\* Mutant: a repeated join is charged.
JoinRowCharged(d, k, wanted) ==
  IF IsMember(k.net, d)
    THEN /\ tokens' = (tokens \ {k}) \cup {[k EXCEPT !.left = @ - 1]}
         /\ UNCHANGED <<memberships, admitted>>
    ELSE /\ \E ip \in Chosen(k.net, wanted, k.ip) : Insert(k.net, d, ip)
         /\ Consume(k)

\* A device that is a member already gets its row back and consumes no use.
JoinRow(d, k, wanted) ==
  IF IsMember(k.net, d)
    THEN UNCHANGED <<memberships, tokens, admitted>>
    ELSE /\ \E ip \in Chosen(k.net, wanted, k.ip) : Insert(k.net, d, ip)
         /\ Consume(k)

Join(d, k, wanted) ==
  LET r == [op |-> "join", dev |-> d]
  IN  /\ r \in inflight
      /\ Admits(k)
      /\ JoinRow(d, k, wanted)
      /\ Finish(r)
      /\ UNCHANGED <<networks, devices, tun, reported, issued>>

\* The mode is the one of the last heartbeat, or without one the stored one.  A
\* network given by its hexadecimal identifier is not looked up.
AdminJoinRead(d, n) ==
  /\ devices[d] = "live"
  /\ LET single == reported[d] = "tun" \/ (reported[d] = "none" /\ d \in tun)
     IN  Start([op |-> "adminJoin", dev |-> d, net |-> n, single |-> single])
  /\ UNCHANGED <<networks, devices, memberships, tokens, tun, reported, history>>

AdminJoin(r, wanted) ==
  /\ r \in inflight /\ r.op = "adminJoin"
  /\ networks[r.net] = "live"
  /\ IF IsMember(r.net, r.dev)
       THEN UNCHANGED memberships
       ELSE /\ ~ (r.single /\ NetsOf(r.dev) # {})
            /\ \E ip \in Chosen(r.net, wanted, NoAddr) : Insert(r.net, r.dev, ip)
  /\ Finish(r)
  /\ UNCHANGED <<networks, devices, tokens, tun, reported, history>>

\* Mutant: the count is not part of the DELETE.
LeaveAny(d, n) ==
  /\ IsMember(n, d)
  /\ memberships' = {m \in memberships : ~ (m.net = n /\ m.dev = d)}
  /\ UNCHANGED <<networks, devices, tokens, tun, reported, inflight, history>>

\* remove_membership_guarded, for a device that leaves and for an administrator
\* who takes it out: never the last membership.
Leave(d, n) ==
  /\ IsMember(n, d)
  /\ Cardinality(NetsOf(d)) > 1
  /\ memberships' = {m \in memberships : ~ (m.net = n /\ m.dev = d)}
  /\ UNCHANGED <<networks, devices, tokens, tun, reported, inflight, history>>

SetIpRead(d, n) ==
  /\ networks[n] = "live" /\ IsMember(n, d)
  /\ Start([op |-> "setIp", dev |-> d, net |-> n])
  /\ UNCHANGED <<networks, devices, memberships, tokens, tun, reported, history>>

UsedByOthers(n, d) == {m.ip : m \in {r \in RowsOf(n) : r.dev # d}}

\* The transaction checks the address only: when the row is gone meanwhile the
\* update finds none and succeeds.
SetIp(r, wanted) ==
  /\ r \in inflight /\ r.op = "setIp"
  /\ \E ip \in ValidateManual(wanted, CidrOf(r.net), UsedByOthers(r.net, r.dev)) :
       memberships' = {IF m.net = r.net /\ m.dev = r.dev THEN [m EXCEPT !.ip = ip] ELSE m
                         : m \in memberships}
  /\ Finish(r)
  /\ UNCHANGED <<networks, devices, tokens, tun, reported, history>>

\* The settings and the rows of a join still in flight stay behind.
DeleteDevice(d) ==
  /\ devices[d] # "free"
  /\ devices' = [devices EXCEPT ![d] = "gone"]
  /\ memberships' = {m \in memberships : m.dev # d}
  /\ reported' = [reported EXCEPT ![d] = "none"]
  /\ UNCHANGED <<networks, tokens, tun, inflight, history>>

--------------------------------------------------------------------------------
(* The mode of a device. *)

\* PUT with mode = tun counts the memberships before it stores anything.
PutTunRead(d) ==
  /\ d \in Managed /\ devices[d] = "live"
  /\ Cardinality(NetsOf(d)) <= 1
  /\ Start([op |-> "tun", dev |-> d])
  /\ UNCHANGED <<networks, devices, memberships, tokens, tun, reported, history>>

PutTun(d) ==
  LET r == [op |-> "tun", dev |-> d]
  IN  /\ r \in inflight
      /\ tun' = tun \cup {d}
      /\ Finish(r)
      /\ UNCHANGED <<networks, devices, memberships, tokens, reported, history>>

\* PUT with another mode, or with none.
PutOther(d) ==
  /\ d \in Managed /\ devices[d] = "live"
  /\ tun' = tun \ {d}
  /\ UNCHANGED <<networks, devices, memberships, tokens, reported, inflight, history>>

\* The mode the running worker has, which follows the settings late or never.
Heartbeat(d, mode) ==
  /\ d \in Managed /\ devices[d] = "live"
  /\ reported' = [reported EXCEPT ![d] = mode]
  /\ UNCHANGED <<networks, devices, memberships, tokens, tun, inflight, history>>

--------------------------------------------------------------------------------
\* The transaction refuses, or the caller hangs up and the handler is dropped.
Abandon(r) ==
  /\ r \in inflight
  /\ Finish(r)
  /\ UNCHANGED <<networks, devices, memberships, tokens, tun, reported, history>>

\* The server restarts: requests and presence records are gone, the tables stay.
Restart ==
  /\ inflight' = {}
  /\ reported' = [d \in Devices |-> "none"]
  /\ UNCHANGED <<networks, devices, memberships, tokens, tun, history>>

Administration ==
  \/ \E n \in Networks : CreateNetwork(n) \/ DeleteNetwork(n) \/ CreateTokenRead(n)
  \/ \E n \in Networks, t \in Tokens, uses \in Uses, ip \in Wanted \cup {NoAddr} :
       CreateToken(n, t, uses, ip)
  \/ \E k \in tokens : RevokeToken(k) \/ Expire(k)

Members ==
  \/ \E k \in tokens, d \in Devices, wanted \in Wanted \cup {NoAddr} :
       Enroll(k, d, wanted) \/ Join(d, k, wanted)
  \/ \E d \in Devices : JoinRead(d) \/ DeleteDevice(d)
  \/ \E d \in Devices, n \in Networks :
       AdminJoinRead(d, n) \/ Leave(d, n) \/ SetIpRead(d, n)
  \/ \E r \in inflight, wanted \in Wanted \cup {NoAddr} : AdminJoin(r, wanted)
  \/ \E r \in inflight, wanted \in Wanted : SetIp(r, wanted)

Modes ==
  \E d \in Devices : \/ PutTunRead(d) \/ PutTun(d) \/ PutOther(d)
                     \/ \E mode \in {"proxy", "tun"} : Heartbeat(d, mode)

Next ==
  \/ Administration
  \/ Members
  \/ Modes
  \/ \E r \in inflight : Abandon(r)
  \/ Restart

Spec == Init /\ [][Next]_vars

--------------------------------------------------------------------------------
TypeOK ==
  /\ networks \in [Networks -> Status]
  /\ devices \in [Devices -> Status]
  /\ memberships \subseteq Membership
  /\ tokens \subseteq Token
  /\ tun \subseteq Devices
  /\ reported \in [Devices -> {"none", "proxy", "tun"}]
  /\ inflight \subseteq Request
  /\ issued \in [Tokens -> Nat]
  /\ admitted \in [Tokens -> Nat]

\* No two members of a network have the same address and no device has two rows
\* in one network, whatever enrolments, joins and changes of address overlap:
\* insert_membership and set_membership_ip_atomic never meet the constraints of
\* the table (repo.rs 757-890).
AddressesUnique ==
  \A l, m \in memberships :
    l.net = m.net /\ (l.ip = m.ip \/ l.dev = m.dev) => l = m

\* Every member has a host address of its network's block, however it was chosen
\* and changed since: ipam.rs validates against masks, hands out from a range, and
\* names the hosts by a third pair of formulas.
AddressesAreHosts ==
  \A m \in memberships :
    m.ip \in FirstHost(CidrOf(m.net)) .. LastHost(CidrOf(m.net))

\* A row names a network that exists, although tokens may outlive their network
\* and administrators may join a device by identifier: no row is left in, or added
\* to, a network that is deleted meanwhile (repo.rs delete_network, enroll,
\* join_network, admin_join_network).
RowsOfLiveNetworks == \A m \in memberships : networks[m.net] = "live"

\* What the roster rests on: each row is of a live network and its address is a host
\* of the block and no other member's.
MembershipsValid == RowsOfLiveNetworks /\ AddressesAreHosts /\ AddressesUnique

\* A token lets in as many devices as it was issued for and each costs one use:
\* a repeated join costs none, and no use is lost by a transaction that refuses
\* (consume_token_use).
UsesAreAdmissions ==
  /\ \A k \in tokens : k.left + admitted[k.id] = issued[k.id]
  /\ \A t \in Tokens : admitted[t] <= issued[t]

\* A device loses its last membership only to the deletion of the network or of
\* the device itself, never to departures from two networks at once
\* (remove_membership_guarded).
LastMembershipKept ==
  [][\A d \in Devices :
       NetsOf(d) # {} /\ NetsOf(d)' = {} =>
         \/ devices'[d] = "gone"
         \/ \E n \in NetsOf(d) : networks'[n] = "gone"]_vars

-------------------------------------------------------------------------------
(***************************************************************************)
(* A claim of the repository that the code does not keep.                   *)
(***************************************************************************)

\* A device whose settings say tun is in one network at most (app.rs 1051-1053).
TunInOneNetwork == \A d \in tun : Cardinality(NetsOf(d)) <= 1
================================================================================
