---------------------------- MODULE MembershipProofs ----------------------------
(***************************************************************************)
(* Proofs about Membership: for any networks of at least two hosts, any      *)
(* number of devices, tokens and requests in flight, addresses are host     *)
(* addresses of one member each, rows name live networks, tokens let in     *)
(* what they were issued for, and departures leave a last membership.       *)
(***************************************************************************)
EXTENDS Membership, FiniteSetTheorems, TLAPS

\* A token's identifier names one row, and one that was issued.
TokenKeys ==
  /\ \A k, l \in tokens : k.id = l.id => k = l
  /\ \A k \in tokens : issued[k.id] > 0

\* Rows and requests name devices whose identifier was drawn.
DrawnDevices ==
  /\ \A m \in memberships : devices[m.dev] # "free"
  /\ \A r \in inflight : r.op # "token" => devices[r.dev] # "free"

IInv ==
  /\ TypeOK
  /\ TokenKeys
  /\ DrawnDevices
  /\ AddressesUnique
  /\ AddressesAreHosts
  /\ RowsOfLiveNetworks
  /\ UsesAreAdmissions

-------------------------------------------------------------------------------
(***************************************************************************)
(* The blocks and the addresses chosen in them.                             *)
(***************************************************************************)

\* A remainder is below the divisor and not above the number.
LEMMA Remainder ==
  ASSUME NEW a \in Nat, NEW s \in Nat, s > 0
  PROVE  a % s \in 0 .. s - 1 /\ a - (a % s) \in Nat
<1>1. a % s \in 0 .. s - 1
  OBVIOUS
<1>2. a % s <= a
  OBVIOUS
<1> QED
  BY <1>1, <1>2

\* The block of a network.
LEMMA CidrType ==
  ASSUME NEW n \in Networks
  PROVE  CidrOf(n).network \in Nat /\ CidrOf(n).size \in Nat /\ CidrOf(n).size >= 4
<1> DEFINE a == Requested[n].addr
           s == Requested[n].size
<1>1. a \in Nat /\ s \in Nat /\ s >= 4
  BY RequestedAssumption
<1>2. a - (a % s) \in Nat
  BY <1>1, Remainder
<1> QED
  BY <1>1, <1>2 DEF CidrOf, NewCidr

\* Allocation hands out free host addresses.
LEMMA AllocateSound ==
  ASSUME NEW n \in Networks, NEW used, NEW ip \in Allocate(CidrOf(n), used)
  PROVE  ip \in Nat /\ ip \in FirstHost(CidrOf(n)) .. LastHost(CidrOf(n)) /\ ip \notin used
BY CidrType DEF Allocate, FirstHost, LastHost, Broadcast

\* So does the validation of an address asked for, by masks.
LEMMA ValidateSound ==
  ASSUME NEW n \in Networks, NEW used, NEW addr \in Nat,
         NEW ip \in ValidateManual(addr, CidrOf(n), used)
  PROVE  ip \in Nat /\ ip \in FirstHost(CidrOf(n)) .. LastHost(CidrOf(n)) /\ ip \notin used
<1> DEFINE c == CidrOf(n)
<1>1. c.network \in Nat /\ c.size \in Nat /\ c.size >= 4
  BY CidrType
<1>2. /\ ip \in Nat /\ ip \notin used
      /\ ip - (ip % c.size) = c.network
      /\ ip # c.network /\ ip # c.network + c.size - 1
  BY <1>1 DEF ValidateManual, Contains, Broadcast
<1>3. ip % c.size \in 0 .. c.size - 1
  BY <1>1, <1>2, Remainder
<1> HIDE DEF c
<1>4. ip \in c.network + 1 .. c.network + c.size - 2
  BY <1>1, <1>2, <1>3
<1> QED
  BY <1>1, <1>2, <1>4 DEF FirstHost, LastHost, Broadcast, c

\* The address of a new member is a host address that no member has.
LEMMA ChosenSound ==
  ASSUME NEW n \in Networks, NEW wanted \in Wanted \cup {NoAddr},
         NEW fallback \in Wanted \cup {NoAddr}, NEW ip \in Chosen(n, wanted, fallback)
  PROVE  /\ ip \in Nat
         /\ ip \in FirstHost(CidrOf(n)) .. LastHost(CidrOf(n))
         /\ ip \notin Used(n)
<1> DEFINE asked == IF wanted # NoAddr THEN wanted ELSE fallback
<1>1. CASE asked = NoAddr
  BY <1>1, AllocateSound DEF Chosen
<1>2. CASE asked # NoAddr
  <2>1. asked \in Nat
    BY <1>2, WantedAssumption
  <2> QED
    BY <1>2, <2>1, ValidateSound DEF Chosen
<1> QED
  BY <1>1, <1>2

-------------------------------------------------------------------------------
(***************************************************************************)
(* What the operators that change a table keep.                             *)
(***************************************************************************)

\* The part of the invariant about the rows of memberships.
RowsOK ==
  /\ memberships \subseteq Membership
  /\ AddressesUnique
  /\ AddressesAreHosts
  /\ RowsOfLiveNetworks
  /\ \A m \in memberships : devices[m.dev] # "free"

\* The part of the invariant about the rows of tokens.
TokensOK ==
  /\ tokens \subseteq Token
  /\ issued \in [Tokens -> Nat]
  /\ admitted \in [Tokens -> Nat]
  /\ TokenKeys
  /\ UsesAreAdmissions

\* The rest.
OthersOK ==
  /\ networks \in [Networks -> Status]
  /\ devices \in [Devices -> Status]
  /\ tun \subseteq Devices
  /\ reported \in [Devices -> {"none", "proxy", "tun"}]
  /\ inflight \subseteq Request
  /\ \A r \in inflight : r.op # "token" => devices[r.dev] # "free"

LEMMA IInvParts == IInv <=> RowsOK /\ TokensOK /\ OthersOK
BY DEF IInv, RowsOK, TokensOK, OthersOK, TypeOK, DrawnDevices

\* The rows stay in order when none is added, those left are unchanged, and
\* the networks and devices they name are as they were.
LEMMA RowsKept ==
  ASSUME RowsOK, memberships' \subseteq memberships,
         \A m \in memberships' : networks'[m.net] = "live" /\ devices'[m.dev] # "free"
  PROVE  RowsOK'
BY DEF RowsOK, AddressesUnique, AddressesAreHosts, RowsOfLiveNetworks

\* A new member of a live network, under an address chosen for it.
LEMMA RowInserted ==
  ASSUME RowsOK, NEW n \in Networks, NEW d \in Devices, NEW ip \in Nat,
         networks[n] = "live", ~ IsMember(n, d), ip \notin Used(n),
         ip \in FirstHost(CidrOf(n)) .. LastHost(CidrOf(n)),
         Insert(n, d, ip), UNCHANGED networks,
         devices'[d] # "free", \A e \in Devices \ {d} : devices'[e] = devices[e]
  PROVE  RowsOK'
<1> DEFINE new == [net |-> n, dev |-> d, ip |-> ip]
<1>1. memberships' = memberships \cup {new} /\ new \in Membership
  BY DEF Insert, Membership
<1>2. \A m \in memberships : m.net = n => m.dev # d /\ m.ip # ip
  BY DEF IsMember, NetsOf, Used, RowsOf
<1>3. AddressesUnique'
  BY <1>1, <1>2 DEF RowsOK, AddressesUnique
<1>4. AddressesAreHosts'
  BY <1>1 DEF RowsOK, AddressesAreHosts
<1>5. RowsOfLiveNetworks'
  BY <1>1 DEF RowsOK, RowsOfLiveNetworks
<1>6. \A m \in memberships' : devices'[m.dev] # "free"
  BY <1>1 DEF RowsOK, Membership
<1> QED
  BY <1>1, <1>3, <1>4, <1>5, <1>6 DEF RowsOK

\* Rows of tokens that are dropped.
LEMMA TokensKept ==
  ASSUME TokensOK, tokens' \subseteq tokens, UNCHANGED history
  PROVE  TokensOK'
BY DEF TokensOK, TokenKeys, UsesAreAdmissions, history

\* A use that is consumed.
LEMMA UseConsumed ==
  ASSUME TokensOK, NEW k \in tokens, k.left > 0, Consume(k), UNCHANGED issued
  PROVE  TokensOK'
<1> DEFINE less == [k EXCEPT !.left = @ - 1]
<1>1. /\ tokens' = (tokens \ {k}) \cup {less}
      /\ admitted' = [admitted EXCEPT ![k.id] = @ + 1]
      /\ issued' = issued
  BY DEF Consume
<1>2. k \in Token /\ k.left \in Nat /\ k.id \in Tokens
  BY DEF TokensOK, Token
<1>3. /\ less \in Token /\ less.id = k.id /\ less.left = k.left - 1
  BY <1>2 DEF Token
<1>4. \A l \in tokens : l \in Token /\ l.id \in Tokens
  BY DEF TokensOK, Token
<1>5. \A l \in tokens \ {k} : l.id # k.id
  BY DEF TokensOK, TokenKeys
<1>6. admitted' \in [Tokens -> Nat]
  BY <1>1, <1>2 DEF TokensOK
<1>7. TokenKeys'
  BY <1>1, <1>3, <1>5 DEF TokensOK, TokenKeys
<1>8. k.left + admitted[k.id] = issued[k.id] /\ issued[k.id] \in Nat /\ admitted[k.id] \in Nat
  BY <1>2 DEF TokensOK, UsesAreAdmissions
<1>9. \A l \in tokens' : l.left + admitted'[l.id] = issued'[l.id]
  <2>1. less.left + admitted'[k.id] = issued[k.id]
    BY <1>1, <1>2, <1>3, <1>8 DEF TokensOK
  <2>2. ASSUME NEW l \in tokens, l.id # k.id
        PROVE  l.left + admitted'[l.id] = issued[l.id]
    BY <1>1, <1>4, <2>2 DEF TokensOK, UsesAreAdmissions
  <2> HIDE DEF less
  <2> QED
    BY <1>1, <1>3, <1>5, <2>1, <2>2
<1>10. \A t \in Tokens : admitted'[t] <= issued'[t]
  BY <1>1, <1>2, <1>8 DEF TokensOK, UsesAreAdmissions
<1> QED
  BY <1>1, <1>3, <1>6, <1>7, <1>9, <1>10 DEF TokensOK, UsesAreAdmissions

\* Requests come and go without touching devices or networks.
LEMMA OthersKept ==
  ASSUME OthersOK, UNCHANGED <<networks, devices>>,
         tun' \subseteq Devices,
         reported' \in [Devices -> {"none", "proxy", "tun"}],
         \A r \in inflight' :
           r \in inflight \/ (r \in Request /\ (r.op # "token" => devices[r.dev] # "free"))
  PROVE  OthersOK'
BY DEF OthersOK

\* A request that starts on what its handler read.
LEMMA StartKept ==
  ASSUME OthersOK, NEW r \in Request, r.op # "token" => devices[r.dev] # "free",
         Start(r), UNCHANGED <<networks, devices, tun, reported>>
  PROVE  OthersOK'
BY OthersKept DEF Start, OthersOK

\* A request that ends.
LEMMA FinishKept ==
  ASSUME OthersOK, NEW r, Finish(r), UNCHANGED <<networks, devices, tun, reported>>
  PROVE  OthersOK'
BY OthersKept DEF Finish, OthersOK

\* A device whose rows are known is one of the constant.
LEMMA MemberNets ==
  ASSUME RowsOK, NEW d, NEW n, IsMember(n, d)
  PROVE  n \in Networks /\ d \in Devices /\ networks[n] = "live" /\ devices[d] # "free"
BY DEF RowsOK, IsMember, NetsOf, Membership, RowsOfLiveNetworks

\* A new member that Chosen found an address for.
LEMMA ChosenInserted ==
  ASSUME RowsOK, NEW n \in Networks, NEW d \in Devices,
         NEW wanted \in Wanted \cup {NoAddr}, NEW fallback \in Wanted \cup {NoAddr},
         \E ip \in Chosen(n, wanted, fallback) : Insert(n, d, ip),
         networks[n] = "live", ~ IsMember(n, d), UNCHANGED networks,
         devices'[d] # "free", \A e \in Devices \ {d} : devices'[e] = devices[e]
  PROVE  RowsOK'
<1>1. PICK ip \in Chosen(n, wanted, fallback) : Insert(n, d, ip)
  OBVIOUS
<1>2. /\ ip \in Nat /\ ip \notin Used(n)
      /\ ip \in FirstHost(CidrOf(n)) .. LastHost(CidrOf(n))
  BY ChosenSound
<1> QED
  BY <1>1, <1>2, RowInserted

\* A member moved to an address validated against the others.
LEMMA RowMoved ==
  ASSUME RowsOK, UNCHANGED <<networks, devices>>,
         NEW n \in Networks, NEW d \in Devices, NEW wanted \in Wanted,
         NEW ip \in ValidateManual(wanted, CidrOf(n), UsedByOthers(n, d)),
         memberships' = {IF m.net = n /\ m.dev = d THEN [m EXCEPT !.ip = ip] ELSE m
                           : m \in memberships}
  PROVE  RowsOK'
<1> DEFINE Moved(m) == IF m.net = n /\ m.dev = d THEN [m EXCEPT !.ip = ip] ELSE m
<1>1. /\ ip \in Nat /\ ip \notin UsedByOthers(n, d)
      /\ ip \in FirstHost(CidrOf(n)) .. LastHost(CidrOf(n))
  BY WantedAssumption, ValidateSound
<1>2. ASSUME NEW m \in memberships
      PROVE  /\ Moved(m) \in Membership
             /\ Moved(m).net = m.net /\ Moved(m).dev = m.dev
             /\ Moved(m).ip = IF m.net = n /\ m.dev = d THEN ip ELSE m.ip
  BY <1>1, <1>2 DEF RowsOK, Membership
<1>3. \A m \in memberships : m.net = n /\ m.dev # d => m.ip # ip
  BY <1>1 DEF UsedByOthers, RowsOf
<1>4. memberships' = {Moved(m) : m \in memberships}
  OBVIOUS
<1> HIDE DEF Moved
<1>5. memberships' \subseteq Membership
  BY <1>2, <1>4
<1>6. ASSUME NEW l \in memberships, NEW m \in memberships, l.net = m.net,
             Moved(l).ip = Moved(m).ip \/ l.dev = m.dev
      PROVE  l = m
  BY <1>2, <1>3, <1>6 DEF RowsOK, AddressesUnique
<1>7. AddressesUnique'
  BY <1>2, <1>4, <1>6 DEF AddressesUnique
<1>8. AddressesAreHosts'
  BY <1>1, <1>2, <1>4 DEF RowsOK, AddressesAreHosts
<1>9. RowsOfLiveNetworks' /\ \A m \in memberships' : devices'[m.dev] # "free"
  BY <1>2, <1>4 DEF RowsOK, RowsOfLiveNetworks
<1> QED
  BY <1>5, <1>7, <1>8, <1>9 DEF RowsOK

-------------------------------------------------------------------------------
(***************************************************************************)
(* The invariant.                                                           *)
(***************************************************************************)

LEMMA InitIInv == Init => IInv
BY DEF Init, IInv, TypeOK, TokenKeys, DrawnDevices, AddressesUnique, AddressesAreHosts,
       RowsOfLiveNetworks, UsesAreAdmissions, Status

LEMMA AdministrationKeepsParts ==
  ASSUME RowsOK, TokensOK, OthersOK, Administration
  PROVE  RowsOK' /\ TokensOK' /\ OthersOK'
<1> USE DEF history
<1>1. ASSUME NEW n \in Networks, CreateNetwork(n)
      PROVE  RowsOK' /\ TokensOK' /\ OthersOK'
  <2>1. networks' \in [Networks -> Status]
    BY <1>1 DEF CreateNetwork, OthersOK, Status
  <2>2. \A m \in memberships : networks'[m.net] = "live"
    BY <1>1 DEF CreateNetwork, OthersOK, RowsOK, RowsOfLiveNetworks, Membership
  <2>3. RowsOK'
    BY <1>1, <2>2, RowsKept DEF CreateNetwork, RowsOK
  <2>4. TokensOK'
    BY <1>1, TokensKept DEF CreateNetwork
  <2> QED
    BY <1>1, <2>1, <2>3, <2>4 DEF CreateNetwork, OthersOK
<1>2. ASSUME NEW n \in Networks, DeleteNetwork(n)
      PROVE  RowsOK' /\ TokensOK' /\ OthersOK'
  <2>1. networks' \in [Networks -> Status]
    BY <1>2 DEF DeleteNetwork, OthersOK, Status
  <2>2. \A m \in memberships' : m \in memberships /\ m.net # n
    BY <1>2 DEF DeleteNetwork, RowsOf
  <2>3. \A m \in memberships' : networks'[m.net] = "live" /\ devices'[m.dev] # "free"
    BY <1>2, <2>2 DEF DeleteNetwork, OthersOK, RowsOK, RowsOfLiveNetworks, Membership
  <2>4. RowsOK'
    BY <2>2, <2>3, RowsKept
  <2>5. TokensOK'
    BY <1>2, TokensKept DEF DeleteNetwork
  <2> QED
    BY <1>2, <2>1, <2>4, <2>5 DEF DeleteNetwork, OthersOK
<1>3. ASSUME NEW n \in Networks, CreateTokenRead(n)
      PROVE  RowsOK' /\ TokensOK' /\ OthersOK'
  <2>1. [op |-> "token", net |-> n] \in Request
    BY DEF Request
  <2>2. OthersOK'
    BY <1>3, <2>1, StartKept DEF CreateTokenRead
  <2>3. RowsOK'
    BY <1>3, RowsKept DEF CreateTokenRead, RowsOK, RowsOfLiveNetworks
  <2>4. TokensOK'
    BY <1>3, TokensKept DEF CreateTokenRead
  <2> QED
    BY <2>2, <2>3, <2>4
<1>4. ASSUME NEW n \in Networks, NEW t \in Tokens, NEW uses \in Uses,
             NEW ip \in Wanted \cup {NoAddr}, CreateToken(n, t, uses, ip)
      PROVE  RowsOK' /\ TokensOK' /\ OthersOK'
  <2> DEFINE new == [id |-> t, net |-> n, left |-> uses, ip |-> ip, expired |-> FALSE]
  <2>1. /\ tokens' = tokens \cup {new} /\ issued[t] = 0
        /\ issued' = [issued EXCEPT ![t] = uses] /\ admitted' = admitted
    BY <1>4 DEF CreateToken
  <2>2. new \in Token /\ uses \in Nat /\ uses > 0
    BY BoundsAssumption DEF Token
  <2>3. \A k \in tokens : k.id # t /\ k.id \in Tokens
    BY <2>1 DEF TokensOK, TokenKeys, Token
  <2>4. admitted[t] = 0
    BY <2>1 DEF TokensOK, UsesAreAdmissions
  <2>5. issued' \in [Tokens -> Nat]
    BY <2>1, <2>2 DEF TokensOK
  <2>6. TokenKeys'
    <3>1. new.id = t /\ issued'[t] = uses
      BY <2>1 DEF TokensOK
    <3>2. \A k \in tokens : issued'[k.id] = issued[k.id]
      BY <2>1, <2>3 DEF TokensOK
    <3> HIDE DEF new
    <3> QED
      BY <2>1, <2>2, <2>3, <3>1, <3>2 DEF TokensOK, TokenKeys
  <2>7. UsesAreAdmissions'
    BY <2>1, <2>2, <2>3, <2>4 DEF TokensOK, UsesAreAdmissions
  <2>8. TokensOK'
    BY <2>1, <2>2, <2>5, <2>6, <2>7 DEF TokensOK
  <2>9. OthersOK'
    BY <1>4, FinishKept DEF CreateToken
  <2>10. RowsOK'
    BY <1>4, RowsKept DEF CreateToken, RowsOK, RowsOfLiveNetworks
  <2> QED
    BY <2>8, <2>9, <2>10
<1>5. ASSUME NEW k \in tokens, RevokeToken(k)
      PROVE  RowsOK' /\ TokensOK' /\ OthersOK'
  <2>1. TokensOK'
    BY <1>5, TokensKept DEF RevokeToken
  <2>2. RowsOK'
    BY <1>5, RowsKept DEF RevokeToken, RowsOK, RowsOfLiveNetworks
  <2> QED
    BY <1>5, <2>1, <2>2 DEF RevokeToken, OthersOK
<1>6. ASSUME NEW k \in tokens, Expire(k)
      PROVE  RowsOK' /\ TokensOK' /\ OthersOK'
  <2> DEFINE old == [k EXCEPT !.expired = TRUE]
  <2>1. old \in Token /\ old.id = k.id /\ old.left = k.left
    BY DEF TokensOK, Token
  <2>2. tokens' = (tokens \ {k}) \cup {old} /\ issued' = issued /\ admitted' = admitted
    BY <1>6 DEF Expire
  <2>3. TokensOK'
    BY <2>1, <2>2 DEF TokensOK, TokenKeys, UsesAreAdmissions
  <2>4. RowsOK'
    BY <1>6, RowsKept DEF Expire, RowsOK, RowsOfLiveNetworks
  <2> QED
    BY <1>6, <2>3, <2>4 DEF Expire, OthersOK
<1> QED
  BY <1>1, <1>2, <1>3, <1>4, <1>5, <1>6 DEF Administration

LEMMA MembersKeepParts ==
  ASSUME RowsOK, TokensOK, OthersOK, Members
  PROVE  RowsOK' /\ TokensOK' /\ OthersOK'
<1> USE DEF history
<1> DEFINE Kept == RowsOK' /\ TokensOK' /\ OthersOK'
<1>tok. \A k \in tokens : /\ k.net \in Networks /\ k.ip \in Wanted \cup {NoAddr}
                         /\ k.left \in Nat
  BY DEF TokensOK, Token
<1>1. ASSUME NEW k \in tokens, NEW d \in Devices, NEW wanted \in Wanted \cup {NoAddr},
             Enroll(k, d, wanted)
      PROVE  Kept
  <2>1. /\ networks[k.net] = "live" /\ k.left > 0 /\ devices[d] = "free"
        /\ \E ip \in Chosen(k.net, wanted, k.ip) : Insert(k.net, d, ip)
        /\ devices' = [devices EXCEPT ![d] = "live"] /\ networks' = networks
        /\ Consume(k) /\ issued' = issued
    BY <1>1 DEF Enroll, Admits
  <2>2. ~ IsMember(k.net, d)
    BY <2>1, MemberNets
  <2>3. devices' \in [Devices -> Status] /\ devices'[d] = "live"
        /\ \A e \in Devices \ {d} : devices'[e] = devices[e]
    BY <2>1 DEF OthersOK, Status
  <2>4. RowsOK'
    BY <1>tok, <2>1, <2>2, <2>3, ChosenInserted
  <2>5. TokensOK'
    BY <2>1, UseConsumed
  <2>6. \A r \in inflight : r.op # "token" => devices'[r.dev] # "free"
    <3>1. ASSUME NEW r \in inflight, r.op # "token"
          PROVE  r.dev \in Devices /\ devices[r.dev] # "free"
      BY <3>1 DEF OthersOK, Request
    <3> QED
      BY <2>1, <2>3, <3>1
  <2> QED
    BY <1>1, <2>3, <2>4, <2>5, <2>6 DEF Enroll, OthersOK
<1>2. ASSUME NEW k \in tokens, NEW d \in Devices, NEW wanted \in Wanted \cup {NoAddr},
             Join(d, k, wanted)
      PROVE  Kept
  <2> DEFINE r == [op |-> "join", dev |-> d]
  <2>1. /\ r \in inflight /\ networks[k.net] = "live" /\ k.left > 0
        /\ JoinRow(d, k, wanted)
        /\ UNCHANGED <<networks, devices, tun, reported, issued>>
        /\ Finish(r)
    BY <1>2 DEF Join, Admits
  <2>2. devices[d] # "free"
    BY <2>1 DEF OthersOK
  <2>3. OthersOK'
    BY <2>1, FinishKept
  <2>4. CASE IsMember(k.net, d)
    <3>1. RowsOK'
      BY <2>1, <2>4, RowsKept DEF JoinRow, RowsOK, RowsOfLiveNetworks
    <3>2. TokensOK'
      BY <2>1, <2>4, TokensKept DEF JoinRow
    <3> QED
      BY <2>3, <3>1, <3>2
  <2>5. CASE ~ IsMember(k.net, d)
    <3>1. /\ \E ip \in Chosen(k.net, wanted, k.ip) : Insert(k.net, d, ip)
          /\ Consume(k)
      BY <2>1, <2>5 DEF JoinRow
    <3>2. RowsOK'
      BY <1>tok, <2>1, <2>2, <2>5, <3>1, ChosenInserted
    <3>3. TokensOK'
      BY <2>1, <3>1, UseConsumed
    <3> QED
      BY <2>3, <3>2, <3>3
  <2> QED
    BY <2>4, <2>5
<1>3. ASSUME NEW d \in Devices, JoinRead(d)
      PROVE  Kept
  <2>1. [op |-> "join", dev |-> d] \in Request
    BY DEF Request
  <2>2. OthersOK'
    BY <1>3, <2>1, StartKept DEF JoinRead
  <2>3. RowsOK'
    BY <1>3, RowsKept DEF JoinRead, RowsOK, RowsOfLiveNetworks
  <2>4. TokensOK'
    BY <1>3, TokensKept DEF JoinRead
  <2> QED
    BY <2>2, <2>3, <2>4
<1>4. ASSUME NEW d \in Devices, DeleteDevice(d)
      PROVE  Kept
  <2>1. /\ devices' = [devices EXCEPT ![d] = "gone"]
        /\ memberships' = {m \in memberships : m.dev # d}
    BY <1>4 DEF DeleteDevice
  <2>2. devices' \in [Devices -> Status] /\ \A e \in Devices :
          devices[e] # "free" => devices'[e] # "free"
    BY <2>1 DEF OthersOK, Status
  <2>3. RowsOK'
    BY <1>4, <2>1, <2>2, RowsKept
       DEF DeleteDevice, RowsOK, RowsOfLiveNetworks, Membership
  <2>4. TokensOK'
    BY <1>4, TokensKept DEF DeleteDevice
  <2>5. \A r \in inflight : r.op # "token" => r.dev \in Devices /\ devices'[r.dev] # "free"
    <3>1. ASSUME NEW r \in inflight, r.op # "token"
          PROVE  r.dev \in Devices /\ devices[r.dev] # "free"
      BY <3>1 DEF OthersOK, Request
    <3> QED
      BY <2>2, <3>1
  <2>6. reported' \in [Devices -> {"none", "proxy", "tun"}]
    BY <1>4 DEF DeleteDevice, OthersOK
  <2> QED
    BY <1>4, <2>2, <2>3, <2>4, <2>5, <2>6 DEF DeleteDevice, OthersOK
<1>5. ASSUME NEW d \in Devices, NEW n \in Networks, AdminJoinRead(d, n)
      PROVE  Kept
  <2> DEFINE single == reported[d] = "tun" \/ (reported[d] = "none" /\ d \in tun)
             r == [op |-> "adminJoin", dev |-> d, net |-> n, single |-> single]
  <2>1. r \in Request
    <3>1. single \in BOOLEAN
      BY Zenon
    <3> HIDE DEF single
    <3> QED
      BY <3>1 DEF Request
  <2>2. Start(r) /\ devices[d] = "live"
        /\ UNCHANGED <<networks, devices, memberships, tokens, tun, reported, history>>
    BY <1>5 DEF AdminJoinRead
  <2>3. OthersOK'
    BY <2>1, <2>2, StartKept
  <2>4. RowsOK'
    BY <2>2, RowsKept DEF RowsOK, RowsOfLiveNetworks
  <2>5. TokensOK'
    BY <2>2, TokensKept
  <2> QED
    BY <2>3, <2>4, <2>5
<1>6. ASSUME NEW d \in Devices, NEW n \in Networks, Leave(d, n)
      PROVE  Kept
  <2>1. RowsOK'
    BY <1>6, RowsKept DEF Leave, RowsOK, RowsOfLiveNetworks
  <2>2. TokensOK'
    BY <1>6, TokensKept DEF Leave
  <2> QED
    BY <1>6, <2>1, <2>2 DEF Leave, OthersOK
<1>7. ASSUME NEW d \in Devices, NEW n \in Networks, SetIpRead(d, n)
      PROVE  Kept
  <2>1. [op |-> "setIp", dev |-> d, net |-> n] \in Request
    BY DEF Request
  <2>2. devices[d] # "free"
    BY <1>7, MemberNets DEF SetIpRead
  <2>3. OthersOK'
    BY <1>7, <2>1, <2>2, StartKept DEF SetIpRead
  <2>4. RowsOK'
    BY <1>7, RowsKept DEF SetIpRead, RowsOK, RowsOfLiveNetworks
  <2>5. TokensOK'
    BY <1>7, TokensKept DEF SetIpRead
  <2> QED
    BY <2>3, <2>4, <2>5
<1>8. ASSUME NEW r \in inflight, NEW wanted \in Wanted \cup {NoAddr}, AdminJoin(r, wanted)
      PROVE  Kept
  <2>1. r.net \in Networks /\ r.dev \in Devices /\ devices[r.dev] # "free"
    BY <1>8 DEF AdminJoin, OthersOK, Request
  <2>2. OthersOK'
    BY <1>8, FinishKept DEF AdminJoin
  <2>3. TokensOK'
    BY <1>8, TokensKept DEF AdminJoin
  <2>4. CASE IsMember(r.net, r.dev)
    <3>1. RowsOK'
      BY <1>8, <2>4, RowsKept DEF AdminJoin, RowsOK, RowsOfLiveNetworks
    <3> QED
      BY <2>2, <2>3, <3>1
  <2>5. CASE ~ IsMember(r.net, r.dev)
    <3>1. /\ \E ip \in Chosen(r.net, wanted, NoAddr) : Insert(r.net, r.dev, ip)
          /\ networks[r.net] = "live" /\ UNCHANGED <<networks, devices>>
      BY <1>8, <2>5 DEF AdminJoin
    <3>2. RowsOK'
      BY <2>1, <2>5, <3>1, ChosenInserted
    <3> QED
      BY <2>2, <2>3, <3>2
  <2> QED
    BY <2>4, <2>5
<1>9. ASSUME NEW r \in inflight, NEW wanted \in Wanted, SetIp(r, wanted)
      PROVE  Kept
  <2>1. r.net \in Networks /\ r.dev \in Devices
    BY <1>9 DEF SetIp, OthersOK, Request
  <2>2. OthersOK'
    BY <1>9, FinishKept DEF SetIp
  <2>3. TokensOK'
    BY <1>9, TokensKept DEF SetIp
  <2>4. UNCHANGED <<networks, devices>>
    BY <1>9 DEF SetIp
  <2>5. PICK ip \in ValidateManual(wanted, CidrOf(r.net), UsedByOthers(r.net, r.dev)) :
          memberships' = {IF m.net = r.net /\ m.dev = r.dev THEN [m EXCEPT !.ip = ip] ELSE m
                            : m \in memberships}
    BY <1>9 DEF SetIp
  <2>6. RowsOK'
    BY <2>1, <2>4, <2>5, RowMoved
  <2> QED
    BY <2>2, <2>3, <2>6
<1> QED
  BY <1>1, <1>2, <1>3, <1>4, <1>5, <1>6, <1>7, <1>8, <1>9 DEF Members

LEMMA ModesKeepParts ==
  ASSUME RowsOK, TokensOK, OthersOK, Modes
  PROVE  RowsOK' /\ TokensOK' /\ OthersOK'
<1> USE DEF history
<1>1. UNCHANGED <<networks, devices, memberships, tokens, history>>
  BY DEF Modes, PutTunRead, PutTun, PutOther, Heartbeat
<1>2. RowsOK'
  BY <1>1, RowsKept DEF RowsOK, RowsOfLiveNetworks
<1>3. TokensOK'
  BY <1>1, TokensKept
<1>4. ASSUME NEW d \in Devices, PutTunRead(d)
      PROVE  OthersOK'
  <2>1. [op |-> "tun", dev |-> d] \in Request
    BY DEF Request
  <2> QED
    BY <1>4, <2>1, StartKept DEF PutTunRead
<1>5. ASSUME NEW d \in Devices, PutTun(d)
      PROVE  OthersOK'
  BY <1>5, OthersKept DEF PutTun, Finish, OthersOK
<1>6. ASSUME NEW d \in Devices, PutOther(d)
      PROVE  OthersOK'
  BY <1>6, OthersKept DEF PutOther, OthersOK
<1>7. ASSUME NEW d \in Devices, NEW mode \in {"proxy", "tun"}, Heartbeat(d, mode)
      PROVE  OthersOK'
  BY <1>7, OthersKept DEF Heartbeat, OthersOK
<1> QED
  BY <1>2, <1>3, <1>4, <1>5, <1>6, <1>7 DEF Modes

\* Every step keeps the invariant.
LEMMA NextKeepsIInv == IInv /\ [Next]_vars => IInv'
<1> SUFFICES ASSUME IInv, [Next]_vars
             PROVE  IInv'
  OBVIOUS
<1>1. RowsOK /\ TokensOK /\ OthersOK
  BY IInvParts
<1>2. SUFFICES RowsOK' /\ TokensOK' /\ OthersOK'
  BY DEF IInv, RowsOK, TokensOK, OthersOK, TypeOK, DrawnDevices
<1>3. CASE Administration
  BY <1>1, <1>3, AdministrationKeepsParts
<1>4. CASE Members
  BY <1>1, <1>4, MembersKeepParts
<1>5. CASE Modes
  BY <1>1, <1>5, ModesKeepParts
<1>6. ASSUME UNCHANGED <<networks, devices, memberships, tokens, tun, history>>,
             inflight' \subseteq inflight,
             reported' \in [Devices -> {"none", "proxy", "tun"}]
      PROVE  RowsOK' /\ TokensOK' /\ OthersOK'
  <2>1. RowsOK'
    BY <1>1, <1>6, RowsKept DEF RowsOK, RowsOfLiveNetworks
  <2>2. TokensOK'
    BY <1>1, <1>6, TokensKept
  <2>3. OthersOK'
    BY <1>1, <1>6, OthersKept DEF OthersOK
  <2> QED
    BY <2>1, <2>2, <2>3
<1>7. ASSUME NEW r \in inflight, Abandon(r)
      PROVE  RowsOK' /\ TokensOK' /\ OthersOK'
  BY <1>1, <1>6, <1>7 DEF Abandon, Finish, OthersOK
<1>8. CASE Restart
  BY <1>6, <1>8 DEF Restart
<1>9. CASE UNCHANGED vars
  BY <1>1, <1>6, <1>9 DEF vars, OthersOK
<1> QED
  BY <1>3, <1>4, <1>5, <1>7, <1>8, <1>9 DEF Next

\* The inductive invariant holds throughout.
THEOREM Invariant == Spec => []IInv
<1>1. Init => IInv
  BY InitIInv
<1>2. IInv /\ [Next]_vars => IInv'
  BY NextKeepsIInv
<1> QED
  BY <1>1, <1>2, PTL DEF Spec

\* Every variable keeps its type under every handler; in particular no token ever
\* has less than no uses left (repo.rs consume_token_use).
THEOREM TypeCorrect == Spec => []TypeOK
<1>1. IInv => TypeOK
  BY DEF IInv
<1> QED
  BY <1>1, Invariant, PTL

\* No address of a network has two members and no member two rows, without help
\* from the table's constraints (repo.rs insert_membership,
\* set_membership_ip_atomic).
THEOREM AddressesUniqueAlways == Spec => []AddressesUnique
<1>1. IInv => AddressesUnique
  BY DEF IInv
<1> QED
  BY <1>1, Invariant, PTL

\* For blocks of every size and alignment, what allocation and validation let
\* through is a host address (ipam.rs).
THEOREM AddressesAreHostsAlways == Spec => []AddressesAreHosts
<1>1. IInv => AddressesAreHosts
  BY DEF IInv
<1> QED
  BY <1>1, Invariant, PTL

\* No member is left in, or joins, a network that is deleted (repo.rs).
THEOREM RowsOfLiveNetworksAlways == Spec => []RowsOfLiveNetworks
<1>1. IInv => RowsOfLiveNetworks
  BY DEF IInv
<1> QED
  BY <1>1, Invariant, PTL

\* Whatever requests overlap, every row is a valid membership.
THEOREM MembershipsAlwaysValid == Spec => []MembershipsValid
<1>1. RowsOfLiveNetworks /\ AddressesAreHosts /\ AddressesUnique => MembershipsValid
  BY DEF MembershipsValid
<1>2. QED
  BY <1>1, RowsOfLiveNetworksAlways, AddressesAreHostsAlways, AddressesUniqueAlways, PTL

\* A token lets in exactly as many devices as it has lost uses (repo.rs).
THEOREM UsesAreAdmissionsAlways == Spec => []UsesAreAdmissions
<1>1. IInv => UsesAreAdmissions
  BY DEF IInv
<1> QED
  BY <1>1, Invariant, PTL

-------------------------------------------------------------------------------
(***************************************************************************)
(* The last membership of a device.                                         *)
(***************************************************************************)

\* What one step may do to the networks of a device.
Keeps(d) ==
  NetsOf(d) # {} /\ NetsOf(d)' = {} =>
    \/ devices'[d] = "gone"
    \/ \E n \in NetsOf(d) : networks'[n] = "gone"

\* A device that leaves one of several networks is still in another.
LEMMA LeaveKeeps ==
  ASSUME NEW d \in Devices, NEW e \in Devices, NEW n \in Networks, Leave(e, n)
  PROVE  Keeps(d)
<1>1. memberships' = {m \in memberships : ~ (m.net = n /\ m.dev = e)}
  BY DEF Leave
<1>2. CASE d # e
  BY <1>1, <1>2 DEF Keeps, NetsOf
<1>3. CASE d = e
  <2>1. NetsOf(e) # {n}
    <3>1. Cardinality({n}) = 1
      BY FS_Singleton
    <3> QED
      BY <3>1 DEF Leave
  <2>2. PICK other \in NetsOf(e) : other # n
    BY <2>1 DEF Leave, IsMember
  <2>3. other \in NetsOf(e)'
    BY <1>1, <2>2 DEF NetsOf
  <2> QED
    BY <1>3, <2>3 DEF Keeps
<1> QED
  BY <1>2, <1>3

\* A change of address keeps the row.
LEMMA SetIpKeeps ==
  ASSUME memberships \subseteq Membership,
         NEW d \in Devices, NEW r, NEW wanted, SetIp(r, wanted)
  PROVE  Keeps(d)
<1>1. PICK ip : memberships' = {IF m.net = r.net /\ m.dev = r.dev
                                  THEN [m EXCEPT !.ip = ip] ELSE m : m \in memberships}
  BY DEF SetIp
<1>2. ASSUME NEW m \in memberships, m.dev = d
      PROVE  NetsOf(d)' # {}
  <2> DEFINE moved == IF m.net = r.net /\ m.dev = r.dev THEN [m EXCEPT !.ip = ip] ELSE m
  <2>1. moved \in memberships' /\ moved.dev = d
    BY <1>1, <1>2 DEF Membership
  <2> QED
    BY <2>1 DEF NetsOf
<1> QED
  BY <1>2 DEF Keeps, NetsOf

\* Departures, two at once included, leave a device its last membership; only the
\* deletion of the network or of the device takes it (repo.rs
\* remove_membership_guarded, delete_network, delete_device).
THEOREM LastMembershipAlwaysKept == Spec => LastMembershipKept
<1>1. ASSUME TypeOK, [Next]_vars, NEW d \in Devices
      PROVE  Keeps(d)
  <2>1. CASE memberships \subseteq memberships'
    BY <2>1 DEF Keeps, NetsOf
  <2>2. ASSUME NEW n \in Networks, DeleteNetwork(n)
        PROVE  Keeps(d)
    <3>1. memberships' = memberships \ RowsOf(n) /\ networks'[n] = "gone"
      BY <1>1, <2>2 DEF DeleteNetwork, TypeOK
    <3> QED
      BY <3>1 DEF Keeps, NetsOf, RowsOf
  <2>3. ASSUME NEW e \in Devices, DeleteDevice(e)
        PROVE  Keeps(d)
    <3>1. /\ memberships' = {m \in memberships : m.dev # e}
          /\ devices'[e] = "gone"
      BY <1>1, <2>3 DEF DeleteDevice, TypeOK
    <3> QED
      BY <3>1 DEF Keeps, NetsOf
  <2>4. ASSUME Administration
        PROVE  Keeps(d)
    <3>1. ASSUME ~ \E n \in Networks : DeleteNetwork(n)
          PROVE  memberships \subseteq memberships'
      BY <2>4, <3>1 DEF Administration, CreateNetwork, CreateTokenRead, CreateToken,
                        RevokeToken, Expire
    <3> QED
      BY <2>1, <2>2, <3>1
  <2>5. ASSUME Members
        PROVE  Keeps(d)
    <3>1. ASSUME ~ \E e \in Devices : DeleteDevice(e),
                 ~ \E e \in Devices, n \in Networks : Leave(e, n),
                 ~ \E r \in inflight, wanted \in Wanted : SetIp(r, wanted)
          PROVE  memberships \subseteq memberships'
      BY <2>5, <3>1 DEF Members, Enroll, Join, JoinRow, JoinRead, AdminJoinRead, SetIpRead,
                        AdminJoin, Insert
    <3> QED
      BY <1>1, <2>1, <2>3, <3>1, LeaveKeeps, SetIpKeeps DEF TypeOK
  <2>6. ASSUME Modes \/ (\E r \in inflight : Abandon(r)) \/ Restart \/ UNCHANGED vars
        PROVE  memberships \subseteq memberships'
    BY <2>6 DEF Modes, PutTunRead, PutTun, PutOther, Heartbeat, Abandon, Restart, vars
  <2> QED
    BY <1>1, <2>1, <2>4, <2>5, <2>6 DEF Next
<1>2. TypeOK /\ [Next]_vars => [\A d \in Devices : Keeps(d)]_vars
  BY <1>1
<1> QED
  BY <1>2, TypeCorrect, PTL DEF Spec, LastMembershipKept, Keeps
================================================================================
