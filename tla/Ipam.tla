---------------------------------- MODULE Ipam ----------------------------------
(***************************************************************************)
(* IPv4 blocks and the choice of an address in them                         *)
(* (skiff-core/src/ipam.rs), over natural numbers for addresses.            *)
(*                                                                         *)
(* A block is its masked network address and its size, the 2^(32 - prefix)  *)
(* addresses it spans: a prefix above 30 is a size below 4.  The functions   *)
(* that may refuse return the set of the addresses they accept, which is    *)
(* empty or a singleton.                                                    *)
(***************************************************************************)
EXTENDS Integers

\* Cidr::new: the host bits of addr are masked to zero.
NewCidr(addr, size) == [network |-> addr - (addr % size), size |-> size]

Broadcast(c) == c.network + c.size - 1

FirstHost(c) == IF c.size < 4 THEN c.network ELSE c.network + 1

LastHost(c) == IF c.size < 4 THEN Broadcast(c) ELSE Broadcast(c) - 1

\* The address with its host bits masked is the network's.
Contains(c, addr) == addr - (addr % c.size) = c.network

\* The lowest free host address; none in a block too small for hosts.
Allocate(c, used) ==
  LET free == (c.network + 1 .. Broadcast(c) - 1) \ used
  IN  {a \in free : c.size >= 4 /\ \A b \in free : a <= b}

\* An address somebody asks for: in the block, neither its network nor its
\* broadcast address, and nobody else's.  (Every caller in the server passes
\* None for the address the asker already has.)
ValidateManual(addr, c, used) ==
  {a \in {addr} : /\ Contains(c, a)
                  /\ a # c.network
                  /\ ~ (c.size >= 4 /\ a = Broadcast(c))
                  /\ a \notin used}
================================================================================
