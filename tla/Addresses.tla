----------------------------- MODULE Addresses -----------------------------
(***************************************************************************)
(* Which addresses the two sides use to meet: the client broadcasts to the *)
(* address that select_broadcast_addr picks                                *)
(* (src/src/broadcast_addr_picker.rs), the server listens on the one that  *)
(* udp_srv_bind_addr makes (src/src/server/mod.rs) from find_local_ip.     *)
(*                                                                         *)
(* A host is its operating system and the sequence of its interfaces, in   *)
(* the order the system lists them.  An interface has an IPv4 address and  *)
(* a netmask as four octets each, a link it is attached to, and may have a *)
(* broadcast address.                                                      *)
(***************************************************************************)
EXTENDS Integers, Sequences

Octets == [1..4 -> 0..255]

\* The netmasks' octets: ones, then zeros.
MaskOctets == {0, 128, 192, 224, 240, 248, 252, 254, 255}

Interface ==
  [v4 : BOOLEAN, ip : Octets, mask : [1..4 -> MaskOctets], broadcast : BOOLEAN, link : Nat]

Host == [os : {"linux", "macos"}, ifaces : Seq(Interface)]

NoAddr  == <<>>
AnyAddr == <<0, 0, 0, 0>>

-----------------------------------------------------------------------------
(* Subnets, as the operating system sees them *)

\* The address with the host's bits zero, and with them one.
Network(i) == [k \in 1..4 |-> i.ip[k] - (i.ip[k] % (256 - i.mask[k]))]
Broadcast(i) == [k \in 1..4 |-> Network(i)[k] + (255 - i.mask[k])]

SameSubnet(i, j) ==
  i.link = j.link /\ i.mask = j.mask /\ Network(i) = Network(j)

-----------------------------------------------------------------------------
(* The code's choices *)

\* The filter both functions apply: not IPv6, not loopback, a netmask that ends
\* in 0, and a 192 in front.
Usable(i) == i.v4 /\ i.ip[1] # 127 /\ i.mask[4] = 0 /\ i.ip[1] = 192

\* The interfaces the client can broadcast on, by their places in the host's list:
\* usable ones with a broadcast address.
BroadcastIfaces(host) ==
  {n \in 1..Len(host.ifaces) : Usable(host.ifaces[n]) /\ host.ifaces[n].broadcast}

\* The interfaces the server can take its address from.
LocalIfaces(host) == {n \in 1..Len(host.ifaces) : Usable(host.ifaces[n])}

\* Both take the first one.
IsFirst(n, ns) == n \in ns /\ \A m \in ns : n <= m
First(host, ns) == host.ifaces[CHOOSE n \in ns : IsFirst(n, ns)]

select_broadcast_addr(host) ==
  IF BroadcastIfaces(host) = {} THEN NoAddr
  ELSE Broadcast(First(host, BroadcastIfaces(host)))

find_local_ip(host) ==
  IF LocalIfaces(host) = {} THEN NoAddr ELSE First(host, LocalIfaces(host)).ip

\* Mutant: the server listens on the local address itself.
udp_srv_bind_addr_Local(host) ==
  IF host.os = "macos" THEN AnyAddr ELSE find_local_ip(host)

\* On Linux the local address with 255 in its last octet, whatever the netmask.
udp_srv_bind_addr(host) ==
  IF host.os = "macos" THEN AnyAddr
  ELSE IF find_local_ip(host) = NoAddr THEN NoAddr
  ELSE [find_local_ip(host) EXCEPT ![4] = 255]

-----------------------------------------------------------------------------
(* What the operating system and the network do with these addresses *)

\* A socket can be bound to any address, or to one of the host's own.
CanBind(host, addr) ==
  \/ addr = AnyAddr
  \/ \E n \in 1..Len(host.ifaces) :
       LET i == host.ifaces[n]
       IN  i.v4 /\ (addr = i.ip \/ (i.broadcast /\ addr = Broadcast(i)))

\* A broadcast goes out on the interface with that address, and reaches a socket
\* on the same link that is bound to this address or to any.
Hears(server, client) ==
  /\ BroadcastIfaces(client) # {}
  /\ LET out == First(client, BroadcastIfaces(client))
     IN  /\ udp_srv_bind_addr(server) \in {AnyAddr, Broadcast(out)}
         /\ \E n \in 1..Len(server.ifaces) :
              LET i == server.ifaces[n]
              IN  i.v4 /\ i.broadcast /\ i.link = out.link /\ Broadcast(i) = Broadcast(out)
=============================================================================
