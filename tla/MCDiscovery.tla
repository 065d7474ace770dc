---------------------------- MODULE MCDiscovery ----------------------------
(***************************************************************************)
(* Discovery with two servers and two clients on a few sets of hosts.      *)
(***************************************************************************)
EXTENDS Discovery, TLC

CONSTANTS s1, s2, c1, c2

Slash24 == <<255, 255, 255, 0>>
Slash23 == <<255, 255, 254, 0>>
Slash16 == <<255, 255, 0, 0>>

\* An interface with a broadcast address, or a tunnel without one.
Ether(ip, mask, link) ==
  [v4 |-> TRUE, ip |-> ip, mask |-> mask, broadcast |-> TRUE, link |-> link]
Tun(ip, link) ==
  [v4 |-> TRUE, ip |-> ip, mask |-> Slash24, broadcast |-> FALSE, link |-> link]

Lo == [v4 |-> TRUE, ip |-> <<127, 0, 0, 1>>, mask |-> <<255, 0, 0, 0>>,
       broadcast |-> FALSE, link |-> 0]

Linux(ifaces) == [os |-> "linux", ifaces |-> <<Lo>> \o ifaces]
Mac(ifaces)   == [os |-> "macos", ifaces |-> <<Lo>> \o ifaces]

Hosts(h1, h2, h3, h4) == (s1 :> h1) @@ (s2 :> h2) @@ (c1 :> h3) @@ (c2 :> h4)

\* One network of the usual size: everybody can hear everybody, also the client
\* that has a tunnel before and another network behind it.
Home == Hosts(
  Linux(<<Ether(<<192, 168, 1, 10>>, Slash24, 1)>>),
  Mac(<<Ether(<<192, 168, 1, 11>>, Slash24, 1)>>),
  Linux(<<Ether(<<192, 168, 1, 12>>, Slash24, 1)>>),
  Linux(<<Tun(<<192, 168, 9, 2>>, 9), Ether(<<192, 168, 1, 13>>, Slash24, 1),
          Ether(<<192, 168, 2, 13>>, Slash24, 2)>>))

\* A server with two networks listens on the first one only; one whose first
\* usable interface is a tunnel does not start.  A client of another kind of
\* network panics when it broadcasts.
TwoNets == Hosts(
  Linux(<<Ether(<<192, 168, 1, 10>>, Slash24, 1), Ether(<<192, 168, 2, 10>>, Slash24, 2)>>),
  Linux(<<Tun(<<192, 168, 9, 3>>, 9), Ether(<<192, 168, 2, 11>>, Slash24, 2)>>),
  Linux(<<Ether(<<192, 168, 2, 12>>, Slash24, 2)>>),
  Linux(<<Ether(<<10, 0, 0, 13>>, Slash24, 3)>>))

\* Netmasks shorter than 24 bits: only in the last block of a subnet is the
\* address that ends in 255 its broadcast address.
Wide23 == Hosts(
  Linux(<<Ether(<<192, 168, 3, 10>>, Slash23, 1)>>),
  Linux(<<Ether(<<192, 168, 2, 10>>, Slash23, 1)>>),
  Linux(<<Ether(<<192, 168, 2, 12>>, Slash23, 1)>>),
  Mac(<<Ether(<<192, 168, 5, 12>>, Slash23, 1)>>))

\* The same with 16 bits; the second server's own address ends in 255.
Wide16 == Hosts(
  Mac(<<Ether(<<192, 168, 3, 10>>, Slash16, 1)>>),
  Linux(<<Ether(<<192, 168, 7, 255>>, Slash16, 1)>>),
  Linux(<<Ether(<<192, 168, 200, 12>>, Slash16, 1)>>),
  Linux(<<Ether(<<172, 16, 0, 13>>, Slash16, 1)>>))

\* Lengths of the servers' names.
MCName == (s1 :> 2) @@ (s2 :> 1)

MCNets == {Home, TwoNets, Wide23, Wide16}
=============================================================================
