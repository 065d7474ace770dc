-------------------------- MODULE DiscoveryProofs --------------------------
(***************************************************************************)
(* Proofs about Discovery for any servers, clients and hosts, any lengths  *)
(* of names and any buffer that holds a reply: its types, that a reply is  *)
(* read as it was sent whatever the buffer held before, and that a server  *)
(* that could bind its sockets hears the broadcasts of its subnet.  And,   *)
(* about the messages alone, which file names can be announced.            *)
(***************************************************************************)
EXTENDS Discovery, TLAPS

-----------------------------------------------------------------------------
(* Messages *)

\* A download gets past the info exactly when the file's name has at most 236 of
\* the 255 bytes it may have: 19 bytes go before it and the length is one byte.
THEOREM NamesThatFit ==
  ASSUME NEW name \in 0..255 PROVE InfoReadable(name) <=> name <= 236
BY SMT DEF InfoReadable, LengthByte, InfoLen

\* A reply has its port behind the name.
LEMMA ReplyCells ==
  ASSUME NEW n \in Nat, NEW s
  PROVE  /\ Len(Reply(n, s)) = n + 2
         /\ Reply(n, s)[1] = n /\ Reply(n, s)[n + 2] = s
         /\ \A i \in 2..(n + 1) : Reply(n, s)[i] = Letter
<1> DEFINE word == [i \in 1..n |-> Letter]
<1>1. word \in Seq(Nat) /\ Len(word) = n
  BY DEF Letter
<1>2. Reply(n, s) = <<n>> \o word \o <<s>>
  BY DEF Reply
<1> HIDE DEF word
<1>3. \A i \in 1..n : word[i] = Letter
  BY DEF word
<1> QED
  BY <1>1, <1>2, <1>3

\* Whatever a buffer held, after a reply was received its port is the reply's.
LEMMA ReplyIsRead ==
  ASSUME NEW s \in Servers, NEW b \in Bufs
  PROVE  /\ Received(b, Reply(Name[s], s)) \in Bufs
         /\ ReplyPort(Received(b, Reply(Name[s], s))) = s
<1> DEFINE n == Name[s]
           r == Reply(n, s)
           c == Received(b, r)
<1>1. n \in Nat /\ n + 2 <= BufLen /\ BufLen \in Nat
  BY BufferAssumption
<1>2. /\ Len(r) = n + 2 /\ r[1] = n /\ r[n + 2] = s
      /\ \A i \in 2..(n + 1) : r[i] = Letter
  BY <1>1, ReplyCells
<1>3. Len(b) = BufLen
  BY <1>1 DEF Bufs
<1>4. c = [i \in 1..BufLen |-> IF i <= Len(r) THEN r[i] ELSE b[i]]
  BY <1>3 DEF Received
<1> HIDE DEF c, r, n
<1>5. \A i \in 1..(n + 2) : r[i] \in Cells
  BY <1>1, <1>2 DEF Cells, Letter
<1>6. c \in Bufs
  BY <1>1, <1>2, <1>4, <1>5 DEF Bufs
<1>7. c[1] = n /\ c[n + 2] = s
  BY <1>1, <1>2, <1>4
<1> QED
  BY <1>1, <1>6, <1>7 DEF ReplyPort, c, r, n

-----------------------------------------------------------------------------
(* Types, and what was found *)

\* The two go together: a reply gives a port because it is read as it was sent.
Inv == TypeOK /\ FoundIsReal

\* At the start nothing is found.
LEMMA InvInit == Init => Inv
<1> SUFFICES ASSUME Init PROVE Inv
  OBVIOUS
<1>1. Empty \in Bufs /\ Nowhere \in Dest
  BY BufferAssumption DEF Empty, Bufs, Cells, Nowhere, Dest
<1>2. TypeOK
  <2>1. \A c \in Clients : found[c] = <<>>
    BY DEF Init
  <2>2. found \in [Clients -> Seq(Found)]
    BY DEF Init
  <2>3. \A c \in Clients : Len(found[c]) <= MaxReplies
    BY <2>1, BufferAssumption
  <2> QED
    BY <1>1, <2>2, <2>3 DEF Init, TypeOK, CliEnded
<1>3. FoundIsReal
  <2>1. \A c \in Clients : Len(found[c]) = 0 /\ cli[c] = "idle"
    BY DEF Init
  <2> QED
    BY <2>1 DEF FoundIsReal
<1> QED
  BY <1>2, <1>3 DEF Inv

\* Clients that come to an end are well typed and connect to nobody.
LEMMA EndTyped ==
  ASSUME TypeOK, NEW C, End(C)
  PROVE  /\ cli' \in [Clients -> {"idle", "collect", "connect", "backlog", "taken"} \cup CliEnded]
         /\ dest' \in [Clients -> Dest]
  BY DEF End, TypeOK, CliEnded, Dest, Nowhere, Cells

\* The ends of clients, of whatever cause, leave the rest of what they found.
LEMMA EndReal ==
  ASSUME FoundIsReal, TypeOK, NEW C, End(C), UNCHANGED found
  PROVE  FoundIsReal'
<1>1. \A c \in Clients :
        cli'[c] \in {"connect", "backlog", "taken"} => cli'[c] = cli[c] /\ dest'[c] = dest[c]
  BY DEF End
<1> QED
  BY <1>1 DEF FoundIsReal, Port

\* A step that leaves the clients alone.
LEMMA ClientsUntouched ==
  ASSUME FoundIsReal, UNCHANGED <<cli, found, dest>> PROVE FoundIsReal'
BY DEF FoundIsReal, Port

\* The end of a server.
LEMMA ExitInv ==
  ASSUME Inv, NEW s \in Servers, Exit(s) PROVE Inv'
<1> DEFINE C == Connected(s, {"backlog", "taken"})
<1>1. End(C) /\ TypeOK /\ FoundIsReal
  BY DEF Exit, Inv
<1> HIDE DEF C
<1>2. /\ cli' \in [Clients -> {"idle", "collect", "connect", "backlog", "taken"} \cup CliEnded]
      /\ dest' \in [Clients -> Dest]
  BY <1>1, EndTyped
<1>3. TypeOK'
  BY <1>1, <1>2 DEF Exit, TypeOK
<1>4. FoundIsReal'
  BY <1>1, EndReal DEF Exit
<1> QED
  BY <1>3, <1>4 DEF Inv

\* The end of an accept loop.
LEMMA UnlistenInv ==
  ASSUME Inv, NEW s \in Servers, Unlisten(s),
         UNCHANGED <<net, conf, srv, flag, pings, flight, buf, found>>
  PROVE  Inv'
<1> DEFINE C == Connected(s, {"backlog"})
<1>1. End(C) /\ TypeOK /\ FoundIsReal
  BY DEF Unlisten, Inv
<1> HIDE DEF C
<1>2. /\ cli' \in [Clients -> {"idle", "collect", "connect", "backlog", "taken"} \cup CliEnded]
      /\ dest' \in [Clients -> Dest]
  BY <1>1, EndTyped
<1>3. TypeOK'
  BY <1>1, <1>2 DEF Unlisten, TypeOK
<1>4. FoundIsReal'
  BY <1>1, EndReal
<1> QED
  BY <1>3, <1>4 DEF Inv

\* Every step of a server or of its accept loop.
LEMMA ServerInv ==
  ASSUME Inv, NEW s \in Servers,
         SrvStart(s) \/ SrvStep(s) \/ SrvFails(s) \/ SrvQuit(s) \/ DataStep(s) \/ DataFails(s)
  PROVE  Inv'
<1> USE DEF Inv
<1>1. CASE SrvStart(s)
  <2>1. TypeOK'
    BY <1>1 DEF SrvStart, TypeOK, cliVars
  <2> QED
    BY <1>1, <2>1, ClientsUntouched DEF SrvStart, cliVars
<1>2. ASSUME NEW c \in Clients, SrvAnswer(s, c) PROVE Inv'
  <2>1. TypeOK'
    BY <1>2 DEF SrvAnswer, TypeOK, cliVars
  <2> QED
    BY <1>2, <2>1, ClientsUntouched DEF SrvAnswer, cliVars
<1>3. CASE SrvFlag(s)
  <2>1. TypeOK'
    BY <1>3 DEF SrvFlag, TypeOK, cliVars
  <2> QED
    BY <1>3, <2>1, ClientsUntouched DEF SrvFlag, cliVars
<1>4. CASE SrvReturn(s) \/ SrvFails(s)
  BY <1>4, ExitInv DEF SrvReturn, SrvFails
<1>5. CASE SrvQuit(s)
  <2>1. TypeOK'
    BY <1>5 DEF SrvQuit, TypeOK, cliVars
  <2> QED
    BY <1>5, <2>1, ClientsUntouched DEF SrvQuit, cliVars
<1>6. ASSUME NEW c \in Clients, DataAccept(s, c) PROVE Inv'
  <2>1. cli[c] = "backlog" /\ cli' = [cli EXCEPT ![c] = "taken"] /\ UNCHANGED <<dest, found>>
    BY <1>6 DEF DataAccept, Connected
  <2>2. TypeOK'
    BY <1>6 DEF DataAccept, TypeOK
  <2>3. \A d \in Clients : cli'[d] \in {"connect", "backlog", "taken"}
                             => cli[d] \in {"connect", "backlog", "taken"}
    BY <2>1 DEF TypeOK
  <2>4. FoundIsReal'
    BY <2>1, <2>3 DEF FoundIsReal, Port
  <2> QED
    BY <2>2, <2>4
<1>7. CASE DataEnds(s) \/ DataFails(s)
  BY <1>7, UnlistenInv DEF DataEnds, DataFails
<1> QED
  BY <1>1, <1>2, <1>3, <1>4, <1>5, <1>6, <1>7 DEF SrvStep, DataStep

\* A client sends a broadcast, panics, connects, fails or finishes.
LEMMA ClientMoves ==
  ASSUME Inv, NEW c \in Clients,
         CliBroadcast(c) \/ CliFails(c) \/ CliConnect(c) \/ CliDone(c)
  PROVE  Inv'
<1> USE DEF Inv
<1>1. CASE CliBroadcast(c)
  <2>1. TypeOK'
    <3>1. /\ cli' = [cli EXCEPT ![c] = "panic"] \/ cli' = [cli EXCEPT ![c] = "collect"]
          /\ UNCHANGED <<flight, buf, found, dest, net, conf, srv, data, flag>>
      BY <1>1 DEF CliBroadcast, SrvUnchanged, srvVars
    <3>2. pings' \in [Servers -> SUBSET Clients]
      <4>1. CASE UNCHANGED pings
        BY <4>1 DEF TypeOK
      <4>2. CASE \E S \in SUBSET Servers :
                   pings' = [s \in Servers |-> pings[s] \cup IF s \in S THEN {c} ELSE {}]
        BY <4>2 DEF TypeOK
      <4>3. UNCHANGED pings \/ \E S \in SUBSET {s \in Servers : Bound(s) /\ Hears(net[s], net[c])} :
                   pings' = [s \in Servers |-> pings[s] \cup IF s \in S THEN {c} ELSE {}]
        BY <1>1, ZenonT(30) DEF CliBroadcast
      <4> QED
        BY <4>1, <4>2, <4>3
    <3> QED
      BY <3>1, <3>2 DEF TypeOK, CliEnded
  <2>2. \A d \in Clients : cli'[d] \in {"connect", "backlog", "taken"} => cli'[d] = cli[d]
    BY <1>1 DEF CliBroadcast, TypeOK
  <2>3. FoundIsReal'
    BY <1>1, <2>2 DEF CliBroadcast, FoundIsReal, Port
  <2> QED
    BY <2>1, <2>3
<1>2. CASE CliFails(c)
  <2>1. /\ found' = [found EXCEPT ![c] = <<>>] /\ UNCHANGED dest
        /\ cli' = [cli EXCEPT ![c] = "err"]
        /\ buf' = [buf EXCEPT ![c] = Empty] /\ flight' \subseteq flight
    BY <1>2 DEF CliFails, SocketClosed
  <2>2. found' \in [Clients -> Seq(Found)] /\ \A d \in Clients : Len(found'[d]) <= MaxReplies
    BY <2>1, BufferAssumption DEF TypeOK
  <2>3. TypeOK'
    <3>1. Empty \in Bufs
      BY DEF Empty, Bufs, Cells
    <3> QED
      BY <1>2, <2>1, <2>2, <3>1 DEF CliFails, TypeOK, SrvUnchanged, srvVars, CliEnded
  <2>4. FoundIsReal'
    BY <2>1 DEF FoundIsReal, Port, TypeOK
  <2> QED
    BY <2>3, <2>4
<1>3. CASE CliConnect(c)
  <2>1. CASE End({c})
    <3>1. TypeOK'
      BY <1>3, <2>1, EndTyped DEF CliConnect, TypeOK, SrvUnchanged, srvVars
    <3> QED
      BY <1>3, <2>1, <3>1, EndReal DEF CliConnect
  <2>2. CASE cli' = [cli EXCEPT ![c] = "backlog"] /\ UNCHANGED dest
    <3>1. TypeOK'
      BY <1>3, <2>2 DEF CliConnect, TypeOK, SrvUnchanged, srvVars
    <3>2. cli[c] = "connect"
      BY <1>3 DEF CliConnect
    <3>3. \A d \in Clients : cli'[d] \in {"connect", "backlog", "taken"}
                               => cli[d] \in {"connect", "backlog", "taken"}
      BY <2>2, <3>2 DEF TypeOK
    <3>4. FoundIsReal'
      BY <1>3, <2>2, <3>3 DEF CliConnect, FoundIsReal, Port
    <3> QED
      BY <3>1, <3>4
  <2> QED
    BY <1>3, <2>1, <2>2 DEF CliConnect
<1>4. CASE CliDone(c)
  <2>1. TypeOK'
    BY <1>4, EndTyped DEF CliDone, TypeOK, SrvUnchanged, srvVars
  <2> QED
    BY <1>4, <2>1, EndReal DEF CliDone
<1> QED
  BY <1>1, <1>2, <1>3, <1>4

\* A client is told where to go.
LEMMA ClientDirected ==
  ASSUME Inv, NEW c \in Clients, NEW s \in Servers, CliDirect(c, s) PROVE Inv'
<1> USE DEF Inv
<1>1. /\ cli' = [cli EXCEPT ![c] = "connect"] /\ UNCHANGED found
      /\ dest' = [dest EXCEPT ![c] = [peer |-> s, port |-> s]]
  BY DEF CliDirect, Port
<1>2. TypeOK'
  BY <1>1 DEF CliDirect, TypeOK, SrvUnchanged, srvVars, Dest, Cells
<1>3. FoundIsReal'
  BY <1>1 DEF FoundIsReal, Port, TypeOK
<1> QED
  BY <1>2, <1>3

\* A reply is kept with all that was in the buffer, and still it is read as sent.
LEMMA ClientReceives ==
  ASSUME Inv, NEW c \in Clients, NEW s \in Servers, CliReceive(c, s) PROVE Inv'
<1> USE DEF Inv
<1> DEFINE b == Received(buf[c], Reply(Name[s], s))
           e == [peer |-> s, bytes |-> b]
<1>1. b \in Bufs /\ ReplyPort(b) = s
  BY ReplyIsRead DEF TypeOK
<1>2. /\ buf' = [buf EXCEPT ![c] = b] /\ UNCHANGED <<cli, dest>>
      /\ flight' \subseteq flight /\ Len(found[c]) < MaxReplies
  BY DEF CliReceive, Port
<1>3. found' = [found EXCEPT ![c] = Append(@, e)]
  BY <1>2 DEF CliReceive, TypeOK
<1> HIDE DEF b
<1>4. e \in Found
  BY <1>1 DEF Found
<1>5. found[c] \in Seq(Found)
  BY DEF TypeOK
<1>6. /\ Append(found[c], e) \in Seq(Found)
      /\ Len(Append(found[c], e)) = Len(found[c]) + 1
      /\ \A n \in 1..Len(found[c]) : Append(found[c], e)[n] = found[c][n]
      /\ Append(found[c], e)[Len(found[c]) + 1] = e
  BY <1>4, <1>5
<1> HIDE DEF e
<1>7. found' \in [Clients -> Seq(Found)]
  BY <1>3, <1>6 DEF TypeOK
<1>8. \A d \in Clients : Len(found'[d]) <= MaxReplies
  BY <1>2, <1>3, <1>5, <1>6, BufferAssumption DEF TypeOK
<1>9. TypeOK'
  BY <1>1, <1>2, <1>7, <1>8 DEF CliReceive, TypeOK, SrvUnchanged, srvVars
<1>10. \A n \in 1..Len(found'[c]) : ReplyPort(found'[c][n].bytes) = found'[c][n].peer
  <2> SUFFICES ASSUME NEW n \in 1..(Len(found[c]) + 1)
               PROVE  ReplyPort(Append(found[c], e)[n].bytes) = Append(found[c], e)[n].peer
    BY <1>3, <1>6 DEF TypeOK
  <2>1. CASE n = Len(found[c]) + 1
    BY <1>1, <1>6, <2>1 DEF e
  <2>2. CASE n # Len(found[c]) + 1
    <3>1. n \in 1..Len(found[c])
      BY <1>5, <2>2
    <3> QED
      BY <1>6, <3>1 DEF FoundIsReal, Port
  <2> QED
    BY <2>1, <2>2
<1>11. FoundIsReal'
  <2>1. \A d \in Clients : d # c => found'[d] = found[d]
    BY <1>3 DEF TypeOK
  <2> QED
    BY <1>2, <1>10, <2>1 DEF FoundIsReal, Port
<1> QED
  BY <1>9, <1>11

\* The first server that answered is taken, with the port that it sent.
LEMMA ClientChooses ==
  ASSUME Inv, NEW c \in Clients, CliChoose(c) PROVE Inv'
<1> USE DEF Inv
<1>1. /\ found' = [found EXCEPT ![c] = <<>>] /\ flight' \subseteq flight
      /\ buf' = [buf EXCEPT ![c] = Empty]
  BY DEF CliChoose, SocketClosed
<1>2. /\ found' \in [Clients -> Seq(Found)] /\ Empty \in Bufs
      /\ \A d \in Clients : Len(found'[d]) <= MaxReplies
  BY <1>1, BufferAssumption DEF TypeOK, Empty, Bufs, Cells
<1>3. CASE found[c] = <<>>
  <2>1. cli' = [cli EXCEPT ![c] = "err"] /\ UNCHANGED dest
    BY <1>3 DEF CliChoose
  <2>2. TypeOK'
    BY <1>1, <1>2, <2>1 DEF CliChoose, TypeOK, SrvUnchanged, srvVars, CliEnded
  <2>3. FoundIsReal'
    BY <1>1, <2>1 DEF FoundIsReal, Port, TypeOK
  <2> QED
    BY <2>2, <2>3
<1>4. CASE found[c] # <<>>
  <2> DEFINE first == found[c][1]
  <2>1. /\ cli' = [cli EXCEPT ![c] = "connect"]
        /\ dest' = [dest EXCEPT ![c] = [peer |-> first.peer, port |-> ReplyPort(first.bytes)]]
    BY <1>4 DEF CliChoose
  <2>2. found[c] \in Seq(Found) /\ 1 \in 1..Len(found[c])
    BY <1>4 DEF TypeOK
  <2>3. first \in Found /\ ReplyPort(first.bytes) = first.peer
    BY <2>2 DEF FoundIsReal, Port
  <2> HIDE DEF first
  <2>4. TypeOK'
    <3>1. [peer |-> first.peer, port |-> ReplyPort(first.bytes)] \in Dest
      BY <2>3 DEF Dest, Found, Cells
    <3> QED
      BY <1>1, <1>2, <2>1, <3>1 DEF CliChoose, TypeOK, SrvUnchanged, srvVars
  <2>5. FoundIsReal'
    BY <1>1, <2>1, <2>3 DEF FoundIsReal, Port, TypeOK
  <2> QED
    BY <2>4, <2>5
<1> QED
  BY <1>3, <1>4

\* The pair is inductive.
LEMMA InvStep == Inv /\ [Next]_vars => Inv'
<1> SUFFICES ASSUME Inv, [Next]_vars PROVE Inv'
  OBVIOUS
<1>1. ASSUME NEW s \in Servers,
             SrvStart(s) \/ SrvStep(s) \/ SrvFails(s) \/ SrvQuit(s) \/ DataStep(s) \/ DataFails(s)
      PROVE  Inv'
  BY <1>1, ServerInv
<1>2. ASSUME NEW c \in Clients, NEW s \in Servers, CliDirect(c, s) \/ CliReceive(c, s)
      PROVE  Inv'
  BY <1>2, ClientDirected, ClientReceives
<1>3. ASSUME NEW c \in Clients, CliChoose(c) PROVE Inv'
  BY <1>3, ClientChooses
<1>4. ASSUME NEW c \in Clients,
             CliBroadcast(c) \/ CliFails(c) \/ CliConnect(c) \/ CliDone(c)
      PROVE  Inv'
  BY <1>4, ClientMoves
<1>5. CASE UNCHANGED vars
  <2>1. TypeOK'
    BY <1>5 DEF Inv, TypeOK, vars, srvVars, cliVars
  <2> QED
    BY <1>5, <2>1, ClientsUntouched DEF Inv, vars, cliVars
<1> QED
  BY <1>1, <1>2, <1>3, <1>4, <1>5 DEF Next

\* Every state of Discovery is well typed.
THEOREM TypeCorrect == Spec => []TypeOK
<1>1. Inv => TypeOK
  BY DEF Inv
<1> QED
  BY <1>1, InvInit, InvStep, PTL DEF Spec

\* A client that found a server connects to the port that this server sent, in
\* whatever order replies arrive and however often (client.rs 50-56 and 193-217).
THEOREM FoundReal == Spec => []FoundIsReal
<1>1. Inv => FoundIsReal
  BY DEF Inv
<1> QED
  BY <1>1, InvInit, InvStep, PTL DEF Spec

-----------------------------------------------------------------------------
(* Who hears whom *)

\* Two interfaces of one subnet have one broadcast address.
LEMMA OneBroadcast ==
  ASSUME NEW i, NEW j, SameSubnet(i, j) PROVE Broadcast(i) = Broadcast(j) /\ i.link = j.link
BY DEF SameSubnet, Broadcast

\* The interface that is taken is the first one.
LEMMA FirstIs ==
  ASSUME NEW host, NEW ns \in SUBSET Nat, NEW n, IsFirst(n, ns)
  PROVE  First(host, ns) = host.ifaces[n]
<1>1. \A m \in ns : IsFirst(m, ns) => m = n
  BY SMT DEF IsFirst
<1>2. n \in ns
  BY DEF IsFirst
<1>3. (CHOOSE m \in ns : IsFirst(m, ns)) = n
  BY <1>1, <1>2
<1> QED
  BY <1>3 DEF First

\* A netmask that ends in 0 makes a broadcast address that ends in 255.
LEMMA UsableBroadcast ==
  ASSUME NEW i \in Interface, Usable(i)
  PROVE  Broadcast(i)[4] = 255 /\ DOMAIN Broadcast(i) = 1..4
<1>1. i.ip[4] \in 0..255 /\ i.mask[4] = 0
  BY DEF Interface, Octets, Usable
<1>2. Broadcast(i)[4] = i.ip[4] - (i.ip[4] % (256 - 0)) + (255 - 0)
  BY <1>1 DEF Broadcast, Network
<1>3. \A x \in 0..255 : x - (x % (256 - 0)) + (255 - 0) = 255
  BY SMT
<1> QED
  BY <1>1, <1>2, <1>3 DEF Broadcast

\* On Linux a server with the address ip listens on ip with 255 at the end.
LEMMA BindsBlock ==
  ASSUME NEW host \in Host, host.os = "linux", NEW o, IsFirst(o, LocalIfaces(host))
  PROVE  /\ udp_srv_bind_addr(host) = [host.ifaces[o].ip EXCEPT ![4] = 255]
         /\ udp_srv_bind_addr(host) # AnyAddr
         /\ host.ifaces[o].ip \in Octets
<1>1. LocalIfaces(host) \in SUBSET Nat /\ o \in LocalIfaces(host)
  BY DEF LocalIfaces, IsFirst, Host
<1>2. find_local_ip(host) = host.ifaces[o].ip
  BY <1>1, FirstIs DEF find_local_ip
<1>3. host.ifaces[o] \in Interface /\ Usable(host.ifaces[o])
  BY <1>1 DEF LocalIfaces, Host
<1>4. host.ifaces[o].ip \in Octets /\ host.ifaces[o].ip[1] = 192
  BY <1>3 DEF Interface, Usable
<1>5. host.ifaces[o].ip # NoAddr
  BY <1>4 DEF Octets, NoAddr
<1>6. udp_srv_bind_addr(host) = [host.ifaces[o].ip EXCEPT ![4] = 255]
  BY <1>2, <1>5 DEF udp_srv_bind_addr
<1>7. udp_srv_bind_addr(host)[1] = 192
  BY <1>4, <1>6 DEF Octets
<1> QED
  BY <1>4, <1>6, <1>7 DEF AnyAddr

\* A server whose host is on the client's subnet by its n-th interface hears the
\* client if it listens on any address or on that subnet's broadcast address.
LEMMA HearsShared ==
  ASSUME NEW server \in Host, NEW client \in Host,
         NEW b, IsFirst(b, BroadcastIfaces(client)),
         NEW n \in BroadcastIfaces(server),
         SameSubnet(server.ifaces[n], client.ifaces[b])
  PROVE  Hears(server, client) <=>
           udp_srv_bind_addr(server) \in {AnyAddr, Broadcast(server.ifaces[n])}
<1>1. BroadcastIfaces(client) \in SUBSET Nat /\ b \in BroadcastIfaces(client)
  BY DEF BroadcastIfaces, IsFirst, Host
<1>2. First(client, BroadcastIfaces(client)) = client.ifaces[b]
  BY <1>1, FirstIs
<1>3. /\ Broadcast(server.ifaces[n]) = Broadcast(client.ifaces[b])
      /\ server.ifaces[n].link = client.ifaces[b].link
  BY OneBroadcast
<1>4. /\ n \in 1..Len(server.ifaces)
      /\ server.ifaces[n].v4 /\ server.ifaces[n].broadcast
  BY DEF BroadcastIfaces, Usable
<1> QED
  BY <1>1, <1>2, <1>3, <1>4 DEF Hears

\* The same in octets, for a server on Linux.
LEMMA HearsBlock ==
  ASSUME NEW host \in Host, host.os = "linux", NEW o, IsFirst(o, LocalIfaces(host)),
         NEW n \in BroadcastIfaces(host)
  PROVE  udp_srv_bind_addr(host) \in {AnyAddr, Broadcast(host.ifaces[n])} <=>
           \A k \in 1..3 : host.ifaces[o].ip[k] = Broadcast(host.ifaces[n])[k]
<1> DEFINE addr == udp_srv_bind_addr(host)
           ip   == host.ifaces[o].ip
           bc   == Broadcast(host.ifaces[n])
<1>1. addr = [ip EXCEPT ![4] = 255] /\ addr # AnyAddr /\ ip \in Octets
  BY BindsBlock
<1>2. host.ifaces[n] \in Interface /\ Usable(host.ifaces[n])
  BY DEF BroadcastIfaces, Host
<1>3. bc[4] = 255 /\ DOMAIN bc = 1..4 /\ bc = [k \in 1..4 |-> bc[k]]
  BY <1>2, UsableBroadcast DEF Broadcast
<1> HIDE DEF addr, ip, bc
<1>4. addr = [k \in 1..4 |-> IF k = 4 THEN 255 ELSE ip[k]]
  BY <1>1 DEF Octets
<1>5. addr = bc <=> \A k \in 1..4 : addr[k] = bc[k]
  BY <1>3, <1>4
<1>6. (\A k \in 1..4 : addr[k] = bc[k]) <=> \A k \in 1..3 : ip[k] = bc[k]
  BY <1>3, <1>4
<1>7. addr \in {AnyAddr, bc} <=> \A k \in 1..3 : ip[k] = bc[k]
  BY <1>1, <1>5, <1>6
<1> QED
  BY <1>7 DEF addr, ip, bc

\* A server that has not ended could bind its sockets.
BoundBuilt == net \in Nets /\ \A s \in Servers : Bound(s) => Built(s)

\* No server comes back.
LEMMA EndedStays ==
  ASSUME [Next]_vars, srv \in [Servers -> {"start", "recv", "await", "ended"}]
  PROVE  net' = net /\ \A s \in Servers : srv[s] = "ended" => srv'[s] = "ended"
<1>1. ASSUME NEW t \in Servers,
             SrvStart(t) \/ SrvStep(t) \/ SrvFails(t) \/ SrvQuit(t) \/ DataStep(t) \/ DataFails(t)
      PROVE  net' = net /\ \A s \in Servers : srv[s] = "ended" => srv'[s] = "ended"
  BY <1>1 DEF SrvStart, SrvStep, SrvAnswer, SrvFlag, SrvReturn, SrvFails, SrvQuit, Exit,
              DataStep, DataAccept, DataEnds, DataFails
<1>2. ASSUME NEW c \in Clients,
             \/ \E s \in Servers : CliDirect(c, s) \/ CliReceive(c, s)
             \/ CliBroadcast(c) \/ CliChoose(c) \/ CliFails(c) \/ CliConnect(c) \/ CliDone(c)
      PROVE  net' = net /\ srv' = srv
  BY <1>2 DEF CliDirect, CliReceive, CliBroadcast, CliChoose, CliFails, CliConnect, CliDone,
              SrvUnchanged, srvVars
<1>3. CASE UNCHANGED vars
  BY <1>3 DEF vars, srvVars
<1> QED
  BY <1>1, <1>2, <1>3 DEF Next

\* What follows for a state.
LEMMA BuiltHears == BoundBuilt => HeardOnSharedSubnet
<1> SUFFICES
      ASSUME BoundBuilt, NEW s \in Servers, NEW c \in Clients,
             NEW o \in LocalIfaces(net[s]), NEW n \in BroadcastIfaces(net[s]),
             NEW b \in BroadcastIfaces(net[c]), Share(s, c, o, b, n)
      PROVE  /\ net[s].os = "macos" => Hears(net[s], net[c])
             /\ net[s].os = "linux" =>
                  (Hears(net[s], net[c]) <=>
                     \A k \in 1..3 : net[s].ifaces[o].ip[k] = Broadcast(net[s].ifaces[n])[k])
             /\ Bound(s) /\ ~Hears(net[s], net[c]) =>
                  \E i \in 1..Len(net[s].ifaces) :
                    \/ udp_srv_bind_addr(net[s]) = net[s].ifaces[i].ip
                    \/ /\ udp_srv_bind_addr(net[s]) = Broadcast(net[s].ifaces[i])
                       /\ net[s].ifaces[i].broadcast
                       /\ Broadcast(net[s].ifaces[i]) # Broadcast(net[s].ifaces[n])
  BY DEF HeardOnSharedSubnet
<1>0. /\ o \in 1..Len(net[s].ifaces) /\ n \in 1..Len(net[s].ifaces)
      /\ b \in 1..Len(net[c].ifaces)
  BY DEF LocalIfaces, BroadcastIfaces
<1>1. net[s] \in Host /\ net[c] \in Host
  BY HostsAssumption DEF BoundBuilt
<1>2. Hears(net[s], net[c]) <=>
        udp_srv_bind_addr(net[s]) \in {AnyAddr, Broadcast(net[s].ifaces[n])}
  BY <1>0, <1>1, HearsShared DEF Share
<1>3. net[s].os = "macos" => udp_srv_bind_addr(net[s]) = AnyAddr
  BY DEF udp_srv_bind_addr
<1>4. net[s].os = "linux" =>
        (Hears(net[s], net[c]) <=>
           \A k \in 1..3 : net[s].ifaces[o].ip[k] = Broadcast(net[s].ifaces[n])[k])
  BY <1>0, <1>1, <1>2, HearsBlock DEF Share
<1>5. ASSUME Bound(s), ~Hears(net[s], net[c])
      PROVE  \E i \in 1..Len(net[s].ifaces) :
               \/ udp_srv_bind_addr(net[s]) = net[s].ifaces[i].ip
               \/ /\ udp_srv_bind_addr(net[s]) = Broadcast(net[s].ifaces[i])
                  /\ net[s].ifaces[i].broadcast
                  /\ Broadcast(net[s].ifaces[i]) # Broadcast(net[s].ifaces[n])
  <2>1. CanBind(net[s], udp_srv_bind_addr(net[s]))
    BY <1>5 DEF BoundBuilt, Built
  <2>2. /\ udp_srv_bind_addr(net[s]) # AnyAddr
        /\ udp_srv_bind_addr(net[s]) # Broadcast(net[s].ifaces[n])
    BY <1>2, <1>5
  <2> QED
    BY <2>1, <2>2 DEF CanBind
<1> QED
  BY <1>2, <1>3, <1>4, <1>5

\* Which servers hear a client of their subnet (server/mod.rs 322-343 against
\* broadcast_addr_picker.rs 14-38), and on which addresses those that do not can be
\* bound, for any hosts, any netmasks and any number of interfaces.
THEOREM SubnetHeard == Spec => []HeardOnSharedSubnet
<1>1. Init => BoundBuilt
  BY DEF Init, BoundBuilt, Bound
<1>2. TypeOK /\ BoundBuilt /\ [Next]_vars => BoundBuilt'
  <2> SUFFICES ASSUME TypeOK, BoundBuilt, [Next]_vars PROVE BoundBuilt'
    OBVIOUS
  <2>1. net' = net /\ \A s \in Servers : srv[s] = "ended" => srv'[s] = "ended"
    BY EndedStays DEF TypeOK
  <2> QED
    BY <2>1 DEF BoundBuilt, Bound, Built
<1> QED
  BY <1>1, <1>2, BuiltHears, TypeCorrect, PTL DEF Spec
=============================================================================
