----------------------------- MODULE Discovery -----------------------------
(***************************************************************************)
(* Clients and servers of one or several networks find each other: the     *)
(* fetch branch of main(), find_server, read_replies_for and connect       *)
(* (src/src/main.rs, src/src/client.rs) against the answering loop and the *)
(* accept loop of each server (src/src/server/mod.rs), over datagrams that *)
(* may be lost, late, reordered or doubled.                                *)
(*                                                                         *)
(* FileSrv models the inside of one server.  Here a server is what its     *)
(* peers can tell: whether its sockets are open, whether it answers, whom  *)
(* it has taken; any of its errors may end it, or its accept loop alone.   *)
(***************************************************************************)
EXTENDS Addresses, Messages, FiniteSets

CONSTANTS
  Servers, Clients,   \* each on a host of its own
  Nets,               \* the hosts: functions from Servers \cup Clients
  Name,               \* the length of the word each server draws as its name
  BufLen,             \* cells of the client's buffer
  MaxReplies,         \* bound: replies a client receives, copies included
  NoServer

ASSUME HostsAssumption ==
  /\ Servers \cap Clients = {} /\ NoServer \notin Servers
  /\ Nets \subseteq [Servers \cup Clients -> Host]

\* 10 bytes and a word of 19 letters fit into 100 bytes.
ASSUME BufferAssumption ==
  /\ Name \in [Servers -> Nat] /\ BufLen \in Nat /\ MaxReplies \in Nat
  /\ \A s \in Servers : Name[s] + 2 <= BufLen

VARIABLES
  net,      \* the hosts of this behaviour
  conf,     \* the mode of each server
  srv,      \* where serve() is
  data,     \* where data_srv is
  flag,     \* SHUTDOWN_FLAG of each server
  pings,    \* whose broadcasts wait in each server's UDP socket
  flight,   \* replies on their way
  cli,      \* where each client is
  buf,      \* the buffer of read_replies_for
  found,    \* the replies it has kept, each a copy of the buffer and a peer
  dest      \* where the client connects to

srvVars == <<srv, data, flag>>
cliVars == <<cli, buf, found, dest>>
vars == <<net, conf, srvVars, pings, flight, cliVars>>

Conf  == [stay_alive : BOOLEAN]
Cells == Nat \cup Servers
Bufs  == [1..BufLen -> Cells]
Found == [peer : Servers, bytes : Bufs]
Dest  == [peer : Servers \cup {NoServer}, port : Cells]

Empty  == [i \in 1..BufLen |-> 0]
Nowhere == [peer |-> NoServer, port |-> 0]

CliEnded == {"done", "err", "panic"}

TypeOK ==
  /\ net \in Nets
  /\ conf \in [Servers -> Conf]
  /\ srv \in [Servers -> {"start", "recv", "await", "ended"}]
  /\ data \in [Servers -> {"off", "accept", "join", "ended"}]
  /\ flag \in [Servers -> BOOLEAN]
  /\ pings \in [Servers -> SUBSET Clients]
  /\ flight \subseteq Servers \X Clients
  /\ cli \in [Clients -> {"idle", "collect", "connect", "backlog", "taken"} \cup CliEnded]
  /\ buf \in [Clients -> Bufs]
  /\ found \in [Clients -> Seq(Found)]
  /\ \A c \in Clients : Len(found[c]) <= MaxReplies
  /\ dest \in [Clients -> Dest]

\* FileSrvBuilder::build binds both sockets or fails, for this reason or another.
Built(s) == CanBind(net[s], udp_srv_bind_addr(net[s]))

\* A server that is built later than a client looks for it is to that client as one
\* whose reply is lost, or whose connection is refused: all are built already.
Init ==
  /\ net \in Nets
  /\ conf \in [Servers -> Conf]
  /\ srv \in [Servers -> {"start", "ended"}]
  /\ \A s \in Servers : srv[s] = "start" => Built(s)
  /\ data = [s \in Servers |-> IF srv[s] = "ended" THEN "ended" ELSE "off"]
  /\ flag = [s \in Servers |-> FALSE]
  /\ pings = [s \in Servers |-> {}] /\ flight = {}
  /\ cli = [c \in Clients |-> "idle"]
  /\ buf = [c \in Clients |-> Empty] /\ found = [c \in Clients |-> <<>>]
  /\ dest = [c \in Clients |-> Nowhere]

\* The TCP port of a server, known as the server itself.
Port(s) == s

\* Both sockets are open from build() on.
Bound(s) == srv[s] # "ended"
Listening(s) == Bound(s) /\ data[s] # "ended"

\* The clients with a connection to s in one of these states.
Connected(s, states) == {c \in Clients : cli[c] \in states /\ dest[c].peer = s}

-----------------------------------------------------------------------------
(* Servers *)

\* These clients come to an end: with a file or a part of it if they were accepted.
End(clients) ==
  /\ cli' = [c \in Clients |-> IF c \notin clients THEN cli[c]
                               ELSE IF cli[c] = "taken" THEN "done" ELSE "err"]
  /\ dest' = [c \in Clients |-> IF c \in clients THEN Nowhere ELSE dest[c]]

\* The accept loop is over and its listener closed: who was not accepted is reset.
Unlisten(s) ==
  /\ data' = [data EXCEPT ![s] = "ended"]
  /\ End(Connected(s, {"backlog"}))

\* The process is gone, its sockets and tasks with it.
Exit(s) ==
  /\ srv' = [srv EXCEPT ![s] = "ended"]
  /\ data' = [data EXCEPT ![s] = "ended"]
  /\ flag' = [flag EXCEPT ![s] = FALSE]
  /\ pings' = [pings EXCEPT ![s] = {}]
  /\ End(Connected(s, {"backlog", "taken"}))
  /\ UNCHANGED <<net, conf, flight, buf, found>>

\* The UI and the external address are there: data_srv is spawned.
SrvStart(s) ==
  /\ srv[s] = "start"
  /\ srv' = [srv EXCEPT ![s] = "recv"]
  /\ data' = [data EXCEPT ![s] = "accept"]
  /\ UNCHANGED <<net, conf, flag, pings, flight, cliVars>>

\* Mutant: a server that stays alive answers only once, too.
SrvAnswer_Once(s, c) ==
  /\ srv[s] = "recv" /\ c \in pings[s]
  /\ pings' = [pings EXCEPT ![s] = @ \ {c}]
  /\ flight' = flight \cup IF cli[c] = "collect" THEN {<<s, c>>} ELSE {}
  /\ srv' = [srv EXCEPT ![s] = "await"]
  /\ UNCHANGED <<net, conf, data, flag, cliVars>>

\* Reply to a broadcast, however long it has waited: the client may have left, and
\* the reply is sent to nobody.  A server that does not stay
\* alive then waits for data_srv.
SrvAnswer(s, c) ==
  /\ srv[s] = "recv" /\ c \in pings[s]
  /\ pings' = [pings EXCEPT ![s] = @ \ {c}]
  /\ flight' = flight \cup IF cli[c] = "collect" THEN {<<s, c>>} ELSE {}
  /\ srv' = [srv EXCEPT ![s] = IF conf[s].stay_alive THEN "recv" ELSE "await"]
  /\ UNCHANGED <<net, conf, data, flag, cliVars>>

\* The flag is seen at the head of the loop.
SrvFlag(s) ==
  /\ srv[s] = "recv" /\ flag[s]
  /\ srv' = [srv EXCEPT ![s] = "await"]
  /\ UNCHANGED <<net, conf, data, flag, pings, flight, cliVars>>

\* data_handle.await, and serve() returns.
SrvReturn(s) ==
  /\ srv[s] = "await" /\ data[s] = "ended"
  /\ Exit(s)

\* An error of serve(), or the process is killed.
SrvFails(s) == Bound(s) /\ Exit(s)

\* The operator quits a server that stays alive.
SrvQuit(s) ==
  /\ Bound(s) /\ conf[s].stay_alive /\ ~flag[s]
  /\ flag' = [flag EXCEPT ![s] = TRUE]
  /\ UNCHANGED <<net, conf, srv, data, pings, flight, cliVars>>

\* Mutant: connections are accepted by the loop that answers broadcasts.
DataAccept_InLoop(s, c) ==
  /\ srv[s] = "recv" /\ data[s] = "accept" /\ c \in Connected(s, {"backlog"})
  /\ cli' = [cli EXCEPT ![c] = "taken"]
  /\ IF conf[s].stay_alive
     THEN UNCHANGED <<data, flag>>
     ELSE data' = [data EXCEPT ![s] = "join"] /\ flag' = [flag EXCEPT ![s] = TRUE]
  /\ UNCHANGED <<net, conf, srv, pings, flight, buf, found, dest>>

\* Accept a client.  In one-shot mode it is the only one: raise the flag and wait
\* for its task.
DataAccept(s, c) ==
  /\ data[s] = "accept" /\ c \in Connected(s, {"backlog"})
  /\ cli' = [cli EXCEPT ![c] = "taken"]
  /\ IF conf[s].stay_alive
     THEN UNCHANGED <<data, flag>>
     ELSE data' = [data EXCEPT ![s] = "join"] /\ flag' = [flag EXCEPT ![s] = TRUE]
  /\ UNCHANGED <<net, conf, srv, pings, flight, buf, found, dest>>

\* The flag is up, or the only client's task has ended.
DataEnds(s) ==
  /\ \/ data[s] = "accept" /\ flag[s]
     \/ data[s] = "join" /\ Connected(s, {"taken"}) = {}
  /\ Unlisten(s)
  /\ UNCHANGED <<net, conf, srv, flag, pings, flight, buf, found>>

\* accept() or the write of the info fails: data_srv is over, serve() is not.
DataFails(s) ==
  /\ data[s] = "accept"
  /\ Unlisten(s)
  /\ UNCHANGED <<net, conf, srv, flag, pings, flight, buf, found>>

SrvStep(s) ==
  \/ (\E c \in Clients : SrvAnswer(s, c)) \/ SrvFlag(s) \/ SrvReturn(s)

DataStep(s) == (\E c \in Clients : DataAccept(s, c)) \/ DataEnds(s)

-----------------------------------------------------------------------------
(* Clients *)

SrvUnchanged == UNCHANGED <<net, conf, srvVars>>

\* The client's UDP socket is gone, with what was on its way to it.
SocketClosed(c) ==
  /\ flight' = {m \in flight : m[2] # c}
  /\ buf' = [buf EXCEPT ![c] = Empty]
  /\ found' = [found EXCEPT ![c] = <<>>]

\* `hubtain fetch` with a SERVER_URL.
CliDirect(c, s) ==
  /\ cli[c] = "idle"
  /\ cli' = [cli EXCEPT ![c] = "connect"]
  /\ dest' = [dest EXCEPT ![c] = [peer |-> s, port |-> Port(s)]]
  /\ UNCHANGED <<pings, flight, buf, found>> /\ SrvUnchanged

\* The broadcast reaches some of the servers that hear it.  BROADCAST_ADDR is
\* unwrapped: without a usable interface the client panics.
CliBroadcast(c) ==
  /\ cli[c] = "idle"
  /\ IF select_broadcast_addr(net[c]) = NoAddr
     THEN cli' = [cli EXCEPT ![c] = "panic"] /\ UNCHANGED pings
     ELSE /\ cli' = [cli EXCEPT ![c] = "collect"]
          /\ \E S \in SUBSET {s \in Servers : Bound(s) /\ Hears(net[s], net[c])} :
               pings' = [s \in Servers |-> pings[s] \cup IF s \in S THEN {c} ELSE {}]
  /\ UNCHANGED <<flight, buf, found, dest>> /\ SrvUnchanged

\* A reply, which may come again, goes into the buffer; all of it is kept.
CliReceive(c, s) ==
  /\ cli[c] = "collect" /\ Len(found[c]) < MaxReplies
  /\ <<s, c>> \in flight
  /\ \/ flight' = flight \ {<<s, c>>}
     \/ UNCHANGED flight
  /\ buf' = [buf EXCEPT ![c] = Received(@, Reply(Name[s], Port(s)))]
  /\ found' = [found EXCEPT ![c] = Append(@, [peer |-> s, bytes |-> buf'[c]])]
  /\ UNCHANGED <<cli, dest, pings>> /\ SrvUnchanged

\* After two seconds: nobody answered, or the first server that did is taken.
CliChoose(c) ==
  /\ cli[c] = "collect"
  /\ SocketClosed(c)
  /\ IF found[c] = <<>>
     THEN cli' = [cli EXCEPT ![c] = "err"] /\ UNCHANGED dest
     ELSE /\ cli' = [cli EXCEPT ![c] = "connect"]
          /\ dest' = [dest EXCEPT ![c] = [peer |-> found[c][1].peer,
                                          port |-> ReplyPort(found[c][1].bytes)]]
  /\ UNCHANGED pings /\ SrvUnchanged

\* Sending or receiving fails.
CliFails(c) ==
  /\ cli[c] = "collect"
  /\ SocketClosed(c)
  /\ cli' = [cli EXCEPT ![c] = "err"]
  /\ UNCHANGED <<dest, pings>> /\ SrvUnchanged

\* The server's system takes the connection, whatever its program is doing; nobody
\* listens there any more, or nothing is heard for ten seconds.
CliConnect(c) ==
  /\ cli[c] = "connect"
  /\ \/ /\ Listening(dest[c].peer) /\ dest[c].port = Port(dest[c].peer)
        /\ cli' = [cli EXCEPT ![c] = "backlog"]
        /\ UNCHANGED dest
     \/ End({c})
  /\ UNCHANGED <<pings, flight, buf, found>> /\ SrvUnchanged

\* The transfer is over, one way or the other.
CliDone(c) ==
  /\ cli[c] = "taken"
  /\ End({c})
  /\ UNCHANGED <<pings, flight, buf, found>> /\ SrvUnchanged

-----------------------------------------------------------------------------
Next ==
  \/ \E s \in Servers :
       \/ SrvStart(s) \/ SrvStep(s) \/ SrvFails(s) \/ SrvQuit(s)
       \/ DataStep(s) \/ DataFails(s)
  \/ \E c \in Clients :
       \/ (\E s \in Servers : CliDirect(c, s) \/ CliReceive(c, s))
       \/ CliBroadcast(c) \/ CliChoose(c) \/ CliFails(c) \/ CliConnect(c) \/ CliDone(c)

Spec == Init /\ [][Next]_vars

\* The executors poll what can go on, the two seconds pass, and connect() returns.
\* Nothing is assumed of the network, of the operators, of the setup of a server
\* or of the length of a transfer.  None of these steps can be repeated for ever,
\* so it is enough that one of them is taken while there is one.
FairSpec ==
  /\ Spec
  /\ WF_vars(\/ \E s \in Servers : SrvStep(s) \/ DataStep(s)
             \/ \E c \in Clients : CliChoose(c) \/ CliConnect(c))

-----------------------------------------------------------------------------
(* Properties *)

\* Every reply a client has kept leads to the server that sent it, though the
\* buffer still holds the end of a longer one before it.
FoundIsReal ==
  \A c \in Clients :
    /\ \A n \in 1..Len(found[c]) : ReplyPort(found[c][n].bytes) = Port(found[c][n].peer)
    /\ cli[c] \in {"connect", "backlog", "taken"} => dest[c].port = Port(dest[c].peer)

\* Server s takes its address from the o-th interface of its host, client c broadcasts
\* on the b-th of its own, and the server's host is on that subnet by its n-th.
Share(s, c, o, b, n) ==
  /\ n \in BroadcastIfaces(net[s]) /\ b \in BroadcastIfaces(net[c])
  /\ SameSubnet(net[s].ifaces[n], net[c].ifaces[b])
  /\ IsFirst(o, LocalIfaces(net[s])) /\ IsFirst(b, BroadcastIfaces(net[c]))

\* Who hears a client of the same subnet.  A server on macOS does.  One on Linux does
\* exactly if the interface it took its address from, this or another one, has the
\* first three octets of this subnet's broadcast address: with a netmask shorter than
\* 24 bits, an address in the last block.  A server that could start and is deaf all
\* the same listens on an address of its own that ends in 255, or for another network
\* of its host.
HeardOnSharedSubnet ==
  \A s \in Servers, c \in Clients :
    \A o \in LocalIfaces(net[s]), n \in BroadcastIfaces(net[s]), b \in BroadcastIfaces(net[c]) :
      LET own    == net[s].ifaces[o]
          shared == net[s].ifaces[n]
          heard  == Hears(net[s], net[c])
          addr   == udp_srv_bind_addr(net[s])
      IN  Share(s, c, o, b, n) =>
            /\ net[s].os = "macos" => heard
            /\ net[s].os = "linux" =>
                 (heard <=> \A k \in 1..3 : own.ip[k] = Broadcast(shared)[k])
            /\ Bound(s) /\ ~heard =>
                 \E i \in 1..Len(net[s].ifaces) :
                   LET other == net[s].ifaces[i]
                   IN  \/ addr = other.ip
                       \/ /\ addr = Broadcast(other) /\ other.broadcast
                          /\ Broadcast(other) # Broadcast(shared)

\* A server that stays alive goes on answering: no broadcast that reached it waits
\* for ever, unless it is told to quit or ends.
PingsAnswered ==
  []<>(\A s \in Servers :
         conf[s].stay_alive /\ srv[s] \in {"recv", "await"} /\ ~flag[s] => pings[s] = {})

\* What a client may wait for without end: a transfer before its own, on a server
\* that serves one client, or the setup of a server.
Held(c) ==
  /\ cli[c] = "backlog"
  /\ LET s == dest[c].peer
     IN  srv[s] = "start" \/ (~conf[s].stay_alive /\ Connected(s, {"taken"}) # {})

\* A client that was started is served, or comes to an end, or is held.  In
\* particular a one-shot server that answered a client which then chose another
\* server still serves who comes to it.
ClientsGoOn ==
  []<>(\A c \in Clients : cli[c] \in {"idle", "taken"} \cup CliEnded \/ Held(c))
=============================================================================
