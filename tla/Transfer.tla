------------------------------ MODULE Transfer ------------------------------
(***************************************************************************)
(* One download, from the accepted connection to the file on the client's  *)
(* disk: what data_srv and the task of the connection send                 *)
(* (src/src/server/mod.rs), the key exchange on both sides                 *)
(* (src/src/encrypted_stream), and download_to_file (src/src/client.rs).   *)
(*                                                                         *)
(* TCP keeps the order of each direction; a message is what one side       *)
(* writes and the other reads as a unit.  EncryptedStream models the cells *)
(* of an encrypted file; here its frames arrive in order, and at any time  *)
(* a torn one may end the client's copy.                                   *)
(***************************************************************************)
EXTENDS Naturals, SequencesExt, Messages

CONSTANTS
  MaxChunks,    \* bound: the longest file, in chunks of what copy() reads
  NameLens,     \* lengths of the file's name, in bytes
  SockBuf       \* chunks on their way before copy() must wait

ASSUME BoundsAssumption ==
  MaxChunks \in Nat /\ SockBuf \in Nat \ {0} /\ NameLens \subseteq Nat

VARIABLES
  conf,         \* what the server serves
  srv,          \* where the server is with this connection
  sent,         \* chunks of the file written to the connection
  decision,     \* what the operator decided
  toServer,     \* messages on their way to the server
  toClient,     \* messages on their way to the client
  link,         \* the connection is up or was reset
  cli,          \* where the client is
  info,         \* the DataSrvInfo the client read
  disk,         \* the file at the client's path
  cut           \* something failed that is not the protocol's doing

srvVars == <<srv, sent, decision>>
netVars == <<toServer, toClient, link>>
cliVars == <<cli, info, disk>>
vars == <<conf, srvVars, netVars, cliVars, cut>>

\* encrypted: the mode; size: the data_length taken when the server started;
\* length: the length of the file when it is sent; name: the length of its name.
Conf == [encrypted : BOOLEAN, size : 0..MaxChunks, length : 0..MaxChunks, name : NameLens]

SrvEnded == {"served", "rejected", "err", "gone"}
CliEnded == {"ok", "err", "panic", "gone"}

Info   == [type : {"info"}, encrypted : BOOLEAN, size : 0..MaxChunks]
Data   == [type : {"data"}, chunk : 1..MaxChunks]
Signal == [type : {"ee", "yes", "no"}]
NoInfo == [type |-> "none"]

\* A file on the disk is a sequence of chunks: chunk i of the file served is i,
\* what set_len adds is zero, and what was there before is of another file.
Zeros == 0
Old   == <<MaxChunks + 1>>

TypeOK ==
  /\ conf \in Conf
  /\ srv \in {"info", "recv_e", "send_ee", "recv_se", "approval", "answer", "copy"}
               \cup SrvEnded
  /\ sent \in 0..MaxChunks
  /\ decision \in {"none", "yes", "no"}
  /\ toServer \in Seq({"e", "se"})
  /\ toClient \in Seq(Info \cup Data \cup Signal)
  /\ link \in {"up", "reset"}
  /\ cli \in {"info", "send_e", "recv_ee", "send_se", "byte", "create", "copy", "finish"}
               \cup CliEnded
  /\ info \in Info \cup {NoInfo}
  /\ disk = Old \/ disk \in Seq(0..MaxChunks)
  /\ cut \in BOOLEAN

Init ==
  /\ conf \in Conf
  /\ srv = "info" /\ sent = 0 /\ decision = "none"
  /\ toServer = <<>> /\ toClient = <<>> /\ link = "up"
  /\ cli = "info" /\ info = NoInfo /\ disk = Old
  /\ cut = FALSE

-----------------------------------------------------------------------------
(* The connection *)

SrvOpen == srv \notin SrvEnded
CliOpen == cli \notin CliEnded

\* The server writes m: into the connection, or to a client that is gone, which
\* resets it.
SendToClient(m) ==
  /\ link = "up"
  /\ IF CliOpen THEN toClient' = Append(toClient, m) /\ UNCHANGED link
                ELSE toClient' = <<>> /\ link' = "reset"
  /\ UNCHANGED toServer

SendToServer(m) ==
  /\ link = "up"
  /\ IF SrvOpen THEN toServer' = Append(toServer, m) /\ UNCHANGED <<toClient, link>>
                ELSE /\ toServer' = <<>> /\ link' = "reset"
                     /\ \E n \in 0..Len(toClient) : toClient' = SubSeq(toClient, 1, n)

\* Nothing more will come.
ClientAtEnd == toClient = <<>> /\ (link = "reset" \/ ~SrvOpen)
ServerAtEnd == toServer = <<>> /\ (link = "reset" \/ ~CliOpen)

\* The connection is lost, with what had not arrived yet.
Reset ==
  /\ link = "up" /\ link' = "reset" /\ cut' = TRUE
  /\ \E n \in 0..Len(toClient) : toClient' = SubSeq(toClient, 1, n)
  /\ \E n \in 0..Len(toServer) : toServer' = SubSeq(toServer, 1, n)
  /\ UNCHANGED <<conf, srvVars, cliVars>>

-----------------------------------------------------------------------------
(* The server: data_srv for the info, then the task of the connection *)

SrvUnchanged == UNCHANGED <<conf, cliVars, cut>>

\* From one state to another by writing m.
SrvSends(from, m, to) ==
  /\ srv = from /\ srv' = to
  /\ SendToClient(m)
  /\ UNCHANGED <<sent, decision>> /\ SrvUnchanged

\* From one state to another by reading m.
SrvReads(from, m, to) ==
  /\ srv = from /\ srv' = to
  /\ toServer # <<>> /\ Head(toServer) = m /\ toServer' = Tail(toServer)
  /\ UNCHANGED <<sent, decision, toClient, link>> /\ SrvUnchanged

\* Mutant: the operator is asked before the key exchange.
SrvInfo_NoExchange ==
  SrvSends("info", [type |-> "info", encrypted |-> conf.encrypted, size |-> conf.size],
           IF conf.encrypted THEN "approval" ELSE "copy")

\* Say what is served.
SrvInfo ==
  SrvSends("info", [type |-> "info", encrypted |-> conf.encrypted, size |-> conf.size],
           IF conf.encrypted THEN "recv_e" ELSE "copy")

SrvHandshake ==
  \/ SrvReads("recv_e", "e", "send_ee")
  \/ SrvSends("send_ee", [type |-> "ee"], "recv_se")
  \/ SrvReads("recv_se", "se", "approval")

\* The approver's answer, or its failure.
SrvDecide ==
  /\ srv = "approval"
  /\ \/ srv' = "answer" /\ decision' \in {"yes", "no"} /\ UNCHANGED cut
     \/ srv' = "err" /\ cut' = TRUE /\ UNCHANGED decision
  /\ UNCHANGED <<conf, sent, netVars, cliVars>>

\* Mutant: the rejected client is served all the same.
SrvAnswer_Ignored == SrvSends("answer", [type |-> "yes"], "copy")

\* The approval byte.
SrvAnswer ==
  SrvSends("answer", [type |-> decision],
           IF decision = "yes" THEN "copy" ELSE "rejected")

\* Mutant: one chunk is written past the end of the file.
SrvCopy_PastEnd ==
  /\ srv = "copy" /\ sent <= conf.length
  /\ Len(toClient) < SockBuf \/ ~CliOpen
  /\ sent' = sent + 1
  /\ SendToClient([type |-> "data", chunk |-> sent + 1])
  /\ UNCHANGED <<conf, srv, decision, cliVars, cut>>

\* copy() writes the next chunk when the socket has room, or when the peer's
\* kernel refuses what comes.
SrvCopy ==
  /\ srv = "copy" /\ sent < conf.length
  /\ Len(toClient) < SockBuf \/ ~CliOpen
  /\ sent' = sent + 1
  /\ SendToClient([type |-> "data", chunk |-> sent + 1])
  /\ UNCHANGED <<conf, srv, decision, cliVars, cut>>

\* The end of the file: flush, log, drop the connection.
SrvCopyEnd ==
  /\ srv = "copy" /\ sent = conf.length
  /\ srv' = "served"
  /\ UNCHANGED <<conf, sent, decision, netVars, cliVars, cut>>

\* Mutant: a server that reads does not see that its client is gone.
SrvFails_OnlyWrites ==
  /\ link = "reset"
  /\ srv \in {"info", "send_ee", "answer"} \/ (srv = "copy" /\ sent < conf.length)
  /\ srv' = "err"
  /\ UNCHANGED <<conf, sent, decision, netVars, cliVars, cut>>

\* A write to a connection that was reset, or a read at its end.
SrvFails ==
  /\ \/ link = "reset" /\ srv \in {"info", "send_ee", "answer"}
     \/ link = "reset" /\ srv = "copy" /\ sent < conf.length
     \/ ServerAtEnd /\ srv \in {"recv_e", "recv_se"}
  /\ srv' = "err"
  /\ UNCHANGED <<conf, sent, decision, netVars, cliVars, cut>>

\* The process ends with the transfer under way, or its file cannot be read.
SrvLeaves ==
  /\ SrvOpen /\ srv' = "gone" /\ cut' = TRUE
  /\ UNCHANGED <<conf, sent, decision, netVars, cliVars>>

SrvStep ==
  \/ SrvInfo \/ SrvHandshake \/ SrvAnswer \/ SrvCopy \/ SrvCopyEnd \/ SrvFails

-----------------------------------------------------------------------------
(* The client: download_to_file *)

CliUnchanged == UNCHANGED <<conf, srvVars>>

CliSends(from, m, to) ==
  /\ cli = from /\ cli' = to
  /\ SendToServer(m)
  /\ UNCHANGED <<info, disk, cut>> /\ CliUnchanged

\* The client reads a message of this type.
CliReads(type) ==
  /\ toClient # <<>> /\ Head(toClient).type = type
  /\ toClient' = Tail(toClient)
  /\ UNCHANGED <<toServer, link, cut>> /\ CliUnchanged

\* Mutant: an encrypted server is not asked for a handshake.
CliInfo_Plain ==
  /\ cli = "info" /\ CliReads("info")
  /\ IF InfoReadable(conf.name)
     THEN info' = Head(toClient) /\ cli' = IF info'.encrypted THEN "recv_ee" ELSE "create"
     ELSE cli' = "err" /\ UNCHANGED info
  /\ UNCHANGED disk

\* Read the info by its length byte; what a wrapped byte cuts off does not
\* deserialize.
CliInfo ==
  /\ cli = "info" /\ CliReads("info")
  /\ \/ /\ InfoReadable(conf.name)
        /\ info' = Head(toClient)
        /\ cli' = IF info'.encrypted THEN "send_e" ELSE "create"
     \/ ~InfoReadable(conf.name) /\ cli' = "err" /\ UNCHANGED info
  /\ UNCHANGED disk

CliHandshake ==
  \/ CliSends("send_e", "e", "recv_ee")
  \/ cli = "recv_ee" /\ CliReads("ee") /\ cli' = "send_se" /\ UNCHANGED <<info, disk>>
  \/ CliSends("send_se", "se", "byte")

\* The approval byte: anything but a one is a rejection.
CliByte ==
  /\ cli = "byte"
  /\ \/ CliReads("yes") /\ cli' = "create"
     \/ CliReads("no") /\ cli' = "err"
  /\ UNCHANGED <<info, disk>>

\* Mutant: a file that is there is not truncated.
CliCreate_Keep ==
  /\ cli = "create" /\ cli' = "copy"
  /\ UNCHANGED <<conf, srvVars, netVars, info, disk, cut>>

\* Create the file, or truncate the one that is there.
CliCreate ==
  /\ cli = "create"
  /\ \/ cli' = "copy" /\ disk' = <<>> /\ UNCHANGED cut
     \/ cli' = "err" /\ cut' = TRUE /\ UNCHANGED disk
  /\ UNCHANGED <<conf, srvVars, netVars, info>>

CliCopy ==
  /\ cli = "copy" /\ CliReads("data")
  /\ disk' = Append(disk, Head(toClient).chunk)
  /\ UNCHANGED <<cli, info>>

\* Mutant: the encrypted reader does not take the end of the stream for one.
CliCopyEnd_OnlyPlain ==
  /\ cli = "copy" /\ ClientAtEnd /\ ~info.encrypted
  /\ cli' = "finish"
  /\ UNCHANGED <<conf, srvVars, netVars, info, disk, cut>>

\* Mutant: nothing to read now is taken for the end of the stream.
CliCopyEnd_WhenEmpty ==
  /\ cli = "copy" /\ toClient = <<>>
  /\ cli' = IF info.encrypted /\ link = "reset" THEN "panic" ELSE "finish"
  /\ UNCHANGED <<conf, srvVars, netVars, info, disk, cut>>

\* The end of the stream or an error, which the caller ignores; the encrypted
\* reader panics at an error.
CliCopyEnd ==
  /\ cli = "copy" /\ ClientAtEnd
  /\ cli' = IF info.encrypted /\ link = "reset" THEN "panic" ELSE "finish"
  /\ UNCHANGED <<conf, srvVars, netVars, info, disk, cut>>

\* A torn frame ends the copy, or the disk takes no more: ignored as well.
CliCopyStops ==
  /\ cli = "copy" /\ toClient # <<>>
  /\ cli' = "finish" /\ cut' = TRUE
  /\ UNCHANGED <<conf, srvVars, netVars, info, disk>>

Resized(n) == [i \in 1..n |-> IF i <= Len(disk) THEN disk[i] ELSE Zeros]

\* set_len to the length the server announced, and Ok(()).
CliFinish ==
  /\ cli = "finish"
  /\ \/ cli' = "ok" /\ disk' = Resized(info.size) /\ UNCHANGED cut
     \/ cli' = "err" /\ cut' = TRUE /\ UNCHANGED disk
  /\ UNCHANGED <<conf, srvVars, netVars, info>>

\* An error before the copy is returned.
CliFails ==
  /\ \/ ClientAtEnd /\ cli \in {"info", "recv_ee", "byte"}
     \/ link = "reset" /\ cli \in {"send_e", "send_se"}
  /\ cli' = "err"
  /\ UNCHANGED <<conf, srvVars, netVars, info, disk, cut>>

\* The client's process is killed.
CliLeaves ==
  /\ CliOpen /\ cli' = "gone" /\ cut' = TRUE
  /\ UNCHANGED <<conf, srvVars, netVars, info, disk>>

CliStep ==
  \/ CliInfo \/ CliHandshake \/ CliByte \/ CliCreate \/ CliCopy \/ CliCopyEnd
  \/ CliFinish \/ CliFails

-----------------------------------------------------------------------------
Next ==
  \/ SrvStep \/ SrvDecide \/ SrvLeaves
  \/ CliStep \/ CliCopyStops \/ CliLeaves
  \/ Reset

Spec == Init /\ [][Next]_vars

\* The executors of both processes poll what can go on.  Nothing is assumed of
\* the operator, and nothing has to fail.
FairSpec == Spec /\ WF_vars(SrvStep) /\ WF_vars(CliStep)

-----------------------------------------------------------------------------
(* Properties *)

\* The two sides never wait for each other: with nothing on its way and the
\* connection up, one of them has something else to do than to read.
NoMutualWait ==
  ~ /\ link = "up" /\ SrvOpen /\ CliOpen
    /\ srv \in {"recv_e", "recv_se"} /\ toServer = <<>>
    /\ cli \in {"info", "recv_ee", "byte", "copy"} /\ toClient = <<>>

\* Nothing of an encrypted file leaves the server, and nothing on the client's
\* disk is touched, before the operator has approved this client.
ApprovedOnly ==
  conf.encrypted /\ decision # "yes" =>
    /\ disk = Old
    /\ \A i \in 1..Len(toClient) : toClient[i].type # "data"

\* Whatever fails, the client's file is the old one, or the start of the served
\* one, with zeros behind it once the length is set.
DiskIsPrefix ==
  disk # Old =>
    \E n \in 0..Len(disk) :
      disk = [i \in 1..Len(disk) |-> IF i <= n THEN i ELSE Zeros]

\* The file as it is served.
ServedFile == [i \in 1..conf.length |-> i]

\* A download that succeeds, and in which nothing failed, leaves the served file on
\* the disk if the file still has the length it had when the server started, and
\* only then: the server announces the old length with every client, and the client
\* cuts what has grown and fills up what has shrunk.
FileIsServed ==
  cli = "ok" /\ ~cut => (disk = ServedFile <=> conf.size = conf.length)

\* An approved client, or one of an unencrypted server, gets the file or
\* something failed, if the name has at most 236 of the 255 bytes a file name may
\* have; with a longer one the length byte wraps and no download gets past the info.
TransferCompletes ==
  /\ ((conf.encrypted => decision = "yes") /\ conf.name <= 236) ~> (cli = "ok" \/ cut)
  /\ conf.name \in 237..255 => [](cli # "ok" /\ disk = Old)

\* When one side is gone the other one ends as well, except that a server does
\* not look at the connection while its operator decides.
EndTogether ==
  /\ ~SrvOpen ~> ~CliOpen
  /\ ~CliOpen ~> (~SrvOpen \/ srv = "approval")

\* "Download complete!" is logged for every Ok of download_to_file: the file on the
\* disk should be the served one, whatever failed.  This is about a file that has kept
\* its length; for the others FileIsServed says that the line is always wrong.
DownloadComplete ==
  cli = "ok" /\ conf.size = conf.length => disk = ServedFile

-----------------------------------------------------------------------------
(* The inductive invariant *)

\* The client has not come to the end of what it reads.
Reading == CliOpen /\ cli # "finish"

\* What the server writes has places in one order: the info, "ee" and the answer
\* have 1 to 3, an unencrypted server's info has the answer's, and chunk k has 3 + k.
InfoPlace == IF conf.encrypted THEN 1 ELSE 3

Place(m) ==
  CASE m.type = "info" -> InfoPlace
    [] m.type = "ee"   -> 2
    [] m.type = "data" -> 3 + m.chunk
    [] OTHER           -> 3

\* The place of what the server writes next, and of what the client reads next.
ServerWrites ==
  CASE srv = "info"                             -> InfoPlace
    [] srv \in {"recv_e", "send_ee"}            -> 2
    [] srv \in {"recv_se", "approval", "answer"} -> 3
    [] OTHER                                    -> 4 + sent

ClientReads ==
  CASE cli = "info"                  -> InfoPlace
    [] cli \in {"send_e", "recv_ee"} -> 2
    [] cli \in {"send_se", "byte"}   -> 3
    [] cli = "create"                -> 4
    [] OTHER                         -> 4 + Len(disk)

\* The same for the client's two messages of the key exchange.
ServerReads ==
  CASE srv \in {"info", "recv_e"}     -> 1
    [] srv \in {"send_ee", "recv_se"} -> 2
    [] OTHER                          -> 3

ClientWrites ==
  CASE cli \in {"info", "send_e"}     -> 1
    [] cli \in {"recv_ee", "send_se"} -> 2
    [] OTHER                          -> 3

\* Nothing is lost between the two sides.
Together == link = "up" /\ Reading /\ srv \notin {"err", "gone"}

\* The client reads everything in its order, and what is on its way is what the
\* server is ahead.
MessageOrder ==
  /\ Reading => \A i \in 1..Len(toClient) : Place(toClient[i]) = ClientReads + i - 1
  /\ Together => ClientReads + Len(toClient) = ServerWrites
  /\ Together /\ conf.encrypted => ServerReads + Len(toServer) = ClientWrites

\* How far the server is tells what was decided and sent.
ServerOrder ==
  /\ srv \in {"recv_e", "send_ee", "recv_se", "approval", "answer", "rejected"} =>
       conf.encrypted
  /\ srv \in {"info", "recv_e", "send_ee", "recv_se", "approval"} => decision = "none"
  /\ srv = "answer" => decision # "none"
  /\ srv = "rejected" => decision = "no"
  /\ srv \in {"copy", "served"} /\ conf.encrypted => decision = "yes"
  /\ srv \notin {"copy", "served", "err", "gone"} => sent = 0
  /\ sent <= conf.length
  /\ srv = "served" => sent = conf.length

\* How far the client is tells what it knows and what is on its disk.
Announced == [type |-> "info", encrypted |-> conf.encrypted, size |-> conf.size]

ClientOrder ==
  /\ \A i \in 1..Len(toClient) : toClient[i].type = "info" => toClient[i] = Announced
  /\ CliOpen /\ cli # "info" => info = Announced
  /\ cli \in {"send_e", "recv_ee", "send_se", "byte"} => conf.encrypted
  /\ Reading /\ cli # "copy" => disk = Old
  /\ cli \in {"copy", "finish"} =>
       disk \in Seq(0..MaxChunks) /\ \A i \in 1..Len(disk) : disk[i] = i
  /\ DiskIsPrefix

\* Without the operator's yes neither the server nor the client has got to the file.
NotApproved ==
  /\ ApprovedOnly
  /\ conf.encrypted /\ decision # "yes" =>
       /\ cli \notin {"create", "copy", "finish", "ok"}
       /\ \A i \in 1..Len(toClient) : toClient[i].type # "yes"

\* When nothing failed, a finished download has the chunks of the served file in the
\* announced length, whatever the file's length is by then.
FileIsSized ==
  cli = "ok" /\ ~cut =>
    disk = [i \in 1..conf.size |-> IF i <= conf.length THEN i ELSE Zeros]

\* When nothing failed, a client at work has its connection and a server that is at
\* work or has come to its end, and it has finished because it has read everything.
NothingFailed ==
  ~cut =>
    /\ srv # "gone"
    /\ CliOpen => link = "up" /\ srv # "err"
    /\ cli = "finish" => Len(disk) = conf.length
    /\ FileIsSized

IInv ==
  /\ TypeOK
  /\ MessageOrder
  /\ ServerOrder
  /\ ClientOrder
  /\ NotApproved
  /\ NothingFailed

-----------------------------------------------------------------------------
(* The abstract connection *)

Stage ==
  CASE srv \in {"recv_e", "send_ee", "recv_se"} -> "handshake"
    [] srv = "answer" -> IF decision = "yes" THEN "approved" ELSE "denied"
    [] srv = "copy" -> "streaming"
    [] srv \in {"err", "gone"} -> "failed"
    [] OTHER -> srv

Conns == INSTANCE Connections WITH
  Clients <- {"client"}, stage <- [c \in {"client"} |-> Stage], encrypted <- conf.encrypted

\* The server's side of a download goes through the promised stages, with a client
\* and a connection that may fail at any of them.
ImplementsConnection == Conns!Spec
=============================================================================
