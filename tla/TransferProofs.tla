--------------------------- MODULE TransferProofs ---------------------------
(***************************************************************************)
(* Proofs about Transfer for files of any length, names of any lengths and *)
(* any room between the two sides: the safety properties of a download,    *)
(* and that the server's side implements Connections.                      *)
(***************************************************************************)
EXTENDS Transfer, SequenceTheorems, TLAPS

\* The messages, in either direction.
Msg == Info \cup Data \cup Signal

-----------------------------------------------------------------------------
(* Sequences *)

\* The elements of what follows a read.
LEMMA TailKeeps ==
  ASSUME NEW S, NEW q \in Seq(S), q # <<>>
  PROVE  /\ Len(q) \in Nat \ {0} /\ Head(q) = q[1] /\ Head(q) \in S
         /\ Tail(q) \in Seq(S) /\ Len(Tail(q)) = Len(q) - 1
         /\ \A i \in 1..Len(Tail(q)) : Tail(q)[i] = q[i + 1] /\ i + 1 \in 1..Len(q)
<1>1. Len(q) \in Nat \ {0}
  BY EmptySeq
<1> QED
  BY <1>1, HeadTailProperties, SMT

\* The elements after a write.
LEMMA AppendKeeps ==
  ASSUME NEW S, NEW q \in Seq(S), NEW e \in S
  PROVE  /\ Append(q, e) \in Seq(S) /\ Len(q) \in Nat
         /\ Len(Append(q, e)) = Len(q) + 1
         /\ Append(q, e)[Len(q) + 1] = e
         /\ \A i \in 1..Len(q) : Append(q, e)[i] = q[i]
  BY AppendProperties, LenProperties

\* The elements of what is left when the end is lost.
LEMMA PrefixKeeps ==
  ASSUME NEW S, NEW q \in Seq(S), NEW n \in 0..Len(q)
  PROVE  /\ SubSeq(q, 1, n) \in Seq(S) /\ Len(q) \in Nat
         /\ Len(SubSeq(q, 1, n)) = n
         /\ \A i \in 1..n : SubSeq(q, 1, n)[i] = q[i] /\ i \in 1..Len(q)
<1>1. Len(q) \in Nat /\ n \in Int
  BY LenProperties, SMT
<1>2. \A i \in 1..n : q[i] \in S
  BY <1>1, ElementOfSeq, SMT
<1> QED
  BY <1>1, <1>2, SubSeqProperties, SMT

\* Numbers of the state.
LEMMA Numbers ==
  ASSUME TypeOK
  PROVE  /\ ServerWrites \in Nat /\ ServerReads \in Nat /\ ClientWrites \in Nat
         /\ ClientReads \in Nat
         /\ Len(disk) \in Nat /\ Len(toClient) \in Nat /\ Len(toServer) \in Nat
         /\ conf.length \in 0..MaxChunks /\ conf.size \in 0..MaxChunks
         /\ conf.encrypted \in BOOLEAN /\ MaxChunks \in Nat /\ sent \in Nat
<1> USE BoundsAssumption DEF TypeOK
<1>1. Len(disk) \in Nat
  BY LenProperties DEF Old
<1>2. Len(toClient) \in Nat /\ Len(toServer) \in Nat
  BY LenProperties
<1>3. /\ conf.length \in 0..MaxChunks /\ conf.size \in 0..MaxChunks
      /\ conf.encrypted \in BOOLEAN /\ MaxChunks \in Nat /\ sent \in Nat
  BY SMT DEF Conf
<1> QED
  BY <1>1, <1>2, <1>3, SMT
  DEF ServerWrites, ServerReads, ClientWrites, ClientReads, InfoPlace

\* What the server writes, and its place.
LEMMA Messages ==
  ASSUME TypeOK
  PROVE  /\ Announced \in Msg /\ Announced.type = "info" /\ Place(Announced) = InfoPlace
         /\ \A t \in {"ee", "yes", "no"} :
              /\ [type |-> t] \in Msg /\ [type |-> t].type = t
              /\ Place([type |-> t]) = IF t = "ee" THEN 2 ELSE 3
         /\ \A k \in 1..MaxChunks :
              /\ [type |-> "data", chunk |-> k] \in Msg
              /\ [type |-> "data", chunk |-> k].type = "data"
              /\ Place([type |-> "data", chunk |-> k]) = 3 + k
<1>1. conf.size \in 0..MaxChunks /\ conf.encrypted \in BOOLEAN
  BY Numbers
<1>2. Announced \in Info
  BY <1>1 DEF Announced, Info
<1> QED
  BY <1>2, SMT DEF Msg, Announced, Place, Info, Data, Signal

-----------------------------------------------------------------------------
(* Init *)

\* At the start nothing is on its way.
LEMMA InitIInv == Init => IInv
<1> SUFFICES ASSUME Init PROVE IInv
  OBVIOUS
<1> USE BoundsAssumption DEF Init, CliOpen, CliEnded
<1>0. conf \in Conf /\ conf.length \in 0..MaxChunks /\ conf.encrypted \in BOOLEAN
  BY DEF Conf
<1>1. TypeOK
  <2>1. <<>> \in Seq({"e", "se"}) /\ <<>> \in Seq(Info \cup Data \cup Signal)
    BY EmptySeq
  <2>2. 0 \in 0..MaxChunks
    BY SMT
  <2> QED
    BY <1>0, <2>1, <2>2, ZenonT(30) DEF TypeOK
<1>2. MessageOrder
  BY <1>0, EmptySeq, SMT
  DEF MessageOrder, ClientReads, ServerWrites, ServerReads, ClientWrites, InfoPlace
<1>3. ServerOrder
  BY <1>0, SMT DEF ServerOrder
<1>4. ClientOrder
  BY SMT DEF ClientOrder, DiskIsPrefix
<1>5. NotApproved
  BY SMT DEF NotApproved, ApprovedOnly
<1>6. NothingFailed
  BY SMT DEF NothingFailed, FileIsSized
<1> QED
  BY <1>1, <1>2, <1>3, <1>4, <1>5, <1>6 DEF IInv

-----------------------------------------------------------------------------
(* The server's steps *)

\* The server writes what is next: the order of the messages is kept, whether
\* the client is there to get it or not.
LEMMA ServerSends ==
  ASSUME IInv, NEW m \in Msg, SendToClient(m),
         UNCHANGED <<conf, decision, cliVars, cut>>,
         srv \notin {"err", "gone"}, srv' \notin {"err", "gone"},
         Place(m) = ServerWrites,
         ServerWrites' = ServerWrites + 1,
         conf.encrypted => ServerReads' = ServerReads,
         m.type = "info" => m = Announced,
         conf.encrypted /\ m.type \in {"data", "yes"} => decision = "yes"
  PROVE  /\ toServer' = toServer /\ toClient' \in Seq(Msg) /\ link' \in {"up", "reset"}
         /\ MessageOrder' /\ ClientOrder' /\ NotApproved' /\ NothingFailed'
<1>0. TypeOK /\ toClient \in Seq(Msg) /\ link = "up" /\ toServer' = toServer
  BY DEF IInv, TypeOK, Msg, SendToClient
<1>1. /\ ClientReads' = ClientReads /\ ClientWrites' = ClientWrites
      /\ CliOpen' = CliOpen /\ Reading' = Reading /\ Announced' = Announced
      /\ UNCHANGED <<conf, decision, cli, info, disk, cut>>
  BY DEF cliVars, ClientReads, ClientWrites, CliOpen, Reading, InfoPlace, Announced
<1>2. \A x : Place(x)' = Place(x)
  BY <1>1 DEF Place, InfoPlace
<1>3. /\ ServerWrites \in Nat /\ ServerReads \in Nat /\ ClientWrites \in Nat
      /\ ClientReads \in Nat /\ Len(toClient) \in Nat /\ Len(toServer) \in Nat
  BY <1>0, Numbers
<1>4. CASE CliOpen
  <2>1. toClient' = Append(toClient, m) /\ link' = link
    BY <1>4 DEF SendToClient
  <2>2. /\ toClient' \in Seq(Msg) /\ Len(toClient') = Len(toClient) + 1
        /\ toClient'[Len(toClient) + 1] = m
        /\ \A i \in 1..Len(toClient) : toClient'[i] = toClient[i]
    BY <1>0, <2>1, AppendKeeps
  <2>3. \A i \in 1..Len(toClient') : i \in 1..Len(toClient) \/ i = Len(toClient) + 1
    BY <1>3, <2>2, SMT
  <2>4. MessageOrder'
    <3>1. ASSUME Reading, NEW i \in 1..Len(toClient')
          PROVE  Place(toClient'[i]) = ClientReads + i - 1
      <4>1. CASE i \in 1..Len(toClient)
        BY <2>2, <3>1, <4>1 DEF IInv, MessageOrder
      <4>2. CASE i = Len(toClient) + 1
        <5>1. ClientReads + Len(toClient) = ServerWrites
          BY <1>0, <3>1 DEF IInv, MessageOrder, Together
        <5> QED
          BY <1>3, <2>2, <4>2, <5>1, SMT
      <4> QED
        BY <2>3, <4>1, <4>2
    <3>2. Together' => Together
      BY <1>0, <1>1 DEF Together
    <3>3. Together' => ClientReads' + Len(toClient') = ServerWrites'
      BY <1>1, <1>3, <2>2, <3>2, SMT DEF IInv, MessageOrder
    <3>4. Together' /\ conf'.encrypted => ServerReads' + Len(toServer') = ClientWrites'
      BY <1>0, <1>1, <3>2 DEF IInv, MessageOrder
    <3> QED
      BY <1>1, <1>2, <3>1, <3>3, <3>4 DEF MessageOrder
  <2>5. ClientOrder'
    BY <1>1, <2>2, <2>3 DEF IInv, ClientOrder, DiskIsPrefix
  <2>6. NotApproved'
    BY <1>1, <2>2, <2>3 DEF IInv, NotApproved, ApprovedOnly
  <2>7. NothingFailed'
    BY <1>1, <2>1 DEF IInv, NothingFailed, FileIsSized
  <2> QED
    BY <1>0, <2>1, <2>2, <2>4, <2>5, <2>6, <2>7
<1>5. CASE ~CliOpen
  <2>1. toClient' = <<>> /\ link' = "reset" /\ ~Reading
    BY <1>5 DEF SendToClient, Reading
  <2>2. toClient' \in Seq(Msg) /\ 1..Len(toClient') = {}
    BY <2>1, EmptySeq, SMT
  <2>3. MessageOrder'
    BY <1>1, <2>1 DEF MessageOrder, Together
  <2>4. ClientOrder'
    BY <1>1, <2>2 DEF IInv, ClientOrder, DiskIsPrefix
  <2>5. NotApproved'
    BY <1>1, <2>2 DEF IInv, NotApproved, ApprovedOnly
  <2>6. NothingFailed'
    BY <1>1, <1>5 DEF IInv, NothingFailed, FileIsSized
  <2> QED
    BY <1>0, <2>1, <2>2, <2>3, <2>4, <2>5, <2>6
<1> QED
  BY <1>4, <1>5

\* The server writes nothing: it reads, decides, comes to its end or fails.
LEMMA ServerQuiet ==
  ASSUME IInv, UNCHANGED <<conf, toClient, link, cliVars>>,
         Len(toServer') \in Nat,
         \/ srv' \in {"err", "gone"}
         \/ /\ srv \notin {"err", "gone"} /\ ServerWrites' = ServerWrites
            /\ ServerReads' + Len(toServer') = ServerReads + Len(toServer),
         decision' # "yes" => decision # "yes",
         ~cut' => ~cut /\ srv' # "gone" /\ (CliOpen => srv' # "err")
  PROVE  MessageOrder' /\ ClientOrder' /\ NotApproved' /\ NothingFailed'
<1>1. /\ ClientReads' = ClientReads /\ ClientWrites' = ClientWrites
      /\ CliOpen' = CliOpen /\ Reading' = Reading /\ Announced' = Announced
      /\ UNCHANGED <<conf, cli, info, disk, toClient, link>>
  BY DEF cliVars, ClientReads, ClientWrites, CliOpen, Reading, InfoPlace, Announced
<1>2. \A x : Place(x)' = Place(x)
  BY <1>1 DEF Place, InfoPlace
<1>3. MessageOrder'
  BY <1>1, <1>2 DEF IInv, MessageOrder, Together
<1>4. ClientOrder'
  BY <1>1 DEF IInv, ClientOrder, DiskIsPrefix
<1>5. NotApproved'
  BY <1>1 DEF IInv, NotApproved, ApprovedOnly
<1>6. NothingFailed'
  BY <1>1 DEF IInv, NothingFailed, FileIsSized
<1> QED
  BY <1>3, <1>4, <1>5, <1>6
\* Each step of the server preserves IInv.
LEMMA ServerStep == IInv /\ (SrvStep \/ SrvDecide \/ SrvLeaves) => IInv'
<1> SUFFICES ASSUME IInv, SrvStep \/ SrvDecide \/ SrvLeaves PROVE IInv'
  OBVIOUS
<1> USE DEF SrvEnded
<1>0. TypeOK /\ ServerOrder
  BY DEF IInv
<1>1. /\ sent \in Nat /\ conf.length \in 0..MaxChunks /\ MaxChunks \in Nat
      /\ Len(toServer) \in Nat /\ toServer \in Seq({"e", "se"})
      /\ conf.encrypted \in BOOLEAN
  BY <1>0, Numbers DEF TypeOK
<1>2. CASE SrvInfo
  <2>1. /\ srv = "info" /\ srv' = IF conf.encrypted THEN "recv_e" ELSE "copy"
        /\ SendToClient(Announced)
        /\ UNCHANGED <<conf, sent, decision, cliVars, cut>>
    BY <1>2 DEF SrvInfo, SrvSends, SrvUnchanged, Announced
  <2>2. /\ Announced \in Msg /\ Announced.type = "info" /\ Place(Announced) = InfoPlace
    BY <1>0, Messages
  <2>3. /\ ServerWrites = InfoPlace /\ ServerWrites' = InfoPlace + 1
        /\ conf.encrypted => ServerReads' = ServerReads
    BY <1>0, <2>1, SMT DEF ServerWrites, ServerReads, InfoPlace, ServerOrder
  <2>4. ServerOrder'
    BY <1>0, <1>1, <2>1, SMT DEF ServerOrder
  <2>5. /\ toServer' = toServer /\ toClient' \in Seq(Msg) /\ link' \in {"up", "reset"}
        /\ MessageOrder' /\ ClientOrder' /\ NotApproved' /\ NothingFailed'
    BY <2>1, <2>2, <2>3, ServerSends
  <2>6. TypeOK'
    BY <1>0, <2>1, <2>5 DEF TypeOK, Msg, cliVars
  <2> QED
    BY <2>4, <2>5, <2>6 DEF IInv
<1>3. CASE SrvHandshake
  <2>1. ASSUME NEW m, NEW from, NEW to, SrvReads(from, m, to),
               \/ from = "recv_e" /\ to = "send_ee"
               \/ from = "recv_se" /\ to = "approval"
        PROVE  IInv'
    <3>1. /\ srv = from /\ srv' = to /\ toServer # <<>> /\ toServer' = Tail(toServer)
          /\ UNCHANGED <<conf, sent, decision, toClient, link, cliVars, cut>>
      BY <2>1 DEF SrvReads, SrvUnchanged
    <3>2. /\ toServer' \in Seq({"e", "se"}) /\ Len(toServer) \in Nat \ {0}
          /\ Len(toServer') = Len(toServer) - 1
      BY <1>1, <3>1, TailKeeps
    <3>3. /\ ServerWrites' = ServerWrites
          /\ ServerReads' + Len(toServer') = ServerReads + Len(toServer)
      BY <2>1, <3>1, <3>2, SMT DEF ServerWrites, ServerReads
    <3>4. ServerOrder'
      BY <1>0, <1>1, <2>1, <3>1, SMT DEF ServerOrder
    <3>5. MessageOrder' /\ ClientOrder' /\ NotApproved' /\ NothingFailed'
      <4>1. Len(toServer') \in Nat
        BY <3>2, SMT
      <4>2. /\ srv \notin {"err", "gone"} /\ srv' \notin {"err", "gone"}
        BY <2>1, <3>1
      <4> QED
        BY <3>1, <3>3, <4>1, <4>2, ServerQuiet
    <3>6. TypeOK'
      BY <1>0, <2>1, <3>1, <3>2 DEF TypeOK, cliVars
    <3> QED
      BY <3>4, <3>5, <3>6 DEF IInv
  <2>2. CASE SrvSends("send_ee", [type |-> "ee"], "recv_se")
    <3>1. /\ srv = "send_ee" /\ srv' = "recv_se" /\ SendToClient([type |-> "ee"])
          /\ UNCHANGED <<conf, sent, decision, cliVars, cut>>
      BY <2>2 DEF SrvSends, SrvUnchanged
    <3> DEFINE m == [type |-> "ee"]
    <3>2. m \in Msg /\ m.type = "ee" /\ Place(m) = 2
      BY <1>0, Messages
    <3>3. ServerWrites = 2 /\ ServerWrites' = 2 + 1 /\ ServerReads' = ServerReads
      BY <3>1, SMT DEF ServerWrites, ServerReads
    <3>4. ServerOrder'
      BY <1>0, <1>1, <3>1, SMT DEF ServerOrder
    <3>5. /\ toServer' = toServer /\ toClient' \in Seq(Msg) /\ link' \in {"up", "reset"}
          /\ MessageOrder' /\ ClientOrder' /\ NotApproved' /\ NothingFailed'
      <4> HIDE DEF m
      <4> SUFFICES SendToClient(m)
        BY <3>1, <3>2, <3>3, ServerSends
      <4> QED
        BY <3>1 DEF m
    <3>6. TypeOK'
      BY <1>0, <3>1, <3>5 DEF TypeOK, Msg, cliVars
    <3> QED
      BY <3>4, <3>5, <3>6 DEF IInv
  <2> QED
    BY <1>3, <2>1, <2>2 DEF SrvHandshake
<1>4. CASE SrvAnswer
  <2> DEFINE m == [type |-> decision]
  <2>1. /\ srv = "answer" /\ SendToClient(m)
        /\ srv' = IF decision = "yes" THEN "copy" ELSE "rejected"
        /\ UNCHANGED <<conf, sent, decision, cliVars, cut>>
    BY <1>4 DEF SrvAnswer, SrvSends, SrvUnchanged
  <2>2. decision \in {"yes", "no"} /\ conf.encrypted /\ sent = 0
    BY <1>0, <2>1 DEF TypeOK, ServerOrder
  <2>3. m \in Msg /\ m.type = decision /\ Place(m) = 3
    BY <1>0, <2>2, Messages
  <2>4. ServerWrites = 3 /\ ServerWrites' = 3 + 1 /\ ServerReads' = ServerReads
    BY <2>1, <2>2, SMT DEF ServerWrites, ServerReads
  <2>5. ServerOrder'
    BY <1>0, <1>1, <2>1, <2>2, SMT DEF ServerOrder
  <2> HIDE DEF m
  <2>6. /\ toServer' = toServer /\ toClient' \in Seq(Msg) /\ link' \in {"up", "reset"}
        /\ MessageOrder' /\ ClientOrder' /\ NotApproved' /\ NothingFailed'
    BY <2>1, <2>2, <2>3, <2>4, ServerSends
  <2>7. TypeOK'
    BY <1>0, <2>1, <2>6 DEF TypeOK, Msg, cliVars
  <2> QED
    BY <2>5, <2>6, <2>7 DEF IInv
<1>5. CASE SrvCopy
  <2> DEFINE m == [type |-> "data", chunk |-> sent + 1]
  <2>1. /\ srv = "copy" /\ srv' = "copy" /\ sent < conf.length /\ sent' = sent + 1
        /\ SendToClient(m)
        /\ UNCHANGED <<conf, decision, cliVars, cut>>
    BY <1>5 DEF SrvCopy
  <2>2. m \in Msg /\ m.type = "data" /\ Place(m) = 3 + (sent + 1)
    <3>1. sent + 1 \in 1..MaxChunks
      BY <1>1, <2>1, SMT
    <3> QED
      BY <1>0, <3>1, Messages
  <2>3. /\ ServerWrites = 3 + (sent + 1) /\ ServerWrites' = ServerWrites + 1
        /\ ServerReads' = ServerReads
    BY <1>1, <2>1, SMT DEF ServerWrites, ServerReads
  <2>4. ServerOrder'
    BY <1>0, <1>1, <2>1, SMT DEF ServerOrder
  <2>5. conf.encrypted => decision = "yes"
    BY <1>0, <2>1 DEF ServerOrder
  <2> HIDE DEF m
  <2>6. /\ toServer' = toServer /\ toClient' \in Seq(Msg) /\ link' \in {"up", "reset"}
        /\ MessageOrder' /\ ClientOrder' /\ NotApproved' /\ NothingFailed'
    BY <2>1, <2>2, <2>3, <2>5, ServerSends
  <2>7. TypeOK'
    <3>1. sent' \in 0..MaxChunks
      BY <1>1, <2>1, SMT
    <3> QED
      BY <1>0, <2>1, <2>6, <3>1 DEF TypeOK, Msg, cliVars
  <2> QED
    BY <2>4, <2>6, <2>7 DEF IInv
<1>6. CASE SrvCopyEnd \/ SrvFails \/ SrvDecide \/ SrvLeaves
  <2>1. /\ UNCHANGED <<conf, sent, toServer, toClient, link, cliVars>>
        /\ srv' \in {"served", "answer", "err", "gone"}
        /\ decision' \in {"none", "yes", "no"} /\ cut' \in BOOLEAN
    BY <1>0, <1>6 DEF TypeOK, SrvCopyEnd, SrvFails, SrvDecide, SrvLeaves, netVars
  <2>2. ServerOrder'
    BY <1>0, <1>1, <1>6, <2>1, SMT
    DEF ServerOrder, SrvCopyEnd, SrvFails, SrvDecide, SrvLeaves
  <2>3. \/ srv' \in {"err", "gone"}
        \/ /\ srv \notin {"err", "gone"} /\ ServerWrites' = ServerWrites
           /\ ServerReads' + Len(toServer') = ServerReads + Len(toServer)
    BY <1>1, <1>6, <2>1, SMT
    DEF SrvCopyEnd, SrvFails, SrvDecide, SrvLeaves, ServerWrites, ServerReads
  <2>4. decision' # "yes" => decision # "yes"
    BY <1>0, <1>6 DEF ServerOrder, SrvCopyEnd, SrvFails, SrvDecide, SrvLeaves
  <2>5. ~cut' => ~cut /\ srv' # "gone" /\ (CliOpen => srv' # "err")
    <3>1. CASE SrvFails
      <4>1. srv' = "err" /\ cut' = cut /\ (link = "reset" \/ ~CliOpen)
        BY <3>1 DEF SrvFails, ServerAtEnd
      <4> QED
        BY <4>1 DEF IInv, NothingFailed
    <3>2. CASE ~SrvFails
      BY <1>6, <3>2 DEF SrvCopyEnd, SrvDecide, SrvLeaves
    <3> QED
      BY <3>1, <3>2
  <2>6. MessageOrder' /\ ClientOrder' /\ NotApproved' /\ NothingFailed'
    BY <1>1, <2>1, <2>3, <2>4, <2>5, ServerQuiet
  <2>7. TypeOK'
    BY <1>0, <2>1 DEF TypeOK, cliVars
  <2> QED
    BY <2>2, <2>6, <2>7 DEF IInv
<1> QED
  BY <1>2, <1>3, <1>4, <1>5, <1>6 DEF SrvStep

-----------------------------------------------------------------------------
(* The client's steps *)

\* What the client reads is what the protocol has next.
LEMMA ClientHead ==
  ASSUME IInv, NEW t, CliReads(t), Reading
  PROVE  /\ Head(toClient) \in Msg /\ Head(toClient).type = t
         /\ Place(Head(toClient)) = ClientReads
         /\ t = "info" => Head(toClient) = Announced
         /\ conf.encrypted /\ decision # "yes" => t \notin {"data", "yes"}
         /\ toClient' \in Seq(Msg)
         /\ Len(toClient) \in Nat \ {0} /\ Len(toClient') = Len(toClient) - 1
         /\ \A i \in 1..Len(toClient') :
              toClient'[i] = toClient[i + 1] /\ i + 1 \in 1..Len(toClient)
<1> DEFINE m == Head(toClient)
<1>0. TypeOK /\ toClient \in Seq(Msg) /\ toClient # <<>>
  BY DEF IInv, TypeOK, Msg, CliReads
<1>1. m.type = t /\ toClient' = Tail(toClient)
  BY DEF CliReads
<1>2. /\ Len(toClient) \in Nat \ {0} /\ m = toClient[1] /\ m \in Msg
      /\ toClient' \in Seq(Msg) /\ Len(toClient') = Len(toClient) - 1
      /\ \A i \in 1..Len(toClient') :
           toClient'[i] = toClient[i + 1] /\ i + 1 \in 1..Len(toClient)
  BY <1>0, <1>1, TailKeeps
<1> HIDE DEF m
<1>3. 1 \in 1..Len(toClient)
  BY <1>2, SMT
<1>4. ClientReads \in Nat
  BY <1>0, Numbers
<1>5. Place(m) = ClientReads + 1 - 1
  BY <1>2, <1>3 DEF IInv, MessageOrder
<1>6. t = "info" => m = Announced
  BY <1>1, <1>2, <1>3 DEF IInv, ClientOrder
<1>7. conf.encrypted /\ decision # "yes" => t \notin {"data", "yes"}
  BY <1>1, <1>2, <1>3 DEF IInv, NotApproved, ApprovedOnly
<1>8. Place(m) = ClientReads
  BY <1>4, <1>5, SMT
<1> QED
  BY <1>1, <1>2, <1>6, <1>7, <1>8 DEF m

\* What follows it stays in order when the client goes on to the next place.
LEMMA ClientReadsOn ==
  ASSUME IInv, NEW t, CliReads(t), Reading,
         Reading' => /\ ClientReads' = ClientReads + 1
                     /\ conf.encrypted => ClientWrites' = ClientWrites
  PROVE  /\ UNCHANGED <<conf, srv, sent, decision, toServer, link, cut>>
         /\ \A i \in 1..Len(toClient') : \E j \in 1..Len(toClient) : toClient'[i] = toClient[j]
         /\ MessageOrder' /\ ServerOrder'
<1>1. UNCHANGED <<conf, srv, sent, decision, toServer, link, cut>>
  BY DEF CliReads, CliUnchanged, srvVars
<1>2. /\ Len(toClient) \in Nat \ {0} /\ Len(toClient') = Len(toClient) - 1
      /\ \A i \in 1..Len(toClient') :
           toClient'[i] = toClient[i + 1] /\ i + 1 \in 1..Len(toClient)
  BY ClientHead
<1>3. ClientReads \in Nat
  BY Numbers DEF IInv
<1>4. /\ ServerWrites' = ServerWrites /\ ServerReads' = ServerReads
      /\ \A x : Place(x)' = Place(x)
  BY <1>1 DEF ServerWrites, ServerReads, InfoPlace, Place
<1>5. MessageOrder'
  <2>1. ASSUME Reading', NEW i \in 1..Len(toClient')
        PROVE  Place(toClient'[i]) = ClientReads' + i - 1
    <3>1. Place(toClient[i + 1]) = ClientReads + (i + 1) - 1
      BY <1>2, <2>1 DEF IInv, MessageOrder
    <3> QED
      BY <1>2, <1>3, <2>1, <3>1, SMT
  <2>2. Together' => Together /\ Reading'
    BY <1>1 DEF Together
  <2>3. Together' => ClientReads' + Len(toClient') = ServerWrites'
    <3>1. Together => ClientReads + Len(toClient) = ServerWrites
      BY DEF IInv, MessageOrder
    <3> QED
      BY <1>2, <1>3, <1>4, <2>2, <3>1, SMT
  <2>4. Together' /\ conf'.encrypted => ServerReads' + Len(toServer') = ClientWrites'
    BY <1>1, <1>4, <2>2 DEF IInv, MessageOrder
  <2> QED
    BY <1>4, <2>1, <2>3, <2>4 DEF MessageOrder
<1>6. ServerOrder'
  BY <1>1 DEF IInv, ServerOrder
<1> QED
  BY <1>1, <1>2, <1>5, <1>6

\* The client reads the info, a message of the key exchange or the answer.
LEMMA ClientHears ==
  ASSUME IInv, NEW t, CliReads(t), Reading, cli # "copy", disk' = disk,
         info' \in Info \cup {NoInfo},
         \/ cli' = "err"
         \/ /\ cli' \in {"send_e", "send_se", "create"}
            /\ info' = Announced
            /\ cli' # "create" => conf.encrypted
            /\ ClientReads' = ClientReads + 1
            /\ conf.encrypted => ClientWrites' = ClientWrites
            /\ cli' = "create" /\ conf.encrypted => t = "yes"
  PROVE  IInv'
<1> USE DEF CliEnded
<1>1. TypeOK
  BY DEF IInv
<1>2. /\ conf.encrypted /\ decision # "yes" => t \notin {"data", "yes"}
      /\ toClient' \in Seq(Msg)
  BY ClientHead
<1>3. /\ UNCHANGED <<conf, srv, sent, decision, toServer, link, cut>>
      /\ \A i \in 1..Len(toClient') : \E j \in 1..Len(toClient) : toClient'[i] = toClient[j]
      /\ MessageOrder' /\ ServerOrder'
  <2>1. Reading' => /\ ClientReads' = ClientReads + 1
                    /\ conf.encrypted => ClientWrites' = ClientWrites
    BY DEF Reading, CliOpen
  <2> QED
    BY <2>1, ClientReadsOn
<1>4. disk = Old /\ Announced' = Announced
  BY <1>3 DEF IInv, ClientOrder, Announced
<1>5. TypeOK'
  BY <1>1, <1>2, <1>3 DEF TypeOK, Msg
<1>6. ClientOrder'
  BY <1>3, <1>4 DEF IInv, ClientOrder, DiskIsPrefix, CliOpen, Reading
<1>7. NotApproved'
  BY <1>2, <1>3 DEF IInv, NotApproved, ApprovedOnly
<1>8. NothingFailed'
  BY <1>3 DEF IInv, NothingFailed, FileIsSized, CliOpen, Reading
<1> QED
  BY <1>3, <1>5, <1>6, <1>7, <1>8 DEF IInv

\* The invariant is kept when the client takes a message and goes on without sending.
LEMMA ClientHearsStep ==
  ASSUME IInv,
         \/ CliInfo \/ CliByte
         \/ cli = "recv_ee" /\ CliReads("ee") /\ cli' = "send_se" /\ UNCHANGED <<info, disk>>
  PROVE  IInv'
<1> USE DEF CliEnded, Reading, CliOpen
<1>1. TypeOK /\ ClientOrder /\ info \in Info \cup {NoInfo}
  BY DEF IInv, TypeOK
<1>2. \A t : CliReads(t) => conf' = conf
  BY DEF CliReads, CliUnchanged
<1>3. CASE CliInfo
  <2>1. cli = "info" /\ CliReads("info") /\ disk' = disk
    BY <1>3 DEF CliInfo
  <2>2. Head(toClient) = Announced /\ conf' = conf
    BY <1>2, <2>1, ClientHead
  <2>3. CASE cli' = "err" /\ UNCHANGED info
    BY <1>1, <2>1, <2>3, ClientHears
  <2>4. CASE /\ info' = Head(toClient)
             /\ cli' = IF info'.encrypted THEN "send_e" ELSE "create"
    <3>1. info' = Announced /\ cli' = IF conf.encrypted THEN "send_e" ELSE "create"
      BY <2>2, <2>4 DEF Announced
    <3>2. Announced \in Info
      BY <1>1, Messages, SMT DEF Announced, Info, Conf, TypeOK
    <3>3. /\ ClientReads' = ClientReads + 1
          /\ conf.encrypted => ClientWrites' = ClientWrites
      BY <2>1, <2>2, <3>1, SMT DEF ClientReads, ClientWrites, InfoPlace
    <3> QED
      BY <1>1, <2>1, <3>1, <3>2, <3>3, ClientHears
  <2> QED
    BY <1>3, <2>3, <2>4 DEF CliInfo
<1>4. CASE CliByte
  <2>1. cli = "byte" /\ disk' = disk /\ info' = info /\ conf.encrypted /\ info = Announced
    BY <1>1, <1>4 DEF CliByte, ClientOrder
  <2>2. CASE CliReads("yes") /\ cli' = "create"
    <3>1. ClientReads' = ClientReads + 1 /\ ClientWrites' = ClientWrites
      BY <2>1, <2>2, SMT DEF ClientReads, ClientWrites
    <3> QED
      BY <1>1, <2>1, <2>2, <3>1, ClientHears
  <2>3. CASE CliReads("no") /\ cli' = "err"
    BY <1>1, <2>1, <2>3, ClientHears
  <2> QED
    BY <1>4, <2>2, <2>3 DEF CliByte
<1>5. CASE cli = "recv_ee" /\ CliReads("ee") /\ cli' = "send_se" /\ UNCHANGED <<info, disk>>
  <2>1. conf.encrypted /\ info = Announced
    BY <1>1, <1>5 DEF ClientOrder
  <2>2. ClientReads' = ClientReads + 1 /\ ClientWrites' = ClientWrites
    BY <1>5, SMT DEF ClientReads, ClientWrites
  <2> QED
    BY <1>1, <1>5, <2>1, <2>2, ClientHears
<1> QED
  BY <1>3, <1>4, <1>5

\* The client writes "e" or "se": the server has not ended, unless something failed.
LEMMA ClientSendsStep ==
  ASSUME IInv, CliSends("send_e", "e", "recv_ee") \/ CliSends("send_se", "se", "byte")
  PROVE  IInv'
<1> USE DEF CliEnded, SrvEnded
<1>1. PICK m \in {"e", "se"} :
        /\ SendToServer(m)
        /\ \/ m = "e" /\ cli = "send_e" /\ cli' = "recv_ee"
           \/ m = "se" /\ cli = "send_se" /\ cli' = "byte"
        /\ UNCHANGED <<conf, srv, sent, decision, info, disk, cut>>
  BY DEF CliSends, CliUnchanged, srvVars
<1>2. /\ TypeOK /\ ClientOrder /\ toClient \in Seq(Msg) /\ toServer \in Seq({"e", "se"})
      /\ link = "up" /\ conf.encrypted /\ Reading /\ Reading' /\ CliOpen /\ CliOpen'
      /\ cli # "copy" /\ cli' # "copy"
  BY <1>1 DEF IInv, TypeOK, Msg, ClientOrder, SendToServer, Reading, CliOpen
<1>3. /\ ServerWrites \in Nat /\ ServerReads \in Nat /\ ClientWrites \in Nat
      /\ ClientReads \in Nat /\ Len(toClient) \in Nat /\ Len(toServer) \in Nat
  BY <1>2, Numbers
<1>4. /\ ClientReads' = ClientReads /\ ClientWrites' = ClientWrites + 1 /\ ClientWrites <= 2
      /\ ServerWrites' = ServerWrites /\ ServerReads' = ServerReads
      /\ Announced' = Announced /\ \A x : Place(x)' = Place(x)
  <2>1. /\ ServerWrites' = ServerWrites /\ ServerReads' = ServerReads
        /\ Announced' = Announced /\ \A x : Place(x)' = Place(x)
    BY <1>1 DEF ServerWrites, ServerReads, Announced, InfoPlace, Place
  <2>2. ClientReads' = ClientReads /\ ClientWrites' = ClientWrites + 1 /\ ClientWrites <= 2
    BY <1>1, SMT DEF ClientReads, ClientWrites
  <2> QED
    BY <2>1, <2>2
<1>5. ServerOrder'
  BY <1>1 DEF IInv, ServerOrder
<1>6. /\ toClient' \in Seq(Msg) /\ toServer' \in Seq({"e", "se"})
      /\ \A i \in 1..Len(toClient') : i \in 1..Len(toClient) /\ toClient'[i] = toClient[i]
      /\ \/ /\ SrvOpen /\ link' = "up" /\ toClient' = toClient
            /\ Len(toServer') = Len(toServer) + 1
         \/ ~SrvOpen /\ link' = "reset"
  <2>1. CASE SrvOpen
    <3>1. toServer' = Append(toServer, m) /\ UNCHANGED <<toClient, link>>
      BY <1>1, <2>1 DEF SendToServer
    <3> QED
      BY <1>2, <2>1, <3>1, AppendKeeps
  <2>2. CASE ~SrvOpen
    <3>1. PICK n \in 0..Len(toClient) : toClient' = SubSeq(toClient, 1, n)
      BY <1>1, <2>2 DEF SendToServer
    <3>2. /\ toClient' \in Seq(Msg) /\ Len(toClient') = n
          /\ \A i \in 1..n : toClient'[i] = toClient[i] /\ i \in 1..Len(toClient)
      BY <1>2, <3>1, PrefixKeeps
    <3>3. toServer' = <<>> /\ link' = "reset"
      BY <1>1, <2>2 DEF SendToServer
    <3>4. toServer' \in Seq({"e", "se"})
      BY <3>3, EmptySeq
    <3> QED
      BY <2>2, <3>2, <3>3, <3>4
  <2> QED
    BY <2>1, <2>2
<1>7. TypeOK'
  BY <1>1, <1>2, <1>6 DEF TypeOK, Msg
<1>8. MessageOrder'
  <2>1. \A i \in 1..Len(toClient') : Place(toClient'[i]) = ClientReads + i - 1
    BY <1>2, <1>6 DEF IInv, MessageOrder
  <2>2. CASE link' = "reset"
    BY <1>4, <2>1, <2>2 DEF MessageOrder, Together
  <2>3. CASE SrvOpen /\ link' = "up" /\ toClient' = toClient /\ Len(toServer') = Len(toServer) + 1
    <3>1. Together' => Together
      BY <1>1, <1>2 DEF Together
    <3>2. Together => /\ ClientReads + Len(toClient) = ServerWrites
                      /\ ServerReads + Len(toServer) = ClientWrites
      BY <1>2 DEF IInv, MessageOrder
    <3>3. Together' => /\ ClientReads' + Len(toClient') = ServerWrites'
                       /\ ServerReads' + Len(toServer') = ClientWrites'
      BY <1>3, <1>4, <2>3, <3>1, <3>2, SMT
    <3> QED
      BY <1>4, <2>1, <3>3 DEF MessageOrder
  <2> QED
    BY <1>6, <2>2, <2>3
<1>9. ClientOrder'
  <2>1. \A i \in 1..Len(toClient') :
          toClient'[i].type = "info" => toClient'[i] = Announced'
    BY <1>2, <1>4, <1>6 DEF ClientOrder
  <2>2. info' = Announced' /\ conf'.encrypted /\ disk' = Old /\ DiskIsPrefix'
    BY <1>1, <1>2, <1>4 DEF ClientOrder, DiskIsPrefix
  <2> QED
    BY <1>1, <2>1, <2>2 DEF ClientOrder
<1>10. NotApproved'
  BY <1>1, <1>6 DEF IInv, NotApproved, ApprovedOnly
<1>11. NothingFailed'
  <2>1. ~cut => SrvOpen
    <3> SUFFICES ASSUME ~cut, ~SrvOpen PROVE FALSE
      OBVIOUS
    <3>1. srv \in {"served", "rejected"}
      BY <1>2 DEF IInv, NothingFailed, SrvOpen
    <3>2. Together
      BY <1>2, <3>1 DEF Together
    <3>3. ServerReads = 3
      BY <3>1 DEF ServerReads
    <3>4. ServerReads + Len(toServer) = ClientWrites
      BY <1>2, <3>2 DEF IInv, MessageOrder
    <3> QED
      BY <1>3, <1>4, <3>3, <3>4, SMT
  <2>2. ~cut' => link' = "up"
    BY <1>1, <1>6, <2>1
  <2> QED
    BY <1>1, <1>2, <2>2 DEF IInv, NothingFailed, FileIsSized
<1> QED
  BY <1>5, <1>7, <1>8, <1>9, <1>10, <1>11 DEF IInv

-----------------------------------------------------------------------------
(* The client's file *)

\* A sequence whose element i is i is the start of the served file, and so is what
\* set_len makes of it, with zeros behind it.
LEMMA StartOfFile ==
  ASSUME NEW d \in Seq(0..MaxChunks), \A i \in 1..Len(d) : d[i] = i
  PROVE  \E n \in 0..Len(d) : d = [i \in 1..Len(d) |-> IF i <= n THEN i ELSE Zeros]
<1>0. Len(d) \in Nat /\ d \in [1..Len(d) -> 0..MaxChunks]
  BY LenProperties
<1>1. Len(d) \in 0..Len(d) /\ d \in [1..Len(d) -> 0..MaxChunks]
  BY <1>0, SMT
<1>2. d = [i \in 1..Len(d) |-> IF i <= Len(d) THEN i ELSE Zeros]
  BY <1>1, SMT
<1> QED
  BY <1>1, <1>2

\* A file set to a length holds what it held, up to there, and zeros behind it.
LEMMA ResizedFile ==
  ASSUME NEW n \in 0..MaxChunks, MaxChunks \in Nat,
         disk \in Seq(0..MaxChunks), \A i \in 1..Len(disk) : disk[i] = i
  PROVE  /\ Resized(n) \in Seq(0..MaxChunks)
         /\ Resized(n) = [i \in 1..n |-> IF i <= Len(disk) THEN i ELSE Zeros]
         /\ \E k \in 0..Len(Resized(n)) :
              Resized(n) = [i \in 1..Len(Resized(n)) |-> IF i <= k THEN i ELSE Zeros]
<1>1. Len(disk) \in Nat /\ n \in Nat
  BY LenProperties, SMT
<1>2. Resized(n) = [i \in 1..n |-> IF i <= Len(disk) THEN i ELSE Zeros]
  BY <1>1, SMT DEF Resized
<1>3. \A i \in 1..n : (IF i <= Len(disk) THEN i ELSE Zeros) \in 0..MaxChunks
  BY <1>1, SMT DEF Zeros
<1>4. Resized(n) \in [1..n -> 0..MaxChunks]
  BY <1>2, <1>3
<1>5. Resized(n) \in Seq(0..MaxChunks)
  BY <1>1, <1>4, SeqDef
<1>6. Len(Resized(n)) = n
  BY <1>1, <1>4, <1>5, LenProperties, SMT
<1> DEFINE k == IF n < Len(disk) THEN n ELSE Len(disk)
<1>7. k \in 0..n /\ \A i \in 1..n : i <= k <=> i <= Len(disk)
  BY <1>1, SMT
<1> HIDE DEF k
<1>8. Resized(n) = [i \in 1..n |-> IF i <= k THEN i ELSE Zeros]
  BY <1>2, <1>7
<1> QED
  BY <1>2, <1>5, <1>6, <1>7, <1>8

\* A chunk that is read is the next one of the file.
LEMMA ClientCopiesStep == IInv /\ CliCopy => IInv'
<1> SUFFICES ASSUME IInv, CliCopy PROVE IInv'
  OBVIOUS
<1> USE DEF CliEnded
<1> DEFINE m == Head(toClient)
<1>1. /\ cli = "copy" /\ CliReads("data") /\ disk' = Append(disk, m.chunk)
      /\ cli' = cli /\ info' = info /\ Reading /\ Reading'
  BY DEF CliCopy, Reading, CliOpen
<1>2. /\ TypeOK /\ ClientOrder /\ disk \in Seq(0..MaxChunks) /\ MaxChunks \in Nat
      /\ \A i \in 1..Len(disk) : disk[i] = i
  BY <1>1, BoundsAssumption DEF IInv, ClientOrder
<1>3. /\ m \in Msg /\ m.type = "data" /\ Place(m) = ClientReads /\ toClient' \in Seq(Msg)
      /\ conf.encrypted => decision = "yes"
  BY <1>1, ClientHead
<1>4. m.chunk \in 1..MaxChunks
  BY <1>3, SMT DEF Msg, Info, Data, Signal
<1>5. m.chunk = Len(disk) + 1
  <2>1. Place(m) = 3 + m.chunk /\ ClientReads = 4 + Len(disk) /\ Len(disk) \in Nat
    BY <1>1, <1>2, <1>3, Numbers DEF Place, ClientReads
  <2> QED
    BY <1>3, <1>4, <2>1, SMT
<1> HIDE DEF m
<1>6. /\ disk' \in Seq(0..MaxChunks) /\ Len(disk) \in Nat /\ Len(disk') = Len(disk) + 1
      /\ \A i \in 1..Len(disk') : disk'[i] = i
  <2>1. m.chunk \in 0..MaxChunks
    BY <1>2, <1>4, SMT
  <2>2. /\ disk' \in Seq(0..MaxChunks) /\ Len(disk) \in Nat /\ Len(disk') = Len(disk) + 1
        /\ disk'[Len(disk) + 1] = m.chunk
        /\ \A i \in 1..Len(disk) : disk'[i] = disk[i]
    BY <1>1, <1>2, <2>1, AppendKeeps
  <2>3. \A i \in 1..Len(disk') : i \in 1..Len(disk) \/ i = Len(disk) + 1
    BY <2>2, SMT
  <2> QED
    BY <1>2, <1>5, <2>2, <2>3
<1>7. /\ UNCHANGED <<conf, srv, sent, decision, toServer, link, cut>>
      /\ \A i \in 1..Len(toClient') : \E j \in 1..Len(toClient) : toClient'[i] = toClient[j]
      /\ MessageOrder' /\ ServerOrder'
  <2>1. ClientReads' = ClientReads + 1 /\ ClientWrites' = ClientWrites
    BY <1>1, <1>6, SMT DEF ClientReads, ClientWrites
  <2> QED
    BY <1>1, <2>1, ClientReadsOn
<1>8. TypeOK'
  BY <1>1, <1>2, <1>3, <1>6, <1>7 DEF TypeOK, Msg
<1>9. ClientOrder'
  <2>1. DiskIsPrefix'
    BY <1>6, StartOfFile DEF DiskIsPrefix
  <2>2. Announced' = Announced
    BY <1>7 DEF Announced
  <2> QED
    BY <1>1, <1>2, <1>6, <1>7, <2>1, <2>2 DEF ClientOrder, CliOpen
<1>10. NotApproved'
  <2>1. conf.encrypted => decision = "yes"
    BY <1>3
  <2> QED
    BY <1>7, <2>1 DEF NotApproved, ApprovedOnly
<1>11. NothingFailed'
  BY <1>1, <1>7 DEF IInv, NothingFailed, FileIsSized, CliOpen
<1> QED
  BY <1>7, <1>8, <1>9, <1>10, <1>11 DEF IInv

\* set_len after a copy in which nothing failed cuts or fills up the whole file.
LEMMA ClientFinishesStep == IInv /\ CliFinish => IInv'
<1> SUFFICES ASSUME IInv, CliFinish PROVE IInv'
  OBVIOUS
<1> USE DEF CliEnded, CliOpen, Reading
<1>1. /\ cli = "finish" /\ cli' \in {"ok", "err"}
      /\ UNCHANGED <<conf, srv, sent, decision, toServer, toClient, link, info>>
      /\ \/ cli' = "ok" /\ disk' = Resized(info.size) /\ cut' = cut
         \/ cli' = "err" /\ cut' = TRUE /\ disk' = disk
  BY DEF CliFinish, srvVars, netVars
<1>2. /\ TypeOK /\ ClientOrder /\ info = Announced /\ disk \in Seq(0..MaxChunks)
      /\ \A i \in 1..Len(disk) : disk[i] = i
      /\ conf.size \in 0..MaxChunks /\ MaxChunks \in Nat
  BY <1>1, Numbers DEF IInv, ClientOrder
<1>3. info.size = conf.size
  BY <1>2 DEF Announced
<1>4. /\ Resized(conf.size) \in Seq(0..MaxChunks)
      /\ Resized(conf.size) = [i \in 1..conf.size |-> IF i <= Len(disk) THEN i ELSE Zeros]
      /\ \E k \in 0..Len(Resized(conf.size)) :
           Resized(conf.size) = [i \in 1..Len(Resized(conf.size)) |-> IF i <= k THEN i ELSE Zeros]
  BY <1>2, ResizedFile
<1>5. TypeOK'
  BY <1>1, <1>2, <1>3, <1>4 DEF TypeOK
<1>6. ServerOrder' /\ MessageOrder'
  BY <1>1 DEF IInv, ServerOrder, MessageOrder, Together
<1>7. ClientOrder'
  <2>1. DiskIsPrefix'
    <3>1. CASE disk' = disk
      BY <1>2, <3>1 DEF ClientOrder, DiskIsPrefix
    <3>2. CASE disk' = Resized(conf.size)
      BY <1>4, <3>2 DEF DiskIsPrefix
    <3> QED
      BY <1>1, <1>3, <3>1, <3>2
  <2> QED
    BY <1>1, <1>2, <2>1 DEF ClientOrder, Announced
<1>8. NotApproved'
  BY <1>1 DEF IInv, NotApproved, ApprovedOnly
<1>9. NothingFailed'
  <2>1. ~cut => Len(disk) = conf.length
    BY <1>1 DEF IInv, NothingFailed
  <2>2. FileIsSized'
    BY <1>1, <1>3, <1>4, <2>1 DEF FileIsSized
  <2> QED
    BY <1>1, <2>2 DEF IInv, NothingFailed
<1> QED
  BY <1>5, <1>6, <1>7, <1>8, <1>9 DEF IInv

\* The end of the stream: when nothing failed the server has sent the whole file
\* and the client has read it.
LEMMA WholeFile ==
  ASSUME IInv, CliCopyEnd, ~cut
  PROVE  Len(disk) = conf.length
<1>1. TypeOK /\ cli = "copy" /\ toClient = <<>> /\ (link = "reset" \/ ~SrvOpen)
  BY DEF IInv, CliCopyEnd, ClientAtEnd
<1>2. CliOpen /\ Reading /\ link = "up" /\ srv \notin {"err", "gone"}
  BY <1>1 DEF IInv, NothingFailed, CliOpen, CliEnded, Reading
<1>3. srv \in {"served", "rejected"}
  BY <1>1, <1>2 DEF SrvOpen, SrvEnded
<1>4. srv = "served" /\ sent = conf.length
  <2>1. srv # "rejected"
    BY <1>1 DEF IInv, ServerOrder, NotApproved
  <2> QED
    BY <1>3, <2>1 DEF IInv, ServerOrder
<1>5. ClientReads + Len(toClient) = ServerWrites
  BY <1>2 DEF IInv, MessageOrder, Together
<1>6. ClientReads = 4 + Len(disk) /\ ServerWrites = 4 + sent /\ Len(toClient) = 0
  BY <1>1, <1>4, EmptySeq DEF ClientReads, ServerWrites
<1> QED
  BY <1>1, <1>4, <1>5, <1>6, Numbers, SMT

\* The client's other steps leave the messages alone.
LEMMA ClientOtherStep ==
  ASSUME IInv, CliCreate \/ CliCopyEnd \/ CliCopyStops \/ CliFails \/ CliLeaves
  PROVE  IInv'
<1> USE DEF CliEnded
<1>1. /\ UNCHANGED <<conf, srv, sent, decision, toServer, toClient, link, info>>
      /\ cut' \in BOOLEAN /\ (cut => cut')
      /\ \/ cli = "create" /\ cli' = "copy" /\ disk' = <<>>
         \/ cli = "copy" /\ cli' = "finish" /\ disk' = disk /\ (cut' \/ CliCopyEnd)
         \/ cli' \in {"err", "panic", "gone"} /\ disk' = disk
  BY DEF IInv, TypeOK, CliCreate, CliCopyEnd, CliCopyStops, CliFails, CliLeaves, srvVars, netVars
<1>2. TypeOK /\ ClientOrder /\ cli # "gone" /\ <<>> \in Seq(0..MaxChunks) /\ Len(<<>>) = 0
  BY EmptySeq DEF IInv, CliCreate, CliCopyEnd, CliCopyStops, CliFails, CliLeaves, CliOpen
<1>3. TypeOK'
  BY <1>1, <1>2 DEF TypeOK
<1>4. /\ ServerWrites' = ServerWrites /\ ServerReads' = ServerReads
      /\ Announced' = Announced /\ \A x : Place(x)' = Place(x)
  BY <1>1 DEF ServerWrites, ServerReads, Announced, InfoPlace, Place
<1>5. ServerOrder'
  BY <1>1 DEF IInv, ServerOrder
<1>6. MessageOrder'
  <2>1. CASE cli = "create" /\ cli' = "copy" /\ disk' = <<>>
    <3>1. ClientReads' = ClientReads /\ ClientWrites' = ClientWrites
      BY <1>2, <2>1, SMT DEF ClientReads, ClientWrites
    <3>2. Reading /\ Reading' /\ Together' = Together
      BY <1>1, <2>1 DEF Reading, Together, CliOpen
    <3> QED
      BY <1>1, <1>4, <3>1, <3>2 DEF IInv, MessageOrder
  <2>2. CASE cli' \in {"finish", "err", "panic", "gone"}
    BY <2>2 DEF MessageOrder, Together, Reading, CliOpen
  <2> QED
    BY <1>1, <2>1, <2>2
<1>7. ClientOrder'
  <2>1. CASE cli = "create" /\ cli' = "copy" /\ disk' = <<>>
    <3>1. DiskIsPrefix'
      BY <1>2, <2>1, StartOfFile, SMT DEF DiskIsPrefix
    <3> QED
      BY <1>1, <1>2, <1>4, <2>1, <3>1, SMT DEF ClientOrder, CliOpen
  <2>2. CASE disk' = disk /\ cli' \in {"finish", "err", "panic", "gone"}
    <3>1. CliOpen' => cli = "copy"
      BY <1>1, <2>2 DEF CliOpen
    <3> QED
      BY <1>1, <1>2, <1>4, <2>2, <3>1 DEF ClientOrder, DiskIsPrefix, CliOpen, Reading
  <2> QED
    BY <1>1, <2>1, <2>2
<1>8. NotApproved'
  BY <1>1 DEF IInv, NotApproved, ApprovedOnly
<1>9. NothingFailed'
  <2>1. CliOpen' => CliOpen
    BY <1>1 DEF CliOpen
  <2>2. ~cut' /\ cli' = "finish" => Len(disk') = conf'.length
    BY <1>1, WholeFile
  <2>3. cli' # "ok"
    BY <1>1
  <2> QED
    BY <1>1, <2>1, <2>2, <2>3 DEF IInv, NothingFailed, FileIsSized
<1> QED
  BY <1>3, <1>5, <1>6, <1>7, <1>8, <1>9 DEF IInv

-----------------------------------------------------------------------------
(* The connection *)

\* A reset loses the end of what is on its way, never its middle.
LEMMA ResetStep == IInv /\ Reset => IInv'
<1> SUFFICES ASSUME IInv, Reset PROVE IInv'
  OBVIOUS
<1>1. /\ TypeOK /\ toClient \in Seq(Msg) /\ toServer \in Seq({"e", "se"})
      /\ link' = "reset" /\ cut' = TRUE
      /\ UNCHANGED <<conf, srv, sent, decision, cli, info, disk>>
  BY DEF IInv, TypeOK, Msg, Reset, srvVars, cliVars
<1>2. PICK n \in 0..Len(toClient) : toClient' = SubSeq(toClient, 1, n)
  BY DEF Reset
<1>3. PICK k \in 0..Len(toServer) : toServer' = SubSeq(toServer, 1, k)
  BY DEF Reset
<1>4. /\ toClient' \in Seq(Msg) /\ toServer' \in Seq({"e", "se"})
      /\ \A i \in 1..Len(toClient') : i \in 1..Len(toClient) /\ toClient'[i] = toClient[i]
  BY <1>1, <1>2, <1>3, PrefixKeeps
<1>5. /\ ClientReads' = ClientReads /\ Announced' = Announced
      /\ CliOpen' = CliOpen /\ Reading' = Reading
      /\ \A x : Place(x)' = Place(x)
  BY <1>1 DEF ClientReads, Announced, InfoPlace, Place, CliOpen, Reading
<1>6. TypeOK'
  BY <1>1, <1>4 DEF TypeOK, Msg
<1>7. MessageOrder'
  BY <1>1, <1>4, <1>5 DEF IInv, MessageOrder, Together
<1>8. ServerOrder'
  BY <1>1 DEF IInv, ServerOrder
<1>9. ClientOrder'
  BY <1>1, <1>4, <1>5 DEF IInv, ClientOrder, DiskIsPrefix
<1>10. NotApproved'
  BY <1>1, <1>4 DEF IInv, NotApproved, ApprovedOnly
<1>11. NothingFailed'
  BY <1>1 DEF NothingFailed
<1> QED
  BY <1>6, <1>7, <1>8, <1>9, <1>10, <1>11 DEF IInv

\* Nothing happens.
LEMMA Stutter == IInv /\ UNCHANGED vars => IInv'
<1> SUFFICES ASSUME IInv, UNCHANGED vars PROVE IInv'
  OBVIOUS
<1>1. UNCHANGED <<conf, srv, sent, decision, toServer, toClient, link, cli, info, disk, cut>>
  BY DEF vars, srvVars, netVars, cliVars
<1>2. TypeOK'
  BY <1>1 DEF IInv, TypeOK
<1>3. MessageOrder'
  BY <1>1 DEF IInv, MessageOrder, Together, Reading, CliOpen, Place, InfoPlace,
     ClientReads, ClientWrites, ServerReads, ServerWrites
<1>4. ServerOrder' /\ NotApproved' /\ NothingFailed'
  BY <1>1 DEF IInv, ServerOrder, NotApproved, NothingFailed, ApprovedOnly, FileIsSized, CliOpen
<1>5. ClientOrder'
  BY <1>1 DEF IInv, ClientOrder, DiskIsPrefix, CliOpen, Reading, Announced
<1> QED
  BY <1>2, <1>3, <1>4, <1>5 DEF IInv

-----------------------------------------------------------------------------
(* Theorems *)

\* IInv holds in every state of a download.
THEOREM InductiveInvariant == Spec => []IInv
<1>1. IInv /\ [Next]_vars => IInv'
  <2>1. IInv /\ CliStep => IInv'
    BY ClientHearsStep, ClientSendsStep, ClientCopiesStep, ClientFinishesStep,
       ClientOtherStep DEF CliStep, CliHandshake
  <2> QED
    BY <2>1, ServerStep, ClientOtherStep, ResetStep, Stutter DEF Next
<1> QED
  BY InitIInv, <1>1, PTL DEF Spec

\* Every reachable state is well typed.
THEOREM TypeCorrect == Spec => []TypeOK
  BY InductiveInvariant, PTL DEF IInv

\* Nothing of an encrypted file is on its way, and nothing on the client's disk is
\* touched, before the operator has approved the client.
THEOREM Approved == Spec => []ApprovedOnly
<1>1. IInv => ApprovedOnly
  BY DEF IInv, NotApproved
<1> QED
  BY <1>1, InductiveInvariant, PTL

\* Whatever fails, the client's file is the old one or the start of the served one,
\* filled up with zeros.
THEOREM PrefixOnDisk == Spec => []DiskIsPrefix
<1>1. IInv => DiskIsPrefix
  BY DEF IInv, ClientOrder
<1> QED
  BY <1>1, InductiveInvariant, PTL

\* A download in which nothing failed leaves the served file on the disk exactly when
\* the file has kept the length it had when the server started.
THEOREM Served == Spec => []FileIsServed
<1>1. ASSUME IInv PROVE FileIsServed
  <2>1. SUFFICES ASSUME cli = "ok", ~cut PROVE disk = ServedFile <=> conf.size = conf.length
    BY DEF FileIsServed
  <2>2. disk = [i \in 1..conf.size |-> IF i <= conf.length THEN i ELSE Zeros]
    BY <1>1, <2>1 DEF IInv, NothingFailed, FileIsSized
  <2>3. conf.size \in Nat /\ conf.length \in Nat
    BY <1>1, BoundsAssumption, SMT DEF IInv, TypeOK, Conf
  <2>4. ASSUME conf.size = conf.length PROVE disk = ServedFile
    <3>1. \A i \in 1..conf.size : (IF i <= conf.length THEN i ELSE Zeros) = i
      BY <2>3, <2>4, SMT
    <3> QED
      BY <2>2, <2>4, <3>1 DEF ServedFile
  <2>5. ASSUME disk = ServedFile PROVE conf.size = conf.length
    <3>1. 1..conf.size = 1..conf.length
      BY <2>2, <2>5 DEF ServedFile
    <3> QED
      BY <2>3, <3>1, SMT
  <2> QED
    BY <2>4, <2>5
<1> QED
  BY <1>1, InductiveInvariant, PTL

\* The two sides never wait for each other.
THEOREM NoDeadlock == Spec => []NoMutualWait
<1>1. IInv => NoMutualWait
  <2> SUFFICES ASSUME IInv, link = "up", SrvOpen, CliOpen,
                      srv \in {"recv_e", "recv_se"}, toServer = <<>>,
                      cli \in {"info", "recv_ee", "byte", "copy"}, toClient = <<>>
               PROVE  FALSE
    BY DEF NoMutualWait
  <2>1. Together /\ conf.encrypted
    BY DEF IInv, ServerOrder, Together, Reading, CliOpen
  <2>2. /\ ClientReads + Len(toClient) = ServerWrites
        /\ ServerReads + Len(toServer) = ClientWrites
    BY <2>1 DEF IInv, MessageOrder
  <2>3. Len(toClient) = 0 /\ Len(toServer) = 0 /\ Len(disk) \in Nat
    BY EmptySeq, Numbers DEF IInv
  <2> QED
    BY <2>1, <2>2, <2>3, SMT
    DEF ClientReads, ServerWrites, ServerReads, ClientWrites, InfoPlace
<1> QED
  BY <1>1, InductiveInvariant, PTL

\* A client that cannot read the info does not get past it.
StopsAtInfo ==
  conf.name \in 237..255 => cli \in {"info", "err", "gone"} /\ disk = Old

\* A file whose name has more than 236 of the 255 bytes it may have is never fetched:
\* the length byte before the info has wrapped (models.rs), and the client ends before
\* it has touched its disk.
THEOREM LongNamesUnfetched ==
  Spec => [](conf.name \in 237..255 => cli # "ok" /\ disk = Old)
<1>1. Init => StopsAtInfo
  BY DEF Init, StopsAtInfo
<1>2. StopsAtInfo /\ [Next]_vars => StopsAtInfo'
  <2> SUFFICES ASSUME StopsAtInfo, [Next]_vars PROVE StopsAtInfo'
    OBVIOUS
  <2>1. CASE SrvStep \/ SrvDecide \/ SrvLeaves \/ Reset \/ UNCHANGED vars
    <3>1. UNCHANGED <<conf, cli, disk>>
      BY <2>1
      DEF SrvStep, SrvInfo, SrvHandshake, SrvDecide, SrvAnswer, SrvCopy, SrvCopyEnd,
          SrvFails, SrvLeaves, SrvSends, SrvReads, SrvUnchanged, Reset, vars, cliVars
    <3> QED
      BY <3>1 DEF StopsAtInfo
  <2>2. CASE CliStep \/ CliCopyStops \/ CliLeaves
    <3>1. conf' = conf
      BY <2>2
      DEF CliStep, CliCopyStops, CliLeaves, CliInfo, CliHandshake, CliByte, CliCreate,
          CliCopy, CliCopyEnd, CliFinish, CliFails, CliSends, CliReads, CliUnchanged
    <3> SUFFICES ASSUME conf.name \in 237..255
                 PROVE  cli' \in {"info", "err", "gone"} /\ disk' = Old
      BY <3>1 DEF StopsAtInfo
    <3>2. ~InfoReadable(conf.name)
      BY SMT DEF InfoReadable, LengthByte, InfoLen
    <3>3. cli \in {"info", "err", "gone"} /\ disk = Old
      BY DEF StopsAtInfo
    <3> QED
      BY <2>2, <3>2, <3>3
      DEF CliStep, CliCopyStops, CliLeaves, CliInfo, CliHandshake, CliByte, CliCreate,
          CliCopy, CliCopyEnd, CliFinish, CliFails, CliSends, CliReads, CliUnchanged
  <2> QED
    BY <2>1, <2>2 DEF Next
<1>3. StopsAtInfo => (conf.name \in 237..255 => cli # "ok" /\ disk = Old)
  BY DEF StopsAtInfo
<1> QED
  BY <1>1, <1>2, <1>3, PTL DEF Spec

-----------------------------------------------------------------------------
(* The server's side implements Connections *)

\* The steps of the server that a promised connection takes, one stage to another.
Forward(from, to) ==
  \/ from = "info" /\ to = IF conf.encrypted THEN "handshake" ELSE "streaming"
  \/ from = "handshake" /\ to = "approval"
  \/ from = "approval" /\ to \in {"approved", "denied"}
  \/ from = "approved" /\ to = "streaming"
  \/ from = "denied" /\ to = "rejected"
  \/ from = "streaming" /\ to = "served"
  \/ from \notin {"served", "rejected", "failed"} /\ to = "failed"

\* Every step moves the connection forward or leaves it where it is.
LEMMA StageMoves ==
  ASSUME IInv, [Next]_vars
  PROVE  conf' = conf /\ (Stage' = Stage \/ Forward(Stage, Stage'))
<1> USE DEF Stage, SrvEnded
<1>1. TypeOK /\ ServerOrder
  BY DEF IInv
<1>2. CASE SrvInfo
  <2>1. srv = "info" /\ srv' = (IF conf.encrypted THEN "recv_e" ELSE "copy") /\ conf' = conf
    BY <1>2 DEF SrvInfo, SrvSends, SrvUnchanged
  <2> QED
    BY <2>1 DEF Forward
<1>3. CASE SrvHandshake
  <2>1. /\ conf' = conf
        /\ \/ srv = "recv_e" /\ srv' = "send_ee"
           \/ srv = "send_ee" /\ srv' = "recv_se"
           \/ srv = "recv_se" /\ srv' = "approval"
    BY <1>3 DEF SrvHandshake, SrvReads, SrvSends, SrvUnchanged
  <2> QED
    BY <2>1 DEF Forward
<1>4. CASE SrvDecide
  <2>1. /\ conf' = conf /\ srv = "approval"
        /\ \/ srv' = "answer" /\ decision' \in {"yes", "no"}
           \/ srv' = "err"
    BY <1>4 DEF SrvDecide
  <2> QED
    BY <2>1 DEF Forward
<1>5. CASE SrvAnswer
  <2>1. /\ conf' = conf /\ srv = "answer"
        /\ srv' = IF decision = "yes" THEN "copy" ELSE "rejected"
    BY <1>5 DEF SrvAnswer, SrvSends, SrvUnchanged
  <2> QED
    BY <2>1 DEF Forward
<1>6. CASE SrvCopy \/ SrvCopyEnd
  <2>1. conf' = conf /\ srv = "copy" /\ srv' \in {"copy", "served"}
    BY <1>6 DEF SrvCopy, SrvCopyEnd
  <2> QED
    BY <2>1 DEF Forward
<1>7. CASE SrvFails \/ SrvLeaves
  <2>1. conf' = conf /\ srv \notin SrvEnded /\ srv' \in {"err", "gone"}
    BY <1>7 DEF SrvFails, SrvLeaves, SrvOpen
  <2>2. Stage \notin {"served", "rejected", "failed"} /\ Stage' = "failed"
    BY <1>1, <2>1 DEF TypeOK
  <2> QED
    BY <2>1, <2>2 DEF Forward
<1>8. CASE CliStep \/ CliCopyStops \/ CliLeaves \/ Reset \/ UNCHANGED vars
  <2>1. UNCHANGED <<conf, srv, decision>>
    BY <1>8 DEF CliStep, CliInfo, CliHandshake, CliByte, CliCreate, CliCopy, CliCopyEnd,
       CliCopyStops, CliFinish, CliFails, CliLeaves, Reset, CliReads, CliSends,
       CliUnchanged, srvVars, vars
  <2> QED
    BY <2>1
<1> QED
  BY <1>2, <1>3, <1>4, <1>5, <1>6, <1>7, <1>8 DEF Next, SrvStep

\* A step forward is one of the promised ones.
LEMMA ForwardIsPromised ==
  ASSUME conf' = conf, Forward(Stage, Stage')
  PROVE  Conns!Next
<1> DEFINE s == [c \in {"client"} |-> Stage]
<1>1. s["client"] = Stage /\ s' = [s EXCEPT !["client"] = Stage']
  OBVIOUS
<1>2. \A from, to : Stage = from /\ Stage' = to => Conns!Moves("client", from, to)
  BY <1>1 DEF Conns!Moves
<1> HIDE DEF s
<1>3. CASE Stage = "info" /\ Stage' = IF conf.encrypted THEN "handshake" ELSE "streaming"
  BY <1>2, <1>3 DEF Conns!Next, Conns!Begin
<1>4. CASE Stage = "handshake" /\ Stage' = "approval"
  BY <1>2, <1>4 DEF Conns!Next, Conns!Submit
<1>5. CASE Stage = "approval" /\ Stage' \in {"approved", "denied"}
  BY <1>2, <1>5 DEF Conns!Next, Conns!Decide
<1>6. CASE \/ Stage = "approved" /\ Stage' = "streaming"
           \/ Stage = "denied" /\ Stage' = "rejected"
  BY <1>2, <1>6 DEF Conns!Next, Conns!Answer
<1>7. CASE Stage = "streaming" /\ Stage' = "served"
  BY <1>2, <1>7 DEF Conns!Next, Conns!Finish
<1>8. CASE Stage \notin {"served", "rejected", "failed"} /\ Stage' = "failed"
  <2> DEFINE C == {"client"}
  <2>1. /\ C \in SUBSET {"client"}
        /\ \A c \in C : [d \in {"client"} |-> Stage][c] \notin Conns!Ended
        /\ [d \in {"client"} |-> Stage]' =
             [c \in {"client"} |-> IF c \in C THEN "failed" ELSE [d \in {"client"} |-> Stage][c]]
    BY <1>8 DEF Conns!Ended
  <2>2. Conns!Fail
    BY <2>1 DEF Conns!Fail
  <2> QED
    BY <2>2 DEF Conns!Next
<1> QED
  BY <1>3, <1>4, <1>5, <1>6, <1>7, <1>8 DEF Forward

\* The server's side of a download goes through the stages that Connections promises.
THEOREM ConnectionImplemented == Spec => ImplementsConnection
<1>1. Init => Conns!Init
  <2> SUFFICES ASSUME Init PROVE Conns!Init
    OBVIOUS
  <2>1. Stage = "info" /\ conf.encrypted \in BOOLEAN
    BY DEF Init, Stage, Conf, SrvEnded
  <2> QED
    BY <2>1 DEF Conns!Init
<1>2. IInv /\ [Next]_vars => [Conns!Next]_Conns!vars
  BY StageMoves, ForwardIsPromised DEF Conns!vars
<1> QED
  BY <1>1, <1>2, InductiveInvariant, PTL DEF Spec, ImplementsConnection, Conns!Spec
=============================================================================
