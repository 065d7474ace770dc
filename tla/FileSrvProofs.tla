--------------------------- MODULE FileSrvProofs ---------------------------
(***************************************************************************)
(* Proofs about FileSrv for any set of clients: its inductive invariant    *)
(* IInv, one lemma per part, and the safety properties that follow.        *)
(***************************************************************************)
EXTENDS FileSrv, TLAPS

-----------------------------------------------------------------------------
(* Types *)

\* Every step keeps each variable in its type.
LEMMA TypeOKStep == TypeOK /\ [Next]_vars => TypeOK'
<1> SUFFICES ASSUME TypeOK, [Next]_vars PROVE TypeOK'
  OBVIOUS
<1> USE DEF TypeOK, Conf, SrvState, DataState, ConnState, Stopped, DataEnded,
            TaskEnded, TaskLive, NotTaken, uiVars
<1>1. CASE ServeStart
  <2>1. rawmode' \in BOOLEAN
    BY <1>1 DEF ServeStart
  <2> QED BY <1>1, <2>1, SMT DEF ServeStart
<1>2. CASE ServeLog \/ ServeSpawn \/ ServeCheck \/ ServeTimeout \/ ServeRecvErr
  BY <1>2, SMT DEF ServeLog, ServeSpawn, ServeCheck, ServeTimeout, ServeRecvErr
<1>3. CASE ServeHolepunch \/ ServeNgrok \/ ServeMap \/ ServeRelease
  <2>1. tunnel' \in BOOLEAN
    BY <1>3 DEF ServeHolepunch, ServeNgrok, ServeMap, ServeRelease, ReleaseNgrok,
       ReleaseMapping
  <2>2. srv' \in SrvState
    BY <1>3 DEF ServeHolepunch, ServeNgrok, ServeMap, ServeRelease, ReleaseNgrok,
       ReleaseMapping
  <2>3. UNCHANGED <<conf, shutdown, data, cur, conn, pings, uiVars>>
    BY <1>3 DEF ServeHolepunch, ServeNgrok, ServeMap, ServeRelease
  <2> QED BY <2>1, <2>2, <2>3, SMT
<1>4. ASSUME NEW c \in Clients, ServePing(c) PROVE TypeOK'
  <2>1. pings' \in SUBSET Clients
    BY <1>4, SMT DEF ServePing
  <2> QED BY <1>4, <2>1, SMT DEF ServePing
<1>5. CASE ServeJoin \/ ServeReset
  <2>1. shutdown' \in BOOLEAN
    BY <1>5 DEF ServeJoin, ServeReset
  <2> QED BY <1>5, <2>1, SMT DEF ServeJoin, ServeReset
<1>6. CASE ServeAwait \/ ServeJoinRender \/ ServeJoinEvent
  BY <1>6, SMT DEF ServeAwait, ServeJoinRender, ServeJoinEvent
<1>7. ASSUME NEW r \in DataEnded, DataEnd(r)
      PROVE  data' \in DataState /\ conn' \in [Clients -> ConnState]
  BY <1>7, SMT DEF DataEnd
<1>8. CASE DataStart \/ DataCheck \/ DataNoAccept \/ DataInfo
  BY <1>7, <1>8, SMT DEF DataStart, DataCheck, DataNoAccept, DataInfo
<1>9. ASSUME NEW c \in Clients, DataAccept(c) PROVE TypeOK'
  BY <1>7, <1>9, SMT DEF DataAccept
<1>10. CASE DataSpawn \/ DataFlag \/ DataJoin
  <2>1. shutdown' \in BOOLEAN
    BY <1>10 DEF DataSpawn, DataFlag, DataJoin
  <2>2. conn' \in [Clients -> ConnState] /\ data' \in DataState
    BY <1>7, <1>10, SMT DEF DataSpawn, DataFlag, DataJoin
  <2> QED BY <1>10, <2>1, <2>2, SMT DEF DataSpawn, DataFlag, DataJoin
<1>11. ASSUME NEW c \in Clients, NEW from, NEW to \in ConnState, TaskGoes(c, from, to)
       PROVE  TypeOK'
  BY <1>11, SMT DEF TaskGoes
<1>12. ASSUME NEW c \in Clients, TaskStep(c) \/ Connect(c) PROVE TypeOK'
  BY <1>11, <1>12, SMT DEF TaskStep, TaskStart, TaskHandshake, TaskDecision,
     TaskStdinFails, TaskDropped, TaskAnswer, TaskCopy, Connect, Failed
<1>13. ASSUME NEW c \in Clients, Ping(c) PROVE TypeOK'
  <2>1. pings' \in SUBSET Clients
    BY <1>13, SMT DEF Ping
  <2> QED BY <1>13, <2>1, SMT DEF Ping
<1>14. CASE RenderQuit \/ RenderEnd \/ RenderFail
  <2>1. shutdown' \in BOOLEAN /\ rawmode' \in BOOLEAN
    BY <1>14 DEF RenderQuit, RenderEnd, RenderFail
  <2> QED BY <1>14, <2>1, SMT DEF RenderQuit, RenderEnd, RenderFail
<1>15. CASE EventCheck \/ EventPoll
  BY <1>15, SMT DEF EventCheck, EventPoll, EventGoes
<1>16. CASE UNCHANGED vars
  BY <1>16, SMT DEF vars
<1> QED
  BY <1>1, <1>2, <1>3, <1>4, <1>5, <1>6, <1>8, <1>9, <1>10, <1>12, <1>13,
     <1>14, <1>15, <1>16 DEF Next, ServeStep, DataStep

\* A server that has just been built is well typed.
LEMMA InitTypeOK == Init => TypeOK
<1> USE DEF Init, TypeOK
<1>1. Init => shutdown \in BOOLEAN /\ rawmode \in BOOLEAN /\ tunnel \in BOOLEAN
  BY Zenon
<1> QED BY <1>1, SMT DEF SrvState, DataState, ConnState, NotTaken

\* Every reachable state of the server is well typed.
THEOREM TypeCorrect == Spec => []TypeOK
  BY InitTypeOK, TypeOKStep, PTL DEF Spec

-----------------------------------------------------------------------------
(* The parts of IInv *)

\* Setup goes forward only: nothing but serve() itself acts before data_srv is
\* spawned, apart from the UI.
LEMMA SetupOrderStep == IInv /\ [Next]_vars => SetupOrder'
<1> SUFFICES ASSUME IInv, [Next]_vars PROVE SetupOrder'
  OBVIOUS
<1> USE DEF IInv, SetupOrder, uiVars
<1>1. CASE ServeStart \/ ServeLog \/ ServeHolepunch \/ ServeNgrok \/ ServeMap \/ ServeSpawn
  BY <1>1 DEF ServeStart, ServeLog, ServeHolepunch, ServeNgrok, ServeMap, ServeSpawn
<1>2. CASE \/ ServeCheck \/ ServeTimeout \/ ServeRecvErr
           \/ \E c \in Clients : ServePing(c)
  BY <1>2 DEF ServeCheck, ServeTimeout, ServeRecvErr, ServePing
<1>3. CASE \/ ServeAwait \/ ServeJoin \/ ServeJoinRender \/ ServeJoinEvent
           \/ ServeRelease \/ ServeReset
  BY <1>3 DEF ServeAwait, ServeJoin, ServeJoinRender, ServeJoinEvent,
     ServeRelease, ReleaseNgrok, ReleaseMapping, ServeReset, DataEnded
<1>4. CASE DataStep
  <2>1. data # "off" /\ UNCHANGED srv
    BY <1>4 DEF DataStep, DataStart, DataCheck, DataNoAccept, DataAccept,
       DataInfo, DataSpawn, DataFlag, DataJoin
  <2> QED BY <2>1
<1>5. CASE \E c \in Clients : TaskStep(c) \/ Ping(c) \/ Connect(c)
  <2>1. UNCHANGED <<srv, data, render, event, shutdown>>
    BY <1>5 DEF TaskStep, TaskStart, TaskHandshake, TaskDecision, TaskStdinFails,
       TaskDropped, TaskAnswer, TaskCopy, Connect, Ping, TaskGoes
  <2> QED BY <2>1
<1>6. CASE RenderQuit \/ RenderEnd \/ RenderFail
  <2>1. render # "off" /\ UNCHANGED <<srv, data>>
    BY <1>6 DEF RenderQuit, RenderEnd, RenderFail
  <2> QED BY <2>1
<1>7. CASE EventCheck \/ EventPoll
  <2>1. event # "off" /\ UNCHANGED <<srv, data>>
    BY <1>7 DEF EventCheck, EventPoll, EventGoes
  <2> QED BY <2>1
<1>8. CASE UNCHANGED vars
  BY <1>8 DEF vars
<1> QED
  BY <1>1, <1>2, <1>3, <1>4, <1>5, <1>6, <1>7, <1>8 DEF Next, ServeStep

\* Only the steps of the holepunch and of the release touch the tunnel.
LEMMA TunnelWantedStep == IInv /\ [Next]_vars => TunnelWanted'
<1> SUFFICES ASSUME IInv, [Next]_vars PROVE TunnelWanted'
  OBVIOUS
<1> USE DEF IInv, TunnelWanted, uiVars
<1>1. CASE ServeLog \/ ServeHolepunch \/ ServeNgrok \/ ServeMap \/ ServeRelease
  BY <1>1 DEF ServeLog, ServeHolepunch, ServeNgrok, ServeMap, ServeRelease,
     ReleaseNgrok, ReleaseMapping
<1>2. CASE ServeStep /\ ~(ServeLog \/ ServeHolepunch \/ ServeRelease)
  <2>1. UNCHANGED <<conf, tunnel>> /\ srv' \notin {"holepunch", "ngrok", "map"}
    BY <1>2 DEF ServeStep, ServeStart, ServeSpawn, ServeCheck, ServeTimeout,
       ServeRecvErr, ServePing, ServeAwait, ServeJoin, ServeJoinRender,
       ServeJoinEvent, ServeReset, DataEnded
  <2> QED BY <2>1
<1>3. CASE DataStep
  BY <1>3 DEF DataStep, DataStart, DataCheck, DataNoAccept, DataAccept,
     DataInfo, DataSpawn, DataFlag, DataJoin
<1>4. CASE \E c \in Clients : TaskStep(c) \/ Ping(c) \/ Connect(c)
  <2>1. UNCHANGED <<conf, srv, tunnel>>
    BY <1>4 DEF TaskStep, TaskStart, TaskHandshake, TaskDecision, TaskStdinFails,
       TaskDropped, TaskAnswer, TaskCopy, Connect, Ping, TaskGoes
  <2> QED BY <2>1
<1>5. CASE RenderQuit \/ RenderEnd \/ RenderFail \/ EventCheck \/ EventPoll \/ UNCHANGED vars
  BY <1>5 DEF RenderQuit, RenderEnd, RenderFail, EventCheck, EventPoll, EventGoes, vars
<1> QED
  BY <1>1, <1>2, <1>3, <1>4, <1>5 DEF Next

\* The flag is raised by data_srv in "flag", by the render thread as it quits,
\* and by serve() in "join", where data_srv has returned Ok already.
LEMMA FlagHasCauseStep == IInv /\ [Next]_vars => FlagHasCause'
<1> SUFFICES ASSUME IInv, [Next]_vars PROVE FlagHasCause'
  OBVIOUS
<1> USE DEF IInv, FlagHasCause, DataEnded, uiVars
<1>1. CASE ServeStart \/ ServeSpawn
  BY <1>1 DEF ServeStart, ServeSpawn, SetupOrder
<1>2. CASE \/ ServeLog \/ ServeHolepunch \/ ServeNgrok \/ ServeMap \/ ServeCheck \/ ServeTimeout
           \/ ServeRecvErr \/ ServeAwait \/ ServeJoinRender \/ ServeJoinEvent
           \/ ServeRelease \/ \E c \in Clients : ServePing(c)
  <2>1. UNCHANGED <<conf, shutdown, data, render>>
    BY <1>2 DEF ServeLog, ServeHolepunch, ServeNgrok, ServeMap, ServeCheck, ServeTimeout, ServeRecvErr,
       ServeAwait, ServeJoinRender, ServeJoinEvent, ServeRelease, ReleaseNgrok, ReleaseMapping, ServePing
  <2> QED BY <2>1
<1>3. CASE ServeJoin
  <2>1. data = "ok"
    BY <1>3 DEF ServeJoin, ExitOrder
  <2> QED BY <1>3, <2>1 DEF ServeJoin, UiOrder
<1>4. CASE ServeReset
  BY <1>4 DEF ServeReset
<1>5. CASE DataFlag
  BY <1>5 DEF DataFlag, OneTaken
<1>6. CASE DataStep /\ ~DataFlag
  <2>1. data \in {"join"} \cup DataEnded => data' \in {"join"} \cup DataEnded
    BY <1>6 DEF DataStep, DataStart, DataCheck, DataNoAccept, DataAccept,
       DataInfo, DataSpawn, DataJoin, DataEnd, TaskEnded
  <2>2. UNCHANGED <<conf, shutdown, render>>
    BY <1>6 DEF DataStep, DataStart, DataCheck, DataNoAccept, DataAccept,
       DataInfo, DataSpawn, DataJoin
  <2> QED BY <2>1, <2>2
<1>7. CASE \E c \in Clients : TaskStep(c) \/ Ping(c) \/ Connect(c)
  <2>1. UNCHANGED <<conf, shutdown, data, render>>
    BY <1>7 DEF TaskStep, TaskStart, TaskHandshake, TaskDecision, TaskStdinFails,
       TaskDropped, TaskAnswer, TaskCopy, Connect, Ping, TaskGoes
  <2> QED BY <2>1
<1>8. CASE RenderQuit \/ RenderEnd \/ RenderFail
  <2>1. conf.stay_alive
    BY <1>8 DEF RenderQuit, RenderEnd, RenderFail, UiOrder, UsesTui
  <2> QED BY <1>8, <2>1 DEF RenderQuit, RenderEnd, RenderFail
<1>9. CASE EventCheck \/ EventPoll \/ UNCHANGED vars
  BY <1>9 DEF EventCheck, EventPoll, EventGoes, vars
<1> QED
  BY <1>1, <1>2, <1>3, <1>4, <1>5, <1>6, <1>7, <1>8, <1>9 DEF Next, ServeStep

\* The threads of the UI move on their own, and data_srv returns Ok only where
\* the flag, or its only client, told it to.
LEMMA UiOrderStep == IInv /\ [Next]_vars => UiOrder'
<1> SUFFICES ASSUME IInv, [Next]_vars PROVE UiOrder'
  OBVIOUS
<1> USE DEF IInv, UiOrder, UsesTui, uiVars
<1>1. CASE ServeStart \/ ServeSpawn
  BY <1>1 DEF ServeStart, ServeSpawn, SetupOrder
<1>2. CASE \/ ServeLog \/ ServeHolepunch \/ ServeNgrok \/ ServeMap \/ ServeCheck \/ ServeTimeout
           \/ ServeRecvErr \/ ServeAwait \/ ServeJoin \/ ServeJoinRender
           \/ ServeJoinEvent \/ ServeRelease \/ ServeReset
           \/ \E c \in Clients : ServePing(c)
  <2>1. UNCHANGED <<conf, data, render, event, rawmode>>
    BY <1>2 DEF ServeLog, ServeHolepunch, ServeNgrok, ServeMap, ServeCheck, ServeTimeout, ServeRecvErr,
       ServeAwait, ServeJoin, ServeJoinRender, ServeJoinEvent, ServeRelease,
       ServeReset, ServePing
  <2> QED BY <2>1
<1>3. CASE DataCheck
  <2>1. data' = "ok" => shutdown
    BY <1>3 DEF DataCheck, DataEnd
  <2>2. UNCHANGED <<conf, render, event, rawmode>> /\ data = "check"
    BY <1>3 DEF DataCheck
  <2> QED BY <2>1, <2>2 DEF FlagHasCause, DataEnded
<1>4. CASE DataStep /\ ~DataCheck
  <2>1. data' = "ok" => data = "join"
    BY <1>4 DEF DataStep, DataStart, DataNoAccept, DataAccept, DataInfo,
       DataSpawn, DataFlag, DataJoin, DataEnd
  <2>2. UNCHANGED <<conf, render, event, rawmode>>
    BY <1>4 DEF DataStep, DataStart, DataNoAccept, DataAccept, DataInfo,
       DataSpawn, DataFlag, DataJoin
  <2> QED BY <2>1, <2>2 DEF OneTaken
<1>5. CASE \E c \in Clients : TaskStep(c) \/ Ping(c) \/ Connect(c)
  <2>1. UNCHANGED <<conf, data, render, event, rawmode>>
    BY <1>5 DEF TaskStep, TaskStart, TaskHandshake, TaskDecision, TaskStdinFails,
       TaskDropped, TaskAnswer, TaskCopy, Connect, Ping, TaskGoes
  <2> QED BY <2>1
<1>6. CASE RenderQuit \/ RenderEnd \/ RenderFail
  <2>1. rawmode' => render' \in {"running", "quitting"}
    BY <1>6 DEF RenderQuit, RenderEnd, RenderFail
  <2>2. /\ render' \in {"quitting", "ended", "failed"} /\ render # "off"
        /\ UNCHANGED <<conf, data, event>>
    BY <1>6 DEF RenderQuit, RenderEnd, RenderFail
  <2> QED BY <2>1, <2>2
<1>7. CASE EventCheck \/ EventPoll \/ UNCHANGED vars
  BY <1>7 DEF EventCheck, EventPoll, EventGoes, vars
<1> QED
  BY <1>1, <1>2, <1>3, <1>4, <1>5, <1>6, <1>7 DEF Next, ServeStep

\* serve() leaves its loop only with the data_srv that returned Ok, and a
\* returned task or thread stays returned.
LEMMA ExitOrderStep == IInv /\ [Next]_vars => ExitOrder'
<1> SUFFICES ASSUME IInv, [Next]_vars PROVE ExitOrder'
  OBVIOUS
<1> USE DEF IInv, ExitOrder, UsesTui, uiVars
<1>1. CASE \/ ServeStart \/ ServeLog \/ ServeHolepunch \/ ServeNgrok \/ ServeMap \/ ServeSpawn
           \/ ServeCheck \/ ServeTimeout \/ ServeRecvErr
           \/ \E c \in Clients : ServePing(c)
  <2>1. srv' \in {"log", "holepunch", "ngrok", "map", "spawn", "check", "recv", "await",
                   "err", "panic"}
    BY <1>1 DEF ServeStart, ServeLog, ServeHolepunch, ServeNgrok, ServeMap, ServeSpawn, ServeCheck,
       ServeTimeout, ServeRecvErr, ServePing
  <2> QED BY <2>1
<1>2. CASE ServeAwait
  BY <1>2 DEF ServeAwait, DataEnded
<1>3. CASE ServeJoin
  BY <1>3 DEF ServeJoin
<1>4. CASE ServeJoinRender \/ ServeJoinEvent
  BY <1>4 DEF ServeJoinRender, ServeJoinEvent
<1>5. CASE ServeRelease
  BY <1>5 DEF ServeRelease, ReleaseNgrok, ReleaseMapping, TunnelWanted
<1>6. CASE ServeReset
  BY <1>6 DEF ServeReset
<1>7. CASE DataStep
  <2>1. data # "ok" /\ UNCHANGED srv
    BY <1>7 DEF DataStep, DataStart, DataCheck, DataNoAccept, DataAccept,
       DataInfo, DataSpawn, DataFlag, DataJoin
  <2> QED BY <2>1
<1>8. CASE \E c \in Clients : TaskStep(c) \/ Ping(c) \/ Connect(c)
  <2>1. UNCHANGED <<conf, shutdown, srv, data, render, event, tunnel>>
    BY <1>8 DEF TaskStep, TaskStart, TaskHandshake, TaskDecision, TaskStdinFails,
       TaskDropped, TaskAnswer, TaskCopy, Connect, Ping, TaskGoes
  <2> QED BY <2>1
<1>9. CASE RenderQuit \/ RenderEnd \/ RenderFail
  <2>1. /\ render \notin {"ended", "off"} /\ srv # "ok"
        /\ UNCHANGED <<conf, srv, data, event, tunnel>>
    BY <1>9 DEF RenderQuit, RenderEnd, RenderFail, Alive, Stopped, UiOrder
  <2> QED BY <2>1 DEF UiOrder
<1>10. CASE EventCheck \/ EventPoll
  <2>1. event # "ok" /\ UNCHANGED <<conf, shutdown, srv, data, render, tunnel>>
    BY <1>10 DEF EventCheck, EventPoll, EventGoes
  <2>2. event # "off"
    BY <1>10 DEF EventCheck, EventPoll, EventGoes
  <2> QED BY <2>1, <2>2 DEF UiOrder
<1>11. CASE UNCHANGED vars
  BY <1>11 DEF vars
<1> QED
  BY <1>1, <1>2, <1>3, <1>4, <1>5, <1>6, <1>7, <1>8, <1>9, <1>10, <1>11
     DEF Next, ServeStep

\* A server that does not stay alive: the connection data_srv took is the only
\* one, and data_srv follows it to its end.
LEMMA OneTakenStep == IInv /\ [Next]_vars => OneTaken'
<1> SUFFICES ASSUME IInv, [Next]_vars PROVE OneTaken'
  OBVIOUS
<1> USE DEF IInv, OneTaken, OthersNotTaken, HeldStream, uiVars
<1>1. CASE UNCHANGED <<conf, data, cur, conn>>
  BY <1>1
<1>2. CASE ServeSpawn
  BY <1>2 DEF ServeSpawn, SetupOrder
<1>3. CASE \/ ServeStart \/ ServeLog \/ ServeHolepunch \/ ServeNgrok \/ ServeMap \/ ServeCheck
           \/ ServeTimeout \/ ServeRecvErr \/ ServeAwait \/ ServeJoin
           \/ ServeJoinRender \/ ServeJoinEvent \/ ServeRelease \/ ServeReset
           \/ \E c \in Clients : ServePing(c)
  BY <1>1, <1>3 DEF ServeStart, ServeLog, ServeHolepunch, ServeNgrok, ServeMap, ServeCheck,
     ServeTimeout, ServeRecvErr, ServeAwait, ServeJoin, ServeJoinRender,
     ServeJoinEvent, ServeRelease, ReleaseNgrok, ReleaseMapping, ServeReset, ServePing
<1>4. ASSUME data' \in {"err", "panic"} PROVE OneTaken'
  BY <1>4
<1>5. CASE DataStart
  <2>1. CASE data' = "check"
    BY <1>5, <2>1 DEF DataStart, DataEnd
  <2>2. CASE data' # "check"
    BY <1>4, <1>5, <2>2 DEF DataStart, DataEnd
  <2> QED BY <2>1, <2>2
<1>6. CASE DataCheck
  <2>1. CASE shutdown
    BY <1>6, <2>1 DEF DataCheck, DataEnd, FlagHasCause, DataEnded
  <2>2. CASE ~shutdown
    BY <1>6, <2>2 DEF DataCheck
  <2> QED BY <2>1, <2>2
<1>7. CASE DataNoAccept
  <2>1. CASE data' = "check"
    BY <1>7, <2>1 DEF DataNoAccept, DataEnd
  <2>2. CASE data' # "check"
    BY <1>4, <1>7, <2>2 DEF DataNoAccept, DataEnd
  <2> QED BY <2>1, <2>2
<1>8. ASSUME NEW c \in Clients, DataAccept(c) PROVE OneTaken'
  <2>1. CASE data' = "info"
    <3>1. cur' = c /\ conn' = [conn EXCEPT ![c] = "info"]
      BY <1>8, <2>1 DEF DataAccept, DataEnd
    <3>2. conn \in [Clients -> ConnState] /\ data = "accept" /\ conf' = conf
      BY <1>8 DEF DataAccept, TypeOK
    <3> QED BY <2>1, <3>1, <3>2
  <2>2. CASE data' # "info"
    BY <1>4, <1>8, <2>2 DEF DataAccept, DataEnd
  <2> QED BY <2>1, <2>2
<1>9. CASE DataInfo
  <2>1. CASE data' = "spawn"
    BY <1>9, <2>1 DEF DataInfo, DataEnd
  <2>2. CASE data' # "spawn"
    BY <1>4, <1>9, <2>2 DEF DataInfo, DataEnd
  <2> QED BY <2>1, <2>2
<1>10. CASE DataSpawn
  <2>1. CASE data' = "panic"
    BY <1>4, <2>1
  <2>2. CASE data' # "panic"
    <3>1. /\ conn' = [conn EXCEPT ![cur] = "task"]
          /\ data' = IF conf.stay_alive THEN "check" ELSE "flag"
      BY <1>10, <2>2 DEF DataSpawn, DataEnd
    <3>2. /\ conn \in [Clients -> ConnState] /\ data = "spawn"
          /\ conf' = conf /\ cur' = cur
      BY <1>10 DEF DataSpawn, TypeOK
    <3> QED BY <3>1, <3>2 DEF TaskLive
  <2> QED BY <2>1, <2>2
<1>11. CASE DataFlag
  BY <1>11 DEF DataFlag
<1>12. CASE DataJoin
  <2>1. /\ conn[cur] \in TaskEnded /\ data = "join"
        /\ conf' = conf /\ cur' = cur
        /\ DataEnd(IF conn[cur] \in {"served", "rejected"} THEN "ok" ELSE conn[cur])
    BY <1>12 DEF DataJoin
  <2>2. CASE conn[cur] \notin {"served", "rejected"}
    BY <1>4, <2>1, <2>2 DEF DataEnd, TaskEnded
  <2>3. CASE conn[cur] \in {"served", "rejected"}
    <3>1. \A c \in Clients \ {cur} : conn'[c] \in NotTaken
      BY <2>1 DEF DataEnd, NotTaken
    <3>2. conn'[cur] = conn[cur] /\ data' = "ok"
      BY <2>1, <2>3 DEF DataEnd
    <3> QED BY <2>1, <2>3, <3>1, <3>2
  <2> QED BY <2>2, <2>3
<1>13. ASSUME NEW c \in Clients, NEW from \in TaskLive, NEW to \in TaskLive \cup TaskEnded,
              TaskGoes(c, from, to)
       PROVE  OneTaken'
  <2>1. /\ conn[c] = from /\ conn' = [conn EXCEPT ![c] = to]
        /\ UNCHANGED <<conf, data, cur>> /\ conn \in [Clients -> ConnState]
    BY <1>13 DEF TaskGoes, TypeOK
  <2>2. /\ conn[c] \notin NotTaken /\ conn[c] # "info"
        /\ conn[c] \notin {"served", "rejected"}
    BY <2>1 DEF TaskLive, NotTaken
  <2>3. ~conf.stay_alive /\ data \in {"info", "spawn", "flag", "join", "ok"}
          => c = cur /\ data \in {"flag", "join"}
    BY <2>2
  <2> QED BY <2>1, <2>2, <2>3
<1>14. ASSUME NEW c \in Clients, TaskStep(c) PROVE OneTaken'
  BY <1>13, <1>14 DEF TaskStep, TaskStart, TaskHandshake, TaskDecision,
     TaskStdinFails, TaskDropped, TaskAnswer, TaskCopy, Failed, TaskLive, TaskEnded
<1>15. ASSUME NEW c \in Clients, Connect(c) PROVE OneTaken'
  <2>1. PICK to \in {"backlog", "refused"} : TaskGoes(c, "idle", to)
    BY <1>15 DEF Connect
  <2>2. /\ conn[c] = "idle" /\ conn' = [conn EXCEPT ![c] = to]
        /\ UNCHANGED <<conf, data, cur>> /\ conn \in [Clients -> ConnState]
    BY <2>1 DEF TaskGoes, TypeOK
  <2>3. ~conf.stay_alive /\ data \in {"info", "spawn", "flag", "join", "ok"} => c # cur
    BY <2>2 DEF TaskLive, TaskEnded
  <2> QED BY <2>1, <2>2, <2>3 DEF NotTaken
<1>16. CASE \/ \E c \in Clients : Ping(c)
            \/ RenderQuit \/ RenderEnd \/ RenderFail
            \/ EventCheck \/ EventPoll \/ UNCHANGED vars
  BY <1>1, <1>16 DEF Ping, RenderQuit, RenderEnd, RenderFail, EventCheck,
     EventPoll, EventGoes, vars
<1> QED
  BY <1>2, <1>3, <1>5, <1>6, <1>7, <1>8, <1>9, <1>10, <1>11, <1>12, <1>14,
     <1>15, <1>16 DEF Next, ServeStep, DataStep

\* data_srv holds the stream it accepted last, and no task has it yet.
LEMMA HeldStreamStep == IInv /\ [Next]_vars => HeldStream'
<1> SUFFICES ASSUME IInv, [Next]_vars PROVE HeldStream'
  OBVIOUS
<1> USE DEF IInv, HeldStream, uiVars
<1>1. CASE UNCHANGED <<data, cur, conn>>
  BY <1>1
<1>2. CASE data' \notin {"info", "spawn"}
  BY <1>2
<1>3. CASE ServeStep \/ ServeNgrok \/ ServeMap
  BY <1>1, <1>2, <1>3 DEF ServeStep, ServeStart, ServeLog, ServeHolepunch, ServeNgrok,
     ServeMap, ServeSpawn, ServeCheck, ServeTimeout, ServeRecvErr, ServePing, ServeAwait,
     ServeJoin, ServeJoinRender, ServeJoinEvent, ServeRelease, ServeReset
<1>4. CASE DataStep /\ ~DataInfo /\ ~\E c \in Clients : DataAccept(c)
  <2>1. data' \notin {"info", "spawn"}
    BY <1>4 DEF DataStep, DataStart, DataCheck, DataNoAccept, DataSpawn, DataFlag,
       DataJoin, DataEnd, TaskEnded
  <2> QED BY <1>2, <2>1
<1>5. CASE DataInfo
  <2>1. data = "info" /\ cur' = cur /\ (data' = "err" \/ conn' = conn)
    BY <1>5 DEF DataInfo, DataEnd
  <2> QED BY <2>1
<1>6. ASSUME NEW c \in Clients, DataAccept(c) PROVE HeldStream'
  <2>1. \/ data' = "panic"
        \/ data' = "info" /\ cur' = c /\ conn' = [conn EXCEPT ![c] = "info"]
    BY <1>6 DEF DataAccept, DataEnd
  <2>2. conn \in [Clients -> ConnState]
    BY DEF TypeOK
  <2> QED BY <2>1, <2>2
<1>7. ASSUME NEW c \in Clients, TaskStep(c) \/ Connect(c) PROVE HeldStream'
  <2>1. PICK to : /\ conn[c] # "info" /\ conn' = [conn EXCEPT ![c] = to]
                  /\ UNCHANGED <<data, cur>>
    BY <1>7 DEF TaskStep, TaskStart, TaskHandshake, TaskDecision, TaskStdinFails,
       TaskDropped, TaskAnswer, TaskCopy, Connect, TaskGoes
  <2>2. conn \in [Clients -> ConnState]
    BY DEF TypeOK
  <2> QED BY <2>1, <2>2
<1>8. CASE \/ \E c \in Clients : Ping(c)
           \/ RenderQuit \/ RenderEnd \/ RenderFail
           \/ EventCheck \/ EventPoll \/ UNCHANGED vars
  BY <1>1, <1>8 DEF Ping, RenderQuit, RenderEnd, RenderFail, EventCheck,
     EventPoll, EventGoes, vars
<1> QED
  BY <1>3, <1>4, <1>5, <1>6, <1>7, <1>8 DEF Next, DataStep

-----------------------------------------------------------------------------
(* The properties *)

\* IInv holds in every reachable state of the server.
THEOREM InductiveInvariant == Spec => []IInv
<1>1. Init => IInv
  <2>1. Init => TypeOK
    BY InitTypeOK
  <2>2. Init => SetupOrder /\ TunnelWanted /\ FlagHasCause /\ UiOrder /\ ExitOrder
    BY DEF Init, SetupOrder, TunnelWanted, FlagHasCause, UiOrder, ExitOrder
  <2>3. Init => OneTaken /\ HeldStream
    BY DEF Init, OneTaken, HeldStream, NotTaken
  <2> QED BY <2>1, <2>2, <2>3 DEF IInv
<1>2. IInv /\ [Next]_vars => IInv'
  BY TypeOKStep, SetupOrderStep, TunnelWantedStep, FlagHasCauseStep, UiOrderStep, ExitOrderStep,
     OneTakenStep, HeldStreamStep DEF IInv
<1> QED
  BY <1>1, <1>2, PTL DEF Spec

\* A one-shot server that returns without error has served or rejected one
\* client, and taken no other.
THEOREM OneShot == Spec => []OneShotServesOne
<1>1. IInv => OneShotServesOne
  BY DEF IInv, ExitOrder, OneTaken, OthersNotTaken, OneShotServesOne
<1> QED
  BY <1>1, InductiveInvariant, PTL

\* When serve() returns without error, no tunnel, thread, task, raw terminal or
\* raised flag is left.
THEOREM CleanReturn == Spec => []CleanExit
<1>1. IInv => CleanExit
  <2> SUFFICES ASSUME IInv, srv = "ok" PROVE CleanExit
    BY DEF CleanExit
  <2>1. ~tunnel /\ ~shutdown /\ data = "ok"
    BY DEF IInv, ExitOrder
  <2>2. render \in {"off", "ended"} /\ event \in {"off", "ok"}
    BY DEF IInv, ExitOrder, UiOrder
  <2>3. ~rawmode
    BY <2>2 DEF IInv, UiOrder
  <2> QED BY <2>1, <2>2, <2>3 DEF CleanExit
<1> QED
  BY <1>1, InductiveInvariant, PTL

\* serve() never joins a render thread that still waits for messages.
THEOREM JoinAfterQuit == Spec => []JoinFindsRenderLeaving
<1>1. IInv => JoinFindsRenderLeaving
  BY DEF IInv, ExitOrder, UiOrder, UsesTui, JoinFindsRenderLeaving
<1> QED
  BY <1>1, InductiveInvariant, PTL

\* The flag is lowered when nobody polls it any more.
THEOREM FlagLast == Spec => FlagClearedLast
<1>1. IInv /\ [Next]_vars =>
        [shutdown /\ ~shutdown' =>
           /\ data \in DataEnded
           /\ render \notin {"running", "quitting"}
           /\ event \notin {"check", "poll"}]_vars
  <2> SUFFICES ASSUME IInv, Next, shutdown, ~shutdown'
               PROVE  /\ data \in DataEnded
                      /\ render \notin {"running", "quitting"}
                      /\ event \notin {"check", "poll"}
    BY DEF vars
  <2>1. CASE ServeStep \/ ServeNgrok \/ ServeMap
    <3>1. ServeReset
      BY <2>1 DEF ServeStep, ServeStart, ServeLog, ServeHolepunch, ServeNgrok, ServeMap, ServeSpawn,
         ServeCheck, ServeTimeout, ServeRecvErr, ServePing, ServeAwait, ServeJoin,
         ServeJoinRender, ServeJoinEvent, ServeRelease, ReleaseNgrok, ReleaseMapping
    <3>2. srv = "reset"
      BY <3>1 DEF ServeReset
    <3> QED BY <3>2 DEF IInv, ExitOrder, UiOrder, DataEnded
  <2>2. CASE DataStep
    BY <2>2 DEF DataStep, DataStart, DataCheck, DataNoAccept, DataAccept,
       DataInfo, DataSpawn, DataFlag, DataJoin
  <2>3. CASE \E c \in Clients : TaskStep(c) \/ Ping(c) \/ Connect(c)
    BY <2>3 DEF TaskStep, TaskStart, TaskHandshake, TaskDecision, TaskStdinFails,
       TaskDropped, TaskAnswer, TaskCopy, Connect, Ping, TaskGoes
  <2>4. CASE RenderQuit \/ RenderEnd \/ RenderFail \/ EventCheck \/ EventPoll
    BY <2>4 DEF RenderQuit, RenderEnd, RenderFail, EventCheck, EventPoll, EventGoes
  <2> QED BY <2>1, <2>2, <2>3, <2>4 DEF Next
<1> QED
  BY <1>1, InductiveInvariant, PTL DEF Spec, FlagClearedLast

-----------------------------------------------------------------------------
(* The server implements Connections *)

\* A connection that changes alone moves from its stage to the next one.
LEMMA OneMoves ==
  ASSUME TypeOK, NEW c \in Clients, NEW to,
         conn' = [conn EXCEPT ![c] = to], conf' = conf
  PROVE  Conns!Moves(c, Stage(conn[c]), Stage(to))
<1>1. conn \in [Clients -> ConnState]
  BY DEF TypeOK
<1>2. \A d \in Clients : Stage(conn[d])' = IF d = c THEN Stage(to) ELSE Stage(conn[d])
  BY <1>1 DEF Stage
<1> QED
  BY <1>2, Zenon DEF Conns!Moves

\* A failure takes any of the connections that are not over.
LEMMA SomeFail ==
  ASSUME conf' = conf, NEW C \in SUBSET Clients,
         \A c \in C : Stage(conn[c]) \notin Conns!Ended /\ Stage(conn[c])' = "failed",
         \A c \in Clients \ C : Stage(conn[c])' = Stage(conn[c])
  PROVE  Conns!Next
<1>1. Conns!Fail
  BY DEF Conns!Fail
<1> QED
  BY <1>1 DEF Conns!Next

\* The end of data_srv fails the connections that have no task yet.
LEMMA DataEndFails ==
  ASSUME TypeOK, NEW r, DataEnd(r), conf' = conf
  PROVE  Conns!Next
<1> DEFINE C == {c \in Clients : conn[c] \in {"backlog", "info"}}
<1>1. \A c \in C : Stage(conn[c]) \notin Conns!Ended /\ Stage(conn[c])' = "failed"
  BY DEF DataEnd, Stage, Conns!Ended
<1>2. \A c \in Clients \ C : Stage(conn[c])' = Stage(conn[c])
  BY DEF DataEnd, Stage
<1> HIDE DEF C
<1>3. C \in SUBSET Clients
  BY DEF C
<1> QED
  BY <1>1, <1>2, <1>3, SomeFail

\* What each state of a connection looks like.
LEMMA Stages ==
  /\ Stage("idle") = "waiting" /\ Stage("backlog") = "waiting"
  /\ Stage("task") = IF conf.encrypted THEN "handshake" ELSE "streaming"
  /\ \A s \in {"info", "handshake", "approval", "approved", "denied", "streaming",
               "served", "rejected"} : Stage(s) = s
  /\ \A s \in {"refused", "err", "panic"} : Stage(s) = "failed"
  BY DEF Stage

\* Where no stage changes, nothing is seen.
LEMMA SameStage ==
  ASSUME conf' = conf, \A c \in Clients : Stage(conn[c])' = Stage(conn[c])
  PROVE  UNCHANGED Conns!vars
  BY DEF Conns!vars

\* A step of a connection's task is a promised one, or is not seen.
LEMMA TaskPromised ==
  ASSUME TypeOK, NEW c \in Clients, TaskStep(c) \/ Connect(c)
  PROVE  Conns!Next \/ UNCHANGED Conns!vars
<1>1. ASSUME NEW from, NEW to, TaskGoes(c, from, to)
      PROVE  /\ conn[c] = from /\ conn' = [conn EXCEPT ![c] = to] /\ conf' = conf
             /\ conn \in [Clients -> ConnState]
             /\ Conns!Moves(c, Stage(from), Stage(to))
  <2>1. conn[c] = from /\ conn' = [conn EXCEPT ![c] = to] /\ conf' = conf
    BY <1>1 DEF TaskGoes
  <2> QED
    BY <2>1, OneMoves DEF TypeOK
<1>2. ASSUME NEW from \in {"idle", "task", "handshake", "approval", "approved", "denied",
                           "streaming"},
             NEW to \in {"refused", "err", "panic"}, TaskGoes(c, from, to)
      PROVE  Conns!Next
  <2>1. Stage(conn[c]) \notin Conns!Ended /\ Stage(conn[c])' = "failed"
    BY <1>1, <1>2 DEF Conns!Ended, Stage
  <2>2. \A d \in Clients \ {c} : Stage(conn[d])' = Stage(conn[d])
    BY <1>1, <1>2 DEF Stage
  <2>3. {c} \in SUBSET Clients /\ \A d \in {c} : d = c
    OBVIOUS
  <2> DEFINE C == {c}
  <2>4. /\ C \in SUBSET Clients
        /\ \A d \in C : Stage(conn[d]) \notin Conns!Ended /\ Stage(conn[d])' = "failed"
        /\ \A d \in Clients \ C : Stage(conn[d])' = Stage(conn[d])
    BY <2>1, <2>2, <2>3
  <2> HIDE DEF C
  <2> QED
    BY <1>1, <1>2, <2>4, SomeFail
<1>3. ASSUME NEW from, NEW to, TaskGoes(c, from, to), Stage(from) = Stage(to)
      PROVE  UNCHANGED Conns!vars
  <2>1. \A d \in Clients : Stage(conn[d])' = Stage(conn[d])
    BY <1>1, <1>3 DEF Stage
  <2> QED
    BY <1>1, <1>3, <2>1, SameStage
<1>4. CASE TaskStart(c)
  <2>1. /\ ~conf.encrypted => Stage("task") = Stage("streaming")
        /\ conf.encrypted => Stage("task") = Stage("handshake")
    BY Stages
  <2> QED
    BY <1>2, <1>3, <1>4, <2>1 DEF TaskStart
<1>5. CASE TaskHandshake(c)
  <2>1. CASE TaskGoes(c, "handshake", "approval")
    <3>1. Conns!Moves(c, "handshake", "approval")
      BY <1>1, <2>1, Stages
    <3> QED
      BY <3>1 DEF Conns!Next, Conns!Submit
  <2> QED
    BY <1>2, <1>5, <2>1 DEF TaskHandshake, Failed
<1>6. CASE TaskDecision(c)
  <2>1. Conns!Moves(c, "approval", "approved") \/ Conns!Moves(c, "approval", "denied")
    BY <1>1, <1>6, Stages DEF TaskDecision
  <2> QED
    BY <2>1 DEF Conns!Next, Conns!Decide
<1>7. CASE TaskStdinFails(c) \/ TaskDropped(c)
  BY <1>2, <1>7 DEF TaskStdinFails, TaskDropped, Failed
<1>8. CASE TaskAnswer(c)
  <2>1. CASE TaskGoes(c, "approved", "streaming") \/ TaskGoes(c, "denied", "rejected")
    <3>1. \/ Conns!Moves(c, "approved", "streaming")
          \/ Conns!Moves(c, "denied", "rejected")
      BY <1>1, <2>1, Stages
    <3> QED
      BY <3>1 DEF Conns!Next, Conns!Answer
  <2> QED
    BY <1>2, <1>8, <2>1 DEF TaskAnswer, Failed
<1>9. CASE TaskCopy(c)
  <2>1. CASE TaskGoes(c, "streaming", "served")
    <3>1. Conns!Moves(c, "streaming", "served")
      BY <1>1, <2>1, Stages
    <3> QED
      BY <3>1 DEF Conns!Next, Conns!Finish
  <2> QED
    BY <1>2, <1>9, <2>1 DEF TaskCopy
<1>10. CASE Connect(c)
  <2>1. Stage("idle") = Stage("backlog")
    BY Stages
  <2> QED
    BY <1>2, <1>3, <1>10, <2>1 DEF Connect
<1> QED
  BY <1>4, <1>5, <1>6, <1>7, <1>8, <1>9, <1>10 DEF TaskStep

\* data_srv tells a client what it serves, hands its connection to a task, or ends.
LEMMA DataPromised ==
  ASSUME TypeOK, HeldStream, DataStep
  PROVE  Conns!Next \/ UNCHANGED Conns!vars
<1>1. ASSUME conf' = conf, conn' = conn PROVE UNCHANGED Conns!vars
  BY <1>1, SameStage DEF Stage
<1>2. CASE DataStart \/ DataCheck \/ DataNoAccept \/ DataInfo \/ DataFlag \/ DataJoin
  <2>1. conf' = conf /\ (conn' = conn \/ \E r : DataEnd(r))
    BY <1>2 DEF DataStart, DataCheck, DataNoAccept, DataInfo, DataFlag, DataJoin
  <2> QED
    BY <1>1, <2>1, DataEndFails
<1>3. ASSUME NEW c \in Clients, DataAccept(c) PROVE Conns!Next
  <2>1. CASE DataEnd("panic")
    BY <1>3, <2>1, DataEndFails DEF DataAccept
  <2>2. CASE ~DataEnd("panic")
    <3>1. /\ conn[c] = "backlog" /\ conf' = conf
          /\ conn' = [conn EXCEPT ![c] = "info"]
      BY <1>3, <2>2 DEF DataAccept
    <3>2. Conns!Moves(c, "waiting", "info")
      BY <3>1, OneMoves, Stages
    <3> QED
      BY <3>2 DEF Conns!Next, Conns!Accept
  <2> QED
    BY <2>1, <2>2
<1>4. CASE DataSpawn
  <2>1. CASE DataEnd("panic")
    BY <1>4, <2>1, DataEndFails DEF DataSpawn
  <2>2. CASE ~DataEnd("panic")
    <3>1. /\ data = "spawn" /\ conf' = conf
          /\ conn' = [conn EXCEPT ![cur] = "task"]
      BY <1>4, <2>2 DEF DataSpawn
    <3>2. cur \in Clients /\ conn[cur] = "info"
      BY <3>1 DEF HeldStream
    <3>3. Conns!Moves(cur, "info", IF conf.encrypted THEN "handshake" ELSE "streaming")
      BY <3>1, <3>2, OneMoves, Stages
    <3> QED
      BY <3>2, <3>3 DEF Conns!Next, Conns!Begin
  <2> QED
    BY <2>1, <2>2
<1> QED
  BY <1>2, <1>3, <1>4 DEF DataStep

\* The connections of a server go through the stages that Connections promises,
\* whatever ends the UI, the accept task or the process between two of them.
THEOREM ConnectionsImplemented == Spec => ImplementsConnections
<1>1. Init => Conns!Init
  <2> SUFFICES ASSUME Init PROVE Conns!Init
    OBVIOUS
  <2>1. conf.encrypted \in BOOLEAN /\ \A c \in Clients : Stage(conn[c]) = "waiting"
    BY DEF Init, Conf, Stage
  <2> QED
    BY <2>1 DEF Conns!Init
<1>2. IInv /\ [Next]_vars => [Conns!Next]_Conns!vars
  <2> SUFFICES ASSUME IInv, [Next]_vars PROVE Conns!Next \/ UNCHANGED Conns!vars
    OBVIOUS
  <2>1. CASE conf' = conf /\ conn' = conn
    BY <2>1, SameStage DEF Stage
  <2>2. CASE DataStep
    BY <2>2, DataPromised DEF IInv
  <2>3. ASSUME NEW c \in Clients, TaskStep(c) \/ Connect(c)
        PROVE  Conns!Next \/ UNCHANGED Conns!vars
    BY <2>3, TaskPromised DEF IInv
  <2>4. CASE \/ ServeStep \/ ServeNgrok \/ ServeMap \/ \E c \in Clients : Ping(c)
             \/ RenderQuit \/ RenderEnd \/ RenderFail \/ EventCheck \/ EventPoll
             \/ UNCHANGED vars
    <3>1. conf' = conf /\ conn' = conn
      BY <2>4 DEF ServeStep, ServeStart, ServeLog, ServeHolepunch, ServeNgrok,
         ServeMap, ServeSpawn, ServeCheck, ServeTimeout, ServeRecvErr, ServePing,
         ServeAwait, ServeJoin, ServeJoinRender, ServeJoinEvent, ServeRelease,
         ServeReset, Ping, RenderQuit, RenderEnd, RenderFail, EventCheck, EventPoll,
         EventGoes, vars
    <3> QED
      BY <2>1, <3>1
  <2> QED
    BY <2>2, <2>3, <2>4 DEF Next
<1> QED
  BY <1>1, <1>2, InductiveInvariant, PTL DEF Spec, ImplementsConnections, Conns!Spec
=============================================================================
