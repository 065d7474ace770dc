------------------------------ MODULE FileSrv ------------------------------
(***************************************************************************)
(* The life of one `hubtain srv` process (src/src/server/mod.rs): the      *)
(* discovery loop FileSrv::serve, the task data_srv that accepts downloads,*)
(* one task per accepted connection, and what these share: SHUTDOWN_FLAG,  *)
(* the two threads of the terminal UI and the external address.            *)
(*                                                                         *)
(* The production build is modelled (cfg(not(test))): encryption always    *)
(* comes with interactive approval, and the flag exists.  A peer may vanish*)
(* and an I/O call may fail at any time, so every fallible call has an     *)
(* error alternative.  Logging is modelled where it matters: with the UI   *)
(* every log line goes through the UI's channel, and panics the task that  *)
(* writes it once the render thread has dropped the receiver.              *)
(***************************************************************************)
EXTENDS FiniteSets

CONSTANTS
  Clients,      \* peers; each opens at most one TCP connection
  NoClient      \* data_srv holds no accepted stream

ASSUME NoClientAssumption == NoClient \notin Clients

VARIABLES
  conf,         \* the options of the process, fixed once built
  shutdown,     \* SHUTDOWN_FLAG
  srv,          \* where serve() is, or how it returned
  data,         \* where the data_srv task is, or how it ended
  cur,          \* the stream data_srv accepted last
  conn,         \* the connection of each client, as the server sees it
  pings,        \* clients whose broadcast waits in the UDP socket
  render,       \* the thread of ServerTui::render
  event,        \* the thread of event_forwarder
  rawmode,      \* the terminal is in raw mode
  tunnel        \* an ngrok process or a router port mapping is held

uiVars  == <<render, event, rawmode>>
vars == <<conf, shutdown, srv, data, cur, conn, pings, uiVars, tunnel>>

Conf == [stay_alive : BOOLEAN, encrypted : BOOLEAN,
         holepuncher : {"None", "IGD", "Ngrok"}]

\* serve() has returned or panicked, main() returns and the process is gone.
Stopped    == {"ok", "err", "panic"}
\* The data_srv task is over and has dropped the listening socket.
DataEnded  == {"ok", "err", "panic"}
\* The task of a connection is over.
TaskEnded  == {"served", "rejected", "err", "panic"}
TaskLive   == {"task", "handshake", "approval", "approved", "denied", "streaming"}
NotTaken   == {"idle", "backlog", "refused"}

SrvState == {"start", "log", "holepunch", "ngrok", "map", "spawn", "check", "recv",
             "await", "join", "join_render", "join_event", "release", "reset"} \cup Stopped
DataState == {"off", "start", "check", "accept", "info", "spawn", "flag", "join"}
               \cup DataEnded
ConnState == NotTaken \cup {"info"} \cup TaskLive \cup TaskEnded

TypeOK ==
  /\ conf \in Conf
  /\ shutdown \in BOOLEAN /\ rawmode \in BOOLEAN /\ tunnel \in BOOLEAN
  /\ srv \in SrvState
  /\ data \in DataState
  /\ cur \in Clients \cup {NoClient}
  /\ conn \in [Clients -> ConnState]
  /\ pings \in SUBSET Clients
  /\ render \in {"off", "running", "quitting", "ended", "failed"}
  /\ event \in {"off", "check", "poll", "ok", "err", "panic"}

\* set_encryption makes the approval strategy Interactive; the UI is used
\* when, in addition, the server stays alive.
UsesTui == conf.encrypted /\ conf.stay_alive

\* The receiver of the UI channel is gone, so TuiLogger::log panics.
LogPanics == render \in {"ended", "failed"}

Alive == srv \notin Stopped

Init ==
  /\ conf \in Conf
  /\ shutdown = FALSE
  /\ srv = "start" /\ data = "off"
  /\ cur = NoClient
  /\ conn = [c \in Clients |-> "idle"]
  /\ pings = {}
  /\ render = "off" /\ event = "off"
  /\ rawmode = FALSE /\ tunnel = FALSE

-----------------------------------------------------------------------------
(* FileSrv::serve *)

\* With the UI: refuse without a tty or fail to set the terminal up, or start
\* both threads in raw mode.  Without it only the console logger is set up.
ServeStart ==
  /\ srv = "start"
  /\ \/ UsesTui /\ srv' = "err" /\ UNCHANGED uiVars
     \/ /\ UsesTui
        /\ srv' = "log"
        /\ render' = "running" /\ event' = "check" /\ rawmode' = TRUE
     \/ ~UsesTui /\ srv' = "log" /\ UNCHANGED uiVars
  /\ UNCHANGED <<conf, shutdown, data, cur, conn, pings, tunnel>>

\* Log "Serving file" and read the listener's address; an external one is asked for
\* only if wanted.
ServeLog ==
  /\ srv = "log"
  /\ \/ LogPanics /\ srv' = "panic"
     \/ ~LogPanics /\ srv' = "err"
     \/ ~LogPanics /\ srv' = IF conf.holepuncher = "None" THEN "spawn" ELSE "holepunch"
  /\ UNCHANGED <<conf, shutdown, data, cur, conn, pings, uiVars, tunnel>>

\* Run ngrok, or find out the local address and log it before asking the router.
ServeHolepunch ==
  /\ srv = "holepunch"
  /\ \/ conf.holepuncher = "Ngrok" /\ srv' = "ngrok" /\ tunnel' = TRUE
     \/ conf.holepuncher = "IGD" /\ ~LogPanics /\ srv' = "map" /\ UNCHANGED tunnel
     \/ conf.holepuncher = "IGD" /\ LogPanics /\ srv' = "panic" /\ UNCHANGED tunnel
     \/ srv' = "err" /\ UNCHANGED tunnel
  /\ UNCHANGED <<conf, shutdown, data, cur, conn, pings, uiVars>>

\* get_tunnel reads ngrok's output up to the line with the URL, which serve()
\* logs.  An output that ends before, or cannot be read, is an error; the process
\* has ended or is left running, for dropping a Child does not kill it.
ServeNgrok ==
  /\ srv = "ngrok"
  /\ \/ LogPanics /\ srv' = "panic" /\ UNCHANGED tunnel
     \/ ~LogPanics /\ srv' = "spawn" /\ UNCHANGED tunnel
     \/ srv' = "err" /\ tunnel' \in BOOLEAN
  /\ UNCHANGED <<conf, shutdown, data, cur, conn, pings, uiVars>>

\* The router is found and maps a port, which is logged once it is held; a router
\* whose answer is lost may have mapped it.
ServeMap ==
  /\ srv = "map"
  /\ \/ LogPanics /\ srv' = "panic" /\ tunnel' = TRUE
     \/ ~LogPanics /\ srv' = "spawn" /\ tunnel' = TRUE
     \/ srv' = "err" /\ tunnel' \in BOOLEAN
  /\ UNCHANGED <<conf, shutdown, data, cur, conn, pings, uiVars>>

\* Make the UDP socket a broadcast socket, log, and spawn data_srv.
ServeSpawn ==
  /\ srv = "spawn"
  /\ \/ srv' = "err" /\ UNCHANGED data
     \/ LogPanics /\ srv' = "panic" /\ UNCHANGED data
     \/ ~LogPanics /\ srv' = "check" /\ data' = "start"
  /\ UNCHANGED <<conf, shutdown, cur, conn, pings, uiVars, tunnel>>

\* Mutant: the flag ends the loop without waiting for data_srv.
ServeCheck_NoAwait ==
  /\ srv = "check"
  /\ srv' = IF shutdown THEN "join" ELSE "recv"
  /\ UNCHANGED <<conf, shutdown, data, cur, conn, pings, uiVars, tunnel>>

\* The head of the loop: leave it when the flag is up.
ServeCheck ==
  /\ srv = "check"
  /\ srv' = IF shutdown THEN "await" ELSE "recv"
  /\ UNCHANGED <<conf, shutdown, data, cur, conn, pings, uiVars, tunnel>>

\* 100 ms without a broadcast: look at the flag again.
ServeTimeout ==
  /\ srv = "recv"
  /\ srv' = "check"
  /\ UNCHANGED <<conf, shutdown, data, cur, conn, pings, uiVars, tunnel>>

\* recv_from fails with anything else than a timeout.
ServeRecvErr ==
  /\ srv = "recv"
  /\ srv' = "err"
  /\ UNCHANGED <<conf, shutdown, data, cur, conn, pings, uiVars, tunnel>>

\* A broadcast: log it and reply with the name and the TCP port.  A server
\* that does not stay alive answers nobody else.
ServePing(c) ==
  /\ srv = "recv"
  /\ c \in pings
  /\ pings' = pings \ {c}
  /\ \/ LogPanics /\ srv' = "panic"
     \/ ~LogPanics /\ srv' = "err"
     \/ ~LogPanics /\ srv' = IF conf.stay_alive THEN "check" ELSE "await"
  /\ UNCHANGED <<conf, shutdown, data, cur, conn, uiVars, tunnel>>

\* data_handle.await?: an error returns at once, a panic propagates.
ServeAwait ==
  /\ srv = "await"
  /\ data \in DataEnded
  /\ srv' = IF data = "ok" THEN "join" ELSE data
  /\ UNCHANGED <<conf, shutdown, data, cur, conn, pings, uiVars, tunnel>>

\* Mutant: the UI threads are not joined.
ServeJoin_Skip ==
  /\ srv = "join"
  /\ srv' = "release"
  /\ UNCHANGED <<conf, shutdown, data, cur, conn, pings, uiVars, tunnel>>

\* TuiHandle::join raises the flag before it waits for the threads.
ServeJoin ==
  /\ srv = "join"
  /\ \/ UsesTui /\ srv' = "join_render" /\ shutdown' = TRUE
     \/ ~UsesTui /\ srv' = "release" /\ UNCHANGED shutdown
  /\ UNCHANGED <<conf, data, cur, conn, pings, uiVars, tunnel>>

\* render_thread.join().expect(..).unwrap()
ServeJoinRender ==
  /\ srv = "join_render"
  /\ render \in {"ended", "failed"}
  /\ srv' = IF render = "ended" THEN "join_event" ELSE "panic"
  /\ UNCHANGED <<conf, shutdown, data, cur, conn, pings, uiVars, tunnel>>

\* event_thread.join().expect(..).unwrap()
ServeJoinEvent ==
  /\ srv = "join_event"
  /\ event \in {"ok", "err", "panic"}
  /\ srv' = IF event = "ok" THEN "release" ELSE "panic"
  /\ UNCHANGED <<conf, shutdown, data, cur, conn, pings, uiVars, tunnel>>

\* NgrokHandle::shutdown kills the process and waits for it.
ReleaseNgrok ==
  /\ conf.holepuncher = "Ngrok"
  /\ \/ srv' = "reset" /\ tunnel' = FALSE
     \/ srv' = "err" /\ tunnel' \in BOOLEAN

\* IGDHandle::free asks the router to remove the mapping.
ReleaseMapping ==
  /\ conf.holepuncher = "IGD"
  /\ \/ srv' = "reset" /\ tunnel' = FALSE
     \/ srv' = "err" /\ tunnel' \in BOOLEAN

\* Give the external address back, if there is one.
ServeRelease ==
  /\ srv = "release"
  /\ \/ ReleaseNgrok \/ ReleaseMapping
     \/ conf.holepuncher = "None" /\ srv' = "reset" /\ UNCHANGED tunnel
  /\ UNCHANGED <<conf, shutdown, data, cur, conn, pings, uiVars>>

ServeReset ==
  /\ srv = "reset"
  /\ shutdown' = FALSE
  /\ srv' = "ok"
  /\ UNCHANGED <<conf, data, cur, conn, pings, uiVars, tunnel>>

\* The steps of serve() that return by themselves; ServeNgrok and ServeMap wait
\* for ngrok or for the router.
ServeStep ==
  \/ ServeStart \/ ServeLog \/ ServeHolepunch \/ ServeSpawn
  \/ ServeCheck \/ ServeTimeout \/ ServeRecvErr
  \/ \E c \in Clients : ServePing(c)
  \/ ServeAwait \/ ServeJoin \/ ServeJoinRender \/ ServeJoinEvent
  \/ ServeRelease \/ ServeReset

-----------------------------------------------------------------------------
(* FileSrv::data_srv *)

\* The task ends: its listener closes, which resets the connections nobody
\* accepted, and so does a stream that was not handed to a task yet.
DataEnd(result) ==
  /\ data' = result
  /\ conn' = [c \in Clients |->
                IF conn[c] \in {"backlog", "info"} THEN "refused" ELSE conn[c]]

\* Read the listener's address and log "TCP listening".
DataStart ==
  /\ Alive /\ data = "start"
  /\ \/ DataEnd("err")
     \/ LogPanics /\ DataEnd("panic")
     \/ ~LogPanics /\ data' = "check" /\ UNCHANGED conn
  /\ UNCHANGED <<conf, shutdown, srv, cur, pings, uiVars, tunnel>>

DataCheck ==
  /\ Alive /\ data = "check"
  /\ \/ shutdown /\ DataEnd("ok")
     \/ ~shutdown /\ data' = "accept" /\ UNCHANGED conn
  /\ UNCHANGED <<conf, shutdown, srv, cur, pings, uiVars, tunnel>>

\* accept() timed out after 100 ms, or failed.
DataNoAccept ==
  /\ Alive /\ data = "accept"
  /\ \/ data' = "check" /\ UNCHANGED conn
     \/ DataEnd("err")
  /\ UNCHANGED <<conf, shutdown, srv, cur, pings, uiVars, tunnel>>

\* accept() returned a stream, and the log line names its peer.
DataAccept(c) ==
  /\ Alive /\ data = "accept"
  /\ conn[c] = "backlog"
  /\ \/ LogPanics /\ DataEnd("panic") /\ UNCHANGED cur
     \/ /\ ~LogPanics
        /\ data' = "info" /\ cur' = c
        /\ conn' = [conn EXCEPT ![c] = "info"]
  /\ UNCHANGED <<conf, shutdown, srv, pings, uiVars, tunnel>>

\* Write DataSrvInfo to the stream; the `?` ends data_srv, not only the client.
DataInfo ==
  /\ Alive /\ data = "info"
  /\ \/ data' = "spawn" /\ UNCHANGED conn
     \/ DataEnd("err")
  /\ UNCHANGED <<conf, shutdown, srv, cur, pings, uiVars, tunnel>>

\* Mutant: the flag is raised after every client, stay-alive or not.
DataSpawn_AlwaysFlag ==
  /\ Alive /\ data = "spawn"
  /\ \/ DataEnd("panic")
     \/ /\ conn' = [conn EXCEPT ![cur] = "task"]
        /\ data' = "flag"
  /\ UNCHANGED <<conf, shutdown, srv, cur, pings, uiVars, tunnel>>

\* Reopen the file by its path, which panics when it is gone, and spawn the
\* task of this client.
DataSpawn ==
  /\ Alive /\ data = "spawn"
  /\ \/ DataEnd("panic")
     \/ /\ conn' = [conn EXCEPT ![cur] = "task"]
        /\ data' = IF conf.stay_alive THEN "check" ELSE "flag"
  /\ UNCHANGED <<conf, shutdown, srv, cur, pings, uiVars, tunnel>>

\* Mutant: the one client is not waited for.
DataFlag_NoWait ==
  /\ Alive /\ data = "flag"
  /\ shutdown' = TRUE
  /\ DataEnd("ok")
  /\ UNCHANGED <<conf, srv, cur, pings, uiVars, tunnel>>

\* Mutant: serve() is not told to stop.
DataFlag_NoFlag ==
  /\ Alive /\ data = "flag"
  /\ data' = "join"
  /\ UNCHANGED <<conf, shutdown, srv, cur, conn, pings, uiVars, tunnel>>

\* One client is enough for a server that does not stay alive.
DataFlag ==
  /\ Alive /\ data = "flag"
  /\ shutdown' = TRUE
  /\ data' = "join"
  /\ UNCHANGED <<conf, srv, cur, conn, pings, uiVars, tunnel>>

\* Mutant: the outcome of the task is returned as it is.
DataJoin_Raw ==
  /\ Alive /\ data = "join"
  /\ conn[cur] \in TaskEnded
  /\ DataEnd(conn[cur])
  /\ UNCHANGED <<conf, shutdown, srv, cur, pings, uiVars, tunnel>>

\* h.await?: a served or rejected client is a success.
DataJoin ==
  /\ Alive /\ data = "join"
  /\ conn[cur] \in TaskEnded
  /\ DataEnd(IF conn[cur] \in {"served", "rejected"} THEN "ok" ELSE conn[cur])
  /\ UNCHANGED <<conf, shutdown, srv, cur, pings, uiVars, tunnel>>

DataStep ==
  \/ DataStart \/ DataCheck \/ DataNoAccept
  \/ \E c \in Clients : DataAccept(c)
  \/ DataInfo \/ DataSpawn \/ DataFlag \/ DataJoin

-----------------------------------------------------------------------------
(* The task of a connection; in stay-alive mode nobody awaits it. *)

TaskGoes(c, from, to) ==
  /\ Alive
  /\ conn[c] = from
  /\ conn' = [conn EXCEPT ![c] = to]
  /\ UNCHANGED <<conf, shutdown, srv, data, cur, pings, uiVars, tunnel>>

\* A failed task logs its error.
Failed == IF LogPanics THEN "panic" ELSE "err"

\* "Server handshaking" is logged before the handshake.
TaskStart(c) ==
  \/ ~conf.encrypted /\ TaskGoes(c, "task", "streaming")
  \/ conf.encrypted /\ ~LogPanics /\ TaskGoes(c, "task", "handshake")
  \/ conf.encrypted /\ LogPanics /\ TaskGoes(c, "task", "panic")

TaskHandshake(c) ==
  \/ TaskGoes(c, "handshake", "approval")
  \/ TaskGoes(c, "handshake", Failed)

\* The operator decides: in the UI while it runs, else on the console.
TaskDecision(c) ==
  /\ UsesTui => render = "running"
  /\ \/ TaskGoes(c, "approval", "approved")
     \/ TaskGoes(c, "approval", "denied")

\* submit() fails: stdin is broken.
TaskStdinFails(c) ==
  ~UsesTui /\ TaskGoes(c, "approval", Failed)

\* submit() fails: the UI dropped the request, or is gone already.
TaskDropped(c) ==
  UsesTui /\ LogPanics /\ TaskGoes(c, "approval", Failed)

\* Mutant: the decision is not looked at.
TaskAnswer_Ignored(c) ==
  TaskGoes(c, "approved", "streaming") \/ TaskGoes(c, "denied", "streaming")

\* Send the approval byte; a rejected client ends the task without an error.
TaskAnswer(c) ==
  \/ TaskGoes(c, "approved", "streaming")
  \/ TaskGoes(c, "denied", "rejected")
  \/ TaskGoes(c, "approved", Failed)
  \/ TaskGoes(c, "denied", Failed)

\* Copy the file; "Done serving" is logged at the end.
TaskCopy(c) ==
  \/ ~LogPanics /\ TaskGoes(c, "streaming", "served")
  \/ LogPanics /\ TaskGoes(c, "streaming", "panic")
  \/ ~LogPanics /\ TaskGoes(c, "streaming", "err")

TaskStep(c) ==
  \/ TaskStart(c) \/ TaskHandshake(c) \/ TaskDecision(c)
  \/ TaskStdinFails(c) \/ TaskDropped(c) \/ TaskAnswer(c) \/ TaskCopy(c)

-----------------------------------------------------------------------------
(* The threads of the UI: what serve() and the tasks see of them. *)

\* q, Esc or ctrl-c: raise the flag and leave the loop.
RenderQuit ==
  /\ Alive /\ render = "running"
  /\ shutdown' = TRUE
  /\ render' = "quitting"
  /\ UNCHANGED <<conf, srv, data, cur, conn, pings, event, rawmode, tunnel>>

\* Clear the terminal and drop the ServerTui, receiver and raw mode with it.
RenderEnd ==
  /\ Alive /\ render = "quitting"
  /\ render' \in {"ended", "failed"}
  /\ rawmode' = FALSE
  /\ UNCHANGED <<conf, shutdown, srv, data, cur, conn, pings, event, tunnel>>

\* Drawing fails: the thread ends without raising the flag.
RenderFail ==
  /\ Alive /\ render = "running"
  /\ render' = "failed"
  /\ rawmode' = FALSE
  /\ UNCHANGED <<conf, shutdown, srv, data, cur, conn, pings, event, tunnel>>

EventGoes(from, to) ==
  /\ Alive
  /\ event = from
  /\ event' = to
  /\ UNCHANGED <<conf, shutdown, srv, data, cur, conn, pings, render, rawmode, tunnel>>

\* Mutant: the forwarder does not look at the flag.
EventCheck_NoFlag == EventGoes("check", "poll")

EventCheck ==
  \/ shutdown /\ EventGoes("check", "ok")
  \/ ~shutdown /\ EventGoes("check", "poll")

\* No key within 100 ms, a key forwarded, a terminal error, or a key typed
\* after the render thread has dropped the receiver.
EventPoll ==
  \/ EventGoes("poll", "check")
  \/ EventGoes("poll", "err")
  \/ LogPanics /\ EventGoes("poll", "panic")

-----------------------------------------------------------------------------
(* Peers *)

\* A client's broadcast reaches the UDP socket (a lost one is no step).
Ping(c) ==
  /\ Alive
  /\ pings' = pings \cup {c}
  /\ UNCHANGED <<conf, shutdown, srv, data, cur, conn, uiVars, tunnel>>

\* A client connects: to the port it was told, or to an address it was given.
Connect(c) ==
  \/ data \notin DataEnded /\ TaskGoes(c, "idle", "backlog")
  \/ data \in DataEnded /\ TaskGoes(c, "idle", "refused")

-----------------------------------------------------------------------------
Next ==
  \/ ServeStep \/ ServeNgrok \/ ServeMap
  \/ DataStep
  \/ \E c \in Clients : TaskStep(c) \/ Ping(c) \/ Connect(c)
  \/ RenderQuit \/ RenderEnd \/ RenderFail
  \/ EventCheck \/ EventPoll

Spec == Init /\ [][Next]_vars

\* serve() waits for the router to remove its mapping.
AwaitsRouter == srv = "release" /\ conf.holepuncher = "IGD"

\* The executor polls serve() and data_srv when they can run, and the OS runs the
\* threads.  Nothing is assumed of peers, of the operator, of ngrok's output or of
\* the router.
Fairness ==
  /\ WF_vars(~AwaitsRouter /\ ServeStep)
  /\ WF_vars(DataStep)
  /\ WF_vars(RenderEnd)
  /\ WF_vars(EventCheck) /\ WF_vars(EventPoll)

FairSpec == Spec /\ Fairness

-----------------------------------------------------------------------------
(* The inductive invariant *)

\* serve() starts the UI first and data_srv last.
SetupOrder ==
  /\ srv = "start" => render = "off" /\ event = "off" /\ ~shutdown
  /\ srv \in {"start", "log", "holepunch", "ngrok", "map", "spawn"} => data = "off"

\* An external address is asked for, and held, only if it is wanted.
TunnelWanted ==
  /\ srv = "ngrok" => conf.holepuncher = "Ngrok"
  /\ srv = "map" => conf.holepuncher = "IGD"
  /\ conf.holepuncher = "None" => ~tunnel /\ srv # "holepunch"

\* Who raised the flag: data_srv for its only client, or the render thread.
\* The render thread's own look at the flag after each draw therefore never
\* finds it up while it runs, and is no action here.
FlagHasCause ==
  shutdown =>
    \/ ~conf.stay_alive /\ data \in {"join"} \cup DataEnded
    \/ conf.stay_alive /\ render \in {"quitting", "ended", "failed"}

\* The threads of the UI exist only with the UI, and a stay-alive data_srv
\* returns Ok only when the render thread raised the flag.
UiOrder ==
  /\ render # "off" => UsesTui
  /\ event # "off" => UsesTui
  /\ rawmode => render \in {"running", "quitting"}
  /\ data = "ok" /\ conf.stay_alive => render \in {"quitting", "ended", "failed"}

\* What the way out of serve() has established at each of its steps.
ExitOrder ==
  /\ srv \in {"join", "join_render", "join_event", "release", "reset", "ok"}
       => data = "ok"
  /\ srv \in {"join_render", "join_event"} => UsesTui
  /\ srv = "join_event" => render = "ended"
  /\ srv \in {"release", "reset", "ok"} /\ UsesTui => render = "ended" /\ event = "ok"
  /\ srv \in {"reset", "ok"} => ~tunnel
  /\ srv = "ok" => ~shutdown

OthersNotTaken == \A c \in Clients \ {cur} : conn[c] \in NotTaken

\* A server that does not stay alive takes one connection, and follows it.
OneTaken ==
  /\ data \in {"flag", "join"} => ~conf.stay_alive
  /\ ~conf.stay_alive =>
       /\ data \in {"off", "start", "check", "accept"} =>
            \A c \in Clients : conn[c] \in NotTaken
       /\ data \in {"info", "spawn", "flag", "join", "ok"} =>
            cur \in Clients /\ OthersNotTaken
       /\ data \in {"flag", "join"} => conn[cur] \in TaskLive \cup TaskEnded
       /\ data = "ok" => conn[cur] \in {"served", "rejected"}

\* Until its task is spawned, the stream data_srv holds is the one it accepted last.
HeldStream == data \in {"info", "spawn"} => cur \in Clients /\ conn[cur] = "info"

\* What every step of serve(), data_srv, the tasks and the UI preserves.
IInv ==
  /\ TypeOK /\ SetupOrder /\ TunnelWanted /\ FlagHasCause /\ UiOrder /\ ExitOrder
  /\ OneTaken /\ HeldStream

-----------------------------------------------------------------------------
(* Properties *)

\* A server that does not stay alive and returns without error has taken
\* exactly one connection, and that client's transfer is over: serve() waits
\* for data_srv, which waits for the task it spawned.
OneShotServesOne ==
  srv = "ok" /\ ~conf.stay_alive =>
    \E c \in Clients :
      /\ conn[c] \in {"served", "rejected"}
      /\ \A d \in Clients \ {c} : conn[d] \in NotTaken

\* A clean return leaves nothing behind: no tunnel, no raw terminal, no thread
\* or accept task running, and the flag down for a next server.
CleanExit ==
  srv = "ok" =>
    /\ ~tunnel /\ ~rawmode /\ ~shutdown
    /\ data = "ok"
    /\ render \in {"off", "ended"} /\ event \in {"off", "ok"}

\* The flag is taken down only when nobody polls it any more: a thread or task
\* that missed it would run for ever.
FlagClearedLast ==
  [][shutdown /\ ~shutdown' =>
       /\ data \in DataEnded
       /\ render \notin {"running", "quitting"}
       /\ event \notin {"check", "poll"}]_vars

\* serve() never joins a render thread that has not left its loop: that thread
\* sleeps until a message comes, so the flag alone would not wake it.
JoinFindsRenderLeaving ==
  srv \in {"join", "join_render", "join_event"} => render # "running"

\* After the operator quits, a server that has its external address, or wants
\* none, stops, whatever the clients and the transfers in progress do; or it comes
\* to wait for the router once more.
QuitStops ==
  (render = "quitting" /\ srv \notin {"log", "holepunch", "ngrok", "map"})
    ~> (srv \in Stopped \/ AwaitsRouter)

\* When the only client of a one-shot server is done, the process stops: the
\* flag reaches serve() whether it polls the socket or awaits data_srv.
OneShotStops ==
  (~conf.stay_alive /\ data = "join" /\ cur \in Clients /\ conn[cur] \in TaskEnded)
    ~> (srv \in Stopped \/ AwaitsRouter)


\* expect("Logger can't write") and expect("Must be able to forward event"):
\* unless drawing failed, the receiver is there for a task that logs or for a key
\* that is forwarded.  A state that violates it refutes both.
SendersFindReceiver ==
  render # "failed" => event # "panic" \/ \A c \in Clients : conn[c] # "panic"

\* "The handle must be told to shutdown when the server is done using it": a
\* server that has served through ngrok does not return with its tunnel open.
TunnelReleased ==
  (srv \in Stopped /\ conf.holepuncher = "Ngrok" /\ data # "off") => ~tunnel

-----------------------------------------------------------------------------
(* The abstract connections *)

\* What the state of a connection means to somebody who does not know the tasks.
Stage(state) ==
  CASE state \in {"idle", "backlog"} -> "waiting"
    [] state = "task" -> IF conf.encrypted THEN "handshake" ELSE "streaming"
    [] state \in {"refused", "err", "panic"} -> "failed"
    [] OTHER -> state

Conns == INSTANCE Connections WITH
  stage <- [c \in Clients |-> Stage(conn[c])], encrypted <- conf.encrypted

\* The connections of a server go through the promised stages, whatever ends the
\* UI, the accept task or the process between two of them.
ImplementsConnections == Conns!Spec
=============================================================================
