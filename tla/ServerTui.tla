------------------------------ MODULE ServerTui ------------------------------
(***************************************************************************)
(* The terminal UI of a stay-alive encrypted server: the bounded channel   *)
(* every message goes through, the render thread that reads it             *)
(* (src/src/server/tui.rs), and the three who write to it: the thread      *)
(* event_forwarder, TuiApprover::submit in each client's task, and the     *)
(* logger of every task (src/src/tui/mod.rs).                              *)
(*                                                                         *)
(* A futures channel gives each sender one message beyond its capacity: a  *)
(* send into a full channel queues the message and parks the sender until  *)
(* the receiver has popped enough.  The logger sends through a fresh clone *)
(* each time, so it is never refused and never waits.                      *)
(*                                                                         *)
(* SHUTDOWN_FLAG is raised here by the render thread only; FileSrv shows   *)
(* that serve() raises it no sooner, which is why the look at the flag     *)
(* after each draw is no step of its own.                                  *)
(***************************************************************************)
EXTENDS Naturals, FiniteSets, SequencesExt

CONSTANTS
  Clients,    \* clients whose handshake is over, each submitted once
  Buffer,     \* capacity of the channel, 100 in the code
  MaxLogs,    \* bound: log lines of others waiting in the channel
  Nobody      \* no client

ASSUME BufferAssumption == Buffer \in Nat
ASSUME NobodyAssumption == Nobody \notin Clients

VARIABLES
  chan,       \* the messages in the channel
  parked,     \* the senders that wait for room, in order
  clients,    \* ServerTui.clients: the requests to decide
  selected,   \* ServerTui.clients_state: an index from 1, or 0 for None
  shown,      \* the request highlighted on the screen, as last drawn
  reply,      \* the reply channel of each request
  task,       \* where submit() is for each client
  render,     \* the render thread
  event,      \* the event thread
  shutdown    \* SHUTDOWN_FLAG

vars == <<chan, parked, clients, selected, shown, reply, task, render, event,
          shutdown>>

Keys == {"Enter", "n", "k", "j", "q", "other"}

\* The keys that decide a request.
Deciding == {"Enter", "n"}

\* An Input carries two facts about its making that the code does not keep, for a
\* key that decides: the request highlighted on the screen when the key was read,
\* and whether all keys before it had been handled and their effect drawn.
Log        == [type : {"Log"}]
Request    == [type : {"ClientRequest"}, client : Clients]
Input      == [type : {"Input"}, key : Keys, aim : Clients \cup {Nobody}, current : BOOLEAN]
TermMsg    == Log \cup Request \cup Input
ALog       == [type |-> "Log"]
Senders    == Clients \cup {"event", "logger"}

TypeOK ==
  /\ chan \in Seq(TermMsg) /\ parked \in Seq(Senders)
  /\ clients \in Seq(Clients) /\ selected \in Nat
  /\ shown \in Clients \cup {Nobody}
  /\ reply \in [Clients -> {"none", "open", "yes", "no", "closed"}]
  /\ task \in [Clients -> {"idle", "flush", "wait", "approved", "denied", "failed"}]
  /\ render \in {"init", "running", "drawing", "quitting", "failing", "ended", "failed"}
  /\ event \in {"check", "poll", "flush", "ok", "err", "panic"}
  /\ shutdown \in BOOLEAN

\* The render thread has returned and dropped the ServerTui.
Gone == render \in {"ended", "failed"}

Init ==
  /\ chan = <<>> /\ parked = <<>>
  /\ clients = <<>> /\ selected = 0 /\ shown = Nobody
  /\ reply = [c \in Clients |-> "none"]
  /\ task = [c \in Clients |-> "idle"]
  /\ render = "init" /\ event = "check"
  /\ shutdown = FALSE

-----------------------------------------------------------------------------
(* The channel *)

\* Sender s queues m behind q, the messages left in the channel, and is parked
\* when that is more than the channel's capacity; p are the senders parked so far.
Send(s, m, q, p) ==
  /\ chan' = Append(q, m)
  /\ parked' = IF Len(q) >= Buffer THEN Append(p, s) ELSE p

\* What the receiver leaves when it pops a message: one sender wakes.
Rest   == Tail(chan)
Unpark == IF parked = <<>> THEN <<>> ELSE Tail(parked)

-----------------------------------------------------------------------------
(* The render thread *)

Highlighted ==
  IF selected \in 1..Len(clients) THEN clients[selected] ELSE Nobody

\* The terminal is set up, or cannot be.
RenderInit ==
  /\ render = "init"
  /\ render' \in {"running", "failing"}
  /\ UNCHANGED <<chan, parked, clients, selected, shown, reply, task, event, shutdown>>

\* rx.next() returns the first message; the screen is drawn after it.
Receives(type) ==
  /\ render = "running" /\ chan # <<>> /\ Head(chan).type = type
  /\ render' = "drawing"
  /\ UNCHANGED <<shown, task, event, shutdown>>

\* The message is popped, and nothing is sent.
Pops == chan' = Rest /\ parked' = Unpark

Pressed(key) == Receives("Input") /\ Head(chan).key = key

\* The scrollback of logs is not modelled.
RenderLog ==
  /\ Receives("Log") /\ Pops
  /\ UNCHANGED <<clients, selected, reply>>

\* Mutant: the newest request goes on top.
RenderRequest_OnTop ==
  /\ Receives("ClientRequest") /\ Pops
  /\ clients' = <<Head(chan).client>> \o clients
  /\ UNCHANGED <<selected, reply>>

RenderRequest ==
  /\ Receives("ClientRequest") /\ Pops
  /\ clients' = Append(clients, Head(chan).client)
  /\ UNCHANGED <<selected, reply>>

\* Mutant: the request stays in the list.
Answer_Keep(c, answer) ==
  /\ reply' = [reply EXCEPT ![c] = answer]
  /\ UNCHANGED clients

\* The request on the highlighted line is removed and answered.
Answer(c, answer) ==
  /\ reply' = [reply EXCEPT ![c] = answer]
  /\ clients' = RemoveAt(clients, selected)

\* Enter: approve, and log it through the channel the thread itself reads.
RenderApprove ==
  /\ Pressed("Enter")
  /\ \/ /\ Highlighted # Nobody
        /\ Answer(Highlighted, "yes")
        /\ Send("logger", ALog, Rest, Unpark)
     \/ /\ Highlighted = Nobody
        /\ Pops /\ UNCHANGED <<clients, reply>>
  /\ UNCHANGED selected

\* n: deny.
RenderDeny ==
  /\ Pressed("n") /\ Pops
  /\ \/ Highlighted # Nobody /\ Answer(Highlighted, "no")
     \/ Highlighted = Nobody /\ UNCHANGED <<clients, reply>>
  /\ UNCHANGED selected

\* Mutant: the selection moves up without a limit.
RenderUp_Wrap ==
  /\ Pressed("k") /\ Pops
  /\ selected' = selected - 1
  /\ UNCHANGED <<clients, reply>>

\* k and j: up and down; the first of them selects the first line.
RenderUp ==
  /\ Pressed("k") /\ Pops
  /\ selected' = IF selected <= 1 THEN 1 ELSE selected - 1
  /\ UNCHANGED <<clients, reply>>

RenderDown ==
  /\ Pressed("j") /\ Pops
  /\ selected' = IF selected < Len(clients) THEN selected + 1
                 ELSE IF Len(clients) = 0 THEN 1 ELSE Len(clients)
  /\ UNCHANGED <<clients, reply>>

RenderOther ==
  /\ Pressed("other") /\ Pops
  /\ UNCHANGED <<clients, selected, reply>>

\* terminal.draw(), which may fail.
RenderDraw ==
  /\ render = "drawing"
  /\ \/ render' = "running" /\ shown' = Highlighted
     \/ render' = "failing" /\ UNCHANGED shown
  /\ UNCHANGED <<chan, parked, clients, selected, reply, task, event, shutdown>>

\* Mutant: the loop goes on.
RenderQuit_Stay ==
  /\ Pressed("q") /\ Pops
  /\ UNCHANGED <<clients, selected, reply>>

\* q, Esc, ctrl-c: raise the flag and leave the loop, without drawing.
RenderQuit ==
  /\ render = "running" /\ chan # <<>>
  /\ Head(chan).type = "Input" /\ Head(chan).key = "q"
  /\ Pops
  /\ shutdown' = TRUE
  /\ render' = "quitting"
  /\ UNCHANGED <<clients, selected, shown, reply, task, event>>

\* Mutant: the requests still in the channel keep their reply channels.
RenderEnd_ListOnly ==
  /\ render \in {"quitting", "failing"}
  /\ render' \in IF render = "quitting" THEN {"ended", "failed"} ELSE {"failed"}
  /\ chan' = <<>> /\ parked' = <<>> /\ clients' = <<>>
  /\ reply' = [c \in Clients |-> IF Contains(clients, c) THEN "closed" ELSE reply[c]]
  /\ UNCHANGED <<selected, shown, task, event, shutdown>>

\* Mutant: the senders that wait for room are not woken.
RenderEnd_NoWake ==
  /\ render \in {"quitting", "failing"}
  /\ render' \in IF render = "quitting" THEN {"ended", "failed"} ELSE {"failed"}
  /\ chan' = <<>> /\ clients' = <<>>
  /\ reply' = [c \in Clients |-> IF reply[c] = "open" THEN "closed" ELSE reply[c]]
  /\ UNCHANGED <<parked, selected, shown, task, event, shutdown>>

\* Clear the terminal, which may fail, and drop the ServerTui: the receiver
\* wakes all senders and drops the messages, and with the requests, in the
\* channel or in the list, go the senders of their replies.
RenderEnd ==
  /\ render \in {"quitting", "failing"}
  /\ render' \in IF render = "quitting" THEN {"ended", "failed"} ELSE {"failed"}
  /\ chan' = <<>> /\ parked' = <<>> /\ clients' = <<>>
  /\ reply' = [c \in Clients |->
                 IF \/ Contains(clients, c)
                    \/ \E i \in 1..Len(chan) :
                         chan[i].type = "ClientRequest" /\ chan[i].client = c
                 THEN "closed" ELSE reply[c]]
  /\ UNCHANGED <<selected, shown, task, event, shutdown>>

RenderStep ==
  \/ RenderInit \/ RenderLog \/ RenderRequest \/ RenderApprove \/ RenderDeny
  \/ RenderUp \/ RenderDown \/ RenderOther \/ RenderDraw \/ RenderQuit
  \/ RenderEnd

-----------------------------------------------------------------------------
(* event_forwarder *)

EventGoes(from, to) ==
  /\ event = from /\ event' = to
  /\ UNCHANGED <<chan, parked, clients, selected, shown, reply, task, render, shutdown>>

EventCheck ==
  \/ shutdown /\ EventGoes("check", "ok")
  \/ ~shutdown /\ EventGoes("check", "poll")

\* No key for 100 ms, a terminal error, or a key that finds the receiver gone.
EventNoKey ==
  \/ EventGoes("poll", "check")
  \/ EventGoes("poll", "err")
  \/ Gone /\ EventGoes("poll", "panic")

\* A key is read and sent; the thread waits while the channel is over-full.
EventKey(key) ==
  /\ event = "poll" /\ ~Gone
  /\ Send("event",
          [type |-> "Input", key |-> key,
           aim |-> IF key \in Deciding THEN shown ELSE Nobody,
           current |-> /\ key \in Deciding
                       /\ \A i \in 1..Len(chan) : chan[i].type # "Input"
                       /\ shown \in {Highlighted, Nobody}],
          chan, parked)
  /\ event' = IF Len(chan) >= Buffer THEN "flush" ELSE "check"
  /\ UNCHANGED <<clients, selected, shown, reply, task, render, shutdown>>

EventFlushed == ~Contains(parked, "event") /\ EventGoes("flush", "check")

-----------------------------------------------------------------------------
(* TuiApprover::submit and TuiLogger::log *)

SubmitGoes(c, from, to) ==
  /\ task[c] = from
  /\ task' = [task EXCEPT ![c] = to]
  /\ UNCHANGED <<chan, parked, clients, selected, shown, reply, render, event, shutdown>>

\* send(): the request is queued, or the receiver is gone.
Submit(c) ==
  \/ /\ task[c] = "idle" /\ ~Gone
     /\ Send(c, [type |-> "ClientRequest", client |-> c], chan, parked)
     /\ reply' = [reply EXCEPT ![c] = "open"]
     /\ task' = [task EXCEPT ![c] = IF Len(chan) >= Buffer THEN "flush" ELSE "wait"]
     /\ UNCHANGED <<clients, selected, shown, render, event, shutdown>>
  \/ Gone /\ SubmitGoes(c, "idle", "failed")

SubmitFlushed(c) == ~Contains(parked, c) /\ SubmitGoes(c, "flush", "wait")

\* rx.next(): the answer, or none when its sender was dropped.
SubmitReturns(c) ==
  \/ reply[c] = "yes" /\ SubmitGoes(c, "wait", "approved")
  \/ reply[c] = "no" /\ SubmitGoes(c, "wait", "denied")
  \/ reply[c] = "closed" /\ SubmitGoes(c, "wait", "failed")

\* A line of serve() or of a task.
WriteLog ==
  /\ ~Gone
  /\ Len(SelectSeq(chan, LAMBDA m : m = ALog)) < MaxLogs
  /\ Send("logger", ALog, chan, parked)
  /\ UNCHANGED <<clients, selected, shown, reply, task, render, event, shutdown>>

-----------------------------------------------------------------------------
Next ==
  \/ RenderStep
  \/ EventCheck \/ EventNoKey \/ EventFlushed \/ \E key \in Keys : EventKey(key)
  \/ \E c \in Clients : Submit(c) \/ SubmitFlushed(c) \/ SubmitReturns(c)
  \/ WriteLog

Spec == Init /\ [][Next]_vars

\* The OS runs the threads, poll() returns after 100 ms, and the executor polls
\* a task that was woken.  Nothing is assumed of the operator, of the clients
\* or of those who log.
Fairness ==
  /\ WF_vars(RenderStep)
  /\ WF_vars(EventCheck \/ EventNoKey \/ EventFlushed)
  /\ \A c \in Clients : WF_vars(SubmitFlushed(c) \/ SubmitReturns(c))

FairSpec == Spec /\ Fairness

-----------------------------------------------------------------------------
(* Properties *)

\* A request that was neither answered nor dropped is in exactly one place, on
\* its way to the screen or on it, and an ended one is in neither: no key can
\* answer it again, and none can be forgotten.
RequestInOnePlace ==
  \A c \in Clients :
    LET inChan == {i \in 1..Len(chan) :
                     chan[i].type = "ClientRequest" /\ chan[i].client = c}
        inList == {i \in 1..Len(clients) : clients[i] = c}
    IN Cardinality(inChan) + Cardinality(inList) = IF reply[c] = "open" THEN 1 ELSE 0

\* A key read while one request was highlighted, with the effect of all keys
\* before it on the screen, decides that request and no other, however many
\* requests and log lines are handled before it.
DecidesWhatWasShown ==
  [][\A c \in Clients :
       reply[c] = "open" /\ reply'[c] \in {"yes", "no"} =>
         LET m == Head(chan) IN m.current /\ m.aim # Nobody => m.aim = c]_vars

\* "Client requests (enter to approve, 'n' to deny)", with a ">" before one of them:
\* Enter approves the request that was marked on the screen when it was pressed.
EnterApprovesMarked ==
  [][\A c \in Clients :
       reply[c] = "open" /\ reply'[c] = "yes" => Head(chan).aim = c]_vars

\* The inductive invariant behind these.  A request stands at most once in the
\* channel or in the list, never in both, and in one of them exactly while its
\* reply is open.
Ask(c)     == [type |-> "ClientRequest", client |-> c]
Once(s, e) == \A i, j \in 1..Len(s) : s[i] = e /\ s[j] = e => i = j

OnePlace ==
  \A c \in Clients :
    /\ Once(chan, Ask(c)) /\ Once(clients, c)
    /\ ~(Contains(chan, Ask(c)) /\ Contains(clients, c))
    /\ reply[c] = "open" <=> Contains(chan, Ask(c)) \/ Contains(clients, c)

\* Nothing was asked for a client before submit() is called for it.
Unasked == \A c \in Clients : task[c] = "idle" => reply[c] = "none"

\* A key pressed with the screen up to date has no key before it in the channel
\* q, and aims at the request h.
Aims(q, h) ==
  \A i \in 1..Len(q) :
    q[i].type = "Input" /\ q[i].current /\ q[i].aim # Nobody =>
      q[i].aim = h /\ \A j \in 1..(i - 1) : q[j].type # "Input"

\* Such a key still aims at the highlighted request while it waits.
KeyAims == Aims(chan, Highlighted)

IInv == TypeOK /\ OnePlace /\ Unasked /\ KeyAims

\* What became of a request whose reply channel is r and whose submit() is at t.
Outcome(r, t) ==
  CASE r = "open" -> "pending"
    [] r = "yes" -> "approved"
    [] r = "no" -> "denied"
    [] r = "closed" -> "dropped"
    [] OTHER -> IF t = "failed" THEN "dropped" ELSE "none"

\* The operator's decisions are those of the abstract approver.
A == INSTANCE Approval WITH
  open   <- ~Gone,
  status <- [c \in Clients |-> Outcome(reply[c], task[c])]

ImplementsApproval == A!Spec

\* q gets through, whatever waits in the channel before it.
QuitKeyQuits ==
  (\E i \in 1..Len(chan) : chan[i].type = "Input" /\ chan[i].key = "q") ~> Gone

\* Once the flag is up the event thread returns, even when it sleeps in a full
\* channel, so that TuiHandle::join returns.
EventThreadEnds == shutdown ~> event \in {"ok", "err", "panic"}

\* Every submit() returns once the render thread has left its loop.
SubmitEnds ==
  \A c \in Clients :
    (task[c] \in {"flush", "wait"} /\ render \in {"quitting", "failing", "ended", "failed"})
      ~> task[c] \in {"approved", "denied", "failed"}
=============================================================================
