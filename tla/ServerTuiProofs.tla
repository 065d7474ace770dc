-------------------------- MODULE ServerTuiProofs --------------------------
(***************************************************************************)
(* Proofs about ServerTui for any clients and any capacity of the channel: *)
(* what becomes of a request, which one a key decides, and that the        *)
(* terminal UI implements Approval.                                        *)
(***************************************************************************)
EXTENDS ServerTui, SequenceTheorems, FiniteSetTheorems, TLAPS

-----------------------------------------------------------------------------
(* Sequences without duplicates *)

\* What a sequence holds after e was put at its end.
LEMMA AppendHolds ==
  ASSUME NEW S, NEW s \in Seq(S), NEW e \in S, NEW x
  PROVE  /\ Contains(Append(s, e), x) <=> Contains(s, x) \/ e = x
         /\ Once(s, x) /\ ~(Contains(s, x) /\ e = x) => Once(Append(s, e), x)
<1>1. /\ Len(s) \in Nat /\ Len(Append(s, e)) = Len(s) + 1
      /\ Append(s, e)[Len(s) + 1] = e
      /\ \A i \in 1..Len(s) : Append(s, e)[i] = s[i]
  BY AppendProperties, LenProperties
<1>2. 1..Len(Append(s, e)) = 1..Len(s) \cup {Len(s) + 1}
  BY <1>1, SMT
<1> QED
  BY <1>1, <1>2, SMT DEF Contains, Once

\* What a sequence holds once its head is gone.
LEMMA TailHolds ==
  ASSUME NEW S, NEW s \in Seq(S), s # <<>>, NEW x
  PROVE  /\ Contains(s, x) <=> Head(s) = x \/ Contains(Tail(s), x)
         /\ Once(s, x) => /\ Once(Tail(s), x)
                          /\ ~(Head(s) = x /\ Contains(Tail(s), x))
<1>1. Len(s) \in Nat \ {0}
  BY EmptySeq
<1>2. /\ Head(s) = s[1] /\ Len(Tail(s)) = Len(s) - 1
      /\ \A i \in 1..(Len(s) - 1) : Tail(s)[i] = s[i + 1]
  BY <1>1, HeadTailProperties, SMT
<1>3. ASSUME Contains(s, x), Head(s) # x PROVE Contains(Tail(s), x)
  <2>1. PICK i \in 1..Len(s) : s[i] = x
    BY <1>3 DEF Contains
  <2>2. i - 1 \in 1..(Len(s) - 1) /\ Tail(s)[i - 1] = x
    BY <1>1, <1>2, <1>3, <2>1, SMT
  <2> QED
    BY <1>2, <2>2 DEF Contains
<1>4. ASSUME Contains(Tail(s), x) PROVE \E i \in 2..Len(s) : s[i] = x
  <2>1. PICK i \in 1..(Len(s) - 1) : Tail(s)[i] = x
    BY <1>2, <1>4 DEF Contains
  <2> QED
    BY <1>1, <1>2, <2>1, SMT
<1>5. Head(s) = x => Contains(s, x)
  BY <1>1, <1>2, SMT DEF Contains
<1>6. Contains(Tail(s), x) => Contains(s, x)
  BY <1>1, <1>4, SMT DEF Contains
<1>7. ASSUME Once(s, x) PROVE Once(Tail(s), x)
  BY <1>1, <1>2, <1>7, SMT DEF Once
<1>8. ASSUME Once(s, x), Head(s) = x PROVE ~Contains(Tail(s), x)
  BY <1>1, <1>2, <1>4, <1>8, SMT DEF Once
<1> QED
  BY <1>3, <1>5, <1>6, <1>7, <1>8

\* What a sequence holds once its n-th element was removed.
LEMMA RemoveHolds ==
  ASSUME NEW S, NEW s \in Seq(S), NEW n \in 1..Len(s), NEW x
  PROVE  /\ RemoveAt(s, n) \in Seq(S)
         /\ Contains(s, x) <=> s[n] = x \/ Contains(RemoveAt(s, n), x)
         /\ Once(s, x) => /\ Once(RemoveAt(s, n), x)
                          /\ ~(s[n] = x /\ Contains(RemoveAt(s, n), x))
<1> DEFINE a == SubSeq(s, 1, n - 1)
           b == SubSeq(s, n + 1, Len(s))
           r == RemoveAt(s, n)
<1>1. Len(s) \in Nat /\ n \in Nat /\ \A i \in 1..Len(s) : s[i] \in S
  BY LenProperties, ElementOfSeq, SMT
<1>2. /\ a \in Seq(S) /\ Len(a) = n - 1
      /\ \A i \in 1..(n - 1) : a[i] = s[i]
  <2>1. \A i \in 1..(n - 1) : s[i] \in S
    BY <1>1, SMT
  <2> QED
    BY <1>1, <2>1, SubSeqProperties, SMT
<1>3. /\ b \in Seq(S) /\ Len(b) = Len(s) - n
      /\ \A i \in 1..(Len(s) - n) : b[i] = s[n + i]
  <2>1. \A i \in (n + 1)..Len(s) : s[i] \in S
    BY <1>1, SMT
  <2> QED
    BY <1>1, <2>1, SubSeqProperties, SMT
<1>4. r = a \o b
  BY DEF RemoveAt
<1> HIDE DEF a, b, r
<1>5. /\ r \in Seq(S) /\ Len(r) = Len(s) - 1
      /\ \A i \in 1..(Len(s) - 1) : r[i] = IF i < n THEN s[i] ELSE s[i + 1]
  <2>1. /\ a \o b \in Seq(S) /\ Len(a \o b) = Len(a) + Len(b)
        /\ \A i \in 1..(Len(a) + Len(b)) :
             (a \o b)[i] = IF i <= Len(a) THEN a[i] ELSE b[i - Len(a)]
    BY <1>2, <1>3, ConcatProperties
  <2>2. ASSUME NEW i \in 1..(Len(s) - 1)
        PROVE  r[i] = IF i < n THEN s[i] ELSE s[i + 1]
    <3>1. r[i] = IF i <= n - 1 THEN a[i] ELSE b[i - (n - 1)]
      BY <1>1, <1>2, <1>3, <1>4, <2>1, SMT
    <3>2. CASE i < n
      BY <1>1, <1>2, <3>1, <3>2, SMT
    <3>3. CASE ~(i < n)
      <4>1. i - (n - 1) \in 1..(Len(s) - n) /\ n + (i - (n - 1)) = i + 1
        BY <1>1, <3>3, SMT
      <4>2. b[i - (n - 1)] = s[n + (i - (n - 1))]
        BY <1>3, <4>1
      <4>3. ~(i <= n - 1)
        BY <1>1, <3>3, SMT
      <4> QED
        BY <3>1, <3>3, <4>1, <4>2, <4>3
    <3> QED
      BY <3>2, <3>3
  <2>3. r \in Seq(S) /\ Len(r) = Len(a) + Len(b)
    BY <1>4, <2>1
  <2>4. Len(r) = Len(s) - 1
    BY <1>1, <1>2, <1>3, <2>3, SMT
  <2> QED
    BY <2>2, <2>3, <2>4
<1>6. ASSUME Contains(s, x), s[n] # x PROVE Contains(r, x)
  <2>1. PICK i \in 1..Len(s) : s[i] = x
    BY <1>6 DEF Contains
  <2>2. CASE i < n
    BY <1>1, <1>5, <2>1, <2>2, SMT DEF Contains
  <2>3. CASE i > n
    <3>1. i - 1 \in 1..(Len(s) - 1) /\ r[i - 1] = x
      BY <1>1, <1>5, <2>1, <2>3, SMT
    <3> QED
      BY <1>5, <3>1 DEF Contains
  <2> QED
    BY <1>1, <1>6, <2>1, <2>2, <2>3, SMT
<1>7. ASSUME Contains(r, x) PROVE \E i \in 1..Len(s) : i # n /\ s[i] = x
  <2>1. PICK i \in 1..(Len(s) - 1) : r[i] = x
    BY <1>5, <1>7 DEF Contains
  <2> QED
    BY <1>1, <1>5, <2>1, SMT
<1>8. (s[n] = x => Contains(s, x)) /\ (Contains(r, x) => Contains(s, x))
  BY <1>7 DEF Contains
<1>9. ASSUME Once(s, x) PROVE Once(r, x)
  BY <1>1, <1>5, <1>9, SMT DEF Once
<1>10. ASSUME Once(s, x), s[n] = x PROVE ~Contains(r, x)
  BY <1>7, <1>10 DEF Once
<1>11. r \in Seq(S)
  BY <1>5
<1> QED
  BY <1>6, <1>8, <1>9, <1>10, <1>11 DEF r

\* A sequence that holds x once or not at all has that many places of x.
LEMMA PlacesOf ==
  ASSUME NEW S, NEW s \in Seq(S), NEW x, Once(s, x)
  PROVE  Cardinality({i \in 1..Len(s) : s[i] = x}) = IF Contains(s, x) THEN 1 ELSE 0
<1> DEFINE P == {i \in 1..Len(s) : s[i] = x}
<1>1. CASE Contains(s, x)
  <2>1. PICK k \in 1..Len(s) : s[k] = x
    BY <1>1 DEF Contains
  <2>2. P = {k}
    BY <2>1 DEF Once
  <2> QED
    BY <1>1, <2>2, FS_Singleton
<1>2. CASE ~Contains(s, x)
  <2>1. P = {}
    BY <1>2 DEF Contains
  <2> QED
    BY <1>2, <2>1, FS_EmptySet
<1> QED
  BY <1>1, <1>2

-----------------------------------------------------------------------------
(* The channel *)

\* A message is a client's request exactly when it is the one submit() made.
LEMMA Requests ==
  /\ \A c \in Clients : Ask(c) \in TermMsg /\ Ask(c).type = "ClientRequest"
  /\ \A m \in TermMsg, c \in Clients :
       m = Ask(c) <=> m.type = "ClientRequest" /\ m.client = c
  /\ \A m \in TermMsg : m.type = "ClientRequest" =>
       m.client \in Clients /\ m = Ask(m.client)
  /\ \A m \in TermMsg : m.type = "Input" => m.aim \in Clients \cup {Nobody}
  /\ ALog \in TermMsg /\ ALog.type = "Log"
  BY SMT DEF TermMsg, Log, Request, Input, Ask, ALog

\* What a message popped leaves behind, for each client's request.
LEMMA Popped ==
  ASSUME TypeOK, OnePlace, chan # <<>>
  PROVE  /\ Head(chan) \in TermMsg /\ Rest \in Seq(TermMsg) /\ Unpark \in Seq(Senders)
         /\ \A c \in Clients :
              /\ Contains(chan, Ask(c)) <=> Head(chan) = Ask(c) \/ Contains(Rest, Ask(c))
              /\ Once(Rest, Ask(c))
              /\ ~(Head(chan) = Ask(c) /\ Contains(Rest, Ask(c)))
<1>1. chan \in Seq(TermMsg) /\ parked \in Seq(Senders)
  BY DEF TypeOK
<1>2. Head(chan) \in TermMsg /\ Rest \in Seq(TermMsg)
  BY <1>1, HeadTailProperties DEF Rest
<1>3. Unpark \in Seq(Senders)
  BY <1>1, HeadTailProperties DEF Unpark
<1>4. ASSUME NEW c \in Clients
      PROVE  /\ Contains(chan, Ask(c)) <=> Head(chan) = Ask(c) \/ Contains(Rest, Ask(c))
             /\ Once(Rest, Ask(c))
             /\ ~(Head(chan) = Ask(c) /\ Contains(Rest, Ask(c)))
  <2>1. Once(chan, Ask(c))
    BY DEF OnePlace
  <2> QED
    BY <1>1, <2>1, TailHolds DEF Rest
<1> QED
  BY <1>2, <1>3, <1>4

\* A log line or a key popped takes no request along.
LEMMA Passed ==
  ASSUME TypeOK, OnePlace, chan # <<>>, Head(chan).type # "ClientRequest"
  PROVE  \A c \in Clients :
           Once(Rest, Ask(c)) /\ (Contains(Rest, Ask(c)) <=> Contains(chan, Ask(c)))
<1> SUFFICES ASSUME NEW c \in Clients
             PROVE  Once(Rest, Ask(c)) /\ (Contains(Rest, Ask(c)) <=> Contains(chan, Ask(c)))
  OBVIOUS
<1>1. Head(chan) # Ask(c)
  BY Requests
<1> QED
  BY <1>1, Popped

\* A log line or a key sent brings none.
LEMMA Sent ==
  ASSUME NEW q \in Seq(TermMsg), NEW m \in TermMsg, m.type # "ClientRequest",
         NEW c \in Clients, Once(q, Ask(c))
  PROVE  /\ Once(Append(q, m), Ask(c))
         /\ Contains(Append(q, m), Ask(c)) <=> Contains(q, Ask(c))
<1>1. m # Ask(c)
  BY Requests
<1> QED
  BY <1>1, AppendHolds

\* A send keeps the types of the channel and of the parked senders.
LEMMA SendTypes ==
  ASSUME NEW q \in Seq(TermMsg), NEW m \in TermMsg, NEW p \in Seq(Senders),
         NEW s \in Senders, Send(s, m, q, p)
  PROVE  chan' \in Seq(TermMsg) /\ parked' \in Seq(Senders)
  BY AppendProperties DEF Send

\* What the event thread sends for a key.
LEMMA KeyMessage ==
  ASSUME TypeOK, NEW key \in Keys, EventKey(key)
  PROVE  \E m \in TermMsg :
           /\ m.type = "Input" /\ Send("event", m, chan, parked)
           /\ chan' = Append(chan, m) /\ UNCHANGED <<clients, selected, reply>>
           /\ m.current => /\ \A i \in 1..Len(chan) : chan[i].type # "Input"
                          /\ m.aim \in {Highlighted, Nobody}
<1> DEFINE now == /\ key \in Deciding
                  /\ \A i \in 1..Len(chan) : chan[i].type # "Input"
                  /\ shown \in {Highlighted, Nobody}
           aim == IF key \in Deciding THEN shown ELSE Nobody
           m == [type |-> "Input", key |-> key, aim |-> aim, current |-> now]
<1>1. now \in BOOLEAN /\ aim \in Clients \cup {Nobody}
  BY DEF TypeOK
<1>2. Send("event", m, chan, parked) /\ UNCHANGED <<clients, selected, reply>>
  BY DEF EventKey
<1>3. m.current => now
  OBVIOUS
<1>4. now => /\ \A i \in 1..Len(chan) : chan[i].type # "Input"
             /\ aim \in {Highlighted, Nobody}
  OBVIOUS
<1> HIDE DEF now, aim
<1>5. m \in TermMsg /\ m.type = "Input" /\ m.aim = aim
  BY <1>1 DEF TermMsg, Input
<1> HIDE DEF m
<1> QED
  BY <1>2, <1>3, <1>4, <1>5 DEF Send

\* The highlighted request is one of the list, waiting in no other place, and
\* its reply is open.
LEMMA HighlightedIsListed ==
  ASSUME TypeOK, OnePlace, Highlighted # Nobody
  PROVE  /\ selected \in 1..Len(clients) /\ Highlighted = clients[selected]
         /\ Highlighted \in Clients /\ Contains(clients, Highlighted)
         /\ reply[Highlighted] = "open"
<1>1. selected \in 1..Len(clients) /\ Highlighted = clients[selected]
  BY DEF Highlighted
<1>2. Highlighted \in Clients
  BY <1>1, ElementOfSeq DEF TypeOK
<1>3. Contains(clients, Highlighted)
  BY <1>1 DEF Contains
<1> QED
  BY <1>1, <1>2, <1>3 DEF OnePlace

\* Highlighted is a client or nobody.
LEMMA HighlightedType == TypeOK => Highlighted \in Clients \cup {Nobody}
  BY ElementOfSeq DEF TypeOK, Highlighted

-----------------------------------------------------------------------------
(* The inductive invariant *)

\* Nothing was asked yet.
LEMMA InitIInv == Init => IInv
<1> SUFFICES ASSUME Init PROVE IInv
  OBVIOUS
<1>1. /\ <<>> \in Seq(TermMsg) /\ <<>> \in Seq(Senders) /\ <<>> \in Seq(Clients)
      /\ Len(<<>>) = 0
  BY EmptySeq
<1>2. TypeOK
  <2>1. chan \in Seq(TermMsg) /\ parked \in Seq(Senders) /\ clients \in Seq(Clients)
    BY <1>1 DEF Init
  <2>2. /\ reply \in [Clients -> {"none", "open", "yes", "no", "closed"}]
        /\ task \in [Clients -> {"idle", "flush", "wait", "approved", "denied", "failed"}]
    BY DEF Init
  <2> QED
    BY <2>1, <2>2 DEF Init, TypeOK
<1>3. \A x : ~Contains(<<>>, x) /\ Once(<<>>, x)
  BY <1>1, SMT DEF Contains, Once
<1>4. OnePlace
  BY <1>3 DEF Init, OnePlace
<1>5. Unasked
  BY DEF Init, Unasked
<1>6. KeyAims
  BY <1>1, SMT DEF Init, KeyAims, Aims
<1> QED
  BY <1>2, <1>4, <1>5, <1>6 DEF IInv

\* Every step keeps the types.
LEMMA TypeStep ==
  ASSUME TypeOK, OnePlace, Next
  PROVE  TypeOK'
<1>1. CASE RenderInit
  BY <1>1 DEF RenderInit, TypeOK
<1>2. CASE RenderLog \/ RenderOther
  BY <1>2, Popped DEF RenderLog, RenderOther, Pressed, Receives, Pops, TypeOK
<1>3. CASE RenderRequest
  <2>1. Head(chan).client \in Clients
    BY <1>3, Popped, Requests DEF RenderRequest, Receives
  <2>2. clients' \in Seq(Clients)
    BY <1>3, <2>1, AppendProperties DEF RenderRequest, TypeOK
  <2> QED
    BY <1>3, <2>2, Popped DEF RenderRequest, Receives, Pops, TypeOK
<1>4. ASSUME NEW a \in {"yes", "no"}, Highlighted # Nobody, Answer(Highlighted, a)
      PROVE  /\ clients' \in Seq(Clients)
             /\ reply' \in [Clients -> {"none", "open", "yes", "no", "closed"}]
  <2>1. selected \in 1..Len(clients) /\ clients \in Seq(Clients)
    BY <1>4, HighlightedIsListed DEF TypeOK
  <2>2. RemoveAt(clients, selected) \in Seq(Clients)
    BY <2>1, RemoveHolds
  <2> QED
    BY <1>4, <2>2 DEF Answer, TypeOK
<1>5. CASE RenderApprove
  <2>1. chan # <<>> /\ render' = "drawing" /\ UNCHANGED <<shown, task, event, shutdown, selected>>
    BY <1>5 DEF RenderApprove, Pressed, Receives
  <2>2. chan' \in Seq(TermMsg) /\ parked' \in Seq(Senders)
    <3>1. CASE Send("logger", ALog, Rest, Unpark)
      <4>1. "logger" \in Senders
        BY DEF Senders
      <4> QED
        BY <2>1, <3>1, <4>1, Popped, SendTypes, Requests
    <3>2. CASE Pops
      BY <2>1, <3>2, Popped DEF Pops
    <3> QED
      BY <1>5, <3>1, <3>2 DEF RenderApprove
  <2>3. /\ clients' \in Seq(Clients)
        /\ reply' \in [Clients -> {"none", "open", "yes", "no", "closed"}]
    BY <1>4, <1>5 DEF RenderApprove, TypeOK
  <2> QED
    BY <2>1, <2>2, <2>3 DEF TypeOK
<1>6. CASE RenderDeny
  <2>1. chan # <<>> /\ render' = "drawing" /\ UNCHANGED <<shown, task, event, shutdown, selected>>
    BY <1>6 DEF RenderDeny, Pressed, Receives
  <2>2. /\ clients' \in Seq(Clients)
        /\ reply' \in [Clients -> {"none", "open", "yes", "no", "closed"}]
    BY <1>4, <1>6 DEF RenderDeny, TypeOK
  <2> QED
    BY <1>6, <2>1, <2>2, Popped DEF RenderDeny, Pops, TypeOK
<1>7. CASE RenderUp \/ RenderDown
  <2>1. Len(clients) \in Nat /\ selected \in Nat
    BY LenProperties DEF TypeOK
  <2>2. selected' \in Nat
    BY <1>7, <2>1, SMT DEF RenderUp, RenderDown
  <2> QED
    BY <1>7, <2>2, Popped DEF RenderUp, RenderDown, Pressed, Receives, Pops, TypeOK
<1>8. CASE RenderDraw
  BY <1>8, HighlightedType DEF RenderDraw, TypeOK
<1>9. CASE RenderQuit
  BY <1>9, Popped DEF RenderQuit, Pops, TypeOK
<1>10. CASE RenderEnd
  <2>1. <<>> \in Seq(TermMsg) /\ <<>> \in Seq(Senders) /\ <<>> \in Seq(Clients)
    BY EmptySeq
  <2>2. reply' \in [Clients -> {"none", "open", "yes", "no", "closed"}]
    BY <1>10 DEF RenderEnd, TypeOK
  <2>3. render' \in {"ended", "failed"}
    BY <1>10 DEF RenderEnd
  <2> QED
    BY <1>10, <2>1, <2>2, <2>3 DEF RenderEnd, TypeOK
<1>11. CASE EventCheck \/ EventNoKey \/ EventFlushed
  BY <1>11 DEF EventCheck, EventNoKey, EventFlushed, EventGoes, TypeOK
<1>12. ASSUME NEW key \in Keys, EventKey(key) PROVE TypeOK'
  <2>1. PICK m \in TermMsg : Send("event", m, chan, parked)
    BY <1>12, KeyMessage
  <2>2. "event" \in Senders
    BY DEF Senders
  <2>3. chan' \in Seq(TermMsg) /\ parked' \in Seq(Senders)
    BY <2>1, <2>2, SendTypes DEF TypeOK
  <2> QED
    BY <1>12, <2>3 DEF EventKey, TypeOK
<1>13. ASSUME NEW c \in Clients, Submit(c) PROVE TypeOK'
  <2>1. CASE task[c] = "idle" /\ Send(c, Ask(c), chan, parked)
    <3>1. chan' \in Seq(TermMsg) /\ parked' \in Seq(Senders)
      BY <2>1, Requests, SendTypes DEF TypeOK, Senders
    <3> QED
      BY <1>13, <2>1, <3>1 DEF Submit, SubmitGoes, TypeOK
  <2>2. CASE SubmitGoes(c, "idle", "failed")
    BY <2>2 DEF SubmitGoes, TypeOK
  <2> QED
    BY <1>13, <2>1, <2>2 DEF Submit, Ask
<1>14. ASSUME NEW c \in Clients, SubmitFlushed(c) \/ SubmitReturns(c) PROVE TypeOK'
  BY <1>14 DEF SubmitFlushed, SubmitReturns, SubmitGoes, TypeOK
<1>15. CASE WriteLog
  <2>1. chan' \in Seq(TermMsg) /\ parked' \in Seq(Senders)
    BY <1>15, Requests, SendTypes DEF WriteLog, TypeOK, Senders
  <2> QED
    BY <1>15, <2>1 DEF WriteLog, TypeOK
<1> QED
  BY <1>1, <1>2, <1>3, <1>5, <1>6, <1>7, <1>8, <1>9, <1>10, <1>11, <1>12, <1>13,
     <1>14, <1>15 DEF Next, RenderStep

\* Answering the highlighted request takes it from the list, and no other.
LEMMA Answered ==
  ASSUME TypeOK, OnePlace, Highlighted # Nobody,
         NEW a \in {"yes", "no"}, Answer(Highlighted, a), NEW c \in Clients
  PROVE  /\ Once(clients', c)
         /\ Contains(clients', c) <=> Contains(clients, c) /\ c # Highlighted
         /\ reply'[c] = IF c = Highlighted THEN a ELSE reply[c]
<1>1. /\ selected \in 1..Len(clients) /\ Highlighted = clients[selected]
      /\ clients \in Seq(Clients) /\ Once(clients, c)
  BY HighlightedIsListed DEF TypeOK, OnePlace
<1>2. /\ Contains(clients, c) <=> clients[selected] = c \/ Contains(RemoveAt(clients, selected), c)
      /\ Once(RemoveAt(clients, selected), c)
      /\ ~(clients[selected] = c /\ Contains(RemoveAt(clients, selected), c))
  BY <1>1, RemoveHolds
<1>3. clients' = RemoveAt(clients, selected) /\ reply' = [reply EXCEPT ![Highlighted] = a]
  BY DEF Answer
<1>4. reply'[c] = IF c = Highlighted THEN a ELSE reply[c]
  BY <1>3 DEF TypeOK
<1> QED
  BY <1>1, <1>2, <1>3, <1>4

\* Each request stays in one place: it moves from the channel to the list, and
\* leaves the list when it is answered and both when the render thread returns.
LEMMA OnePlaceStep ==
  ASSUME TypeOK, OnePlace, Unasked, Next
  PROVE  OnePlace'
<1> DEFINE P(q, l, r, c) == /\ Once(q, Ask(c)) /\ Once(l, c)
                            /\ ~(Contains(q, Ask(c)) /\ Contains(l, c))
                            /\ r = "open" <=> Contains(q, Ask(c)) \/ Contains(l, c)
<1>1. \A c \in Clients : P(chan, clients, reply[c], c)
  BY DEF OnePlace
<1>2. (\A c \in Clients : P(chan', clients', reply'[c], c)) => OnePlace'
  BY DEF OnePlace, Ask
<1>3. CASE UNCHANGED <<chan, clients, reply>>
  BY <1>1, <1>2, <1>3
<1>4. ASSUME NEW m \in TermMsg, m.type # "ClientRequest", chan' = Append(chan, m),
             UNCHANGED <<clients, reply>>
      PROVE  OnePlace'
  <2>1. chan \in Seq(TermMsg)
    BY DEF TypeOK
  <2> QED
    BY <1>1, <1>2, <1>4, <2>1, Sent
<1>5. CASE /\ chan # <<>> /\ Head(chan).type # "ClientRequest" /\ Pops
           /\ UNCHANGED <<clients, reply>>
  BY <1>1, <1>2, <1>5, Passed DEF Pops
<1>6. CASE RenderLog \/ RenderUp \/ RenderDown \/ RenderOther \/ RenderQuit
  BY <1>5, <1>6
  DEF RenderLog, RenderUp, RenderDown, RenderOther, RenderQuit, Pressed, Receives
<1>7. CASE RenderRequest
  <2> DEFINE d == Head(chan).client
  <2>1. chan # <<>> /\ d \in Clients /\ Head(chan) = Ask(d)
    BY <1>7, Popped, Requests DEF RenderRequest, Receives
  <2>2. chan' = Rest /\ clients' = Append(clients, d) /\ reply' = reply
    BY <1>7 DEF RenderRequest, Pops
  <2> HIDE DEF d
  <2>3. ASSUME NEW c \in Clients PROVE P(chan', clients', reply'[c], c)
    <3>1. Head(chan) = Ask(c) <=> d = c
      BY <2>1, Requests
    <3>2. clients \in Seq(Clients)
      BY DEF TypeOK
    <3>3. /\ Contains(clients', c) <=> Contains(clients, c) \/ d = c
          /\ Once(clients, c) /\ ~(Contains(clients, c) /\ d = c) => Once(clients', c)
      BY <2>1, <2>2, <3>2, AppendHolds
    <3> QED
      BY <1>1, <2>1, <2>2, <3>1, <3>3, Popped
  <2> QED
    BY <1>2, <2>3
<1>8. ASSUME Highlighted # Nobody, NEW a \in {"yes", "no"}, Answer(Highlighted, a),
             \A c \in Clients : Once(chan', Ask(c)) /\ (Contains(chan', Ask(c)) <=> Contains(chan, Ask(c)))
      PROVE  OnePlace'
  <2> SUFFICES ASSUME NEW c \in Clients PROVE P(chan', clients', reply'[c], c)
    BY <1>2
  <2>1. Contains(clients, Highlighted) /\ Highlighted \in Clients
    BY <1>8, HighlightedIsListed
  <2> QED
    BY <1>1, <1>8, <2>1, Answered
<1>9. CASE RenderApprove
  <2>1. chan # <<>> /\ Head(chan).type # "ClientRequest"
    BY <1>9 DEF RenderApprove, Pressed, Receives
  <2>2. CASE Highlighted # Nobody /\ Answer(Highlighted, "yes") /\ Send("logger", ALog, Rest, Unpark)
    <3>1. chan' = Append(Rest, ALog) /\ Rest \in Seq(TermMsg)
      BY <2>1, <2>2, Popped DEF Send
    <3>2. \A c \in Clients : /\ Once(chan', Ask(c))
                             /\ Contains(chan', Ask(c)) <=> Contains(chan, Ask(c))
      BY <2>1, <3>1, Passed, Sent, Requests
    <3> QED
      BY <1>8, <2>2, <3>2
  <2>3. CASE Pops /\ UNCHANGED <<clients, reply>>
    BY <1>5, <2>1, <2>3
  <2> QED
    BY <1>9, <2>2, <2>3 DEF RenderApprove
<1>10. CASE RenderDeny
  <2>1. chan # <<>> /\ Head(chan).type # "ClientRequest" /\ Pops
    BY <1>10 DEF RenderDeny, Pressed, Receives
  <2>2. CASE Highlighted # Nobody /\ Answer(Highlighted, "no")
    <3>1. \A c \in Clients : /\ Once(chan', Ask(c))
                             /\ Contains(chan', Ask(c)) <=> Contains(chan, Ask(c))
      BY <2>1, Passed DEF Pops
    <3> QED
      BY <1>8, <2>2, <3>1
  <2>3. CASE UNCHANGED <<clients, reply>>
    BY <1>5, <2>1, <2>3
  <2> QED
    BY <1>10, <2>2, <2>3 DEF RenderDeny
<1>11. CASE RenderEnd
  <2>1. chan' = <<>> /\ clients' = <<>>
    BY <1>11 DEF RenderEnd
  <2>2. \A x : ~Contains(<<>>, x) /\ Once(<<>>, x)
    <3>1. Len(<<>>) = 0
      BY EmptySeq
    <3> QED
      BY <3>1, SMT DEF Contains, Once
  <2>3. ASSUME NEW c \in Clients PROVE reply'[c] # "open"
    <3>1. Contains(chan, Ask(c)) => \E i \in 1..Len(chan) :
            chan[i].type = "ClientRequest" /\ chan[i].client = c
      BY Requests DEF Contains
    <3>2. CASE Contains(clients, c) \/ Contains(chan, Ask(c))
      <4>1. reply'[c] = "closed"
        BY <1>11, <3>1, <3>2 DEF RenderEnd
      <4> QED
        BY <4>1
    <3>3. CASE ~(Contains(clients, c) \/ Contains(chan, Ask(c)))
      <4>1. reply[c] # "open"
        BY <1>1, <3>3
      <4>2. reply'[c] \in {"closed", reply[c]}
        BY <1>11 DEF RenderEnd
      <4> QED
        BY <4>1, <4>2
    <3> QED
      BY <3>2, <3>3
  <2> QED
    BY <1>2, <2>1, <2>2, <2>3
<1>12. ASSUME NEW key \in Keys, EventKey(key) PROVE OnePlace'
  <2>1. PICK m \in TermMsg :
          /\ m.type = "Input" /\ chan' = Append(chan, m) /\ UNCHANGED <<clients, reply>>
    BY <1>12, KeyMessage
  <2> QED
    BY <1>4, <2>1
<1>13. ASSUME NEW d \in Clients, Submit(d) PROVE OnePlace'
  <2>1. CASE task[d] = "idle" /\ Send(d, Ask(d), chan, parked) /\ reply' = [reply EXCEPT ![d] = "open"] /\ UNCHANGED clients
    <3>1. chan' = Append(chan, Ask(d)) /\ chan \in Seq(TermMsg) /\ Ask(d) \in TermMsg
      BY <2>1, Requests DEF Send, TypeOK
    <3>2. reply[d] = "none"
      BY <2>1 DEF Unasked
    <3>3. ASSUME NEW c \in Clients PROVE P(chan', clients', reply'[c], c)
      <4>1. Ask(d) = Ask(c) <=> d = c
        BY Requests
      <4>2. reply'[c] = IF c = d THEN "open" ELSE reply[c]
        BY <2>1 DEF TypeOK
      <4>3. /\ Contains(chan', Ask(c)) <=> Contains(chan, Ask(c)) \/ d = c
            /\ Once(chan, Ask(c)) /\ ~(Contains(chan, Ask(c)) /\ d = c) => Once(chan', Ask(c))
        BY <3>1, <4>1, AppendHolds
      <4> QED
        BY <1>1, <2>1, <3>2, <4>2, <4>3
    <3> QED
      BY <1>2, <3>3
  <2>2. CASE SubmitGoes(d, "idle", "failed")
    BY <1>3, <2>2 DEF SubmitGoes
  <2> QED
    BY <1>13, <2>1, <2>2 DEF Submit, Ask
<1>14. CASE WriteLog
  <2>1. chan' = Append(chan, ALog) /\ UNCHANGED <<clients, reply>>
    BY <1>14 DEF WriteLog, Send
  <2> QED
    BY <1>4, <2>1, Requests
<1>15. CASE \/ RenderInit \/ RenderDraw \/ EventCheck \/ EventNoKey \/ EventFlushed
            \/ \E c \in Clients : SubmitFlushed(c) \/ SubmitReturns(c)
  BY <1>3, <1>15
  DEF RenderInit, RenderDraw, EventCheck, EventNoKey, EventFlushed, EventGoes,
      SubmitFlushed, SubmitReturns, SubmitGoes
<1> QED
  BY <1>6, <1>7, <1>9, <1>10, <1>11, <1>12, <1>13, <1>14, <1>15 DEF Next, RenderStep

\* Nothing asks for a client but its own submit().
LEMMA UnaskedStep ==
  ASSUME TypeOK, OnePlace, Unasked, Next
  PROVE  Unasked'
<1> SUFFICES ASSUME NEW c \in Clients, task'[c] = "idle" PROVE reply'[c] = "none"
  BY DEF Unasked
<1>1. task[c] = "idle" /\ reply[c] = "none" => ~Contains(clients, c) /\ ~Contains(chan, Ask(c))
  BY DEF OnePlace
<1>2. CASE RenderStep
  <2>1. task' = task
    BY <1>2 DEF RenderStep, RenderInit, RenderLog, RenderRequest, RenderApprove, RenderDeny,
       RenderUp, RenderDown, RenderOther, RenderDraw, RenderQuit, RenderEnd, Pressed, Receives
  <2>2. reply[c] = "none" /\ ~Contains(clients, c) /\ ~Contains(chan, Ask(c))
    BY <1>1, <2>1 DEF Unasked
  <2>3. CASE RenderEnd
    <3>1. ASSUME NEW i \in 1..Len(chan), chan[i].type = "ClientRequest", chan[i].client = c
          PROVE  FALSE
      <4>1. chan[i] \in TermMsg
        BY ElementOfSeq DEF TypeOK
      <4> QED
        BY <2>2, <3>1, <4>1, Requests DEF Contains
    <3> QED
      BY <2>2, <2>3, <3>1 DEF RenderEnd
  <2>4. ASSUME NEW a \in {"yes", "no"}, Highlighted # Nobody, Answer(Highlighted, a)
        PROVE  reply'[c] = "none"
    <3>1. c # Highlighted
      BY <2>2, <2>4, HighlightedIsListed
    <3> QED
      BY <2>2, <2>4, <3>1, Answered
  <2>5. CASE UNCHANGED reply
    BY <2>2, <2>5
  <2> QED
    BY <1>2, <2>3, <2>4, <2>5
    DEF RenderStep, RenderInit, RenderLog, RenderRequest, RenderApprove, RenderDeny,
        RenderUp, RenderDown, RenderOther, RenderDraw, RenderQuit
<1>3. CASE UNCHANGED <<task, reply>>
  BY <1>3 DEF Unasked
<1>4. CASE \/ EventCheck \/ EventNoKey \/ EventFlushed \/ WriteLog
           \/ \E key \in Keys : EventKey(key)
  BY <1>3, <1>4 DEF EventCheck, EventNoKey, EventFlushed, EventGoes, EventKey, WriteLog
<1>5. ASSUME NEW d \in Clients, Submit(d) \/ SubmitFlushed(d) \/ SubmitReturns(d)
      PROVE  reply'[c] = "none"
  <2>1. task'[d] # "idle"
    BY <1>5 DEF Submit, SubmitFlushed, SubmitReturns, SubmitGoes, TypeOK
  <2>2. c # d
    BY <2>1
  <2>3. task'[c] = task[c] /\ reply'[c] = reply[c]
    BY <1>5, <2>2 DEF Submit, SubmitFlushed, SubmitReturns, SubmitGoes, TypeOK
  <2> QED
    BY <2>3 DEF Unasked
<1> QED
  BY <1>2, <1>4, <1>5 DEF Next

\* A key waits on while log lines and requests before it are handled: they
\* leave the highlighted request alone, if there is one.
LEMMA AimsPop ==
  ASSUME NEW q \in Seq(TermMsg), q # <<>>, NEW h, NEW g, Aims(q, h),
         Head(q).type = "Input" \/ h = Nobody \/ g = h
  PROVE  Aims(Tail(q), g)
<1>1. Len(q) \in Nat \ {0}
  BY EmptySeq
<1>2. /\ Head(q) = q[1] /\ Len(Tail(q)) = Len(q) - 1
      /\ \A i \in 1..(Len(q) - 1) : Tail(q)[i] = q[i + 1]
  BY <1>1, HeadTailProperties, SMT
<1> SUFFICES ASSUME NEW i \in 1..Len(Tail(q)), Tail(q)[i].type = "Input",
                    Tail(q)[i].current, Tail(q)[i].aim # Nobody
             PROVE  /\ Tail(q)[i].aim = g
                    /\ \A j \in 1..(i - 1) : Tail(q)[j].type # "Input"
  BY DEF Aims
<1>3. i \in Nat /\ i + 1 \in 1..Len(q) /\ Tail(q)[i] = q[i + 1]
  BY <1>1, <1>2, SMT
<1>4. q[i + 1].aim = h /\ \A j \in 1..((i + 1) - 1) : q[j].type # "Input"
  BY <1>3 DEF Aims
<1>5. q[1].type # "Input" /\ h # Nobody
  <2>1. 1 \in 1..((i + 1) - 1)
    BY <1>3, SMT
  <2> QED
    BY <1>3, <1>4, <2>1
<1>6. ASSUME NEW j \in 1..(i - 1) PROVE Tail(q)[j].type # "Input"
  <2>1. j \in 1..(Len(q) - 1) /\ j + 1 \in 1..((i + 1) - 1)
    BY <1>1, <1>2, <1>3, SMT
  <2> QED
    BY <1>2, <1>4, <2>1
<1> QED
  BY <1>2, <1>3, <1>4, <1>5, <1>6

\* What is sent does not disturb the keys before it; a key sent with the
\* screen up to date is the first and aims at the highlighted request.
LEMMA AimsAppend ==
  ASSUME NEW q \in Seq(TermMsg), NEW m \in TermMsg, NEW h, Aims(q, h),
         m.type = "Input" /\ m.current =>
           m.aim \in {h, Nobody} /\ \A i \in 1..Len(q) : q[i].type # "Input"
  PROVE  Aims(Append(q, m), h)
<1>1. /\ Len(q) \in Nat /\ Len(Append(q, m)) = Len(q) + 1
      /\ Append(q, m)[Len(q) + 1] = m
      /\ \A i \in 1..Len(q) : Append(q, m)[i] = q[i]
  BY AppendProperties, LenProperties
<1> DEFINE r == Append(q, m)
<1> HIDE DEF r
<1> SUFFICES ASSUME NEW i \in 1..(Len(q) + 1), r[i].type = "Input",
                    r[i].current, r[i].aim # Nobody
             PROVE  r[i].aim = h /\ \A j \in 1..(i - 1) : r[j].type # "Input"
  BY <1>1 DEF Aims, r
<1>2. \A j \in 1..Len(q) : r[j] = q[j]
  BY <1>1 DEF r
<1>3. r[Len(q) + 1] = m
  BY <1>1 DEF r
<1>4. CASE i \in 1..Len(q)
  <2>1. q[i].aim = h /\ \A j \in 1..(i - 1) : q[j].type # "Input"
    BY <1>2, <1>4 DEF Aims
  <2>2. \A j \in 1..(i - 1) : j \in 1..Len(q)
    BY <1>1, <1>4, SMT
  <2> QED
    BY <1>2, <1>4, <2>1, <2>2
<1>5. CASE i = Len(q) + 1
  <2>1. m.aim = h /\ \A j \in 1..Len(q) : q[j].type # "Input"
    BY <1>3, <1>5
  <2>2. 1..(i - 1) = 1..Len(q)
    BY <1>1, <1>5, SMT
  <2> QED
    BY <1>2, <1>3, <1>5, <2>1, <2>2
<1>6. i \in 1..Len(q) \/ i = Len(q) + 1
  BY <1>1, SMT
<1> QED
  BY <1>4, <1>5, <1>6

\* A key pressed with the screen up to date keeps its aim while it waits.
LEMMA KeyAimsStep ==
  ASSUME TypeOK, OnePlace, KeyAims, Next
  PROVE  KeyAims'
<1> DEFINE H == Highlighted
<1>1. Aims(chan, H) /\ chan \in Seq(TermMsg)
  BY DEF KeyAims, TypeOK
<1>2. Aims(chan', H') => KeyAims'
  BY DEF KeyAims, Aims
<1>3. UNCHANGED <<clients, selected>> => H' = H
  BY DEF Highlighted
<1> HIDE DEF H
<1>4. CASE UNCHANGED <<chan, clients, selected>>
  BY <1>1, <1>2, <1>3, <1>4
<1>5. ASSUME chan # <<>>, chan' = Rest, Head(chan).type = "Input" \/ H = Nobody \/ H' = H
      PROVE  KeyAims'
  BY <1>1, <1>2, <1>5, AimsPop DEF Rest
<1>6. ASSUME NEW m \in TermMsg, chan' = Append(chan, m), UNCHANGED <<clients, selected>>,
             m.type = "Input" /\ m.current =>
               m.aim \in {H, Nobody} /\ \A i \in 1..Len(chan) : chan[i].type # "Input"
      PROVE  KeyAims'
  BY <1>1, <1>2, <1>3, <1>6, AimsAppend
<1>7. CASE RenderLog
  BY <1>3, <1>5, <1>7 DEF RenderLog, Receives, Pops
<1>8. CASE RenderRequest
  <2>1. chan # <<>> /\ chan' = Rest /\ selected' = selected
    BY <1>8 DEF RenderRequest, Receives, Pops
  <2>2. H # Nobody => H' = H
    <3>1. ASSUME H # Nobody PROVE H' = H
      <4> DEFINE d == Head(chan).client
      <4>1. clients' = Append(clients, d) /\ clients \in Seq(Clients) /\ d \in Clients
        BY <1>8, Popped, Requests DEF RenderRequest, Receives, TypeOK
      <4>2. selected \in 1..Len(clients) /\ H = clients[selected]
        BY <3>1 DEF H, Highlighted
      <4> HIDE DEF d
      <4>3. /\ Len(clients) \in Nat /\ Len(clients') = Len(clients) + 1
            /\ clients'[selected] = clients[selected]
        BY <4>1, <4>2, AppendProperties, LenProperties
      <4>4. selected' \in 1..Len(clients')
        BY <2>1, <4>2, <4>3, SMT
      <4> QED
        BY <2>1, <4>2, <4>3, <4>4 DEF H, Highlighted
    <3> QED
      BY <3>1
  <2> QED
    BY <1>5, <2>1, <2>2
<1>9. CASE RenderApprove
  <2>1. chan # <<>> /\ Head(chan).type = "Input"
    BY <1>9 DEF RenderApprove, Pressed, Receives
  <2>2. CASE Send("logger", ALog, Rest, Unpark)
    <3>1. chan' = Append(Rest, ALog) /\ Rest \in Seq(TermMsg)
      BY <2>1, <2>2, Popped DEF Send
    <3>2. Aims(Rest, H')
      BY <1>1, <2>1, AimsPop DEF Rest
    <3>3. Aims(Append(Rest, ALog), H')
      BY <3>1, <3>2, AimsAppend, Requests
    <3> QED
      BY <1>2, <3>1, <3>3
  <2>3. CASE Pops
    BY <1>5, <2>1, <2>3 DEF Pops
  <2> QED
    BY <1>9, <2>2, <2>3 DEF RenderApprove
<1>10. CASE RenderDeny \/ RenderUp \/ RenderDown \/ RenderOther \/ RenderQuit
  BY <1>5, <1>10
  DEF RenderDeny, RenderUp, RenderDown, RenderOther, RenderQuit, Pressed, Receives, Pops
<1>11. CASE RenderEnd
  <2>1. chan' = <<>> /\ Len(<<>>) = 0
    BY <1>11, EmptySeq DEF RenderEnd
  <2>2. Aims(<<>>, H')
    BY <2>1, SMT DEF Aims
  <2> QED
    BY <1>2, <2>1, <2>2
<1>12. ASSUME NEW key \in Keys, EventKey(key) PROVE KeyAims'
  <2>1. PICK m \in TermMsg :
          /\ chan' = Append(chan, m) /\ UNCHANGED <<clients, selected>>
          /\ m.current => /\ \A i \in 1..Len(chan) : chan[i].type # "Input"
                          /\ m.aim \in {H, Nobody}
    BY <1>12, KeyMessage DEF H
  <2> QED
    BY <1>6, <2>1
<1>13. CASE WriteLog
  <2>1. chan' = Append(chan, ALog) /\ UNCHANGED <<clients, selected>>
    BY <1>13 DEF WriteLog, Send
  <2> QED
    BY <1>6, <2>1, Requests
<1>14. ASSUME NEW c \in Clients, Submit(c) PROVE KeyAims'
  <2>1. CASE Send(c, Ask(c), chan, parked) /\ UNCHANGED <<clients, selected>>
    <3>1. chan' = Append(chan, Ask(c)) /\ Ask(c) \in TermMsg /\ Ask(c).type # "Input"
      BY <2>1, Requests DEF Send
    <3> HIDE DEF Ask
    <3> QED
      BY <1>6, <2>1, <3>1
  <2>2. CASE SubmitGoes(c, "idle", "failed")
    BY <1>4, <2>2 DEF SubmitGoes
  <2> QED
    BY <1>14, <2>1, <2>2 DEF Submit, Ask
<1>15. CASE \/ RenderInit \/ RenderDraw \/ EventCheck \/ EventNoKey \/ EventFlushed
            \/ \E c \in Clients : SubmitFlushed(c) \/ SubmitReturns(c)
  BY <1>4, <1>15
  DEF RenderInit, RenderDraw, EventCheck, EventNoKey, EventFlushed, EventGoes,
      SubmitFlushed, SubmitReturns, SubmitGoes
<1> QED
  BY <1>7, <1>8, <1>9, <1>10, <1>11, <1>12, <1>13, <1>14, <1>15 DEF Next, RenderStep

\* A step that changes nothing keeps everything.
LEMMA Stutters == IInv /\ UNCHANGED vars => IInv'
  BY DEF IInv, TypeOK, OnePlace, Unasked, KeyAims, Aims, Highlighted, Ask, vars

\* The invariant holds in every state, whatever the operator and the clients do.
THEOREM InductiveInvariant == Spec => []IInv
<1>1. IInv /\ [Next]_vars => IInv'
  <2> SUFFICES ASSUME IInv, [Next]_vars PROVE IInv'
    OBVIOUS
  <2>1. CASE Next
    BY <2>1, TypeStep, OnePlaceStep, UnaskedStep, KeyAimsStep DEF IInv
  <2>2. CASE UNCHANGED vars
    BY <2>2, Stutters
  <2> QED
    BY <2>1, <2>2
<1> QED
  BY <1>1, InitIInv, PTL DEF Spec

\* Every variable of the terminal UI keeps its type.
THEOREM TypeCorrect == Spec => []TypeOK
<1>1. IInv => TypeOK
  BY DEF IInv
<1> QED
  BY <1>1, InductiveInvariant, PTL

\* A request is in the channel or in the list, once, until its reply is decided
\* or dropped, and in neither after that: none is answered twice or forgotten.
THEOREM OnePlaceEach == Spec => []RequestInOnePlace
<1>1. IInv => RequestInOnePlace
  <2> SUFFICES ASSUME IInv PROVE RequestInOnePlace
    OBVIOUS
  <2> DEFINE inChan(c) == {i \in 1..Len(chan) :
                             chan[i].type = "ClientRequest" /\ chan[i].client = c}
             inList(c) == {i \in 1..Len(clients) : clients[i] = c}
  <2>1. chan \in Seq(TermMsg) /\ clients \in Seq(Clients)
    BY DEF IInv, TypeOK
  <2>2. ASSUME NEW c \in Clients
        PROVE  Cardinality(inChan(c)) + Cardinality(inList(c))
                 = IF reply[c] = "open" THEN 1 ELSE 0
    <3>1. /\ Once(chan, Ask(c)) /\ Once(clients, c)
          /\ ~(Contains(chan, Ask(c)) /\ Contains(clients, c))
          /\ reply[c] = "open" <=> Contains(chan, Ask(c)) \/ Contains(clients, c)
      BY DEF IInv, OnePlace
    <3>2. inChan(c) = {i \in 1..Len(chan) : chan[i] = Ask(c)}
      BY <2>1, ElementOfSeq, Requests
    <3>3. Cardinality(inChan(c)) = IF Contains(chan, Ask(c)) THEN 1 ELSE 0
      BY <2>1, <3>1, <3>2, PlacesOf
    <3>4. Cardinality(inList(c)) = IF Contains(clients, c) THEN 1 ELSE 0
      BY <2>1, <3>1, PlacesOf
    <3> HIDE DEF inChan, inList
    <3> QED
      BY <3>1, <3>3, <3>4, SMT
  <2> QED
    BY <2>2 DEF RequestInOnePlace
<1> QED
  BY <1>1, InductiveInvariant, PTL

\* A key read while one request was highlighted, with the effect of all keys
\* before it on the screen, decides that request and no other.
THEOREM DecidesShown == Spec => DecidesWhatWasShown
<1> DEFINE D == \A c \in Clients :
                  reply[c] = "open" /\ reply'[c] \in {"yes", "no"} =>
                    LET m == Head(chan) IN m.current /\ m.aim # Nobody => m.aim = c
<1>1. IInv /\ [Next]_vars => [D]_vars
  <2> SUFFICES ASSUME IInv, Next,
                      NEW c \in Clients, reply[c] = "open", reply'[c] \in {"yes", "no"},
                      Head(chan).current, Head(chan).aim # Nobody
               PROVE  Head(chan).aim = c
    OBVIOUS
  <2>1. TypeOK /\ OnePlace /\ KeyAims
    BY DEF IInv
  <2>2. reply[c] # reply'[c]
    OBVIOUS
  <2>3. ASSUME NEW d \in Clients, Submit(d) \/ SubmitFlushed(d) \/ SubmitReturns(d)
        PROVE  FALSE
    BY <2>1, <2>3 DEF Submit, SubmitFlushed, SubmitReturns, SubmitGoes, TypeOK
  <2>4. ~(EventCheck \/ EventNoKey \/ EventFlushed \/ WriteLog \/ \E key \in Keys : EventKey(key))
    BY <2>2 DEF EventCheck, EventNoKey, EventFlushed, EventGoes, EventKey, WriteLog
  <2>5. ~RenderEnd
    BY <2>2 DEF RenderEnd
  <2>6. RenderApprove \/ RenderDeny
    BY <2>2, <2>3, <2>4, <2>5
    DEF Next, RenderStep, RenderInit, RenderLog, RenderRequest, RenderUp, RenderDown,
        RenderOther, RenderDraw, RenderQuit
  <2>7. chan # <<>> /\ Head(chan).type = "Input"
    BY <2>6 DEF RenderApprove, RenderDeny, Pressed, Receives
  <2>8. Head(chan) = chan[1] /\ 1 \in 1..Len(chan)
    <3>1. Len(chan) \in Nat \ {0}
      BY <2>1, <2>7, EmptySeq DEF TypeOK
    <3> QED
      BY <2>1, <2>7, <3>1, SMT DEF TypeOK
  <2>9. Head(chan).aim = Highlighted
    BY <2>1, <2>7, <2>8 DEF KeyAims, Aims
  <2>10. PICK a \in {"yes", "no"} : Highlighted # Nobody /\ Answer(Highlighted, a)
    BY <2>2, <2>6 DEF RenderApprove, RenderDeny
  <2> QED
    BY <2>1, <2>2, <2>9, <2>10, Answered
<1> QED
  BY <1>1, InductiveInvariant, PTL DEF DecidesWhatWasShown, Spec

-----------------------------------------------------------------------------
(* The terminal UI implements Approval *)

\* Approval's status of every request.
Statuses == [c \in Clients |-> Outcome(reply[c], task[c])]

\* Requests whose outcome does not change, under an operator who stays or is
\* gone as before, are a step that Approval does not see.
LEMMA SameOutcome ==
  ASSUME \A c \in Clients : Outcome(reply'[c], task'[c]) = Outcome(reply[c], task[c]),
         Gone' = Gone
  PROVE  UNCHANGED A!vars
<1>1. Statuses' = Statuses
  BY DEF Statuses
<1> QED
  BY <1>1 DEF A!vars, Statuses

\* The outcome of one request changes.
LEMMA OneOutcome ==
  ASSUME NEW d \in Clients, NEW o, Outcome(reply'[d], task'[d]) = o,
         \A c \in Clients \ {d} : Outcome(reply'[c], task'[c]) = Outcome(reply[c], task[c])
  PROVE  Statuses' = [Statuses EXCEPT ![d] = o]
  BY DEF Statuses

\* While the screen is there, an open reply is pending.
LEMMA Outcomes ==
  /\ \A t : /\ Outcome("open", t) = "pending" /\ Outcome("yes", t) = "approved"
            /\ Outcome("no", t) = "denied" /\ Outcome("closed", t) = "dropped"
  /\ \A t : t # "failed" => Outcome("none", t) = "none"
  /\ Outcome("none", "failed") = "dropped"
  BY DEF Outcome

\* Each step of the render thread, of the event thread and of the writers is a
\* step of Approval or changes nothing that it sees.
LEMMA ImplementsNext ==
  ASSUME IInv, Next
  PROVE  [A!Next]_A!vars
<1>1. TypeOK /\ OnePlace /\ Unasked
  BY DEF IInv
<1>2. ASSUME UNCHANGED <<reply, task>>, Gone' = Gone PROVE UNCHANGED A!vars
  BY <1>2, SameOutcome
<1>3. ASSUME ~Gone, ~Gone', UNCHANGED task, Highlighted # Nobody,
             NEW a \in {"yes", "no"}, Answer(Highlighted, a)
      PROVE  A!Next
  <2> DEFINE d == Highlighted
             o == IF a = "yes" THEN "approved" ELSE "denied"
  <2>1. d \in Clients /\ reply[d] = "open"
    BY <1>1, <1>3, HighlightedIsListed
  <2>2. \A c \in Clients : reply'[c] = IF c = d THEN a ELSE reply[c]
    BY <1>1, <1>3, Answered
  <2>3. Outcome(reply'[d], task'[d]) = o
    BY <2>1, <2>2, Outcomes
  <2>4. \A c \in Clients \ {d} : Outcome(reply'[c], task'[c]) = Outcome(reply[c], task[c])
    BY <1>3, <2>2
  <2> HIDE DEF d
  <2>5. Statuses' = [Statuses EXCEPT ![d] = o]
    BY <2>1, <2>3, <2>4, OneOutcome
  <2>6. Statuses[d] = "pending" /\ o \in {"approved", "denied"}
    BY <2>1, Outcomes DEF Statuses
  <2> HIDE DEF o
  <2>7. A!Decide(d)
    BY <1>3, <2>5, <2>6 DEF A!Decide, Statuses
  <2> QED
    BY <2>1, <2>7 DEF A!Next
<1>4. CASE RenderApprove \/ RenderDeny
  <2>1. ~Gone /\ ~Gone' /\ UNCHANGED task
    BY <1>4 DEF RenderApprove, RenderDeny, Pressed, Receives, Gone
  <2>2. CASE UNCHANGED reply
    <3>1. Gone' = Gone
      BY <2>1 DEF Gone
    <3> QED
      BY <1>2, <2>1, <2>2, <3>1
  <2>3. CASE \E a \in {"yes", "no"} : Highlighted # Nobody /\ Answer(Highlighted, a)
    BY <1>3, <2>1, <2>3
  <2>4. UNCHANGED reply \/ \E a \in {"yes", "no"} : Highlighted # Nobody /\ Answer(Highlighted, a)
    BY <1>4 DEF RenderApprove, RenderDeny
  <2> QED
    BY <2>2, <2>3, <2>4
<1>5. CASE RenderEnd
  <2>1. ~Gone /\ Gone' /\ UNCHANGED task
    BY <1>5 DEF RenderEnd, Gone
  <2>2. ASSUME NEW c \in Clients
        PROVE  reply'[c] = IF reply[c] = "open" THEN "closed" ELSE reply[c]
    <3>1. Contains(chan, Ask(c)) <=> \E i \in 1..Len(chan) :
            chan[i].type = "ClientRequest" /\ chan[i].client = c
      BY <1>1, ElementOfSeq, Requests DEF Contains, TypeOK
    <3>2. reply[c] = "open" <=> Contains(chan, Ask(c)) \/ Contains(clients, c)
      BY <1>1 DEF OnePlace
    <3> QED
      BY <1>5, <3>1, <3>2 DEF RenderEnd
  <2>3. \A c \in Clients : reply[c] \in {"none", "open", "yes", "no", "closed"}
    BY <1>1 DEF TypeOK
  <2>4. ASSUME NEW c \in Clients
        PROVE  Statuses'[c] = IF Statuses[c] = "pending" THEN "dropped" ELSE Statuses[c]
    BY <2>1, <2>2, <2>3 DEF Statuses, Outcome
  <2>5. Statuses' = [c \in Clients |-> IF Statuses[c] = "pending" THEN "dropped" ELSE Statuses[c]]
    BY <2>4 DEF Statuses
  <2> QED
    BY <2>1, <2>5 DEF A!Next, A!Close, Statuses
<1>6. ASSUME NEW d \in Clients, Submit(d) PROVE A!Next
  <2>1. task[d] = "idle" /\ reply[d] = "none" /\ Statuses[d] = "none"
    BY <1>1, <1>6, Outcomes DEF Submit, SubmitGoes, Unasked, Statuses
  <2>2. Gone' = Gone
    BY <1>6 DEF Submit, SubmitGoes, Gone
  <2>3. \A c \in Clients \ {d} : reply'[c] = reply[c] /\ task'[c] = task[c]
    BY <1>1, <1>6 DEF Submit, SubmitGoes, TypeOK
  <2>4. CASE ~Gone
    <3>1. reply'[d] = "open"
      BY <1>1, <1>6, <2>4 DEF Submit, TypeOK
    <3>2. Statuses' = [Statuses EXCEPT ![d] = "pending"]
      BY <2>3, <3>1, OneOutcome, Outcomes
    <3> QED
      BY <2>1, <2>2, <2>4, <3>2 DEF A!Next, A!Submit, Statuses
  <2>5. CASE Gone
    <3>1. reply'[d] = "none" /\ task'[d] = "failed"
      BY <1>1, <1>6, <2>1, <2>5 DEF Submit, SubmitGoes, TypeOK
    <3>2. Statuses' = [Statuses EXCEPT ![d] = "dropped"]
      BY <2>3, <3>1, OneOutcome, Outcomes
    <3> QED
      BY <2>1, <2>2, <2>5, <3>2 DEF A!Next, A!Submit, Statuses
  <2> QED
    BY <2>4, <2>5
<1>7. ASSUME NEW d \in Clients, SubmitFlushed(d) \/ SubmitReturns(d)
      PROVE  UNCHANGED A!vars
  <2>1. Gone' = Gone /\ reply' = reply
    BY <1>7 DEF SubmitFlushed, SubmitReturns, SubmitGoes, Gone
  <2>2. \A c \in Clients \ {d} : task'[c] = task[c]
    BY <1>1, <1>7 DEF SubmitFlushed, SubmitReturns, SubmitGoes, TypeOK
  <2>3. Outcome(reply'[d], task'[d]) = Outcome(reply[d], task[d])
    BY <1>1, <1>7 DEF SubmitFlushed, SubmitReturns, SubmitGoes, TypeOK, Outcome
  <2> QED
    BY <2>1, <2>2, <2>3, SameOutcome
<1>8. CASE \/ RenderInit \/ RenderLog \/ RenderRequest \/ RenderUp \/ RenderDown
           \/ RenderOther \/ RenderDraw \/ RenderQuit
  <2>1. UNCHANGED <<reply, task>> /\ ~Gone /\ ~Gone'
    BY <1>8
    DEF RenderInit, RenderLog, RenderRequest, RenderUp, RenderDown, RenderOther,
        RenderDraw, RenderQuit, Pressed, Receives, Gone
  <2>2. Gone' = Gone
    BY <2>1 DEF Gone
  <2> QED
    BY <1>2, <2>1, <2>2
<1>9. CASE \/ EventCheck \/ EventNoKey \/ EventFlushed \/ WriteLog
           \/ \E key \in Keys : EventKey(key)
  <2>1. UNCHANGED <<reply, task, render>>
    BY <1>9 DEF EventCheck, EventNoKey, EventFlushed, EventGoes, EventKey, WriteLog
  <2>2. Gone' = Gone
    BY <2>1 DEF Gone
  <2> QED
    BY <1>2, <2>1, <2>2
<1> QED
  BY <1>4, <1>5, <1>6, <1>7, <1>8, <1>9 DEF Next, RenderStep

\* The terminal UI keeps what ClientApprover::submit promises: a request is
\* decided at most once, while the render thread is there, and all that are
\* pending are dropped when it returns.
THEOREM ApprovalImplemented == Spec => ImplementsApproval
<1>1. Init => A!Init
  BY Outcomes DEF Init, A!Init, Gone
<1>2. IInv /\ [Next]_vars => [A!Next]_A!vars
  <2>1. UNCHANGED vars => UNCHANGED A!vars
    BY SameOutcome DEF vars, Gone
  <2> QED
    BY <2>1, ImplementsNext
<1> QED
  BY <1>1, <1>2, InductiveInvariant, PTL DEF Spec, ImplementsApproval, A!Spec
=============================================================================
