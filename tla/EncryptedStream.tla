--------------------------- MODULE EncryptedStream ---------------------------
(***************************************************************************)
(* An encrypted transfer after the key exchange: the server copies the     *)
(* file into an EncryptedWriteStream (src/src/encrypted_stream/server.rs), *)
(* the client copies an EncryptedReadStream (client.rs) into its file, and *)
(* TCP is between them.                                                    *)
(*                                                                         *)
(* A frame is one header cell, which stands for the two length bytes, and  *)
(* Body cells of ciphertext.  The poll functions start a new send or recv  *)
(* future at each call, poll it once, and drop it when it is pending: what *)
(* it had written or read by then is not taken up again.  Decryption is    *)
(* ideal: a body decrypts only if it is the whole body of the frame with   *)
(* the nonce the client expects.                                           *)
(***************************************************************************)
EXTENDS Naturals, Sequences

CONSTANTS
  Chunks,     \* the file, in chunks of what copy() reads at once (8 KiB)
  Body,       \* cells of ciphertext in a frame
  SockBuf,    \* cells the server's socket holds before a write must wait
  MaxNonce    \* bound: frames the server encrypts

ASSUME SizesAssumption ==
  /\ Chunks \in Nat /\ MaxNonce \in Nat
  /\ Body \in Nat \ {0} /\ SockBuf \in Nat \ {0}

VARIABLES
  srv,        \* the server's copy()
  next,       \* the chunk it is at
  nonce,      \* the server's nonce: frames encrypted so far
  sock,       \* cells accepted by the server's socket and not arrived yet
  inbox,      \* cells that arrived at the client and were not read
  link,       \* the connection: "up", closed by the server, or reset
  cli,        \* the client's copy()
  expected,   \* the client's nonce: frames decrypted so far
  got,        \* the chunks written to the client's file
  torn        \* what a dropped future tore: {} until it happens

srvVars == <<srv, next, nonce>>
cliVars == <<cli, expected, got>>
vars == <<srvVars, sock, inbox, link, cliVars, torn>>

Cell == [nonce : 0..(MaxNonce - 1), chunk : 1..Chunks, pos : 0..Body]

\* The frame for a chunk: position 0 is the header.
Frame(n, k) == [i \in 1..(Body + 1) |-> [nonce |-> n, chunk |-> k, pos |-> i - 1]]

TypeOK ==
  /\ srv \in {"copy", "blocked", "done", "err", "gone"}
  /\ next \in 1..(Chunks + 1) /\ nonce \in 0..MaxNonce
  /\ sock \in Seq(Cell) /\ Len(sock) <= SockBuf
  /\ inbox \in Seq(Cell)
  /\ link \in {"up", "closed", "reset"}
  /\ cli \in {"copy", "blocked", "eof", "err", "panic"}
  /\ expected \in 0..MaxNonce
  /\ got \in Seq(1..Chunks)
  /\ torn \in SUBSET {"write", "read"}

Init ==
  /\ srv = "copy" /\ next = 1 /\ nonce = 0
  /\ sock = <<>> /\ inbox = <<>> /\ link = "up"
  /\ cli = "copy" /\ expected = 0 /\ got = <<>>
  /\ torn = {}

-----------------------------------------------------------------------------
(* EncryptedWriteStream::poll_write, called by the server's copy() *)

Room == SockBuf - Len(sock)

\* Mutant: a pending write is taken for a written one.
PollWrite_Skip ==
  /\ srv = "copy" /\ link = "up"
  /\ next <= Chunks /\ nonce < MaxNonce
  /\ nonce' = nonce + 1
  /\ next' = next + 1
  /\ IF Room > Body
     THEN /\ sock' = sock \o Frame(nonce, next)
          /\ UNCHANGED <<srv, torn>>
     ELSE /\ sock' = sock \o SubSeq(Frame(nonce, next), 1, Room)
          /\ srv' = "blocked" /\ UNCHANGED torn
  /\ UNCHANGED <<inbox, link, cliVars>>

\* Mutant: one chunk more is written at the end of the file.
PollWrite_PastEnd ==
  /\ srv = "copy" /\ link = "up"
  /\ next <= Chunks + 1 /\ nonce < MaxNonce
  /\ nonce' = nonce + 1
  /\ IF Room > Body
     THEN /\ sock' = sock \o Frame(nonce, next) /\ next' = next + 1
          /\ UNCHANGED <<srv, torn>>
     ELSE /\ sock' = sock \o SubSeq(Frame(nonce, next), 1, Room)
          /\ srv' = "blocked" /\ torn' = torn \cup {"write"} /\ UNCHANGED next
  /\ UNCHANGED <<inbox, link, cliVars>>

\* Each call encrypts, and so uses up a nonce.  Without room for the frame its
\* first cells go out and copy() calls again with the same chunk.
PollWrite ==
  /\ srv = "copy" /\ link = "up"
  /\ next <= Chunks /\ nonce < MaxNonce
  /\ nonce' = nonce + 1
  /\ \/ /\ Room > Body
        /\ sock' = sock \o Frame(nonce, next)
        /\ next' = next + 1
        /\ UNCHANGED <<srv, torn>>
     \/ /\ Room <= Body
        /\ sock' = sock \o SubSeq(Frame(nonce, next), 1, Room)
        /\ srv' = "blocked"
        /\ torn' = torn \cup {"write"}
        /\ UNCHANGED next
  /\ UNCHANGED <<inbox, link, cliVars>>

\* The socket takes bytes again.
WriteWakes ==
  /\ srv = "blocked" /\ (Room > 0 \/ link # "up")
  /\ srv' = "copy"
  /\ UNCHANGED <<next, nonce, sock, inbox, link, cliVars, torn>>

\* A write on a connection the client has gone from.
WriteFails ==
  /\ srv = "copy" /\ link = "reset" /\ next <= Chunks
  /\ srv' = "err"
  /\ UNCHANGED <<next, nonce, sock, inbox, link, cliVars, torn>>

\* The file is at its end: flush, and the task drops the stream.
WriteEnds ==
  /\ srv = "copy" /\ next > Chunks
  /\ srv' = "done"
  /\ link' = IF link = "up" THEN "closed" ELSE link
  /\ UNCHANGED <<next, nonce, sock, inbox, cliVars, torn>>

\* The operator quits and the process ends, or reading the file fails: the
\* kernel closes the connection and still sends what it holds.
ServerLeaves ==
  /\ srv \in {"copy", "blocked"} /\ link = "up"
  /\ srv' = "gone" /\ link' = "closed"
  /\ UNCHANGED <<next, nonce, sock, inbox, cliVars, torn>>

-----------------------------------------------------------------------------
(* TCP *)

\* Any number of cells arrives: segments do not follow frames.
Arrive ==
  /\ link # "reset"
  /\ \E k \in 1..Len(sock) :
       /\ inbox' = inbox \o SubSeq(sock, 1, k)
       /\ sock' = SubSeq(sock, k + 1, Len(sock))
  /\ UNCHANGED <<srvVars, link, cliVars, torn>>

\* The connection is lost.
Reset ==
  /\ link # "reset" /\ link' = "reset"
  /\ sock' = <<>> /\ inbox' = <<>>
  /\ UNCHANGED <<srvVars, cliVars, torn>>

-----------------------------------------------------------------------------
(* EncryptedReadStream::poll_read, called by the client's copy() *)

\* No byte will follow those in the inbox.
AtEnd == link = "closed" /\ sock = <<>>

\* Where a header is read, its length; where ciphertext is read instead, any: it may
\* take all that is there, and a length beyond that is as good as the greatest here.
Lengths == IF Head(inbox).pos = 0 THEN {Body} ELSE 0..Len(inbox)

\* Mutant: the nonce is not part of the decryption.
Decrypts_AnyNonce(body) ==
  /\ Len(body) = Body
  /\ \A i \in 1..Body : body[i] = [body[1] EXCEPT !.pos = i]

Decrypts(body) ==
  /\ Len(body) = Body
  /\ \A i \in 1..Body : body[i] = [body[1] EXCEPT !.pos = i]
  /\ body[1].nonce = expected

\* A whole message is there: deliver it, or fail with "Decryption error".
PollRead ==
  /\ cli = "copy" /\ inbox # <<>>
  /\ \E len \in Lengths :
       /\ Len(inbox) > len
       /\ LET body == SubSeq(inbox, 2, len + 1) IN
            \/ /\ Decrypts(body)
               /\ expected' = expected + 1
               /\ got' = Append(got, body[1].chunk)
               /\ UNCHANGED <<cli, link, sock>>
               /\ inbox' = SubSeq(inbox, len + 2, Len(inbox))
            \/ /\ ~Decrypts(body)
               /\ cli' = "err"
               /\ link' = "reset" /\ sock' = <<>> /\ inbox' = <<>>
               /\ UNCHANGED <<expected, got>>
  /\ UNCHANGED <<srvVars, torn>>

\* A part of a message, or nothing, is there: what was read goes with the
\* future.
PollReadPart ==
  /\ cli = "copy" /\ ~AtEnd /\ link # "reset"
  /\ \/ inbox = <<>> /\ UNCHANGED torn
     \/ /\ inbox # <<>> /\ \E len \in Lengths : Len(inbox) <= len
        /\ torn' = torn \cup {"read"}
  /\ inbox' = <<>>
  /\ cli' = "blocked"
  /\ UNCHANGED <<srvVars, sock, link, expected, got>>

ReadWakes ==
  /\ cli = "blocked" /\ (inbox # <<>> \/ AtEnd \/ link = "reset")
  /\ cli' = "copy"
  /\ UNCHANGED <<srvVars, sock, inbox, link, expected, got, torn>>

\* UnexpectedEof, between two messages or within one, is the end of the file.
PollReadEof ==
  /\ cli = "copy" /\ AtEnd
  /\ inbox # <<>> => \E len \in Lengths : Len(inbox) <= len
  /\ cli' = "eof" /\ inbox' = <<>>
  /\ UNCHANGED <<srvVars, sock, link, expected, got, torn>>

\* Any other error panics.
PollReadFails ==
  /\ cli = "copy" /\ link = "reset"
  /\ cli' = "panic"
  /\ UNCHANGED <<srvVars, sock, inbox, link, expected, got, torn>>

-----------------------------------------------------------------------------
Next ==
  \/ PollWrite \/ WriteWakes \/ WriteFails \/ WriteEnds \/ ServerLeaves
  \/ Arrive \/ Reset
  \/ PollRead \/ PollReadPart \/ ReadWakes \/ PollReadEof \/ PollReadFails

Spec == Init /\ [][Next]_vars

-----------------------------------------------------------------------------
(* The inductive invariant *)

\* A cell when n frames were encrypted: up to nonce t it carries its own chunk,
\* and it does not complete frame t.
Sound(c, n, t) ==
  /\ c.nonce < n
  /\ c.nonce <= t => c.chunk = c.nonce + 1
  /\ c.nonce = t => c.pos < Body

Good(q, n, t) == \A i \in 1..Len(q) : Sound(q[i], n, t)

\* t is the nonce of the first torn write, or the next one if none was torn:
\* the client never gets past it.
NonceOrder ==
  \E t \in 0..nonce :
    /\ expected <= t
    /\ IF t = nonce THEN next = nonce + 1 /\ "write" \notin torn ELSE t < Chunks
    /\ Good(sock, nonce, t) /\ Good(inbox, nonce, t)

\* What was delivered is the chunks of the frames decrypted, in order.
Ordered ==
  /\ TypeOK
  /\ NonceOrder
  /\ Len(got) = expected
  /\ \A i \in 1..Len(got) : got[i] = i

\* The cells the client has not read.
Wire == inbox \o sock

\* Cell i of q is one of a frame that is whole; n follows the last frame's nonce.
InFrame(q, i, n) ==
  LET start == i - q[i].pos  end == start + Body IN
  /\ start >= 1 /\ end <= Len(q)
  /\ \A j \in start..end : q[j].nonce = q[i].nonce /\ q[j].pos = j - start
  /\ \A j \in 1..Len(q) : q[j].nonce = q[i].nonce => j \in start..end
  /\ IF end = Len(q) THEN n = q[i].nonce + 1
     ELSE q[end + 1].nonce = q[i].nonce + 1 /\ q[end + 1].pos = 0

\* q consists of whole frames, those with the nonces from e up to n, in order.
Framed(q, e, n) ==
  /\ q = <<>> => e = n
  /\ q # <<>> => q[1].nonce = e /\ q[1].pos = 0
  /\ \A i \in 1..Len(q) : InFrame(q, i, n)

\* As long as nothing was torn, every frame that was not read is there.
FramesWhole == torn = {} /\ link # "reset" => Framed(Wire, expected, nonce)

\* Once a read was torn and no write, the frame the client waits for is not
\* whole: what is left of its body does not follow a cell to take for its header.
FrameLost ==
  torn = {"read"} =>
    /\ expected < nonce
    /\ \A i \in 2..Len(Wire) : ~(Wire[i].nonce = expected /\ Wire[i].pos = 1)

\* A copy that ended has reached the end of the file or of the stream.
CopyEnds ==
  /\ srv = "done" => next = Chunks + 1
  /\ cli = "eof" => link # "up" /\ (torn = {} => expected = nonce)

\* What every step of the server, of TCP and of the client preserves.
IInv == Ordered /\ FramesWhole /\ FrameLost /\ CopyEnds

-----------------------------------------------------------------------------
(* Properties *)

\* Nothing wrong is ever delivered: whatever was torn, dropped or lost, the
\* file holds the first chunks in order, none of them twice.
DeliveredIsPrefix == got = [i \in 1..Len(got) |-> i]

\* As long as no poll was pending in the middle of a frame, the end of the
\* stream of a server that copied all is the end of the file.
CompleteUnlessTorn ==
  cli = "eof" /\ srv = "done" /\ torn = {} => Len(got) = Chunks

\* A future dropped in the middle is never made good: a write that had to wait
\* has used up its nonce even when it had written nothing, and a read that had
\* to wait has lost its cells.
TornIsNeverComplete == torn # {} => Len(got) < Chunks

\* "transparently encrypting/decrypting the data": what the server copied
\* without error into the stream is what the client reads from it.
TransparentStream ==
  srv = "done" /\ cli \in {"eof", "err"} => Len(got) = Chunks
=============================================================================
