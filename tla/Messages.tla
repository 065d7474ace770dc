------------------------------ MODULE Messages ------------------------------
(***************************************************************************)
(* The two messages of src/src/models.rs as their readers see them: the    *)
(* DataSrvInfo behind its length byte, and the DiscoveryReply in a buffer  *)
(* that is used again for the next one.                                    *)
(***************************************************************************)
EXTENDS Naturals, Sequences

-----------------------------------------------------------------------------
(* DataSrvInfo *)

\* Bytes of the serialized info of a file whose name has so many: a u16, a u64,
\* a bool, the name's length as a u64, the name.
InfoLen(name) == 2 + 8 + 1 + 8 + name

\* serialized.len() as u8
LengthByte(n) == n % 256

\* read_from_stream takes as many bytes as the length byte says: fewer than were
\* written do not deserialize.
InfoReadable(name) == InfoLen(name) <= LengthByte(InfoLen(name))

-----------------------------------------------------------------------------
(* DiscoveryReply, in cells: the length of the server's name, its letters, the *)
(* port.  In the code a cell has 8, 1 and 2 bytes, the buffer 100, and the     *)
(* longest word 19 letters.                                                    *)

Letter == 97

Reply(name, port) == <<name>> \o [i \in 1..name |-> Letter] \o <<port>>

\* Mutant: a datagram is put before what the buffer holds already.
Received_Before(buf, datagram) == datagram \o buf

\* recv_from puts a datagram at the start of the buffer and leaves the rest.
Received(buf, datagram) ==
  [i \in 1..Len(buf) |-> IF i <= Len(datagram) THEN datagram[i] ELSE buf[i]]

\* Mutant: the port is taken from the end of what the buffer holds.
ReplyPort_AtEnd(buf) ==
  LET used == {i \in 1..Len(buf) : buf[i] # 0}
  IN  buf[CHOOSE i \in used : \A j \in used : j <= i]

\* deserialize: the port is behind the name, and what follows is not looked at.
ReplyPort(buf) == buf[2 + buf[1]]
=============================================================================
