------------------------------ MODULE CppRead ------------------------------
(***************************************************************************)
(* Messages read by a C++ library from a connection, one after the         *)
(* other: ClientOpcode::read and ServerOpcode::read, the read function of  *)
(* the message (CppFormat), and the Reader of the caller, whose read_u8    *)
(* waits until there is a byte.                                            *)
(*                                                                         *)
(* Nothing in a connection tells where a message ends but the values in    *)
(* it.  The size in the header only reaches the read functions of messages *)
(* with a part that is not self-delimiting, which compare it with _size,   *)
(* the bytes of the body that they have counted so far.  A read function   *)
(* that takes too many bytes waits for ones that the peer may never send,  *)
(* or takes them from the next message; one that takes too few leaves the  *)
(* connection in the middle of a message, and the next call reads its      *)
(* header there.                                                           *)
(*                                                                         *)
(* The messages on the connection are equal copies of what the write       *)
(* function of one message, or a game client, sends on one wire.           *)
(***************************************************************************)
EXTENDS Integers, Sequences

CONSTANTS Catalogue,   \* groups of messages, for each the list of its records, one for each wire
          Messages,    \* bound: how many messages the peer sends
          Cut(_)       \* bound: where in a message of so many bytes the network may cut

ASSUME MessagesAssumption == Messages \in Nat \ {0}

\* What CppFormat builds.
Steps ==
  [kind : {"run", "test", "end", "return at end", "take", "take rest", "inflate", "inflate member"},
   bytes : Nat, tally : Nat, skip : Nat]
Records ==
  [header : Nat \ {0}, opcode : Nat, uncounted : Nat,
   read : Seq(Steps), written : Nat \ {0}, sizeField : Nat]

ASSUME CatalogueAssumption ==
  \A group \in DOMAIN Catalogue : \A name \in DOMAIN Catalogue[group] :
    \A wire \in DOMAIN Catalogue[group][name] : Catalogue[group][name][wire] \in Records

VARIABLES
  message,    \* what is sent: where it is in the catalogue
  sent,       \* the number of messages that the peer has sent
  arrived,    \* the bytes of them that have arrived
  returned,   \* the number of messages that the reads have returned
  position,   \* the bytes that have been taken from the connection
  pc,         \* "idle" between two calls, or "reading"
  at,         \* the step of the read function that is next
  body_size,  \* what the header says of the size of the body
  tally,      \* _size, the bytes of the body counted so far
  taken,      \* the size of the vector of compressed data
  inflated,   \* whether reader is now a ByteReader on decompressed data
  length,     \* its m_buf.size()
  m_index     \* its m_index

call == <<body_size, tally, taken>>
byte_reader == <<inflated, length, m_index>>
connection == <<message, sent, arrived>>
vars == <<connection, returned, position, pc, at, call, byte_reader>>

format == Catalogue[message[1]][message[2]][message[3]]
written == format.written
header == format.header
step == format.read[at]

\* Bound: a size_t that wrapped around, more than a connection ever has
Wrapped == 10^6
Minus(a, b) == IF a >= b THEN a - b ELSE Wrapped

\* recv has these bytes.
Available(n) == position + n <= arrived

(***************************************************************************)
(* The library                                                             *)
(***************************************************************************)

\* Mutant: _size goes on from the last message.
ReadHeader_KeepsSize ==
  /\ pc = "idle"
  /\ Available(header)
  /\ position' = position + header
  /\ body_size' = Minus(format.sizeField, format.opcode)
  /\ taken' = 0
  /\ inflated' = FALSE /\ length' = 0 /\ m_index' = 0
  /\ at' = 1
  /\ pc' = "reading"
  /\ UNCHANGED <<connection, returned, tally>>
\* ClientOpcode::read, ServerOpcode::read: the header, and the dispatch.  The
\* login library has no body_size, and no step that looks at it.
ReadHeader ==
  /\ pc = "idle"
  /\ Available(header)
  /\ position' = position + header
  /\ body_size' = Minus(format.sizeField, format.opcode)
  /\ tally' = 0 /\ taken' = 0
  /\ inflated' = FALSE /\ length' = 0 /\ m_index' = 0
  /\ at' = 1
  /\ pc' = "reading"
  /\ UNCHANGED <<connection, returned>>

Reading(kind) == pc = "reading" /\ at <= Len(format.read) /\ step.kind = kind

\* return obj;
ReturnObject ==
  /\ returned' = returned + 1
  /\ pc' = "idle"

\* On, past so many steps
Go(steps) == at' = at + steps

\* Mutant: a read does not wait for bytes that have not arrived.
Pull_NoWait ==
  /\ Reading("run") /\ ~inflated
  /\ position' = position + step.bytes
  /\ tally' = tally + step.tally
  /\ Go(1)
  /\ UNCHANGED <<connection, returned, pc, body_size, taken, byte_reader>>
\* Bytes of the connection: read_u8 of the caller's reader waits for each.
Pull ==
  /\ Reading("run") /\ ~inflated
  /\ Available(step.bytes)
  /\ position' = position + step.bytes
  /\ tally' = tally + step.tally
  /\ Go(1)
  /\ UNCHANGED <<connection, returned, pc, body_size, taken, byte_reader>>

\* Bytes of decompressed data: m_buf[m_index], which is not checked
PullInflated ==
  /\ Reading("run") /\ inflated
  /\ m_index' = m_index + step.bytes
  /\ tally' = tally + step.tally
  /\ Go(1)
  /\ UNCHANGED <<connection, returned, position, pc, body_size, taken, inflated, length>>

\* Mutant: _size <= body_size
TestSize_OffByOne ==
  /\ Reading("test")
  /\ Go(1 + (IF tally <= body_size THEN 0 ELSE step.skip))
  /\ UNCHANGED <<connection, returned, position, pc, call, byte_reader>>
\* if (_size < body_size), while (_size < body_size)
TestSize ==
  /\ Reading("test")
  /\ Go(1 + (IF tally < body_size THEN 0 ELSE step.skip))
  /\ UNCHANGED <<connection, returned, position, pc, call, byte_reader>>

\* Mutant: m_index > m_buf.size()
TestEnd_OffByOne ==
  /\ Reading("end")
  /\ Go(1 + (IF m_index <= length THEN 0 ELSE step.skip))
  /\ UNCHANGED <<connection, returned, position, pc, call, byte_reader>>
\* while (!new_reader.is_at_end())
TestEnd ==
  /\ Reading("end")
  /\ Go(1 + (IF m_index < length THEN 0 ELSE step.skip))
  /\ UNCHANGED <<connection, returned, position, pc, call, byte_reader>>

\* if ((body_size - _size) == 0) return obj;
CheckRest ==
  /\ Reading("return at end")
  /\ IF body_size = tally THEN ReturnObject /\ UNCHANGED at
     ELSE Go(1) /\ UNCHANGED <<returned, pc>>
  /\ UNCHANGED <<connection, position, call, byte_reader>>

\* for (i = 0; i < n; ++i) compressed_data[i] = reader.read_u8();
Compressed(n) ==
  /\ Available(n)
  /\ position' = position + n
  /\ taken' = n
  /\ Go(1)
  /\ UNCHANGED <<connection, returned, pc, body_size, tally, byte_reader>>

TakeFromBody == Reading("take") /\ Compressed(Minus(body_size, step.bytes))
\* Mutant: what has been read of the body already is not subtracted.
TakeRemainder_WholeBody == Reading("take rest") /\ Compressed(body_size)
TakeRemainder == Reading("take rest") /\ Compressed(Minus(body_size, tally))

\* decompress_data(...): puff does not look at the checksum.
Decompresses == taken + 4 >= step.bytes + 11

OnDecompressed(size) == inflated' = TRUE /\ length' = size /\ m_index' = 0 /\ Go(1)

\* ByteReader(decompress_data(compressed_data)), which is empty on an error
InflateBody ==
  /\ Reading("inflate")
  /\ OnDecompressed(IF Decompresses THEN step.bytes ELSE 0)
  /\ UNCHANGED <<connection, returned, position, pc, call>>

\* The same for a member, without which the function returns on an error.
InflateArray ==
  /\ Reading("inflate member")
  /\ IF Decompresses
       THEN OnDecompressed(step.bytes) /\ UNCHANGED <<returned, pc>>
       ELSE ReturnObject /\ UNCHANGED <<at, byte_reader>>
  /\ UNCHANGED <<connection, position, call>>

Return ==
  /\ pc = "reading" /\ at > Len(format.read)
  /\ ReturnObject
  /\ UNCHANGED <<connection, position, at, call, byte_reader>>

Library ==
  \/ ReadHeader \/ Pull \/ PullInflated \/ TestSize \/ TestEnd \/ CheckRest
  \/ TakeFromBody \/ TakeRemainder \/ InflateBody \/ InflateArray \/ Return

(***************************************************************************)
(* The peer                                                                *)
(***************************************************************************)

\* The bytes that write has returned are sent.
Send ==
  /\ sent < Messages
  /\ sent' = sent + 1
  /\ UNCHANGED <<message, arrived, returned, position, pc, at, call, byte_reader>>

\* Bound: the bytes arrive up to the end of a message, or to one of its cuts.
Cuts ==
  LET within == Cut(written) \intersect 1..(written - 1)
  IN {n * written + cut : n \in 0..Messages, cut \in {0} \union within}

Deliver ==
  /\ \E n \in Cuts : arrived < n /\ n <= sent * written /\ arrived' = n
  /\ UNCHANGED <<message, sent, returned, position, pc, at, call, byte_reader>>

(***************************************************************************)
(* The specification                                                       *)
(***************************************************************************)

Init ==
  /\ \E group \in DOMAIN Catalogue : \E name \in DOMAIN Catalogue[group] :
       \E wire \in DOMAIN Catalogue[group][name] : message = <<group, name, wire>>
  /\ sent = 0 /\ arrived = 0 /\ returned = 0 /\ position = 0
  /\ pc = "idle" /\ at = 1
  /\ body_size = 0 /\ tally = 0 /\ taken = 0
  /\ inflated = FALSE /\ length = 0 /\ m_index = 0

Next == Library \/ Send \/ Deliver

Spec == Init /\ [][Next]_vars

\* The library does not stop between two steps, unless it waits for bytes,
\* and bytes that have been sent arrive.
\* A peer may send ahead, but need not: one that waits for the answer to a
\* message sends the next when the last has been read.
Fairness == WF_vars(Library) /\ WF_vars(Deliver) /\ WF_vars(sent = returned /\ Send)

FairSpec == Spec /\ Fairness

(***************************************************************************)
(* Properties                                                              *)
(***************************************************************************)

\* Every variable has its type.
TypeOK ==
  /\ sent \in 0..Messages /\ returned \in 0..sent
  /\ arrived \in 0..(sent * written) /\ position \in 0..arrived
  /\ pc \in {"idle", "reading"}
  /\ at \in 1..(Len(format.read) + 1)
  /\ body_size \in Nat /\ tally \in Nat /\ taken \in Nat
  /\ inflated \in BOOLEAN /\ length \in Nat /\ m_index \in Nat

\* A call takes no byte of the next message, even if the peer has sent it
\* already, and leaves none of its own: where a read function stops is where
\* the write function stopped, whether it knows that from a count, from a
\* terminator, or from the size in the header.
ReadsWholeMessages ==
  /\ position <= (returned + 1) * written
  /\ pc = "idle" => position = returned * written

\* The bytes of the connection without which the library cannot go on
Awaits ==
  IF pc = "idle" THEN header
  ELSE IF Reading("run") /\ ~inflated THEN step.bytes
  ELSE IF Reading("take") THEN Minus(body_size, step.bytes)
  ELSE IF Reading("take rest") THEN Minus(body_size, tally)
  ELSE 0

\* No read waits for a byte that is not part of its message, not even where
\* it computes from the header and from what it has counted how much of the
\* message there is to come: the peer may be waiting for the answer.
WaitsForItsOwn == position + Awaits <= (returned + 1) * written

\* The size of a message, which its size function computes apart from its
\* write function, is that of what the write function emits.
SizeFieldIsWritten == format.sizeField = written - format.uncounted

\* Whenever a read function compares _size with body_size, _size is the
\* number of bytes of the body that it has read.
CountsWhatItReads ==
  (\E kind \in {"test", "return at end", "take rest"} : Reading(kind))
    => position = returned * written + header + tally

\* No read is past the end of decompressed data, where ByteReader does not
\* look.
InflatedInBounds == m_index <= length

\* Each message is returned even if the peer sends no more before that: no
\* read waits for a byte that is not part of the message.
EventuallyReturned ==
  \A n \in 1..Messages : sent >= n ~> returned >= n
=============================================================================
