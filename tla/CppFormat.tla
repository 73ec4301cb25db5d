----------------------------- MODULE CppFormat -----------------------------
(***************************************************************************)
(* The vocabulary of the generated functions of the C++ libraries.         *)
(* Its readers pull bytes one by one from a Reader, which blocks until     *)
(* there is one, and check nothing: for one concrete message a read        *)
(* function is a sequence of runs of pulls, and of the tests of _size      *)
(* that arrays without a count, optional tails and compressed members do   *)
(* between them.  The values themselves are left out.                      *)
(***************************************************************************)
EXTENDS Wire

\* Counts are of the type that they have on the wire.
U8(n) == n % 256
U16(n) == n % 65536

(***************************************************************************)
(* Steps.  A run takes bytes bytes from the reader and adds tally to       *)
(* _size; a test skips steps when _size has reached body_size, or, if it   *)
(* returns, ends the function there.                                       *)
(***************************************************************************)
Step(kind) == [kind |-> kind, bytes |-> 0, tally |-> 0, skip |-> 0]
Run(bytes) == <<[Step("run") EXCEPT !.bytes = bytes]>>

\* reader.read_u8(), read_u32(), read_float(), ...
Ints(sizes) == Run(Total(sizes))

Cstring(w) == Run(w.len + 1)

\* The length is read, but the string ends where the zero is.
SizedCstring(w) == Run(4) \o Cstring(w)

\* A byte with a bit for each byte that follows
PackedGuid(w) == Run(1 + w.len)

\* A byte for the number of headers, the headers, and a value for each bit
\* that is set in them (one bit per header)
UpdateMask(w) == Run(1) \o Run(4 * U8(w.len)) \o Run(4 * w.len)

\* A word with a bit for each entry that follows
Mask(word, entry, w) == Run(word) \o Run(entry * w.len)

\* The bytes of a member, twice: those that the write functions emit, and what
\* the size functions, which go over the value on their own, count for it.
write_cstring(w) == w.len + 1
write_sized_cstring(w) == 4 + (w.len + 1)
write_packed_guid(w) == 1 + w.len
wwm_packed_guid_size(w) == 1 + w.len
update_mask_written(w) == 1 + w.len * 4 + w.len * 4
update_mask_size(w) == 1 + 4 * w.len + 4 * w.len
mask_written(word, entry, w) == word + w.len * entry
mask_size(word, entry, w) == word + entry * w.len

\* _size += n after the steps, which the code adds up member by member
Counted(n, steps) == steps \o <<[Step("run") EXCEPT !.tally = n]>>

\* for (uint8_t i = 0; i < amount; ++i) obj.x.push_back(X_read(reader))
Each(n, steps) == FlattenSeq(Repeat(n, steps))

\* if (_size < body_size), skipping so many steps otherwise
Unless(skip) == <<[Step("test") EXCEPT !.skip = skip]>>

\* if (_size < body_size) { obj.x = std::shared_ptr(...); obj.x->... }
Optional(steps) == Unless(Len(steps)) \o steps

\* A loop of n rounds, each of them after a test.  What pulls one byte more
\* stands for the round too many that a test which succeeds once more lets in.
Rounds(n, test, round) ==
  LET \* the steps from round i on, those of the round too many included
      left(i) == (n - i + 1) * (Len(round) + 1) + 1
      Test(skip) == <<[Step(test) EXCEPT !.skip = skip]>>
  IN FlattenSeq([i \in 1..n |-> Test(left(i)) \o round]) \o Test(1) \o Run(1)

\* while (_size < body_size) { obj.x.push_back(...); _size += bytes; }
Endless(n, steps, bytes) == Rounds(n, "test", Counted(bytes, steps))

\* while (!new_reader.is_at_end()) { obj.x.push_back(...); }
UntilEnd(n, steps) == Rounds(n, "end", steps)

\* A struct: what its read, write and size functions do.  Of its two numbers of
\* bytes the first adds up the calls of the write function, in their order.
Struct(read, written, size) == [read |-> read, written |-> written, size |-> size]

\* A struct of one length has no size function: what contains it counts a
\* number of its own.
FixedStruct(read, written) == [read |-> read, written |-> written]
PlainStruct(sizes, written) == FixedStruct(Ints(sizes), written)

(***************************************************************************)
(* util.cpp and all.cpp                                                    *)
(***************************************************************************)
Vector3d == PlainStruct(<<4, 4, 4>>, 4 + 4 + 4)
Vector2d == PlainStruct(<<4, 4>>, 4 + 4)

\* A count and, if it is not 0, a first point and packed differences
MonsterMoveSpline(w) ==
  Run(4) \o When(w.count # 0, Vector3d.read \o Each(w.count - 1, Run(4)))
wwm_write_monster_move_spline(w) ==
  4 + Bytes(w.count # 0, Vector3d.written + (w.count - 1) * 4)
wwm_monster_move_spline_size(w) == IF w.count = 0 THEN 4 ELSE 4 + 12 + (4 * (w.count - 1))

\* A GUID and, if it is not 0, a name, whose zero the size does not count
NamedGuid(w) ==
  LET named == Is(w, "guid")
  IN Struct(Run(8) \o When(named, Cstring(w)),
            8 + Bytes(named, write_cstring(w)), 8 + Bytes(named, w.len))

VariableItemRandomProperty(w) ==
  LET suffixed == Is(w, "item_random_property_id")
  IN Struct(Run(4) \o When(suffixed, Run(4)),
            4 + Bytes(suffixed, 4), IF suffixed THEN 8 ELSE 4)

(***************************************************************************)
(* Compression.  The inflater is external: it fails on data of which more  *)
(* than the checksum is missing.                                           *)
(***************************************************************************)

\* WWM_COMPRESS_EXTRA_LENGTH bytes around the data, and none for no data
wwm_compress_data_size(n) == IF n = 0 THEN 0 ELSE n + 11

\* if ((body_size - _size) == 0) return obj;
ReturnAtEnd == <<Step("return at end")>>

\* Takes body_size - _size bytes into a vector, or body_size - n.
TakeRest == <<Step("take rest")>>
Take(n) == <<[Step("take") EXCEPT !.bytes = n]>>

\* decompress_data(...), from where on the reader is a ByteReader on the n
\* bytes of data.  A member returns if there are none.
InflateMember(n) == <<[Step("inflate member") EXCEPT !.bytes = n]>>
Inflate(n) == <<[Step("inflate") EXCEPT !.bytes = n]>>

(***************************************************************************)
(* A message: the bytes of its header and of the opcode in it, its read    *)
(* function, the bytes its write function emits, and the value that puts   *)
(* in the size of the header, which does not count itself.                 *)
(***************************************************************************)
Message(opcode, struct, sizeField) ==
  [header |-> 2 + opcode, opcode |-> opcode, uncounted |-> 2,
   read |-> struct.read, written |-> 2 + opcode + struct.written, sizeField |-> U16(sizeField)]

\* write_u16_be(static_cast<uint16_t>((uint16_t)X_size(obj) + 4)), and + 2
Client(struct) == Message(4, struct, U16(struct.size) + 4)

Server(struct) == Message(2, struct, U16(struct.size) + 2)

Cmsg(read, written, size) == Client(Struct(read, written, size))
Smsg(read, written, size) == Server(Struct(read, written, size))

\* write_u32(X_size(obj)), and the compressed data, whose size is then put
\* in the header
CompressedSmsg(read, data) ==
  LET compressed == wwm_compress_data_size(data)
  IN Message(2, Struct(read, 4 + compressed, data), compressed + 4 + 2)

PlainCmsg(sizes, written, size) == [w \in {Fixed} |-> Cmsg(Ints(sizes), written, size)]
PlainSmsg(sizes, written, size) == [w \in {Fixed} |-> Smsg(Ints(sizes), written, size)]
EmptyCmsg(size) == [w \in {Fixed} |-> Client(Struct(<<>>, 0, size))]
EmptySmsg(size) == [w \in {Fixed} |-> Server(Struct(<<>>, 0, size))]

\* The groups as a catalogue: a list of records for each message
CppListed(groups) == ListedBy(LAMBDA r : <<Len(r.read), r.written>>, groups)
=============================================================================
