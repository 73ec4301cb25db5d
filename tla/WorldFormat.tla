---------------------------- MODULE WorldFormat ----------------------------
(***************************************************************************)
(* The vocabulary of the generated functions of the C world library.  As   *)
(* in MessageFormat a read function is, for one concrete message, the      *)
(* sequence of steps it performs on it; but world messages nest structs in *)
(* structs, end in arrays without a count or in an optional tail whose     *)
(* presence follows from the size in the header, and are compressed.       *)
(*                                                                         *)
(* A path names a member: <<"targets", "target_string">> is a member of    *)
(* the struct member targets, <<"members", 2, "name">> one of the second   *)
(* element of an array.  Structs are written down without their path and   *)
(* prefixed where they are used (At, Each, FreeAt, FreeEach).              *)
(***************************************************************************)
EXTENDS Wire

CONSTANT Capacity   \* elements an array without a count has room for at first

\* In the code Capacity is 8; the instances scale it down.
ASSUME FormatAssumption == Capacity \in Nat \ {0}

(***************************************************************************)
(* What a free function releases: a pointer, under tests on fields, and    *)
(* through the arrays and optional structs it lies in.                     *)
(***************************************************************************)
Free(names) ==
  {[slot |-> <<n>>, tests |-> {}, within |-> {}, dangles |-> FALSE] : n \in names}

\* wwm_monster_move_spline_free leaves the pointer as it is.
FreeSpline(name) ==
  {[slot |-> <<name, "splines">>, tests |-> {}, within |-> {}, dangles |-> TRUE]}

\* if (object->field == A || object->field == B) { releases }
FreeIf(field, set, releases) ==
  {[r EXCEPT !.tests = @ \union {[field |-> <<field>>, set |-> set]}] : r \in releases}

\* X_free(&object->path)
FreeAt(path, releases) ==
  {[slot |-> path \o r.slot,
    tests |-> {[t EXCEPT !.field = path \o @] : t \in r.tests},
    within |-> {path \o p : p \in r.within},
    dangles |-> r.dangles] : r \in releases}

Within(name, releases) == {[r EXCEPT !.within = @ \union {<<name>>}] : r \in releases}
Elements(name, n, releases) ==
  Within(name, UNION {FreeAt(<<name, i>>, releases) : i \in 1..n})

\* if (x != NULL) { for (i = 0; i < amount_of_x; ++i) X_free(&x[i]); free(x); x = NULL; }
FreeEach(name, n, releases) == Free({name}) \union Elements(name, n, releases)

\* for (i = 0; i < n; ++i) X_free(&object->x[i]); for an array in the struct
FreeFixed(name, n, releases) == UNION {FreeAt(<<name, i>>, releases) : i \in 1..n}

\* FreeEach for an array without a count, whose amount is a field set last.
Filled == {"filled"}
EndlessElements(name, n, releases) ==
  FreeIf("amount_of_" \o name, Filled, Elements(name, n, releases))
FreeEndless(name, n, releases) == Free({name}) \union EndlessElements(name, n, releases)

\* if (x != NULL) { ...; free(x); x = NULL; } for an optional tail
FreeOptional(name, releases) == Free({name}) \union Within(name, FreeAt(<<name>>, releases))

(***************************************************************************)
(* Steps of the read functions: the sizes of their length checks, added    *)
(* up; the pointers they set, the fields they set and what those hold;     *)
(* tally is what is added to _size, cleanup the free functions under the   *)
(* cleanup labels of the functions the step is in, the innermost first.    *)
(***************************************************************************)
Step(kind, sizes, slots) ==
  [kind |-> kind, ends |-> [k \in DOMAIN sizes |-> Total(SubSeq(sizes, 1, k))] \o <<>>,
   slots |-> slots, fresh |-> {}, field |-> <<>>, zero |-> {}, holds |-> {},
   skip |-> 0, tally |-> 0, cleanup |-> <<>>]

Paths(names) == {<<n>> : n \in names}

Header(sizes) == <<Step("header", sizes, {})>>

\* if (n > (reader->length - reader->index)) fail with the difference.
Minimum(n) == <<Step("minimum", <<n>>, {})>>

Null(names) == <<Step("null", <<>>, Paths(names))>>

\* A run of READ_U8, READ_U32, READ_FLOAT, ...
Ints(sizes) == <<Step("ints", sizes, {})>>

\* object->field = 0; READ_Un(object->field) of a field that the free
\* function tests: zero is the enumerator 0 if it is one of those tested.
Field(size, name, zero, w) ==
  <<[Step("field", <<size>>, {}) EXCEPT !.field = <<name>>, !.zero = zero, !.holds = w.holds]>>
SetField(name, holds) == <<[Step("field", <<>>, {}) EXCEPT !.field = <<name>>, !.holds = holds]>>
Clear(name) == SetField(name, {})

Cstring(name, w) == <<Step("string", Repeat(w.len + 1, 1), {<<name>>})>>
String(name, w) == <<Step("string", <<1, w.len>>, {<<name>>})>>
SizedCstring(name, w) == <<Step("string", <<4, w.len + 1>>, {<<name>>})>>

\* READ_PACKED_GUID, and the masks: a byte for the number of headers, the
\* headers, and a value for each of their bits (one bit per header).
PackedGuid(w) == Ints(Repeat(1 + w.len, 1))
UpdateMask(w) == Ints(<<1>> \o Repeat(2 * w.len, 4))

\* A word with a bit for each entry that follows, as aura_mask_read.
Mask(word, entry, w) == Ints(<<word>> \o Repeat(w.len, entry))

(***************************************************************************)
(* The bytes of a member, twice: those that the write functions emit, call *)
(* by call (the names are those of the macros, or end in _written), and    *)
(* what the size functions count for it.  Each function goes over the      *)
(* value on its own: a packed GUID, a mask.                                *)
(***************************************************************************)
WRITE_CSTRING(w) == w.len + 1
WRITE_STRING(w) == 1 + w.len
WRITE_SIZED_CSTRING(w) == 4 + (w.len + 1)

\* The header, and the bytes of the value that are not zero
WRITE_PACKED_GUID(w) == 1 + w.len
wwm_packed_guid_size(w) == 1 + w.len

\* The headers up to the last that is not zero, and their values: the write
\* function finds that header first, the size function while it counts.
update_mask_written(w) == 1 + w.len * 4 + w.len * 4
\* Mutant: the size of the mask without its headers.
update_mask_size_NoHeaders(w) == 1 + 4 * w.len
update_mask_size(w) == 1 + 4 * w.len + 4 * w.len

mask_written(word, entry, w) == word + w.len * entry
mask_size(word, entry, w) == word + entry * w.len

\* _size += n after the steps, which the code adds up member by member.
Counted(n, steps) == Front(steps) \o <<[Last(steps) EXCEPT !.tally = @ + n]>>

(***************************************************************************)
(* Structs and arrays                                                      *)
(***************************************************************************)

\* X_read whose cleanup label calls X_free, which releases the pointers.
Scope(releases, steps) ==
  [k \in DOMAIN steps |-> [steps[k] EXCEPT !.cleanup = Append(@, releases)]]

\* A struct: what its free, read, write and size functions do.  Written are the
\* bytes that X_write emits, added up in the order of its calls; size is what
\* X_size returns, or the number it is replaced by in a message without members
\* of varying length.
Struct(releases, read, written, size) ==
  [free |-> releases, read |-> IF releases = {} THEN read ELSE Scope(releases, read),
   written |-> written, size |-> size]

\* A struct of one length has no size function: what contains it counts a
\* number of its own.
FixedStruct(read, written) == [free |-> {}, read |-> read, written |-> written]
PlainStruct(minimum, sizes, written) ==
  FixedStruct(Minimum(minimum) \o Ints(sizes), written)

\* WWM_CHECK_RETURN_CODE(X_read(reader, &object->path))
At(path, steps) ==
  [k \in DOMAIN steps |->
    [steps[k] EXCEPT
       !.slots = {path \o s : s \in @},
       !.field = path \o @,
       !.fresh = FreeAt(path, @),
       !.cleanup = [c \in DOMAIN @ |-> FreeAt(path, @[c])]]]

\* READ_ARRAY(x, n, X_read(reader, &x[i]))
Each(name, n, steps) == FlattenSeq([i \in 1..n |-> At(<<name, i>>, steps)])

\* x = calloc(n, sizeof(*x)): the members of the elements are zero.
Calloc(name, n, releases) ==
  <<[Step("calloc", <<>>, {<<name>>}) EXCEPT !.fresh = Elements(name, n, releases)]>>
Array(name, n, releases, steps) == Calloc(name, n, releases) \o Each(name, n, steps)

\* x = malloc(...): what it points to is not initialised.
Malloc(slot, fresh) == <<[Step("malloc", <<>>, {slot}) EXCEPT !.fresh = fresh]>>

\* if (_size < body_size), skipping so many steps otherwise
Unless(skip) == <<[Step("test", <<>>, {}) EXCEPT !.skip = skip]>>

\* object->x = NULL; if (_size < body_size) { x = malloc(sizeof(*x)); ... }
Optional(name, releases, steps) ==
  LET tail == Malloc(<<name>>, Within(name, FreeAt(<<name>>, releases))) \o At(<<name>>, steps)
  IN Null({name}) \o Unless(Len(tail)) \o tail

\* x = realloc(x, ...) once i elements fill the room, which then doubles.
Grow(name, i) ==
  IF \E k \in 0..i : i = Capacity * 2 ^ k THEN <<Step("realloc", <<>>, {<<name>>})>> ELSE <<>>

\* An array that ends where the body ends: each round of the loop tests the
\* bytes counted so far, reads an element and counts its bytes.  A round
\* that finds too few bytes counted asks for an element that is not there.
Endless(name, n, releases, steps, bytes) ==
  LET round(i) == Counted(bytes, At(<<name, i>>, steps)) \o Grow(name, i)
      loop == FoldRight(LAMBDA i, rest : Unless(Len(round(i) \o rest) + 2) \o round(i) \o rest,
                        [i \in 1..n |-> i], <<>>)
  IN Clear("amount_of_" \o name)
     \o Malloc(<<name>>, EndlessElements(name, n, releases))
     \o loop \o Unless(1) \o Ints(<<1>>)
     \o SetField("amount_of_" \o name, IF n = 0 THEN {} ELSE Filled)

\* The same in decompressed data, which ends the loop.
InflatedEndless(name, n, releases, steps) ==
  Clear("amount_of_" \o name)
  \o Malloc(<<name>>, EndlessElements(name, n, releases))
  \o FlattenSeq([i \in 1..n |-> At(<<name, i>>, steps) \o Grow(name, i)])
  \o SetField("amount_of_" \o name, IF n = 0 THEN {} ELSE Filled)

(***************************************************************************)
(* Types of util.c and all.c                                               *)
(***************************************************************************)
Vector3d == PlainStruct(12, <<4, 4, 4>>, 4 + 4 + 4)
Vector2d == PlainStruct(8, <<4, 4>>, 4 + 4)

\* A count and, if it is not 0, a first point and packed differences.
MonsterMoveSpline(name, w) ==
  Ints(<<4>>)
  \o IF w.count = 0 THEN At(<<name>>, Null({"splines"}))
     ELSE Malloc(<<name, "splines">>, {})
          \o Minimum(12) \o Ints(<<4, 4, 4>> \o Repeat(w.count - 1, 4))
WRITE_MONSTER_MOVE_SPLINE(w) ==
  4 + Bytes(w.count # 0, Vector3d.written + (w.count - 1) * 4)
wwm_monster_move_spline_size(w) == IF w.count = 0 THEN 4 ELSE 4 + 12 + (4 * (w.count - 1))

\* A GUID and, if it is not 0, a name.
wwm_named_guid_size(w) == 8 + Bytes(Is(w, "guid"), w.len + 1)
NamedGuid(w) ==
  LET named == Is(w, "guid")
  IN [free |-> FreeIf("guid", {"guid"}, Free({"name"})),
      read |-> Field(8, "guid", {}, w) \o When(named, Cstring("name", w)),
      written |-> 8 + Bytes(named, WRITE_CSTRING(w)),
      size |-> wwm_named_guid_size(w)]

VariableItemRandomProperty(w) ==
  LET suffixed == Is(w, "item_random_property_id")
  IN Struct({}, Ints(<<4>>) \o When(suffixed, Ints(<<4>>)),
            4 + Bytes(suffixed, 4), IF suffixed THEN 8 ELSE 4)

(***************************************************************************)
(* Compression.  wwm_compress_data stores the data between 7 bytes before  *)
(* and 4 bytes after; the inflater is external.                            *)
(***************************************************************************)
wwm_compress_data_size(n) == n + 11

\* Pointers that are local variables of a read function
LocalPaths == {<<"decompressed_data">>}

\* if ((body_size - _size) > (reader->length - reader->index)), which asks
\* for one byte whatever the difference
Await == <<Step("await", <<>>, {})>>

\* decompressed_data = malloc(decompressed_size); decompress; from here on
\* the reader is one on the decompressed data, of a message or of a member.
Inflate == Malloc(<<"decompressed_data">>, {}) \o <<Step("inflate", <<>>, {})>>
InflateMember == Malloc(<<"decompressed_data">>, {}) \o <<Step("inflate member", <<>>, {})>>
FreeInflated == <<Step("free", <<>>, LocalPaths)>>

(***************************************************************************)
(* A message: the bytes of its opcode, the steps of its read function,     *)
(* what its free function releases, the bytes its write function emits,    *)
(* and the value that puts in the header's size.                           *)
(***************************************************************************)
Released(struct) == struct.free \union UNION UNION {Range(s.cleanup) : s \in Range(struct.read)}

Message(opcode, struct, sizeField) ==
  LET releases == Released(struct)
  IN [opcode |-> opcode, read |-> Header(<<2, opcode>>) \o struct.read, free |-> struct.free,
      slots |-> {r.slot : r \in releases} \union UNION {s.slots : s \in Range(struct.read)},
      tests |-> UNION {r.tests : r \in releases},
      written |-> 2 + opcode + struct.written, sizeField |-> sizeField % 65536]

\* WRITE_U16_BE((uint16_t)X_size(object) + 4) and + 2
Client(struct) == Message(4, struct, (struct.size % 65536) + 4)

Server(struct) == Message(2, struct, (struct.size % 65536) + 2)

Cmsg(releases, read, written, size) == Client(Struct(releases, read, written, size))
Smsg(releases, read, written, size) == Server(Struct(releases, read, written, size))

\* WRITE_U32(_decompressed_data_length), and the compressed data if there are
\* any, whose length is then written over the size
CompressedSmsg(releases, read, data) ==
  LET compressed == wwm_compress_data_size(data)
      struct == Struct(releases, read, 4 + Bytes(data # 0, compressed), data)
  IN Message(2, struct, IF data = 0 THEN 2 ELSE compressed + 4 + 4)

Listed(groups) ==
  ListedBy(LAMBDA r : <<Len(r.read), r.written, Cardinality(r.slots)>>, groups)

\* Messages of integers only, and messages without members
PlainMessage(minimum, sizes, written, size) ==
  Struct({}, Minimum(minimum) \o Ints(sizes), written, size)
PlainCmsg(minimum, sizes, written, size) ==
  [w \in {Fixed} |-> Client(PlainMessage(minimum, sizes, written, size))]
PlainSmsg(minimum, sizes, written, size) ==
  [w \in {Fixed} |-> Server(PlainMessage(minimum, sizes, written, size))]
EmptyCmsg(size) == [w \in {Fixed} |-> Client(Struct({}, <<>>, 0, size))]
EmptySmsg(size) == [w \in {Fixed} |-> Server(Struct({}, <<>>, 0, size))]
=============================================================================
