# A verification project for wow_messages_c

This directory holds TLA+ specifications of the World of Warcraft message
libraries in this repository, the TLC configurations that check them and the
TLAPS proofs about them. It covers the reading of every kind of message:

- the incremental reads of the C login library and of the C world library
  (versions 1.12, 2.4.3 and 3.3.5), from the first call of `X_opcode_read` on a
  partial message to the release of the object;
- the blocking reads of the C++ login and world libraries, message after message
  from one connection;
- for each message, what its write, size and free functions do as far as the
  reads have to agree with it.

## 1. The system

The repository is a set of four serialisation libraries (login and world
messages, in C89 and in C++11), printed by a Python generator from an external
message schema, and a small example server. Nothing in the libraries is
concurrent. What is hard in them is that one operation is spread over four
generated functions (`read`, `write`, `size`, `free`) that have to agree on
every branch, that reads are repeated on growing prefixes, and that ownership of
heap memory passes between attempts and caller.

| Component | State it keeps | Operations | Correct when |
|---|---|---|---|
| C login reader (`wow_login_messages_c/src/util.h`) | `index` and `length` in the caller's buffer | `READ_U8` ... `READ_CSTRING`, `READ_ARRAY`, `SKIP_FORWARD_BYTES`; each fails with the number of missing bytes | `index <= length`; the number never leads past the end of the message |
| C login messages (`login.c`) | one object: scalar members, heap strings and arrays | static `X_read`, exported `X_write`, `X_free`, static `X_size`, for protocol versions 2, 3, 5, 6, 7, 8 and "all" | read consumes what write emits; size agrees with write; no attempt leaks, nothing unassigned is freed, `X_free` releases all |
| C login opcode containers (`login.c`) | an opcode and a union of objects | `X_opcode_read`, `X_opcode_write`, `X_opcode_free`, `X_opcode_to_str` | the opcode names the member of the union that is in use, also after a failed read |
| C writer (`util.h`) | `index` and `length` in a destination | `WRITE_*` | never writes past the destination; the size field fits its type |
| C world messages (`wow_world_messages_c/src/{vanilla,tbc,wrath}.c`) | as above, plus the body size from the header | as above; endless and compressed arrays, compressed messages, optional tails, nested structs | the body ends where the header says; failure releases the buffers of both readers |
| C world codecs (`util.c`, masks in `vanilla.c`...) | update masks, aura masks, splines, packed GUIDs, addon arrays | read, write, size, free | read is the inverse of write; size is what write emits; wire counts stay inside fixed arrays |
| C++ libraries | the same objects with `std::string`, `std::vector`; an abstract `Reader` | `ClientOpcode::read`, `ServerOpcode::read`, writers returning `vector<unsigned char>`, header callbacks | as above; the header is encrypted over its final contents |
| Example servers (`examples/vanilla`) | a socket, a shared static buffer, the header cipher, a container | the fixed login and world sequence | both ends of the stream cipher see the same headers in the same order |
| Generated tests, `test_utils` | a buffer, a container | read whole, free, read in pieces, write, compare, free | they accept what the library promises |
| Generator (`generator/`) | the schema and the text printed | `print_read`, `print_write`, `print_size`, `print_free`, `write_opcode_*` | a pure batch program; its output is what is modelled |
| `puff.c`, `wow_srp` | vendored; an empty submodule here | `puff`, session keys and header crypto | external |

How they interact: a caller puts received bytes into a buffer, makes a reader of
it and calls `X_opcode_read` (`login_utils.py:503-591` prints it). That reads
the opcode, dispatches to the `X_read` of one member of the container's union,
and returns its result. A positive result is the number of missing bytes, 0 is
success, a negative one an error (`wow_login_messages.h:29-35`). After a
positive result the caller sets `reader.index` to 0, adds bytes and calls again
with the same container; this is the loop the generator prints for every test
message (`print_tests.py:142-156`). The world libraries add a size field ahead
of the opcode, the example a stream cipher over size and opcode.

### Hard behaviours

The main ones are listed at their lines under `hazards` in `PROJECT.json`. In
short: the missing-byte count (minimum sizes, nested minimums, byte-wise
strings); functions that must agree branch by branch; repeated attempts over the
same object; a cleanup in the middle of a nested array; failures that leave past
the cleanup; free functions that test fields read from the wire; a container
that is uninitialised or still holds another message; 16-bit and 8-bit size
fields; the underflow of a body size; tests of `_size`, which is added up apart
from the reads, against the size in the header; a C++ read that blocks for a
byte too many; and, in the example, the lockstep of the cipher. No crash
recovery, timeout or thread exists in the code, and none is modelled.

## 2. Modules

| Module | Role |
|---|---|
| **C login library** | |
| `MessageFormat` | The vocabulary of its generated read functions: one operator per macro (`Fixed`, `Field`, `Each`, `String`, `Cstring`, `Calloc`, `Minimum`, `SetNull`, ...), each building a step. `Message` joins the steps with the byte count of the write function, the size field and the pointers of the free function. |
| `LoginMessages` | Every distinct message, transcribed from its four functions. |
| `IncrementalRead` | The machine that executes the steps, the memory, and the two callers. |
| `MessageAssembly` | The abstract specification: a message arrives in pieces and is completed when, and only when, all of it is there. `IncrementalRead` and `WorldRead` implement it. |
| `MCIncrementalRead`, `MCIncrementalReadProof` | Instances for TLC: which messages, which slots; the assumptions of the proofs, evaluated on every login message. |
| `IncrementalReadProof`, `IncrementalReadMemoryProof`, `IncrementalReadAssemblyProof` | Types and the protocol of the missing-byte counts; the memory properties; the safety part of `MessageAssembly`. Proofs. |
| **Both world libraries** | |
| `Wire` | What the code branches on in a world message: lengths, counts, enumerators and flags; lists of messages. |
| **C world library** | |
| `WorldFormat` | As `MessageFormat`, with nested structs, arrays without a count, optional tails, compressed members and messages, the codecs of `util.c`. |
| `VanillaStructs`, `TbcStructs`, `WrathStructs` | The structs of a version: read, write, size and free. |
| `VanillaMessagesLow/High`, `TbcMessagesLow/High`, `WrathMessagesLow/Mid/High` | Its messages, by opcode. |
| `WorldRead` | The machine, the memory and the callers. |
| `MCWorldRead`, `MCWorldExceptions`, `MCWorldMemoryProof`, `MCWorldReadProof` | The catalogues of the runs; the assumptions of the proofs, evaluated on the messages. |
| `WorldReadProof`, `WorldReadMemoryProof`, `WorldReadUncompressedProof` | Types, bytes and the end of all retries; the memory properties; results, leaks and the refinement for messages that are not compressed. Proofs. |
| **C++ libraries** | |
| `CppFormat` | The vocabulary: runs of pulled bytes, tests of `_size`, decompression. |
| `CppLoginMessages`, `CppVanillaStructs`, `CppVanillaMessagesLow/High`, `CppTbc...`, `CppWrath...` | Structs and messages: read, write and size. |
| `CppRead` | A connection, the reader on it, and the peer that sends. |
| `MCCppRead`, `MCCppReadProof` | The catalogues of the runs; the assumption of the proofs, evaluated on the messages. |
| `CppReadProof` | Types, whole messages, what a read waits for, and `_size`. Proofs. |

The three machines are independent of each other, as the libraries are. The
catalogues are constants of the machines: what a run or a theorem says of a
machine it says of the messages it is given.

### Messages as sequences of steps

For one concrete message the lengths and conditions in an `X_read` are known, so
the function is a straight sequence of macro invocations. A message is therefore
a record whose field `read` is that sequence, and the parameters of its
definition (string lengths, element counts, `result = SUCCESS`, enumerators and
flags) are exactly what the code branches on. The contents of the other bytes
cannot influence control and are left out. `written` is the number of bytes of
each `WRITE_` (C++: `writer.write_`) call of the write function, added up in
their order; `sizeField` is what the size function returns, constants and sums
as it has them; and what is released comes from the free function. The four are
separate transcriptions of separate code, down to the helpers (`WRITE_CSTRING`,
`update_mask_written` and `update_mask_size`, ...), and the properties compare
them. Structs and messages of one length have no size function (`PlainStruct`,
`FixedStruct`): what contains such a struct counts a number of its own, and such
a message puts one in its header. The length of compressed data is the same for
both, which get it by compressing them.

A world message has too many parameters for a definition with one each. It is a
function on a set of *wires*: records of a length (of all its strings, masks and
packed GUIDs), a count (of all its arrays) and the set of enumerators and flags
that its fields hold (`Wires`). The source repeats many functions word for word,
above all those of the movement messages; a longer message that repeats an
earlier one of its version in all its functions is defined as that one, and
PROJECT.json maps it to its own lines.

### C login library: `IncrementalRead`

| In the model | In the code |
|---|---|
| `index`, `length` | `reader->index`, `reader->length` |
| `pc`, `op` | the position in the generated function; "cleanup" is its label |
| `ret` | `_return_value`, then the caller's `result` |
| `ptr` | each pointer member: "garbage" (never assigned), "null", "live" (owns memory) |
| `guard` | the condition on `result` or `security_flag` that encloses the frees in `X_free` |
| `wild`, `leaked` | history variables: a garbage pointer was freed, a live one overwritten |
| `Enough`, `Missing` | `WLM_CHECK_LENGTH`, `SKIP_FORWARD_BYTES`: condition and count |
| `ReadHeader` | opcode of `X_opcode_read`, whose failure frees nothing |
| `CheckMinimum` | the minimum size at the head of `X_read`, before the NULLs |
| `NullPointers` | `object->member = NULL;` for every pointer member |
| `ReadInt`, `ReadField`, `ReadString`, `ReadCstring` | the `READ_` macros; `ReadField` for a field the free function tests, zeroed before it is read |
| `AllocArray` | `calloc`, whose failure returns `MALLOC_FAIL` past the cleanup |
| `Cleanup` | the cleanup label of the nested struct, then of the message |
| `CallRead` | the entry of `X_opcode_read` with its check of the reader |
| `FinishWhole`, `RetryExactly`, `AbortTest`, `Release` | the generated test loop |
| `ReceiveMore`, `GiveUp` | a user reading from a socket (external): any number of bytes between attempts, a free after an error |

The test's container is an uninitialised local variable and its buffer holds the
whole message at first; the stream's container is zeroed and starts with no
bytes. The model follows one message in one container.

### C world library: `WorldRead`

As above, with these differences:

| In the model | In the code |
|---|---|
| `tally`, `body_size` | `_size`, which the read function adds up member by member, and the size of the body from the header |
| `scope` | the cleanup labels a failure unwinds through: each nested struct's, each function calling its own `X_free` |
| `ptr` = "dangling" | freed and not set to NULL (`wwm_monster_move_spline_free`) |
| `fields` | what each field holds that a free function tests (`FreeIf`): the enumerators and flags a branch names, the type of a GUID, the amount of an array |
| `Applies`, `Release` | a free function called on the object as it is, with the tests and the NULL checks of the arrays around each pointer |
| `Local` | buffers that only a local variable points to: lost when the function returns |
| `ReadInts` | consecutive members without a pointer; each still has its own length check (`step.ends`), and a failure stops at the first that misses bytes |
| `AllocArray`, `AllocUncleared`, `GrowArray` | `calloc`, `malloc` and `realloc` of arrays; what they do to pointers and fields in the elements differs, and so does how far a failure unwinds |
| `TestSize` | `if (_size < body_size)` before an optional tail, `while (_size < body_size)` of an array without a count |
| `AwaitBody` | the wait for the compressed data of a member, with the constant result 1 |
| `InflateBody`, `InflateArray`, `FreeLocal` | decompression (external) and the second reader on its output |

### C++ libraries: `CppRead`

| In the model | In the code |
|---|---|
| `position`, `arrived`, `sent` | what the `Reader` of the caller has handed out, and what `recv` could |
| `ReadHeader` | the head of `ClientOpcode::read` and `ServerOpcode::read` |
| `Pull` | consecutive `read_u8`, `read_u32`, ..., each of which blocks until there are bytes; no check is made and nothing can fail |
| `body_size`, `tally` | the size from the header less the opcode, and `_size` |
| `TestSize`, `CheckRest` | `_size < body_size`; `if ((body_size - _size) == 0) return obj;` |
| `TakeFromBody`, `TakeRemainder` | the loops that copy compressed data; their lengths are unsigned differences (`Minus`, with the bound `Wrapped` for a value near 2^64) |
| `InflateBody`, `InflateArray`, `PullInflated`, `TestEnd` | decompression (external) and `ByteReader`, which does not check `m_index` |
| `Send`, `Deliver` | the peer: what the write function returned is sent, and arrives in pieces |

The login read functions have no `body_size`; their catalogue has no step that
looks at one.

## 3. What TLC checks

| Run | Configuration | Properties |
|---|---|---|
| `login_read` | `LoginRead.cfg`: all C login messages, both callers, any allocation may fail | `TypeOK`, `NeverOverAsks`, `SuccessMeansComplete`, `SizeFieldIsWritten`, `IncompleteOwnsNothing`, `NoWildFree`, `NothingLeaked`, `ReleasedOwnsNothing`, `OwnedIsReleasable`, `EveryStepCounts` |
| `read_assembly` | `ReadAssembly.cfg`: one login message of each shape, with fairness; the proofs' assumptions on all | `ImplementsAssembly`, `MemoryInv` |
| `realm_list_request` | `RealmListRequest.cfg`: the client's `CMD_REALM_LIST` | a violation of `SuccessMeansComplete` |
| `world_read` | `WorldRead.cfg`: the messages of the three versions, the generated tests, allocations succeed; the proofs' assumptions on all | `TypeOK`, `NeverOverAsks`, `SuccessMeansComplete`, `PartialIsNoError`, `IncompleteOwnsNothing`, `NoWildFree`, `NothingLeaked`, `ReleasedOwnsNothing`, `SizeFieldIsWritten`, `ImplementsAssembly`, `EveryStepCounts` |
| `world_stream` | `WorldStream.cfg`: the messages of 1.12 that own memory, from a socket, any allocation may fail; the proofs' assumptions on them | the four memory properties, `ImplementsAssembly` |
| `compressed_read` | `CompressedRead.cfg`: messages with a compressed body or member, both callers, with fairness; the proofs' assumptions on them but `UncompressedAssumption` | `NeverOverAsks`, `NoWildFree`, `IncompleteOwnsNothing`, `ReleasedOwnsNothing`, `EventuallyOver` |
| `compressed_size` | `CompressedSize.cfg`: messages with a compressed body | a violation of `SizeFieldIsWritten` |
| `compressed_stream` | `CompressedStream.cfg`: the same, from a socket | a violation of `PartialIsNoError` |
| `auth_session` | `AuthSession.cfg`: `CMSG_AUTH_SESSION` | a violation of `NeverOverAsks` |
| `addon_info` | `AddonInfo.cfg`: `SMSG_ADDON_INFO` of 1.12 | a violation of `NoWildFree` |
| `cpp_read` | `CppRead.cfg`: all C++ messages, two of each on one connection, with fairness; the proofs' assumption on all | `TypeOK`, `ReadsWholeMessages`, `SizeFieldIsWritten`, `CountsWhatItReads`, `InflatedInBounds`, `WaitsForItsOwn`, `EventuallyReturned` |
| `cpp_size` | `CppSize.cfg`: `CMSG_UPDATE_ACCOUNT_DATA` as the library writes it | a violation of `ReadsWholeMessages` |

### What they show

*C libraries.* A caller that adds exactly what it is asked for ends with exactly
the message, on every branch of every message but the exceptions below, and so
does one that adds any other amount. A failed attempt owns nothing, so the NULLs
of the next attempt lose nothing. A `MALLOC_FAIL` that leaves past a cleanup
leaves memory that the container still reaches, and the caller's free releases
it. The uninitialised container of the tests is safe because their first read
sees the whole message: the minimum check cannot fail then, and the NULLs come
before anything that can. (A short *first* read into an uninitialised container
would free garbage. No caller of the models does that; the example server does.)
In the world library the size in the header, `_size` and the bytes read agree
wherever an optional tail or an array without a count depends on them. No retry
is in vain: each step of a read or of its caller brings the release of the
message nearer (`EveryStepCounts`), and what a caller sees of all its attempts
is a message that arrives and is then complete (`ImplementsAssembly`). What
decompression adds is a local buffer, and reads that fail whenever it does: the
container can be freed all the same.

*C++ libraries.* Two messages sent back to back are told apart although nothing
on the connection separates them; a read returns a message as soon as its last
byte is there, and never waits for a byte of the next (`WaitsForItsOwn`), so
that a peer that waits for the answer gets one; wherever a read function
consults `_size`, it is the number of bytes of the body taken so far; and
`ByteReader`, which checks nothing, stays inside the decompressed data.

### Disagreements

Six runs are meant to end in a counterexample. Each shows the code at odds with
what a test or a generator comment says; `findings` in `PROJECT.json` quotes the
lines.

- `realm_list_request`: the generator skips messages without members of their
  own (`login_utils.py:560-561`), and the client's `CMD_REALM_LIST` has only
  four constant bytes. The read succeeds after the opcode, although the message
  the library writes, and the test gives, is five bytes long. The next read on
  the same reader would take the padding for opcode 0. The C++ library does the
  same.
- `compressed_size`: the size field of a compressed message is two too large.
- `compressed_stream`: a prefix of a compressed message is handed to the
  decompressor and reported as an error. The generated test passes because the
  rest of the message lies behind `reader.length`.
- `auth_session`: the decompressed size of an empty compressed member is read
  always and written never. `CMSG_GMTICKET_CREATE` and
  `CMSG_UPDATE_ACCOUNT_DATA` share it.
- `addon_info`: an array without a count allocates its elements with `malloc`,
  and the cleanup of an element cut short frees its uninitialised pointer.
  `SMSG_LFG_JOIN_RESULT` of 3.3.5 shares it.
- `cpp_size`: the C++ size function of messages with a compressed member counts
  one word too few, and a read that trusts the header leaves bytes behind. The
  three messages are `CMSG_AUTH_SESSION`, `CMSG_GMTICKET_CREATE` and
  `CMSG_UPDATE_ACCOUNT_DATA`, in all versions.

The size function of four more C++ messages disagrees with the write function.
Their read functions do not look at the size, so nothing is left behind by a
reader of this library, but the header is wrong:

- `SMSG_MESSAGECHAT` and `SMSG_GM_MESSAGECHAT` of 2.4.3 and 3.3.5: the size of a
  named GUID leaves out the terminator of the name (`util.cpp:104`), one byte;
- `SMSG_RESPOND_INSPECT_ACHIEVEMENTS` and `SMSG_ALL_ACHIEVEMENT_DATA` of 3.3.5:
  the size of each array of achievements leaves out the word that ends it
  (`wrath.cpp:6536`), eight bytes in all.

All seven are in `cpp_read` as incoming messages only (`FromClient`), with the
size of what is sent put in by hand. Their read functions are checked there, but
`SizeFieldIsWritten` says nothing about them, since it would not hold.

The C messages concerned are left out of the passing runs by name
(`MCWorldRead!Exceptions`): what `world_read` shows, of `SizeFieldIsWritten`
too, it does not show of them. Two more are left out of `world_read`:
`SMSG_MONSTER_MOVE` and its transport variant, whose free function leaves the
pointer to the splines as it is. A container that has been read into, freed and
read into again by a read that stops at the minimum size, as the loop of the
tests does, has its splines freed twice. The repository has no test vector for
the two, so the tests do not meet it; it is listed as a hazard.

### Bounds, and why they are enough

- *Login.* Every message with every outcome of the tests that select members,
  arrays of 0, 1 and 2 elements, strings of 0 to 2 characters (`Lengths`,
  `RealmsOf`). Two array elements are what a failure in the second needs to find
  the first allocated; a string of two characters has an inside. Lengths enter
  the conditions only through sums, and the proofs cover all of them. Large
  fixed arrays have their real sizes, so `ReceiveMore` splits the message at
  every byte. `read_assembly` has liveness to check and takes one message of
  each shape (`AssemblyMessages`).
- *C world.* `Lengths` and `Counts` are {0, 2}: empty and with an inside. Each
  enumerator that any of the four functions treats in its own way is on some
  wire, and of the flags none, all, each one alone and each one missing, which
  is what nested conditions on two flags need. One updated object
  (`UpdatedObjects`) instead of two, because an object alone has so many wires.
  `Capacity` is 1 instead of 8, so that the second element of an array without a
  count already grows it. Later versions share many messages with earlier ones;
  a message that has the same records is run once (`Unlike`). `world_read` lets
  the test loop add what it is asked for; the splits are those at every length
  check.
- `world_stream` splits at every byte and fails at every allocation, which
  multiplies: it takes version 1.12, whose vocabulary the others use, one
  length, and no message that reallocates, since a failing `realloc` loses the
  old block in plain sight. The compressed runs have elements and lengths of at
  most one, since they follow the decompressor and not the elements.
- *C++.* Length 2, counts 0 and 2, two messages of the same kind on a connection
  (`Messages`). Where in a message the bytes run out makes no difference to a
  read that blocks, other than at its end: messages are cut between two of them
  and before the last byte (`Cut`, a constant of the module, of which the proofs
  assume nothing).

There is no other state bound: `length` and `arrived` are bounded by the
messages, since bytes of messages are all that arrive.

Idealisations. `malloc(n)` and `calloc(n, ...)` of the login library may fail at
any time in `login_read`, which covers platforms where n = 0 gives NULL; in
`world_read` they succeed. A count fits an `int`; the messages of the instances
are far below the 16-bit and 24-bit limits of size fields. Consecutive members
without a pointer are one step, with all their length checks. Decompression of
complete data succeeds; of incomplete data it may do either.

`cpp_read` and `cpp_size` do not check for deadlock: a blocking read waits for
good when the peer has nothing more to send. That it never does so in the middle
of a message is `WaitsForItsOwn` and `EventuallyReturned`.

### Fairness

The C libraries and their callers are one sequential program that does not stop
between two steps, so `FairSpec` of `IncrementalRead` and of `WorldRead` is weak
fairness of `Library \/ Callers` and no more; for the stream it also says that
the rest of a message that has begun arrives. In `read_assembly`
`ImplementsAssembly` then includes that the loop of the tests ends;
`EventuallyOver` says it of the compressed messages, of which a member is
awaited with the constant result 1. The runs of `WorldRead` that are too large
for a check of liveness have `EveryStepCounts` and the safety part of
`ImplementsAssembly` in its place: rounds of the caller, bytes still to come,
parts of a call and steps, in this order, of which every step leaves less, so
that only a machine that stops does not get to the end.

In `CppRead` the library, the network and the peer are separate. The library
does not stop unless it waits (`WF_vars(Library)`), and what is sent arrives
(`WF_vars(Deliver)`). The peer is fair only in `sent = returned /\ Send`: it may
send ahead, but may as well wait for an answer to each message. Fairness of
`Send` alone would hide a read that swallows the first byte of the next message.

`ImplementsAssembly` maps `received` to `length`, and the first, complete read
of the test to one byte received, since the loop starts over with one byte. All
attempts, failed or not, are stutters of the abstract specification; the steps
that enlarge the buffer are `Arrive`, the return of `SUCCESS` is `Complete`.

`PROJECT.json` names for every property of a passing run a mutant of a modelled
definition (an operator with the same parameters defined ahead of it, marked
"Mutant") that violates it: a minimum that counts an optional byte, padding that
is written and not read, a cleanup that forgets the outer message, a length
check one byte too generous, a size function that forgets a member, and so on.

## 4. What is proved

The theorems hold of every catalogue of messages that satisfies the assumptions
named below, hence of strings, arrays and nesting of any size, of both callers,
of every way to cut the messages into pieces and of any number of attempts.

### The assumptions

A message is a sequence of steps, and some facts about a sequence would need
induction over data, which the provers do not have: that the sizes of the steps
add up to the message, or what a pointer holds after the first hundred of them.
Each proof takes such facts about *one undisturbed run of one read function* as
an assumption. The assumption has a constant operator as a parameter (`At`,
`Path`, `Memory`) that gives the values along the run, and says of each step
that its values follow from those before. The MC module computes the operator,
and TLC evaluates the assumption on every message of the run, so that a change
of the generator that breaks it is a failing run. What the theorems add is all
that disturbs a run: missing bytes, failed allocations, unwinding, repetition, a
container in whatever state the last attempt left it, and on a connection the
messages before and behind.

| Assumption | Says | Evaluated on |
|---|---|---|
| `IncrementalRead!CatalogueAssumption`, `WorldCatalogueAssumption`, `CppRead!CatalogueAssumption` | the types of the records | the messages of all runs of these modules |
| `IncrementalReadProof!LayoutAssumption` (`At`) | the steps consume exactly `written` bytes; a minimum fits into the rest | all login messages |
| `IncrementalReadMemoryProof!DisciplineAssumption` | NULLs first, a pointer allocated once, a guarded pointer behind the field its guard tests and only where the guard holds | all login messages |
| `WorldLayoutAssumption` (`Path`) | no length check on the path reaches past the message; `_size` is right wherever it is compared | the messages of `world_read`, `world_stream` and `compressed_read` |
| `WorldReadMemoryProof!DisciplineAssumption` (`Memory`) | below | the same: allocations succeed and the container is uninitialised in `world_read`, they fail and it is zeroed in `world_stream`; in `compressed_read` they succeed and the container is either |
| `UncompressedAssumption` | no message with a compressed body, no local buffer; the path ends with the last byte | the messages of `world_read` and `world_stream` |
| `CppReadProof!LayoutAssumption` (`Path`) | a read function given its own message takes all of it, and `_size` is right wherever it is compared | all messages of `cpp_read` |

### C login library

*Protocol.* `TypeCorrect`, `AsksWithinMessage` (`NeverOverAsks`) and
`SucceedsOnWhole` (`SuccessMeansComplete`). The two properties speak of the
moment a call returns and are not inductive: what makes them so is where the
reader stands before. `ProtocolInv` adds that while the function runs `index` is
the offset `At` of the next step, that an idle reader stands at 0, that the
buffer is never longer than the message, and that a failure on its way to the
caller already asks for no more than the rest. `StepEnds` shows once that each
of the eight kinds of step either reaches the next offset or fails within the
message; the actions follow from it.

*Memory.* `MemoryInvariant` (`MemoryInv`), and from it `FreesOnlyOwned`,
`LosesNothing`, `CleansUp`, `ReachesAll` and `ReleasesAll`. `StepEffect` reduces
the eight kinds of step to five effects on the memory (pass, run out, null,
allocate, fail to allocate). `MemoryInv` says, about garbage: it exists only in
the test's container before its first read has succeeded, and none is in the
members that the free function looks at once the NULLs are done; about what is
live: it is exactly what the steps before `op` have allocated, and the guard has
its final value once its field is read. The point that needs the discipline is
`RunsOutMemory`, a failure in the middle: every live pointer is then in
`Released(ptr)`, so that the cleanup empties the object.

*Refinement.* `AssemblesMessages` is the safety part of `ImplementsAssembly`:
each step of `IncrementalRead` is a step of `MessageAssembly` or a stutter.
`AssemblyInv` adds to `ProtocolInv` that a negative result on its way to the
caller comes from an allocation, without which a message could be given up for
no reason.

*Progress.* `RetriesEnd` (`EveryStepCounts`), the argument behind the liveness
that TLC checks. It needs no layout: whatever a message is like, what a read
asks for is at least one byte.

### C world library

*Types, bytes and progress* (`WorldReadProof`). `TypeCorrect`,
`AsksForTheMessage` (`NeverOverAsks`) and `RetriesEnd` (`EveryStepCounts`).
`LibraryResults` reduces the seventeen actions of the library to seven results
for the numbers (passes, runs out, awaits the body, out of memory, corrupt,
unwinds, succeeds). `AsksInv` says that a running function is at a point of its
path, with `index`, `_size` and the choice of reader that the path has there;
`TestSize` looks at `_size`, and it is the layout that makes it take the branch
the message has (`PassesTo`). `RetriesEnd` rests on the types alone, so that it
holds of messages whose layout is broken as well: `CMSG_AUTH_SESSION` is never
read, but no caller repeats the read for ever.

*Memory* (`WorldReadMemoryProof`). `FreesNoWildPointer` (`NoWildFree`),
`IncompleteFreesAll` (`IncompleteOwnsNothing`) and `FreesTheObject`
(`ReleasedOwnsNothing`), compressed messages included. The discipline of the
login messages does not do here: pointers lie in arrays in structs, arrays are
freed before their amount is set, and a failure passes the labels of several
functions. `Memory(m)[k]` is what is known of the object before step k: the
states each pointer may be in, and what each field holds that a free function
tests. The discipline says of each step that it overwrites nothing that may be
live, and where it may fail, of the object as it is then known, that

- each free function under each label finds nothing unassigned (`Spares`), or
  looks only at members that this attempt has not touched (`Untouched`);
- each member that may be live is surely reached (`Reaches`) by the free
  function of one of the labels, or by the caller's when the failure leaves past
  the labels (`Covers`);
- what an inner label frees does not hide from an outer one anything that the
  inner one has not freed as well (`Nested`);
- a pointer that a free function leaves dangling lies in memory that the same
  function frees, and no free function gets to it but through that (`Buries`):
  the splines of the monsters of `SMSG_COMPRESSED_MOVES`; and
- where the inflater may fail, the caller can free the object and reaches all of
  it (`Leaves`): a corrupt body is reported past the labels.

Two things set compressed messages apart. What is read from decompressed data
does not run out, so these steps need no order for that (`MayRunOut`). And the
buffer is a local variable that no free function knows (`Members`): `MemoryInv`
says only that it is gone when the function returns (`LocalsGone`).

`MemoryInv` then has two halves. While the function runs, the object is one of
those that `Memory` describes (`WhileReading`), and what the attempt has not
touched is harmless because the last attempt has left it so. While a failure
unwinds, nothing is left of `Memory`: all that is live is within reach of the
labels still to come (`Covered`), and no label is given anything unassigned.
`UnwindsOn` is the heart of it: a label sets pointers to NULL, through which the
next label would have reached others; by `Nested` those have been freed too.
`SMSG_ADDON_INFO` does not keep the discipline, its elements being unassigned
where they can run out of bytes; `addon_info` shows what follows.

The theorems need the first read of an uninitialised container to succeed unless
an allocation fails, which `AsksInv` provides: the test's first read sees the
whole message. With the uninitialised container *and* failing allocations the
discipline does not hold: a failed `calloc` in `SMSG_SPELL_GO` unwinds into a
free function that looks at a pointer assigned only later. The generated tests
do not meet that, and no run has that combination.

*Messages that are not compressed* (`WorldReadUncompressedProof`).
`SucceedsOnTheWhole` (`SuccessMeansComplete`), `PrefixIsNoError`
(`PartialIsNoError`), `LosesNothing` (`NothingLeaked`) and `AssemblesMessages`
(`ImplementsAssembly`). `ResultInv` adds to `AsksInv` that no failure turns into
a success on its way through the cleanup labels. What `MemoryInv` says of lost
memory is that only a message with a local buffer loses any. The mapping of
`AssemblesMessages` is the one of `IncrementalRead`; `AssemblyInv` adds that an
error is due to an allocation, and that the test's first read has the whole
message. None of the four holds of a compressed body: the inflater may be
content with a prefix of it, or report it as corrupt (`compressed_stream`) and
lose the buffer.

### C++ libraries

`TypeCorrect`, `ReadsWhole` (`ReadsWholeMessages`), `CountsBody`
(`CountsWhatItReads`) and `WaitsForNoOther` (`WaitsForItsOwn`, the safety part
of `EventuallyReturned`), for any number of messages on the connection.
`ReadInv` says that between two messages the reader stands at a multiple of the
message's size, and within one at a point of its path, counted from there; that
a read which waits may find the bytes of later messages behind its own does not
matter to it. The unsigned differences that bound the copying loops are shown
not to wrap on the path.

The proofs use SMT and Zenon for the steps and PTL for the temporal conclusions.

### Only model-checked

- The liveness part of `ImplementsAssembly` in `read_assembly`, `EventuallyOver`
  and `EventuallyReturned`: liveness under fairness is out of reach of the
  prover, and so is the step from `EveryStepCounts` to it, which needs ENABLED.
- `SizeFieldIsWritten`, a fact about each message and not about all catalogues;
  and that the messages satisfy the assumptions, for the lengths and counts of
  the runs.
- `InflatedInBounds`: how far a read of decompressed data goes depends on the
  message alone, so that a proof could only assume the bound at each step.
- That a message with a compressed member is read whole, and that its buffer is
  not lost: the index of the reader stops at the compressed data, and the proof
  would need what the inflater makes of them.
- Messages that reallocate, when allocations may fail: a failing `realloc` loses
  the old block.

## 5. Plan

The models are complete in what they set out to cover, and every safety and
action property of the runs but `SizeFieldIsWritten` and `InflatedInBounds` is
stated by a theorem. What could be added: compressed messages of 2.4.3 and
3.3.5, and failing allocations in them; the masks, bit by bit; sequences of
messages in one container, once the library says which it allows.

`WorldRead`, `WorldFormat`, `CppRead` and `CppFormat` hold no RECURSIVE
operator, so that the proof modules can extend the machines.

## 6. Not modelled, and why

- *Containers across messages.* `X_opcode_read` leaves the union as the previous
  message left it. No doc, comment or test says which sequences of messages a C
  container may take without being freed, so there is nothing to hold the code
  to. The C++ `ClientOpcode` swaps in its move assignment with a member that has
  not been constructed, which is undefined behaviour as soon as opcodes differ.
- *The example servers* (`examples/`). What their session does after each
  message depends on values, and on the cipher of `wow_srp`, an empty submodule
  here. They take one `recv` for one message; no line promises more. The hazards
  of that are listed.
- *Writers at a full destination.* Write functions are modelled by what they
  emit into a buffer that is long enough; not the checks of `WRITE_*`, nor masks
  whose result is ignored.
- *Bits.* Which bits of a mask or packed GUID are set, and the values of members
  beyond what the code branches on. A mask is as long as its number of set bits.
- *Limits of types.* Messages beyond 255 elements, 32767 bytes or 65527 bytes of
  compressed data. Where the code truncates (`U8`, `U16`) the definition does
  too, but the instances stay below.
- `SMSG_ADDON_INFO` of 2.4.3 and 3.3.5, whose read functions in C and C++ call
  `abort()`, and in C the two messages of 3.3.5 with arrays of achievements,
  which end at a sentinel value.
- *Receiving from a peer that is not the library*: unknown opcodes, sizes below
  the header, counts that do not agree with the size.
- The generator as a program (a batch transformation of a schema that is not
  part of the repository; its output is modelled), `opcode_to_str` and printing
  (no state), `puff.c` (vendored), `wow_srp`, sockets (the operating system),
  `test_utils`, and the build files.
