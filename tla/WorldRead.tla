----------------------------- MODULE WorldRead -----------------------------
(***************************************************************************)
(* One message read by the C world library, from the first call of         *)
(* X_opcode_read on it to the release of the object it was read into.      *)
(*                                                                         *)
(* As IncrementalRead, but for the read functions of world messages        *)
(* (WorldFormat): a failure unwinds through the cleanup labels of nested   *)
(* structs, each of which calls its own free function; what a free         *)
(* function looks at depends on fields that may not have been read yet;    *)
(* arrays without a count and optional tails are bounded by the size in    *)
(* the header; and a body may have to be decompressed, by a reader of its  *)
(* own, into memory that only a local variable points to.                  *)
(*                                                                         *)
(* The callers are those of IncrementalRead: "test", the loop of the       *)
(* generated tests, and "stream", a user who reads from a socket into a    *)
(* zeroed container.                                                       *)
(***************************************************************************)
EXTENDS Integers, Sequences, SequencesExt

CONSTANTS Catalogue,     \* groups of messages, for each the list of its records, one for each wire
          Local,         \* the paths of local variables of the read functions
          Caller,        \* which callers are modelled
          AllocMayFail   \* whether malloc, calloc and realloc may return NULL

ASSUME WorldCallerAssumption ==
  Caller \subseteq {"test", "stream"} /\ AllocMayFail \in BOOLEAN

\* What WorldFormat builds: the sizes of the length checks of a step add up,
\* and no test skips past the end of the function.
WellFormed(record) ==
  /\ record.written \in Nat \ {0} /\ record.opcode \in Nat
  /\ Len(record.read) \in Nat /\ DOMAIN record.read = 1..Len(record.read)
  /\ \A t \in record.tests : t.set \subseteq STRING
  /\ \A k \in DOMAIN record.read :
       LET s == record.read[k]
       IN /\ s.ends \in Seq(Nat)
          /\ \A i, j \in DOMAIN s.ends : i <= j => s.ends[i] <= s.ends[j]
          /\ s.zero \union s.holds \subseteq STRING
          /\ s.tally \in Nat /\ Len(s.cleanup) \in Nat
          /\ s.skip \in 0..(Len(record.read) - k)

ASSUME WorldCatalogueAssumption ==
  \A group \in DOMAIN Catalogue : \A name \in DOMAIN Catalogue[group] :
    \A wire \in DOMAIN Catalogue[group][name] : WellFormed(Catalogue[group][name][wire])

\* enum WowWorldResult; the positive results are numbers of missing bytes.
SUCCESS == 0
NOT_ENOUGH_BYTES == 1
INVALID_PARAMETERS == -1
MALLOC_FAIL == -2
COMPRESSION_ERROR == -3

VARIABLES
  caller,    \* who calls
  message,   \* the message on the wire: where it is in the catalogue
  phase,     \* where the caller is: "whole", "partial", "released", "aborted"
  pc,        \* where the library is: "idle", "reading", "cleanup", "returned"
  at,        \* the step of the read function that is next, or that failed
  scope,     \* the cleanup label that is next, the innermost being 1
  index,     \* reader->index, of the reader the caller passed
  length,    \* its reader->length
  tally,     \* _size, the bytes of the body counted so far
  inflated,  \* whether reader is now one on decompressed data
  ret,       \* what the call returns
  ptr,       \* for each pointer "garbage", "null", "live" or "dangling"
  fields,    \* for each field a free function tests, what it holds
  wild,      \* history: a pointer that does not own memory was freed
  leaked     \* history: the last pointer to live memory was lost

reader == <<index, length, inflated>>
object == <<ptr, fields>>
history == <<wild, leaked>>
vars == <<caller, message, phase, pc, at, scope, reader, tally, ret, object, history>>

format == Catalogue[message[1]][message[2]][message[3]]
written == format.written
step == format.read[at]

\* The wire carries the right size, whatever X_write would put there.
body_size == written - 2 - format.opcode

Slots == format.slots
TestedFields == {t.field : t \in format.tests}
Labels == UNION {t.set : t \in format.tests}

(***************************************************************************)
(* Memory                                                                  *)
(***************************************************************************)

\* Mutant: what lies in an array or an optional tail is forgotten.
Applies_OuterOnly(r) == r.within = {} /\ \A t \in r.tests : fields[t.field] \intersect t.set # {}
\* Mutant: what depends on a field is forgotten.
Applies_UntestedOnly(r) == r.tests = {} /\ \A p \in r.within : ptr[p] # "null"

\* Whether the free function that contains r gets to its free(...): every
\* test on a field holds, and what the pointer lies in is not NULL.
Applies(r) ==
  /\ \A t \in r.tests : fields[t.field] \intersect t.set # {}
  /\ \A p \in r.within : ptr[p] # "null"

\* A free function with these releases is called.
Release(releases) ==
  LET due == {r \in releases : Applies(r)}
  IN /\ ptr' = [s \in DOMAIN ptr |->
                 IF \E r \in due : r.slot = s
                   THEN IF \E r \in due : r.slot = s /\ r.dangles /\ ptr[s] # "null"
                          THEN "dangling" ELSE "null"
                 ELSE ptr[s]]
     /\ wild' = (wild \/ \E r \in due : ptr[r.slot] \in {"garbage", "dangling"})
     /\ UNCHANGED <<fields, leaked>>

\* Pointers are overwritten: what they owned is lost.
Overwrite(slots, value) ==
  /\ ptr' = [s \in DOMAIN ptr |-> IF s \in slots THEN value ELSE ptr[s]]
  /\ leaked' = (leaked \/ \E s \in slots : ptr[s] = "live")

\* New memory: the pointers in it are contents, and the fields in it are
\* 0 or, if it was not cleared, hold nothing or anything.
Allocated(contents) ==
  LET inside == {r.slot : r \in step.fresh}
      insideFields == {t.field : t \in UNION {r.tests : r \in step.fresh}}
  IN /\ ptr' = [s \in DOMAIN ptr |-> IF s \in step.slots THEN "live"
                                     ELSE IF s \in inside THEN contents ELSE ptr[s]]
     /\ leaked' = (leaked \/ \E s \in step.slots \union inside : ptr[s] = "live")
     /\ \E held \in IF contents = "null" THEN {{}} ELSE {{}, Labels} :
          fields' = [f \in DOMAIN fields |-> IF f \in insideFields THEN held ELSE fields[f]]

(***************************************************************************)
(* Leaving and going on                                                    *)
(***************************************************************************)

\* return value: the local variables are gone.
Return(value) ==
  /\ ret' = value
  /\ pc' = "returned"
  /\ ptr' = [s \in DOMAIN ptr |-> IF s \in Local THEN "null" ELSE ptr[s]]
  /\ leaked' = (leaked \/ \E s \in Local \intersect DOMAIN ptr : ptr[s] = "live")

\* goto cleanup, or, with a label other than 1, the cleanup of a caller
Fail(value, consumed, label) ==
  /\ index' = consumed
  /\ ret' = value
  /\ pc' = "cleanup"
  /\ scope' = label
  /\ UNCHANGED <<at, tally>>

Continue(bytes) ==
  /\ index' = index + bytes
  /\ at' = at + 1
  /\ tally' = tally + step.tally
  /\ UNCHANGED <<pc, scope, ret>>

(***************************************************************************)
(* Length checks                                                           *)
(***************************************************************************)

\* Mutant: the length check is one byte too generous.
Enough_OffByOne(n) == inflated \/ index + n <= length + 1
\* The decompressed data hold everything that is read from them.
Enough(n) == inflated \/ index + n <= length

\* Mutant: the whole member is asked for instead of the rest of it.
Missing_WholeMember(n) == n
\* Mutant: the difference is taken the wrong way round.
Missing_Swapped(n) == length - index - n
Missing(n) == index + n - length

Size == IF step.ends = <<>> THEN 0 ELSE Last(step.ends)
TakeAll == Enough(Size)
Taken == IF inflated THEN 0 ELSE Size

\* The first check that does not succeed returns what it misses.
TakeSome ==
  \E k \in DOMAIN step.ends :
    LET before == IF k = 1 THEN 0 ELSE step.ends[k - 1]
    IN Enough(before) /\ ~Enough(step.ends[k]) /\ Fail(Missing(step.ends[k]), index + before, 1)

(***************************************************************************)
(* The read function: one action per kind of step                          *)
(***************************************************************************)
Reading(kind) == pc = "reading" /\ at \in DOMAIN format.read /\ step.kind = kind

\* X_opcode_read: the size and the opcode; a failure frees nothing.
ReadHeader ==
  /\ Reading("header")
  /\ \/ TakeAll /\ Continue(Taken)
     \/ TakeSome
  /\ UNCHANGED <<caller, message, phase, length, inflated, object, history>>

\* if (n > (reader->length - reader->index))
CheckMinimum ==
  /\ Reading("minimum")
  /\ \/ TakeAll /\ Continue(0)
     \/ TakeSome
  /\ UNCHANGED <<caller, message, phase, length, inflated, object, history>>

\* Mutant: the pointers keep what the container held.
NullPointers_Skipped ==
  /\ Reading("null")
  /\ Continue(0)
  /\ UNCHANGED <<caller, message, phase, length, inflated, object, history>>

\* object->member = NULL; for every pointer member
NullPointers ==
  /\ Reading("null")
  /\ Overwrite(step.slots, "null")
  /\ Continue(0)
  /\ UNCHANGED <<caller, message, phase, length, inflated, fields, wild>>

\* READ_U8 ... READ_U64, READ_PACKED_GUID, the masks
ReadInts ==
  /\ Reading("ints")
  /\ \/ TakeAll /\ Continue(Taken)
     \/ TakeSome
  /\ UNCHANGED <<caller, message, phase, length, inflated, object, history>>

\* A field that no free function tests is not kept.
Hold(held) == fields' = [f \in DOMAIN fields |-> IF f = step.field THEN held ELSE fields[f]]

\* object->field = 0; READ_Un(object->field);
ReadField ==
  /\ Reading("field")
  /\ \/ TakeAll /\ Continue(Taken) /\ Hold(step.holds)
     \/ TakeSome /\ Hold(step.zero)
  /\ UNCHANGED <<caller, message, phase, length, inflated, ptr, history>>

\* wwm_read_cstring and its kin: the bytes, then the allocation
ReadString ==
  /\ Reading("string")
  /\ \/ TakeSome /\ UNCHANGED <<ptr, leaked>>
     \/ TakeAll /\ Overwrite(step.slots, "live") /\ Continue(Taken)
     \/ /\ TakeAll /\ AllocMayFail
        /\ Overwrite(step.slots, "null") /\ Fail(MALLOC_FAIL, index + Taken, 1)
  /\ UNCHANGED <<caller, message, phase, length, inflated, fields, wild>>

\* x = calloc(n, sizeof(*x)); when it fails the function returns at once,
\* past its own cleanup but not past those of the functions that called it.
AllocArray ==
  /\ Reading("calloc")
  /\ \/ Allocated("null") /\ Continue(0)
     \/ /\ AllocMayFail
        /\ Overwrite(step.slots, "null") /\ Fail(MALLOC_FAIL, index, 2)
        /\ UNCHANGED fields
  /\ UNCHANGED <<caller, message, phase, length, inflated, wild>>

\* x = malloc(...)
AllocUncleared ==
  /\ Reading("malloc")
  /\ \/ Allocated("garbage") /\ Continue(0)
     \/ /\ AllocMayFail
        /\ Overwrite(step.slots, "null") /\ Fail(MALLOC_FAIL, index, 1)
        /\ UNCHANGED fields
  /\ UNCHANGED <<caller, message, phase, length, inflated, wild>>

\* x = realloc(x, ...): the old block is lost when it fails.
GrowArray ==
  /\ Reading("realloc")
  /\ \/ Continue(0) /\ UNCHANGED <<ptr, leaked>>
     \/ AllocMayFail /\ Overwrite(step.slots, "null") /\ Fail(MALLOC_FAIL, index, 1)
  /\ UNCHANGED <<caller, message, phase, length, inflated, fields, wild>>

\* Mutant: the last byte of the body is taken for its end.
TestSize_OneShort ==
  /\ Reading("test")
  /\ at' = at + 1 + (IF tally + 1 < body_size THEN 0 ELSE step.skip)
  /\ UNCHANGED <<caller, message, phase, pc, scope, reader, tally, ret, object, history>>

\* if (_size < body_size), while (_size < body_size)
TestSize ==
  /\ Reading("test")
  /\ at' = at + 1 + (IF tally < body_size THEN 0 ELSE step.skip)
  /\ UNCHANGED <<caller, message, phase, pc, scope, reader, tally, ret, object, history>>

Awaited == body_size - tally <= length - index

\* if ((body_size - _size) > (reader->length - reader->index)), with the
\* constant result
AwaitBody ==
  /\ Reading("await")
  /\ IF Awaited THEN Continue(0) ELSE Fail(NOT_ENOUGH_BYTES, index, 1)
  /\ UNCHANGED <<caller, message, phase, length, inflated, object, history>>

\* The inflater is given the rest of the body whether it has arrived or not.
\* The buffer of the test holds it all; the memory behind what a stream has
\* received may or may not look like compressed data.  An error returns past
\* the cleanup.
InflateBody ==
  /\ Reading("inflate")
  /\ \/ inflated' = TRUE /\ Continue(0) /\ UNCHANGED <<ptr, leaked>>
     \/ /\ (caller = "stream" /\ ~Awaited) \/ body_size - tally < 2
        /\ Return(COMPRESSION_ERROR)
        /\ UNCHANGED <<at, scope, index, tally, inflated>>
  /\ UNCHANGED <<caller, message, phase, length, fields, wild>>

\* The same for one member, whose compressed data have been awaited and so
\* decompress.
InflateArray ==
  /\ Reading("inflate member")
  /\ inflated' = TRUE
  /\ Continue(0)
  /\ UNCHANGED <<caller, message, phase, length, object, history>>

\* free(decompressed_data)
FreeLocal ==
  /\ Reading("free")
  /\ ptr' = [s \in DOMAIN ptr |-> IF s \in step.slots THEN "null" ELSE ptr[s]]
  /\ Continue(0)
  /\ UNCHANGED <<caller, message, phase, length, inflated, fields, history>>

\* Mutant: the function returns past the cleanup of its callers.
Cleanup_InnermostOnly ==
  /\ pc = "cleanup" /\ scope = 1 /\ scope <= Len(step.cleanup)
  /\ Release(step.cleanup[scope])
  /\ scope' = Len(step.cleanup) + 1
  /\ UNCHANGED <<caller, message, phase, pc, at, reader, tally, ret>>

\* cleanup: X_free(object), in the function the failure has unwound to
Cleanup ==
  /\ pc = "cleanup" /\ scope <= Len(step.cleanup)
  /\ Release(step.cleanup[scope])
  /\ scope' = scope + 1
  /\ UNCHANGED <<caller, message, phase, pc, at, reader, tally, ret>>

\* return _return_value
ReturnFailure ==
  /\ pc = "cleanup" /\ scope > Len(step.cleanup)
  /\ Return(ret)
  /\ UNCHANGED <<caller, message, phase, at, scope, reader, tally, fields, wild>>

\* return WWM_RESULT_SUCCESS
Succeed ==
  /\ pc = "reading" /\ at > Len(format.read)
  /\ Return(SUCCESS)
  /\ UNCHANGED <<caller, message, phase, at, scope, reader, tally, fields, wild>>

Library ==
  \/ ReadHeader \/ CheckMinimum \/ NullPointers \/ ReadInts \/ ReadField
  \/ ReadString \/ AllocArray \/ AllocUncleared \/ GrowArray \/ TestSize
  \/ AwaitBody \/ InflateBody \/ InflateArray \/ FreeLocal \/ Cleanup \/ ReturnFailure \/ Succeed

(***************************************************************************)
(* The callers                                                             *)
(***************************************************************************)

\* X_opcode_read(&reader, &opcodes), whose first line checks the reader
CallRead ==
  /\ pc = "idle" /\ phase \in {"whole", "partial"}
  /\ tally' = 0
  /\ inflated' = FALSE
  /\ IF index > length
       THEN ret' = INVALID_PARAMETERS /\ pc' = "returned" /\ UNCHANGED at
       ELSE at' = 1 /\ pc' = "reading" /\ ret' = SUCCESS
  /\ scope' = 1
  /\ UNCHANGED <<caller, message, phase, index, length, object, history>>

\* The test frees what it read from the whole buffer, checks that the read
\* succeeded, and starts over with one byte.
FinishWhole ==
  /\ phase = "whole" /\ pc = "returned"
  /\ Release(format.free)
  /\ pc' = "idle"
  /\ IF ret = SUCCESS
       THEN phase' = "partial" /\ index' = 0 /\ length' = 1
       ELSE phase' = "aborted" /\ UNCHANGED <<index, length>>
  /\ UNCHANGED <<caller, message, at, scope, inflated, tally, ret>>

NotEnoughBytes == phase = "partial" /\ pc = "returned" /\ ret > 0

\* Mutant: the length stays what it is.
RetryExactly_NoMore ==
  /\ NotEnoughBytes /\ caller = "test"
  /\ index' = 0
  /\ pc' = "idle"
  /\ UNCHANGED <<caller, message, phase, at, scope, length, inflated, tally, ret, object, history>>

\* The test adds exactly the missing bytes; more than there are is an error.
RetryExactly ==
  /\ NotEnoughBytes /\ caller = "test"
  /\ index' = 0
  /\ length' = length + ret
  /\ pc' = "idle"
  /\ phase' = IF length' > written THEN "aborted" ELSE "partial"
  /\ UNCHANGED <<caller, message, at, scope, inflated, tally, ret, object, history>>

\* A stream delivers some more bytes of the message.
ReceiveMore ==
  /\ NotEnoughBytes /\ caller = "stream"
  /\ \E more \in 1..(written - length) : length' = length + more
  /\ index' = 0
  /\ pc' = "idle"
  /\ UNCHANGED <<caller, message, phase, at, scope, inflated, tally, ret, object, history>>

\* check_result aborts the test on a negative result.
AbortTest ==
  /\ phase = "partial" /\ pc = "returned" /\ ret < 0 /\ caller = "test"
  /\ phase' = "aborted"
  /\ UNCHANGED <<caller, message, pc, at, scope, reader, tally, ret, object, history>>

\* After a negative result, or when the peer hangs up in the middle of a
\* message, a stream user frees the container.
GiveUp ==
  /\ phase = "partial" /\ pc = "returned" /\ ret # SUCCESS /\ caller = "stream"
  /\ Release(format.free)
  /\ phase' = "aborted"
  /\ UNCHANGED <<caller, message, pc, at, scope, reader, tally, ret>>

\* The message has been read; it is used and the container freed.
ReleaseMessage ==
  /\ phase = "partial" /\ pc = "returned" /\ ret = SUCCESS
  /\ Release(format.free)
  /\ phase' = "released"
  /\ UNCHANGED <<caller, message, pc, at, scope, reader, tally, ret>>

Callers ==
  \/ CallRead \/ FinishWhole \/ RetryExactly \/ ReceiveMore
  \/ AbortTest \/ GiveUp \/ ReleaseMessage

(***************************************************************************)
(* The specification                                                       *)
(***************************************************************************)

\* The test's container is an uninitialised local variable, its buffer the
\* whole message; the stream's container is zeroed, and nothing has arrived.
InitTest ==
  /\ caller = "test" /\ phase = "whole" /\ length = written
  /\ ptr = [s \in Slots |-> IF s \in Local THEN "null" ELSE "garbage"]
  /\ \E held \in {{}, Labels} : fields = [f \in TestedFields |-> held]

InitStream ==
  /\ caller = "stream" /\ phase = "partial" /\ length = 0
  /\ ptr = [s \in Slots |-> "null"]
  /\ fields = [f \in TestedFields |-> {}]

Init ==
  /\ caller \in Caller
  /\ \E group \in DOMAIN Catalogue : \E name \in DOMAIN Catalogue[group] :
       \E wire \in DOMAIN Catalogue[group][name] : message = <<group, name, wire>>
  /\ pc = "idle" /\ at = 1 /\ scope = 1
  /\ index = 0 /\ tally = 0 /\ inflated = FALSE
  /\ ret = SUCCESS
  /\ wild = FALSE /\ leaked = FALSE
  /\ InitTest \/ InitStream

\* The process ends, or the caller turns to the next message.
Finished == phase \in {"released", "aborted"} /\ UNCHANGED vars

Next == Library \/ Callers \/ Finished

Spec == Init /\ [][Next]_vars

\* The code is sequential, so it does not stop between two steps; and the
\* rest of a message that has begun to arrive arrives.
Fairness == WF_vars(Library \/ Callers)

FairSpec == Spec /\ Fairness

(***************************************************************************)
(* Properties                                                              *)
(***************************************************************************)

\* Every variable has its type; index never passes the end of the buffer.
TypeOK ==
  /\ caller \in Caller
  /\ phase \in {"whole", "partial", "released", "aborted"}
  /\ pc \in {"idle", "reading", "cleanup", "returned"}
  /\ at \in 1..(Len(format.read) + 1)
  /\ scope \in Nat \ {0}
  /\ length \in Nat /\ index \in 0..length /\ tally \in Nat
  /\ inflated \in BOOLEAN
  /\ ret \in Int
  /\ ptr \in [Slots -> {"garbage", "null", "live", "dangling"}]
  /\ fields \in [TestedFields -> SUBSET STRING]
  /\ wild \in BOOLEAN /\ leaked \in BOOLEAN

\* A read of a prefix never asks for more bytes than the message still has,
\* whether the number comes from a minimum size, from a member, from an
\* element of an array that ends with the body or from an optional tail.
NeverOverAsks ==
  pc = "returned" /\ ret > 0 => length + ret <= written

\* A read succeeds only on the whole message and has then consumed it: no
\* member is left out because the bytes counted in _size run ahead of those
\* read, and none is read twice because they lag behind.
SuccessMeansComplete ==
  pc = "returned" /\ ret = SUCCESS => index = written /\ length = written

\* While no allocation fails, a prefix of a message is never an error.
PartialIsNoError ==
  pc = "returned" /\ ~AllocMayFail => ret >= 0

\* A read that asks for more bytes leaves nothing allocated behind.
IncompleteOwnsNothing ==
  pc = "returned" /\ ret > 0 => \A s \in DOMAIN ptr : ptr[s] # "live"

\* No free function, called by the caller or by a cleanup label, is given a
\* pointer that was never assigned or that has been freed.
NoWildFree == ~wild

\* No read loses the last pointer to memory.
NothingLeaked == ~leaked

\* When the caller has freed the container nothing of what the reads
\* allocated is left: each test under which a free function looks at a
\* pointer holds whenever the read function set that pointer.
ReleasedOwnsNothing ==
  phase = "released" \/ (phase = "aborted" /\ caller = "stream")
    => \A s \in DOMAIN ptr : ptr[s] # "live"

\* Every read comes to an end, however the message is cut into pieces: each
\* result other than success makes the caller's next call see more bytes.
EventuallyOver == <>(phase \in {"released", "aborted"})

\* The reads implement the safety part of MessageAssembly, whose bytes and
\* status they have as those of IncrementalRead do.  A message fails when
\* memory runs out or the peer of a stream hangs up.
Assembly ==
  INSTANCE MessageAssembly WITH
    Sizes <- Nat \ {0},
    MayFail <- AllocMayFail \/ "stream" \in Caller,
    size <- written,
    received <- IF phase = "aborted" THEN 0 ELSE IF phase = "whole" THEN 1 ELSE length,
    status <- IF phase = "aborted" THEN "failed"
              ELSE IF phase = "released"
                      \/ (phase = "partial" /\ pc = "returned" /\ ret = SUCCESS)
                THEN "complete"
              ELSE "waiting"

ImplementsAssembly == Assembly!Spec

\* What is left: the rounds of the caller, the bytes it has not received,
\* the parts of a call, and the steps of the part under way.
RoundsLeft == [whole |-> 2, partial |-> 1, released |-> 0, aborted |-> 0][phase]
BytesLeft == IF phase = "partial" THEN written - length ELSE 0
CallLeft == [idle |-> 3, reading |-> 2, cleanup |-> 1, returned |-> 0][pc]
StepsLeft ==
  IF pc = "reading" THEN Len(format.read) + 1 - at
  ELSE IF pc = "cleanup" /\ scope <= Len(step.cleanup) THEN Len(step.cleanup) + 1 - scope
  ELSE 0

\* A step leaves less of one of these numbers and as much of those before it.
LeavesLess ==
  /\ {BytesLeft, StepsLeft} \subseteq Nat
  /\ \/ RoundsLeft' < RoundsLeft
     \/ UNCHANGED RoundsLeft /\ BytesLeft' < BytesLeft
     \/ UNCHANGED <<RoundsLeft, BytesLeft>> /\ CallLeft' < CallLeft
     \/ UNCHANGED <<RoundsLeft, BytesLeft, CallLeft>> /\ StepsLeft' < StepsLeft

\* No retry is in vain: whatever fails and however the message is cut, every
\* step of a read or of its caller brings the release of the message nearer,
\* or its being given up; there are only so many before it.
EveryStepCounts == [][LeavesLess]_vars

\* The size X_write puts in the header, which X_size adds up from constants and
\* lengths apart from the calls that write the members, is the number of bytes
\* that follow.
SizeFieldIsWritten == format.sizeField = written - 2
=============================================================================
