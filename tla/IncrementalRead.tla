-------------------------- MODULE IncrementalRead --------------------------
(***************************************************************************)
(* One message read by the C library, from the first call of               *)
(* X_opcode_read on it to the release of the object it was read into.      *)
(*                                                                         *)
(* A read function is called with a buffer that may hold only a prefix of  *)
(* the message.  It then returns how many bytes are missing, having        *)
(* released what it allocated, and the caller calls it again from index 0  *)
(* once it has more.  The parts of this that can go wrong are spread over  *)
(* many generated functions: the number returned, the order in which       *)
(* pointers are set to NULL, allocated and freed, and the condition under  *)
(* which a free function looks at them.                                    *)
(*                                                                         *)
(* The steps of the read functions are data (a Catalogue of records as     *)
(* MessageFormat builds them); this module says what each step does.  Two  *)
(* callers drive it.  "test" is the loop that the generated tests run on   *)
(* every message: a read of the whole buffer into an uninitialised         *)
(* container, a free, and then a partial read that is repeated with        *)
(* exactly as many more bytes as it asked for.  "stream" stands for a user *)
(* of the library that reads from a socket into a zeroed container: any    *)
(* number of bytes arrives between two attempts.                           *)
(***************************************************************************)
EXTENDS Integers, Sequences

CONSTANTS Catalogue,     \* the messages: a set of records (MessageFormat)
          Slot,          \* the pointer members of all of them
          Caller,        \* which callers are modelled
          AllocMayFail   \* whether malloc and calloc may return NULL

ASSUME CallerAssumption == Caller \subseteq {"test", "stream"}
ASSUME AllocMayFailAssumption == AllocMayFail \in BOOLEAN

\* What MessageFormat builds.
Steps == [kind : STRING, n : Nat, count : Nat, slots : SUBSET Slot,
          zero : BOOLEAN, set : BOOLEAN, own : SUBSET Slot]

ASSUME CatalogueAssumption ==
  \A m \in Catalogue :
    /\ m.read \in Seq(Steps)
    /\ m.written \in Nat \ {0}
    /\ m.always \union m.guarded \union m.inner \subseteq Slot

\* enum WowLoginResult; NOT_ENOUGH_BYTES stands for every positive number,
\* which is the number of missing bytes.
SUCCESS == 0
INVALID_PARAMETERS == -1
MALLOC_FAIL == -2

VARIABLES
  caller,   \* who calls
  message,  \* the message on the wire, with the steps of its functions
  phase,    \* where the caller is: "whole", "partial", "released", "aborted"
  pc,       \* where the library is: "idle", "reading", "cleanup", "returned"
  op,       \* the step of the read function that is next, or that failed
  index,    \* reader->index
  length,   \* reader->length
  ret,      \* the value the last call returned
  ptr,      \* for each pointer member "garbage", "null" or "live"
  guard,    \* the condition on a field under which X_free looks at pointers
  wild,     \* history: a pointer that does not own memory was freed
  leaked    \* history: the last pointer to live memory was overwritten

reader == <<index, length>>
object == <<ptr, guard>>
history == <<wild, leaked>>
vars == <<caller, message, phase, pc, op, index, length, ret, ptr, guard, wild, leaked>>

written == message.written
pointers == message.always \union message.guarded \union message.inner

(***************************************************************************)
(* Memory                                                                  *)
(***************************************************************************)

\* free(p); p = NULL; for every pointer in S
Free(p, S) == [s \in Slot |-> IF s \in S THEN "null" ELSE p[s]]
WildFree(p, S) == \E s \in S : p[s] = "garbage"

\* Mutant: the free function of an array of structs does not free its elements.
Released_ElementsForgotten(p) ==
  message.always \union (IF guard THEN message.guarded ELSE {})

\* What X_free releases: its own pointers, the guarded ones only if the
\* condition holds, those of the elements only if there is an array.
Released(p) ==
  message.always
  \union (IF guard THEN message.guarded ELSE {})
  \union (IF message.inner # {} /\ p[message.array] # "null" THEN message.inner ELSE {})

\* X_opcode_free on the container
FreeObject ==
  /\ ptr' = Free(ptr, Released(ptr))
  /\ wild' = (wild \/ WildFree(ptr, Released(ptr)))

\* A pointer is overwritten: what it owned is lost.
Overwrite(S, value) ==
  /\ ptr' = [s \in Slot |-> IF s \in S THEN value ELSE ptr[s]]
  /\ leaked' = (leaked \/ \E s \in S : ptr[s] = "live")

(***************************************************************************)
(* The read function: one action per kind of step                          *)
(***************************************************************************)
Reading(kinds) == pc = "reading" /\ op \in DOMAIN message.read /\ message.read[op].kind \in kinds
step == message.read[op]

\* Mutant: the length check is one byte too generous.
Enough_OffByOne(n) == index + n <= length + 1
Enough(n) == index + n <= length
\* Mutant: the whole size of the member is asked for instead of the rest.
Missing_WholeMember(n) == n
Missing(n) == index + n - length

Advance(n) ==
  /\ index' = index + n
  /\ op' = op + 1
  /\ UNCHANGED <<pc, ret>>

\* goto cleanup with _return_value set
FailWith(value, at) ==
  /\ index' = at
  /\ ret' = value
  /\ pc' = "cleanup"
  /\ UNCHANGED op

\* count length checks of n bytes, one after the other: all succeed, or the
\* first one that does not returns what it misses.
TakeAll == Enough(step.count * step.n)
TakeSome ==
  \E done \in 0..(step.count - 1) :
    /\ Enough(done * step.n)
    /\ ~Enough((done + 1) * step.n)
    /\ FailWith(Missing((done + 1) * step.n), index + done * step.n)

\* X_opcode_read: the size and the opcode; a failure here frees nothing.
ReadHeader ==
  /\ Reading({"header"})
  /\ IF Enough(step.n)
       THEN Advance(step.n)
       ELSE /\ ret' = Missing(step.n)
            /\ pc' = "returned"
            /\ UNCHANGED <<op, index>>
  /\ UNCHANGED <<caller, message, phase, length, ptr, guard, wild, leaked>>

\* if (minimum > (reader->length - reader->index))
CheckMinimum ==
  /\ Reading({"minimum"})
  /\ IF Enough(step.n) THEN Advance(0) ELSE FailWith(Missing(step.n), index)
  /\ UNCHANGED <<caller, message, phase, length, ptr, guard, wild, leaked>>

\* Mutant: the pointers keep what the container held.
NullPointers_Skipped ==
  /\ Reading({"null"})
  /\ Advance(0)
  /\ UNCHANGED <<caller, message, phase, length, ptr, guard, wild, leaked>>

\* object->member = NULL; for every pointer member
NullPointers ==
  /\ Reading({"null"})
  /\ Overwrite(step.slots, "null")
  /\ Advance(0)
  /\ UNCHANGED <<caller, message, phase, length, guard, wild>>

\* READ_U8 ... READ_U64, READ_FLOAT, SKIP_FORWARD_BYTES, and READ_ARRAY of them
ReadInt ==
  /\ Reading({"int", "each"})
  /\ IF TakeAll THEN Advance(step.count * step.n) ELSE TakeSome
  /\ UNCHANGED <<caller, message, phase, length, ptr, guard, wild, leaked>>

\* object->result = 0; READ_U8(object->result);
ReadField ==
  /\ Reading({"field"})
  /\ IF TakeAll
       THEN Advance(step.count * step.n) /\ guard' = step.set
       ELSE TakeSome /\ guard' = step.zero
  /\ UNCHANGED <<caller, message, phase, length, ptr, wild, leaked>>

\* *string = malloc(...) after the bytes have been checked for
Allocate(bytes) ==
  \/ /\ Overwrite(step.slots, "live")
     /\ Advance(bytes)
  \/ /\ AllocMayFail
     /\ Overwrite(step.slots, "null")
     /\ FailWith(MALLOC_FAIL, index + bytes)

\* wlm_read_string: the length byte, the characters, the allocation
ReadString ==
  /\ Reading({"string"})
  /\ \/ ~Enough(1) /\ FailWith(Missing(1), index) /\ UNCHANGED <<ptr, leaked>>
     \/ /\ Enough(1) /\ ~Enough(1 + step.n)
        /\ FailWith(Missing(1 + step.n), index + 1)
        /\ UNCHANGED <<ptr, leaked>>
     \/ Enough(1 + step.n) /\ Allocate(1 + step.n)
  /\ UNCHANGED <<caller, message, phase, length, guard, wild>>

\* wlm_read_cstring: byte by byte up to the terminator, then the allocation
ReadCstring ==
  /\ Reading({"cstring"})
  /\ IF TakeAll
       THEN Allocate(step.count * step.n)
       ELSE TakeSome /\ UNCHANGED <<ptr, leaked>>
  /\ UNCHANGED <<caller, message, phase, length, guard, wild>>

\* x = calloc(...): the members of the elements are NULL.  When it fails the
\* function returns at once, past its cleanup.
AllocArray ==
  /\ Reading({"calloc"})
  /\ \/ /\ ptr' = [s \in Slot |->
                     IF s \in step.slots THEN "live"
                     ELSE IF message.array \in step.slots /\ s \in message.inner THEN "null"
                     ELSE ptr[s]]
        /\ Advance(0)
     \/ /\ AllocMayFail
        /\ ptr' = [s \in Slot |-> IF s \in step.slots THEN "null" ELSE ptr[s]]
        /\ ret' = MALLOC_FAIL
        /\ pc' = "returned"
        /\ UNCHANGED <<op, index>>
  /\ leaked' = (leaked \/ \E s \in step.slots : ptr[s] = "live")
  /\ UNCHANGED <<caller, message, phase, length, guard, wild>>

\* Mutant: a failure inside a nested struct returns past the outer cleanup.
Cleanup_NestedOnly ==
  /\ pc = "cleanup"
  /\ pc' = "returned"
  /\ ptr' = Free(ptr, step.own)
  /\ wild' = (wild \/ WildFree(ptr, step.own))
  /\ UNCHANGED <<caller, message, phase, op, index, length, ret, guard, leaked>>

\* Mutant: the array is freed before, and hence without, its elements.
Cleanup_ArrayFirst ==
  LET outer == Free(ptr, message.always)
  IN /\ pc = "cleanup"
     /\ pc' = "returned"
     /\ ptr' = Free(outer, Released(outer))
     /\ wild' = (wild \/ WildFree(ptr, message.always) \/ WildFree(outer, Released(outer)))
     /\ UNCHANGED <<caller, message, phase, op, index, length, ret, guard, leaked>>

\* cleanup: X_free(object), after the nested struct's own cleanup if the
\* failing step is inside one
Cleanup ==
  LET nested == Free(ptr, step.own)
  IN /\ pc = "cleanup"
     /\ pc' = "returned"
     /\ ptr' = Free(nested, Released(nested))
     /\ wild' = (wild \/ WildFree(ptr, step.own) \/ WildFree(nested, Released(nested)))
     /\ UNCHANGED <<caller, message, phase, op, index, length, ret, guard, leaked>>

\* return WLM_RESULT_SUCCESS
Succeed ==
  /\ pc = "reading"
  /\ op > Len(message.read)
  /\ ret' = SUCCESS
  /\ pc' = "returned"
  /\ UNCHANGED <<caller, message, phase, op, index, length, ptr, guard, wild, leaked>>

Library ==
  \/ ReadHeader \/ CheckMinimum \/ NullPointers \/ ReadInt \/ ReadField
  \/ ReadString \/ ReadCstring \/ AllocArray \/ Cleanup \/ Succeed

(***************************************************************************)
(* The callers                                                             *)
(***************************************************************************)

\* X_opcode_read(&reader, &opcode), whose first line checks the reader
CallRead ==
  /\ pc = "idle"
  /\ phase \in {"whole", "partial"}
  /\ IF index > length
       THEN ret' = INVALID_PARAMETERS /\ pc' = "returned" /\ UNCHANGED op
       ELSE op' = 1 /\ pc' = "reading" /\ UNCHANGED ret
  /\ UNCHANGED <<caller, message, phase, index, length, ptr, guard, wild, leaked>>

\* The test frees what it read from the whole buffer, checks that the read
\* was complete, and starts over with one byte.
FinishWhole ==
  /\ phase = "whole"
  /\ pc = "returned"
  /\ FreeObject
  /\ pc' = "idle"
  /\ IF ret = SUCCESS
       THEN phase' = "partial" /\ index' = 0 /\ length' = 1
       ELSE phase' = "aborted" /\ UNCHANGED reader
  /\ UNCHANGED <<caller, message, op, ret, guard, leaked>>

NotEnoughBytes == phase = "partial" /\ pc = "returned" /\ ret > 0

\* Mutant: the length is what was missing, not that much more.
RetryExactly_OnlyMissing ==
  /\ NotEnoughBytes
  /\ caller = "test"
  /\ index' = 0
  /\ length' = ret
  /\ pc' = "idle"
  /\ UNCHANGED <<caller, message, phase, op, ret, ptr, guard, wild, leaked>>

\* The test adds exactly the missing bytes; more than there are is an error.
RetryExactly ==
  /\ NotEnoughBytes
  /\ caller = "test"
  /\ index' = 0
  /\ length' = length + ret
  /\ pc' = "idle"
  /\ phase' = IF length' > written THEN "aborted" ELSE "partial"
  /\ UNCHANGED <<caller, message, op, ret, ptr, guard, wild, leaked>>

\* A stream delivers some more bytes of the message.
ReceiveMore ==
  /\ NotEnoughBytes
  /\ caller = "stream"
  /\ \E more \in 1..(written - length) : length' = length + more
  /\ index' = 0
  /\ pc' = "idle"
  /\ UNCHANGED <<caller, message, phase, op, ret, ptr, guard, wild, leaked>>

\* check_result: a negative result ends the test.
AbortTest ==
  /\ phase = "partial" /\ pc = "returned" /\ ret < 0
  /\ caller = "test"
  /\ phase' = "aborted"
  /\ UNCHANGED <<caller, message, pc, op, index, length, ret, ptr, guard, wild, leaked>>

\* After a negative result a stream user frees the container and gives up.
GiveUp ==
  /\ phase = "partial" /\ pc = "returned" /\ ret < 0
  /\ caller = "stream"
  /\ FreeObject
  /\ phase' = "aborted"
  /\ UNCHANGED <<caller, message, pc, op, index, length, ret, guard, leaked>>

\* The message is complete; it is used (the test writes and compares it) and
\* the container is freed.
Release ==
  /\ phase = "partial" /\ pc = "returned" /\ ret = SUCCESS
  /\ FreeObject
  /\ phase' = "released"
  /\ UNCHANGED <<caller, message, pc, op, index, length, ret, guard, leaked>>

Callers ==
  \/ CallRead \/ FinishWhole \/ RetryExactly \/ ReceiveMore
  \/ AbortTest \/ GiveUp \/ Release

(***************************************************************************)
(* The specification                                                       *)
(***************************************************************************)

\* The test's container is an uninitialised local variable, its buffer is
\* the whole message; the stream's is zeroed, and nothing has arrived yet
\* (whether the tested condition holds for 0 depends on the message).
InitTest ==
  /\ caller = "test"
  /\ phase = "whole"
  /\ length = written
  /\ guard \in BOOLEAN
  /\ ptr = [s \in Slot |-> IF s \in pointers THEN "garbage" ELSE "null"]

InitStream ==
  /\ caller = "stream"
  /\ phase = "partial"
  /\ length = 0
  /\ guard \in BOOLEAN
  /\ ptr = [s \in Slot |-> "null"]

Init ==
  /\ caller \in Caller
  /\ message \in Catalogue
  /\ pc = "idle"
  /\ op = 1
  /\ index = 0
  /\ ret = SUCCESS
  /\ wild = FALSE
  /\ leaked = FALSE
  /\ InitTest \/ InitStream

\* The process ends, or the caller turns to the next message.
Finished == phase \in {"released", "aborted"} /\ UNCHANGED vars

Next == Library \/ Callers \/ Finished

Spec == Init /\ [][Next]_vars

\* The code is sequential, so it does not stop between two steps; and the
\* rest of a message that has begun to arrive arrives.
Fairness == WF_vars(Library \/ Callers)

FairSpec == Spec /\ Fairness

(***************************************************************************)
(* Properties                                                              *)
(***************************************************************************)

\* Every variable has its type (message, which no action changes, is one of
\* Catalogue); index never passes the end of the buffer.
TypeOK ==
  /\ caller \in Caller
  /\ phase \in {"whole", "partial", "released", "aborted"}
  /\ pc \in {"idle", "reading", "cleanup", "returned"}
  /\ op \in Nat \ {0}
  /\ length \in Nat
  /\ index \in 0..length
  /\ ret \in Int
  /\ ptr \in [Slot -> {"garbage", "null", "live"}]
  /\ guard \in BOOLEAN
  /\ wild \in BOOLEAN
  /\ leaked \in BOOLEAN

\* A read of a prefix never asks for more bytes than the message still has:
\* a caller that waits for them is not left waiting for ever, and does not
\* take the beginning of the next message for a part of this one.  The number
\* may come from the minimum size of the message, from the minimum size of
\* a nested struct or from any single member.
NeverOverAsks ==
  pc = "returned" /\ ret > 0 => length + ret <= written

\* A read succeeds only on the whole message, and has then consumed all of
\* it: the next read starts at the next message.
SuccessMeansComplete ==
  pc = "returned" /\ ret = SUCCESS => index = written /\ length = written

\* A read that asks for more bytes leaves nothing allocated behind, so that
\* the next attempt may set every pointer to NULL.
IncompleteOwnsNothing ==
  pc = "returned" /\ ret > 0 => \A s \in Slot : ptr[s] # "live"

\* No free function, called by the caller or by the cleanup of a failed
\* read, is given a pointer that was never assigned.
NoWildFree == ~wild

\* No read loses the last pointer to memory that an earlier attempt, or an
\* earlier step, allocated.
NothingLeaked == ~leaked

\* When the caller has freed the container, after a success or after giving
\* up, nothing the reads allocated is left: the condition under which the
\* free function looks at a pointer holds whenever that pointer is set.
ReleasedOwnsNothing ==
  phase = "released" \/ (phase = "aborted" /\ caller = "stream")
    => \A s \in Slot : ptr[s] # "live"

\* The size a message carries in its own header, computed by X_size, is the
\* number of bytes X_write puts after it.
SizeFieldIsWritten == message.sizeField = message.sized

\* When a read returns a negative result, what it has not released is
\* reachable through the container: the array of an element's pointer, and
\* the condition of a guarded pointer, are in place for X_opcode_free.
OwnedIsReleasable ==
  pc = "returned" =>
    \A s \in Slot : ptr[s] = "live" => s \in Released(ptr)

\* What is left: the rounds of the caller, the bytes it has not received,
\* the parts of a call, and the steps of the read function.
RoundsLeft == [whole |-> 2, partial |-> 1, released |-> 0, aborted |-> 0][phase]
BytesLeft == IF phase = "partial" THEN written - length ELSE 0
CallLeft == [idle |-> 3, reading |-> 2, cleanup |-> 1, returned |-> 0][pc]
StepsLeft == IF pc = "reading" THEN Len(message.read) + 1 - op ELSE 0

\* A step leaves less of one of these numbers and as much of those before it.
LeavesLess ==
  /\ {BytesLeft, StepsLeft} \subseteq Nat
  /\ \/ RoundsLeft' < RoundsLeft
     \/ UNCHANGED RoundsLeft /\ BytesLeft' < BytesLeft
     \/ UNCHANGED <<RoundsLeft, BytesLeft>> /\ CallLeft' < CallLeft
     \/ UNCHANGED <<RoundsLeft, BytesLeft, CallLeft>> /\ StepsLeft' < StepsLeft

\* No retry is in vain: whatever allocation fails and however the message is cut, every
\* step of a read or of its caller brings the release of the message nearer,
\* or its being given up; there are only so many before it.
EveryStepCounts == [][LeavesLess]_vars

\* The reads implement MessageAssembly.  The test's complete first read is
\* one byte received; a read that ends the loop completes the message.
Assembly ==
  INSTANCE MessageAssembly WITH
    Sizes <- {m.written : m \in Catalogue},
    MayFail <- AllocMayFail,
    size <- written,
    received <- IF phase = "aborted" THEN 0 ELSE IF phase = "whole" THEN 1 ELSE length,
    status <- IF phase = "aborted" THEN "failed"
              ELSE IF phase = "released"
                      \/ (phase = "partial" /\ pc = "returned" /\ ret = SUCCESS)
                THEN "complete"
              ELSE "waiting"

\* Every attempt is a stutter of the abstract specification, and, while no
\* allocation fails, repeated attempts end in success.
ImplementsAssembly == Assembly!FairSpec
=============================================================================
