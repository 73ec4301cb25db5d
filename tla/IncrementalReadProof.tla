----------------------- MODULE IncrementalReadProof -----------------------
(***************************************************************************)
(* Theorems about IncrementalRead, for every catalogue of messages.        *)
(*                                                                         *)
(* The two theorems about the numbers a read function returns rest on the  *)
(* layout of the messages: there is an offset for every step such that     *)
(* each step starts where the one before it ended, the last one ends where *)
(* the message ends, and a minimum size never reaches past the end of the  *)
(* message.  At gives the offsets; TLC computes them for the login         *)
(* messages and checks LayoutAssumption.                                   *)
(***************************************************************************)
EXTENDS IncrementalRead, TLAPS

CONSTANT At(_)   \* At(m)[k]: where step k of message m starts

\* The bytes a step consumes when it succeeds.
Consumed(s) ==
  IF s.kind = "header" THEN s.n
  ELSE IF s.kind = "string" THEN 1 + s.n
  ELSE IF s.kind \in {"int", "each", "field", "cstring"} THEN s.count * s.n
  ELSE 0

Layout(m, at) ==
  /\ at \in [1..(Len(m.read) + 1) -> 0..m.written]
  /\ at[1] = 0
  /\ at[Len(m.read) + 1] = m.written
  /\ \A k \in 1..Len(m.read) :
       /\ at[k + 1] = at[k] + Consumed(m.read[k])
       /\ m.read[k].kind = "minimum" => at[k] + m.read[k].n <= m.written

ASSUME LayoutAssumption == \A m \in Catalogue : Layout(m, At(m))

-----------------------------------------------------------------------------
(***************************************************************************)
(* Types                                                                   *)
(***************************************************************************)

Typed == TypeOK /\ message \in Catalogue

\* The step under way is one of those MessageFormat builds.
LEMMA StepType ==
  ASSUME message \in Catalogue, op \in DOMAIN message.read
  PROVE  /\ step.n \in Nat
         /\ step.count \in Nat
         /\ step.zero \in BOOLEAN
         /\ step.set \in BOOLEAN
         /\ step.own \subseteq Slot
         /\ step.slots \subseteq Slot
         /\ op \in 1..Len(message.read)
         /\ Len(message.read) \in Nat
<1>1. message.read \in Seq(Steps)
  BY CatalogueAssumption
<1>2. step \in Steps
  BY <1>1 DEF step
<1> QED
  BY <1>1, <1>2 DEF Steps

\* Freeing pointers keeps the type of the pointer map.
LEMMA FreeType ==
  ASSUME NEW p \in [Slot -> {"garbage", "null", "live"}], NEW S
  PROVE  Free(p, S) \in [Slot -> {"garbage", "null", "live"}]
BY DEF Free

\* n bytes may be taken from the buffer only if they are there.
LEMMA AdvanceType ==
  ASSUME index \in Nat, length \in Nat, op \in Nat \ {0}, NEW n \in Nat,
         Enough(n), Advance(n)
  PROVE  index' \in 0..length /\ op' \in Nat \ {0}
BY DEF Enough, Advance

\* The products in the length checks of arrays are natural numbers.
LEMMA ProductType == \A a, b \in Nat : a * b \in Nat
OBVIOUS

\* An array that runs out of bytes asks for a positive number of them.
LEMMA TakeSomeType ==
  ASSUME index \in Nat, length \in Nat, step.n \in Nat, step.count \in Nat, TakeSome
  PROVE  /\ index' \in 0..length
         /\ ret' \in Int
         /\ ret' > 0
         /\ pc' = "cleanup"
         /\ UNCHANGED op
<1>1. PICK done \in 0..(step.count - 1) :
        /\ Enough(done * step.n)
        /\ ~Enough((done + 1) * step.n)
        /\ FailWith(Missing((done + 1) * step.n), index + done * step.n)
  BY DEF TakeSome
<1>2. done * step.n \in Nat /\ (done + 1) * step.n \in Nat
  BY <1>1, ProductType
<1> QED
  BY <1>1, <1>2 DEF Enough, FailWith, Missing

\* Overwriting pointers keeps the types of the memory.
LEMMA OverwriteType ==
  ASSUME NEW S, NEW value \in {"garbage", "null", "live"},
         ptr \in [Slot -> {"garbage", "null", "live"}], leaked \in BOOLEAN,
         Overwrite(S, value)
  PROVE  ptr' \in [Slot -> {"garbage", "null", "live"}] /\ leaked' \in BOOLEAN
<1>1. ptr' \in [Slot -> {"garbage", "null", "live"}]
  BY DEF Overwrite
<1>2. leaked' \in BOOLEAN
  BY Zenon DEF Overwrite
<1> QED
  BY <1>1, <1>2

\* Releasing the container keeps the types of the memory.
LEMMA FreeObjectType ==
  ASSUME ptr \in [Slot -> {"garbage", "null", "live"}], wild \in BOOLEAN, FreeObject
  PROVE  ptr' \in [Slot -> {"garbage", "null", "live"}] /\ wild' \in BOOLEAN
<1>1. ptr' \in [Slot -> {"garbage", "null", "live"}]
  BY FreeType DEF FreeObject
<1>2. wild' \in BOOLEAN
  BY Zenon DEF FreeObject, WildFree
<1> QED
  BY <1>1, <1>2

\* A successful allocation advances, a failed one goes to the cleanup.
LEMMA AllocateType ==
  ASSUME TypeOK, NEW n \in Nat, Enough(n), Allocate(n), pc = "reading"
  PROVE  /\ ptr' \in [Slot -> {"garbage", "null", "live"}]
         /\ leaked' \in BOOLEAN
         /\ index' \in 0..length
         /\ op' \in Nat \ {0}
         /\ pc' \in {"reading", "cleanup"}
         /\ ret' \in Int
<1>1. CASE Overwrite(step.slots, "live") /\ Advance(n)
  BY <1>1, OverwriteType, AdvanceType DEF TypeOK, Advance
<1>2. CASE Overwrite(step.slots, "null") /\ FailWith(MALLOC_FAIL, index + n)
  BY <1>2, OverwriteType DEF TypeOK, FailWith, Enough, MALLOC_FAIL
<1> QED
  BY <1>1, <1>2 DEF Allocate

\* A step of the read function keeps the types.
LEMMA LibraryType == Typed /\ Library => Typed'
<1> SUFFICES ASSUME Typed, Library
             PROVE  Typed'
  OBVIOUS
<1> USE DEF Typed
<1>1. CASE ReadHeader
  <2> USE <1>1 DEF ReadHeader, Reading
  <2>1. CASE Enough(step.n)
    BY <2>1, StepType, AdvanceType DEF TypeOK, Advance
  <2>2. CASE ~Enough(step.n)
    BY <2>2, StepType DEF TypeOK, Missing
  <2> QED
    BY <2>1, <2>2
<1>2. CASE CheckMinimum
  <2> USE <1>2 DEF CheckMinimum, Reading
  <2>1. CASE Enough(step.n)
    BY <2>1, StepType DEF TypeOK, Advance
  <2>2. CASE ~Enough(step.n)
    BY <2>2, StepType DEF TypeOK, Missing, FailWith
  <2> QED
    BY <2>1, <2>2
<1>3. CASE NullPointers
  BY <1>3, OverwriteType DEF NullPointers, Reading, TypeOK, Advance
<1>4. CASE ReadInt
  <2> USE <1>4 DEF ReadInt, Reading
  <2>1. step.n \in Nat /\ step.count \in Nat /\ step.count * step.n \in Nat
    BY StepType, ProductType
  <2>2. CASE TakeAll
    BY <2>1, <2>2, AdvanceType DEF TypeOK, Advance, TakeAll
  <2>3. CASE ~TakeAll
    BY <2>1, <2>3, TakeSomeType DEF TypeOK
  <2> QED
    BY <2>2, <2>3
<1>5. CASE ReadField
  <2> USE <1>5 DEF ReadField, Reading
  <2>1. /\ step.n \in Nat /\ step.count \in Nat /\ step.count * step.n \in Nat
        /\ step.zero \in BOOLEAN /\ step.set \in BOOLEAN
    BY StepType, ProductType
  <2>2. CASE TakeAll
    BY <2>1, <2>2, AdvanceType DEF TypeOK, Advance, TakeAll
  <2>3. CASE ~TakeAll
    BY <2>1, <2>3, TakeSomeType DEF TypeOK
  <2> QED
    BY <2>2, <2>3
<1>6. CASE ReadString
  <2> USE <1>6 DEF ReadString, Reading
  <2>1. step.n \in Nat
    BY StepType
  <2>2. CASE ~Enough(1) /\ FailWith(Missing(1), index) /\ UNCHANGED <<ptr, leaked>>
    BY <2>1, <2>2 DEF TypeOK, FailWith, Missing
  <2>3. CASE /\ Enough(1) /\ FailWith(Missing(1 + step.n), index + 1)
             /\ UNCHANGED <<ptr, leaked>>
    BY <2>1, <2>3 DEF TypeOK, FailWith, Missing, Enough
  <2>4. CASE Enough(1 + step.n) /\ Allocate(1 + step.n)
    <3>1. 1 + step.n \in Nat
      BY <2>1
    <3> QED
      BY <3>1, <2>4, AllocateType DEF TypeOK
  <2> QED
    BY <2>2, <2>3, <2>4
<1>7. CASE ReadCstring
  <2> USE <1>7 DEF ReadCstring, Reading
  <2>1. step.n \in Nat /\ step.count \in Nat /\ step.count * step.n \in Nat
    BY StepType, ProductType
  <2>2. CASE TakeAll
    BY <2>1, <2>2, AllocateType DEF TypeOK, TakeAll
  <2>3. CASE ~TakeAll
    BY <2>1, <2>3, TakeSomeType DEF TypeOK
  <2> QED
    BY <2>2, <2>3
<1>8. CASE AllocArray
  <2> USE <1>8 DEF AllocArray, Reading
  <2>1. leaked' \in BOOLEAN
    BY Zenon
  <2>2. ptr' \in [Slot -> {"garbage", "null", "live"}]
    BY DEF TypeOK
  <2> QED
    BY <2>1, <2>2 DEF TypeOK, Advance, MALLOC_FAIL
<1>9. CASE Cleanup
  <2> USE <1>9 DEF Cleanup
  <2>1. wild' \in BOOLEAN
    BY Zenon DEF WildFree
  <2>2. ptr' \in [Slot -> {"garbage", "null", "live"}]
    BY FreeType DEF TypeOK
  <2> QED
    BY <2>1, <2>2 DEF TypeOK
<1>10. CASE Succeed
  BY <1>10 DEF Succeed, TypeOK, SUCCESS
<1> QED
  BY <1>1, <1>2, <1>3, <1>4, <1>5, <1>6, <1>7, <1>8, <1>9, <1>10 DEF Library

\* A step of a caller keeps the types.
LEMMA CallersType == Typed /\ Callers => Typed'
<1> SUFFICES ASSUME Typed, Callers
             PROVE  Typed'
  OBVIOUS
<1> USE DEF Typed, TypeOK
<1>0. written \in Nat \ {0}
  BY CatalogueAssumption DEF written
<1>1. CASE CallRead
  BY <1>1 DEF CallRead, INVALID_PARAMETERS
<1>2. CASE FinishWhole
  <2>1. ptr' \in [Slot -> {"garbage", "null", "live"}] /\ wild' \in BOOLEAN
    BY <1>2, FreeObjectType DEF FinishWhole
  <2> QED
    BY <1>2, <2>1 DEF FinishWhole, reader
<1>3. CASE RetryExactly
  BY <1>3 DEF RetryExactly, NotEnoughBytes
<1>4. CASE ReceiveMore
  BY <1>0, <1>4 DEF ReceiveMore
<1>5. CASE AbortTest
  BY <1>5 DEF AbortTest
<1>6. CASE GiveUp
  BY <1>6, FreeObjectType DEF GiveUp
<1>7. CASE Release
  BY <1>7, FreeObjectType DEF Release
<1> QED
  BY <1>1, <1>2, <1>3, <1>4, <1>5, <1>6, <1>7 DEF Callers

\* The initial states have the types.
LEMMA InitType == Init => Typed
<1> SUFFICES ASSUME Init
             PROVE  Typed
  OBVIOUS
<1>1. message \in Catalogue /\ written \in Nat \ {0}
  BY CatalogueAssumption DEF Init, written
<1>2. length \in Nat /\ phase \in {"whole", "partial"} /\ guard \in BOOLEAN
  BY <1>1 DEF Init, InitTest, InitStream
<1>3. ptr \in [Slot -> {"garbage", "null", "live"}]
  <2>1. CASE InitTest
    BY <2>1 DEF InitTest
  <2>2. CASE InitStream
    BY <2>2 DEF InitStream
  <2> QED
    BY <2>1, <2>2 DEF Init
<1>4. index \in 0..length /\ op \in Nat \ {0} /\ ret \in Int
  BY <1>2 DEF Init, SUCCESS
<1>5. wild \in BOOLEAN /\ leaked \in BOOLEAN
  BY DEF Init
<1> QED
  BY <1>1, <1>2, <1>3, <1>4, <1>5 DEF Init, Typed, TypeOK

\* TypeOK holds for every catalogue, every set of callers and whether or not
\* an allocation may fail: in particular reader->index never passes
\* reader->length, so that the unsigned subtraction of the minimum size
\* checks does not wrap around.
THEOREM TypeCorrect == Spec => [](TypeOK /\ message \in Catalogue)
<1>1. Typed /\ [Next]_vars => Typed'
  <2>1. Typed /\ (Finished \/ UNCHANGED vars) => Typed'
    BY DEF Typed, TypeOK, Finished, vars
  <2> QED
    BY <2>1, LibraryType, CallersType DEF Next
<1> QED
  BY InitType, <1>1, PTL DEF Spec, Typed

-----------------------------------------------------------------------------
(***************************************************************************)
(* The numbers a read function returns                                     *)
(*                                                                         *)
(* NeverOverAsks and SuccessMeansComplete speak of the moment a call has   *)
(* returned.  What makes them inductive is where the reader stands before: *)
(* while the function runs, index is the offset of its next step, and the  *)
(* buffer never holds more than the message.                               *)
(***************************************************************************)

AtStep ==
  pc = "reading" => /\ op \in 1..(Len(message.read) + 1)
                    /\ index = At(message)[op]

AtStart == pc = "idle" /\ phase \in {"whole", "partial"} => index = 0

NoForeignBytes == length <= written

NeverTooMuch == pc \in {"cleanup", "returned"} /\ ret > 0 => length + ret <= written

CleanupIsFailure == pc = "cleanup" => ret # SUCCESS /\ op \in DOMAIN message.read

ProtocolInv ==
  /\ Typed
  /\ AtStep
  /\ AtStart
  /\ NoForeignBytes
  /\ NeverTooMuch
  /\ CleanupIsFailure
  /\ SuccessMeansComplete

\* The step at op begins at index and ends where the next one begins.
LEMMA StepLayout ==
  ASSUME message \in Catalogue, op \in DOMAIN message.read, index = At(message)[op]
  PROVE  /\ op + 1 \in 1..(Len(message.read) + 1)
         /\ index + Consumed(step) = At(message)[op + 1]
         /\ index \in Nat
         /\ index + Consumed(step) <= written
         /\ step.kind = "minimum" => index + step.n <= written
<1>1. Layout(message, At(message))
  BY LayoutAssumption
<1>2. op \in 1..Len(message.read) /\ Len(message.read) \in Nat
  BY StepType
<1>3. written \in Nat
  BY CatalogueAssumption DEF written
<1>4. op + 1 \in 1..(Len(message.read) + 1) /\ op \in 1..(Len(message.read) + 1)
  BY <1>2
<1>5. At(message)[op] \in 0..written /\ At(message)[op + 1] \in 0..written
  BY <1>1, <1>4 DEF Layout, written
<1> QED
  BY <1>1, <1>2, <1>3, <1>4, <1>5 DEF Layout, step, written

\* A part of an array is no longer than the array.
LEMMA ProductMonotone == \A a, b, n \in Nat : a <= b => a * n <= b * n
OBVIOUS

\* The first length check that fails asks for bytes of its own step.
LEMMA TakeSomeAsks ==
  ASSUME index \in Nat, length \in Nat, step.n \in Nat, step.count \in Nat,
         written \in Nat, index + step.count * step.n <= written, TakeSome
  PROVE  ret' > 0 /\ length + ret' <= written
<1>1. PICK done \in 0..(step.count - 1) :
        /\ ~Enough((done + 1) * step.n)
        /\ FailWith(Missing((done + 1) * step.n), index + done * step.n)
  BY DEF TakeSome
<1>2. (done + 1) * step.n <= step.count * step.n
  BY <1>1, ProductMonotone
<1>3. (done + 1) * step.n \in Nat /\ step.count * step.n \in Nat
  BY <1>1, ProductType
<1>4. ret' = index + (done + 1) * step.n - length
  BY <1>1 DEF FailWith, Missing
<1>5. ~(index + (done + 1) * step.n <= length)
  BY <1>1 DEF Enough
<1> HIDE DEF step, written
<1> QED
  BY <1>2, <1>3, <1>4, <1>5

\* Every way in which a step of the read function ends: it went on to the
\* next step, or it failed with a number that does not ask for too much.
Continues ==
  /\ pc' = "reading"
  /\ op' = op + 1
  /\ index' = index + Consumed(step)

Fails ==
  /\ pc' \in {"cleanup", "returned"}
  /\ op' = op
  /\ ret' # SUCCESS
  /\ ret' > 0 => length + ret' <= written

\* The actions that execute one step of the read function.
StepActions ==
  \/ ReadHeader \/ CheckMinimum \/ NullPointers \/ ReadInt \/ ReadField
  \/ ReadString \/ ReadCstring \/ AllocArray

\* An allocation ends where its bytes end, or in a cleanup.
LEMMA AllocateEnds ==
  ASSUME pc = "reading", Allocate(Consumed(step))
  PROVE  Continues \/ Fails
BY DEF Allocate, Continues, Fails, Advance, FailWith, MALLOC_FAIL, SUCCESS

\* A step either reaches the next offset or fails within the message.
LEMMA StepEnds ==
  ASSUME ProtocolInv, StepActions
  PROVE  /\ Continues \/ Fails
         /\ pc = "reading" /\ op \in DOMAIN message.read
         /\ UNCHANGED <<caller, message, phase, length>>
<1>0. pc = "reading" /\ op \in DOMAIN message.read
  BY DEF StepActions, ReadHeader, CheckMinimum, NullPointers, ReadInt, ReadField,
         ReadString, ReadCstring, AllocArray, Reading
<1>00. UNCHANGED <<caller, message, phase, length>>
  BY DEF StepActions, ReadHeader, CheckMinimum, NullPointers, ReadInt, ReadField,
         ReadString, ReadCstring, AllocArray
<1> SUFFICES Continues \/ Fails
  BY <1>0, <1>00
<1>a. /\ step.n \in Nat /\ step.count \in Nat /\ step.count * step.n \in Nat
      /\ index \in Nat /\ length \in Nat /\ written \in Nat
  <2>1. step.n \in Nat /\ step.count \in Nat
    BY <1>0, StepType DEF ProtocolInv, Typed
  <2>2. index \in Nat /\ length \in Nat
    BY DEF ProtocolInv, Typed, TypeOK
  <2>3. written \in Nat
    BY CatalogueAssumption DEF ProtocolInv, Typed, written
  <2> QED
    BY <2>1, <2>2, <2>3, ProductType
<1>b. /\ index + Consumed(step) <= written
      /\ step.kind = "minimum" => index + step.n <= written
  BY <1>0, StepLayout DEF ProtocolInv, Typed, AtStep
<1>1. CASE ReadHeader
  <2>1. Consumed(step) = step.n
    BY <1>1 DEF ReadHeader, Reading, Consumed, step
  <2> QED
    BY <1>0, <1>1, <1>a, <1>b, <2>1
       DEF ReadHeader, Advance, Missing, Enough, Continues, Fails, SUCCESS
<1>2. CASE CheckMinimum
  <2>1. Consumed(step) = 0 /\ step.kind = "minimum"
    BY <1>2 DEF CheckMinimum, Reading, Consumed, step
  <2> QED
    BY <1>0, <1>2, <1>a, <1>b, <2>1
       DEF CheckMinimum, Advance, FailWith, Missing, Enough, Continues, Fails, SUCCESS
<1>3. CASE NullPointers
  <2>1. Consumed(step) = 0
    BY <1>3 DEF NullPointers, Reading, Consumed, step
  <2> QED
    BY <1>0, <1>3, <2>1 DEF NullPointers, Advance, Continues
<1>4. CASE ReadInt
  <2>1. Consumed(step) = step.count * step.n
    BY <1>4 DEF ReadInt, Reading, Consumed, step
  <2>2. CASE TakeAll
    BY <1>0, <1>4, <2>1, <2>2 DEF ReadInt, Advance, Continues
  <2>3. CASE ~TakeAll
    BY <1>4, <1>a, <1>b, <2>1, <2>3, TakeSomeType, TakeSomeAsks DEF ReadInt, Fails, SUCCESS
  <2> QED
    BY <2>2, <2>3
<1>5. CASE ReadField
  <2>1. Consumed(step) = step.count * step.n
    BY <1>5 DEF ReadField, Reading, Consumed, step
  <2>2. CASE TakeAll
    BY <1>0, <1>5, <2>1, <2>2 DEF ReadField, Advance, Continues
  <2>3. CASE ~TakeAll
    BY <1>5, <1>a, <1>b, <2>1, <2>3, TakeSomeType, TakeSomeAsks DEF ReadField, Fails, SUCCESS
  <2> QED
    BY <2>2, <2>3
<1>6. CASE ReadString
  <2>1. Consumed(step) = 1 + step.n
    BY <1>6 DEF ReadString, Reading, Consumed, step
  <2>2. CASE ~Enough(1) /\ FailWith(Missing(1), index)
    BY <1>a, <1>b, <2>1, <2>2 DEF Enough, FailWith, Missing, Fails, SUCCESS
  <2>3. CASE ~Enough(1 + step.n) /\ FailWith(Missing(1 + step.n), index + 1)
    BY <1>a, <1>b, <2>1, <2>3 DEF Enough, FailWith, Missing, Fails, SUCCESS
  <2>4. CASE Allocate(1 + step.n)
    BY <1>0, <2>1, <2>4, AllocateEnds
  <2> QED
    BY <1>6, <2>2, <2>3, <2>4 DEF ReadString
<1>7. CASE ReadCstring
  <2>1. Consumed(step) = step.count * step.n
    BY <1>7 DEF ReadCstring, Reading, Consumed, step
  <2>2. CASE TakeAll
    BY <1>0, <1>7, <2>1, <2>2, AllocateEnds DEF ReadCstring
  <2>3. CASE ~TakeAll
    BY <1>7, <1>a, <1>b, <2>1, <2>3, TakeSomeType, TakeSomeAsks DEF ReadCstring, Fails, SUCCESS
  <2> QED
    BY <2>2, <2>3
<1>8. CASE AllocArray
  <2>1. Consumed(step) = 0
    BY <1>8 DEF AllocArray, Reading, Consumed, step
  <2> QED
    BY <1>0, <1>8, <1>a, <2>1 DEF AllocArray, Advance, Continues, Fails, MALLOC_FAIL, SUCCESS
<1> QED
  BY <1>1, <1>2, <1>3, <1>4, <1>5, <1>6, <1>7, <1>8 DEF StepActions

\* Every step of the read function keeps the reader where the layout says.
LEMMA ProtocolLibrary == ProtocolInv /\ Library => ProtocolInv'
<1> SUFFICES ASSUME ProtocolInv, Library
             PROVE  ProtocolInv'
  OBVIOUS
<1>1. Typed'
  BY LibraryType DEF ProtocolInv
<1>2. CASE StepActions
  <2>1. /\ Continues \/ Fails
        /\ pc = "reading" /\ op \in DOMAIN message.read
        /\ UNCHANGED <<caller, message, phase, length>>
    BY <1>2, StepEnds
  <2>2. UNCHANGED written
    BY <2>1 DEF written
  <2>3. CASE Continues
    <3>1. op' \in 1..(Len(message.read) + 1) /\ index' = At(message)[op']
      BY <2>1, <2>3, StepLayout DEF Continues, ProtocolInv, Typed, AtStep
    <3> QED
      BY <1>1, <2>1, <2>2, <2>3, <3>1
         DEF ProtocolInv, AtStep, AtStart, NoForeignBytes, NeverTooMuch, CleanupIsFailure,
             SuccessMeansComplete, Continues
  <2>4. CASE Fails
    BY <1>1, <2>1, <2>2, <2>4
       DEF ProtocolInv, AtStep, AtStart, NoForeignBytes, NeverTooMuch, CleanupIsFailure,
           SuccessMeansComplete, Fails
  <2> QED
    BY <2>1, <2>3, <2>4
<1>3. CASE Cleanup
  BY <1>1, <1>3
     DEF Cleanup, ProtocolInv, AtStep, AtStart, NoForeignBytes, NeverTooMuch, CleanupIsFailure,
         SuccessMeansComplete, written
<1>4. CASE Succeed
  <2>1. Layout(message, At(message)) /\ message.read \in Seq(Steps)
    BY LayoutAssumption, CatalogueAssumption DEF ProtocolInv, Typed
  <2>2. op = Len(message.read) + 1
    BY <1>4, <2>1 DEF Succeed, ProtocolInv, AtStep
  <2>3. index = written
    BY <1>4, <2>1, <2>2 DEF Succeed, ProtocolInv, AtStep, Layout, written
  <2>4. index <= length /\ length <= written /\ index \in Nat /\ length \in Nat
    BY DEF ProtocolInv, Typed, TypeOK, NoForeignBytes
  <2>5. length = written
    BY <2>3, <2>4
  <2> QED
    BY <1>1, <1>4, <2>3, <2>5
       DEF Succeed, ProtocolInv, AtStep, AtStart, NoForeignBytes, NeverTooMuch,
           CleanupIsFailure, SuccessMeansComplete, written, SUCCESS
<1> QED
  BY <1>2, <1>3, <1>4 DEF Library, StepActions

\* Every step of a caller leaves the buffer a prefix of the message.
LEMMA ProtocolCallers == ProtocolInv /\ Callers => ProtocolInv'
<1> SUFFICES ASSUME ProtocolInv, Callers
             PROVE  ProtocolInv'
  OBVIOUS
<1>1. Typed'
  BY CallersType DEF ProtocolInv
<1>2. UNCHANGED message /\ UNCHANGED written
  BY DEF Callers, CallRead, FinishWhole, RetryExactly, ReceiveMore, AbortTest, GiveUp, Release,
         written
<1>3. /\ written \in Nat \ {0} /\ length \in Nat /\ index \in Nat /\ ret \in Int
      /\ length <= written
  BY CatalogueAssumption DEF ProtocolInv, Typed, TypeOK, NoForeignBytes, written
<1> USE DEF AtStep, AtStart, NoForeignBytes, NeverTooMuch, CleanupIsFailure, SuccessMeansComplete
<1>4. CASE CallRead
  <2>1. Layout(message, At(message)) /\ message.read \in Seq(Steps)
    BY LayoutAssumption, CatalogueAssumption DEF ProtocolInv, Typed
  <2>2. index = 0 /\ ~(index > length)
    BY <1>3, <1>4 DEF CallRead, ProtocolInv
  <2>3. op' = 1 /\ pc' = "reading" /\ index' = At(message)[1] /\ UNCHANGED <<phase, length>>
    BY <1>4, <2>1, <2>2 DEF CallRead, Layout
  <2>4. 1 \in 1..(Len(message.read) + 1)
    BY <2>1
  <2> QED
    BY <1>1, <1>2, <1>3, <2>3, <2>4 DEF ProtocolInv
<1>5. CASE FinishWhole
  BY <1>1, <1>2, <1>3, <1>5 DEF FinishWhole, reader, ProtocolInv
<1>6. CASE RetryExactly
  BY <1>1, <1>2, <1>3, <1>6 DEF RetryExactly, NotEnoughBytes, ProtocolInv
<1>7. CASE ReceiveMore
  BY <1>1, <1>2, <1>3, <1>7 DEF ReceiveMore, NotEnoughBytes, ProtocolInv
<1>8. CASE AbortTest
  BY <1>1, <1>2, <1>8 DEF AbortTest, ProtocolInv
<1>9. CASE GiveUp
  BY <1>1, <1>2, <1>9 DEF GiveUp, ProtocolInv
<1>10. CASE Release
  BY <1>1, <1>2, <1>10 DEF Release, ProtocolInv
<1> QED
  BY <1>4, <1>5, <1>6, <1>7, <1>8, <1>9, <1>10 DEF Callers

\* Both containers start with an empty or a complete buffer.
LEMMA ProtocolInit == Init => ProtocolInv
<1> SUFFICES ASSUME Init
             PROVE  ProtocolInv
  OBVIOUS
<1>1. Typed
  BY InitType
<1>2. written \in Nat \ {0}
  BY <1>1, CatalogueAssumption DEF Typed, written
<1>3. length <= written
  BY <1>2 DEF Init, InitTest, InitStream
<1> QED
  BY <1>1, <1>3
     DEF Init, ProtocolInv, AtStep, AtStart, NoForeignBytes, NeverTooMuch, CleanupIsFailure,
         SuccessMeansComplete

\* It holds in every reachable state.
LEMMA ProtocolInvariant == Spec => []ProtocolInv
<1>1. ProtocolInv /\ [Next]_vars => ProtocolInv'
  <2>1. ProtocolInv /\ (Finished \/ UNCHANGED vars) => ProtocolInv'
    BY DEF ProtocolInv, Typed, TypeOK, AtStep, AtStart, NoForeignBytes, NeverTooMuch,
           CleanupIsFailure, SuccessMeansComplete, Finished, vars, written
  <2> QED
    BY <2>1, ProtocolLibrary, ProtocolCallers DEF Next
<1> QED
  BY ProtocolInit, <1>1, PTL DEF Spec

\* For every catalogue whose minimum sizes stay inside their messages, a read
\* of a prefix never asks for bytes beyond the message: the loop of the tests
\* never ends in "gave too much index back", and a caller that waits for the
\* missing bytes does not wait for ever.
THEOREM AsksWithinMessage == Spec => []NeverOverAsks
<1>1. ProtocolInv => NeverOverAsks
  BY DEF ProtocolInv, NeverTooMuch, NeverOverAsks
<1> QED
  BY <1>1, ProtocolInvariant, PTL

\* For every such catalogue, a read succeeds only when the whole message is
\* in the buffer, and has then consumed all of it.
THEOREM SucceedsOnWhole == Spec => []SuccessMeansComplete
<1>1. ProtocolInv => SuccessMeansComplete
  BY DEF ProtocolInv
<1> QED
  BY <1>1, ProtocolInvariant, PTL

-----------------------------------------------------------------------------
(***************************************************************************)
(* The steps that are left                                                 *)
(***************************************************************************)

\* The counts are natural numbers.
LEMMA LeftType ==
  ASSUME ProtocolInv
  PROVE  BytesLeft \in Nat /\ StepsLeft \in Nat
<1>1. written \in Nat /\ length \in Nat /\ length <= written
  BY CatalogueAssumption DEF ProtocolInv, Typed, TypeOK, NoForeignBytes, written
<1>2. message.read \in Seq(Steps)
  BY CatalogueAssumption DEF ProtocolInv, Typed
<1>3. Len(message.read) \in Nat
  BY <1>2
<1>4. BytesLeft \in Nat
  BY <1>1 DEF BytesLeft
<1>5. StepsLeft \in Nat
  BY <1>3 DEF StepsLeft, ProtocolInv, AtStep
<1> QED
  BY <1>4, <1>5

\* A step of the library keeps the rounds and the bytes, and leaves less of
\* the call.
LEMMA LibraryCounts ==
  ASSUME ProtocolInv, Library
  PROVE  LeavesLess
<1>0. BytesLeft \in Nat /\ StepsLeft \in Nat
  BY LeftType
<1>1. UNCHANGED <<message, phase, length>>
  BY DEF Library, ReadHeader, CheckMinimum, NullPointers, ReadInt, ReadField, ReadString,
         ReadCstring, AllocArray, Cleanup, Succeed
<1>2. UNCHANGED <<RoundsLeft, BytesLeft>>
  BY <1>1 DEF RoundsLeft, BytesLeft, written
<1>3. CASE CallLeft' < CallLeft
  BY <1>0, <1>2, <1>3 DEF LeavesLess
<1>4. CASE StepActions
  <2>1. (Continues \/ Fails) /\ pc = "reading" /\ op \in DOMAIN message.read
    BY <1>4, StepEnds
  <2>2. CASE Continues
    <3>1. pc' = "reading" /\ op' = op + 1
      BY <2>2 DEF Continues
    <3>2. CallLeft' = CallLeft
      BY <2>1, <3>1 DEF CallLeft
    <3>3. StepsLeft = Len(message.read) + 1 - op /\ StepsLeft' = Len(message.read) + 1 - op'
      BY <1>1, <2>1, <3>1 DEF StepsLeft
    <3>4. op \in 1..Len(message.read) /\ Len(message.read) \in Nat
      BY <2>1, StepType DEF ProtocolInv, Typed
    <3>5. \A n, k \in Int : n + 1 - (k + 1) < n + 1 - k
      OBVIOUS
    <3>6. op \in Int /\ Len(message.read) \in Int
      BY <3>4
    <3>7. StepsLeft' < StepsLeft
      BY <3>1, <3>3, <3>5, <3>6
    <3> QED
      BY <1>0, <1>2, <3>2, <3>7 DEF LeavesLess
  <2>3. CASE Fails
    <3>1. pc' \in {"cleanup", "returned"}
      BY <2>3 DEF Fails
    <3>2. CallLeft' < CallLeft
      BY <2>1, <3>1 DEF CallLeft
    <3> QED
      BY <1>3, <3>2
  <2> QED
    BY <2>1, <2>2, <2>3
<1>5. CASE Cleanup \/ Succeed
  <2>1. pc \in {"reading", "cleanup"} /\ pc' = "returned"
    BY <1>5 DEF Cleanup, Succeed
  <2>2. CallLeft' < CallLeft
    BY <2>1 DEF CallLeft
  <2> QED
    BY <1>3, <2>2
<1> QED
  BY <1>4, <1>5 DEF Library, StepActions

\* A caller calls, or makes the message longer, or comes to the next round.
LEMMA CallersCount ==
  ASSUME ProtocolInv, Callers
  PROVE  LeavesLess
<1>0. /\ BytesLeft \in Nat /\ StepsLeft \in Nat
      /\ written \in Nat \ {0} /\ length \in Nat /\ ret \in Int
  BY LeftType, CatalogueAssumption DEF ProtocolInv, Typed, TypeOK, written
<1>1. UNCHANGED <<message, written>>
  BY DEF Callers, CallRead, FinishWhole, RetryExactly, ReceiveMore, AbortTest, GiveUp, Release,
         written
<1>2. CASE RoundsLeft' < RoundsLeft
  BY <1>0, <1>2 DEF LeavesLess
<1>3. CASE CallRead
  <2>1. UNCHANGED <<phase, length>> /\ pc = "idle" /\ pc' \in {"reading", "returned"}
    BY <1>3 DEF CallRead
  <2>2. CallLeft' < CallLeft
    BY <2>1 DEF CallLeft
  <2>3. UNCHANGED <<RoundsLeft, BytesLeft>>
    BY <1>1, <2>1 DEF RoundsLeft, BytesLeft
  <2> QED
    BY <1>0, <2>2, <2>3 DEF LeavesLess
<1>4. CASE FinishWhole
  <2>1. phase = "whole" /\ phase' \in {"partial", "aborted"}
    BY <1>4 DEF FinishWhole
  <2>2. RoundsLeft' < RoundsLeft
    BY <2>1 DEF RoundsLeft
  <2> QED
    BY <1>2, <2>2
<1>5. CASE AbortTest \/ GiveUp \/ Release
  <2>1. phase = "partial" /\ phase' \in {"aborted", "released"}
    BY <1>5 DEF AbortTest, GiveUp, Release
  <2>2. RoundsLeft' < RoundsLeft
    BY <2>1 DEF RoundsLeft
  <2> QED
    BY <1>2, <2>2
<1>6. ASSUME phase = "partial", phase' = "partial", NEW n \in Nat \ {0}, length' = length + n
      PROVE  LeavesLess
  <2>1. UNCHANGED RoundsLeft
    BY <1>6 DEF RoundsLeft
  <2>2. BytesLeft' < BytesLeft
    BY <1>0, <1>1, <1>6 DEF BytesLeft
  <2> QED
    BY <1>0, <2>1, <2>2 DEF LeavesLess
<1>7. CASE RetryExactly
  <2>1. phase = "partial" /\ ret > 0 /\ length' = length + ret
    BY <1>7 DEF RetryExactly, NotEnoughBytes
  <2>2. CASE phase' = "partial"
    <3>1. ret \in Nat \ {0}
      BY <1>0, <2>1
    <3> QED
      BY <1>6, <2>1, <2>2, <3>1
  <2>3. CASE phase' = "aborted"
    <3>1. RoundsLeft' < RoundsLeft
      BY <2>1, <2>3 DEF RoundsLeft
    <3> QED
      BY <1>2, <3>1
  <2> QED
    BY <1>7, <2>2, <2>3 DEF RetryExactly
<1>8. CASE ReceiveMore
  <2>1. PICK more \in 1..(written - length) : length' = length + more
    BY <1>8 DEF ReceiveMore
  <2>2. phase = "partial" /\ phase' = "partial"
    BY <1>8 DEF ReceiveMore, NotEnoughBytes
  <2>3. more \in Nat \ {0}
    BY <1>0, <2>1
  <2> QED
    BY <1>6, <2>1, <2>2, <2>3
<1> QED
  BY <1>3, <1>4, <1>5, <1>7, <1>8 DEF Callers

\* Every step of a read or of its caller, for every catalogue with a layout
\* and whatever allocation fails, brings the end of the message nearer: the
\* loop that retries with more bytes comes to an end.  This is the safety
\* part of what FairSpec of MessageAssembly promises.
THEOREM RetriesEnd == Spec => EveryStepCounts
<1>1. ProtocolInv /\ [Next]_vars => [LeavesLess]_vars
  BY LibraryCounts, CallersCount DEF Next, Finished
<1> QED
  BY <1>1, ProtocolInvariant, PTL DEF Spec, EveryStepCounts
=============================================================================
