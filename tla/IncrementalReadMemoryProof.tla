-------------------- MODULE IncrementalReadMemoryProof --------------------
(***************************************************************************)
(* Theorems about the memory IncrementalRead allocates, for every          *)
(* catalogue of messages that keeps the discipline the generator follows:  *)
(* pointers are set to NULL before anything can fail with a failure that   *)
(* looks at them, each is allocated at most once, a pointer that is freed  *)
(* under a condition is allocated under it, and the pointers of elements   *)
(* come after their array.                                                 *)
(***************************************************************************)
EXTENDS IncrementalReadProof

IsAlloc(s) == s.kind \in {"string", "cstring", "calloc"}

Top(m) == m.always \union m.guarded

\* object->member = NULL; for every pointer that is a member of m itself
NullsTop(m, k) == m.read[k].kind = "null" /\ Top(m) \subseteq m.read[k].slots

CallocsArray(m, k) == m.read[k].kind = "calloc" /\ m.array \in m.read[k].slots

LastField(m, k) ==
  /\ m.read[k].kind = "field"
  /\ \A j \in 1..Len(m.read) : m.read[j].kind = "field" => j <= k

\* Only length checks that free nothing uninitialised come before the NULLs.
NullsFirst(m) ==
  Top(m) # {} =>
    \E k \in 1..Len(m.read) :
      /\ NullsTop(m, k)
      /\ \A j \in 1..(k - 1) : m.read[j].kind \in {"header", "minimum"}

AllocatesOnce(m) ==
  \A k \in 1..Len(m.read) : IsAlloc(m.read[k]) =>
    \A j \in 1..Len(m.read) \ {k} :
      m.read[j].slots \intersect m.read[k].slots # {} => m.read[j].kind = "null" /\ j < k

AllocatesOwned(m) ==
  \A k \in 1..Len(m.read) : IsAlloc(m.read[k]) =>
    /\ m.read[k].slots \subseteq Top(m) \union m.inner
    /\ m.array \in m.read[k].slots => m.read[k].kind = "calloc"
    /\ m.read[k].slots \intersect m.guarded # {} =>
         \E f \in 1..(k - 1) : LastField(m, f) /\ m.read[f].set
    /\ m.read[k].slots \intersect m.inner # {} => \E c \in 1..(k - 1) : CallocsArray(m, c)
    /\ \A h \in 1..Len(m.read) : m.read[h].kind = "header" => h < k

NestedAfterArray(m) ==
  /\ \A k \in 1..Len(m.read) : m.read[k].own # {} =>
       /\ m.read[k].own \subseteq m.inner
       /\ \E c \in 1..(k - 1) : CallocsArray(m, c)
  /\ m.inner # {} => m.array \in m.always /\ \E c \in 1..Len(m.read) : CallocsArray(m, c)

Discipline(m) ==
  /\ NullsFirst(m)
  /\ AllocatesOnce(m)
  /\ AllocatesOwned(m)
  /\ NestedAfterArray(m)
  /\ m.always \intersect m.guarded = {}
  /\ m.inner \intersect Top(m) = {}

ASSUME DisciplineAssumption == \A m \in Catalogue : Discipline(m)

-----------------------------------------------------------------------------
(***************************************************************************)
(* The inductive invariant                                                 *)
(***************************************************************************)

NoGarbage == \A s \in Slot : ptr[s] # "garbage"
NoneLive == \A s \in Slot : ptr[s] # "live"

\* X_free on the object touches no garbage.
Cleared ==
  /\ \A s \in Top(message) : ptr[s] # "garbage"
  /\ \A s \in message.inner : ptr[s] = "garbage" => ptr[message.array] = "null"

\* Garbage is what an uninitialised container holds before its first read.
GarbageIsOld ==
  /\ pc \in {"reading", "cleanup"} => phase \in {"whole", "partial"}
  /\ phase = "whole" => caller = "test" /\ length = written
  /\ phase \in {"partial", "released"} => NoGarbage
  /\ \A s \in Slot : ptr[s] = "garbage" => s \in Top(message) \union message.inner

\* From the NULLing step on, the free function touches no garbage.
GarbageWhileReading ==
  pc = "reading" =>
    /\ \A k \in 1..(op - 1) : NullsTop(message, k) => Cleared
    /\ \A c \in 1..(op - 1) : CallocsArray(message, c)
         => \A s \in message.inner : ptr[s] # "garbage"

\* A cleanup or a caller that frees finds the pointers assigned.
GarbageAfterwards ==
  /\ pc \in {"cleanup", "returned"} => Cleared
  /\ pc = "cleanup" => \A s \in step.own : ptr[s] # "garbage"
  /\ pc = "returned" /\ ret = SUCCESS => NoGarbage

\* While the function runs, the live pointers are those it has allocated.
LiveWhileReading ==
  pc = "reading" =>
    /\ \A s \in Slot : ptr[s] = "live" =>
         \E k \in 1..(op - 1) : IsAlloc(message.read[k]) /\ s \in message.read[k].slots
    /\ \A k \in 1..(op - 1) : IsAlloc(message.read[k]) =>
         \A s \in message.read[k].slots : ptr[s] = "live"
    /\ \A f \in 1..(op - 1) : LastField(message, f) => guard = message.read[f].set

LiveIsReleased == \A s \in Slot : ptr[s] = "live" => s \in Released(ptr)

\* Every attempt starts with nothing allocated and ends with what it owns
\* in reach of the free function.
LiveAfterwards ==
  /\ pc = "idle" /\ phase \in {"whole", "partial"} => NoneLive
  /\ pc \in {"cleanup", "returned"} => LiveIsReleased
  /\ pc = "returned" /\ ret > 0 => NoneLive
  /\ ReleasedOwnsNothing

\* The inductive invariant: the reader stands where the layout says
\* (ProtocolInv); garbage is only in a container that was never read into
\* and is gone before a free function looks; what is live is exactly what the
\* steps so far have allocated, and is in reach of the free function from the
\* first failure on; nothing is live when an attempt begins.
MemoryInv ==
  /\ ProtocolInv
  /\ GarbageIsOld
  /\ GarbageWhileReading
  /\ GarbageAfterwards
  /\ LiveWhileReading
  /\ LiveAfterwards
  /\ NoWildFree
  /\ NothingLeaked

-----------------------------------------------------------------------------
(***************************************************************************)
(* What a step of the read function does to the pointers                   *)
(***************************************************************************)

Keeps == UNCHANGED <<ptr, leaked>> /\ ~IsAlloc(step)

\* A field that is not tested, or no field: the condition stays.
GuardKept == UNCHANGED guard

\* The step goes on and touches no pointer; a field sets the condition.
Passes ==
  /\ Continues
  /\ Keeps
  /\ step.kind # "null"
  /\ IF step.kind = "field" THEN guard' = step.set ELSE GuardKept

\* The step runs out of bytes.
RunsOut ==
  /\ UNCHANGED <<ptr, leaked>>
  /\ Fails
  /\ ret' > 0
  /\ pc' = "returned" => step.kind = "header"
  /\ step.kind # "field" => GuardKept

Nulls ==
  /\ Continues
  /\ step.kind = "null"
  /\ GuardKept
  /\ Overwrite(step.slots, "null")

\* The step allocates; the elements of a new array have no pointers yet.
Allocates ==
  /\ Continues
  /\ IsAlloc(step)
  /\ GuardKept
  /\ ptr' = [s \in Slot |->
               IF s \in step.slots THEN "live"
               ELSE IF message.array \in step.slots /\ s \in message.inner THEN "null"
               ELSE ptr[s]]
  /\ leaked' = (leaked \/ \E s \in step.slots : ptr[s] = "live")

OutOfMemory ==
  /\ Fails
  /\ IsAlloc(step)
  /\ ret' = MALLOC_FAIL
  /\ GuardKept
  /\ ptr' = [s \in Slot |-> IF s \in step.slots THEN "null" ELSE ptr[s]]
  /\ leaked' = (leaked \/ \E s \in step.slots : ptr[s] = "live")

\* The facts about the step at op that the effects are used with.
LEMMA StepFacts ==
  ASSUME MemoryInv, StepActions
  PROVE  /\ pc = "reading"
         /\ op \in 1..Len(message.read)
         /\ op \in DOMAIN message.read
         /\ Len(message.read) \in Nat
         /\ step = message.read[op]
         /\ step.slots \subseteq Slot
         /\ Continues \/ Fails
         /\ UNCHANGED <<caller, message, phase, length, wild>>
         /\ Discipline(message)
<1>1. /\ pc = "reading" /\ op \in DOMAIN message.read
      /\ UNCHANGED <<caller, message, phase, length>>
      /\ Continues \/ Fails
  BY StepEnds DEF MemoryInv
<1>2. UNCHANGED wild
  BY DEF StepActions, ReadHeader, CheckMinimum, NullPointers, ReadInt, ReadField,
         ReadString, ReadCstring, AllocArray
<1>3. Discipline(message)
  BY DisciplineAssumption DEF MemoryInv, ProtocolInv, Typed
<1> QED
  BY <1>1, <1>2, <1>3, StepType DEF MemoryInv, ProtocolInv, Typed, step

\* An allocation of a string: the array of structs is not a string.
LEMMA AllocateEffect ==
  ASSUME NEW n, IsAlloc(step), step.kind # "calloc", Discipline(message),
         op \in 1..Len(message.read), step = message.read[op],
         Allocate(n), Continues \/ Fails, GuardKept, pc = "reading"
  PROVE  Allocates \/ OutOfMemory
<1>1. message.array \notin step.slots
  BY DEF Discipline, AllocatesOwned
<1>2. CASE Overwrite(step.slots, "live") /\ Advance(n)
  <2>1. Continues
    BY <1>2 DEF Advance, Fails
  <2>2. ptr' = [s \in Slot |->
                 IF s \in step.slots THEN "live"
                 ELSE IF message.array \in step.slots /\ s \in message.inner THEN "null"
                 ELSE ptr[s]]
    BY <1>1, <1>2 DEF Overwrite
  <2>3. leaked' = (leaked \/ \E s \in step.slots : ptr[s] = "live")
    BY <1>2 DEF Overwrite
  <2> QED
    BY <2>1, <2>2, <2>3 DEF Allocates
<1>3. CASE Overwrite(step.slots, "null") /\ FailWith(MALLOC_FAIL, index + n)
  <2>1. Fails /\ ret' = MALLOC_FAIL
    BY <1>3 DEF FailWith, Continues
  <2> QED
    BY <1>3, <2>1 DEF Overwrite, OutOfMemory
<1> QED
  BY <1>2, <1>3 DEF Allocate

\* A step of a read function has one of five effects on the memory.
LEMMA StepEffect ==
  ASSUME MemoryInv, StepActions
  PROVE  Passes \/ RunsOut \/ Nulls \/ Allocates \/ OutOfMemory
<1>1. /\ Continues \/ Fails
      /\ pc = "reading" /\ op \in 1..Len(message.read) /\ step = message.read[op]
      /\ Discipline(message)
  BY StepFacts
<1>2. /\ step.n \in Nat /\ step.count \in Nat /\ index \in Nat /\ length \in Nat
  BY StepFacts, StepType DEF MemoryInv, ProtocolInv, Typed, TypeOK
<1>3. CASE ReadHeader
  <2>1. step.kind = "header" /\ Keeps /\ GuardKept
    BY <1>3 DEF ReadHeader, Reading, step, Keeps, IsAlloc, GuardKept
  <2>2. CASE Enough(step.n)
    BY <1>1, <1>3, <2>1, <2>2 DEF ReadHeader, Advance, Passes, Fails
  <2>3. CASE ~Enough(step.n)
    BY <1>1, <1>2, <1>3, <2>1, <2>3
       DEF ReadHeader, Missing, Enough, RunsOut, Continues, Keeps
  <2> QED
    BY <2>2, <2>3
<1>4. CASE CheckMinimum
  <2>1. step.kind = "minimum" /\ Keeps /\ GuardKept
    BY <1>4 DEF CheckMinimum, Reading, step, Keeps, IsAlloc, GuardKept
  <2>2. CASE Enough(step.n)
    BY <1>1, <1>4, <2>1, <2>2 DEF CheckMinimum, Advance, Passes, Fails
  <2>3. CASE ~Enough(step.n)
    BY <1>1, <1>2, <1>4, <2>1, <2>3
       DEF CheckMinimum, FailWith, Missing, Enough, RunsOut, Continues, Keeps
  <2> QED
    BY <2>2, <2>3
<1>5. CASE NullPointers
  BY <1>1, <1>5 DEF NullPointers, Reading, step, Advance, Nulls, Fails, GuardKept
<1>6. CASE ReadInt
  <2>1. step.kind \in {"int", "each"} /\ Keeps /\ GuardKept
    BY <1>6 DEF ReadInt, Reading, step, Keeps, IsAlloc, GuardKept
  <2>2. CASE TakeAll
    BY <1>1, <1>6, <2>1, <2>2 DEF ReadInt, Advance, Passes, Fails
  <2>3. CASE ~TakeAll
    BY <1>1, <1>2, <1>6, <2>1, <2>3, TakeSomeType DEF ReadInt, RunsOut, Continues, Keeps
  <2> QED
    BY <2>2, <2>3
<1>7. CASE ReadField
  <2>1. step.kind = "field" /\ Keeps
    BY <1>7 DEF ReadField, Reading, step, Keeps, IsAlloc
  <2>2. CASE TakeAll
    BY <1>1, <1>7, <2>1, <2>2 DEF ReadField, Advance, Passes, Fails
  <2>3. CASE ~TakeAll
    BY <1>1, <1>2, <1>7, <2>1, <2>3, TakeSomeType DEF ReadField, RunsOut, Continues, Keeps
  <2> QED
    BY <2>2, <2>3
<1>8. CASE ReadString
  <2>1. step.kind = "string" /\ IsAlloc(step) /\ GuardKept
    BY <1>8 DEF ReadString, Reading, step, IsAlloc, GuardKept
  <2>2. CASE ~Enough(1) /\ FailWith(Missing(1), index) /\ UNCHANGED <<ptr, leaked>>
    BY <1>1, <1>2, <2>1, <2>2 DEF FailWith, Missing, Enough, RunsOut, Continues
  <2>3. CASE /\ ~Enough(1 + step.n) /\ FailWith(Missing(1 + step.n), index + 1)
             /\ UNCHANGED <<ptr, leaked>>
    BY <1>1, <1>2, <2>1, <2>3 DEF FailWith, Missing, Enough, RunsOut, Continues
  <2>4. CASE Allocate(1 + step.n)
    BY <1>1, <2>1, <2>4, AllocateEffect
  <2> QED
    BY <1>8, <2>2, <2>3, <2>4 DEF ReadString
<1>9. CASE ReadCstring
  <2>1. step.kind = "cstring" /\ IsAlloc(step) /\ GuardKept
    BY <1>9 DEF ReadCstring, Reading, step, IsAlloc, GuardKept
  <2>2. CASE TakeAll
    BY <1>1, <1>9, <2>1, <2>2, AllocateEffect DEF ReadCstring
  <2>3. CASE ~TakeAll
    BY <1>1, <1>2, <1>9, <2>1, <2>3, TakeSomeType DEF ReadCstring, RunsOut, Continues
  <2> QED
    BY <2>2, <2>3
<1>10. CASE AllocArray
  <2>1. step.kind = "calloc" /\ IsAlloc(step) /\ GuardKept
        /\ leaked' = (leaked \/ \E s \in step.slots : ptr[s] = "live")
    BY <1>10 DEF AllocArray, Reading, step, IsAlloc, GuardKept
  <2>2. CASE Advance(0)
    BY <1>1, <1>10, <2>1, <2>2 DEF AllocArray, Advance, Allocates, Fails
  <2>3. CASE ret' = MALLOC_FAIL /\ pc' = "returned"
    BY <1>1, <1>10, <2>1, <2>3 DEF AllocArray, Advance, OutOfMemory, Continues
  <2> QED
    BY <1>10, <2>2, <2>3 DEF AllocArray
<1> QED
  BY <1>3, <1>4, <1>5, <1>6, <1>7, <1>8, <1>9, <1>10 DEF StepActions

-----------------------------------------------------------------------------
(***************************************************************************)
(* Every effect preserves the invariant                                    *)
(***************************************************************************)

\* What the assumptions say of the message being read.
LEMMA MessageFacts ==
  ASSUME message \in Catalogue
  PROVE  /\ Discipline(message)
         /\ Top(message) \union message.inner \subseteq Slot
         /\ message.inner # {} => message.array \in Slot /\ message.array \in message.always
         /\ Top(message) = {} => message.inner = {}
         /\ Len(message.read) \in Nat
BY DisciplineAssumption, CatalogueAssumption DEF Discipline, NestedAfterArray, Top

\* Who releases a pointer that is live while the function runs.
LEMMA LiveIsOwned ==
  ASSUME MemoryInv, pc = "reading", NEW s \in Slot, ptr[s] = "live"
  PROVE  \/ s \in message.always
         \/ s \in message.guarded /\ guard = TRUE
              /\ (op \in 1..Len(message.read) => message.read[op].kind # "field")
         \/ s \in message.inner /\ \E c \in 1..(op - 1) : CallocsArray(message, c)
<1>1. /\ message \in Catalogue /\ op \in Nat /\ op \in 1..(Len(message.read) + 1)
  BY DEF MemoryInv, ProtocolInv, Typed, TypeOK, AtStep
<1>2. Len(message.read) \in Nat
  BY <1>1, MessageFacts
<1>3. PICK k \in 1..(op - 1) : IsAlloc(message.read[k]) /\ s \in message.read[k].slots
  BY DEF MemoryInv, LiveWhileReading
<1>4. k \in 1..Len(message.read)
  BY <1>1, <1>2, <1>3
<1>5. /\ s \in Top(message) \union message.inner
      /\ s \in message.guarded =>
           \E f \in 1..(k - 1) : LastField(message, f) /\ message.read[f].set
      /\ s \in message.inner => \E c \in 1..(k - 1) : CallocsArray(message, c)
  BY <1>1, <1>3, <1>4, DisciplineAssumption DEF Discipline, AllocatesOwned
<1>6. CASE s \in message.guarded
  <2>1. PICK f \in 1..(k - 1) : LastField(message, f) /\ message.read[f].set
    BY <1>5, <1>6
  <2>2. f \in 1..(op - 1) /\ f < op
    BY <1>1, <1>3, <2>1
  <2>3. guard = message.read[f].set
    BY <2>1, <2>2 DEF MemoryInv, LiveWhileReading
  <2>4. guard = TRUE
    BY <2>1, <2>3 DEF MemoryInv, ProtocolInv, Typed, TypeOK
  <2>5. op \in 1..Len(message.read) => message.read[op].kind # "field"
    BY <1>1, <2>1, <2>2 DEF LastField
  <2> QED
    BY <1>6, <2>4, <2>5
<1>7. CASE s \in message.inner
  <2>1. PICK c \in 1..(k - 1) : CallocsArray(message, c)
    BY <1>5, <1>7
  <2>2. c \in 1..(op - 1)
    BY <1>1, <1>3, <2>1
  <2> QED
    BY <1>7, <2>1, <2>2
<1> QED
  BY <1>5, <1>6, <1>7 DEF Top

\* The array is live once its calloc has been executed.
LEMMA ArrayIsLive ==
  ASSUME MemoryInv, pc = "reading", NEW c \in 1..(op - 1), CallocsArray(message, c)
  PROVE  ptr[message.array] = "live"
BY DEF MemoryInv, LiveWhileReading, CallocsArray, IsAlloc

\* A step that only moves the reader or sets the guard keeps the invariant.
LEMMA PassesMemory == MemoryInv /\ StepActions /\ Passes => MemoryInv'
<1> SUFFICES ASSUME MemoryInv, StepActions, Passes
             PROVE  MemoryInv'
  OBVIOUS
<1>1. ProtocolInv'
  BY ProtocolLibrary DEF MemoryInv, Library, StepActions
<1>2. /\ UNCHANGED <<caller, message, phase, length, wild, ptr, leaked>>
      /\ pc = "reading" /\ pc' = "reading" /\ op' = op + 1
      /\ op \in 1..Len(message.read) /\ Len(message.read) \in Nat
      /\ step = message.read[op]
  BY StepFacts DEF Passes, Keeps, Continues
<1>3. ~IsAlloc(message.read[op]) /\ message.read[op].kind # "null"
  BY <1>2 DEF Passes, Keeps
<1>4. \A k \in 1..(op' - 1) : k \in 1..(op - 1) \/ k = op
  BY <1>2
<1>5. GarbageIsOld'
  BY <1>2 DEF MemoryInv, GarbageIsOld, NoGarbage, written, Top
<1>6. GarbageWhileReading'
  BY <1>2, <1>3, <1>4
     DEF MemoryInv, GarbageWhileReading, NullsTop, CallocsArray, IsAlloc, Cleared, Top
<1>7. LiveWhileReading'
  <2>1. ASSUME NEW f \in 1..(op' - 1), LastField(message, f)
        PROVE  guard' = message.read[f].set
    <3>1. CASE f = op
      BY <1>2, <2>1, <3>1 DEF LastField, Passes
    <3>2. CASE f \in 1..(op - 1)
      <4>1. message.read[op].kind # "field"
        BY <1>2, <2>1, <3>2 DEF LastField
      <4>2. guard' = guard
        BY <1>2, <4>1 DEF Passes, GuardKept
      <4> QED
        BY <1>2, <2>1, <3>2, <4>2 DEF MemoryInv, LiveWhileReading
    <3> QED
      BY <1>4, <3>1, <3>2
  <2>2. ASSUME NEW s \in Slot, ptr[s] = "live"
        PROVE  \E k \in 1..(op' - 1) : IsAlloc(message.read[k]) /\ s \in message.read[k].slots
    <3>1. PICK k \in 1..(op - 1) : IsAlloc(message.read[k]) /\ s \in message.read[k].slots
      BY <1>2, <2>2 DEF MemoryInv, LiveWhileReading
    <3>2. k \in 1..(op' - 1)
      BY <1>2, <3>1
    <3> QED
      BY <3>1, <3>2
  <2>3. \A k \in 1..(op' - 1) : IsAlloc(message.read[k]) =>
          \A s \in message.read[k].slots : ptr[s] = "live"
    BY <1>2, <1>3, <1>4 DEF MemoryInv, LiveWhileReading
  <2> QED
    BY <1>2, <2>1, <2>2, <2>3 DEF LiveWhileReading, LastField
<1>8. GarbageAfterwards' /\ LiveAfterwards' /\ NoWildFree' /\ NothingLeaked'
  BY <1>2 DEF MemoryInv, GarbageAfterwards, LiveAfterwards, ReleasedOwnsNothing, NoWildFree,
              NothingLeaked, GarbageIsOld
<1> QED
  BY <1>1, <1>5, <1>6, <1>7, <1>8 DEF MemoryInv

\* A step that runs out of bytes leaves what its cleanup can release.
LEMMA RunsOutMemory == MemoryInv /\ StepActions /\ RunsOut => MemoryInv'
<1> SUFFICES ASSUME MemoryInv, StepActions, RunsOut
             PROVE  MemoryInv'
  OBVIOUS
<1>1. ProtocolInv'
  BY ProtocolLibrary DEF MemoryInv, Library, StepActions
<1>2. /\ UNCHANGED <<caller, message, phase, length, wild, ptr, leaked>>
      /\ pc = "reading" /\ pc' \in {"cleanup", "returned"} /\ op' = op
      /\ op \in 1..Len(message.read) /\ Len(message.read) \in Nat
      /\ step = message.read[op] /\ Discipline(message) /\ op \in Nat
      /\ ret' > 0 /\ ret' # SUCCESS /\ length + ret' <= written
      /\ message \in Catalogue
  BY StepFacts DEF RunsOut, Fails, MemoryInv, ProtocolInv, Typed, TypeOK
<1>3. phase = "partial"
  <2>1. phase # "whole"
    <3>1. length \in Nat /\ ret' \in Int
      BY <1>1 DEF MemoryInv, ProtocolInv, Typed, TypeOK
    <3> QED
      BY <1>2, <3>1 DEF MemoryInv, GarbageIsOld
  <2> QED
    BY <1>2, <2>1 DEF MemoryInv, GarbageIsOld
<1>4. NoGarbage
  BY <1>3 DEF MemoryInv, GarbageIsOld
<1>5. GarbageIsOld'
  BY <1>2, <1>3, <1>4 DEF GarbageIsOld, NoGarbage
<1>6. GarbageAfterwards'
  <2>1. Top(message) \subseteq Slot /\ message.inner \subseteq Slot /\ step.own \subseteq Slot
    BY <1>2, MessageFacts, StepType DEF step
  <2>2. step' = step
    BY <1>2 DEF step
  <2> QED
    BY <1>2, <1>4, <2>1, <2>2 DEF GarbageAfterwards, NoGarbage, Cleared, Top
<1>7. LiveIsReleased'
  <2> SUFFICES ASSUME NEW s \in Slot, ptr[s] = "live"
               PROVE  s \in Released(ptr)'
    BY <1>2 DEF LiveIsReleased
  <2>1. CASE s \in message.always
    BY <1>2, <2>1 DEF Released
  <2>2. CASE s \in message.guarded /\ guard = TRUE /\ message.read[op].kind # "field"
    <3>1. guard' = TRUE
      BY <1>2, <2>2 DEF RunsOut, GuardKept
    <3> QED
      BY <1>2, <2>2, <3>1 DEF Released
  <2>3. CASE s \in message.inner /\ \E c \in 1..(op - 1) : CallocsArray(message, c)
    <3>1. ptr[message.array] = "live"
      BY <1>2, <2>3, ArrayIsLive
    <3> QED
      BY <1>2, <2>3, <3>1 DEF Released
  <2> QED
    BY <1>2, <2>1, <2>2, <2>3, LiveIsOwned
<1>8. pc' = "returned" => NoneLive
  <2> SUFFICES ASSUME pc' = "returned", NEW s \in Slot, ptr[s] = "live"
               PROVE  FALSE
    BY DEF NoneLive
  <2>1. message.read[op].kind = "header"
    BY <1>2 DEF RunsOut
  <2>2. PICK k \in 1..(op - 1) : IsAlloc(message.read[k])
    BY <1>2 DEF MemoryInv, LiveWhileReading
  <2>3. k \in 1..Len(message.read) /\ k < op
    BY <1>2, <2>2
  <2> QED
    BY <1>2, <2>1, <2>2, <2>3 DEF Discipline, AllocatesOwned
<1>9. LiveAfterwards'
  BY <1>2, <1>3, <1>7, <1>8 DEF LiveAfterwards, ReleasedOwnsNothing, NoneLive
<1>10. GarbageWhileReading' /\ LiveWhileReading' /\ NoWildFree' /\ NothingLeaked'
  BY <1>2 DEF GarbageWhileReading, LiveWhileReading, MemoryInv, NoWildFree, NothingLeaked
<1> QED
  BY <1>1, <1>5, <1>6, <1>9, <1>10 DEF MemoryInv

\* Setting pointers to NULL loses nothing, since nothing is live yet.
LEMMA NullsMemory == MemoryInv /\ StepActions /\ Nulls => MemoryInv'
<1> SUFFICES ASSUME MemoryInv, StepActions, Nulls
             PROVE  MemoryInv'
  OBVIOUS
<1>1. ProtocolInv'
  BY ProtocolLibrary DEF MemoryInv, Library, StepActions
<1>2. /\ UNCHANGED <<caller, message, phase, length, wild, guard>>
      /\ pc = "reading" /\ pc' = "reading" /\ op' = op + 1
      /\ op \in 1..Len(message.read) /\ Len(message.read) \in Nat
      /\ step = message.read[op] /\ Discipline(message) /\ op \in Nat
      /\ message \in Catalogue
      /\ message.read[op].kind = "null"
      /\ ptr' = [s \in Slot |-> IF s \in message.read[op].slots THEN "null" ELSE ptr[s]]
      /\ leaked' = (leaked \/ \E s \in message.read[op].slots : ptr[s] = "live")
      /\ message.read[op].slots \subseteq Slot
  BY StepFacts DEF Nulls, Continues, Overwrite, GuardKept, MemoryInv, ProtocolInv, Typed, TypeOK
<1>3. \A k \in 1..(op' - 1) : k \in 1..(op - 1) \/ k = op
  BY <1>2
<1>4. /\ Top(message) \union message.inner \subseteq Slot
      /\ message.inner # {} => message.array \in Slot /\ message.array \in message.always
  BY <1>2, MessageFacts
\* Nothing the function has allocated is set to NULL.
<1>5. \A k \in 1..(op - 1) : IsAlloc(message.read[k]) =>
        message.read[op].slots \intersect message.read[k].slots = {}
  <2> SUFFICES ASSUME NEW k \in 1..(op - 1), IsAlloc(message.read[k]),
                      message.read[op].slots \intersect message.read[k].slots # {}
               PROVE  FALSE
    OBVIOUS
  <2>1. k \in 1..Len(message.read) /\ op \in 1..Len(message.read) \ {k} /\ k < op
    BY <1>2
  <2>2. op < k
    BY <1>2, <2>1 DEF Discipline, AllocatesOnce
  <2> QED
    BY <1>2, <2>1, <2>2
<1>6. \A s \in message.read[op].slots : ptr[s] # "live"
  BY <1>2, <1>5 DEF MemoryInv, LiveWhileReading
<1>7. NothingLeaked'
  BY <1>2, <1>6 DEF MemoryInv, NothingLeaked
<1>8. GarbageIsOld'
  BY <1>2 DEF MemoryInv, GarbageIsOld, NoGarbage, written, Top
<1>9. GarbageWhileReading'
  <2>1. ASSUME NEW k \in 1..(op' - 1), NullsTop(message, k)
        PROVE  Cleared'
    <3>1. CASE k = op
      BY <1>2, <1>4, <2>1, <3>1 DEF NullsTop, Cleared, Top
    <3>2. CASE k \in 1..(op - 1)
      <4>1. Cleared
        BY <1>2, <2>1, <3>2 DEF MemoryInv, GarbageWhileReading
      <4> QED
        BY <1>2, <1>4, <4>1 DEF Cleared, Top
    <3> QED
      BY <1>3, <3>1, <3>2
  <2>2. ASSUME NEW c \in 1..(op' - 1), CallocsArray(message, c)
        PROVE  \A s \in message.inner : ptr'[s] # "garbage"
    <3>1. c \in 1..(op - 1)
      BY <1>2, <1>3, <2>2 DEF CallocsArray
    <3>2. \A s \in message.inner : ptr[s] # "garbage"
      BY <1>2, <2>2, <3>1 DEF MemoryInv, GarbageWhileReading
    <3> QED
      BY <1>2, <1>4, <3>2
  <2> QED
    BY <1>2, <2>1, <2>2 DEF GarbageWhileReading, NullsTop, CallocsArray, Top
<1>10. LiveWhileReading'
  <2>1. ASSUME NEW s \in Slot, ptr'[s] = "live"
        PROVE  \E k \in 1..(op' - 1) : IsAlloc(message.read[k]) /\ s \in message.read[k].slots
    <3>1. ptr[s] = "live"
      BY <1>2, <2>1
    <3>2. PICK k \in 1..(op - 1) : IsAlloc(message.read[k]) /\ s \in message.read[k].slots
      BY <1>2, <3>1 DEF MemoryInv, LiveWhileReading
    <3>3. k \in 1..(op' - 1)
      BY <1>2, <3>2
    <3> QED
      BY <3>2, <3>3
  <2>2. ASSUME NEW k \in 1..(op' - 1), IsAlloc(message.read[k]), NEW s \in message.read[k].slots
        PROVE  ptr'[s] = "live"
    <3>1. k \in 1..(op - 1)
      BY <1>2, <1>3, <2>2 DEF IsAlloc
    <3>2. ptr[s] = "live" /\ s \notin message.read[op].slots
      BY <1>2, <1>5, <2>2, <3>1 DEF MemoryInv, LiveWhileReading
    <3>3. s \in Slot
      <4>1. k \in 1..Len(message.read)
        BY <1>2, <3>1
      <4> QED
        BY <1>2, <1>4, <2>2, <4>1 DEF Discipline, AllocatesOwned
    <3> QED
      BY <1>2, <3>2, <3>3
  <2>3. ASSUME NEW f \in 1..(op' - 1), LastField(message, f)
        PROVE  guard' = message.read[f].set
    <3>1. f \in 1..(op - 1)
      BY <1>2, <1>3, <2>3 DEF LastField
    <3> QED
      BY <1>2, <2>3, <3>1 DEF MemoryInv, LiveWhileReading
  <2> QED
    BY <1>2, <2>1, <2>2, <2>3 DEF LiveWhileReading, LastField
<1>11. GarbageAfterwards' /\ LiveAfterwards' /\ NoWildFree'
  BY <1>2 DEF MemoryInv, GarbageAfterwards, LiveAfterwards, ReleasedOwnsNothing, NoWildFree,
              GarbageIsOld
<1> QED
  BY <1>1, <1>7, <1>8, <1>9, <1>10, <1>11 DEF MemoryInv

\* What an allocation at op may rely on: none of its pointers is live, and
\* none of those it has is its own again.
LEMMA AllocationIsFirst ==
  ASSUME MemoryInv, pc = "reading", op \in 1..Len(message.read), IsAlloc(message.read[op])
  PROVE  /\ \A k \in 1..(op - 1) : IsAlloc(message.read[k]) =>
              message.read[op].slots \intersect message.read[k].slots = {}
         /\ \A s \in message.read[op].slots : ptr[s] # "live"
         /\ message.read[op].slots \subseteq Top(message) \union message.inner
         /\ message.read[op].slots \subseteq Slot
         /\ Top(message) = {} => message.inner = {}
         /\ Top(message) # {} => \E k \in 1..(op - 1) : NullsTop(message, k)
<1>1. message \in Catalogue /\ op \in Nat /\ Len(message.read) \in Nat /\ Discipline(message)
  BY MessageFacts DEF MemoryInv, ProtocolInv, Typed, TypeOK
<1>2. ASSUME NEW k \in 1..(op - 1), IsAlloc(message.read[k]),
             message.read[op].slots \intersect message.read[k].slots # {}
      PROVE  FALSE
  <2>1. k \in 1..Len(message.read) /\ op \in 1..Len(message.read) \ {k}
    BY <1>1, <1>2
  <2>2. message.read[op].kind = "null"
    BY <1>1, <1>2, <2>1 DEF Discipline, AllocatesOnce
  <2> QED
    BY <2>2 DEF IsAlloc
<1>3. message.read[op].slots \subseteq Top(message) \union message.inner
  BY <1>1 DEF Discipline, AllocatesOwned
<1>4. /\ Top(message) \union message.inner \subseteq Slot
      /\ Top(message) = {} => message.inner = {}
  BY <1>1, MessageFacts
<1>5. \A s \in message.read[op].slots : ptr[s] # "live"
  BY <1>2, <1>3, <1>4 DEF MemoryInv, LiveWhileReading
<1>6. ASSUME Top(message) # {}
      PROVE  \E k \in 1..(op - 1) : NullsTop(message, k)
  <2>1. PICK k \in 1..Len(message.read) :
          /\ NullsTop(message, k)
          /\ \A j \in 1..(k - 1) : message.read[j].kind \in {"header", "minimum"}
    BY <1>1, <1>6 DEF Discipline, NullsFirst
  <2>2. op # k /\ ~(op \in 1..(k - 1))
    BY <2>1 DEF NullsTop, IsAlloc
  <2>3. k \in 1..(op - 1)
    BY <1>1, <2>1, <2>2
  <2> QED
    BY <2>1, <2>3
<1> QED
  BY <1>2, <1>3, <1>4, <1>5, <1>6

\* An allocation makes live what the free function will look at.
LEMMA AllocatesMemory == MemoryInv /\ StepActions /\ Allocates => MemoryInv'
<1> SUFFICES ASSUME MemoryInv, StepActions, Allocates
             PROVE  MemoryInv'
  OBVIOUS
<1>1. ProtocolInv'
  BY ProtocolLibrary DEF MemoryInv, Library, StepActions
<1>2. /\ UNCHANGED <<caller, message, phase, length, wild, guard>>
      /\ pc = "reading" /\ pc' = "reading" /\ op' = op + 1
      /\ op \in 1..Len(message.read) /\ Len(message.read) \in Nat
      /\ step = message.read[op] /\ Discipline(message) /\ op \in Nat
      /\ message \in Catalogue
      /\ IsAlloc(message.read[op])
      /\ leaked' = (leaked \/ \E s \in message.read[op].slots : ptr[s] = "live")
  BY StepFacts DEF Allocates, Continues, GuardKept, MemoryInv, ProtocolInv, Typed, TypeOK
<1>3. ptr' = [s \in Slot |->
               IF s \in message.read[op].slots THEN "live"
               ELSE IF message.array \in message.read[op].slots /\ s \in message.inner THEN "null"
               ELSE ptr[s]]
  BY <1>2 DEF Allocates
<1>4. \A k \in 1..(op' - 1) : k \in 1..(op - 1) \/ k = op
  BY <1>2
<1>5. /\ Top(message) \union message.inner \subseteq Slot
      /\ message.inner # {} => message.array \in Slot /\ message.array \in message.always
  BY <1>2, MessageFacts
<1>6. /\ \A k \in 1..(op - 1) : IsAlloc(message.read[k]) =>
           message.read[op].slots \intersect message.read[k].slots = {}
      /\ \A s \in message.read[op].slots : ptr[s] # "live"
      /\ message.read[op].slots \subseteq Slot
  BY <1>2, AllocationIsFirst
<1>7. NothingLeaked'
  BY <1>2, <1>6 DEF MemoryInv, NothingLeaked
<1>8. GarbageIsOld'
  BY <1>2, <1>3 DEF MemoryInv, GarbageIsOld, NoGarbage, written, Top
<1>9. GarbageWhileReading'
  <2>1. ASSUME NEW k \in 1..(op' - 1), NullsTop(message, k)
        PROVE  Cleared'
    <3>1. k \in 1..(op - 1)
      BY <1>2, <1>4, <2>1 DEF NullsTop, IsAlloc
    <3>2. Cleared
      BY <1>2, <2>1, <3>1 DEF MemoryInv, GarbageWhileReading
    <3>3. \A s \in Top(message) : ptr'[s] # "garbage"
      BY <1>3, <1>5, <3>2 DEF Cleared
    <3>4. ASSUME NEW s \in message.inner, ptr'[s] = "garbage"
          PROVE  ptr'[message.array] = "null"
      <4>1. ptr[s] = "garbage" /\ message.array \notin message.read[op].slots
        BY <1>3, <1>5, <3>4
      <4>2. ptr[message.array] = "null"
        BY <3>2, <3>4, <4>1 DEF Cleared
      <4> QED
        BY <1>3, <1>5, <4>1, <4>2
    <3> QED
      BY <1>2, <3>3, <3>4 DEF Cleared, Top
  <2>2. ASSUME NEW c \in 1..(op' - 1), CallocsArray(message, c), NEW s \in message.inner
        PROVE  ptr'[s] # "garbage"
    <3>1. CASE c = op
      BY <1>3, <1>5, <2>2, <3>1 DEF CallocsArray
    <3>2. CASE c \in 1..(op - 1)
      <4>1. ptr[s] # "garbage"
        BY <1>2, <2>2, <3>2 DEF MemoryInv, GarbageWhileReading
      <4> QED
        BY <1>3, <1>5, <4>1
    <3> QED
      BY <1>4, <3>1, <3>2
  <2> QED
    BY <1>2, <2>1, <2>2 DEF GarbageWhileReading, NullsTop, CallocsArray, Top
<1>10. LiveWhileReading'
  <2>1. ASSUME NEW s \in Slot, ptr'[s] = "live"
        PROVE  \E k \in 1..(op' - 1) : IsAlloc(message.read[k]) /\ s \in message.read[k].slots
    <3>1. CASE s \in message.read[op].slots
      <4>1. op \in 1..(op' - 1)
        BY <1>2
      <4> QED
        BY <1>2, <3>1, <4>1
    <3>2. CASE s \notin message.read[op].slots
      <4>1. ptr[s] = "live"
        BY <1>3, <2>1, <3>2
      <4>2. PICK k \in 1..(op - 1) : IsAlloc(message.read[k]) /\ s \in message.read[k].slots
        BY <1>2, <4>1 DEF MemoryInv, LiveWhileReading
      <4>3. k \in 1..(op' - 1)
        BY <1>2, <4>2
      <4> QED
        BY <4>2, <4>3
    <3> QED
      BY <3>1, <3>2
  <2>2. ASSUME NEW k \in 1..(op' - 1), IsAlloc(message.read[k]), NEW s \in message.read[k].slots
        PROVE  ptr'[s] = "live"
    <3>1. CASE k = op
      BY <1>3, <1>6, <2>2, <3>1
    <3>2. CASE k \in 1..(op - 1)
      <4>1. k \in 1..Len(message.read)
        BY <1>2, <3>2
      <4>2. ptr[s] = "live"
        BY <1>2, <2>2, <3>2 DEF MemoryInv, LiveWhileReading
      <4>3. s \in Slot
        BY <1>2, <1>5, <2>2, <4>1 DEF Discipline, AllocatesOwned
      <4>4. ~(message.array \in message.read[op].slots /\ s \in message.inner)
        <5> SUFFICES ASSUME message.array \in message.read[op].slots, s \in message.inner
                     PROVE  FALSE
          OBVIOUS
        <5>1. PICK c \in 1..(k - 1) : CallocsArray(message, c)
          BY <1>2, <2>2, <4>1 DEF Discipline, AllocatesOwned
        <5>2. c \in 1..(op - 1)
          BY <1>2, <3>2, <5>1
        <5> QED
          BY <1>6, <5>1, <5>2 DEF CallocsArray, IsAlloc
      <4>5. s \notin message.read[op].slots
        BY <1>6, <4>2
      <4> QED
        BY <1>3, <4>2, <4>3, <4>4, <4>5
    <3> QED
      BY <1>4, <3>1, <3>2
  <2>3. ASSUME NEW f \in 1..(op' - 1), LastField(message, f)
        PROVE  guard' = message.read[f].set
    <3>1. f \in 1..(op - 1)
      BY <1>2, <1>4, <2>3 DEF LastField, IsAlloc
    <3> QED
      BY <1>2, <2>3, <3>1 DEF MemoryInv, LiveWhileReading
  <2> QED
    BY <1>2, <2>1, <2>2, <2>3 DEF LiveWhileReading, LastField
<1>11. GarbageAfterwards' /\ LiveAfterwards' /\ NoWildFree'
  BY <1>2 DEF MemoryInv, GarbageAfterwards, LiveAfterwards, ReleasedOwnsNothing, NoWildFree,
              GarbageIsOld
<1> QED
  BY <1>1, <1>7, <1>8, <1>9, <1>10, <1>11 DEF MemoryInv

\* A failed allocation leaves what was allocated before it in reach.
LEMMA OutOfMemoryMemory == MemoryInv /\ StepActions /\ OutOfMemory => MemoryInv'
<1> SUFFICES ASSUME MemoryInv, StepActions, OutOfMemory
             PROVE  MemoryInv'
  OBVIOUS
<1>1. ProtocolInv'
  BY ProtocolLibrary DEF MemoryInv, Library, StepActions
<1>2. /\ UNCHANGED <<caller, message, phase, length, wild, guard>>
      /\ pc = "reading" /\ pc' \in {"cleanup", "returned"} /\ op' = op
      /\ op \in 1..Len(message.read) /\ Len(message.read) \in Nat
      /\ step = message.read[op] /\ Discipline(message) /\ op \in Nat
      /\ message \in Catalogue
      /\ IsAlloc(message.read[op])
      /\ ret' # SUCCESS /\ ~(ret' > 0)
      /\ leaked' = (leaked \/ \E s \in message.read[op].slots : ptr[s] = "live")
      /\ ptr' = [s \in Slot |-> IF s \in message.read[op].slots THEN "null" ELSE ptr[s]]
  BY StepFacts DEF OutOfMemory, Fails, GuardKept, MemoryInv, ProtocolInv, Typed, TypeOK,
                   MALLOC_FAIL, SUCCESS
<1>3. /\ Top(message) \union message.inner \subseteq Slot
      /\ message.inner # {} => message.array \in Slot /\ message.array \in message.always
  BY <1>2, MessageFacts
<1>4. /\ \A k \in 1..(op - 1) : IsAlloc(message.read[k]) =>
           message.read[op].slots \intersect message.read[k].slots = {}
      /\ \A s \in message.read[op].slots : ptr[s] # "live"
      /\ Top(message) = {} => message.inner = {}
      /\ Top(message) # {} => \E k \in 1..(op - 1) : NullsTop(message, k)
  BY <1>2, AllocationIsFirst
<1>5. NothingLeaked'
  BY <1>2, <1>4 DEF MemoryInv, NothingLeaked
<1>6. GarbageIsOld'
  BY <1>2 DEF MemoryInv, GarbageIsOld, NoGarbage, written, Top
<1>7. Cleared
  <2>1. CASE Top(message) = {}
    BY <1>4, <2>1 DEF Cleared
  <2>2. CASE Top(message) # {}
    BY <1>2, <1>4, <2>2 DEF MemoryInv, GarbageWhileReading
  <2> QED
    BY <2>1, <2>2
<1>8. Cleared'
  BY <1>2, <1>3, <1>7 DEF Cleared, Top
<1>9. \A s \in step'.own : ptr'[s] # "garbage"
  <2> SUFFICES ASSUME NEW s \in message.read[op].own
               PROVE  ptr'[s] # "garbage"
    BY <1>2 DEF step
  <2>1. s \in message.inner /\ \E c \in 1..(op - 1) : CallocsArray(message, c)
    BY <1>2 DEF Discipline, NestedAfterArray
  <2>2. ptr[s] # "garbage"
    BY <1>2, <2>1 DEF MemoryInv, GarbageWhileReading
  <2> QED
    BY <1>2, <1>3, <2>1, <2>2
<1>10. LiveIsReleased'
  <2> SUFFICES ASSUME NEW s \in Slot, ptr'[s] = "live"
               PROVE  s \in Released(ptr)'
    BY <1>2 DEF LiveIsReleased
  <2>0. ptr[s] = "live"
    BY <1>2
  <2>1. CASE s \in message.always
    BY <1>2, <2>1 DEF Released
  <2>2. CASE s \in message.guarded /\ guard = TRUE
    BY <1>2, <2>2 DEF Released
  <2>3. CASE s \in message.inner /\ \E c \in 1..(op - 1) : CallocsArray(message, c)
    <3>1. PICK c \in 1..(op - 1) : CallocsArray(message, c)
      BY <2>3
    <3>2. message.array \notin message.read[op].slots
      BY <1>4, <3>1 DEF CallocsArray, IsAlloc
    <3>3. ptr[message.array] = "live"
      BY <1>2, <3>1, ArrayIsLive
    <3>4. ptr'[message.array] = "live"
      BY <1>2, <1>3, <2>3, <3>2, <3>3
    <3> QED
      BY <1>2, <2>3, <3>4 DEF Released
  <2> QED
    BY <1>2, <2>0, <2>1, <2>2, <2>3, LiveIsOwned
<1>11. GarbageAfterwards'
  BY <1>2, <1>8, <1>9 DEF GarbageAfterwards
<1>12. LiveAfterwards'
  <2>1. phase' \in {"whole", "partial"}
    BY <1>2 DEF MemoryInv, GarbageIsOld
  <2> QED
    BY <1>2, <1>10, <2>1 DEF LiveAfterwards, ReleasedOwnsNothing
<1>13. GarbageWhileReading' /\ LiveWhileReading' /\ NoWildFree'
  BY <1>2 DEF GarbageWhileReading, LiveWhileReading, MemoryInv, NoWildFree
<1> QED
  BY <1>1, <1>5, <1>6, <1>11, <1>12, <1>13 DEF MemoryInv

\* A free function leaves nothing live and frees no garbage.
LEMMA FreeMemory ==
  ASSUME MemoryInv, LiveIsReleased, Cleared
  PROVE  /\ \A s \in Slot : Free(ptr, Released(ptr))[s] # "live"
         /\ ~WildFree(ptr, Released(ptr))
         /\ \A s \in Slot : Free(ptr, Released(ptr))[s] = "garbage" => ptr[s] = "garbage"
         /\ message.inner # {} => Free(ptr, Released(ptr))[message.array] = "null"
         /\ \A s \in Top(message) : Free(ptr, Released(ptr))[s] # "garbage"
<1>1. /\ Top(message) \union message.inner \subseteq Slot
      /\ message.inner # {} => message.array \in Slot /\ message.array \in message.always
  BY MessageFacts DEF MemoryInv, ProtocolInv, Typed
<1>2. \A s \in Released(ptr) : ptr[s] # "garbage"
  BY <1>1 DEF Released, Cleared, Top
<1>3. message.inner # {} => message.array \in Released(ptr)
  BY <1>1 DEF Released
<1>4. ptr \in [Slot -> {"garbage", "null", "live"}]
  BY DEF MemoryInv, ProtocolInv, Typed, TypeOK
<1> QED
  BY <1>1, <1>2, <1>3, <1>4 DEF Free, WildFree, LiveIsReleased, Cleared

\* The cleanup, nested and outer, releases everything and frees no garbage.
LEMMA CleanupMemory == MemoryInv /\ Cleanup => MemoryInv'
<1> SUFFICES ASSUME MemoryInv, Cleanup
             PROVE  MemoryInv'
  OBVIOUS
<1> DEFINE nested == Free(ptr, step.own)
<1>1. ProtocolInv'
  BY ProtocolLibrary DEF MemoryInv, Library
<1>2. /\ UNCHANGED <<caller, message, phase, op, index, length, ret, guard, leaked>>
      /\ pc = "cleanup" /\ pc' = "returned" /\ ret # SUCCESS
      /\ ptr' = Free(nested, Released(nested))
      /\ wild' = (wild \/ WildFree(ptr, step.own) \/ WildFree(nested, Released(nested)))
      /\ message \in Catalogue /\ op \in DOMAIN message.read
      /\ phase \in {"whole", "partial"}
      /\ ptr \in [Slot -> {"garbage", "null", "live"}]
  BY DEF Cleanup, MemoryInv, ProtocolInv, CleanupIsFailure, Typed, TypeOK, GarbageIsOld
<1>3. /\ Top(message) \union message.inner \subseteq Slot
      /\ message.inner # {} => message.array \in Slot /\ message.array \in message.always
      /\ Discipline(message)
  BY <1>2, MessageFacts
<1>4. step.own \subseteq message.inner /\ step.own \subseteq Slot
  BY <1>2, <1>3, StepType DEF Discipline, NestedAfterArray, step
<1>5. Cleared /\ LiveIsReleased /\ \A s \in step.own : ptr[s] # "garbage"
  BY <1>2 DEF MemoryInv, GarbageAfterwards, LiveAfterwards
<1>6. message.inner # {} => nested[message.array] = ptr[message.array]
  BY <1>3, <1>4 DEF Free, Discipline, Top
<1>7. Released(nested) = Released(ptr)
  BY <1>6 DEF Released
<1>8. \A s \in Slot : ptr'[s] # "live"
  BY <1>2, <1>5, <1>7 DEF Free, LiveIsReleased
<1>9. \A s \in Released(ptr) : s \in Slot /\ ptr[s] # "garbage"
  BY <1>3, <1>5 DEF Released, Cleared, Top
<1>10. ~WildFree(ptr, step.own) /\ ~WildFree(nested, Released(nested))
  <2>1. ~WildFree(ptr, step.own)
    BY <1>5 DEF WildFree
  <2>2. ~WildFree(nested, Released(nested))
    BY <1>7, <1>9 DEF WildFree, Free
  <2> QED
    BY <2>1, <2>2
<1>11. \A s \in Slot : ptr'[s] = "garbage" => ptr[s] = "garbage"
  BY <1>2 DEF Free
<1>12. Cleared'
  <2>1. \A s \in Top(message) : ptr'[s] # "garbage"
    BY <1>3, <1>5, <1>11 DEF Cleared
  <2>2. message.inner # {} => message.array \in Released(ptr)
    BY <1>3 DEF Released
  <2>3. message.inner # {} => ptr'[message.array] = "null"
    BY <1>2, <1>3, <1>7, <2>2 DEF Free
  <2> QED
    BY <1>2, <2>1, <2>3 DEF Cleared, Top
<1>13. GarbageIsOld'
  BY <1>2, <1>11 DEF MemoryInv, GarbageIsOld, NoGarbage, written, Top
<1>14. GarbageAfterwards' /\ GarbageWhileReading' /\ LiveWhileReading'
  BY <1>2, <1>12 DEF GarbageAfterwards, GarbageWhileReading, LiveWhileReading
<1>15. LiveAfterwards'
  BY <1>2, <1>8 DEF LiveAfterwards, LiveIsReleased, NoneLive, ReleasedOwnsNothing
<1>16. NoWildFree' /\ NothingLeaked'
  BY <1>2, <1>10 DEF MemoryInv, NoWildFree, NothingLeaked
<1> QED
  BY <1>1, <1>13, <1>14, <1>15, <1>16 DEF MemoryInv

\* After the last step no garbage is left and the live pointers are in reach.
LEMMA SucceedMemory == MemoryInv /\ Succeed => MemoryInv'
<1> SUFFICES ASSUME MemoryInv, Succeed
             PROVE  MemoryInv'
  OBVIOUS
<1>1. ProtocolInv'
  BY ProtocolLibrary DEF MemoryInv, Library
<1>2. /\ UNCHANGED <<caller, message, phase, length, ptr, guard, wild, leaked>>
      /\ pc = "reading" /\ pc' = "returned" /\ ret' = 0
      /\ op \in 1..(Len(message.read) + 1) /\ op > Len(message.read)
      /\ message \in Catalogue
  BY DEF Succeed, SUCCESS, MemoryInv, ProtocolInv, AtStep, Typed
<1>3. /\ Len(message.read) \in Nat /\ Discipline(message)
      /\ Top(message) = {} => message.inner = {}
      /\ Top(message) \union message.inner \subseteq Slot
  BY <1>2, MessageFacts
<1>4. 1..Len(message.read) = 1..(op - 1) /\ ~(op \in 1..Len(message.read))
  BY <1>2, <1>3
<1>5. NoGarbage
  <2> SUFFICES ASSUME NEW s \in Slot, ptr[s] = "garbage"
               PROVE  FALSE
    BY DEF NoGarbage
  <2>1. s \in Top(message) \union message.inner
    BY DEF MemoryInv, GarbageIsOld
  <2>2. Top(message) # {}
    BY <1>3, <2>1
  <2>3. Cleared
    BY <1>2, <1>3, <1>4, <2>2 DEF Discipline, NullsFirst, MemoryInv, GarbageWhileReading
  <2>4. s \in message.inner
    BY <2>1, <2>3 DEF Cleared
  <2>5. \E c \in 1..(op - 1) : CallocsArray(message, c)
    BY <1>3, <1>4, <2>4 DEF Discipline, NestedAfterArray
  <2> QED
    BY <1>2, <2>4, <2>5 DEF MemoryInv, GarbageWhileReading
<1>6. LiveIsReleased
  <2> SUFFICES ASSUME NEW s \in Slot, ptr[s] = "live"
               PROVE  s \in Released(ptr)
    BY DEF LiveIsReleased
  <2>1. CASE s \in message.inner /\ \E c \in 1..(op - 1) : CallocsArray(message, c)
    <3>1. ptr[message.array] = "live"
      BY <1>2, <2>1, ArrayIsLive
    <3> QED
      BY <2>1, <3>1 DEF Released
  <2>2. CASE s \in message.always \/ (s \in message.guarded /\ guard = TRUE)
    BY <2>2 DEF Released
  <2> QED
    BY <1>2, <2>1, <2>2, LiveIsOwned
<1>7. GarbageAfterwards'
  BY <1>2, <1>3, <1>5 DEF GarbageAfterwards, NoGarbage, Cleared, Top
<1>8. LiveAfterwards'
  <2>1. phase \in {"whole", "partial"}
    BY <1>2 DEF MemoryInv, GarbageIsOld
  <2>2. LiveIsReleased'
    BY <1>2, <1>6 DEF LiveIsReleased, Released
  <2> QED
    BY <1>2, <2>1, <2>2 DEF LiveAfterwards, ReleasedOwnsNothing
<1>9. GarbageIsOld' /\ NoWildFree' /\ NothingLeaked'
  BY <1>2 DEF MemoryInv, GarbageIsOld, NoGarbage, written, Top, NoWildFree, NothingLeaked
<1>10. GarbageWhileReading' /\ LiveWhileReading'
  BY <1>2 DEF GarbageWhileReading, LiveWhileReading
<1> QED
  BY <1>1, <1>7, <1>8, <1>9, <1>10 DEF MemoryInv

\* Every step of the read function keeps the invariant.
LEMMA LibraryMemory == MemoryInv /\ Library => MemoryInv'
BY StepEffect, PassesMemory, RunsOutMemory, NullsMemory, AllocatesMemory, OutOfMemoryMemory,
   CleanupMemory, SucceedMemory
   DEF Library, StepActions

\* A caller frees the container after a read has returned.
LEMMA FreeObjectMemory ==
  ASSUME MemoryInv, FreeObject, pc = "returned", UNCHANGED message
  PROVE  /\ NoneLive'
         /\ NoWildFree'
         /\ Cleared'
         /\ \A s \in Slot : ptr'[s] = "garbage" => ptr[s] = "garbage"
<1>1. LiveIsReleased /\ Cleared
  BY DEF MemoryInv, LiveAfterwards, GarbageAfterwards
<1>2. /\ \A s \in Slot : ptr'[s] # "live"
      /\ ~wild'
      /\ \A s \in Slot : ptr'[s] = "garbage" => ptr[s] = "garbage"
      /\ message.inner # {} => ptr'[message.array] = "null"
      /\ \A s \in Top(message) : ptr'[s] # "garbage"
  BY <1>1, FreeMemory DEF FreeObject, MemoryInv, NoWildFree
<1> QED
  BY <1>2 DEF NoneLive, NoWildFree, Cleared, Top, MemoryInv

\* Every step of a caller keeps the invariant.
LEMMA CallersMemory == MemoryInv /\ Callers => MemoryInv'
<1> SUFFICES ASSUME MemoryInv, Callers
             PROVE  MemoryInv'
  OBVIOUS
<1>1. ProtocolInv' /\ Typed /\ Typed'
  BY ProtocolCallers DEF MemoryInv, ProtocolInv
<1>2. UNCHANGED message /\ UNCHANGED written /\ UNCHANGED caller
  BY DEF Callers, CallRead, FinishWhole, RetryExactly, ReceiveMore, AbortTest, GiveUp, Release,
         written
<1>3. pc = "returned" /\ ret > 0 => NoneLive
  BY DEF MemoryInv, LiveAfterwards
<1>4. CASE CallRead
  <2>1. ~(index > length)
    BY <1>1, <1>4 DEF CallRead, MemoryInv, ProtocolInv, AtStart, Typed, TypeOK
  <2>2. /\ pc' = "reading" /\ op' = 1 /\ UNCHANGED <<phase, length, ptr, guard, wild, leaked>>
        /\ pc = "idle" /\ phase \in {"whole", "partial"}
    BY <1>4, <2>1 DEF CallRead
  <2>3. 1..(op' - 1) = {}
    BY <2>2
  <2>4. NoneLive
    BY <2>2 DEF MemoryInv, LiveAfterwards
  <2>5. GarbageWhileReading' /\ LiveWhileReading'
    BY <2>2, <2>3, <2>4 DEF GarbageWhileReading, LiveWhileReading, NoneLive
  <2> QED
    BY <1>1, <1>2, <2>2, <2>5
       DEF MemoryInv, GarbageIsOld, NoGarbage, Top, GarbageAfterwards, LiveAfterwards,
           ReleasedOwnsNothing, NoWildFree, NothingLeaked
<1>5. CASE FinishWhole
  <2>1. /\ NoneLive' /\ NoWildFree'
        /\ \A s \in Slot : ptr'[s] = "garbage" => ptr[s] = "garbage"
    BY <1>2, <1>5, FreeObjectMemory DEF FinishWhole
  <2>2. /\ pc' = "idle" /\ leaked' = leaked /\ phase = "whole" /\ caller = "test"
        /\ phase' \in {"partial", "aborted"}
        /\ phase' = "partial" => ret = SUCCESS
    BY <1>5 DEF FinishWhole, MemoryInv, GarbageIsOld
  <2>3. phase' = "partial" => NoGarbage'
    BY <1>5, <2>1, <2>2 DEF FinishWhole, MemoryInv, GarbageAfterwards, NoGarbage
  <2>4. GarbageIsOld'
    BY <1>2, <2>1, <2>2, <2>3 DEF MemoryInv, GarbageIsOld, Top
  <2> QED
    BY <1>1, <1>2, <2>1, <2>2, <2>4
       DEF MemoryInv, GarbageWhileReading, LiveWhileReading, GarbageAfterwards,
           LiveAfterwards, ReleasedOwnsNothing, NothingLeaked
<1>6. CASE RetryExactly \/ ReceiveMore
  <2>1. /\ pc' = "idle" /\ NoneLive /\ phase = "partial"
        /\ phase' \in {"partial", "aborted"} /\ (caller = "stream" => phase' = "partial")
        /\ UNCHANGED <<ptr, guard, wild, leaked>>
    BY <1>3, <1>6 DEF RetryExactly, ReceiveMore, NotEnoughBytes
  <2> QED
    BY <1>1, <1>2, <2>1
       DEF MemoryInv, GarbageIsOld, NoGarbage, Top, GarbageWhileReading, LiveWhileReading,
           GarbageAfterwards, LiveAfterwards, NoneLive, ReleasedOwnsNothing, NoWildFree,
           NothingLeaked
<1>7. CASE AbortTest
  <2>1. /\ pc = "returned" /\ pc' = "returned" /\ caller = "test" /\ phase' = "aborted"
        /\ UNCHANGED <<op, ret, ptr, guard, wild, leaked>>
    BY <1>7 DEF AbortTest
  <2> QED
    BY <1>1, <1>2, <2>1
       DEF MemoryInv, GarbageIsOld, NoGarbage, Top, GarbageWhileReading, LiveWhileReading,
           GarbageAfterwards, Cleared, LiveAfterwards, LiveIsReleased, Released, NoneLive,
           ReleasedOwnsNothing, NoWildFree, NothingLeaked
<1>8. CASE GiveUp \/ Release
  <2>1. /\ pc = "returned" /\ pc' = "returned" /\ phase = "partial"
        /\ phase' \in {"aborted", "released"} /\ FreeObject /\ UNCHANGED <<op, ret, leaked>>
    BY <1>8 DEF GiveUp, Release
  <2>2. NoneLive' /\ NoWildFree' /\ Cleared'
        /\ \A s \in Slot : ptr'[s] = "garbage" => ptr[s] = "garbage"
    BY <1>2, <2>1, FreeObjectMemory
  <2>3. NoGarbage'
    BY <2>1, <2>2 DEF MemoryInv, GarbageIsOld, NoGarbage
  <2>4. GarbageIsOld' /\ GarbageAfterwards'
    BY <1>2, <2>1, <2>2, <2>3 DEF GarbageIsOld, GarbageAfterwards, NoGarbage
  <2>5. LiveAfterwards'
    BY <2>1, <2>2 DEF LiveAfterwards, LiveIsReleased, NoneLive, ReleasedOwnsNothing
  <2> QED
    BY <1>1, <2>1, <2>2, <2>4, <2>5
       DEF MemoryInv, GarbageWhileReading, LiveWhileReading, NothingLeaked
<1> QED
  BY <1>4, <1>5, <1>6, <1>7, <1>8 DEF Callers

\* It holds for an uninitialised and for a zeroed container.
LEMMA MemoryInit == Init => MemoryInv
<1> SUFFICES ASSUME Init
             PROVE  MemoryInv
  OBVIOUS
<1>1. ProtocolInv
  BY ProtocolInit
<1>2. /\ pc = "idle" /\ wild = FALSE /\ leaked = FALSE
      /\ (phase = "whole" /\ caller = "test" /\ length = written) \/ phase = "partial"
  BY DEF Init, InitTest, InitStream
<1>3. NoneLive
  BY DEF NoneLive, Init, InitTest, InitStream
<1>4. GarbageIsOld
  BY <1>2 DEF GarbageIsOld, NoGarbage, Top, Init, InitTest, InitStream, pointers
<1>5. NoWildFree /\ NothingLeaked
  BY <1>2 DEF NoWildFree, NothingLeaked
<1> QED
  BY <1>1, <1>2, <1>3, <1>4, <1>5
     DEF MemoryInv, GarbageWhileReading, GarbageAfterwards, LiveWhileReading,
         LiveAfterwards, ReleasedOwnsNothing

\* For every catalogue that keeps the discipline, and whatever allocation
\* fails, the inductive invariant holds in every reachable state: garbage is
\* only in a container that no read has completed yet, and gone before a free
\* function looks at it; what is live is exactly what the steps so far have
\* allocated, and within reach of the free function.
THEOREM MemoryInvariant == Spec => []MemoryInv
<1>1. MemoryInv /\ [Next]_vars => MemoryInv'
  <2>1. MemoryInv /\ (Finished \/ UNCHANGED vars) => MemoryInv'
    <3> SUFFICES ASSUME MemoryInv, UNCHANGED vars
                 PROVE  MemoryInv'
      BY DEF Finished
    <3>1. ProtocolInv'
      BY DEF MemoryInv, ProtocolInv, Typed, TypeOK, AtStep, AtStart, NoForeignBytes,
             NeverTooMuch, CleanupIsFailure, SuccessMeansComplete, vars, written
    <3> QED
      BY <3>1
         DEF MemoryInv, GarbageIsOld, NoGarbage, Top, GarbageWhileReading, LiveWhileReading,
             GarbageAfterwards, Cleared, LiveAfterwards, LiveIsReleased, Released, NoneLive,
             ReleasedOwnsNothing, NoWildFree, NothingLeaked, vars, written, step
  <2> QED
    BY <2>1, LibraryMemory, CallersMemory DEF Next
<1> QED
  BY MemoryInit, <1>1, PTL DEF Spec

\* For every catalogue that keeps the discipline, no free function is ever
\* given a pointer that was not assigned, although the test's container is
\* uninitialised and a failing read frees what the container holds.
THEOREM FreesOnlyOwned == Spec => []NoWildFree
<1>1. MemoryInv => NoWildFree
  BY DEF MemoryInv
<1> QED
  BY <1>1, MemoryInvariant, PTL

\* For every such catalogue, no attempt overwrites the pointer to what an
\* earlier attempt or an earlier step allocated.
THEOREM LosesNothing == Spec => []NothingLeaked
<1>1. MemoryInv => NothingLeaked
  BY DEF MemoryInv
<1> QED
  BY <1>1, MemoryInvariant, PTL

\* For every such catalogue, a read that asks for more bytes has released
\* all it allocated.
THEOREM CleansUp == Spec => []IncompleteOwnsNothing
<1>1. MemoryInv => IncompleteOwnsNothing
  BY DEF MemoryInv, LiveAfterwards, NoneLive, IncompleteOwnsNothing
<1> QED
  BY <1>1, MemoryInvariant, PTL

\* For every such catalogue, what a read leaves behind can be reached through
\* the container by the caller's call of the free function: the conditions
\* that the free function tests hold for every pointer that owns memory.
THEOREM ReachesAll == Spec => []OwnedIsReleasable
<1>1. MemoryInv => OwnedIsReleasable
  BY DEF MemoryInv, LiveAfterwards, LiveIsReleased, OwnedIsReleasable
<1> QED
  BY <1>1, MemoryInvariant, PTL

\* For every such catalogue, nothing that the reads allocated is left when the
\* caller has freed the container, after a success or after giving up.
THEOREM ReleasesAll == Spec => []ReleasedOwnsNothing
<1>1. MemoryInv => ReleasedOwnsNothing
  BY DEF MemoryInv, LiveAfterwards
<1> QED
  BY <1>1, MemoryInvariant, PTL
=============================================================================
