--------------------------- MODULE WorldReadProof ---------------------------
(***************************************************************************)
(* Theorems about the numbers in WorldRead: the types, the bytes a read    *)
(* asks for and what every step leaves to do, for every catalogue of       *)
(* messages and both callers, whatever allocation fails.                   *)
(*                                                                         *)
(* The type invariant holds of everything WorldFormat builds.  The other   *)
(* theorems rest on the layout of the messages.  Path gives the path of a  *)
(* read function on the whole message: for each step that it reaches, the  *)
(* values of its variables there.  The layout says that no length check on *)
(* the path reaches past the end of the message, and that _size is the     *)
(* number of bytes of the body read so far wherever it is compared.  TLC   *)
(* computes the paths and checks the assumptions on the messages.          *)
(***************************************************************************)
EXTENDS WorldRead, TLAPS

CONSTANT Path(_)   \* Path(m)[k]: where the read function of m is before step k

Points == [offset : Nat, tally : Nat, inflated : BOOLEAN]

\* The bytes that the length checks of a step add up to
SizeOf(s) == IF s.ends = <<>> THEN 0 ELSE Last(s.ends)

Consumes(s) == s.kind \in {"header", "ints", "field", "string"}
Checks(s) == Consumes(s) \/ s.kind = "minimum"
\* The step compares _size with the size of the body.
LooksAtSize(s) == s.kind \in {"test", "await"}
TurnsInflated(s) == s.kind \in {"inflate", "inflate member"}

\* What a step needs of the point where it is reached
Sound(m, s, p) ==
  /\ Checks(s) /\ ~p.inflated => p.offset + SizeOf(s) <= m.written
  /\ LooksAtSize(s) => p.tally = p.offset - 2 - m.opcode

\* Where a step leads to when it succeeds
After(s, p) ==
  [offset |-> p.offset + (IF Consumes(s) /\ ~p.inflated THEN SizeOf(s) ELSE 0),
   tally |-> p.tally + (IF s.kind = "test" THEN 0 ELSE s.tally),
   inflated |-> p.inflated \/ TurnsInflated(s)]

\* The steps of the read function that it leaves out after a step
Skipped(m, s, p) == IF s.kind = "test" /\ p.offset = m.written THEN s.skip ELSE 0

Behind(m) == Len(m.read) + 1

Layout(m, path) ==
  /\ DOMAIN path \subseteq 1..Behind(m)
  /\ 1 \in DOMAIN path /\ path[1] = [offset |-> 0, tally |-> 0, inflated |-> FALSE]
  /\ \A k \in DOMAIN path :
       /\ path[k] \in Points
       /\ path[k].offset <= m.written
       /\ k # Behind(m) =>
            LET s == m.read[k]
                next == k + 1 + Skipped(m, s, path[k])
            IN /\ Sound(m, s, path[k])
               /\ next \in DOMAIN path /\ path[next] = After(s, path[k])

ASSUME WorldLayoutAssumption ==
  \A group \in DOMAIN Catalogue : \A name \in DOMAIN Catalogue[group] :
    \A wire \in DOMAIN Catalogue[group][name] :
      Layout(Catalogue[group][name][wire], Path(Catalogue[group][name][wire]))

-----------------------------------------------------------------------------
(***************************************************************************)
(* The inductive invariant                                                 *)
(***************************************************************************)

\* message is one of the catalogue's.
Chosen ==
  /\ message[1] \in DOMAIN Catalogue
  /\ message[2] \in DOMAIN Catalogue[message[1]]
  /\ message[3] \in DOMAIN Catalogue[message[1]][message[2]]

Typed == TypeOK /\ Chosen

\* Where the read function is, by the layout
point == Path(format)[at]

OnPath ==
  /\ at \in DOMAIN Path(format)
  /\ index = point.offset /\ tally = point.tally /\ inflated = point.inflated

\* The buffer holds no more than the message, and a read that is to be
\* repeated starts at its first byte and asks for bytes that there are.
AsksInv ==
  /\ Typed
  /\ length <= written
  /\ pc = "idle" /\ phase \in {"whole", "partial"} => index = 0
  /\ pc = "reading" => OnPath
  /\ pc \in {"cleanup", "returned"} /\ ret > 0 => length + ret <= written

-----------------------------------------------------------------------------
(***************************************************************************)
(* Types                                                                   *)
(***************************************************************************)

\* The message is one that WorldFormat builds.
LEMMA FormatType ==
  ASSUME Chosen
  PROVE  WellFormed(format)
BY WorldCatalogueAssumption DEF Chosen, format

\* A field that a free function tests is only compared with strings.
LEMMA LabelsType ==
  ASSUME Chosen
  PROVE  Labels \subseteq STRING
BY FormatType DEF WellFormed, Labels

\* What the read functions of a message are made of
LEMMA StepType ==
  ASSUME Chosen, at \in DOMAIN format.read
  PROVE  /\ written \in Nat \ {0} /\ format.opcode \in Nat
         /\ Len(format.read) \in Nat /\ at \in 1..Len(format.read)
         /\ step.ends \in Seq(Nat)
         /\ \A i, j \in DOMAIN step.ends : i <= j => step.ends[i] <= step.ends[j]
         /\ step.zero \subseteq STRING /\ step.holds \subseteq STRING
         /\ step.tally \in Nat /\ Len(step.cleanup) \in Nat
         /\ step.skip \in 0..(Len(format.read) - at)
BY FormatType DEF WellFormed, step, written

\* The sizes of the length checks of a step are at most their total.
LEMMA SizeType ==
  ASSUME Chosen, at \in DOMAIN format.read
  PROVE  /\ Size \in Nat
         /\ \A k \in DOMAIN step.ends : step.ends[k] \in Nat /\ step.ends[k] <= Size
         /\ \A k \in DOMAIN step.ends : k # 1 => k - 1 \in DOMAIN step.ends
         /\ DOMAIN step.ends \subseteq Nat
<1>1. /\ step.ends \in Seq(Nat)
      /\ \A i, j \in DOMAIN step.ends : i <= j => step.ends[i] <= step.ends[j]
  BY StepType
<1> DEFINE ends == step.ends
<1>2. ends \in Seq(Nat) /\ \A i, j \in DOMAIN ends : i <= j => ends[i] <= ends[j]
  BY <1>1
<1>3. Size = IF ends = <<>> THEN 0 ELSE ends[Len(ends)]
  BY DEF Size, Last
<1> HIDE DEF ends
<1>4. Len(ends) \in Nat /\ DOMAIN ends = 1..Len(ends) /\ \A k \in 1..Len(ends) : ends[k] \in Nat
  BY <1>2
<1>5. ends # <<>> => Len(ends) \in DOMAIN ends
  BY <1>2, <1>4
<1>6. Size \in Nat
  BY <1>3, <1>4, <1>5
<1>7. \A k \in DOMAIN ends : ends[k] \in Nat /\ ends[k] <= Size
  <2> SUFFICES ASSUME NEW k \in DOMAIN ends
               PROVE  ends[k] \in Nat /\ ends[k] <= Size
    OBVIOUS
  <2>1. ends # <<>> /\ k <= Len(ends)
    BY <1>2, <1>4
  <2> QED
    BY <1>2, <1>3, <1>4, <1>5, <2>1
<1>8. \A k \in DOMAIN ends : k # 1 => k - 1 \in DOMAIN ends
  BY <1>4
<1> QED
  BY <1>4, <1>6, <1>7, <1>8 DEF ends

\* A failed length check asks for some of the bytes of its step.
LEMMA TakeSomeAsks ==
  ASSUME Typed, at \in DOMAIN format.read, TakeSome
  PROVE  /\ ~inflated /\ index' \in 0..length
         /\ ret' \in Int /\ ret' > 0 /\ length + ret' <= index + Size
         /\ pc' = "cleanup" /\ scope' = 1 /\ UNCHANGED <<at, tally>>
<1>1. PICK k \in DOMAIN step.ends :
        LET before == IF k = 1 THEN 0 ELSE step.ends[k - 1]
        IN /\ Enough(before) /\ ~Enough(step.ends[k])
           /\ Fail(Missing(step.ends[k]), index + before, 1)
  BY DEF TakeSome
<1> DEFINE before == IF k = 1 THEN 0 ELSE step.ends[k - 1]
           end == step.ends[k]
<1>2. before \in Nat /\ end \in Nat /\ end <= Size /\ Size \in Nat
  BY SizeType DEF Typed
<1>3. Enough(before) /\ ~Enough(end) /\ Fail(Missing(end), index + before, 1)
  BY <1>1
<1>4. index \in Nat /\ length \in Nat
  BY DEF Typed, TypeOK
<1> HIDE DEF before, end
<1> QED
  BY <1>2, <1>3, <1>4 DEF Enough, Missing, Fail

-----------------------------------------------------------------------------
(***************************************************************************)
(* What a step of the library does to the numbers                          *)
(***************************************************************************)

\* The step under way succeeds.
Passes ==
  /\ pc = "reading" /\ at \in DOMAIN format.read
  /\ Checks(step) => TakeAll
  /\ pc' = "reading" /\ UNCHANGED <<scope, ret>>
  /\ at' = at + 1 + (IF step.kind = "test" /\ tally >= body_size THEN step.skip ELSE 0)
  /\ index' = index + (IF Consumes(step) THEN Taken ELSE 0)
  /\ tally' = tally + (IF step.kind = "test" THEN 0 ELSE step.tally)
  /\ inflated' = (inflated \/ TurnsInflated(step))

\* It finds too few bytes.
RunsOut ==
  /\ pc = "reading" /\ at \in DOMAIN format.read
  /\ Checks(step) /\ TakeSome
  /\ UNCHANGED inflated

\* The body has not arrived.
AwaitsBody ==
  /\ pc = "reading" /\ at \in DOMAIN format.read
  /\ LooksAtSize(step) /\ ~Awaited
  /\ Fail(NOT_ENOUGH_BYTES, index, 1)
  /\ UNCHANGED inflated

\* An allocation fails.
OutOfMemory ==
  /\ AllocMayFail /\ pc = "reading" /\ at \in DOMAIN format.read
  /\ pc' = "cleanup" /\ ret' = MALLOC_FAIL
  /\ index' \in 0..length /\ scope' \in {1, 2}
  /\ UNCHANGED <<at, tally, inflated>>

\* The body does not decompress.
Corrupt ==
  /\ pc = "reading" /\ at \in DOMAIN format.read /\ step.kind = "inflate"
  /\ pc' = "returned" /\ ret' = COMPRESSION_ERROR
  /\ UNCHANGED <<at, scope, index, tally, inflated>>

\* A failure goes through the cleanup labels.
Unwinds ==
  /\ pc = "cleanup"
  /\ \/ pc' = "cleanup" /\ scope <= Len(step.cleanup) /\ scope' = scope + 1
     \/ pc' = "returned" /\ scope' = scope
  /\ UNCHANGED <<at, index, tally, inflated, ret>>

Succeeds ==
  /\ pc = "reading" /\ at > Len(format.read)
  /\ pc' = "returned" /\ ret' = SUCCESS
  /\ UNCHANGED <<at, scope, index, tally, inflated>>

Results == Passes \/ RunsOut \/ AwaitsBody \/ OutOfMemory \/ Corrupt \/ Unwinds \/ Succeeds

\* A step that goes on passes.
LEMMA PassesBy ==
  ASSUME pc = "reading", at \in DOMAIN format.read, at \in Nat,
         Checks(step) => TakeAll, step.kind # "test",
         NEW n, n = (IF Consumes(step) THEN Taken ELSE 0), Continue(n),
         inflated' = (inflated \/ TurnsInflated(step))
  PROVE  Passes
<1>1. /\ pc' = "reading" /\ UNCHANGED <<scope, ret>>
      /\ index' = index + (IF Consumes(step) THEN Taken ELSE 0)
      /\ at' = at + 1 /\ tally' = tally + step.tally
  BY DEF Continue
<1>2. at' = at + 1 + (IF step.kind = "test" /\ tally >= body_size THEN step.skip ELSE 0)
  BY <1>1
<1>3. tally' = tally + (IF step.kind = "test" THEN 0 ELSE step.tally)
  BY <1>1
<1> QED
  BY <1>1, <1>2, <1>3 DEF Passes

\* The same of the steps that read nothing and check nothing.
LEMMA GoesOn ==
  ASSUME Typed, pc = "reading", at \in DOMAIN format.read, ~Checks(step), step.kind # "test",
         Continue(0), inflated' = (inflated \/ TurnsInflated(step))
  PROVE  Passes
<1>1. at \in Nat
  BY DEF Typed, TypeOK
<1>2. ~Consumes(step)
  BY DEF Checks
<1> QED
  BY <1>1, <1>2, PassesBy

\* A step that reads goes on or runs out.
LEMMA ReadsOn ==
  ASSUME Typed, pc = "reading", at \in DOMAIN format.read, Consumes(step), step.kind # "test",
         ~TurnsInflated(step), UNCHANGED inflated
  PROVE  /\ TakeAll /\ Continue(Taken) => Passes
         /\ TakeSome => RunsOut
<1>1. at \in Nat /\ inflated \in BOOLEAN
  BY DEF Typed, TypeOK
<1>2. Checks(step)
  BY DEF Checks
<1>3. inflated' = (inflated \/ TurnsInflated(step))
  BY <1>1, Zenon
<1>4. TakeAll /\ Continue(Taken) => Passes
  BY <1>1, <1>3, PassesBy
<1>5. TakeSome => RunsOut
  BY <1>2 DEF RunsOut
<1> QED
  BY <1>4, <1>5

\* Every step of the library does one of these.
LEMMA LibraryResults ==
  Typed /\ Library => Results /\ UNCHANGED <<caller, message, phase, length>>
<1> SUFFICES ASSUME Typed, Library
             PROVE  Results /\ UNCHANGED <<caller, message, phase, length>>
  OBVIOUS
<1> DEFINE Others == UNCHANGED <<caller, message, phase, length>>
<1>0. inflated \in BOOLEAN /\ index \in Nat /\ length \in Nat /\ index \in 0..length
  BY DEF Typed, TypeOK
<1>1. CASE ReadHeader
  <2>1. pc = "reading" /\ at \in DOMAIN format.read
    BY <1>1 DEF ReadHeader, Reading
  <2>2. step.kind = "header"
    BY <1>1 DEF ReadHeader, Reading
  <2>3. Consumes(step) /\ ~TurnsInflated(step) /\ step.kind # "test"
    BY <2>2 DEF Checks, Consumes, TurnsInflated
  <2>4. Others
    BY <1>1 DEF ReadHeader, reader, object, history
  <2>5. (TakeAll /\ Continue(Taken)) \/ TakeSome
    BY <1>1 DEF ReadHeader
  <2>6. UNCHANGED inflated
    BY <1>1 DEF ReadHeader
  <2> QED
    BY <2>1, <2>3, <2>4, <2>5, <2>6, ReadsOn DEF Results
<1>2. CASE ReadInts
  <2>1. pc = "reading" /\ at \in DOMAIN format.read
    BY <1>2 DEF ReadInts, Reading
  <2>2. step.kind = "ints"
    BY <1>2 DEF ReadInts, Reading
  <2>3. Consumes(step) /\ ~TurnsInflated(step) /\ step.kind # "test"
    BY <2>2 DEF Checks, Consumes, TurnsInflated
  <2>4. Others
    BY <1>2 DEF ReadInts, reader, object, history
  <2>5. (TakeAll /\ Continue(Taken)) \/ TakeSome
    BY <1>2 DEF ReadInts
  <2>6. UNCHANGED inflated
    BY <1>2 DEF ReadInts
  <2> QED
    BY <2>1, <2>3, <2>4, <2>5, <2>6, ReadsOn DEF Results
<1>3. CASE ReadField
  <2>1. pc = "reading" /\ at \in DOMAIN format.read
    BY <1>3 DEF ReadField, Reading
  <2>2. step.kind = "field"
    BY <1>3 DEF ReadField, Reading
  <2>3. Consumes(step) /\ ~TurnsInflated(step) /\ step.kind # "test"
    BY <2>2 DEF Checks, Consumes, TurnsInflated
  <2>4. Others
    BY <1>3 DEF ReadField, reader, object, history
  <2>5. (TakeAll /\ Continue(Taken)) \/ TakeSome
    BY <1>3 DEF ReadField
  <2>6. UNCHANGED inflated
    BY <1>3 DEF ReadField
  <2> QED
    BY <2>1, <2>3, <2>4, <2>5, <2>6, ReadsOn DEF Results
<1>4. CASE ReadString
  <2>1. pc = "reading" /\ at \in DOMAIN format.read
    BY <1>4 DEF ReadString, Reading
  <2>2. step.kind = "string"
    BY <1>4 DEF ReadString, Reading
  <2>3. Consumes(step) /\ ~TurnsInflated(step) /\ step.kind # "test"
    BY <2>2 DEF Checks, Consumes, TurnsInflated
  <2>4. Others
    BY <1>4 DEF ReadString, reader, object, history
  <2>5. \/ TakeAll /\ Continue(Taken)
        \/ TakeSome
        \/ TakeAll /\ AllocMayFail /\ Fail(MALLOC_FAIL, index + Taken, 1)
    BY <1>4 DEF ReadString
  <2>6. UNCHANGED inflated
    BY <1>4 DEF ReadString
  <2>7. ASSUME TakeAll, AllocMayFail, Fail(MALLOC_FAIL, index + Taken, 1)
        PROVE  OutOfMemory
    <3>1. Size \in Nat
      BY <2>1, SizeType DEF Typed
    <3>2. index + Taken \in 0..length
      BY <1>0, <2>7, <3>1 DEF TakeAll, Enough, Taken
    <3>3. /\ index' = index + Taken /\ ret' = MALLOC_FAIL /\ pc' = "cleanup" /\ scope' = 1
          /\ UNCHANGED <<at, tally>>
      BY <2>7 DEF Fail
    <3> QED
      BY <2>1, <2>6, <2>7, <3>2, <3>3 DEF OutOfMemory
  <2> QED
    BY <2>1, <2>3, <2>4, <2>5, <2>6, <2>7, ReadsOn DEF Results
<1>5. CASE CheckMinimum
  <2>1. pc = "reading" /\ at \in DOMAIN format.read
    BY <1>5 DEF CheckMinimum, Reading
  <2>2. step.kind = "minimum"
    BY <1>5 DEF CheckMinimum, Reading
  <2>3. Checks(step) /\ ~Consumes(step) /\ ~TurnsInflated(step) /\ step.kind # "test"
    BY <2>2 DEF Checks, Consumes, TurnsInflated
  <2>4. Others
    BY <1>5 DEF CheckMinimum, reader, object, history
  <2>5. (TakeAll /\ Continue(0)) \/ TakeSome
    BY <1>5 DEF CheckMinimum
  <2>6. UNCHANGED inflated
    BY <1>5 DEF CheckMinimum
  <2>7. inflated' = (inflated \/ TurnsInflated(step))
    BY <1>0, <2>3, <2>6, Zenon
  <2>8. at \in Nat
    BY DEF Typed, TypeOK
  <2>9. TakeAll /\ Continue(0) => Passes
    BY <2>1, <2>3, <2>7, <2>8, PassesBy
  <2>10. TakeSome => RunsOut
    BY <2>1, <2>3, <2>6 DEF RunsOut
  <2> QED
    BY <2>4, <2>5, <2>9, <2>10 DEF Results
<1>6. CASE NullPointers
  <2>1. pc = "reading" /\ at \in DOMAIN format.read
    BY <1>6 DEF NullPointers, Reading
  <2>2. step.kind = "null"
    BY <1>6 DEF NullPointers, Reading
  <2>3. ~Checks(step) /\ ~TurnsInflated(step) /\ step.kind # "test"
    BY <2>2 DEF Checks, Consumes, TurnsInflated
  <2>4. Others
    BY <1>6 DEF NullPointers, reader, object, history
  <2>5. Continue(0) /\ UNCHANGED inflated
    BY <1>6 DEF NullPointers
  <2>6. inflated' = (inflated \/ TurnsInflated(step))
    BY <1>0, <2>3, <2>5, Zenon
  <2> QED
    BY <2>1, <2>3, <2>4, <2>5, <2>6, GoesOn DEF Results
<1>7. CASE FreeLocal
  <2>1. pc = "reading" /\ at \in DOMAIN format.read
    BY <1>7 DEF FreeLocal, Reading
  <2>2. step.kind = "free"
    BY <1>7 DEF FreeLocal, Reading
  <2>3. ~Checks(step) /\ ~TurnsInflated(step) /\ step.kind # "test"
    BY <2>2 DEF Checks, Consumes, TurnsInflated
  <2>4. Others
    BY <1>7 DEF FreeLocal, reader, object, history
  <2>5. Continue(0) /\ UNCHANGED inflated
    BY <1>7 DEF FreeLocal
  <2>6. inflated' = (inflated \/ TurnsInflated(step))
    BY <1>0, <2>3, <2>5, Zenon
  <2> QED
    BY <2>1, <2>3, <2>4, <2>5, <2>6, GoesOn DEF Results
<1>8. CASE AllocArray
  <2>1. pc = "reading" /\ at \in DOMAIN format.read
    BY <1>8 DEF AllocArray, Reading
  <2>2. step.kind = "calloc"
    BY <1>8 DEF AllocArray, Reading
  <2>3. ~Checks(step) /\ ~TurnsInflated(step) /\ step.kind # "test"
    BY <2>2 DEF Checks, Consumes, TurnsInflated
  <2>4. Others
    BY <1>8 DEF AllocArray, reader, object, history
  <2>5. Continue(0) \/ (AllocMayFail /\ Fail(MALLOC_FAIL, index, 2))
    BY <1>8 DEF AllocArray
  <2>6. UNCHANGED inflated
    BY <1>8 DEF AllocArray
  <2>7. inflated' = (inflated \/ TurnsInflated(step))
    BY <1>0, <2>3, <2>6, Zenon
  <2>8. Continue(0) => Passes
    BY <2>1, <2>3, <2>7, GoesOn
  <2>9. AllocMayFail /\ Fail(MALLOC_FAIL, index, 2) => OutOfMemory
    BY <1>0, <2>1, <2>6 DEF OutOfMemory, Fail
  <2> QED
    BY <2>4, <2>5, <2>8, <2>9 DEF Results
<1>9. CASE AllocUncleared
  <2>1. pc = "reading" /\ at \in DOMAIN format.read
    BY <1>9 DEF AllocUncleared, Reading
  <2>2. step.kind = "malloc"
    BY <1>9 DEF AllocUncleared, Reading
  <2>3. ~Checks(step) /\ ~TurnsInflated(step) /\ step.kind # "test"
    BY <2>2 DEF Checks, Consumes, TurnsInflated
  <2>4. Others
    BY <1>9 DEF AllocUncleared, reader, object, history
  <2>5. Continue(0) \/ (AllocMayFail /\ Fail(MALLOC_FAIL, index, 1))
    BY <1>9 DEF AllocUncleared
  <2>6. UNCHANGED inflated
    BY <1>9 DEF AllocUncleared
  <2>7. inflated' = (inflated \/ TurnsInflated(step))
    BY <1>0, <2>3, <2>6, Zenon
  <2>8. Continue(0) => Passes
    BY <2>1, <2>3, <2>7, GoesOn
  <2>9. AllocMayFail /\ Fail(MALLOC_FAIL, index, 1) => OutOfMemory
    BY <1>0, <2>1, <2>6 DEF OutOfMemory, Fail
  <2> QED
    BY <2>4, <2>5, <2>8, <2>9 DEF Results
<1>10. CASE GrowArray
  <2>1. pc = "reading" /\ at \in DOMAIN format.read
    BY <1>10 DEF GrowArray, Reading
  <2>2. step.kind = "realloc"
    BY <1>10 DEF GrowArray, Reading
  <2>3. ~Checks(step) /\ ~TurnsInflated(step) /\ step.kind # "test"
    BY <2>2 DEF Checks, Consumes, TurnsInflated
  <2>4. Others
    BY <1>10 DEF GrowArray, reader, object, history
  <2>5. Continue(0) \/ (AllocMayFail /\ Fail(MALLOC_FAIL, index, 1))
    BY <1>10 DEF GrowArray
  <2>6. UNCHANGED inflated
    BY <1>10 DEF GrowArray
  <2>7. inflated' = (inflated \/ TurnsInflated(step))
    BY <1>0, <2>3, <2>6, Zenon
  <2>8. Continue(0) => Passes
    BY <2>1, <2>3, <2>7, GoesOn
  <2>9. AllocMayFail /\ Fail(MALLOC_FAIL, index, 1) => OutOfMemory
    BY <1>0, <2>1, <2>6 DEF OutOfMemory, Fail
  <2> QED
    BY <2>4, <2>5, <2>8, <2>9 DEF Results
<1>11. CASE TestSize
  <2>1. pc = "reading" /\ at \in DOMAIN format.read
    BY <1>11 DEF TestSize, Reading
  <2>2. step.kind = "test"
    BY <1>11 DEF TestSize, Reading
  <2>3. ~Checks(step) /\ ~Consumes(step) /\ ~TurnsInflated(step)
    BY <2>2 DEF Checks, Consumes, TurnsInflated
  <2>4. Others
    BY <1>11 DEF TestSize, reader, object, history
  <2>5. /\ UNCHANGED <<pc, scope, index, inflated, tally, ret>>
        /\ at' = at + 1 + (IF tally < body_size THEN 0 ELSE step.skip)
    BY <1>11 DEF TestSize, reader
  <2>6. inflated' = (inflated \/ TurnsInflated(step))
    BY <1>0, <2>3, <2>5, Zenon
  <2>7. tally \in Nat /\ body_size \in Int
    BY StepType, <2>1 DEF Typed, TypeOK, body_size
  <2>8. at' = at + 1 + (IF step.kind = "test" /\ tally >= body_size THEN step.skip ELSE 0)
    BY <2>2, <2>5, <2>7
  <2>9. index' = index + (IF Consumes(step) THEN Taken ELSE 0)
    BY <1>0, <2>3, <2>5
  <2>10. tally' = tally + (IF step.kind = "test" THEN 0 ELSE step.tally)
    BY <2>2, <2>5, <2>7
  <2>11. pc' = "reading" /\ UNCHANGED <<scope, ret>>
    BY <2>1, <2>5
  <2>12. Passes
    BY <2>1, <2>3, <2>6, <2>8, <2>9, <2>10, <2>11 DEF Passes
  <2> QED
    BY <2>4, <2>12 DEF Results
<1>12. CASE AwaitBody
  <2>1. pc = "reading" /\ at \in DOMAIN format.read
    BY <1>12 DEF AwaitBody, Reading
  <2>2. step.kind = "await"
    BY <1>12 DEF AwaitBody, Reading
  <2>3. ~Checks(step) /\ ~TurnsInflated(step) /\ step.kind # "test"
    BY <2>2 DEF Checks, Consumes, TurnsInflated
  <2>4. Others
    BY <1>12 DEF AwaitBody, reader, object, history
  <2>5. IF Awaited THEN Continue(0) ELSE Fail(NOT_ENOUGH_BYTES, index, 1)
    BY <1>12 DEF AwaitBody
  <2>6. UNCHANGED inflated
    BY <1>12 DEF AwaitBody
  <2>7. inflated' = (inflated \/ TurnsInflated(step))
    BY <1>0, <2>3, <2>6, Zenon
  <2>8. LooksAtSize(step)
    BY <2>2 DEF LooksAtSize
  <2>9. Awaited => Passes
    BY <2>1, <2>3, <2>5, <2>7, GoesOn
  <2>10. ~Awaited => AwaitsBody
    BY <2>1, <2>5, <2>6, <2>8 DEF AwaitsBody
  <2> QED
    BY <2>4, <2>9, <2>10 DEF Results
<1>13. CASE InflateBody
  <2>1. pc = "reading" /\ at \in DOMAIN format.read
    BY <1>13 DEF InflateBody, Reading
  <2>2. step.kind = "inflate"
    BY <1>13 DEF InflateBody, Reading
  <2>3. ~Checks(step) /\ TurnsInflated(step) /\ step.kind # "test"
    BY <2>2 DEF Checks, Consumes, TurnsInflated
  <2>4. Others
    BY <1>13 DEF InflateBody, reader, object, history
  <2>5. \/ inflated' = TRUE /\ Continue(0)
        \/ Return(COMPRESSION_ERROR) /\ UNCHANGED <<at, scope, index, tally, inflated>>
    BY <1>13 DEF InflateBody
  <2>6. CASE inflated' = TRUE /\ Continue(0)
    <3>1. inflated' = (inflated \/ TurnsInflated(step))
      BY <1>0, <2>3, <2>6, Zenon
    <3>2. Passes
      BY <2>1, <2>3, <2>6, <3>1, GoesOn
    <3> QED
      BY <2>4, <3>2 DEF Results
  <2>7. CASE Return(COMPRESSION_ERROR) /\ UNCHANGED <<at, scope, index, tally, inflated>>
    <3>1. pc' = "returned" /\ ret' = COMPRESSION_ERROR
      BY <2>7 DEF Return
    <3>2. Corrupt
      BY <2>1, <2>2, <2>7, <3>1 DEF Corrupt
    <3> QED
      BY <2>4, <3>2 DEF Results
  <2> QED
    BY <2>5, <2>6, <2>7
<1>14. CASE InflateArray
  <2>1. pc = "reading" /\ at \in DOMAIN format.read
    BY <1>14 DEF InflateArray, Reading
  <2>2. step.kind = "inflate member"
    BY <1>14 DEF InflateArray, Reading
  <2>3. ~Checks(step) /\ TurnsInflated(step) /\ step.kind # "test"
    BY <2>2 DEF Checks, Consumes, TurnsInflated
  <2>4. Others
    BY <1>14 DEF InflateArray, reader, object, history
  <2>5. inflated' = TRUE /\ Continue(0)
    BY <1>14 DEF InflateArray
  <2>6. inflated' = (inflated \/ TurnsInflated(step))
    BY <1>0, <2>3, <2>5, Zenon
  <2> QED
    BY <2>1, <2>3, <2>4, <2>5, <2>6, GoesOn DEF Results
<1>15. CASE Cleanup
  <2>1. /\ pc = "cleanup" /\ UNCHANGED <<pc, at, index, tally, inflated, ret>>
        /\ scope <= Len(step.cleanup) /\ scope' = scope + 1
    BY <1>15 DEF Cleanup, reader
  <2>2. Others
    BY <1>15 DEF Cleanup, reader
  <2> QED
    BY <2>1, <2>2 DEF Results, Unwinds
<1>16. CASE ReturnFailure
  <2>1. /\ pc = "cleanup" /\ pc' = "returned" /\ ret' = ret
        /\ UNCHANGED <<at, scope, index, tally, inflated>>
    BY <1>16 DEF ReturnFailure, Return, reader
  <2>2. Others
    BY <1>16 DEF ReturnFailure, reader
  <2> QED
    BY <2>1, <2>2 DEF Results, Unwinds
<1>17. CASE Succeed
  <2>1. /\ pc = "reading" /\ at > Len(format.read) /\ pc' = "returned" /\ ret' = SUCCESS
        /\ UNCHANGED <<at, scope, index, tally, inflated>>
    BY <1>17 DEF Succeed, Return, reader
  <2>2. Others
    BY <1>17 DEF Succeed, reader
  <2> QED
    BY <2>1, <2>2 DEF Results, Succeeds
<1> QED
  BY <1>1, <1>2, <1>3, <1>4, <1>5, <1>6, <1>7, <1>8, <1>9, <1>10, <1>11, <1>12, <1>13, <1>14, <1>15, <1>16, <1>17 DEF Library

-----------------------------------------------------------------------------
(***************************************************************************)
(* What it does to the memory                                              *)
(***************************************************************************)

States == {"garbage", "null", "live", "dangling"}

\* The memory of the object after a step, for a message that stays the same
MemoryTyped ==
  /\ ptr' \in [Slots -> States] /\ fields' \in [TestedFields -> SUBSET STRING]
  /\ wild' \in BOOLEAN /\ leaked' \in BOOLEAN

\* What Typed says of the memory
LEMMA MemoryNow ==
  ASSUME Typed
  PROVE  /\ ptr \in [Slots -> States] /\ DOMAIN ptr = Slots
         /\ fields \in [TestedFields -> SUBSET STRING] /\ DOMAIN fields = TestedFields
         /\ wild \in BOOLEAN /\ leaked \in BOOLEAN
BY DEF Typed, TypeOK, States

\* A free function changes pointers only.
LEMMA ReleaseTyped ==
  ASSUME Typed, NEW releases, Release(releases)
  PROVE  MemoryTyped
<1> DEFINE due == {r \in releases : Applies(r)}
<1>1. ptr' = [s \in DOMAIN ptr |->
               IF \E r \in due : r.slot = s
                 THEN IF \E r \in due : r.slot = s /\ r.dangles /\ ptr[s] # "null"
                        THEN "dangling" ELSE "null"
               ELSE ptr[s]]
  BY DEF Release
<1>2. wild' = (wild \/ \E r \in due : ptr[r.slot] \in {"garbage", "dangling"})
  BY DEF Release
<1>3. UNCHANGED <<fields, leaked>>
  BY DEF Release
<1> HIDE DEF due
<1>4. ptr' \in [Slots -> States]
  BY <1>1, MemoryNow DEF States
<1>5. wild' \in BOOLEAN
  BY <1>2, Zenon
<1> QED
  BY <1>3, <1>4, <1>5, MemoryNow DEF MemoryTyped

\* An assignment to pointers
LEMMA OverwriteTyped ==
  ASSUME Typed, NEW slots, NEW value \in States, Overwrite(slots, value)
  PROVE  ptr' \in [Slots -> States] /\ leaked' \in BOOLEAN
<1>1. ptr' = [s \in DOMAIN ptr |-> IF s \in slots THEN value ELSE ptr[s]]
  BY DEF Overwrite
<1>2. leaked' = (leaked \/ \E s \in slots : ptr[s] = "live")
  BY DEF Overwrite
<1>3. ptr' \in [Slots -> States]
  BY <1>1, MemoryNow
<1>4. leaked' \in BOOLEAN
  BY <1>2, Zenon
<1> QED
  BY <1>3, <1>4

\* New memory
LEMMA AllocatedTyped ==
  ASSUME Typed, NEW contents \in {"null", "garbage"}, Allocated(contents)
  PROVE  /\ ptr' \in [Slots -> States] /\ leaked' \in BOOLEAN
         /\ fields' \in [TestedFields -> SUBSET STRING]
<1> DEFINE inside == {r.slot : r \in step.fresh}
           insideFields == {t.field : t \in UNION {r.tests : r \in step.fresh}}
           helds == IF contents = "null" THEN {{}} ELSE {{}, Labels}
<1>1. ptr' = [s \in DOMAIN ptr |-> IF s \in step.slots THEN "live"
                                   ELSE IF s \in inside THEN contents ELSE ptr[s]]
  BY DEF Allocated
<1>2. leaked' = (leaked \/ \E s \in step.slots \union inside : ptr[s] = "live")
  BY DEF Allocated
<1>3. PICK held \in helds :
        fields' = [f \in DOMAIN fields |-> IF f \in insideFields THEN held ELSE fields[f]]
  BY DEF Allocated
<1>4. held \in SUBSET STRING
  BY <1>3, LabelsType DEF Typed
<1> HIDE DEF inside, insideFields
<1>5. ptr' \in [Slots -> States]
  BY <1>1, MemoryNow DEF States
<1>6. leaked' \in BOOLEAN
  BY <1>2, Zenon
<1>7. fields' \in [TestedFields -> SUBSET STRING]
  BY <1>3, <1>4, MemoryNow
<1> QED
  BY <1>5, <1>6, <1>7

\* A return drops the local variables.
LEMMA ReturnTyped ==
  ASSUME Typed, NEW value, Return(value)
  PROVE  ptr' \in [Slots -> States] /\ leaked' \in BOOLEAN
<1>1. ptr' = [s \in DOMAIN ptr |-> IF s \in Local THEN "null" ELSE ptr[s]]
  BY DEF Return
<1>2. leaked' = (leaked \/ \E s \in Local \intersect DOMAIN ptr : ptr[s] = "live")
  BY DEF Return
<1>3. ptr' \in [Slots -> States]
  BY <1>1, MemoryNow DEF States
<1>4. leaked' \in BOOLEAN
  BY <1>2, Zenon
<1> QED
  BY <1>3, <1>4

\* A field holds the strings of the step that reads it.
LEMMA HoldTyped ==
  ASSUME Typed, NEW held \in SUBSET STRING, Hold(held)
  PROVE  fields' \in [TestedFields -> SUBSET STRING]
BY MemoryNow DEF Hold

\* No step of the library spoils the memory.
LEMMA LibraryMemory ==
  ASSUME Typed, Library
  PROVE  MemoryTyped
<1> DEFINE Still == UNCHANGED <<ptr, fields, wild, leaked>>
<1>0. Still => MemoryTyped
  BY MemoryNow DEF MemoryTyped
<1>1. CASE ReadHeader
  <2>1. Still
    BY <1>1 DEF ReadHeader, object, history
  <2> QED
    BY <1>0, <2>1
<1>2. CASE CheckMinimum
  <2>1. Still
    BY <1>2 DEF CheckMinimum, object, history
  <2> QED
    BY <1>0, <2>1
<1>3. CASE ReadInts
  <2>1. Still
    BY <1>3 DEF ReadInts, object, history
  <2> QED
    BY <1>0, <2>1
<1>4. CASE TestSize
  <2>1. Still
    BY <1>4 DEF TestSize, object, history
  <2> QED
    BY <1>0, <2>1
<1>5. CASE AwaitBody
  <2>1. Still
    BY <1>5 DEF AwaitBody, object, history
  <2> QED
    BY <1>0, <2>1
<1>6. CASE InflateArray
  <2>1. Still
    BY <1>6 DEF InflateArray, object, history
  <2> QED
    BY <1>0, <2>1
<1>7. CASE NullPointers
  <2>1. Overwrite(step.slots, "null") /\ UNCHANGED <<fields, wild>>
    BY <1>7 DEF NullPointers
  <2>2. ptr' \in [Slots -> States] /\ leaked' \in BOOLEAN
    BY <2>1, OverwriteTyped DEF States
  <2> QED
    BY <2>1, <2>2, MemoryNow DEF MemoryTyped
<1>8. CASE ReadField
  <2>1. Hold(step.holds) \/ Hold(step.zero)
    BY <1>8 DEF ReadField
  <2>2. at \in DOMAIN format.read
    BY <1>8 DEF ReadField, Reading
  <2>3. step.holds \in SUBSET STRING /\ step.zero \in SUBSET STRING
    BY <2>2, StepType DEF Typed
  <2>4. fields' \in [TestedFields -> SUBSET STRING]
    BY <2>1, <2>3, HoldTyped
  <2>5. UNCHANGED <<ptr, wild, leaked>>
    BY <1>8 DEF ReadField, history
  <2> QED
    BY <2>4, <2>5, MemoryNow DEF MemoryTyped
<1>9. CASE ReadString
  <2>1. \/ UNCHANGED <<ptr, leaked>> \/ Overwrite(step.slots, "live") \/ Overwrite(step.slots, "null")
    BY <1>9 DEF ReadString
  <2>2. UNCHANGED <<fields, wild>>
    BY <1>9 DEF ReadString
  <2>3. "live" \in States /\ "null" \in States
    BY DEF States
  <2>4. ptr' \in [Slots -> States] /\ leaked' \in BOOLEAN
    BY <2>1, <2>3, OverwriteTyped, MemoryNow
  <2> QED
    BY <2>2, <2>4, MemoryNow DEF MemoryTyped
<1>10. CASE GrowArray
  <2>1. \/ UNCHANGED <<ptr, leaked>> \/ Overwrite(step.slots, "null")
    BY <1>10 DEF GrowArray
  <2>2. UNCHANGED <<fields, wild>>
    BY <1>10 DEF GrowArray
  <2>3. "live" \in States /\ "null" \in States
    BY DEF States
  <2>4. ptr' \in [Slots -> States] /\ leaked' \in BOOLEAN
    BY <2>1, <2>3, OverwriteTyped, MemoryNow
  <2> QED
    BY <2>2, <2>4, MemoryNow DEF MemoryTyped
<1>11. CASE AllocArray
  <2>1. Allocated("null") \/ (Overwrite(step.slots, "null") /\ UNCHANGED fields)
    BY <1>11 DEF AllocArray
  <2>2. UNCHANGED wild
    BY <1>11 DEF AllocArray
  <2>3. "null" \in States
    BY DEF States
  <2>4. /\ ptr' \in [Slots -> States] /\ leaked' \in BOOLEAN
        /\ fields' \in [TestedFields -> SUBSET STRING]
    BY <2>1, <2>3, OverwriteTyped, AllocatedTyped, MemoryNow
  <2> QED
    BY <2>2, <2>4, MemoryNow DEF MemoryTyped
<1>12. CASE AllocUncleared
  <2>1. Allocated("garbage") \/ (Overwrite(step.slots, "null") /\ UNCHANGED fields)
    BY <1>12 DEF AllocUncleared
  <2>2. UNCHANGED wild
    BY <1>12 DEF AllocUncleared
  <2>3. "null" \in States
    BY DEF States
  <2>4. /\ ptr' \in [Slots -> States] /\ leaked' \in BOOLEAN
        /\ fields' \in [TestedFields -> SUBSET STRING]
    BY <2>1, <2>3, OverwriteTyped, AllocatedTyped, MemoryNow
  <2> QED
    BY <2>2, <2>4, MemoryNow DEF MemoryTyped
<1>13. CASE InflateBody
  <2>1. UNCHANGED <<ptr, leaked>> \/ Return(COMPRESSION_ERROR)
    BY <1>13 DEF InflateBody
  <2>2. UNCHANGED <<fields, wild>>
    BY <1>13 DEF InflateBody
  <2>3. ptr' \in [Slots -> States] /\ leaked' \in BOOLEAN
    BY <2>1, ReturnTyped, MemoryNow
  <2> QED
    BY <2>2, <2>3, MemoryNow DEF MemoryTyped
<1>14. CASE FreeLocal
  <2>1. ptr' = [s \in DOMAIN ptr |-> IF s \in step.slots THEN "null" ELSE ptr[s]]
    BY <1>14 DEF FreeLocal
  <2>2. UNCHANGED <<fields, wild, leaked>>
    BY <1>14 DEF FreeLocal, history
  <2>3. ptr' \in [Slots -> States]
    BY <2>1, MemoryNow DEF States
  <2> QED
    BY <2>2, <2>3, MemoryNow DEF MemoryTyped
<1>15. CASE Cleanup
  <2>1. Release(step.cleanup[scope])
    BY <1>15 DEF Cleanup
  <2> QED
    BY <2>1, ReleaseTyped
<1>16. CASE ReturnFailure
  <2>1. Return(ret) /\ UNCHANGED <<fields, wild>>
    BY <1>16 DEF ReturnFailure
  <2>2. ptr' \in [Slots -> States] /\ leaked' \in BOOLEAN
    BY <2>1, ReturnTyped
  <2> QED
    BY <2>1, <2>2, MemoryNow DEF MemoryTyped
<1>17. CASE Succeed
  <2>1. Return(SUCCESS) /\ UNCHANGED <<fields, wild>>
    BY <1>17 DEF Succeed
  <2>2. ptr' \in [Slots -> States] /\ leaked' \in BOOLEAN
    BY <2>1, ReturnTyped
  <2> QED
    BY <2>1, <2>2, MemoryNow DEF MemoryTyped
<1> QED
  BY <1>1, <1>2, <1>3, <1>4, <1>5, <1>6, <1>7, <1>8, <1>9, <1>10, <1>11, <1>12, <1>13, <1>14, <1>15, <1>16, <1>17 DEF Library

\* Nor does one of the callers.
LEMMA CallersMemory ==
  ASSUME Typed, Callers
  PROVE  MemoryTyped
<1>1. ASSUME UNCHANGED <<object, history>>
      PROVE  MemoryTyped
  BY <1>1, MemoryNow DEF MemoryTyped, object, history
<1>2. ASSUME Release(format.free)
      PROVE  MemoryTyped
  BY <1>2, ReleaseTyped
<1>3. UNCHANGED <<object, history>> \/ Release(format.free)
  BY DEF Callers, CallRead, FinishWhole, RetryExactly, ReceiveMore, AbortTest, GiveUp,
         ReleaseMessage
<1> QED
  BY <1>1, <1>2, <1>3

-----------------------------------------------------------------------------
(***************************************************************************)
(* Type correctness                                                        *)
(***************************************************************************)

\* The control and the numbers after a step, for a message that stays the
\* same
NumbersTyped ==
  /\ pc' \in {"idle", "reading", "cleanup", "returned"}
  /\ at' \in 1..(Len(format.read) + 1) /\ scope' \in Nat \ {0}
  /\ length' \in Nat /\ index' \in 0..length' /\ tally' \in Nat
  /\ inflated' \in BOOLEAN /\ ret' \in Int

\* What Typed says of the numbers
LEMMA NumbersNow ==
  ASSUME Typed
  PROVE  /\ pc \in {"idle", "reading", "cleanup", "returned"}
         /\ Len(format.read) \in Nat
         /\ at \in 1..(Len(format.read) + 1) /\ scope \in Nat \ {0}
         /\ length \in Nat /\ index \in 0..length /\ tally \in Nat
         /\ inflated \in BOOLEAN /\ ret \in Int
         /\ written \in Nat \ {0} /\ format.opcode \in Nat
BY FormatType DEF Typed, TypeOK, WellFormed, written

\* A step of the library keeps the numbers in range.
LEMMA ResultsTyped ==
  ASSUME Typed, Results, UNCHANGED length
  PROVE  NumbersTyped
<1>0. /\ at \in 1..(Len(format.read) + 1) /\ scope \in Nat \ {0}
      /\ length \in Nat /\ index \in 0..length /\ tally \in Nat
      /\ inflated \in BOOLEAN /\ ret \in Int /\ Len(format.read) \in Nat
      /\ length' = length
  BY NumbersNow
<1>1. CASE Passes
  <2>1. at \in DOMAIN format.read /\ pc' = "reading" /\ scope' = scope /\ ret' = ret
    BY <1>1 DEF Passes
  <2>2. /\ at' = at + 1 + (IF step.kind = "test" /\ tally >= body_size THEN step.skip ELSE 0)
        /\ tally' = tally + (IF step.kind = "test" THEN 0 ELSE step.tally)
        /\ index' = index + (IF Consumes(step) THEN Taken ELSE 0)
    BY <1>1 DEF Passes
  <2>3. inflated' \in BOOLEAN
    BY <1>1, Zenon DEF Passes
  <2>4. at \in 1..Len(format.read) /\ step.tally \in Nat /\ step.skip \in 0..(Len(format.read) - at)
    BY <2>1, StepType DEF Typed
  <2>5. at' \in 1..(Len(format.read) + 1) /\ tally' \in Nat
    BY <1>0, <2>2, <2>4
  <2>6. Size \in Nat
    BY <2>1, SizeType DEF Typed
  <2>7. Consumes(step) => index + Taken \in 0..length
    <3>1. Consumes(step) => TakeAll
      BY <1>1 DEF Passes, Checks
    <3> QED
      BY <1>0, <2>6, <3>1 DEF TakeAll, Enough, Taken
  <2>8. index' \in 0..length
    BY <1>0, <2>2, <2>7
  <2> QED
    BY <1>0, <2>1, <2>3, <2>5, <2>8 DEF NumbersTyped
<1>2. CASE RunsOut
  <2>1. at \in DOMAIN format.read /\ TakeSome
    BY <1>2 DEF RunsOut
  <2>2. UNCHANGED inflated
    BY <1>2 DEF RunsOut
  <2>3. /\ index' \in 0..length /\ ret' \in Int /\ pc' = "cleanup" /\ scope' = 1
        /\ at' = at /\ tally' = tally
    BY <2>1, TakeSomeAsks
  <2> QED
    BY <1>0, <2>2, <2>3 DEF NumbersTyped
<1>3. CASE AwaitsBody
  BY <1>0, <1>3 DEF AwaitsBody, Fail, NOT_ENOUGH_BYTES, NumbersTyped
<1>4. CASE OutOfMemory
  BY <1>0, <1>4 DEF OutOfMemory, MALLOC_FAIL, NumbersTyped
<1>5. CASE Corrupt
  BY <1>0, <1>5 DEF Corrupt, COMPRESSION_ERROR, NumbersTyped
<1>6. CASE Unwinds
  BY <1>0, <1>6 DEF Unwinds, NumbersTyped
<1>7. CASE Succeeds
  BY <1>0, <1>7 DEF Succeeds, SUCCESS, NumbersTyped
<1> QED
  BY <1>1, <1>2, <1>3, <1>4, <1>5, <1>6, <1>7 DEF Results

\* So does a step of one of the callers.
LEMMA CallersTyped ==
  ASSUME Typed, Callers
  PROVE  /\ NumbersTyped
         /\ UNCHANGED <<caller, message>>
         /\ phase' \in {"whole", "partial", "released", "aborted"}
<1>0. /\ pc \in {"idle", "reading", "cleanup", "returned"}
      /\ at \in 1..(Len(format.read) + 1) /\ scope \in Nat \ {0}
      /\ length \in Nat /\ index \in 0..length /\ tally \in Nat
      /\ inflated \in BOOLEAN /\ ret \in Int /\ Len(format.read) \in Nat
      /\ written \in Nat \ {0}
  BY NumbersNow
<1>1. phase \in {"whole", "partial", "released", "aborted"}
  BY DEF Typed, TypeOK
<1>2. CASE CallRead
  <2>1. /\ tally' = 0 /\ inflated' = FALSE /\ scope' = 1
        /\ pc' \in {"returned", "reading"} /\ at' \in {at, 1}
        /\ ret' \in {INVALID_PARAMETERS, SUCCESS}
        /\ UNCHANGED <<caller, message, phase, index, length>>
    BY <1>2 DEF CallRead
  <2>2. INVALID_PARAMETERS \in Int /\ SUCCESS \in Int
    BY DEF INVALID_PARAMETERS, SUCCESS
  <2>3. ret' \in Int
    BY <2>1, <2>2
  <2>4. at' \in 1..(Len(format.read) + 1) /\ scope' \in Nat \ {0}
    BY <1>0, <2>1
  <2>5. length' \in Nat /\ index' \in 0..length' /\ tally' \in Nat /\ inflated' \in BOOLEAN
    BY <1>0, <2>1
  <2>6. pc' \in {"idle", "reading", "cleanup", "returned"}
    BY <2>1
  <2>7. phase' \in {"whole", "partial", "released", "aborted"}
    BY <1>1, <2>1
  <2> QED
    BY <2>1, <2>3, <2>4, <2>5, <2>6, <2>7 DEF NumbersTyped
<1>3. CASE FinishWhole
  <2>1. /\ pc' = "idle" /\ phase' \in {"partial", "aborted"}
        /\ \/ index' = 0 /\ length' = 1
           \/ UNCHANGED <<index, length>>
        /\ UNCHANGED <<caller, message, at, scope, inflated, tally, ret>>
    BY <1>3 DEF FinishWhole
  <2>2. length' \in Nat /\ index' \in 0..length'
    BY <1>0, <2>1
  <2>3. /\ at' \in 1..(Len(format.read) + 1) /\ scope' \in Nat \ {0} /\ tally' \in Nat
        /\ inflated' \in BOOLEAN /\ ret' \in Int
    BY <1>0, <2>1
  <2>4. pc' \in {"idle", "reading", "cleanup", "returned"}
    BY <2>1
  <2>5. phase' \in {"whole", "partial", "released", "aborted"}
    BY <2>1
  <2> QED
    BY <2>1, <2>2, <2>3, <2>4, <2>5 DEF NumbersTyped
<1>4. CASE RetryExactly
  <2>1. /\ ret > 0 /\ index' = 0 /\ length' = length + ret /\ pc' = "idle"
        /\ phase' \in {"partial", "aborted"}
        /\ UNCHANGED <<caller, message, at, scope, inflated, tally, ret>>
    BY <1>4 DEF RetryExactly, NotEnoughBytes
  <2>2. length' \in Nat /\ index' \in 0..length'
    BY <1>0, <2>1
  <2>3. phase' \in {"whole", "partial", "released", "aborted"}
    BY <2>1
  <2> QED
    BY <1>0, <2>1, <2>2, <2>3 DEF NumbersTyped
<1>5. CASE ReceiveMore
  <2>1. PICK more \in 1..(written - length) : length' = length + more
    BY <1>5 DEF ReceiveMore
  <2>2. /\ index' = 0 /\ pc' = "idle"
        /\ UNCHANGED <<caller, message, phase, at, scope, inflated, tally, ret>>
    BY <1>5 DEF ReceiveMore
  <2> QED
    BY <1>0, <1>1, <2>1, <2>2 DEF NumbersTyped
<1>6. CASE AbortTest \/ GiveUp \/ ReleaseMessage
  <2>1. /\ phase' \in {"aborted", "released"}
        /\ UNCHANGED <<caller, message, pc, at, scope, index, length, inflated, tally, ret>>
    BY <1>6 DEF AbortTest, GiveUp, ReleaseMessage, reader
  <2> QED
    BY <1>0, <2>1 DEF NumbersTyped
<1> QED
  BY <1>2, <1>3, <1>4, <1>5, <1>6 DEF Callers

\* The types are inductive once the steps have them.
LEMMA TypedAgain ==
  ASSUME Typed, NumbersTyped, MemoryTyped, UNCHANGED <<caller, message>>,
         phase' \in {"whole", "partial", "released", "aborted"}
  PROVE  Typed'
<1>1. format' = format
  BY DEF format
<1>2. Slots' = Slots /\ TestedFields' = TestedFields
  BY <1>1 DEF Slots, TestedFields
<1>3. Chosen'
  BY DEF Typed, Chosen
<1>4. caller' \in Caller
  BY DEF Typed, TypeOK
<1>5. TypeOK'
  BY <1>1, <1>2, <1>4 DEF NumbersTyped, MemoryTyped, States, TypeOK
<1> QED
  BY <1>3, <1>5 DEF Typed

\* The types hold at the start.
LEMMA InitTyped ==
  ASSUME Init
  PROVE  Typed
<1>1. Chosen
  BY DEF Init, Chosen
<1>2. WellFormed(format)
  BY <1>1, FormatType
<1>3. Len(format.read) \in Nat /\ written \in Nat \ {0}
  BY <1>2 DEF WellFormed, written
<1>4. /\ caller \in Caller /\ pc = "idle" /\ at = 1 /\ scope = 1 /\ index = 0 /\ tally = 0
      /\ inflated = FALSE /\ ret = SUCCESS /\ wild = FALSE /\ leaked = FALSE
  BY DEF Init
<1>5. phase \in {"whole", "partial"} /\ length \in {0, written}
  BY DEF Init, InitTest, InitStream
<1>6. ptr \in [Slots -> {"garbage", "null", "live", "dangling"}]
  BY DEF Init, InitTest, InitStream
<1>7. fields \in [TestedFields -> SUBSET STRING]
  <2>1. Labels \in SUBSET STRING
    BY <1>1, LabelsType
  <2>2. \E held \in SUBSET STRING : fields = [f \in TestedFields |-> held]
    BY <2>1 DEF Init, InitTest, InitStream
  <2> QED
    BY <2>2
<1>8. TypeOK
  <2>1. caller \in Caller /\ pc \in {"idle", "reading", "cleanup", "returned"}
    BY <1>4
  <2>2. phase \in {"whole", "partial", "released", "aborted"}
    BY <1>5
  <2>3. at \in 1..(Len(format.read) + 1) /\ scope \in Nat \ {0}
    BY <1>3, <1>4
  <2>4. length \in Nat /\ index \in 0..length /\ tally \in Nat
    BY <1>3, <1>4, <1>5
  <2>5. inflated \in BOOLEAN /\ wild \in BOOLEAN /\ leaked \in BOOLEAN
    BY <1>4
  <2>6. ret \in Int
    BY <1>4 DEF SUCCESS
  <2> QED
    BY <2>1, <2>2, <2>3, <2>4, <2>5, <2>6, <1>6, <1>7 DEF TypeOK
<1> QED
  BY <1>1, <1>8 DEF Typed

\* Each step keeps them.
LEMMA NextTyped ==
  ASSUME Typed, Library \/ Callers
  PROVE  Typed'
<1>1. CASE Library
  <2>1. Results /\ UNCHANGED <<caller, message, phase, length>>
    BY <1>1, LibraryResults
  <2>2. NumbersTyped
    BY <2>1, ResultsTyped
  <2>3. MemoryTyped
    BY <1>1, LibraryMemory
  <2>4. phase' \in {"whole", "partial", "released", "aborted"}
    BY <2>1 DEF Typed, TypeOK
  <2> QED
    BY <2>1, <2>2, <2>3, <2>4, TypedAgain
<1>2. CASE Callers
  BY <1>2, CallersTyped, CallersMemory, TypedAgain
<1> QED
  BY <1>1, <1>2

\* A step that leaves the variables as they are keeps every invariant.
LEMMA TypedStutters == Typed /\ UNCHANGED vars => Typed'
BY DEF Typed, TypeOK, Chosen, Slots, TestedFields, format, vars, reader, object, history

\* For every catalogue that WorldFormat builds each variable keeps its type:
\* in particular no read function, whatever it is given, moves the reader
\* past the end of its buffer, and a step or a skip of an optional tail
\* never leads out of the function.
THEOREM TypeCorrect == Spec => []TypeOK
<1>1. Init => Typed
  BY InitTyped
<1>2. Typed /\ [Next]_vars => Typed'
  BY NextTyped, TypedStutters DEF Next, Finished
<1>3. Typed => TypeOK
  BY DEF Typed
<1> QED
  BY <1>1, <1>2, <1>3, PTL DEF Spec

-----------------------------------------------------------------------------
(***************************************************************************)
(* The steps that are left                                                 *)
(***************************************************************************)

\* What has arrived of a message is not longer than the message, and only a
\* step of the read function fails.
Bounded ==
  /\ Typed
  /\ phase = "partial" => length <= written
  /\ pc = "cleanup" => at \in DOMAIN format.read

\* The counts are natural numbers.
LEMMA LeftType ==
  ASSUME Bounded
  PROVE  BytesLeft \in Nat /\ StepsLeft \in Nat
<1>0. /\ at \in 1..(Len(format.read) + 1) /\ Len(format.read) \in Nat /\ scope \in Nat \ {0}
      /\ length \in Nat /\ written \in Nat
  BY NumbersNow DEF Bounded
<1>1. BytesLeft \in Nat
  BY <1>0 DEF Bounded, BytesLeft
<1>2. pc = "cleanup" => Len(step.cleanup) \in Nat
  BY StepType DEF Bounded, Typed
<1>3. StepsLeft \in Nat
  BY <1>0, <1>2 DEF StepsLeft
<1> QED
  BY <1>1, <1>3

\* The library keeps the rounds and the bytes, and leaves less of the call.
LEMMA LibraryCounts ==
  ASSUME Bounded, Typed', Library
  PROVE  LeavesLess /\ Bounded'
<1>0. /\ Results /\ UNCHANGED <<caller, message, phase, length>>
      /\ BytesLeft \in Nat /\ StepsLeft \in Nat
  BY LibraryResults, LeftType DEF Bounded
<1>1. /\ at \in 1..(Len(format.read) + 1) /\ Len(format.read) \in Nat /\ scope \in Nat \ {0}
      /\ at' \in 1..(Len(format'.read) + 1)
  BY NumbersNow DEF Bounded, Typed, TypeOK
<1>2. format' = format /\ written' = written
  BY <1>0 DEF format, written
<1>3. UNCHANGED <<RoundsLeft, BytesLeft>>
  BY <1>0, <1>2 DEF RoundsLeft, BytesLeft
<1>4. ASSUME pc' = "cleanup" => at' = at /\ at \in DOMAIN format.read,
             \/ CallLeft' < CallLeft
             \/ CallLeft' = CallLeft /\ StepsLeft' < StepsLeft
      PROVE  LeavesLess /\ Bounded'
  <2>1. LeavesLess
    BY <1>0, <1>3, <1>4 DEF LeavesLess
  <2>2. pc' = "cleanup" => at' \in DOMAIN format'.read
    BY <1>2, <1>4
  <2>3. phase' = "partial" => length' <= written'
    BY <1>0, <1>2 DEF Bounded
  <2> QED
    BY <2>1, <2>2, <2>3 DEF Bounded
<1>5. CASE Passes
  <2>1. pc = "reading" /\ pc' = "reading"
    BY <1>5 DEF Passes
  <2>2. CallLeft' = CallLeft
    BY <2>1 DEF CallLeft
  <2>3. at \in DOMAIN format.read
    BY <1>5 DEF Passes
  <2>4. at' = at + 1 + (IF step.kind = "test" /\ tally >= body_size THEN step.skip ELSE 0)
    BY <1>5 DEF Passes
  <2>5. step.skip \in 0..(Len(format.read) - at)
    BY <2>3, StepType DEF Bounded, Typed
  <2>6. at' > at
    BY <1>1, <2>4, <2>5
  <2>7. StepsLeft = Len(format.read) + 1 - at /\ StepsLeft' = Len(format.read) + 1 - at'
    BY <1>2, <2>1 DEF StepsLeft
  <2>8. StepsLeft' < StepsLeft
    BY <1>1, <1>2, <2>6, <2>7
  <2> QED
    BY <1>4, <2>1, <2>2, <2>8
<1>6. CASE RunsOut \/ AwaitsBody \/ OutOfMemory
  <2>1. pc = "reading" /\ pc' = "cleanup" /\ at' = at /\ at \in DOMAIN format.read
    BY <1>6 DEF RunsOut, TakeSome, AwaitsBody, Fail, OutOfMemory
  <2>2. CallLeft' < CallLeft
    BY <2>1 DEF CallLeft
  <2> QED
    BY <1>4, <2>1, <2>2
<1>7. CASE Corrupt \/ Succeeds
  <2>1. pc = "reading" /\ pc' = "returned"
    BY <1>7 DEF Corrupt, Succeeds
  <2>2. CallLeft' < CallLeft
    BY <2>1 DEF CallLeft
  <2> QED
    BY <1>4, <2>1, <2>2
<1>8. CASE Unwinds
  <2>1. pc = "cleanup" /\ at' = at /\ at \in DOMAIN format.read
    BY <1>8 DEF Unwinds, Bounded
  <2>2. CASE pc' = "cleanup" /\ scope <= Len(step.cleanup) /\ scope' = scope + 1
    <3>1. step' = step /\ Len(step.cleanup) \in Nat
      BY <1>2, <2>1, StepType DEF step, Bounded, Typed
    <3>2. CallLeft' = CallLeft
      BY <2>1, <2>2 DEF CallLeft
    <3>3. /\ StepsLeft = Len(step.cleanup) + 1 - scope
          /\ StepsLeft' = IF scope' <= Len(step.cleanup) THEN Len(step.cleanup) + 1 - scope' ELSE 0
      BY <2>1, <2>2, <3>1 DEF StepsLeft
    <3>4. \A n, k, l \in Int :
            k <= n /\ l = k + 1 => (IF l <= n THEN n + 1 - l ELSE 0) < n + 1 - k
      OBVIOUS
    <3>5. Len(step.cleanup) \in Int /\ scope \in Int /\ scope' \in Int
      BY <1>1, <2>2, <3>1
    <3>6. StepsLeft' < StepsLeft
      BY <2>2, <3>3, <3>4, <3>5
    <3> QED
      BY <1>4, <2>1, <3>2, <3>6
  <2>3. CASE pc' = "returned"
    <3>1. CallLeft' < CallLeft
      BY <2>1, <2>3 DEF CallLeft
    <3> QED
      BY <1>4, <2>3, <3>1
  <2> QED
    BY <1>8, <2>2, <2>3 DEF Unwinds
<1> QED
  BY <1>0, <1>5, <1>6, <1>7, <1>8 DEF Results

\* A caller calls, or makes the message longer, or comes to the next round.
LEMMA CallersCount ==
  ASSUME Bounded, Typed', Callers
  PROVE  LeavesLess /\ Bounded'
<1>0. /\ BytesLeft \in Nat /\ StepsLeft \in Nat
      /\ length \in Nat /\ written \in Nat \ {0} /\ ret \in Int
  BY LeftType, NumbersNow DEF Bounded
<1>1. UNCHANGED message
  BY CallersTyped DEF Bounded
<1>2. format' = format /\ written' = written
  BY <1>1 DEF format, written
<1>3. ASSUME RoundsLeft' < RoundsLeft, pc' # "cleanup" \/ UNCHANGED <<pc, at>>,
             phase' = "partial" => length' <= written
      PROVE  LeavesLess /\ Bounded'
  <2>1. LeavesLess
    BY <1>0, <1>3 DEF LeavesLess
  <2>2. pc' = "cleanup" => at' \in DOMAIN format'.read
    BY <1>2, <1>3 DEF Bounded
  <2> QED
    BY <1>2, <1>3, <2>1, <2>2 DEF Bounded
<1>4. CASE CallRead
  <2>1. UNCHANGED <<phase, length>> /\ pc = "idle" /\ pc' \in {"reading", "returned"}
    BY <1>4 DEF CallRead
  <2>2. CallLeft' < CallLeft
    BY <2>1 DEF CallLeft
  <2>3. UNCHANGED <<RoundsLeft, BytesLeft>>
    BY <1>2, <2>1 DEF RoundsLeft, BytesLeft
  <2>4. LeavesLess
    BY <1>0, <2>2, <2>3 DEF LeavesLess
  <2> QED
    BY <1>2, <2>1, <2>4 DEF Bounded
<1>5. CASE FinishWhole
  <2>1. /\ phase = "whole" /\ pc' = "idle"
        /\ (phase' = "partial" /\ length' = 1) \/ phase' = "aborted"
    BY <1>5 DEF FinishWhole
  <2>2. RoundsLeft' < RoundsLeft
    BY <2>1 DEF RoundsLeft
  <2>3. phase' = "partial" => length' <= written
    BY <1>0, <2>1
  <2> QED
    BY <1>3, <2>1, <2>2, <2>3
<1>6. CASE AbortTest \/ GiveUp \/ ReleaseMessage
  <2>1. phase = "partial" /\ phase' \in {"aborted", "released"} /\ UNCHANGED <<pc, at>>
    BY <1>6 DEF AbortTest, GiveUp, ReleaseMessage
  <2>2. RoundsLeft' < RoundsLeft
    BY <2>1 DEF RoundsLeft
  <2> QED
    BY <1>3, <2>1, <2>2
<1>7. ASSUME phase = "partial", phase' = "partial", pc' = "idle", NEW n \in Nat \ {0},
             length' = length + n, length' <= written
      PROVE  LeavesLess /\ Bounded'
  <2>1. UNCHANGED RoundsLeft
    BY <1>7 DEF RoundsLeft
  <2>2. BytesLeft' < BytesLeft
    BY <1>0, <1>2, <1>7 DEF BytesLeft
  <2>3. LeavesLess
    BY <1>0, <2>1, <2>2 DEF LeavesLess
  <2> QED
    BY <1>2, <1>7, <2>3 DEF Bounded
<1>8. CASE RetryExactly
  <2>1. /\ phase = "partial" /\ ret > 0 /\ length' = length + ret /\ pc' = "idle"
        /\ phase' = IF length' > written THEN "aborted" ELSE "partial"
    BY <1>8 DEF RetryExactly, NotEnoughBytes
  <2>2. CASE length' > written
    <3>1. phase' = "aborted"
      BY <2>1, <2>2
    <3>2. RoundsLeft' < RoundsLeft
      BY <2>1, <3>1 DEF RoundsLeft
    <3> QED
      BY <1>3, <2>1, <3>1, <3>2
  <2>3. CASE ~(length' > written)
    <3>1. ret \in Nat \ {0} /\ length' <= written
      BY <1>0, <2>1, <2>3
    <3> QED
      BY <1>7, <2>1, <2>3, <3>1
  <2> QED
    BY <2>2, <2>3
<1>9. CASE ReceiveMore
  <2>1. PICK more \in 1..(written - length) : length' = length + more
    BY <1>9 DEF ReceiveMore
  <2>2. phase = "partial" /\ phase' = "partial" /\ pc' = "idle"
    BY <1>9 DEF ReceiveMore, NotEnoughBytes
  <2>3. more \in Nat \ {0} /\ length' <= written
    BY <1>0, <2>1
  <2> QED
    BY <1>7, <2>1, <2>2, <2>3
<1> QED
  BY <1>4, <1>5, <1>6, <1>8, <1>9 DEF Callers

\* Every step of a read or of its caller, for every catalogue, whatever
\* allocation or decompression fails, brings the end of the message nearer:
\* the loop that retries with more bytes comes to an end.  This is the
\* safety part of EventuallyOver.
THEOREM RetriesEnd == Spec => EveryStepCounts
<1>1. Init => Bounded
  <2> SUFFICES ASSUME Init
               PROVE  Bounded
    OBVIOUS
  <2>1. Typed
    BY InitTyped
  <2>2. written \in Nat
    BY <2>1, NumbersNow
  <2>3. length \in {0, written} /\ pc = "idle"
    BY DEF Init, InitTest, InitStream
  <2> QED
    BY <2>1, <2>2, <2>3 DEF Bounded
<1>2. Bounded /\ [Next]_vars => Bounded' /\ (LeavesLess \/ UNCHANGED vars)
  <2> SUFFICES ASSUME Bounded, [Next]_vars
               PROVE  Bounded' /\ (LeavesLess \/ UNCHANGED vars)
    OBVIOUS
  <2>1. CASE Library \/ Callers
    BY <2>1, NextTyped, LibraryCounts, CallersCount DEF Bounded
  <2>2. CASE UNCHANGED vars
    <3>1. UNCHANGED <<message, phase, pc, at, length>>
      BY <2>2 DEF vars, reader
    <3>2. format' = format /\ written' = written
      BY <3>1 DEF format, written
    <3> QED
      BY <2>2, <3>1, <3>2, TypedStutters DEF Bounded
  <2> QED
    BY <2>1, <2>2 DEF Next, Finished
<1>3. Bounded /\ [Next]_vars => [LeavesLess]_vars
  BY <1>2
<1> QED
  BY <1>1, <1>2, <1>3, PTL DEF Spec, EveryStepCounts

-----------------------------------------------------------------------------
(***************************************************************************)
(* The bytes a read asks for                                               *)
(***************************************************************************)

\* The path of the message under way
LEMMA PathHere ==
  ASSUME Chosen
  PROVE  Layout(format, Path(format))
BY WorldLayoutAssumption DEF Chosen, format

\* The layout at the step that is next
LEMMA PointHere ==
  ASSUME Chosen, at \in DOMAIN Path(format), at \in DOMAIN format.read
  PROVE  LET next == at + 1 + Skipped(format, step, point)
         IN /\ Sound(format, step, point)
            /\ next \in DOMAIN Path(format) /\ Path(format)[next] = After(step, point)
<1>1. Layout(format, Path(format))
  BY PathHere
<1>2. at # Behind(format)
  BY StepType DEF Behind
<1> QED
  BY <1>1, <1>2 DEF Layout, step, point

\* The numbers of a point
LEMMA PointType ==
  ASSUME Chosen, at \in DOMAIN Path(format)
  PROVE  /\ point.offset \in Nat /\ point.tally \in Nat /\ point.inflated \in BOOLEAN
         /\ point.offset <= written
<1>1. point \in Points /\ point.offset <= written
  BY PathHere DEF Layout, point, written
<1> QED
  BY <1>1 DEF Points

\* What the checks of a step add up to is the same for the path.
LEMMA SameSize == SizeOf(step) = Size
BY DEF SizeOf, Size

\* A step that passes leads to the next step of the path.
LEMMA PassesTo ==
  ASSUME Typed, OnPath, Passes
  PROVE  at' = at + 1 + Skipped(format, step, point)
<1>1. at \in DOMAIN Path(format) /\ at \in DOMAIN format.read /\ Chosen
  BY DEF OnPath, Passes, Typed
<1>2. Sound(format, step, point)
  BY <1>1, PointHere
<1>3. index = point.offset /\ tally = point.tally /\ inflated = point.inflated
  BY DEF OnPath
<1>4. /\ point.offset \in Nat /\ point.tally \in Nat /\ point.offset <= written
      /\ written \in Nat /\ format.opcode \in Nat /\ at \in Nat
  BY <1>1, PointType, NumbersNow
<1>5. at' = at + 1 + (IF step.kind = "test" /\ tally >= body_size THEN step.skip ELSE 0)
  BY DEF Passes
<1>6. CASE step.kind = "test"
  <2>1. LooksAtSize(step)
    BY <1>6 DEF LooksAtSize
  <2>2. point.tally = point.offset - 2 - format.opcode
    BY <1>2, <2>1 DEF Sound
  <2>3. tally >= body_size <=> point.offset = format.written
    BY <1>3, <1>4, <2>2 DEF body_size, written
  <2> QED
    BY <1>5, <1>6, <2>3 DEF Skipped
<1>7. CASE step.kind # "test"
  BY <1>5, <1>7 DEF Skipped
<1> QED
  BY <1>6, <1>7

\* It leads to the next point of the path.
LEMMA PassesOnPath ==
  ASSUME Typed, OnPath, Passes, UNCHANGED message
  PROVE  OnPath'
<1>1. at \in DOMAIN Path(format) /\ at \in DOMAIN format.read /\ Chosen
  BY DEF OnPath, Passes, Typed
<1> DEFINE next == at + 1 + Skipped(format, step, point)
<1>2. /\ Sound(format, step, point)
      /\ next \in DOMAIN Path(format) /\ Path(format)[next] = After(step, point)
  BY <1>1, PointHere
<1>3. format' = format
  BY DEF format
<1>4. index = point.offset /\ tally = point.tally /\ inflated = point.inflated
  BY DEF OnPath
<1>5. /\ point.offset \in Nat /\ point.tally \in Nat /\ point.offset <= written
      /\ written \in Nat /\ format.opcode \in Nat /\ at \in Nat
  BY <1>1, PointType, NumbersNow
<1>6. at' = next
  BY PassesTo
<1>7. point' = After(step, point)
  BY <1>2, <1>3, <1>6 DEF point
<1>8. index' = After(step, point).offset
  <2>1. index' = index + (IF Consumes(step) THEN Taken ELSE 0)
    BY DEF Passes
  <2>2. After(step, point).offset
          = point.offset + (IF Consumes(step) /\ ~point.inflated THEN SizeOf(step) ELSE 0)
    BY DEF After
  <2>3. Taken = (IF inflated THEN 0 ELSE SizeOf(step))
    BY SameSize DEF Taken
  <2> QED
    BY <1>4, <2>1, <2>2, <2>3
<1>9. tally' = After(step, point).tally
  <2>1. tally' = tally + (IF step.kind = "test" THEN 0 ELSE step.tally)
    BY DEF Passes
  <2>2. After(step, point).tally = point.tally + (IF step.kind = "test" THEN 0 ELSE step.tally)
    BY DEF After
  <2> QED
    BY <1>4, <2>1, <2>2
<1>10. inflated' = After(step, point).inflated
  <2>1. inflated' = (inflated \/ TurnsInflated(step))
    BY DEF Passes
  <2>2. After(step, point).inflated = (point.inflated \/ TurnsInflated(step))
    BY DEF After
  <2> QED
    BY <1>4, <2>1, <2>2, Zenon
<1> QED
  BY <1>2, <1>3, <1>6, <1>7, <1>8, <1>9, <1>10 DEF OnPath

\* What a failed check misses is still to come.
LEMMA RunsOutAsks ==
  ASSUME Typed, OnPath, RunsOut
  PROVE  pc' = "cleanup" /\ ret' \in Int /\ ret' > 0 /\ length + ret' <= written
<1>1. at \in DOMAIN format.read /\ at \in DOMAIN Path(format) /\ TakeSome /\ Chosen
  BY DEF OnPath, RunsOut, Typed
<1>2. Checks(step)
  BY DEF RunsOut
<1>3. ~inflated /\ ret' \in Int /\ ret' > 0 /\ length + ret' <= index + Size /\ pc' = "cleanup"
  BY <1>1, TakeSomeAsks
<1>4. Sound(format, step, point)
  BY <1>1, PointHere
<1>5. index = point.offset /\ inflated = point.inflated
  BY DEF OnPath
<1>6. point.offset + SizeOf(step) <= written
  BY <1>2, <1>3, <1>4, <1>5 DEF Sound, written
<1>7. Size \in Nat /\ index \in Nat /\ written \in Nat /\ length \in Nat
  BY <1>1, SizeType, NumbersNow
<1>8. index + Size <= written
  BY <1>5, <1>6, SameSize
<1>9. ret' \in Int /\ ret' > 0 /\ length + ret' <= index + Size
  BY <1>3
<1>10. \A a, b, c \in Int : a <= b /\ b <= c => a <= c
  OBVIOUS
<1>11. length + ret' \in Int /\ index + Size \in Int /\ written \in Int
  BY <1>7, <1>9
<1>12. length + ret' <= written
  BY <1>8, <1>9, <1>10, <1>11
<1> QED
  BY <1>3, <1>12

\* A body that has not arrived misses at least a byte.
LEMMA AwaitsBodyAsks ==
  ASSUME Typed, OnPath, AwaitsBody
  PROVE  pc' = "cleanup" /\ ret' = 1 /\ length + ret' <= written
<1>1. at \in DOMAIN format.read /\ at \in DOMAIN Path(format) /\ Chosen
  BY DEF OnPath, AwaitsBody, Typed
<1>2. LooksAtSize(step)
  BY DEF AwaitsBody
<1>3. pc' = "cleanup" /\ ret' = 1 /\ ~Awaited
  BY DEF AwaitsBody, Fail, NOT_ENOUGH_BYTES
<1>4. Sound(format, step, point)
  BY <1>1, PointHere
<1>5. index = point.offset /\ tally = point.tally
  BY DEF OnPath
<1>6. tally = index - 2 - format.opcode
  BY <1>2, <1>4, <1>5 DEF Sound
<1>7. index \in Nat /\ written \in Nat /\ length \in Nat /\ format.opcode \in Nat
  BY NumbersNow
<1> QED
  BY <1>3, <1>6, <1>7 DEF Awaited, body_size

\* The library keeps AsksInv.
LEMMA LibraryAsks ==
  ASSUME AsksInv, Typed', Results, UNCHANGED <<caller, message, phase, length>>
  PROVE  AsksInv'
<1>0. /\ Typed /\ length <= written
      /\ pc = "reading" => OnPath
      /\ pc \in {"cleanup", "returned"} /\ ret > 0 => length + ret <= written
  BY DEF AsksInv
<1>1. written' = written /\ length' = length
  BY DEF written, format
<1>2. ASSUME pc' \in {"cleanup", "returned"}, ret' > 0 => length + ret' <= written
      PROVE  AsksInv'
  BY <1>0, <1>1, <1>2 DEF AsksInv
<1>3. CASE Passes
  <2>1. pc = "reading" /\ pc' = "reading"
    BY <1>3 DEF Passes
  <2>2. OnPath'
    BY <1>0, <1>3, <2>1, PassesOnPath
  <2> QED
    BY <1>0, <1>1, <2>1, <2>2 DEF AsksInv
<1>4. CASE RunsOut
  <2>1. pc = "reading"
    BY <1>4 DEF RunsOut
  <2> QED
    BY <1>0, <1>2, <1>4, <2>1, RunsOutAsks
<1>5. CASE AwaitsBody
  <2>1. pc = "reading"
    BY <1>5 DEF AwaitsBody
  <2> QED
    BY <1>0, <1>2, <1>5, <2>1, AwaitsBodyAsks
<1>6. CASE OutOfMemory
  <2>1. pc' = "cleanup" /\ ret' = -2
    BY <1>6 DEF OutOfMemory, MALLOC_FAIL
  <2> QED
    BY <1>2, <2>1
<1>7. CASE Corrupt
  <2>1. pc' = "returned" /\ ret' = -3
    BY <1>7 DEF Corrupt, COMPRESSION_ERROR
  <2> QED
    BY <1>2, <2>1
<1>8. CASE Unwinds
  <2>1. pc = "cleanup" /\ pc' \in {"cleanup", "returned"} /\ ret' = ret
    BY <1>8 DEF Unwinds
  <2> QED
    BY <1>0, <1>2, <2>1
<1>9. CASE Succeeds
  <2>1. pc' = "returned" /\ ret' = 0
    BY <1>9 DEF Succeeds, SUCCESS
  <2> QED
    BY <1>2, <2>1
<1> QED
  BY <1>3, <1>4, <1>5, <1>6, <1>7, <1>8, <1>9 DEF Results

\* So do the callers.
LEMMA CallersAsk ==
  ASSUME AsksInv, Typed', Callers
  PROVE  AsksInv'
<1>0. /\ Typed /\ length <= written
      /\ pc = "idle" /\ phase \in {"whole", "partial"} => index = 0
      /\ pc \in {"cleanup", "returned"} /\ ret > 0 => length + ret <= written
  BY DEF AsksInv
<1>1. message' = message
  BY <1>0, CallersTyped
<1>2. written' = written /\ format' = format
  BY <1>1 DEF written, format
<1>3. written \in Nat \ {0} /\ length \in Nat /\ index \in 0..length /\ ret \in Int
  BY <1>0, NumbersNow
<1>4. CASE CallRead
  <2>1. index = 0
    BY <1>0, <1>4 DEF CallRead
  <2>2. pc' = "reading" /\ at' = 1 /\ tally' = 0 /\ inflated' = FALSE /\ index' = 0 /\ length' = length
    BY <1>3, <1>4, <2>1 DEF CallRead
  <2>3. 1 \in DOMAIN Path(format) /\ Path(format)[1] = [offset |-> 0, tally |-> 0, inflated |-> FALSE]
    BY <1>0, PathHere DEF Layout, Typed
  <2>4. point' = Path(format)[1]
    BY <1>2, <2>2 DEF point
  <2>5. at' \in DOMAIN Path(format')
    BY <1>2, <2>2, <2>3
  <2>6. point'.offset = 0 /\ point'.tally = 0 /\ point'.inflated = FALSE
    BY <2>3, <2>4
  <2>7. OnPath'
    BY <2>2, <2>5, <2>6 DEF OnPath
  <2> QED
    BY <1>0, <1>2, <2>2, <2>7 DEF AsksInv
<1>5. CASE FinishWhole
  <2>1. /\ pc' = "idle"
        /\ \/ index' = 0 /\ length' = 1
           \/ phase' = "aborted" /\ UNCHANGED <<index, length>>
    BY <1>5 DEF FinishWhole
  <2>2. length' <= written'
    BY <1>0, <1>2, <1>3, <2>1
  <2> QED
    BY <2>1, <2>2 DEF AsksInv
<1>6. CASE RetryExactly \/ ReceiveMore
  <2>1. index' = 0 /\ pc' = "idle"
    BY <1>6 DEF RetryExactly, ReceiveMore
  <2>2. length' <= written
    <3>1. CASE RetryExactly
      <4>1. pc = "returned" /\ ret > 0 /\ length' = length + ret
        BY <3>1 DEF RetryExactly, NotEnoughBytes
      <4> QED
        BY <1>0, <4>1
    <3>2. CASE ReceiveMore
      <4>1. PICK more \in 1..(written - length) : length' = length + more
        BY <3>2 DEF ReceiveMore
      <4> QED
        BY <1>3, <4>1
    <3> QED
      BY <1>6, <3>1, <3>2
  <2> QED
    BY <1>2, <2>1, <2>2 DEF AsksInv
<1>7. CASE AbortTest \/ GiveUp \/ ReleaseMessage
  <2>1. pc = "returned" /\ pc' = "returned" /\ ret' = ret /\ length' = length
    BY <1>7 DEF AbortTest, GiveUp, ReleaseMessage, reader
  <2> QED
    BY <1>0, <1>2, <2>1 DEF AsksInv
<1> QED
  BY <1>4, <1>5, <1>6, <1>7 DEF Callers

\* AsksInv holds at the start.
LEMMA InitAsks == Init => AsksInv
<1> SUFFICES ASSUME Init
             PROVE  AsksInv
  OBVIOUS
<1>1. Typed
  BY InitTyped
<1>2. pc = "idle" /\ index = 0 /\ length \in {0, written}
  BY DEF Init, InitTest, InitStream
<1>3. length <= written
  BY <1>1, <1>2, NumbersNow
<1> QED
  BY <1>1, <1>2, <1>3 DEF AsksInv

\* Every step keeps it.
LEMMA NextAsks == AsksInv /\ [Next]_vars => AsksInv'
<1> SUFFICES ASSUME AsksInv, [Next]_vars
             PROVE  AsksInv'
  OBVIOUS
<1>1. Typed
  BY DEF AsksInv
<1>2. CASE Library
  <2>1. Results /\ UNCHANGED <<caller, message, phase, length>>
    BY <1>1, <1>2, LibraryResults
  <2> QED
    BY <1>1, <1>2, <2>1, NextTyped, LibraryAsks
<1>3. CASE Callers
  BY <1>1, <1>3, NextTyped, CallersAsk
<1>4. CASE UNCHANGED vars
  <2>1. UNCHANGED <<message, phase, pc, at, index, length, tally, inflated, ret>>
    BY <1>4 DEF vars, reader
  <2>2. format' = format
    BY <2>1 DEF format
  <2>3. Typed'
    BY <1>1, <1>4, TypedStutters
  <2> QED
    BY <2>1, <2>2, <2>3 DEF AsksInv, OnPath, point, written
<1> QED
  BY <1>2, <1>3, <1>4 DEF Next, Finished

\* The inductive invariant: the buffer never holds more than the message,
\* and while it reads the function is at a point of the message's path.
THEOREM ReadsOnPath == Spec => []AsksInv
<1> QED
  BY InitAsks, NextAsks, PTL DEF Spec

\* A caller who waits for exactly the bytes that a read asks for, and calls
\* it again, never waits for bytes of a message that was not sent.
THEOREM AsksForTheMessage == Spec => []NeverOverAsks
<1>1. AsksInv => NeverOverAsks
  BY DEF AsksInv, NeverOverAsks
<1> QED
  BY <1>1, ReadsOnPath, PTL
=============================================================================
