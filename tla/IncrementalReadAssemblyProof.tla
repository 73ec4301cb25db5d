-------------------- MODULE IncrementalReadAssemblyProof --------------------
(***************************************************************************)
(* IncrementalRead implements the safety part of MessageAssembly, for      *)
(* every catalogue whose messages have a layout: whatever a read does on   *)
(* the way, what its caller sees is a message of which more and more has   *)
(* arrived, which is complete when all of it has, and which is given up    *)
(* only when memory has run out.                                           *)
(***************************************************************************)
EXTENDS IncrementalReadProof

\* The first read of the test is given the whole message.
WholeAtFirst == phase = "whole" => caller = "test" /\ length = written

\* No read fails for good but for memory.
FailsForMemory == pc \in {"cleanup", "returned"} /\ ret < 0 => AllocMayFail

AssemblyInv == ProtocolInv /\ WholeAtFirst /\ FailsForMemory

\* A step that fails with a negative result has failed to allocate.
LEMMA StepFailsForMemory ==
  ASSUME ProtocolInv, StepActions, pc' # "reading", ret' < 0
  PROVE  AllocMayFail
<1>0. /\ pc = "reading" /\ op \in DOMAIN message.read
      /\ index \in Nat /\ length \in Nat
      /\ message \in Catalogue
  BY StepEnds DEF ProtocolInv, Typed, TypeOK
<1>1. step.n \in Nat /\ step.count \in Nat /\ step.count * step.n \in Nat
  BY <1>0, StepType, ProductType
<1>2. ASSUME NEW n \in Nat, ~Enough(n)
      PROVE  Missing(n) \in Nat \ {0}
  BY <1>0, <1>2 DEF Enough, Missing
<1>3. CASE ReadHeader
  BY <1>0, <1>1, <1>2, <1>3 DEF ReadHeader, Advance
<1>4. CASE CheckMinimum
  BY <1>0, <1>1, <1>2, <1>4 DEF CheckMinimum, Advance, FailWith
<1>5. CASE NullPointers
  BY <1>0, <1>5 DEF NullPointers, Advance
<1>6. CASE ReadInt
  <2>1. ~TakeAll /\ TakeSome
    BY <1>0, <1>6 DEF ReadInt, Advance
  <2> QED
    BY <1>0, <1>1, <2>1, TakeSomeType
<1>7. CASE ReadField
  <2>1. ~TakeAll /\ TakeSome
    BY <1>0, <1>7 DEF ReadField, Advance
  <2> QED
    BY <1>0, <1>1, <2>1, TakeSomeType
<1>8. ASSUME NEW n \in Nat, Allocate(n)
      PROVE  AllocMayFail
  BY <1>0, <1>8 DEF Allocate, Advance
<1>9. CASE ReadString
  <2>1. 1 + step.n \in Nat /\ 1 \in Nat
    BY <1>1
  <2>2. CASE ~Enough(1) /\ FailWith(Missing(1), index)
    BY <1>2, <2>1, <2>2 DEF FailWith
  <2>3. CASE ~Enough(1 + step.n) /\ FailWith(Missing(1 + step.n), index + 1)
    BY <1>2, <2>1, <2>3 DEF FailWith
  <2>4. CASE Allocate(1 + step.n)
    BY <1>8, <2>1, <2>4
  <2> QED
    BY <1>9, <2>2, <2>3, <2>4 DEF ReadString
<1>10. CASE ReadCstring
  <2>1. CASE TakeAll
    BY <1>1, <1>8, <1>10, <2>1 DEF ReadCstring
  <2>2. CASE ~TakeAll
    BY <1>0, <1>1, <1>10, <2>2, TakeSomeType DEF ReadCstring
  <2> QED
    BY <2>1, <2>2
<1>11. CASE AllocArray
  BY <1>0, <1>11 DEF AllocArray, Advance
<1> QED
  BY <1>3, <1>4, <1>5, <1>6, <1>7, <1>9, <1>10, <1>11 DEF StepActions

\* Every step of the read function keeps the invariant.
LEMMA LibraryAssembly == AssemblyInv /\ Library => AssemblyInv'
<1> SUFFICES ASSUME AssemblyInv, Library
             PROVE  AssemblyInv'
  OBVIOUS
<1>1. ProtocolInv'
  BY ProtocolLibrary DEF AssemblyInv
<1>2. CASE StepActions
  <2>1. Continues \/ Fails
    BY <1>2, StepEnds DEF AssemblyInv
  <2>2. UNCHANGED <<caller, message, phase, length>>
    BY <1>2, StepEnds DEF AssemblyInv
  <2>3. WholeAtFirst'
    BY <2>2 DEF AssemblyInv, WholeAtFirst, written
  <2>4. FailsForMemory'
    BY <1>2, <2>1, StepFailsForMemory DEF AssemblyInv, FailsForMemory
  <2> QED
    BY <1>1, <2>3, <2>4 DEF AssemblyInv
<1>3. CASE Cleanup
  BY <1>1, <1>3 DEF Cleanup, AssemblyInv, WholeAtFirst, FailsForMemory, written
<1>4. CASE Succeed
  BY <1>1, <1>4 DEF Succeed, SUCCESS, AssemblyInv, WholeAtFirst, FailsForMemory, written
<1> QED
  BY <1>2, <1>3, <1>4 DEF Library, StepActions

\* Every step of a caller keeps the invariant.
LEMMA CallersAssembly == AssemblyInv /\ Callers => AssemblyInv'
<1> SUFFICES ASSUME AssemblyInv, Callers
             PROVE  AssemblyInv'
  OBVIOUS
<1>1. ProtocolInv'
  BY ProtocolCallers DEF AssemblyInv
<1> USE DEF AssemblyInv, WholeAtFirst, FailsForMemory, written
<1>2. CASE CallRead
  <2>1. ~(index > length)
    BY <1>2 DEF CallRead, ProtocolInv, AtStart, Typed, TypeOK
  <2> QED
    BY <1>1, <1>2, <2>1 DEF CallRead
<1>3. CASE FinishWhole
  BY <1>1, <1>3 DEF FinishWhole
<1>4. CASE RetryExactly
  BY <1>1, <1>4 DEF RetryExactly, NotEnoughBytes
<1>5. CASE ReceiveMore
  BY <1>1, <1>5 DEF ReceiveMore, NotEnoughBytes
<1>6. CASE AbortTest
  BY <1>1, <1>6 DEF AbortTest
<1>7. CASE GiveUp
  BY <1>1, <1>7 DEF GiveUp
<1>8. CASE Release
  BY <1>1, <1>8 DEF Release
<1> QED
  BY <1>2, <1>3, <1>4, <1>5, <1>6, <1>7, <1>8 DEF Callers

\* The invariant holds in every reachable state.
LEMMA AssemblyInvariant == Spec => []AssemblyInv
<1>1. Init => AssemblyInv
  BY ProtocolInit DEF Init, InitTest, InitStream, AssemblyInv, WholeAtFirst, FailsForMemory
<1>2. AssemblyInv /\ [Next]_vars => AssemblyInv'
  <2>1. AssemblyInv /\ (Finished \/ UNCHANGED vars) => AssemblyInv'
    BY DEF AssemblyInv, WholeAtFirst, FailsForMemory, ProtocolInv, Typed, TypeOK, AtStep,
           AtStart, NoForeignBytes, NeverTooMuch, CleanupIsFailure, SuccessMeansComplete,
           Finished, vars, written
  <2> QED
    BY <2>1, LibraryAssembly, CallersAssembly DEF Next
<1> QED
  BY <1>1, <1>2, PTL DEF Spec

-----------------------------------------------------------------------------
(***************************************************************************)
(* The refinement mapping of Assembly, step by step                        *)
(***************************************************************************)

\* What MessageAssembly calls received and status.
receivedBar == IF phase = "aborted" THEN 0 ELSE IF phase = "whole" THEN 1 ELSE length
statusBar ==
  IF phase = "aborted" THEN "failed"
  ELSE IF phase = "released" \/ (phase = "partial" /\ pc = "returned" /\ ret = SUCCESS)
    THEN "complete"
  ELSE "waiting"

\* The end of a read that succeeds completes the message; all else that the
\* library does is hidden.
LEMMA LibraryImplements ==
  ASSUME AssemblyInv, AssemblyInv', Library
  PROVE  Assembly!Complete \/ UNCHANGED Assembly!vars
<1>1. UNCHANGED <<written, receivedBar>> /\ phase' = phase
  BY DEF Library, ReadHeader, CheckMinimum, NullPointers, ReadInt, ReadField, ReadString,
         ReadCstring, AllocArray, Cleanup, Succeed, written, receivedBar
<1>2. pc \in {"reading", "cleanup"}
  BY DEF Library, ReadHeader, CheckMinimum, NullPointers, ReadInt, ReadField, ReadString,
         ReadCstring, AllocArray, Cleanup, Succeed, Reading
<1>3. CASE statusBar' = statusBar
  BY <1>1, <1>3 DEF Assembly!vars, receivedBar, statusBar
<1>4. CASE statusBar' # statusBar
  <2>1. /\ phase = "partial" /\ pc' = "returned" /\ ret' = SUCCESS
        /\ statusBar = "waiting" /\ statusBar' = "complete"
    BY <1>1, <1>2, <1>4 DEF statusBar
  <2>2. receivedBar = written
    BY <1>1, <2>1 DEF AssemblyInv, ProtocolInv, SuccessMeansComplete, receivedBar
  <2> QED
    BY <1>1, <2>1, <2>2 DEF Assembly!Complete, receivedBar, statusBar
<1> QED
  BY <1>3, <1>4

\* A caller that enlarges the buffer makes some of the message arrive, one
\* that gives up has run out of memory.
LEMMA CallersImplement ==
  ASSUME AssemblyInv, AssemblyInv', Callers
  PROVE  Assembly!Arrive \/ Assembly!Fail \/ UNCHANGED Assembly!vars
<1>0. /\ UNCHANGED <<message, written>>
      /\ length \in Nat /\ index \in Nat /\ ret \in Int /\ written \in Nat \ {0}
      /\ length <= written
  BY CatalogueAssumption
     DEF Callers, CallRead, FinishWhole, RetryExactly, ReceiveMore, AbortTest, GiveUp,
         Release, AssemblyInv, ProtocolInv, Typed, TypeOK, NoForeignBytes, written
<1> HIDE DEF written
<1> USE <1>0 DEF Assembly!Arrive, Assembly!Fail, Assembly!vars, SUCCESS
<1>1. CASE CallRead
  <2>1. pc' # "returned" /\ pc = "idle" /\ UNCHANGED <<phase, length>>
    BY <1>1 DEF CallRead, AssemblyInv, ProtocolInv, AtStart
  <2> QED
    BY <2>1
<1>2. CASE FinishWhole
  <2>1. CASE ret = SUCCESS
    BY <1>2, <2>1 DEF FinishWhole
  <2>2. CASE ret # SUCCESS
    <3>1. ret < 0
      BY <1>2, <2>2 DEF FinishWhole, AssemblyInv, ProtocolInv, NeverTooMuch, WholeAtFirst
    <3>2. AllocMayFail
      BY <1>2, <3>1 DEF FinishWhole, AssemblyInv, FailsForMemory
    <3> QED
      BY <1>2, <2>2, <3>2 DEF FinishWhole
  <2> QED
    BY <2>1, <2>2
<1>3. CASE RetryExactly
  <2>1. ret > 0 /\ length + ret <= written /\ phase = "partial" /\ pc = "returned"
    BY <1>3 DEF RetryExactly, NotEnoughBytes, AssemblyInv, ProtocolInv, NeverTooMuch
  <2>2. phase' = "partial" /\ length' = length + ret /\ pc' = "idle"
    BY <1>3, <2>1 DEF RetryExactly
  <2>3. ret \in 1..(written - length)
    BY <2>1
  <2> QED
    BY <2>1, <2>2, <2>3
<1>4. CASE ReceiveMore
  BY <1>4 DEF ReceiveMore, NotEnoughBytes
<1>5. CASE AbortTest
  <2>1. AllocMayFail
    BY <1>5 DEF AbortTest, AssemblyInv, FailsForMemory
  <2> QED
    BY <1>5, <2>1 DEF AbortTest
<1>6. CASE GiveUp
  <2>1. AllocMayFail
    BY <1>6 DEF GiveUp, AssemblyInv, FailsForMemory
  <2> QED
    BY <1>6, <2>1 DEF GiveUp
<1>7. CASE Release
  BY <1>7 DEF Release
<1> QED
  BY <1>1, <1>2, <1>3, <1>4, <1>5, <1>6, <1>7 DEF Callers

\* The reads of a message implement its assembly, for every catalogue with a
\* layout: no attempt completes a message of which a byte is missing or of
\* which more has been taken, none fails that has the memory it needs, and a
\* retry never adds bytes that are not part of the message.
THEOREM AssemblesMessages == Spec => Assembly!Spec
<1>1. Init => Assembly!Init
  <2> SUFFICES ASSUME Init
               PROVE  Assembly!Init
    OBVIOUS
  <2>1. written \in {m.written : m \in Catalogue}
    BY DEF Init, written
  <2>2. pc = "idle" /\ ((phase = "whole") \/ (phase = "partial" /\ length = 0))
    BY DEF Init, InitTest, InitStream
  <2> QED
    BY <2>1, <2>2 DEF Assembly!Init
<1>2. AssemblyInv /\ AssemblyInv' /\ [Next]_vars => [Assembly!Next]_(Assembly!vars)
  <2>1. (Finished \/ UNCHANGED vars) => UNCHANGED Assembly!vars
    BY DEF Finished, vars, Assembly!vars, written
  <2> QED
    BY <2>1, LibraryImplements, CallersImplement DEF Next, Assembly!Next
<1> QED
  BY <1>1, <1>2, AssemblyInvariant, PTL DEF Spec, Assembly!Spec
=============================================================================
