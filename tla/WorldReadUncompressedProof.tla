--------------------- MODULE WorldReadUncompressedProof ---------------------
(***************************************************************************)
(* Theorems about WorldRead that hold of messages without a compressed     *)
(* part only, for every catalogue of them, both callers, any cut of the    *)
(* message into pieces and any failing allocation: the bytes a read has    *)
(* consumed when it succeeds, what it may return, that no memory is lost,  *)
(* and that the reads and their callers implement MessageAssembly.         *)
(*                                                                         *)
(* A compressed part is what the inflater takes, and the index of the      *)
(* reader is then not where the message ends; the buffer it is inflated    *)
(* into is a local variable, which a failure loses.                        *)
(***************************************************************************)
EXTENDS WorldReadMemoryProof

\* All of the message is read by the steps, none of it by the inflater into
\* a buffer of its own.
Uncompressed(m, path) ==
  /\ m.slots \intersect Local = {}
  /\ Behind(m) \in DOMAIN path => path[Behind(m)].offset = m.written
  /\ \A k \in DOMAIN m.read : m.read[k].kind # "inflate"

ASSUME UncompressedAssumption ==
  \A group \in DOMAIN Catalogue : \A name \in DOMAIN Catalogue[group] :
    \A wire \in DOMAIN Catalogue[group][name] :
      Uncompressed(Catalogue[group][name][wire], Path(Catalogue[group][name][wire]))

\* The results of a read, whichever way it ends.
ResultInv ==
  /\ AsksInv
  /\ pc = "cleanup" => ret # SUCCESS
  /\ pc = "returned" /\ ret = SUCCESS => index = written /\ length = written
  /\ pc \in {"cleanup", "returned"} /\ ~AllocMayFail => ret >= 0

-----------------------------------------------------------------------------
(***************************************************************************)
(* The results                                                             *)
(***************************************************************************)

\* The message under way is not compressed.
LEMMA UncompressedHere ==
  ASSUME Chosen
  PROVE  Uncompressed(format, Path(format))
BY UncompressedAssumption DEF Chosen, format

\* At the end of the read function the whole message has been read.
LEMMA SucceedsWhole ==
  ASSUME AsksInv, Succeeds
  PROVE  index = written /\ length = written
<1>1. Typed /\ OnPath /\ length <= written /\ Chosen
  BY DEF AsksInv, Succeeds, Typed
<1>2. at > Len(format.read)
  BY DEF Succeeds
<1>3. Len(format.read) \in Nat /\ at \in 1..(Len(format.read) + 1)
  BY <1>1, NumbersNow
<1>4. at = Behind(format)
  BY <1>2, <1>3 DEF Behind
<1>5. point.offset = written
  BY <1>1, <1>4, UncompressedHere DEF OnPath, Uncompressed, point, written
<1>6. index = written
  BY <1>1, <1>5 DEF OnPath
<1>7. length \in Nat /\ index \in 0..length /\ written \in Nat
  BY <1>1, NumbersNow
<1> QED
  BY <1>1, <1>6, <1>7

\* The library keeps ResultInv.
LEMMA LibraryResult ==
  ASSUME ResultInv, AsksInv', Results, UNCHANGED <<caller, message, phase, length>>
  PROVE  ResultInv'
<1>0. /\ AsksInv /\ Typed
      /\ pc = "cleanup" => ret # SUCCESS
      /\ pc \in {"cleanup", "returned"} /\ ~AllocMayFail => ret >= 0
  BY DEF ResultInv, AsksInv
<1>1. written' = written
  BY DEF written, format
<1>2. ASSUME pc' \in {"cleanup", "returned"}, ret' # SUCCESS, AllocMayFail \/ ret' >= 0
      PROVE  ResultInv'
  BY <1>2 DEF ResultInv
<1>3. CASE Passes
  <2>1. pc' = "reading"
    BY <1>3 DEF Passes
  <2> QED
    BY <2>1 DEF ResultInv
<1>4. CASE RunsOut
  <2>1. pc = "reading"
    BY <1>4 DEF RunsOut
  <2>2. OnPath
    BY <1>0, <2>1 DEF AsksInv
  <2>3. pc' = "cleanup" /\ ret' \in Int /\ ret' > 0
    BY <1>0, <1>4, <2>2, RunsOutAsks
  <2>4. ret' # SUCCESS /\ ret' >= 0
    BY <2>3 DEF SUCCESS
  <2> QED
    BY <1>2, <2>3, <2>4
<1>5. CASE AwaitsBody
  <2>1. pc' = "cleanup" /\ ret' = 1
    BY <1>5 DEF AwaitsBody, Fail, NOT_ENOUGH_BYTES
  <2>2. ret' # SUCCESS /\ ret' >= 0
    BY <2>1 DEF SUCCESS
  <2> QED
    BY <1>2, <2>1, <2>2
<1>6. CASE OutOfMemory
  <2>1. AllocMayFail /\ pc' = "cleanup" /\ ret' = -2
    BY <1>6 DEF OutOfMemory, MALLOC_FAIL
  <2>2. ret' # SUCCESS
    BY <2>1 DEF SUCCESS
  <2> QED
    BY <1>2, <2>1, <2>2
<1>7. CASE Corrupt
  <2>1. at \in DOMAIN format.read /\ step.kind = "inflate"
    BY <1>7 DEF Corrupt
  <2>2. step.kind # "inflate"
    BY <1>0, <2>1, UncompressedHere DEF Uncompressed, step, Typed
  <2> QED
    BY <2>1, <2>2
<1>8. CASE Unwinds
  <2>1. pc = "cleanup" /\ pc' \in {"cleanup", "returned"} /\ ret' = ret
    BY <1>8 DEF Unwinds
  <2> QED
    BY <1>0, <1>2, <2>1
<1>9. CASE Succeeds
  <2>1. pc' = "returned" /\ ret' = 0 /\ index' = index
    BY <1>9 DEF Succeeds, SUCCESS
  <2>2. index' = written' /\ length' = written'
    BY <1>0, <1>1, <1>9, <2>1, SucceedsWhole
  <2>3. ret' >= 0
    BY <2>1
  <2> QED
    BY <2>1, <2>2, <2>3 DEF ResultInv
<1> QED
  BY <1>3, <1>4, <1>5, <1>6, <1>7, <1>8, <1>9 DEF Results

\* So do the callers.
LEMMA CallersResult ==
  ASSUME ResultInv, AsksInv', Callers
  PROVE  ResultInv'
<1>0. AsksInv /\ Typed
  BY DEF ResultInv, AsksInv
<1>1. CASE CallRead
  <2>1. index <= length
    BY <1>0, NumbersNow
  <2>2. index \in Nat /\ length \in Nat
    BY <1>0, NumbersNow
  <2>3. pc' = "reading"
    BY <1>1, <2>1, <2>2 DEF CallRead
  <2> QED
    BY <2>3 DEF ResultInv
<1>2. CASE FinishWhole \/ RetryExactly \/ ReceiveMore
  <2>1. pc' = "idle"
    BY <1>2 DEF FinishWhole, RetryExactly, ReceiveMore
  <2> QED
    BY <2>1 DEF ResultInv
<1>3. CASE AbortTest \/ GiveUp \/ ReleaseMessage
  <2>1. UNCHANGED <<message, pc, index, length, ret>>
    BY <1>3 DEF AbortTest, GiveUp, ReleaseMessage, reader
  <2>2. written' = written
    BY <2>1 DEF written, format
  <2> QED
    BY <2>1, <2>2 DEF ResultInv
<1> QED
  BY <1>1, <1>2, <1>3 DEF Callers

\* Every step keeps ResultInv.
LEMMA NextResult == ResultInv /\ [Next]_vars => ResultInv'
<1> SUFFICES ASSUME ResultInv, [Next]_vars
             PROVE  ResultInv'
  OBVIOUS
<1>1. AsksInv /\ Typed /\ AsksInv'
  BY NextAsks DEF ResultInv, AsksInv
<1>2. CASE Library
  BY <1>1, <1>2, LibraryResults, LibraryResult
<1>3. CASE Callers
  BY <1>1, <1>3, CallersResult
<1>4. CASE UNCHANGED vars
  <2>1. UNCHANGED <<message, pc, index, length, ret>>
    BY <1>4 DEF vars, reader
  <2>2. written' = written
    BY <2>1 DEF written, format
  <2> QED
    BY <1>1, <2>1, <2>2 DEF ResultInv
<1> QED
  BY <1>2, <1>3, <1>4 DEF Next, Finished

\* What a read returns: no failure that unwinds through the cleanup labels
\* is turned into a success, and only a failed allocation is an error.
THEOREM ReturnsResult == Spec => []ResultInv
<1>1. Init => ResultInv
  BY InitAsks DEF Init, ResultInv
<1> QED
  BY <1>1, NextResult, PTL DEF Spec

\* A read of a prefix of a message never succeeds, and one of the whole
\* message leaves none of it in the buffer for the next to find.
THEOREM SucceedsOnTheWhole == Spec => []SuccessMeansComplete
<1>1. ResultInv => SuccessMeansComplete
  BY DEF ResultInv, SuccessMeansComplete
<1> QED
  BY <1>1, ReturnsResult, PTL

\* The bytes of a message that have arrived are never taken for an error, so
\* that a stream is given up for lack of memory only.
THEOREM PrefixIsNoError == Spec => []PartialIsNoError
<1>1. ResultInv => PartialIsNoError
  BY DEF ResultInv, PartialIsNoError
<1> QED
  BY <1>1, ReturnsResult, PTL

\* No read, and no repetition of one, loses the last pointer to memory: the
\* only pointers a read loses are its local variables.
THEOREM LosesNothing == Spec => []NothingLeaked
<1>1. MemoryInv => NothingLeaked
  <2> SUFFICES ASSUME MemoryInv
               PROVE  ~leaked
    BY DEF NothingLeaked
  <2>1. Chosen /\ LosesLocals
    BY RunningFacts
  <2>2. Slots \intersect Local = {}
    BY <2>1, UncompressedHere DEF Uncompressed, Slots
  <2> QED
    BY <2>1, <2>2 DEF LosesLocals
<1> QED
  BY <1>1, KnowsTheObject, PTL

-----------------------------------------------------------------------------
(***************************************************************************)
(* The reads implement MessageAssembly                                     *)
(***************************************************************************)

\* The first read of the test is given the whole message.
AssemblyInv == ResultInv /\ (phase = "whole" => length = written)

LEMMA NextAssembly == AssemblyInv /\ [Next]_vars => AssemblyInv'
<1> SUFFICES ASSUME AssemblyInv, [Next]_vars
             PROVE  phase' = "whole" => length' = written'
  BY NextResult DEF AssemblyInv
<1>0. Typed
  BY DEF AssemblyInv, ResultInv, AsksInv
<1>1. CASE Library
  <2>1. UNCHANGED <<message, phase, length>>
    BY <1>0, <1>1, LibraryResults
  <2> QED
    BY <2>1 DEF AssemblyInv, written, format
<1>2. CASE Callers
  <2>1. UNCHANGED message
    BY <1>0, <1>2, CallersTyped
  <2>2. phase' = "whole" => phase = "whole" /\ UNCHANGED length
    BY <1>2 DEF Callers, CallRead, FinishWhole, RetryExactly, ReceiveMore, AbortTest, GiveUp,
                ReleaseMessage, NotEnoughBytes
  <2> QED
    BY <2>1, <2>2 DEF AssemblyInv, written, format
<1>3. CASE UNCHANGED vars
  BY <1>3 DEF AssemblyInv, vars, reader, written, format
<1> QED
  BY <1>1, <1>2, <1>3 DEF Next, Finished

\* What MessageAssembly calls received and status.
receivedBar == IF phase = "aborted" THEN 0 ELSE IF phase = "whole" THEN 1 ELSE length
statusBar ==
  IF phase = "aborted" THEN "failed"
  ELSE IF phase = "released" \/ (phase = "partial" /\ pc = "returned" /\ ret = SUCCESS)
    THEN "complete"
  ELSE "waiting"

\* A read that succeeds completes the message; all else that the library
\* does is hidden.
LEMMA LibraryImplements ==
  ASSUME AssemblyInv, AssemblyInv', Library
  PROVE  Assembly!Complete \/ UNCHANGED Assembly!vars
<1>1. UNCHANGED <<message, phase, length>> /\ Results
  BY LibraryResults DEF AssemblyInv, ResultInv, AsksInv
<1>2. UNCHANGED <<written, receivedBar>>
  BY <1>1 DEF written, format, receivedBar
<1>3. pc \in {"reading", "cleanup"}
  BY <1>1 DEF Results, Passes, RunsOut, AwaitsBody, OutOfMemory, Corrupt, Unwinds, Succeeds
<1>4. CASE statusBar' = statusBar
  BY <1>2, <1>4 DEF Assembly!vars, receivedBar, statusBar
<1>5. CASE statusBar' # statusBar
  <2>1. /\ phase = "partial" /\ phase' = "partial" /\ pc' = "returned" /\ ret' = SUCCESS
        /\ statusBar = "waiting" /\ statusBar' = "complete"
    BY <1>1, <1>3, <1>5 DEF statusBar
  <2>2. receivedBar = written
    BY <1>1, <1>2, <2>1 DEF AssemblyInv, ResultInv, receivedBar
  <2> QED
    BY <1>2, <2>1, <2>2 DEF Assembly!Complete, receivedBar, statusBar
<1> QED
  BY <1>4, <1>5

\* A caller that enlarges the buffer makes some of the message arrive, one
\* that gives up has run out of memory or has lost its peer.
LEMMA CallersImplement ==
  ASSUME AssemblyInv, AssemblyInv', Callers
  PROVE  Assembly!Arrive \/ Assembly!Fail \/ UNCHANGED Assembly!vars
<1>0. /\ Typed /\ length <= written
      /\ pc = "returned" /\ ret > 0 => length + ret <= written
      /\ pc = "returned" /\ ret < 0 => AllocMayFail
      /\ phase = "whole" => length = written
      /\ caller \in Caller
      /\ length \in Nat /\ ret \in Int /\ written \in Nat \ {0}
  BY NumbersNow DEF AssemblyInv, ResultInv, AsksInv, Typed, TypeOK
<1>1. UNCHANGED written
  BY <1>0, CallersTyped DEF written, format
<1> HIDE DEF written
<1> USE DEF Assembly!Arrive, Assembly!Fail, Assembly!vars, SUCCESS
<1>2. CASE CallRead
  <2>1. pc = "idle" /\ UNCHANGED <<phase, length>>
    BY <1>2 DEF CallRead
  <2>2. pc' # "returned"
    BY <1>0, <1>2, NumbersNow DEF CallRead
  <2> QED
    BY <1>1, <2>1, <2>2
<1>3. CASE FinishWhole
  <2>1. /\ phase = "whole" /\ pc = "returned" /\ pc' = "idle"
        /\ IF ret = 0 THEN phase' = "partial" /\ length' = 1 ELSE phase' = "aborted"
    BY <1>3 DEF FinishWhole
  <2>2. ret # 0 => AllocMayFail
    BY <1>0, <2>1
  <2> QED
    BY <1>1, <2>1, <2>2
<1>4. CASE RetryExactly
  <2>1. /\ phase = "partial" /\ pc = "returned" /\ ret > 0
        /\ length' = length + ret /\ pc' = "idle"
        /\ phase' = IF length' > written THEN "aborted" ELSE "partial"
    BY <1>4 DEF RetryExactly, NotEnoughBytes
  <2>2. ret \in 1..(written - length)
    BY <1>0, <2>1
  <2>3. phase' = "partial"
    BY <1>0, <2>1
  <2> QED
    BY <1>1, <2>1, <2>2, <2>3
<1>5. CASE ReceiveMore
  <2>1. PICK more \in 1..(written - length) : length' = length + more
    BY <1>5 DEF ReceiveMore
  <2>2. phase = "partial" /\ phase' = "partial" /\ pc = "returned" /\ ret > 0 /\ pc' = "idle"
    BY <1>5 DEF ReceiveMore, NotEnoughBytes
  <2> QED
    BY <1>1, <2>1, <2>2
<1>6. CASE AbortTest \/ GiveUp
  <2>1. /\ phase = "partial" /\ phase' = "aborted" /\ pc = "returned" /\ ret # 0
        /\ ret < 0 \/ caller = "stream"
    BY <1>0, <1>6 DEF AbortTest, GiveUp
  <2>2. AllocMayFail \/ "stream" \in Caller
    BY <1>0, <2>1, Zenon
  <2> QED
    BY <1>1, <2>1, <2>2
<1>7. CASE ReleaseMessage
  <2>1. /\ phase = "partial" /\ phase' = "released" /\ pc = "returned" /\ ret = 0
        /\ UNCHANGED length
    BY <1>7 DEF ReleaseMessage, reader
  <2> QED
    BY <1>1, <2>1
<1> QED
  BY <1>2, <1>3, <1>4, <1>5, <1>6, <1>7 DEF Callers

\* The reads of a world message implement its assembly, for every catalogue
\* of uncompressed messages with a layout: the bounds by the size in the
\* header, the optional tails and the arrays without a count never complete
\* a message of which a byte is missing, never ask for a byte that is not
\* part of it, and never give it up while there are memory and a peer.
THEOREM AssemblesMessages == Spec => ImplementsAssembly
<1>1. Init => AssemblyInv /\ Assembly!Init
  <2> SUFFICES ASSUME Init
               PROVE  AssemblyInv /\ Assembly!Init
    OBVIOUS
  <2>1. AsksInv /\ Typed
    BY InitAsks, InitTyped
  <2>2. written \in Nat \ {0}
    BY <2>1, NumbersNow
  <2>3. pc = "idle"
    BY DEF Init
  <2>4. (phase = "whole" /\ length = written) \/ (phase = "partial" /\ length = 0)
    <3>1. InitTest => phase = "whole" /\ length = written
      BY DEF InitTest
    <3>2. InitStream => phase = "partial" /\ length = 0
      BY DEF InitStream
    <3> QED
      BY <3>1, <3>2 DEF Init
  <2>5. AssemblyInv
    BY <2>1, <2>3, <2>4 DEF AssemblyInv, ResultInv
  <2> QED
    BY <2>2, <2>3, <2>4, <2>5 DEF Assembly!Init
<1>2. AssemblyInv /\ [Next]_vars => AssemblyInv'
  BY NextAssembly
<1>3. AssemblyInv /\ AssemblyInv' /\ [Next]_vars => [Assembly!Next]_(Assembly!vars)
  <2>1. UNCHANGED vars => UNCHANGED Assembly!vars
    BY DEF vars, reader, Assembly!vars, written, format
  <2> QED
    BY <2>1, LibraryImplements, CallersImplement DEF Next, Finished, Assembly!Next
<1> QED
  BY <1>1, <1>2, <1>3, PTL DEF Spec, Assembly!Spec, ImplementsAssembly
=============================================================================
