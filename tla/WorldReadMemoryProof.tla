------------------------ MODULE WorldReadMemoryProof ------------------------
(***************************************************************************)
(* Theorems about the memory WorldRead allocates, for every catalogue      *)
(* whose messages keep a discipline, both callers, any cut of the message  *)
(* into pieces, any number of attempts and any failing allocation.         *)
(*                                                                         *)
(* The discipline is about one undisturbed run of a read function.  Memory *)
(* gives what is known of the object before each step on the path of the   *)
(* message: the states each pointer may be in and, of a field that a free  *)
(* function tests, what it holds.  Where a step can fail, the free         *)
(* functions under the cleanup labels must find nothing unassigned, and    *)
(* everything allocated so far must be within their reach, but for the     *)
(* buffer of the inflater, a local variable that no free function knows.   *)
(* TLC computes Memory and checks the discipline on the messages of its    *)
(* runs.                                                                   *)
(***************************************************************************)
EXTENDS WorldReadProof

CONSTANT Memory(_)   \* Memory(m)[k]: what is known of the object of m before step k

-----------------------------------------------------------------------------
(***************************************************************************)
(* What is known of an object                                              *)
(***************************************************************************)

\* What no free function may be given
Wild == {"garbage", "dangling"}

\* Before an attempt: a pointer was never assigned or owns nothing, and a
\* field, for which {} stands, is what it was.
Old == Wild \union {"null"}
Start(m) ==
  [ptr |-> [x \in m.slots |-> Old], fields |-> [f \in {t.field : t \in m.tests} |-> {}]]

Assigns(s) == s.kind \in {"null", "string", "calloc", "malloc"}
Makes(s) == s.kind \in {"calloc", "malloc"}
Assigned(s) == IF Assigns(s) THEN s.slots ELSE {}
\* The pointers and the fields in the memory that a step allocates
Made(s) == IF Makes(s) THEN {r.slot : r \in s.fresh} ELSE {}
MadeFields(s) == IF Makes(s) THEN {t.field : t \in UNION {r.tests : r \in s.fresh}} ELSE {}

PointerAfter(s, x, states) ==
  IF x \in Assigned(s) THEN IF s.kind = "null" THEN {"null"} ELSE {"live"}
  ELSE IF x \in Made(s) THEN IF s.kind = "calloc" THEN {"null"} ELSE {"garbage"}
  ELSE IF s.kind = "free" /\ x \in s.slots THEN {"null"}
  ELSE states

\* A field in memory that is not cleared holds nothing or anything.
FieldAfter(m, s, f, holds) ==
  IF s.kind = "field" /\ f = s.field THEN {s.holds}
  ELSE IF f \in MadeFields(s)
    THEN IF s.kind = "calloc" THEN {{}} ELSE {{}, UNION {t.set : t \in m.tests}}
  ELSE holds

\* What is known after a step that succeeds
MemoryAfter(m, s, mem) ==
  [ptr |-> [x \in DOMAIN mem.ptr |-> PointerAfter(s, x, mem.ptr[x])],
   fields |-> [f \in DOMAIN mem.fields |-> FieldAfter(m, s, f, mem.fields[f])]]

\* and after one that runs out of bytes, and one whose allocation fails
MemoryShort(s, mem) ==
  [ptr |-> mem.ptr,
   fields |-> [f \in DOMAIN mem.fields |->
                 IF s.kind = "field" /\ f = s.field THEN {s.zero} ELSE mem.fields[f]]]
MemoryRefused(s, mem) ==
  [ptr |-> [x \in DOMAIN mem.ptr |-> IF x \in s.slots THEN {"null"} ELSE mem.ptr[x]],
   fields |-> mem.fields]

-----------------------------------------------------------------------------
(***************************************************************************)
(* The discipline                                                          *)
(***************************************************************************)

\* A free function surely gets to a pointer, or surely does not touch
\* anything that was not assigned.
Reaches(r, mem) ==
  /\ \A t \in r.tests : /\ mem.fields[t.field] # {}
                        /\ \A held \in mem.fields[t.field] : held \intersect t.set # {}
  /\ \A p \in r.within : "null" \notin mem.ptr[p]
Spares(r, mem) ==
  \/ Wild \intersect mem.ptr[r.slot] = {}
  \/ \E p \in r.within : mem.ptr[p] = {"null"}
  \/ \E t \in r.tests : /\ mem.fields[t.field] # {}
                        /\ \A held \in mem.fields[t.field] : held \intersect t.set = {}

\* The attempt has not touched what the free function looks at.
Untouched(r, mem) ==
  /\ mem.ptr[r.slot] = Old
  /\ \A t \in r.tests : mem.fields[t.field] = {}
  /\ \A p \in r.within : mem.ptr[p] = Old

\* A step that may ask for more bytes; decompressed data hold what is read.
MayRunOut(s, p) == (Checks(s) /\ ~p.inflated /\ s.ends # <<>>) \/ s.kind = "await"
MayBeRefused(s) == AllocMayFail /\ s.kind \in {"string", "calloc", "malloc"}
MayUnwind(s, p) == MayRunOut(s, p) \/ MayBeRefused(s)
FirstLabel(s) == IF s.kind = "calloc" THEN 2 ELSE 1

\* The free functions of the cleanup labels, and then that of the caller
Chain(m, s, d) == IF d <= Len(s.cleanup) THEN s.cleanup[d] ELSE m.free
Labelled(s) == {s.cleanup[d] : d \in DOMAIN s.cleanup}
Unwinding(m, path) == {k \in DOMAIN path \ {Behind(m)} : MayUnwind(m.read[k], path[k])}
FreeFunctions(m, path) ==
  {m.free} \union UNION {Labelled(m.read[k]) : k \in Unwinding(m, path)}
Everything(m, path) == UNION FreeFunctions(m, path)

\* The members of the object
Members(m) == m.slots \ Local

\* From label first on, each live member is in reach of a free function.
Covers(m, s, first, mem) ==
  \A x \in Members(m) : "live" \in mem.ptr[x] =>
    \E d \in first..(Len(s.cleanup) + 1) : \E r \in Chain(m, s, d) : r.slot = x /\ Reaches(r, mem)
\* It is in reach of the caller's.
Leaves(m, mem) ==
  \A x \in Members(m) : "live" \in mem.ptr[x] => \E r \in m.free : r.slot = x /\ Reaches(r, mem)

\* Only the object of a test can be one that was never assigned.
Settled(r, mem) == Spares(r, mem) \/ ("test" \notin Caller /\ Untouched(r, mem))

\* Where a pointer is left dangling, what it lies in is released by the same
\* free function, and no other gets to it but through that.
Buries(releases, all, r) ==
  \E p \in r.within :
    /\ \E q \in releases : q.slot = p /\ q.tests \subseteq r.tests /\ q.within \subseteq r.within
    /\ \A q \in all : /\ q.slot = p => ~q.dangles
                      /\ q.slot = r.slot => p \in q.within

\* Free functions of the object itself
Proper(m, functions, all) ==
  /\ \A r \in all : /\ r.slot \in Members(m) /\ r.within \subseteq Members(m)
                    /\ r.tests \subseteq m.tests
  /\ \A releases \in functions : \A r \in releases : r.dangles => Buries(releases, all, r)

\* The free function of a struct, and those of the structs it is in: what
\* the outer one would reach through a pointer that the inner one releases,
\* the inner one releases as well.
Nested(inner, outer) ==
  \A r \in outer : \A q \in inner : q.slot \in r.within =>
    \E i \in inner : i.slot = r.slot /\ i.tests \subseteq r.tests /\ i.within \subseteq r.within

Orderly(m, s) ==
  /\ Len(s.cleanup) \in Nat /\ DOMAIN s.cleanup = 1..Len(s.cleanup)
  /\ Len(s.cleanup) # 0 => s.cleanup[Len(s.cleanup)] = m.free
  /\ \A c \in DOMAIN s.cleanup : \A d \in (c + 1)..(Len(s.cleanup) + 1) :
       Nested(s.cleanup[c], Chain(m, s, d))

\* What a step needs of the object.  An inflater that fails returns at once.
Careful(m, all, s, p, mem) ==
  /\ AllocMayFail => s.kind # "realloc"
  /\ MayUnwind(s, p) => Orderly(m, s)
  /\ \A x \in Assigned(s) \union Made(s) : x \in m.slots /\ "live" \notin mem.ptr[x]
  /\ MayRunOut(s, p) =>
       LET short == MemoryShort(s, mem)
       IN /\ \A r \in all : Spares(r, short) \/ Untouched(r, short)
          /\ Covers(m, s, 1, short)
          /\ Len(s.cleanup) = 0 => \A x \in Members(m) : "live" \notin mem.ptr[x]
  /\ MayBeRefused(s) =>
       LET refused == MemoryRefused(s, mem)
       IN /\ \A r \in all : Settled(r, refused)
          /\ Covers(m, s, FirstLabel(s), refused)
  /\ s.kind = "inflate" => (\A r \in all : Settled(r, mem)) /\ Leaves(m, mem)

Discipline(m, path, mems) ==
  LET all == Everything(m, path)
  IN /\ Proper(m, FreeFunctions(m, path), all)
     /\ DOMAIN mems = DOMAIN path /\ mems[1] = Start(m)
     /\ \A k \in DOMAIN path \ {Behind(m)} :
          /\ Careful(m, all, m.read[k], path[k], mems[k])
          /\ mems[k + 1 + Skipped(m, m.read[k], path[k])] = MemoryAfter(m, m.read[k], mems[k])
     /\ Behind(m) \in DOMAIN path =>
          LET end == mems[Behind(m)] IN (\A r \in all : Settled(r, end)) /\ Leaves(m, end)

ASSUME DisciplineAssumption ==
  \A group \in DOMAIN Catalogue : \A name \in DOMAIN Catalogue[group] :
    \A wire \in DOMAIN Catalogue[group][name] :
      LET m == Catalogue[group][name][wire] IN Discipline(m, Path(m), Memory(m))

-----------------------------------------------------------------------------
(***************************************************************************)
(* The inductive invariant                                                 *)
(***************************************************************************)

functions == FreeFunctions(format, Path(format))
all == UNION functions
\* The pointers of the object itself
Own == Members(format)
\* What is known of the object at the step that is next
known == Memory(format)[at]

Agrees(mem) ==
  /\ DOMAIN mem.ptr = Slots /\ DOMAIN mem.fields = TestedFields
  /\ \A x \in Slots : ptr[x] \in mem.ptr[x]
  /\ \A f \in TestedFields : mem.fields[f] # {} => fields[f] \in mem.fields[f]

\* A free function with r touches nothing that was not assigned.
Harmless(r) == Applies(r) => ptr[r.slot] \notin Wild

NoneLive == \A x \in Own : ptr[x] # "live"

\* What is live is in reach of the free functions that are still to come.
Covered(first) ==
  \A x \in Own : ptr[x] = "live" =>
    \E d \in first..(Len(step.cleanup) + 1) : \E r \in Chain(format, step, d) :
      r.slot = x /\ Applies(r)
Reachable == \A x \in Own : ptr[x] = "live" => \E r \in format.free : r.slot = x /\ Applies(r)

\* The object between two attempts: it owns nothing, and once a read has
\* completed or if it was zeroed, it may be given to any free function.
BetweenAttempts ==
  /\ pc = "idle" /\ phase \in {"whole", "partial"} => NoneLive
  /\ pc = "idle" /\ phase = "partial" => \A r \in all : Harmless(r)

\* While the function runs, the object is what Memory says.
WhileReading ==
  pc = "reading" =>
    /\ Agrees(known)
    /\ phase = "partial" => \A r \in all : Untouched(r, known) => Harmless(r)

\* A failure on its way to the caller: no label frees what was not assigned,
\* and all that is live is freed by the labels to come or by the caller.
WhileUnwinding ==
  pc = "cleanup" =>
    /\ \A r \in all : Harmless(r)
    /\ at \in DOMAIN format.read /\ Orderly(format, step) /\ Labelled(step) \subseteq functions
    /\ Covered(scope)
    /\ ret > 0 => NoneLive \/ scope <= Len(step.cleanup)

AfterReturn ==
  pc = "returned" =>
    /\ \A r \in all : Harmless(r)
    /\ Reachable
    /\ ret > 0 => NoneLive

\* Outside a read function there are no local variables.  Only a message that
\* has one may lose memory.
LocalsGone == pc \in {"idle", "returned"} => \A x \in Slots \intersect Local : ptr[x] = "null"
LosesLocals == leaked => Slots \intersect Local # {}

MemoryInv ==
  /\ AsksInv
  /\ phase = "whole" => caller = "test" /\ length = written
  /\ pc \in {"reading", "cleanup"} => phase \in {"whole", "partial"}
  /\ BetweenAttempts
  /\ WhileReading
  /\ WhileUnwinding
  /\ AfterReturn
  /\ LocalsGone
  /\ LosesLocals
  /\ ReleasedOwnsNothing
  /\ NoWildFree

-----------------------------------------------------------------------------
(***************************************************************************)
(* Facts about a message                                                   *)
(***************************************************************************)

\* The message under way keeps the discipline.
LEMMA DisciplineHere ==
  ASSUME Chosen
  PROVE  Discipline(format, Path(format), Memory(format))
BY DisciplineAssumption DEF Chosen, format

\* What the free functions of a message are about
LEMMA ReleaseFacts ==
  ASSUME Chosen
  PROVE  /\ \A r \in all : /\ r.slot \in Own /\ r.within \subseteq Own
                           /\ \A t \in r.tests : t.field \in TestedFields
         /\ \A releases \in functions : \A r \in releases : r.dangles => Buries(releases, all, r)
         /\ format.free \in functions
         /\ Own \subseteq Slots /\ Own \intersect Local = {}
<1>1. Proper(format, functions, all)
  BY DisciplineHere DEF Discipline, Everything, all, functions
<1>2. \A r \in all : \A t \in r.tests : t.field \in TestedFields
  BY <1>1 DEF Proper, TestedFields
<1>3. format.free \in functions
  BY DEF functions, FreeFunctions
<1>4. Own \subseteq Slots /\ Own \intersect Local = {}
  BY DEF Own, Members, Slots
<1>5. \A r \in all : r.slot \in Own /\ r.within \subseteq Own
  BY <1>1 DEF Proper, Own
<1>6. \A releases \in functions : \A r \in releases : r.dangles => Buries(releases, all, r)
  BY <1>1 DEF Proper
<1> QED
  BY <1>2, <1>3, <1>4, <1>5, <1>6

\* The free functions that a failure at a step leads to
LEMMA ChainFacts ==
  ASSUME Chosen, Orderly(format, step), Labelled(step) \subseteq functions,
         NEW d \in 1..(Len(step.cleanup) + 1)
  PROVE  Chain(format, step, d) \in functions
<1>1. Len(step.cleanup) \in Nat /\ DOMAIN step.cleanup = 1..Len(step.cleanup)
  BY DEF Orderly
<1>2. d <= Len(step.cleanup) => d \in DOMAIN step.cleanup
  BY <1>1
<1> QED
  BY <1>2, ReleaseFacts DEF Chain, Labelled

\* While the message is the same, so is what depends on it alone.
LEMMA SameMessage ==
  ASSUME UNCHANGED message
  PROVE  /\ format' = format /\ Slots' = Slots /\ TestedFields' = TestedFields /\ Own' = Own
         /\ functions' = functions /\ all' = all /\ written' = written
BY DEF format, Slots, TestedFields, Own, functions, all, written

\* The discipline at the step that is next
LEMMA CarefulHere ==
  ASSUME Chosen, at \in DOMAIN Path(format), at \in DOMAIN format.read
  PROVE  /\ Careful(format, all, step, point, known)
         /\ Memory(format)[at + 1 + Skipped(format, step, point)] = MemoryAfter(format, step, known)
         /\ MayUnwind(step, point) => Labelled(step) \subseteq functions
<1>1. at # Behind(format)
  BY StepType DEF Behind
<1>2. /\ Careful(format, all, step, point, known)
      /\ Memory(format)[at + 1 + Skipped(format, step, point)] = MemoryAfter(format, step, known)
  BY <1>1, DisciplineHere DEF Discipline, Everything, functions, all, step, known, point
<1>3. MayUnwind(step, point) => at \in Unwinding(format, Path(format))
  BY <1>1 DEF Unwinding, step, point
<1>4. MayUnwind(step, point) => Labelled(step) \subseteq functions
  BY <1>3 DEF functions, FreeFunctions, step
<1> QED
  BY <1>2, <1>4

-----------------------------------------------------------------------------
(***************************************************************************)
(* What is known of an object, and what a free function does to it         *)
(***************************************************************************)

\* The object after a step is one of which mem is known.
AgreesNext(mem) ==
  /\ \A x \in Own : ptr'[x] \in mem.ptr[x]
  /\ \A f \in TestedFields : mem.fields[f] # {} => fields'[f] \in mem.fields[f]

\* A free function then gets to what it surely reaches.
LEMMA ReachesApplies ==
  ASSUME Chosen, NEW mem, AgreesNext(mem), NEW r \in all, Reaches(r, mem)
  PROVE  Applies(r)'
<1>1. \A t \in r.tests : fields'[t.field] \intersect t.set # {}
  BY ReleaseFacts DEF Reaches, AgreesNext
<1>2. \A p \in r.within : ptr'[p] # "null"
  BY ReleaseFacts DEF Reaches, AgreesNext
<1> QED
  BY <1>1, <1>2 DEF Applies

\* It touches nothing unassigned where it surely does not.
LEMMA SparesHarmless ==
  ASSUME Chosen, NEW mem, AgreesNext(mem), NEW r \in all, Spares(r, mem)
  PROVE  Harmless(r)'
<1>1. r.slot \in Own /\ r.within \subseteq Own /\ \A t \in r.tests : t.field \in TestedFields
  BY ReleaseFacts
<1>2. CASE Wild \intersect mem.ptr[r.slot] = {}
  BY <1>1, <1>2 DEF AgreesNext, Harmless
<1>3. CASE \E p \in r.within : mem.ptr[p] = {"null"}
  BY <1>1, <1>3 DEF AgreesNext, Harmless, Applies
<1>4. CASE \E t \in r.tests : /\ mem.fields[t.field] # {}
                              /\ \A held \in mem.fields[t.field] : held \intersect t.set = {}
  BY <1>1, <1>4 DEF AgreesNext, Harmless, Applies
<1> QED
  BY <1>2, <1>3, <1>4 DEF Spares

\* Pointers are only set to NULL or, if they were not, left dangling.
Fewer ==
  /\ \A x \in Slots : \/ ptr'[x] = ptr[x] \/ ptr'[x] = "null"
                      \/ ptr[x] # "null" /\ ptr'[x] = "dangling"
  /\ UNCHANGED fields

\* A free function then gets to nothing more.
LEMMA FewerApplies ==
  ASSUME Chosen, Fewer, NEW r \in all, Applies(r)'
  PROVE  Applies(r)
<1>1. r.within \subseteq Slots
  BY ReleaseFacts
<1>2. \A p \in r.within : ptr'[p] # "null"
  BY DEF Applies
<1>3. \A p \in r.within : ptr[p] # "null"
  BY <1>1, <1>2 DEF Fewer
<1>4. \A t \in r.tests : fields[t.field] \intersect t.set # {}
  BY DEF Applies, Fewer
<1> QED
  BY <1>3, <1>4 DEF Applies

\* What a free function does to an object that it can do no harm to
LEMMA ReleaseEffect ==
  ASSUME Typed, NEW releases \in functions, Release(releases), \A r \in all : Harmless(r)
  PROVE  /\ Fewer /\ UNCHANGED <<wild, leaked>>
         /\ \A x \in Slots \intersect Local : ptr'[x] = ptr[x]
         /\ \A r \in releases : Applies(r) => ptr'[r.slot] # "live"
         /\ \A x \in Slots : ptr'[x] # ptr[x] => \E r \in releases : r.slot = x /\ Applies(r)
         /\ \A r \in all : Harmless(r)'
<1> DEFINE due == {r \in releases : Applies(r)}
           Sinks(s) == \E r \in due : r.slot = s /\ r.dangles /\ ptr[s] # "null"
<1>1. Chosen /\ DOMAIN ptr = Slots /\ wild \in BOOLEAN /\ releases \subseteq all
  BY MemoryNow DEF Typed, all
<1>2. ptr' = [s \in Slots |->
               IF \E r \in due : r.slot = s THEN IF Sinks(s) THEN "dangling" ELSE "null"
               ELSE ptr[s]]
  BY <1>1 DEF Release
<1>3. /\ \A r \in all : r.slot \in Own /\ r.within \subseteq Own
      /\ \A r \in releases : r.dangles => Buries(releases, all, r)
      /\ Own \subseteq Slots /\ Own \intersect Local = {}
  BY <1>1, ReleaseFacts
<1>4. wild' = (wild \/ \E r \in due : ptr[r.slot] \in {"garbage", "dangling"})
  BY DEF Release
<1>5. \A r \in due : ptr[r.slot] \notin {"garbage", "dangling"}
  BY <1>1 DEF Harmless, Wild
<1>6. wild' = wild
  <2> HIDE DEF due
  <2> QED
    BY <1>1, <1>4, <1>5
<1>7. UNCHANGED <<fields, leaked>>
  BY DEF Release
<1>8. Fewer
  <2>1. \A s : Sinks(s) => ptr[s] # "null"
    OBVIOUS
  <2> HIDE DEF Sinks
  <2> QED
    BY <1>2, <1>7, <2>1 DEF Fewer
<1>9. \A x \in Slots \intersect Local : ptr'[x] = ptr[x]
  BY <1>1, <1>2, <1>3
<1>10. \A r \in releases : Applies(r) => ptr'[r.slot] # "live"
  BY <1>1, <1>2, <1>3
<1>11. \A x \in Slots : ptr'[x] # ptr[x] => \E r \in releases : r.slot = x /\ Applies(r)
  BY <1>2
<1>12. \A r \in all : Harmless(r)'
  <2> SUFFICES ASSUME NEW r \in all, Applies(r)', ptr'[r.slot] \in Wild
               PROVE  FALSE
    BY DEF Harmless
  <2>1. Applies(r)
    BY <1>1, <1>8, FewerApplies
  <2>2. ptr[r.slot] \notin Wild
    BY <2>1 DEF Harmless
  <2>3. Sinks(r.slot)
    <3> HIDE DEF Sinks
    <3> QED
      BY <1>2, <1>3, <2>2 DEF Wild
  <2>4. PICK q \in due : q.slot = r.slot /\ q.dangles
    BY <2>3
  <2>5. Buries(releases, all, q)
    BY <1>3, <2>4
  <2>6. PICK p \in q.within :
           /\ \E b \in releases : b.slot = p /\ b.tests \subseteq q.tests /\ b.within \subseteq q.within
           /\ \A b \in all : (b.slot = p => ~b.dangles) /\ (b.slot = q.slot => p \in b.within)
    BY <2>5 DEF Buries
  <2>7. PICK b \in releases : b.slot = p /\ b.tests \subseteq q.tests /\ b.within \subseteq q.within
    BY <2>6
  <2>8. b \in due
    BY <2>4, <2>7 DEF Applies
  <2>9. ~Sinks(p)
    BY <1>1, <2>6
  <2>10. p \in Slots
    BY <1>1, <1>3, <2>4
  <2>11. ptr'[p] = "null"
    <3> HIDE DEF Sinks, due
    <3> QED
      BY <1>2, <2>7, <2>8, <2>9, <2>10
  <2>12. p \in r.within
    BY <2>4, <2>6
  <2> QED
    BY <2>11, <2>12 DEF Applies
<1> QED
  BY <1>6, <1>7, <1>8, <1>9, <1>10, <1>11, <1>12

\* The free function of the object leaves nothing that it could reach.
LEMMA FreeLeavesNothing ==
  ASSUME Typed, \A r \in all : Harmless(r), Reachable, Release(format.free), UNCHANGED message
  PROVE  /\ NoneLive' /\ UNCHANGED <<wild, leaked>>
         /\ \A x \in Slots \intersect Local : ptr'[x] = ptr[x]
         /\ \A r \in all : Harmless(r)'
<1>1. format.free \in functions /\ Own \subseteq Slots
  BY ReleaseFacts DEF Typed
<1>2. /\ Fewer /\ UNCHANGED <<wild, leaked>>
      /\ \A x \in Slots \intersect Local : ptr'[x] = ptr[x]
      /\ \A r \in format.free : Applies(r) => ptr'[r.slot] # "live"
      /\ \A r \in all : Harmless(r)'
  BY <1>1, ReleaseEffect
<1>3. \A x \in Own : ptr'[x] # "live"
  BY <1>1, <1>2 DEF Fewer, Reachable
<1> QED
  BY <1>2, <1>3, SameMessage DEF NoneLive

-----------------------------------------------------------------------------
(***************************************************************************)
(* What a step of the read function does to the object                     *)
(***************************************************************************)

\* The step under way succeeds.
PassMemory ==
  /\ pc' = "reading"
  /\ \A x \in Slots : ptr'[x] \in PointerAfter(step, x, {ptr[x]})
  /\ \A f \in TestedFields : fields'[f] \in FieldAfter(format, step, f, {fields[f]})
  /\ wild' = wild
  /\ leaked' => leaked \/ \E x \in Assigned(step) \union Made(step) : ptr[x] = "live"

\* It runs out of bytes.
ShortMemory ==
  /\ pc' = "cleanup" /\ MayRunOut(step, point) /\ scope' = 1 /\ ret' > 0
  /\ UNCHANGED <<at, ptr, wild, leaked>>
  /\ \A f \in TestedFields :
       fields'[f] = IF step.kind = "field" /\ f = step.field THEN step.zero ELSE fields[f]

\* Its allocation fails.
RefusedMemory ==
  /\ pc' = "cleanup" /\ MayBeRefused(step) /\ scope' = FirstLabel(step) /\ ret' = MALLOC_FAIL
  /\ \A x \in Slots : ptr'[x] = IF x \in step.slots THEN "null" ELSE ptr[x]
  /\ UNCHANGED <<at, fields, wild>>
  /\ leaked' => leaked \/ \E x \in Assigned(step) : ptr[x] = "live"

\* The inflater fails.
CorruptMemory ==
  step.kind = "inflate" /\ Return(COMPRESSION_ERROR) /\ UNCHANGED <<fields, wild>>

\* A step that assigns nothing and goes on
LEMMA KeepsMemory ==
  ASSUME Typed, ~Assigns(step), step.kind \notin {"field", "free"}, pc' = "reading",
         UNCHANGED <<ptr, fields, wild, leaked>>
  PROVE  PassMemory
<1>1. Assigned(step) = {} /\ Made(step) = {} /\ MadeFields(step) = {}
  BY DEF Assigned, Assigns, Makes, Made, MadeFields
<1>2. \A x \in Slots : ptr'[x] \in PointerAfter(step, x, {ptr[x]})
  BY <1>1 DEF PointerAfter
<1>3. \A f \in TestedFields : fields'[f] \in FieldAfter(format, step, f, {fields[f]})
  BY <1>1 DEF FieldAfter
<1> QED
  BY <1>2, <1>3 DEF PassMemory

\* A length check fails where decompressed data are not read.
LEMMA TakeSomeRunsOut ==
  ASSUME OnPath, Checks(step), TakeSome
  PROVE  MayRunOut(step, point)
<1>1. ~inflated /\ step.ends # <<>>
  BY DEF TakeSome, Enough
<1>2. ~point.inflated
  BY <1>1 DEF OnPath
<1> QED
  BY <1>1, <1>2 DEF MayRunOut

\* A length check that fails in a step that assigns nothing
LEMMA KeepsShort ==
  ASSUME Typed, OnPath, at \in DOMAIN format.read, Checks(step), step.kind # "field", TakeSome,
         UNCHANGED <<ptr, fields, wild, leaked>>
  PROVE  ShortMemory
<1>1. ret' > 0 /\ pc' = "cleanup" /\ scope' = 1 /\ at' = at
  BY TakeSomeAsks
<1>2. MayRunOut(step, point)
  BY TakeSomeRunsOut
<1>3. \A f \in TestedFields :
        fields'[f] = IF step.kind = "field" /\ f = step.field THEN step.zero ELSE fields[f]
  OBVIOUS
<1> QED
  BY <1>1, <1>2, <1>3 DEF ShortMemory

\* An assignment to the pointers of a step, and nothing else
LEMMA OverwriteMemory ==
  ASSUME Typed, NEW value, Overwrite(step.slots, value)
  PROVE  /\ \A x \in Slots : ptr'[x] = IF x \in step.slots THEN value ELSE ptr[x]
         /\ leaked' => leaked \/ \E x \in step.slots : ptr[x] = "live"
<1>1. ptr' = [s \in DOMAIN ptr |-> IF s \in step.slots THEN value ELSE ptr[s]]
  BY DEF Overwrite
<1>2. leaked' = (leaked \/ \E s \in step.slots : ptr[s] = "live")
  BY DEF Overwrite
<1>3. \A x \in Slots : ptr'[x] = IF x \in step.slots THEN value ELSE ptr[x]
  BY <1>1, MemoryNow
<1>4. leaked' => leaked \/ \E x \in step.slots : ptr[x] = "live"
  BY <1>2, Zenon
<1> QED
  BY <1>3, <1>4

\* It succeeds in a step that makes no memory with contents of its own.
LEMMA OverwritePasses ==
  ASSUME Typed, step.kind \in {"null", "string"},
         Overwrite(step.slots, IF step.kind = "null" THEN "null" ELSE "live"),
         pc' = "reading", UNCHANGED <<fields, wild>>
  PROVE  PassMemory
<1>1. Assigned(step) = step.slots /\ Made(step) = {} /\ MadeFields(step) = {}
  BY DEF Assigned, Assigns, Makes, Made, MadeFields
<1>2. /\ \A x \in Slots : ptr'[x] = IF x \in step.slots
                                     THEN IF step.kind = "null" THEN "null" ELSE "live" ELSE ptr[x]
      /\ leaked' => leaked \/ \E x \in step.slots : ptr[x] = "live"
  BY OverwriteMemory
<1>3. \A x \in Slots : ptr'[x] \in PointerAfter(step, x, {ptr[x]})
  BY <1>1, <1>2 DEF PointerAfter
<1>4. \A f \in TestedFields : fields'[f] \in FieldAfter(format, step, f, {fields[f]})
  BY <1>1 DEF FieldAfter
<1> QED
  BY <1>1, <1>2, <1>3, <1>4 DEF PassMemory

\* New memory
LEMMA AllocatedPasses ==
  ASSUME Typed, step.kind \in {"calloc", "malloc"},
         Allocated(IF step.kind = "calloc" THEN "null" ELSE "garbage"),
         pc' = "reading", UNCHANGED wild
  PROVE  PassMemory
<1> DEFINE contents == IF step.kind = "calloc" THEN "null" ELSE "garbage"
           helds == IF contents = "null" THEN {{}} ELSE {{}, Labels}
<1>1. Assigned(step) = step.slots
  BY DEF Assigned, Assigns
<1>2. /\ Made(step) = {r.slot : r \in step.fresh}
      /\ MadeFields(step) = {t.field : t \in UNION {r.tests : r \in step.fresh}}
  BY DEF Makes, Made, MadeFields
<1>3. ptr' = [s \in DOMAIN ptr |-> IF s \in step.slots THEN "live"
                                   ELSE IF s \in Made(step) THEN contents ELSE ptr[s]]
  BY <1>2 DEF Allocated
<1>4. leaked' = (leaked \/ \E s \in step.slots \union Made(step) : ptr[s] = "live")
  BY <1>2 DEF Allocated
<1>5. PICK held \in helds :
        fields' = [f \in DOMAIN fields |-> IF f \in MadeFields(step) THEN held ELSE fields[f]]
  BY <1>2 DEF Allocated
<1>6. \A x \in Slots : ptr'[x] \in PointerAfter(step, x, {ptr[x]})
  BY <1>1, <1>3, MemoryNow DEF PointerAfter
<1>7. \A f \in TestedFields : fields'[f] \in FieldAfter(format, step, f, {fields[f]})
  <2>1. held \in IF step.kind = "calloc" THEN {{}} ELSE {{}, UNION {t.set : t \in format.tests}}
    BY <1>5 DEF Labels
  <2>2. \A f \in TestedFields : fields'[f] = IF f \in MadeFields(step) THEN held ELSE fields[f]
    BY <1>5, MemoryNow
  <2>3. step.kind # "field"
    OBVIOUS
  <2> HIDE DEF helds
  <2> QED
    BY <2>1, <2>2, <2>3 DEF FieldAfter
<1>8. leaked' => leaked \/ \E x \in Assigned(step) \union Made(step) : ptr[x] = "live"
  BY <1>1, <1>4, Zenon
<1> QED
  BY <1>6, <1>7, <1>8 DEF PassMemory

\* An allocation that fails
LEMMA OverwriteRefused ==
  ASSUME Typed, AllocMayFail, step.kind \in {"string", "calloc", "malloc"}, NEW consumed,
         Overwrite(step.slots, "null"), Fail(MALLOC_FAIL, consumed, FirstLabel(step)),
         UNCHANGED <<fields, wild>>
  PROVE  RefusedMemory
<1>1. Assigned(step) = step.slots /\ MayBeRefused(step)
  BY DEF Assigned, Assigns, MayBeRefused
<1>2. /\ \A x \in Slots : ptr'[x] = IF x \in step.slots THEN "null" ELSE ptr[x]
      /\ leaked' => leaked \/ \E x \in step.slots : ptr[x] = "live"
  BY OverwriteMemory
<1>3. pc' = "cleanup" /\ scope' = FirstLabel(step) /\ ret' = MALLOC_FAIL /\ at' = at
  BY DEF Fail
<1> QED
  BY <1>1, <1>2, <1>3 DEF RefusedMemory

\* Each step of a careful read function does one of these.
LEMMA ReadingEffect ==
  ASSUME Typed, OnPath, pc = "reading", at \in DOMAIN format.read, Library,
         AllocMayFail => step.kind # "realloc"
  PROVE  PassMemory \/ ShortMemory \/ RefusedMemory \/ CorruptMemory
<1>1. CASE ReadHeader
  <2>1. step.kind = "header"
    BY <1>1 DEF ReadHeader, Reading
  <2>2. UNCHANGED <<ptr, fields, wild, leaked>>
    BY <1>1 DEF ReadHeader, object, history
  <2>3. ~Assigns(step) /\ Checks(step) /\ step.kind \notin {"field", "free"}
    BY <2>1 DEF Assigns, Checks, Consumes
  <2>4. pc' = "reading" \/ TakeSome
    BY <1>1 DEF ReadHeader, Continue
  <2> QED
    BY <2>2, <2>3, <2>4, KeepsMemory, KeepsShort
<1>2. CASE CheckMinimum
  <2>1. step.kind = "minimum"
    BY <1>2 DEF CheckMinimum, Reading
  <2>2. UNCHANGED <<ptr, fields, wild, leaked>>
    BY <1>2 DEF CheckMinimum, object, history
  <2>3. ~Assigns(step) /\ Checks(step) /\ step.kind \notin {"field", "free"}
    BY <2>1 DEF Assigns, Checks, Consumes
  <2>4. pc' = "reading" \/ TakeSome
    BY <1>2 DEF CheckMinimum, Continue
  <2> QED
    BY <2>2, <2>3, <2>4, KeepsMemory, KeepsShort
<1>3. CASE ReadInts
  <2>1. step.kind = "ints"
    BY <1>3 DEF ReadInts, Reading
  <2>2. UNCHANGED <<ptr, fields, wild, leaked>>
    BY <1>3 DEF ReadInts, object, history
  <2>3. ~Assigns(step) /\ Checks(step) /\ step.kind \notin {"field", "free"}
    BY <2>1 DEF Assigns, Checks, Consumes
  <2>4. pc' = "reading" \/ TakeSome
    BY <1>3 DEF ReadInts, Continue
  <2> QED
    BY <2>2, <2>3, <2>4, KeepsMemory, KeepsShort
<1>4. CASE NullPointers
  <2>1. step.kind = "null"
    BY <1>4 DEF NullPointers, Reading
  <2>2. Overwrite(step.slots, "null") /\ UNCHANGED <<fields, wild>>
    BY <1>4 DEF NullPointers
  <2>3. pc' = "reading"
    BY <1>4 DEF NullPointers, Continue
  <2>4. Overwrite(step.slots, IF step.kind = "null" THEN "null" ELSE "live")
    BY <2>1, <2>2
  <2> QED
    BY <2>1, <2>2, <2>3, <2>4, OverwritePasses
<1>5. CASE ReadField
  <2>1. step.kind = "field"
    BY <1>5 DEF ReadField, Reading
  <2>2. UNCHANGED <<ptr, wild, leaked>>
    BY <1>5 DEF ReadField, history
  <2>3. Assigned(step) = {} /\ Made(step) = {} /\ MadeFields(step) = {}
    BY <2>1 DEF Assigned, Assigns, Makes, Made, MadeFields
  <2>4. CASE Continue(Taken) /\ Hold(step.holds)
    <3>1. pc' = "reading"
      BY <2>4 DEF Continue
    <3>2. \A f \in TestedFields : fields'[f] = IF f = step.field THEN step.holds ELSE fields[f]
      BY <2>4, MemoryNow DEF Hold
    <3>3. \A x \in Slots : ptr'[x] \in PointerAfter(step, x, {ptr[x]})
      BY <2>1, <2>2, <2>3 DEF PointerAfter
    <3>4. \A f \in TestedFields : fields'[f] \in FieldAfter(format, step, f, {fields[f]})
      BY <2>1, <2>3, <3>2 DEF FieldAfter
    <3> QED
      BY <2>2, <3>1, <3>3, <3>4 DEF PassMemory
  <2>5. CASE TakeSome /\ Hold(step.zero)
    <3>1. ret' > 0 /\ pc' = "cleanup" /\ scope' = 1 /\ at' = at
      BY <2>5, TakeSomeAsks
    <3>2. Checks(step)
      BY <2>1 DEF Checks, Consumes
    <3>3. MayRunOut(step, point)
      BY <2>5, <3>2, TakeSomeRunsOut
    <3>4. \A f \in TestedFields : fields'[f] = IF f = step.field THEN step.zero ELSE fields[f]
      BY <2>5, MemoryNow DEF Hold
    <3> QED
      BY <2>1, <2>2, <3>1, <3>3, <3>4 DEF ShortMemory
  <2> QED
    BY <1>5, <2>4, <2>5 DEF ReadField
<1>6. CASE ReadString
  <2>1. step.kind = "string"
    BY <1>6 DEF ReadString, Reading
  <2>2. UNCHANGED <<fields, wild>>
    BY <1>6 DEF ReadString
  <2>3. CASE TakeSome /\ UNCHANGED <<ptr, leaked>>
    <3>1. Checks(step) /\ step.kind # "field"
      BY <2>1 DEF Checks, Consumes
    <3> QED
      BY <2>2, <2>3, <3>1, KeepsShort
  <2>4. CASE Overwrite(step.slots, "live") /\ Continue(Taken)
    <3>1. pc' = "reading"
      BY <2>4 DEF Continue
    <3>2. Overwrite(step.slots, IF step.kind = "null" THEN "null" ELSE "live")
      BY <2>1, <2>4
    <3> QED
      BY <2>1, <2>2, <3>1, <3>2, OverwritePasses
  <2>5. CASE AllocMayFail /\ Overwrite(step.slots, "null") /\ Fail(MALLOC_FAIL, index + Taken, 1)
    <3>1. FirstLabel(step) = 1
      BY <2>1 DEF FirstLabel
    <3>2. Fail(MALLOC_FAIL, index + Taken, FirstLabel(step))
      BY <2>5, <3>1
    <3> QED
      BY <2>1, <2>2, <2>5, <3>2, OverwriteRefused
  <2> QED
    BY <1>6, <2>3, <2>4, <2>5 DEF ReadString
<1>7. CASE AllocArray
  <2>1. step.kind = "calloc"
    BY <1>7 DEF AllocArray, Reading
  <2>2. UNCHANGED wild
    BY <1>7 DEF AllocArray
  <2>3. CASE Allocated("null") /\ Continue(0)
    <3>1. Allocated(IF step.kind = "calloc" THEN "null" ELSE "garbage")
      BY <2>1, <2>3
    <3>2. pc' = "reading"
      BY <2>3 DEF Continue
    <3> QED
      BY <2>1, <2>2, <3>1, <3>2, AllocatedPasses
  <2>4. CASE /\ AllocMayFail /\ Overwrite(step.slots, "null") /\ Fail(MALLOC_FAIL, index, 2)
             /\ UNCHANGED fields
    <3>1. FirstLabel(step) = 2
      BY <2>1 DEF FirstLabel
    <3>2. Fail(MALLOC_FAIL, index, FirstLabel(step))
      BY <2>4, <3>1
    <3> QED
      BY <2>1, <2>2, <2>4, <3>2, OverwriteRefused
  <2> QED
    BY <1>7, <2>3, <2>4 DEF AllocArray
<1>8. CASE AllocUncleared
  <2>1. step.kind = "malloc"
    BY <1>8 DEF AllocUncleared, Reading
  <2>2. UNCHANGED wild
    BY <1>8 DEF AllocUncleared
  <2>3. CASE Allocated("garbage") /\ Continue(0)
    <3>1. Allocated(IF step.kind = "calloc" THEN "null" ELSE "garbage")
      BY <2>1, <2>3
    <3>2. pc' = "reading"
      BY <2>3 DEF Continue
    <3> QED
      BY <2>1, <2>2, <3>1, <3>2, AllocatedPasses
  <2>4. CASE /\ AllocMayFail /\ Overwrite(step.slots, "null") /\ Fail(MALLOC_FAIL, index, 1)
             /\ UNCHANGED fields
    <3>1. FirstLabel(step) = 1
      BY <2>1 DEF FirstLabel
    <3>2. Fail(MALLOC_FAIL, index, FirstLabel(step))
      BY <2>4, <3>1
    <3> QED
      BY <2>1, <2>2, <2>4, <3>2, OverwriteRefused
  <2> QED
    BY <1>8, <2>3, <2>4 DEF AllocUncleared
<1>9. CASE GrowArray
  <2>1. step.kind = "realloc"
    BY <1>9 DEF GrowArray, Reading
  <2>2. Continue(0) /\ UNCHANGED <<ptr, leaked>>
    BY <1>9, <2>1 DEF GrowArray
  <2>3. UNCHANGED <<fields, wild>>
    BY <1>9 DEF GrowArray
  <2>4. ~Assigns(step) /\ step.kind \notin {"field", "free"}
    BY <2>1 DEF Assigns
  <2>5. pc' = "reading"
    BY <2>2 DEF Continue
  <2> QED
    BY <2>2, <2>3, <2>4, <2>5, KeepsMemory
<1>10. CASE TestSize
  <2>1. step.kind = "test"
    BY <1>10 DEF TestSize, Reading
  <2>2. UNCHANGED <<ptr, fields, wild, leaked>>
    BY <1>10 DEF TestSize, object, history
  <2>3. ~Assigns(step) /\ step.kind \notin {"field", "free"}
    BY <2>1 DEF Assigns
  <2>4. pc' = "reading"
    BY <1>10 DEF TestSize
  <2> QED
    BY <2>2, <2>3, <2>4, KeepsMemory
<1>11. CASE AwaitBody
  <2>1. step.kind = "await"
    BY <1>11 DEF AwaitBody, Reading
  <2>2. UNCHANGED <<ptr, fields, wild, leaked>>
    BY <1>11 DEF AwaitBody, object, history
  <2>3. ~Assigns(step) /\ step.kind \notin {"field", "free"} /\ MayRunOut(step, point)
    BY <2>1 DEF Assigns, MayRunOut
  <2>4. CASE Continue(0)
    <3>1. pc' = "reading"
      BY <2>4 DEF Continue
    <3> QED
      BY <2>2, <2>3, <3>1, KeepsMemory
  <2>5. CASE Fail(NOT_ENOUGH_BYTES, index, 1)
    <3>1. ret' > 0 /\ pc' = "cleanup" /\ scope' = 1 /\ at' = at
      BY <2>5 DEF Fail, NOT_ENOUGH_BYTES
    <3>2. \A f \in TestedFields :
            fields'[f] = IF step.kind = "field" /\ f = step.field THEN step.zero ELSE fields[f]
      BY <2>2, <2>3
    <3> QED
      BY <2>2, <2>3, <3>1, <3>2 DEF ShortMemory
  <2> QED
    BY <1>11, <2>4, <2>5 DEF AwaitBody
<1>12. CASE InflateArray
  <2>1. step.kind = "inflate member"
    BY <1>12 DEF InflateArray, Reading
  <2>2. UNCHANGED <<ptr, fields, wild, leaked>>
    BY <1>12 DEF InflateArray, object, history
  <2>3. ~Assigns(step) /\ step.kind \notin {"field", "free"}
    BY <2>1 DEF Assigns
  <2>4. pc' = "reading"
    BY <1>12 DEF InflateArray, Continue
  <2> QED
    BY <2>2, <2>3, <2>4, KeepsMemory
<1>13. CASE InflateBody
  <2>1. step.kind = "inflate"
    BY <1>13 DEF InflateBody, Reading
  <2>2. UNCHANGED <<fields, wild>>
    BY <1>13 DEF InflateBody
  <2>3. ~Assigns(step) /\ step.kind \notin {"field", "free"}
    BY <2>1 DEF Assigns
  <2>4. CASE Continue(0) /\ UNCHANGED <<ptr, leaked>>
    <3>1. pc' = "reading"
      BY <2>4 DEF Continue
    <3> QED
      BY <2>2, <2>3, <2>4, <3>1, KeepsMemory
  <2>5. CASE Return(COMPRESSION_ERROR)
    BY <2>1, <2>2, <2>5 DEF CorruptMemory
  <2> QED
    BY <1>13, <2>4, <2>5 DEF InflateBody
<1>16. CASE FreeLocal
  <2>1. step.kind = "free"
    BY <1>16 DEF FreeLocal, Reading
  <2>2. UNCHANGED <<fields, wild, leaked>>
    BY <1>16 DEF FreeLocal, history
  <2>3. Assigned(step) = {} /\ Made(step) = {} /\ MadeFields(step) = {}
    BY <2>1 DEF Assigned, Assigns, Makes, Made, MadeFields
  <2>4. pc' = "reading"
    BY <1>16 DEF FreeLocal, Continue
  <2>5. \A x \in Slots : ptr'[x] = IF x \in step.slots THEN "null" ELSE ptr[x]
    BY <1>16, MemoryNow DEF FreeLocal
  <2>6. \A x \in Slots : ptr'[x] \in PointerAfter(step, x, {ptr[x]})
    BY <2>1, <2>3, <2>5 DEF PointerAfter
  <2>7. \A f \in TestedFields : fields'[f] \in FieldAfter(format, step, f, {fields[f]})
    BY <2>1, <2>2, <2>3 DEF FieldAfter
  <2> QED
    BY <2>2, <2>4, <2>6, <2>7 DEF PassMemory
<1>14. ~Cleanup /\ ~ReturnFailure
  BY DEF Cleanup, ReturnFailure
<1>15. ~Succeed
  <2>1. at \in 1..Len(format.read) /\ Len(format.read) \in Nat
    BY StepType DEF Typed
  <2> QED
    BY <2>1 DEF Succeed
<1> QED
  BY <1>1, <1>2, <1>3, <1>4, <1>5, <1>6, <1>7, <1>8, <1>9, <1>10, <1>11, <1>12, <1>13, <1>14,
     <1>15, <1>16 DEF Library

-----------------------------------------------------------------------------
(***************************************************************************)
(* While the function reads                                                *)
(***************************************************************************)

\* What the invariant says of a function that is running
LEMMA RunningFacts ==
  ASSUME MemoryInv
  PROVE  /\ AsksInv /\ Typed /\ Chosen /\ ~wild /\ LosesLocals /\ LocalsGone
         /\ phase = "whole" => caller = "test" /\ length = written
         /\ pc \in {"reading", "cleanup"} => phase \in {"whole", "partial"}
         /\ pc = "reading" => OnPath /\ Agrees(known)
         /\ pc = "reading" /\ phase = "partial" => \A r \in all : Untouched(r, known) => Harmless(r)
BY DEF MemoryInv, AsksInv, Typed, WhileReading, NoWildFree

\* A careful step overwrites nothing that is live.
LEMMA OverwritesNoneLive ==
  ASSUME Agrees(known), Careful(format, all, step, point, known)
  PROVE  \A x \in Assigned(step) \union Made(step) : ptr[x] # "live"
BY DEF Agrees, Careful, Slots

\* What is known after the step is right of the object after it.
LEMMA PassAgrees ==
  ASSUME Typed, Agrees(known), PassMemory, UNCHANGED message,
         known' = MemoryAfter(format, step, known)
  PROVE  Agrees(known)'
<1>1. /\ DOMAIN known.ptr = Slots /\ DOMAIN known.fields = TestedFields
      /\ \A x \in Slots : ptr[x] \in known.ptr[x]
      /\ \A f \in TestedFields : known.fields[f] # {} => fields[f] \in known.fields[f]
  BY DEF Agrees
<1>2. known'.ptr = [x \in Slots |-> PointerAfter(step, x, known.ptr[x])]
  BY <1>1 DEF MemoryAfter
<1>3. known'.fields = [f \in TestedFields |-> FieldAfter(format, step, f, known.fields[f])]
  BY <1>1 DEF MemoryAfter
<1>4. \A x \in Slots : ptr'[x] \in known'.ptr[x]
  <2>1. \A x \in Slots : ptr'[x] \in PointerAfter(step, x, {ptr[x]})
    BY DEF PassMemory
  <2> QED
    BY <1>1, <1>2, <2>1 DEF PointerAfter
<1>5. \A f \in TestedFields : known'.fields[f] # {} => fields'[f] \in known'.fields[f]
  <2>1. \A f \in TestedFields : fields'[f] \in FieldAfter(format, step, f, {fields[f]})
    BY DEF PassMemory
  <2> QED
    BY <1>1, <1>3, <2>1 DEF FieldAfter
<1>6. Slots' = Slots /\ TestedFields' = TestedFields
  BY SameMessage
<1> QED
  BY <1>2, <1>3, <1>4, <1>5, <1>6 DEF Agrees

\* What the attempt has not touched yet is what it was before the step.
LEMMA PassUntouched ==
  ASSUME Typed, Agrees(known), PassMemory, UNCHANGED message,
         known' = MemoryAfter(format, step, known), NEW r \in all, Untouched(r, known)',
         Untouched(r, known) => Harmless(r)
  PROVE  Harmless(r)'
<1>1. r.slot \in Slots /\ r.within \subseteq Slots /\ \A t \in r.tests : t.field \in TestedFields
  BY ReleaseFacts DEF Typed
<1>2. DOMAIN known.ptr = Slots /\ DOMAIN known.fields = TestedFields
  BY DEF Agrees
<1>3. \A x \in Slots : known'.ptr[x] = PointerAfter(step, x, known.ptr[x])
  BY <1>2 DEF MemoryAfter
<1>4. \A f \in TestedFields : known'.fields[f] = FieldAfter(format, step, f, known.fields[f])
  BY <1>2 DEF MemoryAfter
<1>5. \A x \in Slots : known'.ptr[x] = Old => known.ptr[x] = Old /\ ptr'[x] = ptr[x]
  <2>1. \A x \in Slots : ptr'[x] \in PointerAfter(step, x, {ptr[x]})
    BY DEF PassMemory
  <2>2. Old # {"null"} /\ Old # {"live"} /\ Old # {"garbage"}
    BY DEF Old, Wild
  <2> QED
    BY <1>3, <2>1, <2>2 DEF PointerAfter
<1>6. \A f \in TestedFields : known'.fields[f] = {} => known.fields[f] = {} /\ fields'[f] = fields[f]
  <2>1. \A f \in TestedFields : fields'[f] \in FieldAfter(format, step, f, {fields[f]})
    BY DEF PassMemory
  <2> QED
    BY <1>4, <2>1 DEF FieldAfter
<1>7. /\ known'.ptr[r.slot] = Old
      /\ \A t \in r.tests : known'.fields[t.field] = {}
      /\ \A p \in r.within : known'.ptr[p] = Old
  BY DEF Untouched
<1>8. Harmless(r)
  BY <1>1, <1>5, <1>6, <1>7 DEF Untouched
<1>9. /\ ptr'[r.slot] = ptr[r.slot]
      /\ \A t \in r.tests : fields'[t.field] = fields[t.field]
      /\ \A p \in r.within : ptr'[p] = ptr[p]
  BY <1>1, <1>5, <1>6, <1>7
<1>10. Applies(r)' => Applies(r)
  BY <1>9 DEF Applies
<1> QED
  BY <1>8, <1>9, <1>10 DEF Harmless

\* A step that succeeds keeps the invariant.
LEMMA PassKeeps ==
  ASSUME MemoryInv, AsksInv', pc = "reading", at \in DOMAIN format.read, PassMemory, Passes,
         UNCHANGED <<caller, message, phase, length>>
  PROVE  MemoryInv'
<1>1. /\ Typed /\ Chosen /\ ~wild /\ LosesLocals
      /\ phase = "whole" => caller = "test" /\ length = written
      /\ phase \in {"whole", "partial"}
      /\ OnPath /\ Agrees(known)
      /\ phase = "partial" => \A r \in all : Untouched(r, known) => Harmless(r)
  BY RunningFacts
<1>2. at \in DOMAIN Path(format)
  BY <1>1 DEF OnPath
<1>3. /\ Careful(format, all, step, point, known)
      /\ Memory(format)[at + 1 + Skipped(format, step, point)] = MemoryAfter(format, step, known)
  BY <1>1, <1>2, CarefulHere
<1>4. at' = at + 1 + Skipped(format, step, point)
  BY <1>1, PassesTo
<1>5. format' = format /\ Slots' = Slots /\ all' = all /\ written' = written
  BY SameMessage
<1>6. known' = MemoryAfter(format, step, known)
  BY <1>3, <1>4, <1>5 DEF known
<1>7. Agrees(known)'
  BY <1>1, <1>6, PassAgrees
<1>8. phase = "partial" => \A r \in all : Untouched(r, known)' => Harmless(r)'
  BY <1>1, <1>6, PassUntouched
<1>9. pc' = "reading" /\ wild' = wild
  BY DEF PassMemory
<1>10. leaked' => leaked
  <2>1. \A x \in Assigned(step) \union Made(step) : ptr[x] # "live"
    BY <1>1, <1>3, OverwritesNoneLive
  <2>2. leaked' => leaked \/ \E x \in Assigned(step) \union Made(step) : ptr[x] = "live"
    BY DEF PassMemory
  <2> QED
    BY <1>1, <2>1, <2>2
<1>11. LocalsGone' /\ LosesLocals'
  BY <1>1, <1>5, <1>9, <1>10 DEF LocalsGone, LosesLocals
<1>12. WhileReading'
  BY <1>5, <1>7, <1>8, <1>9 DEF WhileReading
<1>13. BetweenAttempts' /\ WhileUnwinding' /\ AfterReturn'
  BY <1>9 DEF BetweenAttempts, WhileUnwinding, AfterReturn
<1>14. phase' = "whole" => caller' = "test" /\ length' = written'
  BY <1>1, <1>5
<1>15. phase' \in {"whole", "partial"}
  BY <1>1
<1>16. ReleasedOwnsNothing'
  BY <1>15 DEF ReleasedOwnsNothing
<1> QED
  BY <1>1, <1>9, <1>11, <1>12, <1>13, <1>14, <1>15, <1>16
     DEF MemoryInv, NoWildFree

-----------------------------------------------------------------------------
(***************************************************************************)
(* When a step fails                                                       *)
(***************************************************************************)

\* What is live after the failure is in reach of the free functions that
\* the failure leads to.
LEMMA CoversNext ==
  ASSUME Chosen, Orderly(format, step), Labelled(step) \subseteq functions, NEW first \in {1, 2},
         NEW mem, AgreesNext(mem), Covers(format, step, first, mem),
         UNCHANGED <<message, at>>, scope' = first
  PROVE  Covered(scope)'
<1>1. format' = format /\ Own' = Own /\ step' = step
  BY SameMessage DEF step
<1>2. Len(step.cleanup) \in Nat
  BY DEF Orderly
<1>3. SUFFICES ASSUME NEW x \in Own, ptr'[x] = "live"
               PROVE  \E d \in first..(Len(step.cleanup) + 1) : \E r \in Chain(format, step, d) :
                        r.slot = x /\ Applies(r)'
  BY <1>1 DEF Covered
<1>4. "live" \in mem.ptr[x]
  BY <1>3, ReleaseFacts DEF AgreesNext
<1>5. PICK d \in first..(Len(step.cleanup) + 1) :
        \E r \in Chain(format, step, d) : r.slot = x /\ Reaches(r, mem)
  BY <1>4 DEF Covers, Own
<1>6. d \in 1..(Len(step.cleanup) + 1)
  BY <1>2
<1>7. Chain(format, step, d) \subseteq all
  BY <1>6, ChainFacts DEF all
<1> QED
  BY <1>5, <1>7, ReachesApplies

\* A failure that finds the object in order keeps the invariant.
LEMMA FailKeeps ==
  ASSUME MemoryInv, AsksInv', pc = "reading", at \in DOMAIN format.read, Orderly(format, step),
         Labelled(step) \subseteq functions,
         pc' = "cleanup", UNCHANGED <<caller, message, phase, length, at>>, wild' = wild,
         leaked' => leaked, \A r \in all : Harmless(r)', Covered(scope)',
         ret' > 0 => NoneLive' \/ scope' <= Len(step.cleanup)
  PROVE  MemoryInv'
<1>1. /\ ~wild /\ LosesLocals
      /\ phase = "whole" => caller = "test" /\ length = written
      /\ phase \in {"whole", "partial"}
  BY RunningFacts
<1>2. /\ format' = format /\ Slots' = Slots /\ all' = all /\ written' = written
      /\ functions' = functions /\ step' = step
  BY SameMessage DEF step
<1>3. WhileUnwinding'
  <2>1. \A r \in all' : Harmless(r)'
    BY <1>2
  <2>2. /\ at' \in DOMAIN format'.read /\ Orderly(format', step')
        /\ Labelled(step') \subseteq functions'
    BY <1>2
  <2>3. ret' > 0 => NoneLive' \/ scope' <= Len(step'.cleanup)
    BY <1>2
  <2> QED
    BY <2>1, <2>2, <2>3 DEF WhileUnwinding
<1>4. BetweenAttempts' /\ WhileReading' /\ AfterReturn' /\ LocalsGone'
  BY DEF BetweenAttempts, WhileReading, AfterReturn, LocalsGone
<1>5. LosesLocals'
  BY <1>1, <1>2 DEF LosesLocals
<1>6. phase' = "whole" => caller' = "test" /\ length' = written'
  BY <1>1, <1>2
<1>7. phase' \in {"whole", "partial"}
  BY <1>1
<1>8. ReleasedOwnsNothing'
  BY <1>7 DEF ReleasedOwnsNothing
<1> QED
  BY <1>1, <1>3, <1>4, <1>5, <1>6, <1>7, <1>8 DEF MemoryInv, NoWildFree

\* Running out of bytes keeps it. Only a prefix runs out.
LEMMA ShortKeeps ==
  ASSUME MemoryInv, AsksInv', pc = "reading", at \in DOMAIN format.read, ShortMemory,
         UNCHANGED <<caller, message, phase, length>>
  PROVE  MemoryInv'
<1> DEFINE short == MemoryShort(step, known)
<1>1. /\ Typed /\ Chosen
      /\ phase = "whole" => caller = "test" /\ length = written
      /\ phase \in {"whole", "partial"}
      /\ OnPath /\ Agrees(known)
      /\ phase = "partial" => \A r \in all : Untouched(r, known) => Harmless(r)
  BY RunningFacts
<1>2. at \in DOMAIN Path(format)
  BY <1>1 DEF OnPath
<1>3. /\ Careful(format, all, step, point, known)
      /\ MayUnwind(step, point) => Labelled(step) \subseteq functions
  BY <1>1, <1>2, CarefulHere
<1>4. /\ pc' = "cleanup" /\ MayRunOut(step, point) /\ scope' = 1 /\ ret' > 0
      /\ UNCHANGED <<at, ptr, wild, leaked>>
  BY DEF ShortMemory
<1>5. /\ \A r \in all : Spares(r, short) \/ Untouched(r, short)
      /\ Covers(format, step, 1, short)
      /\ Len(step.cleanup) = 0 => \A x \in Own : "live" \notin known.ptr[x]
  <2>1. MayRunOut(step, point)
    BY <1>4
  <2> QED
    BY <1>3, <2>1, Zenon DEF Careful, Own
<1>6. phase = "partial"
  <2>1. written' = written
    BY SameMessage
  <2>2. length' + ret' <= written'
    BY <1>4 DEF AsksInv
  <2>3. ret' \in Int
    BY DEF AsksInv, Typed, TypeOK
  <2>4. length \in Nat /\ written \in Nat
    BY <1>1, NumbersNow
  <2>5. ret' > 0
    BY <1>4
  <2>6. length + ret' <= written
    BY <2>1, <2>2
  <2>7. \A a, b, c \in Int : b > 0 /\ a + b <= c => a # c
    OBVIOUS
  <2>8. length \in Int /\ written \in Int
    BY <2>4
  <2>9. length # written
    BY <2>3, <2>5, <2>6, <2>7, <2>8
  <2> QED
    BY <1>1, <2>9
<1>7. /\ DOMAIN known.ptr = Slots /\ DOMAIN known.fields = TestedFields
      /\ \A x \in Slots : ptr[x] \in known.ptr[x]
      /\ \A f \in TestedFields : known.fields[f] # {} => fields[f] \in known.fields[f]
  BY <1>1 DEF Agrees
<1>8. /\ short.ptr = known.ptr
      /\ \A f \in TestedFields :
           short.fields[f] = IF step.kind = "field" /\ f = step.field THEN {step.zero}
                             ELSE known.fields[f]
  BY <1>7 DEF MemoryShort
<1>9. \A f \in TestedFields :
        fields'[f] = IF step.kind = "field" /\ f = step.field THEN step.zero ELSE fields[f]
  BY DEF ShortMemory
<1> HIDE DEF short
<1>10. AgreesNext(short)
  BY <1>1, <1>4, <1>7, <1>8, <1>9, ReleaseFacts DEF AgreesNext
<1>12. \A r \in all : Harmless(r)'
  <2> SUFFICES ASSUME NEW r \in all
               PROVE  Harmless(r)'
    OBVIOUS
  <2>1. CASE Spares(r, short)
    BY <1>1, <1>10, <2>1, SparesHarmless
  <2>2. CASE Untouched(r, short)
    <3>1. r.slot \in Slots /\ r.within \subseteq Slots /\ \A t \in r.tests : t.field \in TestedFields
      BY <1>1, ReleaseFacts
    <3>2. \A t \in r.tests : known.fields[t.field] = {} /\ fields'[t.field] = fields[t.field]
      BY <1>8, <1>9, <2>2, <3>1 DEF Untouched
    <3>3. Untouched(r, known)
      BY <1>8, <2>2, <3>2 DEF Untouched
    <3>4. Harmless(r)
      BY <1>1, <1>6, <3>3
    <3>5. Applies(r)' => Applies(r)
      BY <1>4, <3>2 DEF Applies
    <3> QED
      BY <1>4, <3>4, <3>5 DEF Harmless
  <2> QED
    BY <1>5, <2>1, <2>2
<1>13. Orderly(format, step) /\ Labelled(step) \subseteq functions
  BY <1>3, <1>4 DEF Careful, MayUnwind
<1>14. Covered(scope)'
  BY <1>1, <1>4, <1>5, <1>10, <1>13, CoversNext
<1>15. NoneLive' \/ scope' <= Len(step.cleanup)
  <2>1. Len(step.cleanup) \in Nat
    BY <1>13 DEF Orderly
  <2>2. CASE Len(step.cleanup) = 0
    <3>1. \A x \in Own : ptr'[x] # "live"
      BY <1>1, <1>4, <1>5, <1>7, <2>2, ReleaseFacts
    <3> QED
      BY <3>1, SameMessage DEF NoneLive
  <2> QED
    BY <1>4, <2>1, <2>2
<1>16. wild' = wild /\ (leaked' => leaked)
  BY <1>4
<1> QED
  BY <1>4, <1>12, <1>13, <1>14, <1>15, <1>16, FailKeeps

\* So does an allocation that fails.
LEMMA RefusedKeeps ==
  ASSUME MemoryInv, AsksInv', pc = "reading", at \in DOMAIN format.read, RefusedMemory,
         UNCHANGED <<caller, message, phase, length>>
  PROVE  MemoryInv'
<1> DEFINE refused == MemoryRefused(step, known)
<1>1. /\ Typed /\ Chosen
      /\ phase = "whole" => caller = "test"
      /\ phase \in {"whole", "partial"}
      /\ OnPath /\ Agrees(known)
      /\ phase = "partial" => \A r \in all : Untouched(r, known) => Harmless(r)
  BY RunningFacts
<1>2. at \in DOMAIN Path(format)
  BY <1>1 DEF OnPath
<1>3. /\ Careful(format, all, step, point, known)
      /\ MayUnwind(step, point) => Labelled(step) \subseteq functions
  BY <1>1, <1>2, CarefulHere
<1>4. /\ pc' = "cleanup" /\ MayBeRefused(step) /\ scope' = FirstLabel(step)
      /\ UNCHANGED <<at, fields, wild>>
      /\ \A x \in Slots : ptr'[x] = IF x \in step.slots THEN "null" ELSE ptr[x]
  BY DEF RefusedMemory
<1>5. /\ \A r \in all : Settled(r, refused)
      /\ Covers(format, step, FirstLabel(step), refused)
  BY <1>3, <1>4 DEF Careful
<1>6. "test" \notin Caller => phase = "partial"
  BY <1>1 DEF Typed, TypeOK
<1>7. /\ DOMAIN known.ptr = Slots /\ DOMAIN known.fields = TestedFields
      /\ \A x \in Slots : ptr[x] \in known.ptr[x]
      /\ \A f \in TestedFields : known.fields[f] # {} => fields[f] \in known.fields[f]
  BY <1>1 DEF Agrees
<1>8. /\ refused.fields = known.fields
      /\ \A x \in Slots : refused.ptr[x] = IF x \in step.slots THEN {"null"} ELSE known.ptr[x]
  BY <1>7 DEF MemoryRefused
<1> HIDE DEF refused
<1>9. AgreesNext(refused)
  BY <1>1, <1>4, <1>7, <1>8, ReleaseFacts DEF AgreesNext
<1>11. \A r \in all : Harmless(r)'
  <2> SUFFICES ASSUME NEW r \in all
               PROVE  Harmless(r)'
    OBVIOUS
  <2>1. CASE Spares(r, refused)
    BY <1>1, <1>9, <2>1, SparesHarmless
  <2>2. CASE "test" \notin Caller /\ Untouched(r, refused)
    <3>1. r.slot \in Slots /\ r.within \subseteq Slots
      BY <1>1, ReleaseFacts
    <3>2. \A x \in Slots : refused.ptr[x] = Old => known.ptr[x] = Old /\ ptr'[x] = ptr[x]
      <4>1. Old # {"null"}
        BY DEF Old, Wild
      <4> QED
        BY <1>4, <1>8, <4>1
    <3>3. /\ refused.ptr[r.slot] = Old
          /\ \A t \in r.tests : refused.fields[t.field] = {}
          /\ \A p \in r.within : refused.ptr[p] = Old
      BY <2>2 DEF Untouched
    <3>4. Untouched(r, known)
      BY <1>8, <3>1, <3>2, <3>3 DEF Untouched
    <3>5. ptr'[r.slot] = ptr[r.slot] /\ \A p \in r.within : ptr'[p] = ptr[p]
      BY <3>1, <3>2, <3>3
    <3>6. Harmless(r)
      BY <1>1, <1>6, <2>2, <3>4
    <3>7. Applies(r)' => Applies(r)
      BY <1>4, <3>5 DEF Applies
    <3> QED
      BY <3>5, <3>6, <3>7 DEF Harmless
  <2> QED
    BY <1>5, <2>1, <2>2 DEF Settled
<1>12. Orderly(format, step) /\ Labelled(step) \subseteq functions
  BY <1>3, <1>4 DEF Careful, MayUnwind
<1>13. Covered(scope)'
  <2>1. FirstLabel(step) \in {1, 2}
    BY DEF FirstLabel
  <2> QED
    BY <1>1, <1>4, <1>5, <1>9, <1>12, <2>1, CoversNext
<1>14. ~(ret' > 0)
  BY DEF RefusedMemory, MALLOC_FAIL
<1>15. leaked' => leaked
  <2>1. \A x \in Assigned(step) \union Made(step) : ptr[x] # "live"
    BY <1>1, <1>3, OverwritesNoneLive
  <2>2. leaked' => leaked \/ \E x \in Assigned(step) : ptr[x] = "live"
    BY DEF RefusedMemory
  <2> QED
    BY <1>1, <2>1, <2>2
<1> QED
  BY <1>4, <1>11, <1>12, <1>13, <1>14, <1>15, FailKeeps

-----------------------------------------------------------------------------
(***************************************************************************)
(* A failure unwinds, and the function returns                             *)
(***************************************************************************)

\* What a failure on its way out leaves for the rest of the way
LEMMA UnwindsOn ==
  ASSUME Typed, pc = "cleanup", WhileUnwinding, scope <= Len(step.cleanup),
         Release(step.cleanup[scope]), scope' = scope + 1, UNCHANGED <<message, at, ret>>
  PROVE  /\ Fewer /\ UNCHANGED <<wild, leaked>>
         /\ \A r \in all : Harmless(r)'
         /\ Covered(scope)'
         /\ ret' > 0 => NoneLive' \/ scope' <= Len(step.cleanup)
<1> DEFINE inner == step.cleanup[scope]
<1>1. /\ \A r \in all : Harmless(r)
      /\ at \in DOMAIN format.read /\ Orderly(format, step) /\ Covered(scope)
      /\ Labelled(step) \subseteq functions
      /\ ret > 0 => NoneLive \/ scope <= Len(step.cleanup)
  BY DEF WhileUnwinding
<1>2. Len(step.cleanup) \in Nat /\ DOMAIN step.cleanup = 1..Len(step.cleanup)
  BY <1>1 DEF Orderly
<1>3. scope \in Nat \ {0} /\ Chosen /\ Own \subseteq Slots
  BY ReleaseFacts DEF Typed, TypeOK
<1>4. scope \in DOMAIN step.cleanup
  BY <1>2, <1>3
<1>5. inner \in functions
  BY <1>1, <1>4 DEF Labelled
<1>6. /\ Fewer /\ UNCHANGED <<wild, leaked>>
      /\ \A r \in inner : Applies(r) => ptr'[r.slot] # "live"
      /\ \A x \in Slots : ptr'[x] # ptr[x] => \E r \in inner : r.slot = x /\ Applies(r)
      /\ \A r \in all : Harmless(r)'
  BY <1>1, <1>5, ReleaseEffect
<1>7. inner \subseteq all
  BY <1>5 DEF all
<1> HIDE DEF inner
<1>8. \A x \in Own : ptr'[x] = "live" =>
        \E d \in (scope + 1)..(Len(step.cleanup) + 1) : \E r \in Chain(format, step, d) :
          r.slot = x /\ Applies(r)'
  <2> SUFFICES ASSUME NEW x \in Own, ptr'[x] = "live"
               PROVE  \E d \in (scope + 1)..(Len(step.cleanup) + 1) :
                        \E r \in Chain(format, step, d) : r.slot = x /\ Applies(r)'
    OBVIOUS
  <2>1. ptr[x] = "live"
    BY <1>3, <1>6 DEF Fewer
  <2>2. PICK d \in scope..(Len(step.cleanup) + 1) :
           \E r \in Chain(format, step, d) : r.slot = x /\ Applies(r)
    BY <1>1, <2>1 DEF Covered
  <2>3. PICK r \in Chain(format, step, d) : r.slot = x /\ Applies(r)
    BY <2>2
  <2>4. ~(\E i \in inner : i.slot = x /\ Applies(i))
    BY <1>6
  <2>5. d # scope
    <3>1. SUFFICES ASSUME d = scope
                   PROVE  FALSE
      OBVIOUS
    <3>2. Chain(format, step, d) = inner
      BY <3>1 DEF Chain, inner
    <3> QED
      BY <2>3, <2>4, <3>2
  <2>6. d \in (scope + 1)..(Len(step.cleanup) + 1) /\ d \in 1..(Len(step.cleanup) + 1)
    BY <1>2, <1>3, <2>5
  <2>7. r \in all
    BY <1>1, <1>3, <2>3, <2>6, ChainFacts DEF all
  <2>8. Nested(inner, Chain(format, step, d))
    BY <1>1, <1>4, <2>6 DEF Orderly, inner
  <2>9. \A p \in r.within : ptr'[p] # "null"
    <3> SUFFICES ASSUME NEW p \in r.within, ptr'[p] = "null"
                 PROVE  FALSE
      OBVIOUS
    <3>1. ptr[p] # "null"
      BY <2>3 DEF Applies
    <3>2. p \in Slots
      BY <1>3, <2>7, ReleaseFacts
    <3>3. PICK q \in inner : q.slot = p /\ Applies(q)
      BY <1>6, <3>1, <3>2
    <3>4. PICK i \in inner : i.slot = r.slot /\ i.tests \subseteq r.tests /\ i.within \subseteq r.within
      BY <2>3, <2>8, <3>3 DEF Nested
    <3>5. Applies(i)
      BY <2>3, <3>4 DEF Applies
    <3> QED
      BY <2>3, <2>4, <3>4, <3>5
  <2>10. Applies(r)'
    BY <1>6, <2>3, <2>9 DEF Applies, Fewer
  <2> QED
    BY <2>3, <2>6, <2>10
<1>9. format' = format /\ Own' = Own /\ step' = step
  BY SameMessage DEF step
<1>10. Covered(scope)'
  BY <1>8, <1>9 DEF Covered
<1>11. ret' > 0 => NoneLive' \/ scope' <= Len(step.cleanup)
  <2>1. CASE scope # Len(step.cleanup)
    <3>1. scope + 1 <= Len(step.cleanup)
      BY <1>2, <1>3, <2>1
    <3> QED
      BY <3>1
  <2>2. CASE scope = Len(step.cleanup)
    <3>1. inner = format.free
      BY <1>1, <1>3, <2>2 DEF Orderly, inner
    <3>2. \A d \in (scope + 1)..(Len(step.cleanup) + 1) : Chain(format, step, d) = inner
      BY <1>2, <2>2, <3>1 DEF Chain
    <3>3. \A r \in inner : Applies(r)' => Applies(r)
      BY <1>3, <1>6, <1>7, FewerApplies
    <3>4. \A x \in Own : ptr'[x] # "live"
      <4> SUFFICES ASSUME NEW x \in Own, ptr'[x] = "live"
                   PROVE  FALSE
        OBVIOUS
      <4>1. PICK r \in inner : r.slot = x /\ Applies(r)'
        BY <1>8, <3>2
      <4> QED
        BY <1>6, <3>3, <4>1
    <3> QED
      BY <1>9, <3>4 DEF NoneLive
  <2> QED
    BY <2>1, <2>2
<1> QED
  BY <1>6, <1>10, <1>11

\* A cleanup label keeps the invariant.
LEMMA CleanupKeeps ==
  ASSUME MemoryInv, AsksInv', Cleanup
  PROVE  MemoryInv'
<1>1. /\ Typed /\ ~wild /\ LosesLocals
      /\ phase = "whole" => caller = "test" /\ length = written
      /\ pc \in {"reading", "cleanup"} => phase \in {"whole", "partial"}
  BY RunningFacts
<1>2. /\ pc = "cleanup" /\ scope <= Len(step.cleanup)
      /\ Release(step.cleanup[scope]) /\ scope' = scope + 1
  BY DEF Cleanup
<1>3. UNCHANGED <<caller, message, phase, pc, at, length, ret>>
  BY DEF Cleanup, reader
<1>4. WhileUnwinding
  BY DEF MemoryInv
<1>5. /\ Fewer /\ UNCHANGED <<wild, leaked>>
      /\ \A r \in all : Harmless(r)'
      /\ Covered(scope)'
      /\ ret' > 0 => NoneLive' \/ scope' <= Len(step.cleanup)
  BY <1>1, <1>2, <1>3, <1>4, UnwindsOn
<1>6. /\ format' = format /\ Slots' = Slots /\ all' = all /\ written' = written
      /\ functions' = functions /\ step' = step
  BY <1>3, SameMessage DEF step
<1>7. at \in DOMAIN format.read /\ Orderly(format, step) /\ Labelled(step) \subseteq functions
  BY <1>2, <1>4 DEF WhileUnwinding
<1>8. WhileUnwinding'
  <2>1. \A r \in all' : Harmless(r)'
    BY <1>5, <1>6
  <2>2. /\ at' \in DOMAIN format'.read /\ Orderly(format', step')
        /\ Labelled(step') \subseteq functions'
    BY <1>3, <1>6, <1>7
  <2>3. ret' > 0 => NoneLive' \/ scope' <= Len(step'.cleanup)
    BY <1>5, <1>6
  <2> QED
    BY <1>5, <2>1, <2>2, <2>3 DEF WhileUnwinding
<1>9. pc' = "cleanup"
  BY <1>2, <1>3
<1>10. BetweenAttempts' /\ WhileReading' /\ AfterReturn' /\ LocalsGone'
  BY <1>9 DEF BetweenAttempts, WhileReading, AfterReturn, LocalsGone
<1>11. LosesLocals'
  BY <1>1, <1>5, <1>6 DEF LosesLocals
<1>12. phase' = "whole" => caller' = "test" /\ length' = written'
  BY <1>1, <1>3, <1>6
<1>13. phase' \in {"whole", "partial"}
  BY <1>1, <1>2, <1>3
<1>14. ReleasedOwnsNothing'
  BY <1>13 DEF ReleasedOwnsNothing
<1>15. ~wild'
  BY <1>1, <1>5
<1> QED
  BY <1>8, <1>10, <1>11, <1>12, <1>13, <1>14, <1>15 DEF MemoryInv, NoWildFree

\* A return touches no pointer of the object, and its local variables are gone.
LEMMA ReturnEffect ==
  ASSUME Typed, NEW value, Return(value), UNCHANGED <<message, fields>>
  PROVE  /\ \A x \in Own : ptr'[x] = ptr[x]
         /\ \A x \in Slots \intersect Local : ptr'[x] = "null"
         /\ leaked' => leaked \/ Slots \intersect Local # {}
         /\ \A r \in all : Applies(r)' <=> Applies(r)
         /\ \A r \in all : Harmless(r)' <=> Harmless(r)
         /\ NoneLive => NoneLive'
<1>1. ptr' = [s \in DOMAIN ptr |-> IF s \in Local THEN "null" ELSE ptr[s]]
  BY DEF Return
<1>2. leaked' = (leaked \/ \E s \in Local \intersect DOMAIN ptr : ptr[s] = "live")
  BY DEF Return
<1>3. DOMAIN ptr = Slots /\ Own \subseteq Slots /\ Own \intersect Local = {}
  BY MemoryNow, ReleaseFacts DEF Typed
<1>4. \A x \in Own : ptr'[x] = ptr[x]
  BY <1>1, <1>3
<1>5. \A x \in Slots \intersect Local : ptr'[x] = "null"
  BY <1>1, <1>3
<1>6. leaked' => leaked \/ Slots \intersect Local # {}
  <2>1. (\E s \in Local \intersect DOMAIN ptr : ptr[s] = "live") => Slots \intersect Local # {}
    BY <1>3
  <2> QED
    BY <1>2, <2>1, Zenon
<1>7. \A r \in all : r.slot \in Own /\ r.within \subseteq Own
  BY ReleaseFacts DEF Typed
<1>8. \A r \in all : Applies(r)' <=> Applies(r)
  BY <1>4, <1>7 DEF Applies
<1>9. \A r \in all : Harmless(r)' <=> Harmless(r)
  BY <1>4, <1>7, <1>8 DEF Harmless
<1>10. NoneLive => NoneLive'
  BY <1>4, SameMessage DEF NoneLive
<1> QED
  BY <1>4, <1>5, <1>6, <1>8, <1>9, <1>10

\* A return that finds the object in order keeps the invariant.
LEMMA ReturnKeeps ==
  ASSUME MemoryInv, AsksInv', pc \in {"reading", "cleanup"}, NEW value, Return(value),
         UNCHANGED <<caller, message, phase, length>>, UNCHANGED <<fields, wild>>,
         \A r \in all : Harmless(r)', Reachable', ret' > 0 => NoneLive'
  PROVE  MemoryInv'
<1>1. /\ Typed /\ ~wild /\ LosesLocals
      /\ phase = "whole" => caller = "test" /\ length = written
      /\ phase \in {"whole", "partial"}
  BY RunningFacts
<1>2. /\ \A x \in Slots \intersect Local : ptr'[x] = "null"
      /\ leaked' => leaked \/ Slots \intersect Local # {}
  BY <1>1, ReturnEffect
<1>3. pc' = "returned"
  BY DEF Return
<1>4. Slots' = Slots /\ all' = all /\ written' = written
  BY SameMessage
<1>5. \A r \in all' : Harmless(r)'
  BY <1>4
<1>6. AfterReturn'
  BY <1>5 DEF AfterReturn
<1>7. BetweenAttempts' /\ WhileReading' /\ WhileUnwinding'
  BY <1>3 DEF BetweenAttempts, WhileReading, WhileUnwinding
<1>8. LocalsGone' /\ LosesLocals'
  BY <1>1, <1>2, <1>4 DEF LocalsGone, LosesLocals
<1>9. phase' = "whole" => caller' = "test" /\ length' = written'
  BY <1>1, <1>4
<1>10. phase' \in {"whole", "partial"}
  BY <1>1
<1>11. ReleasedOwnsNothing'
  BY <1>10 DEF ReleasedOwnsNothing
<1>12. ~wild'
  BY <1>1
<1> QED
  BY <1>6, <1>7, <1>8, <1>9, <1>10, <1>11, <1>12 DEF MemoryInv, NoWildFree

\* A failure that has unwound leaves what the caller's free function reaches.
LEMMA ReturnFailureKeeps ==
  ASSUME MemoryInv, AsksInv', ReturnFailure
  PROVE  MemoryInv'
<1>1. Typed
  BY RunningFacts
<1>2. pc = "cleanup" /\ scope > Len(step.cleanup) /\ Return(ret)
  BY DEF ReturnFailure
<1>3. UNCHANGED <<caller, message, phase, length>> /\ UNCHANGED <<fields, wild>>
  BY DEF ReturnFailure, reader
<1>4. /\ \A r \in all : Harmless(r)
      /\ Orderly(format, step) /\ Covered(scope)
      /\ ret > 0 => NoneLive \/ scope <= Len(step.cleanup)
  BY <1>2 DEF MemoryInv, WhileUnwinding
<1>5. /\ \A x \in Own : ptr'[x] = ptr[x]
      /\ \A r \in all : Applies(r)' <=> Applies(r)
      /\ \A r \in all : Harmless(r)' <=> Harmless(r)
      /\ NoneLive => NoneLive'
  BY <1>1, <1>2, <1>3, ReturnEffect
<1>8. \A r \in all : Harmless(r)'
  BY <1>4, <1>5
<1>9. format' = format /\ Own' = Own
  BY <1>3, SameMessage
<1>10. Len(step.cleanup) \in Nat /\ scope \in Nat
  BY <1>1, <1>4 DEF Orderly, Typed, TypeOK
<1>11. Reachable'
  <2> SUFFICES ASSUME NEW x \in Own, ptr'[x] = "live"
               PROVE  \E r \in format.free : r.slot = x /\ Applies(r)'
    BY <1>9 DEF Reachable
  <2>1. PICK d \in scope..(Len(step.cleanup) + 1) :
           \E r \in Chain(format, step, d) : r.slot = x /\ Applies(r)
    BY <1>4, <1>5 DEF Covered
  <2>2. PICK r \in Chain(format, step, d) : r.slot = x /\ Applies(r)
    BY <2>1
  <2>3. Chain(format, step, d) = format.free
    BY <1>2, <1>10, <2>1 DEF Chain
  <2>4. r \in all
    BY <1>1, <2>2, <2>3, ReleaseFacts DEF Typed, all
  <2> QED
    BY <1>5, <2>2, <2>3, <2>4
<1>12. ret' > 0 => NoneLive'
  <2>1. ret' = ret
    BY <1>2 DEF Return
  <2>2. ~(scope <= Len(step.cleanup))
    BY <1>2, <1>10
  <2> QED
    BY <1>4, <1>5, <2>1, <2>2
<1> QED
  BY <1>2, <1>3, <1>8, <1>11, <1>12, ReturnKeeps

\* A return from a step at which the object is settled and in reach of the
\* caller keeps the invariant.
LEMMA SettledKeeps ==
  ASSUME MemoryInv, AsksInv', pc = "reading", NEW value, Return(value), ~(value > 0),
         UNCHANGED <<caller, message, phase, length>>, UNCHANGED <<fields, wild>>,
         \A r \in all : Settled(r, known), Leaves(format, known)
  PROVE  MemoryInv'
<1>1. /\ Typed /\ Chosen
      /\ phase = "whole" => caller = "test"
      /\ phase \in {"whole", "partial"}
      /\ Agrees(known)
      /\ phase = "partial" => \A r \in all : Untouched(r, known) => Harmless(r)
  BY RunningFacts
<1>2. /\ \A x \in Own : ptr'[x] = ptr[x]
      /\ \A r \in all : Applies(r)' <=> Applies(r)
      /\ \A r \in all : Harmless(r)' <=> Harmless(r)
  BY <1>1, ReturnEffect
<1>3. "test" \notin Caller => phase = "partial"
  BY <1>1 DEF Typed, TypeOK
<1>4. AgreesNext(known)
  BY <1>1, <1>2, ReleaseFacts DEF Agrees, AgreesNext
<1>5. \A r \in all : Harmless(r)'
  <2> SUFFICES ASSUME NEW r \in all
               PROVE  Harmless(r)'
    OBVIOUS
  <2>1. CASE Spares(r, known)
    BY <1>1, <1>4, <2>1, SparesHarmless
  <2>2. CASE "test" \notin Caller /\ Untouched(r, known)
    BY <1>1, <1>2, <1>3, <2>2
  <2> QED
    BY <2>1, <2>2 DEF Settled
<1>6. Reachable'
  <2> SUFFICES ASSUME NEW x \in Own, ptr'[x] = "live"
               PROVE  \E r \in format.free : r.slot = x /\ Applies(r)'
    BY SameMessage DEF Reachable
  <2>1. "live" \in known.ptr[x]
    BY <1>4 DEF AgreesNext
  <2>2. PICK r \in format.free : r.slot = x /\ Reaches(r, known)
    BY <2>1 DEF Leaves, Own
  <2>3. r \in all
    BY <1>1, <2>2, ReleaseFacts DEF all
  <2>4. Applies(r)'
    BY <1>1, <1>4, <2>2, <2>3, ReachesApplies
  <2> QED
    BY <2>2, <2>4
<1>7. ~(ret' > 0)
  BY DEF Return
<1> QED
  BY <1>5, <1>6, <1>7, ReturnKeeps

\* A success leaves an object that may be freed, and all of which is then freed.
LEMMA SucceedKeeps ==
  ASSUME MemoryInv, AsksInv', Succeed
  PROVE  MemoryInv'
<1>1. pc = "reading" /\ at > Len(format.read) /\ Return(SUCCESS)
  BY DEF Succeed
<1>2. UNCHANGED <<caller, message, phase, length>> /\ UNCHANGED <<fields, wild>>
  BY DEF Succeed, reader
<1>3. Typed /\ Chosen /\ OnPath
  BY <1>1, RunningFacts
<1>4. Len(format.read) \in Nat /\ at \in 1..(Len(format.read) + 1)
  BY <1>3, NumbersNow
<1>5. at = Behind(format)
  BY <1>1, <1>4 DEF Behind
<1>6. at \in DOMAIN Path(format)
  BY <1>3 DEF OnPath
<1>7. (\A r \in all : Settled(r, known)) /\ Leaves(format, known)
  BY <1>3, <1>5, <1>6, DisciplineHere DEF Discipline, Everything, functions, all, known
<1>8. ~(SUCCESS > 0)
  BY DEF SUCCESS
<1> QED
  BY <1>1, <1>2, <1>7, <1>8, SettledKeeps

\* So does data that cannot be decompressed.
LEMMA CorruptKeeps ==
  ASSUME MemoryInv, AsksInv', pc = "reading", at \in DOMAIN format.read, CorruptMemory,
         UNCHANGED <<caller, message, phase, length>>
  PROVE  MemoryInv'
<1>1. Chosen /\ at \in DOMAIN Path(format)
  BY RunningFacts DEF OnPath
<1>2. step.kind = "inflate"
  BY DEF CorruptMemory
<1>3. Return(COMPRESSION_ERROR) /\ UNCHANGED <<fields, wild>>
  BY DEF CorruptMemory
<1>4. Careful(format, all, step, point, known)
  BY <1>1, CarefulHere
<1>5. (\A r \in all : Settled(r, known)) /\ Leaves(format, known)
  BY <1>2, <1>4 DEF Careful
<1>6. ~(COMPRESSION_ERROR > 0)
  BY DEF COMPRESSION_ERROR
<1> QED
  BY <1>3, <1>5, <1>6, SettledKeeps

-----------------------------------------------------------------------------
(***************************************************************************)
(* The callers                                                             *)
(***************************************************************************)

\* An object between two attempts is one of which nothing is known yet.
LEMMA CallReadKeeps ==
  ASSUME MemoryInv, AsksInv', CallRead
  PROVE  MemoryInv'
<1>1. /\ AsksInv /\ Typed /\ Chosen /\ ~wild /\ LosesLocals /\ LocalsGone
      /\ phase = "whole" => caller = "test" /\ length = written
  BY RunningFacts
<1>2. pc = "idle" /\ phase \in {"whole", "partial"}
  BY DEF CallRead
<1>3. UNCHANGED <<caller, message, phase, length>> /\ UNCHANGED <<ptr, fields, wild, leaked>>
  BY DEF CallRead, object, history
<1>4. index = 0
  BY <1>1, <1>2 DEF AsksInv
<1>5. length \in Nat
  BY <1>1, NumbersNow
<1>6. at' = 1 /\ pc' = "reading"
  BY <1>4, <1>5 DEF CallRead
<1>7. NoneLive /\ (phase = "partial" => \A r \in all : Harmless(r))
  BY <1>2 DEF MemoryInv, BetweenAttempts
<1>8. format' = format /\ Slots' = Slots /\ TestedFields' = TestedFields /\ all' = all
      /\ written' = written
  BY <1>3, SameMessage
<1>9. known' = Start(format)
  <2>1. Memory(format)[1] = Start(format)
    BY <1>1, DisciplineHere DEF Discipline
  <2> QED
    BY <1>6, <1>8, <2>1 DEF known
<1>10. Agrees(known)'
  <2>1. /\ Start(format).ptr = [x \in Slots |-> Old]
        /\ Start(format).fields = [f \in TestedFields |-> {}]
    BY DEF Start, Slots, TestedFields
  <2>2. \A x \in Slots : ptr[x] \in Old
    <3>1. \A x \in Own : ptr[x] # "live"
      BY <1>7 DEF NoneLive
    <3>2. \A x \in Slots \intersect Local : ptr[x] = "null"
      BY <1>1, <1>2 DEF LocalsGone
    <3>3. \A x \in Slots : x \in Own \/ x \in Slots \intersect Local
      BY DEF Own, Members, Slots
    <3> QED
      BY <1>1, <3>1, <3>2, <3>3, MemoryNow DEF States, Old, Wild
  <2> HIDE DEF Start
  <2> QED
    BY <1>3, <1>8, <1>9, <2>1, <2>2 DEF Agrees
<1>11. phase = "partial" => \A r \in all : Harmless(r)'
  <2>1. \A r \in all : Harmless(r)' <=> Harmless(r)
    BY <1>3 DEF Harmless, Applies
  <2> QED
    BY <1>7, <2>1
<1>12. WhileReading'
  BY <1>3, <1>8, <1>10, <1>11 DEF WhileReading
<1>13. BetweenAttempts' /\ WhileUnwinding' /\ AfterReturn'
  BY <1>6 DEF BetweenAttempts, WhileUnwinding, AfterReturn
<1>14. LocalsGone' /\ LosesLocals'
  BY <1>1, <1>3, <1>6, <1>8 DEF LocalsGone, LosesLocals
<1>15. phase' = "whole" => caller' = "test" /\ length' = written'
  BY <1>1, <1>3, <1>8
<1>16. phase' \in {"whole", "partial"}
  BY <1>2, <1>3
<1>17. ReleasedOwnsNothing'
  BY <1>16 DEF ReleasedOwnsNothing
<1>18. ~wild'
  BY <1>1, <1>3
<1> QED
  BY <1>12, <1>13, <1>14, <1>15, <1>16, <1>17, <1>18 DEF MemoryInv, NoWildFree

\* What the caller's free function leaves
LEMMA CallerFrees ==
  ASSUME MemoryInv, AsksInv', pc = "returned", Release(format.free), UNCHANGED message
  PROVE  /\ NoneLive' /\ ~wild' /\ LocalsGone' /\ LosesLocals'
         /\ (\A r \in all : Harmless(r))' /\ Reachable'
         /\ \A s \in DOMAIN ptr' : ptr'[s] # "live"
<1>1. Typed /\ Chosen /\ ~wild /\ LocalsGone /\ LosesLocals
  BY RunningFacts
<1>2. (\A r \in all : Harmless(r)) /\ Reachable
  BY DEF MemoryInv, AfterReturn
<1>3. /\ NoneLive' /\ UNCHANGED <<wild, leaked>>
      /\ \A x \in Slots \intersect Local : ptr'[x] = ptr[x]
      /\ \A r \in all : Harmless(r)'
  BY <1>1, <1>2, FreeLeavesNothing
<1>4. all' = all /\ Slots' = Slots /\ Own' = Own
  BY SameMessage
<1>5. DOMAIN ptr' = Slots'
  BY DEF AsksInv, Typed, TypeOK
<1>6. \A x \in Slots \intersect Local : ptr'[x] = "null"
  BY <1>1, <1>3 DEF LocalsGone
<1>10. \A s \in DOMAIN ptr' : ptr'[s] # "live"
  <2>1. \A x \in Slots : x \in Own \/ x \in Slots \intersect Local
    BY DEF Own, Members, Slots
  <2> QED
    BY <1>3, <1>4, <1>5, <1>6, <2>1 DEF NoneLive
<1>7. Reachable'
  BY <1>3 DEF Reachable, NoneLive
<1>8. ~wild' /\ LocalsGone' /\ LosesLocals'
  BY <1>1, <1>3, <1>4, <1>6 DEF LocalsGone, LosesLocals
<1>9. (\A r \in all : Harmless(r))'
  BY <1>3, <1>4
<1> QED
  BY <1>3, <1>7, <1>8, <1>9, <1>10

\* The test starts over with an object that has been freed.
LEMMA FinishWholeKeeps ==
  ASSUME MemoryInv, AsksInv', FinishWhole
  PROVE  MemoryInv'
<1>1. phase = "whole" /\ pc = "returned" /\ Release(format.free) /\ pc' = "idle"
  BY DEF FinishWhole
<1>2. UNCHANGED <<caller, message>>
  BY DEF FinishWhole
<1>3. phase' \in {"partial", "aborted"}
  BY DEF FinishWhole
<1>4. caller = "test"
  BY <1>1 DEF MemoryInv
<1>5. /\ NoneLive' /\ ~wild' /\ LocalsGone' /\ LosesLocals'
      /\ (\A r \in all : Harmless(r))'
      /\ \A s \in DOMAIN ptr' : ptr'[s] # "live"
  BY <1>1, <1>2, CallerFrees
<1>6. BetweenAttempts'
  BY <1>5 DEF BetweenAttempts
<1>7. WhileReading' /\ WhileUnwinding' /\ AfterReturn'
  BY <1>1 DEF WhileReading, WhileUnwinding, AfterReturn
<1>8. phase' # "whole" /\ pc' \notin {"reading", "cleanup"}
  BY <1>1, <1>3
<1>9. ReleasedOwnsNothing'
  BY <1>5 DEF ReleasedOwnsNothing
<1> QED
  BY <1>5, <1>6, <1>7, <1>8, <1>9 DEF MemoryInv, NoWildFree

\* What is allocated when a read asks for more bytes is nothing.
LEMMA RetryKeeps ==
  ASSUME MemoryInv, AsksInv', RetryExactly \/ ReceiveMore
  PROVE  MemoryInv'
<1>1. phase = "partial" /\ pc = "returned" /\ ret > 0 /\ pc' = "idle"
  BY DEF RetryExactly, ReceiveMore, NotEnoughBytes
<1>2. UNCHANGED <<caller, message>> /\ UNCHANGED <<ptr, fields, wild, leaked>>
  BY DEF RetryExactly, ReceiveMore, object, history
<1>3. phase' = "partial" \/ (phase' = "aborted" /\ caller = "test")
  BY <1>1 DEF RetryExactly, ReceiveMore
<1>4. (\A r \in all : Harmless(r)) /\ NoneLive /\ ~wild /\ LocalsGone /\ LosesLocals
  BY <1>1 DEF MemoryInv, AfterReturn, NoWildFree
<1>5. Slots' = Slots /\ Own' = Own /\ all' = all
  BY <1>2, SameMessage
<1>6. NoneLive' /\ LocalsGone' /\ LosesLocals'
  BY <1>1, <1>2, <1>4, <1>5 DEF NoneLive, LocalsGone, LosesLocals
<1>7. (\A r \in all : Harmless(r))'
  <2>1. \A r \in all : Harmless(r)' <=> Harmless(r)
    BY <1>2 DEF Harmless, Applies
  <2> QED
    BY <1>4, <1>5, <2>1
<1>8. BetweenAttempts'
  BY <1>6, <1>7 DEF BetweenAttempts
<1>9. WhileReading' /\ WhileUnwinding' /\ AfterReturn'
  BY <1>1 DEF WhileReading, WhileUnwinding, AfterReturn
<1>10. phase' # "whole" /\ pc' \notin {"reading", "cleanup"}
  BY <1>1, <1>3
<1>11. ReleasedOwnsNothing'
  <2>1. caller' = caller
    BY <1>2
  <2> QED
    BY <1>3, <2>1 DEF ReleasedOwnsNothing
<1>12. ~wild'
  BY <1>2, <1>4
<1> QED
  BY <1>6, <1>8, <1>9, <1>10, <1>11, <1>12 DEF MemoryInv, NoWildFree

\* A test that is aborted frees nothing any more.
LEMMA AbortKeeps ==
  ASSUME MemoryInv, AsksInv', AbortTest
  PROVE  MemoryInv'
<1>1. pc = "returned" /\ caller = "test" /\ phase' = "aborted"
  BY DEF AbortTest
<1>2. UNCHANGED <<caller, message, pc, ret>> /\ UNCHANGED <<ptr, fields, wild, leaked>>
  BY DEF AbortTest, object, history
<1>3. /\ \A r \in all : Harmless(r)
      /\ Reachable /\ ~wild /\ LocalsGone /\ LosesLocals
      /\ ret > 0 => NoneLive
  BY <1>1 DEF MemoryInv, AfterReturn, NoWildFree
<1>4. format' = format /\ Slots' = Slots /\ Own' = Own /\ all' = all
  BY <1>2, SameMessage
<1>5. \A r \in all : Harmless(r)' <=> Harmless(r)
  BY <1>2 DEF Harmless, Applies
<1>6. (\A r \in all : Harmless(r))'
  BY <1>3, <1>4, <1>5
<1>7. Reachable'
  BY <1>2, <1>3, <1>4 DEF Reachable, Applies
<1>8. LocalsGone' /\ LosesLocals' /\ (NoneLive => NoneLive')
  BY <1>1, <1>2, <1>3, <1>4 DEF LocalsGone, LosesLocals, NoneLive
<1>9. ret' > 0 => NoneLive'
  BY <1>2, <1>3, <1>8
<1>10. AfterReturn'
  BY <1>6, <1>7, <1>9 DEF AfterReturn
<1>11. pc' = "returned"
  BY <1>1, <1>2
<1>12. BetweenAttempts' /\ WhileReading' /\ WhileUnwinding'
  BY <1>11 DEF BetweenAttempts, WhileReading, WhileUnwinding
<1>13. ReleasedOwnsNothing'
  <2>1. caller' = "test"
    BY <1>1, <1>2
  <2> QED
    BY <1>1, <2>1 DEF ReleasedOwnsNothing
<1>14. ~wild'
  BY <1>2, <1>3
<1> QED
  BY <1>1, <1>8, <1>10, <1>11, <1>12, <1>13, <1>14 DEF MemoryInv, NoWildFree

\* The object is freed for good.
LEMMA ReleaseKeeps ==
  ASSUME MemoryInv, AsksInv', GiveUp \/ ReleaseMessage
  PROVE  MemoryInv'
<1>1. pc = "returned" /\ Release(format.free) /\ phase' \in {"aborted", "released"}
  BY DEF GiveUp, ReleaseMessage
<1>2. UNCHANGED <<caller, message, pc>>
  BY DEF GiveUp, ReleaseMessage
<1>3. /\ NoneLive' /\ ~wild' /\ LocalsGone' /\ LosesLocals'
      /\ (\A r \in all : Harmless(r))' /\ Reachable'
      /\ \A s \in DOMAIN ptr' : ptr'[s] # "live"
  BY <1>1, <1>2, CallerFrees
<1>4. AfterReturn'
  BY <1>3 DEF AfterReturn
<1>5. pc' = "returned"
  BY <1>1, <1>2
<1>6. BetweenAttempts' /\ WhileReading' /\ WhileUnwinding'
  BY <1>5 DEF BetweenAttempts, WhileReading, WhileUnwinding
<1>7. ReleasedOwnsNothing'
  BY <1>3 DEF ReleasedOwnsNothing
<1> QED
  BY <1>1, <1>3, <1>4, <1>5, <1>6, <1>7 DEF MemoryInv, NoWildFree

-----------------------------------------------------------------------------
(***************************************************************************)
(* The theorems                                                            *)
(***************************************************************************)

\* MemoryInv holds at the start.
LEMMA InitMemory == Init => MemoryInv
<1> SUFFICES ASSUME Init
             PROVE  MemoryInv
  OBVIOUS
<1>1. AsksInv /\ Typed /\ Chosen
  BY InitAsks DEF AsksInv, Typed
<1>2. pc = "idle" /\ wild = FALSE /\ leaked = FALSE
  BY DEF Init
<1>3. /\ phase = "whole" => caller = "test" /\ length = written
      /\ phase \in {"whole", "partial"}
  BY DEF Init, InitTest, InitStream
<1>4. \A x \in Slots : ptr[x] \in {"garbage", "null"}
  BY DEF Init, InitTest, InitStream
<1>5. phase = "partial" => \A x \in Slots : ptr[x] = "null"
  BY DEF Init, InitTest, InitStream
<1>6. NoneLive
  BY <1>1, <1>4, ReleaseFacts DEF NoneLive
<1>7. phase = "partial" => \A r \in all : Harmless(r)
  BY <1>1, <1>5, ReleaseFacts DEF Harmless, Wild
<1>8. BetweenAttempts
  BY <1>6, <1>7 DEF BetweenAttempts
<1>9. WhileReading /\ WhileUnwinding /\ AfterReturn
  BY <1>2 DEF WhileReading, WhileUnwinding, AfterReturn
<1>10. ReleasedOwnsNothing
  BY <1>3 DEF ReleasedOwnsNothing
<1>11. \A x \in Slots \intersect Local : ptr[x] = "null"
  BY DEF Init, InitTest, InitStream
<1>12. LocalsGone /\ LosesLocals
  BY <1>2, <1>11 DEF LocalsGone, LosesLocals
<1> QED
  BY <1>1, <1>2, <1>3, <1>8, <1>9, <1>10, <1>12 DEF MemoryInv, NoWildFree

\* The library keeps it.
LEMMA LibraryKeeps ==
  ASSUME MemoryInv, AsksInv', Library
  PROVE  MemoryInv'
<1>1. Typed /\ Chosen
  BY RunningFacts
<1>2. Results /\ UNCHANGED <<caller, message, phase, length>>
  BY <1>1, LibraryResults
<1>3. CASE Cleanup
  BY <1>3, CleanupKeeps
<1>4. CASE ReturnFailure
  BY <1>4, ReturnFailureKeeps
<1>5. CASE Succeed
  BY <1>5, SucceedKeeps
<1>6. CASE ~Cleanup /\ ~ReturnFailure /\ ~Succeed
  <2>1. pc = "reading" /\ at \in DOMAIN format.read
    BY <1>6 DEF Library, ReadHeader, CheckMinimum, NullPointers, ReadInts, ReadField, ReadString,
                AllocArray, AllocUncleared, GrowArray, TestSize, AwaitBody, InflateBody,
                InflateArray, FreeLocal, Reading
  <2>2. at \in DOMAIN Path(format)
    BY <2>1 DEF MemoryInv, AsksInv, OnPath
  <2>3. Careful(format, all, step, point, known)
    BY <1>1, <2>1, <2>2, CarefulHere
  <2>4. AllocMayFail => step.kind # "realloc"
    BY <2>3 DEF Careful
  <2>5. CASE PassMemory
    <3>1. pc' = "reading"
      BY <2>5 DEF PassMemory
    <3>2. Passes
      BY <1>2, <2>1, <3>1 DEF Results, RunsOut, TakeSome, AwaitsBody, Fail, OutOfMemory, Corrupt,
                              Unwinds, Succeeds
    <3> QED
      BY <1>2, <2>1, <2>5, <3>2, PassKeeps
  <2>6. CASE ShortMemory
    BY <1>2, <2>1, <2>6, ShortKeeps
  <2>7. CASE RefusedMemory
    BY <1>2, <2>1, <2>7, RefusedKeeps
  <2>8. CASE CorruptMemory
    BY <1>2, <2>1, <2>8, CorruptKeeps
  <2>9. OnPath
    BY <2>1, RunningFacts
  <2> QED
    BY <1>1, <2>1, <2>4, <2>5, <2>6, <2>7, <2>8, <2>9, ReadingEffect
<1> QED
  BY <1>3, <1>4, <1>5, <1>6

\* Every step keeps it.
LEMMA NextMemory == MemoryInv /\ [Next]_vars => MemoryInv'
<1> SUFFICES ASSUME MemoryInv, [Next]_vars
             PROVE  MemoryInv'
  OBVIOUS
<1>1. AsksInv'
  BY NextAsks DEF MemoryInv
<1>2. CASE Library
  BY <1>1, <1>2, LibraryKeeps
<1>3. CASE Callers
  BY <1>1, <1>3, CallReadKeeps, FinishWholeKeeps, RetryKeeps, AbortKeeps, ReleaseKeeps DEF Callers
<1>4. CASE UNCHANGED vars
  <2>1. /\ UNCHANGED <<caller, message, phase, pc, at, scope, length, ret>>
        /\ UNCHANGED <<ptr, fields, wild, leaked>>
    BY <1>4 DEF vars, reader, object, history
  <2>2. /\ format' = format /\ Slots' = Slots /\ TestedFields' = TestedFields /\ all' = all
        /\ written' = written /\ Own' = Own /\ functions' = functions
    BY <2>1, SameMessage
  <2>3. step' = step /\ known' = known
    BY <2>1, <2>2 DEF step, known
  <2>4. /\ Agrees(known)' <=> Agrees(known)
        /\ NoneLive' <=> NoneLive
        /\ Reachable' <=> Reachable
        /\ Covered(scope)' <=> Covered(scope)
    BY <2>1, <2>2, <2>3
       DEF Agrees, NoneLive, Reachable, Covered, Applies
  <2>5. \A r \in all : Harmless(r)' <=> Harmless(r)
    BY <2>1 DEF Harmless, Applies
  <2>6. BetweenAttempts'
    BY <2>1, <2>2, <2>4, <2>5 DEF MemoryInv, BetweenAttempts
  <2>7. WhileReading'
    BY <2>1, <2>2, <2>3, <2>4, <2>5 DEF MemoryInv, WhileReading
  <2>8. WhileUnwinding'
    BY <2>1, <2>2, <2>3, <2>4, <2>5 DEF MemoryInv, WhileUnwinding
  <2>9. AfterReturn'
    BY <2>1, <2>2, <2>4, <2>5 DEF MemoryInv, AfterReturn
  <2>10. ReleasedOwnsNothing'
    BY <2>1 DEF MemoryInv, ReleasedOwnsNothing
  <2>11. /\ phase' = "whole" => caller' = "test" /\ length' = written'
         /\ pc' \in {"reading", "cleanup"} => phase' \in {"whole", "partial"}
    BY <2>1, <2>2 DEF MemoryInv
  <2>12. LocalsGone' /\ LosesLocals' /\ ~wild'
    BY <2>1, <2>2 DEF LocalsGone, LosesLocals, MemoryInv, NoWildFree
  <2> QED
    BY <1>1, <2>6, <2>7, <2>8, <2>9, <2>10, <2>11, <2>12 DEF MemoryInv, NoWildFree
<1> QED
  BY <1>2, <1>3, <1>4 DEF Next, Finished

\* The inductive invariant: while a function reads, the object is what is
\* known of it; while a failure unwinds, all that is live is in reach of the
\* free functions still to come, and none of them finds anything unassigned.
THEOREM KnowsTheObject == Spec => []MemoryInv
<1> QED
  BY InitMemory, NextMemory, PTL DEF Spec

\* No free function, called by the caller or by a cleanup label, is given a
\* pointer that was never assigned or has been freed, whatever was read of
\* the message before the failure.
THEOREM FreesNoWildPointer == Spec => []NoWildFree
<1>1. MemoryInv => NoWildFree
  BY DEF MemoryInv
<1> QED
  BY <1>1, KnowsTheObject, PTL

\* What a read that asks for more bytes had allocated it has freed.
THEOREM IncompleteFreesAll == Spec => []IncompleteOwnsNothing
<1>1. MemoryInv => IncompleteOwnsNothing
  <2> SUFFICES ASSUME MemoryInv, pc = "returned", ret > 0
               PROVE  \A s \in DOMAIN ptr : ptr[s] # "live"
    BY DEF IncompleteOwnsNothing
  <2>1. NoneLive
    BY DEF MemoryInv, AfterReturn
  <2>2. DOMAIN ptr = Slots
    BY RunningFacts, MemoryNow
  <2>3. \A x \in Slots \intersect Local : ptr[x] = "null"
    BY DEF MemoryInv, LocalsGone
  <2>4. \A x \in Slots : x \in Own \/ x \in Slots \intersect Local
    BY DEF Own, Members, Slots
  <2> QED
    BY <2>1, <2>2, <2>3, <2>4 DEF NoneLive
<1> QED
  BY <1>1, KnowsTheObject, PTL

\* The caller's free function releases all that the reads have allocated:
\* every test under which it looks at a pointer holds once a read function
\* has set that pointer.
THEOREM FreesTheObject == Spec => []ReleasedOwnsNothing
<1>1. MemoryInv => ReleasedOwnsNothing
  BY DEF MemoryInv
<1> QED
  BY <1>1, KnowsTheObject, PTL

=============================================================================
