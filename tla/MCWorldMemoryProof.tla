------------------------- MODULE MCWorldMemoryProof -------------------------
(***************************************************************************)
(* The path of each read function on its message and what is known of the  *)
(* object on the way, with which the assumptions of WorldReadProof and     *)
(* WorldReadMemoryProof are evaluated on the messages of a run, those with *)
(* a compressed part among them.                                           *)
(***************************************************************************)
EXTENDS MCWorldExceptions, WorldReadMemoryProof

\* A path and what steps first to last add to it.  That its beginning is looked
\* at first keeps TLC from putting off all but the last step.
RECURSIVE Walk(_, _, _, _)
Walk(m, path, first, last) ==
  IF first > last \/ 1 \notin DOMAIN path THEN path
  ELSE IF first = last
    THEN IF first \notin DOMAIN path THEN path
         ELSE path @@ (first + 1 + Skipped(m, m.read[first], path[first])
                         :> After(m.read[first], path[first]))
  ELSE LET middle == (first + last) \div 2
       IN Walk(m, Walk(m, path, first, middle), middle + 1, last)

PathOf(m) == Walk(m, 1 :> [offset |-> 0, tally |-> 0, inflated |-> FALSE], 1, Len(m.read))

\* The same for what is known of the object
RECURSIVE WalkMemory(_, _, _, _, _)
WalkMemory(m, path, mems, first, last) ==
  IF first > last \/ 1 \notin DOMAIN mems THEN mems
  ELSE IF first = last
    THEN IF first \notin DOMAIN path THEN mems
         ELSE mems @@ (first + 1 + Skipped(m, m.read[first], path[first])
                         :> MemoryAfter(m, m.read[first], mems[first]))
  ELSE LET middle == (first + last) \div 2
       IN WalkMemory(m, path, WalkMemory(m, path, mems, first, middle), middle + 1, last)

MemoryOf(m) == WalkMemory(m, PathOf(m), 1 :> Start(m), 1, Len(m.read))
=============================================================================
