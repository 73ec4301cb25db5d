--------------------------- MODULE MCCppReadProof ---------------------------
(***************************************************************************)
(* The path of each read function on its message, on which the assumption  *)
(* of the proofs is evaluated.                                             *)
(***************************************************************************)
EXTENDS MCCppRead, CppReadProof

\* A path and what steps first to last add to it.  That its beginning is looked
\* at first keeps TLC from putting off all but the last step.
RECURSIVE Walk(_, _, _, _)
Walk(m, path, first, last) ==
  IF first > last \/ 1 \notin DOMAIN path THEN path
  ELSE IF first = last
    THEN IF first \notin DOMAIN path \/ Ends(m, m.read[first], path[first]) THEN path
         ELSE path @@ (first + 1 + Skipped(m, m.read[first], path[first])
                         :> After(m, m.read[first], path[first]))
  ELSE LET middle == (first + last) \div 2
       IN Walk(m, Walk(m, path, first, middle), middle + 1, last)

PathOf(m) == Walk(m, 1 :> Start(m), 1, Len(m.read))
=============================================================================
