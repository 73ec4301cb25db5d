-------------------------- MODULE MCWorldReadProof --------------------------
(***************************************************************************)
(* The messages of MCWorldRead, none of which has a compressed part, with  *)
(* which all assumptions of the proofs about WorldRead are evaluated.      *)
(***************************************************************************)
EXTENDS MCWorldRead, MCWorldMemoryProof, WorldReadUncompressedProof
=============================================================================
