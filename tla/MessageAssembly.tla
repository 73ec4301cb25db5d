-------------------------- MODULE MessageAssembly --------------------------
(***************************************************************************)
(* What the read functions promise a caller whose message arrives in       *)
(* pieces: the read can be repeated on a growing prefix of the message, it *)
(* succeeds when, and only when, every byte of the message has been        *)
(* received, and until then the caller is never told to wait for more      *)
(* bytes than the message still has.  How the bytes are parsed, what is    *)
(* allocated and what a failed attempt cleans up is left to                *)
(* IncrementalRead and WorldRead, which implement this specification.      *)
(***************************************************************************)
EXTENDS Naturals

CONSTANTS Sizes,    \* the sizes of the messages that may arrive
          MayFail   \* whether memory may run out, or the peer hang up

VARIABLES size,       \* the bytes of the message that arrives
          received,   \* how many of them the caller has
          status      \* "waiting", "complete" or "failed"

vars == <<size, received, status>>

Init ==
  /\ size \in Sizes
  /\ received \in {0, 1}
  /\ status = "waiting"

\* Some more bytes of the message reach the caller, never more than it has.
Arrive ==
  /\ status = "waiting"
  /\ \E more \in 1..(size - received) : received' = received + more
  /\ UNCHANGED <<size, status>>

\* A read succeeds: the whole message is there.
Complete ==
  /\ status = "waiting"
  /\ received = size
  /\ status' = "complete"
  /\ UNCHANGED <<size, received>>

\* A read ran out of memory or the peer hung up: the caller abandons what
\* it has.
Fail ==
  /\ MayFail
  /\ status = "waiting"
  /\ status' = "failed"
  /\ received' = 0
  /\ UNCHANGED size

Next == Arrive \/ Complete \/ Fail

Spec == Init /\ [][Next]_vars

\* When nothing fails every message is eventually complete.
FairSpec == Spec /\ WF_vars(Next)
=============================================================================
