---------------------- MODULE MCIncrementalReadProof ----------------------
(***************************************************************************)
(* The assumptions of the proofs evaluated on every login message. The run *)
(* of this module checks their inductive invariant on the early messages:  *)
(* no pointers, strings, arrays under a condition, an array of structs     *)
(* that have strings.                                                      *)
(***************************************************************************)
EXTENDS IncrementalReadMemoryProof, MCIncrementalRead

\* Where each step of a message starts.
Offsets(m) ==
  LET at[k \in 1..(Len(m.read) + 1)] ==
        IF k = 1 THEN 0 ELSE at[k - 1] + Consumed(m.read[k - 1])
  IN at

ASSUME LoginMessagesAssumption ==
  \A m \in AllMessages : Layout(m, Offsets(m)) /\ Discipline(m)

\* The early messages, with one length of each string and array of bytes,
\* and with no realm or two
AssemblyMessages ==
  {CMD_AUTH_LOGON_CHALLENGE_Client(1),
   version2_CMD_AUTH_LOGON_PROOF_Client(0), version2_CMD_AUTH_LOGON_PROOF_Client(1),
   version2_CMD_AUTH_RECONNECT_PROOF_Server, version2_CMD_AUTH_RECONNECT_PROOF_Client,
   version2_CMD_XFER_INITIATE(2), version2_CMD_XFER_DATA(0), version2_CMD_XFER_DATA(2),
   version2_CMD_XFER_ACCEPT, version2_CMD_XFER_RESUME}
  \union {version2_CMD_AUTH_LOGON_CHALLENGE_Server(s, 1, 2) : s \in BOOLEAN}
  \union {version2_CMD_AUTH_LOGON_PROOF_Server(s) : s \in BOOLEAN}
  \union {version2_CMD_AUTH_RECONNECT_CHALLENGE_Server(s) : s \in BOOLEAN}
  \union {version2_CMD_REALM_LIST_Server(r) : r \in {q \in RealmsOf({FALSE}) : Len(q) # 1}}
=============================================================================
