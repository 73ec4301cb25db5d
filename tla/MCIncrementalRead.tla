------------------------- MODULE MCIncrementalRead -------------------------
(***************************************************************************)
(* IncrementalRead on the messages of the login library, with arrays of    *)
(* 0, 1 and 2 elements, strings of 0 to 2 characters, and every outcome of *)
(* the tests that select members.                                          *)
(***************************************************************************)
EXTENDS IncrementalRead, LoginMessages

Lengths == 0..2

RealmsOf(builds) ==
  {<<>>}
  \union {<<[name |-> n, address |-> 1, build |-> b]>> : n \in {0, 2}, b \in builds}
  \union {<<[name |-> 1, address |-> 0, build |-> b], [name |-> 0, address |-> 2, build |-> c]>> :
          b \in builds, c \in builds}

\* module "all" and protocol version 2
EarlyMessages ==
  {CMD_AUTH_LOGON_CHALLENGE_Client(a) : a \in Lengths}
  \union {CMD_AUTH_RECONNECT_CHALLENGE_Client(a) : a \in {1}}
  \union {version2_CMD_AUTH_LOGON_CHALLENGE_Server(s, g, p) : s \in BOOLEAN, g \in {0, 1}, p \in {0, 2}}
  \union {version2_CMD_AUTH_LOGON_PROOF_Client(k) : k \in Lengths}
  \union {version2_CMD_AUTH_LOGON_PROOF_Server(s) : s \in BOOLEAN}
  \union {version2_CMD_AUTH_RECONNECT_CHALLENGE_Server(s) : s \in BOOLEAN}
  \union {version2_CMD_AUTH_RECONNECT_PROOF_Server, version2_CMD_AUTH_RECONNECT_PROOF_Client}
  \union {version2_CMD_REALM_LIST_Server(r) : r \in RealmsOf({FALSE})}
  \union {version2_CMD_XFER_INITIATE(n) : n \in Lengths}
  \union {version2_CMD_XFER_DATA(n) : n \in Lengths}
  \union {version2_CMD_XFER_ACCEPT, version2_CMD_XFER_RESUME, version2_CMD_XFER_CANCEL}

\* protocol versions 3 to 8
LateMessages ==
  {version3_CMD_AUTH_LOGON_CHALLENGE_Server(TRUE, s) : s \in {{}, {"pin"}}}
  \union {version3_CMD_AUTH_LOGON_PROOF_Client(k, s) : k \in {0, 1}, s \in {{}, {"pin"}}}
  \union {version3_CMD_SURVEY_RESULT(n) : n \in Lengths}
  \union {version5_CMD_AUTH_LOGON_CHALLENGE_Server(TRUE, s) : s \in SUBSET {"pin", "matrix"}}
  \union {version5_CMD_AUTH_LOGON_PROOF_Client(k, s) : k \in {1}, s \in SUBSET {"pin", "matrix"}}
  \union {version5_CMD_AUTH_LOGON_PROOF_Server(s) : s \in BOOLEAN}
  \union {version5_CMD_AUTH_RECONNECT_PROOF_Server}
  \union {version5_CMD_REALM_LIST_Server(r) : r \in RealmsOf({FALSE})}
  \union {version6_CMD_REALM_LIST_Server(r) : r \in RealmsOf({FALSE})}
  \union {version8_CMD_AUTH_LOGON_CHALLENGE_Server(s, f) :
            s \in BOOLEAN, f \in {{}, {"authenticator"}, {"pin", "matrix", "authenticator"}}}
  \union {version8_CMD_AUTH_LOGON_PROOF_Client(k, s, n) :
            k \in {0, 1}, s \in {{"pin", "matrix"}, {"pin", "authenticator"}, {"authenticator"}}, n \in {0, 2}}
  \union {version8_CMD_AUTH_LOGON_PROOF_Server(s) : s \in BOOLEAN}
  \union {version8_CMD_AUTH_RECONNECT_CHALLENGE_Server(s) : s \in BOOLEAN}
  \union {version8_CMD_AUTH_RECONNECT_PROOF_Server}
  \union {version8_CMD_REALM_LIST_Server(r) : r \in RealmsOf(BOOLEAN)}

AllMessages == EarlyMessages \union LateMessages

\* The request for the realm list, which has members on the wire only.
RealmListRequest == {CMD_REALM_LIST_Client}

AllSlots ==
  {Member(n) : n \in {"account_name", "generator", "large_safe_prime", "telemetry_keys",
                      "authenticator", "realms", "filename", "data"}}
  \union RealmPointers(1) \union RealmPointers(2)
=============================================================================
