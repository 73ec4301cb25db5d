-------------------------- MODULE CppLoginMessages --------------------------
(***************************************************************************)
(* The messages of the C++ login library, one definition each, in the      *)
(* vocabulary of CppFormat.  A message is a function from its wires to     *)
(* records of what its functions in login.cpp do on them.  Its header is   *)
(* the opcode only: no read function is told where the message ends, and   *)
(* the two that have their size on the wire skip it.                       *)
(*                                                                         *)
(* Left out is CMD_REALM_LIST_Client, which is written with four bytes     *)
(* that ClientOpcode::read does not take.                                  *)
(***************************************************************************)
EXTENDS CppFormat

\* Of the two numbers of bytes, both without the opcode, the first adds up the
\* calls of the write function.  The second is what the size function gives, to
\* reserve a vector or for a size on the wire that leaves out the uncounted ones.
Counting(uncounted, read, written, size) ==
  [header |-> 1, opcode |-> 1, uncounted |-> uncounted,
   read |-> read, written |-> 1 + written, sizeField |-> U16(size)]
Login(read, written, size) == Counting(1, read, written, size)
PlainLogin(sizes, written, size) == [w \in {Fixed} |-> Login(Ints(sizes), written, size)]

\* A byte with the length, and the string
String(w) == Run(1) \o Run(U8(w.len))
write_string(w) == 1 + w.len

\* result, and the branch taken when it is SUCCESS
LoginResult == {"LoginResult::SUCCESS", "LoginResult::FAIL_BANNED"}
Succeeds(w) == Is(w, "LoginResult::SUCCESS")

(***************************************************************************)
(* all.hpp                                                                 *)
(***************************************************************************)
Version == PlainStruct(<<1, 1, 1, 2>>, 1 + 1 + 1 + 2)

\* The size is of what follows it.
CMD_AUTH_LOGON_CHALLENGE_Client ==
  [w \in Wires(Lengths, {0}, {}, {}) |->
    Counting(1 + 3, Ints(<<1, 2, 4>>) \o Version.read \o Ints(Repeat(5, 4)) \o String(w),
             1 + 2 + 4 + Version.written + 5 * 4 + write_string(w), 30 + w.len)]

CMD_AUTH_RECONNECT_CHALLENGE_Client ==
  [w \in Wires(Lengths, {0}, {}, {}) |->
    Counting(1 + 3, Ints(<<1, 2, 4>>) \o Version.read \o Ints(Repeat(5, 4)) \o String(w),
             1 + 2 + 4 + Version.written + 5 * 4 + write_string(w), 30 + w.len)]

(***************************************************************************)
(* version2.hpp                                                            *)
(***************************************************************************)
version2_Realm(w) ==
  Struct(Ints(<<4, 1>>) \o Cstring(w) \o Cstring(w) \o Ints(<<4, 1, 1, 1>>),
         4 + 1 + 2 * write_cstring(w) + 4 + 1 + 1 + 1, 14 + 2 * w.len)

TelemetryKey == PlainStruct(<<2, 4>> \o Repeat(4, 1) \o Repeat(20, 1), 2 + 4 + 4 * 1 + 20 * 1)

\* The part of a challenge that all versions have
ServerKeys(w) ==
  Ints(Repeat(32, 1) \o <<1>>) \o Run(U8(w.len)) \o Ints(<<1>>) \o Run(U8(w.len))
  \o Ints(Repeat(32, 1) \o Repeat(16, 1))
ServerKeysWritten(w) == 32 * 1 + (1 + w.len) + (1 + w.len) + 32 * 1 + 16 * 1

version2_CMD_AUTH_LOGON_CHALLENGE_Server ==
  [w \in Wires(Lengths, {0}, {LoginResult}, {}) |->
    Login(Ints(<<1, 1>>) \o When(Succeeds(w), ServerKeys(w)),
          1 + 1 + Bytes(Succeeds(w), ServerKeysWritten(w)),
          2 + Bytes(Succeeds(w), 82 + 2 * w.len))]

\* The part of a proof that all versions have
ClientProof(w) ==
  Ints(Repeat(32, 1) \o Repeat(20, 1) \o Repeat(20, 1) \o <<1>>)
  \o Each(U8(w.count), TelemetryKey.read)
ClientProofWritten(w) == 32 * 1 + 20 * 1 + 20 * 1 + 1 + w.count * TelemetryKey.written

version2_CMD_AUTH_LOGON_PROOF_Client ==
  [w \in Wires({0}, Counts, {}, {}) |->
    Login(ClientProof(w), ClientProofWritten(w), 73 + 30 * w.count)]

version2_CMD_AUTH_LOGON_PROOF_Server ==
  [w \in Wires({0}, {0}, {LoginResult}, {}) |->
    Login(Ints(<<1>>) \o When(Succeeds(w), Ints(Repeat(20, 1) \o <<4>>)),
          1 + Bytes(Succeeds(w), 20 * 1 + 4), 1 + Bytes(Succeeds(w), 24))]

version2_CMD_AUTH_RECONNECT_CHALLENGE_Server ==
  [w \in Wires({0}, {0}, {LoginResult}, {}) |->
    Login(Ints(<<1>>) \o When(Succeeds(w), Ints(Repeat(16, 1) \o Repeat(16, 1))),
          1 + Bytes(Succeeds(w), 16 * 1 + 16 * 1), 1 + Bytes(Succeeds(w), 32))]

version2_CMD_AUTH_RECONNECT_PROOF_Server == PlainLogin(<<1>>, 1, 1)

version2_CMD_AUTH_RECONNECT_PROOF_Client ==
  PlainLogin(Repeat(16, 1) \o Repeat(20, 1) \o Repeat(20, 1) \o <<1>>,
             16 * 1 + 20 * 1 + 20 * 1 + 1, 57)

\* The size is of what follows it.
RealmList(number, fixed, realms, realm) ==
  Counting(1 + 2, Ints(<<2, 4, number>>) \o Each(realms, realm.read) \o Ints(<<2>>),
           2 + 4 + number + realms * realm.written + 2, fixed + realms * realm.size)

version2_CMD_REALM_LIST_Server ==
  [w \in Wires(Lengths, Counts, {}, {}) |-> RealmList(1, 7, U8(w.count), version2_Realm(w))]

version2_CMD_XFER_INITIATE ==
  [w \in Wires(Lengths, {0}, {}, {}) |->
    Login(String(w) \o Ints(<<8>> \o Repeat(16, 1)), write_string(w) + 8 + 16 * 1, 25 + w.len)]

version2_CMD_XFER_DATA ==
  [w \in Wires({0}, Counts, {}, {}) |->
    Login(Ints(<<2>>) \o Run(U16(w.count)), 2 + w.count * 1, 2 + w.count)]

version2_CMD_XFER_ACCEPT == PlainLogin(<<>>, 0, 0)
version2_CMD_XFER_RESUME == PlainLogin(<<8>>, 8, 8)
version2_CMD_XFER_CANCEL == PlainLogin(<<>>, 0, 0)

(***************************************************************************)
(* version3.hpp, where the security flag has one value at a time           *)
(***************************************************************************)
SecurityFlag == {"SecurityFlag::NONE", "SecurityFlag::PIN"}
version3_Pin(w) == Is(w, "SecurityFlag::PIN")

version3_CMD_AUTH_LOGON_CHALLENGE_Server ==
  [w \in Wires(Lengths, {0}, {LoginResult, SecurityFlag}, {}) |->
    Login(Ints(<<1, 1>>)
          \o When(Succeeds(w), ServerKeys(w) \o Ints(<<1>>)
                               \o When(version3_Pin(w), Ints(<<4>> \o Repeat(16, 1)))),
          1 + 1 + Bytes(Succeeds(w), ServerKeysWritten(w) + 1
                                     + Bytes(version3_Pin(w), 4 + 16 * 1)),
          2 + Bytes(Succeeds(w), 83 + 2 * w.len + Bytes(version3_Pin(w), 20)))]

version3_CMD_AUTH_LOGON_PROOF_Client ==
  [w \in Wires({0}, Counts, {SecurityFlag}, {}) |->
    Login(ClientProof(w) \o Ints(<<1>>)
          \o When(version3_Pin(w), Ints(Repeat(16, 1) \o Repeat(20, 1))),
          ClientProofWritten(w) + 1 + Bytes(version3_Pin(w), 16 * 1 + 20 * 1),
          74 + 30 * w.count + Bytes(version3_Pin(w), 36))]

version3_CMD_SURVEY_RESULT ==
  [w \in Wires({0}, Counts, {}, {}) |->
    Login(Ints(<<4, 1, 2>>) \o Run(U16(w.count)), 4 + 1 + 2 + w.count * 1, 7 + w.count)]

(***************************************************************************)
(* version5.hpp, where it is a set of flags                                *)
(***************************************************************************)
Pin(w) == Is(w, "SECURITY_FLAG_PIN")
MatrixCard(w) == Is(w, "SECURITY_FLAG_MATRIX_CARD")
version5_Flags == {"SECURITY_FLAG_PIN", "SECURITY_FLAG_MATRIX_CARD"}

version5_Realm(w) ==
  Struct(Ints(<<1, 1, 1>>) \o Cstring(w) \o Cstring(w) \o Ints(<<4, 1, 1, 1>>),
         1 + 1 + 1 + 2 * write_cstring(w) + 4 + 1 + 1 + 1, 12 + 2 * w.len)

SecurityChallenge(w) ==
  Ints(<<1>>) \o When(Pin(w), Ints(<<4>> \o Repeat(16, 1)))
  \o When(MatrixCard(w), Ints(<<1, 1, 1, 1, 8>>))
SecurityChallengeWritten(w) ==
  1 + Bytes(Pin(w), 4 + 16 * 1) + Bytes(MatrixCard(w), 1 + 1 + 1 + 1 + 8)
SecurityChallengeSize(w) == 1 + Bytes(Pin(w), 20) + Bytes(MatrixCard(w), 12)

version5_CMD_AUTH_LOGON_CHALLENGE_Server ==
  [w \in Wires(Lengths, {0}, {LoginResult}, version5_Flags) |->
    Login(Ints(<<1, 1>>) \o When(Succeeds(w), ServerKeys(w) \o SecurityChallenge(w)),
          1 + 1 + Bytes(Succeeds(w), ServerKeysWritten(w) + SecurityChallengeWritten(w)),
          2 + Bytes(Succeeds(w), 82 + 2 * w.len + SecurityChallengeSize(w)))]

SecurityProof(w) ==
  Ints(<<1>>) \o When(Pin(w), Ints(Repeat(16, 1) \o Repeat(20, 1)))
  \o When(MatrixCard(w), Ints(Repeat(20, 1)))
SecurityProofWritten(w) == 1 + Bytes(Pin(w), 16 * 1 + 20 * 1) + Bytes(MatrixCard(w), 20 * 1)
SecurityProofSize(w) == 1 + Bytes(Pin(w), 36) + Bytes(MatrixCard(w), 20)

version5_CMD_AUTH_LOGON_PROOF_Client ==
  [w \in Wires({0}, Counts, {}, version5_Flags) |->
    Login(ClientProof(w) \o SecurityProof(w),
          ClientProofWritten(w) + SecurityProofWritten(w),
          73 + 30 * w.count + SecurityProofSize(w))]

version5_CMD_AUTH_LOGON_PROOF_Server ==
  [w \in Wires({0}, {0}, {LoginResult}, {}) |->
    Login(Ints(<<1>>) \o When(Succeeds(w), Ints(Repeat(20, 1) \o <<4, 2>>)),
          1 + Bytes(Succeeds(w), 20 * 1 + 4 + 2), 1 + Bytes(Succeeds(w), 26))]

version5_CMD_AUTH_RECONNECT_PROOF_Server == PlainLogin(<<1, 2>>, 1 + 2, 3)

version5_CMD_REALM_LIST_Server ==
  [w \in Wires(Lengths, Counts, {}, {}) |-> RealmList(1, 7, U8(w.count), version5_Realm(w))]

version6_CMD_REALM_LIST_Server ==
  [w \in Wires(Lengths, Counts, {}, {}) |-> RealmList(2, 8, U16(w.count), version5_Realm(w))]

(***************************************************************************)
(* version8.hpp                                                            *)
(***************************************************************************)
Authenticator(w) == Is(w, "SECURITY_FLAG_AUTHENTICATOR")
version8_Flags == version5_Flags \union {"SECURITY_FLAG_AUTHENTICATOR"}

SpecifiesBuild(w) == Is(w, "REALM_FLAG_SPECIFY_BUILD")
\* Mutant: the size of a realm forgets the optional build.
version8_Realm_NoBuild(w) ==
  Struct(version5_Realm(w).read \o When(SpecifiesBuild(w), Version.read),
         version5_Realm(w).written + Bytes(SpecifiesBuild(w), Version.written),
         12 + 2 * w.len)
version8_Realm(w) ==
  Struct(version5_Realm(w).read \o When(SpecifiesBuild(w), Version.read),
         version5_Realm(w).written + Bytes(SpecifiesBuild(w), Version.written),
         12 + 2 * w.len + Bytes(SpecifiesBuild(w), 5))

version8_CMD_AUTH_LOGON_CHALLENGE_Server ==
  [w \in Wires(Lengths, {0}, {LoginResult}, version8_Flags) |->
    Login(Ints(<<1, 1>>)
          \o When(Succeeds(w), ServerKeys(w) \o SecurityChallenge(w)
                               \o When(Authenticator(w), Ints(<<1>>))),
          1 + 1 + Bytes(Succeeds(w), ServerKeysWritten(w) + SecurityChallengeWritten(w)
                                     + Bytes(Authenticator(w), 1)),
          2 + Bytes(Succeeds(w), 82 + 2 * w.len + SecurityChallengeSize(w)
                                 + Bytes(Authenticator(w), 1)))]

version8_CMD_AUTH_LOGON_PROOF_Client ==
  [w \in Wires(Lengths, Counts, {}, version8_Flags) |->
    Login(ClientProof(w) \o SecurityProof(w) \o When(Authenticator(w), String(w)),
          ClientProofWritten(w) + SecurityProofWritten(w)
          + Bytes(Authenticator(w), write_string(w)),
          73 + 30 * w.count + SecurityProofSize(w) + Bytes(Authenticator(w), 1 + w.len))]

\* Every other result is named in the second branch.
version8_CMD_AUTH_LOGON_PROOF_Server ==
  [w \in Wires({0}, {0}, {LoginResult}, {}) |->
    Login(Ints(<<1>>) \o (IF Succeeds(w) THEN Ints(Repeat(20, 1) \o <<4, 4, 2>>) ELSE Ints(<<2>>)),
          1 + (IF Succeeds(w) THEN 20 * 1 + 4 + 4 + 2 ELSE 2),
          1 + (IF Succeeds(w) THEN 30 ELSE 2))]

version8_CMD_AUTH_RECONNECT_CHALLENGE_Server == version2_CMD_AUTH_RECONNECT_CHALLENGE_Server

version8_CMD_AUTH_RECONNECT_PROOF_Server == PlainLogin(<<1, 2>>, 1 + 2, 3)

version8_CMD_REALM_LIST_Server ==
  [w \in Wires(Lengths, Counts, {}, {"REALM_FLAG_SPECIFY_BUILD"}) |->
    RealmList(2, 8, U16(w.count), version8_Realm(w))]

(***************************************************************************)
(* The messages of each header file                                        *)
(***************************************************************************)
all_Messages ==
  [CMD_AUTH_LOGON_CHALLENGE_Client |-> CMD_AUTH_LOGON_CHALLENGE_Client,
   CMD_AUTH_RECONNECT_CHALLENGE_Client |-> CMD_AUTH_RECONNECT_CHALLENGE_Client]

version2_Messages ==
  [CMD_AUTH_LOGON_CHALLENGE_Server |-> version2_CMD_AUTH_LOGON_CHALLENGE_Server,
   CMD_AUTH_LOGON_PROOF_Client |-> version2_CMD_AUTH_LOGON_PROOF_Client,
   CMD_AUTH_LOGON_PROOF_Server |-> version2_CMD_AUTH_LOGON_PROOF_Server,
   CMD_AUTH_RECONNECT_CHALLENGE_Server |-> version2_CMD_AUTH_RECONNECT_CHALLENGE_Server,
   CMD_AUTH_RECONNECT_PROOF_Server |-> version2_CMD_AUTH_RECONNECT_PROOF_Server,
   CMD_AUTH_RECONNECT_PROOF_Client |-> version2_CMD_AUTH_RECONNECT_PROOF_Client,
   CMD_REALM_LIST_Server |-> version2_CMD_REALM_LIST_Server,
   CMD_XFER_INITIATE |-> version2_CMD_XFER_INITIATE,
   CMD_XFER_DATA |-> version2_CMD_XFER_DATA,
   CMD_XFER_ACCEPT |-> version2_CMD_XFER_ACCEPT,
   CMD_XFER_RESUME |-> version2_CMD_XFER_RESUME,
   CMD_XFER_CANCEL |-> version2_CMD_XFER_CANCEL]

version3_Messages ==
  [CMD_AUTH_LOGON_CHALLENGE_Server |-> version3_CMD_AUTH_LOGON_CHALLENGE_Server,
   CMD_AUTH_LOGON_PROOF_Client |-> version3_CMD_AUTH_LOGON_PROOF_Client,
   CMD_SURVEY_RESULT |-> version3_CMD_SURVEY_RESULT]

version5_Messages ==
  [CMD_AUTH_LOGON_CHALLENGE_Server |-> version5_CMD_AUTH_LOGON_CHALLENGE_Server,
   CMD_AUTH_LOGON_PROOF_Client |-> version5_CMD_AUTH_LOGON_PROOF_Client,
   CMD_AUTH_LOGON_PROOF_Server |-> version5_CMD_AUTH_LOGON_PROOF_Server,
   CMD_AUTH_RECONNECT_PROOF_Server |-> version5_CMD_AUTH_RECONNECT_PROOF_Server,
   CMD_REALM_LIST_Server |-> version5_CMD_REALM_LIST_Server]

version6_Messages == [CMD_REALM_LIST_Server |-> version6_CMD_REALM_LIST_Server]

version8_Messages ==
  [CMD_AUTH_LOGON_CHALLENGE_Server |-> version8_CMD_AUTH_LOGON_CHALLENGE_Server,
   CMD_AUTH_LOGON_PROOF_Client |-> version8_CMD_AUTH_LOGON_PROOF_Client,
   CMD_AUTH_LOGON_PROOF_Server |-> version8_CMD_AUTH_LOGON_PROOF_Server,
   CMD_AUTH_RECONNECT_CHALLENGE_Server |-> version8_CMD_AUTH_RECONNECT_CHALLENGE_Server,
   CMD_AUTH_RECONNECT_PROOF_Server |-> version8_CMD_AUTH_RECONNECT_PROOF_Server,
   CMD_REALM_LIST_Server |-> version8_CMD_REALM_LIST_Server]

login_Messages ==
  <<all_Messages, version2_Messages, version3_Messages, version5_Messages,
    version6_Messages, version8_Messages>>
=============================================================================
