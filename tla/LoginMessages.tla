--------------------------- MODULE LoginMessages ---------------------------
(***************************************************************************)
(* The login messages of the C library, one definition per message: the    *)
(* steps of its read function, the bytes its write function emits, its     *)
(* size field and what its free function releases, as the four functions   *)
(* stand in login.c.  The parameters are what the generated code branches  *)
(* on: string and array lengths, and the outcomes of the tests on the      *)
(* result, flag and security_flag fields.                                  *)
(***************************************************************************)
EXTENDS MessageFormat, FiniteSetsExt

Opcode == Header(1)

Version == <<Minimum(5), Fixed(1), Fixed(1), Fixed(1), Fixed(2)>>
VersionWritten == 1 + 1 + 1 + 2

(***************************************************************************)
(* module "all": what a client sends before its protocol version is known  *)
(***************************************************************************)
CMD_AUTH_LOGON_CHALLENGE_Client(account) ==
  LET account_name == Member("account_name")
      steps == <<Opcode, Minimum(33), SetNull({account_name}), Fixed(1), Fixed(2), Fixed(4)>>
               \o Version
               \o <<Fixed(4), Fixed(4), Fixed(4), Fixed(4), Fixed(4), String(account_name, account)>>
      written == 1 + 1 + 2 + 4 + VersionWritten + 4 + 4 + 4 + 4 + 4 + (1 + account)
  IN WithSize(Frees(Message("CMD_AUTH_LOGON_CHALLENGE_Client", steps, written),
                    {account_name}, {}),
              30 + account, written - 4)

CMD_AUTH_RECONNECT_CHALLENGE_Client(account) ==
  LET account_name == Member("account_name")
      steps == <<Opcode, Minimum(33), SetNull({account_name}), Fixed(1), Fixed(2), Fixed(4)>>
               \o Version
               \o <<Fixed(4), Fixed(4), Fixed(4), Fixed(4), Fixed(4), String(account_name, account)>>
      written == 1 + 1 + 2 + 4 + VersionWritten + 4 + 4 + 4 + 4 + 4 + (1 + account)
  IN WithSize(Frees(Message("CMD_AUTH_RECONNECT_CHALLENGE_Client", steps, written),
                    {account_name}, {}),
              30 + account, written - 4)

(***************************************************************************)
(* version 2, and the parts the later versions share with it               *)
(***************************************************************************)
\* Mutant: only the first of the two pointers is set to NULL ahead of the reads.
Challenge_NullsOnePointer(security, securityWritten, generatorLength, primeLength, success, name) ==
  LET generator == Member("generator")
      large_safe_prime == Member("large_safe_prime")
      steps == <<Opcode, Minimum(2), SetNull({generator}), Fixed(1), Field(1, TRUE, success)>>
               \o When(success,
                    <<Each(32, 1),
                      Fixed(1), Calloc(generator), Each(generatorLength, 1),
                      Fixed(1), Calloc(large_safe_prime), Each(primeLength, 1),
                      Each(32, 1), Each(16, 1)>> \o security)
      written == 1 + 1 + 1
                 + (IF success THEN 32 + 1 + generatorLength + 1 + primeLength + 32 + 16
                                    + securityWritten
                               ELSE 0)
  IN Frees(Message(name, steps, written), {}, {generator, large_safe_prime})

Challenge(security, securityWritten, generatorLength, primeLength, success, name) ==
  LET generator == Member("generator")
      large_safe_prime == Member("large_safe_prime")
      steps == <<Opcode, Minimum(2), SetNull({generator, large_safe_prime}),
                 Fixed(1), Field(1, TRUE, success)>>
               \o When(success,
                    <<Each(32, 1),
                      Fixed(1), Calloc(generator), Each(generatorLength, 1),
                      Fixed(1), Calloc(large_safe_prime), Each(primeLength, 1),
                      Each(32, 1), Each(16, 1)>> \o security)
      written == 1 + 1 + 1
                 + (IF success THEN 32 + 1 + generatorLength + 1 + primeLength + 32 + 16
                                    + securityWritten
                               ELSE 0)
  IN Frees(Message(name, steps, written), {}, {generator, large_safe_prime})

version2_CMD_AUTH_LOGON_CHALLENGE_Server(success, generatorLength, primeLength) ==
  Challenge(<<>>, 0, generatorLength, primeLength, success,
            "version2_CMD_AUTH_LOGON_CHALLENGE_Server")

TelemetryKey == <<Minimum(30), Fixed(2), Fixed(4), Each(4, 1), Each(20, 1)>>
TelemetryKeyWritten == 2 + 4 + 4 + 20

version2_CMD_AUTH_LOGON_PROOF_Client(keys) ==
  LET telemetry_keys == Member("telemetry_keys")
      steps == <<Opcode, Minimum(73), SetNull({telemetry_keys}),
                 Each(32, 1), Each(20, 1), Each(20, 1), Fixed(1), Calloc(telemetry_keys)>>
               \o EachStruct(keys, LAMBDA i : TelemetryKey)
  IN Frees(Message("version2_CMD_AUTH_LOGON_PROOF_Client", steps,
                   1 + 32 + 20 + 20 + 1 + keys * TelemetryKeyWritten),
           {telemetry_keys}, {})

version2_CMD_AUTH_LOGON_PROOF_Server(success) ==
  Message("version2_CMD_AUTH_LOGON_PROOF_Server",
          <<Opcode, Minimum(1), Fixed(1)>> \o When(success, <<Each(20, 1), Fixed(4)>>),
          1 + 1 + (IF success THEN 20 + 4 ELSE 0))

version2_CMD_AUTH_RECONNECT_CHALLENGE_Server(success) ==
  Message("version2_CMD_AUTH_RECONNECT_CHALLENGE_Server",
          <<Opcode, Minimum(1), Fixed(1)>> \o When(success, <<Each(16, 1), Each(16, 1)>>),
          1 + 1 + (IF success THEN 16 + 16 ELSE 0))

version2_CMD_AUTH_RECONNECT_PROOF_Server ==
  Message("version2_CMD_AUTH_RECONNECT_PROOF_Server",
          <<Opcode, Minimum(1), Fixed(1)>>, 1 + 1)

version2_CMD_AUTH_RECONNECT_PROOF_Client ==
  Message("version2_CMD_AUTH_RECONNECT_PROOF_Client",
          <<Opcode, Minimum(57), Each(16, 1), Each(20, 1), Each(20, 1), Fixed(1)>>,
          1 + 16 + 20 + 20 + 1)

(***************************************************************************)
(* Realms.  A realm is [name, address, build]: the lengths of its two      *)
(* strings and, from version 8, whether its flag asks for a build.         *)
(***************************************************************************)
RealmPointers(i) == {<<"name", i>>, <<"address", i>>}

version2_Realm(realm, i) ==
  Nested(<<Minimum(14), SetNull(RealmPointers(i)), Fixed(4), Fixed(1),
           Cstring(<<"name", i>>, realm.name), Cstring(<<"address", i>>, realm.address),
           Fixed(4), Fixed(1), Fixed(1), Fixed(1)>>,
         RealmPointers(i))
version2_RealmWritten(realm) ==
  4 + 1 + (realm.name + 1) + (realm.address + 1) + 4 + 1 + 1 + 1
version2_RealmSize(realm) == 14 + realm.name + realm.address

version5_Realm(realm, i) ==
  Nested(<<Minimum(12), SetNull(RealmPointers(i)), Fixed(1), Fixed(1), Fixed(1),
           Cstring(<<"name", i>>, realm.name), Cstring(<<"address", i>>, realm.address),
           Fixed(4), Fixed(1), Fixed(1), Fixed(1)>>,
         RealmPointers(i))
version5_RealmWritten(realm) ==
  1 + 1 + 1 + (realm.name + 1) + (realm.address + 1) + 4 + 1 + 1 + 1
version5_RealmSize(realm) == 12 + realm.name + realm.address

version8_Realm(realm, i) ==
  Nested(<<Minimum(12), SetNull(RealmPointers(i)), Fixed(1), Fixed(1), Fixed(1),
           Cstring(<<"name", i>>, realm.name), Cstring(<<"address", i>>, realm.address),
           Fixed(4), Fixed(1), Fixed(1), Fixed(1)>> \o When(realm.build, Version),
         RealmPointers(i))
version8_RealmWritten(realm) ==
  1 + 1 + 1 + (realm.name + 1) + (realm.address + 1) + 4 + 1 + 1 + 1
  + (IF realm.build THEN VersionWritten ELSE 0)
\* Mutant: the size of a realm forgets the optional build.
version8_RealmSize_NoBuild(realm) == 12 + realm.name + realm.address
version8_RealmSize(realm) ==
  12 + realm.name + realm.address + (IF realm.build THEN 5 ELSE 0)

\* The common shape: Minimum(minimum), a count of countSize bytes, the realms
\* and two bytes of footer; fixed is the constant part of the size function.
RealmList(name, minimum, countSize, fixed, realms, Realm(_, _), Written(_), Size(_)) ==
  LET all == Member("realms")
      n == Len(realms)
      steps == <<Opcode, Minimum(minimum), SetNull({all}), Fixed(2), Fixed(4),
                 Fixed(countSize), Calloc(all)>>
               \o EachStruct(n, LAMBDA i : Realm(realms[i], i))
               \o <<Fixed(2)>>
      sized == 4 + countSize + MapThenSumSet(LAMBDA i : Written(realms[i]), 1..n) + 2
  IN WithSize(FreesElements(Message(name, steps, 1 + 2 + sized),
                            all, UNION {RealmPointers(i) : i \in 1..n}),
              fixed + MapThenSumSet(LAMBDA i : Size(realms[i]), 1..n), sized)

version2_CMD_REALM_LIST_Server(realms) ==
  RealmList("version2_CMD_REALM_LIST_Server", 9, 1, 7, realms,
            version2_Realm, version2_RealmWritten, version2_RealmSize)

version5_CMD_REALM_LIST_Server(realms) ==
  RealmList("version5_CMD_REALM_LIST_Server", 9, 1, 7, realms,
            version5_Realm, version5_RealmWritten, version5_RealmSize)

version6_CMD_REALM_LIST_Server(realms) ==
  RealmList("version6_CMD_REALM_LIST_Server", 10, 2, 8, realms,
            version5_Realm, version5_RealmWritten, version5_RealmSize)

version8_CMD_REALM_LIST_Server(realms) ==
  RealmList("version8_CMD_REALM_LIST_Server", 10, 2, 8, realms,
            version8_Realm, version8_RealmWritten, version8_RealmSize)

\* The client's request has a body of constant bytes only.  For a message
\* without members of its own the generator emits no read function and no
\* case in X_opcode_read: the body is written, and never read.
CMD_REALM_LIST_Client ==
  Message("CMD_REALM_LIST_Client", <<Opcode>>, 1 + 4)

(***************************************************************************)
(* File transfer and the hardware survey                                   *)
(***************************************************************************)
version2_CMD_XFER_INITIATE(name) ==
  LET filename == Member("filename")
  IN Frees(Message("version2_CMD_XFER_INITIATE",
                   <<Opcode, Minimum(25), SetNull({filename}), String(filename, name),
                     Fixed(8), Each(16, 1)>>,
                   1 + (1 + name) + 8 + 16),
           {filename}, {})

version2_CMD_XFER_DATA(size) ==
  LET data == Member("data")
  IN Frees(Message("version2_CMD_XFER_DATA",
                   <<Opcode, Minimum(2), SetNull({data}), Fixed(2), Calloc(data), Each(size, 1)>>,
                   1 + 2 + size),
           {data}, {})

version2_CMD_XFER_ACCEPT == Message("version2_CMD_XFER_ACCEPT", <<Opcode>>, 1)

version2_CMD_XFER_RESUME ==
  Message("version2_CMD_XFER_RESUME", <<Opcode, Minimum(8), Fixed(8)>>, 1 + 8)

version2_CMD_XFER_CANCEL == Message("version2_CMD_XFER_CANCEL", <<Opcode>>, 1)

version3_CMD_SURVEY_RESULT(size) ==
  LET data == Member("data")
  IN Frees(Message("version3_CMD_SURVEY_RESULT",
                   <<Opcode, Minimum(7), SetNull({data}), Fixed(4), Fixed(1), Fixed(2),
                     Calloc(data), Each(size, 1)>>,
                   1 + 4 + 1 + 2 + size),
           {data}, {})

(***************************************************************************)
(* versions 3, 5 and 8: the security flag.  security is the set of the     *)
(* flag's tests that hold: "pin", "matrix" and "authenticator".            *)
(***************************************************************************)
PinChallenge(security) == When("pin" \in security, <<Fixed(4), Each(16, 1)>>)
PinChallengeWritten(security) == IF "pin" \in security THEN 4 + 16 ELSE 0
MatrixChallenge(security) ==
  When("matrix" \in security, <<Fixed(1), Fixed(1), Fixed(1), Fixed(1), Fixed(8)>>)
MatrixChallengeWritten(security) ==
  IF "matrix" \in security THEN 1 + 1 + 1 + 1 + 8 ELSE 0

version3_CMD_AUTH_LOGON_CHALLENGE_Server(success, security) ==
  Challenge(<<Fixed(1)>> \o PinChallenge(security), 1 + PinChallengeWritten(security),
            1, 2, success, "version3_CMD_AUTH_LOGON_CHALLENGE_Server")

version5_CMD_AUTH_LOGON_CHALLENGE_Server(success, security) ==
  Challenge(<<Fixed(1)>> \o PinChallenge(security) \o MatrixChallenge(security),
            1 + PinChallengeWritten(security) + MatrixChallengeWritten(security),
            1, 2, success, "version5_CMD_AUTH_LOGON_CHALLENGE_Server")

version8_CMD_AUTH_LOGON_CHALLENGE_Server(success, security) ==
  Challenge(<<Fixed(1)>> \o PinChallenge(security) \o MatrixChallenge(security)
            \o When("authenticator" \in security, <<Fixed(1)>>),
            1 + PinChallengeWritten(security) + MatrixChallengeWritten(security)
            + (IF "authenticator" \in security THEN 1 ELSE 0),
            1, 2, success, "version8_CMD_AUTH_LOGON_CHALLENGE_Server")

\* What the three LOGON_PROOF messages of a client have in common.
\* Mutant: the minimum size counts the length byte of an optional member.
ProofSteps_CountsOptional(keys, pointers) ==
  <<Opcode, Minimum(75), SetNull(pointers),
    Each(32, 1), Each(20, 1), Each(20, 1), Fixed(1), Calloc(Member("telemetry_keys"))>>
  \o EachStruct(keys, LAMBDA i : TelemetryKey)

ProofSteps(keys, pointers) ==
  <<Opcode, Minimum(74), SetNull(pointers),
    Each(32, 1), Each(20, 1), Each(20, 1), Fixed(1), Calloc(Member("telemetry_keys"))>>
  \o EachStruct(keys, LAMBDA i : TelemetryKey)
ProofWritten(keys) == 1 + 32 + 20 + 20 + 1 + keys * TelemetryKeyWritten + 1

PinProof(security) == When("pin" \in security, <<Each(16, 1), Each(20, 1)>>)
MatrixProof(security) == When("matrix" \in security, <<Each(20, 1)>>)
PinMatrixProofWritten(security) ==
  (IF "pin" \in security THEN 16 + 20 ELSE 0) + (IF "matrix" \in security THEN 20 ELSE 0)

version3_CMD_AUTH_LOGON_PROOF_Client(keys, security) ==
  LET telemetry_keys == Member("telemetry_keys")
  IN Frees(Message("version3_CMD_AUTH_LOGON_PROOF_Client",
                   ProofSteps(keys, {telemetry_keys}) \o <<Fixed(1)>> \o PinProof(security),
                   ProofWritten(keys) + PinMatrixProofWritten(security)),
           {telemetry_keys}, {})

version5_CMD_AUTH_LOGON_PROOF_Client(keys, security) ==
  LET telemetry_keys == Member("telemetry_keys")
  IN Frees(Message("version5_CMD_AUTH_LOGON_PROOF_Client",
                   ProofSteps(keys, {telemetry_keys})
                   \o <<Fixed(1)>> \o PinProof(security) \o MatrixProof(security),
                   ProofWritten(keys) + PinMatrixProofWritten(security)),
           {telemetry_keys}, {})

\* Mutant: the free function tests the bit of the pin.
version8_CMD_AUTH_LOGON_PROOF_Client_WrongBit(keys, security, length) ==
  LET telemetry_keys == Member("telemetry_keys")
      authenticator == Member("authenticator")
      carried == "authenticator" \in security
  IN Frees(Message("version8_CMD_AUTH_LOGON_PROOF_Client",
                   ProofSteps(keys, {telemetry_keys, authenticator})
                   \o <<Field(1, FALSE, "pin" \in security)>>
                   \o PinProof(security) \o MatrixProof(security)
                   \o When(carried, <<String(authenticator, length)>>),
                   ProofWritten(keys) + PinMatrixProofWritten(security)
                   + (IF carried THEN 1 + length ELSE 0)),
           {telemetry_keys}, {authenticator})

version8_CMD_AUTH_LOGON_PROOF_Client(keys, security, length) ==
  LET telemetry_keys == Member("telemetry_keys")
      authenticator == Member("authenticator")
      carried == "authenticator" \in security
  IN Frees(Message("version8_CMD_AUTH_LOGON_PROOF_Client",
                   ProofSteps(keys, {telemetry_keys, authenticator})
                   \o <<Field(1, FALSE, carried)>> \o PinProof(security) \o MatrixProof(security)
                   \o When(carried, <<String(authenticator, length)>>),
                   ProofWritten(keys) + PinMatrixProofWritten(security)
                   + (IF carried THEN 1 + length ELSE 0)),
           {telemetry_keys}, {authenticator})

version5_CMD_AUTH_LOGON_PROOF_Server(success) ==
  Message("version5_CMD_AUTH_LOGON_PROOF_Server",
          <<Opcode, Minimum(1), Fixed(1)>> \o When(success, <<Each(20, 1), Fixed(4), Fixed(2)>>),
          1 + 1 + (IF success THEN 20 + 4 + 2 ELSE 0))

version5_CMD_AUTH_RECONNECT_PROOF_Server ==
  Message("version5_CMD_AUTH_RECONNECT_PROOF_Server",
          <<Opcode, Minimum(3), Fixed(1), Fixed(2)>>, 1 + 1 + 2)

\* Mutant: the padding after a failure is written but not read.
version8_CMD_AUTH_LOGON_PROOF_Server_NoPadding(success) ==
  Message("version8_CMD_AUTH_LOGON_PROOF_Server",
          <<Opcode, Minimum(1), Fixed(1)>>
          \o When(success, <<Each(20, 1), Fixed(4), Fixed(4), Fixed(2)>>),
          1 + 1 + (IF success THEN 20 + 4 + 4 + 2 ELSE 2))

\* Every result other than SUCCESS that the enum lists has two bytes of padding.
version8_CMD_AUTH_LOGON_PROOF_Server(success) ==
  Message("version8_CMD_AUTH_LOGON_PROOF_Server",
          <<Opcode, Minimum(3), Fixed(1)>>
          \o (IF success THEN <<Each(20, 1), Fixed(4), Fixed(4), Fixed(2)>> ELSE <<Fixed(2)>>),
          1 + 1 + (IF success THEN 20 + 4 + 4 + 2 ELSE 2))

version8_CMD_AUTH_RECONNECT_CHALLENGE_Server(success) ==
  Message("version8_CMD_AUTH_RECONNECT_CHALLENGE_Server",
          <<Opcode, Minimum(1), Fixed(1)>> \o When(success, <<Each(16, 1), Each(16, 1)>>),
          1 + 1 + (IF success THEN 16 + 16 ELSE 0))

version8_CMD_AUTH_RECONNECT_PROOF_Server ==
  Message("version8_CMD_AUTH_RECONNECT_PROOF_Server",
          <<Opcode, Minimum(3), Fixed(1), Fixed(2)>>, 1 + 1 + 2)
=============================================================================
