----------------------------- MODULE MCCppRead -----------------------------
(***************************************************************************)
(* CppRead on the messages of the login library, and of the three versions *)
(* of the world library.                                                   *)
(*                                                                         *)
(* The messages whose write function puts another size in the header than  *)
(* that of what it emits are sent by a game client, with the right size,   *)
(* except for one that is run on its own with the size of its write        *)
(* function.  Not in the catalogues is SMSG_ADDON_INFO of the later        *)
(* versions, whose read function calls abort().                            *)
(***************************************************************************)
EXTENDS CppLoginMessages, CppVanillaMessagesHigh, CppTbcMessagesHigh, CppWrathMessagesHigh, CppRead

\* Bound: a message is cut before its last byte.
BeforeLastByte(bytes) == {bytes - 1}

Mismatched ==
  {"CMSG_AUTH_SESSION", "CMSG_GMTICKET_CREATE", "CMSG_UPDATE_ACCOUNT_DATA"}
MismatchedLater ==
  Mismatched \union {"SMSG_MESSAGECHAT", "SMSG_GM_MESSAGECHAT"}
MismatchedLast ==
  MismatchedLater \union {"SMSG_RESPOND_INSPECT_ACHIEVEMENTS", "SMSG_ALL_ACHIEVEMENT_DATA"}

\* Neighbouring versions share many messages, which are run once.
Written ==
  LET vanilla == Without(vanilla_Messages, Mismatched)
      tbc == Without(tbc_Messages, MismatchedLater)
      wrath == Without(wrath_Messages, MismatchedLast)
  IN CppListed(login_Messages \o vanilla \o Unlike(tbc, vanilla) \o Unlike(wrath, vanilla \o tbc))

Sent(record, bytes) ==
  [record EXCEPT !.written = bytes, !.sizeField = bytes - 2]
Whole(record) == Sent(record, record.written)
\* A message with an empty compressed member may also end before it.
WithoutMember(record) == Sent(record, record.written - 4)
MemberEmpty(record) ==
  LET kinds == {record.read[k].kind : k \in DOMAIN record.read}
  IN "return at end" \in kinds /\ "inflate member" \notin kinds
FromClient ==
  LET listed == CppListed(Only(vanilla_Messages, Mismatched)
                          \o Only(tbc_Messages, MismatchedLater)
                          \o Only(wrath_Messages, MismatchedLast))
      onWire(records) ==
        [wire \in DOMAIN records |-> Whole(records[wire])]
          \o LET empty == SelectSeq(records, MemberEmpty)
             IN [wire \in DOMAIN empty |-> WithoutMember(empty[wire])]
  IN [i \in DOMAIN listed |-> [name \in DOMAIN listed[i] |-> onWire(listed[i][name])]]

\* The LET keeps TLC from taking the operator, instead of its value, for the
\* constant.
AllMessages == Written \o FromClient
CppCatalogue == LET records == AllMessages IN records

UpdateAccountData == CppListed(Only(vanilla_Messages, {"CMSG_UPDATE_ACCOUNT_DATA"}))
UpdateAccountDataCatalogue == LET records == UpdateAccountData IN records
=============================================================================
