-------------------------- MODULE MCWorldExceptions --------------------------
(***************************************************************************)
(* WorldRead on the messages of version 1.12 that the runs of MCWorldRead  *)
(* leave out.                                                              *)
(***************************************************************************)
EXTENDS VanillaMessagesHigh, WorldRead

CompressedOnly ==
  Listed(Only(vanilla_Messages, {"SMSG_COMPRESSED_MOVES", "SMSG_COMPRESSED_UPDATE_OBJECT"}))
CompressedCatalogue == LET records == CompressedOnly IN records

\* The messages with a compressed member, where that is not empty
Inflates(record) == \E k \in DOMAIN record.read : record.read[k].kind = "inflate member"
MemberMessages ==
  Listed(Only(vanilla_Messages, {"CMSG_AUTH_SESSION", "CMSG_GMTICKET_CREATE", "CMSG_UPDATE_ACCOUNT_DATA"}))
Inflating ==
  [i \in DOMAIN MemberMessages |->
    [name \in DOMAIN MemberMessages[i] |-> SelectSeq(MemberMessages[i][name], Inflates)]]
CompressedMembers == Inflating \o CompressedOnly
CompressedMembersCatalogue == LET records == CompressedMembers IN records

AuthSessionOnly == Listed(Only(vanilla_Messages, {"CMSG_AUTH_SESSION"}))
AuthSessionCatalogue == LET records == AuthSessionOnly IN records

AddonInfoOnly == Listed(Only(vanilla_Messages, {"SMSG_ADDON_INFO"}))
AddonInfoCatalogue == LET records == AddonInfoOnly IN records
=============================================================================
