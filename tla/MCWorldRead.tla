---------------------------- MODULE MCWorldRead ----------------------------
(***************************************************************************)
(* WorldRead on the messages of the three versions.                        *)
(*                                                                         *)
(* Left out are the messages that break one of the properties and are run  *)
(* on their own in MCWorldExceptions: those whose write function leaves    *)
(* out a member that the read function reads (the first three), the ones   *)
(* with an array of structs with strings that ends with the body, the      *)
(* compressed ones, and those of which the free function leaves a pointer  *)
(* dangling (the last two).  Not in the catalogues are SMSG_ADDON_INFO of  *)
(* the later versions, whose read function calls abort(), and the two      *)
(* messages of version 3.3.5 with arrays of achievements.                  *)
(***************************************************************************)
EXTENDS VanillaMessagesHigh, TbcMessagesHigh, WrathMessagesHigh, WorldRead

Exceptions ==
  {"CMSG_AUTH_SESSION", "CMSG_GMTICKET_CREATE", "CMSG_UPDATE_ACCOUNT_DATA",
   "SMSG_ADDON_INFO", "SMSG_LFG_JOIN_RESULT", "SMSG_COMPRESSED_MOVES",
   "SMSG_COMPRESSED_UPDATE_OBJECT", "SMSG_MONSTER_MOVE", "SMSG_MONSTER_MOVE_TRANSPORT"}

\* The LET keeps TLC from taking the operator, instead of its value, for the
\* constant.
Versions ==
  vanilla_Messages
    \o Unlike(tbc_Messages, vanilla_Messages)
    \o Unlike(wrath_Messages, vanilla_Messages \o tbc_Messages)
AllMessages == Listed(Without(Versions, Exceptions))
WorldCatalogue == LET records == AllMessages IN records

\* Those of version 1.12 of which an object owns memory that no realloc moves
Moves(record) == \E k \in DOMAIN record.read : record.read[k].kind = "realloc"
Owns(records) ==
  /\ \E k \in DOMAIN records : records[k].slots # {}
  /\ \A k \in DOMAIN records : ~Moves(records[k])
Owning == Holding(Owns, Listed(Without(vanilla_Messages, Exceptions)))
OwningCatalogue == LET records == Owning IN records
=============================================================================
