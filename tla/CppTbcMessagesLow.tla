------------------------- MODULE CppTbcMessagesLow -------------------------
(*****************************************************************************)
(* The messages of the 2.4.3 version of the world protocol from              *)
(* CMSG_BOOTME to SMSG_AUTH_CHALLENGE, in the order of                       *)
(* src/wow_world_messages_cpp/src/tbc.cpp.                                   *)
(*                                                                           *)
(* A message is a function from its wires to records of what its functions   *)
(* do on them. Neighbours are defined together, in a record named for the    *)
(* first. A message of which every function does what that of an earlier     *)
(* message does is defined as that message.                                  *)
(*****************************************************************************)
EXTENDS CppTbcStructs

tbc_FromCmsgBootme ==
  [CMSG_BOOTME |-> EmptyCmsg(0),
   CMSG_DBLOOKUP |-> [w \in OfLength |->
     Cmsg(Cstring(w), write_cstring(w), 1 + w.len)],
   CMSG_WORLD_TELEPORT |-> [w \in {Fixed} |->
     Cmsg(Ints(<<4, 4>>) \o Vector3d.read \o Ints(<<4>>), 2 * 4 + Vector3d.written + 4, 24)],
   CMSG_TELEPORT_TO_UNIT |-> [w \in OfLength |->
     Cmsg(Cstring(w), write_cstring(w), 1 + w.len)]]

tbc_FromCmsgCharCreate ==
  [CMSG_CHAR_CREATE |-> [w \in OfLength |->
     Cmsg(Cstring(w) \o Ints(Repeat(9, 1)), write_cstring(w) + 9 * 1, 10 + w.len)],
   CMSG_CHAR_ENUM |-> EmptyCmsg(0),
   CMSG_CHAR_DELETE |-> PlainCmsg(<<8>>, 8, 8),
   SMSG_CHAR_CREATE |-> PlainSmsg(<<1>>, 1, 1)]

tbc_FromSmsgCharEnum ==
  [SMSG_CHAR_ENUM |-> [w \in OfLengthAndCount |->
     Smsg(Ints(<<1>>) \o Each(U8(w.count), tbc_Character(w).read),
          1 + w.count * tbc_Character(w).written, 1 + w.count * tbc_Character(w).size)],
   SMSG_CHAR_DELETE |-> PlainSmsg(<<1>>, 1, 1),
   CMSG_PLAYER_LOGIN |-> PlainCmsg(<<8>>, 8, 8),
   SMSG_NEW_WORLD |-> [w \in {Fixed} |->
     Smsg(Ints(<<4>>) \o Vector3d.read \o Ints(<<4>>), 4 + Vector3d.written + 4, 20)]]

tbc_FromSmsgTransferPending ==
  [SMSG_TRANSFER_PENDING |-> [w \in Wires({0}, {0}, {}, {"has_transport"}) |->
     Smsg(Counted(4, Ints(<<4>>)) \o Optional(Ints(<<4, 4>>)),
          4 + Bytes(Is(w, "has_transport"), 2 * 4), 4 + Bytes(Is(w, "has_transport"), 8))],
   SMSG_TRANSFER_ABORTED |->
     [w \in Wires({0}, {0},
                  {{"TransferAbortReason::INSUFFICIENT_EXPANSION_LEVEL",
                    "TransferAbortReason::NONE"}}, {}) |->
       Smsg(
         Ints(<<4, 1>>)
         \o When(Is(w, "TransferAbortReason::INSUFFICIENT_EXPANSION_LEVEL"), Ints(<<1>>)),
         4 + 1 + Bytes(Is(w, "TransferAbortReason::INSUFFICIENT_EXPANSION_LEVEL"), 1),
         5 + Bytes(Is(w, "TransferAbortReason::INSUFFICIENT_EXPANSION_LEVEL"), 1))],
   SMSG_CHARACTER_LOGIN_FAILED |-> PlainSmsg(<<1>>, 1, 1),
   SMSG_LOGIN_SETTIMESPEED |-> PlainSmsg(<<4, 4>>, 2 * 4, 8)]

tbc_FromCmsgPlayerLogout ==
  [CMSG_PLAYER_LOGOUT |-> EmptyCmsg(0),
   CMSG_LOGOUT_REQUEST |-> EmptyCmsg(0),
   SMSG_LOGOUT_RESPONSE |-> PlainSmsg(<<4, 1>>, 4 + 1, 5),
   SMSG_LOGOUT_COMPLETE |-> EmptySmsg(0),
   CMSG_LOGOUT_CANCEL |-> EmptyCmsg(0),
   SMSG_LOGOUT_CANCEL_ACK |-> EmptySmsg(0),
   CMSG_NAME_QUERY |-> PlainCmsg(<<8>>, 8, 8)]

tbc_FromSmsgNameQueryResponse ==
  [SMSG_NAME_QUERY_RESPONSE |->
     [w \in Wires(Lengths, {0}, {{"DeclinedNames::YES", "DeclinedNames::NO"}}, {}) |->
       Smsg(
         PackedGuid(w) \o Cstring(w) \o Cstring(w) \o Ints(<<4, 4, 4, 1>>)
         \o When(Is(w, "DeclinedNames::YES"), Each(5, Cstring(w))),
         write_packed_guid(w) + 2 * write_cstring(w) + 3 * 4 + 1
         + Bytes(Is(w, "DeclinedNames::YES"), 5 * write_cstring(w)),
         15 + 2 * w.len + wwm_packed_guid_size(w)
         + Bytes(Is(w, "DeclinedNames::YES"), 5 * (1 + w.len)))],
   CMSG_PET_NAME_QUERY |-> PlainCmsg(<<4, 8>>, 4 + 8, 12)]

tbc_FromSmsgPetNameQueryResponse ==
  [SMSG_PET_NAME_QUERY_RESPONSE |->
     [w \in Wires(Lengths, {0},
                  {{"PetQueryDisabledNames::PRESENT", "PetQueryDisabledNames::NOT_PRESENT"}}, {}) |->
       Smsg(
         Ints(<<4>>) \o Cstring(w) \o Ints(<<4, 1>>)
         \o When(Is(w, "PetQueryDisabledNames::PRESENT"), Each(5, Cstring(w))),
         4 + write_cstring(w) + 4 + 1
         + Bytes(Is(w, "PetQueryDisabledNames::PRESENT"), 5 * write_cstring(w)),
         10 + w.len + Bytes(Is(w, "PetQueryDisabledNames::PRESENT"), 5 * (1 + w.len)))],
   CMSG_GUILD_QUERY |-> PlainCmsg(<<4>>, 4, 4),
   SMSG_GUILD_QUERY_RESPONSE |-> [w \in OfLength |->
     Smsg(Ints(<<4>>) \o Cstring(w) \o Each(10, Cstring(w)) \o Ints(Repeat(5, 4)),
          4 + write_cstring(w) + 10 * write_cstring(w) + 5 * 4, 25 + w.len + 10 * (1 + w.len))]]

tbc_FromCmsgItemQuerySingle ==
  [CMSG_ITEM_QUERY_SINGLE |-> PlainCmsg(<<4>>, 4, 4)]

tbc_FromSmsgItemQuerySingleResponse ==
  [SMSG_ITEM_QUERY_SINGLE_RESPONSE |-> [w \in Wires(Lengths, {0}, {}, {"found"}) |->
     Smsg(
       Counted(4, Ints(<<4>>))
       \o Optional(
            Ints(<<8, 4>>) \o Cstring(w) \o Cstring(w) \o Cstring(w) \o Cstring(w)
            \o Ints(Repeat(20, 4)) \o Each(10, tbc_ItemStat.read)
            \o Each(5, tbc_ItemDamageType.read) \o Ints(Repeat(10, 4))
            \o Each(5, tbc_ItemSpells.read) \o Ints(<<4>>) \o Cstring(w) \o Ints(Repeat(15, 4))
            \o Each(3, tbc_ItemSocket.read) \o Ints(Repeat(5, 4))),
       4
       + Bytes(
           Is(w, "found"),
           8 + 4 + 4 * write_cstring(w) + 20 * 4 + 10 * tbc_ItemStat.written
           + 5 * tbc_ItemDamageType.written + 10 * 4 + 5 * tbc_ItemSpells.written + 4
           + write_cstring(w) + 15 * 4 + 3 * tbc_ItemSocket.written + 5 * 4),
       4 + Bytes(Is(w, "found"), 505 + 5 * w.len))]]

tbc_FromCmsgPageTextQuery ==
  [CMSG_PAGE_TEXT_QUERY |-> PlainCmsg(<<4, 8>>, 4 + 8, 12),
   SMSG_PAGE_TEXT_QUERY_RESPONSE |-> [w \in OfLength |->
     Smsg(Ints(<<4>>) \o Cstring(w) \o Ints(<<4>>), 4 + write_cstring(w) + 4, 9 + w.len)],
   CMSG_QUEST_QUERY |-> PlainCmsg(<<4>>, 4, 4)]

tbc_FromSmsgQuestQueryResponse ==
  [SMSG_QUEST_QUERY_RESPONSE |-> [w \in OfLength |->
     Smsg(
       Ints(Repeat(6, 4) \o <<2, 4, 2>> \o Repeat(10, 4)) \o Each(4, tbc_QuestItemReward.read)
       \o Each(6, tbc_QuestItemReward.read) \o Ints(<<4>>) \o Vector2d.read \o Ints(<<4>>)
       \o Cstring(w) \o Cstring(w) \o Cstring(w) \o Cstring(w) \o Each(4, tbc_QuestObjective.read)
       \o Each(4, Cstring(w)),
       6 * 4 + 2 + 4 + 2 + 10 * 4 + 4 * tbc_QuestItemReward.written
       + 6 * tbc_QuestItemReward.written + 4 + Vector2d.written + 4 + 4 * write_cstring(w)
       + 4 * tbc_QuestObjective.written + 4 * write_cstring(w), 236 + 4 * w.len + 4 * (1 + w.len))]]

tbc_FromCmsgGameobjectQuery ==
  [CMSG_GAMEOBJECT_QUERY |-> PlainCmsg(<<4, 8>>, 4 + 8, 12),
   SMSG_GAMEOBJECT_QUERY_RESPONSE |-> [w \in Wires(Lengths, {0}, {}, {"found"}) |->
     Smsg(
       Counted(4, Ints(<<4>>))
       \o Optional(Ints(<<4, 4>>) \o Cstring(w) \o Cstring(w) \o Cstring(w) \o Cstring(w)
                   \o Cstring(w) \o Cstring(w) \o Cstring(w) \o Ints(Repeat(7, 4))),
       4 + Bytes(Is(w, "found"), 2 * 4 + 7 * write_cstring(w) + 6 * 4 + 4),
       4 + Bytes(Is(w, "found"), 43 + 7 * w.len))],
   CMSG_CREATURE_QUERY |-> PlainCmsg(<<4, 8>>, 4 + 8, 12)]

tbc_FromSmsgCreatureQueryResponse ==
  [SMSG_CREATURE_QUERY_RESPONSE |-> [w \in Wires(Lengths, {0}, {}, {"found"}) |->
     Smsg(
       Counted(4, Ints(<<4>>))
       \o Optional(Cstring(w) \o Cstring(w) \o Cstring(w) \o Cstring(w) \o Cstring(w)
                   \o Cstring(w) \o Ints(Repeat(12, 4) \o <<1>>)),
       4 + Bytes(Is(w, "found"), 6 * write_cstring(w) + 6 * 4 + 4 * 4 + 2 * 4 + 1),
       4 + Bytes(Is(w, "found"), 55 + 6 * w.len))]]

tbc_FromCmsgWho ==
  [CMSG_WHO |-> [w \in OfLengthAndCount |->
     Cmsg(
       Ints(<<4, 4>>) \o Cstring(w) \o Cstring(w)
       \o Ints(<<4, 4, 4>> \o Repeat(w.count, 4) \o <<4>>) \o Each(w.count, Cstring(w)),
       2 * 4 + 2 * write_cstring(w) + 3 * 4 + w.count * 4 + 4 + w.count * write_cstring(w),
       26 + 2 * w.len + 4 * w.count + w.count * (1 + w.len))],
   SMSG_WHO |-> [w \in OfLengthAndCount |->
     Smsg(Ints(<<4, 4>>) \o Each(w.count, tbc_WhoPlayer(w).read),
          2 * 4 + w.count * tbc_WhoPlayer(w).written, 8 + w.count * tbc_WhoPlayer(w).size)],
   CMSG_WHOIS |-> [w \in OfLength |->
     Cmsg(Cstring(w), write_cstring(w), 1 + w.len)]]

tbc_FromSmsgWhois ==
  [SMSG_WHOIS |-> [w \in OfLength |->
     Smsg(Cstring(w), write_cstring(w), 1 + w.len)],
   CMSG_CONTACT_LIST |-> PlainCmsg(<<4>>, 4, 4),
   SMSG_CONTACT_LIST |->
     [w \in Wires(Lengths, Counts, {{"FriendStatus::ONLINE", "FriendStatus::OFFLINE"}},
                  {"RELATION_TYPE_FRIEND"}) |->
       Smsg(Ints(<<4, 4>>) \o Each(w.count, tbc_Relation(w).read),
            2 * 4 + w.count * tbc_Relation(w).written, 8 + w.count * tbc_Relation(w).size)],
   SMSG_FRIEND_STATUS |-> PlainSmsg(<<1, 8>>, 1 + 8, 9)]

tbc_FromCmsgAddFriend ==
  [CMSG_ADD_FRIEND |-> [w \in OfLength |->
     Cmsg(Cstring(w) \o Cstring(w), 2 * write_cstring(w), 2 + 2 * w.len)],
   CMSG_DEL_FRIEND |-> PlainCmsg(<<8>>, 8, 8),
   CMSG_SET_CONTACT_NOTES |-> [w \in OfLength |->
     Cmsg(Ints(<<8>>) \o Cstring(w), 8 + write_cstring(w), 9 + w.len)],
   CMSG_ADD_IGNORE |-> [w \in OfLength |->
     Cmsg(Cstring(w), write_cstring(w), 1 + w.len)],
   CMSG_DEL_IGNORE |-> PlainCmsg(<<8>>, 8, 8)]

tbc_FromCmsgGroupInvite ==
  [CMSG_GROUP_INVITE |-> [w \in OfLength |->
     Cmsg(Cstring(w), write_cstring(w), 1 + w.len)],
   SMSG_GROUP_INVITE |-> [w \in OfLength |->
     Smsg(Cstring(w), write_cstring(w), 1 + w.len)],
   CMSG_GROUP_CANCEL |-> EmptyCmsg(0),
   CMSG_GROUP_ACCEPT |-> EmptyCmsg(0),
   CMSG_GROUP_DECLINE |-> EmptyCmsg(0),
   SMSG_GROUP_DECLINE |-> [w \in OfLength |->
     Smsg(Cstring(w), write_cstring(w), 1 + w.len)],
   CMSG_GROUP_UNINVITE |-> [w \in OfLength |->
     Cmsg(Cstring(w), write_cstring(w), 1 + w.len)]]

tbc_FromCmsgGroupUninviteGuid ==
  [CMSG_GROUP_UNINVITE_GUID |-> PlainCmsg(<<8>>, 8, 8),
   SMSG_GROUP_UNINVITE |-> EmptySmsg(0),
   CMSG_GROUP_SET_LEADER |-> PlainCmsg(<<8>>, 8, 8),
   SMSG_GROUP_SET_LEADER |-> [w \in OfLength |->
     Smsg(Cstring(w), write_cstring(w), 1 + w.len)],
   CMSG_LOOT_METHOD |-> PlainCmsg(<<4, 8, 4>>, 4 + 8 + 4, 16),
   CMSG_GROUP_DISBAND |-> EmptyCmsg(0),
   SMSG_GROUP_DESTROYED |-> EmptySmsg(0)]

tbc_FromSmsgGroupList ==
  [SMSG_GROUP_LIST |-> [w \in Wires(Lengths, Counts, {}, {"group_not_empty"}) |->
     Smsg(
       Counted(
         24 + w.count * tbc_GroupListMember(w).size,
         Ints(<<1, 1, 1, 1, 8, 4>>) \o Each(w.count, tbc_GroupListMember(w).read) \o Ints(<<8>>))
       \o Optional(Ints(<<1, 8, 1, 1>>)),
       4 * 1 + 8 + 4 + w.count * tbc_GroupListMember(w).written + 8
       + Bytes(Is(w, "group_not_empty"), 1 + 8 + 2 * 1),
       24 + w.count * tbc_GroupListMember(w).size + Bytes(Is(w, "group_not_empty"), 11))]]

tbc_FromSmsgPartyMemberStats ==
  [SMSG_PARTY_MEMBER_STATS |->
     [w \in Wires(
              Lengths, {0}, {},
              {"GROUP_UPDATE_FLAGS_STATUS", "GROUP_UPDATE_FLAGS_CUR_HP", "GROUP_UPDATE_FLAGS_MAX_HP",
               "GROUP_UPDATE_FLAGS_POWER_TYPE", "GROUP_UPDATE_FLAGS_CUR_POWER",
               "GROUP_UPDATE_FLAGS_MAX_POWER", "GROUP_UPDATE_FLAGS_LEVEL", "GROUP_UPDATE_FLAGS_ZONE",
               "GROUP_UPDATE_FLAGS_POSITION", "GROUP_UPDATE_FLAGS_AURAS",
               "GROUP_UPDATE_FLAGS_PET_GUID", "GROUP_UPDATE_FLAGS_PET_NAME",
               "GROUP_UPDATE_FLAGS_PET_MODEL_ID", "GROUP_UPDATE_FLAGS_PET_CUR_HP",
               "GROUP_UPDATE_FLAGS_PET_MAX_HP", "GROUP_UPDATE_FLAGS_PET_POWER_TYPE",
               "GROUP_UPDATE_FLAGS_PET_CUR_POWER", "GROUP_UPDATE_FLAGS_PET_MAX_POWER",
               "GROUP_UPDATE_FLAGS_PET_AURAS"}) |->
       Smsg(
         PackedGuid(w) \o Ints(<<4>>) \o When(Is(w, "GROUP_UPDATE_FLAGS_STATUS"), Ints(<<1>>))
         \o When(Is(w, "GROUP_UPDATE_FLAGS_CUR_HP"), Ints(<<2>>))
         \o When(Is(w, "GROUP_UPDATE_FLAGS_MAX_HP"), Ints(<<2>>))
         \o When(Is(w, "GROUP_UPDATE_FLAGS_POWER_TYPE"), Ints(<<1>>))
         \o When(Is(w, "GROUP_UPDATE_FLAGS_CUR_POWER"), Ints(<<2>>))
         \o When(Is(w, "GROUP_UPDATE_FLAGS_MAX_POWER"), Ints(<<2>>))
         \o When(Is(w, "GROUP_UPDATE_FLAGS_LEVEL"), Ints(<<2>>))
         \o When(Is(w, "GROUP_UPDATE_FLAGS_ZONE"), Ints(<<4>>))
         \o When(Is(w, "GROUP_UPDATE_FLAGS_POSITION"), Ints(<<2, 2>>))
         \o When(Is(w, "GROUP_UPDATE_FLAGS_AURAS"), tbc_aura_mask(w))
         \o When(Is(w, "GROUP_UPDATE_FLAGS_PET_GUID"), Ints(<<8>>))
         \o When(Is(w, "GROUP_UPDATE_FLAGS_PET_NAME"), Cstring(w))
         \o When(Is(w, "GROUP_UPDATE_FLAGS_PET_MODEL_ID"), Ints(<<2>>))
         \o When(Is(w, "GROUP_UPDATE_FLAGS_PET_CUR_HP"), Ints(<<2>>))
         \o When(Is(w, "GROUP_UPDATE_FLAGS_PET_MAX_HP"), Ints(<<2>>))
         \o When(Is(w, "GROUP_UPDATE_FLAGS_PET_POWER_TYPE"), Ints(<<1>>))
         \o When(Is(w, "GROUP_UPDATE_FLAGS_PET_CUR_POWER"), Ints(<<2>>))
         \o When(Is(w, "GROUP_UPDATE_FLAGS_PET_MAX_POWER"), Ints(<<2>>))
         \o When(Is(w, "GROUP_UPDATE_FLAGS_PET_AURAS"), tbc_aura_mask(w)),
         write_packed_guid(w) + 4 + Bytes(Is(w, "GROUP_UPDATE_FLAGS_STATUS"), 1)
         + Bytes(Is(w, "GROUP_UPDATE_FLAGS_CUR_HP"), 2)
         + Bytes(Is(w, "GROUP_UPDATE_FLAGS_MAX_HP"), 2)
         + Bytes(Is(w, "GROUP_UPDATE_FLAGS_POWER_TYPE"), 1)
         + Bytes(Is(w, "GROUP_UPDATE_FLAGS_CUR_POWER"), 2)
         + Bytes(Is(w, "GROUP_UPDATE_FLAGS_MAX_POWER"), 2)
         + Bytes(Is(w, "GROUP_UPDATE_FLAGS_LEVEL"), 2) + Bytes(Is(w, "GROUP_UPDATE_FLAGS_ZONE"), 4)
         + Bytes(Is(w, "GROUP_UPDATE_FLAGS_POSITION"), 2 * 2)
         + Bytes(Is(w, "GROUP_UPDATE_FLAGS_AURAS"), tbc_aura_mask_written(w))
         + Bytes(Is(w, "GROUP_UPDATE_FLAGS_PET_GUID"), 8)
         + Bytes(Is(w, "GROUP_UPDATE_FLAGS_PET_NAME"), write_cstring(w))
         + Bytes(Is(w, "GROUP_UPDATE_FLAGS_PET_MODEL_ID"), 2)
         + Bytes(Is(w, "GROUP_UPDATE_FLAGS_PET_CUR_HP"), 2)
         + Bytes(Is(w, "GROUP_UPDATE_FLAGS_PET_MAX_HP"), 2)
         + Bytes(Is(w, "GROUP_UPDATE_FLAGS_PET_POWER_TYPE"), 1)
         + Bytes(Is(w, "GROUP_UPDATE_FLAGS_PET_CUR_POWER"), 2)
         + Bytes(Is(w, "GROUP_UPDATE_FLAGS_PET_MAX_POWER"), 2)
         + Bytes(Is(w, "GROUP_UPDATE_FLAGS_PET_AURAS"), tbc_aura_mask_written(w)),
         4 + wwm_packed_guid_size(w) + Bytes(Is(w, "GROUP_UPDATE_FLAGS_STATUS"), 1)
         + Bytes(Is(w, "GROUP_UPDATE_FLAGS_CUR_HP"), 2)
         + Bytes(Is(w, "GROUP_UPDATE_FLAGS_MAX_HP"), 2)
         + Bytes(Is(w, "GROUP_UPDATE_FLAGS_POWER_TYPE"), 1)
         + Bytes(Is(w, "GROUP_UPDATE_FLAGS_CUR_POWER"), 2)
         + Bytes(Is(w, "GROUP_UPDATE_FLAGS_MAX_POWER"), 2)
         + Bytes(Is(w, "GROUP_UPDATE_FLAGS_LEVEL"), 2) + Bytes(Is(w, "GROUP_UPDATE_FLAGS_ZONE"), 4)
         + Bytes(Is(w, "GROUP_UPDATE_FLAGS_POSITION"), 4)
         + Bytes(Is(w, "GROUP_UPDATE_FLAGS_AURAS"), tbc_aura_mask_size(w))
         + Bytes(Is(w, "GROUP_UPDATE_FLAGS_PET_GUID"), 8)
         + Bytes(Is(w, "GROUP_UPDATE_FLAGS_PET_NAME"), 1 + w.len)
         + Bytes(Is(w, "GROUP_UPDATE_FLAGS_PET_MODEL_ID"), 2)
         + Bytes(Is(w, "GROUP_UPDATE_FLAGS_PET_CUR_HP"), 2)
         + Bytes(Is(w, "GROUP_UPDATE_FLAGS_PET_MAX_HP"), 2)
         + Bytes(Is(w, "GROUP_UPDATE_FLAGS_PET_POWER_TYPE"), 1)
         + Bytes(Is(w, "GROUP_UPDATE_FLAGS_PET_CUR_POWER"), 2)
         + Bytes(Is(w, "GROUP_UPDATE_FLAGS_PET_MAX_POWER"), 2)
         + Bytes(Is(w, "GROUP_UPDATE_FLAGS_PET_AURAS"), tbc_aura_mask_size(w)))]]

tbc_FromSmsgPartyCommandResult ==
  [SMSG_PARTY_COMMAND_RESULT |-> [w \in OfLength |->
     Smsg(Ints(<<4>>) \o Cstring(w) \o Ints(<<4>>), 4 + write_cstring(w) + 4, 9 + w.len)],
   CMSG_GUILD_CREATE |-> [w \in OfLength |->
     Cmsg(Cstring(w), write_cstring(w), 1 + w.len)],
   CMSG_GUILD_INVITE |-> [w \in OfLength |->
     Cmsg(Cstring(w), write_cstring(w), 1 + w.len)],
   SMSG_GUILD_INVITE |-> [w \in OfLength |->
     Smsg(Cstring(w) \o Cstring(w), 2 * write_cstring(w), 2 + 2 * w.len)],
   CMSG_GUILD_ACCEPT |-> EmptyCmsg(0),
   CMSG_GUILD_DECLINE |-> EmptyCmsg(0)]

tbc_FromSmsgGuildDecline ==
  [SMSG_GUILD_DECLINE |-> [w \in OfLength |->
     Smsg(Cstring(w), write_cstring(w), 1 + w.len)],
   CMSG_GUILD_INFO |-> EmptyCmsg(0),
   SMSG_GUILD_INFO |-> [w \in OfLength |->
     Smsg(Cstring(w) \o Ints(Repeat(5, 4)), write_cstring(w) + 5 * 4, 21 + w.len)],
   CMSG_GUILD_ROSTER |-> EmptyCmsg(0)]

tbc_FromSmsgGuildRoster ==
  [SMSG_GUILD_ROSTER |->
     [w \in Wires(
              Lengths, Counts, {{"GuildMemberStatus::OFFLINE", "GuildMemberStatus::ONLINE"}}, {}) |->
       Smsg(
         Ints(<<4>>) \o Cstring(w) \o Cstring(w) \o Ints(<<4>>)
         \o Each(w.count, tbc_GuildRights.read) \o Each(w.count, tbc_GuildMember(w).read),
         4 + 2 * write_cstring(w) + 4 + w.count * tbc_GuildRights.written
         + w.count * tbc_GuildMember(w).written,
         10 + 2 * w.len + 56 * w.count + w.count * tbc_GuildMember(w).size)],
   CMSG_GUILD_PROMOTE |-> [w \in OfLength |->
     Cmsg(Cstring(w), write_cstring(w), 1 + w.len)],
   CMSG_GUILD_DEMOTE |-> [w \in OfLength |->
     Cmsg(Cstring(w), write_cstring(w), 1 + w.len)],
   CMSG_GUILD_LEAVE |-> EmptyCmsg(0)]

tbc_FromCmsgGuildRemove ==
  [CMSG_GUILD_REMOVE |-> [w \in OfLength |->
     Cmsg(Cstring(w), write_cstring(w), 1 + w.len)],
   CMSG_GUILD_DISBAND |-> EmptyCmsg(0),
   CMSG_GUILD_LEADER |-> [w \in OfLength |->
     Cmsg(Cstring(w), write_cstring(w), 1 + w.len)],
   CMSG_GUILD_MOTD |-> [w \in OfLength |->
     Cmsg(Cstring(w), write_cstring(w), 1 + w.len)],
   SMSG_GUILD_EVENT |-> [w \in OfLengthAndCount |->
     Smsg(Ints(<<1, 1>>) \o Each(U8(w.count), Cstring(w)),
          2 * 1 + w.count * write_cstring(w), 2 + w.count * (1 + w.len))]]

tbc_FromSmsgGuildCommandResult ==
  [SMSG_GUILD_COMMAND_RESULT |-> [w \in OfLength |->
     Smsg(Ints(<<4>>) \o Cstring(w) \o Ints(<<4>>), 4 + write_cstring(w) + 4, 9 + w.len)],
   CMSG_MESSAGECHAT |->
     [w \in Wires(
              Lengths, {0}, {{"ChatType::WHISPER", "ChatType::CHANNEL", "ChatType::SYSTEM"}}, {}) |->
       Cmsg(
         Ints(<<4, 4>>) \o When(Is(w, "ChatType::WHISPER"), Cstring(w))
         \o When(Is(w, "ChatType::CHANNEL"), Cstring(w)) \o Cstring(w),
         2 * 4 + Bytes(Is(w, "ChatType::WHISPER"), write_cstring(w))
         + Bytes(Is(w, "ChatType::CHANNEL"), write_cstring(w)) + write_cstring(w),
         9 + w.len + Bytes(Is(w, "ChatType::WHISPER"), 1 + w.len)
         + Bytes(Is(w, "ChatType::CHANNEL"), 1 + w.len))]]

tbc_FromSmsgMessagechat ==
  [SMSG_MESSAGECHAT |->
     [w \in Wires(Lengths, {0},
                  {{"ChatType::MONSTER_SAY", "ChatType::BG_SYSTEM_NEUTRAL", "ChatType::CHANNEL",
                    "ChatType::SYSTEM"}}, {"guid"}) |->
       Smsg(
         Ints(<<1, 4>>)
         \o When(Is(w, "ChatType::MONSTER_SAY"), SizedCstring(w) \o NamedGuid(w).read)
         \o When(Is(w, "ChatType::BG_SYSTEM_NEUTRAL"), NamedGuid(w).read)
         \o When(Is(w, "ChatType::CHANNEL"), Cstring(w) \o Ints(<<8>>))
         \o When(Is(w, "ChatType::SYSTEM"), Ints(<<8>>)) \o SizedCstring(w) \o Ints(<<1>>),
         1 + 4
         + Bytes(Is(w, "ChatType::MONSTER_SAY"), write_sized_cstring(w) + NamedGuid(w).written)
         + Bytes(Is(w, "ChatType::BG_SYSTEM_NEUTRAL"), NamedGuid(w).written)
         + Bytes(Is(w, "ChatType::CHANNEL"), write_cstring(w) + 8)
         + Bytes(Is(w, "ChatType::SYSTEM"), 8) + write_sized_cstring(w) + 1,
         11 + w.len + Bytes(Is(w, "ChatType::MONSTER_SAY"), 5 + w.len + NamedGuid(w).size)
         + Bytes(Is(w, "ChatType::BG_SYSTEM_NEUTRAL"), NamedGuid(w).size)
         + Bytes(Is(w, "ChatType::CHANNEL"), 9 + w.len) + Bytes(Is(w, "ChatType::SYSTEM"), 8))],
   CMSG_JOIN_CHANNEL |-> [w \in OfLength |->
     Cmsg(Ints(<<4, 1, 1>>) \o Cstring(w) \o Cstring(w),
          4 + 2 * 1 + 2 * write_cstring(w), 8 + 2 * w.len)]]

tbc_FromCmsgLeaveChannel ==
  [CMSG_LEAVE_CHANNEL |-> [w \in OfLength |->
     Cmsg(Ints(<<4>>) \o Cstring(w), 4 + write_cstring(w), 5 + w.len)],
   SMSG_CHANNEL_NOTIFY |-> [w \in Wires(Lengths, {0}, {}, {"unknown1"}) |->
     Smsg(Counted(2 + w.len, Ints(<<1>>) \o Cstring(w)) \o Optional(Ints(<<4, 4>>)),
          1 + write_cstring(w) + Bytes(Is(w, "unknown1"), 2 * 4),
          2 + w.len + Bytes(Is(w, "unknown1"), 8))],
   CMSG_CHANNEL_LIST |-> [w \in OfLength |->
     Cmsg(Cstring(w), write_cstring(w), 1 + w.len)]]

tbc_FromSmsgChannelList ==
  [SMSG_CHANNEL_LIST |-> [w \in OfLengthAndCount |->
     Smsg(Cstring(w) \o Ints(<<1, 4>>) \o Each(w.count, tbc_ChannelMember.read),
          write_cstring(w) + 1 + 4 + w.count * tbc_ChannelMember.written, 6 + w.len + 9 * w.count)],
   CMSG_CHANNEL_PASSWORD |-> [w \in OfLength |->
     Cmsg(Cstring(w) \o Cstring(w), 2 * write_cstring(w), 2 + 2 * w.len)],
   CMSG_CHANNEL_SET_OWNER |-> [w \in OfLength |->
     Cmsg(Cstring(w) \o Cstring(w), 2 * write_cstring(w), 2 + 2 * w.len)],
   CMSG_CHANNEL_OWNER |-> [w \in OfLength |->
     Cmsg(Cstring(w), write_cstring(w), 1 + w.len)]]

tbc_FromCmsgChannelModerator ==
  [CMSG_CHANNEL_MODERATOR |-> [w \in OfLength |->
     Cmsg(Cstring(w) \o Cstring(w), 2 * write_cstring(w), 2 + 2 * w.len)],
   CMSG_CHANNEL_UNMODERATOR |-> [w \in OfLength |->
     Cmsg(Cstring(w) \o Cstring(w), 2 * write_cstring(w), 2 + 2 * w.len)],
   CMSG_CHANNEL_MUTE |-> [w \in OfLength |->
     Cmsg(Cstring(w) \o Cstring(w), 2 * write_cstring(w), 2 + 2 * w.len)],
   CMSG_CHANNEL_UNMUTE |-> [w \in OfLength |->
     Cmsg(Cstring(w) \o Cstring(w), 2 * write_cstring(w), 2 + 2 * w.len)]]

tbc_FromCmsgChannelInvite ==
  [CMSG_CHANNEL_INVITE |-> [w \in OfLength |->
     Cmsg(Cstring(w) \o Cstring(w), 2 * write_cstring(w), 2 + 2 * w.len)],
   CMSG_CHANNEL_KICK |-> [w \in OfLength |->
     Cmsg(Cstring(w) \o Cstring(w), 2 * write_cstring(w), 2 + 2 * w.len)],
   CMSG_CHANNEL_BAN |-> [w \in OfLength |->
     Cmsg(Cstring(w) \o Cstring(w), 2 * write_cstring(w), 2 + 2 * w.len)],
   CMSG_CHANNEL_UNBAN |-> [w \in OfLength |->
     Cmsg(Cstring(w) \o Cstring(w), 2 * write_cstring(w), 2 + 2 * w.len)],
   CMSG_CHANNEL_ANNOUNCEMENTS |-> [w \in OfLength |->
     Cmsg(Cstring(w), write_cstring(w), 1 + w.len)]]

tbc_FromCmsgChannelModerate ==
  [CMSG_CHANNEL_MODERATE |-> [w \in OfLength |->
     Cmsg(Cstring(w), write_cstring(w), 1 + w.len)],
   SMSG_UPDATE_OBJECT |-> [w \in Wires(Lengths, UpdatedObjects, tbc_ObjectEnums, tbc_ObjectFlags) |->
     Smsg(Ints(<<4, 1>>) \o Each(w.count, tbc_Object(w).read),
          4 + 1 + w.count * tbc_Object(w).written, 5 + w.count * tbc_Object(w).size)],
   SMSG_DESTROY_OBJECT |-> PlainSmsg(<<8>>, 8, 8),
   CMSG_USE_ITEM |-> [w \in Wires(Lengths, {0}, {}, tbc_SpellCastTargetsFlags) |->
     Cmsg(Ints(<<1, 1, 1, 1, 8>>) \o tbc_SpellCastTargets(w).read,
          4 * 1 + 8 + tbc_SpellCastTargets(w).written, 12 + tbc_SpellCastTargets(w).size)]]

tbc_FromCmsgOpenItem ==
  [CMSG_OPEN_ITEM |-> PlainCmsg(<<1, 1>>, 2 * 1, 2),
   CMSG_READ_ITEM |-> PlainCmsg(<<1, 1>>, 2 * 1, 2),
   SMSG_READ_ITEM_OK |-> PlainSmsg(<<8>>, 8, 8),
   SMSG_READ_ITEM_FAILED |-> PlainSmsg(<<8>>, 8, 8),
   SMSG_ITEM_COOLDOWN |-> PlainSmsg(<<8, 4>>, 8 + 4, 12),
   CMSG_GAMEOBJ_USE |-> PlainCmsg(<<8>>, 8, 8)]

tbc_FromSmsgGameobjectCustomAnim ==
  [SMSG_GAMEOBJECT_CUSTOM_ANIM |-> PlainSmsg(<<8, 4>>, 8 + 4, 12),
   CMSG_AREATRIGGER |-> PlainCmsg(<<4>>, 4, 4),
   MSG_MOVE_START_FORWARD_Client |-> [w \in Wires(Lengths, {0}, {}, tbc_MovementInfoFlags) |->
     Cmsg(tbc_MovementInfo(w).read, tbc_MovementInfo(w).written, tbc_MovementInfo(w).size)],
   MSG_MOVE_START_FORWARD_Server |-> [w \in Wires(Lengths, {0}, {}, tbc_MovementInfoFlags) |->
     Smsg(PackedGuid(w) \o tbc_MovementInfo(w).read,
          write_packed_guid(w) + tbc_MovementInfo(w).written,
          wwm_packed_guid_size(w) + tbc_MovementInfo(w).size)],
   MSG_MOVE_START_BACKWARD_Client |-> [w \in Wires(Lengths, {0}, {}, tbc_MovementInfoFlags) |->
     Cmsg(tbc_MovementInfo(w).read, tbc_MovementInfo(w).written, tbc_MovementInfo(w).size)]]

tbc_FromMsgMoveStartBackward ==
  [MSG_MOVE_START_BACKWARD_Server |->
     tbc_FromSmsgGameobjectCustomAnim.MSG_MOVE_START_FORWARD_Server,
   MSG_MOVE_STOP_Client |-> tbc_FromSmsgGameobjectCustomAnim.MSG_MOVE_START_FORWARD_Client,
   MSG_MOVE_STOP_Server |-> tbc_FromSmsgGameobjectCustomAnim.MSG_MOVE_START_FORWARD_Server,
   MSG_MOVE_START_STRAFE_LEFT_Client |->
     tbc_FromSmsgGameobjectCustomAnim.MSG_MOVE_START_FORWARD_Client,
   MSG_MOVE_START_STRAFE_LEFT_Server |->
     tbc_FromSmsgGameobjectCustomAnim.MSG_MOVE_START_FORWARD_Server]

tbc_FromMsgMoveStartStrafeRight ==
  [MSG_MOVE_START_STRAFE_RIGHT_Client |->
     tbc_FromSmsgGameobjectCustomAnim.MSG_MOVE_START_FORWARD_Client,
   MSG_MOVE_START_STRAFE_RIGHT_Server |->
     tbc_FromSmsgGameobjectCustomAnim.MSG_MOVE_START_FORWARD_Server,
   MSG_MOVE_STOP_STRAFE_Client |-> tbc_FromSmsgGameobjectCustomAnim.MSG_MOVE_START_FORWARD_Client,
   MSG_MOVE_STOP_STRAFE_Server |-> tbc_FromSmsgGameobjectCustomAnim.MSG_MOVE_START_FORWARD_Server,
   MSG_MOVE_JUMP_Client |-> tbc_FromSmsgGameobjectCustomAnim.MSG_MOVE_START_FORWARD_Client]

tbc_FromMsgMoveJump ==
  [MSG_MOVE_JUMP_Server |-> tbc_FromSmsgGameobjectCustomAnim.MSG_MOVE_START_FORWARD_Server,
   MSG_MOVE_START_TURN_LEFT_Client |->
     tbc_FromSmsgGameobjectCustomAnim.MSG_MOVE_START_FORWARD_Client,
   MSG_MOVE_START_TURN_LEFT_Server |->
     tbc_FromSmsgGameobjectCustomAnim.MSG_MOVE_START_FORWARD_Server,
   MSG_MOVE_START_TURN_RIGHT_Client |->
     tbc_FromSmsgGameobjectCustomAnim.MSG_MOVE_START_FORWARD_Client,
   MSG_MOVE_START_TURN_RIGHT_Server |->
     tbc_FromSmsgGameobjectCustomAnim.MSG_MOVE_START_FORWARD_Server]

tbc_FromMsgMoveStopTurn ==
  [MSG_MOVE_STOP_TURN_Client |-> tbc_FromSmsgGameobjectCustomAnim.MSG_MOVE_START_FORWARD_Client,
   MSG_MOVE_STOP_TURN_Server |-> tbc_FromSmsgGameobjectCustomAnim.MSG_MOVE_START_FORWARD_Server,
   MSG_MOVE_START_PITCH_UP_Client |->
     tbc_FromSmsgGameobjectCustomAnim.MSG_MOVE_START_FORWARD_Client,
   MSG_MOVE_START_PITCH_UP_Server |->
     tbc_FromSmsgGameobjectCustomAnim.MSG_MOVE_START_FORWARD_Server,
   MSG_MOVE_START_PITCH_DOWN_Client |->
     tbc_FromSmsgGameobjectCustomAnim.MSG_MOVE_START_FORWARD_Client]

tbc_FromMsgMoveStartPitchDown ==
  [MSG_MOVE_START_PITCH_DOWN_Server |->
     tbc_FromSmsgGameobjectCustomAnim.MSG_MOVE_START_FORWARD_Server,
   MSG_MOVE_STOP_PITCH_Client |-> tbc_FromSmsgGameobjectCustomAnim.MSG_MOVE_START_FORWARD_Client,
   MSG_MOVE_STOP_PITCH_Server |-> tbc_FromSmsgGameobjectCustomAnim.MSG_MOVE_START_FORWARD_Server,
   MSG_MOVE_SET_RUN_MODE_Client |->
     tbc_FromSmsgGameobjectCustomAnim.MSG_MOVE_START_FORWARD_Client,
   MSG_MOVE_SET_RUN_MODE_Server |->
     tbc_FromSmsgGameobjectCustomAnim.MSG_MOVE_START_FORWARD_Server]

tbc_FromMsgMoveSetWalkMode ==
  [MSG_MOVE_SET_WALK_MODE_Client |->
     tbc_FromSmsgGameobjectCustomAnim.MSG_MOVE_START_FORWARD_Client,
   MSG_MOVE_SET_WALK_MODE_Server |->
     tbc_FromSmsgGameobjectCustomAnim.MSG_MOVE_START_FORWARD_Server,
   MSG_MOVE_TELEPORT_Server |-> [w \in Wires(Lengths, {0}, {}, tbc_MovementInfoFlags) |->
     Cmsg(PackedGuid(w) \o tbc_MovementInfo(w).read,
          write_packed_guid(w) + tbc_MovementInfo(w).written,
          wwm_packed_guid_size(w) + tbc_MovementInfo(w).size)],
   MSG_MOVE_TELEPORT_CHEAT_Server |-> [w \in {Fixed} |->
     Smsg(Vector3d.read \o Ints(<<4>>), Vector3d.written + 4, 16)],
   MSG_MOVE_TELEPORT_ACK_Client |-> [w \in OfLength |->
     Cmsg(
       PackedGuid(w) \o Ints(<<4, 4>>), write_packed_guid(w) + 2 * 4, 8 + wwm_packed_guid_size(w))]]

tbc_FromMsgMoveTeleportAck ==
  [MSG_MOVE_TELEPORT_ACK_Server |-> [w \in Wires(Lengths, {0}, {}, tbc_MovementInfoFlags) |->
     Smsg(PackedGuid(w) \o Ints(<<4>>) \o tbc_MovementInfo(w).read,
          write_packed_guid(w) + 4 + tbc_MovementInfo(w).written,
          4 + wwm_packed_guid_size(w) + tbc_MovementInfo(w).size)],
   MSG_MOVE_FALL_LAND_Client |-> tbc_FromSmsgGameobjectCustomAnim.MSG_MOVE_START_FORWARD_Client,
   MSG_MOVE_FALL_LAND_Server |-> tbc_FromSmsgGameobjectCustomAnim.MSG_MOVE_START_FORWARD_Server,
   MSG_MOVE_START_SWIM_Client |-> tbc_FromSmsgGameobjectCustomAnim.MSG_MOVE_START_FORWARD_Client,
   MSG_MOVE_START_SWIM_Server |-> tbc_FromSmsgGameobjectCustomAnim.MSG_MOVE_START_FORWARD_Server]

tbc_FromMsgMoveStopSwim ==
  [MSG_MOVE_STOP_SWIM_Client |-> tbc_FromSmsgGameobjectCustomAnim.MSG_MOVE_START_FORWARD_Client,
   MSG_MOVE_STOP_SWIM_Server |-> tbc_FromSmsgGameobjectCustomAnim.MSG_MOVE_START_FORWARD_Server,
   MSG_MOVE_SET_FACING_Client |-> tbc_FromSmsgGameobjectCustomAnim.MSG_MOVE_START_FORWARD_Client,
   MSG_MOVE_SET_FACING_Server |-> tbc_FromSmsgGameobjectCustomAnim.MSG_MOVE_START_FORWARD_Server,
   MSG_MOVE_SET_PITCH_Client |-> tbc_FromSmsgGameobjectCustomAnim.MSG_MOVE_START_FORWARD_Client]

tbc_FromMsgMoveSetPitch ==
  [MSG_MOVE_SET_PITCH_Server |-> tbc_FromSmsgGameobjectCustomAnim.MSG_MOVE_START_FORWARD_Server,
   MSG_MOVE_WORLDPORT_ACK_cmsg |-> EmptyCmsg(0),
   MSG_MOVE_WORLDPORT_ACK_smsg |-> EmptySmsg(0),
   SMSG_MONSTER_MOVE |->
     [w \in Wires(Lengths, Counts,
                  {{"MonsterMoveType::FACING_TARGET", "MonsterMoveType::FACING_ANGLE",
                    "MonsterMoveType::FACING_SPOT", "MonsterMoveType::NORMAL"}}, {}) |->
       Smsg(
         PackedGuid(w) \o Vector3d.read \o Ints(<<4, 1>>)
         \o When(Is(w, "MonsterMoveType::FACING_TARGET"), Ints(<<8>>))
         \o When(Is(w, "MonsterMoveType::FACING_ANGLE"), Ints(<<4>>))
         \o When(Is(w, "MonsterMoveType::FACING_SPOT"), Vector3d.read) \o Ints(<<4, 4>>)
         \o MonsterMoveSpline(w),
         write_packed_guid(w) + Vector3d.written + 4 + 1
         + Bytes(Is(w, "MonsterMoveType::FACING_TARGET"), 8)
         + Bytes(Is(w, "MonsterMoveType::FACING_ANGLE"), 4)
         + Bytes(Is(w, "MonsterMoveType::FACING_SPOT"), Vector3d.written) + 2 * 4
         + wwm_write_monster_move_spline(w),
         25 + wwm_packed_guid_size(w) + wwm_monster_move_spline_size(w)
         + Bytes(Is(w, "MonsterMoveType::FACING_TARGET"), 8)
         + Bytes(Is(w, "MonsterMoveType::FACING_ANGLE"), 4)
         + Bytes(Is(w, "MonsterMoveType::FACING_SPOT"), 12))]]

tbc_FromSmsgMoveWaterWalk ==
  [SMSG_MOVE_WATER_WALK |-> [w \in OfLength |->
     Smsg(PackedGuid(w) \o Ints(<<4>>), write_packed_guid(w) + 4, 4 + wwm_packed_guid_size(w))],
   SMSG_MOVE_LAND_WALK |-> [w \in OfLength |->
     Smsg(PackedGuid(w) \o Ints(<<4>>), write_packed_guid(w) + 4, 4 + wwm_packed_guid_size(w))],
   CMSG_MOVE_SET_RAW_POSITION |-> [w \in {Fixed} |->
     Cmsg(Vector3d.read \o Ints(<<4>>), Vector3d.written + 4, 16)],
   SMSG_FORCE_RUN_SPEED_CHANGE |-> [w \in OfLength |->
     Smsg(PackedGuid(w) \o Ints(<<4, 1, 4>>),
          write_packed_guid(w) + 4 + 1 + 4, 9 + wwm_packed_guid_size(w))]]

tbc_FromCmsgForceRunSpeedChangeAck ==
  [CMSG_FORCE_RUN_SPEED_CHANGE_ACK |-> [w \in Wires(Lengths, {0}, {}, tbc_MovementInfoFlags) |->
     Cmsg(Ints(<<8, 4>>) \o tbc_MovementInfo(w).read \o Ints(<<4>>),
          8 + 4 + tbc_MovementInfo(w).written + 4, 16 + tbc_MovementInfo(w).size)],
   SMSG_FORCE_RUN_BACK_SPEED_CHANGE |-> [w \in OfLength |->
     Smsg(
       PackedGuid(w) \o Ints(<<4, 4>>), write_packed_guid(w) + 2 * 4, 8 + wwm_packed_guid_size(w))],
   CMSG_FORCE_RUN_BACK_SPEED_CHANGE_ACK |->
     [w \in Wires(Lengths, {0}, {}, tbc_MovementInfoFlags) |->
       Cmsg(Ints(<<8, 4>>) \o tbc_MovementInfo(w).read \o Ints(<<4>>),
            8 + 4 + tbc_MovementInfo(w).written + 4, 16 + tbc_MovementInfo(w).size)],
   SMSG_FORCE_SWIM_SPEED_CHANGE |-> [w \in OfLength |->
     Smsg(
       PackedGuid(w) \o Ints(<<4, 4>>), write_packed_guid(w) + 2 * 4, 8 + wwm_packed_guid_size(w))]]

tbc_FromCmsgForceSwimSpeedChangeAck ==
  [CMSG_FORCE_SWIM_SPEED_CHANGE_ACK |->
     tbc_FromCmsgForceRunSpeedChangeAck.CMSG_FORCE_RUN_SPEED_CHANGE_ACK,
   SMSG_FORCE_MOVE_ROOT |-> [w \in OfLength |->
     Smsg(PackedGuid(w) \o Ints(<<4>>), write_packed_guid(w) + 4, 4 + wwm_packed_guid_size(w))],
   CMSG_FORCE_MOVE_ROOT_ACK |-> [w \in Wires(Lengths, {0}, {}, tbc_MovementInfoFlags) |->
     Cmsg(Ints(<<8, 4>>) \o tbc_MovementInfo(w).read,
          8 + 4 + tbc_MovementInfo(w).written, 12 + tbc_MovementInfo(w).size)],
   SMSG_FORCE_MOVE_UNROOT |-> [w \in OfLength |->
     Smsg(PackedGuid(w) \o Ints(<<4>>), write_packed_guid(w) + 4, 4 + wwm_packed_guid_size(w))]]

tbc_FromCmsgForceMoveUnrootAck ==
  [CMSG_FORCE_MOVE_UNROOT_ACK |-> tbc_FromCmsgForceSwimSpeedChangeAck.CMSG_FORCE_MOVE_ROOT_ACK,
   MSG_MOVE_ROOT_Server |-> tbc_FromSmsgGameobjectCustomAnim.MSG_MOVE_START_FORWARD_Server,
   MSG_MOVE_UNROOT_Server |-> tbc_FromSmsgGameobjectCustomAnim.MSG_MOVE_START_FORWARD_Server,
   MSG_MOVE_HEARTBEAT_Client |-> tbc_FromSmsgGameobjectCustomAnim.MSG_MOVE_START_FORWARD_Client]

tbc_FromMsgMoveHeartbeat ==
  [MSG_MOVE_HEARTBEAT_Server |-> tbc_FromSmsgGameobjectCustomAnim.MSG_MOVE_START_FORWARD_Server,
   SMSG_MOVE_KNOCK_BACK |-> [w \in OfLength |->
     Smsg(PackedGuid(w) \o Ints(Repeat(5, 4)),
          write_packed_guid(w) + 5 * 4, 20 + wwm_packed_guid_size(w))],
   CMSG_MOVE_KNOCK_BACK_ACK |-> tbc_FromCmsgForceSwimSpeedChangeAck.CMSG_FORCE_MOVE_ROOT_ACK]

tbc_FromMsgMoveKnockBack ==
  [MSG_MOVE_KNOCK_BACK_Server |-> [w \in Wires(Lengths, {0}, {}, tbc_MovementInfoFlags) |->
     Smsg(PackedGuid(w) \o tbc_MovementInfo(w).read \o Ints(<<4, 4, 4, 4>>),
          write_packed_guid(w) + tbc_MovementInfo(w).written + 4 * 4,
          16 + wwm_packed_guid_size(w) + tbc_MovementInfo(w).size)],
   SMSG_MOVE_FEATHER_FALL |-> [w \in OfLength |->
     Smsg(PackedGuid(w) \o Ints(<<4>>), write_packed_guid(w) + 4, 4 + wwm_packed_guid_size(w))],
   SMSG_MOVE_NORMAL_FALL |-> [w \in OfLength |->
     Smsg(PackedGuid(w) \o Ints(<<4>>), write_packed_guid(w) + 4, 4 + wwm_packed_guid_size(w))],
   SMSG_MOVE_SET_HOVER |-> [w \in OfLength |->
     Smsg(PackedGuid(w) \o Ints(<<4>>), write_packed_guid(w) + 4, 4 + wwm_packed_guid_size(w))]]

tbc_FromSmsgMoveUnsetHover ==
  [SMSG_MOVE_UNSET_HOVER |-> [w \in OfLength |->
     Smsg(PackedGuid(w) \o Ints(<<4>>), write_packed_guid(w) + 4, 4 + wwm_packed_guid_size(w))],
   CMSG_MOVE_HOVER_ACK |-> tbc_FromCmsgForceRunSpeedChangeAck.CMSG_FORCE_RUN_SPEED_CHANGE_ACK,
   MSG_MOVE_HOVER_cmsg |-> [w \in Wires(Lengths, {0}, {}, tbc_MovementInfoFlags) |->
     Client(tbc_MSG_MOVE_HOVER(w))],
   MSG_MOVE_HOVER_smsg |-> [w \in Wires(Lengths, {0}, {}, tbc_MovementInfoFlags) |->
     Server(tbc_MSG_MOVE_HOVER(w))],
   SMSG_TRIGGER_CINEMATIC |-> PlainSmsg(<<4>>, 4, 4)]

tbc_FromCmsgNextCinematicCamera ==
  [CMSG_NEXT_CINEMATIC_CAMERA |-> EmptyCmsg(0),
   CMSG_COMPLETE_CINEMATIC |-> EmptyCmsg(0),
   SMSG_TUTORIAL_FLAGS |-> PlainSmsg(Repeat(8, 4), 8 * 4, 32),
   CMSG_TUTORIAL_FLAG |-> PlainCmsg(<<4>>, 4, 4),
   CMSG_TUTORIAL_CLEAR |-> EmptyCmsg(0),
   CMSG_TUTORIAL_RESET |-> EmptyCmsg(0),
   CMSG_STANDSTATECHANGE |-> PlainCmsg(<<4>>, 4, 4),
   CMSG_EMOTE |-> PlainCmsg(<<4>>, 4, 4)]

tbc_FromSmsgEmote ==
  [SMSG_EMOTE |-> PlainSmsg(<<4, 8>>, 4 + 8, 12),
   CMSG_TEXT_EMOTE |-> PlainCmsg(<<4, 4, 8>>, 2 * 4 + 8, 16),
   SMSG_TEXT_EMOTE |-> [w \in OfLength |->
     Smsg(Ints(<<8, 4, 4>>) \o SizedCstring(w), 8 + 2 * 4 + write_sized_cstring(w), 21 + w.len)],
   CMSG_AUTOSTORE_LOOT_ITEM |-> PlainCmsg(<<1>>, 1, 1),
   CMSG_AUTOEQUIP_ITEM |-> PlainCmsg(<<1, 1>>, 2 * 1, 2)]

tbc_FromCmsgAutostoreBagItem ==
  [CMSG_AUTOSTORE_BAG_ITEM |-> PlainCmsg(<<1, 1, 1>>, 3 * 1, 3),
   CMSG_SWAP_ITEM |-> PlainCmsg(<<1, 1, 1, 1>>, 4 * 1, 4),
   CMSG_SWAP_INV_ITEM |-> PlainCmsg(<<1, 1>>, 2 * 1, 2),
   CMSG_SPLIT_ITEM |-> PlainCmsg(Repeat(5, 1), 5 * 1, 5)]

tbc_FromCmsgAutoequipItemSlot ==
  [CMSG_AUTOEQUIP_ITEM_SLOT |-> PlainCmsg(<<8, 1>>, 8 + 1, 9),
   CMSG_DESTROYITEM |-> PlainCmsg(Repeat(6, 1), 6 * 1, 6),
   SMSG_INVENTORY_CHANGE_FAILURE |->
     [w \in Wires({0}, {0},
                  {{"InventoryResult::CANT_EQUIP_LEVEL_I", "InventoryResult::CANT_EQUIP_SKILL",
                    "InventoryResult::OK"}}, {}) |->
       Smsg(
         Ints(<<1>>)
         \o When(
              IsIn(w, {"InventoryResult::CANT_EQUIP_LEVEL_I", "InventoryResult::CANT_EQUIP_SKILL"}),
              Ints(<<8, 8, 1>>)) \o When(Is(w, "InventoryResult::CANT_EQUIP_LEVEL_I"), Ints(<<4>>)),
         1
         + Bytes(
             IsIn(w, {"InventoryResult::CANT_EQUIP_LEVEL_I", "InventoryResult::CANT_EQUIP_SKILL"}),
             2 * 8 + 1) + Bytes(Is(w, "InventoryResult::CANT_EQUIP_LEVEL_I"), 4),
         1
         + Bytes(
             IsIn(w, {"InventoryResult::CANT_EQUIP_LEVEL_I", "InventoryResult::CANT_EQUIP_SKILL"}),
             17) + Bytes(Is(w, "InventoryResult::CANT_EQUIP_LEVEL_I"), 4))]]

tbc_FromCmsgInspect ==
  [CMSG_INSPECT |-> PlainCmsg(<<8>>, 8, 8),
   CMSG_INITIATE_TRADE |-> PlainCmsg(<<8>>, 8, 8),
   CMSG_BEGIN_TRADE |-> EmptyCmsg(0),
   CMSG_BUSY_TRADE |-> EmptyCmsg(0),
   CMSG_IGNORE_TRADE |-> EmptyCmsg(0),
   CMSG_ACCEPT_TRADE |-> PlainCmsg(<<4>>, 4, 4),
   CMSG_UNACCEPT_TRADE |-> EmptyCmsg(0),
   CMSG_CANCEL_TRADE |-> EmptyCmsg(0)]

tbc_FromCmsgSetTradeItem ==
  [CMSG_SET_TRADE_ITEM |-> PlainCmsg(<<1, 1, 1>>, 3 * 1, 3),
   CMSG_CLEAR_TRADE_ITEM |-> PlainCmsg(<<1>>, 1, 1),
   CMSG_SET_TRADE_GOLD |-> PlainCmsg(<<4>>, 4, 4),
   SMSG_TRADE_STATUS |->
     [w \in Wires({0}, {0},
                  {{"TradeStatus::BEGIN_TRADE", "TradeStatus::CLOSE_WINDOW",
                    "TradeStatus::ONLY_CONJURED", "TradeStatus::BUSY"}}, {}) |->
       Smsg(
         Ints(<<4>>) \o When(Is(w, "TradeStatus::BEGIN_TRADE"), Ints(<<8>>))
         \o When(Is(w, "TradeStatus::CLOSE_WINDOW"), Ints(<<4, 1, 4>>))
         \o When(Is(w, "TradeStatus::ONLY_CONJURED"), Ints(<<1>>)),
         4 + Bytes(Is(w, "TradeStatus::BEGIN_TRADE"), 8)
         + Bytes(Is(w, "TradeStatus::CLOSE_WINDOW"), 4 + 1 + 4)
         + Bytes(Is(w, "TradeStatus::ONLY_CONJURED"), 1),
         4 + Bytes(Is(w, "TradeStatus::BEGIN_TRADE"), 8)
         + Bytes(Is(w, "TradeStatus::CLOSE_WINDOW"), 9)
         + Bytes(Is(w, "TradeStatus::ONLY_CONJURED"), 1))]]

tbc_FromSmsgTradeStatusExtended ==
  [SMSG_TRADE_STATUS_EXTENDED |-> [w \in {Fixed} |->
     Smsg(Ints(<<1>> \o Repeat(5, 4)) \o Each(7, tbc_TradeSlot.read),
          1 + 5 * 4 + 7 * tbc_TradeSlot.written, 532)],
   SMSG_INITIALIZE_FACTIONS |-> [w \in OfCount |->
     Smsg(Ints(<<4>>) \o Each(w.count, tbc_FactionInitializer.read),
          4 + w.count * tbc_FactionInitializer.written, 4 + 5 * w.count)],
   SMSG_SET_FACTION_VISIBLE |-> PlainSmsg(<<2>>, 2, 2),
   SMSG_SET_FACTION_STANDING |-> [w \in OfCount |->
     Smsg(Ints(<<4, 4>>) \o Each(w.count, tbc_FactionStanding.read),
          2 * 4 + w.count * tbc_FactionStanding.written, 8 + 6 * w.count)]]

tbc_FromCmsgSetFactionAtwar ==
  [CMSG_SET_FACTION_ATWAR |-> PlainCmsg(<<2, 1>>, 2 + 1, 3),
   SMSG_SET_PROFICIENCY |-> PlainSmsg(<<1, 4>>, 1 + 4, 5),
   CMSG_SET_ACTION_BUTTON |-> PlainCmsg(<<1, 2, 1, 1>>, 1 + 2 + 2 * 1, 5),
   SMSG_ACTION_BUTTONS |-> PlainSmsg(Repeat(132, 4), 132 * 4, 528)]

tbc_FromSmsgInitialSpells ==
  [SMSG_INITIAL_SPELLS |-> [w \in OfCount |->
     Smsg(
       Ints(<<1, 2>>) \o Each(U16(w.count), tbc_InitialSpell.read) \o Ints(<<2>>)
       \o Each(U16(w.count), tbc_CooldownSpell.read),
       1 + 2 + w.count * tbc_InitialSpell.written + 2 + w.count * tbc_CooldownSpell.written,
       5 + 4 * w.count + 14 * w.count)],
   SMSG_LEARNED_SPELL |-> PlainSmsg(<<4>>, 4, 4),
   SMSG_SUPERCEDED_SPELL |-> PlainSmsg(<<2, 2>>, 2 * 2, 4),
   CMSG_CAST_SPELL |-> [w \in Wires(Lengths, {0}, {}, tbc_SpellCastTargetsFlags) |->
     Cmsg(Ints(<<4>>) \o tbc_SpellCastTargets(w).read,
          4 + tbc_SpellCastTargets(w).written, 4 + tbc_SpellCastTargets(w).size)]]

tbc_FromCmsgCancelCast ==
  [CMSG_CANCEL_CAST |-> PlainCmsg(<<4>>, 4, 4),
   SMSG_CAST_FAILED |->
     [w \in Wires(
              {0}, {0},
              {{"SpellCastResult::REQUIRES_SPELL_FOCUS", "SpellCastResult::REQUIRES_AREA",
                "SpellCastResult::TOTEMS", "SpellCastResult::TOTEM_CATEGORY",
                "SpellCastResult::EQUIPPED_ITEM_CLASS", "SpellCastResult::AFFECTING_COMBAT"}},
              {}) |->
       Smsg(
         Ints(<<4, 1, 1>>) \o When(Is(w, "SpellCastResult::REQUIRES_SPELL_FOCUS"), Ints(<<4>>))
         \o When(Is(w, "SpellCastResult::REQUIRES_AREA"), Ints(<<4>>))
         \o When(Is(w, "SpellCastResult::TOTEMS"), Ints(<<4, 4>>))
         \o When(Is(w, "SpellCastResult::TOTEM_CATEGORY"), Ints(<<4, 4>>))
         \o When(Is(w, "SpellCastResult::EQUIPPED_ITEM_CLASS"), Ints(<<4, 4, 4>>)),
         4 + 2 * 1 + Bytes(Is(w, "SpellCastResult::REQUIRES_SPELL_FOCUS"), 4)
         + Bytes(Is(w, "SpellCastResult::REQUIRES_AREA"), 4)
         + Bytes(Is(w, "SpellCastResult::TOTEMS"), 2 * 4)
         + Bytes(Is(w, "SpellCastResult::TOTEM_CATEGORY"), 2 * 4)
         + Bytes(Is(w, "SpellCastResult::EQUIPPED_ITEM_CLASS"), 3 * 4),
         6 + Bytes(Is(w, "SpellCastResult::REQUIRES_SPELL_FOCUS"), 4)
         + Bytes(Is(w, "SpellCastResult::REQUIRES_AREA"), 4)
         + Bytes(Is(w, "SpellCastResult::TOTEMS"), 8)
         + Bytes(Is(w, "SpellCastResult::TOTEM_CATEGORY"), 8)
         + Bytes(Is(w, "SpellCastResult::EQUIPPED_ITEM_CLASS"), 12))]]

tbc_FromSmsgSpellStart ==
  [SMSG_SPELL_START |->
     [w \in Wires(Lengths, {0}, {}, tbc_SpellCastTargetsFlags \union {"CAST_FLAGS_AMMO"}) |->
       Smsg(
         PackedGuid(w) \o PackedGuid(w) \o Ints(<<4, 1, 2, 4>>) \o tbc_SpellCastTargets(w).read
         \o When(Is(w, "CAST_FLAGS_AMMO"), Ints(<<4, 4>>)),
         2 * write_packed_guid(w) + 4 + 1 + 2 + 4 + tbc_SpellCastTargets(w).written
         + Bytes(Is(w, "CAST_FLAGS_AMMO"), 2 * 4),
         11 + 2 * wwm_packed_guid_size(w) + tbc_SpellCastTargets(w).size
         + Bytes(Is(w, "CAST_FLAGS_AMMO"), 8))]]

tbc_FromSmsgSpellGo ==
  [SMSG_SPELL_GO |->
     [w \in Wires(Lengths, Counts, {{"SpellMissInfo::REFLECT", "SpellMissInfo::NONE"}},
                  tbc_SpellCastTargetsFlags \union {"CAST_FLAGS_AMMO"}) |->
       Smsg(
         PackedGuid(w) \o PackedGuid(w) \o Ints(<<4, 2, 4, 1>> \o Repeat(U8(w.count), 8) \o <<1>>)
         \o Each(U8(w.count), tbc_SpellMiss(w).read) \o tbc_SpellCastTargets(w).read
         \o When(Is(w, "CAST_FLAGS_AMMO"), Ints(<<4, 4>>)),
         2 * write_packed_guid(w) + 4 + 2 + 4 + 1 + w.count * 8 + 1
         + w.count * tbc_SpellMiss(w).written + tbc_SpellCastTargets(w).written
         + Bytes(Is(w, "CAST_FLAGS_AMMO"), 2 * 4),
         12 + 2 * wwm_packed_guid_size(w) + 8 * w.count + tbc_SpellCastTargets(w).size
         + w.count * tbc_SpellMiss(w).size + Bytes(Is(w, "CAST_FLAGS_AMMO"), 8))],
   SMSG_SPELL_FAILURE |-> PlainSmsg(<<8, 4, 1>>, 8 + 4 + 1, 13)]

tbc_FromSmsgSpellCooldown ==
  [SMSG_SPELL_COOLDOWN |-> [w \in OfCount |->
     Smsg(Counted(9, Ints(<<8, 1>>)) \o Endless(w.count, tbc_SpellCooldownStatus.read, 8),
          8 + 1 + w.count * tbc_SpellCooldownStatus.written, 9 + 8 * w.count)],
   SMSG_COOLDOWN_EVENT |-> PlainSmsg(<<4, 8>>, 4 + 8, 12),
   CMSG_CANCEL_AURA |-> PlainCmsg(<<4>>, 4, 4),
   SMSG_UPDATE_AURA_DURATION |-> PlainSmsg(<<1, 4>>, 1 + 4, 5)]

tbc_FromSmsgPetCastFailed ==
  [SMSG_PET_CAST_FAILED |-> tbc_FromCmsgCancelCast.SMSG_CAST_FAILED,
   MSG_CHANNEL_START_Server |-> [w \in OfLength |->
     Smsg(
       PackedGuid(w) \o Ints(<<4, 4>>), write_packed_guid(w) + 2 * 4, 8 + wwm_packed_guid_size(w))]]

tbc_FromMsgChannelUpdate ==
  [MSG_CHANNEL_UPDATE_Server |-> [w \in OfLength |->
     Smsg(PackedGuid(w) \o Ints(<<4>>), write_packed_guid(w) + 4, 4 + wwm_packed_guid_size(w))],
   CMSG_CANCEL_CHANNELLING |-> PlainCmsg(<<4>>, 4, 4),
   SMSG_AI_REACTION |-> PlainSmsg(<<8, 4>>, 8 + 4, 12),
   CMSG_SET_SELECTION |-> PlainCmsg(<<8>>, 8, 8),
   CMSG_SET_TARGET_OBSOLETE |-> PlainCmsg(<<8>>, 8, 8),
   CMSG_ATTACKSWING |-> PlainCmsg(<<8>>, 8, 8)]

tbc_FromCmsgAttackstop ==
  [CMSG_ATTACKSTOP |-> EmptyCmsg(0),
   SMSG_ATTACKSTART |-> PlainSmsg(<<8, 8>>, 2 * 8, 16),
   SMSG_ATTACKSTOP |-> [w \in OfLength |->
     Smsg(PackedGuid(w) \o PackedGuid(w) \o Ints(<<4>>),
          2 * write_packed_guid(w) + 4, 4 + 2 * wwm_packed_guid_size(w))],
   SMSG_ATTACKSWING_NOTINRANGE |-> EmptySmsg(0),
   SMSG_ATTACKSWING_BADFACING |-> EmptySmsg(0),
   SMSG_ATTACKSWING_NOTSTANDING |-> EmptySmsg(0),
   SMSG_ATTACKSWING_DEADTARGET |-> EmptySmsg(0),
   SMSG_ATTACKSWING_CANT_ATTACK |-> EmptySmsg(0)]

tbc_FromSmsgAttackerstateupdate ==
  [SMSG_ATTACKERSTATEUPDATE |-> [w \in OfLengthAndCount |->
     Smsg(
       Ints(<<4>>) \o PackedGuid(w) \o PackedGuid(w) \o Ints(<<4, 1>>)
       \o Each(U8(w.count), tbc_DamageInfo.read) \o Ints(<<4, 4, 4, 4>>),
       4 + 2 * write_packed_guid(w) + 4 + 1 + w.count * tbc_DamageInfo.written + 4 * 4,
       25 + 2 * wwm_packed_guid_size(w) + 20 * w.count)],
   SMSG_CANCEL_COMBAT |-> EmptySmsg(0),
   SMSG_SPELLHEALLOG |-> [w \in OfLength |->
     Smsg(PackedGuid(w) \o PackedGuid(w) \o Ints(<<4, 4, 1, 1>>),
          2 * write_packed_guid(w) + 2 * 4 + 2 * 1, 10 + 2 * wwm_packed_guid_size(w))]]

tbc_FromSmsgSpellenergizelog ==
  [SMSG_SPELLENERGIZELOG |-> [w \in OfLength |->
     Smsg(PackedGuid(w) \o PackedGuid(w) \o Ints(<<4, 4, 4>>),
          2 * write_packed_guid(w) + 3 * 4, 12 + 2 * wwm_packed_guid_size(w))],
   SMSG_BINDPOINTUPDATE |-> [w \in {Fixed} |->
     Smsg(Vector3d.read \o Ints(<<4, 4>>), Vector3d.written + 2 * 4, 20)],
   SMSG_PLAYERBOUND |-> PlainSmsg(<<8, 4>>, 8 + 4, 12),
   SMSG_CLIENT_CONTROL_UPDATE |-> [w \in OfLength |->
     Smsg(PackedGuid(w) \o Ints(<<1>>), write_packed_guid(w) + 1, 1 + wwm_packed_guid_size(w))],
   CMSG_REPOP_REQUEST |-> EmptyCmsg(0)]

tbc_FromSmsgResurrectRequest ==
  [SMSG_RESURRECT_REQUEST |-> [w \in OfLength |->
     Smsg(
       Ints(<<8>>) \o SizedCstring(w) \o Ints(<<1>>), 8 + write_sized_cstring(w) + 1, 14 + w.len)],
   CMSG_RESURRECT_RESPONSE |-> PlainCmsg(<<8, 1>>, 8 + 1, 9),
   CMSG_LOOT |-> PlainCmsg(<<8>>, 8, 8),
   CMSG_LOOT_MONEY |-> EmptyCmsg(0),
   CMSG_LOOT_RELEASE |-> PlainCmsg(<<8>>, 8, 8)]

tbc_FromSmsgLootResponse ==
  [SMSG_LOOT_RESPONSE |->
     [w \in Wires({0}, Counts, {{"LootMethod::ERROR", "LootMethod::CORPSE"}}, {}) |->
       Smsg(
         Ints(<<8, 1>>) \o When(Is(w, "LootMethod::ERROR"), Ints(<<1>>)) \o Ints(<<4, 1>>)
         \o Each(U8(w.count), tbc_LootItem.read),
         8 + 1 + Bytes(Is(w, "LootMethod::ERROR"), 1) + 4 + 1 + w.count * tbc_LootItem.written,
         14 + 6 * w.count + Bytes(Is(w, "LootMethod::ERROR"), 1))],
   SMSG_LOOT_RELEASE_RESPONSE |-> PlainSmsg(<<8, 1>>, 8 + 1, 9),
   SMSG_LOOT_REMOVED |-> PlainSmsg(<<1>>, 1, 1),
   SMSG_LOOT_MONEY_NOTIFY |-> PlainSmsg(<<4>>, 4, 4),
   SMSG_LOOT_CLEAR_MONEY |-> EmptySmsg(0)]

tbc_FromSmsgItemPushResult ==
  [SMSG_ITEM_PUSH_RESULT |->
     PlainSmsg(<<8, 4, 4, 4, 1>> \o Repeat(6, 4), 8 + 3 * 4 + 1 + 6 * 4, 45),
   SMSG_DUEL_REQUESTED |-> PlainSmsg(<<8, 8>>, 2 * 8, 16),
   SMSG_DUEL_OUTOFBOUNDS |-> EmptySmsg(0),
   SMSG_DUEL_INBOUNDS |-> EmptySmsg(0),
   SMSG_DUEL_COMPLETE |-> PlainSmsg(<<1>>, 1, 1)]

tbc_FromSmsgDuelWinner ==
  [SMSG_DUEL_WINNER |-> [w \in OfLength |->
     Smsg(Ints(<<1>>) \o Cstring(w) \o Cstring(w), 1 + 2 * write_cstring(w), 3 + 2 * w.len)],
   CMSG_DUEL_ACCEPTED |-> PlainCmsg(<<8>>, 8, 8),
   CMSG_DUEL_CANCELLED |-> PlainCmsg(<<8>>, 8, 8),
   SMSG_MOUNTRESULT |-> PlainSmsg(<<4>>, 4, 4),
   CMSG_MOUNTSPECIAL_ANIM |-> EmptyCmsg(0),
   SMSG_MOUNTSPECIAL_ANIM |-> PlainSmsg(<<8>>, 8, 8)]

tbc_FromSmsgPetTameFailure ==
  [SMSG_PET_TAME_FAILURE |-> PlainSmsg(<<1>>, 1, 1),
   CMSG_PET_SET_ACTION |-> [w \in Wires({0}, {0}, {}, {"extra"}) |->
     Cmsg(Counted(16, Ints(<<8, 4, 4>>)) \o Optional(Ints(<<4, 4>>)),
          8 + 2 * 4 + Bytes(Is(w, "extra"), 2 * 4), 16 + Bytes(Is(w, "extra"), 8))],
   CMSG_PET_ACTION |-> PlainCmsg(<<8, 4, 8>>, 8 + 4 + 8, 20),
   CMSG_PET_ABANDON |-> PlainCmsg(<<8>>, 8, 8)]

tbc_FromCmsgPetRename ==
  [CMSG_PET_RENAME |-> [w \in OfLength |->
     Cmsg(Ints(<<8>>) \o Cstring(w) \o Ints(<<1>>), 8 + write_cstring(w) + 1, 10 + w.len)],
   SMSG_PET_NAME_INVALID |->
     [w \in Wires(Lengths, {0},
                  {{"DeclinedPetNameIncluded::INCLUDED", "DeclinedPetNameIncluded::NOT_INCLUDED"}},
                  {}) |->
       Smsg(
         Ints(<<4>>) \o Cstring(w) \o Ints(<<1>>)
         \o When(Is(w, "DeclinedPetNameIncluded::INCLUDED"), Each(5, Cstring(w))),
         4 + write_cstring(w) + 1
         + Bytes(Is(w, "DeclinedPetNameIncluded::INCLUDED"), 5 * write_cstring(w)),
         6 + w.len + Bytes(Is(w, "DeclinedPetNameIncluded::INCLUDED"), 5 * (1 + w.len)))]]

tbc_FromSmsgPetSpells ==
  [SMSG_PET_SPELLS |-> [w \in Wires({0}, Counts, {}, {"action_bars"}) |->
     Smsg(
       Counted(8, Ints(<<8>>))
       \o Optional(Ints(<<4, 1, 1, 1, 1>> \o Repeat(10, 4) \o <<1>> \o Repeat(U8(w.count), 4)
                        \o <<1>>) \o Each(U8(w.count), tbc_PetSpellCooldown.read)),
       8
       + Bytes(Is(w, "action_bars"),
               4 + 4 * 1 + 10 * 4 + 1 + w.count * 4 + 1 + w.count * tbc_PetSpellCooldown.written),
       8 + Bytes(Is(w, "action_bars"), 50 + 4 * w.count + 12 * w.count))],
   SMSG_PET_MODE |-> PlainSmsg(<<8, 1, 1, 1, 1>>, 8 + 4 * 1, 12)]

tbc_FromCmsgGossipHello ==
  [CMSG_GOSSIP_HELLO |-> PlainCmsg(<<8>>, 8, 8),
   CMSG_GOSSIP_SELECT_OPTION |-> [w \in Wires(Lengths, {0}, {}, {"unknown"}) |->
     Cmsg(Counted(16, Ints(<<8, 4, 4>>)) \o Optional(Cstring(w)),
          8 + 2 * 4 + Bytes(Is(w, "unknown"), write_cstring(w)),
          16 + Bytes(Is(w, "unknown"), 1 + w.len))],
   SMSG_GOSSIP_MESSAGE |-> [w \in OfLengthAndCount |->
     Smsg(
       Ints(<<8, 4, 4, 4>>) \o Each(w.count, tbc_GossipItem(w).read) \o Ints(<<4>>)
       \o Each(w.count, tbc_QuestItem(w).read),
       8 + 3 * 4 + w.count * tbc_GossipItem(w).written + 4 + w.count * tbc_QuestItem(w).written,
       24 + w.count * tbc_GossipItem(w).size + w.count * tbc_QuestItem(w).size)]]

tbc_FromSmsgGossipComplete ==
  [SMSG_GOSSIP_COMPLETE |-> EmptySmsg(0),
   CMSG_NPC_TEXT_QUERY |-> PlainCmsg(<<4, 8>>, 4 + 8, 12),
   SMSG_NPC_TEXT_UPDATE |-> [w \in OfLength |->
     Smsg(Ints(<<4>>) \o Each(8, tbc_NpcTextUpdate(w).read),
          4 + 8 * tbc_NpcTextUpdate(w).written, 4 + 8 * tbc_NpcTextUpdate(w).size)],
   CMSG_QUESTGIVER_STATUS_QUERY |-> PlainCmsg(<<8>>, 8, 8),
   SMSG_QUESTGIVER_STATUS |-> PlainSmsg(<<8, 4>>, 8 + 4, 12)]

tbc_FromCmsgQuestgiverHello ==
  [CMSG_QUESTGIVER_HELLO |-> PlainCmsg(<<8>>, 8, 8),
   SMSG_QUESTGIVER_QUEST_LIST |-> [w \in OfLengthAndCount |->
     Smsg(
       Ints(<<8>>) \o Cstring(w) \o Ints(<<4, 4, 1>>) \o Each(U8(w.count), tbc_QuestItem(w).read),
       8 + write_cstring(w) + 2 * 4 + 1 + w.count * tbc_QuestItem(w).written,
       18 + w.len + w.count * tbc_QuestItem(w).size)],
   CMSG_QUESTGIVER_QUERY_QUEST |-> PlainCmsg(<<8, 4>>, 8 + 4, 12),
   CMSG_QUESTGIVER_QUEST_AUTOLAUNCH |-> EmptyCmsg(0)]

tbc_FromSmsgQuestgiverQuestDetails ==
  [SMSG_QUESTGIVER_QUEST_DETAILS |-> [w \in OfLengthAndCount |->
     Smsg(
       Ints(<<8, 4>>) \o Cstring(w) \o Cstring(w) \o Cstring(w) \o Ints(<<4, 4, 4>>)
       \o Each(w.count, tbc_QuestItemReward.read) \o Ints(<<4>>)
       \o Each(w.count, tbc_QuestItemReward.read) \o Ints(Repeat(6, 4))
       \o Each(w.count, tbc_QuestDetailsEmote.read),
       8 + 4 + 3 * write_cstring(w) + 3 * 4 + w.count * tbc_QuestItemReward.written + 4
       + w.count * tbc_QuestItemReward.written + 6 * 4 + w.count * tbc_QuestDetailsEmote.written,
       55 + 3 * w.len + 8 * w.count + 8 * w.count + 8 * w.count)],
   CMSG_QUESTGIVER_ACCEPT_QUEST |-> PlainCmsg(<<8, 4>>, 8 + 4, 12)]

tbc_FromCmsgQuestgiverCompleteQuest ==
  [CMSG_QUESTGIVER_COMPLETE_QUEST |-> PlainCmsg(<<8, 4>>, 8 + 4, 12),
   SMSG_QUESTGIVER_REQUEST_ITEMS |-> [w \in OfLengthAndCount |->
     Smsg(
       Ints(<<8, 4>>) \o Cstring(w) \o Cstring(w) \o Ints(Repeat(6, 4))
       \o Each(w.count, tbc_QuestItemRequirement.read) \o Ints(<<4, 4, 4, 4>>),
       8 + 4 + 2 * write_cstring(w) + 6 * 4 + w.count * tbc_QuestItemRequirement.written + 4 * 4,
       54 + 2 * w.len + 12 * w.count)],
   CMSG_QUESTGIVER_REQUEST_REWARD |-> PlainCmsg(<<8, 4>>, 8 + 4, 12)]

tbc_FromSmsgQuestgiverOfferReward ==
  [SMSG_QUESTGIVER_OFFER_REWARD |-> [w \in OfLengthAndCount |->
     Smsg(
       Ints(<<8, 4>>) \o Cstring(w) \o Cstring(w) \o Ints(<<4, 4, 4>>)
       \o Each(w.count, tbc_NpcTextUpdateEmote.read) \o Ints(<<4>>)
       \o Each(w.count, tbc_QuestItemRequirement.read) \o Ints(<<4>>)
       \o Each(w.count, tbc_QuestItemRequirement.read) \o Ints(Repeat(6, 4)),
       8 + 4 + 2 * write_cstring(w) + 3 * 4 + w.count * tbc_NpcTextUpdateEmote.written + 4
       + w.count * tbc_QuestItemRequirement.written + 4
       + w.count * tbc_QuestItemRequirement.written + 6 * 4,
       58 + 2 * w.len + 8 * w.count + 12 * w.count + 12 * w.count)],
   CMSG_QUESTGIVER_CHOOSE_REWARD |-> PlainCmsg(<<8, 4, 4>>, 8 + 2 * 4, 16)]

tbc_FromSmsgQuestgiverQuestInvalid ==
  [SMSG_QUESTGIVER_QUEST_INVALID |-> PlainSmsg(<<4>>, 4, 4),
   CMSG_QUESTGIVER_CANCEL |-> EmptyCmsg(0),
   SMSG_QUESTGIVER_QUEST_COMPLETE |-> [w \in OfCount |->
     Smsg(Ints(Repeat(6, 4)) \o Each(w.count, tbc_QuestItemReward.read),
          6 * 4 + w.count * tbc_QuestItemReward.written, 24 + 8 * w.count)],
   SMSG_QUESTGIVER_QUEST_FAILED |-> PlainSmsg(<<4, 4>>, 2 * 4, 8),
   CMSG_QUESTLOG_SWAP_QUEST |-> PlainCmsg(<<1, 1>>, 2 * 1, 2)]

tbc_FromCmsgQuestlogRemoveQuest ==
  [CMSG_QUESTLOG_REMOVE_QUEST |-> PlainCmsg(<<1>>, 1, 1),
   SMSG_QUESTLOG_FULL |-> EmptySmsg(0),
   SMSG_QUESTUPDATE_FAILED |-> PlainSmsg(<<4>>, 4, 4),
   SMSG_QUESTUPDATE_FAILEDTIMER |-> PlainSmsg(<<4>>, 4, 4),
   SMSG_QUESTUPDATE_COMPLETE |-> PlainSmsg(<<4>>, 4, 4),
   SMSG_QUESTUPDATE_ADD_KILL |-> PlainSmsg(<<4, 4, 4, 4, 8>>, 4 * 4 + 8, 24)]

tbc_FromSmsgQuestupdateAddItem ==
  [SMSG_QUESTUPDATE_ADD_ITEM |-> PlainSmsg(<<4, 4>>, 2 * 4, 8),
   CMSG_QUEST_CONFIRM_ACCEPT |-> PlainCmsg(<<4>>, 4, 4),
   SMSG_QUEST_CONFIRM_ACCEPT |-> [w \in OfLength |->
     Smsg(Ints(<<4>>) \o Cstring(w) \o Ints(<<8>>), 4 + write_cstring(w) + 8, 13 + w.len)],
   CMSG_PUSHQUESTTOPARTY |-> PlainCmsg(<<4>>, 4, 4),
   CMSG_LIST_INVENTORY |-> PlainCmsg(<<8>>, 8, 8)]

tbc_FromSmsgListInventory ==
  [SMSG_LIST_INVENTORY |-> [w \in OfCount |->
     Smsg(Ints(<<8, 1>>) \o Each(U8(w.count), tbc_ListInventoryItem.read),
          8 + 1 + w.count * tbc_ListInventoryItem.written, 9 + 32 * w.count)],
   CMSG_SELL_ITEM |-> PlainCmsg(<<8, 8, 1>>, 2 * 8 + 1, 17),
   SMSG_SELL_ITEM |-> PlainSmsg(<<8, 8, 1>>, 2 * 8 + 1, 17),
   CMSG_BUY_ITEM |-> PlainCmsg(<<8, 4, 1, 1>>, 8 + 4 + 2 * 1, 14)]

tbc_FromCmsgBuyItemInSlot ==
  [CMSG_BUY_ITEM_IN_SLOT |-> PlainCmsg(<<8, 4, 8, 1, 1>>, 8 + 4 + 8 + 2 * 1, 22),
   SMSG_BUY_ITEM |-> PlainSmsg(<<8, 4, 4, 4>>, 8 + 3 * 4, 20),
   SMSG_BUY_FAILED |-> PlainSmsg(<<8, 4, 1>>, 8 + 4 + 1, 13)]

tbc_FromSmsgShowtaxinodes ==
  [SMSG_SHOWTAXINODES |-> [w \in OfCount |->
     Smsg(Counted(16, Ints(<<4, 8, 4>>)) \o Endless(w.count, Ints(<<4>>), 4),
          4 + 8 + 4 + w.count * 4, 16 + 4 * w.count)],
   CMSG_TAXINODE_STATUS_QUERY |-> PlainCmsg(<<8>>, 8, 8),
   SMSG_TAXINODE_STATUS |-> PlainSmsg(<<8, 1>>, 8 + 1, 9),
   CMSG_TAXIQUERYAVAILABLENODES |-> PlainCmsg(<<8>>, 8, 8)]

tbc_FromCmsgActivatetaxi ==
  [CMSG_ACTIVATETAXI |-> PlainCmsg(<<8, 4, 4>>, 8 + 2 * 4, 16),
   SMSG_ACTIVATETAXIREPLY |-> PlainSmsg(<<4>>, 4, 4),
   SMSG_NEW_TAXI_PATH |-> EmptySmsg(0),
   CMSG_TRAINER_LIST |-> PlainCmsg(<<8>>, 8, 8),
   SMSG_TRAINER_LIST |-> [w \in OfLengthAndCount |->
     Smsg(Ints(<<8, 4, 4>>) \o Each(w.count, tbc_TrainerSpell.read) \o Cstring(w),
          8 + 2 * 4 + w.count * tbc_TrainerSpell.written + write_cstring(w),
          17 + w.len + 38 * w.count)]]

tbc_FromCmsgTrainerBuySpell ==
  [CMSG_TRAINER_BUY_SPELL |-> PlainCmsg(<<8, 4>>, 8 + 4, 12),
   SMSG_TRAINER_BUY_SUCCEEDED |-> PlainSmsg(<<8, 4>>, 8 + 4, 12),
   SMSG_TRAINER_BUY_FAILED |-> PlainSmsg(<<8, 4, 4>>, 8 + 2 * 4, 16),
   CMSG_BINDER_ACTIVATE |-> PlainCmsg(<<8>>, 8, 8),
   CMSG_BANKER_ACTIVATE |-> PlainCmsg(<<8>>, 8, 8)]

tbc_FromSmsgShowBank ==
  [SMSG_SHOW_BANK |-> PlainSmsg(<<8>>, 8, 8),
   CMSG_BUY_BANK_SLOT |-> PlainCmsg(<<8>>, 8, 8),
   SMSG_BUY_BANK_SLOT_RESULT |-> PlainSmsg(<<4>>, 4, 4),
   CMSG_PETITION_SHOWLIST |-> PlainCmsg(<<8>>, 8, 8),
   SMSG_PETITION_SHOWLIST |-> [w \in OfCount |->
     Smsg(Ints(<<8, 1>>) \o Each(U8(w.count), tbc_PetitionShowlist.read),
          8 + 1 + w.count * tbc_PetitionShowlist.written, 9 + 24 * w.count)]]

tbc_FromCmsgPetitionBuy ==
  [CMSG_PETITION_BUY |-> [w \in OfLength |->
     Cmsg(Ints(<<8, 4, 8>>) \o Cstring(w) \o Ints(Repeat(10, 4) \o <<2, 1, 4, 4>>),
          8 + 4 + 8 + write_cstring(w) + 10 * 4 + 2 + 1 + 2 * 4, 72 + w.len)],
   CMSG_PETITION_SHOW_SIGNATURES |-> PlainCmsg(<<8>>, 8, 8)]

tbc_FromSmsgPetitionShowSignatures ==
  [SMSG_PETITION_SHOW_SIGNATURES |-> [w \in OfCount |->
     Smsg(Ints(<<8, 8, 4, 1>>) \o Each(U8(w.count), tbc_PetitionSignature.read),
          2 * 8 + 4 + 1 + w.count * tbc_PetitionSignature.written, 21 + 12 * w.count)],
   CMSG_PETITION_SIGN |-> PlainCmsg(<<8, 1>>, 8 + 1, 9),
   SMSG_PETITION_SIGN_RESULTS |-> PlainSmsg(<<8, 8, 4>>, 2 * 8 + 4, 20),
   MSG_PETITION_DECLINE_cmsg |-> [w \in {Fixed} |-> Client(tbc_MSG_PETITION_DECLINE)],
   MSG_PETITION_DECLINE_smsg |-> [w \in {Fixed} |-> Server(tbc_MSG_PETITION_DECLINE)]]

tbc_FromCmsgOfferPetition ==
  [CMSG_OFFER_PETITION |-> PlainCmsg(<<4, 8, 8>>, 4 + 2 * 8, 20),
   CMSG_TURN_IN_PETITION |-> PlainCmsg(<<8>>, 8, 8),
   SMSG_TURN_IN_PETITION_RESULTS |-> PlainSmsg(<<4>>, 4, 4),
   CMSG_PETITION_QUERY |-> PlainCmsg(<<4, 8>>, 4 + 8, 12)]

tbc_FromSmsgPetitionQueryResponse ==
  [SMSG_PETITION_QUERY_RESPONSE |-> [w \in OfLength |->
     Smsg(
       Ints(<<4, 8>>) \o Cstring(w) \o Cstring(w) \o Ints(Repeat(7, 4) \o <<2>> \o Repeat(5, 4)),
       4 + 8 + 2 * write_cstring(w) + 7 * 4 + 2 + 5 * 4, 64 + 2 * w.len)],
   SMSG_FISH_NOT_HOOKED |-> EmptySmsg(0),
   SMSG_FISH_ESCAPED |-> EmptySmsg(0),
   CMSG_BUG |-> [w \in OfLength |->
     Cmsg(Ints(<<4>>) \o SizedCstring(w) \o SizedCstring(w),
          4 + 2 * write_sized_cstring(w), 14 + 2 * w.len)]]

tbc_FromSmsgNotification ==
  [SMSG_NOTIFICATION |-> [w \in OfLength |->
     Smsg(Cstring(w), write_cstring(w), 1 + w.len)],
   CMSG_PLAYED_TIME |-> EmptyCmsg(0),
   SMSG_PLAYED_TIME |-> PlainSmsg(<<4, 4>>, 2 * 4, 8),
   CMSG_QUERY_TIME |-> EmptyCmsg(0),
   SMSG_QUERY_TIME_RESPONSE |-> PlainSmsg(<<4, 4>>, 2 * 4, 8)]

tbc_FromSmsgLogXpgain ==
  [SMSG_LOG_XPGAIN |->
     [w \in Wires({0}, {0}, {{"ExperienceAwardType::NON_KILL", "ExperienceAwardType::KILL"}}, {}) |->
       Smsg(Ints(<<8, 4, 1>>) \o When(Is(w, "ExperienceAwardType::NON_KILL"), Ints(<<4, 4>>)),
            8 + 4 + 1 + Bytes(Is(w, "ExperienceAwardType::NON_KILL"), 2 * 4),
            13 + Bytes(Is(w, "ExperienceAwardType::NON_KILL"), 8))],
   CMSG_RECLAIM_CORPSE |-> PlainCmsg(<<8>>, 8, 8),
   CMSG_WRAP_ITEM |-> PlainCmsg(<<1, 1, 1, 1>>, 4 * 1, 4)]

tbc_FromSmsgLevelupInfo ==
  [SMSG_LEVELUP_INFO |-> PlainSmsg(Repeat(12, 4), 12 * 4, 48),
   MSG_MINIMAP_PING_Client |-> PlainCmsg(<<4, 4>>, 2 * 4, 8),
   MSG_MINIMAP_PING_Server |-> PlainSmsg(<<8, 4, 4>>, 8 + 2 * 4, 16)]

tbc_FromSmsgEnchantmentlog ==
  [SMSG_ENCHANTMENTLOG |-> PlainSmsg(<<8, 8, 4, 4, 1>>, 2 * 8 + 2 * 4 + 1, 25),
   SMSG_START_MIRROR_TIMER |-> PlainSmsg(<<4, 4, 4, 4, 1, 4>>, 4 * 4 + 1 + 4, 21),
   SMSG_PAUSE_MIRROR_TIMER |-> PlainSmsg(<<4, 1>>, 4 + 1, 5),
   SMSG_STOP_MIRROR_TIMER |-> PlainSmsg(<<4>>, 4, 4)]

tbc_FromCmsgPing ==
  [CMSG_PING |-> PlainCmsg(<<4, 4>>, 2 * 4, 8),
   SMSG_PONG |-> PlainSmsg(<<4>>, 4, 4),
   SMSG_CLEAR_COOLDOWN |-> PlainSmsg(<<4, 8>>, 4 + 8, 12),
   SMSG_GAMEOBJECT_PAGETEXT |-> PlainSmsg(<<8>>, 8, 8),
   CMSG_SETSHEATHED |-> PlainCmsg(<<4>>, 4, 4),
   SMSG_SPELL_DELAYED |-> PlainSmsg(<<8, 4>>, 8 + 4, 12)]

tbc_FromSmsgItemTimeUpdate ==
  [SMSG_ITEM_TIME_UPDATE |-> PlainSmsg(<<8, 4>>, 8 + 4, 12),
   SMSG_ITEM_ENCHANT_TIME_UPDATE |-> PlainSmsg(<<8, 4, 4, 8>>, 8 + 2 * 4 + 8, 24),
   SMSG_AUTH_CHALLENGE |-> PlainSmsg(<<4>>, 4, 4)]

tbc_LowGroups ==
  <<tbc_FromCmsgBootme, tbc_FromCmsgCharCreate, tbc_FromSmsgCharEnum,
    tbc_FromSmsgTransferPending, tbc_FromCmsgPlayerLogout, tbc_FromSmsgNameQueryResponse,
    tbc_FromSmsgPetNameQueryResponse, tbc_FromCmsgItemQuerySingle,
    tbc_FromSmsgItemQuerySingleResponse, tbc_FromCmsgPageTextQuery,
    tbc_FromSmsgQuestQueryResponse, tbc_FromCmsgGameobjectQuery,
    tbc_FromSmsgCreatureQueryResponse, tbc_FromCmsgWho, tbc_FromSmsgWhois, tbc_FromCmsgAddFriend,
    tbc_FromCmsgGroupInvite, tbc_FromCmsgGroupUninviteGuid, tbc_FromSmsgGroupList,
    tbc_FromSmsgPartyMemberStats, tbc_FromSmsgPartyCommandResult, tbc_FromSmsgGuildDecline,
    tbc_FromSmsgGuildRoster, tbc_FromCmsgGuildRemove, tbc_FromSmsgGuildCommandResult,
    tbc_FromSmsgMessagechat, tbc_FromCmsgLeaveChannel, tbc_FromSmsgChannelList,
    tbc_FromCmsgChannelModerator, tbc_FromCmsgChannelInvite, tbc_FromCmsgChannelModerate,
    tbc_FromCmsgOpenItem, tbc_FromSmsgGameobjectCustomAnim, tbc_FromMsgMoveStartBackward,
    tbc_FromMsgMoveStartStrafeRight, tbc_FromMsgMoveJump, tbc_FromMsgMoveStopTurn,
    tbc_FromMsgMoveStartPitchDown, tbc_FromMsgMoveSetWalkMode, tbc_FromMsgMoveTeleportAck,
    tbc_FromMsgMoveStopSwim, tbc_FromMsgMoveSetPitch, tbc_FromSmsgMoveWaterWalk,
    tbc_FromCmsgForceRunSpeedChangeAck, tbc_FromCmsgForceSwimSpeedChangeAck,
    tbc_FromCmsgForceMoveUnrootAck, tbc_FromMsgMoveHeartbeat, tbc_FromMsgMoveKnockBack,
    tbc_FromSmsgMoveUnsetHover, tbc_FromCmsgNextCinematicCamera, tbc_FromSmsgEmote,
    tbc_FromCmsgAutostoreBagItem, tbc_FromCmsgAutoequipItemSlot, tbc_FromCmsgInspect,
    tbc_FromCmsgSetTradeItem, tbc_FromSmsgTradeStatusExtended, tbc_FromCmsgSetFactionAtwar,
    tbc_FromSmsgInitialSpells, tbc_FromCmsgCancelCast, tbc_FromSmsgSpellStart,
    tbc_FromSmsgSpellGo, tbc_FromSmsgSpellCooldown, tbc_FromSmsgPetCastFailed,
    tbc_FromMsgChannelUpdate, tbc_FromCmsgAttackstop, tbc_FromSmsgAttackerstateupdate,
    tbc_FromSmsgSpellenergizelog, tbc_FromSmsgResurrectRequest, tbc_FromSmsgLootResponse,
    tbc_FromSmsgItemPushResult, tbc_FromSmsgDuelWinner, tbc_FromSmsgPetTameFailure,
    tbc_FromCmsgPetRename, tbc_FromSmsgPetSpells, tbc_FromCmsgGossipHello,
    tbc_FromSmsgGossipComplete, tbc_FromCmsgQuestgiverHello, tbc_FromSmsgQuestgiverQuestDetails,
    tbc_FromCmsgQuestgiverCompleteQuest, tbc_FromSmsgQuestgiverOfferReward,
    tbc_FromSmsgQuestgiverQuestInvalid, tbc_FromCmsgQuestlogRemoveQuest,
    tbc_FromSmsgQuestupdateAddItem, tbc_FromSmsgListInventory, tbc_FromCmsgBuyItemInSlot,
    tbc_FromSmsgShowtaxinodes, tbc_FromCmsgActivatetaxi, tbc_FromCmsgTrainerBuySpell,
    tbc_FromSmsgShowBank, tbc_FromCmsgPetitionBuy, tbc_FromSmsgPetitionShowSignatures,
    tbc_FromCmsgOfferPetition, tbc_FromSmsgPetitionQueryResponse, tbc_FromSmsgNotification,
    tbc_FromSmsgLogXpgain, tbc_FromSmsgLevelupInfo, tbc_FromSmsgEnchantmentlog, tbc_FromCmsgPing,
    tbc_FromSmsgItemTimeUpdate>>
=============================================================================
