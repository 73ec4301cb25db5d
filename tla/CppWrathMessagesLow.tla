------------------------ MODULE CppWrathMessagesLow ------------------------
(*****************************************************************************)
(* The messages of the 3.3.5 version of the world protocol from              *)
(* CMSG_BOOTME to CMSG_QUESTGIVER_REQUEST_REWARD, in the order of            *)
(* src/wow_world_messages_cpp/src/wrath.cpp.                                 *)
(*                                                                           *)
(* A message is a function from its wires to records of what its functions   *)
(* do on them. Neighbours are defined together, in a record named for the    *)
(* first. A message of which every function does what that of an earlier     *)
(* message does is defined as that message.                                  *)
(*****************************************************************************)
EXTENDS CppWrathStructs

wrath_FromCmsgBootme ==
  [CMSG_BOOTME |-> EmptyCmsg(0),
   CMSG_DBLOOKUP |-> [w \in OfLength |->
     Cmsg(Cstring(w), write_cstring(w), 1 + w.len)],
   CMSG_WORLD_TELEPORT |-> [w \in {Fixed} |->
     Cmsg(Ints(<<4, 4, 8>>) \o Vector3d.read \o Ints(<<4>>), 2 * 4 + 8 + Vector3d.written + 4, 32)],
   CMSG_TELEPORT_TO_UNIT |-> [w \in OfLength |->
     Cmsg(Cstring(w), write_cstring(w), 1 + w.len)]]

wrath_FromCmsgCharCreate ==
  [CMSG_CHAR_CREATE |-> [w \in OfLength |->
     Cmsg(Cstring(w) \o Ints(Repeat(9, 1)), write_cstring(w) + 9 * 1, 10 + w.len)],
   CMSG_CHAR_ENUM |-> EmptyCmsg(0),
   CMSG_CHAR_DELETE |-> PlainCmsg(<<8>>, 8, 8),
   SMSG_CHAR_CREATE |-> PlainSmsg(<<1>>, 1, 1)]

wrath_FromSmsgCharEnum ==
  [SMSG_CHAR_ENUM |-> [w \in OfLengthAndCount |->
     Smsg(Ints(<<1>>) \o Each(U8(w.count), wrath_Character(w).read),
          1 + w.count * wrath_Character(w).written, 1 + w.count * wrath_Character(w).size)],
   SMSG_CHAR_DELETE |-> PlainSmsg(<<1>>, 1, 1),
   CMSG_PLAYER_LOGIN |-> PlainCmsg(<<8>>, 8, 8),
   SMSG_NEW_WORLD |-> [w \in {Fixed} |->
     Smsg(Ints(<<4>>) \o Vector3d.read \o Ints(<<4>>), 4 + Vector3d.written + 4, 20)]]

wrath_FromSmsgTransferPending ==
  [SMSG_TRANSFER_PENDING |-> [w \in Wires({0}, {0}, {}, {"has_transport"}) |->
     Smsg(Counted(4, Ints(<<4>>)) \o Optional(Ints(<<4, 4>>)),
          4 + Bytes(Is(w, "has_transport"), 2 * 4), 4 + Bytes(Is(w, "has_transport"), 8))],
   SMSG_TRANSFER_ABORTED |->
     [w \in Wires({0}, {0},
                  {{"TransferAbortReason::INSUFFICIENT_EXPANSION_LEVEL",
                    "TransferAbortReason::NONE"}}, {}) |->
       Smsg(
         Ints(<<4, 1>>)
         \o When(Is(w, "TransferAbortReason::INSUFFICIENT_EXPANSION_LEVEL"), Ints(<<1>>)),
         4 + 1 + Bytes(Is(w, "TransferAbortReason::INSUFFICIENT_EXPANSION_LEVEL"), 1),
         5 + Bytes(Is(w, "TransferAbortReason::INSUFFICIENT_EXPANSION_LEVEL"), 1))],
   SMSG_CHARACTER_LOGIN_FAILED |-> PlainSmsg(<<1>>, 1, 1),
   SMSG_LOGIN_SETTIMESPEED |-> PlainSmsg(<<4, 4, 4>>, 3 * 4, 12)]

wrath_FromCmsgPlayerLogout ==
  [CMSG_PLAYER_LOGOUT |-> EmptyCmsg(0),
   CMSG_LOGOUT_REQUEST |-> EmptyCmsg(0),
   SMSG_LOGOUT_RESPONSE |-> PlainSmsg(<<4, 1>>, 4 + 1, 5),
   SMSG_LOGOUT_COMPLETE |-> EmptySmsg(0),
   CMSG_LOGOUT_CANCEL |-> EmptyCmsg(0),
   SMSG_LOGOUT_CANCEL_ACK |-> EmptySmsg(0),
   CMSG_NAME_QUERY |-> PlainCmsg(<<8>>, 8, 8)]

wrath_FromSmsgNameQueryResponse ==
  [SMSG_NAME_QUERY_RESPONSE |->
     [w \in Wires(Lengths, {0}, {{"DeclinedNames::YES", "DeclinedNames::NO"}}, {}) |->
       Smsg(
         PackedGuid(w) \o Ints(<<1>>) \o Cstring(w) \o Cstring(w) \o Ints(<<1, 1, 1, 1>>)
         \o When(Is(w, "DeclinedNames::YES"), Each(5, Cstring(w))),
         write_packed_guid(w) + 1 + 2 * write_cstring(w) + 4 * 1
         + Bytes(Is(w, "DeclinedNames::YES"), 5 * write_cstring(w)),
         7 + 2 * w.len + wwm_packed_guid_size(w)
         + Bytes(Is(w, "DeclinedNames::YES"), 5 * (1 + w.len)))],
   CMSG_PET_NAME_QUERY |-> PlainCmsg(<<4, 8>>, 4 + 8, 12)]

wrath_FromSmsgPetNameQueryResponse ==
  [SMSG_PET_NAME_QUERY_RESPONSE |->
     [w \in Wires(Lengths, {0},
                  {{"PetQueryDisabledNames::PRESENT", "PetQueryDisabledNames::NOT_PRESENT"}}, {}) |->
       Smsg(
         Ints(<<4>>) \o Cstring(w) \o Ints(<<4, 1>>)
         \o When(Is(w, "PetQueryDisabledNames::PRESENT"), Each(5, Cstring(w))),
         4 + write_cstring(w) + 4 + 1
         + Bytes(Is(w, "PetQueryDisabledNames::PRESENT"), 5 * write_cstring(w)),
         10 + w.len + Bytes(Is(w, "PetQueryDisabledNames::PRESENT"), 5 * (1 + w.len)))],
   CMSG_GUILD_QUERY |-> PlainCmsg(<<4>>, 4, 4),
   SMSG_GUILD_QUERY_RESPONSE |-> [w \in OfLength |->
     Smsg(Ints(<<4>>) \o Cstring(w) \o Each(10, Cstring(w)) \o Ints(Repeat(5, 4)),
          4 + write_cstring(w) + 10 * write_cstring(w) + 5 * 4, 25 + w.len + 10 * (1 + w.len))]]

wrath_FromCmsgItemQuerySingle ==
  [CMSG_ITEM_QUERY_SINGLE |-> PlainCmsg(<<4>>, 4, 4)]

wrath_FromSmsgItemQuerySingleResponse ==
  [SMSG_ITEM_QUERY_SINGLE_RESPONSE |-> [w \in Wires(Lengths, Counts, {}, {"found"}) |->
     Smsg(
       Counted(4, Ints(<<4>>))
       \o Optional(
            Ints(<<8, 4>>) \o Cstring(w) \o Cstring(w) \o Cstring(w) \o Cstring(w)
            \o Ints(Repeat(22, 4)) \o Each(w.count, wrath_ItemStat.read) \o Ints(<<4, 4>>)
            \o Each(2, wrath_ItemDamageType.read) \o Ints(Repeat(10, 4))
            \o Each(5, wrath_ItemSpells.read) \o Ints(<<4>>) \o Cstring(w) \o Ints(Repeat(16, 4))
            \o Each(3, wrath_ItemSocket.read) \o Ints(Repeat(7, 4))),
       4
       + Bytes(
           Is(w, "found"),
           8 + 4 + 4 * write_cstring(w) + 22 * 4 + w.count * wrath_ItemStat.written + 2 * 4
           + 2 * wrath_ItemDamageType.written + 10 * 4 + 5 * wrath_ItemSpells.written + 4
           + write_cstring(w) + 16 * 4 + 3 * wrath_ItemSocket.written + 7 * 4),
       4 + Bytes(Is(w, "found"), 417 + 5 * w.len + 8 * w.count))]]

wrath_FromCmsgPageTextQuery ==
  [CMSG_PAGE_TEXT_QUERY |-> PlainCmsg(<<4, 8>>, 4 + 8, 12),
   SMSG_PAGE_TEXT_QUERY_RESPONSE |-> [w \in OfLength |->
     Smsg(Ints(<<4>>) \o Cstring(w) \o Ints(<<4>>), 4 + write_cstring(w) + 4, 9 + w.len)],
   CMSG_QUEST_QUERY |-> PlainCmsg(<<4>>, 4, 4)]

wrath_FromSmsgQuestQueryResponse ==
  [SMSG_QUEST_QUERY_RESPONSE |-> [w \in OfLength |->
     Smsg(
       Ints(Repeat(7, 4) \o <<2, 4, 2>> \o Repeat(15, 4)) \o Each(4, wrath_QuestItemReward.read)
       \o Each(6, wrath_QuestItemReward.read) \o Ints(Repeat(16, 4)) \o Vector2d.read
       \o Ints(<<4>>) \o Cstring(w) \o Cstring(w) \o Cstring(w) \o Cstring(w) \o Cstring(w)
       \o Each(4, wrath_QuestObjective.read) \o Each(6, wrath_QuestItemRequirement.read)
       \o Each(4, Cstring(w)),
       7 * 4 + 2 + 4 + 2 + 15 * 4 + 4 * wrath_QuestItemReward.written
       + 6 * wrath_QuestItemReward.written + 3 * 5 * 4 + 4 + Vector2d.written + 4
       + 5 * write_cstring(w) + 4 * wrath_QuestObjective.written
       + 6 * wrath_QuestItemRequirement.written + 4 * write_cstring(w),
       393 + 5 * w.len + 4 * (1 + w.len))]]

wrath_FromCmsgGameobjectQuery ==
  [CMSG_GAMEOBJECT_QUERY |-> PlainCmsg(<<4, 8>>, 4 + 8, 12),
   SMSG_GAMEOBJECT_QUERY_RESPONSE |-> [w \in Wires(Lengths, {0}, {}, {"found"}) |->
     Smsg(
       Counted(4, Ints(<<4>>))
       \o Optional(Ints(<<4, 4>>) \o Cstring(w) \o Cstring(w) \o Cstring(w) \o Cstring(w)
                   \o Cstring(w) \o Cstring(w) \o Cstring(w) \o Ints(Repeat(13, 4))),
       4 + Bytes(Is(w, "found"), 2 * 4 + 7 * write_cstring(w) + 6 * 4 + 4 + 6 * 4),
       4 + Bytes(Is(w, "found"), 67 + 7 * w.len))],
   CMSG_CREATURE_QUERY |-> PlainCmsg(<<4, 8>>, 4 + 8, 12)]

wrath_FromSmsgCreatureQueryResponse ==
  [SMSG_CREATURE_QUERY_RESPONSE |-> [w \in Wires(Lengths, {0}, {}, {"found"}) |->
     Smsg(
       Counted(4, Ints(<<4>>))
       \o Optional(Cstring(w) \o Cstring(w) \o Cstring(w) \o Cstring(w) \o Cstring(w)
                   \o Cstring(w) \o Ints(Repeat(12, 4) \o <<1>> \o Repeat(7, 4))),
       4 + Bytes(Is(w, "found"), 6 * write_cstring(w) + 6 * 4 + 4 * 4 + 2 * 4 + 1 + 6 * 4 + 4),
       4 + Bytes(Is(w, "found"), 83 + 6 * w.len))]]

wrath_FromCmsgWho ==
  [CMSG_WHO |-> [w \in OfLengthAndCount |->
     Cmsg(
       Ints(<<4, 4>>) \o Cstring(w) \o Cstring(w)
       \o Ints(<<4, 4, 4>> \o Repeat(w.count, 4) \o <<4>>) \o Each(w.count, Cstring(w)),
       2 * 4 + 2 * write_cstring(w) + 3 * 4 + w.count * 4 + 4 + w.count * write_cstring(w),
       26 + 2 * w.len + 4 * w.count + w.count * (1 + w.len))],
   SMSG_WHO |-> [w \in OfLengthAndCount |->
     Smsg(Ints(<<4, 4>>) \o Each(w.count, wrath_WhoPlayer(w).read),
          2 * 4 + w.count * wrath_WhoPlayer(w).written, 8 + w.count * wrath_WhoPlayer(w).size)],
   CMSG_WHOIS |-> [w \in OfLength |->
     Cmsg(Cstring(w), write_cstring(w), 1 + w.len)]]

wrath_FromSmsgWhois ==
  [SMSG_WHOIS |-> [w \in OfLength |->
     Smsg(Cstring(w), write_cstring(w), 1 + w.len)],
   CMSG_CONTACT_LIST |-> PlainCmsg(<<4>>, 4, 4),
   SMSG_CONTACT_LIST |->
     [w \in Wires(Lengths, Counts, {{"FriendStatus::ONLINE", "FriendStatus::OFFLINE"}},
                  {"RELATION_TYPE_FRIEND"}) |->
       Smsg(Ints(<<4, 4>>) \o Each(w.count, wrath_Relation(w).read),
            2 * 4 + w.count * wrath_Relation(w).written, 8 + w.count * wrath_Relation(w).size)],
   SMSG_FRIEND_STATUS |-> PlainSmsg(<<1, 8>>, 1 + 8, 9)]

wrath_FromCmsgAddFriend ==
  [CMSG_ADD_FRIEND |-> [w \in OfLength |->
     Cmsg(Cstring(w) \o Cstring(w), 2 * write_cstring(w), 2 + 2 * w.len)],
   CMSG_DEL_FRIEND |-> PlainCmsg(<<8>>, 8, 8),
   CMSG_SET_CONTACT_NOTES |-> [w \in OfLength |->
     Cmsg(Ints(<<8>>) \o Cstring(w), 8 + write_cstring(w), 9 + w.len)],
   CMSG_ADD_IGNORE |-> [w \in OfLength |->
     Cmsg(Cstring(w), write_cstring(w), 1 + w.len)],
   CMSG_DEL_IGNORE |-> PlainCmsg(<<8>>, 8, 8)]

wrath_FromCmsgGroupInvite ==
  [CMSG_GROUP_INVITE |-> [w \in OfLength |->
     Cmsg(Cstring(w) \o Ints(<<4>>), write_cstring(w) + 4, 5 + w.len)],
   SMSG_GROUP_INVITE |-> [w \in Wires(Lengths, {0}, {}, {"unknown"}) |->
     Smsg(Counted(2 + w.len, Ints(<<1>>) \o Cstring(w)) \o Optional(Ints(<<4, 1, 4>>)),
          1 + write_cstring(w) + Bytes(Is(w, "unknown"), 4 + 1 + 4),
          2 + w.len + Bytes(Is(w, "unknown"), 9))],
   CMSG_GROUP_CANCEL |-> EmptyCmsg(0),
   CMSG_GROUP_ACCEPT |-> EmptyCmsg(0),
   CMSG_GROUP_DECLINE |-> EmptyCmsg(0)]

wrath_FromSmsgGroupDecline ==
  [SMSG_GROUP_DECLINE |-> [w \in OfLength |->
     Smsg(Cstring(w), write_cstring(w), 1 + w.len)],
   CMSG_GROUP_UNINVITE |-> [w \in OfLength |->
     Cmsg(Cstring(w), write_cstring(w), 1 + w.len)],
   CMSG_GROUP_UNINVITE_GUID |-> [w \in OfLength |->
     Cmsg(Ints(<<8>>) \o Cstring(w), 8 + write_cstring(w), 9 + w.len)],
   SMSG_GROUP_UNINVITE |-> EmptySmsg(0),
   CMSG_GROUP_SET_LEADER |-> PlainCmsg(<<8>>, 8, 8),
   SMSG_GROUP_SET_LEADER |-> [w \in OfLength |->
     Smsg(Cstring(w), write_cstring(w), 1 + w.len)]]

wrath_FromCmsgLootMethod ==
  [CMSG_LOOT_METHOD |-> PlainCmsg(<<4, 8, 4>>, 4 + 8 + 4, 16),
   CMSG_GROUP_DISBAND |-> EmptyCmsg(0),
   SMSG_GROUP_DESTROYED |-> EmptySmsg(0)]

wrath_FromSmsgGroupList ==
  [SMSG_GROUP_LIST |-> [w \in Wires(Lengths, Counts, {}, {"group_not_empty"}) |->
     Smsg(
       Counted(
         28 + w.count * wrath_GroupListMember(w).size,
         Ints(<<1, 1, 1, 1, 8, 4, 4>>) \o Each(w.count, wrath_GroupListMember(w).read)
         \o Ints(<<8>>)) \o Optional(Ints(<<1, 8, 1, 1, 1, 1>>)),
       4 * 1 + 8 + 2 * 4 + w.count * wrath_GroupListMember(w).written + 8
       + Bytes(Is(w, "group_not_empty"), 1 + 8 + 4 * 1),
       28 + w.count * wrath_GroupListMember(w).size + Bytes(Is(w, "group_not_empty"), 13))]]

wrath_FromSmsgPartyMemberStats ==
  [SMSG_PARTY_MEMBER_STATS |->
     [w \in Wires(
              Lengths, {0}, {},
              {"GROUP_UPDATE_FLAGS_STATUS", "GROUP_UPDATE_FLAGS_CUR_HP", "GROUP_UPDATE_FLAGS_MAX_HP",
               "GROUP_UPDATE_FLAGS_POWER_TYPE", "GROUP_UPDATE_FLAGS_CUR_POWER",
               "GROUP_UPDATE_FLAGS_MAX_POWER", "GROUP_UPDATE_FLAGS_LEVEL", "GROUP_UPDATE_FLAGS_ZONE",
               "GROUP_UPDATE_FLAGS_POSITION", "GROUP_UPDATE_FLAGS_AURAS",
               "GROUP_UPDATE_FLAGS_PET_GUID", "GROUP_UPDATE_FLAGS_PET_NAME",
               "GROUP_UPDATE_FLAGS_PET_MODEL_ID", "GROUP_UPDATE_FLAGS_PET_CUR_HP",
               "GROUP_UPDATE_FLAGS_PET_MAX_HP", "GROUP_UPDATE_FLAGS_PET_POWER_TYPE",
               "GROUP_UPDATE_FLAGS_PET_CUR_POWER", "GROUP_UPDATE_FLAGS_PET_MAX_POWER",
               "GROUP_UPDATE_FLAGS_PET_AURAS", "GROUP_UPDATE_FLAGS_VEHICLE_SEAT"}) |->
       Smsg(
         PackedGuid(w) \o Ints(<<4>>) \o When(Is(w, "GROUP_UPDATE_FLAGS_STATUS"), Ints(<<1>>))
         \o When(Is(w, "GROUP_UPDATE_FLAGS_CUR_HP"), Ints(<<4>>))
         \o When(Is(w, "GROUP_UPDATE_FLAGS_MAX_HP"), Ints(<<4>>))
         \o When(Is(w, "GROUP_UPDATE_FLAGS_POWER_TYPE"), Ints(<<1>>))
         \o When(Is(w, "GROUP_UPDATE_FLAGS_CUR_POWER"), Ints(<<2>>))
         \o When(Is(w, "GROUP_UPDATE_FLAGS_MAX_POWER"), Ints(<<2>>))
         \o When(Is(w, "GROUP_UPDATE_FLAGS_LEVEL"), Ints(<<2>>))
         \o When(Is(w, "GROUP_UPDATE_FLAGS_ZONE"), Ints(<<4>>))
         \o When(Is(w, "GROUP_UPDATE_FLAGS_POSITION"), Ints(<<2, 2>>))
         \o When(Is(w, "GROUP_UPDATE_FLAGS_AURAS"), wrath_aura_mask(w))
         \o When(Is(w, "GROUP_UPDATE_FLAGS_PET_GUID"), Ints(<<8>>))
         \o When(Is(w, "GROUP_UPDATE_FLAGS_PET_NAME"), Cstring(w))
         \o When(Is(w, "GROUP_UPDATE_FLAGS_PET_MODEL_ID"), Ints(<<2>>))
         \o When(Is(w, "GROUP_UPDATE_FLAGS_PET_CUR_HP"), Ints(<<4>>))
         \o When(Is(w, "GROUP_UPDATE_FLAGS_PET_MAX_HP"), Ints(<<4>>))
         \o When(Is(w, "GROUP_UPDATE_FLAGS_PET_POWER_TYPE"), Ints(<<1>>))
         \o When(Is(w, "GROUP_UPDATE_FLAGS_PET_CUR_POWER"), Ints(<<2>>))
         \o When(Is(w, "GROUP_UPDATE_FLAGS_PET_MAX_POWER"), Ints(<<2>>))
         \o When(Is(w, "GROUP_UPDATE_FLAGS_PET_AURAS"), wrath_aura_mask(w))
         \o When(Is(w, "GROUP_UPDATE_FLAGS_VEHICLE_SEAT"), Ints(<<4>>)),
         write_packed_guid(w) + 4 + Bytes(Is(w, "GROUP_UPDATE_FLAGS_STATUS"), 1)
         + Bytes(Is(w, "GROUP_UPDATE_FLAGS_CUR_HP"), 4)
         + Bytes(Is(w, "GROUP_UPDATE_FLAGS_MAX_HP"), 4)
         + Bytes(Is(w, "GROUP_UPDATE_FLAGS_POWER_TYPE"), 1)
         + Bytes(Is(w, "GROUP_UPDATE_FLAGS_CUR_POWER"), 2)
         + Bytes(Is(w, "GROUP_UPDATE_FLAGS_MAX_POWER"), 2)
         + Bytes(Is(w, "GROUP_UPDATE_FLAGS_LEVEL"), 2) + Bytes(Is(w, "GROUP_UPDATE_FLAGS_ZONE"), 4)
         + Bytes(Is(w, "GROUP_UPDATE_FLAGS_POSITION"), 2 * 2)
         + Bytes(Is(w, "GROUP_UPDATE_FLAGS_AURAS"), wrath_aura_mask_written(w))
         + Bytes(Is(w, "GROUP_UPDATE_FLAGS_PET_GUID"), 8)
         + Bytes(Is(w, "GROUP_UPDATE_FLAGS_PET_NAME"), write_cstring(w))
         + Bytes(Is(w, "GROUP_UPDATE_FLAGS_PET_MODEL_ID"), 2)
         + Bytes(Is(w, "GROUP_UPDATE_FLAGS_PET_CUR_HP"), 4)
         + Bytes(Is(w, "GROUP_UPDATE_FLAGS_PET_MAX_HP"), 4)
         + Bytes(Is(w, "GROUP_UPDATE_FLAGS_PET_POWER_TYPE"), 1)
         + Bytes(Is(w, "GROUP_UPDATE_FLAGS_PET_CUR_POWER"), 2)
         + Bytes(Is(w, "GROUP_UPDATE_FLAGS_PET_MAX_POWER"), 2)
         + Bytes(Is(w, "GROUP_UPDATE_FLAGS_PET_AURAS"), wrath_aura_mask_written(w))
         + Bytes(Is(w, "GROUP_UPDATE_FLAGS_VEHICLE_SEAT"), 4),
         4 + wwm_packed_guid_size(w) + Bytes(Is(w, "GROUP_UPDATE_FLAGS_STATUS"), 1)
         + Bytes(Is(w, "GROUP_UPDATE_FLAGS_CUR_HP"), 4)
         + Bytes(Is(w, "GROUP_UPDATE_FLAGS_MAX_HP"), 4)
         + Bytes(Is(w, "GROUP_UPDATE_FLAGS_POWER_TYPE"), 1)
         + Bytes(Is(w, "GROUP_UPDATE_FLAGS_CUR_POWER"), 2)
         + Bytes(Is(w, "GROUP_UPDATE_FLAGS_MAX_POWER"), 2)
         + Bytes(Is(w, "GROUP_UPDATE_FLAGS_LEVEL"), 2) + Bytes(Is(w, "GROUP_UPDATE_FLAGS_ZONE"), 4)
         + Bytes(Is(w, "GROUP_UPDATE_FLAGS_POSITION"), 4)
         + Bytes(Is(w, "GROUP_UPDATE_FLAGS_AURAS"), wrath_aura_mask_size(w))
         + Bytes(Is(w, "GROUP_UPDATE_FLAGS_PET_GUID"), 8)
         + Bytes(Is(w, "GROUP_UPDATE_FLAGS_PET_NAME"), 1 + w.len)
         + Bytes(Is(w, "GROUP_UPDATE_FLAGS_PET_MODEL_ID"), 2)
         + Bytes(Is(w, "GROUP_UPDATE_FLAGS_PET_CUR_HP"), 4)
         + Bytes(Is(w, "GROUP_UPDATE_FLAGS_PET_MAX_HP"), 4)
         + Bytes(Is(w, "GROUP_UPDATE_FLAGS_PET_POWER_TYPE"), 1)
         + Bytes(Is(w, "GROUP_UPDATE_FLAGS_PET_CUR_POWER"), 2)
         + Bytes(Is(w, "GROUP_UPDATE_FLAGS_PET_MAX_POWER"), 2)
         + Bytes(Is(w, "GROUP_UPDATE_FLAGS_PET_AURAS"), wrath_aura_mask_size(w))
         + Bytes(Is(w, "GROUP_UPDATE_FLAGS_VEHICLE_SEAT"), 4))]]

wrath_FromSmsgPartyCommandResult ==
  [SMSG_PARTY_COMMAND_RESULT |-> [w \in OfLength |->
     Smsg(Ints(<<4>>) \o Cstring(w) \o Ints(<<4>>), 4 + write_cstring(w) + 4, 9 + w.len)],
   CMSG_GUILD_CREATE |-> [w \in OfLength |->
     Cmsg(Cstring(w), write_cstring(w), 1 + w.len)],
   CMSG_GUILD_INVITE |-> [w \in OfLength |->
     Cmsg(Cstring(w), write_cstring(w), 1 + w.len)],
   SMSG_GUILD_INVITE |-> [w \in OfLength |->
     Smsg(Cstring(w) \o Cstring(w), 2 * write_cstring(w), 2 + 2 * w.len)],
   CMSG_GUILD_ACCEPT |-> EmptyCmsg(0),
   CMSG_GUILD_DECLINE |-> EmptyCmsg(0)]

wrath_FromSmsgGuildDecline ==
  [SMSG_GUILD_DECLINE |-> [w \in OfLength |->
     Smsg(Cstring(w), write_cstring(w), 1 + w.len)],
   CMSG_GUILD_INFO |-> EmptyCmsg(0),
   SMSG_GUILD_INFO |-> [w \in OfLength |->
     Smsg(Cstring(w) \o Ints(<<4, 4, 4>>), write_cstring(w) + 3 * 4, 13 + w.len)],
   CMSG_GUILD_ROSTER |-> EmptyCmsg(0),
   SMSG_GUILD_ROSTER |->
     [w \in Wires(
              Lengths, Counts, {{"GuildMemberStatus::OFFLINE", "GuildMemberStatus::ONLINE"}}, {}) |->
       Smsg(
         Ints(<<4>>) \o Cstring(w) \o Cstring(w) \o Ints(<<4>>)
         \o Each(w.count, wrath_GuildRights.read) \o Each(w.count, wrath_GuildMember(w).read),
         4 + 2 * write_cstring(w) + 4 + w.count * wrath_GuildRights.written
         + w.count * wrath_GuildMember(w).written,
         10 + 2 * w.len + 56 * w.count + w.count * wrath_GuildMember(w).size)]]

wrath_FromCmsgGuildPromote ==
  [CMSG_GUILD_PROMOTE |-> [w \in OfLength |->
     Cmsg(Cstring(w), write_cstring(w), 1 + w.len)],
   CMSG_GUILD_DEMOTE |-> [w \in OfLength |->
     Cmsg(Cstring(w), write_cstring(w), 1 + w.len)],
   CMSG_GUILD_LEAVE |-> EmptyCmsg(0),
   CMSG_GUILD_REMOVE |-> [w \in OfLength |->
     Cmsg(Cstring(w), write_cstring(w), 1 + w.len)],
   CMSG_GUILD_DISBAND |-> EmptyCmsg(0),
   CMSG_GUILD_LEADER |-> [w \in OfLength |->
     Cmsg(Cstring(w), write_cstring(w), 1 + w.len)]]

wrath_FromCmsgGuildMotd ==
  [CMSG_GUILD_MOTD |-> [w \in OfLength |->
     Cmsg(Cstring(w), write_cstring(w), 1 + w.len)],
   SMSG_GUILD_EVENT |-> [w \in OfLengthAndCount |->
     Smsg(Ints(<<1, 1>>) \o Each(U8(w.count), Cstring(w)),
          2 * 1 + w.count * write_cstring(w), 2 + w.count * (1 + w.len))],
   SMSG_GUILD_COMMAND_RESULT |-> [w \in OfLength |->
     Smsg(Ints(<<4>>) \o Cstring(w) \o Ints(<<4>>), 4 + write_cstring(w) + 4, 9 + w.len)]]

wrath_FromCmsgMessagechat ==
  [CMSG_MESSAGECHAT |->
     [w \in Wires(
              Lengths, {0}, {{"ChatType::WHISPER", "ChatType::CHANNEL", "ChatType::SYSTEM"}}, {}) |->
       Cmsg(
         Ints(<<4, 4>>) \o When(Is(w, "ChatType::WHISPER"), Cstring(w))
         \o When(Is(w, "ChatType::CHANNEL"), Cstring(w)) \o Cstring(w),
         2 * 4 + Bytes(Is(w, "ChatType::WHISPER"), write_cstring(w))
         + Bytes(Is(w, "ChatType::CHANNEL"), write_cstring(w)) + write_cstring(w),
         9 + w.len + Bytes(Is(w, "ChatType::WHISPER"), 1 + w.len)
         + Bytes(Is(w, "ChatType::CHANNEL"), 1 + w.len))]]

wrath_FromSmsgMessagechat ==
  [SMSG_MESSAGECHAT |->
     [w \in Wires(
              Lengths, {0},
              {{"ChatType::MONSTER_SAY", "ChatType::WHISPER_FOREIGN", "ChatType::BG_SYSTEM_NEUTRAL",
                "ChatType::ACHIEVEMENT", "ChatType::CHANNEL", "ChatType::SYSTEM"}}, {"guid"}) |->
       Smsg(
         Ints(<<1, 4, 8, 4>>)
         \o When(Is(w, "ChatType::MONSTER_SAY"), SizedCstring(w) \o NamedGuid(w).read)
         \o When(Is(w, "ChatType::WHISPER_FOREIGN"), SizedCstring(w) \o Ints(<<8>>))
         \o When(Is(w, "ChatType::BG_SYSTEM_NEUTRAL"), NamedGuid(w).read)
         \o When(Is(w, "ChatType::ACHIEVEMENT"), Ints(<<8>>))
         \o When(Is(w, "ChatType::CHANNEL"), Cstring(w) \o Ints(<<8>>))
         \o When(Is(w, "ChatType::SYSTEM"), Ints(<<8>>)) \o SizedCstring(w) \o Ints(<<1>>)
         \o When(Is(w, "ChatType::ACHIEVEMENT"), Ints(<<4>>)),
         1 + 4 + 8 + 4
         + Bytes(Is(w, "ChatType::MONSTER_SAY"), write_sized_cstring(w) + NamedGuid(w).written)
         + Bytes(Is(w, "ChatType::WHISPER_FOREIGN"), write_sized_cstring(w) + 8)
         + Bytes(Is(w, "ChatType::BG_SYSTEM_NEUTRAL"), NamedGuid(w).written)
         + Bytes(Is(w, "ChatType::ACHIEVEMENT"), 8)
         + Bytes(Is(w, "ChatType::CHANNEL"), write_cstring(w) + 8)
         + Bytes(Is(w, "ChatType::SYSTEM"), 8) + write_sized_cstring(w) + 1
         + Bytes(Is(w, "ChatType::ACHIEVEMENT"), 4),
         23 + w.len + Bytes(Is(w, "ChatType::MONSTER_SAY"), 5 + w.len + NamedGuid(w).size)
         + Bytes(Is(w, "ChatType::WHISPER_FOREIGN"), 13 + w.len)
         + Bytes(Is(w, "ChatType::BG_SYSTEM_NEUTRAL"), NamedGuid(w).size)
         + Bytes(Is(w, "ChatType::ACHIEVEMENT"), 8) + Bytes(Is(w, "ChatType::CHANNEL"), 9 + w.len)
         + Bytes(Is(w, "ChatType::SYSTEM"), 8) + Bytes(Is(w, "ChatType::ACHIEVEMENT"), 4))]]

wrath_FromCmsgJoinChannel ==
  [CMSG_JOIN_CHANNEL |-> [w \in OfLength |->
     Cmsg(Ints(<<4, 1, 1>>) \o Cstring(w) \o Cstring(w),
          4 + 2 * 1 + 2 * write_cstring(w), 8 + 2 * w.len)],
   CMSG_LEAVE_CHANNEL |-> [w \in OfLength |->
     Cmsg(Ints(<<4>>) \o Cstring(w), 4 + write_cstring(w), 5 + w.len)],
   SMSG_CHANNEL_NOTIFY |-> [w \in Wires(Lengths, {0}, {}, {"unknown1"}) |->
     Smsg(Counted(2 + w.len, Ints(<<1>>) \o Cstring(w)) \o Optional(Ints(<<4, 4>>)),
          1 + write_cstring(w) + Bytes(Is(w, "unknown1"), 2 * 4),
          2 + w.len + Bytes(Is(w, "unknown1"), 8))]]

wrath_FromCmsgChannelList ==
  [CMSG_CHANNEL_LIST |-> [w \in OfLength |->
     Cmsg(Cstring(w), write_cstring(w), 1 + w.len)],
   SMSG_CHANNEL_LIST |-> [w \in OfLengthAndCount |->
     Smsg(
       Cstring(w) \o Ints(<<1, 4>>) \o Each(w.count, wrath_ChannelMember.read),
       write_cstring(w) + 1 + 4 + w.count * wrath_ChannelMember.written, 6 + w.len + 9 * w.count)],
   CMSG_CHANNEL_PASSWORD |-> [w \in OfLength |->
     Cmsg(Cstring(w) \o Cstring(w), 2 * write_cstring(w), 2 + 2 * w.len)],
   CMSG_CHANNEL_SET_OWNER |-> [w \in OfLength |->
     Cmsg(Cstring(w) \o Cstring(w), 2 * write_cstring(w), 2 + 2 * w.len)]]

wrath_FromCmsgChannelOwner ==
  [CMSG_CHANNEL_OWNER |-> [w \in OfLength |->
     Cmsg(Cstring(w), write_cstring(w), 1 + w.len)],
   CMSG_CHANNEL_MODERATOR |-> [w \in OfLength |->
     Cmsg(Cstring(w) \o Cstring(w), 2 * write_cstring(w), 2 + 2 * w.len)],
   CMSG_CHANNEL_UNMODERATOR |-> [w \in OfLength |->
     Cmsg(Cstring(w) \o Cstring(w), 2 * write_cstring(w), 2 + 2 * w.len)],
   CMSG_CHANNEL_MUTE |-> [w \in OfLength |->
     Cmsg(Cstring(w) \o Cstring(w), 2 * write_cstring(w), 2 + 2 * w.len)],
   CMSG_CHANNEL_UNMUTE |-> [w \in OfLength |->
     Cmsg(Cstring(w) \o Cstring(w), 2 * write_cstring(w), 2 + 2 * w.len)]]

wrath_FromCmsgChannelInvite ==
  [CMSG_CHANNEL_INVITE |-> [w \in OfLength |->
     Cmsg(Cstring(w) \o Cstring(w), 2 * write_cstring(w), 2 + 2 * w.len)],
   CMSG_CHANNEL_KICK |-> [w \in OfLength |->
     Cmsg(Cstring(w) \o Cstring(w), 2 * write_cstring(w), 2 + 2 * w.len)],
   CMSG_CHANNEL_BAN |-> [w \in OfLength |->
     Cmsg(Cstring(w) \o Cstring(w), 2 * write_cstring(w), 2 + 2 * w.len)],
   CMSG_CHANNEL_UNBAN |-> [w \in OfLength |->
     Cmsg(Cstring(w) \o Cstring(w), 2 * write_cstring(w), 2 + 2 * w.len)],
   CMSG_CHANNEL_ANNOUNCEMENTS |-> [w \in OfLength |->
     Cmsg(Cstring(w), write_cstring(w), 1 + w.len)]]

wrath_FromCmsgChannelModerate ==
  [CMSG_CHANNEL_MODERATE |-> [w \in OfLength |->
     Cmsg(Cstring(w), write_cstring(w), 1 + w.len)],
   SMSG_UPDATE_OBJECT |-> [w \in Wires(Lengths, UpdatedObjects, wrath_ObjectEnums, wrath_ObjectFlags) |->
     Smsg(Ints(<<4>>) \o Each(w.count, wrath_Object(w).read),
          4 + w.count * wrath_Object(w).written, 4 + w.count * wrath_Object(w).size)],
   SMSG_DESTROY_OBJECT |-> PlainSmsg(<<8, 1>>, 8 + 1, 9)]

wrath_FromCmsgUseItem ==
  [CMSG_USE_ITEM |->
     [w \in Wires(Lengths, {0},
                  {{"ClientCastFlags::EXTRA", "ClientCastFlags::NONE"},
                   {"ClientMovementData::PRESENT", "ClientMovementData::NOT_PRESENT"}},
                  wrath_MovementInfoFlags \union wrath_SpellCastTargetsFlags) |->
       Cmsg(
         Ints(<<1, 1, 1, 1, 4, 8, 4, 1>>)
         \o When(Is(w, "ClientCastFlags::EXTRA"),
                 Ints(<<4, 4, 1>>)
                 \o When(Is(w, "ClientMovementData::PRESENT"),
                         Ints(<<4>>) \o PackedGuid(w) \o wrath_MovementInfo(w).read))
         \o wrath_SpellCastTargets(w).read,
         4 * 1 + 4 + 8 + 4 + 1
         + Bytes(
             Is(w, "ClientCastFlags::EXTRA"),
             2 * 4 + 1
             + Bytes(Is(w, "ClientMovementData::PRESENT"),
                     4 + write_packed_guid(w) + wrath_MovementInfo(w).written))
         + wrath_SpellCastTargets(w).written,
         21 + wrath_SpellCastTargets(w).size
         + Bytes(
             Is(w, "ClientCastFlags::EXTRA"),
             9
             + Bytes(Is(w, "ClientMovementData::PRESENT"),
                     4 + wwm_packed_guid_size(w) + wrath_MovementInfo(w).size)))],
   CMSG_OPEN_ITEM |-> PlainCmsg(<<1, 1>>, 2 * 1, 2)]

wrath_FromCmsgReadItem ==
  [CMSG_READ_ITEM |-> PlainCmsg(<<1, 1>>, 2 * 1, 2),
   SMSG_READ_ITEM_OK |-> PlainSmsg(<<8>>, 8, 8),
   SMSG_READ_ITEM_FAILED |-> PlainSmsg(<<8>>, 8, 8),
   SMSG_ITEM_COOLDOWN |-> PlainSmsg(<<8, 4>>, 8 + 4, 12),
   CMSG_GAMEOBJ_USE |-> PlainCmsg(<<8>>, 8, 8),
   SMSG_GAMEOBJECT_CUSTOM_ANIM |-> PlainSmsg(<<8, 4>>, 8 + 4, 12)]

wrath_FromCmsgAreatrigger ==
  [CMSG_AREATRIGGER |-> PlainCmsg(<<4>>, 4, 4),
   MSG_MOVE_START_FORWARD_cmsg |-> [w \in Wires(Lengths, {0}, {}, wrath_MovementInfoFlags) |->
     Client(wrath_MSG_MOVE_START_FORWARD(w))],
   MSG_MOVE_START_FORWARD_smsg |-> [w \in Wires(Lengths, {0}, {}, wrath_MovementInfoFlags) |->
     Server(wrath_MSG_MOVE_START_FORWARD(w))],
   MSG_MOVE_START_BACKWARD_cmsg |-> [w \in Wires(Lengths, {0}, {}, wrath_MovementInfoFlags) |->
     Client(wrath_MSG_MOVE_START_BACKWARD(w))],
   MSG_MOVE_START_BACKWARD_smsg |-> [w \in Wires(Lengths, {0}, {}, wrath_MovementInfoFlags) |->
     Server(wrath_MSG_MOVE_START_BACKWARD(w))],
   MSG_MOVE_STOP_cmsg |-> [w \in Wires(Lengths, {0}, {}, wrath_MovementInfoFlags) |->
     Client(wrath_MSG_MOVE_STOP(w))]]

wrath_FromMsgMoveStop ==
  [MSG_MOVE_STOP_smsg |-> [w \in Wires(Lengths, {0}, {}, wrath_MovementInfoFlags) |->
     Server(wrath_MSG_MOVE_STOP(w))],
   MSG_MOVE_START_STRAFE_LEFT_cmsg |-> [w \in Wires(Lengths, {0}, {}, wrath_MovementInfoFlags) |->
     Client(wrath_MSG_MOVE_START_STRAFE_LEFT(w))],
   MSG_MOVE_START_STRAFE_LEFT_smsg |-> [w \in Wires(Lengths, {0}, {}, wrath_MovementInfoFlags) |->
     Server(wrath_MSG_MOVE_START_STRAFE_LEFT(w))],
   MSG_MOVE_START_STRAFE_RIGHT_cmsg |->
     [w \in Wires(Lengths, {0}, {}, wrath_MovementInfoFlags) |->
       Client(wrath_MSG_MOVE_START_STRAFE_RIGHT(w))],
   MSG_MOVE_START_STRAFE_RIGHT_smsg |->
     [w \in Wires(Lengths, {0}, {}, wrath_MovementInfoFlags) |->
       Server(wrath_MSG_MOVE_START_STRAFE_RIGHT(w))],
   MSG_MOVE_STOP_STRAFE_cmsg |-> [w \in Wires(Lengths, {0}, {}, wrath_MovementInfoFlags) |->
     Client(wrath_MSG_MOVE_STOP_STRAFE(w))]]

wrath_FromMsgMoveStopStrafe ==
  [MSG_MOVE_STOP_STRAFE_smsg |-> [w \in Wires(Lengths, {0}, {}, wrath_MovementInfoFlags) |->
     Server(wrath_MSG_MOVE_STOP_STRAFE(w))],
   MSG_MOVE_JUMP_cmsg |-> [w \in Wires(Lengths, {0}, {}, wrath_MovementInfoFlags) |->
     Client(wrath_MSG_MOVE_JUMP(w))],
   MSG_MOVE_JUMP_smsg |-> [w \in Wires(Lengths, {0}, {}, wrath_MovementInfoFlags) |->
     Server(wrath_MSG_MOVE_JUMP(w))],
   MSG_MOVE_START_TURN_LEFT_cmsg |-> [w \in Wires(Lengths, {0}, {}, wrath_MovementInfoFlags) |->
     Client(wrath_MSG_MOVE_START_TURN_LEFT(w))],
   MSG_MOVE_START_TURN_LEFT_smsg |-> [w \in Wires(Lengths, {0}, {}, wrath_MovementInfoFlags) |->
     Server(wrath_MSG_MOVE_START_TURN_LEFT(w))],
   MSG_MOVE_START_TURN_RIGHT_cmsg |-> [w \in Wires(Lengths, {0}, {}, wrath_MovementInfoFlags) |->
     Client(wrath_MSG_MOVE_START_TURN_RIGHT(w))]]

wrath_FromMsgMoveStartTurnRight ==
  [MSG_MOVE_START_TURN_RIGHT_smsg |-> [w \in Wires(Lengths, {0}, {}, wrath_MovementInfoFlags) |->
     Server(wrath_MSG_MOVE_START_TURN_RIGHT(w))],
   MSG_MOVE_STOP_TURN_cmsg |-> [w \in Wires(Lengths, {0}, {}, wrath_MovementInfoFlags) |->
     Client(wrath_MSG_MOVE_STOP_TURN(w))],
   MSG_MOVE_STOP_TURN_smsg |-> [w \in Wires(Lengths, {0}, {}, wrath_MovementInfoFlags) |->
     Server(wrath_MSG_MOVE_STOP_TURN(w))],
   MSG_MOVE_START_PITCH_UP_cmsg |-> [w \in Wires(Lengths, {0}, {}, wrath_MovementInfoFlags) |->
     Client(wrath_MSG_MOVE_START_PITCH_UP(w))],
   MSG_MOVE_START_PITCH_UP_smsg |-> [w \in Wires(Lengths, {0}, {}, wrath_MovementInfoFlags) |->
     Server(wrath_MSG_MOVE_START_PITCH_UP(w))],
   MSG_MOVE_START_PITCH_DOWN_cmsg |-> [w \in Wires(Lengths, {0}, {}, wrath_MovementInfoFlags) |->
     Client(wrath_MSG_MOVE_START_PITCH_DOWN(w))]]

wrath_FromMsgMoveStartPitchDown ==
  [MSG_MOVE_START_PITCH_DOWN_smsg |-> [w \in Wires(Lengths, {0}, {}, wrath_MovementInfoFlags) |->
     Server(wrath_MSG_MOVE_START_PITCH_DOWN(w))],
   MSG_MOVE_STOP_PITCH_cmsg |-> [w \in Wires(Lengths, {0}, {}, wrath_MovementInfoFlags) |->
     Client(wrath_MSG_MOVE_STOP_PITCH(w))],
   MSG_MOVE_STOP_PITCH_smsg |-> [w \in Wires(Lengths, {0}, {}, wrath_MovementInfoFlags) |->
     Server(wrath_MSG_MOVE_STOP_PITCH(w))],
   MSG_MOVE_SET_RUN_MODE_cmsg |-> [w \in Wires(Lengths, {0}, {}, wrath_MovementInfoFlags) |->
     Client(wrath_MSG_MOVE_SET_RUN_MODE(w))],
   MSG_MOVE_SET_RUN_MODE_smsg |-> [w \in Wires(Lengths, {0}, {}, wrath_MovementInfoFlags) |->
     Server(wrath_MSG_MOVE_SET_RUN_MODE(w))],
   MSG_MOVE_SET_WALK_MODE_cmsg |-> [w \in Wires(Lengths, {0}, {}, wrath_MovementInfoFlags) |->
     Client(wrath_MSG_MOVE_SET_WALK_MODE(w))]]

wrath_FromMsgMoveSetWalkMode ==
  [MSG_MOVE_SET_WALK_MODE_smsg |-> [w \in Wires(Lengths, {0}, {}, wrath_MovementInfoFlags) |->
     Server(wrath_MSG_MOVE_SET_WALK_MODE(w))],
   MSG_MOVE_TELEPORT_Server |-> [w \in Wires(Lengths, {0}, {}, wrath_MovementInfoFlags) |->
     Cmsg(PackedGuid(w) \o wrath_MovementInfo(w).read,
          write_packed_guid(w) + wrath_MovementInfo(w).written,
          wwm_packed_guid_size(w) + wrath_MovementInfo(w).size)],
   MSG_MOVE_TELEPORT_CHEAT_Server |-> [w \in {Fixed} |->
     Smsg(Vector3d.read \o Ints(<<4>>), Vector3d.written + 4, 16)],
   MSG_MOVE_TELEPORT_ACK_Client |-> [w \in OfLength |->
     Cmsg(
       PackedGuid(w) \o Ints(<<4, 4>>), write_packed_guid(w) + 2 * 4, 8 + wwm_packed_guid_size(w))],
   MSG_MOVE_TELEPORT_ACK_Server |-> [w \in Wires(Lengths, {0}, {}, wrath_MovementInfoFlags) |->
     Smsg(PackedGuid(w) \o Ints(<<4>>) \o wrath_MovementInfo(w).read,
          write_packed_guid(w) + 4 + wrath_MovementInfo(w).written,
          4 + wwm_packed_guid_size(w) + wrath_MovementInfo(w).size)]]

wrath_FromMsgMoveFallLand ==
  [MSG_MOVE_FALL_LAND_cmsg |-> [w \in Wires(Lengths, {0}, {}, wrath_MovementInfoFlags) |->
     Client(wrath_MSG_MOVE_FALL_LAND(w))],
   MSG_MOVE_FALL_LAND_smsg |-> [w \in Wires(Lengths, {0}, {}, wrath_MovementInfoFlags) |->
     Server(wrath_MSG_MOVE_FALL_LAND(w))],
   MSG_MOVE_START_SWIM_cmsg |-> [w \in Wires(Lengths, {0}, {}, wrath_MovementInfoFlags) |->
     Client(wrath_MSG_MOVE_START_SWIM(w))],
   MSG_MOVE_START_SWIM_smsg |-> [w \in Wires(Lengths, {0}, {}, wrath_MovementInfoFlags) |->
     Server(wrath_MSG_MOVE_START_SWIM(w))],
   MSG_MOVE_STOP_SWIM_cmsg |-> [w \in Wires(Lengths, {0}, {}, wrath_MovementInfoFlags) |->
     Client(wrath_MSG_MOVE_STOP_SWIM(w))],
   MSG_MOVE_STOP_SWIM_smsg |-> [w \in Wires(Lengths, {0}, {}, wrath_MovementInfoFlags) |->
     Server(wrath_MSG_MOVE_STOP_SWIM(w))]]

wrath_FromMsgMoveSetFacing ==
  [MSG_MOVE_SET_FACING_cmsg |-> [w \in Wires(Lengths, {0}, {}, wrath_MovementInfoFlags) |->
     Client(wrath_MSG_MOVE_SET_FACING(w))],
   MSG_MOVE_SET_FACING_smsg |-> [w \in Wires(Lengths, {0}, {}, wrath_MovementInfoFlags) |->
     Server(wrath_MSG_MOVE_SET_FACING(w))],
   MSG_MOVE_SET_PITCH_cmsg |-> [w \in Wires(Lengths, {0}, {}, wrath_MovementInfoFlags) |->
     Client(wrath_MSG_MOVE_SET_PITCH(w))],
   MSG_MOVE_SET_PITCH_smsg |-> [w \in Wires(Lengths, {0}, {}, wrath_MovementInfoFlags) |->
     Server(wrath_MSG_MOVE_SET_PITCH(w))],
   MSG_MOVE_WORLDPORT_ACK_cmsg |-> EmptyCmsg(0),
   MSG_MOVE_WORLDPORT_ACK_smsg |-> EmptySmsg(0)]

wrath_FromSmsgMonsterMove ==
  [SMSG_MONSTER_MOVE |->
     [w \in Wires(Lengths, Counts,
                  {{"MonsterMoveType::FACING_TARGET", "MonsterMoveType::FACING_ANGLE",
                    "MonsterMoveType::FACING_SPOT", "MonsterMoveType::NORMAL"}},
                  {"SPLINE_FLAG_ENTER_CYCLE", "SPLINE_FLAG_PARABOLIC"}) |->
       Smsg(
         PackedGuid(w) \o Ints(<<1>>) \o Vector3d.read \o Ints(<<4, 1>>)
         \o When(Is(w, "MonsterMoveType::FACING_TARGET"), Ints(<<8>>))
         \o When(Is(w, "MonsterMoveType::FACING_ANGLE"), Ints(<<4>>))
         \o When(Is(w, "MonsterMoveType::FACING_SPOT"), Vector3d.read) \o Ints(<<4>>)
         \o When(Is(w, "SPLINE_FLAG_ENTER_CYCLE"), Ints(<<4, 4>>)) \o Ints(<<4>>)
         \o When(Is(w, "SPLINE_FLAG_PARABOLIC"), Ints(<<4, 4>>)) \o MonsterMoveSpline(w),
         write_packed_guid(w) + 1 + Vector3d.written + 4 + 1
         + Bytes(Is(w, "MonsterMoveType::FACING_TARGET"), 8)
         + Bytes(Is(w, "MonsterMoveType::FACING_ANGLE"), 4)
         + Bytes(Is(w, "MonsterMoveType::FACING_SPOT"), Vector3d.written) + 4
         + Bytes(Is(w, "SPLINE_FLAG_ENTER_CYCLE"), 2 * 4) + 4
         + Bytes(Is(w, "SPLINE_FLAG_PARABOLIC"), 2 * 4) + wwm_write_monster_move_spline(w),
         26 + wwm_packed_guid_size(w) + wwm_monster_move_spline_size(w)
         + Bytes(Is(w, "MonsterMoveType::FACING_TARGET"), 8)
         + Bytes(Is(w, "MonsterMoveType::FACING_ANGLE"), 4)
         + Bytes(Is(w, "MonsterMoveType::FACING_SPOT"), 12)
         + Bytes(Is(w, "SPLINE_FLAG_ENTER_CYCLE"), 8) + Bytes(Is(w, "SPLINE_FLAG_PARABOLIC"), 8))]]

wrath_FromSmsgMoveWaterWalk ==
  [SMSG_MOVE_WATER_WALK |-> [w \in OfLength |->
     Smsg(PackedGuid(w) \o Ints(<<4>>), write_packed_guid(w) + 4, 4 + wwm_packed_guid_size(w))],
   SMSG_MOVE_LAND_WALK |-> [w \in OfLength |->
     Smsg(PackedGuid(w) \o Ints(<<4>>), write_packed_guid(w) + 4, 4 + wwm_packed_guid_size(w))],
   CMSG_MOVE_SET_RAW_POSITION |-> [w \in {Fixed} |->
     Cmsg(Vector3d.read \o Ints(<<4>>), Vector3d.written + 4, 16)],
   SMSG_FORCE_RUN_SPEED_CHANGE |-> [w \in OfLength |->
     Smsg(PackedGuid(w) \o Ints(<<4, 1, 4>>),
          write_packed_guid(w) + 4 + 1 + 4, 9 + wwm_packed_guid_size(w))]]

wrath_FromCmsgForceRunSpeedChangeAck ==
  [CMSG_FORCE_RUN_SPEED_CHANGE_ACK |-> [w \in Wires(Lengths, {0}, {}, wrath_MovementInfoFlags) |->
     Cmsg(PackedGuid(w) \o Ints(<<4>>) \o wrath_MovementInfo(w).read \o Ints(<<4>>),
          write_packed_guid(w) + 4 + wrath_MovementInfo(w).written + 4,
          8 + wwm_packed_guid_size(w) + wrath_MovementInfo(w).size)],
   SMSG_FORCE_RUN_BACK_SPEED_CHANGE |-> [w \in OfLength |->
     Smsg(
       PackedGuid(w) \o Ints(<<4, 4>>), write_packed_guid(w) + 2 * 4, 8 + wwm_packed_guid_size(w))],
   CMSG_FORCE_RUN_BACK_SPEED_CHANGE_ACK |->
     [w \in Wires(Lengths, {0}, {}, wrath_MovementInfoFlags) |->
       Cmsg(PackedGuid(w) \o Ints(<<4>>) \o wrath_MovementInfo(w).read \o Ints(<<4>>),
            write_packed_guid(w) + 4 + wrath_MovementInfo(w).written + 4,
            8 + wwm_packed_guid_size(w) + wrath_MovementInfo(w).size)],
   SMSG_FORCE_SWIM_SPEED_CHANGE |-> [w \in OfLength |->
     Smsg(
       PackedGuid(w) \o Ints(<<4, 4>>), write_packed_guid(w) + 2 * 4, 8 + wwm_packed_guid_size(w))]]

wrath_FromCmsgForceSwimSpeedChangeAck ==
  [CMSG_FORCE_SWIM_SPEED_CHANGE_ACK |->
     wrath_FromCmsgForceRunSpeedChangeAck.CMSG_FORCE_RUN_SPEED_CHANGE_ACK,
   SMSG_FORCE_MOVE_ROOT |-> [w \in OfLength |->
     Smsg(PackedGuid(w) \o Ints(<<4>>), write_packed_guid(w) + 4, 4 + wwm_packed_guid_size(w))],
   CMSG_FORCE_MOVE_ROOT_ACK |-> [w \in Wires(Lengths, {0}, {}, wrath_MovementInfoFlags) |->
     Cmsg(PackedGuid(w) \o Ints(<<4>>) \o wrath_MovementInfo(w).read,
          write_packed_guid(w) + 4 + wrath_MovementInfo(w).written,
          4 + wwm_packed_guid_size(w) + wrath_MovementInfo(w).size)],
   SMSG_FORCE_MOVE_UNROOT |-> [w \in OfLength |->
     Smsg(PackedGuid(w) \o Ints(<<4>>), write_packed_guid(w) + 4, 4 + wwm_packed_guid_size(w))]]

wrath_FromCmsgForceMoveUnrootAck ==
  [CMSG_FORCE_MOVE_UNROOT_ACK |-> wrath_FromCmsgForceSwimSpeedChangeAck.CMSG_FORCE_MOVE_ROOT_ACK,
   MSG_MOVE_ROOT_Server |-> [w \in Wires(Lengths, {0}, {}, wrath_MovementInfoFlags) |->
     Smsg(wrath_MovementInfo(w).read, wrath_MovementInfo(w).written, wrath_MovementInfo(w).size)],
   MSG_MOVE_UNROOT_Server |-> [w \in Wires(Lengths, {0}, {}, wrath_MovementInfoFlags) |->
     Smsg(wrath_MovementInfo(w).read, wrath_MovementInfo(w).written, wrath_MovementInfo(w).size)],
   MSG_MOVE_HEARTBEAT_cmsg |-> [w \in Wires(Lengths, {0}, {}, wrath_MovementInfoFlags) |->
     Client(wrath_MSG_MOVE_HEARTBEAT(w))],
   MSG_MOVE_HEARTBEAT_smsg |-> [w \in Wires(Lengths, {0}, {}, wrath_MovementInfoFlags) |->
     Server(wrath_MSG_MOVE_HEARTBEAT(w))]]

wrath_FromSmsgMoveKnockBack ==
  [SMSG_MOVE_KNOCK_BACK |-> [w \in OfLength |->
     Smsg(PackedGuid(w) \o Ints(Repeat(5, 4)),
          write_packed_guid(w) + 5 * 4, 20 + wwm_packed_guid_size(w))],
   CMSG_MOVE_KNOCK_BACK_ACK |-> [w \in Wires(Lengths, {0}, {}, wrath_MovementInfoFlags) |->
     Cmsg(Ints(<<8, 4>>) \o wrath_MovementInfo(w).read,
          8 + 4 + wrath_MovementInfo(w).written, 12 + wrath_MovementInfo(w).size)],
   MSG_MOVE_KNOCK_BACK_Server |-> [w \in Wires(Lengths, {0}, {}, wrath_MovementInfoFlags) |->
     Smsg(PackedGuid(w) \o wrath_MovementInfo(w).read \o Ints(<<4, 4, 4, 4>>),
          write_packed_guid(w) + wrath_MovementInfo(w).written + 4 * 4,
          16 + wwm_packed_guid_size(w) + wrath_MovementInfo(w).size)]]

wrath_FromSmsgMoveFeatherFall ==
  [SMSG_MOVE_FEATHER_FALL |-> [w \in OfLength |->
     Smsg(PackedGuid(w) \o Ints(<<4>>), write_packed_guid(w) + 4, 4 + wwm_packed_guid_size(w))],
   SMSG_MOVE_NORMAL_FALL |-> [w \in OfLength |->
     Smsg(PackedGuid(w) \o Ints(<<4>>), write_packed_guid(w) + 4, 4 + wwm_packed_guid_size(w))],
   SMSG_MOVE_SET_HOVER |-> [w \in OfLength |->
     Smsg(PackedGuid(w) \o Ints(<<4>>), write_packed_guid(w) + 4, 4 + wwm_packed_guid_size(w))],
   SMSG_MOVE_UNSET_HOVER |-> [w \in OfLength |->
     Smsg(PackedGuid(w) \o Ints(<<4>>), write_packed_guid(w) + 4, 4 + wwm_packed_guid_size(w))]]

wrath_FromCmsgMoveHoverAck ==
  [CMSG_MOVE_HOVER_ACK |-> [w \in Wires(Lengths, {0}, {}, wrath_MovementInfoFlags) |->
     Cmsg(Ints(<<8, 4>>) \o wrath_MovementInfo(w).read \o Ints(<<4>>),
          8 + 4 + wrath_MovementInfo(w).written + 4, 16 + wrath_MovementInfo(w).size)],
   MSG_MOVE_HOVER_cmsg |-> [w \in Wires(Lengths, {0}, {}, wrath_MovementInfoFlags) |->
     Client(wrath_MSG_MOVE_HOVER(w))],
   MSG_MOVE_HOVER_smsg |-> [w \in Wires(Lengths, {0}, {}, wrath_MovementInfoFlags) |->
     Server(wrath_MSG_MOVE_HOVER(w))],
   SMSG_TRIGGER_CINEMATIC |-> PlainSmsg(<<4>>, 4, 4),
   CMSG_NEXT_CINEMATIC_CAMERA |-> EmptyCmsg(0),
   CMSG_COMPLETE_CINEMATIC |-> EmptyCmsg(0)]

wrath_FromSmsgTutorialFlags ==
  [SMSG_TUTORIAL_FLAGS |-> PlainSmsg(Repeat(8, 4), 8 * 4, 32),
   CMSG_TUTORIAL_FLAG |-> PlainCmsg(<<4>>, 4, 4),
   CMSG_TUTORIAL_CLEAR |-> EmptyCmsg(0),
   CMSG_TUTORIAL_RESET |-> EmptyCmsg(0),
   CMSG_STANDSTATECHANGE |-> PlainCmsg(<<4>>, 4, 4),
   CMSG_EMOTE |-> PlainCmsg(<<4>>, 4, 4),
   SMSG_EMOTE |-> PlainSmsg(<<4, 8>>, 4 + 8, 12)]

wrath_FromCmsgTextEmote ==
  [CMSG_TEXT_EMOTE |-> PlainCmsg(<<4, 4, 8>>, 2 * 4 + 8, 16),
   SMSG_TEXT_EMOTE |-> [w \in OfLength |->
     Smsg(Ints(<<8, 4, 4>>) \o SizedCstring(w), 8 + 2 * 4 + write_sized_cstring(w), 21 + w.len)],
   CMSG_AUTOSTORE_LOOT_ITEM |-> PlainCmsg(<<1>>, 1, 1),
   CMSG_AUTOEQUIP_ITEM |-> PlainCmsg(<<1, 1>>, 2 * 1, 2),
   CMSG_AUTOSTORE_BAG_ITEM |-> PlainCmsg(<<1, 1, 1>>, 3 * 1, 3)]

wrath_FromCmsgSwapItem ==
  [CMSG_SWAP_ITEM |-> PlainCmsg(<<1, 1, 1, 1>>, 4 * 1, 4),
   CMSG_SWAP_INV_ITEM |-> PlainCmsg(<<1, 1>>, 2 * 1, 2),
   CMSG_SPLIT_ITEM |-> PlainCmsg(<<1, 1, 1, 1, 4>>, 4 * 1 + 4, 8),
   CMSG_AUTOEQUIP_ITEM_SLOT |-> PlainCmsg(<<8, 1>>, 8 + 1, 9)]

wrath_FromCmsgDestroyitem ==
  [CMSG_DESTROYITEM |-> PlainCmsg(Repeat(6, 1), 6 * 1, 6),
   SMSG_INVENTORY_CHANGE_FAILURE |->
     [w \in Wires({0}, {0},
                  {{"InventoryResult::CANT_EQUIP_LEVEL_I", "InventoryResult::CANT_EQUIP_SKILL",
                    "InventoryResult::OK"}}, {}) |->
       Smsg(
         Ints(<<1>>)
         \o When(
              IsIn(w, {"InventoryResult::CANT_EQUIP_LEVEL_I", "InventoryResult::CANT_EQUIP_SKILL"}),
              Ints(<<8, 8, 1>>)) \o When(Is(w, "InventoryResult::CANT_EQUIP_LEVEL_I"), Ints(<<4>>)),
         1
         + Bytes(
             IsIn(w, {"InventoryResult::CANT_EQUIP_LEVEL_I", "InventoryResult::CANT_EQUIP_SKILL"}),
             2 * 8 + 1) + Bytes(Is(w, "InventoryResult::CANT_EQUIP_LEVEL_I"), 4),
         1
         + Bytes(
             IsIn(w, {"InventoryResult::CANT_EQUIP_LEVEL_I", "InventoryResult::CANT_EQUIP_SKILL"}),
             17) + Bytes(Is(w, "InventoryResult::CANT_EQUIP_LEVEL_I"), 4))],
   CMSG_INSPECT |-> PlainCmsg(<<8>>, 8, 8),
   CMSG_INITIATE_TRADE |-> PlainCmsg(<<8>>, 8, 8)]

wrath_FromCmsgBeginTrade ==
  [CMSG_BEGIN_TRADE |-> EmptyCmsg(0),
   CMSG_BUSY_TRADE |-> EmptyCmsg(0),
   CMSG_IGNORE_TRADE |-> EmptyCmsg(0),
   CMSG_ACCEPT_TRADE |-> PlainCmsg(<<4>>, 4, 4),
   CMSG_UNACCEPT_TRADE |-> EmptyCmsg(0),
   CMSG_CANCEL_TRADE |-> EmptyCmsg(0),
   CMSG_SET_TRADE_ITEM |-> PlainCmsg(<<1, 1, 1>>, 3 * 1, 3),
   CMSG_CLEAR_TRADE_ITEM |-> PlainCmsg(<<1>>, 1, 1)]

wrath_FromCmsgSetTradeGold ==
  [CMSG_SET_TRADE_GOLD |-> PlainCmsg(<<4>>, 4, 4),
   SMSG_TRADE_STATUS |->
     [w \in Wires({0}, {0},
                  {{"TradeStatus::BEGIN_TRADE", "TradeStatus::CLOSE_WINDOW",
                    "TradeStatus::ONLY_CONJURED", "TradeStatus::BUSY"}}, {}) |->
       Smsg(
         Ints(<<4>>) \o When(Is(w, "TradeStatus::BEGIN_TRADE"), Ints(<<8>>))
         \o When(Is(w, "TradeStatus::CLOSE_WINDOW"), Ints(<<4, 1, 4>>))
         \o When(Is(w, "TradeStatus::ONLY_CONJURED"), Ints(<<1>>)),
         4 + Bytes(Is(w, "TradeStatus::BEGIN_TRADE"), 8)
         + Bytes(Is(w, "TradeStatus::CLOSE_WINDOW"), 4 + 1 + 4)
         + Bytes(Is(w, "TradeStatus::ONLY_CONJURED"), 1),
         4 + Bytes(Is(w, "TradeStatus::BEGIN_TRADE"), 8)
         + Bytes(Is(w, "TradeStatus::CLOSE_WINDOW"), 9)
         + Bytes(Is(w, "TradeStatus::ONLY_CONJURED"), 1))],
   SMSG_TRADE_STATUS_EXTENDED |-> [w \in {Fixed} |->
     Smsg(Ints(<<1>> \o Repeat(5, 4)) \o Each(7, wrath_TradeSlot.read),
          1 + 5 * 4 + 7 * wrath_TradeSlot.written, 532)]]

wrath_FromSmsgInitializeFactions ==
  [SMSG_INITIALIZE_FACTIONS |-> [w \in OfCount |->
     Smsg(Ints(<<4>>) \o Each(w.count, wrath_FactionInitializer.read),
          4 + w.count * wrath_FactionInitializer.written, 4 + 5 * w.count)],
   SMSG_SET_FACTION_VISIBLE |-> PlainSmsg(<<2>>, 2, 2),
   SMSG_SET_FACTION_STANDING |-> [w \in OfCount |->
     Smsg(Ints(<<4, 1, 4>>) \o Each(w.count, wrath_FactionStanding.read),
          4 + 1 + 4 + w.count * wrath_FactionStanding.written, 9 + 6 * w.count)],
   CMSG_SET_FACTION_ATWAR |-> PlainCmsg(<<2, 1>>, 2 + 1, 3)]

wrath_FromSmsgSetProficiency ==
  [SMSG_SET_PROFICIENCY |-> PlainSmsg(<<1, 4>>, 1 + 4, 5),
   CMSG_SET_ACTION_BUTTON |-> PlainCmsg(<<1, 2, 1, 1>>, 1 + 2 + 2 * 1, 5),
   SMSG_ACTION_BUTTONS |->
     [w \in Wires({0}, {0}, {{"ActionBarBehavior::INITIAL", "ActionBarBehavior::CLEAR"}}, {}) |->
       Smsg(
         Ints(<<1>>)
         \o When(Is(w, "ActionBarBehavior::INITIAL"), Each(144, wrath_ActionButton.read)),
         1 + Bytes(Is(w, "ActionBarBehavior::INITIAL"), 144 * wrath_ActionButton.written),
         1 + Bytes(Is(w, "ActionBarBehavior::INITIAL"), 576))]]

wrath_FromSmsgInitialSpells ==
  [SMSG_INITIAL_SPELLS |-> [w \in OfCount |->
     Smsg(
       Ints(<<1, 2>>) \o Each(U16(w.count), wrath_InitialSpell.read) \o Ints(<<2>>)
       \o Each(U16(w.count), wrath_CooldownSpell.read),
       1 + 2 + w.count * wrath_InitialSpell.written + 2 + w.count * wrath_CooldownSpell.written,
       5 + 6 * w.count + 14 * w.count)],
   SMSG_LEARNED_SPELL |-> PlainSmsg(<<4, 2>>, 4 + 2, 6),
   SMSG_SUPERCEDED_SPELL |-> PlainSmsg(<<4, 4>>, 2 * 4, 8)]

wrath_FromCmsgCastSpell ==
  [CMSG_CAST_SPELL |->
     [w \in Wires(Lengths, {0},
                  {{"ClientCastFlags::EXTRA", "ClientCastFlags::NONE"},
                   {"ClientMovementData::PRESENT", "ClientMovementData::NOT_PRESENT"}},
                  wrath_MovementInfoFlags \union wrath_SpellCastTargetsFlags) |->
       Cmsg(
         Ints(<<1, 4, 1>>) \o wrath_SpellCastTargets(w).read
         \o When(Is(w, "ClientCastFlags::EXTRA"),
                 Ints(<<4, 4, 1>>)
                 \o When(Is(w, "ClientMovementData::PRESENT"),
                         Ints(<<4>>) \o PackedGuid(w) \o wrath_MovementInfo(w).read)),
         1 + 4 + 1 + wrath_SpellCastTargets(w).written
         + Bytes(
             Is(w, "ClientCastFlags::EXTRA"),
             2 * 4 + 1
             + Bytes(Is(w, "ClientMovementData::PRESENT"),
                     4 + write_packed_guid(w) + wrath_MovementInfo(w).written)),
         6 + wrath_SpellCastTargets(w).size
         + Bytes(
             Is(w, "ClientCastFlags::EXTRA"),
             9
             + Bytes(Is(w, "ClientMovementData::PRESENT"),
                     4 + wwm_packed_guid_size(w) + wrath_MovementInfo(w).size)))],
   CMSG_CANCEL_CAST |-> PlainCmsg(<<4>>, 4, 4)]

wrath_FromSmsgCastFailed ==
  [SMSG_CAST_FAILED |->
     [w \in Wires(
              {0}, {0},
              {{"SpellCastResult::REQUIRES_SPELL_FOCUS", "SpellCastResult::REQUIRES_AREA",
                "SpellCastResult::TOTEMS", "SpellCastResult::TOTEM_CATEGORY",
                "SpellCastResult::EQUIPPED_ITEM_CLASS", "SpellCastResult::TOO_MANY_OF_ITEM",
                "SpellCastResult::CUSTOM_ERROR", "SpellCastResult::REAGENTS",
                "SpellCastResult::PREVENTED_BY_MECHANIC", "SpellCastResult::NEED_EXOTIC_AMMO",
                "SpellCastResult::NEED_MORE_ITEMS", "SpellCastResult::MIN_SKILL",
                "SpellCastResult::FISHING_TOO_LOW", "SpellCastResult::SUCCESS"}}, {}) |->
       Smsg(
         Ints(<<1, 4, 1, 1>>) \o When(Is(w, "SpellCastResult::REQUIRES_SPELL_FOCUS"), Ints(<<4>>))
         \o When(Is(w, "SpellCastResult::REQUIRES_AREA"), Ints(<<4>>))
         \o When(Is(w, "SpellCastResult::TOTEMS"), Ints(<<4, 4>>))
         \o When(Is(w, "SpellCastResult::TOTEM_CATEGORY"), Ints(<<4, 4>>))
         \o When(Is(w, "SpellCastResult::EQUIPPED_ITEM_CLASS"), Ints(<<4, 4>>))
         \o When(Is(w, "SpellCastResult::TOO_MANY_OF_ITEM"), Ints(<<4>>))
         \o When(Is(w, "SpellCastResult::CUSTOM_ERROR"), Ints(<<4>>))
         \o When(Is(w, "SpellCastResult::REAGENTS"), Ints(<<4>>))
         \o When(Is(w, "SpellCastResult::PREVENTED_BY_MECHANIC"), Ints(<<4>>))
         \o When(Is(w, "SpellCastResult::NEED_EXOTIC_AMMO"), Ints(<<4>>))
         \o When(Is(w, "SpellCastResult::NEED_MORE_ITEMS"), Ints(<<4, 4>>))
         \o When(Is(w, "SpellCastResult::MIN_SKILL"), Ints(<<4, 4>>))
         \o When(Is(w, "SpellCastResult::FISHING_TOO_LOW"), Ints(<<4>>)),
         1 + 4 + 2 * 1 + Bytes(Is(w, "SpellCastResult::REQUIRES_SPELL_FOCUS"), 4)
         + Bytes(Is(w, "SpellCastResult::REQUIRES_AREA"), 4)
         + Bytes(Is(w, "SpellCastResult::TOTEMS"), 2 * 4)
         + Bytes(Is(w, "SpellCastResult::TOTEM_CATEGORY"), 2 * 4)
         + Bytes(Is(w, "SpellCastResult::EQUIPPED_ITEM_CLASS"), 2 * 4)
         + Bytes(Is(w, "SpellCastResult::TOO_MANY_OF_ITEM"), 4)
         + Bytes(Is(w, "SpellCastResult::CUSTOM_ERROR"), 4)
         + Bytes(Is(w, "SpellCastResult::REAGENTS"), 4)
         + Bytes(Is(w, "SpellCastResult::PREVENTED_BY_MECHANIC"), 4)
         + Bytes(Is(w, "SpellCastResult::NEED_EXOTIC_AMMO"), 4)
         + Bytes(Is(w, "SpellCastResult::NEED_MORE_ITEMS"), 2 * 4)
         + Bytes(Is(w, "SpellCastResult::MIN_SKILL"), 2 * 4)
         + Bytes(Is(w, "SpellCastResult::FISHING_TOO_LOW"), 4),
         7 + Bytes(Is(w, "SpellCastResult::REQUIRES_SPELL_FOCUS"), 4)
         + Bytes(Is(w, "SpellCastResult::REQUIRES_AREA"), 4)
         + Bytes(Is(w, "SpellCastResult::TOTEMS"), 8)
         + Bytes(Is(w, "SpellCastResult::TOTEM_CATEGORY"), 8)
         + Bytes(Is(w, "SpellCastResult::EQUIPPED_ITEM_CLASS"), 8)
         + Bytes(Is(w, "SpellCastResult::TOO_MANY_OF_ITEM"), 4)
         + Bytes(Is(w, "SpellCastResult::CUSTOM_ERROR"), 4)
         + Bytes(Is(w, "SpellCastResult::REAGENTS"), 4)
         + Bytes(Is(w, "SpellCastResult::PREVENTED_BY_MECHANIC"), 4)
         + Bytes(Is(w, "SpellCastResult::NEED_EXOTIC_AMMO"), 4)
         + Bytes(Is(w, "SpellCastResult::NEED_MORE_ITEMS"), 8)
         + Bytes(Is(w, "SpellCastResult::MIN_SKILL"), 8)
         + Bytes(Is(w, "SpellCastResult::FISHING_TOO_LOW"), 4))]]

wrath_FromSmsgSpellStart ==
  [SMSG_SPELL_START |->
     [w \in Wires(
              Lengths, {0}, {},
              wrath_SpellCastTargetsFlags
              \union {"CAST_FLAGS_POWER_LEFT_SELF", "CAST_FLAGS_AMMO", "CAST_FLAGS_UNKNOWN_23"}) |->
       Smsg(
         PackedGuid(w) \o PackedGuid(w) \o Ints(<<1, 4, 4, 4>>) \o wrath_SpellCastTargets(w).read
         \o When(Is(w, "CAST_FLAGS_POWER_LEFT_SELF"), Ints(<<4>>))
         \o When(Is(w, "CAST_FLAGS_AMMO"), Ints(<<4, 4>>))
         \o When(Is(w, "CAST_FLAGS_UNKNOWN_23"), Ints(<<4, 4>>)),
         2 * write_packed_guid(w) + 1 + 3 * 4 + wrath_SpellCastTargets(w).written
         + Bytes(Is(w, "CAST_FLAGS_POWER_LEFT_SELF"), 4) + Bytes(Is(w, "CAST_FLAGS_AMMO"), 2 * 4)
         + Bytes(Is(w, "CAST_FLAGS_UNKNOWN_23"), 2 * 4),
         13 + 2 * wwm_packed_guid_size(w) + wrath_SpellCastTargets(w).size
         + Bytes(Is(w, "CAST_FLAGS_POWER_LEFT_SELF"), 4) + Bytes(Is(w, "CAST_FLAGS_AMMO"), 8)
         + Bytes(Is(w, "CAST_FLAGS_UNKNOWN_23"), 8))]]

wrath_FromSmsgSpellGo ==
  [SMSG_SPELL_GO |->
     [w \in Wires(
              Lengths, Counts, {{"SpellMissInfo::REFLECT", "SpellMissInfo::NONE"}},
              wrath_SpellCastTargetsFlags
              \union {"GAMEOBJECT_CAST_FLAGS_POWER_UPDATE", "GAMEOBJECT_CAST_FLAGS_RUNE_UPDATE",
                      "GAMEOBJECT_CAST_FLAGS_ADJUST_MISSILE", "GAMEOBJECT_CAST_FLAGS_AMMO",
                      "GAMEOBJECT_CAST_FLAGS_VISUAL_CHAIN",
                      "GAMEOBJECT_CAST_FLAGS_DEST_LOCATION"}) |->
       Smsg(
         PackedGuid(w) \o PackedGuid(w)
         \o Ints(<<1, 4, 4, 4, 1>> \o Repeat(U8(w.count), 8) \o <<1>>)
         \o Each(U8(w.count), wrath_SpellMiss(w).read) \o wrath_SpellCastTargets(w).read
         \o When(Is(w, "GAMEOBJECT_CAST_FLAGS_POWER_UPDATE"), Ints(<<4>>))
         \o When(Is(w, "GAMEOBJECT_CAST_FLAGS_RUNE_UPDATE"), Ints(Repeat(8, 1)))
         \o When(Is(w, "GAMEOBJECT_CAST_FLAGS_ADJUST_MISSILE"), Ints(<<4, 4>>))
         \o When(Is(w, "GAMEOBJECT_CAST_FLAGS_AMMO"), Ints(<<4, 4>>))
         \o When(Is(w, "GAMEOBJECT_CAST_FLAGS_VISUAL_CHAIN"), Ints(<<4, 4>>))
         \o When(Is(w, "GAMEOBJECT_CAST_FLAGS_DEST_LOCATION"), Ints(<<1>>)),
         2 * write_packed_guid(w) + 1 + 3 * 4 + 1 + w.count * 8 + 1
         + w.count * wrath_SpellMiss(w).written + wrath_SpellCastTargets(w).written
         + Bytes(Is(w, "GAMEOBJECT_CAST_FLAGS_POWER_UPDATE"), 4)
         + Bytes(Is(w, "GAMEOBJECT_CAST_FLAGS_RUNE_UPDATE"), 2 * 1 + 6)
         + Bytes(Is(w, "GAMEOBJECT_CAST_FLAGS_ADJUST_MISSILE"), 2 * 4)
         + Bytes(Is(w, "GAMEOBJECT_CAST_FLAGS_AMMO"), 2 * 4)
         + Bytes(Is(w, "GAMEOBJECT_CAST_FLAGS_VISUAL_CHAIN"), 2 * 4)
         + Bytes(Is(w, "GAMEOBJECT_CAST_FLAGS_DEST_LOCATION"), 1),
         15 + 2 * wwm_packed_guid_size(w) + 8 * w.count + wrath_SpellCastTargets(w).size
         + w.count * wrath_SpellMiss(w).size + Bytes(Is(w, "GAMEOBJECT_CAST_FLAGS_POWER_UPDATE"), 4)
         + Bytes(Is(w, "GAMEOBJECT_CAST_FLAGS_RUNE_UPDATE"), 8)
         + Bytes(Is(w, "GAMEOBJECT_CAST_FLAGS_ADJUST_MISSILE"), 8)
         + Bytes(Is(w, "GAMEOBJECT_CAST_FLAGS_AMMO"), 8)
         + Bytes(Is(w, "GAMEOBJECT_CAST_FLAGS_VISUAL_CHAIN"), 8)
         + Bytes(Is(w, "GAMEOBJECT_CAST_FLAGS_DEST_LOCATION"), 1))]]

wrath_FromSmsgSpellFailure ==
  [SMSG_SPELL_FAILURE |-> PlainSmsg(<<8, 1, 4, 1>>, 8 + 1 + 4 + 1, 14),
   SMSG_SPELL_COOLDOWN |-> [w \in OfCount |->
     Smsg(Counted(9, Ints(<<8, 1>>)) \o Endless(w.count, wrath_SpellCooldownStatus.read, 8),
          8 + 1 + w.count * wrath_SpellCooldownStatus.written, 9 + 8 * w.count)],
   SMSG_COOLDOWN_EVENT |-> PlainSmsg(<<4, 8>>, 4 + 8, 12),
   CMSG_CANCEL_AURA |-> PlainCmsg(<<4>>, 4, 4)]

wrath_FromSmsgPetCastFailed ==
  [SMSG_PET_CAST_FAILED |-> wrath_FromSmsgCastFailed.SMSG_CAST_FAILED]

wrath_FromMsgChannelStart ==
  [MSG_CHANNEL_START_Server |-> [w \in OfLength |->
     Smsg(
       PackedGuid(w) \o Ints(<<4, 4>>), write_packed_guid(w) + 2 * 4, 8 + wwm_packed_guid_size(w))],
   MSG_CHANNEL_UPDATE_Server |-> [w \in OfLength |->
     Smsg(PackedGuid(w) \o Ints(<<4>>), write_packed_guid(w) + 4, 4 + wwm_packed_guid_size(w))],
   CMSG_CANCEL_CHANNELLING |-> PlainCmsg(<<4>>, 4, 4),
   SMSG_AI_REACTION |-> PlainSmsg(<<8, 4>>, 8 + 4, 12),
   CMSG_SET_SELECTION |-> PlainCmsg(<<8>>, 8, 8)]

wrath_FromCmsgDeleteequipmentSet ==
  [CMSG_DELETEEQUIPMENT_SET |-> [w \in OfLength |->
     Cmsg(PackedGuid(w), write_packed_guid(w), wwm_packed_guid_size(w))],
   CMSG_INSTANCE_LOCK_RESPONSE |-> PlainCmsg(<<1>>, 1, 1),
   CMSG_ATTACKSWING |-> PlainCmsg(<<8>>, 8, 8),
   CMSG_ATTACKSTOP |-> EmptyCmsg(0),
   SMSG_ATTACKSTART |-> PlainSmsg(<<8, 8>>, 2 * 8, 16),
   SMSG_ATTACKSTOP |-> [w \in OfLength |->
     Smsg(PackedGuid(w) \o PackedGuid(w) \o Ints(<<4>>),
          2 * write_packed_guid(w) + 4, 4 + 2 * wwm_packed_guid_size(w))]]

wrath_FromSmsgAttackswingNotinrange ==
  [SMSG_ATTACKSWING_NOTINRANGE |-> EmptySmsg(0),
   SMSG_ATTACKSWING_BADFACING |-> EmptySmsg(0),
   SMSG_INSTANCE_LOCK_WARNING_QUERY |-> PlainSmsg(<<4, 4, 1>>, 2 * 4 + 1, 9),
   SMSG_ATTACKSWING_DEADTARGET |-> EmptySmsg(0),
   SMSG_ATTACKSWING_CANT_ATTACK |-> EmptySmsg(0)]

wrath_FromSmsgAttackerstateupdate ==
  [SMSG_ATTACKERSTATEUPDATE |->
     [w \in Wires(Lengths, Counts, {},
                  {"HIT_INFO_ALL_ABSORB", "HIT_INFO_ALL_RESIST", "HIT_INFO_BLOCK", "HIT_INFO_UNK19",
                   "HIT_INFO_UNK1"}) |->
       Smsg(
         Ints(<<4>>) \o PackedGuid(w) \o PackedGuid(w) \o Ints(<<4, 4, 1>>)
         \o Each(U8(w.count), wrath_DamageInfo.read)
         \o When(Is(w, "HIT_INFO_ALL_ABSORB"), Ints(<<4>>))
         \o When(Is(w, "HIT_INFO_ALL_RESIST"), Ints(<<4>>)) \o Ints(<<1, 4, 4>>)
         \o When(Is(w, "HIT_INFO_BLOCK"), Ints(<<4>>)) \o When(Is(w, "HIT_INFO_UNK19"), Ints(<<4>>))
         \o When(Is(w, "HIT_INFO_UNK1"), Ints(Repeat(12, 4))),
         4 + 2 * write_packed_guid(w) + 2 * 4 + 1 + w.count * wrath_DamageInfo.written
         + Bytes(Is(w, "HIT_INFO_ALL_ABSORB"), 4) + Bytes(Is(w, "HIT_INFO_ALL_RESIST"), 4) + 1
         + 2 * 4 + Bytes(Is(w, "HIT_INFO_BLOCK"), 4) + Bytes(Is(w, "HIT_INFO_UNK19"), 4)
         + Bytes(Is(w, "HIT_INFO_UNK1"), 12 * 4),
         22 + 2 * wwm_packed_guid_size(w) + 12 * w.count + Bytes(Is(w, "HIT_INFO_ALL_ABSORB"), 4)
         + Bytes(Is(w, "HIT_INFO_ALL_RESIST"), 4) + Bytes(Is(w, "HIT_INFO_BLOCK"), 4)
         + Bytes(Is(w, "HIT_INFO_UNK19"), 4) + Bytes(Is(w, "HIT_INFO_UNK1"), 48))]]

wrath_FromSmsgCancelCombat ==
  [SMSG_CANCEL_COMBAT |-> EmptySmsg(0),
   SMSG_SPELLHEALLOG |-> [w \in OfLength |->
     Smsg(PackedGuid(w) \o PackedGuid(w) \o Ints(<<4, 4, 4, 4, 1, 1>>),
          2 * write_packed_guid(w) + 4 * 4 + 2 * 1, 18 + 2 * wwm_packed_guid_size(w))],
   SMSG_SPELLENERGIZELOG |-> [w \in OfLength |->
     Smsg(PackedGuid(w) \o PackedGuid(w) \o Ints(<<4, 4, 4>>),
          2 * write_packed_guid(w) + 3 * 4, 12 + 2 * wwm_packed_guid_size(w))],
   SMSG_BREAK_TARGET |-> [w \in OfLength |->
     Smsg(PackedGuid(w), write_packed_guid(w), wwm_packed_guid_size(w))]]

wrath_FromSmsgBindpointupdate ==
  [SMSG_BINDPOINTUPDATE |-> [w \in {Fixed} |->
     Smsg(Vector3d.read \o Ints(<<4, 4>>), Vector3d.written + 2 * 4, 20)],
   SMSG_PLAYERBOUND |-> PlainSmsg(<<8, 4>>, 8 + 4, 12),
   SMSG_CLIENT_CONTROL_UPDATE |-> [w \in OfLength |->
     Smsg(PackedGuid(w) \o Ints(<<1>>), write_packed_guid(w) + 1, 1 + wwm_packed_guid_size(w))],
   CMSG_REPOP_REQUEST |-> EmptyCmsg(0),
   SMSG_RESURRECT_REQUEST |-> [w \in OfLength |->
     Smsg(
       Ints(<<8>>) \o SizedCstring(w) \o Ints(<<1>>), 8 + write_sized_cstring(w) + 1, 14 + w.len)]]

wrath_FromCmsgResurrectResponse ==
  [CMSG_RESURRECT_RESPONSE |-> PlainCmsg(<<8, 1>>, 8 + 1, 9),
   CMSG_LOOT |-> PlainCmsg(<<8>>, 8, 8),
   CMSG_LOOT_MONEY |-> EmptyCmsg(0),
   CMSG_LOOT_RELEASE |-> PlainCmsg(<<8>>, 8, 8),
   SMSG_LOOT_RESPONSE |->
     [w \in Wires({0}, Counts, {{"LootMethod::ERROR", "LootMethod::CORPSE"}}, {}) |->
       Smsg(
         Ints(<<8, 1>>) \o When(Is(w, "LootMethod::ERROR"), Ints(<<1>>)) \o Ints(<<4, 1>>)
         \o Each(U8(w.count), wrath_LootItem.read),
         8 + 1 + Bytes(Is(w, "LootMethod::ERROR"), 1) + 4 + 1 + w.count * wrath_LootItem.written,
         14 + 6 * w.count + Bytes(Is(w, "LootMethod::ERROR"), 1))]]

wrath_FromSmsgLootReleaseResponse ==
  [SMSG_LOOT_RELEASE_RESPONSE |-> PlainSmsg(<<8, 1>>, 8 + 1, 9),
   SMSG_LOOT_REMOVED |-> PlainSmsg(<<1>>, 1, 1),
   SMSG_LOOT_MONEY_NOTIFY |-> PlainSmsg(<<4, 1>>, 4 + 1, 5),
   SMSG_LOOT_CLEAR_MONEY |-> EmptySmsg(0)]

wrath_FromSmsgItemPushResult ==
  [SMSG_ITEM_PUSH_RESULT |->
     PlainSmsg(<<8, 4, 4, 4, 1>> \o Repeat(6, 4), 8 + 3 * 4 + 1 + 6 * 4, 45),
   SMSG_DUEL_REQUESTED |-> PlainSmsg(<<8, 8>>, 2 * 8, 16),
   SMSG_DUEL_OUTOFBOUNDS |-> EmptySmsg(0),
   SMSG_DUEL_INBOUNDS |-> EmptySmsg(0),
   SMSG_DUEL_COMPLETE |-> PlainSmsg(<<1>>, 1, 1)]

wrath_FromSmsgDuelWinner ==
  [SMSG_DUEL_WINNER |-> [w \in OfLength |->
     Smsg(Ints(<<1>>) \o Cstring(w) \o Cstring(w), 1 + 2 * write_cstring(w), 3 + 2 * w.len)],
   CMSG_DUEL_ACCEPTED |-> PlainCmsg(<<8>>, 8, 8),
   CMSG_DUEL_CANCELLED |-> PlainCmsg(<<8>>, 8, 8),
   SMSG_MOUNTRESULT |-> PlainSmsg(<<4>>, 4, 4),
   CMSG_MOUNTSPECIAL_ANIM |-> EmptyCmsg(0),
   SMSG_MOUNTSPECIAL_ANIM |-> PlainSmsg(<<8>>, 8, 8)]

wrath_FromSmsgPetTameFailure ==
  [SMSG_PET_TAME_FAILURE |-> PlainSmsg(<<1>>, 1, 1),
   CMSG_PET_SET_ACTION |-> [w \in Wires({0}, {0}, {}, {"extra"}) |->
     Cmsg(Counted(16, Ints(<<8, 4, 4>>)) \o Optional(Ints(<<4, 4>>)),
          8 + 2 * 4 + Bytes(Is(w, "extra"), 2 * 4), 16 + Bytes(Is(w, "extra"), 8))],
   CMSG_PET_ACTION |-> PlainCmsg(<<8, 4, 8>>, 8 + 4 + 8, 20),
   CMSG_PET_ABANDON |-> PlainCmsg(<<8>>, 8, 8)]

wrath_FromCmsgPetRename ==
  [CMSG_PET_RENAME |-> [w \in OfLength |->
     Cmsg(Ints(<<8>>) \o Cstring(w) \o Ints(<<1>>), 8 + write_cstring(w) + 1, 10 + w.len)],
   SMSG_PET_NAME_INVALID |->
     [w \in Wires(Lengths, {0},
                  {{"DeclinedPetNameIncluded::INCLUDED", "DeclinedPetNameIncluded::NOT_INCLUDED"}},
                  {}) |->
       Smsg(
         Ints(<<4>>) \o Cstring(w) \o Ints(<<1>>)
         \o When(Is(w, "DeclinedPetNameIncluded::INCLUDED"), Each(5, Cstring(w))),
         4 + write_cstring(w) + 1
         + Bytes(Is(w, "DeclinedPetNameIncluded::INCLUDED"), 5 * write_cstring(w)),
         6 + w.len + Bytes(Is(w, "DeclinedPetNameIncluded::INCLUDED"), 5 * (1 + w.len)))]]

wrath_FromSmsgPetSpells ==
  [SMSG_PET_SPELLS |-> [w \in Wires({0}, Counts, {}, {"action_bars"}) |->
     Smsg(
       Counted(8, Ints(<<8>>))
       \o Optional(Ints(<<2, 4, 1, 1, 1, 1>> \o Repeat(10, 4) \o <<1>> \o Repeat(U8(w.count), 4)
                        \o <<1>>) \o Each(U8(w.count), wrath_PetSpellCooldown.read)),
       8
       + Bytes(Is(w, "action_bars"),
               2 + 4 + 4 * 1 + 10 * 4 + 1 + w.count * 4 + 1
               + w.count * wrath_PetSpellCooldown.written),
       8 + Bytes(Is(w, "action_bars"), 52 + 4 * w.count + 14 * w.count))],
   SMSG_PET_MODE |-> PlainSmsg(<<8, 1, 1, 1, 1>>, 8 + 4 * 1, 12)]

wrath_FromCmsgGossipHello ==
  [CMSG_GOSSIP_HELLO |-> PlainCmsg(<<8>>, 8, 8),
   CMSG_GOSSIP_SELECT_OPTION |-> [w \in Wires(Lengths, {0}, {}, {"unknown"}) |->
     Cmsg(Counted(16, Ints(<<8, 4, 4>>)) \o Optional(Cstring(w)),
          8 + 2 * 4 + Bytes(Is(w, "unknown"), write_cstring(w)),
          16 + Bytes(Is(w, "unknown"), 1 + w.len))],
   SMSG_GOSSIP_MESSAGE |-> [w \in OfLengthAndCount |->
     Smsg(
       Ints(<<8, 4, 4, 4>>) \o Each(w.count, wrath_GossipItem(w).read) \o Ints(<<4>>)
       \o Each(w.count, wrath_QuestItem(w).read),
       8 + 3 * 4 + w.count * wrath_GossipItem(w).written + 4
       + w.count * wrath_QuestItem(w).written,
       24 + w.count * wrath_GossipItem(w).size + w.count * wrath_QuestItem(w).size)]]

wrath_FromSmsgGossipComplete ==
  [SMSG_GOSSIP_COMPLETE |-> EmptySmsg(0),
   CMSG_NPC_TEXT_QUERY |-> PlainCmsg(<<4, 8>>, 4 + 8, 12),
   SMSG_NPC_TEXT_UPDATE |-> [w \in OfLength |->
     Smsg(Ints(<<4>>) \o Each(8, wrath_NpcTextUpdate(w).read),
          4 + 8 * wrath_NpcTextUpdate(w).written, 4 + 8 * wrath_NpcTextUpdate(w).size)],
   CMSG_QUESTGIVER_STATUS_QUERY |-> PlainCmsg(<<8>>, 8, 8),
   SMSG_QUESTGIVER_STATUS |-> PlainSmsg(<<8, 4>>, 8 + 4, 12)]

wrath_FromCmsgQuestgiverHello ==
  [CMSG_QUESTGIVER_HELLO |-> PlainCmsg(<<8>>, 8, 8),
   SMSG_QUESTGIVER_QUEST_LIST |-> [w \in OfLengthAndCount |->
     Smsg(
       Ints(<<8>>) \o Cstring(w) \o Ints(<<4, 4, 1>>)
       \o Each(U8(w.count), wrath_QuestItem(w).read),
       8 + write_cstring(w) + 2 * 4 + 1 + w.count * wrath_QuestItem(w).written,
       18 + w.len + w.count * wrath_QuestItem(w).size)],
   CMSG_QUESTGIVER_QUERY_QUEST |-> PlainCmsg(<<8, 4, 1>>, 8 + 4 + 1, 13),
   CMSG_QUESTGIVER_QUEST_AUTOLAUNCH |-> EmptyCmsg(0)]

wrath_FromSmsgQuestgiverQuestDetails ==
  [SMSG_QUESTGIVER_QUEST_DETAILS |-> [w \in OfLengthAndCount |->
     Smsg(
       Ints(<<8, 8, 4>>) \o Cstring(w) \o Cstring(w) \o Cstring(w) \o Ints(<<1, 4, 4, 1, 4>>)
       \o Each(w.count, wrath_QuestGiverReward.read) \o Ints(<<4>>)
       \o Each(w.count, wrath_QuestGiverReward.read) \o Ints(Repeat(26, 4))
       \o Each(w.count, wrath_QuestDetailsEmote.read),
       2 * 8 + 4 + 3 * write_cstring(w) + 1 + 2 * 4 + 1 + 4
       + w.count * wrath_QuestGiverReward.written + 4 + w.count * wrath_QuestGiverReward.written
       + 10 * 4 + 3 * 5 * 4 + 4 + w.count * wrath_QuestDetailsEmote.written,
       145 + 3 * w.len + 12 * w.count + 12 * w.count + 8 * w.count)]]

wrath_FromCmsgQuestgiverAcceptQuest ==
  [CMSG_QUESTGIVER_ACCEPT_QUEST |-> PlainCmsg(<<8, 4>>, 8 + 4, 12),
   CMSG_QUESTGIVER_COMPLETE_QUEST |-> PlainCmsg(<<8, 4>>, 8 + 4, 12),
   SMSG_QUESTGIVER_REQUEST_ITEMS |-> [w \in OfLengthAndCount |->
     Smsg(
       Ints(<<8, 4>>) \o Cstring(w) \o Cstring(w) \o Ints(Repeat(7, 4))
       \o Each(w.count, wrath_QuestItemRequirement.read) \o Ints(<<4, 4, 4, 4>>),
       8 + 4 + 2 * write_cstring(w) + 7 * 4 + w.count * wrath_QuestItemRequirement.written + 4 * 4,
       58 + 2 * w.len + 12 * w.count)]]

wrath_FromCmsgQuestgiverRequestReward ==
  [CMSG_QUESTGIVER_REQUEST_REWARD |-> PlainCmsg(<<8, 4>>, 8 + 4, 12)]

wrath_LowGroups ==
  <<wrath_FromCmsgBootme, wrath_FromCmsgCharCreate, wrath_FromSmsgCharEnum,
    wrath_FromSmsgTransferPending, wrath_FromCmsgPlayerLogout, wrath_FromSmsgNameQueryResponse,
    wrath_FromSmsgPetNameQueryResponse, wrath_FromCmsgItemQuerySingle,
    wrath_FromSmsgItemQuerySingleResponse, wrath_FromCmsgPageTextQuery,
    wrath_FromSmsgQuestQueryResponse, wrath_FromCmsgGameobjectQuery,
    wrath_FromSmsgCreatureQueryResponse, wrath_FromCmsgWho, wrath_FromSmsgWhois,
    wrath_FromCmsgAddFriend, wrath_FromCmsgGroupInvite, wrath_FromSmsgGroupDecline,
    wrath_FromCmsgLootMethod, wrath_FromSmsgGroupList, wrath_FromSmsgPartyMemberStats,
    wrath_FromSmsgPartyCommandResult, wrath_FromSmsgGuildDecline, wrath_FromCmsgGuildPromote,
    wrath_FromCmsgGuildMotd, wrath_FromCmsgMessagechat, wrath_FromSmsgMessagechat,
    wrath_FromCmsgJoinChannel, wrath_FromCmsgChannelList, wrath_FromCmsgChannelOwner,
    wrath_FromCmsgChannelInvite, wrath_FromCmsgChannelModerate, wrath_FromCmsgUseItem,
    wrath_FromCmsgReadItem, wrath_FromCmsgAreatrigger, wrath_FromMsgMoveStop,
    wrath_FromMsgMoveStopStrafe, wrath_FromMsgMoveStartTurnRight,
    wrath_FromMsgMoveStartPitchDown, wrath_FromMsgMoveSetWalkMode, wrath_FromMsgMoveFallLand,
    wrath_FromMsgMoveSetFacing, wrath_FromSmsgMonsterMove, wrath_FromSmsgMoveWaterWalk,
    wrath_FromCmsgForceRunSpeedChangeAck, wrath_FromCmsgForceSwimSpeedChangeAck,
    wrath_FromCmsgForceMoveUnrootAck, wrath_FromSmsgMoveKnockBack, wrath_FromSmsgMoveFeatherFall,
    wrath_FromCmsgMoveHoverAck, wrath_FromSmsgTutorialFlags, wrath_FromCmsgTextEmote,
    wrath_FromCmsgSwapItem, wrath_FromCmsgDestroyitem, wrath_FromCmsgBeginTrade,
    wrath_FromCmsgSetTradeGold, wrath_FromSmsgInitializeFactions, wrath_FromSmsgSetProficiency,
    wrath_FromSmsgInitialSpells, wrath_FromCmsgCastSpell, wrath_FromSmsgCastFailed,
    wrath_FromSmsgSpellStart, wrath_FromSmsgSpellGo, wrath_FromSmsgSpellFailure,
    wrath_FromSmsgPetCastFailed, wrath_FromMsgChannelStart, wrath_FromCmsgDeleteequipmentSet,
    wrath_FromSmsgAttackswingNotinrange, wrath_FromSmsgAttackerstateupdate,
    wrath_FromSmsgCancelCombat, wrath_FromSmsgBindpointupdate, wrath_FromCmsgResurrectResponse,
    wrath_FromSmsgLootReleaseResponse, wrath_FromSmsgItemPushResult, wrath_FromSmsgDuelWinner,
    wrath_FromSmsgPetTameFailure, wrath_FromCmsgPetRename, wrath_FromSmsgPetSpells,
    wrath_FromCmsgGossipHello, wrath_FromSmsgGossipComplete, wrath_FromCmsgQuestgiverHello,
    wrath_FromSmsgQuestgiverQuestDetails, wrath_FromCmsgQuestgiverAcceptQuest,
    wrath_FromCmsgQuestgiverRequestReward>>
=============================================================================
