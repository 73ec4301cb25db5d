----------------------- MODULE CppVanillaMessagesLow -----------------------
(*****************************************************************************)
(* The messages of the 1.12 version of the world protocol from CMSG_BOOTME   *)
(* to SMSG_LIST_INVENTORY, in the order of                                   *)
(* src/wow_world_messages_cpp/src/vanilla.cpp.                               *)
(*                                                                           *)
(* A message is a function from its wires to records of what its functions   *)
(* do on them. Neighbours are defined together, in a record named for the    *)
(* first. A message of which every function does what that of an earlier     *)
(* message does is defined as that message.                                  *)
(*****************************************************************************)
EXTENDS CppVanillaStructs

vanilla_FromCmsgBootme ==
  [CMSG_BOOTME |-> EmptyCmsg(0),
   CMSG_DBLOOKUP |-> [w \in OfLength |->
     Cmsg(Cstring(w), write_cstring(w), 1 + w.len)],
   CMSG_WORLD_TELEPORT |-> [w \in {Fixed} |->
     Cmsg(Ints(<<4, 4>>) \o Vector3d.read \o Ints(<<4>>), 2 * 4 + Vector3d.written + 4, 24)],
   CMSG_TELEPORT_TO_UNIT |-> [w \in OfLength |->
     Cmsg(Cstring(w), write_cstring(w), 1 + w.len)]]

vanilla_FromCmsgCharCreate ==
  [CMSG_CHAR_CREATE |-> [w \in OfLength |->
     Cmsg(Cstring(w) \o Ints(Repeat(9, 1)), write_cstring(w) + 9 * 1, 10 + w.len)],
   CMSG_CHAR_ENUM |-> EmptyCmsg(0),
   CMSG_CHAR_DELETE |-> PlainCmsg(<<8>>, 8, 8),
   SMSG_CHAR_CREATE |-> PlainSmsg(<<1>>, 1, 1)]

vanilla_FromSmsgCharEnum ==
  [SMSG_CHAR_ENUM |-> [w \in OfLengthAndCount |->
     Smsg(Ints(<<1>>) \o Each(U8(w.count), vanilla_Character(w).read),
          1 + w.count * vanilla_Character(w).written, 1 + w.count * vanilla_Character(w).size)],
   SMSG_CHAR_DELETE |-> PlainSmsg(<<1>>, 1, 1),
   CMSG_PLAYER_LOGIN |-> PlainCmsg(<<8>>, 8, 8),
   SMSG_NEW_WORLD |-> [w \in {Fixed} |->
     Smsg(Ints(<<4>>) \o Vector3d.read \o Ints(<<4>>), 4 + Vector3d.written + 4, 20)]]

vanilla_FromSmsgTransferPending ==
  [SMSG_TRANSFER_PENDING |-> [w \in Wires({0}, {0}, {}, {"has_transport"}) |->
     Smsg(Counted(4, Ints(<<4>>)) \o Optional(Ints(<<4, 4>>)),
          4 + Bytes(Is(w, "has_transport"), 2 * 4), 4 + Bytes(Is(w, "has_transport"), 8))],
   SMSG_TRANSFER_ABORTED |-> PlainSmsg(<<4, 1, 1>>, 4 + 2 * 1, 6),
   SMSG_CHARACTER_LOGIN_FAILED |-> PlainSmsg(<<1>>, 1, 1),
   SMSG_LOGIN_SETTIMESPEED |-> PlainSmsg(<<4, 4>>, 2 * 4, 8),
   CMSG_PLAYER_LOGOUT |-> EmptyCmsg(0)]

vanilla_FromCmsgLogoutRequest ==
  [CMSG_LOGOUT_REQUEST |-> EmptyCmsg(0),
   SMSG_LOGOUT_RESPONSE |-> PlainSmsg(<<4, 1>>, 4 + 1, 5),
   SMSG_LOGOUT_COMPLETE |-> EmptySmsg(0),
   CMSG_LOGOUT_CANCEL |-> EmptyCmsg(0),
   SMSG_LOGOUT_CANCEL_ACK |-> EmptySmsg(0),
   CMSG_NAME_QUERY |-> PlainCmsg(<<8>>, 8, 8),
   SMSG_NAME_QUERY_RESPONSE |-> [w \in OfLength |->
     Smsg(Ints(<<8>>) \o Cstring(w) \o Cstring(w) \o Ints(<<4, 4, 4>>),
          8 + 2 * write_cstring(w) + 3 * 4, 22 + 2 * w.len)]]

vanilla_FromCmsgPetNameQuery ==
  [CMSG_PET_NAME_QUERY |-> PlainCmsg(<<4, 8>>, 4 + 8, 12),
   SMSG_PET_NAME_QUERY_RESPONSE |-> [w \in OfLength |->
     Smsg(Ints(<<4>>) \o Cstring(w) \o Ints(<<4>>), 4 + write_cstring(w) + 4, 9 + w.len)],
   CMSG_GUILD_QUERY |-> PlainCmsg(<<4>>, 4, 4),
   SMSG_GUILD_QUERY_RESPONSE |-> [w \in OfLength |->
     Smsg(Ints(<<4>>) \o Cstring(w) \o Each(10, Cstring(w)) \o Ints(Repeat(5, 4)),
          4 + write_cstring(w) + 10 * write_cstring(w) + 5 * 4, 25 + w.len + 10 * (1 + w.len))]]

vanilla_FromCmsgItemQuerySingle ==
  [CMSG_ITEM_QUERY_SINGLE |-> PlainCmsg(<<4, 8>>, 4 + 8, 12)]

vanilla_FromSmsgItemQuerySingleResponse ==
  [SMSG_ITEM_QUERY_SINGLE_RESPONSE |-> [w \in Wires(Lengths, {0}, {}, {"found"}) |->
     Smsg(
       Counted(4, Ints(<<4>>))
       \o Optional(
            Ints(<<8>>) \o Cstring(w) \o Cstring(w) \o Cstring(w) \o Cstring(w)
            \o Ints(Repeat(20, 4)) \o Each(10, vanilla_ItemStat.read)
            \o Each(5, vanilla_ItemDamageType.read) \o Ints(Repeat(10, 4))
            \o Each(5, vanilla_ItemSpells.read) \o Ints(<<4>>) \o Cstring(w)
            \o Ints(Repeat(14, 4))),
       4
       + Bytes(
           Is(w, "found"),
           8 + 4 * write_cstring(w) + 20 * 4 + 10 * vanilla_ItemStat.written
           + 5 * vanilla_ItemDamageType.written + 10 * 4 + 5 * vanilla_ItemSpells.written + 4
           + write_cstring(w) + 14 * 4), 4 + Bytes(Is(w, "found"), 453 + 5 * w.len))]]

vanilla_FromCmsgPageTextQuery ==
  [CMSG_PAGE_TEXT_QUERY |-> PlainCmsg(<<4>>, 4, 4),
   SMSG_PAGE_TEXT_QUERY_RESPONSE |-> [w \in OfLength |->
     Smsg(Ints(<<4>>) \o Cstring(w) \o Ints(<<4>>), 4 + write_cstring(w) + 4, 9 + w.len)],
   CMSG_QUEST_QUERY |-> PlainCmsg(<<4>>, 4, 4)]

vanilla_FromSmsgQuestQueryResponse ==
  [SMSG_QUEST_QUERY_RESPONSE |-> [w \in OfLength |->
     Smsg(
       Ints(Repeat(5, 4) \o <<2, 4, 2>> \o Repeat(7, 4)) \o Each(4, vanilla_QuestItemReward.read)
       \o Each(6, vanilla_QuestItemReward.read) \o Ints(<<4>>) \o Vector2d.read \o Ints(<<4>>)
       \o Cstring(w) \o Cstring(w) \o Cstring(w) \o Cstring(w)
       \o Each(4, vanilla_QuestObjective.read) \o Each(4, Cstring(w)),
       5 * 4 + 2 + 4 + 2 + 7 * 4 + 4 * vanilla_QuestItemReward.written
       + 6 * vanilla_QuestItemReward.written + 4 + Vector2d.written + 4 + 4 * write_cstring(w)
       + 4 * vanilla_QuestObjective.written + 4 * write_cstring(w),
       220 + 4 * w.len + 4 * (1 + w.len))]]

vanilla_FromCmsgGameobjectQuery ==
  [CMSG_GAMEOBJECT_QUERY |-> PlainCmsg(<<4, 8>>, 4 + 8, 12),
   SMSG_GAMEOBJECT_QUERY_RESPONSE |-> [w \in Wires(Lengths, {0}, {}, {"found"}) |->
     Smsg(
       Counted(4, Ints(<<4>>))
       \o Optional(Ints(<<4, 4>>) \o Cstring(w) \o Cstring(w) \o Cstring(w) \o Cstring(w)
                   \o Cstring(w) \o Ints(Repeat(6, 4))),
       4 + Bytes(Is(w, "found"), 2 * 4 + 5 * write_cstring(w) + 6 * 4),
       4 + Bytes(Is(w, "found"), 37 + 5 * w.len))],
   CMSG_CREATURE_QUERY |-> PlainCmsg(<<4, 8>>, 4 + 8, 12)]

vanilla_FromSmsgCreatureQueryResponse ==
  [SMSG_CREATURE_QUERY_RESPONSE |-> [w \in Wires(Lengths, {0}, {}, {"found"}) |->
     Smsg(
       Counted(4, Ints(<<4>>))
       \o Optional(Cstring(w) \o Cstring(w) \o Cstring(w) \o Cstring(w) \o Cstring(w)
                   \o Ints(Repeat(7, 4) \o <<1, 1>>)),
       4 + Bytes(Is(w, "found"), 5 * write_cstring(w) + 7 * 4 + 2 * 1),
       4 + Bytes(Is(w, "found"), 35 + 5 * w.len))]]

vanilla_FromCmsgWho ==
  [CMSG_WHO |-> [w \in OfLengthAndCount |->
     Cmsg(
       Ints(<<4, 4>>) \o Cstring(w) \o Cstring(w)
       \o Ints(<<4, 4, 4>> \o Repeat(w.count, 4) \o <<4>>) \o Each(w.count, Cstring(w)),
       2 * 4 + 2 * write_cstring(w) + 3 * 4 + w.count * 4 + 4 + w.count * write_cstring(w),
       26 + 2 * w.len + 4 * w.count + w.count * (1 + w.len))],
   SMSG_WHO |-> [w \in OfLengthAndCount |->
     Smsg(Ints(<<4, 4>>) \o Each(w.count, vanilla_WhoPlayer(w).read),
          2 * 4 + w.count * vanilla_WhoPlayer(w).written, 8 + w.count * vanilla_WhoPlayer(w).size)],
   CMSG_WHOIS |-> [w \in OfLength |->
     Cmsg(Cstring(w), write_cstring(w), 1 + w.len)]]

vanilla_FromSmsgWhois ==
  [SMSG_WHOIS |-> [w \in OfLength |->
     Smsg(Cstring(w), write_cstring(w), 1 + w.len)],
   CMSG_FRIEND_LIST |-> EmptyCmsg(0),
   SMSG_FRIEND_LIST |->
     [w \in Wires({0}, Counts, {{"FriendStatus::ONLINE", "FriendStatus::OFFLINE"}}, {}) |->
       Smsg(Ints(<<1>>) \o Each(U8(w.count), vanilla_Friend(w).read),
            1 + w.count * vanilla_Friend(w).written, 1 + w.count * vanilla_Friend(w).size)],
   SMSG_FRIEND_STATUS |-> PlainSmsg(<<1, 8>>, 1 + 8, 9),
   CMSG_ADD_FRIEND |-> [w \in OfLength |->
     Cmsg(Cstring(w), write_cstring(w), 1 + w.len)]]

vanilla_FromCmsgDelFriend ==
  [CMSG_DEL_FRIEND |-> PlainCmsg(<<8>>, 8, 8),
   SMSG_IGNORE_LIST |-> [w \in OfCount |->
     Smsg(Ints(<<1>> \o Repeat(U8(w.count), 8)), 1 + w.count * 8, 1 + 8 * w.count)],
   CMSG_ADD_IGNORE |-> [w \in OfLength |->
     Cmsg(Cstring(w), write_cstring(w), 1 + w.len)],
   CMSG_DEL_IGNORE |-> PlainCmsg(<<8>>, 8, 8),
   CMSG_GROUP_INVITE |-> [w \in OfLength |->
     Cmsg(Cstring(w), write_cstring(w), 1 + w.len)]]

vanilla_FromSmsgGroupInvite ==
  [SMSG_GROUP_INVITE |-> [w \in OfLength |->
     Smsg(Cstring(w), write_cstring(w), 1 + w.len)],
   CMSG_GROUP_ACCEPT |-> EmptyCmsg(0),
   CMSG_GROUP_DECLINE |-> EmptyCmsg(0),
   SMSG_GROUP_DECLINE |-> [w \in OfLength |->
     Smsg(Cstring(w), write_cstring(w), 1 + w.len)],
   CMSG_GROUP_UNINVITE |-> [w \in OfLength |->
     Cmsg(Cstring(w), write_cstring(w), 1 + w.len)],
   CMSG_GROUP_UNINVITE_GUID |-> PlainCmsg(<<8>>, 8, 8),
   SMSG_GROUP_UNINVITE |-> EmptySmsg(0)]

vanilla_FromCmsgGroupSetLeader ==
  [CMSG_GROUP_SET_LEADER |-> PlainCmsg(<<8>>, 8, 8),
   SMSG_GROUP_SET_LEADER |-> [w \in OfLength |->
     Smsg(Cstring(w), write_cstring(w), 1 + w.len)],
   CMSG_LOOT_METHOD |-> PlainCmsg(<<4, 8, 4>>, 4 + 8 + 4, 16),
   CMSG_GROUP_DISBAND |-> EmptyCmsg(0),
   SMSG_GROUP_DESTROYED |-> EmptySmsg(0)]

vanilla_FromSmsgGroupList ==
  [SMSG_GROUP_LIST |-> [w \in Wires(Lengths, Counts, {}, {"group_not_empty"}) |->
     Smsg(
       Counted(14 + w.count * vanilla_GroupListMember(w).size,
               Ints(<<1, 1, 4>>) \o Each(w.count, vanilla_GroupListMember(w).read) \o Ints(<<8>>))
       \o Optional(Ints(<<1, 8, 1>>)),
       2 * 1 + 4 + w.count * vanilla_GroupListMember(w).written + 8
       + Bytes(Is(w, "group_not_empty"), 1 + 8 + 1),
       14 + w.count * vanilla_GroupListMember(w).size + Bytes(Is(w, "group_not_empty"), 10))]]

vanilla_FromSmsgPartyMemberStats ==
  [SMSG_PARTY_MEMBER_STATS |->
     [w \in Wires(
              Lengths, {0}, {},
              {"GROUP_UPDATE_FLAGS_STATUS", "GROUP_UPDATE_FLAGS_CUR_HP", "GROUP_UPDATE_FLAGS_MAX_HP",
               "GROUP_UPDATE_FLAGS_POWER_TYPE", "GROUP_UPDATE_FLAGS_CUR_POWER",
               "GROUP_UPDATE_FLAGS_MAX_POWER", "GROUP_UPDATE_FLAGS_LEVEL", "GROUP_UPDATE_FLAGS_ZONE",
               "GROUP_UPDATE_FLAGS_POSITION", "GROUP_UPDATE_FLAGS_AURAS",
               "GROUP_UPDATE_FLAGS_AURAS_2", "GROUP_UPDATE_FLAGS_PET_GUID",
               "GROUP_UPDATE_FLAGS_PET_NAME", "GROUP_UPDATE_FLAGS_PET_MODEL_ID",
               "GROUP_UPDATE_FLAGS_PET_CUR_HP", "GROUP_UPDATE_FLAGS_PET_MAX_HP",
               "GROUP_UPDATE_FLAGS_PET_POWER_TYPE", "GROUP_UPDATE_FLAGS_PET_CUR_POWER",
               "GROUP_UPDATE_FLAGS_PET_MAX_POWER", "GROUP_UPDATE_FLAGS_PET_AURAS"}) |->
       Smsg(
         PackedGuid(w) \o Ints(<<4>>) \o When(Is(w, "GROUP_UPDATE_FLAGS_STATUS"), Ints(<<1>>))
         \o When(Is(w, "GROUP_UPDATE_FLAGS_CUR_HP"), Ints(<<2>>))
         \o When(Is(w, "GROUP_UPDATE_FLAGS_MAX_HP"), Ints(<<2>>))
         \o When(Is(w, "GROUP_UPDATE_FLAGS_POWER_TYPE"), Ints(<<1>>))
         \o When(Is(w, "GROUP_UPDATE_FLAGS_CUR_POWER"), Ints(<<2>>))
         \o When(Is(w, "GROUP_UPDATE_FLAGS_MAX_POWER"), Ints(<<2>>))
         \o When(Is(w, "GROUP_UPDATE_FLAGS_LEVEL"), Ints(<<2>>))
         \o When(Is(w, "GROUP_UPDATE_FLAGS_ZONE"), Ints(<<4>>))
         \o When(Is(w, "GROUP_UPDATE_FLAGS_POSITION"), Ints(<<2, 2>>))
         \o When(Is(w, "GROUP_UPDATE_FLAGS_AURAS"), vanilla_aura_mask(w))
         \o When(Is(w, "GROUP_UPDATE_FLAGS_AURAS_2"), vanilla_aura_mask(w))
         \o When(Is(w, "GROUP_UPDATE_FLAGS_PET_GUID"), Ints(<<8>>))
         \o When(Is(w, "GROUP_UPDATE_FLAGS_PET_NAME"), Cstring(w))
         \o When(Is(w, "GROUP_UPDATE_FLAGS_PET_MODEL_ID"), Ints(<<2>>))
         \o When(Is(w, "GROUP_UPDATE_FLAGS_PET_CUR_HP"), Ints(<<2>>))
         \o When(Is(w, "GROUP_UPDATE_FLAGS_PET_MAX_HP"), Ints(<<2>>))
         \o When(Is(w, "GROUP_UPDATE_FLAGS_PET_POWER_TYPE"), Ints(<<1>>))
         \o When(Is(w, "GROUP_UPDATE_FLAGS_PET_CUR_POWER"), Ints(<<2>>))
         \o When(Is(w, "GROUP_UPDATE_FLAGS_PET_MAX_POWER"), Ints(<<2>>))
         \o When(Is(w, "GROUP_UPDATE_FLAGS_PET_AURAS"), vanilla_aura_mask(w)),
         write_packed_guid(w) + 4 + Bytes(Is(w, "GROUP_UPDATE_FLAGS_STATUS"), 1)
         + Bytes(Is(w, "GROUP_UPDATE_FLAGS_CUR_HP"), 2)
         + Bytes(Is(w, "GROUP_UPDATE_FLAGS_MAX_HP"), 2)
         + Bytes(Is(w, "GROUP_UPDATE_FLAGS_POWER_TYPE"), 1)
         + Bytes(Is(w, "GROUP_UPDATE_FLAGS_CUR_POWER"), 2)
         + Bytes(Is(w, "GROUP_UPDATE_FLAGS_MAX_POWER"), 2)
         + Bytes(Is(w, "GROUP_UPDATE_FLAGS_LEVEL"), 2) + Bytes(Is(w, "GROUP_UPDATE_FLAGS_ZONE"), 4)
         + Bytes(Is(w, "GROUP_UPDATE_FLAGS_POSITION"), 2 * 2)
         + Bytes(Is(w, "GROUP_UPDATE_FLAGS_AURAS"), vanilla_aura_mask_written(w))
         + Bytes(Is(w, "GROUP_UPDATE_FLAGS_AURAS_2"), vanilla_aura_mask_written(w))
         + Bytes(Is(w, "GROUP_UPDATE_FLAGS_PET_GUID"), 8)
         + Bytes(Is(w, "GROUP_UPDATE_FLAGS_PET_NAME"), write_cstring(w))
         + Bytes(Is(w, "GROUP_UPDATE_FLAGS_PET_MODEL_ID"), 2)
         + Bytes(Is(w, "GROUP_UPDATE_FLAGS_PET_CUR_HP"), 2)
         + Bytes(Is(w, "GROUP_UPDATE_FLAGS_PET_MAX_HP"), 2)
         + Bytes(Is(w, "GROUP_UPDATE_FLAGS_PET_POWER_TYPE"), 1)
         + Bytes(Is(w, "GROUP_UPDATE_FLAGS_PET_CUR_POWER"), 2)
         + Bytes(Is(w, "GROUP_UPDATE_FLAGS_PET_MAX_POWER"), 2)
         + Bytes(Is(w, "GROUP_UPDATE_FLAGS_PET_AURAS"), vanilla_aura_mask_written(w)),
         4 + wwm_packed_guid_size(w) + Bytes(Is(w, "GROUP_UPDATE_FLAGS_STATUS"), 1)
         + Bytes(Is(w, "GROUP_UPDATE_FLAGS_CUR_HP"), 2)
         + Bytes(Is(w, "GROUP_UPDATE_FLAGS_MAX_HP"), 2)
         + Bytes(Is(w, "GROUP_UPDATE_FLAGS_POWER_TYPE"), 1)
         + Bytes(Is(w, "GROUP_UPDATE_FLAGS_CUR_POWER"), 2)
         + Bytes(Is(w, "GROUP_UPDATE_FLAGS_MAX_POWER"), 2)
         + Bytes(Is(w, "GROUP_UPDATE_FLAGS_LEVEL"), 2) + Bytes(Is(w, "GROUP_UPDATE_FLAGS_ZONE"), 4)
         + Bytes(Is(w, "GROUP_UPDATE_FLAGS_POSITION"), 4)
         + Bytes(Is(w, "GROUP_UPDATE_FLAGS_AURAS"), vanilla_aura_mask_size(w))
         + Bytes(Is(w, "GROUP_UPDATE_FLAGS_AURAS_2"), vanilla_aura_mask_size(w))
         + Bytes(Is(w, "GROUP_UPDATE_FLAGS_PET_GUID"), 8)
         + Bytes(Is(w, "GROUP_UPDATE_FLAGS_PET_NAME"), 1 + w.len)
         + Bytes(Is(w, "GROUP_UPDATE_FLAGS_PET_MODEL_ID"), 2)
         + Bytes(Is(w, "GROUP_UPDATE_FLAGS_PET_CUR_HP"), 2)
         + Bytes(Is(w, "GROUP_UPDATE_FLAGS_PET_MAX_HP"), 2)
         + Bytes(Is(w, "GROUP_UPDATE_FLAGS_PET_POWER_TYPE"), 1)
         + Bytes(Is(w, "GROUP_UPDATE_FLAGS_PET_CUR_POWER"), 2)
         + Bytes(Is(w, "GROUP_UPDATE_FLAGS_PET_MAX_POWER"), 2)
         + Bytes(Is(w, "GROUP_UPDATE_FLAGS_PET_AURAS"), vanilla_aura_mask_size(w)))]]

vanilla_FromSmsgPartyCommandResult ==
  [SMSG_PARTY_COMMAND_RESULT |-> [w \in OfLength |->
     Smsg(Ints(<<4>>) \o Cstring(w) \o Ints(<<4>>), 4 + write_cstring(w) + 4, 9 + w.len)],
   CMSG_GUILD_CREATE |-> [w \in OfLength |->
     Cmsg(Cstring(w), write_cstring(w), 1 + w.len)],
   CMSG_GUILD_INVITE |-> [w \in OfLength |->
     Cmsg(Cstring(w), write_cstring(w), 1 + w.len)],
   SMSG_GUILD_INVITE |-> [w \in OfLength |->
     Smsg(Cstring(w) \o Cstring(w), 2 * write_cstring(w), 2 + 2 * w.len)],
   CMSG_GUILD_ACCEPT |-> EmptyCmsg(0),
   CMSG_GUILD_DECLINE |-> EmptyCmsg(0)]

vanilla_FromCmsgGuildInfo ==
  [CMSG_GUILD_INFO |-> EmptyCmsg(0),
   SMSG_GUILD_INFO |-> [w \in OfLength |->
     Smsg(Cstring(w) \o Ints(Repeat(5, 4)), write_cstring(w) + 5 * 4, 21 + w.len)],
   CMSG_GUILD_ROSTER |-> EmptyCmsg(0),
   SMSG_GUILD_ROSTER |->
     [w \in Wires(
              Lengths, Counts, {{"GuildMemberStatus::OFFLINE", "GuildMemberStatus::ONLINE"}}, {}) |->
       Smsg(
         Ints(<<4>>) \o Cstring(w) \o Cstring(w) \o Ints(<<4>> \o Repeat(w.count, 4))
         \o Each(w.count, vanilla_GuildMember(w).read),
         4 + 2 * write_cstring(w) + 4 + w.count * 4 + w.count * vanilla_GuildMember(w).written,
         10 + 2 * w.len + 4 * w.count + w.count * vanilla_GuildMember(w).size)]]

vanilla_FromCmsgGuildPromote ==
  [CMSG_GUILD_PROMOTE |-> [w \in OfLength |->
     Cmsg(Cstring(w), write_cstring(w), 1 + w.len)],
   CMSG_GUILD_DEMOTE |-> [w \in OfLength |->
     Cmsg(Cstring(w), write_cstring(w), 1 + w.len)],
   CMSG_GUILD_LEAVE |-> EmptyCmsg(0),
   CMSG_GUILD_REMOVE |-> [w \in OfLength |->
     Cmsg(Cstring(w), write_cstring(w), 1 + w.len)],
   CMSG_GUILD_DISBAND |-> EmptyCmsg(0),
   CMSG_GUILD_LEADER |-> [w \in OfLength |->
     Cmsg(Cstring(w), write_cstring(w), 1 + w.len)]]

vanilla_FromCmsgGuildMotd ==
  [CMSG_GUILD_MOTD |-> [w \in OfLength |->
     Cmsg(Cstring(w), write_cstring(w), 1 + w.len)],
   SMSG_GUILD_EVENT |-> [w \in OfLengthAndCount |->
     Smsg(Ints(<<1, 1>>) \o Each(U8(w.count), Cstring(w)),
          2 * 1 + w.count * write_cstring(w), 2 + w.count * (1 + w.len))],
   SMSG_GUILD_COMMAND_RESULT |-> [w \in OfLength |->
     Smsg(Ints(<<4>>) \o Cstring(w) \o Ints(<<4>>), 4 + write_cstring(w) + 4, 9 + w.len)]]

vanilla_FromCmsgMessagechat ==
  [CMSG_MESSAGECHAT |->
     [w \in Wires(
              Lengths, {0}, {{"ChatType::WHISPER", "ChatType::CHANNEL", "ChatType::SAY"}}, {}) |->
       Cmsg(
         Ints(<<4, 4>>) \o When(Is(w, "ChatType::WHISPER"), Cstring(w))
         \o When(Is(w, "ChatType::CHANNEL"), Cstring(w)) \o Cstring(w),
         2 * 4 + Bytes(Is(w, "ChatType::WHISPER"), write_cstring(w))
         + Bytes(Is(w, "ChatType::CHANNEL"), write_cstring(w)) + write_cstring(w),
         9 + w.len + Bytes(Is(w, "ChatType::WHISPER"), 1 + w.len)
         + Bytes(Is(w, "ChatType::CHANNEL"), 1 + w.len))]]

vanilla_FromSmsgMessagechat ==
  [SMSG_MESSAGECHAT |->
     [w \in Wires(Lengths, {0},
                  {{"ChatType::MONSTER_WHISPER", "ChatType::SAY", "ChatType::MONSTER_SAY",
                    "ChatType::CHANNEL", "ChatType::RAID"}}, {}) |->
       Smsg(
         Ints(<<1, 4>>) \o When(Is(w, "ChatType::MONSTER_WHISPER"), SizedCstring(w) \o Ints(<<8>>))
         \o When(Is(w, "ChatType::SAY"), Ints(<<8, 8>>))
         \o When(Is(w, "ChatType::MONSTER_SAY"), Ints(<<8>>) \o SizedCstring(w) \o Ints(<<8>>))
         \o When(Is(w, "ChatType::CHANNEL"), Cstring(w) \o Ints(<<4, 8>>))
         \o When(Is(w, "ChatType::RAID"), Ints(<<8>>)) \o SizedCstring(w) \o Ints(<<1>>),
         1 + 4 + Bytes(Is(w, "ChatType::MONSTER_WHISPER"), write_sized_cstring(w) + 8)
         + Bytes(Is(w, "ChatType::SAY"), 2 * 8)
         + Bytes(Is(w, "ChatType::MONSTER_SAY"), 8 + write_sized_cstring(w) + 8)
         + Bytes(Is(w, "ChatType::CHANNEL"), write_cstring(w) + 4 + 8)
         + Bytes(Is(w, "ChatType::RAID"), 8) + write_sized_cstring(w) + 1,
         11 + w.len + Bytes(Is(w, "ChatType::MONSTER_WHISPER"), 13 + w.len)
         + Bytes(Is(w, "ChatType::SAY"), 16) + Bytes(Is(w, "ChatType::MONSTER_SAY"), 21 + w.len)
         + Bytes(Is(w, "ChatType::CHANNEL"), 13 + w.len) + Bytes(Is(w, "ChatType::RAID"), 8))]]

vanilla_FromCmsgJoinChannel ==
  [CMSG_JOIN_CHANNEL |-> [w \in OfLength |->
     Cmsg(Cstring(w) \o Cstring(w), 2 * write_cstring(w), 2 + 2 * w.len)],
   CMSG_LEAVE_CHANNEL |-> [w \in OfLength |->
     Cmsg(Cstring(w), write_cstring(w), 1 + w.len)],
   SMSG_CHANNEL_NOTIFY |-> [w \in OfLength |->
     Smsg(Ints(<<1>>) \o Cstring(w), 1 + write_cstring(w), 2 + w.len)],
   CMSG_CHANNEL_LIST |-> [w \in OfLength |->
     Cmsg(Cstring(w), write_cstring(w), 1 + w.len)]]

vanilla_FromSmsgChannelList ==
  [SMSG_CHANNEL_LIST |-> [w \in OfLengthAndCount |->
     Smsg(Cstring(w) \o Ints(<<1, 4>>) \o Each(w.count, vanilla_ChannelMember.read),
          write_cstring(w) + 1 + 4 + w.count * vanilla_ChannelMember.written,
          6 + w.len + 9 * w.count)],
   CMSG_CHANNEL_PASSWORD |-> [w \in OfLength |->
     Cmsg(Cstring(w) \o Cstring(w), 2 * write_cstring(w), 2 + 2 * w.len)],
   CMSG_CHANNEL_SET_OWNER |-> [w \in OfLength |->
     Cmsg(Cstring(w) \o Cstring(w), 2 * write_cstring(w), 2 + 2 * w.len)],
   CMSG_CHANNEL_OWNER |-> [w \in OfLength |->
     Cmsg(Cstring(w), write_cstring(w), 1 + w.len)]]

vanilla_FromCmsgChannelModerator ==
  [CMSG_CHANNEL_MODERATOR |-> [w \in OfLength |->
     Cmsg(Cstring(w) \o Cstring(w), 2 * write_cstring(w), 2 + 2 * w.len)],
   CMSG_CHANNEL_UNMODERATOR |-> [w \in OfLength |->
     Cmsg(Cstring(w) \o Cstring(w), 2 * write_cstring(w), 2 + 2 * w.len)],
   CMSG_CHANNEL_MUTE |-> [w \in OfLength |->
     Cmsg(Cstring(w) \o Cstring(w), 2 * write_cstring(w), 2 + 2 * w.len)],
   CMSG_CHANNEL_UNMUTE |-> [w \in OfLength |->
     Cmsg(Cstring(w) \o Cstring(w), 2 * write_cstring(w), 2 + 2 * w.len)]]

vanilla_FromCmsgChannelInvite ==
  [CMSG_CHANNEL_INVITE |-> [w \in OfLength |->
     Cmsg(Cstring(w) \o Cstring(w), 2 * write_cstring(w), 2 + 2 * w.len)],
   CMSG_CHANNEL_KICK |-> [w \in OfLength |->
     Cmsg(Cstring(w) \o Cstring(w), 2 * write_cstring(w), 2 + 2 * w.len)],
   CMSG_CHANNEL_BAN |-> [w \in OfLength |->
     Cmsg(Cstring(w) \o Cstring(w), 2 * write_cstring(w), 2 + 2 * w.len)],
   CMSG_CHANNEL_UNBAN |-> [w \in OfLength |->
     Cmsg(Cstring(w) \o Cstring(w), 2 * write_cstring(w), 2 + 2 * w.len)],
   CMSG_CHANNEL_ANNOUNCEMENTS |-> [w \in OfLength |->
     Cmsg(Cstring(w), write_cstring(w), 1 + w.len)]]

vanilla_FromCmsgChannelModerate ==
  [CMSG_CHANNEL_MODERATE |-> [w \in OfLength |->
     Cmsg(Cstring(w), write_cstring(w), 1 + w.len)],
   SMSG_UPDATE_OBJECT |->
     [w \in Wires(Lengths, UpdatedObjects, vanilla_ObjectEnums, vanilla_ObjectFlags) |->
       Smsg(Ints(<<4, 1>>) \o Each(w.count, vanilla_Object(w).read),
            4 + 1 + w.count * vanilla_Object(w).written, 5 + w.count * vanilla_Object(w).size)],
   SMSG_DESTROY_OBJECT |-> PlainSmsg(<<8>>, 8, 8),
   CMSG_USE_ITEM |-> [w \in Wires(Lengths, {0}, {}, vanilla_SpellCastTargetsFlags) |->
     Cmsg(Ints(<<1, 1, 1>>) \o vanilla_SpellCastTargets(w).read,
          3 * 1 + vanilla_SpellCastTargets(w).written, 3 + vanilla_SpellCastTargets(w).size)]]

vanilla_FromCmsgOpenItem ==
  [CMSG_OPEN_ITEM |-> PlainCmsg(<<1, 1>>, 2 * 1, 2),
   CMSG_READ_ITEM |-> PlainCmsg(<<1, 1>>, 2 * 1, 2),
   SMSG_READ_ITEM_OK |-> PlainSmsg(<<8>>, 8, 8),
   SMSG_READ_ITEM_FAILED |-> PlainSmsg(<<8>>, 8, 8),
   SMSG_ITEM_COOLDOWN |-> PlainSmsg(<<8, 4>>, 8 + 4, 12),
   CMSG_GAMEOBJ_USE |-> PlainCmsg(<<8>>, 8, 8)]

vanilla_FromSmsgGameobjectCustomAnim ==
  [SMSG_GAMEOBJECT_CUSTOM_ANIM |-> PlainSmsg(<<8, 4>>, 8 + 4, 12),
   CMSG_AREATRIGGER |-> PlainCmsg(<<4>>, 4, 4),
   MSG_MOVE_START_FORWARD_Client |-> [w \in Wires(Lengths, {0}, {}, vanilla_MovementInfoFlags) |->
     Cmsg(vanilla_MovementInfo(w).read,
          vanilla_MovementInfo(w).written, vanilla_MovementInfo(w).size)],
   MSG_MOVE_START_FORWARD_Server |-> [w \in Wires(Lengths, {0}, {}, vanilla_MovementInfoFlags) |->
     Smsg(PackedGuid(w) \o vanilla_MovementInfo(w).read,
          write_packed_guid(w) + vanilla_MovementInfo(w).written,
          wwm_packed_guid_size(w) + vanilla_MovementInfo(w).size)],
   MSG_MOVE_START_BACKWARD_Client |->
     [w \in Wires(Lengths, {0}, {}, vanilla_MovementInfoFlags) |->
       Cmsg(vanilla_MovementInfo(w).read,
            vanilla_MovementInfo(w).written, vanilla_MovementInfo(w).size)]]

vanilla_FromMsgMoveStartBackward ==
  [MSG_MOVE_START_BACKWARD_Server |->
     vanilla_FromSmsgGameobjectCustomAnim.MSG_MOVE_START_FORWARD_Server,
   MSG_MOVE_STOP_Client |-> vanilla_FromSmsgGameobjectCustomAnim.MSG_MOVE_START_FORWARD_Client,
   MSG_MOVE_STOP_Server |-> vanilla_FromSmsgGameobjectCustomAnim.MSG_MOVE_START_FORWARD_Server,
   MSG_MOVE_START_STRAFE_LEFT_Client |->
     vanilla_FromSmsgGameobjectCustomAnim.MSG_MOVE_START_FORWARD_Client,
   MSG_MOVE_START_STRAFE_LEFT_Server |->
     vanilla_FromSmsgGameobjectCustomAnim.MSG_MOVE_START_FORWARD_Server]

vanilla_FromMsgMoveStartStrafeRight ==
  [MSG_MOVE_START_STRAFE_RIGHT_Client |->
     vanilla_FromSmsgGameobjectCustomAnim.MSG_MOVE_START_FORWARD_Client,
   MSG_MOVE_START_STRAFE_RIGHT_Server |->
     vanilla_FromSmsgGameobjectCustomAnim.MSG_MOVE_START_FORWARD_Server,
   MSG_MOVE_STOP_STRAFE_Client |->
     vanilla_FromSmsgGameobjectCustomAnim.MSG_MOVE_START_FORWARD_Client,
   MSG_MOVE_STOP_STRAFE_Server |->
     vanilla_FromSmsgGameobjectCustomAnim.MSG_MOVE_START_FORWARD_Server,
   MSG_MOVE_JUMP_Client |-> vanilla_FromSmsgGameobjectCustomAnim.MSG_MOVE_START_FORWARD_Client]

vanilla_FromMsgMoveJump ==
  [MSG_MOVE_JUMP_Server |-> vanilla_FromSmsgGameobjectCustomAnim.MSG_MOVE_START_FORWARD_Server,
   MSG_MOVE_START_TURN_LEFT_Client |->
     vanilla_FromSmsgGameobjectCustomAnim.MSG_MOVE_START_FORWARD_Client,
   MSG_MOVE_START_TURN_LEFT_Server |->
     vanilla_FromSmsgGameobjectCustomAnim.MSG_MOVE_START_FORWARD_Server,
   MSG_MOVE_START_TURN_RIGHT_Client |->
     vanilla_FromSmsgGameobjectCustomAnim.MSG_MOVE_START_FORWARD_Client,
   MSG_MOVE_START_TURN_RIGHT_Server |->
     vanilla_FromSmsgGameobjectCustomAnim.MSG_MOVE_START_FORWARD_Server]

vanilla_FromMsgMoveStopTurn ==
  [MSG_MOVE_STOP_TURN_Client |->
     vanilla_FromSmsgGameobjectCustomAnim.MSG_MOVE_START_FORWARD_Client,
   MSG_MOVE_STOP_TURN_Server |->
     vanilla_FromSmsgGameobjectCustomAnim.MSG_MOVE_START_FORWARD_Server,
   MSG_MOVE_START_PITCH_UP_Client |->
     vanilla_FromSmsgGameobjectCustomAnim.MSG_MOVE_START_FORWARD_Client,
   MSG_MOVE_START_PITCH_UP_Server |->
     vanilla_FromSmsgGameobjectCustomAnim.MSG_MOVE_START_FORWARD_Server,
   MSG_MOVE_START_PITCH_DOWN_Client |->
     vanilla_FromSmsgGameobjectCustomAnim.MSG_MOVE_START_FORWARD_Client]

vanilla_FromMsgMoveStartPitchDown ==
  [MSG_MOVE_START_PITCH_DOWN_Server |->
     vanilla_FromSmsgGameobjectCustomAnim.MSG_MOVE_START_FORWARD_Server,
   MSG_MOVE_STOP_PITCH_Client |->
     vanilla_FromSmsgGameobjectCustomAnim.MSG_MOVE_START_FORWARD_Client,
   MSG_MOVE_STOP_PITCH_Server |->
     vanilla_FromSmsgGameobjectCustomAnim.MSG_MOVE_START_FORWARD_Server,
   MSG_MOVE_SET_RUN_MODE_Client |->
     vanilla_FromSmsgGameobjectCustomAnim.MSG_MOVE_START_FORWARD_Client,
   MSG_MOVE_SET_RUN_MODE_Server |->
     vanilla_FromSmsgGameobjectCustomAnim.MSG_MOVE_START_FORWARD_Server]

vanilla_FromMsgMoveSetWalkMode ==
  [MSG_MOVE_SET_WALK_MODE_Client |->
     vanilla_FromSmsgGameobjectCustomAnim.MSG_MOVE_START_FORWARD_Client,
   MSG_MOVE_SET_WALK_MODE_Server |->
     vanilla_FromSmsgGameobjectCustomAnim.MSG_MOVE_START_FORWARD_Server,
   MSG_MOVE_TELEPORT_ACK_Client |-> [w \in OfLength |->
     Cmsg(
       PackedGuid(w) \o Ints(<<4, 4>>), write_packed_guid(w) + 2 * 4, 8 + wwm_packed_guid_size(w))],
   MSG_MOVE_TELEPORT_ACK_Server |-> [w \in Wires(Lengths, {0}, {}, vanilla_MovementInfoFlags) |->
     Smsg(PackedGuid(w) \o Ints(<<4>>) \o vanilla_MovementInfo(w).read,
          write_packed_guid(w) + 4 + vanilla_MovementInfo(w).written,
          4 + wwm_packed_guid_size(w) + vanilla_MovementInfo(w).size)]]

vanilla_FromMsgMoveFallLand ==
  [MSG_MOVE_FALL_LAND_Client |->
     vanilla_FromSmsgGameobjectCustomAnim.MSG_MOVE_START_FORWARD_Client,
   MSG_MOVE_FALL_LAND_Server |->
     vanilla_FromSmsgGameobjectCustomAnim.MSG_MOVE_START_FORWARD_Server,
   MSG_MOVE_START_SWIM_Client |->
     vanilla_FromSmsgGameobjectCustomAnim.MSG_MOVE_START_FORWARD_Client,
   MSG_MOVE_START_SWIM_Server |->
     vanilla_FromSmsgGameobjectCustomAnim.MSG_MOVE_START_FORWARD_Server,
   MSG_MOVE_STOP_SWIM_Client |->
     vanilla_FromSmsgGameobjectCustomAnim.MSG_MOVE_START_FORWARD_Client]

vanilla_FromMsgMoveStopSwim ==
  [MSG_MOVE_STOP_SWIM_Server |->
     vanilla_FromSmsgGameobjectCustomAnim.MSG_MOVE_START_FORWARD_Server,
   MSG_MOVE_SET_FACING_Client |->
     vanilla_FromSmsgGameobjectCustomAnim.MSG_MOVE_START_FORWARD_Client,
   MSG_MOVE_SET_FACING_Server |->
     vanilla_FromSmsgGameobjectCustomAnim.MSG_MOVE_START_FORWARD_Server,
   MSG_MOVE_SET_PITCH_Client |->
     vanilla_FromSmsgGameobjectCustomAnim.MSG_MOVE_START_FORWARD_Client,
   MSG_MOVE_SET_PITCH_Server |->
     vanilla_FromSmsgGameobjectCustomAnim.MSG_MOVE_START_FORWARD_Server]

vanilla_FromMsgMoveWorldportAck ==
  [MSG_MOVE_WORLDPORT_ACK_cmsg |-> EmptyCmsg(0),
   MSG_MOVE_WORLDPORT_ACK_smsg |-> EmptySmsg(0),
   SMSG_MONSTER_MOVE |->
     [w \in Wires(Lengths, Counts,
                  {{"MonsterMoveType::FACING_TARGET", "MonsterMoveType::FACING_ANGLE",
                    "MonsterMoveType::FACING_SPOT", "MonsterMoveType::NORMAL"}}, {}) |->
       Smsg(
         PackedGuid(w) \o Vector3d.read \o Ints(<<4, 1>>)
         \o When(Is(w, "MonsterMoveType::FACING_TARGET"), Ints(<<8>>))
         \o When(Is(w, "MonsterMoveType::FACING_ANGLE"), Ints(<<4>>))
         \o When(Is(w, "MonsterMoveType::FACING_SPOT"), Vector3d.read) \o Ints(<<4, 4>>)
         \o MonsterMoveSpline(w),
         write_packed_guid(w) + Vector3d.written + 4 + 1
         + Bytes(Is(w, "MonsterMoveType::FACING_TARGET"), 8)
         + Bytes(Is(w, "MonsterMoveType::FACING_ANGLE"), 4)
         + Bytes(Is(w, "MonsterMoveType::FACING_SPOT"), Vector3d.written) + 2 * 4
         + wwm_write_monster_move_spline(w),
         25 + wwm_packed_guid_size(w) + wwm_monster_move_spline_size(w)
         + Bytes(Is(w, "MonsterMoveType::FACING_TARGET"), 8)
         + Bytes(Is(w, "MonsterMoveType::FACING_ANGLE"), 4)
         + Bytes(Is(w, "MonsterMoveType::FACING_SPOT"), 12))],
   SMSG_MOVE_WATER_WALK |-> [w \in OfLength |->
     Smsg(PackedGuid(w) \o Ints(<<4>>), write_packed_guid(w) + 4, 4 + wwm_packed_guid_size(w))]]

vanilla_FromSmsgMoveLandWalk ==
  [SMSG_MOVE_LAND_WALK |-> [w \in OfLength |->
     Smsg(PackedGuid(w) \o Ints(<<4>>), write_packed_guid(w) + 4, 4 + wwm_packed_guid_size(w))],
   CMSG_MOVE_SET_RAW_POSITION |-> [w \in {Fixed} |->
     Cmsg(Vector3d.read \o Ints(<<4>>), Vector3d.written + 4, 16)],
   SMSG_FORCE_RUN_SPEED_CHANGE |-> [w \in OfLength |->
     Smsg(
       PackedGuid(w) \o Ints(<<4, 4>>), write_packed_guid(w) + 2 * 4, 8 + wwm_packed_guid_size(w))],
   CMSG_FORCE_RUN_SPEED_CHANGE_ACK |->
     [w \in Wires(Lengths, {0}, {}, vanilla_MovementInfoFlags) |->
       Cmsg(Ints(<<8, 4>>) \o vanilla_MovementInfo(w).read \o Ints(<<4>>),
            8 + 4 + vanilla_MovementInfo(w).written + 4, 16 + vanilla_MovementInfo(w).size)]]

vanilla_FromSmsgForceRunBackSpeedChange ==
  [SMSG_FORCE_RUN_BACK_SPEED_CHANGE |-> [w \in OfLength |->
     Smsg(
       PackedGuid(w) \o Ints(<<4, 4>>), write_packed_guid(w) + 2 * 4, 8 + wwm_packed_guid_size(w))],
   CMSG_FORCE_RUN_BACK_SPEED_CHANGE_ACK |->
     vanilla_FromSmsgMoveLandWalk.CMSG_FORCE_RUN_SPEED_CHANGE_ACK,
   SMSG_FORCE_SWIM_SPEED_CHANGE |-> [w \in OfLength |->
     Smsg(
       PackedGuid(w) \o Ints(<<4, 4>>), write_packed_guid(w) + 2 * 4, 8 + wwm_packed_guid_size(w))],
   CMSG_FORCE_SWIM_SPEED_CHANGE_ACK |->
     vanilla_FromSmsgMoveLandWalk.CMSG_FORCE_RUN_SPEED_CHANGE_ACK]

vanilla_FromSmsgForceMoveRoot ==
  [SMSG_FORCE_MOVE_ROOT |-> PlainSmsg(<<8, 4>>, 8 + 4, 12),
   CMSG_FORCE_MOVE_ROOT_ACK |-> [w \in Wires(Lengths, {0}, {}, vanilla_MovementInfoFlags) |->
     Cmsg(Ints(<<8, 4>>) \o vanilla_MovementInfo(w).read,
          8 + 4 + vanilla_MovementInfo(w).written, 12 + vanilla_MovementInfo(w).size)],
   SMSG_FORCE_MOVE_UNROOT |-> PlainSmsg(<<8, 4>>, 8 + 4, 12),
   CMSG_FORCE_MOVE_UNROOT_ACK |-> [w \in Wires(Lengths, {0}, {}, vanilla_MovementInfoFlags) |->
     Cmsg(Ints(<<8, 4>>) \o vanilla_MovementInfo(w).read,
          8 + 4 + vanilla_MovementInfo(w).written, 12 + vanilla_MovementInfo(w).size)],
   MSG_MOVE_HEARTBEAT_Client |->
     vanilla_FromSmsgGameobjectCustomAnim.MSG_MOVE_START_FORWARD_Client]

vanilla_FromMsgMoveHeartbeat ==
  [MSG_MOVE_HEARTBEAT_Server |->
     vanilla_FromSmsgGameobjectCustomAnim.MSG_MOVE_START_FORWARD_Server,
   SMSG_MOVE_KNOCK_BACK |-> [w \in OfLength |->
     Smsg(PackedGuid(w) \o Ints(Repeat(5, 4)),
          write_packed_guid(w) + 5 * 4, 20 + wwm_packed_guid_size(w))],
   CMSG_MOVE_KNOCK_BACK_ACK |-> vanilla_FromSmsgForceMoveRoot.CMSG_FORCE_MOVE_ROOT_ACK,
   SMSG_MOVE_FEATHER_FALL |-> [w \in OfLength |->
     Smsg(PackedGuid(w) \o Ints(<<4>>), write_packed_guid(w) + 4, 4 + wwm_packed_guid_size(w))]]

vanilla_FromSmsgMoveNormalFall ==
  [SMSG_MOVE_NORMAL_FALL |-> [w \in OfLength |->
     Smsg(PackedGuid(w) \o Ints(<<4>>), write_packed_guid(w) + 4, 4 + wwm_packed_guid_size(w))],
   SMSG_MOVE_SET_HOVER |-> [w \in OfLength |->
     Smsg(PackedGuid(w) \o Ints(<<4>>), write_packed_guid(w) + 4, 4 + wwm_packed_guid_size(w))],
   SMSG_MOVE_UNSET_HOVER |-> [w \in OfLength |->
     Smsg(PackedGuid(w) \o Ints(<<4>>), write_packed_guid(w) + 4, 4 + wwm_packed_guid_size(w))],
   CMSG_MOVE_HOVER_ACK |-> vanilla_FromSmsgMoveLandWalk.CMSG_FORCE_RUN_SPEED_CHANGE_ACK]

vanilla_FromSmsgTriggerCinematic ==
  [SMSG_TRIGGER_CINEMATIC |-> PlainSmsg(<<4>>, 4, 4),
   CMSG_NEXT_CINEMATIC_CAMERA |-> EmptyCmsg(0),
   CMSG_COMPLETE_CINEMATIC |-> EmptyCmsg(0),
   SMSG_TUTORIAL_FLAGS |-> PlainSmsg(Repeat(8, 4), 8 * 4, 32),
   CMSG_TUTORIAL_FLAG |-> PlainCmsg(<<4>>, 4, 4),
   CMSG_TUTORIAL_CLEAR |-> EmptyCmsg(0),
   CMSG_TUTORIAL_RESET |-> EmptyCmsg(0),
   CMSG_STANDSTATECHANGE |-> PlainCmsg(<<4>>, 4, 4)]

vanilla_FromCmsgEmote ==
  [CMSG_EMOTE |-> PlainCmsg(<<4>>, 4, 4),
   SMSG_EMOTE |-> PlainSmsg(<<4, 8>>, 4 + 8, 12),
   CMSG_TEXT_EMOTE |-> PlainCmsg(<<4, 4, 8>>, 2 * 4 + 8, 16),
   SMSG_TEXT_EMOTE |-> [w \in OfLength |->
     Smsg(Ints(<<8, 4, 4>>) \o SizedCstring(w), 8 + 2 * 4 + write_sized_cstring(w), 21 + w.len)],
   CMSG_AUTOSTORE_LOOT_ITEM |-> PlainCmsg(<<1>>, 1, 1)]

vanilla_FromCmsgAutoequipItem ==
  [CMSG_AUTOEQUIP_ITEM |-> PlainCmsg(<<1, 1>>, 2 * 1, 2),
   CMSG_AUTOSTORE_BAG_ITEM |-> PlainCmsg(<<1, 1, 1>>, 3 * 1, 3),
   CMSG_SWAP_ITEM |-> PlainCmsg(<<1, 1, 1, 1>>, 4 * 1, 4),
   CMSG_SWAP_INV_ITEM |-> PlainCmsg(<<1, 1>>, 2 * 1, 2)]

vanilla_FromCmsgSplitItem ==
  [CMSG_SPLIT_ITEM |-> PlainCmsg(Repeat(5, 1), 5 * 1, 5),
   CMSG_AUTOEQUIP_ITEM_SLOT |-> PlainCmsg(<<8, 1>>, 8 + 1, 9),
   CMSG_DESTROYITEM |-> PlainCmsg(Repeat(6, 1), 6 * 1, 6)]

vanilla_FromSmsgInventoryChangeFailure ==
  [SMSG_INVENTORY_CHANGE_FAILURE |->
     [w \in Wires({0}, {0},
                  {{"InventoryResult::CANT_EQUIP_LEVEL_I", "InventoryResult::CANT_EQUIP_SKILL",
                    "InventoryResult::OK"}}, {}) |->
       Smsg(
         Ints(<<1>>) \o When(Is(w, "InventoryResult::CANT_EQUIP_LEVEL_I"), Ints(<<4>>))
         \o When(
              IsIn(w, {"InventoryResult::CANT_EQUIP_LEVEL_I", "InventoryResult::CANT_EQUIP_SKILL"}),
              Ints(<<8, 8, 1>>)),
         1 + Bytes(Is(w, "InventoryResult::CANT_EQUIP_LEVEL_I"), 4)
         + Bytes(
             IsIn(w, {"InventoryResult::CANT_EQUIP_LEVEL_I", "InventoryResult::CANT_EQUIP_SKILL"}),
             2 * 8 + 1),
         1 + Bytes(Is(w, "InventoryResult::CANT_EQUIP_LEVEL_I"), 4)
         + Bytes(
             IsIn(w, {"InventoryResult::CANT_EQUIP_LEVEL_I", "InventoryResult::CANT_EQUIP_SKILL"}),
             17))],
   SMSG_OPEN_CONTAINER |-> PlainSmsg(<<8>>, 8, 8),
   CMSG_INSPECT |-> PlainCmsg(<<8>>, 8, 8),
   SMSG_INSPECT |-> PlainSmsg(<<8>>, 8, 8)]

vanilla_FromCmsgInitiateTrade ==
  [CMSG_INITIATE_TRADE |-> PlainCmsg(<<8>>, 8, 8),
   CMSG_BEGIN_TRADE |-> EmptyCmsg(0),
   CMSG_BUSY_TRADE |-> EmptyCmsg(0),
   CMSG_IGNORE_TRADE |-> EmptyCmsg(0),
   CMSG_ACCEPT_TRADE |-> PlainCmsg(<<4>>, 4, 4),
   CMSG_UNACCEPT_TRADE |-> EmptyCmsg(0),
   CMSG_CANCEL_TRADE |-> EmptyCmsg(0),
   CMSG_SET_TRADE_ITEM |-> PlainCmsg(<<1, 1, 1>>, 3 * 1, 3)]

vanilla_FromCmsgClearTradeItem ==
  [CMSG_CLEAR_TRADE_ITEM |-> PlainCmsg(<<1>>, 1, 1),
   CMSG_SET_TRADE_GOLD |-> PlainCmsg(<<4>>, 4, 4),
   SMSG_TRADE_STATUS |->
     [w \in Wires({0}, {0},
                  {{"TradeStatus::BEGIN_TRADE", "TradeStatus::CLOSE_WINDOW",
                    "TradeStatus::ONLY_CONJURED", "TradeStatus::BUSY"}}, {}) |->
       Smsg(
         Ints(<<4>>) \o When(Is(w, "TradeStatus::BEGIN_TRADE"), Ints(<<8>>))
         \o When(Is(w, "TradeStatus::CLOSE_WINDOW"), Ints(<<4, 1, 4>>))
         \o When(Is(w, "TradeStatus::ONLY_CONJURED"), Ints(<<1>>)),
         4 + Bytes(Is(w, "TradeStatus::BEGIN_TRADE"), 8)
         + Bytes(Is(w, "TradeStatus::CLOSE_WINDOW"), 4 + 1 + 4)
         + Bytes(Is(w, "TradeStatus::ONLY_CONJURED"), 1),
         4 + Bytes(Is(w, "TradeStatus::BEGIN_TRADE"), 8)
         + Bytes(Is(w, "TradeStatus::CLOSE_WINDOW"), 9)
         + Bytes(Is(w, "TradeStatus::ONLY_CONJURED"), 1))]]

vanilla_FromSmsgTradeStatusExtended ==
  [SMSG_TRADE_STATUS_EXTENDED |-> [w \in {Fixed} |->
     Smsg(Ints(<<1, 4, 4, 4, 4>>) \o Each(7, vanilla_TradeSlot.read),
          1 + 4 * 4 + 7 * vanilla_TradeSlot.written, 444)],
   SMSG_INITIALIZE_FACTIONS |-> [w \in OfCount |->
     Smsg(Ints(<<4>>) \o Each(w.count, vanilla_FactionInitializer.read),
          4 + w.count * vanilla_FactionInitializer.written, 4 + 5 * w.count)],
   SMSG_SET_FACTION_VISIBLE |-> PlainSmsg(<<2>>, 2, 2),
   SMSG_SET_FACTION_STANDING |-> [w \in OfCount |->
     Smsg(Ints(<<4>>) \o Each(w.count, vanilla_FactionStanding.read),
          4 + w.count * vanilla_FactionStanding.written, 4 + 6 * w.count)]]

vanilla_FromCmsgSetFactionAtwar ==
  [CMSG_SET_FACTION_ATWAR |-> PlainCmsg(<<2, 1>>, 2 + 1, 3),
   SMSG_SET_PROFICIENCY |-> PlainSmsg(<<1, 4>>, 1 + 4, 5),
   CMSG_SET_ACTION_BUTTON |-> PlainCmsg(<<1, 2, 1, 1>>, 1 + 2 + 2 * 1, 5),
   SMSG_ACTION_BUTTONS |-> PlainSmsg(Repeat(120, 4), 120 * 4, 480)]

vanilla_FromSmsgInitialSpells ==
  [SMSG_INITIAL_SPELLS |-> [w \in OfCount |->
     Smsg(
       Ints(<<1, 2>>) \o Each(U16(w.count), vanilla_InitialSpell.read) \o Ints(<<2>>)
       \o Each(U16(w.count), vanilla_CooldownSpell.read),
       1 + 2 + w.count * vanilla_InitialSpell.written + 2
       + w.count * vanilla_CooldownSpell.written, 5 + 4 * w.count + 14 * w.count)],
   SMSG_LEARNED_SPELL |-> PlainSmsg(<<4>>, 4, 4),
   SMSG_SUPERCEDED_SPELL |-> PlainSmsg(<<2, 2>>, 2 * 2, 4),
   CMSG_CAST_SPELL |-> [w \in Wires(Lengths, {0}, {}, vanilla_SpellCastTargetsFlags) |->
     Cmsg(Ints(<<4>>) \o vanilla_SpellCastTargets(w).read,
          4 + vanilla_SpellCastTargets(w).written, 4 + vanilla_SpellCastTargets(w).size)]]

vanilla_FromCmsgCancelCast ==
  [CMSG_CANCEL_CAST |-> PlainCmsg(<<4>>, 4, 4),
   SMSG_CAST_RESULT |->
     [w \in Wires(
              {0}, {0},
              {{"SimpleSpellCastResult::SUCCESS", "SimpleSpellCastResult::FAILURE"},
               {"CastFailureReason::REQUIRES_SPELL_FOCUS", "CastFailureReason::REQUIRES_AREA",
                "CastFailureReason::EQUIPPED_ITEM_CLASS", "CastFailureReason::AFFECTING_COMBAT"}},
              {}) |->
       Smsg(
         Ints(<<4, 1>>)
         \o When(Is(w, "SimpleSpellCastResult::SUCCESS"),
                 Ints(<<1>>) \o When(Is(w, "CastFailureReason::REQUIRES_SPELL_FOCUS"), Ints(<<4>>))
                 \o When(Is(w, "CastFailureReason::REQUIRES_AREA"), Ints(<<4>>))
                 \o When(Is(w, "CastFailureReason::EQUIPPED_ITEM_CLASS"), Ints(<<4, 4, 4>>))),
         4 + 1
         + Bytes(
             Is(w, "SimpleSpellCastResult::SUCCESS"),
             1 + Bytes(Is(w, "CastFailureReason::REQUIRES_SPELL_FOCUS"), 4)
             + Bytes(Is(w, "CastFailureReason::REQUIRES_AREA"), 4)
             + Bytes(Is(w, "CastFailureReason::EQUIPPED_ITEM_CLASS"), 3 * 4)),
         5
         + Bytes(
             Is(w, "SimpleSpellCastResult::SUCCESS"),
             1 + Bytes(Is(w, "CastFailureReason::REQUIRES_SPELL_FOCUS"), 4)
             + Bytes(Is(w, "CastFailureReason::REQUIRES_AREA"), 4)
             + Bytes(Is(w, "CastFailureReason::EQUIPPED_ITEM_CLASS"), 12)))]]

vanilla_FromSmsgSpellStart ==
  [SMSG_SPELL_START |->
     [w \in Wires(Lengths, {0}, {}, vanilla_SpellCastTargetsFlags \union {"CAST_FLAGS_AMMO"}) |->
       Smsg(
         PackedGuid(w) \o PackedGuid(w) \o Ints(<<4, 2, 4>>) \o vanilla_SpellCastTargets(w).read
         \o When(Is(w, "CAST_FLAGS_AMMO"), Ints(<<4, 4>>)),
         2 * write_packed_guid(w) + 4 + 2 + 4 + vanilla_SpellCastTargets(w).written
         + Bytes(Is(w, "CAST_FLAGS_AMMO"), 2 * 4),
         10 + 2 * wwm_packed_guid_size(w) + vanilla_SpellCastTargets(w).size
         + Bytes(Is(w, "CAST_FLAGS_AMMO"), 8))],
   SMSG_SPELL_GO |->
     [w \in Wires(Lengths, Counts, {}, vanilla_SpellCastTargetsFlags \union {"CAST_FLAGS_AMMO"}) |->
       Smsg(
         PackedGuid(w) \o PackedGuid(w) \o Ints(<<4, 2, 1>> \o Repeat(U8(w.count), 8) \o <<1>>)
         \o Each(U8(w.count), vanilla_SpellMiss.read) \o vanilla_SpellCastTargets(w).read
         \o When(Is(w, "CAST_FLAGS_AMMO"), Ints(<<4, 4>>)),
         2 * write_packed_guid(w) + 4 + 2 + 1 + w.count * 8 + 1
         + w.count * vanilla_SpellMiss.written + vanilla_SpellCastTargets(w).written
         + Bytes(Is(w, "CAST_FLAGS_AMMO"), 2 * 4),
         8 + 2 * wwm_packed_guid_size(w) + 8 * w.count + 9 * w.count
         + vanilla_SpellCastTargets(w).size + Bytes(Is(w, "CAST_FLAGS_AMMO"), 8))]]

vanilla_FromSmsgSpellFailure ==
  [SMSG_SPELL_FAILURE |-> PlainSmsg(<<8, 4, 1>>, 8 + 4 + 1, 13),
   SMSG_SPELL_COOLDOWN |-> [w \in OfCount |->
     Smsg(Counted(8, Ints(<<8>>)) \o Endless(w.count, vanilla_SpellCooldownStatus.read, 8),
          8 + w.count * vanilla_SpellCooldownStatus.written, 8 + 8 * w.count)],
   SMSG_COOLDOWN_EVENT |-> PlainSmsg(<<4, 8>>, 4 + 8, 12),
   CMSG_CANCEL_AURA |-> PlainCmsg(<<4>>, 4, 4),
   SMSG_UPDATE_AURA_DURATION |-> PlainSmsg(<<1, 4>>, 1 + 4, 5)]

vanilla_FromSmsgPetCastFailed ==
  [SMSG_PET_CAST_FAILED |-> PlainSmsg(<<4, 1, 1>>, 4 + 2 * 1, 6),
   MSG_CHANNEL_START_Server |-> PlainSmsg(<<4, 4>>, 2 * 4, 8),
   MSG_CHANNEL_UPDATE_Server |-> PlainSmsg(<<4>>, 4, 4),
   CMSG_CANCEL_CHANNELLING |-> PlainCmsg(<<4>>, 4, 4),
   SMSG_AI_REACTION |-> PlainSmsg(<<8, 4>>, 8 + 4, 12)]

vanilla_FromCmsgSetSelection ==
  [CMSG_SET_SELECTION |-> PlainCmsg(<<8>>, 8, 8),
   CMSG_SET_TARGET_OBSOLETE |-> PlainCmsg(<<8>>, 8, 8),
   CMSG_ATTACKSWING |-> PlainCmsg(<<8>>, 8, 8),
   CMSG_ATTACKSTOP |-> EmptyCmsg(0),
   SMSG_ATTACKSTART |-> PlainSmsg(<<8, 8>>, 2 * 8, 16),
   SMSG_ATTACKSTOP |-> [w \in OfLength |->
     Smsg(PackedGuid(w) \o PackedGuid(w) \o Ints(<<4>>),
          2 * write_packed_guid(w) + 4, 4 + 2 * wwm_packed_guid_size(w))]]

vanilla_FromSmsgAttackswingNotinrange ==
  [SMSG_ATTACKSWING_NOTINRANGE |-> EmptySmsg(0),
   SMSG_ATTACKSWING_BADFACING |-> EmptySmsg(0),
   SMSG_ATTACKSWING_NOTSTANDING |-> EmptySmsg(0),
   SMSG_ATTACKSWING_DEADTARGET |-> EmptySmsg(0),
   SMSG_ATTACKSWING_CANT_ATTACK |-> EmptySmsg(0),
   SMSG_ATTACKERSTATEUPDATE |-> [w \in OfLengthAndCount |->
     Smsg(
       Ints(<<4>>) \o PackedGuid(w) \o PackedGuid(w) \o Ints(<<4, 1>>)
       \o Each(U8(w.count), vanilla_DamageInfo.read) \o Ints(<<4, 4, 4, 4>>),
       4 + 2 * write_packed_guid(w) + 4 + 1 + w.count * vanilla_DamageInfo.written + 4 * 4,
       25 + 2 * wwm_packed_guid_size(w) + 20 * w.count)],
   SMSG_CANCEL_COMBAT |-> EmptySmsg(0)]

vanilla_FromSmsgSpellheallog ==
  [SMSG_SPELLHEALLOG |-> [w \in OfLength |->
     Smsg(PackedGuid(w) \o PackedGuid(w) \o Ints(<<4, 4, 1>>),
          2 * write_packed_guid(w) + 2 * 4 + 1, 9 + 2 * wwm_packed_guid_size(w))],
   SMSG_SPELLENERGIZELOG |-> [w \in OfLength |->
     Smsg(PackedGuid(w) \o PackedGuid(w) \o Ints(<<4, 4, 4>>),
          2 * write_packed_guid(w) + 3 * 4, 12 + 2 * wwm_packed_guid_size(w))],
   SMSG_BINDPOINTUPDATE |-> [w \in {Fixed} |->
     Smsg(Vector3d.read \o Ints(<<4, 4>>), Vector3d.written + 2 * 4, 20)],
   SMSG_PLAYERBOUND |-> PlainSmsg(<<8, 4>>, 8 + 4, 12)]

vanilla_FromSmsgClientControlUpdate ==
  [SMSG_CLIENT_CONTROL_UPDATE |-> [w \in OfLength |->
     Smsg(PackedGuid(w) \o Ints(<<1>>), write_packed_guid(w) + 1, 1 + wwm_packed_guid_size(w))],
   CMSG_REPOP_REQUEST |-> EmptyCmsg(0),
   SMSG_RESURRECT_REQUEST |-> [w \in OfLength |->
     Smsg(
       Ints(<<8>>) \o SizedCstring(w) \o Ints(<<1>>), 8 + write_sized_cstring(w) + 1, 14 + w.len)],
   CMSG_RESURRECT_RESPONSE |-> PlainCmsg(<<8, 1>>, 8 + 1, 9),
   CMSG_LOOT |-> PlainCmsg(<<8>>, 8, 8),
   CMSG_LOOT_MONEY |-> EmptyCmsg(0)]

vanilla_FromCmsgLootRelease ==
  [CMSG_LOOT_RELEASE |-> PlainCmsg(<<8>>, 8, 8),
   SMSG_LOOT_RESPONSE |->
     [w \in Wires({0}, Counts, {{"LootMethod::ERROR", "LootMethod::CORPSE"}}, {}) |->
       Smsg(
         Ints(<<8, 1>>) \o When(Is(w, "LootMethod::ERROR"), Ints(<<1>>)) \o Ints(<<4, 1>>)
         \o Each(U8(w.count), vanilla_LootItem.read),
         8 + 1 + Bytes(Is(w, "LootMethod::ERROR"), 1) + 4 + 1 + w.count * vanilla_LootItem.written,
         14 + 6 * w.count + Bytes(Is(w, "LootMethod::ERROR"), 1))],
   SMSG_LOOT_RELEASE_RESPONSE |-> PlainSmsg(<<8, 1>>, 8 + 1, 9),
   SMSG_LOOT_REMOVED |-> PlainSmsg(<<1>>, 1, 1)]

vanilla_FromSmsgLootMoneyNotify ==
  [SMSG_LOOT_MONEY_NOTIFY |-> PlainSmsg(<<4>>, 4, 4),
   SMSG_LOOT_CLEAR_MONEY |-> EmptySmsg(0),
   SMSG_ITEM_PUSH_RESULT |->
     PlainSmsg(<<8, 4, 4, 4, 1>> \o Repeat(5, 4), 8 + 3 * 4 + 1 + 5 * 4, 41),
   SMSG_DUEL_REQUESTED |-> PlainSmsg(<<8, 8>>, 2 * 8, 16),
   SMSG_DUEL_OUTOFBOUNDS |-> EmptySmsg(0),
   SMSG_DUEL_INBOUNDS |-> EmptySmsg(0)]

vanilla_FromSmsgDuelComplete ==
  [SMSG_DUEL_COMPLETE |-> PlainSmsg(<<1>>, 1, 1),
   SMSG_DUEL_WINNER |-> [w \in OfLength |->
     Smsg(Ints(<<1>>) \o Cstring(w) \o Cstring(w), 1 + 2 * write_cstring(w), 3 + 2 * w.len)],
   CMSG_DUEL_ACCEPTED |-> PlainCmsg(<<8>>, 8, 8),
   CMSG_DUEL_CANCELLED |-> PlainCmsg(<<8>>, 8, 8),
   SMSG_MOUNTRESULT |-> PlainSmsg(<<4>>, 4, 4),
   SMSG_DISMOUNTRESULT |-> PlainSmsg(<<4>>, 4, 4)]

vanilla_FromCmsgMountspecialAnim ==
  [CMSG_MOUNTSPECIAL_ANIM |-> EmptyCmsg(0),
   SMSG_MOUNTSPECIAL_ANIM |-> PlainSmsg(<<8>>, 8, 8),
   SMSG_PET_TAME_FAILURE |-> PlainSmsg(<<1>>, 1, 1),
   CMSG_PET_SET_ACTION |-> [w \in Wires({0}, {0}, {}, {"extra"}) |->
     Cmsg(Counted(16, Ints(<<8, 4, 4>>)) \o Optional(Ints(<<4, 4>>)),
          8 + 2 * 4 + Bytes(Is(w, "extra"), 2 * 4), 16 + Bytes(Is(w, "extra"), 8))],
   CMSG_PET_ACTION |-> PlainCmsg(<<8, 4, 8>>, 8 + 4 + 8, 20)]

vanilla_FromCmsgPetAbandon ==
  [CMSG_PET_ABANDON |-> PlainCmsg(<<8>>, 8, 8),
   CMSG_PET_RENAME |-> [w \in OfLength |->
     Cmsg(Ints(<<8>>) \o Cstring(w), 8 + write_cstring(w), 9 + w.len)],
   SMSG_PET_NAME_INVALID |-> EmptySmsg(0)]

vanilla_FromSmsgPetSpells ==
  [SMSG_PET_SPELLS |-> [w \in Wires({0}, Counts, {}, {"action_bars"}) |->
     Smsg(
       Counted(8, Ints(<<8>>))
       \o Optional(Ints(<<4, 1, 1, 1, 1>> \o Repeat(10, 4) \o <<1>> \o Repeat(U8(w.count), 4)
                        \o <<1>>) \o Each(U8(w.count), vanilla_PetSpellCooldown.read)),
       8
       + Bytes(
           Is(w, "action_bars"),
           4 + 4 * 1 + 10 * 4 + 1 + w.count * 4 + 1 + w.count * vanilla_PetSpellCooldown.written),
       8 + Bytes(Is(w, "action_bars"), 50 + 4 * w.count + 12 * w.count))],
   SMSG_PET_MODE |-> PlainSmsg(<<8, 1, 1, 1, 1>>, 8 + 4 * 1, 12)]

vanilla_FromCmsgGossipHello ==
  [CMSG_GOSSIP_HELLO |-> PlainCmsg(<<8>>, 8, 8),
   CMSG_GOSSIP_SELECT_OPTION |-> [w \in Wires(Lengths, {0}, {}, {"unknown"}) |->
     Cmsg(
       Counted(12, Ints(<<8, 4>>)) \o Optional(Cstring(w)),
       8 + 4 + Bytes(Is(w, "unknown"), write_cstring(w)), 12 + Bytes(Is(w, "unknown"), 1 + w.len))],
   SMSG_GOSSIP_MESSAGE |-> [w \in OfLengthAndCount |->
     Smsg(
       Ints(<<8, 4, 4>>) \o Each(w.count, vanilla_GossipItem(w).read) \o Ints(<<4>>)
       \o Each(w.count, vanilla_QuestItem(w).read),
       8 + 2 * 4 + w.count * vanilla_GossipItem(w).written + 4
       + w.count * vanilla_QuestItem(w).written,
       20 + w.count * vanilla_GossipItem(w).size + w.count * vanilla_QuestItem(w).size)],
   SMSG_GOSSIP_COMPLETE |-> EmptySmsg(0)]

vanilla_FromCmsgNpcTextQuery ==
  [CMSG_NPC_TEXT_QUERY |-> PlainCmsg(<<4, 8>>, 4 + 8, 12),
   SMSG_NPC_TEXT_UPDATE |-> [w \in OfLength |->
     Smsg(Ints(<<4>>) \o Each(8, vanilla_NpcTextUpdate(w).read),
          4 + 8 * vanilla_NpcTextUpdate(w).written, 4 + 8 * vanilla_NpcTextUpdate(w).size)],
   CMSG_QUESTGIVER_STATUS_QUERY |-> PlainCmsg(<<8>>, 8, 8),
   SMSG_QUESTGIVER_STATUS |-> PlainSmsg(<<8, 4>>, 8 + 4, 12),
   CMSG_QUESTGIVER_HELLO |-> PlainCmsg(<<8>>, 8, 8)]

vanilla_FromSmsgQuestgiverQuestList ==
  [SMSG_QUESTGIVER_QUEST_LIST |-> [w \in OfLengthAndCount |->
     Smsg(
       Ints(<<8>>) \o Cstring(w) \o Ints(<<4, 4, 1>>)
       \o Each(U8(w.count), vanilla_QuestItem(w).read),
       8 + write_cstring(w) + 2 * 4 + 1 + w.count * vanilla_QuestItem(w).written,
       18 + w.len + w.count * vanilla_QuestItem(w).size)],
   CMSG_QUESTGIVER_QUERY_QUEST |-> PlainCmsg(<<8, 4>>, 8 + 4, 12),
   CMSG_QUESTGIVER_QUEST_AUTOLAUNCH |-> EmptyCmsg(0)]

vanilla_FromSmsgQuestgiverQuestDetails ==
  [SMSG_QUESTGIVER_QUEST_DETAILS |-> [w \in OfLengthAndCount |->
     Smsg(
       Ints(<<8, 4>>) \o Cstring(w) \o Cstring(w) \o Cstring(w) \o Ints(<<4, 4>>)
       \o Each(w.count, vanilla_QuestItemReward.read) \o Ints(<<4>>)
       \o Each(w.count, vanilla_QuestItemReward.read) \o Ints(<<4, 4, 4>>)
       \o Each(w.count, vanilla_QuestDetailsEmote.read),
       8 + 4 + 3 * write_cstring(w) + 2 * 4 + w.count * vanilla_QuestItemReward.written + 4
       + w.count * vanilla_QuestItemReward.written + 3 * 4
       + w.count * vanilla_QuestDetailsEmote.written,
       39 + 3 * w.len + 8 * w.count + 8 * w.count + 8 * w.count)],
   CMSG_QUESTGIVER_ACCEPT_QUEST |-> PlainCmsg(<<8, 4>>, 8 + 4, 12),
   CMSG_QUESTGIVER_COMPLETE_QUEST |-> PlainCmsg(<<8, 4>>, 8 + 4, 12)]

vanilla_FromSmsgQuestgiverRequestItems ==
  [SMSG_QUESTGIVER_REQUEST_ITEMS |-> [w \in OfLengthAndCount |->
     Smsg(
       Ints(<<8, 4>>) \o Cstring(w) \o Cstring(w) \o Ints(Repeat(5, 4))
       \o Each(w.count, vanilla_QuestItemRequirement.read) \o Ints(<<4, 4, 4, 4>>),
       8 + 4 + 2 * write_cstring(w) + 5 * 4 + w.count * vanilla_QuestItemRequirement.written
       + 4 * 4, 50 + 2 * w.len + 12 * w.count)],
   CMSG_QUESTGIVER_REQUEST_REWARD |-> PlainCmsg(<<8, 4>>, 8 + 4, 12)]

vanilla_FromSmsgQuestgiverOfferReward ==
  [SMSG_QUESTGIVER_OFFER_REWARD |-> [w \in OfLengthAndCount |->
     Smsg(
       Ints(<<8, 4>>) \o Cstring(w) \o Cstring(w) \o Ints(<<4, 4>>)
       \o Each(w.count, vanilla_NpcTextUpdateEmote.read) \o Ints(<<4>>)
       \o Each(w.count, vanilla_QuestItemRequirement.read) \o Ints(<<4>>)
       \o Each(w.count, vanilla_QuestItemRequirement.read) \o Ints(<<4, 4, 4>>),
       8 + 4 + 2 * write_cstring(w) + 2 * 4 + w.count * vanilla_NpcTextUpdateEmote.written + 4
       + w.count * vanilla_QuestItemRequirement.written + 4
       + w.count * vanilla_QuestItemRequirement.written + 3 * 4,
       42 + 2 * w.len + 8 * w.count + 12 * w.count + 12 * w.count)],
   CMSG_QUESTGIVER_CHOOSE_REWARD |-> PlainCmsg(<<8, 4, 4>>, 8 + 2 * 4, 16),
   SMSG_QUESTGIVER_QUEST_INVALID |-> PlainSmsg(<<4>>, 4, 4)]

vanilla_FromCmsgQuestgiverCancel ==
  [CMSG_QUESTGIVER_CANCEL |-> EmptyCmsg(0),
   SMSG_QUESTGIVER_QUEST_COMPLETE |-> [w \in OfCount |->
     Smsg(Ints(Repeat(5, 4)) \o Each(w.count, vanilla_QuestItemReward.read),
          5 * 4 + w.count * vanilla_QuestItemReward.written, 20 + 8 * w.count)],
   SMSG_QUESTGIVER_QUEST_FAILED |-> PlainSmsg(<<4, 4>>, 2 * 4, 8),
   CMSG_QUESTLOG_SWAP_QUEST |-> PlainCmsg(<<1, 1>>, 2 * 1, 2),
   CMSG_QUESTLOG_REMOVE_QUEST |-> PlainCmsg(<<1>>, 1, 1)]

vanilla_FromSmsgQuestlogFull ==
  [SMSG_QUESTLOG_FULL |-> EmptySmsg(0),
   SMSG_QUESTUPDATE_FAILED |-> PlainSmsg(<<4>>, 4, 4),
   SMSG_QUESTUPDATE_FAILEDTIMER |-> PlainSmsg(<<4>>, 4, 4),
   SMSG_QUESTUPDATE_COMPLETE |-> PlainSmsg(<<4>>, 4, 4),
   SMSG_QUESTUPDATE_ADD_KILL |-> PlainSmsg(<<4, 4, 4, 4, 8>>, 4 * 4 + 8, 24),
   SMSG_QUESTUPDATE_ADD_ITEM |-> PlainSmsg(<<4, 4>>, 2 * 4, 8)]

vanilla_FromCmsgQuestConfirmAccept ==
  [CMSG_QUEST_CONFIRM_ACCEPT |-> PlainCmsg(<<4>>, 4, 4),
   SMSG_QUEST_CONFIRM_ACCEPT |-> [w \in OfLength |->
     Smsg(Ints(<<4>>) \o Cstring(w) \o Ints(<<8>>), 4 + write_cstring(w) + 8, 13 + w.len)],
   CMSG_PUSHQUESTTOPARTY |-> PlainCmsg(<<4>>, 4, 4),
   CMSG_LIST_INVENTORY |-> PlainCmsg(<<8>>, 8, 8),
   SMSG_LIST_INVENTORY |-> [w \in OfCount |->
     Smsg(Ints(<<8, 1>>) \o Each(U8(w.count), vanilla_ListInventoryItem.read),
          8 + 1 + w.count * vanilla_ListInventoryItem.written, 9 + 28 * w.count)]]

vanilla_LowGroups ==
  <<vanilla_FromCmsgBootme, vanilla_FromCmsgCharCreate, vanilla_FromSmsgCharEnum,
    vanilla_FromSmsgTransferPending, vanilla_FromCmsgLogoutRequest, vanilla_FromCmsgPetNameQuery,
    vanilla_FromCmsgItemQuerySingle, vanilla_FromSmsgItemQuerySingleResponse,
    vanilla_FromCmsgPageTextQuery, vanilla_FromSmsgQuestQueryResponse,
    vanilla_FromCmsgGameobjectQuery, vanilla_FromSmsgCreatureQueryResponse, vanilla_FromCmsgWho,
    vanilla_FromSmsgWhois, vanilla_FromCmsgDelFriend, vanilla_FromSmsgGroupInvite,
    vanilla_FromCmsgGroupSetLeader, vanilla_FromSmsgGroupList, vanilla_FromSmsgPartyMemberStats,
    vanilla_FromSmsgPartyCommandResult, vanilla_FromCmsgGuildInfo, vanilla_FromCmsgGuildPromote,
    vanilla_FromCmsgGuildMotd, vanilla_FromCmsgMessagechat, vanilla_FromSmsgMessagechat,
    vanilla_FromCmsgJoinChannel, vanilla_FromSmsgChannelList, vanilla_FromCmsgChannelModerator,
    vanilla_FromCmsgChannelInvite, vanilla_FromCmsgChannelModerate, vanilla_FromCmsgOpenItem,
    vanilla_FromSmsgGameobjectCustomAnim, vanilla_FromMsgMoveStartBackward,
    vanilla_FromMsgMoveStartStrafeRight, vanilla_FromMsgMoveJump, vanilla_FromMsgMoveStopTurn,
    vanilla_FromMsgMoveStartPitchDown, vanilla_FromMsgMoveSetWalkMode,
    vanilla_FromMsgMoveFallLand, vanilla_FromMsgMoveStopSwim, vanilla_FromMsgMoveWorldportAck,
    vanilla_FromSmsgMoveLandWalk, vanilla_FromSmsgForceRunBackSpeedChange,
    vanilla_FromSmsgForceMoveRoot, vanilla_FromMsgMoveHeartbeat, vanilla_FromSmsgMoveNormalFall,
    vanilla_FromSmsgTriggerCinematic, vanilla_FromCmsgEmote, vanilla_FromCmsgAutoequipItem,
    vanilla_FromCmsgSplitItem, vanilla_FromSmsgInventoryChangeFailure,
    vanilla_FromCmsgInitiateTrade, vanilla_FromCmsgClearTradeItem,
    vanilla_FromSmsgTradeStatusExtended, vanilla_FromCmsgSetFactionAtwar,
    vanilla_FromSmsgInitialSpells, vanilla_FromCmsgCancelCast, vanilla_FromSmsgSpellStart,
    vanilla_FromSmsgSpellFailure, vanilla_FromSmsgPetCastFailed, vanilla_FromCmsgSetSelection,
    vanilla_FromSmsgAttackswingNotinrange, vanilla_FromSmsgSpellheallog,
    vanilla_FromSmsgClientControlUpdate, vanilla_FromCmsgLootRelease,
    vanilla_FromSmsgLootMoneyNotify, vanilla_FromSmsgDuelComplete,
    vanilla_FromCmsgMountspecialAnim, vanilla_FromCmsgPetAbandon, vanilla_FromSmsgPetSpells,
    vanilla_FromCmsgGossipHello, vanilla_FromCmsgNpcTextQuery,
    vanilla_FromSmsgQuestgiverQuestList, vanilla_FromSmsgQuestgiverQuestDetails,
    vanilla_FromSmsgQuestgiverRequestItems, vanilla_FromSmsgQuestgiverOfferReward,
    vanilla_FromCmsgQuestgiverCancel, vanilla_FromSmsgQuestlogFull,
    vanilla_FromCmsgQuestConfirmAccept>>
=============================================================================
