------------------------ MODULE VanillaMessagesLow ------------------------
(*****************************************************************************)
(* The messages of the 1.12 version of the world protocol from CMSG_BOOTME   *)
(* to CMSG_LIST_INVENTORY, in the order of                                   *)
(* src/wow_world_messages_c/src/vanilla.c.                                   *)
(*                                                                           *)
(* A message is a function from its wires to records of what its functions   *)
(* do on them. Neighbours are defined together, in a record named for the    *)
(* first. A message of which every function does what that of an earlier     *)
(* message does is defined as that message.                                  *)
(*****************************************************************************)
EXTENDS VanillaStructs

vanilla_FromCmsgBootme ==
  [CMSG_BOOTME |-> EmptyCmsg(0),
   CMSG_DBLOOKUP |-> [w \in OfLength |->
     Cmsg(Free({"query"}), Minimum(1) \o Null({"query"}) \o Cstring("query", w),
          WRITE_CSTRING(w), 1 + w.len)],
   CMSG_WORLD_TELEPORT |-> [w \in {Fixed} |->
     Cmsg({}, Minimum(24) \o Ints(<<4, 4>>) \o Vector3d.read \o Ints(<<4>>),
          2 * 4 + Vector3d.written + 4, 24)]]

vanilla_FromCmsgTeleportToUnit ==
  [CMSG_TELEPORT_TO_UNIT |-> [w \in OfLength |->
     Cmsg(Free({"name"}), Minimum(1) \o Null({"name"}) \o Cstring("name", w),
          WRITE_CSTRING(w), 1 + w.len)],
   CMSG_CHAR_CREATE |-> [w \in OfLength |->
     Cmsg(
       Free({"name"}), Minimum(10) \o Null({"name"}) \o Cstring("name", w) \o Ints(Repeat(9, 1)),
       WRITE_CSTRING(w) + 9 * 1, 10 + w.len)],
   CMSG_CHAR_ENUM |-> EmptyCmsg(0)]

vanilla_FromCmsgCharDelete ==
  [CMSG_CHAR_DELETE |-> PlainCmsg(8, <<8>>, 8, 8),
   SMSG_CHAR_CREATE |-> PlainSmsg(1, <<1>>, 1, 1),
   SMSG_CHAR_ENUM |-> [w \in OfLengthAndCount |->
     Smsg(
       FreeEach("characters", w.count, vanilla_Character(w).free),
       Minimum(1) \o Null({"characters"}) \o Ints(<<1>>)
       \o Array("characters", w.count, vanilla_Character(w).free, vanilla_Character(w).read),
       1 + w.count * vanilla_Character(w).written, 1 + w.count * vanilla_Character(w).size)]]

vanilla_FromSmsgCharDelete ==
  [SMSG_CHAR_DELETE |-> PlainSmsg(1, <<1>>, 1, 1),
   CMSG_PLAYER_LOGIN |-> PlainCmsg(8, <<8>>, 8, 8),
   SMSG_NEW_WORLD |-> [w \in {Fixed} |->
     Smsg({}, Minimum(20) \o Ints(<<4>>) \o Vector3d.read \o Ints(<<4>>),
          4 + Vector3d.written + 4, 20)]]

vanilla_FromSmsgTransferPending ==
  [SMSG_TRANSFER_PENDING |-> [w \in Wires({0}, {0}, {}, {"has_transport"}) |->
     Smsg(
       Free({"has_transport"}),
       Counted(4, Minimum(4) \o Null({"has_transport"}) \o Ints(<<4>>))
       \o Optional("has_transport", {}, Ints(<<4, 4>>)),
       4 + Bytes(Is(w, "has_transport"), 2 * 4), 4 + Bytes(Is(w, "has_transport"), 8))],
   SMSG_TRANSFER_ABORTED |-> PlainSmsg(6, <<4, 1, 1>>, 4 + 2 * 1, 6)]

vanilla_FromSmsgCharacterLoginFailed ==
  [SMSG_CHARACTER_LOGIN_FAILED |-> PlainSmsg(1, <<1>>, 1, 1),
   SMSG_LOGIN_SETTIMESPEED |-> PlainSmsg(8, <<4, 4>>, 2 * 4, 8),
   CMSG_PLAYER_LOGOUT |-> EmptyCmsg(0),
   CMSG_LOGOUT_REQUEST |-> EmptyCmsg(0),
   SMSG_LOGOUT_RESPONSE |-> PlainSmsg(5, <<4, 1>>, 4 + 1, 5)]

vanilla_FromSmsgLogoutComplete ==
  [SMSG_LOGOUT_COMPLETE |-> EmptySmsg(0),
   CMSG_LOGOUT_CANCEL |-> EmptyCmsg(0),
   SMSG_LOGOUT_CANCEL_ACK |-> EmptySmsg(0),
   CMSG_NAME_QUERY |-> PlainCmsg(8, <<8>>, 8, 8)]

vanilla_FromSmsgNameQueryResponse ==
  [SMSG_NAME_QUERY_RESPONSE |-> [w \in OfLength |->
     Smsg(
       Free({"character_name", "realm_name"}),
       Minimum(22) \o Null({"character_name", "realm_name"}) \o Ints(<<8>>)
       \o Cstring("character_name", w) \o Cstring("realm_name", w) \o Ints(<<4, 4, 4>>),
       8 + 2 * WRITE_CSTRING(w) + 3 * 4, 22 + 2 * w.len)],
   CMSG_PET_NAME_QUERY |-> PlainCmsg(12, <<4, 8>>, 4 + 8, 12)]

vanilla_FromSmsgPetNameQueryResponse ==
  [SMSG_PET_NAME_QUERY_RESPONSE |-> [w \in OfLength |->
     Smsg(Free({"name"}),
          Minimum(9) \o Null({"name"}) \o Ints(<<4>>) \o Cstring("name", w) \o Ints(<<4>>),
          4 + WRITE_CSTRING(w) + 4, 9 + w.len)],
   CMSG_GUILD_QUERY |-> PlainCmsg(4, <<4>>, 4, 4)]

vanilla_FromSmsgGuildQueryResponse ==
  [SMSG_GUILD_QUERY_RESPONSE |-> [w \in OfLength |->
     Smsg(
       Free({"name"}) \union FreeFixed("rank_names", 10, Free({"text"})),
       Minimum(35) \o Null({"name"}) \o Each("rank_names", 10, Null({"text"})) \o Ints(<<4>>)
       \o Cstring("name", w) \o Each("rank_names", 10, Cstring("text", w)) \o Ints(Repeat(5, 4)),
       4 + WRITE_CSTRING(w) + 10 * WRITE_CSTRING(w) + 5 * 4, 25 + w.len + 10 * (1 + w.len))],
   CMSG_ITEM_QUERY_SINGLE |-> PlainCmsg(12, <<4, 8>>, 4 + 8, 12)]

vanilla_FromSmsgItemQuerySingleResponse ==
  [SMSG_ITEM_QUERY_SINGLE_RESPONSE |-> [w \in Wires(Lengths, {0}, {}, {"found"}) |->
     Smsg(
       FreeOptional("found", Free({"name1", "name2", "name3", "name4", "description"})),
       Counted(4, Minimum(4) \o Null({"found"}) \o Ints(<<4>>))
       \o Optional(
            "found", Free({"name1", "name2", "name3", "name4", "description"}),
            Null({"name1", "name2", "name3", "name4", "description"}) \o Ints(<<8>>)
            \o Cstring("name1", w) \o Cstring("name2", w) \o Cstring("name3", w)
            \o Cstring("name4", w) \o Ints(Repeat(20, 4))
            \o Each("stats", 10, vanilla_ItemStat.read)
            \o Each("damages", 5, vanilla_ItemDamageType.read) \o Ints(Repeat(10, 4))
            \o Each("spells", 5, vanilla_ItemSpells.read) \o Ints(<<4>>)
            \o Cstring("description", w) \o Ints(Repeat(14, 4))),
       4
       + Bytes(
           Is(w, "found"),
           8 + 4 * WRITE_CSTRING(w) + 20 * 4 + 10 * vanilla_ItemStat.written
           + 5 * vanilla_ItemDamageType.written + 10 * 4 + 5 * vanilla_ItemSpells.written + 4
           + WRITE_CSTRING(w) + 14 * 4), 4 + Bytes(Is(w, "found"), 453 + 5 * w.len))]]

vanilla_FromCmsgPageTextQuery ==
  [CMSG_PAGE_TEXT_QUERY |-> PlainCmsg(4, <<4>>, 4, 4),
   SMSG_PAGE_TEXT_QUERY_RESPONSE |-> [w \in OfLength |->
     Smsg(Free({"text"}),
          Minimum(9) \o Null({"text"}) \o Ints(<<4>>) \o Cstring("text", w) \o Ints(<<4>>),
          4 + WRITE_CSTRING(w) + 4, 9 + w.len)],
   CMSG_QUEST_QUERY |-> PlainCmsg(4, <<4>>, 4, 4)]

vanilla_FromSmsgQuestQueryResponse ==
  [SMSG_QUEST_QUERY_RESPONSE |-> [w \in OfLength |->
     Smsg(
       Free({"title", "objective_text", "details", "end_text"})
       \union FreeFixed("objective_texts", 4, Free({"text"})),
       Minimum(224) \o Null({"title", "objective_text", "details", "end_text"})
       \o Each("objective_texts", 4, Null({"text"}))
       \o Ints(Repeat(5, 4) \o <<2, 4, 2>> \o Repeat(7, 4))
       \o Each("rewards", 4, vanilla_QuestItemReward.read)
       \o Each("choice_rewards", 6, vanilla_QuestItemReward.read) \o Ints(<<4>>) \o Vector2d.read
       \o Ints(<<4>>) \o Cstring("title", w) \o Cstring("objective_text", w)
       \o Cstring("details", w) \o Cstring("end_text", w)
       \o Each("objectives", 4, vanilla_QuestObjective.read)
       \o Each("objective_texts", 4, Cstring("text", w)),
       5 * 4 + 2 + 4 + 2 + 7 * 4 + 4 * vanilla_QuestItemReward.written
       + 6 * vanilla_QuestItemReward.written + 4 + Vector2d.written + 4 + 4 * WRITE_CSTRING(w)
       + 4 * vanilla_QuestObjective.written + 4 * WRITE_CSTRING(w),
       220 + 4 * w.len + 4 * (1 + w.len))]]

vanilla_FromCmsgGameobjectQuery ==
  [CMSG_GAMEOBJECT_QUERY |-> PlainCmsg(12, <<4, 8>>, 4 + 8, 12)]

vanilla_FromSmsgGameobjectQueryResponse ==
  [SMSG_GAMEOBJECT_QUERY_RESPONSE |-> [w \in Wires(Lengths, {0}, {}, {"found"}) |->
     Smsg(
       FreeOptional("found", Free({"name1", "name2", "name3", "name4", "name5"})),
       Counted(4, Minimum(4) \o Null({"found"}) \o Ints(<<4>>))
       \o Optional(
            "found", Free({"name1", "name2", "name3", "name4", "name5"}),
            Null({"name1", "name2", "name3", "name4", "name5"}) \o Ints(<<4, 4>>)
            \o Cstring("name1", w) \o Cstring("name2", w) \o Cstring("name3", w)
            \o Cstring("name4", w) \o Cstring("name5", w) \o Ints(Repeat(6, 4))),
       4 + Bytes(Is(w, "found"), 2 * 4 + 5 * WRITE_CSTRING(w) + 6 * 4),
       4 + Bytes(Is(w, "found"), 37 + 5 * w.len))]]

vanilla_FromCmsgCreatureQuery ==
  [CMSG_CREATURE_QUERY |-> PlainCmsg(12, <<4, 8>>, 4 + 8, 12)]

vanilla_FromSmsgCreatureQueryResponse ==
  [SMSG_CREATURE_QUERY_RESPONSE |-> [w \in Wires(Lengths, {0}, {}, {"found"}) |->
     Smsg(
       FreeOptional("found", Free({"name1", "name2", "name3", "name4", "sub_name"})),
       Counted(4, Minimum(4) \o Null({"found"}) \o Ints(<<4>>))
       \o Optional(
            "found", Free({"name1", "name2", "name3", "name4", "sub_name"}),
            Null({"name1", "name2", "name3", "name4", "sub_name"}) \o Cstring("name1", w)
            \o Cstring("name2", w) \o Cstring("name3", w) \o Cstring("name4", w)
            \o Cstring("sub_name", w) \o Ints(Repeat(7, 4) \o <<1, 1>>)),
       4 + Bytes(Is(w, "found"), 5 * WRITE_CSTRING(w) + 7 * 4 + 2 * 1),
       4 + Bytes(Is(w, "found"), 35 + 5 * w.len))]]

vanilla_FromCmsgWho ==
  [CMSG_WHO |-> [w \in OfLengthAndCount |->
     Cmsg(
       Free({"player_name", "guild_name", "zones"})
       \union FreeEach("search_strings", w.count, Free({"text"})),
       Minimum(26) \o Null({"player_name", "guild_name", "zones", "search_strings"})
       \o Ints(<<4, 4>>) \o Cstring("player_name", w) \o Cstring("guild_name", w)
       \o Ints(<<4, 4, 4>>) \o Calloc("zones", w.count, {}) \o Ints(Repeat(w.count, 4) \o <<4>>)
       \o Array("search_strings", w.count, Free({"text"}), Cstring("text", w)),
       2 * 4 + 2 * WRITE_CSTRING(w) + 3 * 4 + w.count * 4 + 4 + w.count * WRITE_CSTRING(w),
       26 + 2 * w.len + 4 * w.count + w.count * (1 + w.len))]]

vanilla_FromSmsgWho ==
  [SMSG_WHO |-> [w \in OfLengthAndCount |->
     Smsg(
       FreeEach("players", w.count, vanilla_WhoPlayer(w).free),
       Minimum(8) \o Null({"players"}) \o Ints(<<4, 4>>)
       \o Array("players", w.count, vanilla_WhoPlayer(w).free, vanilla_WhoPlayer(w).read),
       2 * 4 + w.count * vanilla_WhoPlayer(w).written, 8 + w.count * vanilla_WhoPlayer(w).size)],
   CMSG_WHOIS |-> [w \in OfLength |->
     Cmsg(Free({"character"}), Minimum(1) \o Null({"character"}) \o Cstring("character", w),
          WRITE_CSTRING(w), 1 + w.len)]]

vanilla_FromSmsgWhois ==
  [SMSG_WHOIS |-> [w \in OfLength |->
     Smsg(Free({"message"}), Minimum(1) \o Null({"message"}) \o Cstring("message", w),
          WRITE_CSTRING(w), 1 + w.len)],
   CMSG_FRIEND_LIST |-> EmptyCmsg(0),
   SMSG_FRIEND_LIST |->
     [w \in Wires({0}, Counts, {{"FRIEND_STATUS_ONLINE", "FRIEND_STATUS_OFFLINE"}}, {}) |->
       Smsg(
         Free({"friends"}),
         Minimum(1) \o Null({"friends"}) \o Ints(<<1>>)
         \o Array("friends", w.count, {}, vanilla_Friend(w).read),
         1 + w.count * vanilla_Friend(w).written, 1 + w.count * vanilla_Friend(w).size)]]

vanilla_FromSmsgFriendStatus ==
  [SMSG_FRIEND_STATUS |-> PlainSmsg(9, <<1, 8>>, 1 + 8, 9),
   CMSG_ADD_FRIEND |-> [w \in OfLength |->
     Cmsg(Free({"name"}), Minimum(1) \o Null({"name"}) \o Cstring("name", w),
          WRITE_CSTRING(w), 1 + w.len)],
   CMSG_DEL_FRIEND |-> PlainCmsg(8, <<8>>, 8, 8)]

vanilla_FromSmsgIgnoreList ==
  [SMSG_IGNORE_LIST |-> [w \in OfCount |->
     Smsg(Free({"ignored"}),
          Minimum(1) \o Null({"ignored"}) \o Ints(<<1>>) \o Calloc("ignored", w.count, {})
          \o Ints(Repeat(w.count, 8)), 1 + w.count * 8, 1 + 8 * w.count)],
   CMSG_ADD_IGNORE |-> [w \in OfLength |->
     Cmsg(Free({"name"}), Minimum(1) \o Null({"name"}) \o Cstring("name", w),
          WRITE_CSTRING(w), 1 + w.len)],
   CMSG_DEL_IGNORE |-> PlainCmsg(8, <<8>>, 8, 8)]

vanilla_FromCmsgGroupInvite ==
  [CMSG_GROUP_INVITE |-> [w \in OfLength |->
     Cmsg(Free({"name"}), Minimum(1) \o Null({"name"}) \o Cstring("name", w),
          WRITE_CSTRING(w), 1 + w.len)],
   SMSG_GROUP_INVITE |-> [w \in OfLength |->
     Smsg(Free({"name"}), Minimum(1) \o Null({"name"}) \o Cstring("name", w),
          WRITE_CSTRING(w), 1 + w.len)],
   CMSG_GROUP_ACCEPT |-> EmptyCmsg(0),
   CMSG_GROUP_DECLINE |-> EmptyCmsg(0)]

vanilla_FromSmsgGroupDecline ==
  [SMSG_GROUP_DECLINE |-> [w \in OfLength |->
     Smsg(Free({"name"}), Minimum(1) \o Null({"name"}) \o Cstring("name", w),
          WRITE_CSTRING(w), 1 + w.len)],
   CMSG_GROUP_UNINVITE |-> [w \in OfLength |->
     Cmsg(Free({"name"}), Minimum(1) \o Null({"name"}) \o Cstring("name", w),
          WRITE_CSTRING(w), 1 + w.len)],
   CMSG_GROUP_UNINVITE_GUID |-> PlainCmsg(8, <<8>>, 8, 8),
   SMSG_GROUP_UNINVITE |-> EmptySmsg(0)]

vanilla_FromCmsgGroupSetLeader ==
  [CMSG_GROUP_SET_LEADER |-> PlainCmsg(8, <<8>>, 8, 8),
   SMSG_GROUP_SET_LEADER |-> [w \in OfLength |->
     Smsg(Free({"name"}), Minimum(1) \o Null({"name"}) \o Cstring("name", w),
          WRITE_CSTRING(w), 1 + w.len)],
   CMSG_LOOT_METHOD |-> PlainCmsg(16, <<4, 8, 4>>, 4 + 8 + 4, 16),
   CMSG_GROUP_DISBAND |-> EmptyCmsg(0)]

vanilla_FromSmsgGroupDestroyed ==
  [SMSG_GROUP_DESTROYED |-> EmptySmsg(0),
   SMSG_GROUP_LIST |-> [w \in Wires(Lengths, Counts, {}, {"group_not_empty"}) |->
     Smsg(
       Free({"group_not_empty"})
       \union FreeEach("members", w.count, vanilla_GroupListMember(w).free),
       Counted(
         14 + w.count * vanilla_GroupListMember(w).size,
         Minimum(14) \o Null({"group_not_empty", "members"}) \o Ints(<<1, 1, 4>>)
         \o Array("members", w.count, vanilla_GroupListMember(w).free,
                  vanilla_GroupListMember(w).read) \o Ints(<<8>>))
       \o Optional("group_not_empty", {}, Ints(<<1, 8, 1>>)),
       2 * 1 + 4 + w.count * vanilla_GroupListMember(w).written + 8
       + Bytes(Is(w, "group_not_empty"), 1 + 8 + 1),
       14 + w.count * vanilla_GroupListMember(w).size + Bytes(Is(w, "group_not_empty"), 10))]]

vanilla_FromSmsgPartyMemberStats ==
  [SMSG_PARTY_MEMBER_STATS |->
     [w \in Wires(
              Lengths, {0}, {},
              {"GROUP_UPDATE_FLAGS_STATUS", "GROUP_UPDATE_FLAGS_CUR_HP", "GROUP_UPDATE_FLAGS_MAX_HP",
               "GROUP_UPDATE_FLAGS_POWER_TYPE", "GROUP_UPDATE_FLAGS_CUR_POWER",
               "GROUP_UPDATE_FLAGS_MAX_POWER", "GROUP_UPDATE_FLAGS_LEVEL", "GROUP_UPDATE_FLAGS_ZONE",
               "GROUP_UPDATE_FLAGS_POSITION", "GROUP_UPDATE_FLAGS_AURAS",
               "GROUP_UPDATE_FLAGS_AURAS_2", "GROUP_UPDATE_FLAGS_PET_GUID",
               "GROUP_UPDATE_FLAGS_PET_NAME", "GROUP_UPDATE_FLAGS_PET_MODEL_ID",
               "GROUP_UPDATE_FLAGS_PET_CUR_HP", "GROUP_UPDATE_FLAGS_PET_MAX_HP",
               "GROUP_UPDATE_FLAGS_PET_POWER_TYPE", "GROUP_UPDATE_FLAGS_PET_CUR_POWER",
               "GROUP_UPDATE_FLAGS_PET_MAX_POWER", "GROUP_UPDATE_FLAGS_PET_AURAS"}) |->
       Smsg(
         FreeIf("mask", {"GROUP_UPDATE_FLAGS_PET_NAME"}, Free({"pet_name"})),
         Minimum(5) \o Null({"pet_name"}) \o PackedGuid(w) \o Field(4, "mask", {}, w)
         \o When(Is(w, "GROUP_UPDATE_FLAGS_STATUS"), Ints(<<1>>))
         \o When(Is(w, "GROUP_UPDATE_FLAGS_CUR_HP"), Ints(<<2>>))
         \o When(Is(w, "GROUP_UPDATE_FLAGS_MAX_HP"), Ints(<<2>>))
         \o When(Is(w, "GROUP_UPDATE_FLAGS_POWER_TYPE"), Ints(<<1>>))
         \o When(Is(w, "GROUP_UPDATE_FLAGS_CUR_POWER"), Ints(<<2>>))
         \o When(Is(w, "GROUP_UPDATE_FLAGS_MAX_POWER"), Ints(<<2>>))
         \o When(Is(w, "GROUP_UPDATE_FLAGS_LEVEL"), Ints(<<2>>))
         \o When(Is(w, "GROUP_UPDATE_FLAGS_ZONE"), Ints(<<4>>))
         \o When(Is(w, "GROUP_UPDATE_FLAGS_POSITION"), Ints(<<2, 2>>))
         \o When(Is(w, "GROUP_UPDATE_FLAGS_AURAS"), vanilla_aura_mask(w))
         \o When(Is(w, "GROUP_UPDATE_FLAGS_AURAS_2"), vanilla_aura_mask(w))
         \o When(Is(w, "GROUP_UPDATE_FLAGS_PET_GUID"), Ints(<<8>>))
         \o When(Is(w, "GROUP_UPDATE_FLAGS_PET_NAME"), Cstring("pet_name", w))
         \o When(Is(w, "GROUP_UPDATE_FLAGS_PET_MODEL_ID"), Ints(<<2>>))
         \o When(Is(w, "GROUP_UPDATE_FLAGS_PET_CUR_HP"), Ints(<<2>>))
         \o When(Is(w, "GROUP_UPDATE_FLAGS_PET_MAX_HP"), Ints(<<2>>))
         \o When(Is(w, "GROUP_UPDATE_FLAGS_PET_POWER_TYPE"), Ints(<<1>>))
         \o When(Is(w, "GROUP_UPDATE_FLAGS_PET_CUR_POWER"), Ints(<<2>>))
         \o When(Is(w, "GROUP_UPDATE_FLAGS_PET_MAX_POWER"), Ints(<<2>>))
         \o When(Is(w, "GROUP_UPDATE_FLAGS_PET_AURAS"), vanilla_aura_mask(w)),
         WRITE_PACKED_GUID(w) + 4 + Bytes(Is(w, "GROUP_UPDATE_FLAGS_STATUS"), 1)
         + Bytes(Is(w, "GROUP_UPDATE_FLAGS_CUR_HP"), 2)
         + Bytes(Is(w, "GROUP_UPDATE_FLAGS_MAX_HP"), 2)
         + Bytes(Is(w, "GROUP_UPDATE_FLAGS_POWER_TYPE"), 1)
         + Bytes(Is(w, "GROUP_UPDATE_FLAGS_CUR_POWER"), 2)
         + Bytes(Is(w, "GROUP_UPDATE_FLAGS_MAX_POWER"), 2)
         + Bytes(Is(w, "GROUP_UPDATE_FLAGS_LEVEL"), 2) + Bytes(Is(w, "GROUP_UPDATE_FLAGS_ZONE"), 4)
         + Bytes(Is(w, "GROUP_UPDATE_FLAGS_POSITION"), 2 * 2)
         + Bytes(Is(w, "GROUP_UPDATE_FLAGS_AURAS"), vanilla_aura_mask_written(w))
         + Bytes(Is(w, "GROUP_UPDATE_FLAGS_AURAS_2"), vanilla_aura_mask_written(w))
         + Bytes(Is(w, "GROUP_UPDATE_FLAGS_PET_GUID"), 8)
         + Bytes(Is(w, "GROUP_UPDATE_FLAGS_PET_NAME"), WRITE_CSTRING(w))
         + Bytes(Is(w, "GROUP_UPDATE_FLAGS_PET_MODEL_ID"), 2)
         + Bytes(Is(w, "GROUP_UPDATE_FLAGS_PET_CUR_HP"), 2)
         + Bytes(Is(w, "GROUP_UPDATE_FLAGS_PET_MAX_HP"), 2)
         + Bytes(Is(w, "GROUP_UPDATE_FLAGS_PET_POWER_TYPE"), 1)
         + Bytes(Is(w, "GROUP_UPDATE_FLAGS_PET_CUR_POWER"), 2)
         + Bytes(Is(w, "GROUP_UPDATE_FLAGS_PET_MAX_POWER"), 2)
         + Bytes(Is(w, "GROUP_UPDATE_FLAGS_PET_AURAS"), vanilla_aura_mask_written(w)),
         4 + wwm_packed_guid_size(w) + Bytes(Is(w, "GROUP_UPDATE_FLAGS_STATUS"), 1)
         + Bytes(Is(w, "GROUP_UPDATE_FLAGS_CUR_HP"), 2)
         + Bytes(Is(w, "GROUP_UPDATE_FLAGS_MAX_HP"), 2)
         + Bytes(Is(w, "GROUP_UPDATE_FLAGS_POWER_TYPE"), 1)
         + Bytes(Is(w, "GROUP_UPDATE_FLAGS_CUR_POWER"), 2)
         + Bytes(Is(w, "GROUP_UPDATE_FLAGS_MAX_POWER"), 2)
         + Bytes(Is(w, "GROUP_UPDATE_FLAGS_LEVEL"), 2) + Bytes(Is(w, "GROUP_UPDATE_FLAGS_ZONE"), 4)
         + Bytes(Is(w, "GROUP_UPDATE_FLAGS_POSITION"), 4)
         + Bytes(Is(w, "GROUP_UPDATE_FLAGS_AURAS"), vanilla_aura_mask_size(w))
         + Bytes(Is(w, "GROUP_UPDATE_FLAGS_AURAS_2"), vanilla_aura_mask_size(w))
         + Bytes(Is(w, "GROUP_UPDATE_FLAGS_PET_GUID"), 8)
         + Bytes(Is(w, "GROUP_UPDATE_FLAGS_PET_NAME"), 1 + w.len)
         + Bytes(Is(w, "GROUP_UPDATE_FLAGS_PET_MODEL_ID"), 2)
         + Bytes(Is(w, "GROUP_UPDATE_FLAGS_PET_CUR_HP"), 2)
         + Bytes(Is(w, "GROUP_UPDATE_FLAGS_PET_MAX_HP"), 2)
         + Bytes(Is(w, "GROUP_UPDATE_FLAGS_PET_POWER_TYPE"), 1)
         + Bytes(Is(w, "GROUP_UPDATE_FLAGS_PET_CUR_POWER"), 2)
         + Bytes(Is(w, "GROUP_UPDATE_FLAGS_PET_MAX_POWER"), 2)
         + Bytes(Is(w, "GROUP_UPDATE_FLAGS_PET_AURAS"), vanilla_aura_mask_size(w)))]]

vanilla_FromSmsgPartyCommandResult ==
  [SMSG_PARTY_COMMAND_RESULT |-> [w \in OfLength |->
     Smsg(Free({"member"}),
          Minimum(9) \o Null({"member"}) \o Ints(<<4>>) \o Cstring("member", w) \o Ints(<<4>>),
          4 + WRITE_CSTRING(w) + 4, 9 + w.len)],
   CMSG_GUILD_CREATE |-> [w \in OfLength |->
     Cmsg(Free({"guild_name"}), Minimum(1) \o Null({"guild_name"}) \o Cstring("guild_name", w),
          WRITE_CSTRING(w), 1 + w.len)],
   CMSG_GUILD_INVITE |-> [w \in OfLength |->
     Cmsg(Free({"invited_player"}),
          Minimum(1) \o Null({"invited_player"}) \o Cstring("invited_player", w),
          WRITE_CSTRING(w), 1 + w.len)]]

vanilla_FromSmsgGuildInvite ==
  [SMSG_GUILD_INVITE |-> [w \in OfLength |->
     Smsg(Free({"player_name", "guild_name"}),
          Minimum(2) \o Null({"player_name", "guild_name"}) \o Cstring("player_name", w)
          \o Cstring("guild_name", w), 2 * WRITE_CSTRING(w), 2 + 2 * w.len)],
   CMSG_GUILD_ACCEPT |-> EmptyCmsg(0),
   CMSG_GUILD_DECLINE |-> EmptyCmsg(0),
   CMSG_GUILD_INFO |-> EmptyCmsg(0)]

vanilla_FromSmsgGuildInfo ==
  [SMSG_GUILD_INFO |-> [w \in OfLength |->
     Smsg(Free({"guild_name"}),
          Minimum(21) \o Null({"guild_name"}) \o Cstring("guild_name", w) \o Ints(Repeat(5, 4)),
          WRITE_CSTRING(w) + 5 * 4, 21 + w.len)],
   CMSG_GUILD_ROSTER |-> EmptyCmsg(0)]

vanilla_FromSmsgGuildRoster ==
  [SMSG_GUILD_ROSTER |->
     [w \in Wires(Lengths, Counts, {{"GUILD_MEMBER_STATUS_OFFLINE", "GUILD_MEMBER_STATUS_ONLINE"}},
                  {}) |->
       Smsg(
         Free({"motd", "guild_info", "rights"})
         \union FreeEach("members", w.count, vanilla_GuildMember(w).free),
         Minimum(10) \o Null({"motd", "guild_info", "rights", "members"}) \o Ints(<<4>>)
         \o Cstring("motd", w) \o Cstring("guild_info", w) \o Ints(<<4>>)
         \o Calloc("rights", w.count, {}) \o Ints(Repeat(w.count, 4))
         \o Array("members", w.count, vanilla_GuildMember(w).free, vanilla_GuildMember(w).read),
         4 + 2 * WRITE_CSTRING(w) + 4 + w.count * 4 + w.count * vanilla_GuildMember(w).written,
         10 + 2 * w.len + 4 * w.count + w.count * vanilla_GuildMember(w).size)],
   CMSG_GUILD_PROMOTE |-> [w \in OfLength |->
     Cmsg(Free({"player_name"}), Minimum(1) \o Null({"player_name"}) \o Cstring("player_name", w),
          WRITE_CSTRING(w), 1 + w.len)]]

vanilla_FromCmsgGuildDemote ==
  [CMSG_GUILD_DEMOTE |-> vanilla_FromSmsgGuildRoster.CMSG_GUILD_PROMOTE,
   CMSG_GUILD_LEAVE |-> EmptyCmsg(0),
   CMSG_GUILD_REMOVE |-> vanilla_FromSmsgGuildRoster.CMSG_GUILD_PROMOTE,
   CMSG_GUILD_DISBAND |-> EmptyCmsg(0)]

vanilla_FromCmsgGuildLeader ==
  [CMSG_GUILD_LEADER |-> [w \in OfLength |->
     Cmsg(Free({"new_guild_leader_name"}),
          Minimum(1) \o Null({"new_guild_leader_name"}) \o Cstring("new_guild_leader_name", w),
          WRITE_CSTRING(w), 1 + w.len)],
   CMSG_GUILD_MOTD |-> [w \in OfLength |->
     Cmsg(Free({"message_of_the_day"}),
          Minimum(1) \o Null({"message_of_the_day"}) \o Cstring("message_of_the_day", w),
          WRITE_CSTRING(w), 1 + w.len)]]

vanilla_FromSmsgGuildEvent ==
  [SMSG_GUILD_EVENT |-> [w \in OfLengthAndCount |->
     Smsg(
       FreeEach("event_descriptions", w.count, Free({"text"})),
       Minimum(2) \o Null({"event_descriptions"}) \o Ints(<<1, 1>>)
       \o Array("event_descriptions", w.count, Free({"text"}), Cstring("text", w)),
       2 * 1 + w.count * WRITE_CSTRING(w), 2 + w.count * (1 + w.len))],
   SMSG_GUILD_COMMAND_RESULT |-> [w \in OfLength |->
     Smsg(Free({"string"}),
          Minimum(9) \o Null({"string"}) \o Ints(<<4>>) \o Cstring("string", w) \o Ints(<<4>>),
          4 + WRITE_CSTRING(w) + 4, 9 + w.len)]]

vanilla_FromCmsgMessagechat ==
  [CMSG_MESSAGECHAT |->
     [w \in Wires(
              Lengths, {0}, {{"CHAT_TYPE_WHISPER", "CHAT_TYPE_CHANNEL", "CHAT_TYPE_SAY"}}, {}) |->
       Cmsg(
         Free({"message"})
         \union FreeIf("chat_type", {"CHAT_TYPE_WHISPER"}, Free({"target_player"}))
         \union FreeIf("chat_type", {"CHAT_TYPE_CHANNEL"}, Free({"channel"})),
         Minimum(9) \o Null({"target_player", "channel", "message"}) \o Field(4, "chat_type", {}, w)
         \o Ints(<<4>>) \o When(Is(w, "CHAT_TYPE_WHISPER"), Cstring("target_player", w))
         \o When(Is(w, "CHAT_TYPE_CHANNEL"), Cstring("channel", w)) \o Cstring("message", w),
         2 * 4 + Bytes(Is(w, "CHAT_TYPE_WHISPER"), WRITE_CSTRING(w))
         + Bytes(Is(w, "CHAT_TYPE_CHANNEL"), WRITE_CSTRING(w)) + WRITE_CSTRING(w),
         9 + w.len + Bytes(Is(w, "CHAT_TYPE_WHISPER"), 1 + w.len)
         + Bytes(Is(w, "CHAT_TYPE_CHANNEL"), 1 + w.len))]]

vanilla_FromSmsgMessagechat ==
  [SMSG_MESSAGECHAT |->
     [w \in Wires(Lengths, {0},
                  {{"CHAT_TYPE_MONSTER_WHISPER", "CHAT_TYPE_SAY", "CHAT_TYPE_MONSTER_SAY",
                    "CHAT_TYPE_CHANNEL", "CHAT_TYPE_RAID"}}, {}) |->
       Smsg(
         Free({"message"})
         \union FreeIf("chat_type", {"CHAT_TYPE_MONSTER_WHISPER"}, Free({"monster_name"}))
         \union FreeIf("chat_type", {"CHAT_TYPE_MONSTER_SAY"}, Free({"sender_name"}))
         \union FreeIf("chat_type", {"CHAT_TYPE_CHANNEL"}, Free({"channel_name"})),
         Minimum(19) \o Null({"monster_name", "sender_name", "channel_name", "message"})
         \o Field(1, "chat_type", {}, w) \o Ints(<<4>>)
         \o When(Is(w, "CHAT_TYPE_MONSTER_WHISPER"), SizedCstring("monster_name", w) \o Ints(<<8>>))
         \o When(Is(w, "CHAT_TYPE_SAY"), Ints(<<8, 8>>))
         \o When(Is(w, "CHAT_TYPE_MONSTER_SAY"),
                 Ints(<<8>>) \o SizedCstring("sender_name", w) \o Ints(<<8>>))
         \o When(Is(w, "CHAT_TYPE_CHANNEL"), Cstring("channel_name", w) \o Ints(<<4, 8>>))
         \o When(Is(w, "CHAT_TYPE_RAID"), Ints(<<8>>)) \o SizedCstring("message", w) \o Ints(<<1>>),
         1 + 4 + Bytes(Is(w, "CHAT_TYPE_MONSTER_WHISPER"), WRITE_SIZED_CSTRING(w) + 8)
         + Bytes(Is(w, "CHAT_TYPE_SAY"), 2 * 8)
         + Bytes(Is(w, "CHAT_TYPE_MONSTER_SAY"), 8 + WRITE_SIZED_CSTRING(w) + 8)
         + Bytes(Is(w, "CHAT_TYPE_CHANNEL"), WRITE_CSTRING(w) + 4 + 8)
         + Bytes(Is(w, "CHAT_TYPE_RAID"), 8) + WRITE_SIZED_CSTRING(w) + 1,
         11 + w.len + Bytes(Is(w, "CHAT_TYPE_MONSTER_WHISPER"), 13 + w.len)
         + Bytes(Is(w, "CHAT_TYPE_SAY"), 16) + Bytes(Is(w, "CHAT_TYPE_MONSTER_SAY"), 21 + w.len)
         + Bytes(Is(w, "CHAT_TYPE_CHANNEL"), 13 + w.len) + Bytes(Is(w, "CHAT_TYPE_RAID"), 8))]]

vanilla_FromCmsgJoinChannel ==
  [CMSG_JOIN_CHANNEL |-> [w \in OfLength |->
     Cmsg(Free({"channel_name", "channel_password"}),
          Minimum(2) \o Null({"channel_name", "channel_password"}) \o Cstring("channel_name", w)
          \o Cstring("channel_password", w), 2 * WRITE_CSTRING(w), 2 + 2 * w.len)],
   CMSG_LEAVE_CHANNEL |-> [w \in OfLength |->
     Cmsg(
       Free({"channel_name"}), Minimum(1) \o Null({"channel_name"}) \o Cstring("channel_name", w),
       WRITE_CSTRING(w), 1 + w.len)],
   SMSG_CHANNEL_NOTIFY |-> [w \in OfLength |->
     Smsg(Free({"channel_name"}),
          Minimum(2) \o Null({"channel_name"}) \o Ints(<<1>>) \o Cstring("channel_name", w),
          1 + WRITE_CSTRING(w), 2 + w.len)]]

vanilla_FromCmsgChannelList ==
  [CMSG_CHANNEL_LIST |-> vanilla_FromCmsgJoinChannel.CMSG_LEAVE_CHANNEL,
   SMSG_CHANNEL_LIST |-> [w \in OfLengthAndCount |->
     Smsg(
       Free({"channel_name", "members"}),
       Minimum(6) \o Null({"channel_name", "members"}) \o Cstring("channel_name", w)
       \o Ints(<<1, 4>>) \o Array("members", w.count, {}, vanilla_ChannelMember.read),
       WRITE_CSTRING(w) + 1 + 4 + w.count * vanilla_ChannelMember.written,
       6 + w.len + 9 * w.count)]]

vanilla_FromCmsgChannelPassword ==
  [CMSG_CHANNEL_PASSWORD |-> vanilla_FromCmsgJoinChannel.CMSG_JOIN_CHANNEL,
   CMSG_CHANNEL_SET_OWNER |-> [w \in OfLength |->
     Cmsg(Free({"channel_name", "new_owner"}),
          Minimum(2) \o Null({"channel_name", "new_owner"}) \o Cstring("channel_name", w)
          \o Cstring("new_owner", w), 2 * WRITE_CSTRING(w), 2 + 2 * w.len)]]

vanilla_FromCmsgChannelOwner ==
  [CMSG_CHANNEL_OWNER |-> vanilla_FromCmsgJoinChannel.CMSG_LEAVE_CHANNEL,
   CMSG_CHANNEL_MODERATOR |-> [w \in OfLength |->
     Cmsg(Free({"channel_name", "player_name"}),
          Minimum(2) \o Null({"channel_name", "player_name"}) \o Cstring("channel_name", w)
          \o Cstring("player_name", w), 2 * WRITE_CSTRING(w), 2 + 2 * w.len)]]

vanilla_FromCmsgChannelUnmoderator ==
  [CMSG_CHANNEL_UNMODERATOR |-> vanilla_FromCmsgChannelOwner.CMSG_CHANNEL_MODERATOR,
   CMSG_CHANNEL_MUTE |-> vanilla_FromCmsgChannelOwner.CMSG_CHANNEL_MODERATOR]

vanilla_FromCmsgChannelUnmute ==
  [CMSG_CHANNEL_UNMUTE |-> vanilla_FromCmsgChannelOwner.CMSG_CHANNEL_MODERATOR,
   CMSG_CHANNEL_INVITE |-> vanilla_FromCmsgChannelOwner.CMSG_CHANNEL_MODERATOR]

vanilla_FromCmsgChannelKick ==
  [CMSG_CHANNEL_KICK |-> vanilla_FromCmsgChannelOwner.CMSG_CHANNEL_MODERATOR,
   CMSG_CHANNEL_BAN |-> vanilla_FromCmsgChannelOwner.CMSG_CHANNEL_MODERATOR]

vanilla_FromCmsgChannelUnban ==
  [CMSG_CHANNEL_UNBAN |-> vanilla_FromCmsgChannelOwner.CMSG_CHANNEL_MODERATOR,
   CMSG_CHANNEL_ANNOUNCEMENTS |-> vanilla_FromCmsgJoinChannel.CMSG_LEAVE_CHANNEL,
   CMSG_CHANNEL_MODERATE |-> vanilla_FromCmsgJoinChannel.CMSG_LEAVE_CHANNEL]

vanilla_FromSmsgUpdateObject ==
  [SMSG_UPDATE_OBJECT |->
     [w \in Wires(Lengths, UpdatedObjects, vanilla_ObjectEnums, vanilla_ObjectFlags) |->
       Smsg(
         FreeEach("objects", w.count, vanilla_Object(w).free),
         Minimum(5) \o Null({"objects"}) \o Ints(<<4, 1>>)
         \o Array("objects", w.count, vanilla_Object(w).free, vanilla_Object(w).read),
         4 + 1 + w.count * vanilla_Object(w).written, 5 + w.count * vanilla_Object(w).size)],
   SMSG_DESTROY_OBJECT |-> PlainSmsg(8, <<8>>, 8, 8)]

vanilla_FromCmsgUseItem ==
  [CMSG_USE_ITEM |-> [w \in Wires(Lengths, {0}, {}, vanilla_SpellCastTargetsFlags) |->
     Cmsg(FreeAt(<<"targets">>, vanilla_SpellCastTargets(w).free),
          Minimum(5) \o Ints(<<1, 1, 1>>) \o At(<<"targets">>, vanilla_SpellCastTargets(w).read),
          3 * 1 + vanilla_SpellCastTargets(w).written, 3 + vanilla_SpellCastTargets(w).size)],
   CMSG_OPEN_ITEM |-> PlainCmsg(2, <<1, 1>>, 2 * 1, 2),
   CMSG_READ_ITEM |-> PlainCmsg(2, <<1, 1>>, 2 * 1, 2)]

vanilla_FromSmsgReadItemOk ==
  [SMSG_READ_ITEM_OK |-> PlainSmsg(8, <<8>>, 8, 8),
   SMSG_READ_ITEM_FAILED |-> PlainSmsg(8, <<8>>, 8, 8),
   SMSG_ITEM_COOLDOWN |-> PlainSmsg(12, <<8, 4>>, 8 + 4, 12),
   CMSG_GAMEOBJ_USE |-> PlainCmsg(8, <<8>>, 8, 8)]

vanilla_FromSmsgGameobjectCustomAnim ==
  [SMSG_GAMEOBJECT_CUSTOM_ANIM |-> PlainSmsg(12, <<8, 4>>, 8 + 4, 12),
   CMSG_AREATRIGGER |-> PlainCmsg(4, <<4>>, 4, 4),
   MSG_MOVE_START_FORWARD_Client |-> [w \in Wires(Lengths, {0}, {}, vanilla_MovementInfoFlags) |->
     Cmsg({}, Minimum(28) \o vanilla_MovementInfo(w).read,
          vanilla_MovementInfo(w).written, vanilla_MovementInfo(w).size)],
   MSG_MOVE_START_FORWARD_Server |-> [w \in Wires(Lengths, {0}, {}, vanilla_MovementInfoFlags) |->
     Smsg({}, Minimum(29) \o PackedGuid(w) \o vanilla_MovementInfo(w).read,
          WRITE_PACKED_GUID(w) + vanilla_MovementInfo(w).written,
          wwm_packed_guid_size(w) + vanilla_MovementInfo(w).size)]]

vanilla_FromMsgMoveStartBackward ==
  [MSG_MOVE_START_BACKWARD_Client |->
     vanilla_FromSmsgGameobjectCustomAnim.MSG_MOVE_START_FORWARD_Client,
   MSG_MOVE_START_BACKWARD_Server |->
     vanilla_FromSmsgGameobjectCustomAnim.MSG_MOVE_START_FORWARD_Server,
   MSG_MOVE_STOP_Client |-> vanilla_FromSmsgGameobjectCustomAnim.MSG_MOVE_START_FORWARD_Client]

vanilla_FromMsgMoveStop ==
  [MSG_MOVE_STOP_Server |-> vanilla_FromSmsgGameobjectCustomAnim.MSG_MOVE_START_FORWARD_Server,
   MSG_MOVE_START_STRAFE_LEFT_Client |->
     vanilla_FromSmsgGameobjectCustomAnim.MSG_MOVE_START_FORWARD_Client,
   MSG_MOVE_START_STRAFE_LEFT_Server |->
     vanilla_FromSmsgGameobjectCustomAnim.MSG_MOVE_START_FORWARD_Server]

vanilla_FromMsgMoveStartStrafeRight ==
  [MSG_MOVE_START_STRAFE_RIGHT_Client |->
     vanilla_FromSmsgGameobjectCustomAnim.MSG_MOVE_START_FORWARD_Client,
   MSG_MOVE_START_STRAFE_RIGHT_Server |->
     vanilla_FromSmsgGameobjectCustomAnim.MSG_MOVE_START_FORWARD_Server,
   MSG_MOVE_STOP_STRAFE_Client |->
     vanilla_FromSmsgGameobjectCustomAnim.MSG_MOVE_START_FORWARD_Client]

vanilla_FromMsgMoveStopStrafe ==
  [MSG_MOVE_STOP_STRAFE_Server |->
     vanilla_FromSmsgGameobjectCustomAnim.MSG_MOVE_START_FORWARD_Server,
   MSG_MOVE_JUMP_Client |-> vanilla_FromSmsgGameobjectCustomAnim.MSG_MOVE_START_FORWARD_Client,
   MSG_MOVE_JUMP_Server |-> vanilla_FromSmsgGameobjectCustomAnim.MSG_MOVE_START_FORWARD_Server]

vanilla_FromMsgMoveStartTurnLeft ==
  [MSG_MOVE_START_TURN_LEFT_Client |->
     vanilla_FromSmsgGameobjectCustomAnim.MSG_MOVE_START_FORWARD_Client,
   MSG_MOVE_START_TURN_LEFT_Server |->
     vanilla_FromSmsgGameobjectCustomAnim.MSG_MOVE_START_FORWARD_Server,
   MSG_MOVE_START_TURN_RIGHT_Client |->
     vanilla_FromSmsgGameobjectCustomAnim.MSG_MOVE_START_FORWARD_Client]

vanilla_FromMsgMoveStartTurnRight ==
  [MSG_MOVE_START_TURN_RIGHT_Server |->
     vanilla_FromSmsgGameobjectCustomAnim.MSG_MOVE_START_FORWARD_Server,
   MSG_MOVE_STOP_TURN_Client |->
     vanilla_FromSmsgGameobjectCustomAnim.MSG_MOVE_START_FORWARD_Client,
   MSG_MOVE_STOP_TURN_Server |->
     vanilla_FromSmsgGameobjectCustomAnim.MSG_MOVE_START_FORWARD_Server]

vanilla_FromMsgMoveStartPitchUp ==
  [MSG_MOVE_START_PITCH_UP_Client |->
     vanilla_FromSmsgGameobjectCustomAnim.MSG_MOVE_START_FORWARD_Client,
   MSG_MOVE_START_PITCH_UP_Server |->
     vanilla_FromSmsgGameobjectCustomAnim.MSG_MOVE_START_FORWARD_Server,
   MSG_MOVE_START_PITCH_DOWN_Client |->
     vanilla_FromSmsgGameobjectCustomAnim.MSG_MOVE_START_FORWARD_Client]

vanilla_FromMsgMoveStartPitchDown ==
  [MSG_MOVE_START_PITCH_DOWN_Server |->
     vanilla_FromSmsgGameobjectCustomAnim.MSG_MOVE_START_FORWARD_Server,
   MSG_MOVE_STOP_PITCH_Client |->
     vanilla_FromSmsgGameobjectCustomAnim.MSG_MOVE_START_FORWARD_Client,
   MSG_MOVE_STOP_PITCH_Server |->
     vanilla_FromSmsgGameobjectCustomAnim.MSG_MOVE_START_FORWARD_Server]

vanilla_FromMsgMoveSetRunMode ==
  [MSG_MOVE_SET_RUN_MODE_Client |->
     vanilla_FromSmsgGameobjectCustomAnim.MSG_MOVE_START_FORWARD_Client,
   MSG_MOVE_SET_RUN_MODE_Server |->
     vanilla_FromSmsgGameobjectCustomAnim.MSG_MOVE_START_FORWARD_Server,
   MSG_MOVE_SET_WALK_MODE_Client |->
     vanilla_FromSmsgGameobjectCustomAnim.MSG_MOVE_START_FORWARD_Client]

vanilla_FromMsgMoveSetWalkMode ==
  [MSG_MOVE_SET_WALK_MODE_Server |->
     vanilla_FromSmsgGameobjectCustomAnim.MSG_MOVE_START_FORWARD_Server,
   MSG_MOVE_TELEPORT_ACK_Client |-> [w \in OfLength |->
     Cmsg({}, Minimum(9) \o PackedGuid(w) \o Ints(<<4, 4>>),
          WRITE_PACKED_GUID(w) + 2 * 4, 8 + wwm_packed_guid_size(w))],
   MSG_MOVE_TELEPORT_ACK_Server |-> [w \in Wires(Lengths, {0}, {}, vanilla_MovementInfoFlags) |->
     Smsg({}, Minimum(33) \o PackedGuid(w) \o Ints(<<4>>) \o vanilla_MovementInfo(w).read,
          WRITE_PACKED_GUID(w) + 4 + vanilla_MovementInfo(w).written,
          4 + wwm_packed_guid_size(w) + vanilla_MovementInfo(w).size)]]

vanilla_FromMsgMoveFallLand ==
  [MSG_MOVE_FALL_LAND_Client |->
     vanilla_FromSmsgGameobjectCustomAnim.MSG_MOVE_START_FORWARD_Client,
   MSG_MOVE_FALL_LAND_Server |->
     vanilla_FromSmsgGameobjectCustomAnim.MSG_MOVE_START_FORWARD_Server,
   MSG_MOVE_START_SWIM_Client |->
     vanilla_FromSmsgGameobjectCustomAnim.MSG_MOVE_START_FORWARD_Client]

vanilla_FromMsgMoveStartSwim ==
  [MSG_MOVE_START_SWIM_Server |->
     vanilla_FromSmsgGameobjectCustomAnim.MSG_MOVE_START_FORWARD_Server,
   MSG_MOVE_STOP_SWIM_Client |->
     vanilla_FromSmsgGameobjectCustomAnim.MSG_MOVE_START_FORWARD_Client,
   MSG_MOVE_STOP_SWIM_Server |->
     vanilla_FromSmsgGameobjectCustomAnim.MSG_MOVE_START_FORWARD_Server]

vanilla_FromMsgMoveSetFacing ==
  [MSG_MOVE_SET_FACING_Client |->
     vanilla_FromSmsgGameobjectCustomAnim.MSG_MOVE_START_FORWARD_Client,
   MSG_MOVE_SET_FACING_Server |->
     vanilla_FromSmsgGameobjectCustomAnim.MSG_MOVE_START_FORWARD_Server,
   MSG_MOVE_SET_PITCH_Client |->
     vanilla_FromSmsgGameobjectCustomAnim.MSG_MOVE_START_FORWARD_Client]

vanilla_FromMsgMoveSetPitch ==
  [MSG_MOVE_SET_PITCH_Server |->
     vanilla_FromSmsgGameobjectCustomAnim.MSG_MOVE_START_FORWARD_Server,
   MSG_MOVE_WORLDPORT_ACK_cmsg |-> EmptyCmsg(0),
   MSG_MOVE_WORLDPORT_ACK_smsg |-> EmptySmsg(0)]

vanilla_FromSmsgMonsterMove ==
  [SMSG_MONSTER_MOVE |->
     [w \in Wires(Lengths, Counts,
                  {{"MONSTER_MOVE_TYPE_FACING_TARGET", "MONSTER_MOVE_TYPE_FACING_ANGLE",
                    "MONSTER_MOVE_TYPE_FACING_SPOT", "MONSTER_MOVE_TYPE_NORMAL"}}, {}) |->
       Smsg(
         FreeSpline("splines"),
         Minimum(30) \o At(<<"splines">>, Null({"splines"})) \o PackedGuid(w) \o Vector3d.read
         \o Ints(<<4, 1>>) \o When(Is(w, "MONSTER_MOVE_TYPE_FACING_TARGET"), Ints(<<8>>))
         \o When(Is(w, "MONSTER_MOVE_TYPE_FACING_ANGLE"), Ints(<<4>>))
         \o When(Is(w, "MONSTER_MOVE_TYPE_FACING_SPOT"), Vector3d.read) \o Ints(<<4, 4>>)
         \o MonsterMoveSpline("splines", w),
         WRITE_PACKED_GUID(w) + Vector3d.written + 4 + 1
         + Bytes(Is(w, "MONSTER_MOVE_TYPE_FACING_TARGET"), 8)
         + Bytes(Is(w, "MONSTER_MOVE_TYPE_FACING_ANGLE"), 4)
         + Bytes(Is(w, "MONSTER_MOVE_TYPE_FACING_SPOT"), Vector3d.written) + 2 * 4
         + WRITE_MONSTER_MOVE_SPLINE(w),
         25 + wwm_packed_guid_size(w) + wwm_monster_move_spline_size(w)
         + Bytes(Is(w, "MONSTER_MOVE_TYPE_FACING_TARGET"), 8)
         + Bytes(Is(w, "MONSTER_MOVE_TYPE_FACING_ANGLE"), 4)
         + Bytes(Is(w, "MONSTER_MOVE_TYPE_FACING_SPOT"), 12))]]

vanilla_FromSmsgMoveWaterWalk ==
  [SMSG_MOVE_WATER_WALK |-> [w \in OfLength |->
     Smsg({}, Minimum(5) \o PackedGuid(w) \o Ints(<<4>>),
          WRITE_PACKED_GUID(w) + 4, 4 + wwm_packed_guid_size(w))],
   SMSG_MOVE_LAND_WALK |-> [w \in OfLength |->
     Smsg({}, Minimum(5) \o PackedGuid(w) \o Ints(<<4>>),
          WRITE_PACKED_GUID(w) + 4, 4 + wwm_packed_guid_size(w))],
   CMSG_MOVE_SET_RAW_POSITION |-> [w \in {Fixed} |->
     Cmsg({}, Minimum(16) \o Vector3d.read \o Ints(<<4>>), Vector3d.written + 4, 16)]]

vanilla_FromSmsgForceRunSpeedChange ==
  [SMSG_FORCE_RUN_SPEED_CHANGE |-> [w \in OfLength |->
     Smsg({}, Minimum(9) \o PackedGuid(w) \o Ints(<<4, 4>>),
          WRITE_PACKED_GUID(w) + 2 * 4, 8 + wwm_packed_guid_size(w))],
   CMSG_FORCE_RUN_SPEED_CHANGE_ACK |->
     [w \in Wires(Lengths, {0}, {}, vanilla_MovementInfoFlags) |->
       Cmsg({}, Minimum(44) \o Ints(<<8, 4>>) \o vanilla_MovementInfo(w).read \o Ints(<<4>>),
            8 + 4 + vanilla_MovementInfo(w).written + 4, 16 + vanilla_MovementInfo(w).size)],
   SMSG_FORCE_RUN_BACK_SPEED_CHANGE |-> [w \in OfLength |->
     Smsg({}, Minimum(9) \o PackedGuid(w) \o Ints(<<4, 4>>),
          WRITE_PACKED_GUID(w) + 2 * 4, 8 + wwm_packed_guid_size(w))]]

vanilla_FromCmsgForceRunBackSpeedChangeAck ==
  [CMSG_FORCE_RUN_BACK_SPEED_CHANGE_ACK |->
     vanilla_FromSmsgForceRunSpeedChange.CMSG_FORCE_RUN_SPEED_CHANGE_ACK,
   SMSG_FORCE_SWIM_SPEED_CHANGE |-> [w \in OfLength |->
     Smsg({}, Minimum(9) \o PackedGuid(w) \o Ints(<<4, 4>>),
          WRITE_PACKED_GUID(w) + 2 * 4, 8 + wwm_packed_guid_size(w))],
   CMSG_FORCE_SWIM_SPEED_CHANGE_ACK |->
     vanilla_FromSmsgForceRunSpeedChange.CMSG_FORCE_RUN_SPEED_CHANGE_ACK]

vanilla_FromSmsgForceMoveRoot ==
  [SMSG_FORCE_MOVE_ROOT |-> PlainSmsg(12, <<8, 4>>, 8 + 4, 12),
   CMSG_FORCE_MOVE_ROOT_ACK |-> [w \in Wires(Lengths, {0}, {}, vanilla_MovementInfoFlags) |->
     Cmsg({}, Minimum(40) \o Ints(<<8, 4>>) \o vanilla_MovementInfo(w).read,
          8 + 4 + vanilla_MovementInfo(w).written, 12 + vanilla_MovementInfo(w).size)],
   SMSG_FORCE_MOVE_UNROOT |-> PlainSmsg(12, <<8, 4>>, 8 + 4, 12)]

vanilla_FromCmsgForceMoveUnrootAck ==
  [CMSG_FORCE_MOVE_UNROOT_ACK |-> vanilla_FromSmsgForceMoveRoot.CMSG_FORCE_MOVE_ROOT_ACK,
   MSG_MOVE_HEARTBEAT_Client |->
     vanilla_FromSmsgGameobjectCustomAnim.MSG_MOVE_START_FORWARD_Client,
   MSG_MOVE_HEARTBEAT_Server |->
     vanilla_FromSmsgGameobjectCustomAnim.MSG_MOVE_START_FORWARD_Server]

vanilla_FromSmsgMoveKnockBack ==
  [SMSG_MOVE_KNOCK_BACK |-> [w \in OfLength |->
     Smsg({}, Minimum(21) \o PackedGuid(w) \o Ints(Repeat(5, 4)),
          WRITE_PACKED_GUID(w) + 5 * 4, 20 + wwm_packed_guid_size(w))],
   CMSG_MOVE_KNOCK_BACK_ACK |-> vanilla_FromSmsgForceMoveRoot.CMSG_FORCE_MOVE_ROOT_ACK,
   SMSG_MOVE_FEATHER_FALL |-> [w \in OfLength |->
     Smsg({}, Minimum(5) \o PackedGuid(w) \o Ints(<<4>>),
          WRITE_PACKED_GUID(w) + 4, 4 + wwm_packed_guid_size(w))]]

vanilla_FromSmsgMoveNormalFall ==
  [SMSG_MOVE_NORMAL_FALL |-> [w \in OfLength |->
     Smsg({}, Minimum(5) \o PackedGuid(w) \o Ints(<<4>>),
          WRITE_PACKED_GUID(w) + 4, 4 + wwm_packed_guid_size(w))],
   SMSG_MOVE_SET_HOVER |-> [w \in OfLength |->
     Smsg({}, Minimum(5) \o PackedGuid(w) \o Ints(<<4>>),
          WRITE_PACKED_GUID(w) + 4, 4 + wwm_packed_guid_size(w))],
   SMSG_MOVE_UNSET_HOVER |-> [w \in OfLength |->
     Smsg({}, Minimum(5) \o PackedGuid(w) \o Ints(<<4>>),
          WRITE_PACKED_GUID(w) + 4, 4 + wwm_packed_guid_size(w))]]

vanilla_FromCmsgMoveHoverAck ==
  [CMSG_MOVE_HOVER_ACK |-> vanilla_FromSmsgForceRunSpeedChange.CMSG_FORCE_RUN_SPEED_CHANGE_ACK,
   SMSG_TRIGGER_CINEMATIC |-> PlainSmsg(4, <<4>>, 4, 4),
   CMSG_NEXT_CINEMATIC_CAMERA |-> EmptyCmsg(0),
   CMSG_COMPLETE_CINEMATIC |-> EmptyCmsg(0),
   SMSG_TUTORIAL_FLAGS |-> PlainSmsg(32, Repeat(8, 4), 8 * 4, 32)]

vanilla_FromCmsgTutorialFlag ==
  [CMSG_TUTORIAL_FLAG |-> PlainCmsg(4, <<4>>, 4, 4),
   CMSG_TUTORIAL_CLEAR |-> EmptyCmsg(0),
   CMSG_TUTORIAL_RESET |-> EmptyCmsg(0),
   CMSG_STANDSTATECHANGE |-> PlainCmsg(4, <<4>>, 4, 4),
   CMSG_EMOTE |-> PlainCmsg(4, <<4>>, 4, 4)]

vanilla_FromSmsgEmote ==
  [SMSG_EMOTE |-> PlainSmsg(12, <<4, 8>>, 4 + 8, 12),
   CMSG_TEXT_EMOTE |-> PlainCmsg(16, <<4, 4, 8>>, 2 * 4 + 8, 16),
   SMSG_TEXT_EMOTE |-> [w \in OfLength |->
     Smsg(Free({"name"}),
          Minimum(21) \o Null({"name"}) \o Ints(<<8, 4, 4>>) \o SizedCstring("name", w),
          8 + 2 * 4 + WRITE_SIZED_CSTRING(w), 21 + w.len)]]

vanilla_FromCmsgAutostoreLootItem ==
  [CMSG_AUTOSTORE_LOOT_ITEM |-> PlainCmsg(1, <<1>>, 1, 1),
   CMSG_AUTOEQUIP_ITEM |-> PlainCmsg(2, <<1, 1>>, 2 * 1, 2),
   CMSG_AUTOSTORE_BAG_ITEM |-> PlainCmsg(3, <<1, 1, 1>>, 3 * 1, 3)]

vanilla_FromCmsgSwapItem ==
  [CMSG_SWAP_ITEM |-> PlainCmsg(4, <<1, 1, 1, 1>>, 4 * 1, 4),
   CMSG_SWAP_INV_ITEM |-> PlainCmsg(2, <<1, 1>>, 2 * 1, 2),
   CMSG_SPLIT_ITEM |-> PlainCmsg(5, Repeat(5, 1), 5 * 1, 5)]

vanilla_FromCmsgAutoequipItemSlot ==
  [CMSG_AUTOEQUIP_ITEM_SLOT |-> PlainCmsg(9, <<8, 1>>, 8 + 1, 9),
   CMSG_DESTROYITEM |-> PlainCmsg(6, Repeat(6, 1), 6 * 1, 6)]

vanilla_FromSmsgInventoryChangeFailure ==
  [SMSG_INVENTORY_CHANGE_FAILURE |->
     [w \in Wires({0}, {0},
                  {{"INVENTORY_RESULT_CANT_EQUIP_LEVEL_I", "INVENTORY_RESULT_CANT_EQUIP_SKILL",
                    "INVENTORY_RESULT_OK"}}, {}) |->
       Smsg(
         {},
         Minimum(1) \o Ints(<<1>>)
         \o When(Is(w, "INVENTORY_RESULT_CANT_EQUIP_LEVEL_I"), Ints(<<4>>))
         \o When(
              IsIn(w, {"INVENTORY_RESULT_CANT_EQUIP_LEVEL_I", "INVENTORY_RESULT_CANT_EQUIP_SKILL"}),
              Ints(<<8, 8, 1>>)),
         1 + Bytes(Is(w, "INVENTORY_RESULT_CANT_EQUIP_LEVEL_I"), 4)
         + Bytes(
             IsIn(w, {"INVENTORY_RESULT_CANT_EQUIP_LEVEL_I", "INVENTORY_RESULT_CANT_EQUIP_SKILL"}),
             2 * 8 + 1),
         1 + Bytes(Is(w, "INVENTORY_RESULT_CANT_EQUIP_LEVEL_I"), 4)
         + Bytes(
             IsIn(w, {"INVENTORY_RESULT_CANT_EQUIP_LEVEL_I", "INVENTORY_RESULT_CANT_EQUIP_SKILL"}),
             17))],
   SMSG_OPEN_CONTAINER |-> PlainSmsg(8, <<8>>, 8, 8),
   CMSG_INSPECT |-> PlainCmsg(8, <<8>>, 8, 8)]

vanilla_FromSmsgInspect ==
  [SMSG_INSPECT |-> PlainSmsg(8, <<8>>, 8, 8),
   CMSG_INITIATE_TRADE |-> PlainCmsg(8, <<8>>, 8, 8),
   CMSG_BEGIN_TRADE |-> EmptyCmsg(0),
   CMSG_BUSY_TRADE |-> EmptyCmsg(0),
   CMSG_IGNORE_TRADE |-> EmptyCmsg(0),
   CMSG_ACCEPT_TRADE |-> PlainCmsg(4, <<4>>, 4, 4)]

vanilla_FromCmsgUnacceptTrade ==
  [CMSG_UNACCEPT_TRADE |-> EmptyCmsg(0),
   CMSG_CANCEL_TRADE |-> EmptyCmsg(0),
   CMSG_SET_TRADE_ITEM |-> PlainCmsg(3, <<1, 1, 1>>, 3 * 1, 3),
   CMSG_CLEAR_TRADE_ITEM |-> PlainCmsg(1, <<1>>, 1, 1),
   CMSG_SET_TRADE_GOLD |-> PlainCmsg(4, <<4>>, 4, 4)]

vanilla_FromSmsgTradeStatus ==
  [SMSG_TRADE_STATUS |->
     [w \in Wires({0}, {0},
                  {{"TRADE_STATUS_BEGIN_TRADE", "TRADE_STATUS_CLOSE_WINDOW",
                    "TRADE_STATUS_ONLY_CONJURED", "TRADE_STATUS_BUSY"}}, {}) |->
       Smsg(
         {},
         Minimum(4) \o Ints(<<4>>) \o When(Is(w, "TRADE_STATUS_BEGIN_TRADE"), Ints(<<8>>))
         \o When(Is(w, "TRADE_STATUS_CLOSE_WINDOW"), Ints(<<4, 1, 4>>))
         \o When(Is(w, "TRADE_STATUS_ONLY_CONJURED"), Ints(<<1>>)),
         4 + Bytes(Is(w, "TRADE_STATUS_BEGIN_TRADE"), 8)
         + Bytes(Is(w, "TRADE_STATUS_CLOSE_WINDOW"), 4 + 1 + 4)
         + Bytes(Is(w, "TRADE_STATUS_ONLY_CONJURED"), 1),
         4 + Bytes(Is(w, "TRADE_STATUS_BEGIN_TRADE"), 8)
         + Bytes(Is(w, "TRADE_STATUS_CLOSE_WINDOW"), 9)
         + Bytes(Is(w, "TRADE_STATUS_ONLY_CONJURED"), 1))],
   SMSG_TRADE_STATUS_EXTENDED |-> [w \in {Fixed} |->
     Smsg(
       {},
       Minimum(444) \o Ints(<<1, 4, 4, 4, 4>>) \o Each("trade_slots", 7, vanilla_TradeSlot.read),
       1 + 4 * 4 + 7 * vanilla_TradeSlot.written, 444)]]

vanilla_FromSmsgInitializeFactions ==
  [SMSG_INITIALIZE_FACTIONS |-> [w \in OfCount |->
     Smsg(
       Free({"factions"}),
       Minimum(4) \o Null({"factions"}) \o Ints(<<4>>)
       \o Array("factions", w.count, {}, vanilla_FactionInitializer.read),
       4 + w.count * vanilla_FactionInitializer.written, 4 + 5 * w.count)],
   SMSG_SET_FACTION_VISIBLE |-> PlainSmsg(2, <<2>>, 2, 2),
   SMSG_SET_FACTION_STANDING |-> [w \in OfCount |->
     Smsg(
       Free({"faction_standings"}),
       Minimum(4) \o Null({"faction_standings"}) \o Ints(<<4>>)
       \o Array("faction_standings", w.count, {}, vanilla_FactionStanding.read),
       4 + w.count * vanilla_FactionStanding.written, 4 + 6 * w.count)]]

vanilla_FromCmsgSetFactionAtwar ==
  [CMSG_SET_FACTION_ATWAR |-> PlainCmsg(3, <<2, 1>>, 2 + 1, 3),
   SMSG_SET_PROFICIENCY |-> PlainSmsg(5, <<1, 4>>, 1 + 4, 5),
   CMSG_SET_ACTION_BUTTON |-> PlainCmsg(5, <<1, 2, 1, 1>>, 1 + 2 + 2 * 1, 5)]

vanilla_FromSmsgActionButtons ==
  [SMSG_ACTION_BUTTONS |-> PlainSmsg(480, Repeat(120, 4), 120 * 4, 480),
   SMSG_INITIAL_SPELLS |-> [w \in OfCount |->
     Smsg(
       Free({"initial_spells", "cooldowns"}),
       Minimum(5) \o Null({"initial_spells", "cooldowns"}) \o Ints(<<1, 2>>)
       \o Array("initial_spells", w.count, {}, vanilla_InitialSpell.read) \o Ints(<<2>>)
       \o Array("cooldowns", w.count, {}, vanilla_CooldownSpell.read),
       1 + 2 + w.count * vanilla_InitialSpell.written + 2
       + w.count * vanilla_CooldownSpell.written, 5 + 4 * w.count + 14 * w.count)],
   SMSG_LEARNED_SPELL |-> PlainSmsg(4, <<4>>, 4, 4)]

vanilla_FromSmsgSupercededSpell ==
  [SMSG_SUPERCEDED_SPELL |-> PlainSmsg(4, <<2, 2>>, 2 * 2, 4),
   CMSG_CAST_SPELL |-> [w \in Wires(Lengths, {0}, {}, vanilla_SpellCastTargetsFlags) |->
     Cmsg(FreeAt(<<"targets">>, vanilla_SpellCastTargets(w).free),
          Minimum(6) \o Ints(<<4>>) \o At(<<"targets">>, vanilla_SpellCastTargets(w).read),
          4 + vanilla_SpellCastTargets(w).written, 4 + vanilla_SpellCastTargets(w).size)],
   CMSG_CANCEL_CAST |-> PlainCmsg(4, <<4>>, 4, 4)]

vanilla_FromSmsgCastResult ==
  [SMSG_CAST_RESULT |->
     [w \in Wires(
              {0}, {0},
              {{"SIMPLE_SPELL_CAST_RESULT_SUCCESS", "SIMPLE_SPELL_CAST_RESULT_FAILURE"},
               {"CAST_FAILURE_REASON_REQUIRES_SPELL_FOCUS", "CAST_FAILURE_REASON_REQUIRES_AREA",
                "CAST_FAILURE_REASON_EQUIPPED_ITEM_CLASS", "CAST_FAILURE_REASON_AFFECTING_COMBAT"}},
              {}) |->
       Smsg(
         {},
         Minimum(5) \o Ints(<<4, 1>>)
         \o When(Is(w, "SIMPLE_SPELL_CAST_RESULT_SUCCESS"),
                 Ints(<<1>>) \o When(Is(w, "CAST_FAILURE_REASON_REQUIRES_SPELL_FOCUS"), Ints(<<4>>))
                 \o When(Is(w, "CAST_FAILURE_REASON_REQUIRES_AREA"), Ints(<<4>>))
                 \o When(Is(w, "CAST_FAILURE_REASON_EQUIPPED_ITEM_CLASS"), Ints(<<4, 4, 4>>))),
         4 + 1
         + Bytes(
             Is(w, "SIMPLE_SPELL_CAST_RESULT_SUCCESS"),
             1 + Bytes(Is(w, "CAST_FAILURE_REASON_REQUIRES_SPELL_FOCUS"), 4)
             + Bytes(Is(w, "CAST_FAILURE_REASON_REQUIRES_AREA"), 4)
             + Bytes(Is(w, "CAST_FAILURE_REASON_EQUIPPED_ITEM_CLASS"), 3 * 4)),
         5
         + Bytes(
             Is(w, "SIMPLE_SPELL_CAST_RESULT_SUCCESS"),
             1 + Bytes(Is(w, "CAST_FAILURE_REASON_REQUIRES_SPELL_FOCUS"), 4)
             + Bytes(Is(w, "CAST_FAILURE_REASON_REQUIRES_AREA"), 4)
             + Bytes(Is(w, "CAST_FAILURE_REASON_EQUIPPED_ITEM_CLASS"), 12)))]]

vanilla_FromSmsgSpellStart ==
  [SMSG_SPELL_START |->
     [w \in Wires(Lengths, {0}, {}, vanilla_SpellCastTargetsFlags \union {"CAST_FLAGS_AMMO"}) |->
       Smsg(
         FreeAt(<<"targets">>, vanilla_SpellCastTargets(w).free),
         Minimum(14) \o PackedGuid(w) \o PackedGuid(w) \o Ints(<<4, 2, 4>>)
         \o At(<<"targets">>, vanilla_SpellCastTargets(w).read)
         \o When(Is(w, "CAST_FLAGS_AMMO"), Ints(<<4, 4>>)),
         2 * WRITE_PACKED_GUID(w) + 4 + 2 + 4 + vanilla_SpellCastTargets(w).written
         + Bytes(Is(w, "CAST_FLAGS_AMMO"), 2 * 4),
         10 + 2 * wwm_packed_guid_size(w) + vanilla_SpellCastTargets(w).size
         + Bytes(Is(w, "CAST_FLAGS_AMMO"), 8))]]

vanilla_FromSmsgSpellGo ==
  [SMSG_SPELL_GO |->
     [w \in Wires(Lengths, Counts, {}, vanilla_SpellCastTargetsFlags \union {"CAST_FLAGS_AMMO"}) |->
       Smsg(
         Free({"hits", "misses"}) \union FreeAt(<<"targets">>, vanilla_SpellCastTargets(w).free),
         Minimum(12) \o Null({"hits", "misses"}) \o PackedGuid(w) \o PackedGuid(w)
         \o Ints(<<4, 2, 1>>) \o Calloc("hits", w.count, {}) \o Ints(Repeat(w.count, 8) \o <<1>>)
         \o Array("misses", w.count, {}, vanilla_SpellMiss.read)
         \o At(<<"targets">>, vanilla_SpellCastTargets(w).read)
         \o When(Is(w, "CAST_FLAGS_AMMO"), Ints(<<4, 4>>)),
         2 * WRITE_PACKED_GUID(w) + 4 + 2 + 1 + w.count * 8 + 1
         + w.count * vanilla_SpellMiss.written + vanilla_SpellCastTargets(w).written
         + Bytes(Is(w, "CAST_FLAGS_AMMO"), 2 * 4),
         8 + 2 * wwm_packed_guid_size(w) + 8 * w.count + 9 * w.count
         + vanilla_SpellCastTargets(w).size + Bytes(Is(w, "CAST_FLAGS_AMMO"), 8))]]

vanilla_FromSmsgSpellFailure ==
  [SMSG_SPELL_FAILURE |-> PlainSmsg(13, <<8, 4, 1>>, 8 + 4 + 1, 13),
   SMSG_SPELL_COOLDOWN |-> [w \in OfCount |->
     Smsg(
       Free({"cooldowns"}),
       Counted(8, Minimum(8) \o Null({"cooldowns"}) \o Ints(<<8>>))
       \o Endless("cooldowns", w.count, {}, vanilla_SpellCooldownStatus.read, 8),
       8 + w.count * vanilla_SpellCooldownStatus.written, 8 + 8 * w.count)]]

vanilla_FromSmsgCooldownEvent ==
  [SMSG_COOLDOWN_EVENT |-> PlainSmsg(12, <<4, 8>>, 4 + 8, 12),
   CMSG_CANCEL_AURA |-> PlainCmsg(4, <<4>>, 4, 4),
   SMSG_UPDATE_AURA_DURATION |-> PlainSmsg(5, <<1, 4>>, 1 + 4, 5),
   SMSG_PET_CAST_FAILED |-> PlainSmsg(6, <<4, 1, 1>>, 4 + 2 * 1, 6)]

vanilla_FromMsgChannelStart ==
  [MSG_CHANNEL_START_Server |-> PlainSmsg(8, <<4, 4>>, 2 * 4, 8),
   MSG_CHANNEL_UPDATE_Server |-> PlainSmsg(4, <<4>>, 4, 4),
   CMSG_CANCEL_CHANNELLING |-> PlainCmsg(4, <<4>>, 4, 4),
   SMSG_AI_REACTION |-> PlainSmsg(12, <<8, 4>>, 8 + 4, 12)]

vanilla_FromCmsgSetSelection ==
  [CMSG_SET_SELECTION |-> PlainCmsg(8, <<8>>, 8, 8),
   CMSG_SET_TARGET_OBSOLETE |-> PlainCmsg(8, <<8>>, 8, 8),
   CMSG_ATTACKSWING |-> PlainCmsg(8, <<8>>, 8, 8),
   CMSG_ATTACKSTOP |-> EmptyCmsg(0)]

vanilla_FromSmsgAttackstart ==
  [SMSG_ATTACKSTART |-> PlainSmsg(16, <<8, 8>>, 2 * 8, 16),
   SMSG_ATTACKSTOP |-> [w \in OfLength |->
     Smsg({}, Minimum(6) \o PackedGuid(w) \o PackedGuid(w) \o Ints(<<4>>),
          2 * WRITE_PACKED_GUID(w) + 4, 4 + 2 * wwm_packed_guid_size(w))],
   SMSG_ATTACKSWING_NOTINRANGE |-> EmptySmsg(0),
   SMSG_ATTACKSWING_BADFACING |-> EmptySmsg(0),
   SMSG_ATTACKSWING_NOTSTANDING |-> EmptySmsg(0),
   SMSG_ATTACKSWING_DEADTARGET |-> EmptySmsg(0)]

vanilla_FromSmsgAttackswingCantAttack ==
  [SMSG_ATTACKSWING_CANT_ATTACK |-> EmptySmsg(0),
   SMSG_ATTACKERSTATEUPDATE |-> [w \in OfLengthAndCount |->
     Smsg(
       Free({"damages"}),
       Minimum(27) \o Null({"damages"}) \o Ints(<<4>>) \o PackedGuid(w) \o PackedGuid(w)
       \o Ints(<<4, 1>>) \o Array("damages", w.count, {}, vanilla_DamageInfo.read)
       \o Ints(<<4, 4, 4, 4>>),
       4 + 2 * WRITE_PACKED_GUID(w) + 4 + 1 + w.count * vanilla_DamageInfo.written + 4 * 4,
       25 + 2 * wwm_packed_guid_size(w) + 20 * w.count)],
   SMSG_CANCEL_COMBAT |-> EmptySmsg(0)]

vanilla_FromSmsgSpellheallog ==
  [SMSG_SPELLHEALLOG |-> [w \in OfLength |->
     Smsg({}, Minimum(11) \o PackedGuid(w) \o PackedGuid(w) \o Ints(<<4, 4, 1>>),
          2 * WRITE_PACKED_GUID(w) + 2 * 4 + 1, 9 + 2 * wwm_packed_guid_size(w))],
   SMSG_SPELLENERGIZELOG |-> [w \in OfLength |->
     Smsg({}, Minimum(14) \o PackedGuid(w) \o PackedGuid(w) \o Ints(<<4, 4, 4>>),
          2 * WRITE_PACKED_GUID(w) + 3 * 4, 12 + 2 * wwm_packed_guid_size(w))],
   SMSG_BINDPOINTUPDATE |-> [w \in {Fixed} |->
     Smsg({}, Minimum(20) \o Vector3d.read \o Ints(<<4, 4>>), Vector3d.written + 2 * 4, 20)]]

vanilla_FromSmsgPlayerbound ==
  [SMSG_PLAYERBOUND |-> PlainSmsg(12, <<8, 4>>, 8 + 4, 12),
   SMSG_CLIENT_CONTROL_UPDATE |-> [w \in OfLength |->
     Smsg({}, Minimum(2) \o PackedGuid(w) \o Ints(<<1>>),
          WRITE_PACKED_GUID(w) + 1, 1 + wwm_packed_guid_size(w))],
   CMSG_REPOP_REQUEST |-> EmptyCmsg(0),
   SMSG_RESURRECT_REQUEST |-> [w \in OfLength |->
     Smsg(Free({"name"}),
          Minimum(14) \o Null({"name"}) \o Ints(<<8>>) \o SizedCstring("name", w) \o Ints(<<1>>),
          8 + WRITE_SIZED_CSTRING(w) + 1, 14 + w.len)]]

vanilla_FromCmsgResurrectResponse ==
  [CMSG_RESURRECT_RESPONSE |-> PlainCmsg(9, <<8, 1>>, 8 + 1, 9),
   CMSG_LOOT |-> PlainCmsg(8, <<8>>, 8, 8),
   CMSG_LOOT_MONEY |-> EmptyCmsg(0),
   CMSG_LOOT_RELEASE |-> PlainCmsg(8, <<8>>, 8, 8)]

vanilla_FromSmsgLootResponse ==
  [SMSG_LOOT_RESPONSE |->
     [w \in Wires({0}, Counts, {{"LOOT_METHOD_ERROR", "LOOT_METHOD_CORPSE"}}, {}) |->
       Smsg(
         Free({"items"}),
         Minimum(14) \o Null({"items"}) \o Ints(<<8, 1>>)
         \o When(Is(w, "LOOT_METHOD_ERROR"), Ints(<<1>>)) \o Ints(<<4, 1>>)
         \o Array("items", w.count, {}, vanilla_LootItem.read),
         8 + 1 + Bytes(Is(w, "LOOT_METHOD_ERROR"), 1) + 4 + 1 + w.count * vanilla_LootItem.written,
         14 + 6 * w.count + Bytes(Is(w, "LOOT_METHOD_ERROR"), 1))],
   SMSG_LOOT_RELEASE_RESPONSE |-> PlainSmsg(9, <<8, 1>>, 8 + 1, 9)]

vanilla_FromSmsgLootRemoved ==
  [SMSG_LOOT_REMOVED |-> PlainSmsg(1, <<1>>, 1, 1),
   SMSG_LOOT_MONEY_NOTIFY |-> PlainSmsg(4, <<4>>, 4, 4),
   SMSG_LOOT_CLEAR_MONEY |-> EmptySmsg(0)]

vanilla_FromSmsgItemPushResult ==
  [SMSG_ITEM_PUSH_RESULT |->
     PlainSmsg(41, <<8, 4, 4, 4, 1>> \o Repeat(5, 4), 8 + 3 * 4 + 1 + 5 * 4, 41),
   SMSG_DUEL_REQUESTED |-> PlainSmsg(16, <<8, 8>>, 2 * 8, 16),
   SMSG_DUEL_OUTOFBOUNDS |-> EmptySmsg(0),
   SMSG_DUEL_INBOUNDS |-> EmptySmsg(0)]

vanilla_FromSmsgDuelComplete ==
  [SMSG_DUEL_COMPLETE |-> PlainSmsg(1, <<1>>, 1, 1),
   SMSG_DUEL_WINNER |-> [w \in OfLength |->
     Smsg(
       Free({"opponent_name", "initiator_name"}),
       Minimum(3) \o Null({"opponent_name", "initiator_name"}) \o Ints(<<1>>)
       \o Cstring("opponent_name", w) \o Cstring("initiator_name", w),
       1 + 2 * WRITE_CSTRING(w), 3 + 2 * w.len)],
   CMSG_DUEL_ACCEPTED |-> PlainCmsg(8, <<8>>, 8, 8)]

vanilla_FromCmsgDuelCancelled ==
  [CMSG_DUEL_CANCELLED |-> PlainCmsg(8, <<8>>, 8, 8),
   SMSG_MOUNTRESULT |-> PlainSmsg(4, <<4>>, 4, 4),
   SMSG_DISMOUNTRESULT |-> PlainSmsg(4, <<4>>, 4, 4),
   CMSG_MOUNTSPECIAL_ANIM |-> EmptyCmsg(0),
   SMSG_MOUNTSPECIAL_ANIM |-> PlainSmsg(8, <<8>>, 8, 8)]

vanilla_FromSmsgPetTameFailure ==
  [SMSG_PET_TAME_FAILURE |-> PlainSmsg(1, <<1>>, 1, 1),
   CMSG_PET_SET_ACTION |-> [w \in Wires({0}, {0}, {}, {"extra"}) |->
     Cmsg(
       Free({"extra"}),
       Counted(16, Minimum(16) \o Null({"extra"}) \o Ints(<<8, 4, 4>>))
       \o Optional("extra", {}, Ints(<<4, 4>>)),
       8 + 2 * 4 + Bytes(Is(w, "extra"), 2 * 4), 16 + Bytes(Is(w, "extra"), 8))]]

vanilla_FromCmsgPetAction ==
  [CMSG_PET_ACTION |-> PlainCmsg(20, <<8, 4, 8>>, 8 + 4 + 8, 20),
   CMSG_PET_ABANDON |-> PlainCmsg(8, <<8>>, 8, 8),
   CMSG_PET_RENAME |-> [w \in OfLength |->
     Cmsg(Free({"name"}), Minimum(9) \o Null({"name"}) \o Ints(<<8>>) \o Cstring("name", w),
          8 + WRITE_CSTRING(w), 9 + w.len)],
   SMSG_PET_NAME_INVALID |-> EmptySmsg(0)]

vanilla_FromSmsgPetSpells ==
  [SMSG_PET_SPELLS |-> [w \in Wires({0}, Counts, {}, {"action_bars"}) |->
     Smsg(
       FreeOptional("action_bars", Free({"spells", "cooldowns"})),
       Counted(8, Minimum(8) \o Null({"action_bars"}) \o Ints(<<8>>))
       \o Optional(
            "action_bars", Free({"spells", "cooldowns"}),
            Null({"spells", "cooldowns"}) \o Ints(<<4, 1, 1, 1, 1>> \o Repeat(10, 4) \o <<1>>)
            \o Calloc("spells", w.count, {}) \o Ints(Repeat(w.count, 4) \o <<1>>)
            \o Array("cooldowns", w.count, {}, vanilla_PetSpellCooldown.read)),
       8
       + Bytes(
           Is(w, "action_bars"),
           4 + 4 * 1 + 10 * 4 + 1 + w.count * 4 + 1 + w.count * vanilla_PetSpellCooldown.written),
       8 + Bytes(Is(w, "action_bars"), 50 + 4 * w.count + 12 * w.count))]]

vanilla_FromSmsgPetMode ==
  [SMSG_PET_MODE |-> PlainSmsg(12, <<8, 1, 1, 1, 1>>, 8 + 4 * 1, 12),
   CMSG_GOSSIP_HELLO |-> PlainCmsg(8, <<8>>, 8, 8)]

vanilla_FromCmsgGossipSelectOption ==
  [CMSG_GOSSIP_SELECT_OPTION |-> [w \in Wires(Lengths, {0}, {}, {"unknown"}) |->
     Cmsg(
       FreeOptional("unknown", Free({"code"})),
       Counted(12, Minimum(12) \o Null({"unknown"}) \o Ints(<<8, 4>>))
       \o Optional("unknown", Free({"code"}), Null({"code"}) \o Cstring("code", w)),
       8 + 4 + Bytes(Is(w, "unknown"), WRITE_CSTRING(w)), 12 + Bytes(Is(w, "unknown"), 1 + w.len))]]

vanilla_FromSmsgGossipMessage ==
  [SMSG_GOSSIP_MESSAGE |-> [w \in OfLengthAndCount |->
     Smsg(
       FreeEach("gossips", w.count, vanilla_GossipItem(w).free)
       \union FreeEach("quests", w.count, vanilla_QuestItem(w).free),
       Minimum(20) \o Null({"gossips", "quests"}) \o Ints(<<8, 4, 4>>)
       \o Array("gossips", w.count, vanilla_GossipItem(w).free, vanilla_GossipItem(w).read)
       \o Ints(<<4>>)
       \o Array("quests", w.count, vanilla_QuestItem(w).free, vanilla_QuestItem(w).read),
       8 + 2 * 4 + w.count * vanilla_GossipItem(w).written + 4
       + w.count * vanilla_QuestItem(w).written,
       20 + w.count * vanilla_GossipItem(w).size + w.count * vanilla_QuestItem(w).size)],
   SMSG_GOSSIP_COMPLETE |-> EmptySmsg(0)]

vanilla_FromCmsgNpcTextQuery ==
  [CMSG_NPC_TEXT_QUERY |-> PlainCmsg(12, <<4, 8>>, 4 + 8, 12),
   SMSG_NPC_TEXT_UPDATE |-> [w \in OfLength |->
     Smsg(FreeFixed("texts", 8, vanilla_NpcTextUpdate(w).free),
          Minimum(276) \o Ints(<<4>>) \o Each("texts", 8, vanilla_NpcTextUpdate(w).read),
          4 + 8 * vanilla_NpcTextUpdate(w).written, 4 + 8 * vanilla_NpcTextUpdate(w).size)],
   CMSG_QUESTGIVER_STATUS_QUERY |-> PlainCmsg(8, <<8>>, 8, 8)]

vanilla_FromSmsgQuestgiverStatus ==
  [SMSG_QUESTGIVER_STATUS |-> PlainSmsg(12, <<8, 4>>, 8 + 4, 12),
   CMSG_QUESTGIVER_HELLO |-> PlainCmsg(8, <<8>>, 8, 8)]

vanilla_FromSmsgQuestgiverQuestList ==
  [SMSG_QUESTGIVER_QUEST_LIST |-> [w \in OfLengthAndCount |->
     Smsg(
       Free({"title"}) \union FreeEach("quest_items", w.count, vanilla_QuestItem(w).free),
       Minimum(18) \o Null({"title", "quest_items"}) \o Ints(<<8>>) \o Cstring("title", w)
       \o Ints(<<4, 4, 1>>)
       \o Array("quest_items", w.count, vanilla_QuestItem(w).free, vanilla_QuestItem(w).read),
       8 + WRITE_CSTRING(w) + 2 * 4 + 1 + w.count * vanilla_QuestItem(w).written,
       18 + w.len + w.count * vanilla_QuestItem(w).size)],
   CMSG_QUESTGIVER_QUERY_QUEST |-> PlainCmsg(12, <<8, 4>>, 8 + 4, 12),
   CMSG_QUESTGIVER_QUEST_AUTOLAUNCH |-> EmptyCmsg(0)]

vanilla_FromSmsgQuestgiverQuestDetails ==
  [SMSG_QUESTGIVER_QUEST_DETAILS |-> [w \in OfLengthAndCount |->
     Smsg(
       Free({"title", "details", "objectives", "choice_item_rewards", "item_rewards", "emotes"}),
       Minimum(39)
       \o Null(
            {"title", "details", "objectives", "choice_item_rewards", "item_rewards", "emotes"})
       \o Ints(<<8, 4>>) \o Cstring("title", w) \o Cstring("details", w)
       \o Cstring("objectives", w) \o Ints(<<4, 4>>)
       \o Array("choice_item_rewards", w.count, {}, vanilla_QuestItemReward.read) \o Ints(<<4>>)
       \o Array("item_rewards", w.count, {}, vanilla_QuestItemReward.read) \o Ints(<<4, 4, 4>>)
       \o Array("emotes", w.count, {}, vanilla_QuestDetailsEmote.read),
       8 + 4 + 3 * WRITE_CSTRING(w) + 2 * 4 + w.count * vanilla_QuestItemReward.written + 4
       + w.count * vanilla_QuestItemReward.written + 3 * 4
       + w.count * vanilla_QuestDetailsEmote.written,
       39 + 3 * w.len + 8 * w.count + 8 * w.count + 8 * w.count)]]

vanilla_FromCmsgQuestgiverAcceptQuest ==
  [CMSG_QUESTGIVER_ACCEPT_QUEST |-> PlainCmsg(12, <<8, 4>>, 8 + 4, 12),
   CMSG_QUESTGIVER_COMPLETE_QUEST |-> PlainCmsg(12, <<8, 4>>, 8 + 4, 12)]

vanilla_FromSmsgQuestgiverRequestItems ==
  [SMSG_QUESTGIVER_REQUEST_ITEMS |-> [w \in OfLengthAndCount |->
     Smsg(
       Free({"title", "request_items_text", "required_items"}),
       Minimum(50) \o Null({"title", "request_items_text", "required_items"}) \o Ints(<<8, 4>>)
       \o Cstring("title", w) \o Cstring("request_items_text", w) \o Ints(Repeat(5, 4))
       \o Array("required_items", w.count, {}, vanilla_QuestItemRequirement.read)
       \o Ints(<<4, 4, 4, 4>>),
       8 + 4 + 2 * WRITE_CSTRING(w) + 5 * 4 + w.count * vanilla_QuestItemRequirement.written
       + 4 * 4, 50 + 2 * w.len + 12 * w.count)],
   CMSG_QUESTGIVER_REQUEST_REWARD |-> PlainCmsg(12, <<8, 4>>, 8 + 4, 12)]

vanilla_FromSmsgQuestgiverOfferReward ==
  [SMSG_QUESTGIVER_OFFER_REWARD |-> [w \in OfLengthAndCount |->
     Smsg(
       Free({"title", "offer_reward_text", "emotes", "choice_item_rewards", "item_rewards"}),
       Minimum(42)
       \o Null({"title", "offer_reward_text", "emotes", "choice_item_rewards", "item_rewards"})
       \o Ints(<<8, 4>>) \o Cstring("title", w) \o Cstring("offer_reward_text", w)
       \o Ints(<<4, 4>>) \o Array("emotes", w.count, {}, vanilla_NpcTextUpdateEmote.read)
       \o Ints(<<4>>)
       \o Array("choice_item_rewards", w.count, {}, vanilla_QuestItemRequirement.read)
       \o Ints(<<4>>) \o Array("item_rewards", w.count, {}, vanilla_QuestItemRequirement.read)
       \o Ints(<<4, 4, 4>>),
       8 + 4 + 2 * WRITE_CSTRING(w) + 2 * 4 + w.count * vanilla_NpcTextUpdateEmote.written + 4
       + w.count * vanilla_QuestItemRequirement.written + 4
       + w.count * vanilla_QuestItemRequirement.written + 3 * 4,
       42 + 2 * w.len + 8 * w.count + 12 * w.count + 12 * w.count)]]

vanilla_FromCmsgQuestgiverChooseReward ==
  [CMSG_QUESTGIVER_CHOOSE_REWARD |-> PlainCmsg(16, <<8, 4, 4>>, 8 + 2 * 4, 16),
   SMSG_QUESTGIVER_QUEST_INVALID |-> PlainSmsg(4, <<4>>, 4, 4),
   CMSG_QUESTGIVER_CANCEL |-> EmptyCmsg(0)]

vanilla_FromSmsgQuestgiverQuestComplete ==
  [SMSG_QUESTGIVER_QUEST_COMPLETE |-> [w \in OfCount |->
     Smsg(
       Free({"item_rewards"}),
       Minimum(20) \o Null({"item_rewards"}) \o Ints(Repeat(5, 4))
       \o Array("item_rewards", w.count, {}, vanilla_QuestItemReward.read),
       5 * 4 + w.count * vanilla_QuestItemReward.written, 20 + 8 * w.count)],
   SMSG_QUESTGIVER_QUEST_FAILED |-> PlainSmsg(8, <<4, 4>>, 2 * 4, 8),
   CMSG_QUESTLOG_SWAP_QUEST |-> PlainCmsg(2, <<1, 1>>, 2 * 1, 2)]

vanilla_FromCmsgQuestlogRemoveQuest ==
  [CMSG_QUESTLOG_REMOVE_QUEST |-> PlainCmsg(1, <<1>>, 1, 1),
   SMSG_QUESTLOG_FULL |-> EmptySmsg(0),
   SMSG_QUESTUPDATE_FAILED |-> PlainSmsg(4, <<4>>, 4, 4),
   SMSG_QUESTUPDATE_FAILEDTIMER |-> PlainSmsg(4, <<4>>, 4, 4),
   SMSG_QUESTUPDATE_COMPLETE |-> PlainSmsg(4, <<4>>, 4, 4)]

vanilla_FromSmsgQuestupdateAddKill ==
  [SMSG_QUESTUPDATE_ADD_KILL |-> PlainSmsg(24, <<4, 4, 4, 4, 8>>, 4 * 4 + 8, 24),
   SMSG_QUESTUPDATE_ADD_ITEM |-> PlainSmsg(8, <<4, 4>>, 2 * 4, 8),
   CMSG_QUEST_CONFIRM_ACCEPT |-> PlainCmsg(4, <<4>>, 4, 4)]

vanilla_FromSmsgQuestConfirmAccept ==
  [SMSG_QUEST_CONFIRM_ACCEPT |-> [w \in OfLength |->
     Smsg(Free({"quest_title"}),
          Minimum(13) \o Null({"quest_title"}) \o Ints(<<4>>) \o Cstring("quest_title", w)
          \o Ints(<<8>>), 4 + WRITE_CSTRING(w) + 8, 13 + w.len)],
   CMSG_PUSHQUESTTOPARTY |-> PlainCmsg(4, <<4>>, 4, 4),
   CMSG_LIST_INVENTORY |-> PlainCmsg(8, <<8>>, 8, 8)]

vanilla_LowGroups ==
  <<vanilla_FromCmsgBootme, vanilla_FromCmsgTeleportToUnit, vanilla_FromCmsgCharDelete,
    vanilla_FromSmsgCharDelete, vanilla_FromSmsgTransferPending,
    vanilla_FromSmsgCharacterLoginFailed, vanilla_FromSmsgLogoutComplete,
    vanilla_FromSmsgNameQueryResponse, vanilla_FromSmsgPetNameQueryResponse,
    vanilla_FromSmsgGuildQueryResponse, vanilla_FromSmsgItemQuerySingleResponse,
    vanilla_FromCmsgPageTextQuery, vanilla_FromSmsgQuestQueryResponse,
    vanilla_FromCmsgGameobjectQuery, vanilla_FromSmsgGameobjectQueryResponse,
    vanilla_FromCmsgCreatureQuery, vanilla_FromSmsgCreatureQueryResponse, vanilla_FromCmsgWho,
    vanilla_FromSmsgWho, vanilla_FromSmsgWhois, vanilla_FromSmsgFriendStatus,
    vanilla_FromSmsgIgnoreList, vanilla_FromCmsgGroupInvite, vanilla_FromSmsgGroupDecline,
    vanilla_FromCmsgGroupSetLeader, vanilla_FromSmsgGroupDestroyed,
    vanilla_FromSmsgPartyMemberStats, vanilla_FromSmsgPartyCommandResult,
    vanilla_FromSmsgGuildInvite, vanilla_FromSmsgGuildInfo, vanilla_FromSmsgGuildRoster,
    vanilla_FromCmsgGuildDemote, vanilla_FromCmsgGuildLeader, vanilla_FromSmsgGuildEvent,
    vanilla_FromCmsgMessagechat, vanilla_FromSmsgMessagechat, vanilla_FromCmsgJoinChannel,
    vanilla_FromCmsgChannelList, vanilla_FromCmsgChannelPassword, vanilla_FromCmsgChannelOwner,
    vanilla_FromCmsgChannelUnmoderator, vanilla_FromCmsgChannelUnmute,
    vanilla_FromCmsgChannelKick, vanilla_FromCmsgChannelUnban, vanilla_FromSmsgUpdateObject,
    vanilla_FromCmsgUseItem, vanilla_FromSmsgReadItemOk, vanilla_FromSmsgGameobjectCustomAnim,
    vanilla_FromMsgMoveStartBackward, vanilla_FromMsgMoveStop,
    vanilla_FromMsgMoveStartStrafeRight, vanilla_FromMsgMoveStopStrafe,
    vanilla_FromMsgMoveStartTurnLeft, vanilla_FromMsgMoveStartTurnRight,
    vanilla_FromMsgMoveStartPitchUp, vanilla_FromMsgMoveStartPitchDown,
    vanilla_FromMsgMoveSetRunMode, vanilla_FromMsgMoveSetWalkMode, vanilla_FromMsgMoveFallLand,
    vanilla_FromMsgMoveStartSwim, vanilla_FromMsgMoveSetFacing, vanilla_FromMsgMoveSetPitch,
    vanilla_FromSmsgMonsterMove, vanilla_FromSmsgMoveWaterWalk,
    vanilla_FromSmsgForceRunSpeedChange, vanilla_FromCmsgForceRunBackSpeedChangeAck,
    vanilla_FromSmsgForceMoveRoot, vanilla_FromCmsgForceMoveUnrootAck,
    vanilla_FromSmsgMoveKnockBack, vanilla_FromSmsgMoveNormalFall, vanilla_FromCmsgMoveHoverAck,
    vanilla_FromCmsgTutorialFlag, vanilla_FromSmsgEmote, vanilla_FromCmsgAutostoreLootItem,
    vanilla_FromCmsgSwapItem, vanilla_FromCmsgAutoequipItemSlot,
    vanilla_FromSmsgInventoryChangeFailure, vanilla_FromSmsgInspect,
    vanilla_FromCmsgUnacceptTrade, vanilla_FromSmsgTradeStatus,
    vanilla_FromSmsgInitializeFactions, vanilla_FromCmsgSetFactionAtwar,
    vanilla_FromSmsgActionButtons, vanilla_FromSmsgSupercededSpell, vanilla_FromSmsgCastResult,
    vanilla_FromSmsgSpellStart, vanilla_FromSmsgSpellGo, vanilla_FromSmsgSpellFailure,
    vanilla_FromSmsgCooldownEvent, vanilla_FromMsgChannelStart, vanilla_FromCmsgSetSelection,
    vanilla_FromSmsgAttackstart, vanilla_FromSmsgAttackswingCantAttack,
    vanilla_FromSmsgSpellheallog, vanilla_FromSmsgPlayerbound, vanilla_FromCmsgResurrectResponse,
    vanilla_FromSmsgLootResponse, vanilla_FromSmsgLootRemoved, vanilla_FromSmsgItemPushResult,
    vanilla_FromSmsgDuelComplete, vanilla_FromCmsgDuelCancelled, vanilla_FromSmsgPetTameFailure,
    vanilla_FromCmsgPetAction, vanilla_FromSmsgPetSpells, vanilla_FromSmsgPetMode,
    vanilla_FromCmsgGossipSelectOption, vanilla_FromSmsgGossipMessage,
    vanilla_FromCmsgNpcTextQuery, vanilla_FromSmsgQuestgiverStatus,
    vanilla_FromSmsgQuestgiverQuestList, vanilla_FromSmsgQuestgiverQuestDetails,
    vanilla_FromCmsgQuestgiverAcceptQuest, vanilla_FromSmsgQuestgiverRequestItems,
    vanilla_FromSmsgQuestgiverOfferReward, vanilla_FromCmsgQuestgiverChooseReward,
    vanilla_FromSmsgQuestgiverQuestComplete, vanilla_FromCmsgQuestlogRemoveQuest,
    vanilla_FromSmsgQuestupdateAddKill, vanilla_FromSmsgQuestConfirmAccept>>
=============================================================================
