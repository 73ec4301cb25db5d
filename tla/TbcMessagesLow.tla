-------------------------- MODULE TbcMessagesLow --------------------------
(*****************************************************************************)
(* The messages of the 2.4.3 version of the world protocol from              *)
(* CMSG_BOOTME to SMSG_PONG, in the order of                                 *)
(* src/wow_world_messages_c/src/tbc.c.                                       *)
(*                                                                           *)
(* A message is a function from its wires to records of what its functions   *)
(* do on them. Neighbours are defined together, in a record named for the    *)
(* first. A message of which every function does what that of an earlier     *)
(* message does is defined as that message.                                  *)
(*****************************************************************************)
EXTENDS TbcStructs

tbc_FromCmsgBootme ==
  [CMSG_BOOTME |-> EmptyCmsg(0),
   CMSG_DBLOOKUP |-> [w \in OfLength |->
     Cmsg(Free({"query"}), Minimum(1) \o Null({"query"}) \o Cstring("query", w),
          WRITE_CSTRING(w), 1 + w.len)],
   CMSG_WORLD_TELEPORT |-> [w \in {Fixed} |->
     Cmsg({}, Minimum(24) \o Ints(<<4, 4>>) \o Vector3d.read \o Ints(<<4>>),
          2 * 4 + Vector3d.written + 4, 24)]]

tbc_FromCmsgTeleportToUnit ==
  [CMSG_TELEPORT_TO_UNIT |-> [w \in OfLength |->
     Cmsg(Free({"name"}), Minimum(1) \o Null({"name"}) \o Cstring("name", w),
          WRITE_CSTRING(w), 1 + w.len)],
   CMSG_CHAR_CREATE |-> [w \in OfLength |->
     Cmsg(
       Free({"name"}), Minimum(10) \o Null({"name"}) \o Cstring("name", w) \o Ints(Repeat(9, 1)),
       WRITE_CSTRING(w) + 9 * 1, 10 + w.len)],
   CMSG_CHAR_ENUM |-> EmptyCmsg(0)]

tbc_FromCmsgCharDelete ==
  [CMSG_CHAR_DELETE |-> PlainCmsg(8, <<8>>, 8, 8),
   SMSG_CHAR_CREATE |-> PlainSmsg(1, <<1>>, 1, 1),
   SMSG_CHAR_ENUM |-> [w \in OfLengthAndCount |->
     Smsg(
       FreeEach("characters", w.count, tbc_Character(w).free),
       Minimum(1) \o Null({"characters"}) \o Ints(<<1>>)
       \o Array("characters", w.count, tbc_Character(w).free, tbc_Character(w).read),
       1 + w.count * tbc_Character(w).written, 1 + w.count * tbc_Character(w).size)]]

tbc_FromSmsgCharDelete ==
  [SMSG_CHAR_DELETE |-> PlainSmsg(1, <<1>>, 1, 1),
   CMSG_PLAYER_LOGIN |-> PlainCmsg(8, <<8>>, 8, 8),
   SMSG_NEW_WORLD |-> [w \in {Fixed} |->
     Smsg({}, Minimum(20) \o Ints(<<4>>) \o Vector3d.read \o Ints(<<4>>),
          4 + Vector3d.written + 4, 20)]]

tbc_FromSmsgTransferPending ==
  [SMSG_TRANSFER_PENDING |-> [w \in Wires({0}, {0}, {}, {"has_transport"}) |->
     Smsg(
       Free({"has_transport"}),
       Counted(4, Minimum(4) \o Null({"has_transport"}) \o Ints(<<4>>))
       \o Optional("has_transport", {}, Ints(<<4, 4>>)),
       4 + Bytes(Is(w, "has_transport"), 2 * 4), 4 + Bytes(Is(w, "has_transport"), 8))],
   SMSG_TRANSFER_ABORTED |->
     [w \in Wires({0}, {0},
                  {{"TRANSFER_ABORT_REASON_INSUFFICIENT_EXPANSION_LEVEL",
                    "TRANSFER_ABORT_REASON_NONE"}}, {}) |->
       Smsg(
         {},
         Minimum(5) \o Ints(<<4, 1>>)
         \o When(Is(w, "TRANSFER_ABORT_REASON_INSUFFICIENT_EXPANSION_LEVEL"), Ints(<<1>>)),
         4 + 1 + Bytes(Is(w, "TRANSFER_ABORT_REASON_INSUFFICIENT_EXPANSION_LEVEL"), 1),
         5 + Bytes(Is(w, "TRANSFER_ABORT_REASON_INSUFFICIENT_EXPANSION_LEVEL"), 1))]]

tbc_FromSmsgCharacterLoginFailed ==
  [SMSG_CHARACTER_LOGIN_FAILED |-> PlainSmsg(1, <<1>>, 1, 1),
   SMSG_LOGIN_SETTIMESPEED |-> PlainSmsg(8, <<4, 4>>, 2 * 4, 8),
   CMSG_PLAYER_LOGOUT |-> EmptyCmsg(0),
   CMSG_LOGOUT_REQUEST |-> EmptyCmsg(0),
   SMSG_LOGOUT_RESPONSE |-> PlainSmsg(5, <<4, 1>>, 4 + 1, 5)]

tbc_FromSmsgLogoutComplete ==
  [SMSG_LOGOUT_COMPLETE |-> EmptySmsg(0),
   CMSG_LOGOUT_CANCEL |-> EmptyCmsg(0),
   SMSG_LOGOUT_CANCEL_ACK |-> EmptySmsg(0),
   CMSG_NAME_QUERY |-> PlainCmsg(8, <<8>>, 8, 8)]

tbc_FromSmsgNameQueryResponse ==
  [SMSG_NAME_QUERY_RESPONSE |->
     [w \in Wires(Lengths, {0}, {{"DECLINED_NAMES_YES", "DECLINED_NAMES_NO"}}, {}) |->
       Smsg(
         Free({"character_name", "realm_name"})
         \union FreeIf("has_declined_names", {"DECLINED_NAMES_YES"},
                       FreeFixed("declined_names", 5, Free({"text"}))),
         Minimum(16) \o Null({"character_name", "realm_name"})
         \o Each("declined_names", 5, Null({"text"})) \o PackedGuid(w)
         \o Cstring("character_name", w) \o Cstring("realm_name", w) \o Ints(<<4, 4, 4>>)
         \o Field(1, "has_declined_names", {}, w)
         \o When(Is(w, "DECLINED_NAMES_YES"), Each("declined_names", 5, Cstring("text", w))),
         WRITE_PACKED_GUID(w) + 2 * WRITE_CSTRING(w) + 3 * 4 + 1
         + Bytes(Is(w, "DECLINED_NAMES_YES"), 5 * WRITE_CSTRING(w)),
         15 + 2 * w.len + wwm_packed_guid_size(w)
         + Bytes(Is(w, "DECLINED_NAMES_YES"), 5 * (1 + w.len)))],
   CMSG_PET_NAME_QUERY |-> PlainCmsg(12, <<4, 8>>, 4 + 8, 12)]

tbc_FromSmsgPetNameQueryResponse ==
  [SMSG_PET_NAME_QUERY_RESPONSE |->
     [w \in Wires(
              Lengths, {0},
              {{"PET_QUERY_DISABLED_NAMES_PRESENT", "PET_QUERY_DISABLED_NAMES_NOT_PRESENT"}}, {}) |->
       Smsg(
         Free({"name"})
         \union FreeIf("names", {"PET_QUERY_DISABLED_NAMES_PRESENT"},
                       FreeFixed("declined_names", 5, Free({"text"}))),
         Minimum(10) \o Null({"name"}) \o Each("declined_names", 5, Null({"text"})) \o Ints(<<4>>)
         \o Cstring("name", w) \o Ints(<<4>>) \o Field(1, "names", {}, w)
         \o When(Is(w, "PET_QUERY_DISABLED_NAMES_PRESENT"),
                 Each("declined_names", 5, Cstring("text", w))),
         4 + WRITE_CSTRING(w) + 4 + 1
         + Bytes(Is(w, "PET_QUERY_DISABLED_NAMES_PRESENT"), 5 * WRITE_CSTRING(w)),
         10 + w.len + Bytes(Is(w, "PET_QUERY_DISABLED_NAMES_PRESENT"), 5 * (1 + w.len)))],
   CMSG_GUILD_QUERY |-> PlainCmsg(4, <<4>>, 4, 4)]

tbc_FromSmsgGuildQueryResponse ==
  [SMSG_GUILD_QUERY_RESPONSE |-> [w \in OfLength |->
     Smsg(
       Free({"name"}) \union FreeFixed("rank_names", 10, Free({"text"})),
       Minimum(35) \o Null({"name"}) \o Each("rank_names", 10, Null({"text"})) \o Ints(<<4>>)
       \o Cstring("name", w) \o Each("rank_names", 10, Cstring("text", w)) \o Ints(Repeat(5, 4)),
       4 + WRITE_CSTRING(w) + 10 * WRITE_CSTRING(w) + 5 * 4, 25 + w.len + 10 * (1 + w.len))],
   CMSG_ITEM_QUERY_SINGLE |-> PlainCmsg(4, <<4>>, 4, 4)]

tbc_FromSmsgItemQuerySingleResponse ==
  [SMSG_ITEM_QUERY_SINGLE_RESPONSE |-> [w \in Wires(Lengths, {0}, {}, {"found"}) |->
     Smsg(
       FreeOptional("found", Free({"name1", "name2", "name3", "name4", "description"})),
       Counted(4, Minimum(4) \o Null({"found"}) \o Ints(<<4>>))
       \o Optional(
            "found", Free({"name1", "name2", "name3", "name4", "description"}),
            Null({"name1", "name2", "name3", "name4", "description"}) \o Ints(<<8, 4>>)
            \o Cstring("name1", w) \o Cstring("name2", w) \o Cstring("name3", w)
            \o Cstring("name4", w) \o Ints(Repeat(20, 4)) \o Each("stats", 10, tbc_ItemStat.read)
            \o Each("damages", 5, tbc_ItemDamageType.read) \o Ints(Repeat(10, 4))
            \o Each("spells", 5, tbc_ItemSpells.read) \o Ints(<<4>>) \o Cstring("description", w)
            \o Ints(Repeat(15, 4)) \o Each("sockets", 3, tbc_ItemSocket.read)
            \o Ints(Repeat(5, 4))),
       4
       + Bytes(
           Is(w, "found"),
           8 + 4 + 4 * WRITE_CSTRING(w) + 20 * 4 + 10 * tbc_ItemStat.written
           + 5 * tbc_ItemDamageType.written + 10 * 4 + 5 * tbc_ItemSpells.written + 4
           + WRITE_CSTRING(w) + 15 * 4 + 3 * tbc_ItemSocket.written + 5 * 4),
       4 + Bytes(Is(w, "found"), 505 + 5 * w.len))]]

tbc_FromCmsgPageTextQuery ==
  [CMSG_PAGE_TEXT_QUERY |-> PlainCmsg(12, <<4, 8>>, 4 + 8, 12),
   SMSG_PAGE_TEXT_QUERY_RESPONSE |-> [w \in OfLength |->
     Smsg(Free({"text"}),
          Minimum(9) \o Null({"text"}) \o Ints(<<4>>) \o Cstring("text", w) \o Ints(<<4>>),
          4 + WRITE_CSTRING(w) + 4, 9 + w.len)],
   CMSG_QUEST_QUERY |-> PlainCmsg(4, <<4>>, 4, 4)]

tbc_FromSmsgQuestQueryResponse ==
  [SMSG_QUEST_QUERY_RESPONSE |-> [w \in OfLength |->
     Smsg(
       Free({"title", "objective_text", "details", "end_text"})
       \union FreeFixed("objective_texts", 4, Free({"text"})),
       Minimum(240) \o Null({"title", "objective_text", "details", "end_text"})
       \o Each("objective_texts", 4, Null({"text"}))
       \o Ints(Repeat(6, 4) \o <<2, 4, 2>> \o Repeat(10, 4))
       \o Each("rewards", 4, tbc_QuestItemReward.read)
       \o Each("choice_rewards", 6, tbc_QuestItemReward.read) \o Ints(<<4>>) \o Vector2d.read
       \o Ints(<<4>>) \o Cstring("title", w) \o Cstring("objective_text", w)
       \o Cstring("details", w) \o Cstring("end_text", w)
       \o Each("objectives", 4, tbc_QuestObjective.read)
       \o Each("objective_texts", 4, Cstring("text", w)),
       6 * 4 + 2 + 4 + 2 + 10 * 4 + 4 * tbc_QuestItemReward.written
       + 6 * tbc_QuestItemReward.written + 4 + Vector2d.written + 4 + 4 * WRITE_CSTRING(w)
       + 4 * tbc_QuestObjective.written + 4 * WRITE_CSTRING(w), 236 + 4 * w.len + 4 * (1 + w.len))]]

tbc_FromCmsgGameobjectQuery ==
  [CMSG_GAMEOBJECT_QUERY |-> PlainCmsg(12, <<4, 8>>, 4 + 8, 12)]

tbc_FromSmsgGameobjectQueryResponse ==
  [SMSG_GAMEOBJECT_QUERY_RESPONSE |-> [w \in Wires(Lengths, {0}, {}, {"found"}) |->
     Smsg(
       FreeOptional(
         "found",
         Free({"name1", "name2", "name3", "name4", "icon_name", "cast_bar_caption", "unknown"})),
       Counted(4, Minimum(4) \o Null({"found"}) \o Ints(<<4>>))
       \o Optional(
            "found",
            Free({"name1", "name2", "name3", "name4", "icon_name", "cast_bar_caption", "unknown"}),
            Null({"name1", "name2", "name3", "name4", "icon_name", "cast_bar_caption", "unknown"})
            \o Ints(<<4, 4>>) \o Cstring("name1", w) \o Cstring("name2", w) \o Cstring("name3", w)
            \o Cstring("name4", w) \o Cstring("icon_name", w) \o Cstring("cast_bar_caption", w)
            \o Cstring("unknown", w) \o Ints(Repeat(7, 4))),
       4 + Bytes(Is(w, "found"), 2 * 4 + 7 * WRITE_CSTRING(w) + 6 * 4 + 4),
       4 + Bytes(Is(w, "found"), 43 + 7 * w.len))]]

tbc_FromCmsgCreatureQuery ==
  [CMSG_CREATURE_QUERY |-> PlainCmsg(12, <<4, 8>>, 4 + 8, 12)]

tbc_FromSmsgCreatureQueryResponse ==
  [SMSG_CREATURE_QUERY_RESPONSE |-> [w \in Wires(Lengths, {0}, {}, {"found"}) |->
     Smsg(
       FreeOptional(
         "found", Free({"name1", "name2", "name3", "name4", "sub_name", "description"})),
       Counted(4, Minimum(4) \o Null({"found"}) \o Ints(<<4>>))
       \o Optional(
            "found", Free({"name1", "name2", "name3", "name4", "sub_name", "description"}),
            Null({"name1", "name2", "name3", "name4", "sub_name", "description"})
            \o Cstring("name1", w) \o Cstring("name2", w) \o Cstring("name3", w)
            \o Cstring("name4", w) \o Cstring("sub_name", w) \o Cstring("description", w)
            \o Ints(Repeat(12, 4) \o <<1>>)),
       4 + Bytes(Is(w, "found"), 6 * WRITE_CSTRING(w) + 6 * 4 + 4 * 4 + 2 * 4 + 1),
       4 + Bytes(Is(w, "found"), 55 + 6 * w.len))]]

tbc_FromCmsgWho ==
  [CMSG_WHO |-> [w \in OfLengthAndCount |->
     Cmsg(
       Free({"player_name", "guild_name", "zones"})
       \union FreeEach("search_strings", w.count, Free({"text"})),
       Minimum(26) \o Null({"player_name", "guild_name", "zones", "search_strings"})
       \o Ints(<<4, 4>>) \o Cstring("player_name", w) \o Cstring("guild_name", w)
       \o Ints(<<4, 4, 4>>) \o Calloc("zones", w.count, {}) \o Ints(Repeat(w.count, 4) \o <<4>>)
       \o Array("search_strings", w.count, Free({"text"}), Cstring("text", w)),
       2 * 4 + 2 * WRITE_CSTRING(w) + 3 * 4 + w.count * 4 + 4 + w.count * WRITE_CSTRING(w),
       26 + 2 * w.len + 4 * w.count + w.count * (1 + w.len))]]

tbc_FromSmsgWho ==
  [SMSG_WHO |-> [w \in OfLengthAndCount |->
     Smsg(
       FreeEach("players", w.count, tbc_WhoPlayer(w).free),
       Minimum(8) \o Null({"players"}) \o Ints(<<4, 4>>)
       \o Array("players", w.count, tbc_WhoPlayer(w).free, tbc_WhoPlayer(w).read),
       2 * 4 + w.count * tbc_WhoPlayer(w).written, 8 + w.count * tbc_WhoPlayer(w).size)],
   CMSG_WHOIS |-> [w \in OfLength |->
     Cmsg(Free({"character"}), Minimum(1) \o Null({"character"}) \o Cstring("character", w),
          WRITE_CSTRING(w), 1 + w.len)]]

tbc_FromSmsgWhois ==
  [SMSG_WHOIS |-> [w \in OfLength |->
     Smsg(Free({"message"}), Minimum(1) \o Null({"message"}) \o Cstring("message", w),
          WRITE_CSTRING(w), 1 + w.len)],
   CMSG_CONTACT_LIST |-> PlainCmsg(4, <<4>>, 4, 4)]

tbc_FromSmsgContactList ==
  [SMSG_CONTACT_LIST |->
     [w \in Wires(Lengths, Counts, {{"FRIEND_STATUS_ONLINE", "FRIEND_STATUS_OFFLINE"}},
                  {"RELATION_TYPE_FRIEND"}) |->
       Smsg(
         FreeEach("relations", w.count, tbc_Relation(w).free),
         Minimum(8) \o Null({"relations"}) \o Ints(<<4, 4>>)
         \o Array("relations", w.count, tbc_Relation(w).free, tbc_Relation(w).read),
         2 * 4 + w.count * tbc_Relation(w).written, 8 + w.count * tbc_Relation(w).size)],
   SMSG_FRIEND_STATUS |-> PlainSmsg(9, <<1, 8>>, 1 + 8, 9)]

tbc_FromCmsgAddFriend ==
  [CMSG_ADD_FRIEND |-> [w \in OfLength |->
     Cmsg(Free({"name", "note"}),
          Minimum(2) \o Null({"name", "note"}) \o Cstring("name", w) \o Cstring("note", w),
          2 * WRITE_CSTRING(w), 2 + 2 * w.len)],
   CMSG_DEL_FRIEND |-> PlainCmsg(8, <<8>>, 8, 8),
   CMSG_SET_CONTACT_NOTES |-> [w \in OfLength |->
     Cmsg(Free({"note"}), Minimum(9) \o Null({"note"}) \o Ints(<<8>>) \o Cstring("note", w),
          8 + WRITE_CSTRING(w), 9 + w.len)]]

tbc_FromCmsgAddIgnore ==
  [CMSG_ADD_IGNORE |-> [w \in OfLength |->
     Cmsg(Free({"name"}), Minimum(1) \o Null({"name"}) \o Cstring("name", w),
          WRITE_CSTRING(w), 1 + w.len)],
   CMSG_DEL_IGNORE |-> PlainCmsg(8, <<8>>, 8, 8),
   CMSG_GROUP_INVITE |-> [w \in OfLength |->
     Cmsg(Free({"name"}), Minimum(1) \o Null({"name"}) \o Cstring("name", w),
          WRITE_CSTRING(w), 1 + w.len)]]

tbc_FromSmsgGroupInvite ==
  [SMSG_GROUP_INVITE |-> [w \in OfLength |->
     Smsg(Free({"name"}), Minimum(1) \o Null({"name"}) \o Cstring("name", w),
          WRITE_CSTRING(w), 1 + w.len)],
   CMSG_GROUP_CANCEL |-> EmptyCmsg(0),
   CMSG_GROUP_ACCEPT |-> EmptyCmsg(0),
   CMSG_GROUP_DECLINE |-> EmptyCmsg(0),
   SMSG_GROUP_DECLINE |-> [w \in OfLength |->
     Smsg(Free({"name"}), Minimum(1) \o Null({"name"}) \o Cstring("name", w),
          WRITE_CSTRING(w), 1 + w.len)]]

tbc_FromCmsgGroupUninvite ==
  [CMSG_GROUP_UNINVITE |-> [w \in OfLength |->
     Cmsg(Free({"name"}), Minimum(1) \o Null({"name"}) \o Cstring("name", w),
          WRITE_CSTRING(w), 1 + w.len)],
   CMSG_GROUP_UNINVITE_GUID |-> PlainCmsg(8, <<8>>, 8, 8),
   SMSG_GROUP_UNINVITE |-> EmptySmsg(0),
   CMSG_GROUP_SET_LEADER |-> PlainCmsg(8, <<8>>, 8, 8)]

tbc_FromSmsgGroupSetLeader ==
  [SMSG_GROUP_SET_LEADER |-> tbc_FromSmsgGroupInvite.SMSG_GROUP_INVITE,
   CMSG_LOOT_METHOD |-> PlainCmsg(16, <<4, 8, 4>>, 4 + 8 + 4, 16),
   CMSG_GROUP_DISBAND |-> EmptyCmsg(0),
   SMSG_GROUP_DESTROYED |-> EmptySmsg(0)]

tbc_FromSmsgGroupList ==
  [SMSG_GROUP_LIST |-> [w \in Wires(Lengths, Counts, {}, {"group_not_empty"}) |->
     Smsg(
       Free({"group_not_empty"}) \union FreeEach("members", w.count, tbc_GroupListMember(w).free),
       Counted(
         24 + w.count * tbc_GroupListMember(w).size,
         Minimum(24) \o Null({"group_not_empty", "members"}) \o Ints(<<1, 1, 1, 1, 8, 4>>)
         \o Array("members", w.count, tbc_GroupListMember(w).free, tbc_GroupListMember(w).read)
         \o Ints(<<8>>)) \o Optional("group_not_empty", {}, Ints(<<1, 8, 1, 1>>)),
       4 * 1 + 8 + 4 + w.count * tbc_GroupListMember(w).written + 8
       + Bytes(Is(w, "group_not_empty"), 1 + 8 + 2 * 1),
       24 + w.count * tbc_GroupListMember(w).size + Bytes(Is(w, "group_not_empty"), 11))]]

tbc_FromSmsgPartyMemberStats ==
  [SMSG_PARTY_MEMBER_STATS |->
     [w \in Wires(
              Lengths, {0}, {},
              {"GROUP_UPDATE_FLAGS_STATUS", "GROUP_UPDATE_FLAGS_CUR_HP", "GROUP_UPDATE_FLAGS_MAX_HP",
               "GROUP_UPDATE_FLAGS_POWER_TYPE", "GROUP_UPDATE_FLAGS_CUR_POWER",
               "GROUP_UPDATE_FLAGS_MAX_POWER", "GROUP_UPDATE_FLAGS_LEVEL", "GROUP_UPDATE_FLAGS_ZONE",
               "GROUP_UPDATE_FLAGS_POSITION", "GROUP_UPDATE_FLAGS_AURAS",
               "GROUP_UPDATE_FLAGS_PET_GUID", "GROUP_UPDATE_FLAGS_PET_NAME",
               "GROUP_UPDATE_FLAGS_PET_MODEL_ID", "GROUP_UPDATE_FLAGS_PET_CUR_HP",
               "GROUP_UPDATE_FLAGS_PET_MAX_HP", "GROUP_UPDATE_FLAGS_PET_POWER_TYPE",
               "GROUP_UPDATE_FLAGS_PET_CUR_POWER", "GROUP_UPDATE_FLAGS_PET_MAX_POWER",
               "GROUP_UPDATE_FLAGS_PET_AURAS"}) |->
       Smsg(
         FreeIf("mask", {"GROUP_UPDATE_FLAGS_PET_NAME"}, Free({"pet_name"})),
         Minimum(5) \o Null({"pet_name"}) \o PackedGuid(w) \o Field(4, "mask", {}, w)
         \o When(Is(w, "GROUP_UPDATE_FLAGS_STATUS"), Ints(<<1>>))
         \o When(Is(w, "GROUP_UPDATE_FLAGS_CUR_HP"), Ints(<<2>>))
         \o When(Is(w, "GROUP_UPDATE_FLAGS_MAX_HP"), Ints(<<2>>))
         \o When(Is(w, "GROUP_UPDATE_FLAGS_POWER_TYPE"), Ints(<<1>>))
         \o When(Is(w, "GROUP_UPDATE_FLAGS_CUR_POWER"), Ints(<<2>>))
         \o When(Is(w, "GROUP_UPDATE_FLAGS_MAX_POWER"), Ints(<<2>>))
         \o When(Is(w, "GROUP_UPDATE_FLAGS_LEVEL"), Ints(<<2>>))
         \o When(Is(w, "GROUP_UPDATE_FLAGS_ZONE"), Ints(<<4>>))
         \o When(Is(w, "GROUP_UPDATE_FLAGS_POSITION"), Ints(<<2, 2>>))
         \o When(Is(w, "GROUP_UPDATE_FLAGS_AURAS"), tbc_aura_mask(w))
         \o When(Is(w, "GROUP_UPDATE_FLAGS_PET_GUID"), Ints(<<8>>))
         \o When(Is(w, "GROUP_UPDATE_FLAGS_PET_NAME"), Cstring("pet_name", w))
         \o When(Is(w, "GROUP_UPDATE_FLAGS_PET_MODEL_ID"), Ints(<<2>>))
         \o When(Is(w, "GROUP_UPDATE_FLAGS_PET_CUR_HP"), Ints(<<2>>))
         \o When(Is(w, "GROUP_UPDATE_FLAGS_PET_MAX_HP"), Ints(<<2>>))
         \o When(Is(w, "GROUP_UPDATE_FLAGS_PET_POWER_TYPE"), Ints(<<1>>))
         \o When(Is(w, "GROUP_UPDATE_FLAGS_PET_CUR_POWER"), Ints(<<2>>))
         \o When(Is(w, "GROUP_UPDATE_FLAGS_PET_MAX_POWER"), Ints(<<2>>))
         \o When(Is(w, "GROUP_UPDATE_FLAGS_PET_AURAS"), tbc_aura_mask(w)),
         WRITE_PACKED_GUID(w) + 4 + Bytes(Is(w, "GROUP_UPDATE_FLAGS_STATUS"), 1)
         + Bytes(Is(w, "GROUP_UPDATE_FLAGS_CUR_HP"), 2)
         + Bytes(Is(w, "GROUP_UPDATE_FLAGS_MAX_HP"), 2)
         + Bytes(Is(w, "GROUP_UPDATE_FLAGS_POWER_TYPE"), 1)
         + Bytes(Is(w, "GROUP_UPDATE_FLAGS_CUR_POWER"), 2)
         + Bytes(Is(w, "GROUP_UPDATE_FLAGS_MAX_POWER"), 2)
         + Bytes(Is(w, "GROUP_UPDATE_FLAGS_LEVEL"), 2) + Bytes(Is(w, "GROUP_UPDATE_FLAGS_ZONE"), 4)
         + Bytes(Is(w, "GROUP_UPDATE_FLAGS_POSITION"), 2 * 2)
         + Bytes(Is(w, "GROUP_UPDATE_FLAGS_AURAS"), tbc_aura_mask_written(w))
         + Bytes(Is(w, "GROUP_UPDATE_FLAGS_PET_GUID"), 8)
         + Bytes(Is(w, "GROUP_UPDATE_FLAGS_PET_NAME"), WRITE_CSTRING(w))
         + Bytes(Is(w, "GROUP_UPDATE_FLAGS_PET_MODEL_ID"), 2)
         + Bytes(Is(w, "GROUP_UPDATE_FLAGS_PET_CUR_HP"), 2)
         + Bytes(Is(w, "GROUP_UPDATE_FLAGS_PET_MAX_HP"), 2)
         + Bytes(Is(w, "GROUP_UPDATE_FLAGS_PET_POWER_TYPE"), 1)
         + Bytes(Is(w, "GROUP_UPDATE_FLAGS_PET_CUR_POWER"), 2)
         + Bytes(Is(w, "GROUP_UPDATE_FLAGS_PET_MAX_POWER"), 2)
         + Bytes(Is(w, "GROUP_UPDATE_FLAGS_PET_AURAS"), tbc_aura_mask_written(w)),
         4 + wwm_packed_guid_size(w) + Bytes(Is(w, "GROUP_UPDATE_FLAGS_STATUS"), 1)
         + Bytes(Is(w, "GROUP_UPDATE_FLAGS_CUR_HP"), 2)
         + Bytes(Is(w, "GROUP_UPDATE_FLAGS_MAX_HP"), 2)
         + Bytes(Is(w, "GROUP_UPDATE_FLAGS_POWER_TYPE"), 1)
         + Bytes(Is(w, "GROUP_UPDATE_FLAGS_CUR_POWER"), 2)
         + Bytes(Is(w, "GROUP_UPDATE_FLAGS_MAX_POWER"), 2)
         + Bytes(Is(w, "GROUP_UPDATE_FLAGS_LEVEL"), 2) + Bytes(Is(w, "GROUP_UPDATE_FLAGS_ZONE"), 4)
         + Bytes(Is(w, "GROUP_UPDATE_FLAGS_POSITION"), 4)
         + Bytes(Is(w, "GROUP_UPDATE_FLAGS_AURAS"), tbc_aura_mask_size(w))
         + Bytes(Is(w, "GROUP_UPDATE_FLAGS_PET_GUID"), 8)
         + Bytes(Is(w, "GROUP_UPDATE_FLAGS_PET_NAME"), 1 + w.len)
         + Bytes(Is(w, "GROUP_UPDATE_FLAGS_PET_MODEL_ID"), 2)
         + Bytes(Is(w, "GROUP_UPDATE_FLAGS_PET_CUR_HP"), 2)
         + Bytes(Is(w, "GROUP_UPDATE_FLAGS_PET_MAX_HP"), 2)
         + Bytes(Is(w, "GROUP_UPDATE_FLAGS_PET_POWER_TYPE"), 1)
         + Bytes(Is(w, "GROUP_UPDATE_FLAGS_PET_CUR_POWER"), 2)
         + Bytes(Is(w, "GROUP_UPDATE_FLAGS_PET_MAX_POWER"), 2)
         + Bytes(Is(w, "GROUP_UPDATE_FLAGS_PET_AURAS"), tbc_aura_mask_size(w)))]]

tbc_FromSmsgPartyCommandResult ==
  [SMSG_PARTY_COMMAND_RESULT |-> [w \in OfLength |->
     Smsg(Free({"member"}),
          Minimum(9) \o Null({"member"}) \o Ints(<<4>>) \o Cstring("member", w) \o Ints(<<4>>),
          4 + WRITE_CSTRING(w) + 4, 9 + w.len)],
   CMSG_GUILD_CREATE |-> [w \in OfLength |->
     Cmsg(Free({"guild_name"}), Minimum(1) \o Null({"guild_name"}) \o Cstring("guild_name", w),
          WRITE_CSTRING(w), 1 + w.len)],
   CMSG_GUILD_INVITE |-> [w \in OfLength |->
     Cmsg(Free({"invited_player"}),
          Minimum(1) \o Null({"invited_player"}) \o Cstring("invited_player", w),
          WRITE_CSTRING(w), 1 + w.len)]]

tbc_FromSmsgGuildInvite ==
  [SMSG_GUILD_INVITE |-> [w \in OfLength |->
     Smsg(Free({"player_name", "guild_name"}),
          Minimum(2) \o Null({"player_name", "guild_name"}) \o Cstring("player_name", w)
          \o Cstring("guild_name", w), 2 * WRITE_CSTRING(w), 2 + 2 * w.len)],
   CMSG_GUILD_ACCEPT |-> EmptyCmsg(0),
   CMSG_GUILD_DECLINE |-> EmptyCmsg(0),
   SMSG_GUILD_DECLINE |-> [w \in OfLength |->
     Smsg(Free({"player"}), Minimum(1) \o Null({"player"}) \o Cstring("player", w),
          WRITE_CSTRING(w), 1 + w.len)],
   CMSG_GUILD_INFO |-> EmptyCmsg(0)]

tbc_FromSmsgGuildInfo ==
  [SMSG_GUILD_INFO |-> [w \in OfLength |->
     Smsg(Free({"guild_name"}),
          Minimum(21) \o Null({"guild_name"}) \o Cstring("guild_name", w) \o Ints(Repeat(5, 4)),
          WRITE_CSTRING(w) + 5 * 4, 21 + w.len)],
   CMSG_GUILD_ROSTER |-> EmptyCmsg(0)]

tbc_FromSmsgGuildRoster ==
  [SMSG_GUILD_ROSTER |->
     [w \in Wires(Lengths, Counts, {{"GUILD_MEMBER_STATUS_OFFLINE", "GUILD_MEMBER_STATUS_ONLINE"}},
                  {}) |->
       Smsg(
         Free({"motd", "guild_info", "rights"})
         \union FreeEach("members", w.count, tbc_GuildMember(w).free),
         Minimum(10) \o Null({"motd", "guild_info", "rights", "members"}) \o Ints(<<4>>)
         \o Cstring("motd", w) \o Cstring("guild_info", w) \o Ints(<<4>>)
         \o Array("rights", w.count, {}, tbc_GuildRights.read)
         \o Array("members", w.count, tbc_GuildMember(w).free, tbc_GuildMember(w).read),
         4 + 2 * WRITE_CSTRING(w) + 4 + w.count * tbc_GuildRights.written
         + w.count * tbc_GuildMember(w).written,
         10 + 2 * w.len + 56 * w.count + w.count * tbc_GuildMember(w).size)],
   CMSG_GUILD_PROMOTE |-> [w \in OfLength |->
     Cmsg(Free({"player_name"}), Minimum(1) \o Null({"player_name"}) \o Cstring("player_name", w),
          WRITE_CSTRING(w), 1 + w.len)]]

tbc_FromCmsgGuildDemote ==
  [CMSG_GUILD_DEMOTE |-> tbc_FromSmsgGuildRoster.CMSG_GUILD_PROMOTE,
   CMSG_GUILD_LEAVE |-> EmptyCmsg(0),
   CMSG_GUILD_REMOVE |-> tbc_FromSmsgGuildRoster.CMSG_GUILD_PROMOTE,
   CMSG_GUILD_DISBAND |-> EmptyCmsg(0)]

tbc_FromCmsgGuildLeader ==
  [CMSG_GUILD_LEADER |-> [w \in OfLength |->
     Cmsg(Free({"new_guild_leader_name"}),
          Minimum(1) \o Null({"new_guild_leader_name"}) \o Cstring("new_guild_leader_name", w),
          WRITE_CSTRING(w), 1 + w.len)],
   CMSG_GUILD_MOTD |-> [w \in OfLength |->
     Cmsg(Free({"message_of_the_day"}),
          Minimum(1) \o Null({"message_of_the_day"}) \o Cstring("message_of_the_day", w),
          WRITE_CSTRING(w), 1 + w.len)]]

tbc_FromSmsgGuildEvent ==
  [SMSG_GUILD_EVENT |-> [w \in OfLengthAndCount |->
     Smsg(
       FreeEach("event_descriptions", w.count, Free({"text"})),
       Minimum(2) \o Null({"event_descriptions"}) \o Ints(<<1, 1>>)
       \o Array("event_descriptions", w.count, Free({"text"}), Cstring("text", w)),
       2 * 1 + w.count * WRITE_CSTRING(w), 2 + w.count * (1 + w.len))],
   SMSG_GUILD_COMMAND_RESULT |-> [w \in OfLength |->
     Smsg(Free({"string"}),
          Minimum(9) \o Null({"string"}) \o Ints(<<4>>) \o Cstring("string", w) \o Ints(<<4>>),
          4 + WRITE_CSTRING(w) + 4, 9 + w.len)]]

tbc_FromCmsgMessagechat ==
  [CMSG_MESSAGECHAT |->
     [w \in Wires(
              Lengths, {0}, {{"CHAT_TYPE_WHISPER", "CHAT_TYPE_CHANNEL", "CHAT_TYPE_SYSTEM"}}, {}) |->
       Cmsg(
         Free({"message"})
         \union FreeIf("chat_type", {"CHAT_TYPE_WHISPER"}, Free({"target_player"}))
         \union FreeIf("chat_type", {"CHAT_TYPE_CHANNEL"}, Free({"channel"})),
         Minimum(9) \o Null({"target_player", "channel", "message"}) \o Field(4, "chat_type", {}, w)
         \o Ints(<<4>>) \o When(Is(w, "CHAT_TYPE_WHISPER"), Cstring("target_player", w))
         \o When(Is(w, "CHAT_TYPE_CHANNEL"), Cstring("channel", w)) \o Cstring("message", w),
         2 * 4 + Bytes(Is(w, "CHAT_TYPE_WHISPER"), WRITE_CSTRING(w))
         + Bytes(Is(w, "CHAT_TYPE_CHANNEL"), WRITE_CSTRING(w)) + WRITE_CSTRING(w),
         9 + w.len + Bytes(Is(w, "CHAT_TYPE_WHISPER"), 1 + w.len)
         + Bytes(Is(w, "CHAT_TYPE_CHANNEL"), 1 + w.len))]]

tbc_FromSmsgMessagechat ==
  [SMSG_MESSAGECHAT |->
     [w \in Wires(Lengths, {0},
                  {{"CHAT_TYPE_MONSTER_SAY", "CHAT_TYPE_BG_SYSTEM_NEUTRAL", "CHAT_TYPE_CHANNEL",
                    "CHAT_TYPE_SYSTEM"}}, {"guid"}) |->
       Smsg(
         Free({"message"})
         \union FreeIf("chat_type", {"CHAT_TYPE_MONSTER_SAY"},
                       Free({"sender"}) \union FreeAt(<<"target1">>, NamedGuid(w).free))
         \union FreeIf("chat_type", {"CHAT_TYPE_BG_SYSTEM_NEUTRAL"},
                       FreeAt(<<"target2">>, NamedGuid(w).free))
         \union FreeIf("chat_type", {"CHAT_TYPE_CHANNEL"}, Free({"channel_name"})),
         Minimum(19) \o Null({"sender"}) \o At(<<"target1">>, Clear("guid"))
         \o At(<<"target1">>, Null({"name"})) \o At(<<"target2">>, Clear("guid"))
         \o At(<<"target2">>, Null({"name"})) \o Null({"channel_name", "message"})
         \o Field(1, "chat_type", {}, w) \o Ints(<<4>>)
         \o When(Is(w, "CHAT_TYPE_MONSTER_SAY"),
                 SizedCstring("sender", w) \o At(<<"target1">>, NamedGuid(w).read))
         \o When(Is(w, "CHAT_TYPE_BG_SYSTEM_NEUTRAL"), At(<<"target2">>, NamedGuid(w).read))
         \o When(Is(w, "CHAT_TYPE_CHANNEL"), Cstring("channel_name", w) \o Ints(<<8>>))
         \o When(Is(w, "CHAT_TYPE_SYSTEM"), Ints(<<8>>)) \o SizedCstring("message", w)
         \o Ints(<<1>>),
         1 + 4
         + Bytes(Is(w, "CHAT_TYPE_MONSTER_SAY"), WRITE_SIZED_CSTRING(w) + NamedGuid(w).written)
         + Bytes(Is(w, "CHAT_TYPE_BG_SYSTEM_NEUTRAL"), NamedGuid(w).written)
         + Bytes(Is(w, "CHAT_TYPE_CHANNEL"), WRITE_CSTRING(w) + 8)
         + Bytes(Is(w, "CHAT_TYPE_SYSTEM"), 8) + WRITE_SIZED_CSTRING(w) + 1,
         11 + w.len + Bytes(Is(w, "CHAT_TYPE_MONSTER_SAY"), 5 + w.len + NamedGuid(w).size)
         + Bytes(Is(w, "CHAT_TYPE_BG_SYSTEM_NEUTRAL"), NamedGuid(w).size)
         + Bytes(Is(w, "CHAT_TYPE_CHANNEL"), 9 + w.len) + Bytes(Is(w, "CHAT_TYPE_SYSTEM"), 8))]]

tbc_FromCmsgJoinChannel ==
  [CMSG_JOIN_CHANNEL |-> [w \in OfLength |->
     Cmsg(
       Free({"channel_name", "channel_password"}),
       Minimum(8) \o Null({"channel_name", "channel_password"}) \o Ints(<<4, 1, 1>>)
       \o Cstring("channel_name", w) \o Cstring("channel_password", w),
       4 + 2 * 1 + 2 * WRITE_CSTRING(w), 8 + 2 * w.len)],
   CMSG_LEAVE_CHANNEL |-> [w \in OfLength |->
     Cmsg(Free({"channel_name"}),
          Minimum(5) \o Null({"channel_name"}) \o Ints(<<4>>) \o Cstring("channel_name", w),
          4 + WRITE_CSTRING(w), 5 + w.len)]]

tbc_FromSmsgChannelNotify ==
  [SMSG_CHANNEL_NOTIFY |-> [w \in Wires(Lengths, {0}, {}, {"unknown1"}) |->
     Smsg(
       Free({"channel_name", "unknown1"}),
       Counted(
         2 + w.len,
         Minimum(2) \o Null({"unknown1", "channel_name"}) \o Ints(<<1>>)
         \o Cstring("channel_name", w)) \o Optional("unknown1", {}, Ints(<<4, 4>>)),
       1 + WRITE_CSTRING(w) + Bytes(Is(w, "unknown1"), 2 * 4),
       2 + w.len + Bytes(Is(w, "unknown1"), 8))],
   CMSG_CHANNEL_LIST |-> [w \in OfLength |->
     Cmsg(
       Free({"channel_name"}), Minimum(1) \o Null({"channel_name"}) \o Cstring("channel_name", w),
       WRITE_CSTRING(w), 1 + w.len)]]

tbc_FromSmsgChannelList ==
  [SMSG_CHANNEL_LIST |-> [w \in OfLengthAndCount |->
     Smsg(
       Free({"channel_name", "members"}),
       Minimum(6) \o Null({"channel_name", "members"}) \o Cstring("channel_name", w)
       \o Ints(<<1, 4>>) \o Array("members", w.count, {}, tbc_ChannelMember.read),
       WRITE_CSTRING(w) + 1 + 4 + w.count * tbc_ChannelMember.written, 6 + w.len + 9 * w.count)],
   CMSG_CHANNEL_PASSWORD |-> [w \in OfLength |->
     Cmsg(Free({"channel_name", "channel_password"}),
          Minimum(2) \o Null({"channel_name", "channel_password"}) \o Cstring("channel_name", w)
          \o Cstring("channel_password", w), 2 * WRITE_CSTRING(w), 2 + 2 * w.len)]]

tbc_FromCmsgChannelSetOwner ==
  [CMSG_CHANNEL_SET_OWNER |-> [w \in OfLength |->
     Cmsg(Free({"channel_name", "new_owner"}),
          Minimum(2) \o Null({"channel_name", "new_owner"}) \o Cstring("channel_name", w)
          \o Cstring("new_owner", w), 2 * WRITE_CSTRING(w), 2 + 2 * w.len)],
   CMSG_CHANNEL_OWNER |-> tbc_FromSmsgChannelNotify.CMSG_CHANNEL_LIST]

tbc_FromCmsgChannelModerator ==
  [CMSG_CHANNEL_MODERATOR |-> [w \in OfLength |->
     Cmsg(Free({"channel_name", "player_name"}),
          Minimum(2) \o Null({"channel_name", "player_name"}) \o Cstring("channel_name", w)
          \o Cstring("player_name", w), 2 * WRITE_CSTRING(w), 2 + 2 * w.len)],
   CMSG_CHANNEL_UNMODERATOR |-> [w \in OfLength |->
     Cmsg(Free({"channel_name", "player_name"}),
          Minimum(2) \o Null({"channel_name", "player_name"}) \o Cstring("channel_name", w)
          \o Cstring("player_name", w), 2 * WRITE_CSTRING(w), 2 + 2 * w.len)]]

tbc_FromCmsgChannelMute ==
  [CMSG_CHANNEL_MUTE |-> tbc_FromCmsgChannelModerator.CMSG_CHANNEL_MODERATOR,
   CMSG_CHANNEL_UNMUTE |-> tbc_FromCmsgChannelModerator.CMSG_CHANNEL_MODERATOR]

tbc_FromCmsgChannelInvite ==
  [CMSG_CHANNEL_INVITE |-> tbc_FromCmsgChannelModerator.CMSG_CHANNEL_MODERATOR,
   CMSG_CHANNEL_KICK |-> tbc_FromCmsgChannelModerator.CMSG_CHANNEL_MODERATOR]

tbc_FromCmsgChannelBan ==
  [CMSG_CHANNEL_BAN |-> tbc_FromCmsgChannelModerator.CMSG_CHANNEL_MODERATOR,
   CMSG_CHANNEL_UNBAN |-> tbc_FromCmsgChannelModerator.CMSG_CHANNEL_MODERATOR]

tbc_FromCmsgChannelAnnouncements ==
  [CMSG_CHANNEL_ANNOUNCEMENTS |-> tbc_FromSmsgChannelNotify.CMSG_CHANNEL_LIST,
   CMSG_CHANNEL_MODERATE |-> tbc_FromSmsgChannelNotify.CMSG_CHANNEL_LIST]

tbc_FromSmsgUpdateObject ==
  [SMSG_UPDATE_OBJECT |-> [w \in Wires(Lengths, UpdatedObjects, tbc_ObjectEnums, tbc_ObjectFlags) |->
     Smsg(
       FreeEach("objects", w.count, tbc_Object(w).free),
       Minimum(5) \o Null({"objects"}) \o Ints(<<4, 1>>)
       \o Array("objects", w.count, tbc_Object(w).free, tbc_Object(w).read),
       4 + 1 + w.count * tbc_Object(w).written, 5 + w.count * tbc_Object(w).size)],
   SMSG_DESTROY_OBJECT |-> PlainSmsg(8, <<8>>, 8, 8)]

tbc_FromCmsgUseItem ==
  [CMSG_USE_ITEM |-> [w \in Wires(Lengths, {0}, {}, tbc_SpellCastTargetsFlags) |->
     Cmsg(
       FreeAt(<<"targets">>, tbc_SpellCastTargets(w).free),
       Minimum(16) \o Ints(<<1, 1, 1, 1, 8>>) \o At(<<"targets">>, tbc_SpellCastTargets(w).read),
       4 * 1 + 8 + tbc_SpellCastTargets(w).written, 12 + tbc_SpellCastTargets(w).size)],
   CMSG_OPEN_ITEM |-> PlainCmsg(2, <<1, 1>>, 2 * 1, 2),
   CMSG_READ_ITEM |-> PlainCmsg(2, <<1, 1>>, 2 * 1, 2)]

tbc_FromSmsgReadItemOk ==
  [SMSG_READ_ITEM_OK |-> PlainSmsg(8, <<8>>, 8, 8),
   SMSG_READ_ITEM_FAILED |-> PlainSmsg(8, <<8>>, 8, 8),
   SMSG_ITEM_COOLDOWN |-> PlainSmsg(12, <<8, 4>>, 8 + 4, 12),
   CMSG_GAMEOBJ_USE |-> PlainCmsg(8, <<8>>, 8, 8)]

tbc_FromSmsgGameobjectCustomAnim ==
  [SMSG_GAMEOBJECT_CUSTOM_ANIM |-> PlainSmsg(12, <<8, 4>>, 8 + 4, 12),
   CMSG_AREATRIGGER |-> PlainCmsg(4, <<4>>, 4, 4),
   MSG_MOVE_START_FORWARD_Client |-> [w \in Wires(Lengths, {0}, {}, tbc_MovementInfoFlags) |->
     Cmsg({}, Minimum(29) \o tbc_MovementInfo(w).read,
          tbc_MovementInfo(w).written, tbc_MovementInfo(w).size)],
   MSG_MOVE_START_FORWARD_Server |-> [w \in Wires(Lengths, {0}, {}, tbc_MovementInfoFlags) |->
     Smsg({}, Minimum(30) \o PackedGuid(w) \o tbc_MovementInfo(w).read,
          WRITE_PACKED_GUID(w) + tbc_MovementInfo(w).written,
          wwm_packed_guid_size(w) + tbc_MovementInfo(w).size)]]

tbc_FromMsgMoveStartBackward ==
  [MSG_MOVE_START_BACKWARD_Client |->
     tbc_FromSmsgGameobjectCustomAnim.MSG_MOVE_START_FORWARD_Client,
   MSG_MOVE_START_BACKWARD_Server |->
     tbc_FromSmsgGameobjectCustomAnim.MSG_MOVE_START_FORWARD_Server,
   MSG_MOVE_STOP_Client |-> tbc_FromSmsgGameobjectCustomAnim.MSG_MOVE_START_FORWARD_Client]

tbc_FromMsgMoveStop ==
  [MSG_MOVE_STOP_Server |-> tbc_FromSmsgGameobjectCustomAnim.MSG_MOVE_START_FORWARD_Server,
   MSG_MOVE_START_STRAFE_LEFT_Client |->
     tbc_FromSmsgGameobjectCustomAnim.MSG_MOVE_START_FORWARD_Client,
   MSG_MOVE_START_STRAFE_LEFT_Server |->
     tbc_FromSmsgGameobjectCustomAnim.MSG_MOVE_START_FORWARD_Server]

tbc_FromMsgMoveStartStrafeRight ==
  [MSG_MOVE_START_STRAFE_RIGHT_Client |->
     tbc_FromSmsgGameobjectCustomAnim.MSG_MOVE_START_FORWARD_Client,
   MSG_MOVE_START_STRAFE_RIGHT_Server |->
     tbc_FromSmsgGameobjectCustomAnim.MSG_MOVE_START_FORWARD_Server,
   MSG_MOVE_STOP_STRAFE_Client |-> tbc_FromSmsgGameobjectCustomAnim.MSG_MOVE_START_FORWARD_Client]

tbc_FromMsgMoveStopStrafe ==
  [MSG_MOVE_STOP_STRAFE_Server |-> tbc_FromSmsgGameobjectCustomAnim.MSG_MOVE_START_FORWARD_Server,
   MSG_MOVE_JUMP_Client |-> tbc_FromSmsgGameobjectCustomAnim.MSG_MOVE_START_FORWARD_Client,
   MSG_MOVE_JUMP_Server |-> tbc_FromSmsgGameobjectCustomAnim.MSG_MOVE_START_FORWARD_Server]

tbc_FromMsgMoveStartTurnLeft ==
  [MSG_MOVE_START_TURN_LEFT_Client |->
     tbc_FromSmsgGameobjectCustomAnim.MSG_MOVE_START_FORWARD_Client,
   MSG_MOVE_START_TURN_LEFT_Server |->
     tbc_FromSmsgGameobjectCustomAnim.MSG_MOVE_START_FORWARD_Server,
   MSG_MOVE_START_TURN_RIGHT_Client |->
     tbc_FromSmsgGameobjectCustomAnim.MSG_MOVE_START_FORWARD_Client]

tbc_FromMsgMoveStartTurnRight ==
  [MSG_MOVE_START_TURN_RIGHT_Server |->
     tbc_FromSmsgGameobjectCustomAnim.MSG_MOVE_START_FORWARD_Server,
   MSG_MOVE_STOP_TURN_Client |-> tbc_FromSmsgGameobjectCustomAnim.MSG_MOVE_START_FORWARD_Client,
   MSG_MOVE_STOP_TURN_Server |-> tbc_FromSmsgGameobjectCustomAnim.MSG_MOVE_START_FORWARD_Server]

tbc_FromMsgMoveStartPitchUp ==
  [MSG_MOVE_START_PITCH_UP_Client |->
     tbc_FromSmsgGameobjectCustomAnim.MSG_MOVE_START_FORWARD_Client,
   MSG_MOVE_START_PITCH_UP_Server |->
     tbc_FromSmsgGameobjectCustomAnim.MSG_MOVE_START_FORWARD_Server,
   MSG_MOVE_START_PITCH_DOWN_Client |->
     tbc_FromSmsgGameobjectCustomAnim.MSG_MOVE_START_FORWARD_Client]

tbc_FromMsgMoveStartPitchDown ==
  [MSG_MOVE_START_PITCH_DOWN_Server |->
     tbc_FromSmsgGameobjectCustomAnim.MSG_MOVE_START_FORWARD_Server,
   MSG_MOVE_STOP_PITCH_Client |-> tbc_FromSmsgGameobjectCustomAnim.MSG_MOVE_START_FORWARD_Client,
   MSG_MOVE_STOP_PITCH_Server |-> tbc_FromSmsgGameobjectCustomAnim.MSG_MOVE_START_FORWARD_Server]

tbc_FromMsgMoveSetRunMode ==
  [MSG_MOVE_SET_RUN_MODE_Client |->
     tbc_FromSmsgGameobjectCustomAnim.MSG_MOVE_START_FORWARD_Client,
   MSG_MOVE_SET_RUN_MODE_Server |->
     tbc_FromSmsgGameobjectCustomAnim.MSG_MOVE_START_FORWARD_Server,
   MSG_MOVE_SET_WALK_MODE_Client |->
     tbc_FromSmsgGameobjectCustomAnim.MSG_MOVE_START_FORWARD_Client]

tbc_FromMsgMoveSetWalkMode ==
  [MSG_MOVE_SET_WALK_MODE_Server |->
     tbc_FromSmsgGameobjectCustomAnim.MSG_MOVE_START_FORWARD_Server,
   MSG_MOVE_TELEPORT_Server |-> [w \in Wires(Lengths, {0}, {}, tbc_MovementInfoFlags) |->
     Cmsg({}, Minimum(30) \o PackedGuid(w) \o tbc_MovementInfo(w).read,
          WRITE_PACKED_GUID(w) + tbc_MovementInfo(w).written,
          wwm_packed_guid_size(w) + tbc_MovementInfo(w).size)],
   MSG_MOVE_TELEPORT_CHEAT_Server |-> [w \in {Fixed} |->
     Smsg({}, Minimum(16) \o Vector3d.read \o Ints(<<4>>), Vector3d.written + 4, 16)]]

tbc_FromMsgMoveTeleportAck ==
  [MSG_MOVE_TELEPORT_ACK_Client |-> [w \in OfLength |->
     Cmsg({}, Minimum(9) \o PackedGuid(w) \o Ints(<<4, 4>>),
          WRITE_PACKED_GUID(w) + 2 * 4, 8 + wwm_packed_guid_size(w))],
   MSG_MOVE_TELEPORT_ACK_Server |-> [w \in Wires(Lengths, {0}, {}, tbc_MovementInfoFlags) |->
     Smsg({}, Minimum(34) \o PackedGuid(w) \o Ints(<<4>>) \o tbc_MovementInfo(w).read,
          WRITE_PACKED_GUID(w) + 4 + tbc_MovementInfo(w).written,
          4 + wwm_packed_guid_size(w) + tbc_MovementInfo(w).size)],
   MSG_MOVE_FALL_LAND_Client |-> tbc_FromSmsgGameobjectCustomAnim.MSG_MOVE_START_FORWARD_Client]

tbc_FromMsgMoveFallLand ==
  [MSG_MOVE_FALL_LAND_Server |-> tbc_FromSmsgGameobjectCustomAnim.MSG_MOVE_START_FORWARD_Server,
   MSG_MOVE_START_SWIM_Client |-> tbc_FromSmsgGameobjectCustomAnim.MSG_MOVE_START_FORWARD_Client,
   MSG_MOVE_START_SWIM_Server |-> tbc_FromSmsgGameobjectCustomAnim.MSG_MOVE_START_FORWARD_Server]

tbc_FromMsgMoveStopSwim ==
  [MSG_MOVE_STOP_SWIM_Client |-> tbc_FromSmsgGameobjectCustomAnim.MSG_MOVE_START_FORWARD_Client,
   MSG_MOVE_STOP_SWIM_Server |-> tbc_FromSmsgGameobjectCustomAnim.MSG_MOVE_START_FORWARD_Server,
   MSG_MOVE_SET_FACING_Client |-> tbc_FromSmsgGameobjectCustomAnim.MSG_MOVE_START_FORWARD_Client]

tbc_FromMsgMoveSetFacing ==
  [MSG_MOVE_SET_FACING_Server |-> tbc_FromSmsgGameobjectCustomAnim.MSG_MOVE_START_FORWARD_Server,
   MSG_MOVE_SET_PITCH_Client |-> tbc_FromSmsgGameobjectCustomAnim.MSG_MOVE_START_FORWARD_Client,
   MSG_MOVE_SET_PITCH_Server |-> tbc_FromSmsgGameobjectCustomAnim.MSG_MOVE_START_FORWARD_Server,
   MSG_MOVE_WORLDPORT_ACK_cmsg |-> EmptyCmsg(0)]

tbc_FromMsgMoveWorldportAck ==
  [MSG_MOVE_WORLDPORT_ACK_smsg |-> EmptySmsg(0),
   SMSG_MONSTER_MOVE |->
     [w \in Wires(Lengths, Counts,
                  {{"MONSTER_MOVE_TYPE_FACING_TARGET", "MONSTER_MOVE_TYPE_FACING_ANGLE",
                    "MONSTER_MOVE_TYPE_FACING_SPOT", "MONSTER_MOVE_TYPE_NORMAL"}}, {}) |->
       Smsg(
         FreeSpline("splines"),
         Minimum(30) \o At(<<"splines">>, Null({"splines"})) \o PackedGuid(w) \o Vector3d.read
         \o Ints(<<4, 1>>) \o When(Is(w, "MONSTER_MOVE_TYPE_FACING_TARGET"), Ints(<<8>>))
         \o When(Is(w, "MONSTER_MOVE_TYPE_FACING_ANGLE"), Ints(<<4>>))
         \o When(Is(w, "MONSTER_MOVE_TYPE_FACING_SPOT"), Vector3d.read) \o Ints(<<4, 4>>)
         \o MonsterMoveSpline("splines", w),
         WRITE_PACKED_GUID(w) + Vector3d.written + 4 + 1
         + Bytes(Is(w, "MONSTER_MOVE_TYPE_FACING_TARGET"), 8)
         + Bytes(Is(w, "MONSTER_MOVE_TYPE_FACING_ANGLE"), 4)
         + Bytes(Is(w, "MONSTER_MOVE_TYPE_FACING_SPOT"), Vector3d.written) + 2 * 4
         + WRITE_MONSTER_MOVE_SPLINE(w),
         25 + wwm_packed_guid_size(w) + wwm_monster_move_spline_size(w)
         + Bytes(Is(w, "MONSTER_MOVE_TYPE_FACING_TARGET"), 8)
         + Bytes(Is(w, "MONSTER_MOVE_TYPE_FACING_ANGLE"), 4)
         + Bytes(Is(w, "MONSTER_MOVE_TYPE_FACING_SPOT"), 12))]]

tbc_FromSmsgMoveWaterWalk ==
  [SMSG_MOVE_WATER_WALK |-> [w \in OfLength |->
     Smsg({}, Minimum(5) \o PackedGuid(w) \o Ints(<<4>>),
          WRITE_PACKED_GUID(w) + 4, 4 + wwm_packed_guid_size(w))],
   SMSG_MOVE_LAND_WALK |-> [w \in OfLength |->
     Smsg({}, Minimum(5) \o PackedGuid(w) \o Ints(<<4>>),
          WRITE_PACKED_GUID(w) + 4, 4 + wwm_packed_guid_size(w))],
   CMSG_MOVE_SET_RAW_POSITION |-> [w \in {Fixed} |->
     Cmsg({}, Minimum(16) \o Vector3d.read \o Ints(<<4>>), Vector3d.written + 4, 16)]]

tbc_FromSmsgForceRunSpeedChange ==
  [SMSG_FORCE_RUN_SPEED_CHANGE |-> [w \in OfLength |->
     Smsg({}, Minimum(10) \o PackedGuid(w) \o Ints(<<4, 1, 4>>),
          WRITE_PACKED_GUID(w) + 4 + 1 + 4, 9 + wwm_packed_guid_size(w))],
   CMSG_FORCE_RUN_SPEED_CHANGE_ACK |-> [w \in Wires(Lengths, {0}, {}, tbc_MovementInfoFlags) |->
     Cmsg({}, Minimum(45) \o Ints(<<8, 4>>) \o tbc_MovementInfo(w).read \o Ints(<<4>>),
          8 + 4 + tbc_MovementInfo(w).written + 4, 16 + tbc_MovementInfo(w).size)],
   SMSG_FORCE_RUN_BACK_SPEED_CHANGE |-> [w \in OfLength |->
     Smsg({}, Minimum(9) \o PackedGuid(w) \o Ints(<<4, 4>>),
          WRITE_PACKED_GUID(w) + 2 * 4, 8 + wwm_packed_guid_size(w))]]

tbc_FromCmsgForceRunBackSpeedChangeAck ==
  [CMSG_FORCE_RUN_BACK_SPEED_CHANGE_ACK |->
     tbc_FromSmsgForceRunSpeedChange.CMSG_FORCE_RUN_SPEED_CHANGE_ACK,
   SMSG_FORCE_SWIM_SPEED_CHANGE |-> [w \in OfLength |->
     Smsg({}, Minimum(9) \o PackedGuid(w) \o Ints(<<4, 4>>),
          WRITE_PACKED_GUID(w) + 2 * 4, 8 + wwm_packed_guid_size(w))],
   CMSG_FORCE_SWIM_SPEED_CHANGE_ACK |->
     tbc_FromSmsgForceRunSpeedChange.CMSG_FORCE_RUN_SPEED_CHANGE_ACK]

tbc_FromSmsgForceMoveRoot ==
  [SMSG_FORCE_MOVE_ROOT |-> tbc_FromSmsgMoveWaterWalk.SMSG_MOVE_WATER_WALK,
   CMSG_FORCE_MOVE_ROOT_ACK |-> [w \in Wires(Lengths, {0}, {}, tbc_MovementInfoFlags) |->
     Cmsg({}, Minimum(41) \o Ints(<<8, 4>>) \o tbc_MovementInfo(w).read,
          8 + 4 + tbc_MovementInfo(w).written, 12 + tbc_MovementInfo(w).size)],
   SMSG_FORCE_MOVE_UNROOT |-> tbc_FromSmsgMoveWaterWalk.SMSG_MOVE_WATER_WALK]

tbc_FromCmsgForceMoveUnrootAck ==
  [CMSG_FORCE_MOVE_UNROOT_ACK |-> tbc_FromSmsgForceMoveRoot.CMSG_FORCE_MOVE_ROOT_ACK,
   MSG_MOVE_ROOT_Server |-> tbc_FromSmsgGameobjectCustomAnim.MSG_MOVE_START_FORWARD_Server,
   MSG_MOVE_UNROOT_Server |-> tbc_FromSmsgGameobjectCustomAnim.MSG_MOVE_START_FORWARD_Server]

tbc_FromMsgMoveHeartbeat ==
  [MSG_MOVE_HEARTBEAT_Client |-> tbc_FromSmsgGameobjectCustomAnim.MSG_MOVE_START_FORWARD_Client,
   MSG_MOVE_HEARTBEAT_Server |-> tbc_FromSmsgGameobjectCustomAnim.MSG_MOVE_START_FORWARD_Server,
   SMSG_MOVE_KNOCK_BACK |-> [w \in OfLength |->
     Smsg({}, Minimum(21) \o PackedGuid(w) \o Ints(Repeat(5, 4)),
          WRITE_PACKED_GUID(w) + 5 * 4, 20 + wwm_packed_guid_size(w))]]

tbc_FromCmsgMoveKnockBackAck ==
  [CMSG_MOVE_KNOCK_BACK_ACK |-> tbc_FromSmsgForceMoveRoot.CMSG_FORCE_MOVE_ROOT_ACK,
   MSG_MOVE_KNOCK_BACK_Server |-> [w \in Wires(Lengths, {0}, {}, tbc_MovementInfoFlags) |->
     Smsg({}, Minimum(46) \o PackedGuid(w) \o tbc_MovementInfo(w).read \o Ints(<<4, 4, 4, 4>>),
          WRITE_PACKED_GUID(w) + tbc_MovementInfo(w).written + 4 * 4,
          16 + wwm_packed_guid_size(w) + tbc_MovementInfo(w).size)],
   SMSG_MOVE_FEATHER_FALL |-> tbc_FromSmsgMoveWaterWalk.SMSG_MOVE_WATER_WALK]

tbc_FromSmsgMoveNormalFall ==
  [SMSG_MOVE_NORMAL_FALL |-> tbc_FromSmsgMoveWaterWalk.SMSG_MOVE_WATER_WALK,
   SMSG_MOVE_SET_HOVER |-> tbc_FromSmsgMoveWaterWalk.SMSG_MOVE_WATER_WALK,
   SMSG_MOVE_UNSET_HOVER |-> tbc_FromSmsgMoveWaterWalk.SMSG_MOVE_WATER_WALK]

tbc_FromCmsgMoveHoverAck ==
  [CMSG_MOVE_HOVER_ACK |-> tbc_FromSmsgForceRunSpeedChange.CMSG_FORCE_RUN_SPEED_CHANGE_ACK,
   MSG_MOVE_HOVER_cmsg |-> [w \in Wires(Lengths, {0}, {}, tbc_MovementInfoFlags) |->
     Client(tbc_MSG_MOVE_HOVER(w))],
   MSG_MOVE_HOVER_smsg |-> [w \in Wires(Lengths, {0}, {}, tbc_MovementInfoFlags) |->
     Server(tbc_MSG_MOVE_HOVER(w))],
   SMSG_TRIGGER_CINEMATIC |-> PlainSmsg(4, <<4>>, 4, 4)]

tbc_FromCmsgNextCinematicCamera ==
  [CMSG_NEXT_CINEMATIC_CAMERA |-> EmptyCmsg(0),
   CMSG_COMPLETE_CINEMATIC |-> EmptyCmsg(0),
   SMSG_TUTORIAL_FLAGS |-> PlainSmsg(32, Repeat(8, 4), 8 * 4, 32),
   CMSG_TUTORIAL_FLAG |-> PlainCmsg(4, <<4>>, 4, 4),
   CMSG_TUTORIAL_CLEAR |-> EmptyCmsg(0),
   CMSG_TUTORIAL_RESET |-> EmptyCmsg(0)]

tbc_FromCmsgStandstatechange ==
  [CMSG_STANDSTATECHANGE |-> PlainCmsg(4, <<4>>, 4, 4),
   CMSG_EMOTE |-> PlainCmsg(4, <<4>>, 4, 4),
   SMSG_EMOTE |-> PlainSmsg(12, <<4, 8>>, 4 + 8, 12),
   CMSG_TEXT_EMOTE |-> PlainCmsg(16, <<4, 4, 8>>, 2 * 4 + 8, 16)]

tbc_FromSmsgTextEmote ==
  [SMSG_TEXT_EMOTE |-> [w \in OfLength |->
     Smsg(Free({"name"}),
          Minimum(21) \o Null({"name"}) \o Ints(<<8, 4, 4>>) \o SizedCstring("name", w),
          8 + 2 * 4 + WRITE_SIZED_CSTRING(w), 21 + w.len)],
   CMSG_AUTOSTORE_LOOT_ITEM |-> PlainCmsg(1, <<1>>, 1, 1),
   CMSG_AUTOEQUIP_ITEM |-> PlainCmsg(2, <<1, 1>>, 2 * 1, 2)]

tbc_FromCmsgAutostoreBagItem ==
  [CMSG_AUTOSTORE_BAG_ITEM |-> PlainCmsg(3, <<1, 1, 1>>, 3 * 1, 3),
   CMSG_SWAP_ITEM |-> PlainCmsg(4, <<1, 1, 1, 1>>, 4 * 1, 4),
   CMSG_SWAP_INV_ITEM |-> PlainCmsg(2, <<1, 1>>, 2 * 1, 2)]

tbc_FromCmsgSplitItem ==
  [CMSG_SPLIT_ITEM |-> PlainCmsg(5, Repeat(5, 1), 5 * 1, 5),
   CMSG_AUTOEQUIP_ITEM_SLOT |-> PlainCmsg(9, <<8, 1>>, 8 + 1, 9),
   CMSG_DESTROYITEM |-> PlainCmsg(6, Repeat(6, 1), 6 * 1, 6)]

tbc_FromSmsgInventoryChangeFailure ==
  [SMSG_INVENTORY_CHANGE_FAILURE |->
     [w \in Wires({0}, {0},
                  {{"INVENTORY_RESULT_CANT_EQUIP_LEVEL_I", "INVENTORY_RESULT_CANT_EQUIP_SKILL",
                    "INVENTORY_RESULT_OK"}}, {}) |->
       Smsg(
         {},
         Minimum(1) \o Ints(<<1>>)
         \o When(
              IsIn(w, {"INVENTORY_RESULT_CANT_EQUIP_LEVEL_I", "INVENTORY_RESULT_CANT_EQUIP_SKILL"}),
              Ints(<<8, 8, 1>>)) \o When(Is(w, "INVENTORY_RESULT_CANT_EQUIP_LEVEL_I"), Ints(<<4>>)),
         1
         + Bytes(
             IsIn(w, {"INVENTORY_RESULT_CANT_EQUIP_LEVEL_I", "INVENTORY_RESULT_CANT_EQUIP_SKILL"}),
             2 * 8 + 1) + Bytes(Is(w, "INVENTORY_RESULT_CANT_EQUIP_LEVEL_I"), 4),
         1
         + Bytes(
             IsIn(w, {"INVENTORY_RESULT_CANT_EQUIP_LEVEL_I", "INVENTORY_RESULT_CANT_EQUIP_SKILL"}),
             17) + Bytes(Is(w, "INVENTORY_RESULT_CANT_EQUIP_LEVEL_I"), 4))],
   CMSG_INSPECT |-> PlainCmsg(8, <<8>>, 8, 8),
   CMSG_INITIATE_TRADE |-> PlainCmsg(8, <<8>>, 8, 8)]

tbc_FromCmsgBeginTrade ==
  [CMSG_BEGIN_TRADE |-> EmptyCmsg(0),
   CMSG_BUSY_TRADE |-> EmptyCmsg(0),
   CMSG_IGNORE_TRADE |-> EmptyCmsg(0),
   CMSG_ACCEPT_TRADE |-> PlainCmsg(4, <<4>>, 4, 4),
   CMSG_UNACCEPT_TRADE |-> EmptyCmsg(0),
   CMSG_CANCEL_TRADE |-> EmptyCmsg(0)]

tbc_FromCmsgSetTradeItem ==
  [CMSG_SET_TRADE_ITEM |-> PlainCmsg(3, <<1, 1, 1>>, 3 * 1, 3),
   CMSG_CLEAR_TRADE_ITEM |-> PlainCmsg(1, <<1>>, 1, 1),
   CMSG_SET_TRADE_GOLD |-> PlainCmsg(4, <<4>>, 4, 4)]

tbc_FromSmsgTradeStatus ==
  [SMSG_TRADE_STATUS |->
     [w \in Wires({0}, {0},
                  {{"TRADE_STATUS_BEGIN_TRADE", "TRADE_STATUS_CLOSE_WINDOW",
                    "TRADE_STATUS_ONLY_CONJURED", "TRADE_STATUS_BUSY"}}, {}) |->
       Smsg(
         {},
         Minimum(4) \o Ints(<<4>>) \o When(Is(w, "TRADE_STATUS_BEGIN_TRADE"), Ints(<<8>>))
         \o When(Is(w, "TRADE_STATUS_CLOSE_WINDOW"), Ints(<<4, 1, 4>>))
         \o When(Is(w, "TRADE_STATUS_ONLY_CONJURED"), Ints(<<1>>)),
         4 + Bytes(Is(w, "TRADE_STATUS_BEGIN_TRADE"), 8)
         + Bytes(Is(w, "TRADE_STATUS_CLOSE_WINDOW"), 4 + 1 + 4)
         + Bytes(Is(w, "TRADE_STATUS_ONLY_CONJURED"), 1),
         4 + Bytes(Is(w, "TRADE_STATUS_BEGIN_TRADE"), 8)
         + Bytes(Is(w, "TRADE_STATUS_CLOSE_WINDOW"), 9)
         + Bytes(Is(w, "TRADE_STATUS_ONLY_CONJURED"), 1))],
   SMSG_TRADE_STATUS_EXTENDED |-> [w \in {Fixed} |->
     Smsg(
       {},
       Minimum(532) \o Ints(<<1>> \o Repeat(5, 4)) \o Each("trade_slots", 7, tbc_TradeSlot.read),
       1 + 5 * 4 + 7 * tbc_TradeSlot.written, 532)]]

tbc_FromSmsgInitializeFactions ==
  [SMSG_INITIALIZE_FACTIONS |-> [w \in OfCount |->
     Smsg(
       Free({"factions"}),
       Minimum(4) \o Null({"factions"}) \o Ints(<<4>>)
       \o Array("factions", w.count, {}, tbc_FactionInitializer.read),
       4 + w.count * tbc_FactionInitializer.written, 4 + 5 * w.count)],
   SMSG_SET_FACTION_VISIBLE |-> PlainSmsg(2, <<2>>, 2, 2)]

tbc_FromSmsgSetFactionStanding ==
  [SMSG_SET_FACTION_STANDING |-> [w \in OfCount |->
     Smsg(
       Free({"faction_standings"}),
       Minimum(8) \o Null({"faction_standings"}) \o Ints(<<4, 4>>)
       \o Array("faction_standings", w.count, {}, tbc_FactionStanding.read),
       2 * 4 + w.count * tbc_FactionStanding.written, 8 + 6 * w.count)],
   CMSG_SET_FACTION_ATWAR |-> PlainCmsg(3, <<2, 1>>, 2 + 1, 3),
   SMSG_SET_PROFICIENCY |-> PlainSmsg(5, <<1, 4>>, 1 + 4, 5)]

tbc_FromCmsgSetActionButton ==
  [CMSG_SET_ACTION_BUTTON |-> PlainCmsg(5, <<1, 2, 1, 1>>, 1 + 2 + 2 * 1, 5),
   SMSG_ACTION_BUTTONS |-> PlainSmsg(528, Repeat(132, 4), 132 * 4, 528)]

tbc_FromSmsgInitialSpells ==
  [SMSG_INITIAL_SPELLS |-> [w \in OfCount |->
     Smsg(
       Free({"initial_spells", "cooldowns"}),
       Minimum(5) \o Null({"initial_spells", "cooldowns"}) \o Ints(<<1, 2>>)
       \o Array("initial_spells", w.count, {}, tbc_InitialSpell.read) \o Ints(<<2>>)
       \o Array("cooldowns", w.count, {}, tbc_CooldownSpell.read),
       1 + 2 + w.count * tbc_InitialSpell.written + 2 + w.count * tbc_CooldownSpell.written,
       5 + 4 * w.count + 14 * w.count)],
   SMSG_LEARNED_SPELL |-> PlainSmsg(4, <<4>>, 4, 4),
   SMSG_SUPERCEDED_SPELL |-> PlainSmsg(4, <<2, 2>>, 2 * 2, 4)]

tbc_FromCmsgCastSpell ==
  [CMSG_CAST_SPELL |-> [w \in Wires(Lengths, {0}, {}, tbc_SpellCastTargetsFlags) |->
     Cmsg(FreeAt(<<"targets">>, tbc_SpellCastTargets(w).free),
          Minimum(8) \o Ints(<<4>>) \o At(<<"targets">>, tbc_SpellCastTargets(w).read),
          4 + tbc_SpellCastTargets(w).written, 4 + tbc_SpellCastTargets(w).size)],
   CMSG_CANCEL_CAST |-> PlainCmsg(4, <<4>>, 4, 4)]

tbc_FromSmsgCastFailed ==
  [SMSG_CAST_FAILED |->
     [w \in Wires(
              {0}, {0},
              {{"SPELL_CAST_RESULT_REQUIRES_SPELL_FOCUS", "SPELL_CAST_RESULT_REQUIRES_AREA",
                "SPELL_CAST_RESULT_TOTEMS", "SPELL_CAST_RESULT_TOTEM_CATEGORY",
                "SPELL_CAST_RESULT_EQUIPPED_ITEM_CLASS", "SPELL_CAST_RESULT_AFFECTING_COMBAT"}},
              {}) |->
       Smsg(
         {},
         Minimum(6) \o Ints(<<4, 1, 1>>)
         \o When(Is(w, "SPELL_CAST_RESULT_REQUIRES_SPELL_FOCUS"), Ints(<<4>>))
         \o When(Is(w, "SPELL_CAST_RESULT_REQUIRES_AREA"), Ints(<<4>>))
         \o When(Is(w, "SPELL_CAST_RESULT_TOTEMS"), Ints(<<4, 4>>))
         \o When(Is(w, "SPELL_CAST_RESULT_TOTEM_CATEGORY"), Ints(<<4, 4>>))
         \o When(Is(w, "SPELL_CAST_RESULT_EQUIPPED_ITEM_CLASS"), Ints(<<4, 4, 4>>)),
         4 + 2 * 1 + Bytes(Is(w, "SPELL_CAST_RESULT_REQUIRES_SPELL_FOCUS"), 4)
         + Bytes(Is(w, "SPELL_CAST_RESULT_REQUIRES_AREA"), 4)
         + Bytes(Is(w, "SPELL_CAST_RESULT_TOTEMS"), 2 * 4)
         + Bytes(Is(w, "SPELL_CAST_RESULT_TOTEM_CATEGORY"), 2 * 4)
         + Bytes(Is(w, "SPELL_CAST_RESULT_EQUIPPED_ITEM_CLASS"), 3 * 4),
         6 + Bytes(Is(w, "SPELL_CAST_RESULT_REQUIRES_SPELL_FOCUS"), 4)
         + Bytes(Is(w, "SPELL_CAST_RESULT_REQUIRES_AREA"), 4)
         + Bytes(Is(w, "SPELL_CAST_RESULT_TOTEMS"), 8)
         + Bytes(Is(w, "SPELL_CAST_RESULT_TOTEM_CATEGORY"), 8)
         + Bytes(Is(w, "SPELL_CAST_RESULT_EQUIPPED_ITEM_CLASS"), 12))]]

tbc_FromSmsgSpellStart ==
  [SMSG_SPELL_START |->
     [w \in Wires(Lengths, {0}, {}, tbc_SpellCastTargetsFlags \union {"CAST_FLAGS_AMMO"}) |->
       Smsg(
         FreeAt(<<"targets">>, tbc_SpellCastTargets(w).free),
         Minimum(17) \o PackedGuid(w) \o PackedGuid(w) \o Ints(<<4, 1, 2, 4>>)
         \o At(<<"targets">>, tbc_SpellCastTargets(w).read)
         \o When(Is(w, "CAST_FLAGS_AMMO"), Ints(<<4, 4>>)),
         2 * WRITE_PACKED_GUID(w) + 4 + 1 + 2 + 4 + tbc_SpellCastTargets(w).written
         + Bytes(Is(w, "CAST_FLAGS_AMMO"), 2 * 4),
         11 + 2 * wwm_packed_guid_size(w) + tbc_SpellCastTargets(w).size
         + Bytes(Is(w, "CAST_FLAGS_AMMO"), 8))]]

tbc_FromSmsgSpellGo ==
  [SMSG_SPELL_GO |->
     [w \in Wires(Lengths, Counts, {{"SPELL_MISS_INFO_REFLECT", "SPELL_MISS_INFO_NONE"}},
                  tbc_SpellCastTargetsFlags \union {"CAST_FLAGS_AMMO"}) |->
       Smsg(
         Free({"hits", "misses"}) \union FreeAt(<<"targets">>, tbc_SpellCastTargets(w).free),
         Minimum(18) \o Null({"hits", "misses"}) \o PackedGuid(w) \o PackedGuid(w)
         \o Ints(<<4, 2, 4, 1>>) \o Calloc("hits", w.count, {}) \o Ints(Repeat(w.count, 8) \o <<1>>)
         \o Array("misses", w.count, {}, tbc_SpellMiss(w).read)
         \o At(<<"targets">>, tbc_SpellCastTargets(w).read)
         \o When(Is(w, "CAST_FLAGS_AMMO"), Ints(<<4, 4>>)),
         2 * WRITE_PACKED_GUID(w) + 4 + 2 + 4 + 1 + w.count * 8 + 1
         + w.count * tbc_SpellMiss(w).written + tbc_SpellCastTargets(w).written
         + Bytes(Is(w, "CAST_FLAGS_AMMO"), 2 * 4),
         12 + 2 * wwm_packed_guid_size(w) + 8 * w.count + tbc_SpellCastTargets(w).size
         + w.count * tbc_SpellMiss(w).size + Bytes(Is(w, "CAST_FLAGS_AMMO"), 8))]]

tbc_FromSmsgSpellFailure ==
  [SMSG_SPELL_FAILURE |-> PlainSmsg(13, <<8, 4, 1>>, 8 + 4 + 1, 13),
   SMSG_SPELL_COOLDOWN |-> [w \in OfCount |->
     Smsg(
       Free({"cooldowns"}),
       Counted(9, Minimum(9) \o Null({"cooldowns"}) \o Ints(<<8, 1>>))
       \o Endless("cooldowns", w.count, {}, tbc_SpellCooldownStatus.read, 8),
       8 + 1 + w.count * tbc_SpellCooldownStatus.written, 9 + 8 * w.count)]]

tbc_FromSmsgCooldownEvent ==
  [SMSG_COOLDOWN_EVENT |-> PlainSmsg(12, <<4, 8>>, 4 + 8, 12),
   CMSG_CANCEL_AURA |-> PlainCmsg(4, <<4>>, 4, 4),
   SMSG_UPDATE_AURA_DURATION |-> PlainSmsg(5, <<1, 4>>, 1 + 4, 5)]

tbc_FromSmsgPetCastFailed ==
  [SMSG_PET_CAST_FAILED |-> tbc_FromSmsgCastFailed.SMSG_CAST_FAILED]

tbc_FromMsgChannelStart ==
  [MSG_CHANNEL_START_Server |-> [w \in OfLength |->
     Smsg({}, Minimum(9) \o PackedGuid(w) \o Ints(<<4, 4>>),
          WRITE_PACKED_GUID(w) + 2 * 4, 8 + wwm_packed_guid_size(w))],
   MSG_CHANNEL_UPDATE_Server |-> tbc_FromSmsgMoveWaterWalk.SMSG_MOVE_WATER_WALK,
   CMSG_CANCEL_CHANNELLING |-> PlainCmsg(4, <<4>>, 4, 4)]

tbc_FromSmsgAiReaction ==
  [SMSG_AI_REACTION |-> PlainSmsg(12, <<8, 4>>, 8 + 4, 12),
   CMSG_SET_SELECTION |-> PlainCmsg(8, <<8>>, 8, 8),
   CMSG_SET_TARGET_OBSOLETE |-> PlainCmsg(8, <<8>>, 8, 8),
   CMSG_ATTACKSWING |-> PlainCmsg(8, <<8>>, 8, 8)]

tbc_FromCmsgAttackstop ==
  [CMSG_ATTACKSTOP |-> EmptyCmsg(0),
   SMSG_ATTACKSTART |-> PlainSmsg(16, <<8, 8>>, 2 * 8, 16),
   SMSG_ATTACKSTOP |-> [w \in OfLength |->
     Smsg({}, Minimum(6) \o PackedGuid(w) \o PackedGuid(w) \o Ints(<<4>>),
          2 * WRITE_PACKED_GUID(w) + 4, 4 + 2 * wwm_packed_guid_size(w))],
   SMSG_ATTACKSWING_NOTINRANGE |-> EmptySmsg(0),
   SMSG_ATTACKSWING_BADFACING |-> EmptySmsg(0),
   SMSG_ATTACKSWING_NOTSTANDING |-> EmptySmsg(0)]

tbc_FromSmsgAttackswingDeadtarget ==
  [SMSG_ATTACKSWING_DEADTARGET |-> EmptySmsg(0),
   SMSG_ATTACKSWING_CANT_ATTACK |-> EmptySmsg(0),
   SMSG_ATTACKERSTATEUPDATE |-> [w \in OfLengthAndCount |->
     Smsg(
       Free({"damages"}),
       Minimum(27) \o Null({"damages"}) \o Ints(<<4>>) \o PackedGuid(w) \o PackedGuid(w)
       \o Ints(<<4, 1>>) \o Array("damages", w.count, {}, tbc_DamageInfo.read)
       \o Ints(<<4, 4, 4, 4>>),
       4 + 2 * WRITE_PACKED_GUID(w) + 4 + 1 + w.count * tbc_DamageInfo.written + 4 * 4,
       25 + 2 * wwm_packed_guid_size(w) + 20 * w.count)],
   SMSG_CANCEL_COMBAT |-> EmptySmsg(0)]

tbc_FromSmsgSpellheallog ==
  [SMSG_SPELLHEALLOG |-> [w \in OfLength |->
     Smsg({}, Minimum(12) \o PackedGuid(w) \o PackedGuid(w) \o Ints(<<4, 4, 1, 1>>),
          2 * WRITE_PACKED_GUID(w) + 2 * 4 + 2 * 1, 10 + 2 * wwm_packed_guid_size(w))],
   SMSG_SPELLENERGIZELOG |-> [w \in OfLength |->
     Smsg({}, Minimum(14) \o PackedGuid(w) \o PackedGuid(w) \o Ints(<<4, 4, 4>>),
          2 * WRITE_PACKED_GUID(w) + 3 * 4, 12 + 2 * wwm_packed_guid_size(w))]]

tbc_FromSmsgBindpointupdate ==
  [SMSG_BINDPOINTUPDATE |-> [w \in {Fixed} |->
     Smsg({}, Minimum(20) \o Vector3d.read \o Ints(<<4, 4>>), Vector3d.written + 2 * 4, 20)],
   SMSG_PLAYERBOUND |-> PlainSmsg(12, <<8, 4>>, 8 + 4, 12),
   SMSG_CLIENT_CONTROL_UPDATE |-> [w \in OfLength |->
     Smsg({}, Minimum(2) \o PackedGuid(w) \o Ints(<<1>>),
          WRITE_PACKED_GUID(w) + 1, 1 + wwm_packed_guid_size(w))],
   CMSG_REPOP_REQUEST |-> EmptyCmsg(0)]

tbc_FromSmsgResurrectRequest ==
  [SMSG_RESURRECT_REQUEST |-> [w \in OfLength |->
     Smsg(Free({"name"}),
          Minimum(14) \o Null({"name"}) \o Ints(<<8>>) \o SizedCstring("name", w) \o Ints(<<1>>),
          8 + WRITE_SIZED_CSTRING(w) + 1, 14 + w.len)],
   CMSG_RESURRECT_RESPONSE |-> PlainCmsg(9, <<8, 1>>, 8 + 1, 9),
   CMSG_LOOT |-> PlainCmsg(8, <<8>>, 8, 8),
   CMSG_LOOT_MONEY |-> EmptyCmsg(0)]

tbc_FromCmsgLootRelease ==
  [CMSG_LOOT_RELEASE |-> PlainCmsg(8, <<8>>, 8, 8),
   SMSG_LOOT_RESPONSE |->
     [w \in Wires({0}, Counts, {{"LOOT_METHOD_ERROR", "LOOT_METHOD_CORPSE"}}, {}) |->
       Smsg(
         Free({"items"}),
         Minimum(14) \o Null({"items"}) \o Ints(<<8, 1>>)
         \o When(Is(w, "LOOT_METHOD_ERROR"), Ints(<<1>>)) \o Ints(<<4, 1>>)
         \o Array("items", w.count, {}, tbc_LootItem.read),
         8 + 1 + Bytes(Is(w, "LOOT_METHOD_ERROR"), 1) + 4 + 1 + w.count * tbc_LootItem.written,
         14 + 6 * w.count + Bytes(Is(w, "LOOT_METHOD_ERROR"), 1))]]

tbc_FromSmsgLootReleaseResponse ==
  [SMSG_LOOT_RELEASE_RESPONSE |-> PlainSmsg(9, <<8, 1>>, 8 + 1, 9),
   SMSG_LOOT_REMOVED |-> PlainSmsg(1, <<1>>, 1, 1),
   SMSG_LOOT_MONEY_NOTIFY |-> PlainSmsg(4, <<4>>, 4, 4),
   SMSG_LOOT_CLEAR_MONEY |-> EmptySmsg(0)]

tbc_FromSmsgItemPushResult ==
  [SMSG_ITEM_PUSH_RESULT |->
     PlainSmsg(45, <<8, 4, 4, 4, 1>> \o Repeat(6, 4), 8 + 3 * 4 + 1 + 6 * 4, 45),
   SMSG_DUEL_REQUESTED |-> PlainSmsg(16, <<8, 8>>, 2 * 8, 16),
   SMSG_DUEL_OUTOFBOUNDS |-> EmptySmsg(0),
   SMSG_DUEL_INBOUNDS |-> EmptySmsg(0)]

tbc_FromSmsgDuelComplete ==
  [SMSG_DUEL_COMPLETE |-> PlainSmsg(1, <<1>>, 1, 1),
   SMSG_DUEL_WINNER |-> [w \in OfLength |->
     Smsg(
       Free({"opponent_name", "initiator_name"}),
       Minimum(3) \o Null({"opponent_name", "initiator_name"}) \o Ints(<<1>>)
       \o Cstring("opponent_name", w) \o Cstring("initiator_name", w),
       1 + 2 * WRITE_CSTRING(w), 3 + 2 * w.len)],
   CMSG_DUEL_ACCEPTED |-> PlainCmsg(8, <<8>>, 8, 8)]

tbc_FromCmsgDuelCancelled ==
  [CMSG_DUEL_CANCELLED |-> PlainCmsg(8, <<8>>, 8, 8),
   SMSG_MOUNTRESULT |-> PlainSmsg(4, <<4>>, 4, 4),
   CMSG_MOUNTSPECIAL_ANIM |-> EmptyCmsg(0),
   SMSG_MOUNTSPECIAL_ANIM |-> PlainSmsg(8, <<8>>, 8, 8),
   SMSG_PET_TAME_FAILURE |-> PlainSmsg(1, <<1>>, 1, 1)]

tbc_FromCmsgPetSetAction ==
  [CMSG_PET_SET_ACTION |-> [w \in Wires({0}, {0}, {}, {"extra"}) |->
     Cmsg(
       Free({"extra"}),
       Counted(16, Minimum(16) \o Null({"extra"}) \o Ints(<<8, 4, 4>>))
       \o Optional("extra", {}, Ints(<<4, 4>>)),
       8 + 2 * 4 + Bytes(Is(w, "extra"), 2 * 4), 16 + Bytes(Is(w, "extra"), 8))],
   CMSG_PET_ACTION |-> PlainCmsg(20, <<8, 4, 8>>, 8 + 4 + 8, 20)]

tbc_FromCmsgPetAbandon ==
  [CMSG_PET_ABANDON |-> PlainCmsg(8, <<8>>, 8, 8),
   CMSG_PET_RENAME |-> [w \in OfLength |->
     Cmsg(Free({"name"}),
          Minimum(10) \o Null({"name"}) \o Ints(<<8>>) \o Cstring("name", w) \o Ints(<<1>>),
          8 + WRITE_CSTRING(w) + 1, 10 + w.len)]]

tbc_FromSmsgPetNameInvalid ==
  [SMSG_PET_NAME_INVALID |->
     [w \in Wires(Lengths, {0},
                  {{"DECLINED_PET_NAME_INCLUDED_INCLUDED",
                    "DECLINED_PET_NAME_INCLUDED_NOT_INCLUDED"}}, {}) |->
       Smsg(
         Free({"name"})
         \union FreeIf("included", {"DECLINED_PET_NAME_INCLUDED_INCLUDED"},
                       FreeFixed("declined_names", 5, Free({"text"}))),
         Minimum(6) \o Null({"name"}) \o Each("declined_names", 5, Null({"text"})) \o Ints(<<4>>)
         \o Cstring("name", w) \o Field(1, "included", {}, w)
         \o When(Is(w, "DECLINED_PET_NAME_INCLUDED_INCLUDED"),
                 Each("declined_names", 5, Cstring("text", w))),
         4 + WRITE_CSTRING(w) + 1
         + Bytes(Is(w, "DECLINED_PET_NAME_INCLUDED_INCLUDED"), 5 * WRITE_CSTRING(w)),
         6 + w.len + Bytes(Is(w, "DECLINED_PET_NAME_INCLUDED_INCLUDED"), 5 * (1 + w.len)))]]

tbc_FromSmsgPetSpells ==
  [SMSG_PET_SPELLS |-> [w \in Wires({0}, Counts, {}, {"action_bars"}) |->
     Smsg(
       FreeOptional("action_bars", Free({"spells", "cooldowns"})),
       Counted(8, Minimum(8) \o Null({"action_bars"}) \o Ints(<<8>>))
       \o Optional(
            "action_bars", Free({"spells", "cooldowns"}),
            Null({"spells", "cooldowns"}) \o Ints(<<4, 1, 1, 1, 1>> \o Repeat(10, 4) \o <<1>>)
            \o Calloc("spells", w.count, {}) \o Ints(Repeat(w.count, 4) \o <<1>>)
            \o Array("cooldowns", w.count, {}, tbc_PetSpellCooldown.read)),
       8
       + Bytes(Is(w, "action_bars"),
               4 + 4 * 1 + 10 * 4 + 1 + w.count * 4 + 1 + w.count * tbc_PetSpellCooldown.written),
       8 + Bytes(Is(w, "action_bars"), 50 + 4 * w.count + 12 * w.count))]]

tbc_FromSmsgPetMode ==
  [SMSG_PET_MODE |-> PlainSmsg(12, <<8, 1, 1, 1, 1>>, 8 + 4 * 1, 12),
   CMSG_GOSSIP_HELLO |-> PlainCmsg(8, <<8>>, 8, 8)]

tbc_FromCmsgGossipSelectOption ==
  [CMSG_GOSSIP_SELECT_OPTION |-> [w \in Wires(Lengths, {0}, {}, {"unknown"}) |->
     Cmsg(
       FreeOptional("unknown", Free({"code"})),
       Counted(16, Minimum(16) \o Null({"unknown"}) \o Ints(<<8, 4, 4>>))
       \o Optional("unknown", Free({"code"}), Null({"code"}) \o Cstring("code", w)),
       8 + 2 * 4 + Bytes(Is(w, "unknown"), WRITE_CSTRING(w)),
       16 + Bytes(Is(w, "unknown"), 1 + w.len))]]

tbc_FromSmsgGossipMessage ==
  [SMSG_GOSSIP_MESSAGE |-> [w \in OfLengthAndCount |->
     Smsg(
       FreeEach("gossips", w.count, tbc_GossipItem(w).free)
       \union FreeEach("quests", w.count, tbc_QuestItem(w).free),
       Minimum(24) \o Null({"gossips", "quests"}) \o Ints(<<8, 4, 4, 4>>)
       \o Array("gossips", w.count, tbc_GossipItem(w).free, tbc_GossipItem(w).read) \o Ints(<<4>>)
       \o Array("quests", w.count, tbc_QuestItem(w).free, tbc_QuestItem(w).read),
       8 + 3 * 4 + w.count * tbc_GossipItem(w).written + 4 + w.count * tbc_QuestItem(w).written,
       24 + w.count * tbc_GossipItem(w).size + w.count * tbc_QuestItem(w).size)],
   SMSG_GOSSIP_COMPLETE |-> EmptySmsg(0)]

tbc_FromCmsgNpcTextQuery ==
  [CMSG_NPC_TEXT_QUERY |-> PlainCmsg(12, <<4, 8>>, 4 + 8, 12),
   SMSG_NPC_TEXT_UPDATE |-> [w \in OfLength |->
     Smsg(FreeFixed("texts", 8, tbc_NpcTextUpdate(w).free),
          Minimum(252) \o Ints(<<4>>) \o Each("texts", 8, tbc_NpcTextUpdate(w).read),
          4 + 8 * tbc_NpcTextUpdate(w).written, 4 + 8 * tbc_NpcTextUpdate(w).size)],
   CMSG_QUESTGIVER_STATUS_QUERY |-> PlainCmsg(8, <<8>>, 8, 8)]

tbc_FromSmsgQuestgiverStatus ==
  [SMSG_QUESTGIVER_STATUS |-> PlainSmsg(12, <<8, 4>>, 8 + 4, 12),
   CMSG_QUESTGIVER_HELLO |-> PlainCmsg(8, <<8>>, 8, 8)]

tbc_FromSmsgQuestgiverQuestList ==
  [SMSG_QUESTGIVER_QUEST_LIST |-> [w \in OfLengthAndCount |->
     Smsg(
       Free({"title"}) \union FreeEach("quest_items", w.count, tbc_QuestItem(w).free),
       Minimum(18) \o Null({"title", "quest_items"}) \o Ints(<<8>>) \o Cstring("title", w)
       \o Ints(<<4, 4, 1>>)
       \o Array("quest_items", w.count, tbc_QuestItem(w).free, tbc_QuestItem(w).read),
       8 + WRITE_CSTRING(w) + 2 * 4 + 1 + w.count * tbc_QuestItem(w).written,
       18 + w.len + w.count * tbc_QuestItem(w).size)],
   CMSG_QUESTGIVER_QUERY_QUEST |-> PlainCmsg(12, <<8, 4>>, 8 + 4, 12),
   CMSG_QUESTGIVER_QUEST_AUTOLAUNCH |-> EmptyCmsg(0)]

tbc_FromSmsgQuestgiverQuestDetails ==
  [SMSG_QUESTGIVER_QUEST_DETAILS |-> [w \in OfLengthAndCount |->
     Smsg(
       Free({"title", "details", "objectives", "choice_item_rewards", "item_rewards", "emotes"}),
       Minimum(55)
       \o Null(
            {"title", "details", "objectives", "choice_item_rewards", "item_rewards", "emotes"})
       \o Ints(<<8, 4>>) \o Cstring("title", w) \o Cstring("details", w)
       \o Cstring("objectives", w) \o Ints(<<4, 4, 4>>)
       \o Array("choice_item_rewards", w.count, {}, tbc_QuestItemReward.read) \o Ints(<<4>>)
       \o Array("item_rewards", w.count, {}, tbc_QuestItemReward.read) \o Ints(Repeat(6, 4))
       \o Array("emotes", w.count, {}, tbc_QuestDetailsEmote.read),
       8 + 4 + 3 * WRITE_CSTRING(w) + 3 * 4 + w.count * tbc_QuestItemReward.written + 4
       + w.count * tbc_QuestItemReward.written + 6 * 4 + w.count * tbc_QuestDetailsEmote.written,
       55 + 3 * w.len + 8 * w.count + 8 * w.count + 8 * w.count)]]

tbc_FromCmsgQuestgiverAcceptQuest ==
  [CMSG_QUESTGIVER_ACCEPT_QUEST |-> PlainCmsg(12, <<8, 4>>, 8 + 4, 12),
   CMSG_QUESTGIVER_COMPLETE_QUEST |-> PlainCmsg(12, <<8, 4>>, 8 + 4, 12)]

tbc_FromSmsgQuestgiverRequestItems ==
  [SMSG_QUESTGIVER_REQUEST_ITEMS |-> [w \in OfLengthAndCount |->
     Smsg(
       Free({"title", "request_items_text", "required_items"}),
       Minimum(54) \o Null({"title", "request_items_text", "required_items"}) \o Ints(<<8, 4>>)
       \o Cstring("title", w) \o Cstring("request_items_text", w) \o Ints(Repeat(6, 4))
       \o Array("required_items", w.count, {}, tbc_QuestItemRequirement.read)
       \o Ints(<<4, 4, 4, 4>>),
       8 + 4 + 2 * WRITE_CSTRING(w) + 6 * 4 + w.count * tbc_QuestItemRequirement.written + 4 * 4,
       54 + 2 * w.len + 12 * w.count)]]

tbc_FromCmsgQuestgiverRequestReward ==
  [CMSG_QUESTGIVER_REQUEST_REWARD |-> PlainCmsg(12, <<8, 4>>, 8 + 4, 12)]

tbc_FromSmsgQuestgiverOfferReward ==
  [SMSG_QUESTGIVER_OFFER_REWARD |-> [w \in OfLengthAndCount |->
     Smsg(
       Free({"title", "offer_reward_text", "emotes", "choice_item_rewards", "item_rewards"}),
       Minimum(58)
       \o Null({"title", "offer_reward_text", "emotes", "choice_item_rewards", "item_rewards"})
       \o Ints(<<8, 4>>) \o Cstring("title", w) \o Cstring("offer_reward_text", w)
       \o Ints(<<4, 4, 4>>) \o Array("emotes", w.count, {}, tbc_NpcTextUpdateEmote.read)
       \o Ints(<<4>>) \o Array("choice_item_rewards", w.count, {}, tbc_QuestItemRequirement.read)
       \o Ints(<<4>>) \o Array("item_rewards", w.count, {}, tbc_QuestItemRequirement.read)
       \o Ints(Repeat(6, 4)),
       8 + 4 + 2 * WRITE_CSTRING(w) + 3 * 4 + w.count * tbc_NpcTextUpdateEmote.written + 4
       + w.count * tbc_QuestItemRequirement.written + 4
       + w.count * tbc_QuestItemRequirement.written + 6 * 4,
       58 + 2 * w.len + 8 * w.count + 12 * w.count + 12 * w.count)]]

tbc_FromCmsgQuestgiverChooseReward ==
  [CMSG_QUESTGIVER_CHOOSE_REWARD |-> PlainCmsg(16, <<8, 4, 4>>, 8 + 2 * 4, 16),
   SMSG_QUESTGIVER_QUEST_INVALID |-> PlainSmsg(4, <<4>>, 4, 4),
   CMSG_QUESTGIVER_CANCEL |-> EmptyCmsg(0)]

tbc_FromSmsgQuestgiverQuestComplete ==
  [SMSG_QUESTGIVER_QUEST_COMPLETE |-> [w \in OfCount |->
     Smsg(
       Free({"item_rewards"}),
       Minimum(24) \o Null({"item_rewards"}) \o Ints(Repeat(6, 4))
       \o Array("item_rewards", w.count, {}, tbc_QuestItemReward.read),
       6 * 4 + w.count * tbc_QuestItemReward.written, 24 + 8 * w.count)],
   SMSG_QUESTGIVER_QUEST_FAILED |-> PlainSmsg(8, <<4, 4>>, 2 * 4, 8)]

tbc_FromCmsgQuestlogSwapQuest ==
  [CMSG_QUESTLOG_SWAP_QUEST |-> PlainCmsg(2, <<1, 1>>, 2 * 1, 2),
   CMSG_QUESTLOG_REMOVE_QUEST |-> PlainCmsg(1, <<1>>, 1, 1),
   SMSG_QUESTLOG_FULL |-> EmptySmsg(0),
   SMSG_QUESTUPDATE_FAILED |-> PlainSmsg(4, <<4>>, 4, 4)]

tbc_FromSmsgQuestupdateFailedtimer ==
  [SMSG_QUESTUPDATE_FAILEDTIMER |-> PlainSmsg(4, <<4>>, 4, 4),
   SMSG_QUESTUPDATE_COMPLETE |-> PlainSmsg(4, <<4>>, 4, 4),
   SMSG_QUESTUPDATE_ADD_KILL |-> PlainSmsg(24, <<4, 4, 4, 4, 8>>, 4 * 4 + 8, 24)]

tbc_FromSmsgQuestupdateAddItem ==
  [SMSG_QUESTUPDATE_ADD_ITEM |-> PlainSmsg(8, <<4, 4>>, 2 * 4, 8),
   CMSG_QUEST_CONFIRM_ACCEPT |-> PlainCmsg(4, <<4>>, 4, 4),
   SMSG_QUEST_CONFIRM_ACCEPT |-> [w \in OfLength |->
     Smsg(Free({"quest_title"}),
          Minimum(13) \o Null({"quest_title"}) \o Ints(<<4>>) \o Cstring("quest_title", w)
          \o Ints(<<8>>), 4 + WRITE_CSTRING(w) + 8, 13 + w.len)]]

tbc_FromCmsgPushquesttoparty ==
  [CMSG_PUSHQUESTTOPARTY |-> PlainCmsg(4, <<4>>, 4, 4),
   CMSG_LIST_INVENTORY |-> PlainCmsg(8, <<8>>, 8, 8),
   SMSG_LIST_INVENTORY |-> [w \in OfCount |->
     Smsg(
       Free({"items"}),
       Minimum(9) \o Null({"items"}) \o Ints(<<8, 1>>)
       \o Array("items", w.count, {}, tbc_ListInventoryItem.read),
       8 + 1 + w.count * tbc_ListInventoryItem.written, 9 + 32 * w.count)]]

tbc_FromCmsgSellItem ==
  [CMSG_SELL_ITEM |-> PlainCmsg(17, <<8, 8, 1>>, 2 * 8 + 1, 17),
   SMSG_SELL_ITEM |-> PlainSmsg(17, <<8, 8, 1>>, 2 * 8 + 1, 17),
   CMSG_BUY_ITEM |-> PlainCmsg(14, <<8, 4, 1, 1>>, 8 + 4 + 2 * 1, 14)]

tbc_FromCmsgBuyItemInSlot ==
  [CMSG_BUY_ITEM_IN_SLOT |-> PlainCmsg(22, <<8, 4, 8, 1, 1>>, 8 + 4 + 8 + 2 * 1, 22),
   SMSG_BUY_ITEM |-> PlainSmsg(20, <<8, 4, 4, 4>>, 8 + 3 * 4, 20),
   SMSG_BUY_FAILED |-> PlainSmsg(13, <<8, 4, 1>>, 8 + 4 + 1, 13)]

tbc_FromSmsgShowtaxinodes ==
  [SMSG_SHOWTAXINODES |-> [w \in OfCount |->
     Smsg(
       Free({"nodes"}),
       Counted(16, Minimum(16) \o Null({"nodes"}) \o Ints(<<4, 8, 4>>))
       \o Endless("nodes", w.count, {}, Ints(<<4>>), 4),
       4 + 8 + 4 + w.count * 4, 16 + 4 * w.count)],
   CMSG_TAXINODE_STATUS_QUERY |-> PlainCmsg(8, <<8>>, 8, 8)]

tbc_FromSmsgTaxinodeStatus ==
  [SMSG_TAXINODE_STATUS |-> PlainSmsg(9, <<8, 1>>, 8 + 1, 9),
   CMSG_TAXIQUERYAVAILABLENODES |-> PlainCmsg(8, <<8>>, 8, 8),
   CMSG_ACTIVATETAXI |-> PlainCmsg(16, <<8, 4, 4>>, 8 + 2 * 4, 16),
   SMSG_ACTIVATETAXIREPLY |-> PlainSmsg(4, <<4>>, 4, 4)]

tbc_FromSmsgNewTaxiPath ==
  [SMSG_NEW_TAXI_PATH |-> EmptySmsg(0),
   CMSG_TRAINER_LIST |-> PlainCmsg(8, <<8>>, 8, 8),
   SMSG_TRAINER_LIST |-> [w \in OfLengthAndCount |->
     Smsg(
       Free({"spells", "greeting"}),
       Minimum(17) \o Null({"spells", "greeting"}) \o Ints(<<8, 4, 4>>)
       \o Array("spells", w.count, {}, tbc_TrainerSpell.read) \o Cstring("greeting", w),
       8 + 2 * 4 + w.count * tbc_TrainerSpell.written + WRITE_CSTRING(w),
       17 + w.len + 38 * w.count)]]

tbc_FromCmsgTrainerBuySpell ==
  [CMSG_TRAINER_BUY_SPELL |-> PlainCmsg(12, <<8, 4>>, 8 + 4, 12),
   SMSG_TRAINER_BUY_SUCCEEDED |-> PlainSmsg(12, <<8, 4>>, 8 + 4, 12),
   SMSG_TRAINER_BUY_FAILED |-> PlainSmsg(16, <<8, 4, 4>>, 8 + 2 * 4, 16),
   CMSG_BINDER_ACTIVATE |-> PlainCmsg(8, <<8>>, 8, 8)]

tbc_FromCmsgBankerActivate ==
  [CMSG_BANKER_ACTIVATE |-> PlainCmsg(8, <<8>>, 8, 8),
   SMSG_SHOW_BANK |-> PlainSmsg(8, <<8>>, 8, 8),
   CMSG_BUY_BANK_SLOT |-> PlainCmsg(8, <<8>>, 8, 8),
   SMSG_BUY_BANK_SLOT_RESULT |-> PlainSmsg(4, <<4>>, 4, 4)]

tbc_FromCmsgPetitionShowlist ==
  [CMSG_PETITION_SHOWLIST |-> PlainCmsg(8, <<8>>, 8, 8),
   SMSG_PETITION_SHOWLIST |-> [w \in OfCount |->
     Smsg(
       Free({"petitions"}),
       Minimum(9) \o Null({"petitions"}) \o Ints(<<8, 1>>)
       \o Array("petitions", w.count, {}, tbc_PetitionShowlist.read),
       8 + 1 + w.count * tbc_PetitionShowlist.written, 9 + 24 * w.count)]]

tbc_FromCmsgPetitionBuy ==
  [CMSG_PETITION_BUY |-> [w \in OfLength |->
     Cmsg(
       Free({"name"}),
       Minimum(72) \o Null({"name"}) \o Ints(<<8, 4, 8>>) \o Cstring("name", w)
       \o Ints(Repeat(10, 4) \o <<2, 1, 4, 4>>),
       8 + 4 + 8 + WRITE_CSTRING(w) + 10 * 4 + 2 + 1 + 2 * 4, 72 + w.len)],
   CMSG_PETITION_SHOW_SIGNATURES |-> PlainCmsg(8, <<8>>, 8, 8)]

tbc_FromSmsgPetitionShowSignatures ==
  [SMSG_PETITION_SHOW_SIGNATURES |-> [w \in OfCount |->
     Smsg(
       Free({"signatures"}),
       Minimum(21) \o Null({"signatures"}) \o Ints(<<8, 8, 4, 1>>)
       \o Array("signatures", w.count, {}, tbc_PetitionSignature.read),
       2 * 8 + 4 + 1 + w.count * tbc_PetitionSignature.written, 21 + 12 * w.count)],
   CMSG_PETITION_SIGN |-> PlainCmsg(9, <<8, 1>>, 8 + 1, 9),
   SMSG_PETITION_SIGN_RESULTS |-> PlainSmsg(20, <<8, 8, 4>>, 2 * 8 + 4, 20)]

tbc_FromMsgPetitionDecline ==
  [MSG_PETITION_DECLINE_cmsg |-> [w \in {Fixed} |-> Client(tbc_MSG_PETITION_DECLINE)],
   MSG_PETITION_DECLINE_smsg |-> [w \in {Fixed} |-> Server(tbc_MSG_PETITION_DECLINE)],
   CMSG_OFFER_PETITION |-> PlainCmsg(20, <<4, 8, 8>>, 4 + 2 * 8, 20),
   CMSG_TURN_IN_PETITION |-> PlainCmsg(8, <<8>>, 8, 8),
   SMSG_TURN_IN_PETITION_RESULTS |-> PlainSmsg(4, <<4>>, 4, 4)]

tbc_FromCmsgPetitionQuery ==
  [CMSG_PETITION_QUERY |-> PlainCmsg(12, <<4, 8>>, 4 + 8, 12),
   SMSG_PETITION_QUERY_RESPONSE |-> [w \in OfLength |->
     Smsg(
       Free({"guild_name", "body_text"}),
       Minimum(64) \o Null({"guild_name", "body_text"}) \o Ints(<<4, 8>>)
       \o Cstring("guild_name", w) \o Cstring("body_text", w)
       \o Ints(Repeat(7, 4) \o <<2>> \o Repeat(5, 4)),
       4 + 8 + 2 * WRITE_CSTRING(w) + 7 * 4 + 2 + 5 * 4, 64 + 2 * w.len)]]

tbc_FromSmsgFishNotHooked ==
  [SMSG_FISH_NOT_HOOKED |-> EmptySmsg(0),
   SMSG_FISH_ESCAPED |-> EmptySmsg(0),
   CMSG_BUG |-> [w \in OfLength |->
     Cmsg(
       Free({"content", "bug_type"}),
       Minimum(14) \o Null({"content", "bug_type"}) \o Ints(<<4>>) \o SizedCstring("content", w)
       \o SizedCstring("bug_type", w), 4 + 2 * WRITE_SIZED_CSTRING(w), 14 + 2 * w.len)],
   SMSG_NOTIFICATION |-> [w \in OfLength |->
     Smsg(
       Free({"notification"}), Minimum(1) \o Null({"notification"}) \o Cstring("notification", w),
       WRITE_CSTRING(w), 1 + w.len)]]

tbc_FromCmsgPlayedTime ==
  [CMSG_PLAYED_TIME |-> EmptyCmsg(0),
   SMSG_PLAYED_TIME |-> PlainSmsg(8, <<4, 4>>, 2 * 4, 8),
   CMSG_QUERY_TIME |-> EmptyCmsg(0),
   SMSG_QUERY_TIME_RESPONSE |-> PlainSmsg(8, <<4, 4>>, 2 * 4, 8)]

tbc_FromSmsgLogXpgain ==
  [SMSG_LOG_XPGAIN |->
     [w \in Wires(
              {0}, {0}, {{"EXPERIENCE_AWARD_TYPE_NON_KILL", "EXPERIENCE_AWARD_TYPE_KILL"}}, {}) |->
       Smsg(
         {},
         Minimum(13) \o Ints(<<8, 4, 1>>)
         \o When(Is(w, "EXPERIENCE_AWARD_TYPE_NON_KILL"), Ints(<<4, 4>>)),
         8 + 4 + 1 + Bytes(Is(w, "EXPERIENCE_AWARD_TYPE_NON_KILL"), 2 * 4),
         13 + Bytes(Is(w, "EXPERIENCE_AWARD_TYPE_NON_KILL"), 8))],
   CMSG_RECLAIM_CORPSE |-> PlainCmsg(8, <<8>>, 8, 8),
   CMSG_WRAP_ITEM |-> PlainCmsg(4, <<1, 1, 1, 1>>, 4 * 1, 4)]

tbc_FromSmsgLevelupInfo ==
  [SMSG_LEVELUP_INFO |-> PlainSmsg(48, Repeat(12, 4), 12 * 4, 48),
   MSG_MINIMAP_PING_Client |-> PlainCmsg(8, <<4, 4>>, 2 * 4, 8)]

tbc_FromMsgMinimapPing ==
  [MSG_MINIMAP_PING_Server |-> PlainSmsg(16, <<8, 4, 4>>, 8 + 2 * 4, 16),
   SMSG_ENCHANTMENTLOG |-> PlainSmsg(25, <<8, 8, 4, 4, 1>>, 2 * 8 + 2 * 4 + 1, 25),
   SMSG_START_MIRROR_TIMER |-> PlainSmsg(21, <<4, 4, 4, 4, 1, 4>>, 4 * 4 + 1 + 4, 21)]

tbc_FromSmsgPauseMirrorTimer ==
  [SMSG_PAUSE_MIRROR_TIMER |-> PlainSmsg(5, <<4, 1>>, 4 + 1, 5),
   SMSG_STOP_MIRROR_TIMER |-> PlainSmsg(4, <<4>>, 4, 4),
   CMSG_PING |-> PlainCmsg(8, <<4, 4>>, 2 * 4, 8),
   SMSG_PONG |-> PlainSmsg(4, <<4>>, 4, 4)]

tbc_LowGroups ==
  <<tbc_FromCmsgBootme, tbc_FromCmsgTeleportToUnit, tbc_FromCmsgCharDelete,
    tbc_FromSmsgCharDelete, tbc_FromSmsgTransferPending, tbc_FromSmsgCharacterLoginFailed,
    tbc_FromSmsgLogoutComplete, tbc_FromSmsgNameQueryResponse, tbc_FromSmsgPetNameQueryResponse,
    tbc_FromSmsgGuildQueryResponse, tbc_FromSmsgItemQuerySingleResponse,
    tbc_FromCmsgPageTextQuery, tbc_FromSmsgQuestQueryResponse, tbc_FromCmsgGameobjectQuery,
    tbc_FromSmsgGameobjectQueryResponse, tbc_FromCmsgCreatureQuery,
    tbc_FromSmsgCreatureQueryResponse, tbc_FromCmsgWho, tbc_FromSmsgWho, tbc_FromSmsgWhois,
    tbc_FromSmsgContactList, tbc_FromCmsgAddFriend, tbc_FromCmsgAddIgnore,
    tbc_FromSmsgGroupInvite, tbc_FromCmsgGroupUninvite, tbc_FromSmsgGroupSetLeader,
    tbc_FromSmsgGroupList, tbc_FromSmsgPartyMemberStats, tbc_FromSmsgPartyCommandResult,
    tbc_FromSmsgGuildInvite, tbc_FromSmsgGuildInfo, tbc_FromSmsgGuildRoster,
    tbc_FromCmsgGuildDemote, tbc_FromCmsgGuildLeader, tbc_FromSmsgGuildEvent,
    tbc_FromCmsgMessagechat, tbc_FromSmsgMessagechat, tbc_FromCmsgJoinChannel,
    tbc_FromSmsgChannelNotify, tbc_FromSmsgChannelList, tbc_FromCmsgChannelSetOwner,
    tbc_FromCmsgChannelModerator, tbc_FromCmsgChannelMute, tbc_FromCmsgChannelInvite,
    tbc_FromCmsgChannelBan, tbc_FromCmsgChannelAnnouncements, tbc_FromSmsgUpdateObject,
    tbc_FromCmsgUseItem, tbc_FromSmsgReadItemOk, tbc_FromSmsgGameobjectCustomAnim,
    tbc_FromMsgMoveStartBackward, tbc_FromMsgMoveStop, tbc_FromMsgMoveStartStrafeRight,
    tbc_FromMsgMoveStopStrafe, tbc_FromMsgMoveStartTurnLeft, tbc_FromMsgMoveStartTurnRight,
    tbc_FromMsgMoveStartPitchUp, tbc_FromMsgMoveStartPitchDown, tbc_FromMsgMoveSetRunMode,
    tbc_FromMsgMoveSetWalkMode, tbc_FromMsgMoveTeleportAck, tbc_FromMsgMoveFallLand,
    tbc_FromMsgMoveStopSwim, tbc_FromMsgMoveSetFacing, tbc_FromMsgMoveWorldportAck,
    tbc_FromSmsgMoveWaterWalk, tbc_FromSmsgForceRunSpeedChange,
    tbc_FromCmsgForceRunBackSpeedChangeAck, tbc_FromSmsgForceMoveRoot,
    tbc_FromCmsgForceMoveUnrootAck, tbc_FromMsgMoveHeartbeat, tbc_FromCmsgMoveKnockBackAck,
    tbc_FromSmsgMoveNormalFall, tbc_FromCmsgMoveHoverAck, tbc_FromCmsgNextCinematicCamera,
    tbc_FromCmsgStandstatechange, tbc_FromSmsgTextEmote, tbc_FromCmsgAutostoreBagItem,
    tbc_FromCmsgSplitItem, tbc_FromSmsgInventoryChangeFailure, tbc_FromCmsgBeginTrade,
    tbc_FromCmsgSetTradeItem, tbc_FromSmsgTradeStatus, tbc_FromSmsgInitializeFactions,
    tbc_FromSmsgSetFactionStanding, tbc_FromCmsgSetActionButton, tbc_FromSmsgInitialSpells,
    tbc_FromCmsgCastSpell, tbc_FromSmsgCastFailed, tbc_FromSmsgSpellStart, tbc_FromSmsgSpellGo,
    tbc_FromSmsgSpellFailure, tbc_FromSmsgCooldownEvent, tbc_FromSmsgPetCastFailed,
    tbc_FromMsgChannelStart, tbc_FromSmsgAiReaction, tbc_FromCmsgAttackstop,
    tbc_FromSmsgAttackswingDeadtarget, tbc_FromSmsgSpellheallog, tbc_FromSmsgBindpointupdate,
    tbc_FromSmsgResurrectRequest, tbc_FromCmsgLootRelease, tbc_FromSmsgLootReleaseResponse,
    tbc_FromSmsgItemPushResult, tbc_FromSmsgDuelComplete, tbc_FromCmsgDuelCancelled,
    tbc_FromCmsgPetSetAction, tbc_FromCmsgPetAbandon, tbc_FromSmsgPetNameInvalid,
    tbc_FromSmsgPetSpells, tbc_FromSmsgPetMode, tbc_FromCmsgGossipSelectOption,
    tbc_FromSmsgGossipMessage, tbc_FromCmsgNpcTextQuery, tbc_FromSmsgQuestgiverStatus,
    tbc_FromSmsgQuestgiverQuestList, tbc_FromSmsgQuestgiverQuestDetails,
    tbc_FromCmsgQuestgiverAcceptQuest, tbc_FromSmsgQuestgiverRequestItems,
    tbc_FromCmsgQuestgiverRequestReward, tbc_FromSmsgQuestgiverOfferReward,
    tbc_FromCmsgQuestgiverChooseReward, tbc_FromSmsgQuestgiverQuestComplete,
    tbc_FromCmsgQuestlogSwapQuest, tbc_FromSmsgQuestupdateFailedtimer,
    tbc_FromSmsgQuestupdateAddItem, tbc_FromCmsgPushquesttoparty, tbc_FromCmsgSellItem,
    tbc_FromCmsgBuyItemInSlot, tbc_FromSmsgShowtaxinodes, tbc_FromSmsgTaxinodeStatus,
    tbc_FromSmsgNewTaxiPath, tbc_FromCmsgTrainerBuySpell, tbc_FromCmsgBankerActivate,
    tbc_FromCmsgPetitionShowlist, tbc_FromCmsgPetitionBuy, tbc_FromSmsgPetitionShowSignatures,
    tbc_FromMsgPetitionDecline, tbc_FromCmsgPetitionQuery, tbc_FromSmsgFishNotHooked,
    tbc_FromCmsgPlayedTime, tbc_FromSmsgLogXpgain, tbc_FromSmsgLevelupInfo,
    tbc_FromMsgMinimapPing, tbc_FromSmsgPauseMirrorTimer>>
=============================================================================
