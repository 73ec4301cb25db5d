------------------------- MODULE WrathMessagesLow -------------------------
(*****************************************************************************)
(* The messages of the 3.3.5 version of the world protocol from              *)
(* CMSG_BOOTME to SMSG_QUESTGIVER_REQUEST_ITEMS, in the order of             *)
(* src/wow_world_messages_c/src/wrath.c.                                     *)
(*                                                                           *)
(* A message is a function from its wires to records of what its functions   *)
(* do on them. Neighbours are defined together, in a record named for the    *)
(* first. A message of which every function does what that of an earlier     *)
(* message does is defined as that message.                                  *)
(*****************************************************************************)
EXTENDS WrathStructs

wrath_FromCmsgBootme ==
  [CMSG_BOOTME |-> EmptyCmsg(0),
   CMSG_DBLOOKUP |-> [w \in OfLength |->
     Cmsg(Free({"query"}), Minimum(1) \o Null({"query"}) \o Cstring("query", w),
          WRITE_CSTRING(w), 1 + w.len)],
   CMSG_WORLD_TELEPORT |-> [w \in {Fixed} |->
     Cmsg({}, Minimum(32) \o Ints(<<4, 4, 8>>) \o Vector3d.read \o Ints(<<4>>),
          2 * 4 + 8 + Vector3d.written + 4, 32)]]

wrath_FromCmsgTeleportToUnit ==
  [CMSG_TELEPORT_TO_UNIT |-> [w \in OfLength |->
     Cmsg(Free({"name"}), Minimum(1) \o Null({"name"}) \o Cstring("name", w),
          WRITE_CSTRING(w), 1 + w.len)],
   CMSG_CHAR_CREATE |-> [w \in OfLength |->
     Cmsg(
       Free({"name"}), Minimum(10) \o Null({"name"}) \o Cstring("name", w) \o Ints(Repeat(9, 1)),
       WRITE_CSTRING(w) + 9 * 1, 10 + w.len)],
   CMSG_CHAR_ENUM |-> EmptyCmsg(0)]

wrath_FromCmsgCharDelete ==
  [CMSG_CHAR_DELETE |-> PlainCmsg(8, <<8>>, 8, 8),
   SMSG_CHAR_CREATE |-> PlainSmsg(1, <<1>>, 1, 1),
   SMSG_CHAR_ENUM |-> [w \in OfLengthAndCount |->
     Smsg(
       FreeEach("characters", w.count, wrath_Character(w).free),
       Minimum(1) \o Null({"characters"}) \o Ints(<<1>>)
       \o Array("characters", w.count, wrath_Character(w).free, wrath_Character(w).read),
       1 + w.count * wrath_Character(w).written, 1 + w.count * wrath_Character(w).size)]]

wrath_FromSmsgCharDelete ==
  [SMSG_CHAR_DELETE |-> PlainSmsg(1, <<1>>, 1, 1),
   CMSG_PLAYER_LOGIN |-> PlainCmsg(8, <<8>>, 8, 8),
   SMSG_NEW_WORLD |-> [w \in {Fixed} |->
     Smsg({}, Minimum(20) \o Ints(<<4>>) \o Vector3d.read \o Ints(<<4>>),
          4 + Vector3d.written + 4, 20)]]

wrath_FromSmsgTransferPending ==
  [SMSG_TRANSFER_PENDING |-> [w \in Wires({0}, {0}, {}, {"has_transport"}) |->
     Smsg(
       Free({"has_transport"}),
       Counted(4, Minimum(4) \o Null({"has_transport"}) \o Ints(<<4>>))
       \o Optional("has_transport", {}, Ints(<<4, 4>>)),
       4 + Bytes(Is(w, "has_transport"), 2 * 4), 4 + Bytes(Is(w, "has_transport"), 8))],
   SMSG_TRANSFER_ABORTED |->
     [w \in Wires({0}, {0},
                  {{"TRANSFER_ABORT_REASON_INSUFFICIENT_EXPANSION_LEVEL",
                    "TRANSFER_ABORT_REASON_NONE"}}, {}) |->
       Smsg(
         {},
         Minimum(5) \o Ints(<<4, 1>>)
         \o When(Is(w, "TRANSFER_ABORT_REASON_INSUFFICIENT_EXPANSION_LEVEL"), Ints(<<1>>)),
         4 + 1 + Bytes(Is(w, "TRANSFER_ABORT_REASON_INSUFFICIENT_EXPANSION_LEVEL"), 1),
         5 + Bytes(Is(w, "TRANSFER_ABORT_REASON_INSUFFICIENT_EXPANSION_LEVEL"), 1))]]

wrath_FromSmsgCharacterLoginFailed ==
  [SMSG_CHARACTER_LOGIN_FAILED |-> PlainSmsg(1, <<1>>, 1, 1),
   SMSG_LOGIN_SETTIMESPEED |-> PlainSmsg(12, <<4, 4, 4>>, 3 * 4, 12),
   CMSG_PLAYER_LOGOUT |-> EmptyCmsg(0),
   CMSG_LOGOUT_REQUEST |-> EmptyCmsg(0),
   SMSG_LOGOUT_RESPONSE |-> PlainSmsg(5, <<4, 1>>, 4 + 1, 5)]

wrath_FromSmsgLogoutComplete ==
  [SMSG_LOGOUT_COMPLETE |-> EmptySmsg(0),
   CMSG_LOGOUT_CANCEL |-> EmptyCmsg(0),
   SMSG_LOGOUT_CANCEL_ACK |-> EmptySmsg(0),
   CMSG_NAME_QUERY |-> PlainCmsg(8, <<8>>, 8, 8)]

wrath_FromSmsgNameQueryResponse ==
  [SMSG_NAME_QUERY_RESPONSE |->
     [w \in Wires(Lengths, {0}, {{"DECLINED_NAMES_YES", "DECLINED_NAMES_NO"}}, {}) |->
       Smsg(
         Free({"character_name", "realm_name"})
         \union FreeIf("has_declined_names", {"DECLINED_NAMES_YES"},
                       FreeFixed("declined_names", 5, Free({"text"}))),
         Minimum(8) \o Null({"character_name", "realm_name"})
         \o Each("declined_names", 5, Null({"text"})) \o PackedGuid(w) \o Ints(<<1>>)
         \o Cstring("character_name", w) \o Cstring("realm_name", w) \o Ints(<<1, 1, 1>>)
         \o Field(1, "has_declined_names", {}, w)
         \o When(Is(w, "DECLINED_NAMES_YES"), Each("declined_names", 5, Cstring("text", w))),
         WRITE_PACKED_GUID(w) + 1 + 2 * WRITE_CSTRING(w) + 4 * 1
         + Bytes(Is(w, "DECLINED_NAMES_YES"), 5 * WRITE_CSTRING(w)),
         7 + 2 * w.len + wwm_packed_guid_size(w)
         + Bytes(Is(w, "DECLINED_NAMES_YES"), 5 * (1 + w.len)))]]

wrath_FromCmsgPetNameQuery ==
  [CMSG_PET_NAME_QUERY |-> PlainCmsg(12, <<4, 8>>, 4 + 8, 12),
   SMSG_PET_NAME_QUERY_RESPONSE |->
     [w \in Wires(
              Lengths, {0},
              {{"PET_QUERY_DISABLED_NAMES_PRESENT", "PET_QUERY_DISABLED_NAMES_NOT_PRESENT"}}, {}) |->
       Smsg(
         Free({"name"})
         \union FreeIf("names", {"PET_QUERY_DISABLED_NAMES_PRESENT"},
                       FreeFixed("declined_names", 5, Free({"text"}))),
         Minimum(10) \o Null({"name"}) \o Each("declined_names", 5, Null({"text"})) \o Ints(<<4>>)
         \o Cstring("name", w) \o Ints(<<4>>) \o Field(1, "names", {}, w)
         \o When(Is(w, "PET_QUERY_DISABLED_NAMES_PRESENT"),
                 Each("declined_names", 5, Cstring("text", w))),
         4 + WRITE_CSTRING(w) + 4 + 1
         + Bytes(Is(w, "PET_QUERY_DISABLED_NAMES_PRESENT"), 5 * WRITE_CSTRING(w)),
         10 + w.len + Bytes(Is(w, "PET_QUERY_DISABLED_NAMES_PRESENT"), 5 * (1 + w.len)))]]

wrath_FromCmsgGuildQuery ==
  [CMSG_GUILD_QUERY |-> PlainCmsg(4, <<4>>, 4, 4),
   SMSG_GUILD_QUERY_RESPONSE |-> [w \in OfLength |->
     Smsg(
       Free({"name"}) \union FreeFixed("rank_names", 10, Free({"text"})),
       Minimum(35) \o Null({"name"}) \o Each("rank_names", 10, Null({"text"})) \o Ints(<<4>>)
       \o Cstring("name", w) \o Each("rank_names", 10, Cstring("text", w)) \o Ints(Repeat(5, 4)),
       4 + WRITE_CSTRING(w) + 10 * WRITE_CSTRING(w) + 5 * 4, 25 + w.len + 10 * (1 + w.len))]]

wrath_FromCmsgItemQuerySingle ==
  [CMSG_ITEM_QUERY_SINGLE |-> PlainCmsg(4, <<4>>, 4, 4)]

wrath_FromSmsgItemQuerySingleResponse ==
  [SMSG_ITEM_QUERY_SINGLE_RESPONSE |-> [w \in Wires(Lengths, Counts, {}, {"found"}) |->
     Smsg(
       FreeOptional("found", Free({"name1", "name2", "name3", "name4", "stats", "description"})),
       Counted(4, Minimum(4) \o Null({"found"}) \o Ints(<<4>>))
       \o Optional(
            "found", Free({"name1", "name2", "name3", "name4", "stats", "description"}),
            Null({"name1", "name2", "name3", "name4", "stats", "description"}) \o Ints(<<8, 4>>)
            \o Cstring("name1", w) \o Cstring("name2", w) \o Cstring("name3", w)
            \o Cstring("name4", w) \o Ints(Repeat(22, 4))
            \o Array("stats", w.count, {}, wrath_ItemStat.read) \o Ints(<<4, 4>>)
            \o Each("damages", 2, wrath_ItemDamageType.read) \o Ints(Repeat(10, 4))
            \o Each("spells", 5, wrath_ItemSpells.read) \o Ints(<<4>>)
            \o Cstring("description", w) \o Ints(Repeat(16, 4))
            \o Each("sockets", 3, wrath_ItemSocket.read) \o Ints(Repeat(7, 4))),
       4
       + Bytes(
           Is(w, "found"),
           8 + 4 + 4 * WRITE_CSTRING(w) + 22 * 4 + w.count * wrath_ItemStat.written + 2 * 4
           + 2 * wrath_ItemDamageType.written + 10 * 4 + 5 * wrath_ItemSpells.written + 4
           + WRITE_CSTRING(w) + 16 * 4 + 3 * wrath_ItemSocket.written + 7 * 4),
       4 + Bytes(Is(w, "found"), 417 + 5 * w.len + 8 * w.count))]]

wrath_FromCmsgPageTextQuery ==
  [CMSG_PAGE_TEXT_QUERY |-> PlainCmsg(12, <<4, 8>>, 4 + 8, 12),
   SMSG_PAGE_TEXT_QUERY_RESPONSE |-> [w \in OfLength |->
     Smsg(Free({"text"}),
          Minimum(9) \o Null({"text"}) \o Ints(<<4>>) \o Cstring("text", w) \o Ints(<<4>>),
          4 + WRITE_CSTRING(w) + 4, 9 + w.len)],
   CMSG_QUEST_QUERY |-> PlainCmsg(4, <<4>>, 4, 4)]

wrath_FromSmsgQuestQueryResponse ==
  [SMSG_QUEST_QUERY_RESPONSE |-> [w \in OfLength |->
     Smsg(
       Free({"title", "objective_text", "details", "end_text", "completed_text"})
       \union FreeFixed("objective_texts", 4, Free({"text"})),
       Minimum(397) \o Null({"title", "objective_text", "details", "end_text", "completed_text"})
       \o Each("objective_texts", 4, Null({"text"}))
       \o Ints(Repeat(7, 4) \o <<2, 4, 2>> \o Repeat(15, 4))
       \o Each("rewards", 4, wrath_QuestItemReward.read)
       \o Each("choice_rewards", 6, wrath_QuestItemReward.read) \o Ints(Repeat(16, 4))
       \o Vector2d.read \o Ints(<<4>>) \o Cstring("title", w) \o Cstring("objective_text", w)
       \o Cstring("details", w) \o Cstring("end_text", w) \o Cstring("completed_text", w)
       \o Each("objectives", 4, wrath_QuestObjective.read)
       \o Each("item_requirements", 6, wrath_QuestItemRequirement.read)
       \o Each("objective_texts", 4, Cstring("text", w)),
       7 * 4 + 2 + 4 + 2 + 15 * 4 + 4 * wrath_QuestItemReward.written
       + 6 * wrath_QuestItemReward.written + 3 * 5 * 4 + 4 + Vector2d.written + 4
       + 5 * WRITE_CSTRING(w) + 4 * wrath_QuestObjective.written
       + 6 * wrath_QuestItemRequirement.written + 4 * WRITE_CSTRING(w),
       393 + 5 * w.len + 4 * (1 + w.len))]]

wrath_FromCmsgGameobjectQuery ==
  [CMSG_GAMEOBJECT_QUERY |-> PlainCmsg(12, <<4, 8>>, 4 + 8, 12)]

wrath_FromSmsgGameobjectQueryResponse ==
  [SMSG_GAMEOBJECT_QUERY_RESPONSE |-> [w \in Wires(Lengths, {0}, {}, {"found"}) |->
     Smsg(
       FreeOptional(
         "found",
         Free({"name1", "name2", "name3", "name4", "icon_name", "cast_bar_caption", "unknown"})),
       Counted(4, Minimum(4) \o Null({"found"}) \o Ints(<<4>>))
       \o Optional(
            "found",
            Free({"name1", "name2", "name3", "name4", "icon_name", "cast_bar_caption", "unknown"}),
            Null({"name1", "name2", "name3", "name4", "icon_name", "cast_bar_caption", "unknown"})
            \o Ints(<<4, 4>>) \o Cstring("name1", w) \o Cstring("name2", w) \o Cstring("name3", w)
            \o Cstring("name4", w) \o Cstring("icon_name", w) \o Cstring("cast_bar_caption", w)
            \o Cstring("unknown", w) \o Ints(Repeat(13, 4))),
       4 + Bytes(Is(w, "found"), 2 * 4 + 7 * WRITE_CSTRING(w) + 6 * 4 + 4 + 6 * 4),
       4 + Bytes(Is(w, "found"), 67 + 7 * w.len))]]

wrath_FromCmsgCreatureQuery ==
  [CMSG_CREATURE_QUERY |-> PlainCmsg(12, <<4, 8>>, 4 + 8, 12)]

wrath_FromSmsgCreatureQueryResponse ==
  [SMSG_CREATURE_QUERY_RESPONSE |-> [w \in Wires(Lengths, {0}, {}, {"found"}) |->
     Smsg(
       FreeOptional(
         "found", Free({"name1", "name2", "name3", "name4", "sub_name", "description"})),
       Counted(4, Minimum(4) \o Null({"found"}) \o Ints(<<4>>))
       \o Optional(
            "found", Free({"name1", "name2", "name3", "name4", "sub_name", "description"}),
            Null({"name1", "name2", "name3", "name4", "sub_name", "description"})
            \o Cstring("name1", w) \o Cstring("name2", w) \o Cstring("name3", w)
            \o Cstring("name4", w) \o Cstring("sub_name", w) \o Cstring("description", w)
            \o Ints(Repeat(12, 4) \o <<1>> \o Repeat(7, 4))),
       4 + Bytes(Is(w, "found"), 6 * WRITE_CSTRING(w) + 6 * 4 + 4 * 4 + 2 * 4 + 1 + 6 * 4 + 4),
       4 + Bytes(Is(w, "found"), 83 + 6 * w.len))]]

wrath_FromCmsgWho ==
  [CMSG_WHO |-> [w \in OfLengthAndCount |->
     Cmsg(
       Free({"player_name", "guild_name", "zones"})
       \union FreeEach("search_strings", w.count, Free({"text"})),
       Minimum(26) \o Null({"player_name", "guild_name", "zones", "search_strings"})
       \o Ints(<<4, 4>>) \o Cstring("player_name", w) \o Cstring("guild_name", w)
       \o Ints(<<4, 4, 4>>) \o Calloc("zones", w.count, {}) \o Ints(Repeat(w.count, 4) \o <<4>>)
       \o Array("search_strings", w.count, Free({"text"}), Cstring("text", w)),
       2 * 4 + 2 * WRITE_CSTRING(w) + 3 * 4 + w.count * 4 + 4 + w.count * WRITE_CSTRING(w),
       26 + 2 * w.len + 4 * w.count + w.count * (1 + w.len))]]

wrath_FromSmsgWho ==
  [SMSG_WHO |-> [w \in OfLengthAndCount |->
     Smsg(
       FreeEach("players", w.count, wrath_WhoPlayer(w).free),
       Minimum(8) \o Null({"players"}) \o Ints(<<4, 4>>)
       \o Array("players", w.count, wrath_WhoPlayer(w).free, wrath_WhoPlayer(w).read),
       2 * 4 + w.count * wrath_WhoPlayer(w).written, 8 + w.count * wrath_WhoPlayer(w).size)],
   CMSG_WHOIS |-> [w \in OfLength |->
     Cmsg(Free({"character"}), Minimum(1) \o Null({"character"}) \o Cstring("character", w),
          WRITE_CSTRING(w), 1 + w.len)]]

wrath_FromSmsgWhois ==
  [SMSG_WHOIS |-> [w \in OfLength |->
     Smsg(Free({"message"}), Minimum(1) \o Null({"message"}) \o Cstring("message", w),
          WRITE_CSTRING(w), 1 + w.len)],
   CMSG_CONTACT_LIST |-> PlainCmsg(4, <<4>>, 4, 4)]

wrath_FromSmsgContactList ==
  [SMSG_CONTACT_LIST |->
     [w \in Wires(Lengths, Counts, {{"FRIEND_STATUS_ONLINE", "FRIEND_STATUS_OFFLINE"}},
                  {"RELATION_TYPE_FRIEND"}) |->
       Smsg(
         FreeEach("relations", w.count, wrath_Relation(w).free),
         Minimum(8) \o Null({"relations"}) \o Ints(<<4, 4>>)
         \o Array("relations", w.count, wrath_Relation(w).free, wrath_Relation(w).read),
         2 * 4 + w.count * wrath_Relation(w).written, 8 + w.count * wrath_Relation(w).size)],
   SMSG_FRIEND_STATUS |-> PlainSmsg(9, <<1, 8>>, 1 + 8, 9)]

wrath_FromCmsgAddFriend ==
  [CMSG_ADD_FRIEND |-> [w \in OfLength |->
     Cmsg(Free({"name", "note"}),
          Minimum(2) \o Null({"name", "note"}) \o Cstring("name", w) \o Cstring("note", w),
          2 * WRITE_CSTRING(w), 2 + 2 * w.len)],
   CMSG_DEL_FRIEND |-> PlainCmsg(8, <<8>>, 8, 8),
   CMSG_SET_CONTACT_NOTES |-> [w \in OfLength |->
     Cmsg(Free({"note"}), Minimum(9) \o Null({"note"}) \o Ints(<<8>>) \o Cstring("note", w),
          8 + WRITE_CSTRING(w), 9 + w.len)]]

wrath_FromCmsgAddIgnore ==
  [CMSG_ADD_IGNORE |-> [w \in OfLength |->
     Cmsg(Free({"name"}), Minimum(1) \o Null({"name"}) \o Cstring("name", w),
          WRITE_CSTRING(w), 1 + w.len)],
   CMSG_DEL_IGNORE |-> PlainCmsg(8, <<8>>, 8, 8),
   CMSG_GROUP_INVITE |-> [w \in OfLength |->
     Cmsg(Free({"name"}), Minimum(5) \o Null({"name"}) \o Cstring("name", w) \o Ints(<<4>>),
          WRITE_CSTRING(w) + 4, 5 + w.len)]]

wrath_FromSmsgGroupInvite ==
  [SMSG_GROUP_INVITE |-> [w \in Wires(Lengths, {0}, {}, {"unknown"}) |->
     Smsg(
       Free({"name", "unknown"}),
       Counted(
         2 + w.len, Minimum(2) \o Null({"unknown", "name"}) \o Ints(<<1>>) \o Cstring("name", w))
       \o Optional("unknown", {}, Ints(<<4, 1, 4>>)),
       1 + WRITE_CSTRING(w) + Bytes(Is(w, "unknown"), 4 + 1 + 4),
       2 + w.len + Bytes(Is(w, "unknown"), 9))],
   CMSG_GROUP_CANCEL |-> EmptyCmsg(0),
   CMSG_GROUP_ACCEPT |-> EmptyCmsg(0),
   CMSG_GROUP_DECLINE |-> EmptyCmsg(0)]

wrath_FromSmsgGroupDecline ==
  [SMSG_GROUP_DECLINE |-> [w \in OfLength |->
     Smsg(Free({"name"}), Minimum(1) \o Null({"name"}) \o Cstring("name", w),
          WRITE_CSTRING(w), 1 + w.len)],
   CMSG_GROUP_UNINVITE |-> [w \in OfLength |->
     Cmsg(Free({"name"}), Minimum(1) \o Null({"name"}) \o Cstring("name", w),
          WRITE_CSTRING(w), 1 + w.len)],
   CMSG_GROUP_UNINVITE_GUID |-> [w \in OfLength |->
     Cmsg(Free({"reason"}), Minimum(9) \o Null({"reason"}) \o Ints(<<8>>) \o Cstring("reason", w),
          8 + WRITE_CSTRING(w), 9 + w.len)]]

wrath_FromSmsgGroupUninvite ==
  [SMSG_GROUP_UNINVITE |-> EmptySmsg(0),
   CMSG_GROUP_SET_LEADER |-> PlainCmsg(8, <<8>>, 8, 8),
   SMSG_GROUP_SET_LEADER |-> [w \in OfLength |->
     Smsg(Free({"name"}), Minimum(1) \o Null({"name"}) \o Cstring("name", w),
          WRITE_CSTRING(w), 1 + w.len)],
   CMSG_LOOT_METHOD |-> PlainCmsg(16, <<4, 8, 4>>, 4 + 8 + 4, 16)]

wrath_FromCmsgGroupDisband ==
  [CMSG_GROUP_DISBAND |-> EmptyCmsg(0),
   SMSG_GROUP_DESTROYED |-> EmptySmsg(0)]

wrath_FromSmsgGroupList ==
  [SMSG_GROUP_LIST |-> [w \in Wires(Lengths, Counts, {}, {"group_not_empty"}) |->
     Smsg(
       Free({"group_not_empty"})
       \union FreeEach("members", w.count, wrath_GroupListMember(w).free),
       Counted(
         28 + w.count * wrath_GroupListMember(w).size,
         Minimum(28) \o Null({"group_not_empty", "members"}) \o Ints(<<1, 1, 1, 1, 8, 4, 4>>)
         \o Array(
              "members", w.count, wrath_GroupListMember(w).free, wrath_GroupListMember(w).read)
         \o Ints(<<8>>)) \o Optional("group_not_empty", {}, Ints(<<1, 8, 1, 1, 1, 1>>)),
       4 * 1 + 8 + 2 * 4 + w.count * wrath_GroupListMember(w).written + 8
       + Bytes(Is(w, "group_not_empty"), 1 + 8 + 4 * 1),
       28 + w.count * wrath_GroupListMember(w).size + Bytes(Is(w, "group_not_empty"), 13))]]

wrath_FromSmsgPartyMemberStats ==
  [SMSG_PARTY_MEMBER_STATS |->
     [w \in Wires(
              Lengths, {0}, {},
              {"GROUP_UPDATE_FLAGS_STATUS", "GROUP_UPDATE_FLAGS_CUR_HP", "GROUP_UPDATE_FLAGS_MAX_HP",
               "GROUP_UPDATE_FLAGS_POWER_TYPE", "GROUP_UPDATE_FLAGS_CUR_POWER",
               "GROUP_UPDATE_FLAGS_MAX_POWER", "GROUP_UPDATE_FLAGS_LEVEL", "GROUP_UPDATE_FLAGS_ZONE",
               "GROUP_UPDATE_FLAGS_POSITION", "GROUP_UPDATE_FLAGS_AURAS",
               "GROUP_UPDATE_FLAGS_PET_GUID", "GROUP_UPDATE_FLAGS_PET_NAME",
               "GROUP_UPDATE_FLAGS_PET_MODEL_ID", "GROUP_UPDATE_FLAGS_PET_CUR_HP",
               "GROUP_UPDATE_FLAGS_PET_MAX_HP", "GROUP_UPDATE_FLAGS_PET_POWER_TYPE",
               "GROUP_UPDATE_FLAGS_PET_CUR_POWER", "GROUP_UPDATE_FLAGS_PET_MAX_POWER",
               "GROUP_UPDATE_FLAGS_PET_AURAS", "GROUP_UPDATE_FLAGS_VEHICLE_SEAT"}) |->
       Smsg(
         FreeIf("mask", {"GROUP_UPDATE_FLAGS_PET_NAME"}, Free({"pet_name"})),
         Minimum(5) \o Null({"pet_name"}) \o PackedGuid(w) \o Field(4, "mask", {}, w)
         \o When(Is(w, "GROUP_UPDATE_FLAGS_STATUS"), Ints(<<1>>))
         \o When(Is(w, "GROUP_UPDATE_FLAGS_CUR_HP"), Ints(<<4>>))
         \o When(Is(w, "GROUP_UPDATE_FLAGS_MAX_HP"), Ints(<<4>>))
         \o When(Is(w, "GROUP_UPDATE_FLAGS_POWER_TYPE"), Ints(<<1>>))
         \o When(Is(w, "GROUP_UPDATE_FLAGS_CUR_POWER"), Ints(<<2>>))
         \o When(Is(w, "GROUP_UPDATE_FLAGS_MAX_POWER"), Ints(<<2>>))
         \o When(Is(w, "GROUP_UPDATE_FLAGS_LEVEL"), Ints(<<2>>))
         \o When(Is(w, "GROUP_UPDATE_FLAGS_ZONE"), Ints(<<4>>))
         \o When(Is(w, "GROUP_UPDATE_FLAGS_POSITION"), Ints(<<2, 2>>))
         \o When(Is(w, "GROUP_UPDATE_FLAGS_AURAS"), wrath_aura_mask(w))
         \o When(Is(w, "GROUP_UPDATE_FLAGS_PET_GUID"), Ints(<<8>>))
         \o When(Is(w, "GROUP_UPDATE_FLAGS_PET_NAME"), Cstring("pet_name", w))
         \o When(Is(w, "GROUP_UPDATE_FLAGS_PET_MODEL_ID"), Ints(<<2>>))
         \o When(Is(w, "GROUP_UPDATE_FLAGS_PET_CUR_HP"), Ints(<<4>>))
         \o When(Is(w, "GROUP_UPDATE_FLAGS_PET_MAX_HP"), Ints(<<4>>))
         \o When(Is(w, "GROUP_UPDATE_FLAGS_PET_POWER_TYPE"), Ints(<<1>>))
         \o When(Is(w, "GROUP_UPDATE_FLAGS_PET_CUR_POWER"), Ints(<<2>>))
         \o When(Is(w, "GROUP_UPDATE_FLAGS_PET_MAX_POWER"), Ints(<<2>>))
         \o When(Is(w, "GROUP_UPDATE_FLAGS_PET_AURAS"), wrath_aura_mask(w))
         \o When(Is(w, "GROUP_UPDATE_FLAGS_VEHICLE_SEAT"), Ints(<<4>>)),
         WRITE_PACKED_GUID(w) + 4 + Bytes(Is(w, "GROUP_UPDATE_FLAGS_STATUS"), 1)
         + Bytes(Is(w, "GROUP_UPDATE_FLAGS_CUR_HP"), 4)
         + Bytes(Is(w, "GROUP_UPDATE_FLAGS_MAX_HP"), 4)
         + Bytes(Is(w, "GROUP_UPDATE_FLAGS_POWER_TYPE"), 1)
         + Bytes(Is(w, "GROUP_UPDATE_FLAGS_CUR_POWER"), 2)
         + Bytes(Is(w, "GROUP_UPDATE_FLAGS_MAX_POWER"), 2)
         + Bytes(Is(w, "GROUP_UPDATE_FLAGS_LEVEL"), 2) + Bytes(Is(w, "GROUP_UPDATE_FLAGS_ZONE"), 4)
         + Bytes(Is(w, "GROUP_UPDATE_FLAGS_POSITION"), 2 * 2)
         + Bytes(Is(w, "GROUP_UPDATE_FLAGS_AURAS"), wrath_aura_mask_written(w))
         + Bytes(Is(w, "GROUP_UPDATE_FLAGS_PET_GUID"), 8)
         + Bytes(Is(w, "GROUP_UPDATE_FLAGS_PET_NAME"), WRITE_CSTRING(w))
         + Bytes(Is(w, "GROUP_UPDATE_FLAGS_PET_MODEL_ID"), 2)
         + Bytes(Is(w, "GROUP_UPDATE_FLAGS_PET_CUR_HP"), 4)
         + Bytes(Is(w, "GROUP_UPDATE_FLAGS_PET_MAX_HP"), 4)
         + Bytes(Is(w, "GROUP_UPDATE_FLAGS_PET_POWER_TYPE"), 1)
         + Bytes(Is(w, "GROUP_UPDATE_FLAGS_PET_CUR_POWER"), 2)
         + Bytes(Is(w, "GROUP_UPDATE_FLAGS_PET_MAX_POWER"), 2)
         + Bytes(Is(w, "GROUP_UPDATE_FLAGS_PET_AURAS"), wrath_aura_mask_written(w))
         + Bytes(Is(w, "GROUP_UPDATE_FLAGS_VEHICLE_SEAT"), 4),
         4 + wwm_packed_guid_size(w) + Bytes(Is(w, "GROUP_UPDATE_FLAGS_STATUS"), 1)
         + Bytes(Is(w, "GROUP_UPDATE_FLAGS_CUR_HP"), 4)
         + Bytes(Is(w, "GROUP_UPDATE_FLAGS_MAX_HP"), 4)
         + Bytes(Is(w, "GROUP_UPDATE_FLAGS_POWER_TYPE"), 1)
         + Bytes(Is(w, "GROUP_UPDATE_FLAGS_CUR_POWER"), 2)
         + Bytes(Is(w, "GROUP_UPDATE_FLAGS_MAX_POWER"), 2)
         + Bytes(Is(w, "GROUP_UPDATE_FLAGS_LEVEL"), 2) + Bytes(Is(w, "GROUP_UPDATE_FLAGS_ZONE"), 4)
         + Bytes(Is(w, "GROUP_UPDATE_FLAGS_POSITION"), 4)
         + Bytes(Is(w, "GROUP_UPDATE_FLAGS_AURAS"), wrath_aura_mask_size(w))
         + Bytes(Is(w, "GROUP_UPDATE_FLAGS_PET_GUID"), 8)
         + Bytes(Is(w, "GROUP_UPDATE_FLAGS_PET_NAME"), 1 + w.len)
         + Bytes(Is(w, "GROUP_UPDATE_FLAGS_PET_MODEL_ID"), 2)
         + Bytes(Is(w, "GROUP_UPDATE_FLAGS_PET_CUR_HP"), 4)
         + Bytes(Is(w, "GROUP_UPDATE_FLAGS_PET_MAX_HP"), 4)
         + Bytes(Is(w, "GROUP_UPDATE_FLAGS_PET_POWER_TYPE"), 1)
         + Bytes(Is(w, "GROUP_UPDATE_FLAGS_PET_CUR_POWER"), 2)
         + Bytes(Is(w, "GROUP_UPDATE_FLAGS_PET_MAX_POWER"), 2)
         + Bytes(Is(w, "GROUP_UPDATE_FLAGS_PET_AURAS"), wrath_aura_mask_size(w))
         + Bytes(Is(w, "GROUP_UPDATE_FLAGS_VEHICLE_SEAT"), 4))]]

wrath_FromSmsgPartyCommandResult ==
  [SMSG_PARTY_COMMAND_RESULT |-> [w \in OfLength |->
     Smsg(Free({"member"}),
          Minimum(9) \o Null({"member"}) \o Ints(<<4>>) \o Cstring("member", w) \o Ints(<<4>>),
          4 + WRITE_CSTRING(w) + 4, 9 + w.len)],
   CMSG_GUILD_CREATE |-> [w \in OfLength |->
     Cmsg(Free({"guild_name"}), Minimum(1) \o Null({"guild_name"}) \o Cstring("guild_name", w),
          WRITE_CSTRING(w), 1 + w.len)],
   CMSG_GUILD_INVITE |-> [w \in OfLength |->
     Cmsg(Free({"invited_player"}),
          Minimum(1) \o Null({"invited_player"}) \o Cstring("invited_player", w),
          WRITE_CSTRING(w), 1 + w.len)]]

wrath_FromSmsgGuildInvite ==
  [SMSG_GUILD_INVITE |-> [w \in OfLength |->
     Smsg(Free({"player_name", "guild_name"}),
          Minimum(2) \o Null({"player_name", "guild_name"}) \o Cstring("player_name", w)
          \o Cstring("guild_name", w), 2 * WRITE_CSTRING(w), 2 + 2 * w.len)],
   CMSG_GUILD_ACCEPT |-> EmptyCmsg(0),
   CMSG_GUILD_DECLINE |-> EmptyCmsg(0),
   SMSG_GUILD_DECLINE |-> [w \in OfLength |->
     Smsg(Free({"player"}), Minimum(1) \o Null({"player"}) \o Cstring("player", w),
          WRITE_CSTRING(w), 1 + w.len)],
   CMSG_GUILD_INFO |-> EmptyCmsg(0)]

wrath_FromSmsgGuildInfo ==
  [SMSG_GUILD_INFO |-> [w \in OfLength |->
     Smsg(Free({"guild_name"}),
          Minimum(13) \o Null({"guild_name"}) \o Cstring("guild_name", w) \o Ints(<<4, 4, 4>>),
          WRITE_CSTRING(w) + 3 * 4, 13 + w.len)],
   CMSG_GUILD_ROSTER |-> EmptyCmsg(0)]

wrath_FromSmsgGuildRoster ==
  [SMSG_GUILD_ROSTER |->
     [w \in Wires(Lengths, Counts, {{"GUILD_MEMBER_STATUS_OFFLINE", "GUILD_MEMBER_STATUS_ONLINE"}},
                  {}) |->
       Smsg(
         Free({"motd", "guild_info", "rights"})
         \union FreeEach("members", w.count, wrath_GuildMember(w).free),
         Minimum(10) \o Null({"motd", "guild_info", "rights", "members"}) \o Ints(<<4>>)
         \o Cstring("motd", w) \o Cstring("guild_info", w) \o Ints(<<4>>)
         \o Array("rights", w.count, {}, wrath_GuildRights.read)
         \o Array("members", w.count, wrath_GuildMember(w).free, wrath_GuildMember(w).read),
         4 + 2 * WRITE_CSTRING(w) + 4 + w.count * wrath_GuildRights.written
         + w.count * wrath_GuildMember(w).written,
         10 + 2 * w.len + 56 * w.count + w.count * wrath_GuildMember(w).size)],
   CMSG_GUILD_PROMOTE |-> [w \in OfLength |->
     Cmsg(Free({"player_name"}), Minimum(1) \o Null({"player_name"}) \o Cstring("player_name", w),
          WRITE_CSTRING(w), 1 + w.len)]]

wrath_FromCmsgGuildDemote ==
  [CMSG_GUILD_DEMOTE |-> wrath_FromSmsgGuildRoster.CMSG_GUILD_PROMOTE,
   CMSG_GUILD_LEAVE |-> EmptyCmsg(0),
   CMSG_GUILD_REMOVE |-> wrath_FromSmsgGuildRoster.CMSG_GUILD_PROMOTE,
   CMSG_GUILD_DISBAND |-> EmptyCmsg(0)]

wrath_FromCmsgGuildLeader ==
  [CMSG_GUILD_LEADER |-> [w \in OfLength |->
     Cmsg(Free({"new_guild_leader_name"}),
          Minimum(1) \o Null({"new_guild_leader_name"}) \o Cstring("new_guild_leader_name", w),
          WRITE_CSTRING(w), 1 + w.len)],
   CMSG_GUILD_MOTD |-> [w \in OfLength |->
     Cmsg(Free({"message_of_the_day"}),
          Minimum(1) \o Null({"message_of_the_day"}) \o Cstring("message_of_the_day", w),
          WRITE_CSTRING(w), 1 + w.len)]]

wrath_FromSmsgGuildEvent ==
  [SMSG_GUILD_EVENT |-> [w \in OfLengthAndCount |->
     Smsg(
       FreeEach("event_descriptions", w.count, Free({"text"})),
       Minimum(2) \o Null({"event_descriptions"}) \o Ints(<<1, 1>>)
       \o Array("event_descriptions", w.count, Free({"text"}), Cstring("text", w)),
       2 * 1 + w.count * WRITE_CSTRING(w), 2 + w.count * (1 + w.len))],
   SMSG_GUILD_COMMAND_RESULT |-> [w \in OfLength |->
     Smsg(Free({"string"}),
          Minimum(9) \o Null({"string"}) \o Ints(<<4>>) \o Cstring("string", w) \o Ints(<<4>>),
          4 + WRITE_CSTRING(w) + 4, 9 + w.len)]]

wrath_FromCmsgMessagechat ==
  [CMSG_MESSAGECHAT |->
     [w \in Wires(
              Lengths, {0}, {{"CHAT_TYPE_WHISPER", "CHAT_TYPE_CHANNEL", "CHAT_TYPE_SYSTEM"}}, {}) |->
       Cmsg(
         Free({"message"})
         \union FreeIf("chat_type", {"CHAT_TYPE_WHISPER"}, Free({"target_player"}))
         \union FreeIf("chat_type", {"CHAT_TYPE_CHANNEL"}, Free({"channel"})),
         Minimum(9) \o Null({"target_player", "channel", "message"}) \o Field(4, "chat_type", {}, w)
         \o Ints(<<4>>) \o When(Is(w, "CHAT_TYPE_WHISPER"), Cstring("target_player", w))
         \o When(Is(w, "CHAT_TYPE_CHANNEL"), Cstring("channel", w)) \o Cstring("message", w),
         2 * 4 + Bytes(Is(w, "CHAT_TYPE_WHISPER"), WRITE_CSTRING(w))
         + Bytes(Is(w, "CHAT_TYPE_CHANNEL"), WRITE_CSTRING(w)) + WRITE_CSTRING(w),
         9 + w.len + Bytes(Is(w, "CHAT_TYPE_WHISPER"), 1 + w.len)
         + Bytes(Is(w, "CHAT_TYPE_CHANNEL"), 1 + w.len))]]

wrath_FromSmsgMessagechat ==
  [SMSG_MESSAGECHAT |->
     [w \in Wires(
              Lengths, {0},
              {{"CHAT_TYPE_MONSTER_SAY", "CHAT_TYPE_WHISPER_FOREIGN", "CHAT_TYPE_BG_SYSTEM_NEUTRAL",
                "CHAT_TYPE_ACHIEVEMENT", "CHAT_TYPE_CHANNEL", "CHAT_TYPE_SYSTEM"}}, {"guid"}) |->
       Smsg(
         Free({"message"})
         \union FreeIf("chat_type", {"CHAT_TYPE_MONSTER_SAY"},
                       Free({"sender1"}) \union FreeAt(<<"target1">>, NamedGuid(w).free))
         \union FreeIf("chat_type", {"CHAT_TYPE_WHISPER_FOREIGN"}, Free({"sender2"}))
         \union FreeIf("chat_type", {"CHAT_TYPE_BG_SYSTEM_NEUTRAL"},
                       FreeAt(<<"target3">>, NamedGuid(w).free))
         \union FreeIf("chat_type", {"CHAT_TYPE_CHANNEL"}, Free({"channel_name"})),
         Minimum(31) \o Null({"sender1"}) \o At(<<"target1">>, Clear("guid"))
         \o At(<<"target1">>, Null({"name"})) \o Null({"sender2"})
         \o At(<<"target3">>, Clear("guid")) \o At(<<"target3">>, Null({"name"}))
         \o Null({"channel_name", "message"}) \o Field(1, "chat_type", {}, w) \o Ints(<<4, 8, 4>>)
         \o When(Is(w, "CHAT_TYPE_MONSTER_SAY"),
                 SizedCstring("sender1", w) \o At(<<"target1">>, NamedGuid(w).read))
         \o When(Is(w, "CHAT_TYPE_WHISPER_FOREIGN"), SizedCstring("sender2", w) \o Ints(<<8>>))
         \o When(Is(w, "CHAT_TYPE_BG_SYSTEM_NEUTRAL"), At(<<"target3">>, NamedGuid(w).read))
         \o When(Is(w, "CHAT_TYPE_ACHIEVEMENT"), Ints(<<8>>))
         \o When(Is(w, "CHAT_TYPE_CHANNEL"), Cstring("channel_name", w) \o Ints(<<8>>))
         \o When(Is(w, "CHAT_TYPE_SYSTEM"), Ints(<<8>>)) \o SizedCstring("message", w)
         \o Ints(<<1>>) \o When(Is(w, "CHAT_TYPE_ACHIEVEMENT"), Ints(<<4>>)),
         1 + 4 + 8 + 4
         + Bytes(Is(w, "CHAT_TYPE_MONSTER_SAY"), WRITE_SIZED_CSTRING(w) + NamedGuid(w).written)
         + Bytes(Is(w, "CHAT_TYPE_WHISPER_FOREIGN"), WRITE_SIZED_CSTRING(w) + 8)
         + Bytes(Is(w, "CHAT_TYPE_BG_SYSTEM_NEUTRAL"), NamedGuid(w).written)
         + Bytes(Is(w, "CHAT_TYPE_ACHIEVEMENT"), 8)
         + Bytes(Is(w, "CHAT_TYPE_CHANNEL"), WRITE_CSTRING(w) + 8)
         + Bytes(Is(w, "CHAT_TYPE_SYSTEM"), 8) + WRITE_SIZED_CSTRING(w) + 1
         + Bytes(Is(w, "CHAT_TYPE_ACHIEVEMENT"), 4),
         23 + w.len + Bytes(Is(w, "CHAT_TYPE_MONSTER_SAY"), 5 + w.len + NamedGuid(w).size)
         + Bytes(Is(w, "CHAT_TYPE_WHISPER_FOREIGN"), 13 + w.len)
         + Bytes(Is(w, "CHAT_TYPE_BG_SYSTEM_NEUTRAL"), NamedGuid(w).size)
         + Bytes(Is(w, "CHAT_TYPE_ACHIEVEMENT"), 8) + Bytes(Is(w, "CHAT_TYPE_CHANNEL"), 9 + w.len)
         + Bytes(Is(w, "CHAT_TYPE_SYSTEM"), 8) + Bytes(Is(w, "CHAT_TYPE_ACHIEVEMENT"), 4))]]

wrath_FromCmsgJoinChannel ==
  [CMSG_JOIN_CHANNEL |-> [w \in OfLength |->
     Cmsg(
       Free({"channel_name", "channel_password"}),
       Minimum(8) \o Null({"channel_name", "channel_password"}) \o Ints(<<4, 1, 1>>)
       \o Cstring("channel_name", w) \o Cstring("channel_password", w),
       4 + 2 * 1 + 2 * WRITE_CSTRING(w), 8 + 2 * w.len)],
   CMSG_LEAVE_CHANNEL |-> [w \in OfLength |->
     Cmsg(Free({"channel_name"}),
          Minimum(5) \o Null({"channel_name"}) \o Ints(<<4>>) \o Cstring("channel_name", w),
          4 + WRITE_CSTRING(w), 5 + w.len)]]

wrath_FromSmsgChannelNotify ==
  [SMSG_CHANNEL_NOTIFY |-> [w \in Wires(Lengths, {0}, {}, {"unknown1"}) |->
     Smsg(
       Free({"channel_name", "unknown1"}),
       Counted(
         2 + w.len,
         Minimum(2) \o Null({"unknown1", "channel_name"}) \o Ints(<<1>>)
         \o Cstring("channel_name", w)) \o Optional("unknown1", {}, Ints(<<4, 4>>)),
       1 + WRITE_CSTRING(w) + Bytes(Is(w, "unknown1"), 2 * 4),
       2 + w.len + Bytes(Is(w, "unknown1"), 8))],
   CMSG_CHANNEL_LIST |-> [w \in OfLength |->
     Cmsg(
       Free({"channel_name"}), Minimum(1) \o Null({"channel_name"}) \o Cstring("channel_name", w),
       WRITE_CSTRING(w), 1 + w.len)]]

wrath_FromSmsgChannelList ==
  [SMSG_CHANNEL_LIST |-> [w \in OfLengthAndCount |->
     Smsg(
       Free({"channel_name", "members"}),
       Minimum(6) \o Null({"channel_name", "members"}) \o Cstring("channel_name", w)
       \o Ints(<<1, 4>>) \o Array("members", w.count, {}, wrath_ChannelMember.read),
       WRITE_CSTRING(w) + 1 + 4 + w.count * wrath_ChannelMember.written, 6 + w.len + 9 * w.count)],
   CMSG_CHANNEL_PASSWORD |-> [w \in OfLength |->
     Cmsg(Free({"channel_name", "channel_password"}),
          Minimum(2) \o Null({"channel_name", "channel_password"}) \o Cstring("channel_name", w)
          \o Cstring("channel_password", w), 2 * WRITE_CSTRING(w), 2 + 2 * w.len)]]

wrath_FromCmsgChannelSetOwner ==
  [CMSG_CHANNEL_SET_OWNER |-> [w \in OfLength |->
     Cmsg(Free({"channel_name", "new_owner"}),
          Minimum(2) \o Null({"channel_name", "new_owner"}) \o Cstring("channel_name", w)
          \o Cstring("new_owner", w), 2 * WRITE_CSTRING(w), 2 + 2 * w.len)],
   CMSG_CHANNEL_OWNER |-> wrath_FromSmsgChannelNotify.CMSG_CHANNEL_LIST]

wrath_FromCmsgChannelModerator ==
  [CMSG_CHANNEL_MODERATOR |-> [w \in OfLength |->
     Cmsg(Free({"channel_name", "player_name"}),
          Minimum(2) \o Null({"channel_name", "player_name"}) \o Cstring("channel_name", w)
          \o Cstring("player_name", w), 2 * WRITE_CSTRING(w), 2 + 2 * w.len)],
   CMSG_CHANNEL_UNMODERATOR |-> [w \in OfLength |->
     Cmsg(Free({"channel_name", "player_name"}),
          Minimum(2) \o Null({"channel_name", "player_name"}) \o Cstring("channel_name", w)
          \o Cstring("player_name", w), 2 * WRITE_CSTRING(w), 2 + 2 * w.len)]]

wrath_FromCmsgChannelMute ==
  [CMSG_CHANNEL_MUTE |-> wrath_FromCmsgChannelModerator.CMSG_CHANNEL_MODERATOR,
   CMSG_CHANNEL_UNMUTE |-> wrath_FromCmsgChannelModerator.CMSG_CHANNEL_MODERATOR]

wrath_FromCmsgChannelInvite ==
  [CMSG_CHANNEL_INVITE |-> wrath_FromCmsgChannelModerator.CMSG_CHANNEL_MODERATOR,
   CMSG_CHANNEL_KICK |-> wrath_FromCmsgChannelModerator.CMSG_CHANNEL_MODERATOR]

wrath_FromCmsgChannelBan ==
  [CMSG_CHANNEL_BAN |-> wrath_FromCmsgChannelModerator.CMSG_CHANNEL_MODERATOR,
   CMSG_CHANNEL_UNBAN |-> wrath_FromCmsgChannelModerator.CMSG_CHANNEL_MODERATOR]

wrath_FromCmsgChannelAnnouncements ==
  [CMSG_CHANNEL_ANNOUNCEMENTS |-> wrath_FromSmsgChannelNotify.CMSG_CHANNEL_LIST,
   CMSG_CHANNEL_MODERATE |-> wrath_FromSmsgChannelNotify.CMSG_CHANNEL_LIST]

wrath_FromSmsgUpdateObject ==
  [SMSG_UPDATE_OBJECT |-> [w \in Wires(Lengths, UpdatedObjects, wrath_ObjectEnums, wrath_ObjectFlags) |->
     Smsg(
       FreeEach("objects", w.count, wrath_Object(w).free),
       Minimum(4) \o Null({"objects"}) \o Ints(<<4>>)
       \o Array("objects", w.count, wrath_Object(w).free, wrath_Object(w).read),
       4 + w.count * wrath_Object(w).written, 4 + w.count * wrath_Object(w).size)],
   SMSG_DESTROY_OBJECT |-> PlainSmsg(9, <<8, 1>>, 8 + 1, 9)]

wrath_FromCmsgUseItem ==
  [CMSG_USE_ITEM |->
     [w \in Wires(Lengths, {0},
                  {{"CLIENT_CAST_FLAGS_EXTRA", "CLIENT_CAST_FLAGS_NONE"},
                   {"CLIENT_MOVEMENT_DATA_PRESENT", "CLIENT_MOVEMENT_DATA_NOT_PRESENT"}},
                  wrath_MovementInfoFlags \union wrath_SpellCastTargetsFlags) |->
       Cmsg(
         FreeAt(<<"targets">>, wrath_SpellCastTargets(w).free),
         Minimum(25) \o Ints(<<1, 1, 1, 1, 4, 8, 4, 1>>)
         \o When(Is(w, "CLIENT_CAST_FLAGS_EXTRA"),
                 Ints(<<4, 4, 1>>)
                 \o When(Is(w, "CLIENT_MOVEMENT_DATA_PRESENT"),
                         Ints(<<4>>) \o PackedGuid(w) \o wrath_MovementInfo(w).read))
         \o At(<<"targets">>, wrath_SpellCastTargets(w).read),
         4 * 1 + 4 + 8 + 4 + 1
         + Bytes(
             Is(w, "CLIENT_CAST_FLAGS_EXTRA"),
             2 * 4 + 1
             + Bytes(Is(w, "CLIENT_MOVEMENT_DATA_PRESENT"),
                     4 + WRITE_PACKED_GUID(w) + wrath_MovementInfo(w).written))
         + wrath_SpellCastTargets(w).written,
         21 + wrath_SpellCastTargets(w).size
         + Bytes(
             Is(w, "CLIENT_CAST_FLAGS_EXTRA"),
             9
             + Bytes(Is(w, "CLIENT_MOVEMENT_DATA_PRESENT"),
                     4 + wwm_packed_guid_size(w) + wrath_MovementInfo(w).size)))]]

wrath_FromCmsgOpenItem ==
  [CMSG_OPEN_ITEM |-> PlainCmsg(2, <<1, 1>>, 2 * 1, 2),
   CMSG_READ_ITEM |-> PlainCmsg(2, <<1, 1>>, 2 * 1, 2),
   SMSG_READ_ITEM_OK |-> PlainSmsg(8, <<8>>, 8, 8),
   SMSG_READ_ITEM_FAILED |-> PlainSmsg(8, <<8>>, 8, 8)]

wrath_FromSmsgItemCooldown ==
  [SMSG_ITEM_COOLDOWN |-> PlainSmsg(12, <<8, 4>>, 8 + 4, 12),
   CMSG_GAMEOBJ_USE |-> PlainCmsg(8, <<8>>, 8, 8),
   SMSG_GAMEOBJECT_CUSTOM_ANIM |-> PlainSmsg(12, <<8, 4>>, 8 + 4, 12),
   CMSG_AREATRIGGER |-> PlainCmsg(4, <<4>>, 4, 4)]

wrath_FromMsgMoveStartForward ==
  [MSG_MOVE_START_FORWARD_cmsg |-> [w \in Wires(Lengths, {0}, {}, wrath_MovementInfoFlags) |->
     Client(wrath_MSG_MOVE_START_FORWARD(w))],
   MSG_MOVE_START_FORWARD_smsg |-> [w \in Wires(Lengths, {0}, {}, wrath_MovementInfoFlags) |->
     Server(wrath_MSG_MOVE_START_FORWARD(w))],
   MSG_MOVE_START_BACKWARD_cmsg |-> [w \in Wires(Lengths, {0}, {}, wrath_MovementInfoFlags) |->
     Client(wrath_MSG_MOVE_START_BACKWARD(w))],
   MSG_MOVE_START_BACKWARD_smsg |-> [w \in Wires(Lengths, {0}, {}, wrath_MovementInfoFlags) |->
     Server(wrath_MSG_MOVE_START_BACKWARD(w))],
   MSG_MOVE_STOP_cmsg |-> [w \in Wires(Lengths, {0}, {}, wrath_MovementInfoFlags) |->
     Client(wrath_MSG_MOVE_STOP(w))]]

wrath_FromMsgMoveStop ==
  [MSG_MOVE_STOP_smsg |-> [w \in Wires(Lengths, {0}, {}, wrath_MovementInfoFlags) |->
     Server(wrath_MSG_MOVE_STOP(w))],
   MSG_MOVE_START_STRAFE_LEFT_cmsg |-> [w \in Wires(Lengths, {0}, {}, wrath_MovementInfoFlags) |->
     Client(wrath_MSG_MOVE_START_STRAFE_LEFT(w))],
   MSG_MOVE_START_STRAFE_LEFT_smsg |-> [w \in Wires(Lengths, {0}, {}, wrath_MovementInfoFlags) |->
     Server(wrath_MSG_MOVE_START_STRAFE_LEFT(w))],
   MSG_MOVE_START_STRAFE_RIGHT_cmsg |->
     [w \in Wires(Lengths, {0}, {}, wrath_MovementInfoFlags) |->
       Client(wrath_MSG_MOVE_START_STRAFE_RIGHT(w))],
   MSG_MOVE_START_STRAFE_RIGHT_smsg |->
     [w \in Wires(Lengths, {0}, {}, wrath_MovementInfoFlags) |->
       Server(wrath_MSG_MOVE_START_STRAFE_RIGHT(w))]]

wrath_FromMsgMoveStopStrafe ==
  [MSG_MOVE_STOP_STRAFE_cmsg |-> [w \in Wires(Lengths, {0}, {}, wrath_MovementInfoFlags) |->
     Client(wrath_MSG_MOVE_STOP_STRAFE(w))],
   MSG_MOVE_STOP_STRAFE_smsg |-> [w \in Wires(Lengths, {0}, {}, wrath_MovementInfoFlags) |->
     Server(wrath_MSG_MOVE_STOP_STRAFE(w))],
   MSG_MOVE_JUMP_cmsg |-> [w \in Wires(Lengths, {0}, {}, wrath_MovementInfoFlags) |->
     Client(wrath_MSG_MOVE_JUMP(w))],
   MSG_MOVE_JUMP_smsg |-> [w \in Wires(Lengths, {0}, {}, wrath_MovementInfoFlags) |->
     Server(wrath_MSG_MOVE_JUMP(w))],
   MSG_MOVE_START_TURN_LEFT_cmsg |-> [w \in Wires(Lengths, {0}, {}, wrath_MovementInfoFlags) |->
     Client(wrath_MSG_MOVE_START_TURN_LEFT(w))]]

wrath_FromMsgMoveStartTurnLeft ==
  [MSG_MOVE_START_TURN_LEFT_smsg |-> [w \in Wires(Lengths, {0}, {}, wrath_MovementInfoFlags) |->
     Server(wrath_MSG_MOVE_START_TURN_LEFT(w))],
   MSG_MOVE_START_TURN_RIGHT_cmsg |-> [w \in Wires(Lengths, {0}, {}, wrath_MovementInfoFlags) |->
     Client(wrath_MSG_MOVE_START_TURN_RIGHT(w))],
   MSG_MOVE_START_TURN_RIGHT_smsg |-> [w \in Wires(Lengths, {0}, {}, wrath_MovementInfoFlags) |->
     Server(wrath_MSG_MOVE_START_TURN_RIGHT(w))],
   MSG_MOVE_STOP_TURN_cmsg |-> [w \in Wires(Lengths, {0}, {}, wrath_MovementInfoFlags) |->
     Client(wrath_MSG_MOVE_STOP_TURN(w))],
   MSG_MOVE_STOP_TURN_smsg |-> [w \in Wires(Lengths, {0}, {}, wrath_MovementInfoFlags) |->
     Server(wrath_MSG_MOVE_STOP_TURN(w))]]

wrath_FromMsgMoveStartPitchUp ==
  [MSG_MOVE_START_PITCH_UP_cmsg |-> [w \in Wires(Lengths, {0}, {}, wrath_MovementInfoFlags) |->
     Client(wrath_MSG_MOVE_START_PITCH_UP(w))],
   MSG_MOVE_START_PITCH_UP_smsg |-> [w \in Wires(Lengths, {0}, {}, wrath_MovementInfoFlags) |->
     Server(wrath_MSG_MOVE_START_PITCH_UP(w))],
   MSG_MOVE_START_PITCH_DOWN_cmsg |-> [w \in Wires(Lengths, {0}, {}, wrath_MovementInfoFlags) |->
     Client(wrath_MSG_MOVE_START_PITCH_DOWN(w))],
   MSG_MOVE_START_PITCH_DOWN_smsg |-> [w \in Wires(Lengths, {0}, {}, wrath_MovementInfoFlags) |->
     Server(wrath_MSG_MOVE_START_PITCH_DOWN(w))],
   MSG_MOVE_STOP_PITCH_cmsg |-> [w \in Wires(Lengths, {0}, {}, wrath_MovementInfoFlags) |->
     Client(wrath_MSG_MOVE_STOP_PITCH(w))]]

wrath_FromMsgMoveStopPitch ==
  [MSG_MOVE_STOP_PITCH_smsg |-> [w \in Wires(Lengths, {0}, {}, wrath_MovementInfoFlags) |->
     Server(wrath_MSG_MOVE_STOP_PITCH(w))],
   MSG_MOVE_SET_RUN_MODE_cmsg |-> [w \in Wires(Lengths, {0}, {}, wrath_MovementInfoFlags) |->
     Client(wrath_MSG_MOVE_SET_RUN_MODE(w))],
   MSG_MOVE_SET_RUN_MODE_smsg |-> [w \in Wires(Lengths, {0}, {}, wrath_MovementInfoFlags) |->
     Server(wrath_MSG_MOVE_SET_RUN_MODE(w))],
   MSG_MOVE_SET_WALK_MODE_cmsg |-> [w \in Wires(Lengths, {0}, {}, wrath_MovementInfoFlags) |->
     Client(wrath_MSG_MOVE_SET_WALK_MODE(w))],
   MSG_MOVE_SET_WALK_MODE_smsg |-> [w \in Wires(Lengths, {0}, {}, wrath_MovementInfoFlags) |->
     Server(wrath_MSG_MOVE_SET_WALK_MODE(w))]]

wrath_FromMsgMoveTeleport ==
  [MSG_MOVE_TELEPORT_Server |-> [w \in Wires(Lengths, {0}, {}, wrath_MovementInfoFlags) |->
     Cmsg({}, Minimum(31) \o PackedGuid(w) \o wrath_MovementInfo(w).read,
          WRITE_PACKED_GUID(w) + wrath_MovementInfo(w).written,
          wwm_packed_guid_size(w) + wrath_MovementInfo(w).size)],
   MSG_MOVE_TELEPORT_CHEAT_Server |-> [w \in {Fixed} |->
     Smsg({}, Minimum(16) \o Vector3d.read \o Ints(<<4>>), Vector3d.written + 4, 16)],
   MSG_MOVE_TELEPORT_ACK_Client |-> [w \in OfLength |->
     Cmsg({}, Minimum(9) \o PackedGuid(w) \o Ints(<<4, 4>>),
          WRITE_PACKED_GUID(w) + 2 * 4, 8 + wwm_packed_guid_size(w))]]

wrath_FromMsgMoveTeleportAck ==
  [MSG_MOVE_TELEPORT_ACK_Server |-> [w \in Wires(Lengths, {0}, {}, wrath_MovementInfoFlags) |->
     Smsg({}, Minimum(35) \o PackedGuid(w) \o Ints(<<4>>) \o wrath_MovementInfo(w).read,
          WRITE_PACKED_GUID(w) + 4 + wrath_MovementInfo(w).written,
          4 + wwm_packed_guid_size(w) + wrath_MovementInfo(w).size)],
   MSG_MOVE_FALL_LAND_cmsg |-> [w \in Wires(Lengths, {0}, {}, wrath_MovementInfoFlags) |->
     Client(wrath_MSG_MOVE_FALL_LAND(w))],
   MSG_MOVE_FALL_LAND_smsg |-> [w \in Wires(Lengths, {0}, {}, wrath_MovementInfoFlags) |->
     Server(wrath_MSG_MOVE_FALL_LAND(w))],
   MSG_MOVE_START_SWIM_cmsg |-> [w \in Wires(Lengths, {0}, {}, wrath_MovementInfoFlags) |->
     Client(wrath_MSG_MOVE_START_SWIM(w))]]

wrath_FromMsgMoveStartSwim ==
  [MSG_MOVE_START_SWIM_smsg |-> [w \in Wires(Lengths, {0}, {}, wrath_MovementInfoFlags) |->
     Server(wrath_MSG_MOVE_START_SWIM(w))],
   MSG_MOVE_STOP_SWIM_cmsg |-> [w \in Wires(Lengths, {0}, {}, wrath_MovementInfoFlags) |->
     Client(wrath_MSG_MOVE_STOP_SWIM(w))],
   MSG_MOVE_STOP_SWIM_smsg |-> [w \in Wires(Lengths, {0}, {}, wrath_MovementInfoFlags) |->
     Server(wrath_MSG_MOVE_STOP_SWIM(w))],
   MSG_MOVE_SET_FACING_cmsg |-> [w \in Wires(Lengths, {0}, {}, wrath_MovementInfoFlags) |->
     Client(wrath_MSG_MOVE_SET_FACING(w))],
   MSG_MOVE_SET_FACING_smsg |-> [w \in Wires(Lengths, {0}, {}, wrath_MovementInfoFlags) |->
     Server(wrath_MSG_MOVE_SET_FACING(w))]]

wrath_FromMsgMoveSetPitch ==
  [MSG_MOVE_SET_PITCH_cmsg |-> [w \in Wires(Lengths, {0}, {}, wrath_MovementInfoFlags) |->
     Client(wrath_MSG_MOVE_SET_PITCH(w))],
   MSG_MOVE_SET_PITCH_smsg |-> [w \in Wires(Lengths, {0}, {}, wrath_MovementInfoFlags) |->
     Server(wrath_MSG_MOVE_SET_PITCH(w))],
   MSG_MOVE_WORLDPORT_ACK_cmsg |-> EmptyCmsg(0),
   MSG_MOVE_WORLDPORT_ACK_smsg |-> EmptySmsg(0)]

wrath_FromSmsgMonsterMove ==
  [SMSG_MONSTER_MOVE |->
     [w \in Wires(Lengths, Counts,
                  {{"MONSTER_MOVE_TYPE_FACING_TARGET", "MONSTER_MOVE_TYPE_FACING_ANGLE",
                    "MONSTER_MOVE_TYPE_FACING_SPOT", "MONSTER_MOVE_TYPE_NORMAL"}},
                  {"SPLINE_FLAG_ENTER_CYCLE", "SPLINE_FLAG_PARABOLIC"}) |->
       Smsg(
         FreeSpline("splines"),
         Minimum(31) \o At(<<"splines">>, Null({"splines"})) \o PackedGuid(w) \o Ints(<<1>>)
         \o Vector3d.read \o Ints(<<4, 1>>)
         \o When(Is(w, "MONSTER_MOVE_TYPE_FACING_TARGET"), Ints(<<8>>))
         \o When(Is(w, "MONSTER_MOVE_TYPE_FACING_ANGLE"), Ints(<<4>>))
         \o When(Is(w, "MONSTER_MOVE_TYPE_FACING_SPOT"), Vector3d.read) \o Ints(<<4>>)
         \o When(Is(w, "SPLINE_FLAG_ENTER_CYCLE"), Ints(<<4, 4>>)) \o Ints(<<4>>)
         \o When(Is(w, "SPLINE_FLAG_PARABOLIC"), Ints(<<4, 4>>)) \o MonsterMoveSpline("splines", w),
         WRITE_PACKED_GUID(w) + 1 + Vector3d.written + 4 + 1
         + Bytes(Is(w, "MONSTER_MOVE_TYPE_FACING_TARGET"), 8)
         + Bytes(Is(w, "MONSTER_MOVE_TYPE_FACING_ANGLE"), 4)
         + Bytes(Is(w, "MONSTER_MOVE_TYPE_FACING_SPOT"), Vector3d.written) + 4
         + Bytes(Is(w, "SPLINE_FLAG_ENTER_CYCLE"), 2 * 4) + 4
         + Bytes(Is(w, "SPLINE_FLAG_PARABOLIC"), 2 * 4) + WRITE_MONSTER_MOVE_SPLINE(w),
         26 + wwm_packed_guid_size(w) + wwm_monster_move_spline_size(w)
         + Bytes(Is(w, "MONSTER_MOVE_TYPE_FACING_TARGET"), 8)
         + Bytes(Is(w, "MONSTER_MOVE_TYPE_FACING_ANGLE"), 4)
         + Bytes(Is(w, "MONSTER_MOVE_TYPE_FACING_SPOT"), 12)
         + Bytes(Is(w, "SPLINE_FLAG_ENTER_CYCLE"), 8) + Bytes(Is(w, "SPLINE_FLAG_PARABOLIC"), 8))]]

wrath_FromSmsgMoveWaterWalk ==
  [SMSG_MOVE_WATER_WALK |-> [w \in OfLength |->
     Smsg({}, Minimum(5) \o PackedGuid(w) \o Ints(<<4>>),
          WRITE_PACKED_GUID(w) + 4, 4 + wwm_packed_guid_size(w))],
   SMSG_MOVE_LAND_WALK |-> [w \in OfLength |->
     Smsg({}, Minimum(5) \o PackedGuid(w) \o Ints(<<4>>),
          WRITE_PACKED_GUID(w) + 4, 4 + wwm_packed_guid_size(w))],
   CMSG_MOVE_SET_RAW_POSITION |-> [w \in {Fixed} |->
     Cmsg({}, Minimum(16) \o Vector3d.read \o Ints(<<4>>), Vector3d.written + 4, 16)]]

wrath_FromSmsgForceRunSpeedChange ==
  [SMSG_FORCE_RUN_SPEED_CHANGE |-> [w \in OfLength |->
     Smsg({}, Minimum(10) \o PackedGuid(w) \o Ints(<<4, 1, 4>>),
          WRITE_PACKED_GUID(w) + 4 + 1 + 4, 9 + wwm_packed_guid_size(w))],
   CMSG_FORCE_RUN_SPEED_CHANGE_ACK |-> [w \in Wires(Lengths, {0}, {}, wrath_MovementInfoFlags) |->
     Cmsg(
       {},
       Minimum(39) \o PackedGuid(w) \o Ints(<<4>>) \o wrath_MovementInfo(w).read \o Ints(<<4>>),
       WRITE_PACKED_GUID(w) + 4 + wrath_MovementInfo(w).written + 4,
       8 + wwm_packed_guid_size(w) + wrath_MovementInfo(w).size)],
   SMSG_FORCE_RUN_BACK_SPEED_CHANGE |-> [w \in OfLength |->
     Smsg({}, Minimum(9) \o PackedGuid(w) \o Ints(<<4, 4>>),
          WRITE_PACKED_GUID(w) + 2 * 4, 8 + wwm_packed_guid_size(w))]]

wrath_FromCmsgForceRunBackSpeedChangeAck ==
  [CMSG_FORCE_RUN_BACK_SPEED_CHANGE_ACK |->
     wrath_FromSmsgForceRunSpeedChange.CMSG_FORCE_RUN_SPEED_CHANGE_ACK,
   SMSG_FORCE_SWIM_SPEED_CHANGE |-> [w \in OfLength |->
     Smsg({}, Minimum(9) \o PackedGuid(w) \o Ints(<<4, 4>>),
          WRITE_PACKED_GUID(w) + 2 * 4, 8 + wwm_packed_guid_size(w))],
   CMSG_FORCE_SWIM_SPEED_CHANGE_ACK |->
     wrath_FromSmsgForceRunSpeedChange.CMSG_FORCE_RUN_SPEED_CHANGE_ACK]

wrath_FromSmsgForceMoveRoot ==
  [SMSG_FORCE_MOVE_ROOT |-> [w \in OfLength |->
     Smsg({}, Minimum(5) \o PackedGuid(w) \o Ints(<<4>>),
          WRITE_PACKED_GUID(w) + 4, 4 + wwm_packed_guid_size(w))],
   CMSG_FORCE_MOVE_ROOT_ACK |-> [w \in Wires(Lengths, {0}, {}, wrath_MovementInfoFlags) |->
     Cmsg({}, Minimum(35) \o PackedGuid(w) \o Ints(<<4>>) \o wrath_MovementInfo(w).read,
          WRITE_PACKED_GUID(w) + 4 + wrath_MovementInfo(w).written,
          4 + wwm_packed_guid_size(w) + wrath_MovementInfo(w).size)],
   SMSG_FORCE_MOVE_UNROOT |-> [w \in OfLength |->
     Smsg({}, Minimum(5) \o PackedGuid(w) \o Ints(<<4>>),
          WRITE_PACKED_GUID(w) + 4, 4 + wwm_packed_guid_size(w))]]

wrath_FromCmsgForceMoveUnrootAck ==
  [CMSG_FORCE_MOVE_UNROOT_ACK |-> wrath_FromSmsgForceMoveRoot.CMSG_FORCE_MOVE_ROOT_ACK,
   MSG_MOVE_ROOT_Server |-> [w \in Wires(Lengths, {0}, {}, wrath_MovementInfoFlags) |->
     Smsg({}, Minimum(30) \o wrath_MovementInfo(w).read,
          wrath_MovementInfo(w).written, wrath_MovementInfo(w).size)],
   MSG_MOVE_UNROOT_Server |-> [w \in Wires(Lengths, {0}, {}, wrath_MovementInfoFlags) |->
     Smsg({}, Minimum(30) \o wrath_MovementInfo(w).read,
          wrath_MovementInfo(w).written, wrath_MovementInfo(w).size)]]

wrath_FromMsgMoveHeartbeat ==
  [MSG_MOVE_HEARTBEAT_cmsg |-> [w \in Wires(Lengths, {0}, {}, wrath_MovementInfoFlags) |->
     Client(wrath_MSG_MOVE_HEARTBEAT(w))],
   MSG_MOVE_HEARTBEAT_smsg |-> [w \in Wires(Lengths, {0}, {}, wrath_MovementInfoFlags) |->
     Server(wrath_MSG_MOVE_HEARTBEAT(w))],
   SMSG_MOVE_KNOCK_BACK |-> [w \in OfLength |->
     Smsg({}, Minimum(21) \o PackedGuid(w) \o Ints(Repeat(5, 4)),
          WRITE_PACKED_GUID(w) + 5 * 4, 20 + wwm_packed_guid_size(w))],
   CMSG_MOVE_KNOCK_BACK_ACK |-> [w \in Wires(Lengths, {0}, {}, wrath_MovementInfoFlags) |->
     Cmsg({}, Minimum(42) \o Ints(<<8, 4>>) \o wrath_MovementInfo(w).read,
          8 + 4 + wrath_MovementInfo(w).written, 12 + wrath_MovementInfo(w).size)]]

wrath_FromMsgMoveKnockBack ==
  [MSG_MOVE_KNOCK_BACK_Server |-> [w \in Wires(Lengths, {0}, {}, wrath_MovementInfoFlags) |->
     Smsg({}, Minimum(47) \o PackedGuid(w) \o wrath_MovementInfo(w).read \o Ints(<<4, 4, 4, 4>>),
          WRITE_PACKED_GUID(w) + wrath_MovementInfo(w).written + 4 * 4,
          16 + wwm_packed_guid_size(w) + wrath_MovementInfo(w).size)],
   SMSG_MOVE_FEATHER_FALL |-> [w \in OfLength |->
     Smsg({}, Minimum(5) \o PackedGuid(w) \o Ints(<<4>>),
          WRITE_PACKED_GUID(w) + 4, 4 + wwm_packed_guid_size(w))],
   SMSG_MOVE_NORMAL_FALL |-> [w \in OfLength |->
     Smsg({}, Minimum(5) \o PackedGuid(w) \o Ints(<<4>>),
          WRITE_PACKED_GUID(w) + 4, 4 + wwm_packed_guid_size(w))]]

wrath_FromSmsgMoveSetHover ==
  [SMSG_MOVE_SET_HOVER |-> [w \in OfLength |->
     Smsg({}, Minimum(5) \o PackedGuid(w) \o Ints(<<4>>),
          WRITE_PACKED_GUID(w) + 4, 4 + wwm_packed_guid_size(w))],
   SMSG_MOVE_UNSET_HOVER |-> [w \in OfLength |->
     Smsg({}, Minimum(5) \o PackedGuid(w) \o Ints(<<4>>),
          WRITE_PACKED_GUID(w) + 4, 4 + wwm_packed_guid_size(w))],
   CMSG_MOVE_HOVER_ACK |-> [w \in Wires(Lengths, {0}, {}, wrath_MovementInfoFlags) |->
     Cmsg({}, Minimum(46) \o Ints(<<8, 4>>) \o wrath_MovementInfo(w).read \o Ints(<<4>>),
          8 + 4 + wrath_MovementInfo(w).written + 4, 16 + wrath_MovementInfo(w).size)]]

wrath_FromMsgMoveHover ==
  [MSG_MOVE_HOVER_cmsg |-> [w \in Wires(Lengths, {0}, {}, wrath_MovementInfoFlags) |->
     Client(wrath_MSG_MOVE_HOVER(w))],
   MSG_MOVE_HOVER_smsg |-> [w \in Wires(Lengths, {0}, {}, wrath_MovementInfoFlags) |->
     Server(wrath_MSG_MOVE_HOVER(w))],
   SMSG_TRIGGER_CINEMATIC |-> PlainSmsg(4, <<4>>, 4, 4),
   CMSG_NEXT_CINEMATIC_CAMERA |-> EmptyCmsg(0),
   CMSG_COMPLETE_CINEMATIC |-> EmptyCmsg(0),
   SMSG_TUTORIAL_FLAGS |-> PlainSmsg(32, Repeat(8, 4), 8 * 4, 32)]

wrath_FromCmsgTutorialFlag ==
  [CMSG_TUTORIAL_FLAG |-> PlainCmsg(4, <<4>>, 4, 4),
   CMSG_TUTORIAL_CLEAR |-> EmptyCmsg(0),
   CMSG_TUTORIAL_RESET |-> EmptyCmsg(0),
   CMSG_STANDSTATECHANGE |-> PlainCmsg(4, <<4>>, 4, 4),
   CMSG_EMOTE |-> PlainCmsg(4, <<4>>, 4, 4)]

wrath_FromSmsgEmote ==
  [SMSG_EMOTE |-> PlainSmsg(12, <<4, 8>>, 4 + 8, 12),
   CMSG_TEXT_EMOTE |-> PlainCmsg(16, <<4, 4, 8>>, 2 * 4 + 8, 16),
   SMSG_TEXT_EMOTE |-> [w \in OfLength |->
     Smsg(Free({"name"}),
          Minimum(21) \o Null({"name"}) \o Ints(<<8, 4, 4>>) \o SizedCstring("name", w),
          8 + 2 * 4 + WRITE_SIZED_CSTRING(w), 21 + w.len)]]

wrath_FromCmsgAutostoreLootItem ==
  [CMSG_AUTOSTORE_LOOT_ITEM |-> PlainCmsg(1, <<1>>, 1, 1),
   CMSG_AUTOEQUIP_ITEM |-> PlainCmsg(2, <<1, 1>>, 2 * 1, 2),
   CMSG_AUTOSTORE_BAG_ITEM |-> PlainCmsg(3, <<1, 1, 1>>, 3 * 1, 3)]

wrath_FromCmsgSwapItem ==
  [CMSG_SWAP_ITEM |-> PlainCmsg(4, <<1, 1, 1, 1>>, 4 * 1, 4),
   CMSG_SWAP_INV_ITEM |-> PlainCmsg(2, <<1, 1>>, 2 * 1, 2),
   CMSG_SPLIT_ITEM |-> PlainCmsg(8, <<1, 1, 1, 1, 4>>, 4 * 1 + 4, 8)]

wrath_FromCmsgAutoequipItemSlot ==
  [CMSG_AUTOEQUIP_ITEM_SLOT |-> PlainCmsg(9, <<8, 1>>, 8 + 1, 9),
   CMSG_DESTROYITEM |-> PlainCmsg(6, Repeat(6, 1), 6 * 1, 6)]

wrath_FromSmsgInventoryChangeFailure ==
  [SMSG_INVENTORY_CHANGE_FAILURE |->
     [w \in Wires({0}, {0},
                  {{"INVENTORY_RESULT_CANT_EQUIP_LEVEL_I", "INVENTORY_RESULT_CANT_EQUIP_SKILL",
                    "INVENTORY_RESULT_OK"}}, {}) |->
       Smsg(
         {},
         Minimum(1) \o Ints(<<1>>)
         \o When(
              IsIn(w, {"INVENTORY_RESULT_CANT_EQUIP_LEVEL_I", "INVENTORY_RESULT_CANT_EQUIP_SKILL"}),
              Ints(<<8, 8, 1>>)) \o When(Is(w, "INVENTORY_RESULT_CANT_EQUIP_LEVEL_I"), Ints(<<4>>)),
         1
         + Bytes(
             IsIn(w, {"INVENTORY_RESULT_CANT_EQUIP_LEVEL_I", "INVENTORY_RESULT_CANT_EQUIP_SKILL"}),
             2 * 8 + 1) + Bytes(Is(w, "INVENTORY_RESULT_CANT_EQUIP_LEVEL_I"), 4),
         1
         + Bytes(
             IsIn(w, {"INVENTORY_RESULT_CANT_EQUIP_LEVEL_I", "INVENTORY_RESULT_CANT_EQUIP_SKILL"}),
             17) + Bytes(Is(w, "INVENTORY_RESULT_CANT_EQUIP_LEVEL_I"), 4))],
   CMSG_INSPECT |-> PlainCmsg(8, <<8>>, 8, 8),
   CMSG_INITIATE_TRADE |-> PlainCmsg(8, <<8>>, 8, 8)]

wrath_FromCmsgBeginTrade ==
  [CMSG_BEGIN_TRADE |-> EmptyCmsg(0),
   CMSG_BUSY_TRADE |-> EmptyCmsg(0),
   CMSG_IGNORE_TRADE |-> EmptyCmsg(0),
   CMSG_ACCEPT_TRADE |-> PlainCmsg(4, <<4>>, 4, 4),
   CMSG_UNACCEPT_TRADE |-> EmptyCmsg(0),
   CMSG_CANCEL_TRADE |-> EmptyCmsg(0)]

wrath_FromCmsgSetTradeItem ==
  [CMSG_SET_TRADE_ITEM |-> PlainCmsg(3, <<1, 1, 1>>, 3 * 1, 3),
   CMSG_CLEAR_TRADE_ITEM |-> PlainCmsg(1, <<1>>, 1, 1),
   CMSG_SET_TRADE_GOLD |-> PlainCmsg(4, <<4>>, 4, 4)]

wrath_FromSmsgTradeStatus ==
  [SMSG_TRADE_STATUS |->
     [w \in Wires({0}, {0},
                  {{"TRADE_STATUS_BEGIN_TRADE", "TRADE_STATUS_CLOSE_WINDOW",
                    "TRADE_STATUS_ONLY_CONJURED", "TRADE_STATUS_BUSY"}}, {}) |->
       Smsg(
         {},
         Minimum(4) \o Ints(<<4>>) \o When(Is(w, "TRADE_STATUS_BEGIN_TRADE"), Ints(<<8>>))
         \o When(Is(w, "TRADE_STATUS_CLOSE_WINDOW"), Ints(<<4, 1, 4>>))
         \o When(Is(w, "TRADE_STATUS_ONLY_CONJURED"), Ints(<<1>>)),
         4 + Bytes(Is(w, "TRADE_STATUS_BEGIN_TRADE"), 8)
         + Bytes(Is(w, "TRADE_STATUS_CLOSE_WINDOW"), 4 + 1 + 4)
         + Bytes(Is(w, "TRADE_STATUS_ONLY_CONJURED"), 1),
         4 + Bytes(Is(w, "TRADE_STATUS_BEGIN_TRADE"), 8)
         + Bytes(Is(w, "TRADE_STATUS_CLOSE_WINDOW"), 9)
         + Bytes(Is(w, "TRADE_STATUS_ONLY_CONJURED"), 1))],
   SMSG_TRADE_STATUS_EXTENDED |-> [w \in {Fixed} |->
     Smsg(
       {},
       Minimum(532) \o Ints(<<1>> \o Repeat(5, 4)) \o Each("trade_slots", 7, wrath_TradeSlot.read),
       1 + 5 * 4 + 7 * wrath_TradeSlot.written, 532)]]

wrath_FromSmsgInitializeFactions ==
  [SMSG_INITIALIZE_FACTIONS |-> [w \in OfCount |->
     Smsg(
       Free({"factions"}),
       Minimum(4) \o Null({"factions"}) \o Ints(<<4>>)
       \o Array("factions", w.count, {}, wrath_FactionInitializer.read),
       4 + w.count * wrath_FactionInitializer.written, 4 + 5 * w.count)],
   SMSG_SET_FACTION_VISIBLE |-> PlainSmsg(2, <<2>>, 2, 2)]

wrath_FromSmsgSetFactionStanding ==
  [SMSG_SET_FACTION_STANDING |-> [w \in OfCount |->
     Smsg(
       Free({"faction_standings"}),
       Minimum(9) \o Null({"faction_standings"}) \o Ints(<<4, 1, 4>>)
       \o Array("faction_standings", w.count, {}, wrath_FactionStanding.read),
       4 + 1 + 4 + w.count * wrath_FactionStanding.written, 9 + 6 * w.count)],
   CMSG_SET_FACTION_ATWAR |-> PlainCmsg(3, <<2, 1>>, 2 + 1, 3),
   SMSG_SET_PROFICIENCY |-> PlainSmsg(5, <<1, 4>>, 1 + 4, 5)]

wrath_FromCmsgSetActionButton ==
  [CMSG_SET_ACTION_BUTTON |-> PlainCmsg(5, <<1, 2, 1, 1>>, 1 + 2 + 2 * 1, 5),
   SMSG_ACTION_BUTTONS |->
     [w \in Wires({0}, {0}, {{"ACTION_BAR_BEHAVIOR_INITIAL", "ACTION_BAR_BEHAVIOR_CLEAR"}}, {}) |->
       Smsg(
         {},
         Minimum(1) \o Ints(<<1>>)
         \o When(Is(w, "ACTION_BAR_BEHAVIOR_INITIAL"), Each("data", 144, wrath_ActionButton.read)),
         1 + Bytes(Is(w, "ACTION_BAR_BEHAVIOR_INITIAL"), 144 * wrath_ActionButton.written),
         1 + Bytes(Is(w, "ACTION_BAR_BEHAVIOR_INITIAL"), 576))]]

wrath_FromSmsgInitialSpells ==
  [SMSG_INITIAL_SPELLS |-> [w \in OfCount |->
     Smsg(
       Free({"initial_spells", "cooldowns"}),
       Minimum(5) \o Null({"initial_spells", "cooldowns"}) \o Ints(<<1, 2>>)
       \o Array("initial_spells", w.count, {}, wrath_InitialSpell.read) \o Ints(<<2>>)
       \o Array("cooldowns", w.count, {}, wrath_CooldownSpell.read),
       1 + 2 + w.count * wrath_InitialSpell.written + 2 + w.count * wrath_CooldownSpell.written,
       5 + 6 * w.count + 14 * w.count)],
   SMSG_LEARNED_SPELL |-> PlainSmsg(6, <<4, 2>>, 4 + 2, 6)]

wrath_FromSmsgSupercededSpell ==
  [SMSG_SUPERCEDED_SPELL |-> PlainSmsg(8, <<4, 4>>, 2 * 4, 8),
   CMSG_CAST_SPELL |->
     [w \in Wires(Lengths, {0},
                  {{"CLIENT_CAST_FLAGS_EXTRA", "CLIENT_CAST_FLAGS_NONE"},
                   {"CLIENT_MOVEMENT_DATA_PRESENT", "CLIENT_MOVEMENT_DATA_NOT_PRESENT"}},
                  wrath_MovementInfoFlags \union wrath_SpellCastTargetsFlags) |->
       Cmsg(
         FreeAt(<<"targets">>, wrath_SpellCastTargets(w).free),
         Minimum(10) \o Ints(<<1, 4, 1>>) \o At(<<"targets">>, wrath_SpellCastTargets(w).read)
         \o When(Is(w, "CLIENT_CAST_FLAGS_EXTRA"),
                 Ints(<<4, 4, 1>>)
                 \o When(Is(w, "CLIENT_MOVEMENT_DATA_PRESENT"),
                         Ints(<<4>>) \o PackedGuid(w) \o wrath_MovementInfo(w).read)),
         1 + 4 + 1 + wrath_SpellCastTargets(w).written
         + Bytes(
             Is(w, "CLIENT_CAST_FLAGS_EXTRA"),
             2 * 4 + 1
             + Bytes(Is(w, "CLIENT_MOVEMENT_DATA_PRESENT"),
                     4 + WRITE_PACKED_GUID(w) + wrath_MovementInfo(w).written)),
         6 + wrath_SpellCastTargets(w).size
         + Bytes(
             Is(w, "CLIENT_CAST_FLAGS_EXTRA"),
             9
             + Bytes(Is(w, "CLIENT_MOVEMENT_DATA_PRESENT"),
                     4 + wwm_packed_guid_size(w) + wrath_MovementInfo(w).size)))]]

wrath_FromCmsgCancelCast ==
  [CMSG_CANCEL_CAST |-> PlainCmsg(4, <<4>>, 4, 4)]

wrath_FromSmsgCastFailed ==
  [SMSG_CAST_FAILED |->
     [w \in Wires(
              {0}, {0},
              {{"SPELL_CAST_RESULT_REQUIRES_SPELL_FOCUS", "SPELL_CAST_RESULT_REQUIRES_AREA",
                "SPELL_CAST_RESULT_TOTEMS", "SPELL_CAST_RESULT_TOTEM_CATEGORY",
                "SPELL_CAST_RESULT_EQUIPPED_ITEM_CLASS", "SPELL_CAST_RESULT_TOO_MANY_OF_ITEM",
                "SPELL_CAST_RESULT_CUSTOM_ERROR", "SPELL_CAST_RESULT_REAGENTS",
                "SPELL_CAST_RESULT_PREVENTED_BY_MECHANIC", "SPELL_CAST_RESULT_NEED_EXOTIC_AMMO",
                "SPELL_CAST_RESULT_NEED_MORE_ITEMS", "SPELL_CAST_RESULT_MIN_SKILL",
                "SPELL_CAST_RESULT_FISHING_TOO_LOW", "SPELL_CAST_RESULT_SUCCESS"}}, {}) |->
       Smsg(
         {},
         Minimum(7) \o Ints(<<1, 4, 1, 1>>)
         \o When(Is(w, "SPELL_CAST_RESULT_REQUIRES_SPELL_FOCUS"), Ints(<<4>>))
         \o When(Is(w, "SPELL_CAST_RESULT_REQUIRES_AREA"), Ints(<<4>>))
         \o When(Is(w, "SPELL_CAST_RESULT_TOTEMS"), Ints(<<4, 4>>))
         \o When(Is(w, "SPELL_CAST_RESULT_TOTEM_CATEGORY"), Ints(<<4, 4>>))
         \o When(Is(w, "SPELL_CAST_RESULT_EQUIPPED_ITEM_CLASS"), Ints(<<4, 4>>))
         \o When(Is(w, "SPELL_CAST_RESULT_TOO_MANY_OF_ITEM"), Ints(<<4>>))
         \o When(Is(w, "SPELL_CAST_RESULT_CUSTOM_ERROR"), Ints(<<4>>))
         \o When(Is(w, "SPELL_CAST_RESULT_REAGENTS"), Ints(<<4>>))
         \o When(Is(w, "SPELL_CAST_RESULT_PREVENTED_BY_MECHANIC"), Ints(<<4>>))
         \o When(Is(w, "SPELL_CAST_RESULT_NEED_EXOTIC_AMMO"), Ints(<<4>>))
         \o When(Is(w, "SPELL_CAST_RESULT_NEED_MORE_ITEMS"), Ints(<<4, 4>>))
         \o When(Is(w, "SPELL_CAST_RESULT_MIN_SKILL"), Ints(<<4, 4>>))
         \o When(Is(w, "SPELL_CAST_RESULT_FISHING_TOO_LOW"), Ints(<<4>>)),
         1 + 4 + 2 * 1 + Bytes(Is(w, "SPELL_CAST_RESULT_REQUIRES_SPELL_FOCUS"), 4)
         + Bytes(Is(w, "SPELL_CAST_RESULT_REQUIRES_AREA"), 4)
         + Bytes(Is(w, "SPELL_CAST_RESULT_TOTEMS"), 2 * 4)
         + Bytes(Is(w, "SPELL_CAST_RESULT_TOTEM_CATEGORY"), 2 * 4)
         + Bytes(Is(w, "SPELL_CAST_RESULT_EQUIPPED_ITEM_CLASS"), 2 * 4)
         + Bytes(Is(w, "SPELL_CAST_RESULT_TOO_MANY_OF_ITEM"), 4)
         + Bytes(Is(w, "SPELL_CAST_RESULT_CUSTOM_ERROR"), 4)
         + Bytes(Is(w, "SPELL_CAST_RESULT_REAGENTS"), 4)
         + Bytes(Is(w, "SPELL_CAST_RESULT_PREVENTED_BY_MECHANIC"), 4)
         + Bytes(Is(w, "SPELL_CAST_RESULT_NEED_EXOTIC_AMMO"), 4)
         + Bytes(Is(w, "SPELL_CAST_RESULT_NEED_MORE_ITEMS"), 2 * 4)
         + Bytes(Is(w, "SPELL_CAST_RESULT_MIN_SKILL"), 2 * 4)
         + Bytes(Is(w, "SPELL_CAST_RESULT_FISHING_TOO_LOW"), 4),
         7 + Bytes(Is(w, "SPELL_CAST_RESULT_REQUIRES_SPELL_FOCUS"), 4)
         + Bytes(Is(w, "SPELL_CAST_RESULT_REQUIRES_AREA"), 4)
         + Bytes(Is(w, "SPELL_CAST_RESULT_TOTEMS"), 8)
         + Bytes(Is(w, "SPELL_CAST_RESULT_TOTEM_CATEGORY"), 8)
         + Bytes(Is(w, "SPELL_CAST_RESULT_EQUIPPED_ITEM_CLASS"), 8)
         + Bytes(Is(w, "SPELL_CAST_RESULT_TOO_MANY_OF_ITEM"), 4)
         + Bytes(Is(w, "SPELL_CAST_RESULT_CUSTOM_ERROR"), 4)
         + Bytes(Is(w, "SPELL_CAST_RESULT_REAGENTS"), 4)
         + Bytes(Is(w, "SPELL_CAST_RESULT_PREVENTED_BY_MECHANIC"), 4)
         + Bytes(Is(w, "SPELL_CAST_RESULT_NEED_EXOTIC_AMMO"), 4)
         + Bytes(Is(w, "SPELL_CAST_RESULT_NEED_MORE_ITEMS"), 8)
         + Bytes(Is(w, "SPELL_CAST_RESULT_MIN_SKILL"), 8)
         + Bytes(Is(w, "SPELL_CAST_RESULT_FISHING_TOO_LOW"), 4))]]

wrath_FromSmsgSpellStart ==
  [SMSG_SPELL_START |->
     [w \in Wires(
              Lengths, {0}, {},
              wrath_SpellCastTargetsFlags
              \union {"CAST_FLAGS_POWER_LEFT_SELF", "CAST_FLAGS_AMMO", "CAST_FLAGS_UNKNOWN_23"}) |->
       Smsg(
         FreeAt(<<"targets">>, wrath_SpellCastTargets(w).free),
         Minimum(19) \o PackedGuid(w) \o PackedGuid(w) \o Ints(<<1, 4, 4, 4>>)
         \o At(<<"targets">>, wrath_SpellCastTargets(w).read)
         \o When(Is(w, "CAST_FLAGS_POWER_LEFT_SELF"), Ints(<<4>>))
         \o When(Is(w, "CAST_FLAGS_AMMO"), Ints(<<4, 4>>))
         \o When(Is(w, "CAST_FLAGS_UNKNOWN_23"), Ints(<<4, 4>>)),
         2 * WRITE_PACKED_GUID(w) + 1 + 3 * 4 + wrath_SpellCastTargets(w).written
         + Bytes(Is(w, "CAST_FLAGS_POWER_LEFT_SELF"), 4) + Bytes(Is(w, "CAST_FLAGS_AMMO"), 2 * 4)
         + Bytes(Is(w, "CAST_FLAGS_UNKNOWN_23"), 2 * 4),
         13 + 2 * wwm_packed_guid_size(w) + wrath_SpellCastTargets(w).size
         + Bytes(Is(w, "CAST_FLAGS_POWER_LEFT_SELF"), 4) + Bytes(Is(w, "CAST_FLAGS_AMMO"), 8)
         + Bytes(Is(w, "CAST_FLAGS_UNKNOWN_23"), 8))]]

wrath_FromSmsgSpellGo ==
  [SMSG_SPELL_GO |->
     [w \in Wires(
              Lengths, Counts, {{"SPELL_MISS_INFO_REFLECT", "SPELL_MISS_INFO_NONE"}},
              wrath_SpellCastTargetsFlags
              \union {"GAMEOBJECT_CAST_FLAGS_POWER_UPDATE", "GAMEOBJECT_CAST_FLAGS_RUNE_UPDATE",
                      "GAMEOBJECT_CAST_FLAGS_ADJUST_MISSILE", "GAMEOBJECT_CAST_FLAGS_AMMO",
                      "GAMEOBJECT_CAST_FLAGS_VISUAL_CHAIN",
                      "GAMEOBJECT_CAST_FLAGS_DEST_LOCATION"}) |->
       Smsg(
         Free({"hits", "misses"}) \union FreeAt(<<"targets">>, wrath_SpellCastTargets(w).free),
         Minimum(21) \o Null({"hits", "misses"}) \o PackedGuid(w) \o PackedGuid(w)
         \o Ints(<<1, 4, 4, 4, 1>>) \o Calloc("hits", w.count, {})
         \o Ints(Repeat(w.count, 8) \o <<1>>)
         \o Array("misses", w.count, {}, wrath_SpellMiss(w).read)
         \o At(<<"targets">>, wrath_SpellCastTargets(w).read)
         \o When(Is(w, "GAMEOBJECT_CAST_FLAGS_POWER_UPDATE"), Ints(<<4>>))
         \o When(Is(w, "GAMEOBJECT_CAST_FLAGS_RUNE_UPDATE"), Ints(Repeat(8, 1)))
         \o When(Is(w, "GAMEOBJECT_CAST_FLAGS_ADJUST_MISSILE"), Ints(<<4, 4>>))
         \o When(Is(w, "GAMEOBJECT_CAST_FLAGS_AMMO"), Ints(<<4, 4>>))
         \o When(Is(w, "GAMEOBJECT_CAST_FLAGS_VISUAL_CHAIN"), Ints(<<4, 4>>))
         \o When(Is(w, "GAMEOBJECT_CAST_FLAGS_DEST_LOCATION"), Ints(<<1>>)),
         2 * WRITE_PACKED_GUID(w) + 1 + 3 * 4 + 1 + w.count * 8 + 1
         + w.count * wrath_SpellMiss(w).written + wrath_SpellCastTargets(w).written
         + Bytes(Is(w, "GAMEOBJECT_CAST_FLAGS_POWER_UPDATE"), 4)
         + Bytes(Is(w, "GAMEOBJECT_CAST_FLAGS_RUNE_UPDATE"), 2 * 1 + 6)
         + Bytes(Is(w, "GAMEOBJECT_CAST_FLAGS_ADJUST_MISSILE"), 2 * 4)
         + Bytes(Is(w, "GAMEOBJECT_CAST_FLAGS_AMMO"), 2 * 4)
         + Bytes(Is(w, "GAMEOBJECT_CAST_FLAGS_VISUAL_CHAIN"), 2 * 4)
         + Bytes(Is(w, "GAMEOBJECT_CAST_FLAGS_DEST_LOCATION"), 1),
         15 + 2 * wwm_packed_guid_size(w) + 8 * w.count + wrath_SpellCastTargets(w).size
         + w.count * wrath_SpellMiss(w).size + Bytes(Is(w, "GAMEOBJECT_CAST_FLAGS_POWER_UPDATE"), 4)
         + Bytes(Is(w, "GAMEOBJECT_CAST_FLAGS_RUNE_UPDATE"), 8)
         + Bytes(Is(w, "GAMEOBJECT_CAST_FLAGS_ADJUST_MISSILE"), 8)
         + Bytes(Is(w, "GAMEOBJECT_CAST_FLAGS_AMMO"), 8)
         + Bytes(Is(w, "GAMEOBJECT_CAST_FLAGS_VISUAL_CHAIN"), 8)
         + Bytes(Is(w, "GAMEOBJECT_CAST_FLAGS_DEST_LOCATION"), 1))]]

wrath_FromSmsgSpellFailure ==
  [SMSG_SPELL_FAILURE |-> PlainSmsg(14, <<8, 1, 4, 1>>, 8 + 1 + 4 + 1, 14),
   SMSG_SPELL_COOLDOWN |-> [w \in OfCount |->
     Smsg(
       Free({"cooldowns"}),
       Counted(9, Minimum(9) \o Null({"cooldowns"}) \o Ints(<<8, 1>>))
       \o Endless("cooldowns", w.count, {}, wrath_SpellCooldownStatus.read, 8),
       8 + 1 + w.count * wrath_SpellCooldownStatus.written, 9 + 8 * w.count)]]

wrath_FromSmsgCooldownEvent ==
  [SMSG_COOLDOWN_EVENT |-> PlainSmsg(12, <<4, 8>>, 4 + 8, 12),
   CMSG_CANCEL_AURA |-> PlainCmsg(4, <<4>>, 4, 4)]

wrath_FromSmsgPetCastFailed ==
  [SMSG_PET_CAST_FAILED |-> wrath_FromSmsgCastFailed.SMSG_CAST_FAILED]

wrath_FromMsgChannelStart ==
  [MSG_CHANNEL_START_Server |-> [w \in OfLength |->
     Smsg({}, Minimum(9) \o PackedGuid(w) \o Ints(<<4, 4>>),
          WRITE_PACKED_GUID(w) + 2 * 4, 8 + wwm_packed_guid_size(w))],
   MSG_CHANNEL_UPDATE_Server |-> [w \in OfLength |->
     Smsg({}, Minimum(5) \o PackedGuid(w) \o Ints(<<4>>),
          WRITE_PACKED_GUID(w) + 4, 4 + wwm_packed_guid_size(w))],
   CMSG_CANCEL_CHANNELLING |-> PlainCmsg(4, <<4>>, 4, 4)]

wrath_FromSmsgAiReaction ==
  [SMSG_AI_REACTION |-> PlainSmsg(12, <<8, 4>>, 8 + 4, 12),
   CMSG_SET_SELECTION |-> PlainCmsg(8, <<8>>, 8, 8),
   CMSG_DELETEEQUIPMENT_SET |-> [w \in OfLength |->
     Cmsg({}, Minimum(1) \o PackedGuid(w), WRITE_PACKED_GUID(w), wwm_packed_guid_size(w))],
   CMSG_INSTANCE_LOCK_RESPONSE |-> PlainCmsg(1, <<1>>, 1, 1)]

wrath_FromCmsgAttackswing ==
  [CMSG_ATTACKSWING |-> PlainCmsg(8, <<8>>, 8, 8),
   CMSG_ATTACKSTOP |-> EmptyCmsg(0),
   SMSG_ATTACKSTART |-> PlainSmsg(16, <<8, 8>>, 2 * 8, 16),
   SMSG_ATTACKSTOP |-> [w \in OfLength |->
     Smsg({}, Minimum(6) \o PackedGuid(w) \o PackedGuid(w) \o Ints(<<4>>),
          2 * WRITE_PACKED_GUID(w) + 4, 4 + 2 * wwm_packed_guid_size(w))],
   SMSG_ATTACKSWING_NOTINRANGE |-> EmptySmsg(0)]

wrath_FromSmsgAttackswingBadfacing ==
  [SMSG_ATTACKSWING_BADFACING |-> EmptySmsg(0),
   SMSG_INSTANCE_LOCK_WARNING_QUERY |-> PlainSmsg(9, <<4, 4, 1>>, 2 * 4 + 1, 9),
   SMSG_ATTACKSWING_DEADTARGET |-> EmptySmsg(0),
   SMSG_ATTACKSWING_CANT_ATTACK |-> EmptySmsg(0)]

wrath_FromSmsgAttackerstateupdate ==
  [SMSG_ATTACKERSTATEUPDATE |->
     [w \in Wires(Lengths, Counts, {},
                  {"HIT_INFO_ALL_ABSORB", "HIT_INFO_ALL_RESIST", "HIT_INFO_BLOCK", "HIT_INFO_UNK19",
                   "HIT_INFO_UNK1"}) |->
       Smsg(
         Free({"damage_infos"}),
         Minimum(24) \o Null({"damage_infos"}) \o Ints(<<4>>) \o PackedGuid(w) \o PackedGuid(w)
         \o Ints(<<4, 4, 1>>) \o Array("damage_infos", w.count, {}, wrath_DamageInfo.read)
         \o When(Is(w, "HIT_INFO_ALL_ABSORB"), Ints(<<4>>))
         \o When(Is(w, "HIT_INFO_ALL_RESIST"), Ints(<<4>>)) \o Ints(<<1, 4, 4>>)
         \o When(Is(w, "HIT_INFO_BLOCK"), Ints(<<4>>)) \o When(Is(w, "HIT_INFO_UNK19"), Ints(<<4>>))
         \o When(Is(w, "HIT_INFO_UNK1"), Ints(Repeat(12, 4))),
         4 + 2 * WRITE_PACKED_GUID(w) + 2 * 4 + 1 + w.count * wrath_DamageInfo.written
         + Bytes(Is(w, "HIT_INFO_ALL_ABSORB"), 4) + Bytes(Is(w, "HIT_INFO_ALL_RESIST"), 4) + 1
         + 2 * 4 + Bytes(Is(w, "HIT_INFO_BLOCK"), 4) + Bytes(Is(w, "HIT_INFO_UNK19"), 4)
         + Bytes(Is(w, "HIT_INFO_UNK1"), 12 * 4),
         22 + 2 * wwm_packed_guid_size(w) + 12 * w.count + Bytes(Is(w, "HIT_INFO_ALL_ABSORB"), 4)
         + Bytes(Is(w, "HIT_INFO_ALL_RESIST"), 4) + Bytes(Is(w, "HIT_INFO_BLOCK"), 4)
         + Bytes(Is(w, "HIT_INFO_UNK19"), 4) + Bytes(Is(w, "HIT_INFO_UNK1"), 48))]]

wrath_FromSmsgCancelCombat ==
  [SMSG_CANCEL_COMBAT |-> EmptySmsg(0),
   SMSG_SPELLHEALLOG |-> [w \in OfLength |->
     Smsg({}, Minimum(20) \o PackedGuid(w) \o PackedGuid(w) \o Ints(<<4, 4, 4, 4, 1, 1>>),
          2 * WRITE_PACKED_GUID(w) + 4 * 4 + 2 * 1, 18 + 2 * wwm_packed_guid_size(w))],
   SMSG_SPELLENERGIZELOG |-> [w \in OfLength |->
     Smsg({}, Minimum(14) \o PackedGuid(w) \o PackedGuid(w) \o Ints(<<4, 4, 4>>),
          2 * WRITE_PACKED_GUID(w) + 3 * 4, 12 + 2 * wwm_packed_guid_size(w))]]

wrath_FromSmsgBreakTarget ==
  [SMSG_BREAK_TARGET |-> [w \in OfLength |->
     Smsg({}, Minimum(1) \o PackedGuid(w), WRITE_PACKED_GUID(w), wwm_packed_guid_size(w))],
   SMSG_BINDPOINTUPDATE |-> [w \in {Fixed} |->
     Smsg({}, Minimum(20) \o Vector3d.read \o Ints(<<4, 4>>), Vector3d.written + 2 * 4, 20)],
   SMSG_PLAYERBOUND |-> PlainSmsg(12, <<8, 4>>, 8 + 4, 12)]

wrath_FromSmsgClientControlUpdate ==
  [SMSG_CLIENT_CONTROL_UPDATE |-> [w \in OfLength |->
     Smsg({}, Minimum(2) \o PackedGuid(w) \o Ints(<<1>>),
          WRITE_PACKED_GUID(w) + 1, 1 + wwm_packed_guid_size(w))],
   CMSG_REPOP_REQUEST |-> EmptyCmsg(0),
   SMSG_RESURRECT_REQUEST |-> [w \in OfLength |->
     Smsg(Free({"name"}),
          Minimum(14) \o Null({"name"}) \o Ints(<<8>>) \o SizedCstring("name", w) \o Ints(<<1>>),
          8 + WRITE_SIZED_CSTRING(w) + 1, 14 + w.len)],
   CMSG_RESURRECT_RESPONSE |-> PlainCmsg(9, <<8, 1>>, 8 + 1, 9)]

wrath_FromCmsgLoot ==
  [CMSG_LOOT |-> PlainCmsg(8, <<8>>, 8, 8),
   CMSG_LOOT_MONEY |-> EmptyCmsg(0),
   CMSG_LOOT_RELEASE |-> PlainCmsg(8, <<8>>, 8, 8)]

wrath_FromSmsgLootResponse ==
  [SMSG_LOOT_RESPONSE |->
     [w \in Wires({0}, Counts, {{"LOOT_METHOD_ERROR", "LOOT_METHOD_CORPSE"}}, {}) |->
       Smsg(
         Free({"items"}),
         Minimum(14) \o Null({"items"}) \o Ints(<<8, 1>>)
         \o When(Is(w, "LOOT_METHOD_ERROR"), Ints(<<1>>)) \o Ints(<<4, 1>>)
         \o Array("items", w.count, {}, wrath_LootItem.read),
         8 + 1 + Bytes(Is(w, "LOOT_METHOD_ERROR"), 1) + 4 + 1 + w.count * wrath_LootItem.written,
         14 + 6 * w.count + Bytes(Is(w, "LOOT_METHOD_ERROR"), 1))],
   SMSG_LOOT_RELEASE_RESPONSE |-> PlainSmsg(9, <<8, 1>>, 8 + 1, 9)]

wrath_FromSmsgLootRemoved ==
  [SMSG_LOOT_REMOVED |-> PlainSmsg(1, <<1>>, 1, 1),
   SMSG_LOOT_MONEY_NOTIFY |-> PlainSmsg(5, <<4, 1>>, 4 + 1, 5),
   SMSG_LOOT_CLEAR_MONEY |-> EmptySmsg(0)]

wrath_FromSmsgItemPushResult ==
  [SMSG_ITEM_PUSH_RESULT |->
     PlainSmsg(45, <<8, 4, 4, 4, 1>> \o Repeat(6, 4), 8 + 3 * 4 + 1 + 6 * 4, 45),
   SMSG_DUEL_REQUESTED |-> PlainSmsg(16, <<8, 8>>, 2 * 8, 16),
   SMSG_DUEL_OUTOFBOUNDS |-> EmptySmsg(0),
   SMSG_DUEL_INBOUNDS |-> EmptySmsg(0)]

wrath_FromSmsgDuelComplete ==
  [SMSG_DUEL_COMPLETE |-> PlainSmsg(1, <<1>>, 1, 1),
   SMSG_DUEL_WINNER |-> [w \in OfLength |->
     Smsg(
       Free({"opponent_name", "initiator_name"}),
       Minimum(3) \o Null({"opponent_name", "initiator_name"}) \o Ints(<<1>>)
       \o Cstring("opponent_name", w) \o Cstring("initiator_name", w),
       1 + 2 * WRITE_CSTRING(w), 3 + 2 * w.len)],
   CMSG_DUEL_ACCEPTED |-> PlainCmsg(8, <<8>>, 8, 8)]

wrath_FromCmsgDuelCancelled ==
  [CMSG_DUEL_CANCELLED |-> PlainCmsg(8, <<8>>, 8, 8),
   SMSG_MOUNTRESULT |-> PlainSmsg(4, <<4>>, 4, 4),
   CMSG_MOUNTSPECIAL_ANIM |-> EmptyCmsg(0),
   SMSG_MOUNTSPECIAL_ANIM |-> PlainSmsg(8, <<8>>, 8, 8),
   SMSG_PET_TAME_FAILURE |-> PlainSmsg(1, <<1>>, 1, 1)]

wrath_FromCmsgPetSetAction ==
  [CMSG_PET_SET_ACTION |-> [w \in Wires({0}, {0}, {}, {"extra"}) |->
     Cmsg(
       Free({"extra"}),
       Counted(16, Minimum(16) \o Null({"extra"}) \o Ints(<<8, 4, 4>>))
       \o Optional("extra", {}, Ints(<<4, 4>>)),
       8 + 2 * 4 + Bytes(Is(w, "extra"), 2 * 4), 16 + Bytes(Is(w, "extra"), 8))],
   CMSG_PET_ACTION |-> PlainCmsg(20, <<8, 4, 8>>, 8 + 4 + 8, 20)]

wrath_FromCmsgPetAbandon ==
  [CMSG_PET_ABANDON |-> PlainCmsg(8, <<8>>, 8, 8),
   CMSG_PET_RENAME |-> [w \in OfLength |->
     Cmsg(Free({"name"}),
          Minimum(10) \o Null({"name"}) \o Ints(<<8>>) \o Cstring("name", w) \o Ints(<<1>>),
          8 + WRITE_CSTRING(w) + 1, 10 + w.len)]]

wrath_FromSmsgPetNameInvalid ==
  [SMSG_PET_NAME_INVALID |->
     [w \in Wires(Lengths, {0},
                  {{"DECLINED_PET_NAME_INCLUDED_INCLUDED",
                    "DECLINED_PET_NAME_INCLUDED_NOT_INCLUDED"}}, {}) |->
       Smsg(
         Free({"name"})
         \union FreeIf("included", {"DECLINED_PET_NAME_INCLUDED_INCLUDED"},
                       FreeFixed("declined_names", 5, Free({"text"}))),
         Minimum(6) \o Null({"name"}) \o Each("declined_names", 5, Null({"text"})) \o Ints(<<4>>)
         \o Cstring("name", w) \o Field(1, "included", {}, w)
         \o When(Is(w, "DECLINED_PET_NAME_INCLUDED_INCLUDED"),
                 Each("declined_names", 5, Cstring("text", w))),
         4 + WRITE_CSTRING(w) + 1
         + Bytes(Is(w, "DECLINED_PET_NAME_INCLUDED_INCLUDED"), 5 * WRITE_CSTRING(w)),
         6 + w.len + Bytes(Is(w, "DECLINED_PET_NAME_INCLUDED_INCLUDED"), 5 * (1 + w.len)))]]

wrath_FromSmsgPetSpells ==
  [SMSG_PET_SPELLS |-> [w \in Wires({0}, Counts, {}, {"action_bars"}) |->
     Smsg(
       FreeOptional("action_bars", Free({"spells", "cooldowns"})),
       Counted(8, Minimum(8) \o Null({"action_bars"}) \o Ints(<<8>>))
       \o Optional(
            "action_bars", Free({"spells", "cooldowns"}),
            Null({"spells", "cooldowns"}) \o Ints(<<2, 4, 1, 1, 1, 1>> \o Repeat(10, 4) \o <<1>>)
            \o Calloc("spells", w.count, {}) \o Ints(Repeat(w.count, 4) \o <<1>>)
            \o Array("cooldowns", w.count, {}, wrath_PetSpellCooldown.read)),
       8
       + Bytes(Is(w, "action_bars"),
               2 + 4 + 4 * 1 + 10 * 4 + 1 + w.count * 4 + 1
               + w.count * wrath_PetSpellCooldown.written),
       8 + Bytes(Is(w, "action_bars"), 52 + 4 * w.count + 14 * w.count))]]

wrath_FromSmsgPetMode ==
  [SMSG_PET_MODE |-> PlainSmsg(12, <<8, 1, 1, 1, 1>>, 8 + 4 * 1, 12),
   CMSG_GOSSIP_HELLO |-> PlainCmsg(8, <<8>>, 8, 8)]

wrath_FromCmsgGossipSelectOption ==
  [CMSG_GOSSIP_SELECT_OPTION |-> [w \in Wires(Lengths, {0}, {}, {"unknown"}) |->
     Cmsg(
       FreeOptional("unknown", Free({"code"})),
       Counted(16, Minimum(16) \o Null({"unknown"}) \o Ints(<<8, 4, 4>>))
       \o Optional("unknown", Free({"code"}), Null({"code"}) \o Cstring("code", w)),
       8 + 2 * 4 + Bytes(Is(w, "unknown"), WRITE_CSTRING(w)),
       16 + Bytes(Is(w, "unknown"), 1 + w.len))]]

wrath_FromSmsgGossipMessage ==
  [SMSG_GOSSIP_MESSAGE |-> [w \in OfLengthAndCount |->
     Smsg(
       FreeEach("gossips", w.count, wrath_GossipItem(w).free)
       \union FreeEach("quests", w.count, wrath_QuestItem(w).free),
       Minimum(24) \o Null({"gossips", "quests"}) \o Ints(<<8, 4, 4, 4>>)
       \o Array("gossips", w.count, wrath_GossipItem(w).free, wrath_GossipItem(w).read)
       \o Ints(<<4>>)
       \o Array("quests", w.count, wrath_QuestItem(w).free, wrath_QuestItem(w).read),
       8 + 3 * 4 + w.count * wrath_GossipItem(w).written + 4
       + w.count * wrath_QuestItem(w).written,
       24 + w.count * wrath_GossipItem(w).size + w.count * wrath_QuestItem(w).size)],
   SMSG_GOSSIP_COMPLETE |-> EmptySmsg(0)]

wrath_FromCmsgNpcTextQuery ==
  [CMSG_NPC_TEXT_QUERY |-> PlainCmsg(12, <<4, 8>>, 4 + 8, 12),
   SMSG_NPC_TEXT_UPDATE |-> [w \in OfLength |->
     Smsg(FreeFixed("texts", 8, wrath_NpcTextUpdate(w).free),
          Minimum(252) \o Ints(<<4>>) \o Each("texts", 8, wrath_NpcTextUpdate(w).read),
          4 + 8 * wrath_NpcTextUpdate(w).written, 4 + 8 * wrath_NpcTextUpdate(w).size)],
   CMSG_QUESTGIVER_STATUS_QUERY |-> PlainCmsg(8, <<8>>, 8, 8)]

wrath_FromSmsgQuestgiverStatus ==
  [SMSG_QUESTGIVER_STATUS |-> PlainSmsg(12, <<8, 4>>, 8 + 4, 12),
   CMSG_QUESTGIVER_HELLO |-> PlainCmsg(8, <<8>>, 8, 8)]

wrath_FromSmsgQuestgiverQuestList ==
  [SMSG_QUESTGIVER_QUEST_LIST |-> [w \in OfLengthAndCount |->
     Smsg(
       Free({"title"}) \union FreeEach("quest_items", w.count, wrath_QuestItem(w).free),
       Minimum(18) \o Null({"title", "quest_items"}) \o Ints(<<8>>) \o Cstring("title", w)
       \o Ints(<<4, 4, 1>>)
       \o Array("quest_items", w.count, wrath_QuestItem(w).free, wrath_QuestItem(w).read),
       8 + WRITE_CSTRING(w) + 2 * 4 + 1 + w.count * wrath_QuestItem(w).written,
       18 + w.len + w.count * wrath_QuestItem(w).size)],
   CMSG_QUESTGIVER_QUERY_QUEST |-> PlainCmsg(13, <<8, 4, 1>>, 8 + 4 + 1, 13),
   CMSG_QUESTGIVER_QUEST_AUTOLAUNCH |-> EmptyCmsg(0)]

wrath_FromSmsgQuestgiverQuestDetails ==
  [SMSG_QUESTGIVER_QUEST_DETAILS |-> [w \in OfLengthAndCount |->
     Smsg(
       Free({"title", "details", "objectives", "choice_item_rewards", "item_rewards", "emotes"}),
       Minimum(145)
       \o Null(
            {"title", "details", "objectives", "choice_item_rewards", "item_rewards", "emotes"})
       \o Ints(<<8, 8, 4>>) \o Cstring("title", w) \o Cstring("details", w)
       \o Cstring("objectives", w) \o Ints(<<1, 4, 4, 1, 4>>)
       \o Array("choice_item_rewards", w.count, {}, wrath_QuestGiverReward.read) \o Ints(<<4>>)
       \o Array("item_rewards", w.count, {}, wrath_QuestGiverReward.read) \o Ints(Repeat(26, 4))
       \o Array("emotes", w.count, {}, wrath_QuestDetailsEmote.read),
       2 * 8 + 4 + 3 * WRITE_CSTRING(w) + 1 + 2 * 4 + 1 + 4
       + w.count * wrath_QuestGiverReward.written + 4 + w.count * wrath_QuestGiverReward.written
       + 10 * 4 + 3 * 5 * 4 + 4 + w.count * wrath_QuestDetailsEmote.written,
       145 + 3 * w.len + 12 * w.count + 12 * w.count + 8 * w.count)]]

wrath_FromCmsgQuestgiverAcceptQuest ==
  [CMSG_QUESTGIVER_ACCEPT_QUEST |-> PlainCmsg(12, <<8, 4>>, 8 + 4, 12),
   CMSG_QUESTGIVER_COMPLETE_QUEST |-> PlainCmsg(12, <<8, 4>>, 8 + 4, 12)]

wrath_FromSmsgQuestgiverRequestItems ==
  [SMSG_QUESTGIVER_REQUEST_ITEMS |-> [w \in OfLengthAndCount |->
     Smsg(
       Free({"title", "request_items_text", "required_items"}),
       Minimum(58) \o Null({"title", "request_items_text", "required_items"}) \o Ints(<<8, 4>>)
       \o Cstring("title", w) \o Cstring("request_items_text", w) \o Ints(Repeat(7, 4))
       \o Array("required_items", w.count, {}, wrath_QuestItemRequirement.read)
       \o Ints(<<4, 4, 4, 4>>),
       8 + 4 + 2 * WRITE_CSTRING(w) + 7 * 4 + w.count * wrath_QuestItemRequirement.written + 4 * 4,
       58 + 2 * w.len + 12 * w.count)]]

wrath_LowGroups ==
  <<wrath_FromCmsgBootme, wrath_FromCmsgTeleportToUnit, wrath_FromCmsgCharDelete,
    wrath_FromSmsgCharDelete, wrath_FromSmsgTransferPending, wrath_FromSmsgCharacterLoginFailed,
    wrath_FromSmsgLogoutComplete, wrath_FromSmsgNameQueryResponse, wrath_FromCmsgPetNameQuery,
    wrath_FromCmsgGuildQuery, wrath_FromCmsgItemQuerySingle,
    wrath_FromSmsgItemQuerySingleResponse, wrath_FromCmsgPageTextQuery,
    wrath_FromSmsgQuestQueryResponse, wrath_FromCmsgGameobjectQuery,
    wrath_FromSmsgGameobjectQueryResponse, wrath_FromCmsgCreatureQuery,
    wrath_FromSmsgCreatureQueryResponse, wrath_FromCmsgWho, wrath_FromSmsgWho,
    wrath_FromSmsgWhois, wrath_FromSmsgContactList, wrath_FromCmsgAddFriend,
    wrath_FromCmsgAddIgnore, wrath_FromSmsgGroupInvite, wrath_FromSmsgGroupDecline,
    wrath_FromSmsgGroupUninvite, wrath_FromCmsgGroupDisband, wrath_FromSmsgGroupList,
    wrath_FromSmsgPartyMemberStats, wrath_FromSmsgPartyCommandResult, wrath_FromSmsgGuildInvite,
    wrath_FromSmsgGuildInfo, wrath_FromSmsgGuildRoster, wrath_FromCmsgGuildDemote,
    wrath_FromCmsgGuildLeader, wrath_FromSmsgGuildEvent, wrath_FromCmsgMessagechat,
    wrath_FromSmsgMessagechat, wrath_FromCmsgJoinChannel, wrath_FromSmsgChannelNotify,
    wrath_FromSmsgChannelList, wrath_FromCmsgChannelSetOwner, wrath_FromCmsgChannelModerator,
    wrath_FromCmsgChannelMute, wrath_FromCmsgChannelInvite, wrath_FromCmsgChannelBan,
    wrath_FromCmsgChannelAnnouncements, wrath_FromSmsgUpdateObject, wrath_FromCmsgUseItem,
    wrath_FromCmsgOpenItem, wrath_FromSmsgItemCooldown, wrath_FromMsgMoveStartForward,
    wrath_FromMsgMoveStop, wrath_FromMsgMoveStopStrafe, wrath_FromMsgMoveStartTurnLeft,
    wrath_FromMsgMoveStartPitchUp, wrath_FromMsgMoveStopPitch, wrath_FromMsgMoveTeleport,
    wrath_FromMsgMoveTeleportAck, wrath_FromMsgMoveStartSwim, wrath_FromMsgMoveSetPitch,
    wrath_FromSmsgMonsterMove, wrath_FromSmsgMoveWaterWalk, wrath_FromSmsgForceRunSpeedChange,
    wrath_FromCmsgForceRunBackSpeedChangeAck, wrath_FromSmsgForceMoveRoot,
    wrath_FromCmsgForceMoveUnrootAck, wrath_FromMsgMoveHeartbeat, wrath_FromMsgMoveKnockBack,
    wrath_FromSmsgMoveSetHover, wrath_FromMsgMoveHover, wrath_FromCmsgTutorialFlag,
    wrath_FromSmsgEmote, wrath_FromCmsgAutostoreLootItem, wrath_FromCmsgSwapItem,
    wrath_FromCmsgAutoequipItemSlot, wrath_FromSmsgInventoryChangeFailure,
    wrath_FromCmsgBeginTrade, wrath_FromCmsgSetTradeItem, wrath_FromSmsgTradeStatus,
    wrath_FromSmsgInitializeFactions, wrath_FromSmsgSetFactionStanding,
    wrath_FromCmsgSetActionButton, wrath_FromSmsgInitialSpells, wrath_FromSmsgSupercededSpell,
    wrath_FromCmsgCancelCast, wrath_FromSmsgCastFailed, wrath_FromSmsgSpellStart,
    wrath_FromSmsgSpellGo, wrath_FromSmsgSpellFailure, wrath_FromSmsgCooldownEvent,
    wrath_FromSmsgPetCastFailed, wrath_FromMsgChannelStart, wrath_FromSmsgAiReaction,
    wrath_FromCmsgAttackswing, wrath_FromSmsgAttackswingBadfacing,
    wrath_FromSmsgAttackerstateupdate, wrath_FromSmsgCancelCombat, wrath_FromSmsgBreakTarget,
    wrath_FromSmsgClientControlUpdate, wrath_FromCmsgLoot, wrath_FromSmsgLootResponse,
    wrath_FromSmsgLootRemoved, wrath_FromSmsgItemPushResult, wrath_FromSmsgDuelComplete,
    wrath_FromCmsgDuelCancelled, wrath_FromCmsgPetSetAction, wrath_FromCmsgPetAbandon,
    wrath_FromSmsgPetNameInvalid, wrath_FromSmsgPetSpells, wrath_FromSmsgPetMode,
    wrath_FromCmsgGossipSelectOption, wrath_FromSmsgGossipMessage, wrath_FromCmsgNpcTextQuery,
    wrath_FromSmsgQuestgiverStatus, wrath_FromSmsgQuestgiverQuestList,
    wrath_FromSmsgQuestgiverQuestDetails, wrath_FromCmsgQuestgiverAcceptQuest,
    wrath_FromSmsgQuestgiverRequestItems>>
=============================================================================
