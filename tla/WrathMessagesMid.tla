------------------------- MODULE WrathMessagesMid -------------------------
(*****************************************************************************)
(* The messages of the 3.3.5 version of the world protocol from              *)
(* CMSG_QUESTGIVER_REQUEST_REWARD to SMSG_SPLINE_MOVE_ROOT, in the order     *)
(* of src/wow_world_messages_c/src/wrath.c.                                  *)
(*                                                                           *)
(* A message is a function from its wires to records of what its functions   *)
(* do on them. Neighbours are defined together, in a record named for the    *)
(* first. A message of which every function does what that of an earlier     *)
(* message does is defined as that message.                                  *)
(*****************************************************************************)
EXTENDS WrathMessagesLow

wrath_FromCmsgQuestgiverRequestReward ==
  [CMSG_QUESTGIVER_REQUEST_REWARD |-> PlainCmsg(12, <<8, 4>>, 8 + 4, 12)]

wrath_FromSmsgQuestgiverOfferReward ==
  [SMSG_QUESTGIVER_OFFER_REWARD |-> [w \in OfLengthAndCount |->
     Smsg(
       Free({"title", "offer_reward_text", "emotes", "choice_item_rewards", "item_rewards"}),
       Minimum(142)
       \o Null({"title", "offer_reward_text", "emotes", "choice_item_rewards", "item_rewards"})
       \o Ints(<<8, 4>>) \o Cstring("title", w) \o Cstring("offer_reward_text", w)
       \o Ints(<<4, 4, 4, 4>>) \o Array("emotes", w.count, {}, wrath_NpcTextUpdateEmote.read)
       \o Ints(<<4>>)
       \o Array("choice_item_rewards", w.count, {}, wrath_QuestItemRequirement.read)
       \o Ints(<<4>>) \o Array("item_rewards", w.count, {}, wrath_QuestItemRequirement.read)
       \o Ints(Repeat(26, 4)),
       8 + 4 + 2 * WRITE_CSTRING(w) + 4 * 4 + w.count * wrath_NpcTextUpdateEmote.written + 4
       + w.count * wrath_QuestItemRequirement.written + 4
       + w.count * wrath_QuestItemRequirement.written + 11 * 4 + 3 * 5 * 4,
       142 + 2 * w.len + 8 * w.count + 12 * w.count + 12 * w.count)]]

wrath_FromCmsgQuestgiverChooseReward ==
  [CMSG_QUESTGIVER_CHOOSE_REWARD |-> PlainCmsg(16, <<8, 4, 4>>, 8 + 2 * 4, 16),
   SMSG_QUESTGIVER_QUEST_INVALID |-> PlainSmsg(4, <<4>>, 4, 4),
   CMSG_QUESTGIVER_CANCEL |-> EmptyCmsg(0)]

wrath_FromSmsgQuestgiverQuestComplete ==
  [SMSG_QUESTGIVER_QUEST_COMPLETE |-> [w \in OfCount |->
     Smsg(
       Free({"item_rewards"}),
       Minimum(32) \o Null({"item_rewards"}) \o Ints(Repeat(8, 4))
       \o Array("item_rewards", w.count, {}, wrath_QuestItemReward.read),
       8 * 4 + w.count * wrath_QuestItemReward.written, 32 + 8 * w.count)],
   SMSG_QUESTGIVER_QUEST_FAILED |-> PlainSmsg(8, <<4, 4>>, 2 * 4, 8)]

wrath_FromCmsgQuestlogSwapQuest ==
  [CMSG_QUESTLOG_SWAP_QUEST |-> PlainCmsg(2, <<1, 1>>, 2 * 1, 2),
   CMSG_QUESTLOG_REMOVE_QUEST |-> PlainCmsg(1, <<1>>, 1, 1),
   SMSG_QUESTLOG_FULL |-> EmptySmsg(0),
   SMSG_QUESTUPDATE_FAILED |-> PlainSmsg(4, <<4>>, 4, 4)]

wrath_FromSmsgQuestupdateFailedtimer ==
  [SMSG_QUESTUPDATE_FAILEDTIMER |-> PlainSmsg(4, <<4>>, 4, 4),
   SMSG_QUESTUPDATE_COMPLETE |-> PlainSmsg(4, <<4>>, 4, 4),
   SMSG_QUESTUPDATE_ADD_KILL |-> PlainSmsg(24, <<4, 4, 4, 4, 8>>, 4 * 4 + 8, 24)]

wrath_FromSmsgQuestupdateAddItem ==
  [SMSG_QUESTUPDATE_ADD_ITEM |-> PlainSmsg(8, <<4, 4>>, 2 * 4, 8),
   CMSG_QUEST_CONFIRM_ACCEPT |-> PlainCmsg(4, <<4>>, 4, 4),
   SMSG_QUEST_CONFIRM_ACCEPT |-> [w \in OfLength |->
     Smsg(Free({"quest_title"}),
          Minimum(13) \o Null({"quest_title"}) \o Ints(<<4>>) \o Cstring("quest_title", w)
          \o Ints(<<8>>), 4 + WRITE_CSTRING(w) + 8, 13 + w.len)]]

wrath_FromCmsgPushquesttoparty ==
  [CMSG_PUSHQUESTTOPARTY |-> PlainCmsg(4, <<4>>, 4, 4),
   CMSG_LIST_INVENTORY |-> PlainCmsg(8, <<8>>, 8, 8),
   SMSG_LIST_INVENTORY |-> [w \in OfCount |->
     Smsg(
       Free({"items"}),
       Minimum(9) \o Null({"items"}) \o Ints(<<8, 1>>)
       \o Array("items", w.count, {}, wrath_ListInventoryItem.read),
       8 + 1 + w.count * wrath_ListInventoryItem.written, 9 + 32 * w.count)]]

wrath_FromCmsgSellItem ==
  [CMSG_SELL_ITEM |-> PlainCmsg(17, <<8, 8, 1>>, 2 * 8 + 1, 17),
   SMSG_SELL_ITEM |-> PlainSmsg(17, <<8, 8, 1>>, 2 * 8 + 1, 17),
   CMSG_BUY_ITEM |-> PlainCmsg(17, <<8, 4, 4, 1>>, 8 + 2 * 4 + 1, 17)]

wrath_FromCmsgBuyItemInSlot ==
  [CMSG_BUY_ITEM_IN_SLOT |-> PlainCmsg(26, <<8, 4, 4, 8, 1, 1>>, 8 + 2 * 4 + 8 + 2 * 1, 26),
   SMSG_BUY_ITEM |-> PlainSmsg(20, <<8, 4, 4, 4>>, 8 + 3 * 4, 20),
   SMSG_BUY_FAILED |-> PlainSmsg(13, <<8, 4, 1>>, 8 + 4 + 1, 13)]

wrath_FromSmsgShowtaxinodes ==
  [SMSG_SHOWTAXINODES |-> [w \in OfCount |->
     Smsg(
       Free({"nodes"}),
       Counted(16, Minimum(16) \o Null({"nodes"}) \o Ints(<<4, 8, 4>>))
       \o Endless("nodes", w.count, {}, Ints(<<4>>), 4),
       4 + 8 + 4 + w.count * 4, 16 + 4 * w.count)],
   CMSG_TAXINODE_STATUS_QUERY |-> PlainCmsg(8, <<8>>, 8, 8)]

wrath_FromSmsgTaxinodeStatus ==
  [SMSG_TAXINODE_STATUS |-> PlainSmsg(9, <<8, 1>>, 8 + 1, 9),
   CMSG_TAXIQUERYAVAILABLENODES |-> PlainCmsg(8, <<8>>, 8, 8),
   CMSG_ACTIVATETAXI |-> PlainCmsg(16, <<8, 4, 4>>, 8 + 2 * 4, 16),
   SMSG_ACTIVATETAXIREPLY |-> PlainSmsg(4, <<4>>, 4, 4)]

wrath_FromSmsgNewTaxiPath ==
  [SMSG_NEW_TAXI_PATH |-> EmptySmsg(0),
   CMSG_TRAINER_LIST |-> PlainCmsg(8, <<8>>, 8, 8),
   SMSG_TRAINER_LIST |-> [w \in OfLengthAndCount |->
     Smsg(
       Free({"spells", "greeting"}),
       Minimum(17) \o Null({"spells", "greeting"}) \o Ints(<<8, 4, 4>>)
       \o Array("spells", w.count, {}, wrath_TrainerSpell.read) \o Cstring("greeting", w),
       8 + 2 * 4 + w.count * wrath_TrainerSpell.written + WRITE_CSTRING(w),
       17 + w.len + 38 * w.count)]]

wrath_FromCmsgTrainerBuySpell ==
  [CMSG_TRAINER_BUY_SPELL |-> PlainCmsg(12, <<8, 4>>, 8 + 4, 12),
   SMSG_TRAINER_BUY_SUCCEEDED |-> PlainSmsg(12, <<8, 4>>, 8 + 4, 12),
   SMSG_TRAINER_BUY_FAILED |-> PlainSmsg(16, <<8, 4, 4>>, 8 + 2 * 4, 16),
   CMSG_BINDER_ACTIVATE |-> PlainCmsg(8, <<8>>, 8, 8)]

wrath_FromCmsgBankerActivate ==
  [CMSG_BANKER_ACTIVATE |-> PlainCmsg(8, <<8>>, 8, 8),
   SMSG_SHOW_BANK |-> PlainSmsg(8, <<8>>, 8, 8),
   CMSG_BUY_BANK_SLOT |-> PlainCmsg(8, <<8>>, 8, 8),
   SMSG_BUY_BANK_SLOT_RESULT |-> PlainSmsg(4, <<4>>, 4, 4)]

wrath_FromCmsgPetitionShowlist ==
  [CMSG_PETITION_SHOWLIST |-> PlainCmsg(8, <<8>>, 8, 8),
   SMSG_PETITION_SHOWLIST |-> [w \in OfCount |->
     Smsg(
       Free({"petitions"}),
       Minimum(9) \o Null({"petitions"}) \o Ints(<<8, 1>>)
       \o Array("petitions", w.count, {}, wrath_PetitionShowlist.read),
       8 + 1 + w.count * wrath_PetitionShowlist.written, 9 + 24 * w.count)]]

wrath_FromCmsgPetitionBuy ==
  [CMSG_PETITION_BUY |-> [w \in OfLength |->
     Cmsg(
       Free({"name", "unknown3"}) \union FreeFixed("unknown15", 10, Free({"text"})),
       Minimum(82) \o Null({"name", "unknown3"}) \o Each("unknown15", 10, Null({"text"}))
       \o Ints(<<8, 4, 8>>) \o Cstring("name", w) \o Cstring("unknown3", w)
       \o Ints(Repeat(7, 4) \o <<2, 4, 4, 4>>) \o Each("unknown15", 10, Cstring("text", w))
       \o Ints(<<4, 4>>),
       8 + 4 + 8 + 2 * WRITE_CSTRING(w) + 7 * 4 + 2 + 3 * 4 + 10 * WRITE_CSTRING(w) + 2 * 4,
       72 + 2 * w.len + 10 * (1 + w.len))]]

wrath_FromCmsgPetitionShowSignatures ==
  [CMSG_PETITION_SHOW_SIGNATURES |-> PlainCmsg(8, <<8>>, 8, 8),
   SMSG_PETITION_SHOW_SIGNATURES |-> [w \in OfCount |->
     Smsg(
       Free({"signatures"}),
       Minimum(21) \o Null({"signatures"}) \o Ints(<<8, 8, 4, 1>>)
       \o Array("signatures", w.count, {}, wrath_PetitionSignature.read),
       2 * 8 + 4 + 1 + w.count * wrath_PetitionSignature.written, 21 + 12 * w.count)],
   CMSG_PETITION_SIGN |-> PlainCmsg(9, <<8, 1>>, 8 + 1, 9)]

wrath_FromSmsgPetitionSignResults ==
  [SMSG_PETITION_SIGN_RESULTS |-> PlainSmsg(20, <<8, 8, 4>>, 2 * 8 + 4, 20),
   MSG_PETITION_DECLINE_cmsg |-> [w \in {Fixed} |-> Client(wrath_MSG_PETITION_DECLINE)],
   MSG_PETITION_DECLINE_smsg |-> [w \in {Fixed} |-> Server(wrath_MSG_PETITION_DECLINE)],
   CMSG_OFFER_PETITION |-> PlainCmsg(20, <<4, 8, 8>>, 4 + 2 * 8, 20)]

wrath_FromCmsgTurnInPetition ==
  [CMSG_TURN_IN_PETITION |-> PlainCmsg(8, <<8>>, 8, 8),
   SMSG_TURN_IN_PETITION_RESULTS |-> PlainSmsg(4, <<4>>, 4, 4),
   CMSG_PETITION_QUERY |-> PlainCmsg(12, <<4, 8>>, 4 + 8, 12)]

wrath_FromSmsgPetitionQueryResponse ==
  [SMSG_PETITION_QUERY_RESPONSE |-> [w \in OfLength |->
     Smsg(
       Free({"guild_name", "body_text"}),
       Minimum(74) \o Null({"guild_name", "body_text"}) \o Ints(<<4, 8>>)
       \o Cstring("guild_name", w) \o Cstring("body_text", w)
       \o Ints(Repeat(7, 4) \o <<2, 4, 4, 4>> \o Repeat(10, 1) \o <<4, 4>>),
       4 + 8 + 2 * WRITE_CSTRING(w) + 7 * 4 + 2 + 3 * 4 + 10 + 2 * 4, 74 + 2 * w.len)],
   SMSG_FISH_NOT_HOOKED |-> EmptySmsg(0)]

wrath_FromSmsgFishEscaped ==
  [SMSG_FISH_ESCAPED |-> EmptySmsg(0),
   CMSG_BUG |-> [w \in OfLength |->
     Cmsg(
       Free({"content", "bug_type"}),
       Minimum(14) \o Null({"content", "bug_type"}) \o Ints(<<4>>) \o SizedCstring("content", w)
       \o SizedCstring("bug_type", w), 4 + 2 * WRITE_SIZED_CSTRING(w), 14 + 2 * w.len)],
   SMSG_NOTIFICATION |-> [w \in OfLength |->
     Smsg(
       Free({"notification"}), Minimum(1) \o Null({"notification"}) \o Cstring("notification", w),
       WRITE_CSTRING(w), 1 + w.len)]]

wrath_FromCmsgPlayedTime ==
  [CMSG_PLAYED_TIME |-> PlainCmsg(1, <<1>>, 1, 1),
   SMSG_PLAYED_TIME |-> PlainSmsg(9, <<4, 4, 1>>, 2 * 4 + 1, 9),
   CMSG_QUERY_TIME |-> EmptyCmsg(0),
   SMSG_QUERY_TIME_RESPONSE |-> PlainSmsg(8, <<4, 4>>, 2 * 4, 8)]

wrath_FromSmsgLogXpgain ==
  [SMSG_LOG_XPGAIN |->
     [w \in Wires(
              {0}, {0}, {{"EXPERIENCE_AWARD_TYPE_NON_KILL", "EXPERIENCE_AWARD_TYPE_KILL"}}, {}) |->
       Smsg(
         {},
         Minimum(14) \o Ints(<<8, 4, 1>>)
         \o When(Is(w, "EXPERIENCE_AWARD_TYPE_NON_KILL"), Ints(<<4, 4>>)) \o Ints(<<1>>),
         8 + 4 + 1 + Bytes(Is(w, "EXPERIENCE_AWARD_TYPE_NON_KILL"), 2 * 4) + 1,
         14 + Bytes(Is(w, "EXPERIENCE_AWARD_TYPE_NON_KILL"), 8))],
   CMSG_RECLAIM_CORPSE |-> PlainCmsg(8, <<8>>, 8, 8),
   CMSG_WRAP_ITEM |-> PlainCmsg(4, <<1, 1, 1, 1>>, 4 * 1, 4)]

wrath_FromSmsgLevelupInfo ==
  [SMSG_LEVELUP_INFO |-> PlainSmsg(56, Repeat(14, 4), 14 * 4, 56),
   MSG_MINIMAP_PING_Client |-> PlainCmsg(8, <<4, 4>>, 2 * 4, 8)]

wrath_FromMsgMinimapPing ==
  [MSG_MINIMAP_PING_Server |-> PlainSmsg(16, <<8, 4, 4>>, 8 + 2 * 4, 16),
   SMSG_ENCHANTMENTLOG |-> [w \in OfLength |->
     Smsg({}, Minimum(11) \o PackedGuid(w) \o PackedGuid(w) \o Ints(<<4, 4, 1>>),
          2 * WRITE_PACKED_GUID(w) + 2 * 4 + 1, 9 + 2 * wwm_packed_guid_size(w))],
   SMSG_START_MIRROR_TIMER |-> PlainSmsg(21, <<4, 4, 4, 4, 1, 4>>, 4 * 4 + 1 + 4, 21)]

wrath_FromSmsgPauseMirrorTimer ==
  [SMSG_PAUSE_MIRROR_TIMER |-> PlainSmsg(5, <<4, 1>>, 4 + 1, 5),
   SMSG_STOP_MIRROR_TIMER |-> PlainSmsg(4, <<4>>, 4, 4),
   CMSG_PING |-> PlainCmsg(8, <<4, 4>>, 2 * 4, 8),
   SMSG_PONG |-> PlainSmsg(4, <<4>>, 4, 4)]

wrath_FromSmsgClearCooldown ==
  [SMSG_CLEAR_COOLDOWN |-> PlainSmsg(12, <<4, 8>>, 4 + 8, 12),
   SMSG_GAMEOBJECT_PAGETEXT |-> PlainSmsg(8, <<8>>, 8, 8),
   CMSG_SETSHEATHED |-> PlainCmsg(4, <<4>>, 4, 4),
   SMSG_SPELL_DELAYED |-> PlainSmsg(12, <<8, 4>>, 8 + 4, 12)]

wrath_FromCmsgQuestPoiQuery ==
  [CMSG_QUEST_POI_QUERY |-> [w \in OfCount |->
     Cmsg(
       Free({"points_of_interests"}),
       Minimum(4) \o Null({"points_of_interests"}) \o Ints(<<4>>)
       \o Calloc("points_of_interests", w.count, {}) \o Ints(Repeat(w.count, 4)),
       4 + w.count * 4, 4 + 4 * w.count)],
   SMSG_QUEST_POI_QUERY_RESPONSE |-> [w \in OfCount |->
     Smsg(
       FreeEach("quests", w.count, wrath_QuestPoiList(w).free),
       Minimum(4) \o Null({"quests"}) \o Ints(<<4>>)
       \o Array("quests", w.count, wrath_QuestPoiList(w).free, wrath_QuestPoiList(w).read),
       4 + w.count * wrath_QuestPoiList(w).written, 4 + w.count * wrath_QuestPoiList(w).size)]]

wrath_FromSmsgItemTimeUpdate ==
  [SMSG_ITEM_TIME_UPDATE |-> PlainSmsg(12, <<8, 4>>, 8 + 4, 12),
   SMSG_ITEM_ENCHANT_TIME_UPDATE |-> PlainSmsg(24, <<8, 4, 4, 8>>, 8 + 2 * 4 + 8, 24),
   SMSG_AUTH_CHALLENGE |-> PlainSmsg(40, <<4, 4>> \o Repeat(32, 1), 2 * 4 + 32, 40)]

wrath_FromCmsgAuthSession ==
  [CMSG_AUTH_SESSION |-> [w \in OfLengthAndCount |->
     Cmsg(
       Free({"username", "addon_info"}),
       Counted(
         57 + w.len,
         Minimum(61) \o Null({"username", "addon_info"}) \o Ints(<<4, 4>>)
         \o Cstring("username", w) \o Ints(Repeat(5, 4) \o <<8>> \o Repeat(20, 1))) \o Await
       \o Counted(4, Ints(<<4>>) \o Null({"addon_info"}) \o Clear("amount_of_addon_info"))
       \o When(w.count > 0,
               Await \o Inflate \o InflatedEndless("addon_info", w.count, {}, Ints(<<1>>))
               \o FreeInflated),
       2 * 4 + WRITE_CSTRING(w) + 5 * 4 + 8 + 20
       + Bytes(w.count > 0, 4 + wwm_compress_data_size(w.count)),
       57 + w.len + Bytes(w.count > 0, wwm_compress_data_size(w.count)))]]

wrath_FromSmsgAuthResponse ==
  [SMSG_AUTH_RESPONSE |->
     [w \in Wires({0}, {0},
                  {{"WORLD_RESULT_AUTH_OK", "WORLD_RESULT_AUTH_WAIT_QUEUE",
                    "WORLD_RESULT_RESPONSE_SUCCESS"}}, {}) |->
       Smsg(
         {},
         Minimum(1) \o Ints(<<1>>) \o When(Is(w, "WORLD_RESULT_AUTH_OK"), Ints(<<4, 1, 4, 1>>))
         \o When(Is(w, "WORLD_RESULT_AUTH_WAIT_QUEUE"), Ints(<<4, 1>>)),
         1 + Bytes(Is(w, "WORLD_RESULT_AUTH_OK"), 4 + 1 + 4 + 1)
         + Bytes(Is(w, "WORLD_RESULT_AUTH_WAIT_QUEUE"), 4 + 1),
         1 + Bytes(Is(w, "WORLD_RESULT_AUTH_OK"), 10)
         + Bytes(Is(w, "WORLD_RESULT_AUTH_WAIT_QUEUE"), 5))]]

wrath_FromCmsgPetCastSpell ==
  [CMSG_PET_CAST_SPELL |->
     [w \in Wires(Lengths, {0},
                  {{"CLIENT_CAST_FLAGS_EXTRA", "CLIENT_CAST_FLAGS_NONE"},
                   {"CLIENT_MOVEMENT_DATA_PRESENT", "CLIENT_MOVEMENT_DATA_NOT_PRESENT"}},
                  wrath_MovementInfoFlags \union wrath_SpellCastTargetsFlags) |->
       Cmsg(
         FreeAt(<<"targets">>, wrath_SpellCastTargets(w).free),
         Minimum(18) \o Ints(<<8, 1, 4, 1>>) \o At(<<"targets">>, wrath_SpellCastTargets(w).read)
         \o When(Is(w, "CLIENT_CAST_FLAGS_EXTRA"),
                 Ints(<<4, 4, 1>>)
                 \o When(Is(w, "CLIENT_MOVEMENT_DATA_PRESENT"),
                         Ints(<<4>>) \o PackedGuid(w) \o wrath_MovementInfo(w).read)),
         8 + 1 + 4 + 1 + wrath_SpellCastTargets(w).written
         + Bytes(
             Is(w, "CLIENT_CAST_FLAGS_EXTRA"),
             2 * 4 + 1
             + Bytes(Is(w, "CLIENT_MOVEMENT_DATA_PRESENT"),
                     4 + WRITE_PACKED_GUID(w) + wrath_MovementInfo(w).written)),
         14 + wrath_SpellCastTargets(w).size
         + Bytes(
             Is(w, "CLIENT_CAST_FLAGS_EXTRA"),
             9
             + Bytes(Is(w, "CLIENT_MOVEMENT_DATA_PRESENT"),
                     4 + wwm_packed_guid_size(w) + wrath_MovementInfo(w).size)))]]

wrath_FromMsgSaveGuildEmblem ==
  [MSG_SAVE_GUILD_EMBLEM_Client |-> PlainCmsg(28, <<8>> \o Repeat(5, 4), 8 + 5 * 4, 28),
   MSG_SAVE_GUILD_EMBLEM_Server |-> PlainSmsg(4, <<4>>, 4, 4),
   MSG_TABARDVENDOR_ACTIVATE_cmsg |-> [w \in {Fixed} |-> Client(wrath_MSG_TABARDVENDOR_ACTIVATE)],
   MSG_TABARDVENDOR_ACTIVATE_smsg |-> [w \in {Fixed} |-> Server(wrath_MSG_TABARDVENDOR_ACTIVATE)]]

wrath_FromSmsgPlaySpellVisual ==
  [SMSG_PLAY_SPELL_VISUAL |-> PlainSmsg(12, <<8, 4>>, 8 + 4, 12),
   CMSG_ZONEUPDATE |-> PlainCmsg(4, <<4>>, 4, 4),
   SMSG_PARTYKILLLOG |-> PlainSmsg(16, <<8, 8>>, 2 * 8, 16)]

wrath_FromSmsgCompressedUpdateObject ==
  [SMSG_COMPRESSED_UPDATE_OBJECT |->
     [w \in Wires(Lengths, Counts, wrath_ObjectEnums, wrath_ObjectFlags) |->
       CompressedSmsg(
         FreeEach("objects", w.count, wrath_Object(w).free),
         Counted(4, Minimum(4) \o Null({"objects"}) \o Ints(<<4>>)) \o Inflate
         \o Counted(
              4 + w.count * wrath_Object(w).size,
              Ints(<<4>>) \o Array("objects", w.count, wrath_Object(w).free, wrath_Object(w).read))
         \o FreeInflated, 4 + w.count * wrath_Object(w).written)]]

wrath_FromSmsgPlaySpellImpact ==
  [SMSG_PLAY_SPELL_IMPACT |-> PlainSmsg(12, <<8, 4>>, 8 + 4, 12),
   SMSG_EXPLORATION_EXPERIENCE |-> PlainSmsg(8, <<4, 4>>, 2 * 4, 8),
   MSG_RANDOM_ROLL_Client |-> PlainCmsg(8, <<4, 4>>, 2 * 4, 8)]

wrath_FromMsgRandomRoll ==
  [MSG_RANDOM_ROLL_Server |-> PlainSmsg(20, <<4, 4, 4, 8>>, 3 * 4 + 8, 20),
   SMSG_ENVIRONMENTAL_DAMAGE_LOG |-> PlainSmsg(21, <<8, 1, 4, 4, 4>>, 8 + 1 + 3 * 4, 21)]

wrath_FromSmsgLfgPlayerReward ==
  [SMSG_LFG_PLAYER_REWARD |-> [w \in OfCount |->
     Smsg(
       Free({"rewards"}),
       Minimum(30) \o Null({"rewards"}) \o Ints(<<4, 4, 1>> \o Repeat(5, 4) \o <<1>>)
       \o Array("rewards", w.count, {}, wrath_QuestGiverReward.read),
       2 * 4 + 1 + 5 * 4 + 1 + w.count * wrath_QuestGiverReward.written, 30 + 12 * w.count)],
   SMSG_LFG_TELEPORT_DENIED |-> PlainSmsg(4, <<4>>, 4, 4)]

wrath_FromCmsgUnlearnSkill ==
  [CMSG_UNLEARN_SKILL |-> PlainCmsg(4, <<4>>, 4, 4),
   SMSG_REMOVED_SPELL |-> PlainSmsg(4, <<4>>, 4, 4)]

wrath_FromCmsgGmticketCreate ==
  [CMSG_GMTICKET_CREATE |-> [w \in OfLengthAndCount |->
     Cmsg(
       Free({"message", "times", "compressed_data"}),
       Counted(
         23 + w.len + 4 * w.count,
         Minimum(27) \o Null({"message", "times", "compressed_data"}) \o Ints(<<4>>)
         \o Vector3d.read \o Cstring("message", w) \o Ints(<<1, 1, 4>>)
         \o Calloc("times", w.count, {}) \o Ints(Repeat(w.count, 4))) \o Await
       \o Counted(
            4, Ints(<<4>>) \o Null({"compressed_data"}) \o Clear("amount_of_compressed_data"))
       \o When(w.count > 0,
               Await \o Inflate \o InflatedEndless("compressed_data", w.count, {}, Ints(<<1>>))
               \o FreeInflated),
       4 + Vector3d.written + WRITE_CSTRING(w) + 2 * 1 + 4 + w.count * 4
       + Bytes(w.count > 0, 4 + wwm_compress_data_size(w.count)),
       23 + w.len + 4 * w.count + Bytes(w.count > 0, wwm_compress_data_size(w.count)))]]

wrath_FromSmsgGmticketCreate ==
  [SMSG_GMTICKET_CREATE |-> PlainSmsg(4, <<4>>, 4, 4),
   CMSG_GMTICKET_UPDATETEXT |-> [w \in OfLength |->
     Cmsg(Free({"message"}), Minimum(1) \o Null({"message"}) \o Cstring("message", w),
          WRITE_CSTRING(w), 1 + w.len)],
   SMSG_GMTICKET_UPDATETEXT |-> PlainSmsg(4, <<4>>, 4, 4)]

wrath_FromSmsgAccountDataTimes ==
  [SMSG_ACCOUNT_DATA_TIMES |-> [w \in OfLength |->
     Smsg({}, Minimum(9) \o Ints(<<4, 1>>) \o wrath_cache_mask(w),
          4 + 1 + wrath_cache_mask_written(w), 5 + wrath_cache_mask_size(w))],
   CMSG_REQUEST_ACCOUNT_DATA |-> PlainCmsg(4, <<4>>, 4, 4)]

wrath_FromCmsgUpdateAccountData ==
  [CMSG_UPDATE_ACCOUNT_DATA |-> [w \in OfCount |->
     Cmsg(
       Free({"compressed_data"}),
       Counted(8, Minimum(12) \o Null({"compressed_data"}) \o Ints(<<4, 4>>)) \o Await
       \o Counted(
            4, Ints(<<4>>) \o Null({"compressed_data"}) \o Clear("amount_of_compressed_data"))
       \o When(w.count > 0,
               Await \o Inflate \o InflatedEndless("compressed_data", w.count, {}, Ints(<<1>>))
               \o FreeInflated),
       2 * 4 + Bytes(w.count > 0, 4 + wwm_compress_data_size(w.count)),
       8 + Bytes(w.count > 0, wwm_compress_data_size(w.count)))]]

wrath_FromSmsgUpdateAccountData ==
  [SMSG_UPDATE_ACCOUNT_DATA |-> [w \in OfCount |->
     Smsg(
       Free({"compressed_data"}),
       Counted(8, Minimum(8) \o Null({"compressed_data"}) \o Ints(<<4, 4>>))
       \o Endless("compressed_data", w.count, {}, Ints(<<1>>), 1), 2 * 4 + w.count, 8 + w.count)],
   CMSG_GMTICKET_GETTICKET |-> EmptyCmsg(0)]

wrath_FromSmsgGmticketGetticket ==
  [SMSG_GMTICKET_GETTICKET |->
     [w \in Wires(Lengths, {0}, {{"GM_TICKET_STATUS_HAS_TEXT", "GM_TICKET_STATUS_DB_ERROR"}}, {}) |->
       Smsg(
         FreeIf("status", {"GM_TICKET_STATUS_HAS_TEXT"}, Free({"text"})),
         Minimum(4) \o Null({"text"}) \o Field(4, "status", {}, w)
         \o When(Is(w, "GM_TICKET_STATUS_HAS_TEXT"),
                 Ints(<<4>>) \o Cstring("text", w) \o Ints(<<1, 4, 4, 4, 1, 1>>)),
         4 + Bytes(Is(w, "GM_TICKET_STATUS_HAS_TEXT"), 4 + WRITE_CSTRING(w) + 1 + 3 * 4 + 2 * 1),
         4 + Bytes(Is(w, "GM_TICKET_STATUS_HAS_TEXT"), 20 + w.len))],
   CMSG_UNLEARN_TALENTS |-> EmptyCmsg(0)]

wrath_FromSmsgUpdateInstanceEncounterUnit ==
  [SMSG_UPDATE_INSTANCE_ENCOUNTER_UNIT |->
     [w \in Wires(Lengths, {0},
                  {{"ENCOUNTER_FRAME_ENGAGE", "ENCOUNTER_FRAME_ADD_TIMER",
                    "ENCOUNTER_FRAME_UPDATE_OBJECTIVE", "ENCOUNTER_FRAME_REFRESH_FRAMES"}}, {}) |->
       Smsg(
         {},
         Minimum(4) \o Ints(<<4>>)
         \o When(Is(w, "ENCOUNTER_FRAME_ENGAGE"), PackedGuid(w) \o Ints(<<1>>))
         \o When(Is(w, "ENCOUNTER_FRAME_ADD_TIMER"), Ints(<<1>>))
         \o When(Is(w, "ENCOUNTER_FRAME_UPDATE_OBJECTIVE"), Ints(<<1, 1>>)),
         4 + Bytes(Is(w, "ENCOUNTER_FRAME_ENGAGE"), WRITE_PACKED_GUID(w) + 1)
         + Bytes(Is(w, "ENCOUNTER_FRAME_ADD_TIMER"), 1)
         + Bytes(Is(w, "ENCOUNTER_FRAME_UPDATE_OBJECTIVE"), 2 * 1),
         4 + Bytes(Is(w, "ENCOUNTER_FRAME_ENGAGE"), 1 + wwm_packed_guid_size(w))
         + Bytes(Is(w, "ENCOUNTER_FRAME_ADD_TIMER"), 1)
         + Bytes(Is(w, "ENCOUNTER_FRAME_UPDATE_OBJECTIVE"), 2))],
   SMSG_GAMEOBJECT_DESPAWN_ANIM |-> PlainSmsg(8, <<8>>, 8, 8),
   MSG_CORPSE_QUERY_Client |-> EmptyCmsg(0)]

wrath_FromMsgCorpseQuery ==
  [MSG_CORPSE_QUERY_Server |->
     [w \in Wires({0}, {0}, {{"CORPSE_QUERY_RESULT_FOUND", "CORPSE_QUERY_RESULT_NOT_FOUND"}}, {}) |->
       Smsg(
         {},
         Minimum(5) \o Ints(<<1>>)
         \o When(Is(w, "CORPSE_QUERY_RESULT_FOUND"), Ints(<<4>>) \o Vector3d.read \o Ints(<<4>>))
         \o Ints(<<4>>),
         1 + Bytes(Is(w, "CORPSE_QUERY_RESULT_FOUND"), 4 + Vector3d.written + 4) + 4,
         5 + Bytes(Is(w, "CORPSE_QUERY_RESULT_FOUND"), 20))],
   CMSG_GMTICKET_DELETETICKET |-> EmptyCmsg(0),
   SMSG_GMTICKET_DELETETICKET |-> PlainSmsg(4, <<4>>, 4, 4),
   SMSG_CHAT_WRONG_FACTION |-> EmptySmsg(0),
   CMSG_GMTICKET_SYSTEMSTATUS |-> EmptyCmsg(0)]

wrath_FromSmsgGmticketSystemstatus ==
  [SMSG_GMTICKET_SYSTEMSTATUS |-> PlainSmsg(4, <<4>>, 4, 4),
   CMSG_SPIRIT_HEALER_ACTIVATE |-> PlainCmsg(8, <<8>>, 8, 8),
   SMSG_QUEST_FORCE_REMOVE |-> PlainSmsg(4, <<4>>, 4, 4),
   SMSG_SPIRIT_HEALER_CONFIRM |-> PlainSmsg(8, <<8>>, 8, 8)]

wrath_FromSmsgGossipPoi ==
  [SMSG_GOSSIP_POI |-> [w \in OfLength |->
     Smsg(
       Free({"location_name"}),
       Minimum(21) \o Null({"location_name"}) \o Ints(<<4>>) \o Vector2d.read \o Ints(<<4, 4>>)
       \o Cstring("location_name", w),
       4 + Vector2d.written + 2 * 4 + WRITE_CSTRING(w), 21 + w.len)],
   CMSG_CHAT_IGNORED |-> PlainCmsg(9, <<8, 1>>, 8 + 1, 9)]

wrath_FromCmsgGuildRank ==
  [CMSG_GUILD_RANK |-> [w \in OfLength |->
     Cmsg(
       Free({"rank_name"}),
       Minimum(61) \o Null({"rank_name"}) \o Ints(<<4, 4>>) \o Cstring("rank_name", w)
       \o Ints(<<4>>) \o Each("bank_tab_rights", 6, wrath_GuildBankRights.read),
       2 * 4 + WRITE_CSTRING(w) + 4 + 6 * wrath_GuildBankRights.written, 61 + w.len)],
   CMSG_GUILD_ADD_RANK |-> [w \in OfLength |->
     Cmsg(Free({"rank_name"}), Minimum(1) \o Null({"rank_name"}) \o Cstring("rank_name", w),
          WRITE_CSTRING(w), 1 + w.len)],
   CMSG_GUILD_DEL_RANK |-> EmptyCmsg(0)]

wrath_FromCmsgGuildSetPublicNote ==
  [CMSG_GUILD_SET_PUBLIC_NOTE |-> [w \in OfLength |->
     Cmsg(Free({"player_name", "note"}),
          Minimum(2) \o Null({"player_name", "note"}) \o Cstring("player_name", w)
          \o Cstring("note", w), 2 * WRITE_CSTRING(w), 2 + 2 * w.len)],
   CMSG_GUILD_SET_OFFICER_NOTE |-> [w \in OfLength |->
     Cmsg(Free({"player_name", "note"}),
          Minimum(2) \o Null({"player_name", "note"}) \o Cstring("player_name", w)
          \o Cstring("note", w), 2 * WRITE_CSTRING(w), 2 + 2 * w.len)],
   SMSG_LOGIN_VERIFY_WORLD |-> [w \in {Fixed} |->
     Smsg({}, Minimum(20) \o Ints(<<4>>) \o Vector3d.read \o Ints(<<4>>),
          4 + Vector3d.written + 4, 20)]]

wrath_FromCmsgSendMail ==
  [CMSG_SEND_MAIL |-> [w \in OfLengthAndCount |->
     Cmsg(
       Free({"receiver", "subject", "body", "items"}),
       Minimum(36) \o Null({"receiver", "subject", "body", "items"}) \o Ints(<<8>>)
       \o Cstring("receiver", w) \o Cstring("subject", w) \o Cstring("body", w)
       \o Ints(<<4, 4, 1>>) \o Array("items", w.count, {}, wrath_MailItem.read)
       \o Ints(<<4, 4, 4, 4>>),
       8 + 3 * WRITE_CSTRING(w) + 2 * 4 + 1 + w.count * wrath_MailItem.written + 4 * 4,
       36 + 3 * w.len + 9 * w.count)]]

wrath_FromSmsgSendMailResult ==
  [SMSG_SEND_MAIL_RESULT |->
     [w \in Wires({0}, {0},
                  {{"MAIL_ACTION_ITEM_TAKEN", "MAIL_ACTION_SEND"},
                   {"MAIL_RESULT_ERR_EQUIP_ERROR", "MAIL_RESULT_OK"},
                   {"MAIL_RESULT_TWO_ERR_EQUIP_ERROR", "MAIL_RESULT_TWO_OK"}}, {}) |->
       Smsg(
         {},
         Minimum(12) \o Ints(<<4, 4>>)
         \o When(Is(w, "MAIL_ACTION_ITEM_TAKEN"),
                 Ints(<<4>>) \o When(Is(w, "MAIL_RESULT_ERR_EQUIP_ERROR"), Ints(<<4>>))
                 \o When(Is(w, "MAIL_RESULT_OK"), Ints(<<4, 4>>)))
         \o When(Is(w, "MAIL_ACTION_SEND"),
                 Ints(<<4>>) \o When(Is(w, "MAIL_RESULT_TWO_ERR_EQUIP_ERROR"), Ints(<<4>>))),
         2 * 4
         + Bytes(Is(w, "MAIL_ACTION_ITEM_TAKEN"),
                 4 + Bytes(Is(w, "MAIL_RESULT_ERR_EQUIP_ERROR"), 4)
                 + Bytes(Is(w, "MAIL_RESULT_OK"), 2 * 4))
         + Bytes(Is(w, "MAIL_ACTION_SEND"), 4 + Bytes(Is(w, "MAIL_RESULT_TWO_ERR_EQUIP_ERROR"), 4)),
         8
         + Bytes(
             Is(w, "MAIL_ACTION_ITEM_TAKEN"),
             4 + Bytes(Is(w, "MAIL_RESULT_ERR_EQUIP_ERROR"), 4) + Bytes(Is(w, "MAIL_RESULT_OK"), 8))
         + Bytes(
             Is(w, "MAIL_ACTION_SEND"), 4 + Bytes(Is(w, "MAIL_RESULT_TWO_ERR_EQUIP_ERROR"), 4)))],
   CMSG_GET_MAIL_LIST |-> PlainCmsg(8, <<8>>, 8, 8)]

wrath_FromSmsgMailListResult ==
  [SMSG_MAIL_LIST_RESULT |-> [w \in Wires(Lengths, Counts, wrath_MailEnums, {}) |->
     Smsg(
       FreeEach("mails", w.count, wrath_Mail(w).free),
       Minimum(5) \o Null({"mails"}) \o Ints(<<4, 1>>)
       \o Array("mails", w.count, wrath_Mail(w).free, wrath_Mail(w).read),
       4 + 1 + w.count * wrath_Mail(w).written, 5 + w.count * wrath_Mail(w).size)],
   CMSG_BATTLEFIELD_LIST |-> PlainCmsg(6, <<4, 1, 1>>, 4 + 2 * 1, 6)]

wrath_FromSmsgBattlefieldList ==
  [SMSG_BATTLEFIELD_LIST |->
     [w \in Wires({0}, Counts, {{"RANDOM_BG_RANDOM", "RANDOM_BG_NOT_RANDOM"}}, {}) |->
       Smsg(
         Free({"battlegrounds"}),
         Minimum(32) \o Null({"battlegrounds"}) \o Ints(<<8, 4, 1, 1, 1, 4, 4, 4, 1>>)
         \o When(Is(w, "RANDOM_BG_RANDOM"), Ints(<<1, 4, 4, 4>>)) \o Ints(<<4>>)
         \o Calloc("battlegrounds", w.count, {}) \o Ints(Repeat(w.count, 4)),
         8 + 4 + 3 * 1 + 3 * 4 + 1 + Bytes(Is(w, "RANDOM_BG_RANDOM"), 1 + 3 * 4) + 4 + w.count * 4,
         32 + 4 * w.count + Bytes(Is(w, "RANDOM_BG_RANDOM"), 13))]]

wrath_FromCmsgItemTextQuery ==
  [CMSG_ITEM_TEXT_QUERY |-> PlainCmsg(8, <<8>>, 8, 8),
   SMSG_ITEM_TEXT_QUERY_RESPONSE |->
     [w \in Wires(Lengths, {0}, {{"ITEM_TEXT_QUERY_HAS_TEXT", "ITEM_TEXT_QUERY_NO_TEXT"}}, {}) |->
       Smsg(
         FreeIf("query", {"ITEM_TEXT_QUERY_HAS_TEXT"}, Free({"text"})),
         Minimum(1) \o Null({"text"}) \o Field(1, "query", {"ITEM_TEXT_QUERY_HAS_TEXT"}, w)
         \o When(Is(w, "ITEM_TEXT_QUERY_HAS_TEXT"), Ints(<<8>>) \o Cstring("text", w)),
         1 + Bytes(Is(w, "ITEM_TEXT_QUERY_HAS_TEXT"), 8 + WRITE_CSTRING(w)),
         1 + Bytes(Is(w, "ITEM_TEXT_QUERY_HAS_TEXT"), 9 + w.len))],
   CMSG_MAIL_TAKE_MONEY |-> PlainCmsg(12, <<8, 4>>, 8 + 4, 12)]

wrath_FromCmsgMailTakeItem ==
  [CMSG_MAIL_TAKE_ITEM |-> PlainCmsg(16, <<8, 4, 4>>, 8 + 2 * 4, 16),
   CMSG_MAIL_MARK_AS_READ |-> PlainCmsg(12, <<8, 4>>, 8 + 4, 12),
   CMSG_MAIL_RETURN_TO_SENDER |-> PlainCmsg(12, <<8, 4>>, 8 + 4, 12)]

wrath_FromCmsgMailDelete ==
  [CMSG_MAIL_DELETE |-> PlainCmsg(16, <<8, 4, 4>>, 8 + 2 * 4, 16),
   CMSG_MAIL_CREATE_TEXT_ITEM |-> PlainCmsg(12, <<8, 4>>, 8 + 4, 12),
   SMSG_SPELLLOGMISS |-> [w \in OfCount |->
     Smsg(
       Free({"targets"}),
       Minimum(17) \o Null({"targets"}) \o Ints(<<4, 8, 1, 4>>)
       \o Array("targets", w.count, {}, wrath_SpellLogMiss.read),
       4 + 8 + 1 + 4 + w.count * wrath_SpellLogMiss.written, 17 + 9 * w.count)]]

wrath_FromSmsgSpelllogexecute ==
  [SMSG_SPELLLOGEXECUTE |-> [w \in Wires(Lengths, Counts, wrath_SpellLogEnums, {}) |->
     Smsg(
       Free({"logs"}),
       Minimum(9) \o Null({"logs"}) \o PackedGuid(w) \o Ints(<<4, 4>>)
       \o Array("logs", w.count, {}, wrath_SpellLog(w).read),
       WRITE_PACKED_GUID(w) + 2 * 4 + w.count * wrath_SpellLog(w).written,
       8 + wwm_packed_guid_size(w) + w.count * wrath_SpellLog(w).size)]]

wrath_FromSmsgPeriodicauralog ==
  [SMSG_PERIODICAURALOG |-> [w \in Wires(Lengths, Counts, wrath_AuraLogEnums, {}) |->
     Smsg(
       Free({"auras"}),
       Minimum(10) \o Null({"auras"}) \o PackedGuid(w) \o PackedGuid(w) \o Ints(<<4, 4>>)
       \o Array("auras", w.count, {}, wrath_AuraLog(w).read),
       2 * WRITE_PACKED_GUID(w) + 2 * 4 + w.count * wrath_AuraLog(w).written,
       8 + 2 * wwm_packed_guid_size(w) + w.count * wrath_AuraLog(w).size)],
   SMSG_SPELLDAMAGESHIELD |-> PlainSmsg(32, <<8, 8, 4, 4, 4, 4>>, 2 * 8 + 4 * 4, 32)]

wrath_FromSmsgSpellnonmeleedamagelog ==
  [SMSG_SPELLNONMELEEDAMAGELOG |-> [w \in OfLength |->
     Smsg(
       {},
       Minimum(34) \o PackedGuid(w) \o PackedGuid(w) \o Ints(<<4, 4, 4, 1, 4, 4, 1, 1, 4, 4, 1>>),
       2 * WRITE_PACKED_GUID(w) + 3 * 4 + 1 + 2 * 4 + 2 * 1 + 2 * 4 + 1,
       32 + 2 * wwm_packed_guid_size(w))],
   CMSG_LEARN_TALENT |-> PlainCmsg(8, <<4, 4>>, 2 * 4, 8)]

wrath_FromSmsgResurrectFailed ==
  [SMSG_RESURRECT_FAILED |-> PlainSmsg(4, <<4>>, 4, 4),
   CMSG_TOGGLE_PVP |-> [w \in Wires({0}, {0}, {}, {"set"}) |->
     Cmsg(Free({"set"}), Null({"set"}) \o Optional("set", {}, Ints(<<1>>)),
          Bytes(Is(w, "set"), 1), Bytes(Is(w, "set"), 1))],
   SMSG_ZONE_UNDER_ATTACK |-> PlainSmsg(4, <<4>>, 4, 4)]

wrath_FromMsgAuctionHello ==
  [MSG_AUCTION_HELLO_Client |-> PlainCmsg(8, <<8>>, 8, 8),
   MSG_AUCTION_HELLO_Server |-> PlainSmsg(13, <<8, 4, 1>>, 8 + 4 + 1, 13),
   CMSG_AUCTION_SELL_ITEM |-> PlainCmsg(36, <<8, 4, 8, 4, 4, 4, 4>>, 8 + 4 + 8 + 4 * 4, 36)]

wrath_FromCmsgAuctionRemoveItem ==
  [CMSG_AUCTION_REMOVE_ITEM |-> PlainCmsg(12, <<8, 4>>, 8 + 4, 12),
   CMSG_AUCTION_LIST_ITEMS |-> [w \in OfLengthAndCount |->
     Cmsg(
       Free({"searched_name", "sorted_auctions"}),
       Minimum(34) \o Null({"searched_name", "sorted_auctions"}) \o Ints(<<8, 4>>)
       \o Cstring("searched_name", w) \o Ints(<<1, 1, 4, 4, 4, 4, 1, 1, 1>>)
       \o Array("sorted_auctions", w.count, {}, wrath_AuctionSort.read),
       8 + 4 + WRITE_CSTRING(w) + 2 * 1 + 4 * 4 + 3 * 1 + w.count * wrath_AuctionSort.written,
       34 + w.len + 2 * w.count)]]

wrath_FromCmsgAuctionListOwnerItems ==
  [CMSG_AUCTION_LIST_OWNER_ITEMS |-> PlainCmsg(12, <<8, 4>>, 8 + 4, 12),
   CMSG_AUCTION_PLACE_BID |-> PlainCmsg(16, <<8, 4, 4>>, 8 + 2 * 4, 16),
   SMSG_AUCTION_COMMAND_RESULT |->
     [w \in Wires({0}, {0}, {{"AUCTION_COMMAND_RESULT_ERR_INVENTORY", "AUCTION_COMMAND_RESULT_OK"}},
                  {}) |->
       Smsg(
         {},
         Minimum(12) \o Ints(<<4, 4, 4>>)
         \o When(Is(w, "AUCTION_COMMAND_RESULT_ERR_INVENTORY"), Ints(<<1>>)),
         3 * 4 + Bytes(Is(w, "AUCTION_COMMAND_RESULT_ERR_INVENTORY"), 1),
         12 + Bytes(Is(w, "AUCTION_COMMAND_RESULT_ERR_INVENTORY"), 1))]]

wrath_FromSmsgAuctionListResult ==
  [SMSG_AUCTION_LIST_RESULT |-> [w \in OfCount |->
     Smsg(
       Free({"auctions"}),
       Minimum(12) \o Null({"auctions"}) \o Ints(<<4>>)
       \o Array("auctions", w.count, {}, wrath_AuctionListItem.read) \o Ints(<<4, 4>>),
       4 + w.count * wrath_AuctionListItem.written + 2 * 4, 12 + 148 * w.count)],
   SMSG_AUCTION_OWNER_LIST_RESULT |-> [w \in OfCount |->
     Smsg(
       Free({"auctions"}),
       Minimum(12) \o Null({"auctions"}) \o Ints(<<4>>)
       \o Array("auctions", w.count, {}, wrath_AuctionListItem.read) \o Ints(<<4, 4>>),
       4 + w.count * wrath_AuctionListItem.written + 2 * 4, 12 + 148 * w.count)]]

wrath_FromSmsgAuctionBidderNotification ==
  [SMSG_AUCTION_BIDDER_NOTIFICATION |->
     PlainSmsg(36, <<4, 4, 8>> \o Repeat(5, 4), 2 * 4 + 8 + 5 * 4, 36),
   SMSG_AUCTION_OWNER_NOTIFICATION |->
     PlainSmsg(32, <<4, 4, 4, 8, 4, 4, 4>>, 3 * 4 + 8 + 3 * 4, 32)]

wrath_FromSmsgProcresist ==
  [SMSG_PROCRESIST |-> PlainSmsg(21, <<8, 8, 4, 1>>, 2 * 8 + 4 + 1, 21),
   SMSG_DISPEL_FAILED |-> [w \in OfCount |->
     Smsg(
       Free({"spells"}),
       Counted(16, Minimum(16) \o Null({"spells"}) \o Ints(<<8, 8>>))
       \o Endless("spells", w.count, {}, Ints(<<4>>), 4), 2 * 8 + w.count * 4, 16 + 4 * w.count)]]

wrath_FromSmsgSpellordamageImmune ==
  [SMSG_SPELLORDAMAGE_IMMUNE |-> PlainSmsg(21, <<8, 8, 4, 1>>, 2 * 8 + 4 + 1, 21),
   CMSG_AUCTION_LIST_BIDDER_ITEMS |-> [w \in OfCount |->
     Cmsg(
       Free({"outbid_item_ids"}),
       Minimum(16) \o Null({"outbid_item_ids"}) \o Ints(<<8, 4, 4>>)
       \o Calloc("outbid_item_ids", w.count, {}) \o Ints(Repeat(w.count, 4)),
       8 + 2 * 4 + w.count * 4, 16 + 4 * w.count)]]

wrath_FromSmsgAuctionBidderListResult ==
  [SMSG_AUCTION_BIDDER_LIST_RESULT |-> wrath_FromSmsgAuctionListResult.SMSG_AUCTION_LIST_RESULT,
   SMSG_SET_FLAT_SPELL_MODIFIER |-> PlainSmsg(6, <<1, 1, 4>>, 2 * 1 + 4, 6),
   SMSG_SET_PCT_SPELL_MODIFIER |-> PlainSmsg(6, <<1, 1, 4>>, 2 * 1 + 4, 6)]

wrath_FromCmsgSetAmmo ==
  [CMSG_SET_AMMO |-> PlainCmsg(4, <<4>>, 4, 4),
   SMSG_CORPSE_RECLAIM_DELAY |-> PlainSmsg(4, <<4>>, 4, 4),
   CMSG_SET_ACTIVE_MOVER |-> PlainCmsg(8, <<8>>, 8, 8),
   CMSG_PET_CANCEL_AURA |-> PlainCmsg(12, <<8, 4>>, 8 + 4, 12)]

wrath_FromCmsgCancelAutoRepeatSpell ==
  [CMSG_CANCEL_AUTO_REPEAT_SPELL |-> EmptyCmsg(0),
   MSG_LIST_STABLED_PETS_Client |-> PlainCmsg(8, <<8>>, 8, 8),
   MSG_LIST_STABLED_PETS_Server |-> [w \in OfLengthAndCount |->
     Smsg(
       FreeEach("pets", w.count, wrath_StabledPet(w).free),
       Minimum(10) \o Null({"pets"}) \o Ints(<<8, 1, 1>>)
       \o Array("pets", w.count, wrath_StabledPet(w).free, wrath_StabledPet(w).read),
       8 + 2 * 1 + w.count * wrath_StabledPet(w).written, 10 + w.count * wrath_StabledPet(w).size)]]

wrath_FromCmsgStablePet ==
  [CMSG_STABLE_PET |-> PlainCmsg(8, <<8>>, 8, 8),
   CMSG_UNSTABLE_PET |-> PlainCmsg(12, <<8, 4>>, 8 + 4, 12),
   CMSG_BUY_STABLE_SLOT |-> PlainCmsg(8, <<8>>, 8, 8),
   SMSG_STABLE_RESULT |-> PlainSmsg(1, <<1>>, 1, 1)]

wrath_FromCmsgStableSwapPet ==
  [CMSG_STABLE_SWAP_PET |-> PlainCmsg(12, <<8, 4>>, 8 + 4, 12),
   MSG_QUEST_PUSH_RESULT_cmsg |-> [w \in {Fixed} |-> Client(wrath_MSG_QUEST_PUSH_RESULT)],
   MSG_QUEST_PUSH_RESULT_smsg |-> [w \in {Fixed} |-> Server(wrath_MSG_QUEST_PUSH_RESULT)],
   SMSG_PLAY_MUSIC |-> PlainSmsg(4, <<4>>, 4, 4)]

wrath_FromSmsgPlayObjectSound ==
  [SMSG_PLAY_OBJECT_SOUND |-> PlainSmsg(12, <<4, 8>>, 4 + 8, 12),
   CMSG_REQUEST_PET_INFO |-> EmptyCmsg(0),
   CMSG_FAR_SIGHT |-> PlainCmsg(1, <<1>>, 1, 1)]

wrath_FromSmsgSpelldispellog ==
  [SMSG_SPELLDISPELLOG |-> [w \in OfLengthAndCount |->
     Smsg(
       Free({"spells"}),
       Minimum(11) \o Null({"spells"}) \o PackedGuid(w) \o PackedGuid(w) \o Ints(<<4, 1, 4>>)
       \o Array("spells", w.count, {}, wrath_DispelledSpell.read),
       2 * WRITE_PACKED_GUID(w) + 4 + 1 + 4 + w.count * wrath_DispelledSpell.written,
       9 + 2 * wwm_packed_guid_size(w) + 5 * w.count)],
   CMSG_GROUP_CHANGE_SUB_GROUP |-> [w \in OfLength |->
     Cmsg(Free({"name"}), Minimum(2) \o Null({"name"}) \o Cstring("name", w) \o Ints(<<1>>),
          WRITE_CSTRING(w) + 1, 2 + w.len)]]

wrath_FromCmsgRequestPartyMemberStats ==
  [CMSG_REQUEST_PARTY_MEMBER_STATS |-> PlainCmsg(8, <<8>>, 8, 8),
   CMSG_GROUP_SWAP_SUB_GROUP |-> [w \in OfLength |->
     Cmsg(Free({"name", "swap_with_name"}),
          Minimum(2) \o Null({"name", "swap_with_name"}) \o Cstring("name", w)
          \o Cstring("swap_with_name", w), 2 * WRITE_CSTRING(w), 2 + 2 * w.len)],
   CMSG_AUTOSTORE_BANK_ITEM |-> PlainCmsg(2, <<1, 1>>, 2 * 1, 2)]

wrath_FromCmsgAutobankItem ==
  [CMSG_AUTOBANK_ITEM |-> PlainCmsg(2, <<1, 1>>, 2 * 1, 2),
   MSG_QUERY_NEXT_MAIL_TIME_Client |-> EmptyCmsg(0),
   MSG_QUERY_NEXT_MAIL_TIME_Server |-> [w \in OfCount |->
     Smsg(
       Free({"mails"}),
       Minimum(8) \o Null({"mails"}) \o Ints(<<4, 4>>)
       \o Array("mails", w.count, {}, wrath_ReceivedMail.read),
       2 * 4 + w.count * wrath_ReceivedMail.written, 8 + 24 * w.count)],
   SMSG_RECEIVED_MAIL |-> PlainSmsg(4, <<4>>, 4, 4)]

wrath_FromSmsgRaidGroupOnly ==
  [SMSG_RAID_GROUP_ONLY |-> PlainSmsg(8, <<4, 4>>, 2 * 4, 8),
   SMSG_PVP_CREDIT |-> PlainSmsg(16, <<4, 8, 4>>, 4 + 8 + 4, 16),
   SMSG_AUCTION_REMOVED_NOTIFICATION |-> PlainSmsg(12, <<4, 4, 4>>, 3 * 4, 12),
   CMSG_GROUP_RAID_CONVERT |-> EmptyCmsg(0)]

wrath_FromCmsgGroupAssistantLeader ==
  [CMSG_GROUP_ASSISTANT_LEADER |-> PlainCmsg(9, <<8, 1>>, 8 + 1, 9),
   CMSG_BUYBACK_ITEM |-> PlainCmsg(12, <<8, 4>>, 8 + 4, 12),
   SMSG_SERVER_MESSAGE |-> [w \in OfLength |->
     Smsg(
       Free({"message"}), Minimum(5) \o Null({"message"}) \o Ints(<<4>>) \o Cstring("message", w),
       4 + WRITE_CSTRING(w), 5 + w.len)]]

wrath_FromCmsgSetSavedInstanceExtend ==
  [CMSG_SET_SAVED_INSTANCE_EXTEND |-> PlainCmsg(6, <<4, 1, 1>>, 4 + 2 * 1, 6),
   SMSG_LFG_OFFER_CONTINUE |-> PlainSmsg(4, <<4>>, 4, 4),
   CMSG_LFG_GET_STATUS |-> EmptyCmsg(0),
   SMSG_SHOW_MAILBOX |-> PlainSmsg(8, <<8>>, 8, 8),
   CMSG_GMTICKETSYSTEM_TOGGLE |-> EmptyCmsg(0)]

wrath_FromCmsgCancelGrowthAura ==
  [CMSG_CANCEL_GROWTH_AURA |-> EmptyCmsg(0),
   SMSG_CANCEL_AUTO_REPEAT |-> [w \in OfLength |->
     Smsg({}, Minimum(1) \o PackedGuid(w), WRITE_PACKED_GUID(w), wwm_packed_guid_size(w))],
   SMSG_STANDSTATE_UPDATE |-> PlainSmsg(1, <<1>>, 1, 1),
   SMSG_LOOT_ALL_PASSED |-> PlainSmsg(24, <<8, 4, 4, 4, 4>>, 8 + 4 * 4, 24)]

wrath_FromSmsgLootRollWon ==
  [SMSG_LOOT_ROLL_WON |-> PlainSmsg(34, <<8, 4, 4, 4, 4, 8, 1, 1>>, 8 + 4 * 4 + 8 + 2 * 1, 34),
   CMSG_LOOT_ROLL |-> PlainCmsg(13, <<8, 4, 1>>, 8 + 4 + 1, 13)]

wrath_FromSmsgLootStartRoll ==
  [SMSG_LOOT_START_ROLL |-> PlainSmsg(33, <<8>> \o Repeat(6, 4) \o <<1>>, 8 + 6 * 4 + 1, 33),
   SMSG_LOOT_ROLL |-> PlainSmsg(35, <<8, 4, 8, 4, 4, 4, 1, 1, 1>>, 8 + 4 + 8 + 3 * 4 + 3 * 1, 35)]

wrath_FromCmsgLootMasterGive ==
  [CMSG_LOOT_MASTER_GIVE |-> PlainCmsg(17, <<8, 1, 8>>, 8 + 1 + 8, 17),
   SMSG_LOOT_MASTER_LIST |-> [w \in OfCount |->
     Smsg(Free({"guids"}),
          Minimum(1) \o Null({"guids"}) \o Ints(<<1>>) \o Calloc("guids", w.count, {})
          \o Ints(Repeat(w.count, 8)), 1 + w.count * 8, 1 + 8 * w.count)]]

wrath_FromSmsgSetForcedReactions ==
  [SMSG_SET_FORCED_REACTIONS |-> [w \in OfCount |->
     Smsg(
       Free({"reactions"}),
       Minimum(4) \o Null({"reactions"}) \o Ints(<<4>>)
       \o Array("reactions", w.count, {}, wrath_ForcedReaction.read),
       4 + w.count * wrath_ForcedReaction.written, 4 + 6 * w.count)],
   SMSG_SPELL_FAILED_OTHER |-> PlainSmsg(12, <<8, 4>>, 8 + 4, 12),
   CMSG_REPAIR_ITEM |-> PlainCmsg(17, <<8, 8, 1>>, 2 * 8 + 1, 17)]

wrath_FromSmsgChatPlayerNotFound ==
  [SMSG_CHAT_PLAYER_NOT_FOUND |-> [w \in OfLength |->
     Smsg(Free({"name"}), Minimum(1) \o Null({"name"}) \o Cstring("name", w),
          WRITE_CSTRING(w), 1 + w.len)],
   MSG_TALENT_WIPE_CONFIRM_Client |-> PlainCmsg(8, <<8>>, 8, 8),
   MSG_TALENT_WIPE_CONFIRM_Server |-> PlainSmsg(12, <<8, 4>>, 8 + 4, 12)]

wrath_FromSmsgSummonRequest ==
  [SMSG_SUMMON_REQUEST |-> PlainSmsg(16, <<8, 4, 4>>, 8 + 2 * 4, 16),
   CMSG_SUMMON_RESPONSE |-> PlainCmsg(9, <<8, 1>>, 8 + 1, 9)]

wrath_FromSmsgMonsterMoveTransport ==
  [SMSG_MONSTER_MOVE_TRANSPORT |->
     [w \in Wires(Lengths, Counts,
                  {{"MONSTER_MOVE_TYPE_FACING_TARGET", "MONSTER_MOVE_TYPE_FACING_ANGLE",
                    "MONSTER_MOVE_TYPE_FACING_SPOT", "MONSTER_MOVE_TYPE_NORMAL"}},
                  {"SPLINE_FLAG_ENTER_CYCLE", "SPLINE_FLAG_PARABOLIC"}) |->
       Smsg(
         FreeSpline("splines"),
         Minimum(32) \o At(<<"splines">>, Null({"splines"})) \o PackedGuid(w) \o PackedGuid(w)
         \o Ints(<<1>>) \o Vector3d.read \o Ints(<<4, 1>>)
         \o When(Is(w, "MONSTER_MOVE_TYPE_FACING_TARGET"), Ints(<<8>>))
         \o When(Is(w, "MONSTER_MOVE_TYPE_FACING_ANGLE"), Ints(<<4>>))
         \o When(Is(w, "MONSTER_MOVE_TYPE_FACING_SPOT"), Vector3d.read) \o Ints(<<4>>)
         \o When(Is(w, "SPLINE_FLAG_ENTER_CYCLE"), Ints(<<4, 4>>)) \o Ints(<<4>>)
         \o When(Is(w, "SPLINE_FLAG_PARABOLIC"), Ints(<<4, 4>>)) \o MonsterMoveSpline("splines", w),
         2 * WRITE_PACKED_GUID(w) + 1 + Vector3d.written + 4 + 1
         + Bytes(Is(w, "MONSTER_MOVE_TYPE_FACING_TARGET"), 8)
         + Bytes(Is(w, "MONSTER_MOVE_TYPE_FACING_ANGLE"), 4)
         + Bytes(Is(w, "MONSTER_MOVE_TYPE_FACING_SPOT"), Vector3d.written) + 4
         + Bytes(Is(w, "SPLINE_FLAG_ENTER_CYCLE"), 2 * 4) + 4
         + Bytes(Is(w, "SPLINE_FLAG_PARABOLIC"), 2 * 4) + WRITE_MONSTER_MOVE_SPLINE(w),
         26 + 2 * wwm_packed_guid_size(w) + wwm_monster_move_spline_size(w)
         + Bytes(Is(w, "MONSTER_MOVE_TYPE_FACING_TARGET"), 8)
         + Bytes(Is(w, "MONSTER_MOVE_TYPE_FACING_ANGLE"), 4)
         + Bytes(Is(w, "MONSTER_MOVE_TYPE_FACING_SPOT"), 12)
         + Bytes(Is(w, "SPLINE_FLAG_ENTER_CYCLE"), 8) + Bytes(Is(w, "SPLINE_FLAG_PARABOLIC"), 8))]]

wrath_FromSmsgPetBroken ==
  [SMSG_PET_BROKEN |-> EmptySmsg(0),
   MSG_MOVE_FEATHER_FALL_Server |-> [w \in Wires(Lengths, {0}, {}, wrath_MovementInfoFlags) |->
     Smsg({}, Minimum(31) \o PackedGuid(w) \o wrath_MovementInfo(w).read,
          WRITE_PACKED_GUID(w) + wrath_MovementInfo(w).written,
          wwm_packed_guid_size(w) + wrath_MovementInfo(w).size)],
   MSG_MOVE_WATER_WALK_cmsg |-> [w \in Wires(Lengths, {0}, {}, wrath_MovementInfoFlags) |->
     Client(wrath_MSG_MOVE_WATER_WALK(w))],
   MSG_MOVE_WATER_WALK_smsg |-> [w \in Wires(Lengths, {0}, {}, wrath_MovementInfoFlags) |->
     Server(wrath_MSG_MOVE_WATER_WALK(w))],
   CMSG_SELF_RES |-> EmptyCmsg(0)]

wrath_FromSmsgFeignDeathResisted ==
  [SMSG_FEIGN_DEATH_RESISTED |-> EmptySmsg(0),
   SMSG_DUEL_COUNTDOWN |-> PlainSmsg(4, <<4>>, 4, 4),
   SMSG_AREA_TRIGGER_MESSAGE |-> [w \in OfLength |->
     Smsg(Free({"message"}), Minimum(5) \o Null({"message"}) \o SizedCstring("message", w),
          WRITE_SIZED_CSTRING(w), 5 + w.len)],
   CMSG_TOGGLE_HELM |-> EmptyCmsg(0),
   CMSG_TOGGLE_CLOAK |-> EmptyCmsg(0)]

wrath_FromSmsgLfgRoleChosen ==
  [SMSG_LFG_ROLE_CHOSEN |-> PlainSmsg(13, <<8, 1, 4>>, 8 + 1 + 4, 13),
   SMSG_PLAYER_SKINNED |-> PlainSmsg(1, <<1>>, 1, 1),
   SMSG_DURABILITY_DAMAGE_DEATH |-> EmptySmsg(0),
   CMSG_SET_ACTIONBAR_TOGGLES |-> PlainCmsg(1, <<1>>, 1, 1)]

wrath_FromMsgPetitionRename ==
  [MSG_PETITION_RENAME_cmsg |-> [w \in OfLength |->
     Client(wrath_MSG_PETITION_RENAME(w))],
   MSG_PETITION_RENAME_smsg |-> [w \in OfLength |->
     Server(wrath_MSG_PETITION_RENAME(w))],
   SMSG_INIT_WORLD_STATES |-> [w \in OfCount |->
     Smsg(
       Free({"states"}),
       Minimum(14) \o Null({"states"}) \o Ints(<<4, 4, 4, 2>>)
       \o Array("states", w.count, {}, wrath_WorldState.read),
       3 * 4 + 2 + w.count * wrath_WorldState.written, 14 + 8 * w.count)],
   SMSG_UPDATE_WORLD_STATE |-> [w \in {Fixed} |->
     Smsg({}, Minimum(8) \o wrath_WorldState.read, wrath_WorldState.written, 8)]]

wrath_FromCmsgItemNameQuery ==
  [CMSG_ITEM_NAME_QUERY |-> PlainCmsg(12, <<4, 8>>, 4 + 8, 12),
   SMSG_ITEM_NAME_QUERY_RESPONSE |-> [w \in OfLength |->
     Smsg(Free({"item_name"}),
          Minimum(6) \o Null({"item_name"}) \o Ints(<<4>>) \o Cstring("item_name", w)
          \o Ints(<<1>>), 4 + WRITE_CSTRING(w) + 1, 6 + w.len)],
   SMSG_PET_ACTION_FEEDBACK |-> PlainSmsg(1, <<1>>, 1, 1)]

wrath_FromCmsgCharRename ==
  [CMSG_CHAR_RENAME |-> [w \in OfLength |->
     Cmsg(Free({"new_name"}),
          Minimum(9) \o Null({"new_name"}) \o Ints(<<8>>) \o Cstring("new_name", w),
          8 + WRITE_CSTRING(w), 9 + w.len)],
   SMSG_CHAR_RENAME |->
     [w \in Wires(Lengths, {0}, {{"WORLD_RESULT_RESPONSE_SUCCESS", "WORLD_RESULT_RESPONSE_FAILURE"}},
                  {}) |->
       Smsg(
         FreeIf("result", {"WORLD_RESULT_RESPONSE_SUCCESS"}, Free({"new_name"})),
         Minimum(1) \o Null({"new_name"})
         \o Field(1, "result", {"WORLD_RESULT_RESPONSE_SUCCESS"}, w)
         \o When(Is(w, "WORLD_RESULT_RESPONSE_SUCCESS"), Ints(<<8>>) \o Cstring("new_name", w)),
         1 + Bytes(Is(w, "WORLD_RESULT_RESPONSE_SUCCESS"), 8 + WRITE_CSTRING(w)),
         1 + Bytes(Is(w, "WORLD_RESULT_RESPONSE_SUCCESS"), 9 + w.len))]]

wrath_FromCmsgMoveSplineDone ==
  [CMSG_MOVE_SPLINE_DONE |-> [w \in Wires(Lengths, {0}, {}, wrath_MovementInfoFlags) |->
     Cmsg({}, Minimum(34) \o wrath_MovementInfo(w).read \o Ints(<<4>>),
          wrath_MovementInfo(w).written + 4, 4 + wrath_MovementInfo(w).size)],
   CMSG_MOVE_FALL_RESET |-> [w \in Wires(Lengths, {0}, {}, wrath_MovementInfoFlags) |->
     Cmsg({}, Minimum(30) \o wrath_MovementInfo(w).read,
          wrath_MovementInfo(w).written, wrath_MovementInfo(w).size)],
   SMSG_INSTANCE_SAVE_CREATED |-> PlainSmsg(4, <<4>>, 4, 4)]

wrath_FromSmsgRaidInstanceInfo ==
  [SMSG_RAID_INSTANCE_INFO |-> [w \in OfCount |->
     Smsg(
       Free({"raid_infos"}),
       Minimum(4) \o Null({"raid_infos"}) \o Ints(<<4>>)
       \o Array("raid_infos", w.count, {}, wrath_RaidInfo.read),
       4 + w.count * wrath_RaidInfo.written, 4 + 22 * w.count)],
   CMSG_REQUEST_RAID_INFO |-> EmptyCmsg(0),
   CMSG_MOVE_TIME_SKIPPED |-> [w \in OfLength |->
     Cmsg({}, Minimum(5) \o PackedGuid(w) \o Ints(<<4>>),
          WRITE_PACKED_GUID(w) + 4, 4 + wwm_packed_guid_size(w))]]

wrath_FromCmsgMoveFeatherFallAck ==
  [CMSG_MOVE_FEATHER_FALL_ACK |-> wrath_FromSmsgMoveSetHover.CMSG_MOVE_HOVER_ACK,
   CMSG_MOVE_WATER_WALK_ACK |-> wrath_FromSmsgMoveSetHover.CMSG_MOVE_HOVER_ACK,
   CMSG_MOVE_NOT_ACTIVE_MOVER |-> [w \in Wires(Lengths, {0}, {}, wrath_MovementInfoFlags) |->
     Cmsg({}, Minimum(38) \o Ints(<<8>>) \o wrath_MovementInfo(w).read,
          8 + wrath_MovementInfo(w).written, 8 + wrath_MovementInfo(w).size)]]

wrath_FromSmsgPlaySound ==
  [SMSG_PLAY_SOUND |-> PlainSmsg(4, <<4>>, 4, 4),
   CMSG_BATTLEFIELD_STATUS |-> EmptyCmsg(0)]

wrath_FromSmsgBattlefieldStatus ==
  [SMSG_BATTLEFIELD_STATUS |->
     [w \in Wires({0}, {0},
                  {{"STATUS_ID_WAIT_QUEUE", "STATUS_ID_WAIT_JOIN", "STATUS_ID_IN_PROGRESS",
                    "STATUS_ID_NONE"}}, {}) |->
       Smsg(
         {},
         Minimum(20) \o Ints(<<4, 1, 1, 4, 2, 1, 1, 4, 1, 1>>)
         \o When(Is(w, "STATUS_ID_WAIT_QUEUE"), Ints(<<4, 4>>))
         \o When(Is(w, "STATUS_ID_WAIT_JOIN"), Ints(<<4, 8, 4>>))
         \o When(Is(w, "STATUS_ID_IN_PROGRESS"), Ints(<<4, 8, 4, 4, 1>>)),
         4 + 2 * 1 + 4 + 2 + 2 * 1 + 4 + 2 * 1 + Bytes(Is(w, "STATUS_ID_WAIT_QUEUE"), 2 * 4)
         + Bytes(Is(w, "STATUS_ID_WAIT_JOIN"), 4 + 8 + 4)
         + Bytes(Is(w, "STATUS_ID_IN_PROGRESS"), 4 + 8 + 2 * 4 + 1),
         20 + Bytes(Is(w, "STATUS_ID_WAIT_QUEUE"), 8) + Bytes(Is(w, "STATUS_ID_WAIT_JOIN"), 16)
         + Bytes(Is(w, "STATUS_ID_IN_PROGRESS"), 21))]]

wrath_FromCmsgBattlefieldPort ==
  [CMSG_BATTLEFIELD_PORT |-> PlainCmsg(9, <<1, 1, 4, 2, 1>>, 2 * 1 + 4 + 2 + 1, 9),
   MSG_INSPECT_HONOR_STATS_Client |-> PlainCmsg(8, <<8>>, 8, 8),
   MSG_INSPECT_HONOR_STATS_Server |-> PlainSmsg(25, <<8, 1, 4, 4, 4, 4>>, 8 + 1 + 4 * 4, 25)]

wrath_FromCmsgBattlemasterHello ==
  [CMSG_BATTLEMASTER_HELLO |-> PlainCmsg(8, <<8>>, 8, 8),
   SMSG_FORCE_WALK_SPEED_CHANGE |-> [w \in OfLength |->
     Smsg({}, Minimum(9) \o PackedGuid(w) \o Ints(<<4, 4>>),
          WRITE_PACKED_GUID(w) + 2 * 4, 8 + wwm_packed_guid_size(w))],
   CMSG_FORCE_WALK_SPEED_CHANGE_ACK |->
     wrath_FromSmsgForceRunSpeedChange.CMSG_FORCE_RUN_SPEED_CHANGE_ACK]

wrath_FromSmsgForceSwimBackSpeedChange ==
  [SMSG_FORCE_SWIM_BACK_SPEED_CHANGE |-> [w \in OfLength |->
     Smsg({}, Minimum(9) \o PackedGuid(w) \o Ints(<<4, 4>>),
          WRITE_PACKED_GUID(w) + 2 * 4, 8 + wwm_packed_guid_size(w))],
   CMSG_FORCE_SWIM_BACK_SPEED_CHANGE_ACK |->
     wrath_FromSmsgForceRunSpeedChange.CMSG_FORCE_RUN_SPEED_CHANGE_ACK,
   SMSG_FORCE_TURN_RATE_CHANGE |-> [w \in OfLength |->
     Smsg({}, Minimum(9) \o PackedGuid(w) \o Ints(<<4, 4>>),
          WRITE_PACKED_GUID(w) + 2 * 4, 8 + wwm_packed_guid_size(w))]]

wrath_FromCmsgForceTurnRateChangeAck ==
  [CMSG_FORCE_TURN_RATE_CHANGE_ACK |->
     wrath_FromSmsgForceRunSpeedChange.CMSG_FORCE_RUN_SPEED_CHANGE_ACK,
   MSG_PVP_LOG_DATA_Client |-> EmptyCmsg(0),
   CMSG_LEAVE_BATTLEFIELD |-> PlainCmsg(8, <<1, 1, 4, 2>>, 2 * 1 + 4 + 2, 8),
   CMSG_AREA_SPIRIT_HEALER_QUERY |-> PlainCmsg(8, <<8>>, 8, 8)]

wrath_FromCmsgAreaSpiritHealerQueue ==
  [CMSG_AREA_SPIRIT_HEALER_QUEUE |-> PlainCmsg(8, <<8>>, 8, 8),
   SMSG_AREA_SPIRIT_HEALER_TIME |-> PlainSmsg(12, <<8, 4>>, 8 + 4, 12),
   SMSG_WARDEN_DATA |-> [w \in OfCount |->
     Smsg(Free({"encrypted_data"}),
          Null({"encrypted_data"}) \o Endless("encrypted_data", w.count, {}, Ints(<<1>>), 1),
          w.count, w.count)]]

wrath_FromCmsgWardenData ==
  [CMSG_WARDEN_DATA |-> [w \in OfCount |->
     Cmsg(Free({"encrypted_data"}),
          Null({"encrypted_data"}) \o Endless("encrypted_data", w.count, {}, Ints(<<1>>), 1),
          w.count, w.count)],
   SMSG_GROUP_JOINED_BATTLEGROUND |-> PlainSmsg(4, <<4>>, 4, 4),
   MSG_BATTLEGROUND_PLAYER_POSITIONS_Client |-> EmptyCmsg(0)]

wrath_FromMsgBattlegroundPlayerPositions ==
  [MSG_BATTLEGROUND_PLAYER_POSITIONS_Server |-> [w \in OfCount |->
     Smsg(
       Free({"teammates", "carriers"}),
       Minimum(5) \o Null({"teammates", "carriers"}) \o Ints(<<4>>)
       \o Array("teammates", w.count, {}, wrath_BattlegroundPlayerPosition.read) \o Ints(<<1>>)
       \o Array("carriers", w.count, {}, wrath_BattlegroundPlayerPosition.read),
       4 + w.count * wrath_BattlegroundPlayerPosition.written + 1
       + w.count * wrath_BattlegroundPlayerPosition.written, 5 + 16 * w.count + 16 * w.count)],
   CMSG_PET_STOP_ATTACK |-> PlainCmsg(8, <<8>>, 8, 8),
   SMSG_BINDER_CONFIRM |-> PlainSmsg(12, <<8, 4>>, 8 + 4, 12)]

wrath_FromSmsgBattlegroundPlayerJoined ==
  [SMSG_BATTLEGROUND_PLAYER_JOINED |-> PlainSmsg(8, <<8>>, 8, 8),
   SMSG_BATTLEGROUND_PLAYER_LEFT |-> PlainSmsg(8, <<8>>, 8, 8),
   CMSG_BATTLEMASTER_JOIN |-> PlainCmsg(17, <<8, 4, 4, 1>>, 8 + 2 * 4 + 1, 17)]

wrath_FromCmsgPetUnlearn ==
  [CMSG_PET_UNLEARN |-> PlainCmsg(8, <<8>>, 8, 8),
   SMSG_PET_UNLEARN_CONFIRM |-> PlainSmsg(12, <<8, 4>>, 8 + 4, 12)]

wrath_FromSmsgPartyMemberStatsFull ==
  [SMSG_PARTY_MEMBER_STATS_FULL |-> wrath_FromSmsgPartyMemberStats.SMSG_PARTY_MEMBER_STATS]

wrath_FromCmsgPetSpellAutocast ==
  [CMSG_PET_SPELL_AUTOCAST |-> PlainCmsg(13, <<8, 4, 1>>, 8 + 4 + 1, 13),
   SMSG_WEATHER |-> PlainSmsg(9, <<4, 4, 1>>, 2 * 4 + 1, 9),
   SMSG_RAID_INSTANCE_MESSAGE |-> PlainSmsg(16, <<4, 4, 4, 4>>, 4 * 4, 16)]

wrath_FromSmsgCompressedMoves ==
  [SMSG_COMPRESSED_MOVES |-> [w \in OfLengthAndCount |->
     CompressedSmsg(
       Free({"moves"}),
       Counted(4, Minimum(4) \o Null({"moves"}) \o Ints(<<4>>)) \o Inflate
       \o Counted(4, Ints(<<4>>))
       \o InflatedEndless("moves", w.count, {}, wrath_MiniMoveMessage(w).read) \o FreeInflated,
       4 + w.count * wrath_MiniMoveMessage(w).written)]]

wrath_FromCmsgGuildInfoText ==
  [CMSG_GUILD_INFO_TEXT |-> [w \in OfLength |->
     Cmsg(Free({"guild_info"}), Minimum(1) \o Null({"guild_info"}) \o Cstring("guild_info", w),
          WRITE_CSTRING(w), 1 + w.len)],
   SMSG_CHAT_RESTRICTED |-> PlainSmsg(1, <<1>>, 1, 1),
   SMSG_SPLINE_SET_RUN_SPEED |-> [w \in OfLength |->
     Smsg({}, Minimum(5) \o PackedGuid(w) \o Ints(<<4>>),
          WRITE_PACKED_GUID(w) + 4, 4 + wwm_packed_guid_size(w))]]

wrath_FromSmsgSplineSetRunBackSpeed ==
  [SMSG_SPLINE_SET_RUN_BACK_SPEED |-> [w \in OfLength |->
     Smsg({}, Minimum(5) \o PackedGuid(w) \o Ints(<<4>>),
          WRITE_PACKED_GUID(w) + 4, 4 + wwm_packed_guid_size(w))],
   SMSG_SPLINE_SET_SWIM_SPEED |-> [w \in OfLength |->
     Smsg({}, Minimum(5) \o PackedGuid(w) \o Ints(<<4>>),
          WRITE_PACKED_GUID(w) + 4, 4 + wwm_packed_guid_size(w))],
   SMSG_SPLINE_SET_WALK_SPEED |-> [w \in OfLength |->
     Smsg({}, Minimum(5) \o PackedGuid(w) \o Ints(<<4>>),
          WRITE_PACKED_GUID(w) + 4, 4 + wwm_packed_guid_size(w))]]

wrath_FromSmsgSplineSetSwimBackSpeed ==
  [SMSG_SPLINE_SET_SWIM_BACK_SPEED |-> [w \in OfLength |->
     Smsg({}, Minimum(5) \o PackedGuid(w) \o Ints(<<4>>),
          WRITE_PACKED_GUID(w) + 4, 4 + wwm_packed_guid_size(w))],
   SMSG_SPLINE_SET_TURN_RATE |-> [w \in OfLength |->
     Smsg({}, Minimum(5) \o PackedGuid(w) \o Ints(<<4>>),
          WRITE_PACKED_GUID(w) + 4, 4 + wwm_packed_guid_size(w))],
   SMSG_SPLINE_MOVE_UNROOT |-> [w \in OfLength |->
     Smsg({}, Minimum(1) \o PackedGuid(w), WRITE_PACKED_GUID(w), wwm_packed_guid_size(w))]]

wrath_FromSmsgSplineMoveFeatherFall ==
  [SMSG_SPLINE_MOVE_FEATHER_FALL |-> [w \in OfLength |->
     Smsg({}, Minimum(1) \o PackedGuid(w), WRITE_PACKED_GUID(w), wwm_packed_guid_size(w))],
   SMSG_SPLINE_MOVE_NORMAL_FALL |-> [w \in OfLength |->
     Smsg({}, Minimum(1) \o PackedGuid(w), WRITE_PACKED_GUID(w), wwm_packed_guid_size(w))],
   SMSG_SPLINE_MOVE_SET_HOVER |-> [w \in OfLength |->
     Smsg({}, Minimum(1) \o PackedGuid(w), WRITE_PACKED_GUID(w), wwm_packed_guid_size(w))],
   SMSG_SPLINE_MOVE_UNSET_HOVER |-> [w \in OfLength |->
     Smsg({}, Minimum(1) \o PackedGuid(w), WRITE_PACKED_GUID(w), wwm_packed_guid_size(w))]]

wrath_FromSmsgSplineMoveWaterWalk ==
  [SMSG_SPLINE_MOVE_WATER_WALK |-> [w \in OfLength |->
     Smsg({}, Minimum(1) \o PackedGuid(w), WRITE_PACKED_GUID(w), wwm_packed_guid_size(w))],
   SMSG_SPLINE_MOVE_LAND_WALK |-> [w \in OfLength |->
     Smsg({}, Minimum(1) \o PackedGuid(w), WRITE_PACKED_GUID(w), wwm_packed_guid_size(w))],
   SMSG_SPLINE_MOVE_START_SWIM |-> [w \in OfLength |->
     Smsg({}, Minimum(1) \o PackedGuid(w), WRITE_PACKED_GUID(w), wwm_packed_guid_size(w))],
   SMSG_SPLINE_MOVE_STOP_SWIM |-> [w \in OfLength |->
     Smsg({}, Minimum(1) \o PackedGuid(w), WRITE_PACKED_GUID(w), wwm_packed_guid_size(w))]]

wrath_FromSmsgSplineMoveSetRunMode ==
  [SMSG_SPLINE_MOVE_SET_RUN_MODE |-> [w \in OfLength |->
     Smsg({}, Minimum(1) \o PackedGuid(w), WRITE_PACKED_GUID(w), wwm_packed_guid_size(w))],
   SMSG_SPLINE_MOVE_SET_WALK_MODE |-> [w \in OfLength |->
     Smsg({}, Minimum(1) \o PackedGuid(w), WRITE_PACKED_GUID(w), wwm_packed_guid_size(w))],
   CMSG_ACTIVATETAXIEXPRESS |-> [w \in OfCount |->
     Cmsg(Free({"nodes"}),
          Minimum(12) \o Null({"nodes"}) \o Ints(<<8, 4>>) \o Calloc("nodes", w.count, {})
          \o Ints(Repeat(w.count, 4)), 8 + 4 + w.count * 4, 12 + 4 * w.count)]]

wrath_FromCmsgSetFactionInactive ==
  [CMSG_SET_FACTION_INACTIVE |-> PlainCmsg(3, <<2, 1>>, 2 + 1, 3),
   CMSG_SET_WATCHED_FACTION |-> PlainCmsg(2, <<2>>, 2, 2),
   MSG_MOVE_TIME_SKIPPED_Server |-> [w \in OfLength |->
     Smsg({}, Minimum(5) \o PackedGuid(w) \o Ints(<<4>>),
          WRITE_PACKED_GUID(w) + 4, 4 + wwm_packed_guid_size(w))],
   SMSG_SPLINE_MOVE_ROOT |-> PlainSmsg(8, <<8>>, 8, 8)]

wrath_MidGroups ==
  <<wrath_FromCmsgQuestgiverRequestReward, wrath_FromSmsgQuestgiverOfferReward,
    wrath_FromCmsgQuestgiverChooseReward, wrath_FromSmsgQuestgiverQuestComplete,
    wrath_FromCmsgQuestlogSwapQuest, wrath_FromSmsgQuestupdateFailedtimer,
    wrath_FromSmsgQuestupdateAddItem, wrath_FromCmsgPushquesttoparty, wrath_FromCmsgSellItem,
    wrath_FromCmsgBuyItemInSlot, wrath_FromSmsgShowtaxinodes, wrath_FromSmsgTaxinodeStatus,
    wrath_FromSmsgNewTaxiPath, wrath_FromCmsgTrainerBuySpell, wrath_FromCmsgBankerActivate,
    wrath_FromCmsgPetitionShowlist, wrath_FromCmsgPetitionBuy,
    wrath_FromCmsgPetitionShowSignatures, wrath_FromSmsgPetitionSignResults,
    wrath_FromCmsgTurnInPetition, wrath_FromSmsgPetitionQueryResponse, wrath_FromSmsgFishEscaped,
    wrath_FromCmsgPlayedTime, wrath_FromSmsgLogXpgain, wrath_FromSmsgLevelupInfo,
    wrath_FromMsgMinimapPing, wrath_FromSmsgPauseMirrorTimer, wrath_FromSmsgClearCooldown,
    wrath_FromCmsgQuestPoiQuery, wrath_FromSmsgItemTimeUpdate, wrath_FromCmsgAuthSession,
    wrath_FromSmsgAuthResponse, wrath_FromCmsgPetCastSpell, wrath_FromMsgSaveGuildEmblem,
    wrath_FromSmsgPlaySpellVisual, wrath_FromSmsgCompressedUpdateObject,
    wrath_FromSmsgPlaySpellImpact, wrath_FromMsgRandomRoll, wrath_FromSmsgLfgPlayerReward,
    wrath_FromCmsgUnlearnSkill, wrath_FromCmsgGmticketCreate, wrath_FromSmsgGmticketCreate,
    wrath_FromSmsgAccountDataTimes, wrath_FromCmsgUpdateAccountData,
    wrath_FromSmsgUpdateAccountData, wrath_FromSmsgGmticketGetticket,
    wrath_FromSmsgUpdateInstanceEncounterUnit, wrath_FromMsgCorpseQuery,
    wrath_FromSmsgGmticketSystemstatus, wrath_FromSmsgGossipPoi, wrath_FromCmsgGuildRank,
    wrath_FromCmsgGuildSetPublicNote, wrath_FromCmsgSendMail, wrath_FromSmsgSendMailResult,
    wrath_FromSmsgMailListResult, wrath_FromSmsgBattlefieldList, wrath_FromCmsgItemTextQuery,
    wrath_FromCmsgMailTakeItem, wrath_FromCmsgMailDelete, wrath_FromSmsgSpelllogexecute,
    wrath_FromSmsgPeriodicauralog, wrath_FromSmsgSpellnonmeleedamagelog,
    wrath_FromSmsgResurrectFailed, wrath_FromMsgAuctionHello, wrath_FromCmsgAuctionRemoveItem,
    wrath_FromCmsgAuctionListOwnerItems, wrath_FromSmsgAuctionListResult,
    wrath_FromSmsgAuctionBidderNotification, wrath_FromSmsgProcresist,
    wrath_FromSmsgSpellordamageImmune, wrath_FromSmsgAuctionBidderListResult,
    wrath_FromCmsgSetAmmo, wrath_FromCmsgCancelAutoRepeatSpell, wrath_FromCmsgStablePet,
    wrath_FromCmsgStableSwapPet, wrath_FromSmsgPlayObjectSound, wrath_FromSmsgSpelldispellog,
    wrath_FromCmsgRequestPartyMemberStats, wrath_FromCmsgAutobankItem,
    wrath_FromSmsgRaidGroupOnly, wrath_FromCmsgGroupAssistantLeader,
    wrath_FromCmsgSetSavedInstanceExtend, wrath_FromCmsgCancelGrowthAura,
    wrath_FromSmsgLootRollWon, wrath_FromSmsgLootStartRoll, wrath_FromCmsgLootMasterGive,
    wrath_FromSmsgSetForcedReactions, wrath_FromSmsgChatPlayerNotFound,
    wrath_FromSmsgSummonRequest, wrath_FromSmsgMonsterMoveTransport, wrath_FromSmsgPetBroken,
    wrath_FromSmsgFeignDeathResisted, wrath_FromSmsgLfgRoleChosen, wrath_FromMsgPetitionRename,
    wrath_FromCmsgItemNameQuery, wrath_FromCmsgCharRename, wrath_FromCmsgMoveSplineDone,
    wrath_FromSmsgRaidInstanceInfo, wrath_FromCmsgMoveFeatherFallAck, wrath_FromSmsgPlaySound,
    wrath_FromSmsgBattlefieldStatus, wrath_FromCmsgBattlefieldPort,
    wrath_FromCmsgBattlemasterHello, wrath_FromSmsgForceSwimBackSpeedChange,
    wrath_FromCmsgForceTurnRateChangeAck, wrath_FromCmsgAreaSpiritHealerQueue,
    wrath_FromCmsgWardenData, wrath_FromMsgBattlegroundPlayerPositions,
    wrath_FromSmsgBattlegroundPlayerJoined, wrath_FromCmsgPetUnlearn,
    wrath_FromSmsgPartyMemberStatsFull, wrath_FromCmsgPetSpellAutocast,
    wrath_FromSmsgCompressedMoves, wrath_FromCmsgGuildInfoText,
    wrath_FromSmsgSplineSetRunBackSpeed, wrath_FromSmsgSplineSetSwimBackSpeed,
    wrath_FromSmsgSplineMoveFeatherFall, wrath_FromSmsgSplineMoveWaterWalk,
    wrath_FromSmsgSplineMoveSetRunMode, wrath_FromCmsgSetFactionInactive>>
=============================================================================
