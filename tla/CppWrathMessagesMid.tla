------------------------ MODULE CppWrathMessagesMid ------------------------
(*****************************************************************************)
(* The messages of the 3.3.5 version of the world protocol from              *)
(* SMSG_QUESTGIVER_OFFER_REWARD to SMSG_SPLINE_MOVE_STOP_SWIM, in the        *)
(* order of src/wow_world_messages_cpp/src/wrath.cpp.                        *)
(*                                                                           *)
(* A message is a function from its wires to records of what its functions   *)
(* do on them. Neighbours are defined together, in a record named for the    *)
(* first. A message of which every function does what that of an earlier     *)
(* message does is defined as that message.                                  *)
(*****************************************************************************)
EXTENDS CppWrathMessagesLow

wrath_FromSmsgQuestgiverOfferReward ==
  [SMSG_QUESTGIVER_OFFER_REWARD |-> [w \in OfLengthAndCount |->
     Smsg(
       Ints(<<8, 4>>) \o Cstring(w) \o Cstring(w) \o Ints(<<4, 4, 4, 4>>)
       \o Each(w.count, wrath_NpcTextUpdateEmote.read) \o Ints(<<4>>)
       \o Each(w.count, wrath_QuestItemRequirement.read) \o Ints(<<4>>)
       \o Each(w.count, wrath_QuestItemRequirement.read) \o Ints(Repeat(26, 4)),
       8 + 4 + 2 * write_cstring(w) + 4 * 4 + w.count * wrath_NpcTextUpdateEmote.written + 4
       + w.count * wrath_QuestItemRequirement.written + 4
       + w.count * wrath_QuestItemRequirement.written + 11 * 4 + 3 * 5 * 4,
       142 + 2 * w.len + 8 * w.count + 12 * w.count + 12 * w.count)]]

wrath_FromCmsgQuestgiverChooseReward ==
  [CMSG_QUESTGIVER_CHOOSE_REWARD |-> PlainCmsg(<<8, 4, 4>>, 8 + 2 * 4, 16),
   SMSG_QUESTGIVER_QUEST_INVALID |-> PlainSmsg(<<4>>, 4, 4),
   CMSG_QUESTGIVER_CANCEL |-> EmptyCmsg(0),
   SMSG_QUESTGIVER_QUEST_COMPLETE |-> [w \in OfCount |->
     Smsg(Ints(Repeat(8, 4)) \o Each(w.count, wrath_QuestItemReward.read),
          8 * 4 + w.count * wrath_QuestItemReward.written, 32 + 8 * w.count)]]

wrath_FromSmsgQuestgiverQuestFailed ==
  [SMSG_QUESTGIVER_QUEST_FAILED |-> PlainSmsg(<<4, 4>>, 2 * 4, 8),
   CMSG_QUESTLOG_SWAP_QUEST |-> PlainCmsg(<<1, 1>>, 2 * 1, 2),
   CMSG_QUESTLOG_REMOVE_QUEST |-> PlainCmsg(<<1>>, 1, 1),
   SMSG_QUESTLOG_FULL |-> EmptySmsg(0),
   SMSG_QUESTUPDATE_FAILED |-> PlainSmsg(<<4>>, 4, 4),
   SMSG_QUESTUPDATE_FAILEDTIMER |-> PlainSmsg(<<4>>, 4, 4)]

wrath_FromSmsgQuestupdateComplete ==
  [SMSG_QUESTUPDATE_COMPLETE |-> PlainSmsg(<<4>>, 4, 4),
   SMSG_QUESTUPDATE_ADD_KILL |-> PlainSmsg(<<4, 4, 4, 4, 8>>, 4 * 4 + 8, 24),
   SMSG_QUESTUPDATE_ADD_ITEM |-> PlainSmsg(<<4, 4>>, 2 * 4, 8),
   CMSG_QUEST_CONFIRM_ACCEPT |-> PlainCmsg(<<4>>, 4, 4),
   SMSG_QUEST_CONFIRM_ACCEPT |-> [w \in OfLength |->
     Smsg(Ints(<<4>>) \o Cstring(w) \o Ints(<<8>>), 4 + write_cstring(w) + 8, 13 + w.len)]]

wrath_FromCmsgPushquesttoparty ==
  [CMSG_PUSHQUESTTOPARTY |-> PlainCmsg(<<4>>, 4, 4),
   CMSG_LIST_INVENTORY |-> PlainCmsg(<<8>>, 8, 8),
   SMSG_LIST_INVENTORY |-> [w \in OfCount |->
     Smsg(Ints(<<8, 1>>) \o Each(U8(w.count), wrath_ListInventoryItem.read),
          8 + 1 + w.count * wrath_ListInventoryItem.written, 9 + 32 * w.count)],
   CMSG_SELL_ITEM |-> PlainCmsg(<<8, 8, 1>>, 2 * 8 + 1, 17),
   SMSG_SELL_ITEM |-> PlainSmsg(<<8, 8, 1>>, 2 * 8 + 1, 17)]

wrath_FromCmsgBuyItem ==
  [CMSG_BUY_ITEM |-> PlainCmsg(<<8, 4, 4, 1>>, 8 + 2 * 4 + 1, 17),
   CMSG_BUY_ITEM_IN_SLOT |-> PlainCmsg(<<8, 4, 4, 8, 1, 1>>, 8 + 2 * 4 + 8 + 2 * 1, 26),
   SMSG_BUY_ITEM |-> PlainSmsg(<<8, 4, 4, 4>>, 8 + 3 * 4, 20),
   SMSG_BUY_FAILED |-> PlainSmsg(<<8, 4, 1>>, 8 + 4 + 1, 13)]

wrath_FromSmsgShowtaxinodes ==
  [SMSG_SHOWTAXINODES |-> [w \in OfCount |->
     Smsg(Counted(16, Ints(<<4, 8, 4>>)) \o Endless(w.count, Ints(<<4>>), 4),
          4 + 8 + 4 + w.count * 4, 16 + 4 * w.count)],
   CMSG_TAXINODE_STATUS_QUERY |-> PlainCmsg(<<8>>, 8, 8),
   SMSG_TAXINODE_STATUS |-> PlainSmsg(<<8, 1>>, 8 + 1, 9),
   CMSG_TAXIQUERYAVAILABLENODES |-> PlainCmsg(<<8>>, 8, 8)]

wrath_FromCmsgActivatetaxi ==
  [CMSG_ACTIVATETAXI |-> PlainCmsg(<<8, 4, 4>>, 8 + 2 * 4, 16),
   SMSG_ACTIVATETAXIREPLY |-> PlainSmsg(<<4>>, 4, 4),
   SMSG_NEW_TAXI_PATH |-> EmptySmsg(0),
   CMSG_TRAINER_LIST |-> PlainCmsg(<<8>>, 8, 8),
   SMSG_TRAINER_LIST |-> [w \in OfLengthAndCount |->
     Smsg(Ints(<<8, 4, 4>>) \o Each(w.count, wrath_TrainerSpell.read) \o Cstring(w),
          8 + 2 * 4 + w.count * wrath_TrainerSpell.written + write_cstring(w),
          17 + w.len + 38 * w.count)]]

wrath_FromCmsgTrainerBuySpell ==
  [CMSG_TRAINER_BUY_SPELL |-> PlainCmsg(<<8, 4>>, 8 + 4, 12),
   SMSG_TRAINER_BUY_SUCCEEDED |-> PlainSmsg(<<8, 4>>, 8 + 4, 12),
   SMSG_TRAINER_BUY_FAILED |-> PlainSmsg(<<8, 4, 4>>, 8 + 2 * 4, 16),
   CMSG_BINDER_ACTIVATE |-> PlainCmsg(<<8>>, 8, 8),
   CMSG_BANKER_ACTIVATE |-> PlainCmsg(<<8>>, 8, 8)]

wrath_FromSmsgShowBank ==
  [SMSG_SHOW_BANK |-> PlainSmsg(<<8>>, 8, 8),
   CMSG_BUY_BANK_SLOT |-> PlainCmsg(<<8>>, 8, 8),
   SMSG_BUY_BANK_SLOT_RESULT |-> PlainSmsg(<<4>>, 4, 4),
   CMSG_PETITION_SHOWLIST |-> PlainCmsg(<<8>>, 8, 8),
   SMSG_PETITION_SHOWLIST |-> [w \in OfCount |->
     Smsg(Ints(<<8, 1>>) \o Each(U8(w.count), wrath_PetitionShowlist.read),
          8 + 1 + w.count * wrath_PetitionShowlist.written, 9 + 24 * w.count)]]

wrath_FromCmsgPetitionBuy ==
  [CMSG_PETITION_BUY |-> [w \in OfLength |->
     Cmsg(
       Ints(<<8, 4, 8>>) \o Cstring(w) \o Cstring(w) \o Ints(Repeat(7, 4) \o <<2, 4, 4, 4>>)
       \o Each(10, Cstring(w)) \o Ints(<<4, 4>>),
       8 + 4 + 8 + 2 * write_cstring(w) + 7 * 4 + 2 + 3 * 4 + 10 * write_cstring(w) + 2 * 4,
       72 + 2 * w.len + 10 * (1 + w.len))],
   CMSG_PETITION_SHOW_SIGNATURES |-> PlainCmsg(<<8>>, 8, 8)]

wrath_FromSmsgPetitionShowSignatures ==
  [SMSG_PETITION_SHOW_SIGNATURES |-> [w \in OfCount |->
     Smsg(Ints(<<8, 8, 4, 1>>) \o Each(U8(w.count), wrath_PetitionSignature.read),
          2 * 8 + 4 + 1 + w.count * wrath_PetitionSignature.written, 21 + 12 * w.count)],
   CMSG_PETITION_SIGN |-> PlainCmsg(<<8, 1>>, 8 + 1, 9),
   SMSG_PETITION_SIGN_RESULTS |-> PlainSmsg(<<8, 8, 4>>, 2 * 8 + 4, 20),
   MSG_PETITION_DECLINE_cmsg |-> [w \in {Fixed} |-> Client(wrath_MSG_PETITION_DECLINE)],
   MSG_PETITION_DECLINE_smsg |-> [w \in {Fixed} |-> Server(wrath_MSG_PETITION_DECLINE)]]

wrath_FromCmsgOfferPetition ==
  [CMSG_OFFER_PETITION |-> PlainCmsg(<<4, 8, 8>>, 4 + 2 * 8, 20),
   CMSG_TURN_IN_PETITION |-> PlainCmsg(<<8>>, 8, 8),
   SMSG_TURN_IN_PETITION_RESULTS |-> PlainSmsg(<<4>>, 4, 4),
   CMSG_PETITION_QUERY |-> PlainCmsg(<<4, 8>>, 4 + 8, 12)]

wrath_FromSmsgPetitionQueryResponse ==
  [SMSG_PETITION_QUERY_RESPONSE |-> [w \in OfLength |->
     Smsg(Ints(<<4, 8>>) \o Cstring(w) \o Cstring(w)
          \o Ints(Repeat(7, 4) \o <<2, 4, 4, 4>> \o Repeat(10, 1) \o <<4, 4>>),
          4 + 8 + 2 * write_cstring(w) + 7 * 4 + 2 + 3 * 4 + 10 + 2 * 4, 74 + 2 * w.len)],
   SMSG_FISH_NOT_HOOKED |-> EmptySmsg(0),
   SMSG_FISH_ESCAPED |-> EmptySmsg(0)]

wrath_FromCmsgBug ==
  [CMSG_BUG |-> [w \in OfLength |->
     Cmsg(Ints(<<4>>) \o SizedCstring(w) \o SizedCstring(w),
          4 + 2 * write_sized_cstring(w), 14 + 2 * w.len)],
   SMSG_NOTIFICATION |-> [w \in OfLength |->
     Smsg(Cstring(w), write_cstring(w), 1 + w.len)],
   CMSG_PLAYED_TIME |-> PlainCmsg(<<1>>, 1, 1),
   SMSG_PLAYED_TIME |-> PlainSmsg(<<4, 4, 1>>, 2 * 4 + 1, 9),
   CMSG_QUERY_TIME |-> EmptyCmsg(0)]

wrath_FromSmsgQueryTimeResponse ==
  [SMSG_QUERY_TIME_RESPONSE |-> PlainSmsg(<<4, 4>>, 2 * 4, 8),
   SMSG_LOG_XPGAIN |->
     [w \in Wires({0}, {0}, {{"ExperienceAwardType::NON_KILL", "ExperienceAwardType::KILL"}}, {}) |->
       Smsg(
         Ints(<<8, 4, 1>>) \o When(Is(w, "ExperienceAwardType::NON_KILL"), Ints(<<4, 4>>))
         \o Ints(<<1>>),
         8 + 4 + 1 + Bytes(Is(w, "ExperienceAwardType::NON_KILL"), 2 * 4) + 1,
         14 + Bytes(Is(w, "ExperienceAwardType::NON_KILL"), 8))],
   CMSG_RECLAIM_CORPSE |-> PlainCmsg(<<8>>, 8, 8),
   CMSG_WRAP_ITEM |-> PlainCmsg(<<1, 1, 1, 1>>, 4 * 1, 4)]

wrath_FromSmsgLevelupInfo ==
  [SMSG_LEVELUP_INFO |-> PlainSmsg(Repeat(14, 4), 14 * 4, 56),
   MSG_MINIMAP_PING_Client |-> PlainCmsg(<<4, 4>>, 2 * 4, 8),
   MSG_MINIMAP_PING_Server |-> PlainSmsg(<<8, 4, 4>>, 8 + 2 * 4, 16)]

wrath_FromSmsgEnchantmentlog ==
  [SMSG_ENCHANTMENTLOG |-> [w \in OfLength |->
     Smsg(PackedGuid(w) \o PackedGuid(w) \o Ints(<<4, 4, 1>>),
          2 * write_packed_guid(w) + 2 * 4 + 1, 9 + 2 * wwm_packed_guid_size(w))],
   SMSG_START_MIRROR_TIMER |-> PlainSmsg(<<4, 4, 4, 4, 1, 4>>, 4 * 4 + 1 + 4, 21),
   SMSG_PAUSE_MIRROR_TIMER |-> PlainSmsg(<<4, 1>>, 4 + 1, 5),
   SMSG_STOP_MIRROR_TIMER |-> PlainSmsg(<<4>>, 4, 4)]

wrath_FromCmsgPing ==
  [CMSG_PING |-> PlainCmsg(<<4, 4>>, 2 * 4, 8),
   SMSG_PONG |-> PlainSmsg(<<4>>, 4, 4),
   SMSG_CLEAR_COOLDOWN |-> PlainSmsg(<<4, 8>>, 4 + 8, 12),
   SMSG_GAMEOBJECT_PAGETEXT |-> PlainSmsg(<<8>>, 8, 8),
   CMSG_SETSHEATHED |-> PlainCmsg(<<4>>, 4, 4),
   SMSG_SPELL_DELAYED |-> PlainSmsg(<<8, 4>>, 8 + 4, 12)]

wrath_FromCmsgQuestPoiQuery ==
  [CMSG_QUEST_POI_QUERY |-> [w \in OfCount |->
     Cmsg(Ints(<<4>> \o Repeat(w.count, 4)), 4 + w.count * 4, 4 + 4 * w.count)],
   SMSG_QUEST_POI_QUERY_RESPONSE |-> [w \in OfCount |->
     Smsg(Ints(<<4>>) \o Each(w.count, wrath_QuestPoiList(w).read),
          4 + w.count * wrath_QuestPoiList(w).written, 4 + w.count * wrath_QuestPoiList(w).size)],
   SMSG_ITEM_TIME_UPDATE |-> PlainSmsg(<<8, 4>>, 8 + 4, 12),
   SMSG_ITEM_ENCHANT_TIME_UPDATE |-> PlainSmsg(<<8, 4, 4, 8>>, 8 + 2 * 4 + 8, 24)]

wrath_FromSmsgAuthChallenge ==
  [SMSG_AUTH_CHALLENGE |-> PlainSmsg(<<4, 4>> \o Repeat(32, 1), 2 * 4 + 32, 40)]

wrath_FromCmsgAuthSession ==
  [CMSG_AUTH_SESSION |-> [w \in OfLengthAndCount |->
     Cmsg(
       Counted(
         57 + w.len, Ints(<<4, 4>>) \o Cstring(w) \o Ints(Repeat(5, 4) \o <<8>> \o Repeat(20, 1)))
       \o ReturnAtEnd \o Counted(4, Ints(<<4>>)) \o TakeRest
       \o When(w.count > 0, InflateMember(w.count) \o UntilEnd(w.count, Ints(<<1>>))),
       2 * 4 + write_cstring(w) + 5 * 4 + 8 + 20 + 4
       + Bytes(w.count > 0, wwm_compress_data_size(w.count)),
       57 + w.len + Bytes(w.count > 0, wwm_compress_data_size(w.count)))]]

wrath_FromSmsgAuthResponse ==
  [SMSG_AUTH_RESPONSE |->
     [w \in Wires({0}, {0},
                  {{"WorldResult::AUTH_OK", "WorldResult::AUTH_WAIT_QUEUE",
                    "WorldResult::RESPONSE_SUCCESS"}}, {}) |->
       Smsg(
         Ints(<<1>>) \o When(Is(w, "WorldResult::AUTH_OK"), Ints(<<4, 1, 4, 1>>))
         \o When(Is(w, "WorldResult::AUTH_WAIT_QUEUE"), Ints(<<4, 1>>)),
         1 + Bytes(Is(w, "WorldResult::AUTH_OK"), 4 + 1 + 4 + 1)
         + Bytes(Is(w, "WorldResult::AUTH_WAIT_QUEUE"), 4 + 1),
         1 + Bytes(Is(w, "WorldResult::AUTH_OK"), 10)
         + Bytes(Is(w, "WorldResult::AUTH_WAIT_QUEUE"), 5))]]

wrath_FromCmsgPetCastSpell ==
  [CMSG_PET_CAST_SPELL |->
     [w \in Wires(Lengths, {0},
                  {{"ClientCastFlags::EXTRA", "ClientCastFlags::NONE"},
                   {"ClientMovementData::PRESENT", "ClientMovementData::NOT_PRESENT"}},
                  wrath_MovementInfoFlags \union wrath_SpellCastTargetsFlags) |->
       Cmsg(
         Ints(<<8, 1, 4, 1>>) \o wrath_SpellCastTargets(w).read
         \o When(Is(w, "ClientCastFlags::EXTRA"),
                 Ints(<<4, 4, 1>>)
                 \o When(Is(w, "ClientMovementData::PRESENT"),
                         Ints(<<4>>) \o PackedGuid(w) \o wrath_MovementInfo(w).read)),
         8 + 1 + 4 + 1 + wrath_SpellCastTargets(w).written
         + Bytes(
             Is(w, "ClientCastFlags::EXTRA"),
             2 * 4 + 1
             + Bytes(Is(w, "ClientMovementData::PRESENT"),
                     4 + write_packed_guid(w) + wrath_MovementInfo(w).written)),
         14 + wrath_SpellCastTargets(w).size
         + Bytes(
             Is(w, "ClientCastFlags::EXTRA"),
             9
             + Bytes(Is(w, "ClientMovementData::PRESENT"),
                     4 + wwm_packed_guid_size(w) + wrath_MovementInfo(w).size)))],
   MSG_SAVE_GUILD_EMBLEM_Client |-> PlainCmsg(<<8>> \o Repeat(5, 4), 8 + 5 * 4, 28)]

wrath_FromMsgSaveGuildEmblem ==
  [MSG_SAVE_GUILD_EMBLEM_Server |-> PlainSmsg(<<4>>, 4, 4),
   MSG_TABARDVENDOR_ACTIVATE_cmsg |-> [w \in {Fixed} |-> Client(wrath_MSG_TABARDVENDOR_ACTIVATE)],
   MSG_TABARDVENDOR_ACTIVATE_smsg |-> [w \in {Fixed} |-> Server(wrath_MSG_TABARDVENDOR_ACTIVATE)],
   SMSG_PLAY_SPELL_VISUAL |-> PlainSmsg(<<8, 4>>, 8 + 4, 12),
   CMSG_ZONEUPDATE |-> PlainCmsg(<<4>>, 4, 4),
   SMSG_PARTYKILLLOG |-> PlainSmsg(<<8, 8>>, 2 * 8, 16)]

wrath_FromSmsgCompressedUpdateObject ==
  [SMSG_COMPRESSED_UPDATE_OBJECT |->
     [w \in Wires(Lengths, UpdatedObjects, wrath_ObjectEnums, wrath_ObjectFlags) |->
       CompressedSmsg(
         Ints(<<4>>) \o Take(4) \o Inflate(4 + w.count * wrath_Object(w).written) \o Ints(<<4>>)
         \o Each(w.count, wrath_Object(w).read), 4 + w.count * wrath_Object(w).written)],
   SMSG_PLAY_SPELL_IMPACT |-> PlainSmsg(<<8, 4>>, 8 + 4, 12),
   SMSG_EXPLORATION_EXPERIENCE |-> PlainSmsg(<<4, 4>>, 2 * 4, 8),
   MSG_RANDOM_ROLL_Client |-> PlainCmsg(<<4, 4>>, 2 * 4, 8)]

wrath_FromMsgRandomRoll ==
  [MSG_RANDOM_ROLL_Server |-> PlainSmsg(<<4, 4, 4, 8>>, 3 * 4 + 8, 20),
   SMSG_ENVIRONMENTAL_DAMAGE_LOG |-> PlainSmsg(<<8, 1, 4, 4, 4>>, 8 + 1 + 3 * 4, 21),
   SMSG_LFG_PLAYER_REWARD |-> [w \in OfCount |->
     Smsg(Ints(<<4, 4, 1>> \o Repeat(5, 4) \o <<1>>)
          \o Each(U8(w.count), wrath_QuestGiverReward.read),
          2 * 4 + 1 + 5 * 4 + 1 + w.count * wrath_QuestGiverReward.written, 30 + 12 * w.count)]]

wrath_FromSmsgLfgTeleportDenied ==
  [SMSG_LFG_TELEPORT_DENIED |-> PlainSmsg(<<4>>, 4, 4),
   CMSG_UNLEARN_SKILL |-> PlainCmsg(<<4>>, 4, 4),
   SMSG_REMOVED_SPELL |-> PlainSmsg(<<4>>, 4, 4)]

wrath_FromCmsgGmticketCreate ==
  [CMSG_GMTICKET_CREATE |-> [w \in OfLengthAndCount |->
     Cmsg(
       Counted(
         23 + w.len + 4 * w.count,
         Ints(<<4>>) \o Vector3d.read \o Cstring(w) \o Ints(<<1, 1, 4>> \o Repeat(w.count, 4)))
       \o ReturnAtEnd \o Counted(4, Ints(<<4>>)) \o TakeRest
       \o When(w.count > 0, InflateMember(w.count) \o UntilEnd(w.count, Ints(<<1>>))),
       4 + Vector3d.written + write_cstring(w) + 2 * 1 + 4 + w.count * 4 + 4
       + Bytes(w.count > 0, wwm_compress_data_size(w.count)),
       23 + w.len + 4 * w.count + Bytes(w.count > 0, wwm_compress_data_size(w.count)))],
   SMSG_GMTICKET_CREATE |-> PlainSmsg(<<4>>, 4, 4)]

wrath_FromCmsgGmticketUpdatetext ==
  [CMSG_GMTICKET_UPDATETEXT |-> [w \in OfLength |->
     Cmsg(Cstring(w), write_cstring(w), 1 + w.len)],
   SMSG_GMTICKET_UPDATETEXT |-> PlainSmsg(<<4>>, 4, 4),
   SMSG_ACCOUNT_DATA_TIMES |-> [w \in OfLength |->
     Smsg(Ints(<<4, 1>>) \o wrath_cache_mask(w),
          4 + 1 + wrath_cache_mask_written(w), 5 + wrath_cache_mask_size(w))],
   CMSG_REQUEST_ACCOUNT_DATA |-> PlainCmsg(<<4>>, 4, 4)]

wrath_FromCmsgUpdateAccountData ==
  [CMSG_UPDATE_ACCOUNT_DATA |-> [w \in OfCount |->
     Cmsg(
       Counted(8, Ints(<<4, 4>>)) \o ReturnAtEnd \o Counted(4, Ints(<<4>>)) \o TakeRest
       \o When(w.count > 0, InflateMember(w.count) \o UntilEnd(w.count, Ints(<<1>>))),
       3 * 4 + Bytes(w.count > 0, wwm_compress_data_size(w.count)),
       8 + Bytes(w.count > 0, wwm_compress_data_size(w.count)))],
   SMSG_UPDATE_ACCOUNT_DATA |-> [w \in OfCount |->
     Smsg(Counted(8, Ints(<<4, 4>>)) \o Endless(w.count, Ints(<<1>>), 1),
          2 * 4 + w.count, 8 + w.count)]]

wrath_FromCmsgGmticketGetticket ==
  [CMSG_GMTICKET_GETTICKET |-> EmptyCmsg(0),
   SMSG_GMTICKET_GETTICKET |->
     [w \in Wires(Lengths, {0}, {{"GmTicketStatus::HAS_TEXT", "GmTicketStatus::DB_ERROR"}}, {}) |->
       Smsg(
         Ints(<<4>>)
         \o When(Is(w, "GmTicketStatus::HAS_TEXT"),
                 Ints(<<4>>) \o Cstring(w) \o Ints(<<1, 4, 4, 4, 1, 1>>)),
         4 + Bytes(Is(w, "GmTicketStatus::HAS_TEXT"), 4 + write_cstring(w) + 1 + 3 * 4 + 2 * 1),
         4 + Bytes(Is(w, "GmTicketStatus::HAS_TEXT"), 20 + w.len))],
   CMSG_UNLEARN_TALENTS |-> EmptyCmsg(0)]

wrath_FromSmsgUpdateInstanceEncounterUnit ==
  [SMSG_UPDATE_INSTANCE_ENCOUNTER_UNIT |->
     [w \in Wires(Lengths, {0},
                  {{"EncounterFrame::ENGAGE", "EncounterFrame::ADD_TIMER",
                    "EncounterFrame::UPDATE_OBJECTIVE", "EncounterFrame::REFRESH_FRAMES"}}, {}) |->
       Smsg(
         Ints(<<4>>) \o When(Is(w, "EncounterFrame::ENGAGE"), PackedGuid(w) \o Ints(<<1>>))
         \o When(Is(w, "EncounterFrame::ADD_TIMER"), Ints(<<1>>))
         \o When(Is(w, "EncounterFrame::UPDATE_OBJECTIVE"), Ints(<<1, 1>>)),
         4 + Bytes(Is(w, "EncounterFrame::ENGAGE"), write_packed_guid(w) + 1)
         + Bytes(Is(w, "EncounterFrame::ADD_TIMER"), 1)
         + Bytes(Is(w, "EncounterFrame::UPDATE_OBJECTIVE"), 2 * 1),
         4 + Bytes(Is(w, "EncounterFrame::ENGAGE"), 1 + wwm_packed_guid_size(w))
         + Bytes(Is(w, "EncounterFrame::ADD_TIMER"), 1)
         + Bytes(Is(w, "EncounterFrame::UPDATE_OBJECTIVE"), 2))],
   SMSG_GAMEOBJECT_DESPAWN_ANIM |-> PlainSmsg(<<8>>, 8, 8),
   MSG_CORPSE_QUERY_Client |-> EmptyCmsg(0)]

wrath_FromMsgCorpseQuery ==
  [MSG_CORPSE_QUERY_Server |->
     [w \in Wires({0}, {0}, {{"CorpseQueryResult::FOUND", "CorpseQueryResult::NOT_FOUND"}}, {}) |->
       Smsg(
         Ints(<<1>>)
         \o When(Is(w, "CorpseQueryResult::FOUND"), Ints(<<4>>) \o Vector3d.read \o Ints(<<4>>))
         \o Ints(<<4>>),
         1 + Bytes(Is(w, "CorpseQueryResult::FOUND"), 4 + Vector3d.written + 4) + 4,
         5 + Bytes(Is(w, "CorpseQueryResult::FOUND"), 20))],
   CMSG_GMTICKET_DELETETICKET |-> EmptyCmsg(0),
   SMSG_GMTICKET_DELETETICKET |-> PlainSmsg(<<4>>, 4, 4),
   SMSG_CHAT_WRONG_FACTION |-> EmptySmsg(0),
   CMSG_GMTICKET_SYSTEMSTATUS |-> EmptyCmsg(0),
   SMSG_GMTICKET_SYSTEMSTATUS |-> PlainSmsg(<<4>>, 4, 4)]

wrath_FromCmsgSpiritHealerActivate ==
  [CMSG_SPIRIT_HEALER_ACTIVATE |-> PlainCmsg(<<8>>, 8, 8),
   SMSG_QUEST_FORCE_REMOVE |-> PlainSmsg(<<4>>, 4, 4),
   SMSG_SPIRIT_HEALER_CONFIRM |-> PlainSmsg(<<8>>, 8, 8),
   SMSG_GOSSIP_POI |-> [w \in OfLength |->
     Smsg(Ints(<<4>>) \o Vector2d.read \o Ints(<<4, 4>>) \o Cstring(w),
          4 + Vector2d.written + 2 * 4 + write_cstring(w), 21 + w.len)],
   CMSG_CHAT_IGNORED |-> PlainCmsg(<<8, 1>>, 8 + 1, 9)]

wrath_FromCmsgGuildRank ==
  [CMSG_GUILD_RANK |-> [w \in OfLength |->
     Cmsg(Ints(<<4, 4>>) \o Cstring(w) \o Ints(<<4>>) \o Each(6, wrath_GuildBankRights.read),
          2 * 4 + write_cstring(w) + 4 + 6 * wrath_GuildBankRights.written, 61 + w.len)],
   CMSG_GUILD_ADD_RANK |-> [w \in OfLength |->
     Cmsg(Cstring(w), write_cstring(w), 1 + w.len)],
   CMSG_GUILD_DEL_RANK |-> EmptyCmsg(0),
   CMSG_GUILD_SET_PUBLIC_NOTE |-> [w \in OfLength |->
     Cmsg(Cstring(w) \o Cstring(w), 2 * write_cstring(w), 2 + 2 * w.len)],
   CMSG_GUILD_SET_OFFICER_NOTE |-> [w \in OfLength |->
     Cmsg(Cstring(w) \o Cstring(w), 2 * write_cstring(w), 2 + 2 * w.len)]]

wrath_FromSmsgLoginVerifyWorld ==
  [SMSG_LOGIN_VERIFY_WORLD |-> [w \in {Fixed} |->
     Smsg(Ints(<<4>>) \o Vector3d.read \o Ints(<<4>>), 4 + Vector3d.written + 4, 20)],
   CMSG_SEND_MAIL |-> [w \in OfLengthAndCount |->
     Cmsg(
       Ints(<<8>>) \o Cstring(w) \o Cstring(w) \o Cstring(w) \o Ints(<<4, 4, 1>>)
       \o Each(U8(w.count), wrath_MailItem.read) \o Ints(<<4, 4, 4, 4>>),
       8 + 3 * write_cstring(w) + 2 * 4 + 1 + w.count * wrath_MailItem.written + 4 * 4,
       36 + 3 * w.len + 9 * w.count)]]

wrath_FromSmsgSendMailResult ==
  [SMSG_SEND_MAIL_RESULT |->
     [w \in Wires({0}, {0},
                  {{"MailAction::ITEM_TAKEN", "MailAction::SEND"},
                   {"MailResult::ERR_EQUIP_ERROR", "MailResult::OK"},
                   {"MailResultTwo::ERR_EQUIP_ERROR", "MailResultTwo::OK"}}, {}) |->
       Smsg(
         Ints(<<4, 4>>)
         \o When(Is(w, "MailAction::ITEM_TAKEN"),
                 Ints(<<4>>) \o When(Is(w, "MailResult::ERR_EQUIP_ERROR"), Ints(<<4>>))
                 \o When(Is(w, "MailResult::OK"), Ints(<<4, 4>>)))
         \o When(Is(w, "MailAction::SEND"),
                 Ints(<<4>>) \o When(Is(w, "MailResultTwo::ERR_EQUIP_ERROR"), Ints(<<4>>))),
         2 * 4
         + Bytes(Is(w, "MailAction::ITEM_TAKEN"),
                 4 + Bytes(Is(w, "MailResult::ERR_EQUIP_ERROR"), 4)
                 + Bytes(Is(w, "MailResult::OK"), 2 * 4))
         + Bytes(Is(w, "MailAction::SEND"), 4 + Bytes(Is(w, "MailResultTwo::ERR_EQUIP_ERROR"), 4)),
         8
         + Bytes(
             Is(w, "MailAction::ITEM_TAKEN"),
             4 + Bytes(Is(w, "MailResult::ERR_EQUIP_ERROR"), 4) + Bytes(Is(w, "MailResult::OK"), 8))
         + Bytes(Is(w, "MailAction::SEND"), 4 + Bytes(Is(w, "MailResultTwo::ERR_EQUIP_ERROR"), 4)))],
   CMSG_GET_MAIL_LIST |-> PlainCmsg(<<8>>, 8, 8)]

wrath_FromSmsgMailListResult ==
  [SMSG_MAIL_LIST_RESULT |-> [w \in Wires(Lengths, Counts, wrath_MailEnums, {}) |->
     Smsg(Ints(<<4, 1>>) \o Each(U8(w.count), wrath_Mail(w).read),
          4 + 1 + w.count * wrath_Mail(w).written, 5 + w.count * wrath_Mail(w).size)],
   CMSG_BATTLEFIELD_LIST |-> PlainCmsg(<<4, 1, 1>>, 4 + 2 * 1, 6)]

wrath_FromSmsgBattlefieldList ==
  [SMSG_BATTLEFIELD_LIST |->
     [w \in Wires({0}, Counts, {{"RandomBg::RANDOM", "RandomBg::NOT_RANDOM"}}, {}) |->
       Smsg(
         Ints(<<8, 4, 1, 1, 1, 4, 4, 4, 1>>)
         \o When(Is(w, "RandomBg::RANDOM"), Ints(<<1, 4, 4, 4>>))
         \o Ints(<<4>> \o Repeat(w.count, 4)),
         8 + 4 + 3 * 1 + 3 * 4 + 1 + Bytes(Is(w, "RandomBg::RANDOM"), 1 + 3 * 4) + 4 + w.count * 4,
         32 + 4 * w.count + Bytes(Is(w, "RandomBg::RANDOM"), 13))],
   CMSG_ITEM_TEXT_QUERY |-> PlainCmsg(<<8>>, 8, 8)]

wrath_FromSmsgItemTextQueryResponse ==
  [SMSG_ITEM_TEXT_QUERY_RESPONSE |->
     [w \in Wires(Lengths, {0}, {{"ItemTextQuery::HAS_TEXT", "ItemTextQuery::NO_TEXT"}}, {}) |->
       Smsg(Ints(<<1>>) \o When(Is(w, "ItemTextQuery::HAS_TEXT"), Ints(<<8>>) \o Cstring(w)),
            1 + Bytes(Is(w, "ItemTextQuery::HAS_TEXT"), 8 + write_cstring(w)),
            1 + Bytes(Is(w, "ItemTextQuery::HAS_TEXT"), 9 + w.len))],
   CMSG_MAIL_TAKE_MONEY |-> PlainCmsg(<<8, 4>>, 8 + 4, 12),
   CMSG_MAIL_TAKE_ITEM |-> PlainCmsg(<<8, 4, 4>>, 8 + 2 * 4, 16),
   CMSG_MAIL_MARK_AS_READ |-> PlainCmsg(<<8, 4>>, 8 + 4, 12)]

wrath_FromCmsgMailReturnToSender ==
  [CMSG_MAIL_RETURN_TO_SENDER |-> PlainCmsg(<<8, 4>>, 8 + 4, 12),
   CMSG_MAIL_DELETE |-> PlainCmsg(<<8, 4, 4>>, 8 + 2 * 4, 16),
   CMSG_MAIL_CREATE_TEXT_ITEM |-> PlainCmsg(<<8, 4>>, 8 + 4, 12),
   SMSG_SPELLLOGMISS |-> [w \in OfCount |->
     Smsg(Ints(<<4, 8, 1, 4>>) \o Each(w.count, wrath_SpellLogMiss.read),
          4 + 8 + 1 + 4 + w.count * wrath_SpellLogMiss.written, 17 + 9 * w.count)]]

wrath_FromSmsgSpelllogexecute ==
  [SMSG_SPELLLOGEXECUTE |-> [w \in Wires(Lengths, Counts, wrath_SpellLogEnums, {}) |->
     Smsg(PackedGuid(w) \o Ints(<<4, 4>>) \o Each(w.count, wrath_SpellLog(w).read),
          write_packed_guid(w) + 2 * 4 + w.count * wrath_SpellLog(w).written,
          8 + wwm_packed_guid_size(w) + w.count * wrath_SpellLog(w).size)],
   SMSG_PERIODICAURALOG |-> [w \in Wires(Lengths, Counts, wrath_AuraLogEnums, {}) |->
     Smsg(PackedGuid(w) \o PackedGuid(w) \o Ints(<<4, 4>>) \o Each(w.count, wrath_AuraLog(w).read),
          2 * write_packed_guid(w) + 2 * 4 + w.count * wrath_AuraLog(w).written,
          8 + 2 * wwm_packed_guid_size(w) + w.count * wrath_AuraLog(w).size)],
   SMSG_SPELLDAMAGESHIELD |-> PlainSmsg(<<8, 8, 4, 4, 4, 4>>, 2 * 8 + 4 * 4, 32)]

wrath_FromSmsgSpellnonmeleedamagelog ==
  [SMSG_SPELLNONMELEEDAMAGELOG |-> [w \in OfLength |->
     Smsg(PackedGuid(w) \o PackedGuid(w) \o Ints(<<4, 4, 4, 1, 4, 4, 1, 1, 4, 4, 1>>),
          2 * write_packed_guid(w) + 3 * 4 + 1 + 2 * 4 + 2 * 1 + 2 * 4 + 1,
          32 + 2 * wwm_packed_guid_size(w))],
   CMSG_LEARN_TALENT |-> PlainCmsg(<<4, 4>>, 2 * 4, 8),
   SMSG_RESURRECT_FAILED |-> PlainSmsg(<<4>>, 4, 4)]

wrath_FromCmsgTogglePvp ==
  [CMSG_TOGGLE_PVP |-> [w \in Wires({0}, {0}, {}, {"set"}) |->
     Cmsg(Optional(Ints(<<1>>)), Bytes(Is(w, "set"), 1), Bytes(Is(w, "set"), 1))],
   SMSG_ZONE_UNDER_ATTACK |-> PlainSmsg(<<4>>, 4, 4),
   MSG_AUCTION_HELLO_Client |-> PlainCmsg(<<8>>, 8, 8),
   MSG_AUCTION_HELLO_Server |-> PlainSmsg(<<8, 4, 1>>, 8 + 4 + 1, 13)]

wrath_FromCmsgAuctionSellItem ==
  [CMSG_AUCTION_SELL_ITEM |-> PlainCmsg(<<8, 4, 8, 4, 4, 4, 4>>, 8 + 4 + 8 + 4 * 4, 36),
   CMSG_AUCTION_REMOVE_ITEM |-> PlainCmsg(<<8, 4>>, 8 + 4, 12)]

wrath_FromCmsgAuctionListItems ==
  [CMSG_AUCTION_LIST_ITEMS |-> [w \in OfLengthAndCount |->
     Cmsg(
       Ints(<<8, 4>>) \o Cstring(w) \o Ints(<<1, 1, 4, 4, 4, 4, 1, 1, 1>>)
       \o Each(U8(w.count), wrath_AuctionSort.read),
       8 + 4 + write_cstring(w) + 2 * 1 + 4 * 4 + 3 * 1 + w.count * wrath_AuctionSort.written,
       34 + w.len + 2 * w.count)],
   CMSG_AUCTION_LIST_OWNER_ITEMS |-> PlainCmsg(<<8, 4>>, 8 + 4, 12),
   CMSG_AUCTION_PLACE_BID |-> PlainCmsg(<<8, 4, 4>>, 8 + 2 * 4, 16)]

wrath_FromSmsgAuctionCommandResult ==
  [SMSG_AUCTION_COMMAND_RESULT |->
     [w \in Wires({0}, {0}, {{"AuctionCommandResult::ERR_INVENTORY", "AuctionCommandResult::OK"}},
                  {}) |->
       Smsg(Ints(<<4, 4, 4>>) \o When(Is(w, "AuctionCommandResult::ERR_INVENTORY"), Ints(<<1>>)),
            3 * 4 + Bytes(Is(w, "AuctionCommandResult::ERR_INVENTORY"), 1),
            12 + Bytes(Is(w, "AuctionCommandResult::ERR_INVENTORY"), 1))],
   SMSG_AUCTION_LIST_RESULT |-> [w \in OfCount |->
     Smsg(Ints(<<4>>) \o Each(w.count, wrath_AuctionListItem.read) \o Ints(<<4, 4>>),
          4 + w.count * wrath_AuctionListItem.written + 2 * 4, 12 + 148 * w.count)],
   SMSG_AUCTION_OWNER_LIST_RESULT |-> [w \in OfCount |->
     Smsg(Ints(<<4>>) \o Each(w.count, wrath_AuctionListItem.read) \o Ints(<<4, 4>>),
          4 + w.count * wrath_AuctionListItem.written + 2 * 4, 12 + 148 * w.count)]]

wrath_FromSmsgAuctionBidderNotification ==
  [SMSG_AUCTION_BIDDER_NOTIFICATION |->
     PlainSmsg(<<4, 4, 8>> \o Repeat(5, 4), 2 * 4 + 8 + 5 * 4, 36),
   SMSG_AUCTION_OWNER_NOTIFICATION |-> PlainSmsg(<<4, 4, 4, 8, 4, 4, 4>>, 3 * 4 + 8 + 3 * 4, 32),
   SMSG_PROCRESIST |-> PlainSmsg(<<8, 8, 4, 1>>, 2 * 8 + 4 + 1, 21)]

wrath_FromSmsgDispelFailed ==
  [SMSG_DISPEL_FAILED |-> [w \in OfCount |->
     Smsg(Counted(16, Ints(<<8, 8>>)) \o Endless(w.count, Ints(<<4>>), 4),
          2 * 8 + w.count * 4, 16 + 4 * w.count)],
   SMSG_SPELLORDAMAGE_IMMUNE |-> PlainSmsg(<<8, 8, 4, 1>>, 2 * 8 + 4 + 1, 21),
   CMSG_AUCTION_LIST_BIDDER_ITEMS |-> [w \in OfCount |->
     Cmsg(Ints(<<8, 4, 4>> \o Repeat(w.count, 4)), 8 + 2 * 4 + w.count * 4, 16 + 4 * w.count)]]

wrath_FromSmsgAuctionBidderListResult ==
  [SMSG_AUCTION_BIDDER_LIST_RESULT |->
     wrath_FromSmsgAuctionCommandResult.SMSG_AUCTION_LIST_RESULT,
   SMSG_SET_FLAT_SPELL_MODIFIER |-> PlainSmsg(<<1, 1, 4>>, 2 * 1 + 4, 6),
   SMSG_SET_PCT_SPELL_MODIFIER |-> PlainSmsg(<<1, 1, 4>>, 2 * 1 + 4, 6),
   CMSG_SET_AMMO |-> PlainCmsg(<<4>>, 4, 4),
   SMSG_CORPSE_RECLAIM_DELAY |-> PlainSmsg(<<4>>, 4, 4)]

wrath_FromCmsgSetActiveMover ==
  [CMSG_SET_ACTIVE_MOVER |-> PlainCmsg(<<8>>, 8, 8),
   CMSG_PET_CANCEL_AURA |-> PlainCmsg(<<8, 4>>, 8 + 4, 12),
   CMSG_CANCEL_AUTO_REPEAT_SPELL |-> EmptyCmsg(0),
   MSG_LIST_STABLED_PETS_Client |-> PlainCmsg(<<8>>, 8, 8),
   MSG_LIST_STABLED_PETS_Server |-> [w \in OfLengthAndCount |->
     Smsg(
       Ints(<<8, 1, 1>>) \o Each(U8(w.count), wrath_StabledPet(w).read),
       8 + 2 * 1 + w.count * wrath_StabledPet(w).written, 10 + w.count * wrath_StabledPet(w).size)]]

wrath_FromCmsgStablePet ==
  [CMSG_STABLE_PET |-> PlainCmsg(<<8>>, 8, 8),
   CMSG_UNSTABLE_PET |-> PlainCmsg(<<8, 4>>, 8 + 4, 12),
   CMSG_BUY_STABLE_SLOT |-> PlainCmsg(<<8>>, 8, 8),
   SMSG_STABLE_RESULT |-> PlainSmsg(<<1>>, 1, 1),
   CMSG_STABLE_SWAP_PET |-> PlainCmsg(<<8, 4>>, 8 + 4, 12),
   MSG_QUEST_PUSH_RESULT_cmsg |-> [w \in {Fixed} |-> Client(wrath_MSG_QUEST_PUSH_RESULT)]]

wrath_FromMsgQuestPushResult ==
  [MSG_QUEST_PUSH_RESULT_smsg |-> [w \in {Fixed} |-> Server(wrath_MSG_QUEST_PUSH_RESULT)],
   SMSG_PLAY_MUSIC |-> PlainSmsg(<<4>>, 4, 4),
   SMSG_PLAY_OBJECT_SOUND |-> PlainSmsg(<<4, 8>>, 4 + 8, 12),
   CMSG_REQUEST_PET_INFO |-> EmptyCmsg(0),
   CMSG_FAR_SIGHT |-> PlainCmsg(<<1>>, 1, 1)]

wrath_FromSmsgSpelldispellog ==
  [SMSG_SPELLDISPELLOG |-> [w \in OfLengthAndCount |->
     Smsg(
       PackedGuid(w) \o PackedGuid(w) \o Ints(<<4, 1, 4>>)
       \o Each(w.count, wrath_DispelledSpell.read),
       2 * write_packed_guid(w) + 4 + 1 + 4 + w.count * wrath_DispelledSpell.written,
       9 + 2 * wwm_packed_guid_size(w) + 5 * w.count)],
   CMSG_GROUP_CHANGE_SUB_GROUP |-> [w \in OfLength |->
     Cmsg(Cstring(w) \o Ints(<<1>>), write_cstring(w) + 1, 2 + w.len)],
   CMSG_REQUEST_PARTY_MEMBER_STATS |-> PlainCmsg(<<8>>, 8, 8),
   CMSG_GROUP_SWAP_SUB_GROUP |-> [w \in OfLength |->
     Cmsg(Cstring(w) \o Cstring(w), 2 * write_cstring(w), 2 + 2 * w.len)]]

wrath_FromCmsgAutostoreBankItem ==
  [CMSG_AUTOSTORE_BANK_ITEM |-> PlainCmsg(<<1, 1>>, 2 * 1, 2),
   CMSG_AUTOBANK_ITEM |-> PlainCmsg(<<1, 1>>, 2 * 1, 2),
   MSG_QUERY_NEXT_MAIL_TIME_Client |-> EmptyCmsg(0),
   MSG_QUERY_NEXT_MAIL_TIME_Server |-> [w \in OfCount |->
     Smsg(Ints(<<4, 4>>) \o Each(w.count, wrath_ReceivedMail.read),
          2 * 4 + w.count * wrath_ReceivedMail.written, 8 + 24 * w.count)],
   SMSG_RECEIVED_MAIL |-> PlainSmsg(<<4>>, 4, 4)]

wrath_FromSmsgRaidGroupOnly ==
  [SMSG_RAID_GROUP_ONLY |-> PlainSmsg(<<4, 4>>, 2 * 4, 8),
   SMSG_PVP_CREDIT |-> PlainSmsg(<<4, 8, 4>>, 4 + 8 + 4, 16),
   SMSG_AUCTION_REMOVED_NOTIFICATION |-> PlainSmsg(<<4, 4, 4>>, 3 * 4, 12),
   CMSG_GROUP_RAID_CONVERT |-> EmptyCmsg(0),
   CMSG_GROUP_ASSISTANT_LEADER |-> PlainCmsg(<<8, 1>>, 8 + 1, 9)]

wrath_FromCmsgBuybackItem ==
  [CMSG_BUYBACK_ITEM |-> PlainCmsg(<<8, 4>>, 8 + 4, 12),
   SMSG_SERVER_MESSAGE |-> [w \in OfLength |->
     Smsg(Ints(<<4>>) \o Cstring(w), 4 + write_cstring(w), 5 + w.len)],
   CMSG_SET_SAVED_INSTANCE_EXTEND |-> PlainCmsg(<<4, 1, 1>>, 4 + 2 * 1, 6),
   SMSG_LFG_OFFER_CONTINUE |-> PlainSmsg(<<4>>, 4, 4),
   CMSG_LFG_GET_STATUS |-> EmptyCmsg(0),
   SMSG_SHOW_MAILBOX |-> PlainSmsg(<<8>>, 8, 8)]

wrath_FromCmsgGmticketsystemToggle ==
  [CMSG_GMTICKETSYSTEM_TOGGLE |-> EmptyCmsg(0),
   CMSG_CANCEL_GROWTH_AURA |-> EmptyCmsg(0),
   SMSG_CANCEL_AUTO_REPEAT |-> [w \in OfLength |->
     Smsg(PackedGuid(w), write_packed_guid(w), wwm_packed_guid_size(w))],
   SMSG_STANDSTATE_UPDATE |-> PlainSmsg(<<1>>, 1, 1),
   SMSG_LOOT_ALL_PASSED |-> PlainSmsg(<<8, 4, 4, 4, 4>>, 8 + 4 * 4, 24)]

wrath_FromSmsgLootRollWon ==
  [SMSG_LOOT_ROLL_WON |-> PlainSmsg(<<8, 4, 4, 4, 4, 8, 1, 1>>, 8 + 4 * 4 + 8 + 2 * 1, 34),
   CMSG_LOOT_ROLL |-> PlainCmsg(<<8, 4, 1>>, 8 + 4 + 1, 13),
   SMSG_LOOT_START_ROLL |-> PlainSmsg(<<8>> \o Repeat(6, 4) \o <<1>>, 8 + 6 * 4 + 1, 33)]

wrath_FromSmsgLootRoll ==
  [SMSG_LOOT_ROLL |-> PlainSmsg(<<8, 4, 8, 4, 4, 4, 1, 1, 1>>, 8 + 4 + 8 + 3 * 4 + 3 * 1, 35),
   CMSG_LOOT_MASTER_GIVE |-> PlainCmsg(<<8, 1, 8>>, 8 + 1 + 8, 17),
   SMSG_LOOT_MASTER_LIST |-> [w \in OfCount |->
     Smsg(Ints(<<1>> \o Repeat(U8(w.count), 8)), 1 + w.count * 8, 1 + 8 * w.count)]]

wrath_FromSmsgSetForcedReactions ==
  [SMSG_SET_FORCED_REACTIONS |-> [w \in OfCount |->
     Smsg(Ints(<<4>>) \o Each(w.count, wrath_ForcedReaction.read),
          4 + w.count * wrath_ForcedReaction.written, 4 + 6 * w.count)],
   SMSG_SPELL_FAILED_OTHER |-> PlainSmsg(<<8, 4>>, 8 + 4, 12),
   CMSG_REPAIR_ITEM |-> PlainCmsg(<<8, 8, 1>>, 2 * 8 + 1, 17),
   SMSG_CHAT_PLAYER_NOT_FOUND |-> [w \in OfLength |->
     Smsg(Cstring(w), write_cstring(w), 1 + w.len)],
   MSG_TALENT_WIPE_CONFIRM_Client |-> PlainCmsg(<<8>>, 8, 8)]

wrath_FromMsgTalentWipeConfirm ==
  [MSG_TALENT_WIPE_CONFIRM_Server |-> PlainSmsg(<<8, 4>>, 8 + 4, 12),
   SMSG_SUMMON_REQUEST |-> PlainSmsg(<<8, 4, 4>>, 8 + 2 * 4, 16),
   CMSG_SUMMON_RESPONSE |-> PlainCmsg(<<8, 1>>, 8 + 1, 9)]

wrath_FromSmsgMonsterMoveTransport ==
  [SMSG_MONSTER_MOVE_TRANSPORT |->
     [w \in Wires(Lengths, Counts,
                  {{"MonsterMoveType::FACING_TARGET", "MonsterMoveType::FACING_ANGLE",
                    "MonsterMoveType::FACING_SPOT", "MonsterMoveType::NORMAL"}},
                  {"SPLINE_FLAG_ENTER_CYCLE", "SPLINE_FLAG_PARABOLIC"}) |->
       Smsg(
         PackedGuid(w) \o PackedGuid(w) \o Ints(<<1>>) \o Vector3d.read \o Ints(<<4, 1>>)
         \o When(Is(w, "MonsterMoveType::FACING_TARGET"), Ints(<<8>>))
         \o When(Is(w, "MonsterMoveType::FACING_ANGLE"), Ints(<<4>>))
         \o When(Is(w, "MonsterMoveType::FACING_SPOT"), Vector3d.read) \o Ints(<<4>>)
         \o When(Is(w, "SPLINE_FLAG_ENTER_CYCLE"), Ints(<<4, 4>>)) \o Ints(<<4>>)
         \o When(Is(w, "SPLINE_FLAG_PARABOLIC"), Ints(<<4, 4>>)) \o MonsterMoveSpline(w),
         2 * write_packed_guid(w) + 1 + Vector3d.written + 4 + 1
         + Bytes(Is(w, "MonsterMoveType::FACING_TARGET"), 8)
         + Bytes(Is(w, "MonsterMoveType::FACING_ANGLE"), 4)
         + Bytes(Is(w, "MonsterMoveType::FACING_SPOT"), Vector3d.written) + 4
         + Bytes(Is(w, "SPLINE_FLAG_ENTER_CYCLE"), 2 * 4) + 4
         + Bytes(Is(w, "SPLINE_FLAG_PARABOLIC"), 2 * 4) + wwm_write_monster_move_spline(w),
         26 + 2 * wwm_packed_guid_size(w) + wwm_monster_move_spline_size(w)
         + Bytes(Is(w, "MonsterMoveType::FACING_TARGET"), 8)
         + Bytes(Is(w, "MonsterMoveType::FACING_ANGLE"), 4)
         + Bytes(Is(w, "MonsterMoveType::FACING_SPOT"), 12)
         + Bytes(Is(w, "SPLINE_FLAG_ENTER_CYCLE"), 8) + Bytes(Is(w, "SPLINE_FLAG_PARABOLIC"), 8))],
   SMSG_PET_BROKEN |-> EmptySmsg(0)]

wrath_FromMsgMoveFeatherFall ==
  [MSG_MOVE_FEATHER_FALL_Server |-> [w \in Wires(Lengths, {0}, {}, wrath_MovementInfoFlags) |->
     Smsg(PackedGuid(w) \o wrath_MovementInfo(w).read,
          write_packed_guid(w) + wrath_MovementInfo(w).written,
          wwm_packed_guid_size(w) + wrath_MovementInfo(w).size)],
   MSG_MOVE_WATER_WALK_cmsg |-> [w \in Wires(Lengths, {0}, {}, wrath_MovementInfoFlags) |->
     Client(wrath_MSG_MOVE_WATER_WALK(w))],
   MSG_MOVE_WATER_WALK_smsg |-> [w \in Wires(Lengths, {0}, {}, wrath_MovementInfoFlags) |->
     Server(wrath_MSG_MOVE_WATER_WALK(w))],
   CMSG_SELF_RES |-> EmptyCmsg(0),
   SMSG_FEIGN_DEATH_RESISTED |-> EmptySmsg(0),
   SMSG_DUEL_COUNTDOWN |-> PlainSmsg(<<4>>, 4, 4)]

wrath_FromSmsgAreaTriggerMessage ==
  [SMSG_AREA_TRIGGER_MESSAGE |-> [w \in OfLength |->
     Smsg(SizedCstring(w), write_sized_cstring(w), 5 + w.len)],
   CMSG_TOGGLE_HELM |-> EmptyCmsg(0),
   CMSG_TOGGLE_CLOAK |-> EmptyCmsg(0),
   SMSG_LFG_ROLE_CHOSEN |-> PlainSmsg(<<8, 1, 4>>, 8 + 1 + 4, 13),
   SMSG_PLAYER_SKINNED |-> PlainSmsg(<<1>>, 1, 1),
   SMSG_DURABILITY_DAMAGE_DEATH |-> EmptySmsg(0),
   CMSG_SET_ACTIONBAR_TOGGLES |-> PlainCmsg(<<1>>, 1, 1)]

wrath_FromMsgPetitionRename ==
  [MSG_PETITION_RENAME_cmsg |-> [w \in OfLength |->
     Client(wrath_MSG_PETITION_RENAME(w))],
   MSG_PETITION_RENAME_smsg |-> [w \in OfLength |->
     Server(wrath_MSG_PETITION_RENAME(w))],
   SMSG_INIT_WORLD_STATES |-> [w \in OfCount |->
     Smsg(Ints(<<4, 4, 4, 2>>) \o Each(U16(w.count), wrath_WorldState.read),
          3 * 4 + 2 + w.count * wrath_WorldState.written, 14 + 8 * w.count)],
   SMSG_UPDATE_WORLD_STATE |-> [w \in {Fixed} |->
     Smsg(wrath_WorldState.read, wrath_WorldState.written, 8)],
   CMSG_ITEM_NAME_QUERY |-> PlainCmsg(<<4, 8>>, 4 + 8, 12)]

wrath_FromSmsgItemNameQueryResponse ==
  [SMSG_ITEM_NAME_QUERY_RESPONSE |-> [w \in OfLength |->
     Smsg(Ints(<<4>>) \o Cstring(w) \o Ints(<<1>>), 4 + write_cstring(w) + 1, 6 + w.len)],
   SMSG_PET_ACTION_FEEDBACK |-> PlainSmsg(<<1>>, 1, 1),
   CMSG_CHAR_RENAME |-> [w \in OfLength |->
     Cmsg(Ints(<<8>>) \o Cstring(w), 8 + write_cstring(w), 9 + w.len)],
   SMSG_CHAR_RENAME |->
     [w \in Wires(Lengths, {0}, {{"WorldResult::RESPONSE_SUCCESS", "WorldResult::RESPONSE_FAILURE"}},
                  {}) |->
       Smsg(Ints(<<1>>) \o When(Is(w, "WorldResult::RESPONSE_SUCCESS"), Ints(<<8>>) \o Cstring(w)),
            1 + Bytes(Is(w, "WorldResult::RESPONSE_SUCCESS"), 8 + write_cstring(w)),
            1 + Bytes(Is(w, "WorldResult::RESPONSE_SUCCESS"), 9 + w.len))]]

wrath_FromCmsgMoveSplineDone ==
  [CMSG_MOVE_SPLINE_DONE |-> [w \in Wires(Lengths, {0}, {}, wrath_MovementInfoFlags) |->
     Cmsg(wrath_MovementInfo(w).read \o Ints(<<4>>),
          wrath_MovementInfo(w).written + 4, 4 + wrath_MovementInfo(w).size)],
   CMSG_MOVE_FALL_RESET |-> [w \in Wires(Lengths, {0}, {}, wrath_MovementInfoFlags) |->
     Cmsg(wrath_MovementInfo(w).read, wrath_MovementInfo(w).written, wrath_MovementInfo(w).size)],
   SMSG_INSTANCE_SAVE_CREATED |-> PlainSmsg(<<4>>, 4, 4),
   SMSG_RAID_INSTANCE_INFO |-> [w \in OfCount |->
     Smsg(Ints(<<4>>) \o Each(w.count, wrath_RaidInfo.read),
          4 + w.count * wrath_RaidInfo.written, 4 + 22 * w.count)],
   CMSG_REQUEST_RAID_INFO |-> EmptyCmsg(0)]

wrath_FromCmsgMoveTimeSkipped ==
  [CMSG_MOVE_TIME_SKIPPED |-> [w \in OfLength |->
     Cmsg(PackedGuid(w) \o Ints(<<4>>), write_packed_guid(w) + 4, 4 + wwm_packed_guid_size(w))],
   CMSG_MOVE_FEATHER_FALL_ACK |-> wrath_FromCmsgMoveHoverAck.CMSG_MOVE_HOVER_ACK,
   CMSG_MOVE_WATER_WALK_ACK |-> wrath_FromCmsgMoveHoverAck.CMSG_MOVE_HOVER_ACK,
   CMSG_MOVE_NOT_ACTIVE_MOVER |-> [w \in Wires(Lengths, {0}, {}, wrath_MovementInfoFlags) |->
     Cmsg(Ints(<<8>>) \o wrath_MovementInfo(w).read,
          8 + wrath_MovementInfo(w).written, 8 + wrath_MovementInfo(w).size)]]

wrath_FromSmsgPlaySound ==
  [SMSG_PLAY_SOUND |-> PlainSmsg(<<4>>, 4, 4),
   CMSG_BATTLEFIELD_STATUS |-> EmptyCmsg(0)]

wrath_FromSmsgBattlefieldStatus ==
  [SMSG_BATTLEFIELD_STATUS |->
     [w \in Wires({0}, {0},
                  {{"StatusId::WAIT_QUEUE", "StatusId::WAIT_JOIN", "StatusId::IN_PROGRESS",
                    "StatusId::NONE"}}, {}) |->
       Smsg(
         Ints(<<4, 1, 1, 4, 2, 1, 1, 4, 1, 1>>)
         \o When(Is(w, "StatusId::WAIT_QUEUE"), Ints(<<4, 4>>))
         \o When(Is(w, "StatusId::WAIT_JOIN"), Ints(<<4, 8, 4>>))
         \o When(Is(w, "StatusId::IN_PROGRESS"), Ints(<<4, 8, 4, 4, 1>>)),
         4 + 2 * 1 + 4 + 2 + 2 * 1 + 4 + 2 * 1 + Bytes(Is(w, "StatusId::WAIT_QUEUE"), 2 * 4)
         + Bytes(Is(w, "StatusId::WAIT_JOIN"), 4 + 8 + 4)
         + Bytes(Is(w, "StatusId::IN_PROGRESS"), 4 + 8 + 2 * 4 + 1),
         20 + Bytes(Is(w, "StatusId::WAIT_QUEUE"), 8) + Bytes(Is(w, "StatusId::WAIT_JOIN"), 16)
         + Bytes(Is(w, "StatusId::IN_PROGRESS"), 21))]]

wrath_FromCmsgBattlefieldPort ==
  [CMSG_BATTLEFIELD_PORT |-> PlainCmsg(<<1, 1, 4, 2, 1>>, 2 * 1 + 4 + 2 + 1, 9),
   MSG_INSPECT_HONOR_STATS_Client |-> PlainCmsg(<<8>>, 8, 8),
   MSG_INSPECT_HONOR_STATS_Server |-> PlainSmsg(<<8, 1, 4, 4, 4, 4>>, 8 + 1 + 4 * 4, 25),
   CMSG_BATTLEMASTER_HELLO |-> PlainCmsg(<<8>>, 8, 8)]

wrath_FromSmsgForceWalkSpeedChange ==
  [SMSG_FORCE_WALK_SPEED_CHANGE |-> [w \in OfLength |->
     Smsg(
       PackedGuid(w) \o Ints(<<4, 4>>), write_packed_guid(w) + 2 * 4, 8 + wwm_packed_guid_size(w))],
   CMSG_FORCE_WALK_SPEED_CHANGE_ACK |->
     wrath_FromCmsgForceRunSpeedChangeAck.CMSG_FORCE_RUN_SPEED_CHANGE_ACK,
   SMSG_FORCE_SWIM_BACK_SPEED_CHANGE |-> [w \in OfLength |->
     Smsg(
       PackedGuid(w) \o Ints(<<4, 4>>), write_packed_guid(w) + 2 * 4, 8 + wwm_packed_guid_size(w))],
   CMSG_FORCE_SWIM_BACK_SPEED_CHANGE_ACK |->
     wrath_FromCmsgForceRunSpeedChangeAck.CMSG_FORCE_RUN_SPEED_CHANGE_ACK]

wrath_FromSmsgForceTurnRateChange ==
  [SMSG_FORCE_TURN_RATE_CHANGE |-> [w \in OfLength |->
     Smsg(
       PackedGuid(w) \o Ints(<<4, 4>>), write_packed_guid(w) + 2 * 4, 8 + wwm_packed_guid_size(w))],
   CMSG_FORCE_TURN_RATE_CHANGE_ACK |->
     wrath_FromCmsgForceRunSpeedChangeAck.CMSG_FORCE_RUN_SPEED_CHANGE_ACK,
   MSG_PVP_LOG_DATA_Client |-> EmptyCmsg(0),
   CMSG_LEAVE_BATTLEFIELD |-> PlainCmsg(<<1, 1, 4, 2>>, 2 * 1 + 4 + 2, 8),
   CMSG_AREA_SPIRIT_HEALER_QUERY |-> PlainCmsg(<<8>>, 8, 8)]

wrath_FromCmsgAreaSpiritHealerQueue ==
  [CMSG_AREA_SPIRIT_HEALER_QUEUE |-> PlainCmsg(<<8>>, 8, 8),
   SMSG_AREA_SPIRIT_HEALER_TIME |-> PlainSmsg(<<8, 4>>, 8 + 4, 12),
   SMSG_WARDEN_DATA |-> [w \in OfCount |->
     Smsg(Endless(w.count, Ints(<<1>>), 1), w.count, w.count)],
   CMSG_WARDEN_DATA |-> [w \in OfCount |->
     Cmsg(Endless(w.count, Ints(<<1>>), 1), w.count, w.count)],
   SMSG_GROUP_JOINED_BATTLEGROUND |-> PlainSmsg(<<4>>, 4, 4),
   MSG_BATTLEGROUND_PLAYER_POSITIONS_Client |-> EmptyCmsg(0)]

wrath_FromMsgBattlegroundPlayerPositions ==
  [MSG_BATTLEGROUND_PLAYER_POSITIONS_Server |-> [w \in OfCount |->
     Smsg(
       Ints(<<4>>) \o Each(w.count, wrath_BattlegroundPlayerPosition.read) \o Ints(<<1>>)
       \o Each(U8(w.count), wrath_BattlegroundPlayerPosition.read),
       4 + w.count * wrath_BattlegroundPlayerPosition.written + 1
       + w.count * wrath_BattlegroundPlayerPosition.written, 5 + 16 * w.count + 16 * w.count)],
   CMSG_PET_STOP_ATTACK |-> PlainCmsg(<<8>>, 8, 8),
   SMSG_BINDER_CONFIRM |-> PlainSmsg(<<8, 4>>, 8 + 4, 12),
   SMSG_BATTLEGROUND_PLAYER_JOINED |-> PlainSmsg(<<8>>, 8, 8),
   SMSG_BATTLEGROUND_PLAYER_LEFT |-> PlainSmsg(<<8>>, 8, 8)]

wrath_FromCmsgBattlemasterJoin ==
  [CMSG_BATTLEMASTER_JOIN |-> PlainCmsg(<<8, 4, 4, 1>>, 8 + 2 * 4 + 1, 17),
   CMSG_PET_UNLEARN |-> PlainCmsg(<<8>>, 8, 8),
   SMSG_PET_UNLEARN_CONFIRM |-> PlainSmsg(<<8, 4>>, 8 + 4, 12)]

wrath_FromSmsgPartyMemberStatsFull ==
  [SMSG_PARTY_MEMBER_STATS_FULL |-> wrath_FromSmsgPartyMemberStats.SMSG_PARTY_MEMBER_STATS]

wrath_FromCmsgPetSpellAutocast ==
  [CMSG_PET_SPELL_AUTOCAST |-> PlainCmsg(<<8, 4, 1>>, 8 + 4 + 1, 13),
   SMSG_WEATHER |-> PlainSmsg(<<4, 4, 1>>, 2 * 4 + 1, 9),
   SMSG_RAID_INSTANCE_MESSAGE |-> PlainSmsg(<<4, 4, 4, 4>>, 4 * 4, 16)]

wrath_FromSmsgCompressedMoves ==
  [SMSG_COMPRESSED_MOVES |-> [w \in OfLengthAndCount |->
     CompressedSmsg(
       Ints(<<4>>) \o Take(4) \o Inflate(4 + w.count * wrath_MiniMoveMessage(w).written)
       \o Ints(<<4>>) \o UntilEnd(w.count, wrath_MiniMoveMessage(w).read),
       4 + w.count * wrath_MiniMoveMessage(w).written)],
   CMSG_GUILD_INFO_TEXT |-> [w \in OfLength |->
     Cmsg(Cstring(w), write_cstring(w), 1 + w.len)],
   SMSG_CHAT_RESTRICTED |-> PlainSmsg(<<1>>, 1, 1),
   SMSG_SPLINE_SET_RUN_SPEED |-> [w \in OfLength |->
     Smsg(PackedGuid(w) \o Ints(<<4>>), write_packed_guid(w) + 4, 4 + wwm_packed_guid_size(w))]]

wrath_FromSmsgSplineSetRunBackSpeed ==
  [SMSG_SPLINE_SET_RUN_BACK_SPEED |-> [w \in OfLength |->
     Smsg(PackedGuid(w) \o Ints(<<4>>), write_packed_guid(w) + 4, 4 + wwm_packed_guid_size(w))],
   SMSG_SPLINE_SET_SWIM_SPEED |-> [w \in OfLength |->
     Smsg(PackedGuid(w) \o Ints(<<4>>), write_packed_guid(w) + 4, 4 + wwm_packed_guid_size(w))],
   SMSG_SPLINE_SET_WALK_SPEED |-> [w \in OfLength |->
     Smsg(PackedGuid(w) \o Ints(<<4>>), write_packed_guid(w) + 4, 4 + wwm_packed_guid_size(w))],
   SMSG_SPLINE_SET_SWIM_BACK_SPEED |-> [w \in OfLength |->
     Smsg(PackedGuid(w) \o Ints(<<4>>), write_packed_guid(w) + 4, 4 + wwm_packed_guid_size(w))]]

wrath_FromSmsgSplineSetTurnRate ==
  [SMSG_SPLINE_SET_TURN_RATE |-> [w \in OfLength |->
     Smsg(PackedGuid(w) \o Ints(<<4>>), write_packed_guid(w) + 4, 4 + wwm_packed_guid_size(w))],
   SMSG_SPLINE_MOVE_UNROOT |-> [w \in OfLength |->
     Smsg(PackedGuid(w), write_packed_guid(w), wwm_packed_guid_size(w))],
   SMSG_SPLINE_MOVE_FEATHER_FALL |-> [w \in OfLength |->
     Smsg(PackedGuid(w), write_packed_guid(w), wwm_packed_guid_size(w))],
   SMSG_SPLINE_MOVE_NORMAL_FALL |-> [w \in OfLength |->
     Smsg(PackedGuid(w), write_packed_guid(w), wwm_packed_guid_size(w))],
   SMSG_SPLINE_MOVE_SET_HOVER |-> [w \in OfLength |->
     Smsg(PackedGuid(w), write_packed_guid(w), wwm_packed_guid_size(w))]]

wrath_FromSmsgSplineMoveUnsetHover ==
  [SMSG_SPLINE_MOVE_UNSET_HOVER |-> [w \in OfLength |->
     Smsg(PackedGuid(w), write_packed_guid(w), wwm_packed_guid_size(w))],
   SMSG_SPLINE_MOVE_WATER_WALK |-> [w \in OfLength |->
     Smsg(PackedGuid(w), write_packed_guid(w), wwm_packed_guid_size(w))],
   SMSG_SPLINE_MOVE_LAND_WALK |-> [w \in OfLength |->
     Smsg(PackedGuid(w), write_packed_guid(w), wwm_packed_guid_size(w))],
   SMSG_SPLINE_MOVE_START_SWIM |-> [w \in OfLength |->
     Smsg(PackedGuid(w), write_packed_guid(w), wwm_packed_guid_size(w))],
   SMSG_SPLINE_MOVE_STOP_SWIM |-> [w \in OfLength |->
     Smsg(PackedGuid(w), write_packed_guid(w), wwm_packed_guid_size(w))]]

wrath_MidGroups ==
  <<wrath_FromSmsgQuestgiverOfferReward, wrath_FromCmsgQuestgiverChooseReward,
    wrath_FromSmsgQuestgiverQuestFailed, wrath_FromSmsgQuestupdateComplete,
    wrath_FromCmsgPushquesttoparty, wrath_FromCmsgBuyItem, wrath_FromSmsgShowtaxinodes,
    wrath_FromCmsgActivatetaxi, wrath_FromCmsgTrainerBuySpell, wrath_FromSmsgShowBank,
    wrath_FromCmsgPetitionBuy, wrath_FromSmsgPetitionShowSignatures, wrath_FromCmsgOfferPetition,
    wrath_FromSmsgPetitionQueryResponse, wrath_FromCmsgBug, wrath_FromSmsgQueryTimeResponse,
    wrath_FromSmsgLevelupInfo, wrath_FromSmsgEnchantmentlog, wrath_FromCmsgPing,
    wrath_FromCmsgQuestPoiQuery, wrath_FromSmsgAuthChallenge, wrath_FromCmsgAuthSession,
    wrath_FromSmsgAuthResponse, wrath_FromCmsgPetCastSpell, wrath_FromMsgSaveGuildEmblem,
    wrath_FromSmsgCompressedUpdateObject, wrath_FromMsgRandomRoll,
    wrath_FromSmsgLfgTeleportDenied, wrath_FromCmsgGmticketCreate,
    wrath_FromCmsgGmticketUpdatetext, wrath_FromCmsgUpdateAccountData,
    wrath_FromCmsgGmticketGetticket, wrath_FromSmsgUpdateInstanceEncounterUnit,
    wrath_FromMsgCorpseQuery, wrath_FromCmsgSpiritHealerActivate, wrath_FromCmsgGuildRank,
    wrath_FromSmsgLoginVerifyWorld, wrath_FromSmsgSendMailResult, wrath_FromSmsgMailListResult,
    wrath_FromSmsgBattlefieldList, wrath_FromSmsgItemTextQueryResponse,
    wrath_FromCmsgMailReturnToSender, wrath_FromSmsgSpelllogexecute,
    wrath_FromSmsgSpellnonmeleedamagelog, wrath_FromCmsgTogglePvp, wrath_FromCmsgAuctionSellItem,
    wrath_FromCmsgAuctionListItems, wrath_FromSmsgAuctionCommandResult,
    wrath_FromSmsgAuctionBidderNotification, wrath_FromSmsgDispelFailed,
    wrath_FromSmsgAuctionBidderListResult, wrath_FromCmsgSetActiveMover, wrath_FromCmsgStablePet,
    wrath_FromMsgQuestPushResult, wrath_FromSmsgSpelldispellog, wrath_FromCmsgAutostoreBankItem,
    wrath_FromSmsgRaidGroupOnly, wrath_FromCmsgBuybackItem, wrath_FromCmsgGmticketsystemToggle,
    wrath_FromSmsgLootRollWon, wrath_FromSmsgLootRoll, wrath_FromSmsgSetForcedReactions,
    wrath_FromMsgTalentWipeConfirm, wrath_FromSmsgMonsterMoveTransport,
    wrath_FromMsgMoveFeatherFall, wrath_FromSmsgAreaTriggerMessage, wrath_FromMsgPetitionRename,
    wrath_FromSmsgItemNameQueryResponse, wrath_FromCmsgMoveSplineDone,
    wrath_FromCmsgMoveTimeSkipped, wrath_FromSmsgPlaySound, wrath_FromSmsgBattlefieldStatus,
    wrath_FromCmsgBattlefieldPort, wrath_FromSmsgForceWalkSpeedChange,
    wrath_FromSmsgForceTurnRateChange, wrath_FromCmsgAreaSpiritHealerQueue,
    wrath_FromMsgBattlegroundPlayerPositions, wrath_FromCmsgBattlemasterJoin,
    wrath_FromSmsgPartyMemberStatsFull, wrath_FromCmsgPetSpellAutocast,
    wrath_FromSmsgCompressedMoves, wrath_FromSmsgSplineSetRunBackSpeed,
    wrath_FromSmsgSplineSetTurnRate, wrath_FromSmsgSplineMoveUnsetHover>>
=============================================================================
