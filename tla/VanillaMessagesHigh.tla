------------------------ MODULE VanillaMessagesHigh ------------------------
(*****************************************************************************)
(* The messages of the 1.12 version of the world protocol from               *)
(* SMSG_LIST_INVENTORY to SMSG_DEFENSE_MESSAGE, in the order of              *)
(* src/wow_world_messages_c/src/vanilla.c.                                   *)
(*                                                                           *)
(* A message is a function from its wires to records of what its functions   *)
(* do on them. Neighbours are defined together, in a record named for the    *)
(* first. A message of which every function does what that of an earlier     *)
(* message does is defined as that message.                                  *)
(*****************************************************************************)
EXTENDS VanillaMessagesLow

vanilla_FromSmsgListInventory ==
  [SMSG_LIST_INVENTORY |-> [w \in OfCount |->
     Smsg(
       Free({"items"}),
       Minimum(9) \o Null({"items"}) \o Ints(<<8, 1>>)
       \o Array("items", w.count, {}, vanilla_ListInventoryItem.read),
       8 + 1 + w.count * vanilla_ListInventoryItem.written, 9 + 28 * w.count)],
   CMSG_SELL_ITEM |-> PlainCmsg(17, <<8, 8, 1>>, 2 * 8 + 1, 17),
   SMSG_SELL_ITEM |-> PlainSmsg(17, <<8, 8, 1>>, 2 * 8 + 1, 17)]

vanilla_FromCmsgBuyItem ==
  [CMSG_BUY_ITEM |-> PlainCmsg(14, <<8, 4, 1, 1>>, 8 + 4 + 2 * 1, 14),
   CMSG_BUY_ITEM_IN_SLOT |-> PlainCmsg(22, <<8, 4, 8, 1, 1>>, 8 + 4 + 8 + 2 * 1, 22),
   SMSG_BUY_ITEM |-> PlainSmsg(20, <<8, 4, 4, 4>>, 8 + 3 * 4, 20)]

vanilla_FromSmsgBuyFailed ==
  [SMSG_BUY_FAILED |-> PlainSmsg(13, <<8, 4, 1>>, 8 + 4 + 1, 13),
   SMSG_SHOWTAXINODES |-> [w \in OfCount |->
     Smsg(
       Free({"nodes"}),
       Counted(16, Minimum(16) \o Null({"nodes"}) \o Ints(<<4, 8, 4>>))
       \o Endless("nodes", w.count, {}, Ints(<<4>>), 4),
       4 + 8 + 4 + w.count * 4, 16 + 4 * w.count)]]

vanilla_FromCmsgTaxinodeStatusQuery ==
  [CMSG_TAXINODE_STATUS_QUERY |-> PlainCmsg(8, <<8>>, 8, 8),
   SMSG_TAXINODE_STATUS |-> PlainSmsg(9, <<8, 1>>, 8 + 1, 9),
   CMSG_TAXIQUERYAVAILABLENODES |-> PlainCmsg(8, <<8>>, 8, 8),
   CMSG_ACTIVATETAXI |-> PlainCmsg(16, <<8, 4, 4>>, 8 + 2 * 4, 16)]

vanilla_FromSmsgActivatetaxireply ==
  [SMSG_ACTIVATETAXIREPLY |-> PlainSmsg(4, <<4>>, 4, 4),
   SMSG_NEW_TAXI_PATH |-> EmptySmsg(0),
   CMSG_TRAINER_LIST |-> PlainCmsg(8, <<8>>, 8, 8)]

vanilla_FromSmsgTrainerList ==
  [SMSG_TRAINER_LIST |-> [w \in OfLengthAndCount |->
     Smsg(
       Free({"spells", "greeting"}),
       Minimum(17) \o Null({"spells", "greeting"}) \o Ints(<<8, 4, 4>>)
       \o Array("spells", w.count, {}, vanilla_TrainerSpell.read) \o Cstring("greeting", w),
       8 + 2 * 4 + w.count * vanilla_TrainerSpell.written + WRITE_CSTRING(w),
       17 + w.len + 38 * w.count)],
   CMSG_TRAINER_BUY_SPELL |-> PlainCmsg(12, <<8, 4>>, 8 + 4, 12),
   SMSG_TRAINER_BUY_SUCCEEDED |-> PlainSmsg(12, <<8, 4>>, 8 + 4, 12)]

vanilla_FromSmsgTrainerBuyFailed ==
  [SMSG_TRAINER_BUY_FAILED |-> PlainSmsg(16, <<8, 4, 4>>, 8 + 2 * 4, 16),
   CMSG_BINDER_ACTIVATE |-> PlainCmsg(8, <<8>>, 8, 8),
   CMSG_BANKER_ACTIVATE |-> PlainCmsg(8, <<8>>, 8, 8),
   SMSG_SHOW_BANK |-> PlainSmsg(8, <<8>>, 8, 8)]

vanilla_FromCmsgBuyBankSlot ==
  [CMSG_BUY_BANK_SLOT |-> PlainCmsg(8, <<8>>, 8, 8),
   SMSG_BUY_BANK_SLOT_RESULT |-> PlainSmsg(4, <<4>>, 4, 4),
   CMSG_PETITION_SHOWLIST |-> PlainCmsg(8, <<8>>, 8, 8)]

vanilla_FromSmsgPetitionShowlist ==
  [SMSG_PETITION_SHOWLIST |-> [w \in OfCount |->
     Smsg(
       Free({"petitions"}),
       Minimum(9) \o Null({"petitions"}) \o Ints(<<8, 1>>)
       \o Array("petitions", w.count, {}, vanilla_PetitionShowlist.read),
       8 + 1 + w.count * vanilla_PetitionShowlist.written, 9 + 20 * w.count)]]

vanilla_FromCmsgPetitionBuy ==
  [CMSG_PETITION_BUY |-> [w \in OfLength |->
     Cmsg(
       Free({"name"}),
       Minimum(72) \o Null({"name"}) \o Ints(<<8, 4, 8>>) \o Cstring("name", w)
       \o Ints(Repeat(10, 4) \o <<2, 1, 4, 4>>),
       8 + 4 + 8 + WRITE_CSTRING(w) + 10 * 4 + 2 + 1 + 2 * 4, 72 + w.len)],
   CMSG_PETITION_SHOW_SIGNATURES |-> PlainCmsg(8, <<8>>, 8, 8)]

vanilla_FromSmsgPetitionShowSignatures ==
  [SMSG_PETITION_SHOW_SIGNATURES |-> [w \in OfCount |->
     Smsg(
       Free({"signatures"}),
       Minimum(21) \o Null({"signatures"}) \o Ints(<<8, 8, 4, 1>>)
       \o Array("signatures", w.count, {}, vanilla_PetitionSignature.read),
       2 * 8 + 4 + 1 + w.count * vanilla_PetitionSignature.written, 21 + 12 * w.count)],
   CMSG_PETITION_SIGN |-> PlainCmsg(9, <<8, 1>>, 8 + 1, 9),
   SMSG_PETITION_SIGN_RESULTS |-> PlainSmsg(20, <<8, 8, 4>>, 2 * 8 + 4, 20)]

vanilla_FromMsgPetitionDecline ==
  [MSG_PETITION_DECLINE_cmsg |-> [w \in {Fixed} |-> Client(vanilla_MSG_PETITION_DECLINE)],
   MSG_PETITION_DECLINE_smsg |-> [w \in {Fixed} |-> Server(vanilla_MSG_PETITION_DECLINE)],
   CMSG_OFFER_PETITION |-> PlainCmsg(16, <<8, 8>>, 2 * 8, 16),
   CMSG_TURN_IN_PETITION |-> PlainCmsg(8, <<8>>, 8, 8),
   SMSG_TURN_IN_PETITION_RESULTS |-> PlainSmsg(4, <<4>>, 4, 4)]

vanilla_FromCmsgPetitionQuery ==
  [CMSG_PETITION_QUERY |-> PlainCmsg(12, <<4, 8>>, 4 + 8, 12)]

vanilla_FromSmsgPetitionQueryResponse ==
  [SMSG_PETITION_QUERY_RESPONSE |-> [w \in OfLength |->
     Smsg(
       Free({"guild_name", "body_text"}),
       Minimum(64) \o Null({"guild_name", "body_text"}) \o Ints(<<4, 8>>)
       \o Cstring("guild_name", w) \o Cstring("body_text", w)
       \o Ints(Repeat(8, 4) \o <<2, 4, 4, 4, 4>>),
       4 + 8 + 2 * WRITE_CSTRING(w) + 8 * 4 + 2 + 4 * 4, 64 + 2 * w.len)],
   SMSG_FISH_NOT_HOOKED |-> EmptySmsg(0),
   SMSG_FISH_ESCAPED |-> EmptySmsg(0)]

vanilla_FromCmsgBug ==
  [CMSG_BUG |-> [w \in OfLength |->
     Cmsg(
       Free({"content", "bug_type"}),
       Minimum(14) \o Null({"content", "bug_type"}) \o Ints(<<4>>) \o SizedCstring("content", w)
       \o SizedCstring("bug_type", w), 4 + 2 * WRITE_SIZED_CSTRING(w), 14 + 2 * w.len)],
   SMSG_NOTIFICATION |-> [w \in OfLength |->
     Smsg(
       Free({"notification"}), Minimum(1) \o Null({"notification"}) \o Cstring("notification", w),
       WRITE_CSTRING(w), 1 + w.len)],
   CMSG_PLAYED_TIME |-> EmptyCmsg(0)]

vanilla_FromSmsgPlayedTime ==
  [SMSG_PLAYED_TIME |-> PlainSmsg(8, <<4, 4>>, 2 * 4, 8),
   CMSG_QUERY_TIME |-> EmptyCmsg(0),
   SMSG_QUERY_TIME_RESPONSE |-> PlainSmsg(4, <<4>>, 4, 4),
   SMSG_LOG_XPGAIN |->
     [w \in Wires(
              {0}, {0}, {{"EXPERIENCE_AWARD_TYPE_NON_KILL", "EXPERIENCE_AWARD_TYPE_KILL"}}, {}) |->
       Smsg(
         {},
         Minimum(13) \o Ints(<<8, 4, 1>>)
         \o When(Is(w, "EXPERIENCE_AWARD_TYPE_NON_KILL"), Ints(<<4, 4>>)),
         8 + 4 + 1 + Bytes(Is(w, "EXPERIENCE_AWARD_TYPE_NON_KILL"), 2 * 4),
         13 + Bytes(Is(w, "EXPERIENCE_AWARD_TYPE_NON_KILL"), 8))]]

vanilla_FromCmsgReclaimCorpse ==
  [CMSG_RECLAIM_CORPSE |-> PlainCmsg(8, <<8>>, 8, 8),
   CMSG_WRAP_ITEM |-> PlainCmsg(4, <<1, 1, 1, 1>>, 4 * 1, 4)]

vanilla_FromSmsgLevelupInfo ==
  [SMSG_LEVELUP_INFO |-> PlainSmsg(48, Repeat(12, 4), 12 * 4, 48),
   MSG_MINIMAP_PING_Client |-> PlainCmsg(8, <<4, 4>>, 2 * 4, 8)]

vanilla_FromMsgMinimapPing ==
  [MSG_MINIMAP_PING_Server |-> PlainSmsg(16, <<8, 4, 4>>, 8 + 2 * 4, 16),
   SMSG_RESISTLOG |-> PlainSmsg(36, <<8, 8>> \o Repeat(5, 4), 2 * 8 + 5 * 4, 36),
   SMSG_ENCHANTMENTLOG |-> PlainSmsg(25, <<8, 8, 4, 4, 1>>, 2 * 8 + 2 * 4 + 1, 25)]

vanilla_FromSmsgStartMirrorTimer ==
  [SMSG_START_MIRROR_TIMER |-> PlainSmsg(21, <<4, 4, 4, 4, 1, 4>>, 4 * 4 + 1 + 4, 21),
   SMSG_PAUSE_MIRROR_TIMER |-> PlainSmsg(5, <<4, 1>>, 4 + 1, 5),
   SMSG_STOP_MIRROR_TIMER |-> PlainSmsg(4, <<4>>, 4, 4)]

vanilla_FromCmsgPing ==
  [CMSG_PING |-> PlainCmsg(8, <<4, 4>>, 2 * 4, 8),
   SMSG_PONG |-> PlainSmsg(4, <<4>>, 4, 4),
   SMSG_CLEAR_COOLDOWN |-> PlainSmsg(12, <<4, 8>>, 4 + 8, 12),
   SMSG_GAMEOBJECT_PAGETEXT |-> PlainSmsg(8, <<8>>, 8, 8)]

vanilla_FromCmsgSetsheathed ==
  [CMSG_SETSHEATHED |-> PlainCmsg(4, <<4>>, 4, 4),
   SMSG_SPELL_DELAYED |-> PlainSmsg(12, <<8, 4>>, 8 + 4, 12),
   SMSG_ITEM_TIME_UPDATE |-> PlainSmsg(12, <<8, 4>>, 8 + 4, 12)]

vanilla_FromSmsgItemEnchantTimeUpdate ==
  [SMSG_ITEM_ENCHANT_TIME_UPDATE |-> PlainSmsg(24, <<8, 4, 4, 8>>, 8 + 2 * 4 + 8, 24),
   SMSG_AUTH_CHALLENGE |-> PlainSmsg(4, <<4>>, 4, 4)]

vanilla_FromCmsgAuthSession ==
  [CMSG_AUTH_SESSION |-> [w \in OfLengthAndCount |->
     Cmsg(
       Free({"username"}) \union FreeEndless("addon_info", w.count, vanilla_AddonInfo(w).free),
       Counted(
         33 + w.len,
         Minimum(37) \o Null({"username", "addon_info"}) \o Ints(<<4, 4>>)
         \o Cstring("username", w) \o Ints(<<4>> \o Repeat(20, 1))) \o Await
       \o Counted(4, Ints(<<4>>) \o Null({"addon_info"}) \o Clear("amount_of_addon_info"))
       \o When(w.count > 0,
               Await \o InflateMember
               \o InflatedEndless(
                    "addon_info", w.count, vanilla_AddonInfo(w).free, vanilla_AddonInfo(w).read)
               \o FreeInflated),
       2 * 4 + WRITE_CSTRING(w) + 4 + 20
       + Bytes(w.count > 0, 4 + wwm_compress_data_size(w.count * vanilla_AddonInfo(w).size)),
       33 + w.len
       + Bytes(w.count > 0, wwm_compress_data_size(w.count * vanilla_AddonInfo(w).size)))]]

vanilla_FromSmsgAuthResponse ==
  [SMSG_AUTH_RESPONSE |->
     [w \in Wires({0}, {0},
                  {{"WORLD_RESULT_AUTH_OK", "WORLD_RESULT_AUTH_WAIT_QUEUE",
                    "WORLD_RESULT_RESPONSE_SUCCESS"}}, {}) |->
       Smsg(
         {},
         Minimum(1) \o Ints(<<1>>) \o When(Is(w, "WORLD_RESULT_AUTH_OK"), Ints(<<4, 1, 4>>))
         \o When(Is(w, "WORLD_RESULT_AUTH_WAIT_QUEUE"), Ints(<<4>>)),
         1 + Bytes(Is(w, "WORLD_RESULT_AUTH_OK"), 4 + 1 + 4)
         + Bytes(Is(w, "WORLD_RESULT_AUTH_WAIT_QUEUE"), 4),
         1 + Bytes(Is(w, "WORLD_RESULT_AUTH_OK"), 9)
         + Bytes(Is(w, "WORLD_RESULT_AUTH_WAIT_QUEUE"), 4))],
   CMSG_PET_CAST_SPELL |-> [w \in Wires(Lengths, {0}, {}, vanilla_SpellCastTargetsFlags) |->
     Cmsg(FreeAt(<<"targets">>, vanilla_SpellCastTargets(w).free),
          Minimum(14) \o Ints(<<8, 4>>) \o At(<<"targets">>, vanilla_SpellCastTargets(w).read),
          8 + 4 + vanilla_SpellCastTargets(w).written, 12 + vanilla_SpellCastTargets(w).size)]]

vanilla_FromMsgSaveGuildEmblem ==
  [MSG_SAVE_GUILD_EMBLEM_Server |-> PlainSmsg(4, <<4>>, 4, 4),
   MSG_SAVE_GUILD_EMBLEM_Client |-> PlainCmsg(28, <<8>> \o Repeat(5, 4), 8 + 5 * 4, 28),
   MSG_TABARDVENDOR_ACTIVATE_cmsg |->
     [w \in {Fixed} |-> Client(vanilla_MSG_TABARDVENDOR_ACTIVATE)],
   MSG_TABARDVENDOR_ACTIVATE_smsg |->
     [w \in {Fixed} |-> Server(vanilla_MSG_TABARDVENDOR_ACTIVATE)]]

vanilla_FromSmsgPlaySpellVisual ==
  [SMSG_PLAY_SPELL_VISUAL |-> PlainSmsg(12, <<8, 4>>, 8 + 4, 12),
   CMSG_ZONEUPDATE |-> PlainCmsg(4, <<4>>, 4, 4),
   SMSG_PARTYKILLLOG |-> PlainSmsg(16, <<8, 8>>, 2 * 8, 16)]

vanilla_FromSmsgCompressedUpdateObject ==
  [SMSG_COMPRESSED_UPDATE_OBJECT |->
     [w \in Wires(Lengths, Counts, vanilla_ObjectEnums, vanilla_ObjectFlags) |->
       CompressedSmsg(
         FreeEach("objects", w.count, vanilla_Object(w).free),
         Counted(4, Minimum(5) \o Null({"objects"}) \o Ints(<<4>>)) \o Inflate
         \o Counted(5 + w.count * vanilla_Object(w).size,
                    Ints(<<4, 1>>)
                    \o Array("objects", w.count, vanilla_Object(w).free, vanilla_Object(w).read))
         \o FreeInflated, 5 + w.count * vanilla_Object(w).written)]]

vanilla_FromSmsgPlaySpellImpact ==
  [SMSG_PLAY_SPELL_IMPACT |-> PlainSmsg(12, <<8, 4>>, 8 + 4, 12),
   SMSG_EXPLORATION_EXPERIENCE |-> PlainSmsg(8, <<4, 4>>, 2 * 4, 8),
   MSG_RANDOM_ROLL_Client |-> PlainCmsg(8, <<4, 4>>, 2 * 4, 8)]

vanilla_FromMsgRandomRoll ==
  [MSG_RANDOM_ROLL_Server |-> PlainSmsg(20, <<4, 4, 4, 8>>, 3 * 4 + 8, 20),
   SMSG_ENVIRONMENTAL_DAMAGE_LOG |-> PlainSmsg(21, <<8, 1, 4, 4, 4>>, 8 + 1 + 3 * 4, 21),
   MSG_LOOKING_FOR_GROUP_Client |-> EmptyCmsg(0),
   MSG_LOOKING_FOR_GROUP_Server |-> PlainSmsg(4, <<4>>, 4, 4)]

vanilla_FromCmsgUnlearnSkill ==
  [CMSG_UNLEARN_SKILL |-> PlainCmsg(4, <<4>>, 4, 4),
   SMSG_REMOVED_SPELL |-> PlainSmsg(2, <<2>>, 2, 2)]

vanilla_FromCmsgGmticketCreate ==
  [CMSG_GMTICKET_CREATE |->
     [w \in Wires(Lengths, Counts, {{"GM_TICKET_TYPE_BEHAVIOR_HARASSMENT", "GM_TICKET_TYPE_STUCK"}},
                  {}) |->
       Cmsg(
         Free({"message", "reserved_for_future_use"})
         \union FreeIf("category", {"GM_TICKET_TYPE_BEHAVIOR_HARASSMENT"},
                       Free({"compressed_chat_data"})),
         Counted(
           19 + 2 * w.len,
           Minimum(19) \o Null({"message", "reserved_for_future_use", "compressed_chat_data"})
           \o Field(1, "category", {}, w) \o Ints(<<4>>) \o Vector3d.read \o Cstring("message", w)
           \o Cstring("reserved_for_future_use", w))
         \o When(
              Is(w, "GM_TICKET_TYPE_BEHAVIOR_HARASSMENT"),
              Counted(4, Ints(<<4>>)) \o Await
              \o Counted(4,
                         Ints(<<4>>) \o Null({"compressed_chat_data"})
                         \o Clear("amount_of_compressed_chat_data"))
              \o When(w.count > 0,
                      Await \o InflateMember
                      \o InflatedEndless("compressed_chat_data", w.count, {}, Ints(<<1>>))) \o FreeInflated),
         1 + 4 + Vector3d.written + 2 * WRITE_CSTRING(w)
         + Bytes(Is(w, "GM_TICKET_TYPE_BEHAVIOR_HARASSMENT"),
                 4 + Bytes(w.count > 0, 4 + wwm_compress_data_size(w.count))),
         19 + 2 * w.len
         + Bytes(Is(w, "GM_TICKET_TYPE_BEHAVIOR_HARASSMENT"),
                 4 + Bytes(w.count > 0, wwm_compress_data_size(w.count))))]]

vanilla_FromSmsgGmticketCreate ==
  [SMSG_GMTICKET_CREATE |-> PlainSmsg(4, <<4>>, 4, 4),
   CMSG_GMTICKET_UPDATETEXT |-> [w \in OfLength |->
     Cmsg(
       Free({"message"}), Minimum(2) \o Null({"message"}) \o Ints(<<1>>) \o Cstring("message", w),
       1 + WRITE_CSTRING(w), 2 + w.len)],
   SMSG_GMTICKET_UPDATETEXT |-> PlainSmsg(4, <<4>>, 4, 4)]

vanilla_FromSmsgAccountDataTimes ==
  [SMSG_ACCOUNT_DATA_TIMES |-> PlainSmsg(128, Repeat(32, 4), 32 * 4, 128),
   CMSG_REQUEST_ACCOUNT_DATA |-> PlainCmsg(4, <<4>>, 4, 4)]

vanilla_FromCmsgUpdateAccountData ==
  [CMSG_UPDATE_ACCOUNT_DATA |-> [w \in OfCount |->
     Cmsg(
       Free({"compressed_data"}),
       Counted(4, Minimum(8) \o Null({"compressed_data"}) \o Ints(<<4>>)) \o Await
       \o Counted(
            4, Ints(<<4>>) \o Null({"compressed_data"}) \o Clear("amount_of_compressed_data"))
       \o When(w.count > 0,
               Await \o Inflate \o InflatedEndless("compressed_data", w.count, {}, Ints(<<1>>))
               \o FreeInflated),
       4 + Bytes(w.count > 0, 4 + wwm_compress_data_size(w.count)),
       4 + Bytes(w.count > 0, wwm_compress_data_size(w.count)))]]

vanilla_FromCmsgGmticketGetticket ==
  [CMSG_GMTICKET_GETTICKET |-> EmptyCmsg(0),
   SMSG_GMTICKET_GETTICKET |->
     [w \in Wires(Lengths, {0}, {{"GM_TICKET_STATUS_HAS_TEXT", "GM_TICKET_STATUS_DB_ERROR"}}, {}) |->
       Smsg(
         FreeIf("status", {"GM_TICKET_STATUS_HAS_TEXT"}, Free({"text"})),
         Minimum(4) \o Null({"text"}) \o Field(4, "status", {}, w)
         \o When(
              Is(w, "GM_TICKET_STATUS_HAS_TEXT"), Cstring("text", w) \o Ints(<<1, 4, 4, 4, 1, 1>>)),
         4 + Bytes(Is(w, "GM_TICKET_STATUS_HAS_TEXT"), WRITE_CSTRING(w) + 1 + 3 * 4 + 2 * 1),
         4 + Bytes(Is(w, "GM_TICKET_STATUS_HAS_TEXT"), 16 + w.len))],
   SMSG_GAMEOBJECT_SPAWN_ANIM |-> PlainSmsg(8, <<8>>, 8, 8)]

vanilla_FromSmsgGameobjectDespawnAnim ==
  [SMSG_GAMEOBJECT_DESPAWN_ANIM |-> PlainSmsg(8, <<8>>, 8, 8),
   MSG_CORPSE_QUERY_Client |-> EmptyCmsg(0),
   MSG_CORPSE_QUERY_Server |->
     [w \in Wires({0}, {0}, {{"CORPSE_QUERY_RESULT_FOUND", "CORPSE_QUERY_RESULT_NOT_FOUND"}}, {}) |->
       Smsg(
         {},
         Minimum(1) \o Ints(<<1>>)
         \o When(Is(w, "CORPSE_QUERY_RESULT_FOUND"), Ints(<<4>>) \o Vector3d.read \o Ints(<<4>>)),
         1 + Bytes(Is(w, "CORPSE_QUERY_RESULT_FOUND"), 4 + Vector3d.written + 4),
         1 + Bytes(Is(w, "CORPSE_QUERY_RESULT_FOUND"), 20))],
   CMSG_GMTICKET_DELETETICKET |-> EmptyCmsg(0)]

vanilla_FromSmsgGmticketDeleteticket ==
  [SMSG_GMTICKET_DELETETICKET |-> PlainSmsg(4, <<4>>, 4, 4),
   SMSG_CHAT_WRONG_FACTION |-> EmptySmsg(0),
   CMSG_GMTICKET_SYSTEMSTATUS |-> EmptyCmsg(0),
   SMSG_GMTICKET_SYSTEMSTATUS |-> PlainSmsg(4, <<4>>, 4, 4),
   CMSG_SPIRIT_HEALER_ACTIVATE |-> PlainCmsg(8, <<8>>, 8, 8)]

vanilla_FromSmsgSetRestStart ==
  [SMSG_SET_REST_START |-> PlainSmsg(4, <<4>>, 4, 4),
   SMSG_SPIRIT_HEALER_CONFIRM |-> PlainSmsg(8, <<8>>, 8, 8),
   SMSG_GOSSIP_POI |-> [w \in OfLength |->
     Smsg(
       Free({"location_name"}),
       Minimum(21) \o Null({"location_name"}) \o Ints(<<4>>) \o Vector2d.read \o Ints(<<4, 4>>)
       \o Cstring("location_name", w),
       4 + Vector2d.written + 2 * 4 + WRITE_CSTRING(w), 21 + w.len)]]

vanilla_FromCmsgChatIgnored ==
  [CMSG_CHAT_IGNORED |-> PlainCmsg(8, <<8>>, 8, 8),
   CMSG_GUILD_RANK |-> [w \in OfLength |->
     Cmsg(Free({"rank_name"}),
          Minimum(9) \o Null({"rank_name"}) \o Ints(<<4, 4>>) \o Cstring("rank_name", w),
          2 * 4 + WRITE_CSTRING(w), 9 + w.len)],
   CMSG_GUILD_ADD_RANK |-> [w \in OfLength |->
     Cmsg(Free({"rank_name"}), Minimum(1) \o Null({"rank_name"}) \o Cstring("rank_name", w),
          WRITE_CSTRING(w), 1 + w.len)],
   CMSG_GUILD_DEL_RANK |-> EmptyCmsg(0)]

vanilla_FromCmsgGuildSetPublicNote ==
  [CMSG_GUILD_SET_PUBLIC_NOTE |-> [w \in OfLength |->
     Cmsg(Free({"player_name", "note"}),
          Minimum(2) \o Null({"player_name", "note"}) \o Cstring("player_name", w)
          \o Cstring("note", w), 2 * WRITE_CSTRING(w), 2 + 2 * w.len)],
   CMSG_GUILD_SET_OFFICER_NOTE |-> [w \in OfLength |->
     Cmsg(Free({"player_name", "note"}),
          Minimum(2) \o Null({"player_name", "note"}) \o Cstring("player_name", w)
          \o Cstring("note", w), 2 * WRITE_CSTRING(w), 2 + 2 * w.len)],
   SMSG_LOGIN_VERIFY_WORLD |-> [w \in {Fixed} |->
     Smsg({}, Minimum(20) \o Ints(<<4>>) \o Vector3d.read \o Ints(<<4>>),
          4 + Vector3d.written + 4, 20)]]

vanilla_FromCmsgSendMail ==
  [CMSG_SEND_MAIL |-> [w \in OfLength |->
     Cmsg(
       Free({"receiver", "subject", "body"}),
       Minimum(43) \o Null({"receiver", "subject", "body"}) \o Ints(<<8>>)
       \o Cstring("receiver", w) \o Cstring("subject", w) \o Cstring("body", w)
       \o Ints(<<4, 4, 8, 4, 4, 4, 4>>),
       8 + 3 * WRITE_CSTRING(w) + 2 * 4 + 8 + 4 * 4, 43 + 3 * w.len)]]

vanilla_FromSmsgSendMailResult ==
  [SMSG_SEND_MAIL_RESULT |->
     [w \in Wires({0}, {0},
                  {{"MAIL_ACTION_ITEM_TAKEN", "MAIL_ACTION_SEND"},
                   {"MAIL_RESULT_ERR_EQUIP_ERROR", "MAIL_RESULT_OK"},
                   {"MAIL_RESULT_TWO_ERR_EQUIP_ERROR", "MAIL_RESULT_TWO_OK"}}, {}) |->
       Smsg(
         {},
         Minimum(12) \o Ints(<<4, 4>>)
         \o When(Is(w, "MAIL_ACTION_ITEM_TAKEN"),
                 Ints(<<4>>) \o When(Is(w, "MAIL_RESULT_ERR_EQUIP_ERROR"), Ints(<<4>>))
                 \o When(Is(w, "MAIL_RESULT_OK"), Ints(<<4, 4>>)))
         \o When(Is(w, "MAIL_ACTION_SEND"),
                 Ints(<<4>>) \o When(Is(w, "MAIL_RESULT_TWO_ERR_EQUIP_ERROR"), Ints(<<4>>))),
         2 * 4
         + Bytes(Is(w, "MAIL_ACTION_ITEM_TAKEN"),
                 4 + Bytes(Is(w, "MAIL_RESULT_ERR_EQUIP_ERROR"), 4)
                 + Bytes(Is(w, "MAIL_RESULT_OK"), 2 * 4))
         + Bytes(Is(w, "MAIL_ACTION_SEND"), 4 + Bytes(Is(w, "MAIL_RESULT_TWO_ERR_EQUIP_ERROR"), 4)),
         8
         + Bytes(
             Is(w, "MAIL_ACTION_ITEM_TAKEN"),
             4 + Bytes(Is(w, "MAIL_RESULT_ERR_EQUIP_ERROR"), 4) + Bytes(Is(w, "MAIL_RESULT_OK"), 8))
         + Bytes(
             Is(w, "MAIL_ACTION_SEND"), 4 + Bytes(Is(w, "MAIL_RESULT_TWO_ERR_EQUIP_ERROR"), 4)))],
   CMSG_GET_MAIL_LIST |-> PlainCmsg(8, <<8>>, 8, 8)]

vanilla_FromSmsgMailListResult ==
  [SMSG_MAIL_LIST_RESULT |-> [w \in Wires(Lengths, Counts, vanilla_MailEnums, {}) |->
     Smsg(
       FreeEach("mails", w.count, vanilla_Mail(w).free),
       Minimum(1) \o Null({"mails"}) \o Ints(<<1>>)
       \o Array("mails", w.count, vanilla_Mail(w).free, vanilla_Mail(w).read),
       1 + w.count * vanilla_Mail(w).written, 1 + w.count * vanilla_Mail(w).size)],
   CMSG_BATTLEFIELD_LIST |-> PlainCmsg(4, <<4>>, 4, 4)]

vanilla_FromSmsgBattlefieldList ==
  [SMSG_BATTLEFIELD_LIST |-> [w \in OfCount |->
     Smsg(
       Free({"battlegrounds"}),
       Minimum(17) \o Null({"battlegrounds"}) \o Ints(<<8, 4, 1, 4>>)
       \o Calloc("battlegrounds", w.count, {}) \o Ints(Repeat(w.count, 4)),
       8 + 4 + 1 + 4 + w.count * 4, 17 + 4 * w.count)],
   CMSG_BATTLEFIELD_JOIN |-> PlainCmsg(4, <<4>>, 4, 4),
   CMSG_ITEM_TEXT_QUERY |-> PlainCmsg(12, <<4, 4, 4>>, 3 * 4, 12)]

vanilla_FromSmsgItemTextQueryResponse ==
  [SMSG_ITEM_TEXT_QUERY_RESPONSE |-> [w \in OfLength |->
     Smsg(Free({"text"}), Minimum(5) \o Null({"text"}) \o Ints(<<4>>) \o Cstring("text", w),
          4 + WRITE_CSTRING(w), 5 + w.len)],
   CMSG_MAIL_TAKE_MONEY |-> PlainCmsg(12, <<8, 4>>, 8 + 4, 12),
   CMSG_MAIL_TAKE_ITEM |-> PlainCmsg(12, <<8, 4>>, 8 + 4, 12)]

vanilla_FromCmsgMailMarkAsRead ==
  [CMSG_MAIL_MARK_AS_READ |-> PlainCmsg(12, <<8, 4>>, 8 + 4, 12),
   CMSG_MAIL_RETURN_TO_SENDER |-> PlainCmsg(12, <<8, 4>>, 8 + 4, 12),
   CMSG_MAIL_DELETE |-> PlainCmsg(12, <<8, 4>>, 8 + 4, 12)]

vanilla_FromCmsgMailCreateTextItem ==
  [CMSG_MAIL_CREATE_TEXT_ITEM |-> PlainCmsg(16, <<8, 4, 4>>, 8 + 2 * 4, 16),
   SMSG_SPELLLOGMISS |-> [w \in OfCount |->
     Smsg(
       Free({"targets"}),
       Minimum(17) \o Null({"targets"}) \o Ints(<<4, 8, 1, 4>>)
       \o Array("targets", w.count, {}, vanilla_SpellLogMiss.read),
       4 + 8 + 1 + 4 + w.count * vanilla_SpellLogMiss.written, 17 + 9 * w.count)]]

vanilla_FromSmsgSpelllogexecute ==
  [SMSG_SPELLLOGEXECUTE |-> [w \in Wires(Lengths, Counts, vanilla_SpellLogEnums, {}) |->
     Smsg(
       Free({"logs"}),
       Minimum(9) \o Null({"logs"}) \o PackedGuid(w) \o Ints(<<4, 4>>)
       \o Array("logs", w.count, {}, vanilla_SpellLog(w).read),
       WRITE_PACKED_GUID(w) + 2 * 4 + w.count * vanilla_SpellLog(w).written,
       8 + wwm_packed_guid_size(w) + w.count * vanilla_SpellLog(w).size)]]

vanilla_FromSmsgPeriodicauralog ==
  [SMSG_PERIODICAURALOG |-> [w \in Wires(Lengths, Counts, vanilla_AuraLogEnums, {}) |->
     Smsg(
       Free({"auras"}),
       Minimum(10) \o Null({"auras"}) \o PackedGuid(w) \o PackedGuid(w) \o Ints(<<4, 4>>)
       \o Array("auras", w.count, {}, vanilla_AuraLog(w).read),
       2 * WRITE_PACKED_GUID(w) + 2 * 4 + w.count * vanilla_AuraLog(w).written,
       8 + 2 * wwm_packed_guid_size(w) + w.count * vanilla_AuraLog(w).size)],
   SMSG_SPELLDAMAGESHIELD |-> PlainSmsg(24, <<8, 8, 4, 4>>, 2 * 8 + 2 * 4, 24)]

vanilla_FromSmsgSpellnonmeleedamagelog ==
  [SMSG_SPELLNONMELEEDAMAGELOG |-> [w \in OfLength |->
     Smsg(
       {}, Minimum(30) \o PackedGuid(w) \o PackedGuid(w) \o Ints(<<4, 4, 1, 4, 4, 1, 1, 4, 4, 1>>),
       2 * WRITE_PACKED_GUID(w) + 2 * 4 + 1 + 2 * 4 + 2 * 1 + 2 * 4 + 1,
       28 + 2 * wwm_packed_guid_size(w))],
   CMSG_LEARN_TALENT |-> PlainCmsg(8, <<4, 4>>, 2 * 4, 8)]

vanilla_FromCmsgTogglePvp ==
  [CMSG_TOGGLE_PVP |-> [w \in Wires({0}, {0}, {}, {"set"}) |->
     Cmsg(Free({"set"}), Null({"set"}) \o Optional("set", {}, Ints(<<1>>)),
          Bytes(Is(w, "set"), 1), Bytes(Is(w, "set"), 1))],
   SMSG_ZONE_UNDER_ATTACK |-> PlainSmsg(4, <<4>>, 4, 4),
   MSG_AUCTION_HELLO_Client |-> PlainCmsg(8, <<8>>, 8, 8)]

vanilla_FromMsgAuctionHello ==
  [MSG_AUCTION_HELLO_Server |-> PlainSmsg(12, <<8, 4>>, 8 + 4, 12),
   CMSG_AUCTION_SELL_ITEM |-> PlainCmsg(28, <<8, 8, 4, 4, 4>>, 2 * 8 + 3 * 4, 28),
   CMSG_AUCTION_REMOVE_ITEM |-> PlainCmsg(12, <<8, 4>>, 8 + 4, 12)]

vanilla_FromCmsgAuctionListItems ==
  [CMSG_AUCTION_LIST_ITEMS |-> [w \in OfLength |->
     Cmsg(
       Free({"searched_name"}),
       Minimum(32) \o Null({"searched_name"}) \o Ints(<<8, 4>>) \o Cstring("searched_name", w)
       \o Ints(<<1, 1, 4, 4, 4, 4, 1>>), 8 + 4 + WRITE_CSTRING(w) + 2 * 1 + 4 * 4 + 1, 32 + w.len)],
   CMSG_AUCTION_LIST_OWNER_ITEMS |-> PlainCmsg(12, <<8, 4>>, 8 + 4, 12)]

vanilla_FromCmsgAuctionPlaceBid ==
  [CMSG_AUCTION_PLACE_BID |-> PlainCmsg(16, <<8, 4, 4>>, 8 + 2 * 4, 16)]

vanilla_FromSmsgAuctionCommandResult ==
  [SMSG_AUCTION_COMMAND_RESULT |->
     [w \in Wires(
              {0}, {0},
              {{"AUCTION_COMMAND_ACTION_BID_PLACED", "AUCTION_COMMAND_ACTION_STARTED"},
               {"AUCTION_COMMAND_RESULT_OK", "AUCTION_COMMAND_RESULT_ERR_INVENTORY",
                "AUCTION_COMMAND_RESULT_ERR_HIGHER_BID", "AUCTION_COMMAND_RESULT_ERR_DATABASE"},
               {"AUCTION_COMMAND_RESULT_TWO_ERR_INVENTORY",
                "AUCTION_COMMAND_RESULT_TWO_ERR_HIGHER_BID", "AUCTION_COMMAND_RESULT_TWO_OK"}},
              {}) |->
       Smsg(
         {},
         Minimum(12) \o Ints(<<4, 4>>)
         \o When(Is(w, "AUCTION_COMMAND_ACTION_BID_PLACED"),
                 Ints(<<4>>) \o When(Is(w, "AUCTION_COMMAND_RESULT_OK"), Ints(<<4>>))
                 \o When(Is(w, "AUCTION_COMMAND_RESULT_ERR_INVENTORY"), Ints(<<1>>))
                 \o When(Is(w, "AUCTION_COMMAND_RESULT_ERR_HIGHER_BID"), Ints(<<8, 4, 4>>)))
         \o When(Is(w, "AUCTION_COMMAND_ACTION_STARTED"),
                 Ints(<<4>>) \o When(Is(w, "AUCTION_COMMAND_RESULT_TWO_ERR_INVENTORY"), Ints(<<1>>))
                 \o When(Is(w, "AUCTION_COMMAND_RESULT_TWO_ERR_HIGHER_BID"), Ints(<<8, 4, 4>>))),
         2 * 4
         + Bytes(
             Is(w, "AUCTION_COMMAND_ACTION_BID_PLACED"),
             4 + Bytes(Is(w, "AUCTION_COMMAND_RESULT_OK"), 4)
             + Bytes(Is(w, "AUCTION_COMMAND_RESULT_ERR_INVENTORY"), 1)
             + Bytes(Is(w, "AUCTION_COMMAND_RESULT_ERR_HIGHER_BID"), 8 + 2 * 4))
         + Bytes(Is(w, "AUCTION_COMMAND_ACTION_STARTED"),
                 4 + Bytes(Is(w, "AUCTION_COMMAND_RESULT_TWO_ERR_INVENTORY"), 1)
                 + Bytes(Is(w, "AUCTION_COMMAND_RESULT_TWO_ERR_HIGHER_BID"), 8 + 2 * 4)),
         8
         + Bytes(
             Is(w, "AUCTION_COMMAND_ACTION_BID_PLACED"),
             4 + Bytes(Is(w, "AUCTION_COMMAND_RESULT_OK"), 4)
             + Bytes(Is(w, "AUCTION_COMMAND_RESULT_ERR_INVENTORY"), 1)
             + Bytes(Is(w, "AUCTION_COMMAND_RESULT_ERR_HIGHER_BID"), 16))
         + Bytes(Is(w, "AUCTION_COMMAND_ACTION_STARTED"),
                 4 + Bytes(Is(w, "AUCTION_COMMAND_RESULT_TWO_ERR_INVENTORY"), 1)
                 + Bytes(Is(w, "AUCTION_COMMAND_RESULT_TWO_ERR_HIGHER_BID"), 16)))]]

vanilla_FromSmsgAuctionListResult ==
  [SMSG_AUCTION_LIST_RESULT |-> [w \in OfCount |->
     Smsg(
       Free({"auctions"}),
       Minimum(8) \o Null({"auctions"}) \o Ints(<<4>>)
       \o Array("auctions", w.count, {}, vanilla_AuctionListItem.read) \o Ints(<<4>>),
       4 + w.count * vanilla_AuctionListItem.written + 4, 8 + 64 * w.count)],
   SMSG_AUCTION_OWNER_LIST_RESULT |-> [w \in OfCount |->
     Smsg(
       Free({"auctions"}),
       Minimum(8) \o Null({"auctions"}) \o Ints(<<4>>)
       \o Array("auctions", w.count, {}, vanilla_AuctionListItem.read) \o Ints(<<4>>),
       4 + w.count * vanilla_AuctionListItem.written + 4, 8 + 64 * w.count)]]

vanilla_FromSmsgAuctionBidderNotification ==
  [SMSG_AUCTION_BIDDER_NOTIFICATION |->
     PlainSmsg(32, <<4, 4, 8, 4, 4, 4, 4>>, 2 * 4 + 8 + 4 * 4, 32),
   SMSG_AUCTION_OWNER_NOTIFICATION |-> PlainSmsg(28, <<4, 4, 4, 8, 4, 4>>, 3 * 4 + 8 + 2 * 4, 28)]

vanilla_FromSmsgProcresist ==
  [SMSG_PROCRESIST |-> PlainSmsg(21, <<8, 8, 4, 1>>, 2 * 8 + 4 + 1, 21),
   SMSG_DISPEL_FAILED |-> [w \in OfCount |->
     Smsg(
       Free({"spells"}),
       Counted(16, Minimum(16) \o Null({"spells"}) \o Ints(<<8, 8>>))
       \o Endless("spells", w.count, {}, Ints(<<4>>), 4), 2 * 8 + w.count * 4, 16 + 4 * w.count)]]

vanilla_FromSmsgSpellordamageImmune ==
  [SMSG_SPELLORDAMAGE_IMMUNE |-> PlainSmsg(21, <<8, 8, 4, 1>>, 2 * 8 + 4 + 1, 21),
   CMSG_AUCTION_LIST_BIDDER_ITEMS |-> [w \in OfCount |->
     Cmsg(
       Free({"outbid_item_ids"}),
       Minimum(16) \o Null({"outbid_item_ids"}) \o Ints(<<8, 4, 4>>)
       \o Calloc("outbid_item_ids", w.count, {}) \o Ints(Repeat(w.count, 4)),
       8 + 2 * 4 + w.count * 4, 16 + 4 * w.count)]]

vanilla_FromSmsgAuctionBidderListResult ==
  [SMSG_AUCTION_BIDDER_LIST_RESULT |-> vanilla_FromSmsgAuctionListResult.SMSG_AUCTION_LIST_RESULT,
   SMSG_SET_FLAT_SPELL_MODIFIER |-> PlainSmsg(6, <<1, 1, 4>>, 2 * 1 + 4, 6),
   SMSG_SET_PCT_SPELL_MODIFIER |-> PlainSmsg(6, <<1, 1, 4>>, 2 * 1 + 4, 6)]

vanilla_FromCmsgSetAmmo ==
  [CMSG_SET_AMMO |-> PlainCmsg(4, <<4>>, 4, 4),
   SMSG_CORPSE_RECLAIM_DELAY |-> PlainSmsg(4, <<4>>, 4, 4),
   CMSG_SET_ACTIVE_MOVER |-> PlainCmsg(8, <<8>>, 8, 8),
   CMSG_PET_CANCEL_AURA |-> PlainCmsg(12, <<8, 4>>, 8 + 4, 12)]

vanilla_FromCmsgCancelAutoRepeatSpell ==
  [CMSG_CANCEL_AUTO_REPEAT_SPELL |-> EmptyCmsg(0),
   MSG_LIST_STABLED_PETS_Client |-> PlainCmsg(8, <<8>>, 8, 8),
   MSG_LIST_STABLED_PETS_Server |-> [w \in OfLengthAndCount |->
     Smsg(
       FreeEach("pets", w.count, vanilla_StabledPet(w).free),
       Minimum(10) \o Null({"pets"}) \o Ints(<<8, 1, 1>>)
       \o Array("pets", w.count, vanilla_StabledPet(w).free, vanilla_StabledPet(w).read),
       8 + 2 * 1 + w.count * vanilla_StabledPet(w).written,
       10 + w.count * vanilla_StabledPet(w).size)]]

vanilla_FromCmsgStablePet ==
  [CMSG_STABLE_PET |-> PlainCmsg(8, <<8>>, 8, 8),
   CMSG_UNSTABLE_PET |-> PlainCmsg(12, <<8, 4>>, 8 + 4, 12),
   CMSG_BUY_STABLE_SLOT |-> PlainCmsg(8, <<8>>, 8, 8),
   SMSG_STABLE_RESULT |-> PlainSmsg(1, <<1>>, 1, 1)]

vanilla_FromCmsgStableSwapPet ==
  [CMSG_STABLE_SWAP_PET |-> PlainCmsg(12, <<8, 4>>, 8 + 4, 12),
   MSG_QUEST_PUSH_RESULT_cmsg |-> [w \in {Fixed} |-> Client(vanilla_MSG_QUEST_PUSH_RESULT)],
   MSG_QUEST_PUSH_RESULT_smsg |-> [w \in {Fixed} |-> Server(vanilla_MSG_QUEST_PUSH_RESULT)],
   SMSG_PLAY_MUSIC |-> PlainSmsg(4, <<4>>, 4, 4)]

vanilla_FromSmsgPlayObjectSound ==
  [SMSG_PLAY_OBJECT_SOUND |-> PlainSmsg(12, <<4, 8>>, 4 + 8, 12),
   CMSG_REQUEST_PET_INFO |-> EmptyCmsg(0),
   CMSG_FAR_SIGHT |-> PlainCmsg(1, <<1>>, 1, 1)]

vanilla_FromSmsgSpelldispellog ==
  [SMSG_SPELLDISPELLOG |-> [w \in OfLengthAndCount |->
     Smsg(
       Free({"spells"}),
       Minimum(6) \o Null({"spells"}) \o PackedGuid(w) \o PackedGuid(w) \o Ints(<<4>>)
       \o Calloc("spells", w.count, {}) \o Ints(Repeat(w.count, 4)),
       2 * WRITE_PACKED_GUID(w) + 4 + w.count * 4, 4 + 2 * wwm_packed_guid_size(w) + 4 * w.count)],
   CMSG_GROUP_CHANGE_SUB_GROUP |-> [w \in OfLength |->
     Cmsg(Free({"name"}), Minimum(2) \o Null({"name"}) \o Cstring("name", w) \o Ints(<<1>>),
          WRITE_CSTRING(w) + 1, 2 + w.len)],
   CMSG_REQUEST_PARTY_MEMBER_STATS |-> PlainCmsg(8, <<8>>, 8, 8)]

vanilla_FromCmsgGroupSwapSubGroup ==
  [CMSG_GROUP_SWAP_SUB_GROUP |-> [w \in OfLength |->
     Cmsg(Free({"name", "swap_with_name"}),
          Minimum(2) \o Null({"name", "swap_with_name"}) \o Cstring("name", w)
          \o Cstring("swap_with_name", w), 2 * WRITE_CSTRING(w), 2 + 2 * w.len)],
   CMSG_AUTOSTORE_BANK_ITEM |-> PlainCmsg(2, <<1, 1>>, 2 * 1, 2),
   CMSG_AUTOBANK_ITEM |-> PlainCmsg(2, <<1, 1>>, 2 * 1, 2)]

vanilla_FromMsgQueryNextMailTime ==
  [MSG_QUERY_NEXT_MAIL_TIME_Server |-> PlainSmsg(4, <<4>>, 4, 4),
   MSG_QUERY_NEXT_MAIL_TIME_Client |-> EmptyCmsg(0),
   SMSG_RECEIVED_MAIL |-> PlainSmsg(4, <<4>>, 4, 4),
   SMSG_RAID_GROUP_ONLY |-> PlainSmsg(8, <<4, 4>>, 2 * 4, 8)]

vanilla_FromSmsgPvpCredit ==
  [SMSG_PVP_CREDIT |-> PlainSmsg(16, <<4, 8, 4>>, 4 + 8 + 4, 16),
   SMSG_AUCTION_REMOVED_NOTIFICATION |-> PlainSmsg(12, <<4, 4, 4>>, 3 * 4, 12),
   CMSG_GROUP_RAID_CONVERT |-> EmptyCmsg(0),
   CMSG_GROUP_ASSISTANT_LEADER |-> PlainCmsg(9, <<8, 1>>, 8 + 1, 9)]

vanilla_FromCmsgBuybackItem ==
  [CMSG_BUYBACK_ITEM |-> PlainCmsg(12, <<8, 4>>, 8 + 4, 12),
   SMSG_SERVER_MESSAGE |-> [w \in OfLength |->
     Smsg(
       Free({"message"}), Minimum(5) \o Null({"message"}) \o Ints(<<4>>) \o Cstring("message", w),
       4 + WRITE_CSTRING(w), 5 + w.len)],
   CMSG_MEETINGSTONE_JOIN |-> PlainCmsg(8, <<8>>, 8, 8),
   CMSG_MEETINGSTONE_LEAVE |-> EmptyCmsg(0)]

vanilla_FromSmsgMeetingstoneSetqueue ==
  [SMSG_MEETINGSTONE_SETQUEUE |-> PlainSmsg(5, <<4, 1>>, 4 + 1, 5),
   CMSG_MEETINGSTONE_INFO |-> EmptyCmsg(0),
   SMSG_MEETINGSTONE_COMPLETE |-> EmptySmsg(0),
   SMSG_MEETINGSTONE_IN_PROGRESS |-> EmptySmsg(0),
   SMSG_MEETINGSTONE_MEMBER_ADDED |-> PlainSmsg(8, <<8>>, 8, 8),
   CMSG_CANCEL_GROWTH_AURA |-> EmptyCmsg(0)]

vanilla_FromSmsgCancelAutoRepeat ==
  [SMSG_CANCEL_AUTO_REPEAT |-> EmptySmsg(0),
   SMSG_STANDSTATE_UPDATE |-> PlainSmsg(1, <<1>>, 1, 1),
   SMSG_LOOT_ALL_PASSED |-> PlainSmsg(24, <<8, 4, 4, 4, 4>>, 8 + 4 * 4, 24)]

vanilla_FromSmsgLootRollWon ==
  [SMSG_LOOT_ROLL_WON |-> PlainSmsg(34, <<8, 4, 4, 4, 4, 8, 1, 1>>, 8 + 4 * 4 + 8 + 2 * 1, 34),
   CMSG_LOOT_ROLL |-> PlainCmsg(13, <<8, 4, 1>>, 8 + 4 + 1, 13)]

vanilla_FromSmsgLootStartRoll ==
  [SMSG_LOOT_START_ROLL |-> PlainSmsg(28, <<8>> \o Repeat(5, 4), 8 + 5 * 4, 28),
   SMSG_LOOT_ROLL |-> PlainSmsg(34, <<8, 4, 8, 4, 4, 4, 1, 1>>, 8 + 4 + 8 + 3 * 4 + 2 * 1, 34)]

vanilla_FromCmsgLootMasterGive ==
  [CMSG_LOOT_MASTER_GIVE |-> PlainCmsg(17, <<8, 1, 8>>, 8 + 1 + 8, 17),
   SMSG_LOOT_MASTER_LIST |-> [w \in OfCount |->
     Smsg(Free({"guids"}),
          Minimum(1) \o Null({"guids"}) \o Ints(<<1>>) \o Calloc("guids", w.count, {})
          \o Ints(Repeat(w.count, 8)), 1 + w.count * 8, 1 + 8 * w.count)]]

vanilla_FromSmsgSetForcedReactions ==
  [SMSG_SET_FORCED_REACTIONS |-> [w \in OfCount |->
     Smsg(
       Free({"reactions"}),
       Minimum(4) \o Null({"reactions"}) \o Ints(<<4>>)
       \o Array("reactions", w.count, {}, vanilla_ForcedReaction.read),
       4 + w.count * vanilla_ForcedReaction.written, 4 + 6 * w.count)],
   SMSG_SPELL_FAILED_OTHER |-> PlainSmsg(12, <<8, 4>>, 8 + 4, 12),
   SMSG_GAMEOBJECT_RESET_STATE |-> PlainSmsg(8, <<8>>, 8, 8)]

vanilla_FromCmsgRepairItem ==
  [CMSG_REPAIR_ITEM |-> PlainCmsg(16, <<8, 8>>, 2 * 8, 16),
   SMSG_CHAT_PLAYER_NOT_FOUND |-> [w \in OfLength |->
     Smsg(Free({"name"}), Minimum(1) \o Null({"name"}) \o Cstring("name", w),
          WRITE_CSTRING(w), 1 + w.len)],
   MSG_TALENT_WIPE_CONFIRM_Client |-> PlainCmsg(8, <<8>>, 8, 8)]

vanilla_FromMsgTalentWipeConfirm ==
  [MSG_TALENT_WIPE_CONFIRM_Server |-> PlainSmsg(12, <<8, 4>>, 8 + 4, 12),
   SMSG_SUMMON_REQUEST |-> PlainSmsg(16, <<8, 4, 4>>, 8 + 2 * 4, 16),
   CMSG_SUMMON_RESPONSE |-> PlainCmsg(8, <<8>>, 8, 8)]

vanilla_FromSmsgMonsterMoveTransport ==
  [SMSG_MONSTER_MOVE_TRANSPORT |->
     [w \in Wires(Lengths, Counts,
                  {{"MONSTER_MOVE_TYPE_FACING_TARGET", "MONSTER_MOVE_TYPE_FACING_ANGLE",
                    "MONSTER_MOVE_TYPE_FACING_SPOT", "MONSTER_MOVE_TYPE_NORMAL"}}, {}) |->
       Smsg(
         FreeSpline("splines"),
         Minimum(31) \o At(<<"splines">>, Null({"splines"})) \o PackedGuid(w) \o PackedGuid(w)
         \o Vector3d.read \o Ints(<<4, 1>>)
         \o When(Is(w, "MONSTER_MOVE_TYPE_FACING_TARGET"), Ints(<<8>>))
         \o When(Is(w, "MONSTER_MOVE_TYPE_FACING_ANGLE"), Ints(<<4>>))
         \o When(Is(w, "MONSTER_MOVE_TYPE_FACING_SPOT"), Vector3d.read) \o Ints(<<4, 4>>)
         \o MonsterMoveSpline("splines", w),
         2 * WRITE_PACKED_GUID(w) + Vector3d.written + 4 + 1
         + Bytes(Is(w, "MONSTER_MOVE_TYPE_FACING_TARGET"), 8)
         + Bytes(Is(w, "MONSTER_MOVE_TYPE_FACING_ANGLE"), 4)
         + Bytes(Is(w, "MONSTER_MOVE_TYPE_FACING_SPOT"), Vector3d.written) + 2 * 4
         + WRITE_MONSTER_MOVE_SPLINE(w),
         25 + 2 * wwm_packed_guid_size(w) + wwm_monster_move_spline_size(w)
         + Bytes(Is(w, "MONSTER_MOVE_TYPE_FACING_TARGET"), 8)
         + Bytes(Is(w, "MONSTER_MOVE_TYPE_FACING_ANGLE"), 4)
         + Bytes(Is(w, "MONSTER_MOVE_TYPE_FACING_SPOT"), 12))],
   SMSG_PET_BROKEN |-> EmptySmsg(0)]

vanilla_FromMsgMoveFeatherFall ==
  [MSG_MOVE_FEATHER_FALL_Server |->
     vanilla_FromSmsgGameobjectCustomAnim.MSG_MOVE_START_FORWARD_Server,
   MSG_MOVE_WATER_WALK_cmsg |-> [w \in Wires(Lengths, {0}, {}, vanilla_MovementInfoFlags) |->
     Client(vanilla_MSG_MOVE_WATER_WALK(w))],
   MSG_MOVE_WATER_WALK_smsg |-> [w \in Wires(Lengths, {0}, {}, vanilla_MovementInfoFlags) |->
     Server(vanilla_MSG_MOVE_WATER_WALK(w))],
   CMSG_SELF_RES |-> EmptyCmsg(0),
   SMSG_FEIGN_DEATH_RESISTED |-> EmptySmsg(0)]

vanilla_FromSmsgDuelCountdown ==
  [SMSG_DUEL_COUNTDOWN |-> PlainSmsg(4, <<4>>, 4, 4),
   SMSG_AREA_TRIGGER_MESSAGE |-> [w \in OfLength |->
     Smsg(Free({"message"}), Minimum(5) \o Null({"message"}) \o SizedCstring("message", w),
          WRITE_SIZED_CSTRING(w), 5 + w.len)],
   CMSG_TOGGLE_HELM |-> EmptyCmsg(0),
   CMSG_TOGGLE_CLOAK |-> EmptyCmsg(0),
   SMSG_MEETINGSTONE_JOINFAILED |-> PlainSmsg(1, <<1>>, 1, 1)]

vanilla_FromSmsgPlayerSkinned ==
  [SMSG_PLAYER_SKINNED |-> PlainSmsg(1, <<1>>, 1, 1),
   SMSG_DURABILITY_DAMAGE_DEATH |-> EmptySmsg(0),
   CMSG_SET_ACTIONBAR_TOGGLES |-> PlainCmsg(1, <<1>>, 1, 1),
   MSG_PETITION_RENAME_cmsg |-> [w \in OfLength |->
     Client(vanilla_MSG_PETITION_RENAME(w))]]

vanilla_FromMsgPetitionRename ==
  [MSG_PETITION_RENAME_smsg |-> [w \in OfLength |->
     Server(vanilla_MSG_PETITION_RENAME(w))],
   SMSG_INIT_WORLD_STATES |-> [w \in OfCount |->
     Smsg(
       Free({"states"}),
       Minimum(10) \o Null({"states"}) \o Ints(<<4, 4, 2>>)
       \o Array("states", w.count, {}, vanilla_WorldState.read),
       2 * 4 + 2 + w.count * vanilla_WorldState.written, 10 + 8 * w.count)],
   SMSG_UPDATE_WORLD_STATE |-> [w \in {Fixed} |->
     Smsg({}, Minimum(8) \o vanilla_WorldState.read, vanilla_WorldState.written, 8)]]

vanilla_FromCmsgItemNameQuery ==
  [CMSG_ITEM_NAME_QUERY |-> PlainCmsg(12, <<4, 8>>, 4 + 8, 12),
   SMSG_ITEM_NAME_QUERY_RESPONSE |-> [w \in OfLength |->
     Smsg(Free({"item_name"}),
          Minimum(5) \o Null({"item_name"}) \o Ints(<<4>>) \o Cstring("item_name", w),
          4 + WRITE_CSTRING(w), 5 + w.len)],
   SMSG_PET_ACTION_FEEDBACK |-> PlainSmsg(1, <<1>>, 1, 1)]

vanilla_FromCmsgCharRename ==
  [CMSG_CHAR_RENAME |-> [w \in OfLength |->
     Cmsg(Free({"new_name"}),
          Minimum(9) \o Null({"new_name"}) \o Ints(<<8>>) \o Cstring("new_name", w),
          8 + WRITE_CSTRING(w), 9 + w.len)],
   SMSG_CHAR_RENAME |->
     [w \in Wires(Lengths, {0}, {{"WORLD_RESULT_RESPONSE_SUCCESS", "WORLD_RESULT_RESPONSE_FAILURE"}},
                  {}) |->
       Smsg(
         FreeIf("result", {"WORLD_RESULT_RESPONSE_SUCCESS"}, Free({"new_name"})),
         Minimum(1) \o Null({"new_name"})
         \o Field(1, "result", {"WORLD_RESULT_RESPONSE_SUCCESS"}, w)
         \o When(Is(w, "WORLD_RESULT_RESPONSE_SUCCESS"), Ints(<<8>>) \o Cstring("new_name", w)),
         1 + Bytes(Is(w, "WORLD_RESULT_RESPONSE_SUCCESS"), 8 + WRITE_CSTRING(w)),
         1 + Bytes(Is(w, "WORLD_RESULT_RESPONSE_SUCCESS"), 9 + w.len))]]

vanilla_FromCmsgMoveSplineDone ==
  [CMSG_MOVE_SPLINE_DONE |-> [w \in Wires(Lengths, {0}, {}, vanilla_MovementInfoFlags) |->
     Cmsg({}, Minimum(36) \o vanilla_MovementInfo(w).read \o Ints(<<4, 4>>),
          vanilla_MovementInfo(w).written + 2 * 4, 8 + vanilla_MovementInfo(w).size)],
   CMSG_MOVE_FALL_RESET |-> vanilla_FromSmsgGameobjectCustomAnim.MSG_MOVE_START_FORWARD_Client,
   SMSG_INSTANCE_SAVE_CREATED |-> PlainSmsg(4, <<4>>, 4, 4)]

vanilla_FromSmsgRaidInstanceInfo ==
  [SMSG_RAID_INSTANCE_INFO |-> [w \in OfCount |->
     Smsg(
       Free({"raid_infos"}),
       Minimum(4) \o Null({"raid_infos"}) \o Ints(<<4>>)
       \o Array("raid_infos", w.count, {}, vanilla_RaidInfo.read),
       4 + w.count * vanilla_RaidInfo.written, 4 + 12 * w.count)],
   CMSG_REQUEST_RAID_INFO |-> EmptyCmsg(0),
   CMSG_MOVE_TIME_SKIPPED |-> PlainCmsg(12, <<8, 4>>, 8 + 4, 12)]

vanilla_FromCmsgMoveFeatherFallAck ==
  [CMSG_MOVE_FEATHER_FALL_ACK |->
     vanilla_FromSmsgForceRunSpeedChange.CMSG_FORCE_RUN_SPEED_CHANGE_ACK,
   CMSG_MOVE_WATER_WALK_ACK |->
     vanilla_FromSmsgForceRunSpeedChange.CMSG_FORCE_RUN_SPEED_CHANGE_ACK,
   CMSG_MOVE_NOT_ACTIVE_MOVER |-> [w \in Wires(Lengths, {0}, {}, vanilla_MovementInfoFlags) |->
     Cmsg({}, Minimum(36) \o Ints(<<8>>) \o vanilla_MovementInfo(w).read,
          8 + vanilla_MovementInfo(w).written, 8 + vanilla_MovementInfo(w).size)]]

vanilla_FromSmsgPlaySound ==
  [SMSG_PLAY_SOUND |-> PlainSmsg(4, <<4>>, 4, 4),
   CMSG_BATTLEFIELD_STATUS |-> EmptyCmsg(0)]

vanilla_FromSmsgBattlefieldStatus ==
  [SMSG_BATTLEFIELD_STATUS |->
     [w \in Wires({0}, {0},
                  {{"MAP_KALIMDOR", "MAP_EASTERN_KINGDOMS"},
                   {"STATUS_ID_WAIT_QUEUE", "STATUS_ID_WAIT_JOIN", "STATUS_ID_IN_PROGRESS",
                    "STATUS_ID_NONE"}}, {}) |->
       Smsg(
         {},
         Minimum(8) \o Ints(<<4, 4>>)
         \o When(Is(w, "MAP_KALIMDOR"),
                 Ints(<<1, 4, 1>>) \o When(Is(w, "STATUS_ID_WAIT_QUEUE"), Ints(<<4, 4>>))
                 \o When(Is(w, "STATUS_ID_WAIT_JOIN"), Ints(<<4>>))
                 \o When(Is(w, "STATUS_ID_IN_PROGRESS"), Ints(<<4, 4>>))),
         2 * 4
         + Bytes(
             Is(w, "MAP_KALIMDOR"),
             1 + 4 + 1 + Bytes(Is(w, "STATUS_ID_WAIT_QUEUE"), 2 * 4)
             + Bytes(Is(w, "STATUS_ID_WAIT_JOIN"), 4)
             + Bytes(Is(w, "STATUS_ID_IN_PROGRESS"), 2 * 4)),
         8
         + Bytes(
             Is(w, "MAP_KALIMDOR"),
             6 + Bytes(Is(w, "STATUS_ID_WAIT_QUEUE"), 8) + Bytes(Is(w, "STATUS_ID_WAIT_JOIN"), 4)
             + Bytes(Is(w, "STATUS_ID_IN_PROGRESS"), 8)))],
   CMSG_BATTLEFIELD_PORT |-> PlainCmsg(5, <<4, 1>>, 4 + 1, 5)]

vanilla_FromMsgInspectHonorStats ==
  [MSG_INSPECT_HONOR_STATS_Client |-> PlainCmsg(8, <<8>>, 8, 8),
   MSG_INSPECT_HONOR_STATS_Server |->
     PlainSmsg(
       50, <<8, 1, 4>> \o Repeat(6, 2) \o Repeat(6, 4) \o <<1>>, 8 + 1 + 4 + 6 * 2 + 6 * 4 + 1, 50)]

vanilla_FromCmsgBattlemasterHello ==
  [CMSG_BATTLEMASTER_HELLO |-> PlainCmsg(8, <<8>>, 8, 8),
   SMSG_FORCE_WALK_SPEED_CHANGE |-> [w \in OfLength |->
     Smsg({}, Minimum(9) \o PackedGuid(w) \o Ints(<<4, 4>>),
          WRITE_PACKED_GUID(w) + 2 * 4, 8 + wwm_packed_guid_size(w))],
   CMSG_FORCE_WALK_SPEED_CHANGE_ACK |->
     vanilla_FromSmsgForceRunSpeedChange.CMSG_FORCE_RUN_SPEED_CHANGE_ACK]

vanilla_FromSmsgForceSwimBackSpeedChange ==
  [SMSG_FORCE_SWIM_BACK_SPEED_CHANGE |-> [w \in OfLength |->
     Smsg({}, Minimum(9) \o PackedGuid(w) \o Ints(<<4, 4>>),
          WRITE_PACKED_GUID(w) + 2 * 4, 8 + wwm_packed_guid_size(w))],
   CMSG_FORCE_SWIM_BACK_SPEED_CHANGE_ACK |->
     vanilla_FromSmsgForceRunSpeedChange.CMSG_FORCE_RUN_SPEED_CHANGE_ACK,
   SMSG_FORCE_TURN_RATE_CHANGE |-> [w \in OfLength |->
     Smsg({}, Minimum(9) \o PackedGuid(w) \o Ints(<<4, 4>>),
          WRITE_PACKED_GUID(w) + 2 * 4, 8 + wwm_packed_guid_size(w))]]

vanilla_FromCmsgForceTurnRateChangeAck ==
  [CMSG_FORCE_TURN_RATE_CHANGE_ACK |->
     vanilla_FromSmsgForceRunSpeedChange.CMSG_FORCE_RUN_SPEED_CHANGE_ACK,
   MSG_PVP_LOG_DATA_Client |-> EmptyCmsg(0)]

vanilla_FromMsgPvpLogData ==
  [MSG_PVP_LOG_DATA_Server |->
     [w \in Wires({0}, Counts,
                  {{"BATTLEGROUND_END_STATUS_ENDED", "BATTLEGROUND_END_STATUS_NOT_ENDED"}}, {}) |->
       Smsg(
         FreeEach("players", w.count, vanilla_BattlegroundPlayer(w).free),
         Minimum(5) \o Null({"players"}) \o Ints(<<1>>)
         \o When(Is(w, "BATTLEGROUND_END_STATUS_ENDED"), Ints(<<1>>)) \o Ints(<<4>>)
         \o Array("players", w.count, vanilla_BattlegroundPlayer(w).free,
                  vanilla_BattlegroundPlayer(w).read),
         1 + Bytes(Is(w, "BATTLEGROUND_END_STATUS_ENDED"), 1) + 4
         + w.count * vanilla_BattlegroundPlayer(w).written,
         5 + Bytes(Is(w, "BATTLEGROUND_END_STATUS_ENDED"), 1)
         + w.count * vanilla_BattlegroundPlayer(w).size)],
   CMSG_LEAVE_BATTLEFIELD |-> PlainCmsg(4, <<4>>, 4, 4)]

vanilla_FromCmsgAreaSpiritHealerQuery ==
  [CMSG_AREA_SPIRIT_HEALER_QUERY |-> PlainCmsg(8, <<8>>, 8, 8),
   CMSG_AREA_SPIRIT_HEALER_QUEUE |-> PlainCmsg(8, <<8>>, 8, 8),
   SMSG_AREA_SPIRIT_HEALER_TIME |-> PlainSmsg(12, <<8, 4>>, 8 + 4, 12)]

vanilla_FromSmsgWardenData ==
  [SMSG_WARDEN_DATA |-> [w \in OfCount |->
     Smsg(Free({"encrypted_data"}),
          Null({"encrypted_data"}) \o Endless("encrypted_data", w.count, {}, Ints(<<1>>), 1),
          w.count, w.count)],
   CMSG_WARDEN_DATA |-> [w \in OfCount |->
     Cmsg(Free({"encrypted_data"}),
          Null({"encrypted_data"}) \o Endless("encrypted_data", w.count, {}, Ints(<<1>>), 1),
          w.count, w.count)]]

vanilla_FromSmsgGroupJoinedBattleground ==
  [SMSG_GROUP_JOINED_BATTLEGROUND |-> PlainSmsg(4, <<4>>, 4, 4),
   MSG_BATTLEGROUND_PLAYER_POSITIONS_Client |-> EmptyCmsg(0),
   MSG_BATTLEGROUND_PLAYER_POSITIONS_Server |-> [w \in OfCount |->
     Smsg(
       Free({"teammates", "carriers"}),
       Minimum(5) \o Null({"teammates", "carriers"}) \o Ints(<<4>>)
       \o Array("teammates", w.count, {}, vanilla_BattlegroundPlayerPosition.read) \o Ints(<<1>>)
       \o Array("carriers", w.count, {}, vanilla_BattlegroundPlayerPosition.read),
       4 + w.count * vanilla_BattlegroundPlayerPosition.written + 1
       + w.count * vanilla_BattlegroundPlayerPosition.written, 5 + 16 * w.count + 16 * w.count)]]

vanilla_FromCmsgPetStopAttack ==
  [CMSG_PET_STOP_ATTACK |-> PlainCmsg(8, <<8>>, 8, 8),
   SMSG_BINDER_CONFIRM |-> PlainSmsg(8, <<8>>, 8, 8),
   SMSG_BATTLEGROUND_PLAYER_JOINED |-> PlainSmsg(8, <<8>>, 8, 8),
   SMSG_BATTLEGROUND_PLAYER_LEFT |-> PlainSmsg(8, <<8>>, 8, 8)]

vanilla_FromCmsgBattlemasterJoin ==
  [CMSG_BATTLEMASTER_JOIN |-> PlainCmsg(17, <<8, 4, 4, 1>>, 8 + 2 * 4 + 1, 17),
   SMSG_ADDON_INFO |-> [w \in Wires(Lengths, Counts, vanilla_AddonEnums, {}) |->
     Smsg(
       FreeEndless("addons", w.count, vanilla_Addon(w).free),
       Null({"addons"})
       \o Endless("addons", w.count, vanilla_Addon(w).free, vanilla_Addon(w).read,
                  vanilla_Addon(w).size),
       w.count * vanilla_Addon(w).written, w.count * vanilla_Addon(w).size)]]

vanilla_FromCmsgPetUnlearn ==
  [CMSG_PET_UNLEARN |-> PlainCmsg(8, <<8>>, 8, 8),
   SMSG_PET_UNLEARN_CONFIRM |-> PlainSmsg(12, <<8, 4>>, 8 + 4, 12)]

vanilla_FromSmsgPartyMemberStatsFull ==
  [SMSG_PARTY_MEMBER_STATS_FULL |->
     [w \in Wires(
              Lengths, {0}, {},
              {"GROUP_UPDATE_FLAGS_STATUS", "GROUP_UPDATE_FLAGS_CUR_HP", "GROUP_UPDATE_FLAGS_MAX_HP",
               "GROUP_UPDATE_FLAGS_POWER_TYPE", "GROUP_UPDATE_FLAGS_CUR_POWER",
               "GROUP_UPDATE_FLAGS_MAX_POWER", "GROUP_UPDATE_FLAGS_LEVEL", "GROUP_UPDATE_FLAGS_ZONE",
               "GROUP_UPDATE_FLAGS_POSITION", "GROUP_UPDATE_FLAGS_AURAS",
               "GROUP_UPDATE_FLAGS_PET_GUID", "GROUP_UPDATE_FLAGS_PET_NAME",
               "GROUP_UPDATE_FLAGS_PET_MODEL_ID", "GROUP_UPDATE_FLAGS_PET_CUR_HP",
               "GROUP_UPDATE_FLAGS_PET_MAX_HP", "GROUP_UPDATE_FLAGS_PET_POWER_TYPE",
               "GROUP_UPDATE_FLAGS_PET_CUR_POWER", "GROUP_UPDATE_FLAGS_PET_MAX_POWER",
               "GROUP_UPDATE_FLAGS_PET_AURAS"}) |->
       Smsg(
         FreeIf("mask", {"GROUP_UPDATE_FLAGS_PET_NAME"}, Free({"pet_name"})),
         Minimum(5) \o Null({"pet_name"}) \o PackedGuid(w) \o Field(4, "mask", {}, w)
         \o When(Is(w, "GROUP_UPDATE_FLAGS_STATUS"), Ints(<<1>>))
         \o When(Is(w, "GROUP_UPDATE_FLAGS_CUR_HP"), Ints(<<2>>))
         \o When(Is(w, "GROUP_UPDATE_FLAGS_MAX_HP"), Ints(<<2>>))
         \o When(Is(w, "GROUP_UPDATE_FLAGS_POWER_TYPE"), Ints(<<1>>))
         \o When(Is(w, "GROUP_UPDATE_FLAGS_CUR_POWER"), Ints(<<2>>))
         \o When(Is(w, "GROUP_UPDATE_FLAGS_MAX_POWER"), Ints(<<2>>))
         \o When(Is(w, "GROUP_UPDATE_FLAGS_LEVEL"), Ints(<<2>>))
         \o When(Is(w, "GROUP_UPDATE_FLAGS_ZONE"), Ints(<<4>>))
         \o When(Is(w, "GROUP_UPDATE_FLAGS_POSITION"), Ints(<<2, 2>>))
         \o When(Is(w, "GROUP_UPDATE_FLAGS_AURAS"), vanilla_aura_mask(w))
         \o When(Is(w, "GROUP_UPDATE_FLAGS_PET_GUID"), Ints(<<8>>))
         \o When(Is(w, "GROUP_UPDATE_FLAGS_PET_NAME"), Cstring("pet_name", w))
         \o When(Is(w, "GROUP_UPDATE_FLAGS_PET_MODEL_ID"), Ints(<<2>>))
         \o When(Is(w, "GROUP_UPDATE_FLAGS_PET_CUR_HP"), Ints(<<2>>))
         \o When(Is(w, "GROUP_UPDATE_FLAGS_PET_MAX_HP"), Ints(<<2>>))
         \o When(Is(w, "GROUP_UPDATE_FLAGS_PET_POWER_TYPE"), Ints(<<1>>))
         \o When(Is(w, "GROUP_UPDATE_FLAGS_PET_CUR_POWER"), Ints(<<2>>))
         \o When(Is(w, "GROUP_UPDATE_FLAGS_PET_MAX_POWER"), Ints(<<2>>))
         \o When(Is(w, "GROUP_UPDATE_FLAGS_PET_AURAS"), vanilla_aura_mask(w)),
         WRITE_PACKED_GUID(w) + 4 + Bytes(Is(w, "GROUP_UPDATE_FLAGS_STATUS"), 1)
         + Bytes(Is(w, "GROUP_UPDATE_FLAGS_CUR_HP"), 2)
         + Bytes(Is(w, "GROUP_UPDATE_FLAGS_MAX_HP"), 2)
         + Bytes(Is(w, "GROUP_UPDATE_FLAGS_POWER_TYPE"), 1)
         + Bytes(Is(w, "GROUP_UPDATE_FLAGS_CUR_POWER"), 2)
         + Bytes(Is(w, "GROUP_UPDATE_FLAGS_MAX_POWER"), 2)
         + Bytes(Is(w, "GROUP_UPDATE_FLAGS_LEVEL"), 2) + Bytes(Is(w, "GROUP_UPDATE_FLAGS_ZONE"), 4)
         + Bytes(Is(w, "GROUP_UPDATE_FLAGS_POSITION"), 2 * 2)
         + Bytes(Is(w, "GROUP_UPDATE_FLAGS_AURAS"), vanilla_aura_mask_written(w))
         + Bytes(Is(w, "GROUP_UPDATE_FLAGS_PET_GUID"), 8)
         + Bytes(Is(w, "GROUP_UPDATE_FLAGS_PET_NAME"), WRITE_CSTRING(w))
         + Bytes(Is(w, "GROUP_UPDATE_FLAGS_PET_MODEL_ID"), 2)
         + Bytes(Is(w, "GROUP_UPDATE_FLAGS_PET_CUR_HP"), 2)
         + Bytes(Is(w, "GROUP_UPDATE_FLAGS_PET_MAX_HP"), 2)
         + Bytes(Is(w, "GROUP_UPDATE_FLAGS_PET_POWER_TYPE"), 1)
         + Bytes(Is(w, "GROUP_UPDATE_FLAGS_PET_CUR_POWER"), 2)
         + Bytes(Is(w, "GROUP_UPDATE_FLAGS_PET_MAX_POWER"), 2)
         + Bytes(Is(w, "GROUP_UPDATE_FLAGS_PET_AURAS"), vanilla_aura_mask_written(w)),
         4 + wwm_packed_guid_size(w) + Bytes(Is(w, "GROUP_UPDATE_FLAGS_STATUS"), 1)
         + Bytes(Is(w, "GROUP_UPDATE_FLAGS_CUR_HP"), 2)
         + Bytes(Is(w, "GROUP_UPDATE_FLAGS_MAX_HP"), 2)
         + Bytes(Is(w, "GROUP_UPDATE_FLAGS_POWER_TYPE"), 1)
         + Bytes(Is(w, "GROUP_UPDATE_FLAGS_CUR_POWER"), 2)
         + Bytes(Is(w, "GROUP_UPDATE_FLAGS_MAX_POWER"), 2)
         + Bytes(Is(w, "GROUP_UPDATE_FLAGS_LEVEL"), 2) + Bytes(Is(w, "GROUP_UPDATE_FLAGS_ZONE"), 4)
         + Bytes(Is(w, "GROUP_UPDATE_FLAGS_POSITION"), 4)
         + Bytes(Is(w, "GROUP_UPDATE_FLAGS_AURAS"), vanilla_aura_mask_size(w))
         + Bytes(Is(w, "GROUP_UPDATE_FLAGS_PET_GUID"), 8)
         + Bytes(Is(w, "GROUP_UPDATE_FLAGS_PET_NAME"), 1 + w.len)
         + Bytes(Is(w, "GROUP_UPDATE_FLAGS_PET_MODEL_ID"), 2)
         + Bytes(Is(w, "GROUP_UPDATE_FLAGS_PET_CUR_HP"), 2)
         + Bytes(Is(w, "GROUP_UPDATE_FLAGS_PET_MAX_HP"), 2)
         + Bytes(Is(w, "GROUP_UPDATE_FLAGS_PET_POWER_TYPE"), 1)
         + Bytes(Is(w, "GROUP_UPDATE_FLAGS_PET_CUR_POWER"), 2)
         + Bytes(Is(w, "GROUP_UPDATE_FLAGS_PET_MAX_POWER"), 2)
         + Bytes(Is(w, "GROUP_UPDATE_FLAGS_PET_AURAS"), vanilla_aura_mask_size(w)))]]

vanilla_FromCmsgPetSpellAutocast ==
  [CMSG_PET_SPELL_AUTOCAST |-> PlainCmsg(13, <<8, 4, 1>>, 8 + 4 + 1, 13),
   SMSG_WEATHER |-> PlainSmsg(13, <<4, 4, 4, 1>>, 3 * 4 + 1, 13),
   SMSG_RAID_INSTANCE_MESSAGE |-> PlainSmsg(12, <<4, 4, 4>>, 3 * 4, 12)]

vanilla_FromSmsgCompressedMoves ==
  [SMSG_COMPRESSED_MOVES |-> [w \in Wires(Lengths, Counts, vanilla_CompressedMoveEnums, {}) |->
     CompressedSmsg(
       FreeEndless("moves", w.count, vanilla_CompressedMove(w).free),
       Counted(4, Null({"moves"}) \o Ints(<<4>>)) \o Inflate
       \o InflatedEndless(
            "moves", w.count, vanilla_CompressedMove(w).free, vanilla_CompressedMove(w).read)
       \o FreeInflated, w.count * vanilla_CompressedMove(w).written)]]

vanilla_FromCmsgGuildInfoText ==
  [CMSG_GUILD_INFO_TEXT |-> [w \in OfLength |->
     Cmsg(Free({"guild_info"}), Minimum(1) \o Null({"guild_info"}) \o Cstring("guild_info", w),
          WRITE_CSTRING(w), 1 + w.len)],
   SMSG_CHAT_RESTRICTED |-> EmptySmsg(0),
   SMSG_SPLINE_SET_RUN_SPEED |-> [w \in OfLength |->
     Smsg({}, Minimum(5) \o PackedGuid(w) \o Ints(<<4>>),
          WRITE_PACKED_GUID(w) + 4, 4 + wwm_packed_guid_size(w))],
   SMSG_SPLINE_SET_RUN_BACK_SPEED |-> [w \in OfLength |->
     Smsg({}, Minimum(5) \o PackedGuid(w) \o Ints(<<4>>),
          WRITE_PACKED_GUID(w) + 4, 4 + wwm_packed_guid_size(w))]]

vanilla_FromSmsgSplineSetSwimSpeed ==
  [SMSG_SPLINE_SET_SWIM_SPEED |-> [w \in OfLength |->
     Smsg({}, Minimum(5) \o PackedGuid(w) \o Ints(<<4>>),
          WRITE_PACKED_GUID(w) + 4, 4 + wwm_packed_guid_size(w))],
   SMSG_SPLINE_SET_WALK_SPEED |-> [w \in OfLength |->
     Smsg({}, Minimum(5) \o PackedGuid(w) \o Ints(<<4>>),
          WRITE_PACKED_GUID(w) + 4, 4 + wwm_packed_guid_size(w))],
   SMSG_SPLINE_SET_SWIM_BACK_SPEED |-> [w \in OfLength |->
     Smsg({}, Minimum(5) \o PackedGuid(w) \o Ints(<<4>>),
          WRITE_PACKED_GUID(w) + 4, 4 + wwm_packed_guid_size(w))]]

vanilla_FromSmsgSplineSetTurnRate ==
  [SMSG_SPLINE_SET_TURN_RATE |-> [w \in OfLength |->
     Smsg({}, Minimum(5) \o PackedGuid(w) \o Ints(<<4>>),
          WRITE_PACKED_GUID(w) + 4, 4 + wwm_packed_guid_size(w))],
   SMSG_SPLINE_MOVE_UNROOT |-> [w \in OfLength |->
     Smsg({}, Minimum(1) \o PackedGuid(w), WRITE_PACKED_GUID(w), wwm_packed_guid_size(w))],
   SMSG_SPLINE_MOVE_FEATHER_FALL |-> [w \in OfLength |->
     Smsg({}, Minimum(1) \o PackedGuid(w), WRITE_PACKED_GUID(w), wwm_packed_guid_size(w))]]

vanilla_FromSmsgSplineMoveNormalFall ==
  [SMSG_SPLINE_MOVE_NORMAL_FALL |-> [w \in OfLength |->
     Smsg({}, Minimum(1) \o PackedGuid(w), WRITE_PACKED_GUID(w), wwm_packed_guid_size(w))],
   SMSG_SPLINE_MOVE_SET_HOVER |-> [w \in OfLength |->
     Smsg({}, Minimum(1) \o PackedGuid(w), WRITE_PACKED_GUID(w), wwm_packed_guid_size(w))],
   SMSG_SPLINE_MOVE_UNSET_HOVER |-> [w \in OfLength |->
     Smsg({}, Minimum(1) \o PackedGuid(w), WRITE_PACKED_GUID(w), wwm_packed_guid_size(w))],
   SMSG_SPLINE_MOVE_WATER_WALK |-> [w \in OfLength |->
     Smsg({}, Minimum(1) \o PackedGuid(w), WRITE_PACKED_GUID(w), wwm_packed_guid_size(w))]]

vanilla_FromSmsgSplineMoveLandWalk ==
  [SMSG_SPLINE_MOVE_LAND_WALK |-> [w \in OfLength |->
     Smsg({}, Minimum(1) \o PackedGuid(w), WRITE_PACKED_GUID(w), wwm_packed_guid_size(w))],
   SMSG_SPLINE_MOVE_START_SWIM |-> [w \in OfLength |->
     Smsg({}, Minimum(1) \o PackedGuid(w), WRITE_PACKED_GUID(w), wwm_packed_guid_size(w))],
   SMSG_SPLINE_MOVE_STOP_SWIM |-> [w \in OfLength |->
     Smsg({}, Minimum(1) \o PackedGuid(w), WRITE_PACKED_GUID(w), wwm_packed_guid_size(w))],
   SMSG_SPLINE_MOVE_SET_RUN_MODE |-> [w \in OfLength |->
     Smsg({}, Minimum(1) \o PackedGuid(w), WRITE_PACKED_GUID(w), wwm_packed_guid_size(w))]]

vanilla_FromSmsgSplineMoveSetWalkMode ==
  [SMSG_SPLINE_MOVE_SET_WALK_MODE |-> [w \in OfLength |->
     Smsg({}, Minimum(1) \o PackedGuid(w), WRITE_PACKED_GUID(w), wwm_packed_guid_size(w))],
   CMSG_ACTIVATETAXIEXPRESS |-> [w \in OfCount |->
     Cmsg(Free({"nodes"}),
          Minimum(16) \o Null({"nodes"}) \o Ints(<<8, 4, 4>>) \o Calloc("nodes", w.count, {})
          \o Ints(Repeat(w.count, 4)), 8 + 2 * 4 + w.count * 4, 16 + 4 * w.count)],
   CMSG_SET_FACTION_INACTIVE |-> PlainCmsg(3, <<2, 1>>, 2 + 1, 3)]

vanilla_FromCmsgSetWatchedFaction ==
  [CMSG_SET_WATCHED_FACTION |-> PlainCmsg(2, <<2>>, 2, 2),
   MSG_MOVE_TIME_SKIPPED_Server |-> [w \in OfLength |->
     Smsg({}, Minimum(5) \o PackedGuid(w) \o Ints(<<4>>),
          WRITE_PACKED_GUID(w) + 4, 4 + wwm_packed_guid_size(w))],
   SMSG_SPLINE_MOVE_ROOT |-> PlainSmsg(8, <<8>>, 8, 8),
   SMSG_INVALIDATE_PLAYER |-> PlainSmsg(8, <<8>>, 8, 8)]

vanilla_FromCmsgResetInstances ==
  [CMSG_RESET_INSTANCES |-> EmptyCmsg(0),
   SMSG_INSTANCE_RESET |-> PlainSmsg(4, <<4>>, 4, 4),
   SMSG_INSTANCE_RESET_FAILED |-> PlainSmsg(8, <<4, 4>>, 2 * 4, 8),
   SMSG_UPDATE_LAST_INSTANCE |-> PlainSmsg(4, <<4>>, 4, 4)]

vanilla_FromMsgRaidTargetUpdate ==
  [MSG_RAID_TARGET_UPDATE_Client |->
     [w \in Wires(
              {0}, {0}, {{"RAID_TARGET_INDEX_UNKNOWN0", "RAID_TARGET_INDEX_REQUEST_ICONS"}}, {}) |->
       Cmsg({}, Minimum(1) \o Ints(<<1>>) \o When(Is(w, "RAID_TARGET_INDEX_UNKNOWN0"), Ints(<<8>>)),
            1 + Bytes(Is(w, "RAID_TARGET_INDEX_UNKNOWN0"), 8),
            1 + Bytes(Is(w, "RAID_TARGET_INDEX_UNKNOWN0"), 8))],
   MSG_RAID_TARGET_UPDATE_Server |->
     [w \in Wires({0}, {0}, {{"RAID_TARGET_UPDATE_TYPE_FULL", "RAID_TARGET_UPDATE_TYPE_PARTIAL"}},
                  {}) |->
       Smsg(
         {},
         Minimum(1) \o Ints(<<1>>)
         \o When(Is(w, "RAID_TARGET_UPDATE_TYPE_FULL"),
                 Each("raid_targets", 8, vanilla_RaidTargetUpdate.read))
         \o When(Is(w, "RAID_TARGET_UPDATE_TYPE_PARTIAL"), vanilla_RaidTargetUpdate.read),
         1 + Bytes(Is(w, "RAID_TARGET_UPDATE_TYPE_FULL"), 8 * vanilla_RaidTargetUpdate.written)
         + Bytes(Is(w, "RAID_TARGET_UPDATE_TYPE_PARTIAL"), vanilla_RaidTargetUpdate.written),
         1 + Bytes(Is(w, "RAID_TARGET_UPDATE_TYPE_FULL"), 72)
         + Bytes(Is(w, "RAID_TARGET_UPDATE_TYPE_PARTIAL"), 9))]]

vanilla_FromMsgRaidReadyCheck ==
  [MSG_RAID_READY_CHECK_Client |-> [w \in Wires({0}, {0}, {}, {"answer"}) |->
     Cmsg(Free({"answer"}), Null({"answer"}) \o Optional("answer", {}, Ints(<<1>>)),
          Bytes(Is(w, "answer"), 1), Bytes(Is(w, "answer"), 1))],
   MSG_RAID_READY_CHECK_Server |-> [w \in Wires({0}, {0}, {}, {"state_check"}) |->
     Smsg(
       Free({"state_check"}), Null({"state_check"}) \o Optional("state_check", {}, Ints(<<8, 1>>)),
       Bytes(Is(w, "state_check"), 8 + 1), Bytes(Is(w, "state_check"), 9))]]

vanilla_FromSmsgPetActionSound ==
  [SMSG_PET_ACTION_SOUND |-> PlainSmsg(12, <<8, 4>>, 8 + 4, 12),
   SMSG_PET_DISMISS_SOUND |-> [w \in {Fixed} |->
     Smsg({}, Minimum(16) \o Ints(<<4>>) \o Vector3d.read, 4 + Vector3d.written, 16)],
   SMSG_GM_TICKET_STATUS_UPDATE |-> PlainSmsg(4, <<4>>, 4, 4)]

vanilla_FromCmsgGmsurveySubmit ==
  [CMSG_GMSURVEY_SUBMIT |-> [w \in OfLength |->
     Cmsg(
       Free({"answer_comment"})
       \union FreeFixed("questions", 10, vanilla_GmSurveyQuestion(w).free),
       Minimum(65) \o Null({"answer_comment"}) \o Ints(<<4>>)
       \o Each("questions", 10, vanilla_GmSurveyQuestion(w).read) \o Cstring("answer_comment", w),
       4 + 10 * vanilla_GmSurveyQuestion(w).written + WRITE_CSTRING(w),
       5 + w.len + 10 * vanilla_GmSurveyQuestion(w).size)],
   SMSG_UPDATE_INSTANCE_OWNERSHIP |-> PlainSmsg(4, <<4>>, 4, 4),
   SMSG_SPELLINSTAKILLLOG |-> PlainSmsg(12, <<8, 4>>, 8 + 4, 12)]

vanilla_FromSmsgSpellUpdateChainTargets ==
  [SMSG_SPELL_UPDATE_CHAIN_TARGETS |-> [w \in OfCount |->
     Smsg(Free({"targets"}),
          Minimum(16) \o Null({"targets"}) \o Ints(<<8, 4, 4>>) \o Calloc("targets", w.count, {})
          \o Ints(Repeat(w.count, 8)), 8 + 2 * 4 + w.count * 8, 16 + 8 * w.count)],
   SMSG_EXPECTED_SPAM_RECORDS |-> [w \in OfLengthAndCount |->
     Smsg(
       FreeEach("records", w.count, Free({"text"})),
       Minimum(4) \o Null({"records"}) \o Ints(<<4>>)
       \o Array("records", w.count, Free({"text"}), Cstring("text", w)),
       4 + w.count * WRITE_CSTRING(w), 4 + w.count * (1 + w.len))]]

vanilla_FromSmsgDefenseMessage ==
  [SMSG_DEFENSE_MESSAGE |-> [w \in OfLength |->
     Smsg(Free({"message"}),
          Minimum(9) \o Null({"message"}) \o Ints(<<4>>) \o SizedCstring("message", w),
          4 + WRITE_SIZED_CSTRING(w), 9 + w.len)]]

vanilla_HighGroups ==
  <<vanilla_FromSmsgListInventory, vanilla_FromCmsgBuyItem, vanilla_FromSmsgBuyFailed,
    vanilla_FromCmsgTaxinodeStatusQuery, vanilla_FromSmsgActivatetaxireply,
    vanilla_FromSmsgTrainerList, vanilla_FromSmsgTrainerBuyFailed, vanilla_FromCmsgBuyBankSlot,
    vanilla_FromSmsgPetitionShowlist, vanilla_FromCmsgPetitionBuy,
    vanilla_FromSmsgPetitionShowSignatures, vanilla_FromMsgPetitionDecline,
    vanilla_FromCmsgPetitionQuery, vanilla_FromSmsgPetitionQueryResponse, vanilla_FromCmsgBug,
    vanilla_FromSmsgPlayedTime, vanilla_FromCmsgReclaimCorpse, vanilla_FromSmsgLevelupInfo,
    vanilla_FromMsgMinimapPing, vanilla_FromSmsgStartMirrorTimer, vanilla_FromCmsgPing,
    vanilla_FromCmsgSetsheathed, vanilla_FromSmsgItemEnchantTimeUpdate,
    vanilla_FromCmsgAuthSession, vanilla_FromSmsgAuthResponse, vanilla_FromMsgSaveGuildEmblem,
    vanilla_FromSmsgPlaySpellVisual, vanilla_FromSmsgCompressedUpdateObject,
    vanilla_FromSmsgPlaySpellImpact, vanilla_FromMsgRandomRoll, vanilla_FromCmsgUnlearnSkill,
    vanilla_FromCmsgGmticketCreate, vanilla_FromSmsgGmticketCreate,
    vanilla_FromSmsgAccountDataTimes, vanilla_FromCmsgUpdateAccountData,
    vanilla_FromCmsgGmticketGetticket, vanilla_FromSmsgGameobjectDespawnAnim,
    vanilla_FromSmsgGmticketDeleteticket, vanilla_FromSmsgSetRestStart,
    vanilla_FromCmsgChatIgnored, vanilla_FromCmsgGuildSetPublicNote, vanilla_FromCmsgSendMail,
    vanilla_FromSmsgSendMailResult, vanilla_FromSmsgMailListResult,
    vanilla_FromSmsgBattlefieldList, vanilla_FromSmsgItemTextQueryResponse,
    vanilla_FromCmsgMailMarkAsRead, vanilla_FromCmsgMailCreateTextItem,
    vanilla_FromSmsgSpelllogexecute, vanilla_FromSmsgPeriodicauralog,
    vanilla_FromSmsgSpellnonmeleedamagelog, vanilla_FromCmsgTogglePvp,
    vanilla_FromMsgAuctionHello, vanilla_FromCmsgAuctionListItems,
    vanilla_FromCmsgAuctionPlaceBid, vanilla_FromSmsgAuctionCommandResult,
    vanilla_FromSmsgAuctionListResult, vanilla_FromSmsgAuctionBidderNotification,
    vanilla_FromSmsgProcresist, vanilla_FromSmsgSpellordamageImmune,
    vanilla_FromSmsgAuctionBidderListResult, vanilla_FromCmsgSetAmmo,
    vanilla_FromCmsgCancelAutoRepeatSpell, vanilla_FromCmsgStablePet,
    vanilla_FromCmsgStableSwapPet, vanilla_FromSmsgPlayObjectSound,
    vanilla_FromSmsgSpelldispellog, vanilla_FromCmsgGroupSwapSubGroup,
    vanilla_FromMsgQueryNextMailTime, vanilla_FromSmsgPvpCredit, vanilla_FromCmsgBuybackItem,
    vanilla_FromSmsgMeetingstoneSetqueue, vanilla_FromSmsgCancelAutoRepeat,
    vanilla_FromSmsgLootRollWon, vanilla_FromSmsgLootStartRoll, vanilla_FromCmsgLootMasterGive,
    vanilla_FromSmsgSetForcedReactions, vanilla_FromCmsgRepairItem,
    vanilla_FromMsgTalentWipeConfirm, vanilla_FromSmsgMonsterMoveTransport,
    vanilla_FromMsgMoveFeatherFall, vanilla_FromSmsgDuelCountdown, vanilla_FromSmsgPlayerSkinned,
    vanilla_FromMsgPetitionRename, vanilla_FromCmsgItemNameQuery, vanilla_FromCmsgCharRename,
    vanilla_FromCmsgMoveSplineDone, vanilla_FromSmsgRaidInstanceInfo,
    vanilla_FromCmsgMoveFeatherFallAck, vanilla_FromSmsgPlaySound,
    vanilla_FromSmsgBattlefieldStatus, vanilla_FromMsgInspectHonorStats,
    vanilla_FromCmsgBattlemasterHello, vanilla_FromSmsgForceSwimBackSpeedChange,
    vanilla_FromCmsgForceTurnRateChangeAck, vanilla_FromMsgPvpLogData,
    vanilla_FromCmsgAreaSpiritHealerQuery, vanilla_FromSmsgWardenData,
    vanilla_FromSmsgGroupJoinedBattleground, vanilla_FromCmsgPetStopAttack,
    vanilla_FromCmsgBattlemasterJoin, vanilla_FromCmsgPetUnlearn,
    vanilla_FromSmsgPartyMemberStatsFull, vanilla_FromCmsgPetSpellAutocast,
    vanilla_FromSmsgCompressedMoves, vanilla_FromCmsgGuildInfoText,
    vanilla_FromSmsgSplineSetSwimSpeed, vanilla_FromSmsgSplineSetTurnRate,
    vanilla_FromSmsgSplineMoveNormalFall, vanilla_FromSmsgSplineMoveLandWalk,
    vanilla_FromSmsgSplineMoveSetWalkMode, vanilla_FromCmsgSetWatchedFaction,
    vanilla_FromCmsgResetInstances, vanilla_FromMsgRaidTargetUpdate,
    vanilla_FromMsgRaidReadyCheck, vanilla_FromSmsgPetActionSound,
    vanilla_FromCmsgGmsurveySubmit, vanilla_FromSmsgSpellUpdateChainTargets,
    vanilla_FromSmsgDefenseMessage>>

vanilla_Messages == vanilla_LowGroups \o vanilla_HighGroups
=============================================================================
