-------------------------- MODULE TbcMessagesHigh --------------------------
(*****************************************************************************)
(* The messages of the 2.4.3 version of the world protocol from              *)
(* SMSG_CLEAR_COOLDOWN to SMSG_SPLINE_MOVE_UNSET_FLYING, in the order of     *)
(* src/wow_world_messages_c/src/tbc.c.                                       *)
(*                                                                           *)
(* A message is a function from its wires to records of what its functions   *)
(* do on them. Neighbours are defined together, in a record named for the    *)
(* first. A message of which every function does what that of an earlier     *)
(* message does is defined as that message.                                  *)
(*****************************************************************************)
EXTENDS TbcMessagesLow

tbc_FromSmsgClearCooldown ==
  [SMSG_CLEAR_COOLDOWN |-> PlainSmsg(12, <<4, 8>>, 4 + 8, 12),
   SMSG_GAMEOBJECT_PAGETEXT |-> PlainSmsg(8, <<8>>, 8, 8),
   CMSG_SETSHEATHED |-> PlainCmsg(4, <<4>>, 4, 4),
   SMSG_SPELL_DELAYED |-> PlainSmsg(12, <<8, 4>>, 8 + 4, 12)]

tbc_FromSmsgItemTimeUpdate ==
  [SMSG_ITEM_TIME_UPDATE |-> PlainSmsg(12, <<8, 4>>, 8 + 4, 12),
   SMSG_ITEM_ENCHANT_TIME_UPDATE |-> PlainSmsg(24, <<8, 4, 4, 8>>, 8 + 2 * 4 + 8, 24),
   SMSG_AUTH_CHALLENGE |-> PlainSmsg(4, <<4>>, 4, 4)]

tbc_FromCmsgAuthSession ==
  [CMSG_AUTH_SESSION |-> [w \in OfLengthAndCount |->
     Cmsg(
       Free({"username"}) \union FreeEndless("addon_info", w.count, tbc_AddonInfo(w).free),
       Counted(
         33 + w.len,
         Minimum(37) \o Null({"username", "addon_info"}) \o Ints(<<4, 4>>)
         \o Cstring("username", w) \o Ints(<<4>> \o Repeat(20, 1))) \o Await
       \o Counted(4, Ints(<<4>>) \o Null({"addon_info"}) \o Clear("amount_of_addon_info"))
       \o When(w.count > 0,
               Await \o InflateMember
               \o InflatedEndless(
                    "addon_info", w.count, tbc_AddonInfo(w).free, tbc_AddonInfo(w).read)
               \o FreeInflated),
       2 * 4 + WRITE_CSTRING(w) + 4 + 20
       + Bytes(w.count > 0, 4 + wwm_compress_data_size(w.count * tbc_AddonInfo(w).size)),
       33 + w.len + Bytes(w.count > 0, wwm_compress_data_size(w.count * tbc_AddonInfo(w).size)))]]

tbc_FromSmsgAuthResponse ==
  [SMSG_AUTH_RESPONSE |->
     [w \in Wires({0}, {0},
                  {{"WORLD_RESULT_AUTH_OK", "WORLD_RESULT_AUTH_WAIT_QUEUE",
                    "WORLD_RESULT_RESPONSE_SUCCESS"}}, {}) |->
       Smsg(
         {},
         Minimum(1) \o Ints(<<1>>) \o When(Is(w, "WORLD_RESULT_AUTH_OK"), Ints(<<4, 1, 4, 1>>))
         \o When(Is(w, "WORLD_RESULT_AUTH_WAIT_QUEUE"), Ints(<<4>>)),
         1 + Bytes(Is(w, "WORLD_RESULT_AUTH_OK"), 4 + 1 + 4 + 1)
         + Bytes(Is(w, "WORLD_RESULT_AUTH_WAIT_QUEUE"), 4),
         1 + Bytes(Is(w, "WORLD_RESULT_AUTH_OK"), 10)
         + Bytes(Is(w, "WORLD_RESULT_AUTH_WAIT_QUEUE"), 4))],
   CMSG_PET_CAST_SPELL |-> [w \in Wires(Lengths, {0}, {}, tbc_SpellCastTargetsFlags) |->
     Cmsg(FreeAt(<<"targets">>, tbc_SpellCastTargets(w).free),
          Minimum(16) \o Ints(<<8, 4>>) \o At(<<"targets">>, tbc_SpellCastTargets(w).read),
          8 + 4 + tbc_SpellCastTargets(w).written, 12 + tbc_SpellCastTargets(w).size)]]

tbc_FromMsgSaveGuildEmblem ==
  [MSG_SAVE_GUILD_EMBLEM_Client |-> PlainCmsg(28, <<8>> \o Repeat(5, 4), 8 + 5 * 4, 28),
   MSG_SAVE_GUILD_EMBLEM_Server |-> PlainSmsg(4, <<4>>, 4, 4),
   MSG_TABARDVENDOR_ACTIVATE_cmsg |-> [w \in {Fixed} |-> Client(tbc_MSG_TABARDVENDOR_ACTIVATE)],
   MSG_TABARDVENDOR_ACTIVATE_smsg |-> [w \in {Fixed} |-> Server(tbc_MSG_TABARDVENDOR_ACTIVATE)]]

tbc_FromSmsgPlaySpellVisual ==
  [SMSG_PLAY_SPELL_VISUAL |-> PlainSmsg(12, <<8, 4>>, 8 + 4, 12),
   CMSG_ZONEUPDATE |-> PlainCmsg(4, <<4>>, 4, 4),
   SMSG_PARTYKILLLOG |-> PlainSmsg(16, <<8, 8>>, 2 * 8, 16)]

tbc_FromSmsgCompressedUpdateObject ==
  [SMSG_COMPRESSED_UPDATE_OBJECT |->
     [w \in Wires(Lengths, Counts, tbc_ObjectEnums, tbc_ObjectFlags) |->
       CompressedSmsg(
         FreeEach("objects", w.count, tbc_Object(w).free),
         Counted(4, Minimum(5) \o Null({"objects"}) \o Ints(<<4>>)) \o Inflate
         \o Counted(
              5 + w.count * tbc_Object(w).size,
              Ints(<<4, 1>>) \o Array("objects", w.count, tbc_Object(w).free, tbc_Object(w).read))
         \o FreeInflated, 5 + w.count * tbc_Object(w).written)]]

tbc_FromSmsgPlaySpellImpact ==
  [SMSG_PLAY_SPELL_IMPACT |-> PlainSmsg(12, <<8, 4>>, 8 + 4, 12),
   SMSG_EXPLORATION_EXPERIENCE |-> PlainSmsg(8, <<4, 4>>, 2 * 4, 8),
   MSG_RANDOM_ROLL_Client |-> PlainCmsg(8, <<4, 4>>, 2 * 4, 8)]

tbc_FromMsgRandomRoll ==
  [MSG_RANDOM_ROLL_Server |-> PlainSmsg(20, <<4, 4, 4, 8>>, 3 * 4 + 8, 20),
   SMSG_ENVIRONMENTAL_DAMAGE_LOG |-> PlainSmsg(21, <<8, 1, 4, 4, 4>>, 8 + 1 + 3 * 4, 21),
   MSG_LOOKING_FOR_GROUP_Client |-> PlainCmsg(12, <<4, 4, 4>>, 3 * 4, 12)]

tbc_FromMsgLookingForGroup ==
  [MSG_LOOKING_FOR_GROUP_Server |-> [w \in OfLengthAndCount |->
     Smsg(
       FreeEach("players_displayed", w.count, tbc_LfgPlayer(w).free),
       Minimum(16) \o Null({"players_displayed"}) \o Ints(<<4, 4, 4, 4>>)
       \o Array("players_displayed", w.count, tbc_LfgPlayer(w).free, tbc_LfgPlayer(w).read),
       4 * 4 + w.count * tbc_LfgPlayer(w).written, 16 + w.count * tbc_LfgPlayer(w).size)],
   CMSG_SET_LOOKING_FOR_GROUP |-> [w \in {Fixed} |->
     Cmsg({}, Minimum(8) \o Ints(<<4>>) \o tbc_LfgData.read, 4 + tbc_LfgData.written, 8)]]

tbc_FromCmsgUnlearnSkill ==
  [CMSG_UNLEARN_SKILL |-> PlainCmsg(4, <<4>>, 4, 4),
   SMSG_REMOVED_SPELL |-> PlainSmsg(2, <<2>>, 2, 2)]

tbc_FromCmsgGmticketCreate ==
  [CMSG_GMTICKET_CREATE |->
     [w \in Wires(Lengths, Counts,
                  {{"GM_TICKET_TYPE_BEHAVIOR_HARASSMENT", "GM_TICKET_TYPE_NOT_SET"}}, {}) |->
       Cmsg(
         Free({"message", "reserved_for_future_use"})
         \union FreeIf("category", {"GM_TICKET_TYPE_BEHAVIOR_HARASSMENT"},
                       Free({"compressed_chat_data"})),
         Counted(
           19 + 2 * w.len,
           Minimum(19) \o Null({"message", "reserved_for_future_use", "compressed_chat_data"})
           \o Field(1, "category", {}, w) \o Ints(<<4>>) \o Vector3d.read \o Cstring("message", w)
           \o Cstring("reserved_for_future_use", w))
         \o When(
              Is(w, "GM_TICKET_TYPE_BEHAVIOR_HARASSMENT"),
              Counted(4, Ints(<<4>>)) \o Await
              \o Counted(4,
                         Ints(<<4>>) \o Null({"compressed_chat_data"})
                         \o Clear("amount_of_compressed_chat_data"))
              \o When(w.count > 0,
                      Await \o InflateMember
                      \o InflatedEndless("compressed_chat_data", w.count, {}, Ints(<<1>>))) \o FreeInflated),
         1 + 4 + Vector3d.written + 2 * WRITE_CSTRING(w)
         + Bytes(Is(w, "GM_TICKET_TYPE_BEHAVIOR_HARASSMENT"),
                 4 + Bytes(w.count > 0, 4 + wwm_compress_data_size(w.count))),
         19 + 2 * w.len
         + Bytes(Is(w, "GM_TICKET_TYPE_BEHAVIOR_HARASSMENT"),
                 4 + Bytes(w.count > 0, wwm_compress_data_size(w.count))))]]

tbc_FromSmsgGmticketCreate ==
  [SMSG_GMTICKET_CREATE |-> PlainSmsg(4, <<4>>, 4, 4),
   CMSG_GMTICKET_UPDATETEXT |-> [w \in OfLength |->
     Cmsg(Free({"message"}), Minimum(1) \o Null({"message"}) \o Cstring("message", w),
          WRITE_CSTRING(w), 1 + w.len)],
   SMSG_GMTICKET_UPDATETEXT |-> PlainSmsg(4, <<4>>, 4, 4),
   SMSG_ACCOUNT_DATA_TIMES |-> PlainSmsg(128, Repeat(32, 4), 32 * 4, 128)]

tbc_FromCmsgRequestAccountData ==
  [CMSG_REQUEST_ACCOUNT_DATA |-> PlainCmsg(4, <<4>>, 4, 4)]

tbc_FromCmsgUpdateAccountData ==
  [CMSG_UPDATE_ACCOUNT_DATA |-> [w \in OfCount |->
     Cmsg(
       Free({"compressed_data"}),
       Counted(4, Minimum(8) \o Null({"compressed_data"}) \o Ints(<<4>>)) \o Await
       \o Counted(
            4, Ints(<<4>>) \o Null({"compressed_data"}) \o Clear("amount_of_compressed_data"))
       \o When(w.count > 0,
               Await \o Inflate \o InflatedEndless("compressed_data", w.count, {}, Ints(<<1>>))
               \o FreeInflated),
       4 + Bytes(w.count > 0, 4 + wwm_compress_data_size(w.count)),
       4 + Bytes(w.count > 0, wwm_compress_data_size(w.count)))]]

tbc_FromSmsgUpdateAccountData ==
  [SMSG_UPDATE_ACCOUNT_DATA |-> [w \in OfCount |->
     Smsg(
       Free({"compressed_data"}),
       Counted(8, Minimum(8) \o Null({"compressed_data"}) \o Ints(<<4, 4>>))
       \o Endless("compressed_data", w.count, {}, Ints(<<1>>), 1), 2 * 4 + w.count, 8 + w.count)],
   CMSG_GMTICKET_GETTICKET |-> EmptyCmsg(0)]

tbc_FromSmsgGmticketGetticket ==
  [SMSG_GMTICKET_GETTICKET |->
     [w \in Wires(Lengths, {0}, {{"GM_TICKET_STATUS_HAS_TEXT", "GM_TICKET_STATUS_DB_ERROR"}}, {}) |->
       Smsg(
         FreeIf("status", {"GM_TICKET_STATUS_HAS_TEXT"}, Free({"text"})),
         Minimum(4) \o Null({"text"}) \o Field(4, "status", {}, w)
         \o When(
              Is(w, "GM_TICKET_STATUS_HAS_TEXT"), Cstring("text", w) \o Ints(<<1, 4, 4, 4, 1, 1>>)),
         4 + Bytes(Is(w, "GM_TICKET_STATUS_HAS_TEXT"), WRITE_CSTRING(w) + 1 + 3 * 4 + 2 * 1),
         4 + Bytes(Is(w, "GM_TICKET_STATUS_HAS_TEXT"), 16 + w.len))],
   CMSG_UNLEARN_TALENTS |-> EmptyCmsg(0),
   SMSG_GAMEOBJECT_SPAWN_ANIM |-> PlainSmsg(8, <<8>>, 8, 8)]

tbc_FromSmsgGameobjectDespawnAnim ==
  [SMSG_GAMEOBJECT_DESPAWN_ANIM |-> PlainSmsg(8, <<8>>, 8, 8),
   MSG_CORPSE_QUERY_Client |-> EmptyCmsg(0),
   MSG_CORPSE_QUERY_Server |->
     [w \in Wires({0}, {0}, {{"CORPSE_QUERY_RESULT_FOUND", "CORPSE_QUERY_RESULT_NOT_FOUND"}}, {}) |->
       Smsg(
         {},
         Minimum(1) \o Ints(<<1>>)
         \o When(Is(w, "CORPSE_QUERY_RESULT_FOUND"), Ints(<<4>>) \o Vector3d.read \o Ints(<<4>>)),
         1 + Bytes(Is(w, "CORPSE_QUERY_RESULT_FOUND"), 4 + Vector3d.written + 4),
         1 + Bytes(Is(w, "CORPSE_QUERY_RESULT_FOUND"), 20))],
   CMSG_GMTICKET_DELETETICKET |-> EmptyCmsg(0)]

tbc_FromSmsgGmticketDeleteticket ==
  [SMSG_GMTICKET_DELETETICKET |-> PlainSmsg(4, <<4>>, 4, 4),
   SMSG_CHAT_WRONG_FACTION |-> EmptySmsg(0),
   CMSG_GMTICKET_SYSTEMSTATUS |-> EmptyCmsg(0),
   SMSG_GMTICKET_SYSTEMSTATUS |-> PlainSmsg(4, <<4>>, 4, 4),
   CMSG_SPIRIT_HEALER_ACTIVATE |-> PlainCmsg(8, <<8>>, 8, 8)]

tbc_FromSmsgSetRestStart ==
  [SMSG_SET_REST_START |-> PlainSmsg(4, <<4>>, 4, 4),
   SMSG_SPIRIT_HEALER_CONFIRM |-> PlainSmsg(8, <<8>>, 8, 8),
   SMSG_GOSSIP_POI |-> [w \in OfLength |->
     Smsg(
       Free({"location_name"}),
       Minimum(21) \o Null({"location_name"}) \o Ints(<<4>>) \o Vector2d.read \o Ints(<<4, 4>>)
       \o Cstring("location_name", w),
       4 + Vector2d.written + 2 * 4 + WRITE_CSTRING(w), 21 + w.len)]]

tbc_FromCmsgChatIgnored ==
  [CMSG_CHAT_IGNORED |-> PlainCmsg(9, <<8, 1>>, 8 + 1, 9),
   CMSG_GUILD_RANK |-> [w \in OfLength |->
     Cmsg(
       Free({"rank_name"}),
       Minimum(61) \o Null({"rank_name"}) \o Ints(<<4, 4>>) \o Cstring("rank_name", w)
       \o Ints(<<4>>) \o Each("bank_tab_rights", 6, tbc_GuildBankRights.read),
       2 * 4 + WRITE_CSTRING(w) + 4 + 6 * tbc_GuildBankRights.written, 61 + w.len)],
   CMSG_GUILD_ADD_RANK |-> [w \in OfLength |->
     Cmsg(Free({"rank_name"}), Minimum(1) \o Null({"rank_name"}) \o Cstring("rank_name", w),
          WRITE_CSTRING(w), 1 + w.len)]]

tbc_FromCmsgGuildDelRank ==
  [CMSG_GUILD_DEL_RANK |-> EmptyCmsg(0),
   CMSG_GUILD_SET_PUBLIC_NOTE |-> [w \in OfLength |->
     Cmsg(Free({"player_name", "note"}),
          Minimum(2) \o Null({"player_name", "note"}) \o Cstring("player_name", w)
          \o Cstring("note", w), 2 * WRITE_CSTRING(w), 2 + 2 * w.len)],
   CMSG_GUILD_SET_OFFICER_NOTE |-> [w \in OfLength |->
     Cmsg(Free({"player_name", "note"}),
          Minimum(2) \o Null({"player_name", "note"}) \o Cstring("player_name", w)
          \o Cstring("note", w), 2 * WRITE_CSTRING(w), 2 + 2 * w.len)]]

tbc_FromSmsgLoginVerifyWorld ==
  [SMSG_LOGIN_VERIFY_WORLD |-> tbc_FromSmsgCharDelete.SMSG_NEW_WORLD,
   CMSG_SEND_MAIL |-> [w \in OfLengthAndCount |->
     Cmsg(
       Free({"receiver", "subject", "body", "items"}),
       Minimum(36) \o Null({"receiver", "subject", "body", "items"}) \o Ints(<<8>>)
       \o Cstring("receiver", w) \o Cstring("subject", w) \o Cstring("body", w)
       \o Ints(<<4, 4, 1>>) \o Array("items", w.count, {}, tbc_MailItem.read)
       \o Ints(<<4, 4, 4, 4>>),
       8 + 3 * WRITE_CSTRING(w) + 2 * 4 + 1 + w.count * tbc_MailItem.written + 4 * 4,
       36 + 3 * w.len + 9 * w.count)]]

tbc_FromSmsgSendMailResult ==
  [SMSG_SEND_MAIL_RESULT |->
     [w \in Wires({0}, {0},
                  {{"MAIL_ACTION_ITEM_TAKEN", "MAIL_ACTION_SEND"},
                   {"MAIL_RESULT_ERR_EQUIP_ERROR", "MAIL_RESULT_OK"},
                   {"MAIL_RESULT_TWO_ERR_EQUIP_ERROR", "MAIL_RESULT_TWO_OK"}}, {}) |->
       Smsg(
         {},
         Minimum(12) \o Ints(<<4, 4>>)
         \o When(Is(w, "MAIL_ACTION_ITEM_TAKEN"),
                 Ints(<<4>>) \o When(Is(w, "MAIL_RESULT_ERR_EQUIP_ERROR"), Ints(<<4>>))
                 \o When(Is(w, "MAIL_RESULT_OK"), Ints(<<4, 4>>)))
         \o When(Is(w, "MAIL_ACTION_SEND"),
                 Ints(<<4>>) \o When(Is(w, "MAIL_RESULT_TWO_ERR_EQUIP_ERROR"), Ints(<<4>>))),
         2 * 4
         + Bytes(Is(w, "MAIL_ACTION_ITEM_TAKEN"),
                 4 + Bytes(Is(w, "MAIL_RESULT_ERR_EQUIP_ERROR"), 4)
                 + Bytes(Is(w, "MAIL_RESULT_OK"), 2 * 4))
         + Bytes(Is(w, "MAIL_ACTION_SEND"), 4 + Bytes(Is(w, "MAIL_RESULT_TWO_ERR_EQUIP_ERROR"), 4)),
         8
         + Bytes(
             Is(w, "MAIL_ACTION_ITEM_TAKEN"),
             4 + Bytes(Is(w, "MAIL_RESULT_ERR_EQUIP_ERROR"), 4) + Bytes(Is(w, "MAIL_RESULT_OK"), 8))
         + Bytes(
             Is(w, "MAIL_ACTION_SEND"), 4 + Bytes(Is(w, "MAIL_RESULT_TWO_ERR_EQUIP_ERROR"), 4)))],
   CMSG_GET_MAIL_LIST |-> PlainCmsg(8, <<8>>, 8, 8)]

tbc_FromSmsgMailListResult ==
  [SMSG_MAIL_LIST_RESULT |-> [w \in Wires(Lengths, Counts, tbc_MailEnums, {}) |->
     Smsg(
       FreeEach("mails", w.count, tbc_Mail(w).free),
       Minimum(1) \o Null({"mails"}) \o Ints(<<1>>)
       \o Array("mails", w.count, tbc_Mail(w).free, tbc_Mail(w).read),
       1 + w.count * tbc_Mail(w).written, 1 + w.count * tbc_Mail(w).size)],
   CMSG_BATTLEFIELD_LIST |-> PlainCmsg(4, <<4>>, 4, 4)]

tbc_FromSmsgBattlefieldList ==
  [SMSG_BATTLEFIELD_LIST |-> [w \in OfCount |->
     Smsg(
       Free({"battlegrounds"}),
       Minimum(16) \o Null({"battlegrounds"}) \o Ints(<<8, 4, 4>>)
       \o Calloc("battlegrounds", w.count, {}) \o Ints(Repeat(w.count, 4)),
       8 + 2 * 4 + w.count * 4, 16 + 4 * w.count)],
   CMSG_ITEM_TEXT_QUERY |-> PlainCmsg(12, <<4, 4, 4>>, 3 * 4, 12)]

tbc_FromSmsgItemTextQueryResponse ==
  [SMSG_ITEM_TEXT_QUERY_RESPONSE |-> [w \in OfLength |->
     Smsg(Free({"text"}), Minimum(5) \o Null({"text"}) \o Ints(<<4>>) \o Cstring("text", w),
          4 + WRITE_CSTRING(w), 5 + w.len)],
   CMSG_MAIL_TAKE_MONEY |-> PlainCmsg(12, <<8, 4>>, 8 + 4, 12),
   CMSG_MAIL_TAKE_ITEM |-> PlainCmsg(16, <<8, 4, 4>>, 8 + 2 * 4, 16)]

tbc_FromCmsgMailMarkAsRead ==
  [CMSG_MAIL_MARK_AS_READ |-> PlainCmsg(12, <<8, 4>>, 8 + 4, 12),
   CMSG_MAIL_RETURN_TO_SENDER |-> PlainCmsg(12, <<8, 4>>, 8 + 4, 12),
   CMSG_MAIL_DELETE |-> PlainCmsg(16, <<8, 4, 4>>, 8 + 2 * 4, 16)]

tbc_FromCmsgMailCreateTextItem ==
  [CMSG_MAIL_CREATE_TEXT_ITEM |-> PlainCmsg(16, <<8, 4, 4>>, 8 + 2 * 4, 16),
   SMSG_SPELLLOGMISS |-> [w \in OfCount |->
     Smsg(
       Free({"targets"}),
       Minimum(17) \o Null({"targets"}) \o Ints(<<4, 8, 1, 4>>)
       \o Array("targets", w.count, {}, tbc_SpellLogMiss.read),
       4 + 8 + 1 + 4 + w.count * tbc_SpellLogMiss.written, 17 + 9 * w.count)]]

tbc_FromSmsgSpelllogexecute ==
  [SMSG_SPELLLOGEXECUTE |-> [w \in Wires(Lengths, Counts, tbc_SpellLogEnums, {}) |->
     Smsg(
       Free({"logs"}),
       Minimum(9) \o Null({"logs"}) \o PackedGuid(w) \o Ints(<<4, 4>>)
       \o Array("logs", w.count, {}, tbc_SpellLog(w).read),
       WRITE_PACKED_GUID(w) + 2 * 4 + w.count * tbc_SpellLog(w).written,
       8 + wwm_packed_guid_size(w) + w.count * tbc_SpellLog(w).size)]]

tbc_FromSmsgPeriodicauralog ==
  [SMSG_PERIODICAURALOG |-> [w \in Wires(Lengths, Counts, tbc_AuraLogEnums, {}) |->
     Smsg(
       Free({"auras"}),
       Minimum(10) \o Null({"auras"}) \o PackedGuid(w) \o PackedGuid(w) \o Ints(<<4, 4>>)
       \o Array("auras", w.count, {}, tbc_AuraLog(w).read),
       2 * WRITE_PACKED_GUID(w) + 2 * 4 + w.count * tbc_AuraLog(w).written,
       8 + 2 * wwm_packed_guid_size(w) + w.count * tbc_AuraLog(w).size)],
   SMSG_SPELLDAMAGESHIELD |-> PlainSmsg(28, <<8, 8, 4, 4, 4>>, 2 * 8 + 3 * 4, 28)]

tbc_FromSmsgSpellnonmeleedamagelog ==
  [SMSG_SPELLNONMELEEDAMAGELOG |-> [w \in OfLength |->
     Smsg(
       {}, Minimum(30) \o PackedGuid(w) \o PackedGuid(w) \o Ints(<<4, 4, 1, 4, 4, 1, 1, 4, 4, 1>>),
       2 * WRITE_PACKED_GUID(w) + 2 * 4 + 1 + 2 * 4 + 2 * 1 + 2 * 4 + 1,
       28 + 2 * wwm_packed_guid_size(w))],
   CMSG_LEARN_TALENT |-> PlainCmsg(8, <<4, 4>>, 2 * 4, 8)]

tbc_FromSmsgResurrectFailed ==
  [SMSG_RESURRECT_FAILED |-> PlainSmsg(4, <<4>>, 4, 4),
   CMSG_TOGGLE_PVP |-> [w \in Wires({0}, {0}, {}, {"set"}) |->
     Cmsg(Free({"set"}), Null({"set"}) \o Optional("set", {}, Ints(<<1>>)),
          Bytes(Is(w, "set"), 1), Bytes(Is(w, "set"), 1))],
   SMSG_ZONE_UNDER_ATTACK |-> PlainSmsg(4, <<4>>, 4, 4)]

tbc_FromMsgAuctionHello ==
  [MSG_AUCTION_HELLO_Client |-> PlainCmsg(8, <<8>>, 8, 8),
   MSG_AUCTION_HELLO_Server |-> PlainSmsg(12, <<8, 4>>, 8 + 4, 12),
   CMSG_AUCTION_SELL_ITEM |-> PlainCmsg(28, <<8, 8, 4, 4, 4>>, 2 * 8 + 3 * 4, 28)]

tbc_FromCmsgAuctionRemoveItem ==
  [CMSG_AUCTION_REMOVE_ITEM |-> PlainCmsg(12, <<8, 4>>, 8 + 4, 12),
   CMSG_AUCTION_LIST_ITEMS |-> [w \in OfLengthAndCount |->
     Cmsg(
       Free({"searched_name", "sorted_auctions"}),
       Minimum(34) \o Null({"searched_name", "sorted_auctions"}) \o Ints(<<8, 4>>)
       \o Cstring("searched_name", w) \o Ints(<<1, 1, 4, 4, 4, 4, 1, 1, 1>>)
       \o Array("sorted_auctions", w.count, {}, tbc_AuctionSort.read),
       8 + 4 + WRITE_CSTRING(w) + 2 * 1 + 4 * 4 + 3 * 1 + w.count * tbc_AuctionSort.written,
       34 + w.len + 2 * w.count)]]

tbc_FromCmsgAuctionListOwnerItems ==
  [CMSG_AUCTION_LIST_OWNER_ITEMS |-> PlainCmsg(12, <<8, 4>>, 8 + 4, 12),
   CMSG_AUCTION_PLACE_BID |-> PlainCmsg(16, <<8, 4, 4>>, 8 + 2 * 4, 16)]

tbc_FromSmsgAuctionCommandResult ==
  [SMSG_AUCTION_COMMAND_RESULT |->
     [w \in Wires(
              {0}, {0},
              {{"AUCTION_COMMAND_ACTION_BID_PLACED", "AUCTION_COMMAND_ACTION_STARTED"},
               {"AUCTION_COMMAND_RESULT_OK", "AUCTION_COMMAND_RESULT_ERR_INVENTORY",
                "AUCTION_COMMAND_RESULT_ERR_HIGHER_BID", "AUCTION_COMMAND_RESULT_ERR_DATABASE"},
               {"AUCTION_COMMAND_RESULT_TWO_ERR_INVENTORY",
                "AUCTION_COMMAND_RESULT_TWO_ERR_HIGHER_BID", "AUCTION_COMMAND_RESULT_TWO_OK"}},
              {}) |->
       Smsg(
         {},
         Minimum(12) \o Ints(<<4, 4>>)
         \o When(Is(w, "AUCTION_COMMAND_ACTION_BID_PLACED"),
                 Ints(<<4>>) \o When(Is(w, "AUCTION_COMMAND_RESULT_OK"), Ints(<<4>>))
                 \o When(Is(w, "AUCTION_COMMAND_RESULT_ERR_INVENTORY"), Ints(<<1>>))
                 \o When(Is(w, "AUCTION_COMMAND_RESULT_ERR_HIGHER_BID"), Ints(<<8, 4, 4>>)))
         \o When(Is(w, "AUCTION_COMMAND_ACTION_STARTED"),
                 Ints(<<4>>) \o When(Is(w, "AUCTION_COMMAND_RESULT_TWO_ERR_INVENTORY"), Ints(<<1>>))
                 \o When(Is(w, "AUCTION_COMMAND_RESULT_TWO_ERR_HIGHER_BID"), Ints(<<8, 4, 4>>))),
         2 * 4
         + Bytes(
             Is(w, "AUCTION_COMMAND_ACTION_BID_PLACED"),
             4 + Bytes(Is(w, "AUCTION_COMMAND_RESULT_OK"), 4)
             + Bytes(Is(w, "AUCTION_COMMAND_RESULT_ERR_INVENTORY"), 1)
             + Bytes(Is(w, "AUCTION_COMMAND_RESULT_ERR_HIGHER_BID"), 8 + 2 * 4))
         + Bytes(Is(w, "AUCTION_COMMAND_ACTION_STARTED"),
                 4 + Bytes(Is(w, "AUCTION_COMMAND_RESULT_TWO_ERR_INVENTORY"), 1)
                 + Bytes(Is(w, "AUCTION_COMMAND_RESULT_TWO_ERR_HIGHER_BID"), 8 + 2 * 4)),
         8
         + Bytes(
             Is(w, "AUCTION_COMMAND_ACTION_BID_PLACED"),
             4 + Bytes(Is(w, "AUCTION_COMMAND_RESULT_OK"), 4)
             + Bytes(Is(w, "AUCTION_COMMAND_RESULT_ERR_INVENTORY"), 1)
             + Bytes(Is(w, "AUCTION_COMMAND_RESULT_ERR_HIGHER_BID"), 16))
         + Bytes(Is(w, "AUCTION_COMMAND_ACTION_STARTED"),
                 4 + Bytes(Is(w, "AUCTION_COMMAND_RESULT_TWO_ERR_INVENTORY"), 1)
                 + Bytes(Is(w, "AUCTION_COMMAND_RESULT_TWO_ERR_HIGHER_BID"), 16)))]]

tbc_FromSmsgAuctionListResult ==
  [SMSG_AUCTION_LIST_RESULT |-> [w \in OfCount |->
     Smsg(
       Free({"auctions"}),
       Minimum(12) \o Null({"auctions"}) \o Ints(<<4>>)
       \o Array("auctions", w.count, {}, tbc_AuctionListItem.read) \o Ints(<<4, 4>>),
       4 + w.count * tbc_AuctionListItem.written + 2 * 4, 12 + 136 * w.count)],
   SMSG_AUCTION_OWNER_LIST_RESULT |-> [w \in OfCount |->
     Smsg(
       Free({"auctions"}),
       Minimum(12) \o Null({"auctions"}) \o Ints(<<4>>)
       \o Array("auctions", w.count, {}, tbc_AuctionListItem.read) \o Ints(<<4, 4>>),
       4 + w.count * tbc_AuctionListItem.written + 2 * 4, 12 + 136 * w.count)]]

tbc_FromSmsgAuctionBidderNotification ==
  [SMSG_AUCTION_BIDDER_NOTIFICATION |->
     PlainSmsg(32, <<4, 4, 8, 4, 4, 4, 4>>, 2 * 4 + 8 + 4 * 4, 32),
   SMSG_AUCTION_OWNER_NOTIFICATION |-> PlainSmsg(28, <<4, 4, 4, 8, 4, 4>>, 3 * 4 + 8 + 2 * 4, 28)]

tbc_FromSmsgProcresist ==
  [SMSG_PROCRESIST |-> PlainSmsg(21, <<8, 8, 4, 1>>, 2 * 8 + 4 + 1, 21),
   SMSG_DISPEL_FAILED |-> [w \in OfCount |->
     Smsg(
       Free({"spells"}),
       Counted(16, Minimum(16) \o Null({"spells"}) \o Ints(<<8, 8>>))
       \o Endless("spells", w.count, {}, Ints(<<4>>), 4), 2 * 8 + w.count * 4, 16 + 4 * w.count)]]

tbc_FromSmsgSpellordamageImmune ==
  [SMSG_SPELLORDAMAGE_IMMUNE |-> PlainSmsg(21, <<8, 8, 4, 1>>, 2 * 8 + 4 + 1, 21),
   CMSG_AUCTION_LIST_BIDDER_ITEMS |-> [w \in OfCount |->
     Cmsg(
       Free({"outbid_item_ids"}),
       Minimum(16) \o Null({"outbid_item_ids"}) \o Ints(<<8, 4, 4>>)
       \o Calloc("outbid_item_ids", w.count, {}) \o Ints(Repeat(w.count, 4)),
       8 + 2 * 4 + w.count * 4, 16 + 4 * w.count)]]

tbc_FromSmsgAuctionBidderListResult ==
  [SMSG_AUCTION_BIDDER_LIST_RESULT |-> tbc_FromSmsgAuctionListResult.SMSG_AUCTION_LIST_RESULT,
   SMSG_SET_FLAT_SPELL_MODIFIER |-> PlainSmsg(6, <<1, 1, 4>>, 2 * 1 + 4, 6),
   SMSG_SET_PCT_SPELL_MODIFIER |-> PlainSmsg(6, <<1, 1, 4>>, 2 * 1 + 4, 6)]

tbc_FromCmsgSetAmmo ==
  [CMSG_SET_AMMO |-> PlainCmsg(4, <<4>>, 4, 4),
   SMSG_CORPSE_RECLAIM_DELAY |-> PlainSmsg(4, <<4>>, 4, 4),
   CMSG_SET_ACTIVE_MOVER |-> PlainCmsg(8, <<8>>, 8, 8),
   CMSG_PET_CANCEL_AURA |-> PlainCmsg(12, <<8, 4>>, 8 + 4, 12)]

tbc_FromCmsgCancelAutoRepeatSpell ==
  [CMSG_CANCEL_AUTO_REPEAT_SPELL |-> EmptyCmsg(0),
   MSG_LIST_STABLED_PETS_Client |-> PlainCmsg(8, <<8>>, 8, 8),
   MSG_LIST_STABLED_PETS_Server |-> [w \in OfLengthAndCount |->
     Smsg(
       FreeEach("pets", w.count, tbc_StabledPet(w).free),
       Minimum(10) \o Null({"pets"}) \o Ints(<<8, 1, 1>>)
       \o Array("pets", w.count, tbc_StabledPet(w).free, tbc_StabledPet(w).read),
       8 + 2 * 1 + w.count * tbc_StabledPet(w).written, 10 + w.count * tbc_StabledPet(w).size)]]

tbc_FromCmsgStablePet ==
  [CMSG_STABLE_PET |-> PlainCmsg(8, <<8>>, 8, 8),
   CMSG_UNSTABLE_PET |-> PlainCmsg(12, <<8, 4>>, 8 + 4, 12),
   CMSG_BUY_STABLE_SLOT |-> PlainCmsg(8, <<8>>, 8, 8),
   SMSG_STABLE_RESULT |-> PlainSmsg(1, <<1>>, 1, 1)]

tbc_FromCmsgStableSwapPet ==
  [CMSG_STABLE_SWAP_PET |-> PlainCmsg(12, <<8, 4>>, 8 + 4, 12),
   MSG_QUEST_PUSH_RESULT_cmsg |-> [w \in {Fixed} |-> Client(tbc_MSG_QUEST_PUSH_RESULT)],
   MSG_QUEST_PUSH_RESULT_smsg |-> [w \in {Fixed} |-> Server(tbc_MSG_QUEST_PUSH_RESULT)],
   SMSG_PLAY_MUSIC |-> PlainSmsg(4, <<4>>, 4, 4)]

tbc_FromSmsgPlayObjectSound ==
  [SMSG_PLAY_OBJECT_SOUND |-> PlainSmsg(12, <<4, 8>>, 4 + 8, 12),
   CMSG_REQUEST_PET_INFO |-> EmptyCmsg(0),
   CMSG_FAR_SIGHT |-> PlainCmsg(1, <<1>>, 1, 1)]

tbc_FromSmsgSpelldispellog ==
  [SMSG_SPELLDISPELLOG |-> [w \in OfLengthAndCount |->
     Smsg(
       Free({"spells"}),
       Minimum(11) \o Null({"spells"}) \o PackedGuid(w) \o PackedGuid(w) \o Ints(<<4, 1, 4>>)
       \o Array("spells", w.count, {}, tbc_DispelledSpell.read),
       2 * WRITE_PACKED_GUID(w) + 4 + 1 + 4 + w.count * tbc_DispelledSpell.written,
       9 + 2 * wwm_packed_guid_size(w) + 5 * w.count)],
   CMSG_GROUP_CHANGE_SUB_GROUP |-> [w \in OfLength |->
     Cmsg(Free({"name"}), Minimum(2) \o Null({"name"}) \o Cstring("name", w) \o Ints(<<1>>),
          WRITE_CSTRING(w) + 1, 2 + w.len)]]

tbc_FromCmsgRequestPartyMemberStats ==
  [CMSG_REQUEST_PARTY_MEMBER_STATS |-> PlainCmsg(8, <<8>>, 8, 8),
   CMSG_GROUP_SWAP_SUB_GROUP |-> [w \in OfLength |->
     Cmsg(Free({"name", "swap_with_name"}),
          Minimum(2) \o Null({"name", "swap_with_name"}) \o Cstring("name", w)
          \o Cstring("swap_with_name", w), 2 * WRITE_CSTRING(w), 2 + 2 * w.len)],
   CMSG_AUTOSTORE_BANK_ITEM |-> PlainCmsg(2, <<1, 1>>, 2 * 1, 2)]

tbc_FromCmsgAutobankItem ==
  [CMSG_AUTOBANK_ITEM |-> PlainCmsg(2, <<1, 1>>, 2 * 1, 2),
   MSG_QUERY_NEXT_MAIL_TIME_Client |-> EmptyCmsg(0),
   MSG_QUERY_NEXT_MAIL_TIME_Server |-> [w \in OfCount |->
     Smsg(
       Free({"mails"}),
       Minimum(8) \o Null({"mails"}) \o Ints(<<4, 4>>)
       \o Array("mails", w.count, {}, tbc_ReceivedMail.read),
       2 * 4 + w.count * tbc_ReceivedMail.written, 8 + 24 * w.count)],
   SMSG_RECEIVED_MAIL |-> PlainSmsg(4, <<4>>, 4, 4)]

tbc_FromSmsgRaidGroupOnly ==
  [SMSG_RAID_GROUP_ONLY |-> PlainSmsg(8, <<4, 4>>, 2 * 4, 8),
   SMSG_PVP_CREDIT |-> PlainSmsg(16, <<4, 8, 4>>, 4 + 8 + 4, 16),
   SMSG_AUCTION_REMOVED_NOTIFICATION |-> PlainSmsg(12, <<4, 4, 4>>, 3 * 4, 12),
   CMSG_GROUP_RAID_CONVERT |-> EmptyCmsg(0)]

tbc_FromCmsgGroupAssistantLeader ==
  [CMSG_GROUP_ASSISTANT_LEADER |-> PlainCmsg(9, <<8, 1>>, 8 + 1, 9),
   CMSG_BUYBACK_ITEM |-> PlainCmsg(12, <<8, 4>>, 8 + 4, 12),
   SMSG_SERVER_MESSAGE |-> [w \in OfLength |->
     Smsg(
       Free({"message"}), Minimum(5) \o Null({"message"}) \o Ints(<<4>>) \o Cstring("message", w),
       4 + WRITE_CSTRING(w), 5 + w.len)]]

tbc_FromSmsgMeetingstoneSetqueue ==
  [SMSG_MEETINGSTONE_SETQUEUE |-> PlainSmsg(5, <<4, 1>>, 4 + 1, 5),
   CMSG_MEETINGSTONE_INFO |-> EmptyCmsg(0),
   CMSG_GMTICKETSYSTEM_TOGGLE |-> EmptyCmsg(0),
   CMSG_CANCEL_GROWTH_AURA |-> EmptyCmsg(0),
   SMSG_CANCEL_AUTO_REPEAT |-> EmptySmsg(0),
   SMSG_STANDSTATE_UPDATE |-> PlainSmsg(1, <<1>>, 1, 1)]

tbc_FromSmsgLootAllPassed ==
  [SMSG_LOOT_ALL_PASSED |-> PlainSmsg(24, <<8, 4, 4, 4, 4>>, 8 + 4 * 4, 24),
   SMSG_LOOT_ROLL_WON |-> PlainSmsg(34, <<8, 4, 4, 4, 4, 8, 1, 1>>, 8 + 4 * 4 + 8 + 2 * 1, 34)]

tbc_FromCmsgLootRoll ==
  [CMSG_LOOT_ROLL |-> PlainCmsg(13, <<8, 4, 1>>, 8 + 4 + 1, 13),
   SMSG_LOOT_START_ROLL |-> PlainSmsg(28, <<8>> \o Repeat(5, 4), 8 + 5 * 4, 28)]

tbc_FromSmsgLootRoll ==
  [SMSG_LOOT_ROLL |-> PlainSmsg(35, <<8, 4, 8, 4, 4, 4, 1, 1, 1>>, 8 + 4 + 8 + 3 * 4 + 3 * 1, 35),
   CMSG_LOOT_MASTER_GIVE |-> PlainCmsg(17, <<8, 1, 8>>, 8 + 1 + 8, 17)]

tbc_FromSmsgLootMasterList ==
  [SMSG_LOOT_MASTER_LIST |-> [w \in OfCount |->
     Smsg(Free({"guids"}),
          Minimum(1) \o Null({"guids"}) \o Ints(<<1>>) \o Calloc("guids", w.count, {})
          \o Ints(Repeat(w.count, 8)), 1 + w.count * 8, 1 + 8 * w.count)],
   SMSG_SET_FORCED_REACTIONS |-> [w \in OfCount |->
     Smsg(
       Free({"reactions"}),
       Minimum(4) \o Null({"reactions"}) \o Ints(<<4>>)
       \o Array("reactions", w.count, {}, tbc_ForcedReaction.read),
       4 + w.count * tbc_ForcedReaction.written, 4 + 6 * w.count)],
   SMSG_SPELL_FAILED_OTHER |-> PlainSmsg(12, <<8, 4>>, 8 + 4, 12)]

tbc_FromCmsgRepairItem ==
  [CMSG_REPAIR_ITEM |-> PlainCmsg(17, <<8, 8, 1>>, 2 * 8 + 1, 17),
   SMSG_CHAT_PLAYER_NOT_FOUND |-> tbc_FromSmsgGroupInvite.SMSG_GROUP_INVITE,
   MSG_TALENT_WIPE_CONFIRM_Client |-> PlainCmsg(8, <<8>>, 8, 8)]

tbc_FromMsgTalentWipeConfirm ==
  [MSG_TALENT_WIPE_CONFIRM_Server |-> PlainSmsg(12, <<8, 4>>, 8 + 4, 12),
   SMSG_SUMMON_REQUEST |-> PlainSmsg(16, <<8, 4, 4>>, 8 + 2 * 4, 16),
   CMSG_SUMMON_RESPONSE |-> PlainCmsg(9, <<8, 1>>, 8 + 1, 9)]

tbc_FromSmsgMonsterMoveTransport ==
  [SMSG_MONSTER_MOVE_TRANSPORT |->
     [w \in Wires(Lengths, Counts,
                  {{"MONSTER_MOVE_TYPE_FACING_TARGET", "MONSTER_MOVE_TYPE_FACING_ANGLE",
                    "MONSTER_MOVE_TYPE_FACING_SPOT", "MONSTER_MOVE_TYPE_NORMAL"}}, {}) |->
       Smsg(
         FreeSpline("splines"),
         Minimum(31) \o At(<<"splines">>, Null({"splines"})) \o PackedGuid(w) \o PackedGuid(w)
         \o Vector3d.read \o Ints(<<4, 1>>)
         \o When(Is(w, "MONSTER_MOVE_TYPE_FACING_TARGET"), Ints(<<8>>))
         \o When(Is(w, "MONSTER_MOVE_TYPE_FACING_ANGLE"), Ints(<<4>>))
         \o When(Is(w, "MONSTER_MOVE_TYPE_FACING_SPOT"), Vector3d.read) \o Ints(<<4, 4>>)
         \o MonsterMoveSpline("splines", w),
         2 * WRITE_PACKED_GUID(w) + Vector3d.written + 4 + 1
         + Bytes(Is(w, "MONSTER_MOVE_TYPE_FACING_TARGET"), 8)
         + Bytes(Is(w, "MONSTER_MOVE_TYPE_FACING_ANGLE"), 4)
         + Bytes(Is(w, "MONSTER_MOVE_TYPE_FACING_SPOT"), Vector3d.written) + 2 * 4
         + WRITE_MONSTER_MOVE_SPLINE(w),
         25 + 2 * wwm_packed_guid_size(w) + wwm_monster_move_spline_size(w)
         + Bytes(Is(w, "MONSTER_MOVE_TYPE_FACING_TARGET"), 8)
         + Bytes(Is(w, "MONSTER_MOVE_TYPE_FACING_ANGLE"), 4)
         + Bytes(Is(w, "MONSTER_MOVE_TYPE_FACING_SPOT"), 12))],
   SMSG_PET_BROKEN |-> EmptySmsg(0)]

tbc_FromMsgMoveFeatherFall ==
  [MSG_MOVE_FEATHER_FALL_Server |->
     tbc_FromSmsgGameobjectCustomAnim.MSG_MOVE_START_FORWARD_Server,
   MSG_MOVE_WATER_WALK_cmsg |-> [w \in Wires(Lengths, {0}, {}, tbc_MovementInfoFlags) |->
     Client(tbc_MSG_MOVE_WATER_WALK(w))],
   MSG_MOVE_WATER_WALK_smsg |-> [w \in Wires(Lengths, {0}, {}, tbc_MovementInfoFlags) |->
     Server(tbc_MSG_MOVE_WATER_WALK(w))],
   CMSG_SELF_RES |-> EmptyCmsg(0),
   SMSG_FEIGN_DEATH_RESISTED |-> EmptySmsg(0)]

tbc_FromSmsgDuelCountdown ==
  [SMSG_DUEL_COUNTDOWN |-> PlainSmsg(4, <<4>>, 4, 4),
   SMSG_AREA_TRIGGER_MESSAGE |-> [w \in OfLength |->
     Smsg(Free({"message"}), Minimum(5) \o Null({"message"}) \o SizedCstring("message", w),
          WRITE_SIZED_CSTRING(w), 5 + w.len)],
   CMSG_TOGGLE_HELM |-> EmptyCmsg(0),
   CMSG_TOGGLE_CLOAK |-> EmptyCmsg(0),
   SMSG_PLAYER_SKINNED |-> PlainSmsg(1, <<1>>, 1, 1)]

tbc_FromSmsgDurabilityDamageDeath ==
  [SMSG_DURABILITY_DAMAGE_DEATH |-> EmptySmsg(0),
   CMSG_SET_ACTIONBAR_TOGGLES |-> PlainCmsg(1, <<1>>, 1, 1),
   MSG_PETITION_RENAME_cmsg |-> [w \in OfLength |->
     Client(tbc_MSG_PETITION_RENAME(w))],
   MSG_PETITION_RENAME_smsg |-> [w \in OfLength |->
     Server(tbc_MSG_PETITION_RENAME(w))]]

tbc_FromSmsgInitWorldStates ==
  [SMSG_INIT_WORLD_STATES |-> [w \in OfCount |->
     Smsg(
       Free({"states"}),
       Minimum(10) \o Null({"states"}) \o Ints(<<4, 4, 2>>)
       \o Array("states", w.count, {}, tbc_WorldState.read),
       2 * 4 + 2 + w.count * tbc_WorldState.written, 10 + 8 * w.count)],
   SMSG_UPDATE_WORLD_STATE |-> [w \in {Fixed} |->
     Smsg({}, Minimum(8) \o tbc_WorldState.read, tbc_WorldState.written, 8)],
   CMSG_ITEM_NAME_QUERY |-> PlainCmsg(12, <<4, 8>>, 4 + 8, 12)]

tbc_FromSmsgItemNameQueryResponse ==
  [SMSG_ITEM_NAME_QUERY_RESPONSE |-> [w \in OfLength |->
     Smsg(Free({"item_name"}),
          Minimum(6) \o Null({"item_name"}) \o Ints(<<4>>) \o Cstring("item_name", w)
          \o Ints(<<1>>), 4 + WRITE_CSTRING(w) + 1, 6 + w.len)],
   SMSG_PET_ACTION_FEEDBACK |-> PlainSmsg(1, <<1>>, 1, 1),
   CMSG_CHAR_RENAME |-> [w \in OfLength |->
     Cmsg(Free({"new_name"}),
          Minimum(9) \o Null({"new_name"}) \o Ints(<<8>>) \o Cstring("new_name", w),
          8 + WRITE_CSTRING(w), 9 + w.len)]]

tbc_FromSmsgCharRename ==
  [SMSG_CHAR_RENAME |->
     [w \in Wires(Lengths, {0}, {{"WORLD_RESULT_RESPONSE_SUCCESS", "WORLD_RESULT_RESPONSE_FAILURE"}},
                  {}) |->
       Smsg(
         FreeIf("result", {"WORLD_RESULT_RESPONSE_SUCCESS"}, Free({"new_name"})),
         Minimum(1) \o Null({"new_name"})
         \o Field(1, "result", {"WORLD_RESULT_RESPONSE_SUCCESS"}, w)
         \o When(Is(w, "WORLD_RESULT_RESPONSE_SUCCESS"), Ints(<<8>>) \o Cstring("new_name", w)),
         1 + Bytes(Is(w, "WORLD_RESULT_RESPONSE_SUCCESS"), 8 + WRITE_CSTRING(w)),
         1 + Bytes(Is(w, "WORLD_RESULT_RESPONSE_SUCCESS"), 9 + w.len))],
   CMSG_MOVE_SPLINE_DONE |-> [w \in Wires(Lengths, {0}, {}, tbc_MovementInfoFlags) |->
     Cmsg({}, Minimum(33) \o tbc_MovementInfo(w).read \o Ints(<<4>>),
          tbc_MovementInfo(w).written + 4, 4 + tbc_MovementInfo(w).size)],
   CMSG_MOVE_FALL_RESET |-> tbc_FromSmsgGameobjectCustomAnim.MSG_MOVE_START_FORWARD_Client]

tbc_FromSmsgInstanceSaveCreated ==
  [SMSG_INSTANCE_SAVE_CREATED |-> PlainSmsg(4, <<4>>, 4, 4),
   SMSG_RAID_INSTANCE_INFO |-> [w \in OfCount |->
     Smsg(
       Free({"raid_infos"}),
       Minimum(4) \o Null({"raid_infos"}) \o Ints(<<4>>)
       \o Array("raid_infos", w.count, {}, tbc_RaidInfo.read),
       4 + w.count * tbc_RaidInfo.written, 4 + 16 * w.count)],
   CMSG_REQUEST_RAID_INFO |-> EmptyCmsg(0),
   CMSG_MOVE_TIME_SKIPPED |-> PlainCmsg(12, <<8, 4>>, 8 + 4, 12)]

tbc_FromCmsgMoveFeatherFallAck ==
  [CMSG_MOVE_FEATHER_FALL_ACK |-> tbc_FromSmsgForceRunSpeedChange.CMSG_FORCE_RUN_SPEED_CHANGE_ACK,
   CMSG_MOVE_WATER_WALK_ACK |-> tbc_FromSmsgForceRunSpeedChange.CMSG_FORCE_RUN_SPEED_CHANGE_ACK,
   CMSG_MOVE_NOT_ACTIVE_MOVER |-> [w \in Wires(Lengths, {0}, {}, tbc_MovementInfoFlags) |->
     Cmsg({}, Minimum(37) \o Ints(<<8>>) \o tbc_MovementInfo(w).read,
          8 + tbc_MovementInfo(w).written, 8 + tbc_MovementInfo(w).size)]]

tbc_FromSmsgPlaySound ==
  [SMSG_PLAY_SOUND |-> PlainSmsg(4, <<4>>, 4, 4),
   CMSG_BATTLEFIELD_STATUS |-> EmptyCmsg(0)]

tbc_FromSmsgBattlefieldStatus ==
  [SMSG_BATTLEFIELD_STATUS |->
     [w \in Wires({0}, {0},
                  {{"STATUS_ID_WAIT_QUEUE", "STATUS_ID_WAIT_JOIN", "STATUS_ID_IN_PROGRESS",
                    "STATUS_ID_NONE"}}, {}) |->
       Smsg(
         {},
         Minimum(18) \o Ints(<<4, 1, 1, 4, 2, 4, 1, 1>>)
         \o When(Is(w, "STATUS_ID_WAIT_QUEUE"), Ints(<<4, 4>>))
         \o When(Is(w, "STATUS_ID_WAIT_JOIN"), Ints(<<4>>))
         \o When(Is(w, "STATUS_ID_IN_PROGRESS"), Ints(<<4, 4>>)),
         4 + 2 * 1 + 4 + 2 + 4 + 2 * 1 + Bytes(Is(w, "STATUS_ID_WAIT_QUEUE"), 2 * 4)
         + Bytes(Is(w, "STATUS_ID_WAIT_JOIN"), 4) + Bytes(Is(w, "STATUS_ID_IN_PROGRESS"), 2 * 4),
         18 + Bytes(Is(w, "STATUS_ID_WAIT_QUEUE"), 8) + Bytes(Is(w, "STATUS_ID_WAIT_JOIN"), 4)
         + Bytes(Is(w, "STATUS_ID_IN_PROGRESS"), 8))]]

tbc_FromCmsgBattlefieldPort ==
  [CMSG_BATTLEFIELD_PORT |-> PlainCmsg(9, <<1, 1, 4, 2, 1>>, 2 * 1 + 4 + 2 + 1, 9),
   MSG_INSPECT_HONOR_STATS_Client |-> PlainCmsg(8, <<8>>, 8, 8),
   MSG_INSPECT_HONOR_STATS_Server |-> PlainSmsg(25, <<8, 1, 4, 4, 4, 4>>, 8 + 1 + 4 * 4, 25)]

tbc_FromCmsgBattlemasterHello ==
  [CMSG_BATTLEMASTER_HELLO |-> PlainCmsg(8, <<8>>, 8, 8),
   SMSG_FORCE_WALK_SPEED_CHANGE |-> [w \in OfLength |->
     Smsg({}, Minimum(9) \o PackedGuid(w) \o Ints(<<4, 4>>),
          WRITE_PACKED_GUID(w) + 2 * 4, 8 + wwm_packed_guid_size(w))],
   CMSG_FORCE_WALK_SPEED_CHANGE_ACK |->
     tbc_FromSmsgForceRunSpeedChange.CMSG_FORCE_RUN_SPEED_CHANGE_ACK]

tbc_FromSmsgForceSwimBackSpeedChange ==
  [SMSG_FORCE_SWIM_BACK_SPEED_CHANGE |-> [w \in OfLength |->
     Smsg({}, Minimum(9) \o PackedGuid(w) \o Ints(<<4, 4>>),
          WRITE_PACKED_GUID(w) + 2 * 4, 8 + wwm_packed_guid_size(w))],
   CMSG_FORCE_SWIM_BACK_SPEED_CHANGE_ACK |->
     tbc_FromSmsgForceRunSpeedChange.CMSG_FORCE_RUN_SPEED_CHANGE_ACK,
   SMSG_FORCE_TURN_RATE_CHANGE |-> [w \in OfLength |->
     Smsg({}, Minimum(9) \o PackedGuid(w) \o Ints(<<4, 4>>),
          WRITE_PACKED_GUID(w) + 2 * 4, 8 + wwm_packed_guid_size(w))]]

tbc_FromCmsgForceTurnRateChangeAck ==
  [CMSG_FORCE_TURN_RATE_CHANGE_ACK |->
     tbc_FromSmsgForceRunSpeedChange.CMSG_FORCE_RUN_SPEED_CHANGE_ACK,
   MSG_PVP_LOG_DATA_Client |-> EmptyCmsg(0),
   CMSG_LEAVE_BATTLEFIELD |-> PlainCmsg(8, <<1, 1, 4, 2>>, 2 * 1 + 4 + 2, 8),
   CMSG_AREA_SPIRIT_HEALER_QUERY |-> PlainCmsg(8, <<8>>, 8, 8)]

tbc_FromCmsgAreaSpiritHealerQueue ==
  [CMSG_AREA_SPIRIT_HEALER_QUEUE |-> PlainCmsg(8, <<8>>, 8, 8),
   SMSG_AREA_SPIRIT_HEALER_TIME |-> PlainSmsg(12, <<8, 4>>, 8 + 4, 12),
   SMSG_WARDEN_DATA |-> [w \in OfCount |->
     Smsg(Free({"encrypted_data"}),
          Null({"encrypted_data"}) \o Endless("encrypted_data", w.count, {}, Ints(<<1>>), 1),
          w.count, w.count)]]

tbc_FromCmsgWardenData ==
  [CMSG_WARDEN_DATA |-> [w \in OfCount |->
     Cmsg(Free({"encrypted_data"}),
          Null({"encrypted_data"}) \o Endless("encrypted_data", w.count, {}, Ints(<<1>>), 1),
          w.count, w.count)],
   SMSG_GROUP_JOINED_BATTLEGROUND |-> PlainSmsg(4, <<4>>, 4, 4),
   MSG_BATTLEGROUND_PLAYER_POSITIONS_Client |-> EmptyCmsg(0)]

tbc_FromMsgBattlegroundPlayerPositions ==
  [MSG_BATTLEGROUND_PLAYER_POSITIONS_Server |-> [w \in OfCount |->
     Smsg(
       Free({"teammates", "carriers"}),
       Minimum(5) \o Null({"teammates", "carriers"}) \o Ints(<<4>>)
       \o Array("teammates", w.count, {}, tbc_BattlegroundPlayerPosition.read) \o Ints(<<1>>)
       \o Array("carriers", w.count, {}, tbc_BattlegroundPlayerPosition.read),
       4 + w.count * tbc_BattlegroundPlayerPosition.written + 1
       + w.count * tbc_BattlegroundPlayerPosition.written, 5 + 16 * w.count + 16 * w.count)],
   CMSG_PET_STOP_ATTACK |-> PlainCmsg(8, <<8>>, 8, 8),
   SMSG_BINDER_CONFIRM |-> PlainSmsg(8, <<8>>, 8, 8)]

tbc_FromSmsgBattlegroundPlayerJoined ==
  [SMSG_BATTLEGROUND_PLAYER_JOINED |-> PlainSmsg(8, <<8>>, 8, 8),
   SMSG_BATTLEGROUND_PLAYER_LEFT |-> PlainSmsg(8, <<8>>, 8, 8),
   CMSG_BATTLEMASTER_JOIN |-> PlainCmsg(17, <<8, 4, 4, 1>>, 8 + 2 * 4 + 1, 17)]

tbc_FromCmsgPetUnlearn ==
  [CMSG_PET_UNLEARN |-> PlainCmsg(8, <<8>>, 8, 8),
   SMSG_PET_UNLEARN_CONFIRM |-> PlainSmsg(12, <<8, 4>>, 8 + 4, 12)]

tbc_FromSmsgPartyMemberStatsFull ==
  [SMSG_PARTY_MEMBER_STATS_FULL |-> tbc_FromSmsgPartyMemberStats.SMSG_PARTY_MEMBER_STATS]

tbc_FromCmsgPetSpellAutocast ==
  [CMSG_PET_SPELL_AUTOCAST |-> PlainCmsg(13, <<8, 4, 1>>, 8 + 4 + 1, 13),
   SMSG_WEATHER |-> PlainSmsg(9, <<4, 4, 1>>, 2 * 4 + 1, 9),
   SMSG_RAID_INSTANCE_MESSAGE |-> PlainSmsg(12, <<4, 4, 4>>, 3 * 4, 12)]

tbc_FromCmsgGuildInfoText ==
  [CMSG_GUILD_INFO_TEXT |-> [w \in OfLength |->
     Cmsg(Free({"guild_info"}), Minimum(1) \o Null({"guild_info"}) \o Cstring("guild_info", w),
          WRITE_CSTRING(w), 1 + w.len)],
   SMSG_CHAT_RESTRICTED |-> PlainSmsg(1, <<1>>, 1, 1),
   SMSG_SPLINE_SET_RUN_SPEED |-> tbc_FromSmsgMoveWaterWalk.SMSG_MOVE_WATER_WALK]

tbc_FromSmsgSplineSetRunBackSpeed ==
  [SMSG_SPLINE_SET_RUN_BACK_SPEED |-> tbc_FromSmsgMoveWaterWalk.SMSG_MOVE_WATER_WALK,
   SMSG_SPLINE_SET_SWIM_SPEED |-> tbc_FromSmsgMoveWaterWalk.SMSG_MOVE_WATER_WALK,
   SMSG_SPLINE_SET_WALK_SPEED |-> tbc_FromSmsgMoveWaterWalk.SMSG_MOVE_WATER_WALK]

tbc_FromSmsgSplineSetSwimBackSpeed ==
  [SMSG_SPLINE_SET_SWIM_BACK_SPEED |-> tbc_FromSmsgMoveWaterWalk.SMSG_MOVE_WATER_WALK,
   SMSG_SPLINE_SET_TURN_RATE |-> tbc_FromSmsgMoveWaterWalk.SMSG_MOVE_WATER_WALK,
   SMSG_SPLINE_MOVE_UNROOT |-> [w \in OfLength |->
     Smsg({}, Minimum(1) \o PackedGuid(w), WRITE_PACKED_GUID(w), wwm_packed_guid_size(w))]]

tbc_FromSmsgSplineMoveFeatherFall ==
  [SMSG_SPLINE_MOVE_FEATHER_FALL |-> [w \in OfLength |->
     Smsg({}, Minimum(1) \o PackedGuid(w), WRITE_PACKED_GUID(w), wwm_packed_guid_size(w))],
   SMSG_SPLINE_MOVE_NORMAL_FALL |-> [w \in OfLength |->
     Smsg({}, Minimum(1) \o PackedGuid(w), WRITE_PACKED_GUID(w), wwm_packed_guid_size(w))],
   SMSG_SPLINE_MOVE_SET_HOVER |-> [w \in OfLength |->
     Smsg({}, Minimum(1) \o PackedGuid(w), WRITE_PACKED_GUID(w), wwm_packed_guid_size(w))],
   SMSG_SPLINE_MOVE_UNSET_HOVER |-> [w \in OfLength |->
     Smsg({}, Minimum(1) \o PackedGuid(w), WRITE_PACKED_GUID(w), wwm_packed_guid_size(w))]]

tbc_FromSmsgSplineMoveWaterWalk ==
  [SMSG_SPLINE_MOVE_WATER_WALK |-> [w \in OfLength |->
     Smsg({}, Minimum(1) \o PackedGuid(w), WRITE_PACKED_GUID(w), wwm_packed_guid_size(w))],
   SMSG_SPLINE_MOVE_LAND_WALK |-> [w \in OfLength |->
     Smsg({}, Minimum(1) \o PackedGuid(w), WRITE_PACKED_GUID(w), wwm_packed_guid_size(w))],
   SMSG_SPLINE_MOVE_START_SWIM |-> [w \in OfLength |->
     Smsg({}, Minimum(1) \o PackedGuid(w), WRITE_PACKED_GUID(w), wwm_packed_guid_size(w))],
   SMSG_SPLINE_MOVE_STOP_SWIM |-> [w \in OfLength |->
     Smsg({}, Minimum(1) \o PackedGuid(w), WRITE_PACKED_GUID(w), wwm_packed_guid_size(w))]]

tbc_FromSmsgSplineMoveSetRunMode ==
  [SMSG_SPLINE_MOVE_SET_RUN_MODE |-> [w \in OfLength |->
     Smsg({}, Minimum(1) \o PackedGuid(w), WRITE_PACKED_GUID(w), wwm_packed_guid_size(w))],
   SMSG_SPLINE_MOVE_SET_WALK_MODE |-> [w \in OfLength |->
     Smsg({}, Minimum(1) \o PackedGuid(w), WRITE_PACKED_GUID(w), wwm_packed_guid_size(w))],
   CMSG_ACTIVATETAXIEXPRESS |-> [w \in OfCount |->
     Cmsg(Free({"nodes"}),
          Minimum(16) \o Null({"nodes"}) \o Ints(<<8, 4, 4>>) \o Calloc("nodes", w.count, {})
          \o Ints(Repeat(w.count, 4)), 8 + 2 * 4 + w.count * 4, 16 + 4 * w.count)]]

tbc_FromCmsgSetFactionInactive ==
  [CMSG_SET_FACTION_INACTIVE |-> PlainCmsg(3, <<2, 1>>, 2 + 1, 3),
   CMSG_SET_WATCHED_FACTION |-> PlainCmsg(2, <<2>>, 2, 2),
   MSG_MOVE_TIME_SKIPPED_Server |-> tbc_FromSmsgMoveWaterWalk.SMSG_MOVE_WATER_WALK,
   SMSG_SPLINE_MOVE_ROOT |-> PlainSmsg(8, <<8>>, 8, 8)]

tbc_FromSmsgInvalidatePlayer ==
  [SMSG_INVALIDATE_PLAYER |-> PlainSmsg(8, <<8>>, 8, 8),
   CMSG_RESET_INSTANCES |-> EmptyCmsg(0),
   SMSG_INSTANCE_RESET |-> PlainSmsg(4, <<4>>, 4, 4),
   SMSG_INSTANCE_RESET_FAILED |-> PlainSmsg(8, <<4, 4>>, 2 * 4, 8)]

tbc_FromSmsgUpdateLastInstance ==
  [SMSG_UPDATE_LAST_INSTANCE |-> PlainSmsg(4, <<4>>, 4, 4),
   MSG_RAID_TARGET_UPDATE_Client |->
     [w \in Wires(
              {0}, {0}, {{"RAID_TARGET_INDEX_UNKNOWN0", "RAID_TARGET_INDEX_REQUEST_ICONS"}}, {}) |->
       Cmsg({}, Minimum(1) \o Ints(<<1>>) \o When(Is(w, "RAID_TARGET_INDEX_UNKNOWN0"), Ints(<<8>>)),
            1 + Bytes(Is(w, "RAID_TARGET_INDEX_UNKNOWN0"), 8),
            1 + Bytes(Is(w, "RAID_TARGET_INDEX_UNKNOWN0"), 8))],
   MSG_RAID_TARGET_UPDATE_Server |->
     [w \in Wires({0}, {0}, {{"RAID_TARGET_UPDATE_TYPE_FULL", "RAID_TARGET_UPDATE_TYPE_PARTIAL"}},
                  {}) |->
       Smsg(
         {},
         Minimum(1) \o Ints(<<1>>)
         \o When(Is(w, "RAID_TARGET_UPDATE_TYPE_FULL"),
                 Each("raid_targets", 8, tbc_RaidTargetUpdate.read))
         \o When(Is(w, "RAID_TARGET_UPDATE_TYPE_PARTIAL"), tbc_RaidTargetUpdate.read),
         1 + Bytes(Is(w, "RAID_TARGET_UPDATE_TYPE_FULL"), 8 * tbc_RaidTargetUpdate.written)
         + Bytes(Is(w, "RAID_TARGET_UPDATE_TYPE_PARTIAL"), tbc_RaidTargetUpdate.written),
         1 + Bytes(Is(w, "RAID_TARGET_UPDATE_TYPE_FULL"), 72)
         + Bytes(Is(w, "RAID_TARGET_UPDATE_TYPE_PARTIAL"), 9))]]

tbc_FromMsgRaidReadyCheck ==
  [MSG_RAID_READY_CHECK_Client |-> [w \in Wires({0}, {0}, {}, {"answer"}) |->
     Cmsg(Free({"answer"}), Null({"answer"}) \o Optional("answer", {}, Ints(<<1>>)),
          Bytes(Is(w, "answer"), 1), Bytes(Is(w, "answer"), 1))],
   MSG_RAID_READY_CHECK_Server |-> [w \in Wires({0}, {0}, {}, {"state_check"}) |->
     Smsg(
       Free({"state_check"}), Null({"state_check"}) \o Optional("state_check", {}, Ints(<<8, 1>>)),
       Bytes(Is(w, "state_check"), 8 + 1), Bytes(Is(w, "state_check"), 9))]]

tbc_FromSmsgPetActionSound ==
  [SMSG_PET_ACTION_SOUND |-> PlainSmsg(12, <<8, 4>>, 8 + 4, 12),
   SMSG_PET_DISMISS_SOUND |-> [w \in {Fixed} |->
     Smsg({}, Minimum(16) \o Ints(<<4>>) \o Vector3d.read, 4 + Vector3d.written, 16)],
   SMSG_GM_TICKET_STATUS_UPDATE |-> PlainSmsg(4, <<4>>, 4, 4),
   MSG_SET_DUNGEON_DIFFICULTY_Client |-> PlainCmsg(4, <<4>>, 4, 4)]

tbc_FromMsgSetDungeonDifficulty ==
  [MSG_SET_DUNGEON_DIFFICULTY_Server |-> PlainSmsg(12, <<4, 4, 4>>, 3 * 4, 12),
   CMSG_GMSURVEY_SUBMIT |-> [w \in OfLength |->
     Cmsg(
       Free({"answer_comment"}) \union FreeFixed("questions", 10, tbc_GmSurveyQuestion(w).free),
       Minimum(65) \o Null({"answer_comment"}) \o Ints(<<4>>)
       \o Each("questions", 10, tbc_GmSurveyQuestion(w).read) \o Cstring("answer_comment", w),
       4 + 10 * tbc_GmSurveyQuestion(w).written + WRITE_CSTRING(w),
       5 + w.len + 10 * tbc_GmSurveyQuestion(w).size)],
   SMSG_UPDATE_INSTANCE_OWNERSHIP |-> PlainSmsg(4, <<4>>, 4, 4)]

tbc_FromSmsgChatPlayerAmbiguous ==
  [SMSG_CHAT_PLAYER_AMBIGUOUS |-> tbc_FromSmsgGuildInvite.SMSG_GUILD_DECLINE,
   SMSG_SPELLINSTAKILLLOG |-> PlainSmsg(20, <<8, 8, 4>>, 2 * 8 + 4, 20)]

tbc_FromSmsgSpellUpdateChainTargets ==
  [SMSG_SPELL_UPDATE_CHAIN_TARGETS |-> [w \in OfCount |->
     Smsg(Free({"targets"}),
          Minimum(16) \o Null({"targets"}) \o Ints(<<8, 4, 4>>) \o Calloc("targets", w.count, {})
          \o Ints(Repeat(w.count, 8)), 8 + 2 * 4 + w.count * 8, 16 + 8 * w.count)],
   SMSG_SPELLSTEALLOG |-> [w \in OfLengthAndCount |->
     Smsg(
       Free({"spell_steals"}),
       Minimum(11) \o Null({"spell_steals"}) \o PackedGuid(w) \o PackedGuid(w)
       \o Ints(<<4, 1, 4>>) \o Array("spell_steals", w.count, {}, tbc_SpellSteal.read),
       2 * WRITE_PACKED_GUID(w) + 4 + 1 + 4 + w.count * tbc_SpellSteal.written,
       9 + 2 * wwm_packed_guid_size(w) + 5 * w.count)]]

tbc_FromSmsgDefenseMessage ==
  [SMSG_DEFENSE_MESSAGE |-> [w \in OfLength |->
     Smsg(Free({"message"}),
          Minimum(9) \o Null({"message"}) \o Ints(<<4>>) \o SizedCstring("message", w),
          4 + WRITE_SIZED_CSTRING(w), 9 + w.len)],
   SMSG_INSTANCE_DIFFICULTY |-> PlainSmsg(8, <<4, 4>>, 2 * 4, 8)]

tbc_FromSmsgMotd ==
  [SMSG_MOTD |-> [w \in OfLengthAndCount |->
     Smsg(
       FreeEach("motds", w.count, Free({"text"})),
       Minimum(4) \o Null({"motds"}) \o Ints(<<4>>)
       \o Array("motds", w.count, Free({"text"}), Cstring("text", w)),
       4 + w.count * WRITE_CSTRING(w), 4 + w.count * (1 + w.len))],
   SMSG_MOVE_SET_FLIGHT |-> PlainSmsg(12, <<8, 4>>, 8 + 4, 12),
   SMSG_MOVE_UNSET_FLIGHT |-> PlainSmsg(12, <<8, 4>>, 8 + 4, 12)]

tbc_FromSmsgMoveSetCanFly ==
  [SMSG_MOVE_SET_CAN_FLY |-> tbc_FromSmsgMoveWaterWalk.SMSG_MOVE_WATER_WALK,
   SMSG_MOVE_UNSET_CAN_FLY |-> tbc_FromSmsgMoveWaterWalk.SMSG_MOVE_WATER_WALK,
   CMSG_MOVE_SET_CAN_FLY_ACK |-> tbc_FromSmsgForceRunSpeedChange.CMSG_FORCE_RUN_SPEED_CHANGE_ACK]

tbc_FromCmsgMoveSetFly ==
  [CMSG_MOVE_SET_FLY |-> tbc_FromSmsgGameobjectCustomAnim.MSG_MOVE_START_FORWARD_Client,
   CMSG_SOCKET_GEMS |-> PlainCmsg(32, <<8, 8, 8, 8>>, 8 + 3 * 8, 32),
   SMSG_ARENA_TEAM_COMMAND_RESULT |-> [w \in OfLength |->
     Smsg(Free({"team", "player"}),
          Minimum(10) \o Null({"team", "player"}) \o Ints(<<4>>) \o Cstring("team", w)
          \o Cstring("player", w) \o Ints(<<4>>), 4 + 2 * WRITE_CSTRING(w) + 4, 10 + 2 * w.len)]]

tbc_FromSmsgArenaTeamQueryResponse ==
  [SMSG_ARENA_TEAM_QUERY_RESPONSE |-> [w \in OfLength |->
     Smsg(Free({"team_name"}),
          Minimum(26) \o Null({"team_name"}) \o Ints(<<4>>) \o Cstring("team_name", w)
          \o Ints(<<1>> \o Repeat(5, 4)), 4 + WRITE_CSTRING(w) + 1 + 5 * 4, 26 + w.len)],
   CMSG_ARENA_TEAM_ROSTER |-> PlainCmsg(4, <<4>>, 4, 4)]

tbc_FromSmsgArenaTeamRoster ==
  [SMSG_ARENA_TEAM_ROSTER |-> [w \in OfLengthAndCount |->
     Smsg(
       FreeEach("members", w.count, tbc_ArenaTeamMember(w).free),
       Minimum(9) \o Null({"members"}) \o Ints(<<4, 4, 1>>)
       \o Array("members", w.count, tbc_ArenaTeamMember(w).free, tbc_ArenaTeamMember(w).read),
       2 * 4 + 1 + w.count * tbc_ArenaTeamMember(w).written,
       9 + w.count * tbc_ArenaTeamMember(w).size)],
   CMSG_ARENA_TEAM_INVITE |-> [w \in OfLength |->
     Cmsg(Free({"player"}), Minimum(5) \o Null({"player"}) \o Ints(<<4>>) \o Cstring("player", w),
          4 + WRITE_CSTRING(w), 5 + w.len)]]

tbc_FromSmsgArenaTeamInvite ==
  [SMSG_ARENA_TEAM_INVITE |-> [w \in OfLength |->
     Smsg(Free({"player_name", "team_name"}),
          Minimum(2) \o Null({"player_name", "team_name"}) \o Cstring("player_name", w)
          \o Cstring("team_name", w), 2 * WRITE_CSTRING(w), 2 + 2 * w.len)],
   CMSG_ARENA_TEAM_ACCEPT |-> EmptyCmsg(0),
   CMSG_ARENA_TEAM_DECLINE |-> EmptyCmsg(0),
   CMSG_ARENA_TEAM_LEAVE |-> PlainCmsg(4, <<4>>, 4, 4)]

tbc_FromCmsgArenaTeamRemove ==
  [CMSG_ARENA_TEAM_REMOVE |-> tbc_FromSmsgArenaTeamRoster.CMSG_ARENA_TEAM_INVITE,
   CMSG_ARENA_TEAM_DISBAND |-> PlainCmsg(4, <<4>>, 4, 4),
   CMSG_ARENA_TEAM_LEADER |-> tbc_FromSmsgArenaTeamRoster.CMSG_ARENA_TEAM_INVITE]

tbc_FromSmsgArenaTeamEvent ==
  [SMSG_ARENA_TEAM_EVENT |->
     [w \in Wires(Lengths, Counts,
                  {{"ARENA_TEAM_EVENT_JOIN", "ARENA_TEAM_EVENT_LEAVE", "ARENA_TEAM_EVENT_REMOVE",
                    "ARENA_TEAM_EVENT_LEADER_IS", "ARENA_TEAM_EVENT_LEADER_CHANGED"}}, {}) |->
       Smsg(
         FreeIf("event", {"ARENA_TEAM_EVENT_JOIN"}, Free({"joiner_name", "arena_team_name1"}))
         \union FreeIf("event", {"ARENA_TEAM_EVENT_LEAVE"}, Free({"leaver_name"}))
         \union FreeIf("event", {"ARENA_TEAM_EVENT_REMOVE"},
                       Free({"kicked_player_name", "arena_team_name2", "kicker_name"}))
         \union FreeIf("event", {"ARENA_TEAM_EVENT_LEADER_IS"},
                       Free({"leader_name", "arena_team_name3"}))
         \union FreeIf(
                  "event", {"ARENA_TEAM_EVENT_LEADER_CHANGED"}, Free({"old_leader", "new_leader"}))
         \union FreeEach("string", w.count, Free({"text"})),
         Minimum(2)
         \o Null({"joiner_name", "arena_team_name1", "leaver_name", "kicked_player_name",
                  "arena_team_name2", "kicker_name", "leader_name", "arena_team_name3", "old_leader",
                  "new_leader", "string"}) \o Field(1, "event", {}, w)
         \o When(Is(w, "ARENA_TEAM_EVENT_JOIN"),
                 Cstring("joiner_name", w) \o Cstring("arena_team_name1", w) \o Ints(<<8>>))
         \o When(Is(w, "ARENA_TEAM_EVENT_LEAVE"), Cstring("leaver_name", w) \o Ints(<<8>>))
         \o When(Is(w, "ARENA_TEAM_EVENT_REMOVE"),
                 Cstring("kicked_player_name", w) \o Cstring("arena_team_name2", w)
                 \o Cstring("kicker_name", w))
         \o When(Is(w, "ARENA_TEAM_EVENT_LEADER_IS"),
                 Cstring("leader_name", w) \o Cstring("arena_team_name3", w))
         \o When(Is(w, "ARENA_TEAM_EVENT_LEADER_CHANGED"),
                 Cstring("old_leader", w) \o Cstring("new_leader", w)) \o Ints(<<1>>)
         \o Array("string", w.count, Free({"text"}), Cstring("text", w)),
         1 + Bytes(Is(w, "ARENA_TEAM_EVENT_JOIN"), 2 * WRITE_CSTRING(w) + 8)
         + Bytes(Is(w, "ARENA_TEAM_EVENT_LEAVE"), WRITE_CSTRING(w) + 8)
         + Bytes(Is(w, "ARENA_TEAM_EVENT_REMOVE"), 3 * WRITE_CSTRING(w))
         + Bytes(Is(w, "ARENA_TEAM_EVENT_LEADER_IS"), 2 * WRITE_CSTRING(w))
         + Bytes(Is(w, "ARENA_TEAM_EVENT_LEADER_CHANGED"), 2 * WRITE_CSTRING(w)) + 1
         + w.count * WRITE_CSTRING(w),
         2 + Bytes(Is(w, "ARENA_TEAM_EVENT_JOIN"), 10 + 2 * w.len)
         + Bytes(Is(w, "ARENA_TEAM_EVENT_LEAVE"), 9 + w.len)
         + Bytes(Is(w, "ARENA_TEAM_EVENT_REMOVE"), 3 + 3 * w.len)
         + Bytes(Is(w, "ARENA_TEAM_EVENT_LEADER_IS"), 2 + 2 * w.len)
         + Bytes(Is(w, "ARENA_TEAM_EVENT_LEADER_CHANGED"), 2 + 2 * w.len) + w.count * (1 + w.len))]]

tbc_FromCmsgBattlemasterJoinArena ==
  [CMSG_BATTLEMASTER_JOIN_ARENA |-> PlainCmsg(11, <<8, 1, 1, 1>>, 8 + 3 * 1, 11),
   MSG_MOVE_START_ASCEND_Client |->
     tbc_FromSmsgGameobjectCustomAnim.MSG_MOVE_START_FORWARD_Client,
   MSG_MOVE_START_ASCEND_Server |->
     tbc_FromSmsgGameobjectCustomAnim.MSG_MOVE_START_FORWARD_Server]

tbc_FromMsgMoveStopAscend ==
  [MSG_MOVE_STOP_ASCEND_Client |-> tbc_FromSmsgGameobjectCustomAnim.MSG_MOVE_START_FORWARD_Client,
   MSG_MOVE_STOP_ASCEND_Server |-> tbc_FromSmsgGameobjectCustomAnim.MSG_MOVE_START_FORWARD_Server,
   SMSG_ARENA_TEAM_STATS |-> PlainSmsg(28, Repeat(7, 4), 7 * 4, 28)]

tbc_FromCmsgLfgSetAutojoin ==
  [CMSG_LFG_SET_AUTOJOIN |-> EmptyCmsg(0),
   CMSG_LFG_CLEAR_AUTOJOIN |-> EmptyCmsg(0),
   CMSG_LFM_SET_AUTOFILL |-> EmptyCmsg(0),
   CMSG_LFM_CLEAR_AUTOFILL |-> EmptyCmsg(0),
   CMSG_CLEAR_LOOKING_FOR_GROUP |-> EmptyCmsg(0),
   CMSG_CLEAR_LOOKING_FOR_MORE |-> EmptyCmsg(0),
   CMSG_SET_LOOKING_FOR_MORE |-> [w \in {Fixed} |->
     Cmsg({}, Minimum(4) \o tbc_LfgData.read, tbc_LfgData.written, 4)]]

tbc_FromCmsgSetLfgComment ==
  [CMSG_SET_LFG_COMMENT |-> [w \in OfLength |->
     Cmsg(Free({"comment"}), Minimum(1) \o Null({"comment"}) \o Cstring("comment", w),
          WRITE_CSTRING(w), 1 + w.len)],
   SMSG_LFG_LEADER_IS_LFM |-> EmptySmsg(0),
   SMSG_LFG_UPDATE |->
     [w \in Wires({0}, {0},
                  {{"LFG_UPDATE_LOOKING_FOR_MORE_LOOKING_FOR_MORE",
                    "LFG_UPDATE_LOOKING_FOR_MORE_NOT_LOOKING_FOR_MORE"}}, {}) |->
       Smsg(
         {},
         Minimum(3) \o Ints(<<1, 1, 1>>)
         \o When(Is(w, "LFG_UPDATE_LOOKING_FOR_MORE_LOOKING_FOR_MORE"), tbc_LfgData.read),
         3 * 1 + Bytes(Is(w, "LFG_UPDATE_LOOKING_FOR_MORE_LOOKING_FOR_MORE"), tbc_LfgData.written),
         3 + Bytes(Is(w, "LFG_UPDATE_LOOKING_FOR_MORE_LOOKING_FOR_MORE"), 4))]]

tbc_FromSmsgLfgUpdateLfm ==
  [SMSG_LFG_UPDATE_LFM |->
     [w \in Wires({0}, {0},
                  {{"LFG_UPDATE_LOOKING_FOR_MORE_LOOKING_FOR_MORE",
                    "LFG_UPDATE_LOOKING_FOR_MORE_NOT_LOOKING_FOR_MORE"}}, {}) |->
       Smsg(
         {},
         Minimum(1) \o Ints(<<1>>)
         \o When(Is(w, "LFG_UPDATE_LOOKING_FOR_MORE_LOOKING_FOR_MORE"), tbc_LfgData.read),
         1 + Bytes(Is(w, "LFG_UPDATE_LOOKING_FOR_MORE_LOOKING_FOR_MORE"), tbc_LfgData.written),
         1 + Bytes(Is(w, "LFG_UPDATE_LOOKING_FOR_MORE_LOOKING_FOR_MORE"), 4))],
   SMSG_LFG_UPDATE_LFG |-> [w \in {Fixed} |->
     Smsg({}, Minimum(12) \o Each("data", 3, tbc_LfgData.read), 3 * tbc_LfgData.written, 12)],
   SMSG_LFG_UPDATE_QUEUED |-> PlainSmsg(1, <<1>>, 1, 1)]

tbc_FromSmsgTitleEarned ==
  [SMSG_TITLE_EARNED |-> PlainSmsg(8, <<4, 4>>, 2 * 4, 8),
   CMSG_SET_TITLE |-> PlainCmsg(4, <<4>>, 4, 4),
   CMSG_CANCEL_MOUNT_AURA |-> EmptyCmsg(0),
   SMSG_ARENA_ERROR |-> PlainSmsg(5, <<4, 1>>, 4 + 1, 5)]

tbc_FromMsgInspectArenaTeams ==
  [MSG_INSPECT_ARENA_TEAMS_Client |-> PlainCmsg(8, <<8>>, 8, 8),
   MSG_INSPECT_ARENA_TEAMS_Server |-> PlainSmsg(33, <<8, 1>> \o Repeat(6, 4), 8 + 1 + 6 * 4, 33),
   SMSG_DEATH_RELEASE_LOC |-> [w \in {Fixed} |->
     Smsg({}, Minimum(16) \o Ints(<<4>>) \o Vector3d.read, 4 + Vector3d.written, 16)]]

tbc_FromCmsgCancelTempEnchantment ==
  [CMSG_CANCEL_TEMP_ENCHANTMENT |-> PlainCmsg(4, <<4>>, 4, 4),
   SMSG_FORCED_DEATH_UPDATE |-> EmptySmsg(0),
   MSG_MOVE_SET_FLIGHT_SPEED_Server |-> [w \in Wires(Lengths, {0}, {}, tbc_MovementInfoFlags) |->
     Smsg({}, Minimum(34) \o PackedGuid(w) \o tbc_MovementInfo(w).read \o Ints(<<4>>),
          WRITE_PACKED_GUID(w) + tbc_MovementInfo(w).written + 4,
          4 + wwm_packed_guid_size(w) + tbc_MovementInfo(w).size)],
   MSG_MOVE_SET_FLIGHT_BACK_SPEED_cmsg |->
     [w \in Wires(Lengths, {0}, {}, tbc_MovementInfoFlags) |->
       Client(tbc_MSG_MOVE_SET_FLIGHT_BACK_SPEED(w))]]

tbc_FromMsgMoveSetFlightBackSpeed ==
  [MSG_MOVE_SET_FLIGHT_BACK_SPEED_smsg |->
     [w \in Wires(Lengths, {0}, {}, tbc_MovementInfoFlags) |->
       Server(tbc_MSG_MOVE_SET_FLIGHT_BACK_SPEED(w))],
   SMSG_FORCE_FLIGHT_SPEED_CHANGE |-> [w \in OfLength |->
     Smsg({}, Minimum(9) \o PackedGuid(w) \o Ints(<<4, 4>>),
          WRITE_PACKED_GUID(w) + 2 * 4, 8 + wwm_packed_guid_size(w))],
   CMSG_FORCE_FLIGHT_SPEED_CHANGE_ACK |->
     tbc_FromSmsgForceRunSpeedChange.CMSG_FORCE_RUN_SPEED_CHANGE_ACK]

tbc_FromSmsgForceFlightBackSpeedChange ==
  [SMSG_FORCE_FLIGHT_BACK_SPEED_CHANGE |-> [w \in OfLength |->
     Smsg({}, Minimum(9) \o PackedGuid(w) \o Ints(<<4, 4>>),
          WRITE_PACKED_GUID(w) + 2 * 4, 8 + wwm_packed_guid_size(w))],
   CMSG_FORCE_FLIGHT_BACK_SPEED_CHANGE_ACK |->
     tbc_FromSmsgForceRunSpeedChange.CMSG_FORCE_RUN_SPEED_CHANGE_ACK,
   SMSG_SPLINE_SET_FLIGHT_SPEED |-> tbc_FromSmsgMoveWaterWalk.SMSG_MOVE_WATER_WALK]

tbc_FromSmsgSplineSetFlightBackSpeed ==
  [SMSG_SPLINE_SET_FLIGHT_BACK_SPEED |-> tbc_FromSmsgMoveWaterWalk.SMSG_MOVE_WATER_WALK,
   SMSG_FLIGHT_SPLINE_SYNC |-> PlainSmsg(12, <<4, 8>>, 4 + 8, 12),
   CMSG_SET_TAXI_BENCHMARK_MODE |-> PlainCmsg(1, <<1>>, 1, 1)]

tbc_FromSmsgRealmSplit ==
  [SMSG_REALM_SPLIT |-> [w \in OfLength |->
     Smsg(Free({"split_date"}),
          Minimum(9) \o Null({"split_date"}) \o Ints(<<4, 4>>) \o Cstring("split_date", w),
          2 * 4 + WRITE_CSTRING(w), 9 + w.len)],
   CMSG_REALM_SPLIT |-> PlainCmsg(4, <<4>>, 4, 4),
   CMSG_MOVE_CHNG_TRANSPORT |-> tbc_FromSmsgGameobjectCustomAnim.MSG_MOVE_START_FORWARD_Client]

tbc_FromMsgPartyAssignment ==
  [MSG_PARTY_ASSIGNMENT_Client |-> PlainCmsg(10, <<1, 1, 8>>, 2 * 1 + 8, 10),
   SMSG_TIME_SYNC_REQ |-> PlainSmsg(4, <<4>>, 4, 4),
   CMSG_TIME_SYNC_RESP |-> PlainCmsg(8, <<4, 4>>, 2 * 4, 8),
   SMSG_RESET_FAILED_NOTIFY |-> PlainSmsg(4, <<4>>, 4, 4)]

tbc_FromSmsgLfgDisabled ==
  [SMSG_LFG_DISABLED |-> EmptySmsg(0),
   SMSG_UPDATE_COMBO_POINTS |-> [w \in OfLength |->
     Smsg({}, Minimum(2) \o PackedGuid(w) \o Ints(<<1>>),
          WRITE_PACKED_GUID(w) + 1, 1 + wwm_packed_guid_size(w))],
   SMSG_SET_EXTRA_AURA_INFO |-> [w \in Wires(Lengths, {0}, {}, {"aura"}) |->
     Smsg(
       Free({"aura"}),
       Counted(wwm_packed_guid_size(w), Minimum(1) \o Null({"aura"}) \o PackedGuid(w))
       \o Optional("aura", {}, Ints(<<1, 4, 4, 4>>)),
       WRITE_PACKED_GUID(w) + Bytes(Is(w, "aura"), 1 + 3 * 4),
       wwm_packed_guid_size(w) + Bytes(Is(w, "aura"), 13))]]

tbc_FromSmsgSetExtraAuraInfoNeedUpdate ==
  [SMSG_SET_EXTRA_AURA_INFO_NEED_UPDATE |-> [w \in OfLength |->
     Smsg({}, Minimum(14) \o PackedGuid(w) \o Ints(<<1, 4, 4, 4>>),
          WRITE_PACKED_GUID(w) + 1 + 3 * 4, 13 + wwm_packed_guid_size(w))],
   SMSG_CLEAR_EXTRA_AURA_INFO |-> tbc_FromSmsgMoveWaterWalk.SMSG_MOVE_WATER_WALK,
   MSG_MOVE_START_DESCEND_Client |->
     tbc_FromSmsgGameobjectCustomAnim.MSG_MOVE_START_FORWARD_Client]

tbc_FromMsgMoveStartDescend ==
  [MSG_MOVE_START_DESCEND_Server |->
     tbc_FromSmsgGameobjectCustomAnim.MSG_MOVE_START_FORWARD_Server,
   SMSG_DISMOUNT |-> [w \in OfLength |->
     Smsg({}, Minimum(1) \o PackedGuid(w), WRITE_PACKED_GUID(w), wwm_packed_guid_size(w))],
   MSG_MOVE_UPDATE_CAN_FLY_Server |->
     tbc_FromSmsgGameobjectCustomAnim.MSG_MOVE_START_FORWARD_Server]

tbc_FromMsgRaidReadyCheckConfirm ==
  [MSG_RAID_READY_CHECK_CONFIRM_Client |-> tbc_FromSmsgResurrectFailed.CMSG_TOGGLE_PVP,
   MSG_RAID_READY_CHECK_CONFIRM_Server |-> PlainSmsg(9, <<8, 1>>, 8 + 1, 9),
   CMSG_VOICE_SESSION_ENABLE |-> PlainCmsg(2, <<1, 1>>, 2 * 1, 2)]

tbc_FromSmsgGmMessagechat ==
  [SMSG_GM_MESSAGECHAT |->
     [w \in Wires(Lengths, {0},
                  {{"CHAT_TYPE_MONSTER_SAY", "CHAT_TYPE_BG_SYSTEM_NEUTRAL", "CHAT_TYPE_CHANNEL",
                    "CHAT_TYPE_SYSTEM"}}, {"guid"}) |->
       Smsg(
         FreeIf("chat_type", {"CHAT_TYPE_MONSTER_SAY"},
                Free({"sender", "message1"}) \union FreeAt(<<"target1">>, NamedGuid(w).free))
         \union FreeIf("chat_type", {"CHAT_TYPE_BG_SYSTEM_NEUTRAL"},
                       Free({"message2"}) \union FreeAt(<<"target2">>, NamedGuid(w).free))
         \union FreeIf("chat_type", {"CHAT_TYPE_CHANNEL"}, Free({"channel_name", "message3"}))
         \union FreeIf("chat_type", {"CHAT_TYPE_SYSTEM"}, Free({"message4", "sender_name"})),
         Minimum(19) \o Null({"sender"}) \o At(<<"target1">>, Clear("guid"))
         \o At(<<"target1">>, Null({"name"})) \o Null({"message1"})
         \o At(<<"target2">>, Clear("guid")) \o At(<<"target2">>, Null({"name"}))
         \o Null({"message2", "channel_name", "message3", "message4", "sender_name"})
         \o Field(1, "chat_type", {"CHAT_TYPE_SYSTEM"}, w) \o Ints(<<4>>)
         \o When(Is(w, "CHAT_TYPE_MONSTER_SAY"),
                 SizedCstring("sender", w) \o At(<<"target1">>, NamedGuid(w).read)
                 \o SizedCstring("message1", w) \o Ints(<<1>>))
         \o When(Is(w, "CHAT_TYPE_BG_SYSTEM_NEUTRAL"),
                 At(<<"target2">>, NamedGuid(w).read) \o SizedCstring("message2", w) \o Ints(<<1>>))
         \o When(Is(w, "CHAT_TYPE_CHANNEL"),
                 Cstring("channel_name", w) \o Ints(<<8>>) \o SizedCstring("message3", w)
                 \o Ints(<<1>>))
         \o When(Is(w, "CHAT_TYPE_SYSTEM"),
                 Ints(<<8>>) \o SizedCstring("message4", w) \o Ints(<<1>>)
                 \o SizedCstring("sender_name", w)),
         1 + 4
         + Bytes(Is(w, "CHAT_TYPE_MONSTER_SAY"),
                 WRITE_SIZED_CSTRING(w) + NamedGuid(w).written + WRITE_SIZED_CSTRING(w) + 1)
         + Bytes(Is(w, "CHAT_TYPE_BG_SYSTEM_NEUTRAL"),
                 NamedGuid(w).written + WRITE_SIZED_CSTRING(w) + 1)
         + Bytes(Is(w, "CHAT_TYPE_CHANNEL"), WRITE_CSTRING(w) + 8 + WRITE_SIZED_CSTRING(w) + 1)
         + Bytes(
             Is(w, "CHAT_TYPE_SYSTEM"), 8 + WRITE_SIZED_CSTRING(w) + 1 + WRITE_SIZED_CSTRING(w)),
         5 + Bytes(Is(w, "CHAT_TYPE_MONSTER_SAY"), 11 + 2 * w.len + NamedGuid(w).size)
         + Bytes(Is(w, "CHAT_TYPE_BG_SYSTEM_NEUTRAL"), 6 + w.len + NamedGuid(w).size)
         + Bytes(Is(w, "CHAT_TYPE_CHANNEL"), 15 + 2 * w.len)
         + Bytes(Is(w, "CHAT_TYPE_SYSTEM"), 19 + 2 * w.len))]]

tbc_FromCmsgCommentatorEnable ==
  [CMSG_COMMENTATOR_ENABLE |-> PlainCmsg(4, <<4>>, 4, 4),
   SMSG_CLEAR_TARGET |-> PlainSmsg(8, <<8>>, 8, 8),
   SMSG_CROSSED_INEBRIATION_THRESHOLD |-> PlainSmsg(16, <<8, 4, 4>>, 8 + 2 * 4, 16)]

tbc_FromSmsgKickReason ==
  [SMSG_KICK_REASON |-> [w \in OfLength |->
     Smsg(Free({"text"}), Minimum(2) \o Null({"text"}) \o Ints(<<1>>) \o Cstring("text", w),
          1 + WRITE_CSTRING(w), 2 + w.len)],
   MSG_RAID_READY_CHECK_FINISHED_Client |-> EmptyCmsg(0)]

tbc_FromCmsgComplain ==
  [CMSG_COMPLAIN |-> [w \in Wires(Lengths, {0}, {{"SPAM_TYPE_MAIL", "SPAM_TYPE_CHAT"}}, {}) |->
     Cmsg(
       FreeIf("complaint_type", {"SPAM_TYPE_CHAT"}, Free({"description"})),
       Minimum(9) \o Null({"description"}) \o Field(1, "complaint_type", {}, w) \o Ints(<<8>>)
       \o When(Is(w, "SPAM_TYPE_MAIL"), Ints(<<4, 4, 4>>))
       \o When(Is(w, "SPAM_TYPE_CHAT"), Ints(<<4, 4, 4, 4>>) \o Cstring("description", w)),
       1 + 8 + Bytes(Is(w, "SPAM_TYPE_MAIL"), 3 * 4)
       + Bytes(Is(w, "SPAM_TYPE_CHAT"), 4 * 4 + WRITE_CSTRING(w)),
       9 + Bytes(Is(w, "SPAM_TYPE_MAIL"), 12) + Bytes(Is(w, "SPAM_TYPE_CHAT"), 17 + w.len))],
   SMSG_COMPLAIN_RESULT |-> PlainSmsg(2, <<1, 1>>, 2 * 1, 2)]

tbc_FromSmsgFeatureSystemStatus ==
  [SMSG_FEATURE_SYSTEM_STATUS |-> PlainSmsg(2, <<1, 1>>, 2 * 1, 2),
   CMSG_CHANNEL_DISPLAY_LIST |-> [w \in OfLength |->
     Cmsg(Free({"channel"}), Minimum(1) \o Null({"channel"}) \o Cstring("channel", w),
          WRITE_CSTRING(w), 1 + w.len)],
   CMSG_SET_ACTIVE_VOICE_CHANNEL |-> [w \in OfLength |->
     Cmsg(Free({"unknown2"}),
          Minimum(5) \o Null({"unknown2"}) \o Ints(<<4>>) \o Cstring("unknown2", w),
          4 + WRITE_CSTRING(w), 5 + w.len)]]

tbc_FromCmsgGetChannelMemberCount ==
  [CMSG_GET_CHANNEL_MEMBER_COUNT |-> [w \in OfLength |->
     Cmsg(Free({"channel"}), Minimum(1) \o Null({"channel"}) \o Cstring("channel", w),
          WRITE_CSTRING(w), 1 + w.len)],
   SMSG_CHANNEL_MEMBER_COUNT |-> [w \in OfLength |->
     Smsg(Free({"channel"}),
          Minimum(6) \o Null({"channel"}) \o Cstring("channel", w) \o Ints(<<1, 4>>),
          WRITE_CSTRING(w) + 1 + 4, 6 + w.len)],
   CMSG_CHANNEL_VOICE_ON |-> EmptyCmsg(0),
   CMSG_REPORT_PVP_AFK |-> PlainCmsg(8, <<8>>, 8, 8)]

tbc_FromCmsgGuildBankerActivate ==
  [CMSG_GUILD_BANKER_ACTIVATE |-> PlainCmsg(9, <<8, 1>>, 8 + 1, 9),
   CMSG_GUILD_BANK_QUERY_TAB |-> PlainCmsg(10, <<8, 1, 1>>, 8 + 2 * 1, 10)]

tbc_FromSmsgGuildBankList ==
  [SMSG_GUILD_BANK_LIST |->
     [w \in Wires(Lengths, Counts,
                  {{"GUILD_BANK_TAB_RESULT_PRESENT", "GUILD_BANK_TAB_RESULT_NOT_PRESENT"}},
                  {"item_random_property_id"}) |->
       Smsg(
         FreeIf("tab_result", {"GUILD_BANK_TAB_RESULT_PRESENT"},
                FreeEach("tabs", w.count, tbc_GuildBankTab(w).free))
         \union FreeEach("slot_updates", w.count, tbc_GuildBankSlot(w).free),
         Minimum(15) \o Null({"tabs", "slot_updates"}) \o Ints(<<8, 1, 4>>)
         \o Field(1, "tab_result", {}, w)
         \o When(Is(w, "GUILD_BANK_TAB_RESULT_PRESENT"),
                 Ints(<<1>>)
                 \o Array("tabs", w.count, tbc_GuildBankTab(w).free, tbc_GuildBankTab(w).read))
         \o Ints(<<1>>)
         \o Array("slot_updates", w.count, tbc_GuildBankSlot(w).free, tbc_GuildBankSlot(w).read),
         8 + 1 + 4 + 1
         + Bytes(Is(w, "GUILD_BANK_TAB_RESULT_PRESENT"), 1 + w.count * tbc_GuildBankTab(w).written)
         + 1 + w.count * tbc_GuildBankSlot(w).written,
         15 + Bytes(Is(w, "GUILD_BANK_TAB_RESULT_PRESENT"), 1 + w.count * tbc_GuildBankTab(w).size)
         + w.count * tbc_GuildBankSlot(w).size)]]

tbc_FromCmsgGuildBankSwapItems ==
  [CMSG_GUILD_BANK_SWAP_ITEMS |->
     [w \in Wires({0}, Counts,
                  {{"BANK_SWAP_SOURCE_BANK", "BANK_SWAP_SOURCE_INVENTORY"},
                   {"BANK_SWAP_STORE_MODE_AUTOMATIC", "BANK_SWAP_STORE_MODE_MANUAL"}}, {}) |->
       Cmsg(
         Free({"unknown5"}),
         Counted(
           9,
           Minimum(20) \o Null({"unknown5"}) \o Ints(<<8, 1>>)
           \o When(Is(w, "BANK_SWAP_SOURCE_BANK"), Counted(14, Ints(<<1, 1, 4, 1, 1, 4, 1, 1>>)))
           \o When(
                Is(w, "BANK_SWAP_SOURCE_INVENTORY"),
                Counted(
                  7,
                  Ints(<<1, 1, 4, 1>>)
                  \o When(Is(w, "BANK_SWAP_STORE_MODE_AUTOMATIC"), Counted(6, Ints(<<4, 1, 1>>)))
                  \o When(
                       Is(w, "BANK_SWAP_STORE_MODE_MANUAL"), Counted(4, Ints(<<1, 1, 1, 1>>))))))
         \o Endless("unknown5", w.count, {}, Ints(<<1>>), 1),
         8 + 1 + Bytes(Is(w, "BANK_SWAP_SOURCE_BANK"), 2 * 1 + 4 + 2 * 1 + 4 + 2 * 1)
         + Bytes(Is(w, "BANK_SWAP_SOURCE_INVENTORY"),
                 2 * 1 + 4 + 1 + Bytes(Is(w, "BANK_SWAP_STORE_MODE_AUTOMATIC"), 4 + 2 * 1)
                 + Bytes(Is(w, "BANK_SWAP_STORE_MODE_MANUAL"), 4 * 1)) + w.count,
         9 + w.count + Bytes(Is(w, "BANK_SWAP_SOURCE_BANK"), 14)
         + Bytes(Is(w, "BANK_SWAP_SOURCE_INVENTORY"),
                 7 + Bytes(Is(w, "BANK_SWAP_STORE_MODE_AUTOMATIC"), 6)
                 + Bytes(Is(w, "BANK_SWAP_STORE_MODE_MANUAL"), 4)))]]

tbc_FromCmsgGuildBankBuyTab ==
  [CMSG_GUILD_BANK_BUY_TAB |-> PlainCmsg(9, <<8, 1>>, 8 + 1, 9),
   CMSG_GUILD_BANK_UPDATE_TAB |-> [w \in OfLength |->
     Cmsg(Free({"name", "icon"}),
          Minimum(11) \o Null({"name", "icon"}) \o Ints(<<8, 1>>) \o Cstring("name", w)
          \o Cstring("icon", w), 8 + 1 + 2 * WRITE_CSTRING(w), 11 + 2 * w.len)],
   CMSG_GUILD_BANK_DEPOSIT_MONEY |-> PlainCmsg(12, <<8, 4>>, 8 + 4, 12)]

tbc_FromCmsgGuildBankWithdrawMoney ==
  [CMSG_GUILD_BANK_WITHDRAW_MONEY |-> PlainCmsg(12, <<8, 4>>, 8 + 4, 12),
   MSG_GUILD_BANK_LOG_QUERY_Client |-> PlainCmsg(1, <<1>>, 1, 1),
   MSG_GUILD_BANK_LOG_QUERY_Server |-> [w \in OfCount |->
     Smsg(
       Free({"money_logs"}),
       Minimum(6) \o Null({"money_logs"}) \o Ints(<<4, 1, 1>>)
       \o Array("money_logs", w.count, {}, tbc_MoneyLogItem.read),
       4 + 2 * 1 + w.count * tbc_MoneyLogItem.written, 6 + 17 * w.count)]]

tbc_FromCmsgSetChannelWatch ==
  [CMSG_SET_CHANNEL_WATCH |-> [w \in OfLength |->
     Cmsg(Free({"channel"}), Minimum(1) \o Null({"channel"}) \o Cstring("channel", w),
          WRITE_CSTRING(w), 1 + w.len)],
   SMSG_USERLIST_ADD |-> [w \in OfLength |->
     Smsg(
       Free({"name"}), Minimum(15) \o Null({"name"}) \o Ints(<<8, 1, 1, 4>>) \o Cstring("name", w),
       8 + 2 * 1 + 4 + WRITE_CSTRING(w), 15 + w.len)]]

tbc_FromSmsgUserlistRemove ==
  [SMSG_USERLIST_REMOVE |-> [w \in OfLength |->
     Smsg(Free({"name"}), Minimum(14) \o Null({"name"}) \o Ints(<<8, 1, 4>>) \o Cstring("name", w),
          8 + 1 + 4 + WRITE_CSTRING(w), 14 + w.len)],
   SMSG_USERLIST_UPDATE |-> tbc_FromCmsgSetChannelWatch.SMSG_USERLIST_ADD]

tbc_FromCmsgClearChannelWatch ==
  [CMSG_CLEAR_CHANNEL_WATCH |-> [w \in OfLength |->
     Cmsg(Free({"channel"}), Minimum(1) \o Null({"channel"}) \o Cstring("channel", w),
          WRITE_CSTRING(w), 1 + w.len)],
   SMSG_INSPECT_TALENT |-> [w \in OfLengthAndCount |->
     Smsg(
       Free({"talent_data"}),
       Counted(wwm_packed_guid_size(w), Minimum(1) \o Null({"talent_data"}) \o PackedGuid(w))
       \o Endless("talent_data", w.count, {}, Ints(<<1>>), 1),
       WRITE_PACKED_GUID(w) + w.count, wwm_packed_guid_size(w) + w.count)]]

tbc_FromCmsgSpellclick ==
  [CMSG_SPELLCLICK |-> PlainCmsg(8, <<8>>, 8, 8),
   SMSG_LOOT_LIST |-> [w \in OfLength |->
     Smsg({}, Minimum(10) \o Ints(<<8>>) \o PackedGuid(w) \o PackedGuid(w),
          8 + 2 * WRITE_PACKED_GUID(w), 8 + 2 * wwm_packed_guid_size(w))],
   MSG_GUILD_PERMISSIONS_Client |-> EmptyCmsg(0),
   MSG_GUILD_PERMISSIONS_Server |-> [w \in {Fixed} |->
     Smsg({}, Minimum(61) \o Ints(<<4, 4, 4, 1>>) \o Each("bank_tabs", 6, tbc_BankTab.read),
          3 * 4 + 1 + 6 * tbc_BankTab.written, 61)]]

tbc_FromMsgGuildBankMoneyWithdrawn ==
  [MSG_GUILD_BANK_MONEY_WITHDRAWN_Client |-> EmptyCmsg(0),
   MSG_GUILD_BANK_MONEY_WITHDRAWN_Server |-> PlainSmsg(4, <<4>>, 4, 4),
   MSG_GUILD_EVENT_LOG_QUERY_Client |-> EmptyCmsg(0),
   MSG_GUILD_EVENT_LOG_QUERY_Server |->
     [w \in Wires({0}, Counts, {{"GUILD_EVENT_JOINED", "GUILD_EVENT_PROMOTION", "GUILD_EVENT_MOTD"}},
                  {}) |->
       Smsg(
         Free({"events"}),
         Minimum(1) \o Null({"events"}) \o Ints(<<1>>)
         \o Array("events", w.count, {}, tbc_GuildLogEvent(w).read),
         1 + w.count * tbc_GuildLogEvent(w).written, 1 + w.count * tbc_GuildLogEvent(w).size)]]

tbc_FromCmsgGetMirrorimageData ==
  [CMSG_GET_MIRRORIMAGE_DATA |-> PlainCmsg(8, <<8>>, 8, 8),
   SMSG_MIRRORIMAGE_DATA |->
     PlainSmsg(67, <<8, 4>> \o Repeat(7, 1) \o Repeat(12, 4), 8 + 4 + 7 * 1 + 4 + 11 * 4, 67),
   CMSG_KEEP_ALIVE |-> EmptyCmsg(0)]

tbc_FromCmsgOptOutOfLoot ==
  [CMSG_OPT_OUT_OF_LOOT |-> PlainCmsg(4, <<4>>, 4, 4),
   MSG_QUERY_GUILD_BANK_TEXT_Client |-> PlainCmsg(1, <<1>>, 1, 1),
   MSG_QUERY_GUILD_BANK_TEXT_Server |-> tbc_FromSmsgKickReason.SMSG_KICK_REASON]

tbc_FromCmsgSetGuildBankText ==
  [CMSG_SET_GUILD_BANK_TEXT |-> [w \in OfLength |->
     Cmsg(Free({"text"}), Minimum(2) \o Null({"text"}) \o Ints(<<1>>) \o Cstring("text", w),
          1 + WRITE_CSTRING(w), 2 + w.len)],
   CMSG_GRANT_LEVEL |-> [w \in OfLength |->
     Cmsg({}, Minimum(1) \o PackedGuid(w), WRITE_PACKED_GUID(w), wwm_packed_guid_size(w))],
   SMSG_OVERRIDE_LIGHT |-> PlainSmsg(12, <<4, 4, 4>>, 3 * 4, 12)]

tbc_FromSmsgTotemCreated ==
  [SMSG_TOTEM_CREATED |-> PlainSmsg(17, <<1, 8, 4, 4>>, 1 + 8 + 2 * 4, 17),
   CMSG_TOTEM_DESTROYED |-> PlainCmsg(1, <<1>>, 1, 1),
   CMSG_QUESTGIVER_STATUS_MULTIPLE_QUERY |-> EmptyCmsg(0)]

tbc_FromSmsgQuestgiverStatusMultiple ==
  [SMSG_QUESTGIVER_STATUS_MULTIPLE |-> [w \in OfCount |->
     Smsg(
       Free({"statuses"}),
       Minimum(4) \o Null({"statuses"}) \o Ints(<<4>>)
       \o Array("statuses", w.count, {}, tbc_QuestGiverStatusReport.read),
       4 + w.count * tbc_QuestGiverStatusReport.written, 4 + 9 * w.count)],
   CMSG_SET_PLAYER_DECLINED_NAMES |-> [w \in OfLength |->
     Cmsg(
       Free({"name"}) \union FreeFixed("declined_names", 5, Free({"text"})),
       Minimum(14) \o Null({"name"}) \o Each("declined_names", 5, Null({"text"})) \o Ints(<<8>>)
       \o Cstring("name", w) \o Each("declined_names", 5, Cstring("text", w)),
       8 + WRITE_CSTRING(w) + 5 * WRITE_CSTRING(w), 9 + w.len + 5 * (1 + w.len))]]

tbc_FromSmsgSetPlayerDeclinedNamesResult ==
  [SMSG_SET_PLAYER_DECLINED_NAMES_RESULT |-> PlainSmsg(12, <<4, 8>>, 4 + 8, 12),
   SMSG_SEND_UNLEARN_SPELLS |-> [w \in OfCount |->
     Smsg(Free({"spells"}),
          Minimum(4) \o Null({"spells"}) \o Ints(<<4>>) \o Calloc("spells", w.count, {})
          \o Ints(Repeat(w.count, 4)), 4 + w.count * 4, 4 + 4 * w.count)],
   SMSG_PROPOSE_LEVEL_GRANT |-> [w \in OfLength |->
     Smsg({}, Minimum(1) \o PackedGuid(w), WRITE_PACKED_GUID(w), wwm_packed_guid_size(w))]]

tbc_FromCmsgAcceptLevelGrant ==
  [CMSG_ACCEPT_LEVEL_GRANT |-> [w \in OfLength |->
     Cmsg({}, Minimum(1) \o PackedGuid(w), WRITE_PACKED_GUID(w), wwm_packed_guid_size(w))],
   SMSG_REFER_A_FRIEND_FAILURE |->
     [w \in Wires(Lengths, {0}, {{"REFER_A_FRIEND_ERROR_NOT_IN_GROUP", "REFER_A_FRIEND_ERROR_NONE"}},
                  {}) |->
       Smsg(
         FreeIf("error", {"REFER_A_FRIEND_ERROR_NOT_IN_GROUP"}, Free({"target_name"})),
         Minimum(4) \o Null({"target_name"}) \o Field(4, "error", {}, w)
         \o When(Is(w, "REFER_A_FRIEND_ERROR_NOT_IN_GROUP"), Cstring("target_name", w)),
         4 + Bytes(Is(w, "REFER_A_FRIEND_ERROR_NOT_IN_GROUP"), WRITE_CSTRING(w)),
         4 + Bytes(Is(w, "REFER_A_FRIEND_ERROR_NOT_IN_GROUP"), 1 + w.len))],
   SMSG_SPLINE_MOVE_SET_FLYING |-> [w \in OfLength |->
     Smsg({}, Minimum(1) \o PackedGuid(w), WRITE_PACKED_GUID(w), wwm_packed_guid_size(w))]]

tbc_FromSmsgSplineMoveUnsetFlying ==
  [SMSG_SPLINE_MOVE_UNSET_FLYING |-> [w \in OfLength |->
     Smsg({}, Minimum(1) \o PackedGuid(w), WRITE_PACKED_GUID(w), wwm_packed_guid_size(w))]]

tbc_HighGroups ==
  <<tbc_FromSmsgClearCooldown, tbc_FromSmsgItemTimeUpdate, tbc_FromCmsgAuthSession,
    tbc_FromSmsgAuthResponse, tbc_FromMsgSaveGuildEmblem, tbc_FromSmsgPlaySpellVisual,
    tbc_FromSmsgCompressedUpdateObject, tbc_FromSmsgPlaySpellImpact, tbc_FromMsgRandomRoll,
    tbc_FromMsgLookingForGroup, tbc_FromCmsgUnlearnSkill, tbc_FromCmsgGmticketCreate,
    tbc_FromSmsgGmticketCreate, tbc_FromCmsgRequestAccountData, tbc_FromCmsgUpdateAccountData,
    tbc_FromSmsgUpdateAccountData, tbc_FromSmsgGmticketGetticket,
    tbc_FromSmsgGameobjectDespawnAnim, tbc_FromSmsgGmticketDeleteticket,
    tbc_FromSmsgSetRestStart, tbc_FromCmsgChatIgnored, tbc_FromCmsgGuildDelRank,
    tbc_FromSmsgLoginVerifyWorld, tbc_FromSmsgSendMailResult, tbc_FromSmsgMailListResult,
    tbc_FromSmsgBattlefieldList, tbc_FromSmsgItemTextQueryResponse, tbc_FromCmsgMailMarkAsRead,
    tbc_FromCmsgMailCreateTextItem, tbc_FromSmsgSpelllogexecute, tbc_FromSmsgPeriodicauralog,
    tbc_FromSmsgSpellnonmeleedamagelog, tbc_FromSmsgResurrectFailed, tbc_FromMsgAuctionHello,
    tbc_FromCmsgAuctionRemoveItem, tbc_FromCmsgAuctionListOwnerItems,
    tbc_FromSmsgAuctionCommandResult, tbc_FromSmsgAuctionListResult,
    tbc_FromSmsgAuctionBidderNotification, tbc_FromSmsgProcresist,
    tbc_FromSmsgSpellordamageImmune, tbc_FromSmsgAuctionBidderListResult, tbc_FromCmsgSetAmmo,
    tbc_FromCmsgCancelAutoRepeatSpell, tbc_FromCmsgStablePet, tbc_FromCmsgStableSwapPet,
    tbc_FromSmsgPlayObjectSound, tbc_FromSmsgSpelldispellog, tbc_FromCmsgRequestPartyMemberStats,
    tbc_FromCmsgAutobankItem, tbc_FromSmsgRaidGroupOnly, tbc_FromCmsgGroupAssistantLeader,
    tbc_FromSmsgMeetingstoneSetqueue, tbc_FromSmsgLootAllPassed, tbc_FromCmsgLootRoll,
    tbc_FromSmsgLootRoll, tbc_FromSmsgLootMasterList, tbc_FromCmsgRepairItem,
    tbc_FromMsgTalentWipeConfirm, tbc_FromSmsgMonsterMoveTransport, tbc_FromMsgMoveFeatherFall,
    tbc_FromSmsgDuelCountdown, tbc_FromSmsgDurabilityDamageDeath, tbc_FromSmsgInitWorldStates,
    tbc_FromSmsgItemNameQueryResponse, tbc_FromSmsgCharRename, tbc_FromSmsgInstanceSaveCreated,
    tbc_FromCmsgMoveFeatherFallAck, tbc_FromSmsgPlaySound, tbc_FromSmsgBattlefieldStatus,
    tbc_FromCmsgBattlefieldPort, tbc_FromCmsgBattlemasterHello,
    tbc_FromSmsgForceSwimBackSpeedChange, tbc_FromCmsgForceTurnRateChangeAck,
    tbc_FromCmsgAreaSpiritHealerQueue, tbc_FromCmsgWardenData,
    tbc_FromMsgBattlegroundPlayerPositions, tbc_FromSmsgBattlegroundPlayerJoined,
    tbc_FromCmsgPetUnlearn, tbc_FromSmsgPartyMemberStatsFull, tbc_FromCmsgPetSpellAutocast,
    tbc_FromCmsgGuildInfoText, tbc_FromSmsgSplineSetRunBackSpeed,
    tbc_FromSmsgSplineSetSwimBackSpeed, tbc_FromSmsgSplineMoveFeatherFall,
    tbc_FromSmsgSplineMoveWaterWalk, tbc_FromSmsgSplineMoveSetRunMode,
    tbc_FromCmsgSetFactionInactive, tbc_FromSmsgInvalidatePlayer, tbc_FromSmsgUpdateLastInstance,
    tbc_FromMsgRaidReadyCheck, tbc_FromSmsgPetActionSound, tbc_FromMsgSetDungeonDifficulty,
    tbc_FromSmsgChatPlayerAmbiguous, tbc_FromSmsgSpellUpdateChainTargets,
    tbc_FromSmsgDefenseMessage, tbc_FromSmsgMotd, tbc_FromSmsgMoveSetCanFly,
    tbc_FromCmsgMoveSetFly, tbc_FromSmsgArenaTeamQueryResponse, tbc_FromSmsgArenaTeamRoster,
    tbc_FromSmsgArenaTeamInvite, tbc_FromCmsgArenaTeamRemove, tbc_FromSmsgArenaTeamEvent,
    tbc_FromCmsgBattlemasterJoinArena, tbc_FromMsgMoveStopAscend, tbc_FromCmsgLfgSetAutojoin,
    tbc_FromCmsgSetLfgComment, tbc_FromSmsgLfgUpdateLfm, tbc_FromSmsgTitleEarned,
    tbc_FromMsgInspectArenaTeams, tbc_FromCmsgCancelTempEnchantment,
    tbc_FromMsgMoveSetFlightBackSpeed, tbc_FromSmsgForceFlightBackSpeedChange,
    tbc_FromSmsgSplineSetFlightBackSpeed, tbc_FromSmsgRealmSplit, tbc_FromMsgPartyAssignment,
    tbc_FromSmsgLfgDisabled, tbc_FromSmsgSetExtraAuraInfoNeedUpdate, tbc_FromMsgMoveStartDescend,
    tbc_FromMsgRaidReadyCheckConfirm, tbc_FromSmsgGmMessagechat, tbc_FromCmsgCommentatorEnable,
    tbc_FromSmsgKickReason, tbc_FromCmsgComplain, tbc_FromSmsgFeatureSystemStatus,
    tbc_FromCmsgGetChannelMemberCount, tbc_FromCmsgGuildBankerActivate,
    tbc_FromSmsgGuildBankList, tbc_FromCmsgGuildBankSwapItems, tbc_FromCmsgGuildBankBuyTab,
    tbc_FromCmsgGuildBankWithdrawMoney, tbc_FromCmsgSetChannelWatch, tbc_FromSmsgUserlistRemove,
    tbc_FromCmsgClearChannelWatch, tbc_FromCmsgSpellclick, tbc_FromMsgGuildBankMoneyWithdrawn,
    tbc_FromCmsgGetMirrorimageData, tbc_FromCmsgOptOutOfLoot, tbc_FromCmsgSetGuildBankText,
    tbc_FromSmsgTotemCreated, tbc_FromSmsgQuestgiverStatusMultiple,
    tbc_FromSmsgSetPlayerDeclinedNamesResult, tbc_FromCmsgAcceptLevelGrant,
    tbc_FromSmsgSplineMoveUnsetFlying>>

tbc_Messages == tbc_LowGroups \o tbc_HighGroups
=============================================================================
