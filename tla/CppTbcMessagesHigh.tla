------------------------ MODULE CppTbcMessagesHigh ------------------------
(*****************************************************************************)
(* The messages of the 2.4.3 version of the world protocol from              *)
(* CMSG_AUTH_SESSION to SMSG_SPLINE_MOVE_UNSET_FLYING, in the order of       *)
(* src/wow_world_messages_cpp/src/tbc.cpp.                                   *)
(*                                                                           *)
(* A message is a function from its wires to records of what its functions   *)
(* do on them. Neighbours are defined together, in a record named for the    *)
(* first. A message of which every function does what that of an earlier     *)
(* message does is defined as that message.                                  *)
(*****************************************************************************)
EXTENDS CppTbcMessagesLow

tbc_FromCmsgAuthSession ==
  [CMSG_AUTH_SESSION |-> [w \in OfLengthAndCount |->
     Cmsg(
       Counted(33 + w.len, Ints(<<4, 4>>) \o Cstring(w) \o Ints(<<4>> \o Repeat(20, 1)))
       \o ReturnAtEnd \o Counted(4, Ints(<<4>>)) \o TakeRest
       \o When(w.count > 0,
               InflateMember(w.count * tbc_AddonInfo(w).written)
               \o UntilEnd(w.count, tbc_AddonInfo(w).read)),
       2 * 4 + write_cstring(w) + 4 + 20 + 4
       + Bytes(w.count > 0, wwm_compress_data_size(w.count * tbc_AddonInfo(w).written)),
       33 + w.len + Bytes(w.count > 0, wwm_compress_data_size(w.count * tbc_AddonInfo(w).size)))]]

tbc_FromSmsgAuthResponse ==
  [SMSG_AUTH_RESPONSE |->
     [w \in Wires({0}, {0},
                  {{"WorldResult::AUTH_OK", "WorldResult::AUTH_WAIT_QUEUE",
                    "WorldResult::RESPONSE_SUCCESS"}}, {}) |->
       Smsg(
         Ints(<<1>>) \o When(Is(w, "WorldResult::AUTH_OK"), Ints(<<4, 1, 4, 1>>))
         \o When(Is(w, "WorldResult::AUTH_WAIT_QUEUE"), Ints(<<4>>)),
         1 + Bytes(Is(w, "WorldResult::AUTH_OK"), 4 + 1 + 4 + 1)
         + Bytes(Is(w, "WorldResult::AUTH_WAIT_QUEUE"), 4),
         1 + Bytes(Is(w, "WorldResult::AUTH_OK"), 10)
         + Bytes(Is(w, "WorldResult::AUTH_WAIT_QUEUE"), 4))],
   CMSG_PET_CAST_SPELL |-> [w \in Wires(Lengths, {0}, {}, tbc_SpellCastTargetsFlags) |->
     Cmsg(Ints(<<8, 4>>) \o tbc_SpellCastTargets(w).read,
          8 + 4 + tbc_SpellCastTargets(w).written, 12 + tbc_SpellCastTargets(w).size)],
   MSG_SAVE_GUILD_EMBLEM_Client |-> PlainCmsg(<<8>> \o Repeat(5, 4), 8 + 5 * 4, 28)]

tbc_FromMsgSaveGuildEmblem ==
  [MSG_SAVE_GUILD_EMBLEM_Server |-> PlainSmsg(<<4>>, 4, 4),
   MSG_TABARDVENDOR_ACTIVATE_cmsg |-> [w \in {Fixed} |-> Client(tbc_MSG_TABARDVENDOR_ACTIVATE)],
   MSG_TABARDVENDOR_ACTIVATE_smsg |-> [w \in {Fixed} |-> Server(tbc_MSG_TABARDVENDOR_ACTIVATE)],
   SMSG_PLAY_SPELL_VISUAL |-> PlainSmsg(<<8, 4>>, 8 + 4, 12),
   CMSG_ZONEUPDATE |-> PlainCmsg(<<4>>, 4, 4),
   SMSG_PARTYKILLLOG |-> PlainSmsg(<<8, 8>>, 2 * 8, 16)]

tbc_FromSmsgCompressedUpdateObject ==
  [SMSG_COMPRESSED_UPDATE_OBJECT |->
     [w \in Wires(Lengths, UpdatedObjects, tbc_ObjectEnums, tbc_ObjectFlags) |->
       CompressedSmsg(
         Ints(<<4>>) \o Take(4) \o Inflate(5 + w.count * tbc_Object(w).written) \o Ints(<<4, 1>>)
         \o Each(w.count, tbc_Object(w).read), 5 + w.count * tbc_Object(w).written)],
   SMSG_PLAY_SPELL_IMPACT |-> PlainSmsg(<<8, 4>>, 8 + 4, 12),
   SMSG_EXPLORATION_EXPERIENCE |-> PlainSmsg(<<4, 4>>, 2 * 4, 8)]

tbc_FromMsgRandomRoll ==
  [MSG_RANDOM_ROLL_Client |-> PlainCmsg(<<4, 4>>, 2 * 4, 8),
   MSG_RANDOM_ROLL_Server |-> PlainSmsg(<<4, 4, 4, 8>>, 3 * 4 + 8, 20),
   SMSG_ENVIRONMENTAL_DAMAGE_LOG |-> PlainSmsg(<<8, 1, 4, 4, 4>>, 8 + 1 + 3 * 4, 21),
   MSG_LOOKING_FOR_GROUP_Client |-> PlainCmsg(<<4, 4, 4>>, 3 * 4, 12)]

tbc_FromMsgLookingForGroup ==
  [MSG_LOOKING_FOR_GROUP_Server |-> [w \in OfLengthAndCount |->
     Smsg(Ints(<<4, 4, 4, 4>>) \o Each(w.count, tbc_LfgPlayer(w).read),
          4 * 4 + w.count * tbc_LfgPlayer(w).written, 16 + w.count * tbc_LfgPlayer(w).size)],
   CMSG_SET_LOOKING_FOR_GROUP |-> [w \in {Fixed} |->
     Cmsg(Ints(<<4>>) \o tbc_LfgData.read, 4 + tbc_LfgData.written, 8)],
   CMSG_UNLEARN_SKILL |-> PlainCmsg(<<4>>, 4, 4),
   SMSG_REMOVED_SPELL |-> PlainSmsg(<<2>>, 2, 2)]

tbc_FromCmsgGmticketCreate ==
  [CMSG_GMTICKET_CREATE |->
     [w \in Wires(Lengths, Counts, {{"GmTicketType::BEHAVIOR_HARASSMENT", "GmTicketType::NOT_SET"}},
                  {}) |->
       Cmsg(
         Counted(19 + 2 * w.len, Ints(<<1, 4>>) \o Vector3d.read \o Cstring(w) \o Cstring(w))
         \o When(Is(w, "GmTicketType::BEHAVIOR_HARASSMENT"),
                 Counted(4, Ints(<<4>>)) \o ReturnAtEnd \o Counted(4, Ints(<<4>>)) \o TakeRest
                 \o When(w.count > 0, InflateMember(w.count) \o UntilEnd(w.count, Ints(<<1>>)))),
         1 + 4 + Vector3d.written + 2 * write_cstring(w)
         + Bytes(Is(w, "GmTicketType::BEHAVIOR_HARASSMENT"),
                 2 * 4 + Bytes(w.count > 0, wwm_compress_data_size(w.count))),
         19 + 2 * w.len
         + Bytes(Is(w, "GmTicketType::BEHAVIOR_HARASSMENT"),
                 4 + Bytes(w.count > 0, wwm_compress_data_size(w.count))))],
   SMSG_GMTICKET_CREATE |-> PlainSmsg(<<4>>, 4, 4)]

tbc_FromCmsgGmticketUpdatetext ==
  [CMSG_GMTICKET_UPDATETEXT |-> [w \in OfLength |->
     Cmsg(Cstring(w), write_cstring(w), 1 + w.len)],
   SMSG_GMTICKET_UPDATETEXT |-> PlainSmsg(<<4>>, 4, 4),
   SMSG_ACCOUNT_DATA_TIMES |-> PlainSmsg(Repeat(32, 4), 32 * 4, 128),
   CMSG_REQUEST_ACCOUNT_DATA |-> PlainCmsg(<<4>>, 4, 4)]

tbc_FromCmsgUpdateAccountData ==
  [CMSG_UPDATE_ACCOUNT_DATA |-> [w \in OfCount |->
     Cmsg(
       Counted(4, Ints(<<4>>)) \o ReturnAtEnd \o Counted(4, Ints(<<4>>)) \o TakeRest
       \o When(w.count > 0, InflateMember(w.count) \o UntilEnd(w.count, Ints(<<1>>))),
       2 * 4 + Bytes(w.count > 0, wwm_compress_data_size(w.count)),
       4 + Bytes(w.count > 0, wwm_compress_data_size(w.count)))],
   SMSG_UPDATE_ACCOUNT_DATA |-> [w \in OfCount |->
     Smsg(Counted(8, Ints(<<4, 4>>)) \o Endless(w.count, Ints(<<1>>), 1),
          2 * 4 + w.count, 8 + w.count)],
   CMSG_GMTICKET_GETTICKET |-> EmptyCmsg(0)]

tbc_FromSmsgGmticketGetticket ==
  [SMSG_GMTICKET_GETTICKET |->
     [w \in Wires(Lengths, {0}, {{"GmTicketStatus::HAS_TEXT", "GmTicketStatus::DB_ERROR"}}, {}) |->
       Smsg(
         Ints(<<4>>)
         \o When(Is(w, "GmTicketStatus::HAS_TEXT"), Cstring(w) \o Ints(<<1, 4, 4, 4, 1, 1>>)),
         4 + Bytes(Is(w, "GmTicketStatus::HAS_TEXT"), write_cstring(w) + 1 + 3 * 4 + 2 * 1),
         4 + Bytes(Is(w, "GmTicketStatus::HAS_TEXT"), 16 + w.len))],
   CMSG_UNLEARN_TALENTS |-> EmptyCmsg(0),
   SMSG_GAMEOBJECT_SPAWN_ANIM |-> PlainSmsg(<<8>>, 8, 8),
   SMSG_GAMEOBJECT_DESPAWN_ANIM |-> PlainSmsg(<<8>>, 8, 8),
   MSG_CORPSE_QUERY_Client |-> EmptyCmsg(0)]

tbc_FromMsgCorpseQuery ==
  [MSG_CORPSE_QUERY_Server |->
     [w \in Wires({0}, {0}, {{"CorpseQueryResult::FOUND", "CorpseQueryResult::NOT_FOUND"}}, {}) |->
       Smsg(
         Ints(<<1>>)
         \o When(Is(w, "CorpseQueryResult::FOUND"), Ints(<<4>>) \o Vector3d.read \o Ints(<<4>>)),
         1 + Bytes(Is(w, "CorpseQueryResult::FOUND"), 4 + Vector3d.written + 4),
         1 + Bytes(Is(w, "CorpseQueryResult::FOUND"), 20))],
   CMSG_GMTICKET_DELETETICKET |-> EmptyCmsg(0),
   SMSG_GMTICKET_DELETETICKET |-> PlainSmsg(<<4>>, 4, 4),
   SMSG_CHAT_WRONG_FACTION |-> EmptySmsg(0),
   CMSG_GMTICKET_SYSTEMSTATUS |-> EmptyCmsg(0),
   SMSG_GMTICKET_SYSTEMSTATUS |-> PlainSmsg(<<4>>, 4, 4)]

tbc_FromCmsgSpiritHealerActivate ==
  [CMSG_SPIRIT_HEALER_ACTIVATE |-> PlainCmsg(<<8>>, 8, 8),
   SMSG_SET_REST_START |-> PlainSmsg(<<4>>, 4, 4),
   SMSG_SPIRIT_HEALER_CONFIRM |-> PlainSmsg(<<8>>, 8, 8),
   SMSG_GOSSIP_POI |-> [w \in OfLength |->
     Smsg(Ints(<<4>>) \o Vector2d.read \o Ints(<<4, 4>>) \o Cstring(w),
          4 + Vector2d.written + 2 * 4 + write_cstring(w), 21 + w.len)],
   CMSG_CHAT_IGNORED |-> PlainCmsg(<<8, 1>>, 8 + 1, 9)]

tbc_FromCmsgGuildRank ==
  [CMSG_GUILD_RANK |-> [w \in OfLength |->
     Cmsg(Ints(<<4, 4>>) \o Cstring(w) \o Ints(<<4>>) \o Each(6, tbc_GuildBankRights.read),
          2 * 4 + write_cstring(w) + 4 + 6 * tbc_GuildBankRights.written, 61 + w.len)],
   CMSG_GUILD_ADD_RANK |-> [w \in OfLength |->
     Cmsg(Cstring(w), write_cstring(w), 1 + w.len)],
   CMSG_GUILD_DEL_RANK |-> EmptyCmsg(0),
   CMSG_GUILD_SET_PUBLIC_NOTE |-> [w \in OfLength |->
     Cmsg(Cstring(w) \o Cstring(w), 2 * write_cstring(w), 2 + 2 * w.len)],
   CMSG_GUILD_SET_OFFICER_NOTE |-> [w \in OfLength |->
     Cmsg(Cstring(w) \o Cstring(w), 2 * write_cstring(w), 2 + 2 * w.len)]]

tbc_FromSmsgLoginVerifyWorld ==
  [SMSG_LOGIN_VERIFY_WORLD |-> [w \in {Fixed} |->
     Smsg(Ints(<<4>>) \o Vector3d.read \o Ints(<<4>>), 4 + Vector3d.written + 4, 20)],
   CMSG_SEND_MAIL |-> [w \in OfLengthAndCount |->
     Cmsg(
       Ints(<<8>>) \o Cstring(w) \o Cstring(w) \o Cstring(w) \o Ints(<<4, 4, 1>>)
       \o Each(U8(w.count), tbc_MailItem.read) \o Ints(<<4, 4, 4, 4>>),
       8 + 3 * write_cstring(w) + 2 * 4 + 1 + w.count * tbc_MailItem.written + 4 * 4,
       36 + 3 * w.len + 9 * w.count)]]

tbc_FromSmsgSendMailResult ==
  [SMSG_SEND_MAIL_RESULT |->
     [w \in Wires({0}, {0},
                  {{"MailAction::ITEM_TAKEN", "MailAction::SEND"},
                   {"MailResult::ERR_EQUIP_ERROR", "MailResult::OK"},
                   {"MailResultTwo::ERR_EQUIP_ERROR", "MailResultTwo::OK"}}, {}) |->
       Smsg(
         Ints(<<4, 4>>)
         \o When(Is(w, "MailAction::ITEM_TAKEN"),
                 Ints(<<4>>) \o When(Is(w, "MailResult::ERR_EQUIP_ERROR"), Ints(<<4>>))
                 \o When(Is(w, "MailResult::OK"), Ints(<<4, 4>>)))
         \o When(Is(w, "MailAction::SEND"),
                 Ints(<<4>>) \o When(Is(w, "MailResultTwo::ERR_EQUIP_ERROR"), Ints(<<4>>))),
         2 * 4
         + Bytes(Is(w, "MailAction::ITEM_TAKEN"),
                 4 + Bytes(Is(w, "MailResult::ERR_EQUIP_ERROR"), 4)
                 + Bytes(Is(w, "MailResult::OK"), 2 * 4))
         + Bytes(Is(w, "MailAction::SEND"), 4 + Bytes(Is(w, "MailResultTwo::ERR_EQUIP_ERROR"), 4)),
         8
         + Bytes(
             Is(w, "MailAction::ITEM_TAKEN"),
             4 + Bytes(Is(w, "MailResult::ERR_EQUIP_ERROR"), 4) + Bytes(Is(w, "MailResult::OK"), 8))
         + Bytes(Is(w, "MailAction::SEND"), 4 + Bytes(Is(w, "MailResultTwo::ERR_EQUIP_ERROR"), 4)))],
   CMSG_GET_MAIL_LIST |-> PlainCmsg(<<8>>, 8, 8)]

tbc_FromSmsgMailListResult ==
  [SMSG_MAIL_LIST_RESULT |-> [w \in Wires(Lengths, Counts, tbc_MailEnums, {}) |->
     Smsg(Ints(<<1>>) \o Each(U8(w.count), tbc_Mail(w).read),
          1 + w.count * tbc_Mail(w).written, 1 + w.count * tbc_Mail(w).size)],
   CMSG_BATTLEFIELD_LIST |-> PlainCmsg(<<4>>, 4, 4),
   SMSG_BATTLEFIELD_LIST |-> [w \in OfCount |->
     Smsg(Ints(<<8, 4, 4>> \o Repeat(w.count, 4)), 8 + 2 * 4 + w.count * 4, 16 + 4 * w.count)],
   CMSG_ITEM_TEXT_QUERY |-> PlainCmsg(<<4, 4, 4>>, 3 * 4, 12)]

tbc_FromSmsgItemTextQueryResponse ==
  [SMSG_ITEM_TEXT_QUERY_RESPONSE |-> [w \in OfLength |->
     Smsg(Ints(<<4>>) \o Cstring(w), 4 + write_cstring(w), 5 + w.len)],
   CMSG_MAIL_TAKE_MONEY |-> PlainCmsg(<<8, 4>>, 8 + 4, 12),
   CMSG_MAIL_TAKE_ITEM |-> PlainCmsg(<<8, 4, 4>>, 8 + 2 * 4, 16),
   CMSG_MAIL_MARK_AS_READ |-> PlainCmsg(<<8, 4>>, 8 + 4, 12),
   CMSG_MAIL_RETURN_TO_SENDER |-> PlainCmsg(<<8, 4>>, 8 + 4, 12)]

tbc_FromCmsgMailDelete ==
  [CMSG_MAIL_DELETE |-> PlainCmsg(<<8, 4, 4>>, 8 + 2 * 4, 16),
   CMSG_MAIL_CREATE_TEXT_ITEM |-> PlainCmsg(<<8, 4, 4>>, 8 + 2 * 4, 16),
   SMSG_SPELLLOGMISS |-> [w \in OfCount |->
     Smsg(Ints(<<4, 8, 1, 4>>) \o Each(w.count, tbc_SpellLogMiss.read),
          4 + 8 + 1 + 4 + w.count * tbc_SpellLogMiss.written, 17 + 9 * w.count)]]

tbc_FromSmsgSpelllogexecute ==
  [SMSG_SPELLLOGEXECUTE |-> [w \in Wires(Lengths, Counts, tbc_SpellLogEnums, {}) |->
     Smsg(PackedGuid(w) \o Ints(<<4, 4>>) \o Each(w.count, tbc_SpellLog(w).read),
          write_packed_guid(w) + 2 * 4 + w.count * tbc_SpellLog(w).written,
          8 + wwm_packed_guid_size(w) + w.count * tbc_SpellLog(w).size)],
   SMSG_PERIODICAURALOG |-> [w \in Wires(Lengths, Counts, tbc_AuraLogEnums, {}) |->
     Smsg(PackedGuid(w) \o PackedGuid(w) \o Ints(<<4, 4>>) \o Each(w.count, tbc_AuraLog(w).read),
          2 * write_packed_guid(w) + 2 * 4 + w.count * tbc_AuraLog(w).written,
          8 + 2 * wwm_packed_guid_size(w) + w.count * tbc_AuraLog(w).size)],
   SMSG_SPELLDAMAGESHIELD |-> PlainSmsg(<<8, 8, 4, 4, 4>>, 2 * 8 + 3 * 4, 28)]

tbc_FromSmsgSpellnonmeleedamagelog ==
  [SMSG_SPELLNONMELEEDAMAGELOG |-> [w \in OfLength |->
     Smsg(PackedGuid(w) \o PackedGuid(w) \o Ints(<<4, 4, 1, 4, 4, 1, 1, 4, 4, 1>>),
          2 * write_packed_guid(w) + 2 * 4 + 1 + 2 * 4 + 2 * 1 + 2 * 4 + 1,
          28 + 2 * wwm_packed_guid_size(w))],
   CMSG_LEARN_TALENT |-> PlainCmsg(<<4, 4>>, 2 * 4, 8),
   SMSG_RESURRECT_FAILED |-> PlainSmsg(<<4>>, 4, 4)]

tbc_FromCmsgTogglePvp ==
  [CMSG_TOGGLE_PVP |-> [w \in Wires({0}, {0}, {}, {"set"}) |->
     Cmsg(Optional(Ints(<<1>>)), Bytes(Is(w, "set"), 1), Bytes(Is(w, "set"), 1))],
   SMSG_ZONE_UNDER_ATTACK |-> PlainSmsg(<<4>>, 4, 4),
   MSG_AUCTION_HELLO_Client |-> PlainCmsg(<<8>>, 8, 8),
   MSG_AUCTION_HELLO_Server |-> PlainSmsg(<<8, 4>>, 8 + 4, 12)]

tbc_FromCmsgAuctionSellItem ==
  [CMSG_AUCTION_SELL_ITEM |-> PlainCmsg(<<8, 8, 4, 4, 4>>, 2 * 8 + 3 * 4, 28),
   CMSG_AUCTION_REMOVE_ITEM |-> PlainCmsg(<<8, 4>>, 8 + 4, 12),
   CMSG_AUCTION_LIST_ITEMS |-> [w \in OfLengthAndCount |->
     Cmsg(
       Ints(<<8, 4>>) \o Cstring(w) \o Ints(<<1, 1, 4, 4, 4, 4, 1, 1, 1>>)
       \o Each(U8(w.count), tbc_AuctionSort.read),
       8 + 4 + write_cstring(w) + 2 * 1 + 4 * 4 + 3 * 1 + w.count * tbc_AuctionSort.written,
       34 + w.len + 2 * w.count)]]

tbc_FromCmsgAuctionListOwnerItems ==
  [CMSG_AUCTION_LIST_OWNER_ITEMS |-> PlainCmsg(<<8, 4>>, 8 + 4, 12),
   CMSG_AUCTION_PLACE_BID |-> PlainCmsg(<<8, 4, 4>>, 8 + 2 * 4, 16)]

tbc_FromSmsgAuctionCommandResult ==
  [SMSG_AUCTION_COMMAND_RESULT |->
     [w \in Wires(
              {0}, {0},
              {{"AuctionCommandAction::BID_PLACED", "AuctionCommandAction::STARTED"},
               {"AuctionCommandResult::OK", "AuctionCommandResult::ERR_INVENTORY",
                "AuctionCommandResult::ERR_HIGHER_BID", "AuctionCommandResult::ERR_DATABASE"},
               {"AuctionCommandResultTwo::ERR_INVENTORY", "AuctionCommandResultTwo::ERR_HIGHER_BID",
                "AuctionCommandResultTwo::OK"}}, {}) |->
       Smsg(
         Ints(<<4, 4>>)
         \o When(Is(w, "AuctionCommandAction::BID_PLACED"),
                 Ints(<<4>>) \o When(Is(w, "AuctionCommandResult::OK"), Ints(<<4>>))
                 \o When(Is(w, "AuctionCommandResult::ERR_INVENTORY"), Ints(<<1>>))
                 \o When(Is(w, "AuctionCommandResult::ERR_HIGHER_BID"), Ints(<<8, 4, 4>>)))
         \o When(Is(w, "AuctionCommandAction::STARTED"),
                 Ints(<<4>>) \o When(Is(w, "AuctionCommandResultTwo::ERR_INVENTORY"), Ints(<<1>>))
                 \o When(Is(w, "AuctionCommandResultTwo::ERR_HIGHER_BID"), Ints(<<8, 4, 4>>))),
         2 * 4
         + Bytes(
             Is(w, "AuctionCommandAction::BID_PLACED"),
             4 + Bytes(Is(w, "AuctionCommandResult::OK"), 4)
             + Bytes(Is(w, "AuctionCommandResult::ERR_INVENTORY"), 1)
             + Bytes(Is(w, "AuctionCommandResult::ERR_HIGHER_BID"), 8 + 2 * 4))
         + Bytes(Is(w, "AuctionCommandAction::STARTED"),
                 4 + Bytes(Is(w, "AuctionCommandResultTwo::ERR_INVENTORY"), 1)
                 + Bytes(Is(w, "AuctionCommandResultTwo::ERR_HIGHER_BID"), 8 + 2 * 4)),
         8
         + Bytes(
             Is(w, "AuctionCommandAction::BID_PLACED"),
             4 + Bytes(Is(w, "AuctionCommandResult::OK"), 4)
             + Bytes(Is(w, "AuctionCommandResult::ERR_INVENTORY"), 1)
             + Bytes(Is(w, "AuctionCommandResult::ERR_HIGHER_BID"), 16))
         + Bytes(Is(w, "AuctionCommandAction::STARTED"),
                 4 + Bytes(Is(w, "AuctionCommandResultTwo::ERR_INVENTORY"), 1)
                 + Bytes(Is(w, "AuctionCommandResultTwo::ERR_HIGHER_BID"), 16)))]]

tbc_FromSmsgAuctionListResult ==
  [SMSG_AUCTION_LIST_RESULT |-> [w \in OfCount |->
     Smsg(Ints(<<4>>) \o Each(w.count, tbc_AuctionListItem.read) \o Ints(<<4, 4>>),
          4 + w.count * tbc_AuctionListItem.written + 2 * 4, 12 + 136 * w.count)],
   SMSG_AUCTION_OWNER_LIST_RESULT |-> [w \in OfCount |->
     Smsg(Ints(<<4>>) \o Each(w.count, tbc_AuctionListItem.read) \o Ints(<<4, 4>>),
          4 + w.count * tbc_AuctionListItem.written + 2 * 4, 12 + 136 * w.count)],
   SMSG_AUCTION_BIDDER_NOTIFICATION |-> PlainSmsg(<<4, 4, 8, 4, 4, 4, 4>>, 2 * 4 + 8 + 4 * 4, 32)]

tbc_FromSmsgAuctionOwnerNotification ==
  [SMSG_AUCTION_OWNER_NOTIFICATION |-> PlainSmsg(<<4, 4, 4, 8, 4, 4>>, 3 * 4 + 8 + 2 * 4, 28),
   SMSG_PROCRESIST |-> PlainSmsg(<<8, 8, 4, 1>>, 2 * 8 + 4 + 1, 21),
   SMSG_DISPEL_FAILED |-> [w \in OfCount |->
     Smsg(Counted(16, Ints(<<8, 8>>)) \o Endless(w.count, Ints(<<4>>), 4),
          2 * 8 + w.count * 4, 16 + 4 * w.count)]]

tbc_FromSmsgSpellordamageImmune ==
  [SMSG_SPELLORDAMAGE_IMMUNE |-> PlainSmsg(<<8, 8, 4, 1>>, 2 * 8 + 4 + 1, 21),
   CMSG_AUCTION_LIST_BIDDER_ITEMS |-> [w \in OfCount |->
     Cmsg(Ints(<<8, 4, 4>> \o Repeat(w.count, 4)), 8 + 2 * 4 + w.count * 4, 16 + 4 * w.count)],
   SMSG_AUCTION_BIDDER_LIST_RESULT |-> tbc_FromSmsgAuctionListResult.SMSG_AUCTION_LIST_RESULT]

tbc_FromSmsgSetFlatSpellModifier ==
  [SMSG_SET_FLAT_SPELL_MODIFIER |-> PlainSmsg(<<1, 1, 4>>, 2 * 1 + 4, 6),
   SMSG_SET_PCT_SPELL_MODIFIER |-> PlainSmsg(<<1, 1, 4>>, 2 * 1 + 4, 6),
   CMSG_SET_AMMO |-> PlainCmsg(<<4>>, 4, 4),
   SMSG_CORPSE_RECLAIM_DELAY |-> PlainSmsg(<<4>>, 4, 4),
   CMSG_SET_ACTIVE_MOVER |-> PlainCmsg(<<8>>, 8, 8)]

tbc_FromCmsgPetCancelAura ==
  [CMSG_PET_CANCEL_AURA |-> PlainCmsg(<<8, 4>>, 8 + 4, 12),
   CMSG_CANCEL_AUTO_REPEAT_SPELL |-> EmptyCmsg(0),
   MSG_LIST_STABLED_PETS_Client |-> PlainCmsg(<<8>>, 8, 8),
   MSG_LIST_STABLED_PETS_Server |-> [w \in OfLengthAndCount |->
     Smsg(Ints(<<8, 1, 1>>) \o Each(U8(w.count), tbc_StabledPet(w).read),
          8 + 2 * 1 + w.count * tbc_StabledPet(w).written, 10 + w.count * tbc_StabledPet(w).size)],
   CMSG_STABLE_PET |-> PlainCmsg(<<8>>, 8, 8)]

tbc_FromCmsgUnstablePet ==
  [CMSG_UNSTABLE_PET |-> PlainCmsg(<<8, 4>>, 8 + 4, 12),
   CMSG_BUY_STABLE_SLOT |-> PlainCmsg(<<8>>, 8, 8),
   SMSG_STABLE_RESULT |-> PlainSmsg(<<1>>, 1, 1),
   CMSG_STABLE_SWAP_PET |-> PlainCmsg(<<8, 4>>, 8 + 4, 12),
   MSG_QUEST_PUSH_RESULT_cmsg |-> [w \in {Fixed} |-> Client(tbc_MSG_QUEST_PUSH_RESULT)],
   MSG_QUEST_PUSH_RESULT_smsg |-> [w \in {Fixed} |-> Server(tbc_MSG_QUEST_PUSH_RESULT)]]

tbc_FromSmsgPlayMusic ==
  [SMSG_PLAY_MUSIC |-> PlainSmsg(<<4>>, 4, 4),
   SMSG_PLAY_OBJECT_SOUND |-> PlainSmsg(<<4, 8>>, 4 + 8, 12),
   CMSG_REQUEST_PET_INFO |-> EmptyCmsg(0),
   CMSG_FAR_SIGHT |-> PlainCmsg(<<1>>, 1, 1),
   SMSG_SPELLDISPELLOG |-> [w \in OfLengthAndCount |->
     Smsg(
       PackedGuid(w) \o PackedGuid(w) \o Ints(<<4, 1, 4>>)
       \o Each(w.count, tbc_DispelledSpell.read),
       2 * write_packed_guid(w) + 4 + 1 + 4 + w.count * tbc_DispelledSpell.written,
       9 + 2 * wwm_packed_guid_size(w) + 5 * w.count)]]

tbc_FromCmsgGroupChangeSubGroup ==
  [CMSG_GROUP_CHANGE_SUB_GROUP |-> [w \in OfLength |->
     Cmsg(Cstring(w) \o Ints(<<1>>), write_cstring(w) + 1, 2 + w.len)],
   CMSG_REQUEST_PARTY_MEMBER_STATS |-> PlainCmsg(<<8>>, 8, 8),
   CMSG_GROUP_SWAP_SUB_GROUP |-> [w \in OfLength |->
     Cmsg(Cstring(w) \o Cstring(w), 2 * write_cstring(w), 2 + 2 * w.len)],
   CMSG_AUTOSTORE_BANK_ITEM |-> PlainCmsg(<<1, 1>>, 2 * 1, 2),
   CMSG_AUTOBANK_ITEM |-> PlainCmsg(<<1, 1>>, 2 * 1, 2),
   MSG_QUERY_NEXT_MAIL_TIME_Client |-> EmptyCmsg(0)]

tbc_FromMsgQueryNextMailTime ==
  [MSG_QUERY_NEXT_MAIL_TIME_Server |-> [w \in OfCount |->
     Smsg(Ints(<<4, 4>>) \o Each(w.count, tbc_ReceivedMail.read),
          2 * 4 + w.count * tbc_ReceivedMail.written, 8 + 24 * w.count)],
   SMSG_RECEIVED_MAIL |-> PlainSmsg(<<4>>, 4, 4),
   SMSG_RAID_GROUP_ONLY |-> PlainSmsg(<<4, 4>>, 2 * 4, 8),
   SMSG_PVP_CREDIT |-> PlainSmsg(<<4, 8, 4>>, 4 + 8 + 4, 16),
   SMSG_AUCTION_REMOVED_NOTIFICATION |-> PlainSmsg(<<4, 4, 4>>, 3 * 4, 12)]

tbc_FromCmsgGroupRaidConvert ==
  [CMSG_GROUP_RAID_CONVERT |-> EmptyCmsg(0),
   CMSG_GROUP_ASSISTANT_LEADER |-> PlainCmsg(<<8, 1>>, 8 + 1, 9),
   CMSG_BUYBACK_ITEM |-> PlainCmsg(<<8, 4>>, 8 + 4, 12),
   SMSG_SERVER_MESSAGE |-> [w \in OfLength |->
     Smsg(Ints(<<4>>) \o Cstring(w), 4 + write_cstring(w), 5 + w.len)],
   SMSG_MEETINGSTONE_SETQUEUE |-> PlainSmsg(<<4, 1>>, 4 + 1, 5),
   CMSG_MEETINGSTONE_INFO |-> EmptyCmsg(0),
   CMSG_GMTICKETSYSTEM_TOGGLE |-> EmptyCmsg(0)]

tbc_FromCmsgCancelGrowthAura ==
  [CMSG_CANCEL_GROWTH_AURA |-> EmptyCmsg(0),
   SMSG_CANCEL_AUTO_REPEAT |-> EmptySmsg(0),
   SMSG_STANDSTATE_UPDATE |-> PlainSmsg(<<1>>, 1, 1),
   SMSG_LOOT_ALL_PASSED |-> PlainSmsg(<<8, 4, 4, 4, 4>>, 8 + 4 * 4, 24),
   SMSG_LOOT_ROLL_WON |-> PlainSmsg(<<8, 4, 4, 4, 4, 8, 1, 1>>, 8 + 4 * 4 + 8 + 2 * 1, 34)]

tbc_FromCmsgLootRoll ==
  [CMSG_LOOT_ROLL |-> PlainCmsg(<<8, 4, 1>>, 8 + 4 + 1, 13),
   SMSG_LOOT_START_ROLL |-> PlainSmsg(<<8>> \o Repeat(5, 4), 8 + 5 * 4, 28),
   SMSG_LOOT_ROLL |-> PlainSmsg(<<8, 4, 8, 4, 4, 4, 1, 1, 1>>, 8 + 4 + 8 + 3 * 4 + 3 * 1, 35)]

tbc_FromCmsgLootMasterGive ==
  [CMSG_LOOT_MASTER_GIVE |-> PlainCmsg(<<8, 1, 8>>, 8 + 1 + 8, 17),
   SMSG_LOOT_MASTER_LIST |-> [w \in OfCount |->
     Smsg(Ints(<<1>> \o Repeat(U8(w.count), 8)), 1 + w.count * 8, 1 + 8 * w.count)],
   SMSG_SET_FORCED_REACTIONS |-> [w \in OfCount |->
     Smsg(Ints(<<4>>) \o Each(w.count, tbc_ForcedReaction.read),
          4 + w.count * tbc_ForcedReaction.written, 4 + 6 * w.count)],
   SMSG_SPELL_FAILED_OTHER |-> PlainSmsg(<<8, 4>>, 8 + 4, 12)]

tbc_FromCmsgRepairItem ==
  [CMSG_REPAIR_ITEM |-> PlainCmsg(<<8, 8, 1>>, 2 * 8 + 1, 17),
   SMSG_CHAT_PLAYER_NOT_FOUND |-> [w \in OfLength |->
     Smsg(Cstring(w), write_cstring(w), 1 + w.len)],
   MSG_TALENT_WIPE_CONFIRM_Client |-> PlainCmsg(<<8>>, 8, 8),
   MSG_TALENT_WIPE_CONFIRM_Server |-> PlainSmsg(<<8, 4>>, 8 + 4, 12),
   SMSG_SUMMON_REQUEST |-> PlainSmsg(<<8, 4, 4>>, 8 + 2 * 4, 16)]

tbc_FromCmsgSummonResponse ==
  [CMSG_SUMMON_RESPONSE |-> PlainCmsg(<<8, 1>>, 8 + 1, 9),
   SMSG_MONSTER_MOVE_TRANSPORT |->
     [w \in Wires(Lengths, Counts,
                  {{"MonsterMoveType::FACING_TARGET", "MonsterMoveType::FACING_ANGLE",
                    "MonsterMoveType::FACING_SPOT", "MonsterMoveType::NORMAL"}}, {}) |->
       Smsg(
         PackedGuid(w) \o PackedGuid(w) \o Vector3d.read \o Ints(<<4, 1>>)
         \o When(Is(w, "MonsterMoveType::FACING_TARGET"), Ints(<<8>>))
         \o When(Is(w, "MonsterMoveType::FACING_ANGLE"), Ints(<<4>>))
         \o When(Is(w, "MonsterMoveType::FACING_SPOT"), Vector3d.read) \o Ints(<<4, 4>>)
         \o MonsterMoveSpline(w),
         2 * write_packed_guid(w) + Vector3d.written + 4 + 1
         + Bytes(Is(w, "MonsterMoveType::FACING_TARGET"), 8)
         + Bytes(Is(w, "MonsterMoveType::FACING_ANGLE"), 4)
         + Bytes(Is(w, "MonsterMoveType::FACING_SPOT"), Vector3d.written) + 2 * 4
         + wwm_write_monster_move_spline(w),
         25 + 2 * wwm_packed_guid_size(w) + wwm_monster_move_spline_size(w)
         + Bytes(Is(w, "MonsterMoveType::FACING_TARGET"), 8)
         + Bytes(Is(w, "MonsterMoveType::FACING_ANGLE"), 4)
         + Bytes(Is(w, "MonsterMoveType::FACING_SPOT"), 12))],
   SMSG_PET_BROKEN |-> EmptySmsg(0)]

tbc_FromMsgMoveFeatherFall ==
  [MSG_MOVE_FEATHER_FALL_Server |->
     tbc_FromSmsgGameobjectCustomAnim.MSG_MOVE_START_FORWARD_Server,
   MSG_MOVE_WATER_WALK_cmsg |-> [w \in Wires(Lengths, {0}, {}, tbc_MovementInfoFlags) |->
     Client(tbc_MSG_MOVE_WATER_WALK(w))],
   MSG_MOVE_WATER_WALK_smsg |-> [w \in Wires(Lengths, {0}, {}, tbc_MovementInfoFlags) |->
     Server(tbc_MSG_MOVE_WATER_WALK(w))],
   CMSG_SELF_RES |-> EmptyCmsg(0),
   SMSG_FEIGN_DEATH_RESISTED |-> EmptySmsg(0),
   SMSG_DUEL_COUNTDOWN |-> PlainSmsg(<<4>>, 4, 4)]

tbc_FromSmsgAreaTriggerMessage ==
  [SMSG_AREA_TRIGGER_MESSAGE |-> [w \in OfLength |->
     Smsg(SizedCstring(w), write_sized_cstring(w), 5 + w.len)],
   CMSG_TOGGLE_HELM |-> EmptyCmsg(0),
   CMSG_TOGGLE_CLOAK |-> EmptyCmsg(0),
   SMSG_PLAYER_SKINNED |-> PlainSmsg(<<1>>, 1, 1),
   SMSG_DURABILITY_DAMAGE_DEATH |-> EmptySmsg(0),
   CMSG_SET_ACTIONBAR_TOGGLES |-> PlainCmsg(<<1>>, 1, 1),
   MSG_PETITION_RENAME_cmsg |-> [w \in OfLength |->
     Client(tbc_MSG_PETITION_RENAME(w))]]

tbc_FromMsgPetitionRename ==
  [MSG_PETITION_RENAME_smsg |-> [w \in OfLength |->
     Server(tbc_MSG_PETITION_RENAME(w))],
   SMSG_INIT_WORLD_STATES |-> [w \in OfCount |->
     Smsg(Ints(<<4, 4, 2>>) \o Each(U16(w.count), tbc_WorldState.read),
          2 * 4 + 2 + w.count * tbc_WorldState.written, 10 + 8 * w.count)],
   SMSG_UPDATE_WORLD_STATE |-> [w \in {Fixed} |->
     Smsg(tbc_WorldState.read, tbc_WorldState.written, 8)],
   CMSG_ITEM_NAME_QUERY |-> PlainCmsg(<<4, 8>>, 4 + 8, 12),
   SMSG_ITEM_NAME_QUERY_RESPONSE |-> [w \in OfLength |->
     Smsg(Ints(<<4>>) \o Cstring(w) \o Ints(<<1>>), 4 + write_cstring(w) + 1, 6 + w.len)]]

tbc_FromSmsgPetActionFeedback ==
  [SMSG_PET_ACTION_FEEDBACK |-> PlainSmsg(<<1>>, 1, 1),
   CMSG_CHAR_RENAME |-> [w \in OfLength |->
     Cmsg(Ints(<<8>>) \o Cstring(w), 8 + write_cstring(w), 9 + w.len)],
   SMSG_CHAR_RENAME |->
     [w \in Wires(Lengths, {0}, {{"WorldResult::RESPONSE_SUCCESS", "WorldResult::RESPONSE_FAILURE"}},
                  {}) |->
       Smsg(Ints(<<1>>) \o When(Is(w, "WorldResult::RESPONSE_SUCCESS"), Ints(<<8>>) \o Cstring(w)),
            1 + Bytes(Is(w, "WorldResult::RESPONSE_SUCCESS"), 8 + write_cstring(w)),
            1 + Bytes(Is(w, "WorldResult::RESPONSE_SUCCESS"), 9 + w.len))],
   CMSG_MOVE_SPLINE_DONE |-> [w \in Wires(Lengths, {0}, {}, tbc_MovementInfoFlags) |->
     Cmsg(tbc_MovementInfo(w).read \o Ints(<<4>>),
          tbc_MovementInfo(w).written + 4, 4 + tbc_MovementInfo(w).size)]]

tbc_FromCmsgMoveFallReset ==
  [CMSG_MOVE_FALL_RESET |-> tbc_FromSmsgGameobjectCustomAnim.MSG_MOVE_START_FORWARD_Client,
   SMSG_INSTANCE_SAVE_CREATED |-> PlainSmsg(<<4>>, 4, 4),
   SMSG_RAID_INSTANCE_INFO |-> [w \in OfCount |->
     Smsg(Ints(<<4>>) \o Each(w.count, tbc_RaidInfo.read),
          4 + w.count * tbc_RaidInfo.written, 4 + 16 * w.count)],
   CMSG_REQUEST_RAID_INFO |-> EmptyCmsg(0),
   CMSG_MOVE_TIME_SKIPPED |-> PlainCmsg(<<8, 4>>, 8 + 4, 12)]

tbc_FromCmsgMoveFeatherFallAck ==
  [CMSG_MOVE_FEATHER_FALL_ACK |->
     tbc_FromCmsgForceRunSpeedChangeAck.CMSG_FORCE_RUN_SPEED_CHANGE_ACK,
   CMSG_MOVE_WATER_WALK_ACK |->
     tbc_FromCmsgForceRunSpeedChangeAck.CMSG_FORCE_RUN_SPEED_CHANGE_ACK,
   CMSG_MOVE_NOT_ACTIVE_MOVER |-> [w \in Wires(Lengths, {0}, {}, tbc_MovementInfoFlags) |->
     Cmsg(Ints(<<8>>) \o tbc_MovementInfo(w).read,
          8 + tbc_MovementInfo(w).written, 8 + tbc_MovementInfo(w).size)],
   SMSG_PLAY_SOUND |-> PlainSmsg(<<4>>, 4, 4),
   CMSG_BATTLEFIELD_STATUS |-> EmptyCmsg(0)]

tbc_FromSmsgBattlefieldStatus ==
  [SMSG_BATTLEFIELD_STATUS |->
     [w \in Wires({0}, {0},
                  {{"StatusId::WAIT_QUEUE", "StatusId::WAIT_JOIN", "StatusId::IN_PROGRESS",
                    "StatusId::NONE"}}, {}) |->
       Smsg(
         Ints(<<4, 1, 1, 4, 2, 4, 1, 1>>) \o When(Is(w, "StatusId::WAIT_QUEUE"), Ints(<<4, 4>>))
         \o When(Is(w, "StatusId::WAIT_JOIN"), Ints(<<4>>))
         \o When(Is(w, "StatusId::IN_PROGRESS"), Ints(<<4, 4>>)),
         4 + 2 * 1 + 4 + 2 + 4 + 2 * 1 + Bytes(Is(w, "StatusId::WAIT_QUEUE"), 2 * 4)
         + Bytes(Is(w, "StatusId::WAIT_JOIN"), 4) + Bytes(Is(w, "StatusId::IN_PROGRESS"), 2 * 4),
         18 + Bytes(Is(w, "StatusId::WAIT_QUEUE"), 8) + Bytes(Is(w, "StatusId::WAIT_JOIN"), 4)
         + Bytes(Is(w, "StatusId::IN_PROGRESS"), 8))],
   CMSG_BATTLEFIELD_PORT |-> PlainCmsg(<<1, 1, 4, 2, 1>>, 2 * 1 + 4 + 2 + 1, 9)]

tbc_FromMsgInspectHonorStats ==
  [MSG_INSPECT_HONOR_STATS_Client |-> PlainCmsg(<<8>>, 8, 8),
   MSG_INSPECT_HONOR_STATS_Server |-> PlainSmsg(<<8, 1, 4, 4, 4, 4>>, 8 + 1 + 4 * 4, 25),
   CMSG_BATTLEMASTER_HELLO |-> PlainCmsg(<<8>>, 8, 8),
   SMSG_FORCE_WALK_SPEED_CHANGE |-> [w \in OfLength |->
     Smsg(
       PackedGuid(w) \o Ints(<<4, 4>>), write_packed_guid(w) + 2 * 4, 8 + wwm_packed_guid_size(w))]]

tbc_FromCmsgForceWalkSpeedChangeAck ==
  [CMSG_FORCE_WALK_SPEED_CHANGE_ACK |->
     tbc_FromCmsgForceRunSpeedChangeAck.CMSG_FORCE_RUN_SPEED_CHANGE_ACK,
   SMSG_FORCE_SWIM_BACK_SPEED_CHANGE |-> [w \in OfLength |->
     Smsg(
       PackedGuid(w) \o Ints(<<4, 4>>), write_packed_guid(w) + 2 * 4, 8 + wwm_packed_guid_size(w))],
   CMSG_FORCE_SWIM_BACK_SPEED_CHANGE_ACK |->
     tbc_FromCmsgForceRunSpeedChangeAck.CMSG_FORCE_RUN_SPEED_CHANGE_ACK,
   SMSG_FORCE_TURN_RATE_CHANGE |-> [w \in OfLength |->
     Smsg(
       PackedGuid(w) \o Ints(<<4, 4>>), write_packed_guid(w) + 2 * 4, 8 + wwm_packed_guid_size(w))]]

tbc_FromCmsgForceTurnRateChangeAck ==
  [CMSG_FORCE_TURN_RATE_CHANGE_ACK |->
     tbc_FromCmsgForceRunSpeedChangeAck.CMSG_FORCE_RUN_SPEED_CHANGE_ACK,
   MSG_PVP_LOG_DATA_Client |-> EmptyCmsg(0),
   CMSG_LEAVE_BATTLEFIELD |-> PlainCmsg(<<1, 1, 4, 2>>, 2 * 1 + 4 + 2, 8),
   CMSG_AREA_SPIRIT_HEALER_QUERY |-> PlainCmsg(<<8>>, 8, 8),
   CMSG_AREA_SPIRIT_HEALER_QUEUE |-> PlainCmsg(<<8>>, 8, 8)]

tbc_FromSmsgAreaSpiritHealerTime ==
  [SMSG_AREA_SPIRIT_HEALER_TIME |-> PlainSmsg(<<8, 4>>, 8 + 4, 12),
   SMSG_WARDEN_DATA |-> [w \in OfCount |->
     Smsg(Endless(w.count, Ints(<<1>>), 1), w.count, w.count)],
   CMSG_WARDEN_DATA |-> [w \in OfCount |->
     Cmsg(Endless(w.count, Ints(<<1>>), 1), w.count, w.count)],
   SMSG_GROUP_JOINED_BATTLEGROUND |-> PlainSmsg(<<4>>, 4, 4),
   MSG_BATTLEGROUND_PLAYER_POSITIONS_Client |-> EmptyCmsg(0)]

tbc_FromMsgBattlegroundPlayerPositions ==
  [MSG_BATTLEGROUND_PLAYER_POSITIONS_Server |-> [w \in OfCount |->
     Smsg(
       Ints(<<4>>) \o Each(w.count, tbc_BattlegroundPlayerPosition.read) \o Ints(<<1>>)
       \o Each(U8(w.count), tbc_BattlegroundPlayerPosition.read),
       4 + w.count * tbc_BattlegroundPlayerPosition.written + 1
       + w.count * tbc_BattlegroundPlayerPosition.written, 5 + 16 * w.count + 16 * w.count)],
   CMSG_PET_STOP_ATTACK |-> PlainCmsg(<<8>>, 8, 8),
   SMSG_BINDER_CONFIRM |-> PlainSmsg(<<8>>, 8, 8),
   SMSG_BATTLEGROUND_PLAYER_JOINED |-> PlainSmsg(<<8>>, 8, 8),
   SMSG_BATTLEGROUND_PLAYER_LEFT |-> PlainSmsg(<<8>>, 8, 8)]

tbc_FromCmsgBattlemasterJoin ==
  [CMSG_BATTLEMASTER_JOIN |-> PlainCmsg(<<8, 4, 4, 1>>, 8 + 2 * 4 + 1, 17),
   CMSG_PET_UNLEARN |-> PlainCmsg(<<8>>, 8, 8),
   SMSG_PET_UNLEARN_CONFIRM |-> PlainSmsg(<<8, 4>>, 8 + 4, 12)]

tbc_FromSmsgPartyMemberStatsFull ==
  [SMSG_PARTY_MEMBER_STATS_FULL |-> tbc_FromSmsgPartyMemberStats.SMSG_PARTY_MEMBER_STATS]

tbc_FromCmsgPetSpellAutocast ==
  [CMSG_PET_SPELL_AUTOCAST |-> PlainCmsg(<<8, 4, 1>>, 8 + 4 + 1, 13),
   SMSG_WEATHER |-> PlainSmsg(<<4, 4, 1>>, 2 * 4 + 1, 9),
   SMSG_RAID_INSTANCE_MESSAGE |-> PlainSmsg(<<4, 4, 4>>, 3 * 4, 12),
   CMSG_GUILD_INFO_TEXT |-> [w \in OfLength |->
     Cmsg(Cstring(w), write_cstring(w), 1 + w.len)],
   SMSG_CHAT_RESTRICTED |-> PlainSmsg(<<1>>, 1, 1)]

tbc_FromSmsgSplineSetRunSpeed ==
  [SMSG_SPLINE_SET_RUN_SPEED |-> [w \in OfLength |->
     Smsg(PackedGuid(w) \o Ints(<<4>>), write_packed_guid(w) + 4, 4 + wwm_packed_guid_size(w))],
   SMSG_SPLINE_SET_RUN_BACK_SPEED |-> [w \in OfLength |->
     Smsg(PackedGuid(w) \o Ints(<<4>>), write_packed_guid(w) + 4, 4 + wwm_packed_guid_size(w))],
   SMSG_SPLINE_SET_SWIM_SPEED |-> [w \in OfLength |->
     Smsg(PackedGuid(w) \o Ints(<<4>>), write_packed_guid(w) + 4, 4 + wwm_packed_guid_size(w))],
   SMSG_SPLINE_SET_WALK_SPEED |-> [w \in OfLength |->
     Smsg(PackedGuid(w) \o Ints(<<4>>), write_packed_guid(w) + 4, 4 + wwm_packed_guid_size(w))]]

tbc_FromSmsgSplineSetSwimBackSpeed ==
  [SMSG_SPLINE_SET_SWIM_BACK_SPEED |-> [w \in OfLength |->
     Smsg(PackedGuid(w) \o Ints(<<4>>), write_packed_guid(w) + 4, 4 + wwm_packed_guid_size(w))],
   SMSG_SPLINE_SET_TURN_RATE |-> [w \in OfLength |->
     Smsg(PackedGuid(w) \o Ints(<<4>>), write_packed_guid(w) + 4, 4 + wwm_packed_guid_size(w))],
   SMSG_SPLINE_MOVE_UNROOT |-> [w \in OfLength |->
     Smsg(PackedGuid(w), write_packed_guid(w), wwm_packed_guid_size(w))],
   SMSG_SPLINE_MOVE_FEATHER_FALL |-> [w \in OfLength |->
     Smsg(PackedGuid(w), write_packed_guid(w), wwm_packed_guid_size(w))],
   SMSG_SPLINE_MOVE_NORMAL_FALL |-> [w \in OfLength |->
     Smsg(PackedGuid(w), write_packed_guid(w), wwm_packed_guid_size(w))]]

tbc_FromSmsgSplineMoveSetHover ==
  [SMSG_SPLINE_MOVE_SET_HOVER |-> [w \in OfLength |->
     Smsg(PackedGuid(w), write_packed_guid(w), wwm_packed_guid_size(w))],
   SMSG_SPLINE_MOVE_UNSET_HOVER |-> [w \in OfLength |->
     Smsg(PackedGuid(w), write_packed_guid(w), wwm_packed_guid_size(w))],
   SMSG_SPLINE_MOVE_WATER_WALK |-> [w \in OfLength |->
     Smsg(PackedGuid(w), write_packed_guid(w), wwm_packed_guid_size(w))],
   SMSG_SPLINE_MOVE_LAND_WALK |-> [w \in OfLength |->
     Smsg(PackedGuid(w), write_packed_guid(w), wwm_packed_guid_size(w))],
   SMSG_SPLINE_MOVE_START_SWIM |-> [w \in OfLength |->
     Smsg(PackedGuid(w), write_packed_guid(w), wwm_packed_guid_size(w))]]

tbc_FromSmsgSplineMoveStopSwim ==
  [SMSG_SPLINE_MOVE_STOP_SWIM |-> [w \in OfLength |->
     Smsg(PackedGuid(w), write_packed_guid(w), wwm_packed_guid_size(w))],
   SMSG_SPLINE_MOVE_SET_RUN_MODE |-> [w \in OfLength |->
     Smsg(PackedGuid(w), write_packed_guid(w), wwm_packed_guid_size(w))],
   SMSG_SPLINE_MOVE_SET_WALK_MODE |-> [w \in OfLength |->
     Smsg(PackedGuid(w), write_packed_guid(w), wwm_packed_guid_size(w))],
   CMSG_ACTIVATETAXIEXPRESS |-> [w \in OfCount |->
     Cmsg(Ints(<<8, 4, 4>> \o Repeat(w.count, 4)), 8 + 2 * 4 + w.count * 4, 16 + 4 * w.count)],
   CMSG_SET_FACTION_INACTIVE |-> PlainCmsg(<<2, 1>>, 2 + 1, 3)]

tbc_FromCmsgSetWatchedFaction ==
  [CMSG_SET_WATCHED_FACTION |-> PlainCmsg(<<2>>, 2, 2),
   MSG_MOVE_TIME_SKIPPED_Server |-> [w \in OfLength |->
     Smsg(PackedGuid(w) \o Ints(<<4>>), write_packed_guid(w) + 4, 4 + wwm_packed_guid_size(w))],
   SMSG_SPLINE_MOVE_ROOT |-> PlainSmsg(<<8>>, 8, 8),
   SMSG_INVALIDATE_PLAYER |-> PlainSmsg(<<8>>, 8, 8),
   CMSG_RESET_INSTANCES |-> EmptyCmsg(0),
   SMSG_INSTANCE_RESET |-> PlainSmsg(<<4>>, 4, 4)]

tbc_FromSmsgInstanceResetFailed ==
  [SMSG_INSTANCE_RESET_FAILED |-> PlainSmsg(<<4, 4>>, 2 * 4, 8),
   SMSG_UPDATE_LAST_INSTANCE |-> PlainSmsg(<<4>>, 4, 4),
   MSG_RAID_TARGET_UPDATE_Client |->
     [w \in Wires(
              {0}, {0}, {{"RaidTargetIndex::UNKNOWN0", "RaidTargetIndex::REQUEST_ICONS"}}, {}) |->
       Cmsg(Ints(<<1>>) \o When(Is(w, "RaidTargetIndex::UNKNOWN0"), Ints(<<8>>)),
            1 + Bytes(Is(w, "RaidTargetIndex::UNKNOWN0"), 8),
            1 + Bytes(Is(w, "RaidTargetIndex::UNKNOWN0"), 8))],
   MSG_RAID_TARGET_UPDATE_Server |->
     [w \in Wires(
              {0}, {0}, {{"RaidTargetUpdateType::FULL", "RaidTargetUpdateType::PARTIAL"}}, {}) |->
       Smsg(
         Ints(<<1>>)
         \o When(Is(w, "RaidTargetUpdateType::FULL"), Each(8, tbc_RaidTargetUpdate.read))
         \o When(Is(w, "RaidTargetUpdateType::PARTIAL"), tbc_RaidTargetUpdate.read),
         1 + Bytes(Is(w, "RaidTargetUpdateType::FULL"), 8 * tbc_RaidTargetUpdate.written)
         + Bytes(Is(w, "RaidTargetUpdateType::PARTIAL"), tbc_RaidTargetUpdate.written),
         1 + Bytes(Is(w, "RaidTargetUpdateType::FULL"), 72)
         + Bytes(Is(w, "RaidTargetUpdateType::PARTIAL"), 9))]]

tbc_FromMsgRaidReadyCheck ==
  [MSG_RAID_READY_CHECK_Client |-> [w \in Wires({0}, {0}, {}, {"answer"}) |->
     Cmsg(Optional(Ints(<<1>>)), Bytes(Is(w, "answer"), 1), Bytes(Is(w, "answer"), 1))],
   MSG_RAID_READY_CHECK_Server |-> [w \in Wires({0}, {0}, {}, {"state_check"}) |->
     Smsg(Optional(Ints(<<8, 1>>)),
          Bytes(Is(w, "state_check"), 8 + 1), Bytes(Is(w, "state_check"), 9))],
   SMSG_PET_ACTION_SOUND |-> PlainSmsg(<<8, 4>>, 8 + 4, 12),
   SMSG_PET_DISMISS_SOUND |-> [w \in {Fixed} |->
     Smsg(Ints(<<4>>) \o Vector3d.read, 4 + Vector3d.written, 16)]]

tbc_FromSmsgGmTicketStatusUpdate ==
  [SMSG_GM_TICKET_STATUS_UPDATE |-> PlainSmsg(<<4>>, 4, 4),
   MSG_SET_DUNGEON_DIFFICULTY_Client |-> PlainCmsg(<<4>>, 4, 4),
   MSG_SET_DUNGEON_DIFFICULTY_Server |-> PlainSmsg(<<4, 4, 4>>, 3 * 4, 12),
   CMSG_GMSURVEY_SUBMIT |-> [w \in OfLength |->
     Cmsg(Ints(<<4>>) \o Each(10, tbc_GmSurveyQuestion(w).read) \o Cstring(w),
          4 + 10 * tbc_GmSurveyQuestion(w).written + write_cstring(w),
          5 + w.len + 10 * tbc_GmSurveyQuestion(w).size)],
   SMSG_UPDATE_INSTANCE_OWNERSHIP |-> PlainSmsg(<<4>>, 4, 4)]

tbc_FromSmsgChatPlayerAmbiguous ==
  [SMSG_CHAT_PLAYER_AMBIGUOUS |-> [w \in OfLength |->
     Smsg(Cstring(w), write_cstring(w), 1 + w.len)],
   SMSG_SPELLINSTAKILLLOG |-> PlainSmsg(<<8, 8, 4>>, 2 * 8 + 4, 20),
   SMSG_SPELL_UPDATE_CHAIN_TARGETS |-> [w \in OfCount |->
     Smsg(Ints(<<8, 4, 4>> \o Repeat(w.count, 8)), 8 + 2 * 4 + w.count * 8, 16 + 8 * w.count)]]

tbc_FromSmsgSpellsteallog ==
  [SMSG_SPELLSTEALLOG |-> [w \in OfLengthAndCount |->
     Smsg(
       PackedGuid(w) \o PackedGuid(w) \o Ints(<<4, 1, 4>>) \o Each(w.count, tbc_SpellSteal.read),
       2 * write_packed_guid(w) + 4 + 1 + 4 + w.count * tbc_SpellSteal.written,
       9 + 2 * wwm_packed_guid_size(w) + 5 * w.count)],
   SMSG_DEFENSE_MESSAGE |-> [w \in OfLength |->
     Smsg(Ints(<<4>>) \o SizedCstring(w), 4 + write_sized_cstring(w), 9 + w.len)],
   SMSG_INSTANCE_DIFFICULTY |-> PlainSmsg(<<4, 4>>, 2 * 4, 8),
   SMSG_MOTD |-> [w \in OfLengthAndCount |->
     Smsg(Ints(<<4>>) \o Each(w.count, Cstring(w)),
          4 + w.count * write_cstring(w), 4 + w.count * (1 + w.len))]]

tbc_FromSmsgMoveSetFlight ==
  [SMSG_MOVE_SET_FLIGHT |-> PlainSmsg(<<8, 4>>, 8 + 4, 12),
   SMSG_MOVE_UNSET_FLIGHT |-> PlainSmsg(<<8, 4>>, 8 + 4, 12),
   SMSG_MOVE_SET_CAN_FLY |-> [w \in OfLength |->
     Smsg(PackedGuid(w) \o Ints(<<4>>), write_packed_guid(w) + 4, 4 + wwm_packed_guid_size(w))],
   SMSG_MOVE_UNSET_CAN_FLY |-> [w \in OfLength |->
     Smsg(PackedGuid(w) \o Ints(<<4>>), write_packed_guid(w) + 4, 4 + wwm_packed_guid_size(w))]]

tbc_FromCmsgMoveSetCanFlyAck ==
  [CMSG_MOVE_SET_CAN_FLY_ACK |->
     tbc_FromCmsgForceRunSpeedChangeAck.CMSG_FORCE_RUN_SPEED_CHANGE_ACK,
   CMSG_MOVE_SET_FLY |-> tbc_FromSmsgGameobjectCustomAnim.MSG_MOVE_START_FORWARD_Client,
   CMSG_SOCKET_GEMS |-> PlainCmsg(<<8, 8, 8, 8>>, 8 + 3 * 8, 32),
   SMSG_ARENA_TEAM_COMMAND_RESULT |-> [w \in OfLength |->
     Smsg(Ints(<<4>>) \o Cstring(w) \o Cstring(w) \o Ints(<<4>>),
          4 + 2 * write_cstring(w) + 4, 10 + 2 * w.len)]]

tbc_FromSmsgArenaTeamQueryResponse ==
  [SMSG_ARENA_TEAM_QUERY_RESPONSE |-> [w \in OfLength |->
     Smsg(Ints(<<4>>) \o Cstring(w) \o Ints(<<1>> \o Repeat(5, 4)),
          4 + write_cstring(w) + 1 + 5 * 4, 26 + w.len)],
   CMSG_ARENA_TEAM_ROSTER |-> PlainCmsg(<<4>>, 4, 4),
   SMSG_ARENA_TEAM_ROSTER |-> [w \in OfLengthAndCount |->
     Smsg(Ints(<<4, 4, 1>>) \o Each(w.count, tbc_ArenaTeamMember(w).read),
          2 * 4 + 1 + w.count * tbc_ArenaTeamMember(w).written,
          9 + w.count * tbc_ArenaTeamMember(w).size)]]

tbc_FromCmsgArenaTeamInvite ==
  [CMSG_ARENA_TEAM_INVITE |-> [w \in OfLength |->
     Cmsg(Ints(<<4>>) \o Cstring(w), 4 + write_cstring(w), 5 + w.len)],
   SMSG_ARENA_TEAM_INVITE |-> [w \in OfLength |->
     Smsg(Cstring(w) \o Cstring(w), 2 * write_cstring(w), 2 + 2 * w.len)],
   CMSG_ARENA_TEAM_ACCEPT |-> EmptyCmsg(0),
   CMSG_ARENA_TEAM_DECLINE |-> EmptyCmsg(0),
   CMSG_ARENA_TEAM_LEAVE |-> PlainCmsg(<<4>>, 4, 4),
   CMSG_ARENA_TEAM_REMOVE |-> [w \in OfLength |->
     Cmsg(Ints(<<4>>) \o Cstring(w), 4 + write_cstring(w), 5 + w.len)]]

tbc_FromCmsgArenaTeamDisband ==
  [CMSG_ARENA_TEAM_DISBAND |-> PlainCmsg(<<4>>, 4, 4),
   CMSG_ARENA_TEAM_LEADER |-> [w \in OfLength |->
     Cmsg(Ints(<<4>>) \o Cstring(w), 4 + write_cstring(w), 5 + w.len)]]

tbc_FromSmsgArenaTeamEvent ==
  [SMSG_ARENA_TEAM_EVENT |->
     [w \in Wires(Lengths, Counts,
                  {{"ArenaTeamEvent::JOIN", "ArenaTeamEvent::LEAVE", "ArenaTeamEvent::REMOVE",
                    "ArenaTeamEvent::LEADER_IS", "ArenaTeamEvent::LEADER_CHANGED"}}, {}) |->
       Smsg(
         Ints(<<1>>) \o When(Is(w, "ArenaTeamEvent::JOIN"), Cstring(w) \o Cstring(w) \o Ints(<<8>>))
         \o When(Is(w, "ArenaTeamEvent::LEAVE"), Cstring(w) \o Ints(<<8>>))
         \o When(Is(w, "ArenaTeamEvent::REMOVE"), Cstring(w) \o Cstring(w) \o Cstring(w))
         \o When(Is(w, "ArenaTeamEvent::LEADER_IS"), Cstring(w) \o Cstring(w))
         \o When(Is(w, "ArenaTeamEvent::LEADER_CHANGED"), Cstring(w) \o Cstring(w)) \o Ints(<<1>>)
         \o Each(U8(w.count), Cstring(w)),
         1 + Bytes(Is(w, "ArenaTeamEvent::JOIN"), 2 * write_cstring(w) + 8)
         + Bytes(Is(w, "ArenaTeamEvent::LEAVE"), write_cstring(w) + 8)
         + Bytes(Is(w, "ArenaTeamEvent::REMOVE"), 3 * write_cstring(w))
         + Bytes(Is(w, "ArenaTeamEvent::LEADER_IS"), 2 * write_cstring(w))
         + Bytes(Is(w, "ArenaTeamEvent::LEADER_CHANGED"), 2 * write_cstring(w)) + 1
         + w.count * write_cstring(w),
         2 + Bytes(Is(w, "ArenaTeamEvent::JOIN"), 10 + 2 * w.len)
         + Bytes(Is(w, "ArenaTeamEvent::LEAVE"), 9 + w.len)
         + Bytes(Is(w, "ArenaTeamEvent::REMOVE"), 3 + 3 * w.len)
         + Bytes(Is(w, "ArenaTeamEvent::LEADER_IS"), 2 + 2 * w.len)
         + Bytes(Is(w, "ArenaTeamEvent::LEADER_CHANGED"), 2 + 2 * w.len) + w.count * (1 + w.len))]]

tbc_FromCmsgBattlemasterJoinArena ==
  [CMSG_BATTLEMASTER_JOIN_ARENA |-> PlainCmsg(<<8, 1, 1, 1>>, 8 + 3 * 1, 11),
   MSG_MOVE_START_ASCEND_Client |->
     tbc_FromSmsgGameobjectCustomAnim.MSG_MOVE_START_FORWARD_Client,
   MSG_MOVE_START_ASCEND_Server |->
     tbc_FromSmsgGameobjectCustomAnim.MSG_MOVE_START_FORWARD_Server,
   MSG_MOVE_STOP_ASCEND_Client |-> tbc_FromSmsgGameobjectCustomAnim.MSG_MOVE_START_FORWARD_Client,
   MSG_MOVE_STOP_ASCEND_Server |-> tbc_FromSmsgGameobjectCustomAnim.MSG_MOVE_START_FORWARD_Server]

tbc_FromSmsgArenaTeamStats ==
  [SMSG_ARENA_TEAM_STATS |-> PlainSmsg(Repeat(7, 4), 7 * 4, 28),
   CMSG_LFG_SET_AUTOJOIN |-> EmptyCmsg(0),
   CMSG_LFG_CLEAR_AUTOJOIN |-> EmptyCmsg(0),
   CMSG_LFM_SET_AUTOFILL |-> EmptyCmsg(0),
   CMSG_LFM_CLEAR_AUTOFILL |-> EmptyCmsg(0),
   CMSG_CLEAR_LOOKING_FOR_GROUP |-> EmptyCmsg(0),
   CMSG_CLEAR_LOOKING_FOR_MORE |-> EmptyCmsg(0),
   CMSG_SET_LOOKING_FOR_MORE |-> [w \in {Fixed} |->
     Cmsg(tbc_LfgData.read, tbc_LfgData.written, 4)]]

tbc_FromCmsgSetLfgComment ==
  [CMSG_SET_LFG_COMMENT |-> [w \in OfLength |->
     Cmsg(Cstring(w), write_cstring(w), 1 + w.len)],
   SMSG_LFG_LEADER_IS_LFM |-> EmptySmsg(0),
   SMSG_LFG_UPDATE |->
     [w \in Wires({0}, {0},
                  {{"LfgUpdateLookingForMore::LOOKING_FOR_MORE",
                    "LfgUpdateLookingForMore::NOT_LOOKING_FOR_MORE"}}, {}) |->
       Smsg(
         Ints(<<1, 1, 1>>)
         \o When(Is(w, "LfgUpdateLookingForMore::LOOKING_FOR_MORE"), tbc_LfgData.read),
         3 * 1 + Bytes(Is(w, "LfgUpdateLookingForMore::LOOKING_FOR_MORE"), tbc_LfgData.written),
         3 + Bytes(Is(w, "LfgUpdateLookingForMore::LOOKING_FOR_MORE"), 4))],
   SMSG_LFG_UPDATE_LFM |->
     [w \in Wires({0}, {0},
                  {{"LfgUpdateLookingForMore::LOOKING_FOR_MORE",
                    "LfgUpdateLookingForMore::NOT_LOOKING_FOR_MORE"}}, {}) |->
       Smsg(
         Ints(<<1>>) \o When(Is(w, "LfgUpdateLookingForMore::LOOKING_FOR_MORE"), tbc_LfgData.read),
         1 + Bytes(Is(w, "LfgUpdateLookingForMore::LOOKING_FOR_MORE"), tbc_LfgData.written),
         1 + Bytes(Is(w, "LfgUpdateLookingForMore::LOOKING_FOR_MORE"), 4))]]

tbc_FromSmsgLfgUpdateLfg ==
  [SMSG_LFG_UPDATE_LFG |-> [w \in {Fixed} |->
     Smsg(Each(3, tbc_LfgData.read), 3 * tbc_LfgData.written, 12)],
   SMSG_LFG_UPDATE_QUEUED |-> PlainSmsg(<<1>>, 1, 1),
   SMSG_TITLE_EARNED |-> PlainSmsg(<<4, 4>>, 2 * 4, 8),
   CMSG_SET_TITLE |-> PlainCmsg(<<4>>, 4, 4),
   CMSG_CANCEL_MOUNT_AURA |-> EmptyCmsg(0),
   SMSG_ARENA_ERROR |-> PlainSmsg(<<4, 1>>, 4 + 1, 5)]

tbc_FromMsgInspectArenaTeams ==
  [MSG_INSPECT_ARENA_TEAMS_Client |-> PlainCmsg(<<8>>, 8, 8),
   MSG_INSPECT_ARENA_TEAMS_Server |-> PlainSmsg(<<8, 1>> \o Repeat(6, 4), 8 + 1 + 6 * 4, 33),
   SMSG_DEATH_RELEASE_LOC |-> [w \in {Fixed} |->
     Smsg(Ints(<<4>>) \o Vector3d.read, 4 + Vector3d.written, 16)],
   CMSG_CANCEL_TEMP_ENCHANTMENT |-> PlainCmsg(<<4>>, 4, 4),
   SMSG_FORCED_DEATH_UPDATE |-> EmptySmsg(0)]

tbc_FromMsgMoveSetFlightSpeed ==
  [MSG_MOVE_SET_FLIGHT_SPEED_Server |-> [w \in Wires(Lengths, {0}, {}, tbc_MovementInfoFlags) |->
     Smsg(PackedGuid(w) \o tbc_MovementInfo(w).read \o Ints(<<4>>),
          write_packed_guid(w) + tbc_MovementInfo(w).written + 4,
          4 + wwm_packed_guid_size(w) + tbc_MovementInfo(w).size)],
   MSG_MOVE_SET_FLIGHT_BACK_SPEED_cmsg |->
     [w \in Wires(Lengths, {0}, {}, tbc_MovementInfoFlags) |->
       Client(tbc_MSG_MOVE_SET_FLIGHT_BACK_SPEED(w))],
   MSG_MOVE_SET_FLIGHT_BACK_SPEED_smsg |->
     [w \in Wires(Lengths, {0}, {}, tbc_MovementInfoFlags) |->
       Server(tbc_MSG_MOVE_SET_FLIGHT_BACK_SPEED(w))],
   SMSG_FORCE_FLIGHT_SPEED_CHANGE |-> [w \in OfLength |->
     Smsg(
       PackedGuid(w) \o Ints(<<4, 4>>), write_packed_guid(w) + 2 * 4, 8 + wwm_packed_guid_size(w))]]

tbc_FromCmsgForceFlightSpeedChangeAck ==
  [CMSG_FORCE_FLIGHT_SPEED_CHANGE_ACK |->
     tbc_FromCmsgForceRunSpeedChangeAck.CMSG_FORCE_RUN_SPEED_CHANGE_ACK,
   SMSG_FORCE_FLIGHT_BACK_SPEED_CHANGE |-> [w \in OfLength |->
     Smsg(
       PackedGuid(w) \o Ints(<<4, 4>>), write_packed_guid(w) + 2 * 4, 8 + wwm_packed_guid_size(w))],
   CMSG_FORCE_FLIGHT_BACK_SPEED_CHANGE_ACK |->
     tbc_FromCmsgForceRunSpeedChangeAck.CMSG_FORCE_RUN_SPEED_CHANGE_ACK,
   SMSG_SPLINE_SET_FLIGHT_SPEED |-> [w \in OfLength |->
     Smsg(PackedGuid(w) \o Ints(<<4>>), write_packed_guid(w) + 4, 4 + wwm_packed_guid_size(w))]]

tbc_FromSmsgSplineSetFlightBackSpeed ==
  [SMSG_SPLINE_SET_FLIGHT_BACK_SPEED |-> [w \in OfLength |->
     Smsg(PackedGuid(w) \o Ints(<<4>>), write_packed_guid(w) + 4, 4 + wwm_packed_guid_size(w))],
   SMSG_FLIGHT_SPLINE_SYNC |-> PlainSmsg(<<4, 8>>, 4 + 8, 12),
   CMSG_SET_TAXI_BENCHMARK_MODE |-> PlainCmsg(<<1>>, 1, 1),
   SMSG_REALM_SPLIT |-> [w \in OfLength |->
     Smsg(Ints(<<4, 4>>) \o Cstring(w), 2 * 4 + write_cstring(w), 9 + w.len)],
   CMSG_REALM_SPLIT |-> PlainCmsg(<<4>>, 4, 4)]

tbc_FromCmsgMoveChngTransport ==
  [CMSG_MOVE_CHNG_TRANSPORT |-> tbc_FromSmsgGameobjectCustomAnim.MSG_MOVE_START_FORWARD_Client,
   MSG_PARTY_ASSIGNMENT_Client |-> PlainCmsg(<<1, 1, 8>>, 2 * 1 + 8, 10),
   SMSG_TIME_SYNC_REQ |-> PlainSmsg(<<4>>, 4, 4),
   CMSG_TIME_SYNC_RESP |-> PlainCmsg(<<4, 4>>, 2 * 4, 8),
   SMSG_RESET_FAILED_NOTIFY |-> PlainSmsg(<<4>>, 4, 4),
   SMSG_LFG_DISABLED |-> EmptySmsg(0)]

tbc_FromSmsgUpdateComboPoints ==
  [SMSG_UPDATE_COMBO_POINTS |-> [w \in OfLength |->
     Smsg(PackedGuid(w) \o Ints(<<1>>), write_packed_guid(w) + 1, 1 + wwm_packed_guid_size(w))],
   SMSG_SET_EXTRA_AURA_INFO |-> [w \in Wires(Lengths, {0}, {}, {"aura"}) |->
     Smsg(Counted(wwm_packed_guid_size(w), PackedGuid(w)) \o Optional(Ints(<<1, 4, 4, 4>>)),
          write_packed_guid(w) + Bytes(Is(w, "aura"), 1 + 3 * 4),
          wwm_packed_guid_size(w) + Bytes(Is(w, "aura"), 13))],
   SMSG_SET_EXTRA_AURA_INFO_NEED_UPDATE |-> [w \in OfLength |->
     Smsg(PackedGuid(w) \o Ints(<<1, 4, 4, 4>>),
          write_packed_guid(w) + 1 + 3 * 4, 13 + wwm_packed_guid_size(w))]]

tbc_FromSmsgClearExtraAuraInfo ==
  [SMSG_CLEAR_EXTRA_AURA_INFO |-> [w \in OfLength |->
     Smsg(PackedGuid(w) \o Ints(<<4>>), write_packed_guid(w) + 4, 4 + wwm_packed_guid_size(w))],
   MSG_MOVE_START_DESCEND_Client |->
     tbc_FromSmsgGameobjectCustomAnim.MSG_MOVE_START_FORWARD_Client,
   MSG_MOVE_START_DESCEND_Server |->
     tbc_FromSmsgGameobjectCustomAnim.MSG_MOVE_START_FORWARD_Server,
   SMSG_DISMOUNT |-> [w \in OfLength |->
     Smsg(PackedGuid(w), write_packed_guid(w), wwm_packed_guid_size(w))],
   MSG_MOVE_UPDATE_CAN_FLY_Server |->
     tbc_FromSmsgGameobjectCustomAnim.MSG_MOVE_START_FORWARD_Server]

tbc_FromMsgRaidReadyCheckConfirm ==
  [MSG_RAID_READY_CHECK_CONFIRM_Client |-> [w \in Wires({0}, {0}, {}, {"set"}) |->
     Cmsg(Optional(Ints(<<1>>)), Bytes(Is(w, "set"), 1), Bytes(Is(w, "set"), 1))],
   MSG_RAID_READY_CHECK_CONFIRM_Server |-> PlainSmsg(<<8, 1>>, 8 + 1, 9),
   CMSG_VOICE_SESSION_ENABLE |-> PlainCmsg(<<1, 1>>, 2 * 1, 2)]

tbc_FromSmsgGmMessagechat ==
  [SMSG_GM_MESSAGECHAT |->
     [w \in Wires(Lengths, {0},
                  {{"ChatType::MONSTER_SAY", "ChatType::BG_SYSTEM_NEUTRAL", "ChatType::CHANNEL",
                    "ChatType::SYSTEM"}}, {"guid"}) |->
       Smsg(
         Ints(<<1, 4>>)
         \o When(Is(w, "ChatType::MONSTER_SAY"),
                 SizedCstring(w) \o NamedGuid(w).read \o SizedCstring(w) \o Ints(<<1>>))
         \o When(Is(w, "ChatType::BG_SYSTEM_NEUTRAL"),
                 NamedGuid(w).read \o SizedCstring(w) \o Ints(<<1>>))
         \o When(Is(w, "ChatType::CHANNEL"),
                 Cstring(w) \o Ints(<<8>>) \o SizedCstring(w) \o Ints(<<1>>))
         \o When(Is(w, "ChatType::SYSTEM"),
                 Ints(<<8>>) \o SizedCstring(w) \o Ints(<<1>>) \o SizedCstring(w)),
         1 + 4
         + Bytes(Is(w, "ChatType::MONSTER_SAY"),
                 write_sized_cstring(w) + NamedGuid(w).written + write_sized_cstring(w) + 1)
         + Bytes(Is(w, "ChatType::BG_SYSTEM_NEUTRAL"),
                 NamedGuid(w).written + write_sized_cstring(w) + 1)
         + Bytes(Is(w, "ChatType::CHANNEL"), write_cstring(w) + 8 + write_sized_cstring(w) + 1)
         + Bytes(
             Is(w, "ChatType::SYSTEM"), 8 + write_sized_cstring(w) + 1 + write_sized_cstring(w)),
         5 + Bytes(Is(w, "ChatType::MONSTER_SAY"), 11 + 2 * w.len + NamedGuid(w).size)
         + Bytes(Is(w, "ChatType::BG_SYSTEM_NEUTRAL"), 6 + w.len + NamedGuid(w).size)
         + Bytes(Is(w, "ChatType::CHANNEL"), 15 + 2 * w.len)
         + Bytes(Is(w, "ChatType::SYSTEM"), 19 + 2 * w.len))],
   CMSG_COMMENTATOR_ENABLE |-> PlainCmsg(<<4>>, 4, 4)]

tbc_FromSmsgClearTarget ==
  [SMSG_CLEAR_TARGET |-> PlainSmsg(<<8>>, 8, 8),
   SMSG_CROSSED_INEBRIATION_THRESHOLD |-> PlainSmsg(<<8, 4, 4>>, 8 + 2 * 4, 16),
   SMSG_KICK_REASON |-> [w \in OfLength |->
     Smsg(Ints(<<1>>) \o Cstring(w), 1 + write_cstring(w), 2 + w.len)],
   MSG_RAID_READY_CHECK_FINISHED_Client |-> EmptyCmsg(0)]

tbc_FromCmsgComplain ==
  [CMSG_COMPLAIN |-> [w \in Wires(Lengths, {0}, {{"SpamType::MAIL", "SpamType::CHAT"}}, {}) |->
     Cmsg(
       Ints(<<1, 8>>) \o When(Is(w, "SpamType::MAIL"), Ints(<<4, 4, 4>>))
       \o When(Is(w, "SpamType::CHAT"), Ints(<<4, 4, 4, 4>>) \o Cstring(w)),
       1 + 8 + Bytes(Is(w, "SpamType::MAIL"), 3 * 4)
       + Bytes(Is(w, "SpamType::CHAT"), 4 * 4 + write_cstring(w)),
       9 + Bytes(Is(w, "SpamType::MAIL"), 12) + Bytes(Is(w, "SpamType::CHAT"), 17 + w.len))],
   SMSG_COMPLAIN_RESULT |-> PlainSmsg(<<1, 1>>, 2 * 1, 2),
   SMSG_FEATURE_SYSTEM_STATUS |-> PlainSmsg(<<1, 1>>, 2 * 1, 2)]

tbc_FromCmsgChannelDisplayList ==
  [CMSG_CHANNEL_DISPLAY_LIST |-> [w \in OfLength |->
     Cmsg(Cstring(w), write_cstring(w), 1 + w.len)],
   CMSG_SET_ACTIVE_VOICE_CHANNEL |-> [w \in OfLength |->
     Cmsg(Ints(<<4>>) \o Cstring(w), 4 + write_cstring(w), 5 + w.len)],
   CMSG_GET_CHANNEL_MEMBER_COUNT |-> [w \in OfLength |->
     Cmsg(Cstring(w), write_cstring(w), 1 + w.len)],
   SMSG_CHANNEL_MEMBER_COUNT |-> [w \in OfLength |->
     Smsg(Cstring(w) \o Ints(<<1, 4>>), write_cstring(w) + 1 + 4, 6 + w.len)],
   CMSG_CHANNEL_VOICE_ON |-> EmptyCmsg(0)]

tbc_FromCmsgReportPvpAfk ==
  [CMSG_REPORT_PVP_AFK |-> PlainCmsg(<<8>>, 8, 8),
   CMSG_GUILD_BANKER_ACTIVATE |-> PlainCmsg(<<8, 1>>, 8 + 1, 9),
   CMSG_GUILD_BANK_QUERY_TAB |-> PlainCmsg(<<8, 1, 1>>, 8 + 2 * 1, 10)]

tbc_FromSmsgGuildBankList ==
  [SMSG_GUILD_BANK_LIST |->
     [w \in Wires(
              Lengths, Counts, {{"GuildBankTabResult::PRESENT", "GuildBankTabResult::NOT_PRESENT"}},
              {"item_random_property_id"}) |->
       Smsg(
         Ints(<<8, 1, 4, 1>>)
         \o When(Is(w, "GuildBankTabResult::PRESENT"),
                 Ints(<<1>>) \o Each(U8(w.count), tbc_GuildBankTab(w).read)) \o Ints(<<1>>)
         \o Each(U8(w.count), tbc_GuildBankSlot(w).read),
         8 + 1 + 4 + 1
         + Bytes(Is(w, "GuildBankTabResult::PRESENT"), 1 + w.count * tbc_GuildBankTab(w).written)
         + 1 + w.count * tbc_GuildBankSlot(w).written,
         15 + Bytes(Is(w, "GuildBankTabResult::PRESENT"), 1 + w.count * tbc_GuildBankTab(w).size)
         + w.count * tbc_GuildBankSlot(w).size)]]

tbc_FromCmsgGuildBankSwapItems ==
  [CMSG_GUILD_BANK_SWAP_ITEMS |->
     [w \in Wires({0}, Counts,
                  {{"BankSwapSource::BANK", "BankSwapSource::INVENTORY"},
                   {"BankSwapStoreMode::AUTOMATIC", "BankSwapStoreMode::MANUAL"}}, {}) |->
       Cmsg(
         Counted(
           9,
           Ints(<<8, 1>>)
           \o When(Is(w, "BankSwapSource::BANK"), Counted(14, Ints(<<1, 1, 4, 1, 1, 4, 1, 1>>)))
           \o When(
                Is(w, "BankSwapSource::INVENTORY"),
                Counted(
                  7,
                  Ints(<<1, 1, 4, 1>>)
                  \o When(Is(w, "BankSwapStoreMode::AUTOMATIC"), Counted(6, Ints(<<4, 1, 1>>)))
                  \o When(Is(w, "BankSwapStoreMode::MANUAL"), Counted(4, Ints(<<1, 1, 1, 1>>))))))
         \o Endless(w.count, Ints(<<1>>), 1),
         8 + 1 + Bytes(Is(w, "BankSwapSource::BANK"), 2 * 1 + 4 + 2 * 1 + 4 + 2 * 1)
         + Bytes(Is(w, "BankSwapSource::INVENTORY"),
                 2 * 1 + 4 + 1 + Bytes(Is(w, "BankSwapStoreMode::AUTOMATIC"), 4 + 2 * 1)
                 + Bytes(Is(w, "BankSwapStoreMode::MANUAL"), 4 * 1)) + w.count,
         9 + w.count + Bytes(Is(w, "BankSwapSource::BANK"), 14)
         + Bytes(Is(w, "BankSwapSource::INVENTORY"),
                 7 + Bytes(Is(w, "BankSwapStoreMode::AUTOMATIC"), 6)
                 + Bytes(Is(w, "BankSwapStoreMode::MANUAL"), 4)))]]

tbc_FromCmsgGuildBankBuyTab ==
  [CMSG_GUILD_BANK_BUY_TAB |-> PlainCmsg(<<8, 1>>, 8 + 1, 9),
   CMSG_GUILD_BANK_UPDATE_TAB |-> [w \in OfLength |->
     Cmsg(
       Ints(<<8, 1>>) \o Cstring(w) \o Cstring(w), 8 + 1 + 2 * write_cstring(w), 11 + 2 * w.len)],
   CMSG_GUILD_BANK_DEPOSIT_MONEY |-> PlainCmsg(<<8, 4>>, 8 + 4, 12),
   CMSG_GUILD_BANK_WITHDRAW_MONEY |-> PlainCmsg(<<8, 4>>, 8 + 4, 12),
   MSG_GUILD_BANK_LOG_QUERY_Client |-> PlainCmsg(<<1>>, 1, 1)]

tbc_FromMsgGuildBankLogQuery ==
  [MSG_GUILD_BANK_LOG_QUERY_Server |-> [w \in OfCount |->
     Smsg(Ints(<<4, 1, 1>>) \o Each(U8(w.count), tbc_MoneyLogItem.read),
          4 + 2 * 1 + w.count * tbc_MoneyLogItem.written, 6 + 17 * w.count)],
   CMSG_SET_CHANNEL_WATCH |-> [w \in OfLength |->
     Cmsg(Cstring(w), write_cstring(w), 1 + w.len)],
   SMSG_USERLIST_ADD |-> [w \in OfLength |->
     Smsg(Ints(<<8, 1, 1, 4>>) \o Cstring(w), 8 + 2 * 1 + 4 + write_cstring(w), 15 + w.len)]]

tbc_FromSmsgUserlistRemove ==
  [SMSG_USERLIST_REMOVE |-> [w \in OfLength |->
     Smsg(Ints(<<8, 1, 4>>) \o Cstring(w), 8 + 1 + 4 + write_cstring(w), 14 + w.len)],
   SMSG_USERLIST_UPDATE |-> [w \in OfLength |->
     Smsg(Ints(<<8, 1, 1, 4>>) \o Cstring(w), 8 + 2 * 1 + 4 + write_cstring(w), 15 + w.len)],
   CMSG_CLEAR_CHANNEL_WATCH |-> [w \in OfLength |->
     Cmsg(Cstring(w), write_cstring(w), 1 + w.len)],
   SMSG_INSPECT_TALENT |-> [w \in OfLengthAndCount |->
     Smsg(Counted(wwm_packed_guid_size(w), PackedGuid(w)) \o Endless(w.count, Ints(<<1>>), 1),
          write_packed_guid(w) + w.count, wwm_packed_guid_size(w) + w.count)]]

tbc_FromCmsgSpellclick ==
  [CMSG_SPELLCLICK |-> PlainCmsg(<<8>>, 8, 8),
   SMSG_LOOT_LIST |-> [w \in OfLength |->
     Smsg(Ints(<<8>>) \o PackedGuid(w) \o PackedGuid(w),
          8 + 2 * write_packed_guid(w), 8 + 2 * wwm_packed_guid_size(w))],
   MSG_GUILD_PERMISSIONS_Client |-> EmptyCmsg(0),
   MSG_GUILD_PERMISSIONS_Server |-> [w \in {Fixed} |->
     Smsg(
       Ints(<<4, 4, 4, 1>>) \o Each(6, tbc_BankTab.read), 3 * 4 + 1 + 6 * tbc_BankTab.written, 61)],
   MSG_GUILD_BANK_MONEY_WITHDRAWN_Client |-> EmptyCmsg(0),
   MSG_GUILD_BANK_MONEY_WITHDRAWN_Server |-> PlainSmsg(<<4>>, 4, 4)]

tbc_FromMsgGuildEventLogQuery ==
  [MSG_GUILD_EVENT_LOG_QUERY_Client |-> EmptyCmsg(0),
   MSG_GUILD_EVENT_LOG_QUERY_Server |->
     [w \in Wires({0}, Counts, {{"GuildEvent::JOINED", "GuildEvent::PROMOTION", "GuildEvent::MOTD"}},
                  {}) |->
       Smsg(Ints(<<1>>) \o Each(U8(w.count), tbc_GuildLogEvent(w).read),
            1 + w.count * tbc_GuildLogEvent(w).written, 1 + w.count * tbc_GuildLogEvent(w).size)],
   CMSG_GET_MIRRORIMAGE_DATA |-> PlainCmsg(<<8>>, 8, 8),
   SMSG_MIRRORIMAGE_DATA |->
     PlainSmsg(<<8, 4>> \o Repeat(7, 1) \o Repeat(12, 4), 8 + 4 + 7 * 1 + 4 + 11 * 4, 67)]

tbc_FromCmsgKeepAlive ==
  [CMSG_KEEP_ALIVE |-> EmptyCmsg(0),
   CMSG_OPT_OUT_OF_LOOT |-> PlainCmsg(<<4>>, 4, 4),
   MSG_QUERY_GUILD_BANK_TEXT_Client |-> PlainCmsg(<<1>>, 1, 1),
   MSG_QUERY_GUILD_BANK_TEXT_Server |-> [w \in OfLength |->
     Smsg(Ints(<<1>>) \o Cstring(w), 1 + write_cstring(w), 2 + w.len)],
   CMSG_SET_GUILD_BANK_TEXT |-> [w \in OfLength |->
     Cmsg(Ints(<<1>>) \o Cstring(w), 1 + write_cstring(w), 2 + w.len)],
   CMSG_GRANT_LEVEL |-> [w \in OfLength |->
     Cmsg(PackedGuid(w), write_packed_guid(w), wwm_packed_guid_size(w))]]

tbc_FromSmsgOverrideLight ==
  [SMSG_OVERRIDE_LIGHT |-> PlainSmsg(<<4, 4, 4>>, 3 * 4, 12),
   SMSG_TOTEM_CREATED |-> PlainSmsg(<<1, 8, 4, 4>>, 1 + 8 + 2 * 4, 17),
   CMSG_TOTEM_DESTROYED |-> PlainCmsg(<<1>>, 1, 1),
   CMSG_QUESTGIVER_STATUS_MULTIPLE_QUERY |-> EmptyCmsg(0),
   SMSG_QUESTGIVER_STATUS_MULTIPLE |-> [w \in OfCount |->
     Smsg(Ints(<<4>>) \o Each(w.count, tbc_QuestGiverStatusReport.read),
          4 + w.count * tbc_QuestGiverStatusReport.written, 4 + 9 * w.count)]]

tbc_FromCmsgSetPlayerDeclinedNames ==
  [CMSG_SET_PLAYER_DECLINED_NAMES |-> [w \in OfLength |->
     Cmsg(Ints(<<8>>) \o Cstring(w) \o Each(5, Cstring(w)),
          8 + write_cstring(w) + 5 * write_cstring(w), 9 + w.len + 5 * (1 + w.len))],
   SMSG_SET_PLAYER_DECLINED_NAMES_RESULT |-> PlainSmsg(<<4, 8>>, 4 + 8, 12),
   SMSG_SEND_UNLEARN_SPELLS |-> [w \in OfCount |->
     Smsg(Ints(<<4>> \o Repeat(w.count, 4)), 4 + w.count * 4, 4 + 4 * w.count)],
   SMSG_PROPOSE_LEVEL_GRANT |-> [w \in OfLength |->
     Smsg(PackedGuid(w), write_packed_guid(w), wwm_packed_guid_size(w))]]

tbc_FromCmsgAcceptLevelGrant ==
  [CMSG_ACCEPT_LEVEL_GRANT |-> [w \in OfLength |->
     Cmsg(PackedGuid(w), write_packed_guid(w), wwm_packed_guid_size(w))],
   SMSG_REFER_A_FRIEND_FAILURE |->
     [w \in Wires(
              Lengths, {0}, {{"ReferAFriendError::NOT_IN_GROUP", "ReferAFriendError::NONE"}}, {}) |->
       Smsg(Ints(<<4>>) \o When(Is(w, "ReferAFriendError::NOT_IN_GROUP"), Cstring(w)),
            4 + Bytes(Is(w, "ReferAFriendError::NOT_IN_GROUP"), write_cstring(w)),
            4 + Bytes(Is(w, "ReferAFriendError::NOT_IN_GROUP"), 1 + w.len))],
   SMSG_SPLINE_MOVE_SET_FLYING |-> [w \in OfLength |->
     Smsg(PackedGuid(w), write_packed_guid(w), wwm_packed_guid_size(w))],
   SMSG_SPLINE_MOVE_UNSET_FLYING |-> [w \in OfLength |->
     Smsg(PackedGuid(w), write_packed_guid(w), wwm_packed_guid_size(w))]]

tbc_HighGroups ==
  <<tbc_FromCmsgAuthSession, tbc_FromSmsgAuthResponse, tbc_FromMsgSaveGuildEmblem,
    tbc_FromSmsgCompressedUpdateObject, tbc_FromMsgRandomRoll, tbc_FromMsgLookingForGroup,
    tbc_FromCmsgGmticketCreate, tbc_FromCmsgGmticketUpdatetext, tbc_FromCmsgUpdateAccountData,
    tbc_FromSmsgGmticketGetticket, tbc_FromMsgCorpseQuery, tbc_FromCmsgSpiritHealerActivate,
    tbc_FromCmsgGuildRank, tbc_FromSmsgLoginVerifyWorld, tbc_FromSmsgSendMailResult,
    tbc_FromSmsgMailListResult, tbc_FromSmsgItemTextQueryResponse, tbc_FromCmsgMailDelete,
    tbc_FromSmsgSpelllogexecute, tbc_FromSmsgSpellnonmeleedamagelog, tbc_FromCmsgTogglePvp,
    tbc_FromCmsgAuctionSellItem, tbc_FromCmsgAuctionListOwnerItems,
    tbc_FromSmsgAuctionCommandResult, tbc_FromSmsgAuctionListResult,
    tbc_FromSmsgAuctionOwnerNotification, tbc_FromSmsgSpellordamageImmune,
    tbc_FromSmsgSetFlatSpellModifier, tbc_FromCmsgPetCancelAura, tbc_FromCmsgUnstablePet,
    tbc_FromSmsgPlayMusic, tbc_FromCmsgGroupChangeSubGroup, tbc_FromMsgQueryNextMailTime,
    tbc_FromCmsgGroupRaidConvert, tbc_FromCmsgCancelGrowthAura, tbc_FromCmsgLootRoll,
    tbc_FromCmsgLootMasterGive, tbc_FromCmsgRepairItem, tbc_FromCmsgSummonResponse,
    tbc_FromMsgMoveFeatherFall, tbc_FromSmsgAreaTriggerMessage, tbc_FromMsgPetitionRename,
    tbc_FromSmsgPetActionFeedback, tbc_FromCmsgMoveFallReset, tbc_FromCmsgMoveFeatherFallAck,
    tbc_FromSmsgBattlefieldStatus, tbc_FromMsgInspectHonorStats,
    tbc_FromCmsgForceWalkSpeedChangeAck, tbc_FromCmsgForceTurnRateChangeAck,
    tbc_FromSmsgAreaSpiritHealerTime, tbc_FromMsgBattlegroundPlayerPositions,
    tbc_FromCmsgBattlemasterJoin, tbc_FromSmsgPartyMemberStatsFull, tbc_FromCmsgPetSpellAutocast,
    tbc_FromSmsgSplineSetRunSpeed, tbc_FromSmsgSplineSetSwimBackSpeed,
    tbc_FromSmsgSplineMoveSetHover, tbc_FromSmsgSplineMoveStopSwim,
    tbc_FromCmsgSetWatchedFaction, tbc_FromSmsgInstanceResetFailed, tbc_FromMsgRaidReadyCheck,
    tbc_FromSmsgGmTicketStatusUpdate, tbc_FromSmsgChatPlayerAmbiguous, tbc_FromSmsgSpellsteallog,
    tbc_FromSmsgMoveSetFlight, tbc_FromCmsgMoveSetCanFlyAck, tbc_FromSmsgArenaTeamQueryResponse,
    tbc_FromCmsgArenaTeamInvite, tbc_FromCmsgArenaTeamDisband, tbc_FromSmsgArenaTeamEvent,
    tbc_FromCmsgBattlemasterJoinArena, tbc_FromSmsgArenaTeamStats, tbc_FromCmsgSetLfgComment,
    tbc_FromSmsgLfgUpdateLfg, tbc_FromMsgInspectArenaTeams, tbc_FromMsgMoveSetFlightSpeed,
    tbc_FromCmsgForceFlightSpeedChangeAck, tbc_FromSmsgSplineSetFlightBackSpeed,
    tbc_FromCmsgMoveChngTransport, tbc_FromSmsgUpdateComboPoints, tbc_FromSmsgClearExtraAuraInfo,
    tbc_FromMsgRaidReadyCheckConfirm, tbc_FromSmsgGmMessagechat, tbc_FromSmsgClearTarget,
    tbc_FromCmsgComplain, tbc_FromCmsgChannelDisplayList, tbc_FromCmsgReportPvpAfk,
    tbc_FromSmsgGuildBankList, tbc_FromCmsgGuildBankSwapItems, tbc_FromCmsgGuildBankBuyTab,
    tbc_FromMsgGuildBankLogQuery, tbc_FromSmsgUserlistRemove, tbc_FromCmsgSpellclick,
    tbc_FromMsgGuildEventLogQuery, tbc_FromCmsgKeepAlive, tbc_FromSmsgOverrideLight,
    tbc_FromCmsgSetPlayerDeclinedNames, tbc_FromCmsgAcceptLevelGrant>>

tbc_Messages == tbc_LowGroups \o tbc_HighGroups
=============================================================================
