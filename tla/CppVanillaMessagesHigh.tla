---------------------- MODULE CppVanillaMessagesHigh ----------------------
(*****************************************************************************)
(* The messages of the 1.12 version of the world protocol from               *)
(* CMSG_SELL_ITEM to SMSG_DEFENSE_MESSAGE, in the order of                   *)
(* src/wow_world_messages_cpp/src/vanilla.cpp.                               *)
(*                                                                           *)
(* A message is a function from its wires to records of what its functions   *)
(* do on them. Neighbours are defined together, in a record named for the    *)
(* first. A message of which every function does what that of an earlier     *)
(* message does is defined as that message.                                  *)
(*****************************************************************************)
EXTENDS CppVanillaMessagesLow

vanilla_FromCmsgSellItem ==
  [CMSG_SELL_ITEM |-> PlainCmsg(<<8, 8, 1>>, 2 * 8 + 1, 17),
   SMSG_SELL_ITEM |-> PlainSmsg(<<8, 8, 1>>, 2 * 8 + 1, 17),
   CMSG_BUY_ITEM |-> PlainCmsg(<<8, 4, 1, 1>>, 8 + 4 + 2 * 1, 14),
   CMSG_BUY_ITEM_IN_SLOT |-> PlainCmsg(<<8, 4, 8, 1, 1>>, 8 + 4 + 8 + 2 * 1, 22)]

vanilla_FromSmsgBuyItem ==
  [SMSG_BUY_ITEM |-> PlainSmsg(<<8, 4, 4, 4>>, 8 + 3 * 4, 20),
   SMSG_BUY_FAILED |-> PlainSmsg(<<8, 4, 1>>, 8 + 4 + 1, 13),
   SMSG_SHOWTAXINODES |-> [w \in OfCount |->
     Smsg(Counted(16, Ints(<<4, 8, 4>>)) \o Endless(w.count, Ints(<<4>>), 4),
          4 + 8 + 4 + w.count * 4, 16 + 4 * w.count)],
   CMSG_TAXINODE_STATUS_QUERY |-> PlainCmsg(<<8>>, 8, 8)]

vanilla_FromSmsgTaxinodeStatus ==
  [SMSG_TAXINODE_STATUS |-> PlainSmsg(<<8, 1>>, 8 + 1, 9),
   CMSG_TAXIQUERYAVAILABLENODES |-> PlainCmsg(<<8>>, 8, 8),
   CMSG_ACTIVATETAXI |-> PlainCmsg(<<8, 4, 4>>, 8 + 2 * 4, 16),
   SMSG_ACTIVATETAXIREPLY |-> PlainSmsg(<<4>>, 4, 4),
   SMSG_NEW_TAXI_PATH |-> EmptySmsg(0),
   CMSG_TRAINER_LIST |-> PlainCmsg(<<8>>, 8, 8)]

vanilla_FromSmsgTrainerList ==
  [SMSG_TRAINER_LIST |-> [w \in OfLengthAndCount |->
     Smsg(Ints(<<8, 4, 4>>) \o Each(w.count, vanilla_TrainerSpell.read) \o Cstring(w),
          8 + 2 * 4 + w.count * vanilla_TrainerSpell.written + write_cstring(w),
          17 + w.len + 38 * w.count)],
   CMSG_TRAINER_BUY_SPELL |-> PlainCmsg(<<8, 4>>, 8 + 4, 12),
   SMSG_TRAINER_BUY_SUCCEEDED |-> PlainSmsg(<<8, 4>>, 8 + 4, 12),
   SMSG_TRAINER_BUY_FAILED |-> PlainSmsg(<<8, 4, 4>>, 8 + 2 * 4, 16)]

vanilla_FromCmsgBinderActivate ==
  [CMSG_BINDER_ACTIVATE |-> PlainCmsg(<<8>>, 8, 8),
   CMSG_BANKER_ACTIVATE |-> PlainCmsg(<<8>>, 8, 8),
   SMSG_SHOW_BANK |-> PlainSmsg(<<8>>, 8, 8),
   CMSG_BUY_BANK_SLOT |-> PlainCmsg(<<8>>, 8, 8),
   SMSG_BUY_BANK_SLOT_RESULT |-> PlainSmsg(<<4>>, 4, 4),
   CMSG_PETITION_SHOWLIST |-> PlainCmsg(<<8>>, 8, 8)]

vanilla_FromSmsgPetitionShowlist ==
  [SMSG_PETITION_SHOWLIST |-> [w \in OfCount |->
     Smsg(Ints(<<8, 1>>) \o Each(U8(w.count), vanilla_PetitionShowlist.read),
          8 + 1 + w.count * vanilla_PetitionShowlist.written, 9 + 20 * w.count)],
   CMSG_PETITION_BUY |-> [w \in OfLength |->
     Cmsg(Ints(<<8, 4, 8>>) \o Cstring(w) \o Ints(Repeat(10, 4) \o <<2, 1, 4, 4>>),
          8 + 4 + 8 + write_cstring(w) + 10 * 4 + 2 + 1 + 2 * 4, 72 + w.len)]]

vanilla_FromCmsgPetitionShowSignatures ==
  [CMSG_PETITION_SHOW_SIGNATURES |-> PlainCmsg(<<8>>, 8, 8),
   SMSG_PETITION_SHOW_SIGNATURES |-> [w \in OfCount |->
     Smsg(Ints(<<8, 8, 4, 1>>) \o Each(U8(w.count), vanilla_PetitionSignature.read),
          2 * 8 + 4 + 1 + w.count * vanilla_PetitionSignature.written, 21 + 12 * w.count)],
   CMSG_PETITION_SIGN |-> PlainCmsg(<<8, 1>>, 8 + 1, 9),
   SMSG_PETITION_SIGN_RESULTS |-> PlainSmsg(<<8, 8, 4>>, 2 * 8 + 4, 20),
   MSG_PETITION_DECLINE_cmsg |-> [w \in {Fixed} |-> Client(vanilla_MSG_PETITION_DECLINE)]]

vanilla_FromMsgPetitionDecline ==
  [MSG_PETITION_DECLINE_smsg |-> [w \in {Fixed} |-> Server(vanilla_MSG_PETITION_DECLINE)],
   CMSG_OFFER_PETITION |-> PlainCmsg(<<8, 8>>, 2 * 8, 16),
   CMSG_TURN_IN_PETITION |-> PlainCmsg(<<8>>, 8, 8),
   SMSG_TURN_IN_PETITION_RESULTS |-> PlainSmsg(<<4>>, 4, 4),
   CMSG_PETITION_QUERY |-> PlainCmsg(<<4, 8>>, 4 + 8, 12)]

vanilla_FromSmsgPetitionQueryResponse ==
  [SMSG_PETITION_QUERY_RESPONSE |-> [w \in OfLength |->
     Smsg(Ints(<<4, 8>>) \o Cstring(w) \o Cstring(w) \o Ints(Repeat(8, 4) \o <<2, 4, 4, 4, 4>>),
          4 + 8 + 2 * write_cstring(w) + 8 * 4 + 2 + 4 * 4, 64 + 2 * w.len)],
   SMSG_FISH_NOT_HOOKED |-> EmptySmsg(0),
   SMSG_FISH_ESCAPED |-> EmptySmsg(0),
   CMSG_BUG |-> [w \in OfLength |->
     Cmsg(Ints(<<4>>) \o SizedCstring(w) \o SizedCstring(w),
          4 + 2 * write_sized_cstring(w), 14 + 2 * w.len)]]

vanilla_FromSmsgNotification ==
  [SMSG_NOTIFICATION |-> [w \in OfLength |->
     Smsg(Cstring(w), write_cstring(w), 1 + w.len)],
   CMSG_PLAYED_TIME |-> EmptyCmsg(0),
   SMSG_PLAYED_TIME |-> PlainSmsg(<<4, 4>>, 2 * 4, 8),
   CMSG_QUERY_TIME |-> EmptyCmsg(0),
   SMSG_QUERY_TIME_RESPONSE |-> PlainSmsg(<<4>>, 4, 4)]

vanilla_FromSmsgLogXpgain ==
  [SMSG_LOG_XPGAIN |->
     [w \in Wires({0}, {0}, {{"ExperienceAwardType::NON_KILL", "ExperienceAwardType::KILL"}}, {}) |->
       Smsg(Ints(<<8, 4, 1>>) \o When(Is(w, "ExperienceAwardType::NON_KILL"), Ints(<<4, 4>>)),
            8 + 4 + 1 + Bytes(Is(w, "ExperienceAwardType::NON_KILL"), 2 * 4),
            13 + Bytes(Is(w, "ExperienceAwardType::NON_KILL"), 8))],
   CMSG_RECLAIM_CORPSE |-> PlainCmsg(<<8>>, 8, 8),
   CMSG_WRAP_ITEM |-> PlainCmsg(<<1, 1, 1, 1>>, 4 * 1, 4)]

vanilla_FromSmsgLevelupInfo ==
  [SMSG_LEVELUP_INFO |-> PlainSmsg(Repeat(12, 4), 12 * 4, 48),
   MSG_MINIMAP_PING_Client |-> PlainCmsg(<<4, 4>>, 2 * 4, 8),
   MSG_MINIMAP_PING_Server |-> PlainSmsg(<<8, 4, 4>>, 8 + 2 * 4, 16)]

vanilla_FromSmsgResistlog ==
  [SMSG_RESISTLOG |-> PlainSmsg(<<8, 8>> \o Repeat(5, 4), 2 * 8 + 5 * 4, 36),
   SMSG_ENCHANTMENTLOG |-> PlainSmsg(<<8, 8, 4, 4, 1>>, 2 * 8 + 2 * 4 + 1, 25),
   SMSG_START_MIRROR_TIMER |-> PlainSmsg(<<4, 4, 4, 4, 1, 4>>, 4 * 4 + 1 + 4, 21)]

vanilla_FromSmsgPauseMirrorTimer ==
  [SMSG_PAUSE_MIRROR_TIMER |-> PlainSmsg(<<4, 1>>, 4 + 1, 5),
   SMSG_STOP_MIRROR_TIMER |-> PlainSmsg(<<4>>, 4, 4),
   CMSG_PING |-> PlainCmsg(<<4, 4>>, 2 * 4, 8),
   SMSG_PONG |-> PlainSmsg(<<4>>, 4, 4),
   SMSG_CLEAR_COOLDOWN |-> PlainSmsg(<<4, 8>>, 4 + 8, 12),
   SMSG_GAMEOBJECT_PAGETEXT |-> PlainSmsg(<<8>>, 8, 8)]

vanilla_FromCmsgSetsheathed ==
  [CMSG_SETSHEATHED |-> PlainCmsg(<<4>>, 4, 4),
   SMSG_SPELL_DELAYED |-> PlainSmsg(<<8, 4>>, 8 + 4, 12),
   SMSG_ITEM_TIME_UPDATE |-> PlainSmsg(<<8, 4>>, 8 + 4, 12),
   SMSG_ITEM_ENCHANT_TIME_UPDATE |-> PlainSmsg(<<8, 4, 4, 8>>, 8 + 2 * 4 + 8, 24),
   SMSG_AUTH_CHALLENGE |-> PlainSmsg(<<4>>, 4, 4)]

vanilla_FromCmsgAuthSession ==
  [CMSG_AUTH_SESSION |-> [w \in OfLengthAndCount |->
     Cmsg(
       Counted(33 + w.len, Ints(<<4, 4>>) \o Cstring(w) \o Ints(<<4>> \o Repeat(20, 1)))
       \o ReturnAtEnd \o Counted(4, Ints(<<4>>)) \o TakeRest
       \o When(w.count > 0,
               InflateMember(w.count * vanilla_AddonInfo(w).written)
               \o UntilEnd(w.count, vanilla_AddonInfo(w).read)),
       2 * 4 + write_cstring(w) + 4 + 20 + 4
       + Bytes(w.count > 0, wwm_compress_data_size(w.count * vanilla_AddonInfo(w).written)),
       33 + w.len
       + Bytes(w.count > 0, wwm_compress_data_size(w.count * vanilla_AddonInfo(w).size)))]]

vanilla_FromSmsgAuthResponse ==
  [SMSG_AUTH_RESPONSE |->
     [w \in Wires({0}, {0},
                  {{"WorldResult::AUTH_OK", "WorldResult::AUTH_WAIT_QUEUE",
                    "WorldResult::RESPONSE_SUCCESS"}}, {}) |->
       Smsg(
         Ints(<<1>>) \o When(Is(w, "WorldResult::AUTH_OK"), Ints(<<4, 1, 4>>))
         \o When(Is(w, "WorldResult::AUTH_WAIT_QUEUE"), Ints(<<4>>)),
         1 + Bytes(Is(w, "WorldResult::AUTH_OK"), 4 + 1 + 4)
         + Bytes(Is(w, "WorldResult::AUTH_WAIT_QUEUE"), 4),
         1 + Bytes(Is(w, "WorldResult::AUTH_OK"), 9)
         + Bytes(Is(w, "WorldResult::AUTH_WAIT_QUEUE"), 4))],
   CMSG_PET_CAST_SPELL |-> [w \in Wires(Lengths, {0}, {}, vanilla_SpellCastTargetsFlags) |->
     Cmsg(Ints(<<8, 4>>) \o vanilla_SpellCastTargets(w).read,
          8 + 4 + vanilla_SpellCastTargets(w).written, 12 + vanilla_SpellCastTargets(w).size)],
   MSG_SAVE_GUILD_EMBLEM_Server |-> PlainSmsg(<<4>>, 4, 4)]

vanilla_FromMsgSaveGuildEmblem ==
  [MSG_SAVE_GUILD_EMBLEM_Client |-> PlainCmsg(<<8>> \o Repeat(5, 4), 8 + 5 * 4, 28),
   MSG_TABARDVENDOR_ACTIVATE_cmsg |->
     [w \in {Fixed} |-> Client(vanilla_MSG_TABARDVENDOR_ACTIVATE)],
   MSG_TABARDVENDOR_ACTIVATE_smsg |->
     [w \in {Fixed} |-> Server(vanilla_MSG_TABARDVENDOR_ACTIVATE)],
   SMSG_PLAY_SPELL_VISUAL |-> PlainSmsg(<<8, 4>>, 8 + 4, 12),
   CMSG_ZONEUPDATE |-> PlainCmsg(<<4>>, 4, 4)]

vanilla_FromSmsgPartykilllog ==
  [SMSG_PARTYKILLLOG |-> PlainSmsg(<<8, 8>>, 2 * 8, 16),
   SMSG_COMPRESSED_UPDATE_OBJECT |->
     [w \in Wires(Lengths, UpdatedObjects, vanilla_ObjectEnums, vanilla_ObjectFlags) |->
       CompressedSmsg(
         Ints(<<4>>) \o Take(4) \o Inflate(5 + w.count * vanilla_Object(w).written)
         \o Ints(<<4, 1>>) \o Each(w.count, vanilla_Object(w).read),
         5 + w.count * vanilla_Object(w).written)],
   SMSG_PLAY_SPELL_IMPACT |-> PlainSmsg(<<8, 4>>, 8 + 4, 12)]

vanilla_FromSmsgExplorationExperience ==
  [SMSG_EXPLORATION_EXPERIENCE |-> PlainSmsg(<<4, 4>>, 2 * 4, 8),
   MSG_RANDOM_ROLL_Client |-> PlainCmsg(<<4, 4>>, 2 * 4, 8),
   MSG_RANDOM_ROLL_Server |-> PlainSmsg(<<4, 4, 4, 8>>, 3 * 4 + 8, 20),
   SMSG_ENVIRONMENTAL_DAMAGE_LOG |-> PlainSmsg(<<8, 1, 4, 4, 4>>, 8 + 1 + 3 * 4, 21),
   MSG_LOOKING_FOR_GROUP_Client |-> EmptyCmsg(0)]

vanilla_FromMsgLookingForGroup ==
  [MSG_LOOKING_FOR_GROUP_Server |-> PlainSmsg(<<4>>, 4, 4),
   CMSG_UNLEARN_SKILL |-> PlainCmsg(<<4>>, 4, 4),
   SMSG_REMOVED_SPELL |-> PlainSmsg(<<2>>, 2, 2)]

vanilla_FromCmsgGmticketCreate ==
  [CMSG_GMTICKET_CREATE |->
     [w \in Wires(Lengths, Counts, {{"GmTicketType::BEHAVIOR_HARASSMENT", "GmTicketType::STUCK"}},
                  {}) |->
       Cmsg(
         Counted(19 + 2 * w.len, Ints(<<1, 4>>) \o Vector3d.read \o Cstring(w) \o Cstring(w))
         \o When(Is(w, "GmTicketType::BEHAVIOR_HARASSMENT"),
                 Counted(4, Ints(<<4>>)) \o ReturnAtEnd \o Counted(4, Ints(<<4>>)) \o TakeRest
                 \o When(w.count > 0, InflateMember(w.count) \o UntilEnd(w.count, Ints(<<1>>)))),
         1 + 4 + Vector3d.written + 2 * write_cstring(w)
         + Bytes(Is(w, "GmTicketType::BEHAVIOR_HARASSMENT"),
                 2 * 4 + Bytes(w.count > 0, wwm_compress_data_size(w.count))),
         19 + 2 * w.len
         + Bytes(Is(w, "GmTicketType::BEHAVIOR_HARASSMENT"),
                 4 + Bytes(w.count > 0, wwm_compress_data_size(w.count))))],
   SMSG_GMTICKET_CREATE |-> PlainSmsg(<<4>>, 4, 4)]

vanilla_FromCmsgGmticketUpdatetext ==
  [CMSG_GMTICKET_UPDATETEXT |-> [w \in OfLength |->
     Cmsg(Ints(<<1>>) \o Cstring(w), 1 + write_cstring(w), 2 + w.len)],
   SMSG_GMTICKET_UPDATETEXT |-> PlainSmsg(<<4>>, 4, 4),
   SMSG_ACCOUNT_DATA_TIMES |-> PlainSmsg(Repeat(32, 4), 32 * 4, 128),
   CMSG_REQUEST_ACCOUNT_DATA |-> PlainCmsg(<<4>>, 4, 4)]

vanilla_FromCmsgUpdateAccountData ==
  [CMSG_UPDATE_ACCOUNT_DATA |-> [w \in OfCount |->
     Cmsg(
       Counted(4, Ints(<<4>>)) \o ReturnAtEnd \o Counted(4, Ints(<<4>>)) \o TakeRest
       \o When(w.count > 0, InflateMember(w.count) \o UntilEnd(w.count, Ints(<<1>>))),
       2 * 4 + Bytes(w.count > 0, wwm_compress_data_size(w.count)),
       4 + Bytes(w.count > 0, wwm_compress_data_size(w.count)))],
   CMSG_GMTICKET_GETTICKET |-> EmptyCmsg(0)]

vanilla_FromSmsgGmticketGetticket ==
  [SMSG_GMTICKET_GETTICKET |->
     [w \in Wires(Lengths, {0}, {{"GmTicketStatus::HAS_TEXT", "GmTicketStatus::DB_ERROR"}}, {}) |->
       Smsg(
         Ints(<<4>>)
         \o When(Is(w, "GmTicketStatus::HAS_TEXT"), Cstring(w) \o Ints(<<1, 4, 4, 4, 1, 1>>)),
         4 + Bytes(Is(w, "GmTicketStatus::HAS_TEXT"), write_cstring(w) + 1 + 3 * 4 + 2 * 1),
         4 + Bytes(Is(w, "GmTicketStatus::HAS_TEXT"), 16 + w.len))],
   SMSG_GAMEOBJECT_SPAWN_ANIM |-> PlainSmsg(<<8>>, 8, 8),
   SMSG_GAMEOBJECT_DESPAWN_ANIM |-> PlainSmsg(<<8>>, 8, 8),
   MSG_CORPSE_QUERY_Client |-> EmptyCmsg(0)]

vanilla_FromMsgCorpseQuery ==
  [MSG_CORPSE_QUERY_Server |->
     [w \in Wires({0}, {0}, {{"CorpseQueryResult::FOUND", "CorpseQueryResult::NOT_FOUND"}}, {}) |->
       Smsg(
         Ints(<<1>>)
         \o When(Is(w, "CorpseQueryResult::FOUND"), Ints(<<4>>) \o Vector3d.read \o Ints(<<4>>)),
         1 + Bytes(Is(w, "CorpseQueryResult::FOUND"), 4 + Vector3d.written + 4),
         1 + Bytes(Is(w, "CorpseQueryResult::FOUND"), 20))],
   CMSG_GMTICKET_DELETETICKET |-> EmptyCmsg(0),
   SMSG_GMTICKET_DELETETICKET |-> PlainSmsg(<<4>>, 4, 4),
   SMSG_CHAT_WRONG_FACTION |-> EmptySmsg(0),
   CMSG_GMTICKET_SYSTEMSTATUS |-> EmptyCmsg(0),
   SMSG_GMTICKET_SYSTEMSTATUS |-> PlainSmsg(<<4>>, 4, 4)]

vanilla_FromCmsgSpiritHealerActivate ==
  [CMSG_SPIRIT_HEALER_ACTIVATE |-> PlainCmsg(<<8>>, 8, 8),
   SMSG_SET_REST_START |-> PlainSmsg(<<4>>, 4, 4),
   SMSG_SPIRIT_HEALER_CONFIRM |-> PlainSmsg(<<8>>, 8, 8),
   SMSG_GOSSIP_POI |-> [w \in OfLength |->
     Smsg(Ints(<<4>>) \o Vector2d.read \o Ints(<<4, 4>>) \o Cstring(w),
          4 + Vector2d.written + 2 * 4 + write_cstring(w), 21 + w.len)],
   CMSG_CHAT_IGNORED |-> PlainCmsg(<<8>>, 8, 8)]

vanilla_FromCmsgGuildRank ==
  [CMSG_GUILD_RANK |-> [w \in OfLength |->
     Cmsg(Ints(<<4, 4>>) \o Cstring(w), 2 * 4 + write_cstring(w), 9 + w.len)],
   CMSG_GUILD_ADD_RANK |-> [w \in OfLength |->
     Cmsg(Cstring(w), write_cstring(w), 1 + w.len)],
   CMSG_GUILD_DEL_RANK |-> EmptyCmsg(0),
   CMSG_GUILD_SET_PUBLIC_NOTE |-> [w \in OfLength |->
     Cmsg(Cstring(w) \o Cstring(w), 2 * write_cstring(w), 2 + 2 * w.len)],
   CMSG_GUILD_SET_OFFICER_NOTE |-> [w \in OfLength |->
     Cmsg(Cstring(w) \o Cstring(w), 2 * write_cstring(w), 2 + 2 * w.len)]]

vanilla_FromSmsgLoginVerifyWorld ==
  [SMSG_LOGIN_VERIFY_WORLD |-> [w \in {Fixed} |->
     Smsg(Ints(<<4>>) \o Vector3d.read \o Ints(<<4>>), 4 + Vector3d.written + 4, 20)],
   CMSG_SEND_MAIL |-> [w \in OfLength |->
     Cmsg(Ints(<<8>>) \o Cstring(w) \o Cstring(w) \o Cstring(w) \o Ints(<<4, 4, 8, 4, 4, 4, 4>>),
          8 + 3 * write_cstring(w) + 2 * 4 + 8 + 4 * 4, 43 + 3 * w.len)]]

vanilla_FromSmsgSendMailResult ==
  [SMSG_SEND_MAIL_RESULT |->
     [w \in Wires({0}, {0},
                  {{"MailAction::ITEM_TAKEN", "MailAction::SEND"},
                   {"MailResult::ERR_EQUIP_ERROR", "MailResult::OK"},
                   {"MailResultTwo::ERR_EQUIP_ERROR", "MailResultTwo::OK"}}, {}) |->
       Smsg(
         Ints(<<4, 4>>)
         \o When(Is(w, "MailAction::ITEM_TAKEN"),
                 Ints(<<4>>) \o When(Is(w, "MailResult::ERR_EQUIP_ERROR"), Ints(<<4>>))
                 \o When(Is(w, "MailResult::OK"), Ints(<<4, 4>>)))
         \o When(Is(w, "MailAction::SEND"),
                 Ints(<<4>>) \o When(Is(w, "MailResultTwo::ERR_EQUIP_ERROR"), Ints(<<4>>))),
         2 * 4
         + Bytes(Is(w, "MailAction::ITEM_TAKEN"),
                 4 + Bytes(Is(w, "MailResult::ERR_EQUIP_ERROR"), 4)
                 + Bytes(Is(w, "MailResult::OK"), 2 * 4))
         + Bytes(Is(w, "MailAction::SEND"), 4 + Bytes(Is(w, "MailResultTwo::ERR_EQUIP_ERROR"), 4)),
         8
         + Bytes(
             Is(w, "MailAction::ITEM_TAKEN"),
             4 + Bytes(Is(w, "MailResult::ERR_EQUIP_ERROR"), 4) + Bytes(Is(w, "MailResult::OK"), 8))
         + Bytes(Is(w, "MailAction::SEND"), 4 + Bytes(Is(w, "MailResultTwo::ERR_EQUIP_ERROR"), 4)))],
   CMSG_GET_MAIL_LIST |-> PlainCmsg(<<8>>, 8, 8)]

vanilla_FromSmsgMailListResult ==
  [SMSG_MAIL_LIST_RESULT |-> [w \in Wires(Lengths, Counts, vanilla_MailEnums, {}) |->
     Smsg(Ints(<<1>>) \o Each(U8(w.count), vanilla_Mail(w).read),
          1 + w.count * vanilla_Mail(w).written, 1 + w.count * vanilla_Mail(w).size)],
   CMSG_BATTLEFIELD_LIST |-> PlainCmsg(<<4>>, 4, 4),
   SMSG_BATTLEFIELD_LIST |-> [w \in OfCount |->
     Smsg(
       Ints(<<8, 4, 1, 4>> \o Repeat(w.count, 4)), 8 + 4 + 1 + 4 + w.count * 4, 17 + 4 * w.count)],
   CMSG_BATTLEFIELD_JOIN |-> PlainCmsg(<<4>>, 4, 4)]

vanilla_FromCmsgItemTextQuery ==
  [CMSG_ITEM_TEXT_QUERY |-> PlainCmsg(<<4, 4, 4>>, 3 * 4, 12),
   SMSG_ITEM_TEXT_QUERY_RESPONSE |-> [w \in OfLength |->
     Smsg(Ints(<<4>>) \o Cstring(w), 4 + write_cstring(w), 5 + w.len)],
   CMSG_MAIL_TAKE_MONEY |-> PlainCmsg(<<8, 4>>, 8 + 4, 12),
   CMSG_MAIL_TAKE_ITEM |-> PlainCmsg(<<8, 4>>, 8 + 4, 12),
   CMSG_MAIL_MARK_AS_READ |-> PlainCmsg(<<8, 4>>, 8 + 4, 12)]

vanilla_FromCmsgMailReturnToSender ==
  [CMSG_MAIL_RETURN_TO_SENDER |-> PlainCmsg(<<8, 4>>, 8 + 4, 12),
   CMSG_MAIL_DELETE |-> PlainCmsg(<<8, 4>>, 8 + 4, 12),
   CMSG_MAIL_CREATE_TEXT_ITEM |-> PlainCmsg(<<8, 4, 4>>, 8 + 2 * 4, 16),
   SMSG_SPELLLOGMISS |-> [w \in OfCount |->
     Smsg(Ints(<<4, 8, 1, 4>>) \o Each(w.count, vanilla_SpellLogMiss.read),
          4 + 8 + 1 + 4 + w.count * vanilla_SpellLogMiss.written, 17 + 9 * w.count)]]

vanilla_FromSmsgSpelllogexecute ==
  [SMSG_SPELLLOGEXECUTE |-> [w \in Wires(Lengths, Counts, vanilla_SpellLogEnums, {}) |->
     Smsg(PackedGuid(w) \o Ints(<<4, 4>>) \o Each(w.count, vanilla_SpellLog(w).read),
          write_packed_guid(w) + 2 * 4 + w.count * vanilla_SpellLog(w).written,
          8 + wwm_packed_guid_size(w) + w.count * vanilla_SpellLog(w).size)],
   SMSG_PERIODICAURALOG |-> [w \in Wires(Lengths, Counts, vanilla_AuraLogEnums, {}) |->
     Smsg(
       PackedGuid(w) \o PackedGuid(w) \o Ints(<<4, 4>>) \o Each(w.count, vanilla_AuraLog(w).read),
       2 * write_packed_guid(w) + 2 * 4 + w.count * vanilla_AuraLog(w).written,
       8 + 2 * wwm_packed_guid_size(w) + w.count * vanilla_AuraLog(w).size)],
   SMSG_SPELLDAMAGESHIELD |-> PlainSmsg(<<8, 8, 4, 4>>, 2 * 8 + 2 * 4, 24)]

vanilla_FromSmsgSpellnonmeleedamagelog ==
  [SMSG_SPELLNONMELEEDAMAGELOG |-> [w \in OfLength |->
     Smsg(PackedGuid(w) \o PackedGuid(w) \o Ints(<<4, 4, 1, 4, 4, 1, 1, 4, 4, 1>>),
          2 * write_packed_guid(w) + 2 * 4 + 1 + 2 * 4 + 2 * 1 + 2 * 4 + 1,
          28 + 2 * wwm_packed_guid_size(w))],
   CMSG_LEARN_TALENT |-> PlainCmsg(<<4, 4>>, 2 * 4, 8),
   CMSG_TOGGLE_PVP |-> [w \in Wires({0}, {0}, {}, {"set"}) |->
     Cmsg(Optional(Ints(<<1>>)), Bytes(Is(w, "set"), 1), Bytes(Is(w, "set"), 1))]]

vanilla_FromSmsgZoneUnderAttack ==
  [SMSG_ZONE_UNDER_ATTACK |-> PlainSmsg(<<4>>, 4, 4),
   MSG_AUCTION_HELLO_Client |-> PlainCmsg(<<8>>, 8, 8),
   MSG_AUCTION_HELLO_Server |-> PlainSmsg(<<8, 4>>, 8 + 4, 12),
   CMSG_AUCTION_SELL_ITEM |-> PlainCmsg(<<8, 8, 4, 4, 4>>, 2 * 8 + 3 * 4, 28),
   CMSG_AUCTION_REMOVE_ITEM |-> PlainCmsg(<<8, 4>>, 8 + 4, 12)]

vanilla_FromCmsgAuctionListItems ==
  [CMSG_AUCTION_LIST_ITEMS |-> [w \in OfLength |->
     Cmsg(Ints(<<8, 4>>) \o Cstring(w) \o Ints(<<1, 1, 4, 4, 4, 4, 1>>),
          8 + 4 + write_cstring(w) + 2 * 1 + 4 * 4 + 1, 32 + w.len)],
   CMSG_AUCTION_LIST_OWNER_ITEMS |-> PlainCmsg(<<8, 4>>, 8 + 4, 12),
   CMSG_AUCTION_PLACE_BID |-> PlainCmsg(<<8, 4, 4>>, 8 + 2 * 4, 16)]

vanilla_FromSmsgAuctionCommandResult ==
  [SMSG_AUCTION_COMMAND_RESULT |->
     [w \in Wires(
              {0}, {0},
              {{"AuctionCommandAction::BID_PLACED", "AuctionCommandAction::STARTED"},
               {"AuctionCommandResult::OK", "AuctionCommandResult::ERR_INVENTORY",
                "AuctionCommandResult::ERR_HIGHER_BID", "AuctionCommandResult::ERR_DATABASE"},
               {"AuctionCommandResultTwo::ERR_INVENTORY", "AuctionCommandResultTwo::ERR_HIGHER_BID",
                "AuctionCommandResultTwo::OK"}}, {}) |->
       Smsg(
         Ints(<<4, 4>>)
         \o When(Is(w, "AuctionCommandAction::BID_PLACED"),
                 Ints(<<4>>) \o When(Is(w, "AuctionCommandResult::OK"), Ints(<<4>>))
                 \o When(Is(w, "AuctionCommandResult::ERR_INVENTORY"), Ints(<<1>>))
                 \o When(Is(w, "AuctionCommandResult::ERR_HIGHER_BID"), Ints(<<8, 4, 4>>)))
         \o When(Is(w, "AuctionCommandAction::STARTED"),
                 Ints(<<4>>) \o When(Is(w, "AuctionCommandResultTwo::ERR_INVENTORY"), Ints(<<1>>))
                 \o When(Is(w, "AuctionCommandResultTwo::ERR_HIGHER_BID"), Ints(<<8, 4, 4>>))),
         2 * 4
         + Bytes(
             Is(w, "AuctionCommandAction::BID_PLACED"),
             4 + Bytes(Is(w, "AuctionCommandResult::OK"), 4)
             + Bytes(Is(w, "AuctionCommandResult::ERR_INVENTORY"), 1)
             + Bytes(Is(w, "AuctionCommandResult::ERR_HIGHER_BID"), 8 + 2 * 4))
         + Bytes(Is(w, "AuctionCommandAction::STARTED"),
                 4 + Bytes(Is(w, "AuctionCommandResultTwo::ERR_INVENTORY"), 1)
                 + Bytes(Is(w, "AuctionCommandResultTwo::ERR_HIGHER_BID"), 8 + 2 * 4)),
         8
         + Bytes(
             Is(w, "AuctionCommandAction::BID_PLACED"),
             4 + Bytes(Is(w, "AuctionCommandResult::OK"), 4)
             + Bytes(Is(w, "AuctionCommandResult::ERR_INVENTORY"), 1)
             + Bytes(Is(w, "AuctionCommandResult::ERR_HIGHER_BID"), 16))
         + Bytes(Is(w, "AuctionCommandAction::STARTED"),
                 4 + Bytes(Is(w, "AuctionCommandResultTwo::ERR_INVENTORY"), 1)
                 + Bytes(Is(w, "AuctionCommandResultTwo::ERR_HIGHER_BID"), 16)))]]

vanilla_FromSmsgAuctionListResult ==
  [SMSG_AUCTION_LIST_RESULT |-> [w \in OfCount |->
     Smsg(Ints(<<4>>) \o Each(w.count, vanilla_AuctionListItem.read) \o Ints(<<4>>),
          4 + w.count * vanilla_AuctionListItem.written + 4, 8 + 64 * w.count)],
   SMSG_AUCTION_OWNER_LIST_RESULT |-> [w \in OfCount |->
     Smsg(Ints(<<4>>) \o Each(w.count, vanilla_AuctionListItem.read) \o Ints(<<4>>),
          4 + w.count * vanilla_AuctionListItem.written + 4, 8 + 64 * w.count)],
   SMSG_AUCTION_BIDDER_NOTIFICATION |-> PlainSmsg(<<4, 4, 8, 4, 4, 4, 4>>, 2 * 4 + 8 + 4 * 4, 32)]

vanilla_FromSmsgAuctionOwnerNotification ==
  [SMSG_AUCTION_OWNER_NOTIFICATION |-> PlainSmsg(<<4, 4, 4, 8, 4, 4>>, 3 * 4 + 8 + 2 * 4, 28),
   SMSG_PROCRESIST |-> PlainSmsg(<<8, 8, 4, 1>>, 2 * 8 + 4 + 1, 21),
   SMSG_DISPEL_FAILED |-> [w \in OfCount |->
     Smsg(Counted(16, Ints(<<8, 8>>)) \o Endless(w.count, Ints(<<4>>), 4),
          2 * 8 + w.count * 4, 16 + 4 * w.count)]]

vanilla_FromSmsgSpellordamageImmune ==
  [SMSG_SPELLORDAMAGE_IMMUNE |-> PlainSmsg(<<8, 8, 4, 1>>, 2 * 8 + 4 + 1, 21),
   CMSG_AUCTION_LIST_BIDDER_ITEMS |-> [w \in OfCount |->
     Cmsg(Ints(<<8, 4, 4>> \o Repeat(w.count, 4)), 8 + 2 * 4 + w.count * 4, 16 + 4 * w.count)],
   SMSG_AUCTION_BIDDER_LIST_RESULT |-> vanilla_FromSmsgAuctionListResult.SMSG_AUCTION_LIST_RESULT,
   SMSG_SET_FLAT_SPELL_MODIFIER |-> PlainSmsg(<<1, 1, 4>>, 2 * 1 + 4, 6)]

vanilla_FromSmsgSetPctSpellModifier ==
  [SMSG_SET_PCT_SPELL_MODIFIER |-> PlainSmsg(<<1, 1, 4>>, 2 * 1 + 4, 6),
   CMSG_SET_AMMO |-> PlainCmsg(<<4>>, 4, 4),
   SMSG_CORPSE_RECLAIM_DELAY |-> PlainSmsg(<<4>>, 4, 4),
   CMSG_SET_ACTIVE_MOVER |-> PlainCmsg(<<8>>, 8, 8),
   CMSG_PET_CANCEL_AURA |-> PlainCmsg(<<8, 4>>, 8 + 4, 12),
   CMSG_CANCEL_AUTO_REPEAT_SPELL |-> EmptyCmsg(0)]

vanilla_FromMsgListStabledPets ==
  [MSG_LIST_STABLED_PETS_Client |-> PlainCmsg(<<8>>, 8, 8),
   MSG_LIST_STABLED_PETS_Server |-> [w \in OfLengthAndCount |->
     Smsg(Ints(<<8, 1, 1>>) \o Each(U8(w.count), vanilla_StabledPet(w).read),
          8 + 2 * 1 + w.count * vanilla_StabledPet(w).written,
          10 + w.count * vanilla_StabledPet(w).size)],
   CMSG_STABLE_PET |-> PlainCmsg(<<8>>, 8, 8),
   CMSG_UNSTABLE_PET |-> PlainCmsg(<<8, 4>>, 8 + 4, 12),
   CMSG_BUY_STABLE_SLOT |-> PlainCmsg(<<8>>, 8, 8)]

vanilla_FromSmsgStableResult ==
  [SMSG_STABLE_RESULT |-> PlainSmsg(<<1>>, 1, 1),
   CMSG_STABLE_SWAP_PET |-> PlainCmsg(<<8, 4>>, 8 + 4, 12),
   MSG_QUEST_PUSH_RESULT_cmsg |-> [w \in {Fixed} |-> Client(vanilla_MSG_QUEST_PUSH_RESULT)],
   MSG_QUEST_PUSH_RESULT_smsg |-> [w \in {Fixed} |-> Server(vanilla_MSG_QUEST_PUSH_RESULT)],
   SMSG_PLAY_MUSIC |-> PlainSmsg(<<4>>, 4, 4),
   SMSG_PLAY_OBJECT_SOUND |-> PlainSmsg(<<4, 8>>, 4 + 8, 12)]

vanilla_FromCmsgRequestPetInfo ==
  [CMSG_REQUEST_PET_INFO |-> EmptyCmsg(0),
   CMSG_FAR_SIGHT |-> PlainCmsg(<<1>>, 1, 1),
   SMSG_SPELLDISPELLOG |-> [w \in OfLengthAndCount |->
     Smsg(
       PackedGuid(w) \o PackedGuid(w) \o Ints(<<4>> \o Repeat(w.count, 4)),
       2 * write_packed_guid(w) + 4 + w.count * 4, 4 + 2 * wwm_packed_guid_size(w) + 4 * w.count)],
   CMSG_GROUP_CHANGE_SUB_GROUP |-> [w \in OfLength |->
     Cmsg(Cstring(w) \o Ints(<<1>>), write_cstring(w) + 1, 2 + w.len)],
   CMSG_REQUEST_PARTY_MEMBER_STATS |-> PlainCmsg(<<8>>, 8, 8)]

vanilla_FromCmsgGroupSwapSubGroup ==
  [CMSG_GROUP_SWAP_SUB_GROUP |-> [w \in OfLength |->
     Cmsg(Cstring(w) \o Cstring(w), 2 * write_cstring(w), 2 + 2 * w.len)],
   CMSG_AUTOSTORE_BANK_ITEM |-> PlainCmsg(<<1, 1>>, 2 * 1, 2),
   CMSG_AUTOBANK_ITEM |-> PlainCmsg(<<1, 1>>, 2 * 1, 2),
   MSG_QUERY_NEXT_MAIL_TIME_Server |-> PlainSmsg(<<4>>, 4, 4),
   MSG_QUERY_NEXT_MAIL_TIME_Client |-> EmptyCmsg(0),
   SMSG_RECEIVED_MAIL |-> PlainSmsg(<<4>>, 4, 4)]

vanilla_FromSmsgRaidGroupOnly ==
  [SMSG_RAID_GROUP_ONLY |-> PlainSmsg(<<4, 4>>, 2 * 4, 8),
   SMSG_PVP_CREDIT |-> PlainSmsg(<<4, 8, 4>>, 4 + 8 + 4, 16),
   SMSG_AUCTION_REMOVED_NOTIFICATION |-> PlainSmsg(<<4, 4, 4>>, 3 * 4, 12),
   CMSG_GROUP_RAID_CONVERT |-> EmptyCmsg(0),
   CMSG_GROUP_ASSISTANT_LEADER |-> PlainCmsg(<<8, 1>>, 8 + 1, 9)]

vanilla_FromCmsgBuybackItem ==
  [CMSG_BUYBACK_ITEM |-> PlainCmsg(<<8, 4>>, 8 + 4, 12),
   SMSG_SERVER_MESSAGE |-> [w \in OfLength |->
     Smsg(Ints(<<4>>) \o Cstring(w), 4 + write_cstring(w), 5 + w.len)],
   CMSG_MEETINGSTONE_JOIN |-> PlainCmsg(<<8>>, 8, 8),
   CMSG_MEETINGSTONE_LEAVE |-> EmptyCmsg(0),
   SMSG_MEETINGSTONE_SETQUEUE |-> PlainSmsg(<<4, 1>>, 4 + 1, 5),
   CMSG_MEETINGSTONE_INFO |-> EmptyCmsg(0),
   SMSG_MEETINGSTONE_COMPLETE |-> EmptySmsg(0)]

vanilla_FromSmsgMeetingstoneInProgress ==
  [SMSG_MEETINGSTONE_IN_PROGRESS |-> EmptySmsg(0),
   SMSG_MEETINGSTONE_MEMBER_ADDED |-> PlainSmsg(<<8>>, 8, 8),
   CMSG_CANCEL_GROWTH_AURA |-> EmptyCmsg(0),
   SMSG_CANCEL_AUTO_REPEAT |-> EmptySmsg(0),
   SMSG_STANDSTATE_UPDATE |-> PlainSmsg(<<1>>, 1, 1),
   SMSG_LOOT_ALL_PASSED |-> PlainSmsg(<<8, 4, 4, 4, 4>>, 8 + 4 * 4, 24)]

vanilla_FromSmsgLootRollWon ==
  [SMSG_LOOT_ROLL_WON |-> PlainSmsg(<<8, 4, 4, 4, 4, 8, 1, 1>>, 8 + 4 * 4 + 8 + 2 * 1, 34),
   CMSG_LOOT_ROLL |-> PlainCmsg(<<8, 4, 1>>, 8 + 4 + 1, 13),
   SMSG_LOOT_START_ROLL |-> PlainSmsg(<<8>> \o Repeat(5, 4), 8 + 5 * 4, 28)]

vanilla_FromSmsgLootRoll ==
  [SMSG_LOOT_ROLL |-> PlainSmsg(<<8, 4, 8, 4, 4, 4, 1, 1>>, 8 + 4 + 8 + 3 * 4 + 2 * 1, 34),
   CMSG_LOOT_MASTER_GIVE |-> PlainCmsg(<<8, 1, 8>>, 8 + 1 + 8, 17),
   SMSG_LOOT_MASTER_LIST |-> [w \in OfCount |->
     Smsg(Ints(<<1>> \o Repeat(U8(w.count), 8)), 1 + w.count * 8, 1 + 8 * w.count)]]

vanilla_FromSmsgSetForcedReactions ==
  [SMSG_SET_FORCED_REACTIONS |-> [w \in OfCount |->
     Smsg(Ints(<<4>>) \o Each(w.count, vanilla_ForcedReaction.read),
          4 + w.count * vanilla_ForcedReaction.written, 4 + 6 * w.count)],
   SMSG_SPELL_FAILED_OTHER |-> PlainSmsg(<<8, 4>>, 8 + 4, 12),
   SMSG_GAMEOBJECT_RESET_STATE |-> PlainSmsg(<<8>>, 8, 8),
   CMSG_REPAIR_ITEM |-> PlainCmsg(<<8, 8>>, 2 * 8, 16),
   SMSG_CHAT_PLAYER_NOT_FOUND |-> [w \in OfLength |->
     Smsg(Cstring(w), write_cstring(w), 1 + w.len)]]

vanilla_FromMsgTalentWipeConfirm ==
  [MSG_TALENT_WIPE_CONFIRM_Client |-> PlainCmsg(<<8>>, 8, 8),
   MSG_TALENT_WIPE_CONFIRM_Server |-> PlainSmsg(<<8, 4>>, 8 + 4, 12),
   SMSG_SUMMON_REQUEST |-> PlainSmsg(<<8, 4, 4>>, 8 + 2 * 4, 16),
   CMSG_SUMMON_RESPONSE |-> PlainCmsg(<<8>>, 8, 8)]

vanilla_FromSmsgMonsterMoveTransport ==
  [SMSG_MONSTER_MOVE_TRANSPORT |->
     [w \in Wires(Lengths, Counts,
                  {{"MonsterMoveType::FACING_TARGET", "MonsterMoveType::FACING_ANGLE",
                    "MonsterMoveType::FACING_SPOT", "MonsterMoveType::NORMAL"}}, {}) |->
       Smsg(
         PackedGuid(w) \o PackedGuid(w) \o Vector3d.read \o Ints(<<4, 1>>)
         \o When(Is(w, "MonsterMoveType::FACING_TARGET"), Ints(<<8>>))
         \o When(Is(w, "MonsterMoveType::FACING_ANGLE"), Ints(<<4>>))
         \o When(Is(w, "MonsterMoveType::FACING_SPOT"), Vector3d.read) \o Ints(<<4, 4>>)
         \o MonsterMoveSpline(w),
         2 * write_packed_guid(w) + Vector3d.written + 4 + 1
         + Bytes(Is(w, "MonsterMoveType::FACING_TARGET"), 8)
         + Bytes(Is(w, "MonsterMoveType::FACING_ANGLE"), 4)
         + Bytes(Is(w, "MonsterMoveType::FACING_SPOT"), Vector3d.written) + 2 * 4
         + wwm_write_monster_move_spline(w),
         25 + 2 * wwm_packed_guid_size(w) + wwm_monster_move_spline_size(w)
         + Bytes(Is(w, "MonsterMoveType::FACING_TARGET"), 8)
         + Bytes(Is(w, "MonsterMoveType::FACING_ANGLE"), 4)
         + Bytes(Is(w, "MonsterMoveType::FACING_SPOT"), 12))],
   SMSG_PET_BROKEN |-> EmptySmsg(0),
   MSG_MOVE_FEATHER_FALL_Server |->
     vanilla_FromSmsgGameobjectCustomAnim.MSG_MOVE_START_FORWARD_Server]

vanilla_FromMsgMoveWaterWalk ==
  [MSG_MOVE_WATER_WALK_cmsg |-> [w \in Wires(Lengths, {0}, {}, vanilla_MovementInfoFlags) |->
     Client(vanilla_MSG_MOVE_WATER_WALK(w))],
   MSG_MOVE_WATER_WALK_smsg |-> [w \in Wires(Lengths, {0}, {}, vanilla_MovementInfoFlags) |->
     Server(vanilla_MSG_MOVE_WATER_WALK(w))],
   CMSG_SELF_RES |-> EmptyCmsg(0),
   SMSG_FEIGN_DEATH_RESISTED |-> EmptySmsg(0),
   SMSG_DUEL_COUNTDOWN |-> PlainSmsg(<<4>>, 4, 4),
   SMSG_AREA_TRIGGER_MESSAGE |-> [w \in OfLength |->
     Smsg(SizedCstring(w), write_sized_cstring(w), 5 + w.len)],
   CMSG_TOGGLE_HELM |-> EmptyCmsg(0),
   CMSG_TOGGLE_CLOAK |-> EmptyCmsg(0)]

vanilla_FromSmsgMeetingstoneJoinfailed ==
  [SMSG_MEETINGSTONE_JOINFAILED |-> PlainSmsg(<<1>>, 1, 1),
   SMSG_PLAYER_SKINNED |-> PlainSmsg(<<1>>, 1, 1),
   SMSG_DURABILITY_DAMAGE_DEATH |-> EmptySmsg(0),
   CMSG_SET_ACTIONBAR_TOGGLES |-> PlainCmsg(<<1>>, 1, 1),
   MSG_PETITION_RENAME_cmsg |-> [w \in OfLength |->
     Client(vanilla_MSG_PETITION_RENAME(w))],
   MSG_PETITION_RENAME_smsg |-> [w \in OfLength |->
     Server(vanilla_MSG_PETITION_RENAME(w))]]

vanilla_FromSmsgInitWorldStates ==
  [SMSG_INIT_WORLD_STATES |-> [w \in OfCount |->
     Smsg(Ints(<<4, 4, 2>>) \o Each(U16(w.count), vanilla_WorldState.read),
          2 * 4 + 2 + w.count * vanilla_WorldState.written, 10 + 8 * w.count)],
   SMSG_UPDATE_WORLD_STATE |-> [w \in {Fixed} |->
     Smsg(vanilla_WorldState.read, vanilla_WorldState.written, 8)],
   CMSG_ITEM_NAME_QUERY |-> PlainCmsg(<<4, 8>>, 4 + 8, 12),
   SMSG_ITEM_NAME_QUERY_RESPONSE |-> [w \in OfLength |->
     Smsg(Ints(<<4>>) \o Cstring(w), 4 + write_cstring(w), 5 + w.len)],
   SMSG_PET_ACTION_FEEDBACK |-> PlainSmsg(<<1>>, 1, 1)]

vanilla_FromCmsgCharRename ==
  [CMSG_CHAR_RENAME |-> [w \in OfLength |->
     Cmsg(Ints(<<8>>) \o Cstring(w), 8 + write_cstring(w), 9 + w.len)],
   SMSG_CHAR_RENAME |->
     [w \in Wires(Lengths, {0}, {{"WorldResult::RESPONSE_SUCCESS", "WorldResult::RESPONSE_FAILURE"}},
                  {}) |->
       Smsg(Ints(<<1>>) \o When(Is(w, "WorldResult::RESPONSE_SUCCESS"), Ints(<<8>>) \o Cstring(w)),
            1 + Bytes(Is(w, "WorldResult::RESPONSE_SUCCESS"), 8 + write_cstring(w)),
            1 + Bytes(Is(w, "WorldResult::RESPONSE_SUCCESS"), 9 + w.len))],
   CMSG_MOVE_SPLINE_DONE |-> [w \in Wires(Lengths, {0}, {}, vanilla_MovementInfoFlags) |->
     Cmsg(vanilla_MovementInfo(w).read \o Ints(<<4, 4>>),
          vanilla_MovementInfo(w).written + 2 * 4, 8 + vanilla_MovementInfo(w).size)],
   CMSG_MOVE_FALL_RESET |-> vanilla_FromSmsgGameobjectCustomAnim.MSG_MOVE_START_FORWARD_Client]

vanilla_FromSmsgInstanceSaveCreated ==
  [SMSG_INSTANCE_SAVE_CREATED |-> PlainSmsg(<<4>>, 4, 4),
   SMSG_RAID_INSTANCE_INFO |-> [w \in OfCount |->
     Smsg(Ints(<<4>>) \o Each(w.count, vanilla_RaidInfo.read),
          4 + w.count * vanilla_RaidInfo.written, 4 + 12 * w.count)],
   CMSG_REQUEST_RAID_INFO |-> EmptyCmsg(0),
   CMSG_MOVE_TIME_SKIPPED |-> PlainCmsg(<<8, 4>>, 8 + 4, 12),
   CMSG_MOVE_FEATHER_FALL_ACK |-> vanilla_FromSmsgMoveLandWalk.CMSG_FORCE_RUN_SPEED_CHANGE_ACK]

vanilla_FromCmsgMoveWaterWalkAck ==
  [CMSG_MOVE_WATER_WALK_ACK |-> vanilla_FromSmsgMoveLandWalk.CMSG_FORCE_RUN_SPEED_CHANGE_ACK,
   CMSG_MOVE_NOT_ACTIVE_MOVER |-> [w \in Wires(Lengths, {0}, {}, vanilla_MovementInfoFlags) |->
     Cmsg(Ints(<<8>>) \o vanilla_MovementInfo(w).read,
          8 + vanilla_MovementInfo(w).written, 8 + vanilla_MovementInfo(w).size)],
   SMSG_PLAY_SOUND |-> PlainSmsg(<<4>>, 4, 4),
   CMSG_BATTLEFIELD_STATUS |-> EmptyCmsg(0)]

vanilla_FromSmsgBattlefieldStatus ==
  [SMSG_BATTLEFIELD_STATUS |->
     [w \in Wires({0}, {0},
                  {{"Map::KALIMDOR", "Map::EASTERN_KINGDOMS"},
                   {"StatusId::WAIT_QUEUE", "StatusId::WAIT_JOIN", "StatusId::IN_PROGRESS",
                    "StatusId::NONE"}}, {}) |->
       Smsg(
         Ints(<<4, 4>>)
         \o When(Is(w, "Map::KALIMDOR"),
                 Ints(<<1, 4, 1>>) \o When(Is(w, "StatusId::WAIT_QUEUE"), Ints(<<4, 4>>))
                 \o When(Is(w, "StatusId::WAIT_JOIN"), Ints(<<4>>))
                 \o When(Is(w, "StatusId::IN_PROGRESS"), Ints(<<4, 4>>))),
         2 * 4
         + Bytes(
             Is(w, "Map::KALIMDOR"),
             1 + 4 + 1 + Bytes(Is(w, "StatusId::WAIT_QUEUE"), 2 * 4)
             + Bytes(Is(w, "StatusId::WAIT_JOIN"), 4)
             + Bytes(Is(w, "StatusId::IN_PROGRESS"), 2 * 4)),
         8
         + Bytes(
             Is(w, "Map::KALIMDOR"),
             6 + Bytes(Is(w, "StatusId::WAIT_QUEUE"), 8) + Bytes(Is(w, "StatusId::WAIT_JOIN"), 4)
             + Bytes(Is(w, "StatusId::IN_PROGRESS"), 8)))],
   CMSG_BATTLEFIELD_PORT |-> PlainCmsg(<<4, 1>>, 4 + 1, 5),
   MSG_INSPECT_HONOR_STATS_Client |-> PlainCmsg(<<8>>, 8, 8)]

vanilla_FromMsgInspectHonorStats ==
  [MSG_INSPECT_HONOR_STATS_Server |->
     PlainSmsg(
       <<8, 1, 4>> \o Repeat(6, 2) \o Repeat(6, 4) \o <<1>>, 8 + 1 + 4 + 6 * 2 + 6 * 4 + 1, 50),
   CMSG_BATTLEMASTER_HELLO |-> PlainCmsg(<<8>>, 8, 8),
   SMSG_FORCE_WALK_SPEED_CHANGE |-> [w \in OfLength |->
     Smsg(
       PackedGuid(w) \o Ints(<<4, 4>>), write_packed_guid(w) + 2 * 4, 8 + wwm_packed_guid_size(w))]]

vanilla_FromCmsgForceWalkSpeedChangeAck ==
  [CMSG_FORCE_WALK_SPEED_CHANGE_ACK |->
     vanilla_FromSmsgMoveLandWalk.CMSG_FORCE_RUN_SPEED_CHANGE_ACK,
   SMSG_FORCE_SWIM_BACK_SPEED_CHANGE |-> [w \in OfLength |->
     Smsg(
       PackedGuid(w) \o Ints(<<4, 4>>), write_packed_guid(w) + 2 * 4, 8 + wwm_packed_guid_size(w))],
   CMSG_FORCE_SWIM_BACK_SPEED_CHANGE_ACK |->
     vanilla_FromSmsgMoveLandWalk.CMSG_FORCE_RUN_SPEED_CHANGE_ACK,
   SMSG_FORCE_TURN_RATE_CHANGE |-> [w \in OfLength |->
     Smsg(
       PackedGuid(w) \o Ints(<<4, 4>>), write_packed_guid(w) + 2 * 4, 8 + wwm_packed_guid_size(w))]]

vanilla_FromCmsgForceTurnRateChangeAck ==
  [CMSG_FORCE_TURN_RATE_CHANGE_ACK |->
     vanilla_FromSmsgMoveLandWalk.CMSG_FORCE_RUN_SPEED_CHANGE_ACK,
   MSG_PVP_LOG_DATA_Client |-> EmptyCmsg(0),
   MSG_PVP_LOG_DATA_Server |->
     [w \in Wires({0}, Counts,
                  {{"BattlegroundEndStatus::ENDED", "BattlegroundEndStatus::NOT_ENDED"}}, {}) |->
       Smsg(
         Ints(<<1>>) \o When(Is(w, "BattlegroundEndStatus::ENDED"), Ints(<<1>>)) \o Ints(<<4>>)
         \o Each(w.count, vanilla_BattlegroundPlayer(w).read),
         1 + Bytes(Is(w, "BattlegroundEndStatus::ENDED"), 1) + 4
         + w.count * vanilla_BattlegroundPlayer(w).written,
         5 + Bytes(Is(w, "BattlegroundEndStatus::ENDED"), 1)
         + w.count * vanilla_BattlegroundPlayer(w).size)],
   CMSG_LEAVE_BATTLEFIELD |-> PlainCmsg(<<4>>, 4, 4)]

vanilla_FromCmsgAreaSpiritHealerQuery ==
  [CMSG_AREA_SPIRIT_HEALER_QUERY |-> PlainCmsg(<<8>>, 8, 8),
   CMSG_AREA_SPIRIT_HEALER_QUEUE |-> PlainCmsg(<<8>>, 8, 8),
   SMSG_AREA_SPIRIT_HEALER_TIME |-> PlainSmsg(<<8, 4>>, 8 + 4, 12),
   SMSG_WARDEN_DATA |-> [w \in OfCount |->
     Smsg(Endless(w.count, Ints(<<1>>), 1), w.count, w.count)],
   CMSG_WARDEN_DATA |-> [w \in OfCount |->
     Cmsg(Endless(w.count, Ints(<<1>>), 1), w.count, w.count)]]

vanilla_FromSmsgGroupJoinedBattleground ==
  [SMSG_GROUP_JOINED_BATTLEGROUND |-> PlainSmsg(<<4>>, 4, 4),
   MSG_BATTLEGROUND_PLAYER_POSITIONS_Client |-> EmptyCmsg(0),
   MSG_BATTLEGROUND_PLAYER_POSITIONS_Server |-> [w \in OfCount |->
     Smsg(
       Ints(<<4>>) \o Each(w.count, vanilla_BattlegroundPlayerPosition.read) \o Ints(<<1>>)
       \o Each(U8(w.count), vanilla_BattlegroundPlayerPosition.read),
       4 + w.count * vanilla_BattlegroundPlayerPosition.written + 1
       + w.count * vanilla_BattlegroundPlayerPosition.written, 5 + 16 * w.count + 16 * w.count)],
   CMSG_PET_STOP_ATTACK |-> PlainCmsg(<<8>>, 8, 8),
   SMSG_BINDER_CONFIRM |-> PlainSmsg(<<8>>, 8, 8),
   SMSG_BATTLEGROUND_PLAYER_JOINED |-> PlainSmsg(<<8>>, 8, 8)]

vanilla_FromSmsgBattlegroundPlayerLeft ==
  [SMSG_BATTLEGROUND_PLAYER_LEFT |-> PlainSmsg(<<8>>, 8, 8),
   CMSG_BATTLEMASTER_JOIN |-> PlainCmsg(<<8, 4, 4, 1>>, 8 + 2 * 4 + 1, 17),
   SMSG_ADDON_INFO |-> [w \in Wires(Lengths, Counts, vanilla_AddonEnums, {}) |->
     Smsg(Endless(w.count, vanilla_Addon(w).read, vanilla_Addon(w).size),
          w.count * vanilla_Addon(w).written, w.count * vanilla_Addon(w).size)],
   CMSG_PET_UNLEARN |-> PlainCmsg(<<8>>, 8, 8),
   SMSG_PET_UNLEARN_CONFIRM |-> PlainSmsg(<<8, 4>>, 8 + 4, 12)]

vanilla_FromSmsgPartyMemberStatsFull ==
  [SMSG_PARTY_MEMBER_STATS_FULL |->
     [w \in Wires(
              Lengths, {0}, {},
              {"GROUP_UPDATE_FLAGS_STATUS", "GROUP_UPDATE_FLAGS_CUR_HP", "GROUP_UPDATE_FLAGS_MAX_HP",
               "GROUP_UPDATE_FLAGS_POWER_TYPE", "GROUP_UPDATE_FLAGS_CUR_POWER",
               "GROUP_UPDATE_FLAGS_MAX_POWER", "GROUP_UPDATE_FLAGS_LEVEL", "GROUP_UPDATE_FLAGS_ZONE",
               "GROUP_UPDATE_FLAGS_POSITION", "GROUP_UPDATE_FLAGS_AURAS",
               "GROUP_UPDATE_FLAGS_PET_GUID", "GROUP_UPDATE_FLAGS_PET_NAME",
               "GROUP_UPDATE_FLAGS_PET_MODEL_ID", "GROUP_UPDATE_FLAGS_PET_CUR_HP",
               "GROUP_UPDATE_FLAGS_PET_MAX_HP", "GROUP_UPDATE_FLAGS_PET_POWER_TYPE",
               "GROUP_UPDATE_FLAGS_PET_CUR_POWER", "GROUP_UPDATE_FLAGS_PET_MAX_POWER",
               "GROUP_UPDATE_FLAGS_PET_AURAS"}) |->
       Smsg(
         PackedGuid(w) \o Ints(<<4>>) \o When(Is(w, "GROUP_UPDATE_FLAGS_STATUS"), Ints(<<1>>))
         \o When(Is(w, "GROUP_UPDATE_FLAGS_CUR_HP"), Ints(<<2>>))
         \o When(Is(w, "GROUP_UPDATE_FLAGS_MAX_HP"), Ints(<<2>>))
         \o When(Is(w, "GROUP_UPDATE_FLAGS_POWER_TYPE"), Ints(<<1>>))
         \o When(Is(w, "GROUP_UPDATE_FLAGS_CUR_POWER"), Ints(<<2>>))
         \o When(Is(w, "GROUP_UPDATE_FLAGS_MAX_POWER"), Ints(<<2>>))
         \o When(Is(w, "GROUP_UPDATE_FLAGS_LEVEL"), Ints(<<2>>))
         \o When(Is(w, "GROUP_UPDATE_FLAGS_ZONE"), Ints(<<4>>))
         \o When(Is(w, "GROUP_UPDATE_FLAGS_POSITION"), Ints(<<2, 2>>))
         \o When(Is(w, "GROUP_UPDATE_FLAGS_AURAS"), vanilla_aura_mask(w))
         \o When(Is(w, "GROUP_UPDATE_FLAGS_PET_GUID"), Ints(<<8>>))
         \o When(Is(w, "GROUP_UPDATE_FLAGS_PET_NAME"), Cstring(w))
         \o When(Is(w, "GROUP_UPDATE_FLAGS_PET_MODEL_ID"), Ints(<<2>>))
         \o When(Is(w, "GROUP_UPDATE_FLAGS_PET_CUR_HP"), Ints(<<2>>))
         \o When(Is(w, "GROUP_UPDATE_FLAGS_PET_MAX_HP"), Ints(<<2>>))
         \o When(Is(w, "GROUP_UPDATE_FLAGS_PET_POWER_TYPE"), Ints(<<1>>))
         \o When(Is(w, "GROUP_UPDATE_FLAGS_PET_CUR_POWER"), Ints(<<2>>))
         \o When(Is(w, "GROUP_UPDATE_FLAGS_PET_MAX_POWER"), Ints(<<2>>))
         \o When(Is(w, "GROUP_UPDATE_FLAGS_PET_AURAS"), vanilla_aura_mask(w)),
         write_packed_guid(w) + 4 + Bytes(Is(w, "GROUP_UPDATE_FLAGS_STATUS"), 1)
         + Bytes(Is(w, "GROUP_UPDATE_FLAGS_CUR_HP"), 2)
         + Bytes(Is(w, "GROUP_UPDATE_FLAGS_MAX_HP"), 2)
         + Bytes(Is(w, "GROUP_UPDATE_FLAGS_POWER_TYPE"), 1)
         + Bytes(Is(w, "GROUP_UPDATE_FLAGS_CUR_POWER"), 2)
         + Bytes(Is(w, "GROUP_UPDATE_FLAGS_MAX_POWER"), 2)
         + Bytes(Is(w, "GROUP_UPDATE_FLAGS_LEVEL"), 2) + Bytes(Is(w, "GROUP_UPDATE_FLAGS_ZONE"), 4)
         + Bytes(Is(w, "GROUP_UPDATE_FLAGS_POSITION"), 2 * 2)
         + Bytes(Is(w, "GROUP_UPDATE_FLAGS_AURAS"), vanilla_aura_mask_written(w))
         + Bytes(Is(w, "GROUP_UPDATE_FLAGS_PET_GUID"), 8)
         + Bytes(Is(w, "GROUP_UPDATE_FLAGS_PET_NAME"), write_cstring(w))
         + Bytes(Is(w, "GROUP_UPDATE_FLAGS_PET_MODEL_ID"), 2)
         + Bytes(Is(w, "GROUP_UPDATE_FLAGS_PET_CUR_HP"), 2)
         + Bytes(Is(w, "GROUP_UPDATE_FLAGS_PET_MAX_HP"), 2)
         + Bytes(Is(w, "GROUP_UPDATE_FLAGS_PET_POWER_TYPE"), 1)
         + Bytes(Is(w, "GROUP_UPDATE_FLAGS_PET_CUR_POWER"), 2)
         + Bytes(Is(w, "GROUP_UPDATE_FLAGS_PET_MAX_POWER"), 2)
         + Bytes(Is(w, "GROUP_UPDATE_FLAGS_PET_AURAS"), vanilla_aura_mask_written(w)),
         4 + wwm_packed_guid_size(w) + Bytes(Is(w, "GROUP_UPDATE_FLAGS_STATUS"), 1)
         + Bytes(Is(w, "GROUP_UPDATE_FLAGS_CUR_HP"), 2)
         + Bytes(Is(w, "GROUP_UPDATE_FLAGS_MAX_HP"), 2)
         + Bytes(Is(w, "GROUP_UPDATE_FLAGS_POWER_TYPE"), 1)
         + Bytes(Is(w, "GROUP_UPDATE_FLAGS_CUR_POWER"), 2)
         + Bytes(Is(w, "GROUP_UPDATE_FLAGS_MAX_POWER"), 2)
         + Bytes(Is(w, "GROUP_UPDATE_FLAGS_LEVEL"), 2) + Bytes(Is(w, "GROUP_UPDATE_FLAGS_ZONE"), 4)
         + Bytes(Is(w, "GROUP_UPDATE_FLAGS_POSITION"), 4)
         + Bytes(Is(w, "GROUP_UPDATE_FLAGS_AURAS"), vanilla_aura_mask_size(w))
         + Bytes(Is(w, "GROUP_UPDATE_FLAGS_PET_GUID"), 8)
         + Bytes(Is(w, "GROUP_UPDATE_FLAGS_PET_NAME"), 1 + w.len)
         + Bytes(Is(w, "GROUP_UPDATE_FLAGS_PET_MODEL_ID"), 2)
         + Bytes(Is(w, "GROUP_UPDATE_FLAGS_PET_CUR_HP"), 2)
         + Bytes(Is(w, "GROUP_UPDATE_FLAGS_PET_MAX_HP"), 2)
         + Bytes(Is(w, "GROUP_UPDATE_FLAGS_PET_POWER_TYPE"), 1)
         + Bytes(Is(w, "GROUP_UPDATE_FLAGS_PET_CUR_POWER"), 2)
         + Bytes(Is(w, "GROUP_UPDATE_FLAGS_PET_MAX_POWER"), 2)
         + Bytes(Is(w, "GROUP_UPDATE_FLAGS_PET_AURAS"), vanilla_aura_mask_size(w)))]]

vanilla_FromCmsgPetSpellAutocast ==
  [CMSG_PET_SPELL_AUTOCAST |-> PlainCmsg(<<8, 4, 1>>, 8 + 4 + 1, 13),
   SMSG_WEATHER |-> PlainSmsg(<<4, 4, 4, 1>>, 3 * 4 + 1, 13),
   SMSG_RAID_INSTANCE_MESSAGE |-> PlainSmsg(<<4, 4, 4>>, 3 * 4, 12)]

vanilla_FromSmsgCompressedMoves ==
  [SMSG_COMPRESSED_MOVES |-> [w \in Wires(Lengths, Counts, vanilla_CompressedMoveEnums, {}) |->
     CompressedSmsg(
       Ints(<<4>>)
       \o When(w.count > 0,
               Take(4) \o Inflate(w.count * vanilla_CompressedMove(w).written)
               \o UntilEnd(w.count, vanilla_CompressedMove(w).read)),
       w.count * vanilla_CompressedMove(w).written)],
   CMSG_GUILD_INFO_TEXT |-> [w \in OfLength |->
     Cmsg(Cstring(w), write_cstring(w), 1 + w.len)],
   SMSG_CHAT_RESTRICTED |-> EmptySmsg(0),
   SMSG_SPLINE_SET_RUN_SPEED |-> [w \in OfLength |->
     Smsg(PackedGuid(w) \o Ints(<<4>>), write_packed_guid(w) + 4, 4 + wwm_packed_guid_size(w))]]

vanilla_FromSmsgSplineSetRunBackSpeed ==
  [SMSG_SPLINE_SET_RUN_BACK_SPEED |-> [w \in OfLength |->
     Smsg(PackedGuid(w) \o Ints(<<4>>), write_packed_guid(w) + 4, 4 + wwm_packed_guid_size(w))],
   SMSG_SPLINE_SET_SWIM_SPEED |-> [w \in OfLength |->
     Smsg(PackedGuid(w) \o Ints(<<4>>), write_packed_guid(w) + 4, 4 + wwm_packed_guid_size(w))],
   SMSG_SPLINE_SET_WALK_SPEED |-> [w \in OfLength |->
     Smsg(PackedGuid(w) \o Ints(<<4>>), write_packed_guid(w) + 4, 4 + wwm_packed_guid_size(w))],
   SMSG_SPLINE_SET_SWIM_BACK_SPEED |-> [w \in OfLength |->
     Smsg(PackedGuid(w) \o Ints(<<4>>), write_packed_guid(w) + 4, 4 + wwm_packed_guid_size(w))]]

vanilla_FromSmsgSplineSetTurnRate ==
  [SMSG_SPLINE_SET_TURN_RATE |-> [w \in OfLength |->
     Smsg(PackedGuid(w) \o Ints(<<4>>), write_packed_guid(w) + 4, 4 + wwm_packed_guid_size(w))],
   SMSG_SPLINE_MOVE_UNROOT |-> [w \in OfLength |->
     Smsg(PackedGuid(w), write_packed_guid(w), wwm_packed_guid_size(w))],
   SMSG_SPLINE_MOVE_FEATHER_FALL |-> [w \in OfLength |->
     Smsg(PackedGuid(w), write_packed_guid(w), wwm_packed_guid_size(w))],
   SMSG_SPLINE_MOVE_NORMAL_FALL |-> [w \in OfLength |->
     Smsg(PackedGuid(w), write_packed_guid(w), wwm_packed_guid_size(w))],
   SMSG_SPLINE_MOVE_SET_HOVER |-> [w \in OfLength |->
     Smsg(PackedGuid(w), write_packed_guid(w), wwm_packed_guid_size(w))]]

vanilla_FromSmsgSplineMoveUnsetHover ==
  [SMSG_SPLINE_MOVE_UNSET_HOVER |-> [w \in OfLength |->
     Smsg(PackedGuid(w), write_packed_guid(w), wwm_packed_guid_size(w))],
   SMSG_SPLINE_MOVE_WATER_WALK |-> [w \in OfLength |->
     Smsg(PackedGuid(w), write_packed_guid(w), wwm_packed_guid_size(w))],
   SMSG_SPLINE_MOVE_LAND_WALK |-> [w \in OfLength |->
     Smsg(PackedGuid(w), write_packed_guid(w), wwm_packed_guid_size(w))],
   SMSG_SPLINE_MOVE_START_SWIM |-> [w \in OfLength |->
     Smsg(PackedGuid(w), write_packed_guid(w), wwm_packed_guid_size(w))],
   SMSG_SPLINE_MOVE_STOP_SWIM |-> [w \in OfLength |->
     Smsg(PackedGuid(w), write_packed_guid(w), wwm_packed_guid_size(w))]]

vanilla_FromSmsgSplineMoveSetRunMode ==
  [SMSG_SPLINE_MOVE_SET_RUN_MODE |-> [w \in OfLength |->
     Smsg(PackedGuid(w), write_packed_guid(w), wwm_packed_guid_size(w))],
   SMSG_SPLINE_MOVE_SET_WALK_MODE |-> [w \in OfLength |->
     Smsg(PackedGuid(w), write_packed_guid(w), wwm_packed_guid_size(w))],
   CMSG_ACTIVATETAXIEXPRESS |-> [w \in OfCount |->
     Cmsg(Ints(<<8, 4, 4>> \o Repeat(w.count, 4)), 8 + 2 * 4 + w.count * 4, 16 + 4 * w.count)],
   CMSG_SET_FACTION_INACTIVE |-> PlainCmsg(<<2, 1>>, 2 + 1, 3),
   CMSG_SET_WATCHED_FACTION |-> PlainCmsg(<<2>>, 2, 2)]

vanilla_FromMsgMoveTimeSkipped ==
  [MSG_MOVE_TIME_SKIPPED_Server |-> [w \in OfLength |->
     Smsg(PackedGuid(w) \o Ints(<<4>>), write_packed_guid(w) + 4, 4 + wwm_packed_guid_size(w))],
   SMSG_SPLINE_MOVE_ROOT |-> PlainSmsg(<<8>>, 8, 8),
   SMSG_INVALIDATE_PLAYER |-> PlainSmsg(<<8>>, 8, 8),
   CMSG_RESET_INSTANCES |-> EmptyCmsg(0),
   SMSG_INSTANCE_RESET |-> PlainSmsg(<<4>>, 4, 4),
   SMSG_INSTANCE_RESET_FAILED |-> PlainSmsg(<<4, 4>>, 2 * 4, 8)]

vanilla_FromSmsgUpdateLastInstance ==
  [SMSG_UPDATE_LAST_INSTANCE |-> PlainSmsg(<<4>>, 4, 4),
   MSG_RAID_TARGET_UPDATE_Client |->
     [w \in Wires(
              {0}, {0}, {{"RaidTargetIndex::UNKNOWN0", "RaidTargetIndex::REQUEST_ICONS"}}, {}) |->
       Cmsg(Ints(<<1>>) \o When(Is(w, "RaidTargetIndex::UNKNOWN0"), Ints(<<8>>)),
            1 + Bytes(Is(w, "RaidTargetIndex::UNKNOWN0"), 8),
            1 + Bytes(Is(w, "RaidTargetIndex::UNKNOWN0"), 8))],
   MSG_RAID_TARGET_UPDATE_Server |->
     [w \in Wires(
              {0}, {0}, {{"RaidTargetUpdateType::FULL", "RaidTargetUpdateType::PARTIAL"}}, {}) |->
       Smsg(
         Ints(<<1>>)
         \o When(Is(w, "RaidTargetUpdateType::FULL"), Each(8, vanilla_RaidTargetUpdate.read))
         \o When(Is(w, "RaidTargetUpdateType::PARTIAL"), vanilla_RaidTargetUpdate.read),
         1 + Bytes(Is(w, "RaidTargetUpdateType::FULL"), 8 * vanilla_RaidTargetUpdate.written)
         + Bytes(Is(w, "RaidTargetUpdateType::PARTIAL"), vanilla_RaidTargetUpdate.written),
         1 + Bytes(Is(w, "RaidTargetUpdateType::FULL"), 72)
         + Bytes(Is(w, "RaidTargetUpdateType::PARTIAL"), 9))]]

vanilla_FromMsgRaidReadyCheck ==
  [MSG_RAID_READY_CHECK_Client |-> [w \in Wires({0}, {0}, {}, {"answer"}) |->
     Cmsg(Optional(Ints(<<1>>)), Bytes(Is(w, "answer"), 1), Bytes(Is(w, "answer"), 1))],
   MSG_RAID_READY_CHECK_Server |-> [w \in Wires({0}, {0}, {}, {"state_check"}) |->
     Smsg(Optional(Ints(<<8, 1>>)),
          Bytes(Is(w, "state_check"), 8 + 1), Bytes(Is(w, "state_check"), 9))],
   SMSG_PET_ACTION_SOUND |-> PlainSmsg(<<8, 4>>, 8 + 4, 12),
   SMSG_PET_DISMISS_SOUND |-> [w \in {Fixed} |->
     Smsg(Ints(<<4>>) \o Vector3d.read, 4 + Vector3d.written, 16)]]

vanilla_FromSmsgGmTicketStatusUpdate ==
  [SMSG_GM_TICKET_STATUS_UPDATE |-> PlainSmsg(<<4>>, 4, 4),
   CMSG_GMSURVEY_SUBMIT |-> [w \in OfLength |->
     Cmsg(Ints(<<4>>) \o Each(10, vanilla_GmSurveyQuestion(w).read) \o Cstring(w),
          4 + 10 * vanilla_GmSurveyQuestion(w).written + write_cstring(w),
          5 + w.len + 10 * vanilla_GmSurveyQuestion(w).size)],
   SMSG_UPDATE_INSTANCE_OWNERSHIP |-> PlainSmsg(<<4>>, 4, 4),
   SMSG_SPELLINSTAKILLLOG |-> PlainSmsg(<<8, 4>>, 8 + 4, 12)]

vanilla_FromSmsgSpellUpdateChainTargets ==
  [SMSG_SPELL_UPDATE_CHAIN_TARGETS |-> [w \in OfCount |->
     Smsg(Ints(<<8, 4, 4>> \o Repeat(w.count, 8)), 8 + 2 * 4 + w.count * 8, 16 + 8 * w.count)],
   SMSG_EXPECTED_SPAM_RECORDS |-> [w \in OfLengthAndCount |->
     Smsg(Ints(<<4>>) \o Each(w.count, Cstring(w)),
          4 + w.count * write_cstring(w), 4 + w.count * (1 + w.len))],
   SMSG_DEFENSE_MESSAGE |-> [w \in OfLength |->
     Smsg(Ints(<<4>>) \o SizedCstring(w), 4 + write_sized_cstring(w), 9 + w.len)]]

vanilla_HighGroups ==
  <<vanilla_FromCmsgSellItem, vanilla_FromSmsgBuyItem, vanilla_FromSmsgTaxinodeStatus,
    vanilla_FromSmsgTrainerList, vanilla_FromCmsgBinderActivate,
    vanilla_FromSmsgPetitionShowlist, vanilla_FromCmsgPetitionShowSignatures,
    vanilla_FromMsgPetitionDecline, vanilla_FromSmsgPetitionQueryResponse,
    vanilla_FromSmsgNotification, vanilla_FromSmsgLogXpgain, vanilla_FromSmsgLevelupInfo,
    vanilla_FromSmsgResistlog, vanilla_FromSmsgPauseMirrorTimer, vanilla_FromCmsgSetsheathed,
    vanilla_FromCmsgAuthSession, vanilla_FromSmsgAuthResponse, vanilla_FromMsgSaveGuildEmblem,
    vanilla_FromSmsgPartykilllog, vanilla_FromSmsgExplorationExperience,
    vanilla_FromMsgLookingForGroup, vanilla_FromCmsgGmticketCreate,
    vanilla_FromCmsgGmticketUpdatetext, vanilla_FromCmsgUpdateAccountData,
    vanilla_FromSmsgGmticketGetticket, vanilla_FromMsgCorpseQuery,
    vanilla_FromCmsgSpiritHealerActivate, vanilla_FromCmsgGuildRank,
    vanilla_FromSmsgLoginVerifyWorld, vanilla_FromSmsgSendMailResult,
    vanilla_FromSmsgMailListResult, vanilla_FromCmsgItemTextQuery,
    vanilla_FromCmsgMailReturnToSender, vanilla_FromSmsgSpelllogexecute,
    vanilla_FromSmsgSpellnonmeleedamagelog, vanilla_FromSmsgZoneUnderAttack,
    vanilla_FromCmsgAuctionListItems, vanilla_FromSmsgAuctionCommandResult,
    vanilla_FromSmsgAuctionListResult, vanilla_FromSmsgAuctionOwnerNotification,
    vanilla_FromSmsgSpellordamageImmune, vanilla_FromSmsgSetPctSpellModifier,
    vanilla_FromMsgListStabledPets, vanilla_FromSmsgStableResult, vanilla_FromCmsgRequestPetInfo,
    vanilla_FromCmsgGroupSwapSubGroup, vanilla_FromSmsgRaidGroupOnly,
    vanilla_FromCmsgBuybackItem, vanilla_FromSmsgMeetingstoneInProgress,
    vanilla_FromSmsgLootRollWon, vanilla_FromSmsgLootRoll, vanilla_FromSmsgSetForcedReactions,
    vanilla_FromMsgTalentWipeConfirm, vanilla_FromSmsgMonsterMoveTransport,
    vanilla_FromMsgMoveWaterWalk, vanilla_FromSmsgMeetingstoneJoinfailed,
    vanilla_FromSmsgInitWorldStates, vanilla_FromCmsgCharRename,
    vanilla_FromSmsgInstanceSaveCreated, vanilla_FromCmsgMoveWaterWalkAck,
    vanilla_FromSmsgBattlefieldStatus, vanilla_FromMsgInspectHonorStats,
    vanilla_FromCmsgForceWalkSpeedChangeAck, vanilla_FromCmsgForceTurnRateChangeAck,
    vanilla_FromCmsgAreaSpiritHealerQuery, vanilla_FromSmsgGroupJoinedBattleground,
    vanilla_FromSmsgBattlegroundPlayerLeft, vanilla_FromSmsgPartyMemberStatsFull,
    vanilla_FromCmsgPetSpellAutocast, vanilla_FromSmsgCompressedMoves,
    vanilla_FromSmsgSplineSetRunBackSpeed, vanilla_FromSmsgSplineSetTurnRate,
    vanilla_FromSmsgSplineMoveUnsetHover, vanilla_FromSmsgSplineMoveSetRunMode,
    vanilla_FromMsgMoveTimeSkipped, vanilla_FromSmsgUpdateLastInstance,
    vanilla_FromMsgRaidReadyCheck, vanilla_FromSmsgGmTicketStatusUpdate,
    vanilla_FromSmsgSpellUpdateChainTargets>>

vanilla_Messages == vanilla_LowGroups \o vanilla_HighGroups
=============================================================================
