-------------------------- MODULE CppWrathStructs --------------------------
(*****************************************************************************)
(* The structs of the 3.3.5 version of the world protocol: what the read,    *)
(* write and size functions of src/wow_world_messages_cpp/src/wrath.cpp do   *)
(* with them, one definition for each struct, in the vocabulary of           *)
(* CppFormat.                                                                *)
(*                                                                           *)
(* A struct is a record of what its functions do with it on one wire. Of     *)
(* its last two numbers the first adds up the calls of the write function,   *)
(* in their order, and the second is what the size function adds up.         *)
(*****************************************************************************)
EXTENDS CppFormat

wrath_enchant_mask(w) == Mask(2, 2, w)
wrath_enchant_mask_written(w) == mask_written(2, 2, w)
wrath_enchant_mask_size(w) == mask_size(2, 2, w)

wrath_cache_mask(w) == Mask(4, 4, w)
wrath_cache_mask_written(w) == mask_written(4, 4, w)
wrath_cache_mask_size(w) == mask_size(4, 4, w)

wrath_AchievementDone == PlainStruct(<<4, 4>>, 2 * 4)

\* The elements end with the achievement 0xFFFFFFFF, which the size does not count.
wrath_achievement_done_array(w) == Each(w.count, wrath_AchievementDone.read) \o Run(4)
wrath_achievement_done_array_written(w) == w.count * wrath_AchievementDone.written + 4
wrath_achievement_done_array_size(w) == w.count * 8

wrath_AchievementInProgress(w) ==
  Struct(Ints(<<4>>) \o PackedGuid(w) \o PackedGuid(w) \o Ints(<<4, 4, 4, 4>>),
         4 + 2 * write_packed_guid(w) + 4 * 4, 20 + 2 * wwm_packed_guid_size(w))

\* The elements end with the achievement 0xFFFFFFFF, which the size does not count.
wrath_achievement_in_progress_array(w) == Each(w.count, wrath_AchievementInProgress(w).read) \o Run(4)
wrath_achievement_in_progress_array_written(w) == w.count * wrath_AchievementInProgress(w).written + 4
wrath_achievement_in_progress_array_size(w) == w.count * wrath_AchievementInProgress(w).size

wrath_ActionButton == PlainStruct(<<2, 1, 1>>, 2 + 2 * 1)

wrath_ArenaTeamMember(w) ==
  Struct(Ints(<<8, 1>>) \o Cstring(w) \o Ints(<<1, 1>> \o Repeat(5, 4)),
         8 + 1 + write_cstring(w) + 2 * 1 + 5 * 4, 32 + w.len)

wrath_AuctionEnchantment == PlainStruct(<<4, 4, 4>>, 3 * 4)

wrath_AuctionListItem ==
  FixedStruct(
    Ints(<<4, 4>>) \o Each(7, wrath_AuctionEnchantment.read)
    \o Ints(Repeat(5, 4) \o <<8, 4, 4, 4, 4, 8, 4>>),
    2 * 4 + 7 * wrath_AuctionEnchantment.written + 5 * 4 + 8 + 4 * 4 + 8 + 4)

wrath_AuctionSort == PlainStruct(<<1, 1>>, 2 * 1)

wrath_Aura == PlainStruct(<<4, 1>>, 4 + 1)

wrath_aura_mask(w) == Run(8) \o Each(w.len, wrath_Aura.read)
wrath_aura_mask_written(w) == mask_written(8, wrath_Aura.written, w)
wrath_aura_mask_size(w) == mask_size(8, 5, w)

wrath_AuraLogEnums ==
  {{"AuraType::PERIODIC_DAMAGE", "AuraType::PERIODIC_HEAL", "AuraType::OBS_MOD_POWER",
    "AuraType::PERIODIC_MANA_LEECH", "AuraType::NONE"}}

wrath_AuraLog(w) ==
  Struct(
    Ints(<<4>>) \o When(Is(w, "AuraType::PERIODIC_DAMAGE"), Ints(<<4, 4, 1, 4, 4, 1>>))
    \o When(Is(w, "AuraType::PERIODIC_HEAL"), Ints(<<4, 4, 4, 1>>))
    \o When(Is(w, "AuraType::OBS_MOD_POWER"), Ints(<<4, 4>>))
    \o When(Is(w, "AuraType::PERIODIC_MANA_LEECH"), Ints(<<4, 4, 4>>)),
    4 + Bytes(Is(w, "AuraType::PERIODIC_DAMAGE"), 2 * 4 + 1 + 2 * 4 + 1)
    + Bytes(Is(w, "AuraType::PERIODIC_HEAL"), 3 * 4 + 1)
    + Bytes(Is(w, "AuraType::OBS_MOD_POWER"), 2 * 4)
    + Bytes(Is(w, "AuraType::PERIODIC_MANA_LEECH"), 3 * 4),
    4 + Bytes(Is(w, "AuraType::PERIODIC_DAMAGE"), 18)
    + Bytes(Is(w, "AuraType::PERIODIC_HEAL"), 13) + Bytes(Is(w, "AuraType::OBS_MOD_POWER"), 8)
    + Bytes(Is(w, "AuraType::PERIODIC_MANA_LEECH"), 12))

wrath_AuraUpdate(w) ==
  Struct(
    Ints(<<1, 4, 1, 1, 1>>) \o When(Is(w, "AURA_FLAG_NOT_CASTER"), PackedGuid(w))
    \o When(Is(w, "AURA_FLAG_DURATION"), Ints(<<4, 4>>)),
    1 + 4 + 3 * 1 + Bytes(Is(w, "AURA_FLAG_NOT_CASTER"), write_packed_guid(w))
    + Bytes(Is(w, "AURA_FLAG_DURATION"), 2 * 4),
    8 + Bytes(Is(w, "AURA_FLAG_NOT_CASTER"), wwm_packed_guid_size(w))
    + Bytes(Is(w, "AURA_FLAG_DURATION"), 8))

wrath_BankTab == PlainStruct(<<4, 4>>, 2 * 4)

wrath_BattlegroundPlayerPosition == PlainStruct(<<8, 4, 4>>, 8 + 2 * 4)

wrath_CalendarInvitee(w) ==
  Struct(
    PackedGuid(w) \o Ints(<<1, 1>>), write_packed_guid(w) + 2 * 1, 2 + wwm_packed_guid_size(w))

wrath_CalendarMember(w) ==
  Struct(PackedGuid(w) \o Ints(<<1>>), write_packed_guid(w) + 1, 1 + wwm_packed_guid_size(w))

wrath_CalendarSendInvitee(w) ==
  Struct(
    PackedGuid(w) \o Ints(<<1, 1, 1, 1, 8, 4>>) \o Cstring(w),
    write_packed_guid(w) + 4 * 1 + 8 + 4 + write_cstring(w), 17 + w.len + wwm_packed_guid_size(w))

wrath_ChannelMember == PlainStruct(<<8, 1>>, 8 + 1)

wrath_CharacterGear == PlainStruct(<<4, 1, 4>>, 4 + 1 + 4)

wrath_Character(w) ==
  Struct(
    Ints(<<8>>) \o Cstring(w) \o Ints(Repeat(9, 1) \o <<4, 4>>) \o Vector3d.read
    \o Ints(<<4, 4, 4, 1, 4, 4, 4>>) \o Each(23, wrath_CharacterGear.read),
    8 + write_cstring(w) + 9 * 1 + 2 * 4 + Vector3d.written + 3 * 4 + 1 + 3 * 4
    + 23 * wrath_CharacterGear.written, 270 + w.len)

wrath_CooldownSpell == PlainStruct(<<2, 2, 2, 4, 4>>, 3 * 2 + 2 * 4)

wrath_DamageInfo == PlainStruct(<<4, 4, 4>>, 3 * 4)

wrath_DispelledSpell == PlainStruct(<<4, 1>>, 4 + 1)

wrath_EquipmentSet == PlainStruct(<<8, 1, 1>>, 8 + 2 * 1)

wrath_EquipmentSetListItem(w) ==
  Struct(Ints(<<8>>) \o Cstring(w) \o Cstring(w) \o Ints(Repeat(19, 8)),
         8 + 2 * write_cstring(w) + 19 * 8, 162 + 2 * w.len)

wrath_FactionInitializer == PlainStruct(<<1, 4>>, 1 + 4)

wrath_FactionStanding == PlainStruct(<<2, 4>>, 2 + 4)

wrath_ForcedReaction == PlainStruct(<<2, 4>>, 2 + 4)

wrath_GmSurveyQuestion(w) ==
  Struct(Ints(<<4, 1>>) \o Cstring(w), 4 + 1 + write_cstring(w), 6 + w.len)

wrath_GossipItem(w) ==
  Struct(Ints(<<4, 1, 1, 4>>) \o Cstring(w) \o Cstring(w),
         4 + 2 * 1 + 4 + 2 * write_cstring(w), 12 + 2 * w.len)

wrath_GroupListMember(w) ==
  Struct(Cstring(w) \o Ints(<<8, 1, 1, 1, 1>>), write_cstring(w) + 8 + 4 * 1, 13 + w.len)

wrath_GuildBankRights == PlainStruct(<<4, 4>>, 2 * 4)

wrath_GuildBankSocket == PlainStruct(<<1, 4>>, 1 + 4)

wrath_GuildBankSlot(w) ==
  Struct(
    Ints(<<1, 4, 4>>) \o VariableItemRandomProperty(w).read \o Ints(<<4, 4, 1, 1>>)
    \o Each(U8(w.count), wrath_GuildBankSocket.read),
    1 + 2 * 4 + VariableItemRandomProperty(w).written + 2 * 4 + 2 * 1
    + w.count * wrath_GuildBankSocket.written,
    19 + VariableItemRandomProperty(w).size + 5 * w.count)

wrath_GuildBankTab(w) == Struct(Cstring(w) \o Cstring(w), 2 * write_cstring(w), 2 + 2 * w.len)

wrath_GuildLogEvent(w) ==
  Struct(
    Ints(<<1, 8>>) \o When(Is(w, "GuildEvent::JOINED"), Ints(<<8>>))
    \o When(Is(w, "GuildEvent::PROMOTION"), Ints(<<1>>)) \o Ints(<<4>>),
    1 + 8 + Bytes(Is(w, "GuildEvent::JOINED"), 8) + Bytes(Is(w, "GuildEvent::PROMOTION"), 1) + 4,
    13 + Bytes(Is(w, "GuildEvent::JOINED"), 8) + Bytes(Is(w, "GuildEvent::PROMOTION"), 1))

wrath_GuildMember(w) ==
  Struct(
    Ints(<<8, 4, 1>>) \o Cstring(w) \o Ints(<<4, 1, 1, 1, 4>>)
    \o When(Is(w, "GuildMemberStatus::OFFLINE"), Ints(<<4>>)) \o Cstring(w) \o Cstring(w),
    8 + 4 + 1 + write_cstring(w) + 4 + 3 * 1 + 4 + Bytes(Is(w, "GuildMemberStatus::OFFLINE"), 4)
    + 2 * write_cstring(w), 27 + 3 * w.len + Bytes(Is(w, "GuildMemberStatus::OFFLINE"), 4))

wrath_GuildRights ==
  FixedStruct(
    Ints(<<4, 4>>) \o Each(6, wrath_GuildBankRights.read),
    2 * 4 + 6 * wrath_GuildBankRights.written)

wrath_InitialSpell == PlainStruct(<<4, 2>>, 4 + 2)

wrath_InspectTalent == PlainStruct(<<4, 1>>, 4 + 1)

wrath_InspectTalentGear(w) ==
  Struct(
    Ints(<<4>>) \o wrath_enchant_mask(w) \o Ints(<<2>>) \o PackedGuid(w) \o Ints(<<4>>),
    4 + wrath_enchant_mask_written(w) + 2 + write_packed_guid(w) + 4,
    10 + wwm_packed_guid_size(w) + wrath_enchant_mask_size(w))

wrath_inspect_talent_gear_mask(w) == Run(4) \o Each(w.len, wrath_InspectTalentGear(w).read)
wrath_inspect_talent_gear_mask_written(w) == mask_written(4, wrath_InspectTalentGear(w).written, w)
wrath_inspect_talent_gear_mask_size(w) == mask_size(4, wrath_InspectTalentGear(w).size, w)

wrath_InspectTalentSpec(w) ==
  Struct(Ints(<<1>>) \o Each(U8(w.count), wrath_InspectTalent.read),
         1 + w.count * wrath_InspectTalent.written, 1 + 5 * w.count)

wrath_ItemDamageType == PlainStruct(<<4, 4, 4>>, 3 * 4)

wrath_ItemRefundExtra == PlainStruct(<<4, 4>>, 2 * 4)

wrath_ItemSocket == PlainStruct(<<4, 4>>, 2 * 4)

wrath_ItemSpells == PlainStruct(Repeat(6, 4), 6 * 4)

wrath_ItemStat == PlainStruct(<<4, 4>>, 2 * 4)

wrath_LfgQuestReward == PlainStruct(<<4, 4, 4>>, 3 * 4)

wrath_LfgAvailableDungeon(w) ==
  Struct(Ints(<<4, 1, 4, 4, 4, 4, 1>>) \o Each(U8(w.count), wrath_LfgQuestReward.read),
         4 + 1 + 4 * 4 + 1 + w.count * wrath_LfgQuestReward.written, 22 + 12 * w.count)

wrath_LfgJoinLockedDungeon == PlainStruct(<<4, 4>>, 2 * 4)

wrath_LfgJoinPlayer(w) ==
  Struct(Ints(<<8, 4>>) \o Each(w.count, wrath_LfgJoinLockedDungeon.read),
         8 + 4 + w.count * wrath_LfgJoinLockedDungeon.written, 12 + 8 * w.count)

wrath_LfgListGroup(w) ==
  Struct(
    Ints(<<8, 4>>) \o When(Is(w, "LFG_UPDATE_FLAG_COMMENT"), Cstring(w))
    \o When(Is(w, "LFG_UPDATE_FLAG_ROLES"), Ints(<<1, 1, 1>>)) \o Ints(<<8, 4>>),
    8 + 4 + Bytes(Is(w, "LFG_UPDATE_FLAG_COMMENT"), write_cstring(w))
    + Bytes(Is(w, "LFG_UPDATE_FLAG_ROLES"), 3) + 8 + 4,
    24 + Bytes(Is(w, "LFG_UPDATE_FLAG_COMMENT"), 1 + w.len)
    + Bytes(Is(w, "LFG_UPDATE_FLAG_ROLES"), 3))

wrath_LfgListPlayerFlags ==
  {"LFG_UPDATE_FLAG_CHARACTER_INFO", "LFG_UPDATE_FLAG_COMMENT", "LFG_UPDATE_FLAG_GROUP_LEADER",
   "LFG_UPDATE_FLAG_GROUP_GUID", "LFG_UPDATE_FLAG_ROLES", "LFG_UPDATE_FLAG_AREA",
   "LFG_UPDATE_FLAG_STATUS"}

wrath_LfgListPlayer(w) ==
  Struct(
    Ints(<<8, 4>>)
    \o When(Is(w, "LFG_UPDATE_FLAG_CHARACTER_INFO"), Ints(Repeat(6, 1) \o Repeat(20, 4)))
    \o When(Is(w, "LFG_UPDATE_FLAG_COMMENT"), Cstring(w))
    \o When(Is(w, "LFG_UPDATE_FLAG_GROUP_LEADER"), Ints(<<1>>))
    \o When(Is(w, "LFG_UPDATE_FLAG_GROUP_GUID"), Ints(<<8>>))
    \o When(Is(w, "LFG_UPDATE_FLAG_ROLES"), Ints(<<1>>))
    \o When(Is(w, "LFG_UPDATE_FLAG_AREA"), Ints(<<4>>))
    \o When(Is(w, "LFG_UPDATE_FLAG_STATUS"), Ints(<<1>>)) \o Ints(<<8, 4>>),
    8 + 4 + Bytes(Is(w, "LFG_UPDATE_FLAG_CHARACTER_INFO"), 6 * 1 + 20 * 4)
    + Bytes(Is(w, "LFG_UPDATE_FLAG_COMMENT"), write_cstring(w))
    + Bytes(Is(w, "LFG_UPDATE_FLAG_GROUP_LEADER"), 1)
    + Bytes(Is(w, "LFG_UPDATE_FLAG_GROUP_GUID"), 8) + Bytes(Is(w, "LFG_UPDATE_FLAG_ROLES"), 1)
    + Bytes(Is(w, "LFG_UPDATE_FLAG_AREA"), 4) + Bytes(Is(w, "LFG_UPDATE_FLAG_STATUS"), 1) + 8
    + 4,
    24 + Bytes(Is(w, "LFG_UPDATE_FLAG_CHARACTER_INFO"), 86)
    + Bytes(Is(w, "LFG_UPDATE_FLAG_COMMENT"), 1 + w.len)
    + Bytes(Is(w, "LFG_UPDATE_FLAG_GROUP_LEADER"), 1)
    + Bytes(Is(w, "LFG_UPDATE_FLAG_GROUP_GUID"), 8) + Bytes(Is(w, "LFG_UPDATE_FLAG_ROLES"), 1)
    + Bytes(Is(w, "LFG_UPDATE_FLAG_AREA"), 4) + Bytes(Is(w, "LFG_UPDATE_FLAG_STATUS"), 1))

wrath_LfgPartyInfo(w) ==
  Struct(Ints(<<8, 4>>) \o Each(w.count, wrath_LfgJoinLockedDungeon.read),
         8 + 4 + w.count * wrath_LfgJoinLockedDungeon.written, 12 + 8 * w.count)

wrath_LfgProposal == PlainStruct(<<4>> \o Repeat(5, 1), 4 + 5 * 1)

wrath_LfgRole == PlainStruct(<<8, 1, 4, 1>>, 8 + 1 + 4 + 1)

wrath_ListInventoryItem == PlainStruct(Repeat(8, 4), 8 * 4)

wrath_LootItem == PlainStruct(<<1, 4, 1>>, 1 + 4 + 1)

wrath_MailListItemEnchant == PlainStruct(<<4, 4, 4>>, 3 * 4)

wrath_MailListItem ==
  FixedStruct(
    Ints(<<1, 4, 4>>) \o Each(7, wrath_MailListItemEnchant.read) \o Ints(<<4, 4, 1, 4, 4, 4, 1>>),
    1 + 2 * 4 + 7 * wrath_MailListItemEnchant.written + 2 * 4 + 1 + 3 * 4 + 1)

wrath_MailEnums ==
  {{"MailType::NORMAL", "MailType::CREATURE", "MailType::AUCTION", "MailType::ITEM"}}

wrath_Mail(w) ==
  Struct(
    Ints(<<2, 4, 1>>) \o When(Is(w, "MailType::NORMAL"), Ints(<<8>>))
    \o When(Is(w, "MailType::CREATURE"), Ints(<<4>>))
    \o When(Is(w, "MailType::AUCTION"), Ints(<<4>>))
    \o When(Is(w, "MailType::ITEM"), Ints(<<4>>)) \o Ints(Repeat(7, 4)) \o Cstring(w)
    \o Cstring(w) \o Ints(<<1>>) \o Each(U8(w.count), wrath_MailListItem.read),
    2 + 4 + 1 + Bytes(Is(w, "MailType::NORMAL"), 8) + Bytes(Is(w, "MailType::CREATURE"), 4)
    + Bytes(Is(w, "MailType::AUCTION"), 4) + Bytes(Is(w, "MailType::ITEM"), 4) + 7 * 4
    + 2 * write_cstring(w) + 1 + w.count * wrath_MailListItem.written,
    38 + 2 * w.len + 115 * w.count + Bytes(Is(w, "MailType::NORMAL"), 8)
    + Bytes(Is(w, "MailType::CREATURE"), 4) + Bytes(Is(w, "MailType::AUCTION"), 4)
    + Bytes(Is(w, "MailType::ITEM"), 4))

wrath_MailItem == PlainStruct(<<8, 1>>, 8 + 1)

wrath_MiniMoveMessage(w) ==
  Struct(Ints(<<1, 2>>) \o PackedGuid(w) \o Ints(<<4>>),
         1 + 2 + write_packed_guid(w) + 4, 7 + wwm_packed_guid_size(w))

wrath_MoneyLogItem == PlainStruct(<<1, 8, 4, 4>>, 1 + 8 + 2 * 4)

wrath_TransportInfo(w) ==
  Struct(PackedGuid(w) \o Vector3d.read \o Ints(<<4, 4, 1>>),
         write_packed_guid(w) + Vector3d.written + 2 * 4 + 1, 21 + wwm_packed_guid_size(w))

wrath_MovementBlockFlags ==
  {"UPDATE_FLAG_LIVING", "UPDATE_FLAG_POSITION", "UPDATE_FLAG_HAS_POSITION",
   "UPDATE_FLAG_HIGH_GUID", "UPDATE_FLAG_LOW_GUID", "UPDATE_FLAG_HAS_ATTACKING_TARGET",
   "UPDATE_FLAG_TRANSPORT", "UPDATE_FLAG_VEHICLE", "UPDATE_FLAG_ROTATION",
   "MOVEMENT_FLAGS_ON_TRANSPORT_AND_INTERPOLATED_MOVEMENT", "MOVEMENT_FLAGS_ON_TRANSPORT",
   "MOVEMENT_FLAGS_SWIMMING", "MOVEMENT_FLAGS_FLYING", "MOVEMENT_FLAGS_ALWAYS_ALLOW_PITCHING",
   "MOVEMENT_FLAGS_FALLING", "MOVEMENT_FLAGS_SPLINE_ELEVATION", "MOVEMENT_FLAGS_SPLINE_ENABLED",
   "SPLINE_FLAG_FINAL_ANGLE", "SPLINE_FLAG_FINAL_TARGET", "SPLINE_FLAG_FINAL_POINT"}

wrath_MovementBlock(w) ==
  Struct(
    Ints(<<2>>)
    \o When(
         Is(w, "UPDATE_FLAG_LIVING"),
         Ints(<<6, 4>>) \o Vector3d.read \o Ints(<<4>>)
         \o When(Is(w, "MOVEMENT_FLAGS_ON_TRANSPORT_AND_INTERPOLATED_MOVEMENT"),
                 wrath_TransportInfo(w).read \o Ints(<<4>>))
         \o When(~Is(w, "MOVEMENT_FLAGS_ON_TRANSPORT_AND_INTERPOLATED_MOVEMENT")
                 /\ Is(w, "MOVEMENT_FLAGS_ON_TRANSPORT"), wrath_TransportInfo(w).read)
         \o When(Is(w, "MOVEMENT_FLAGS_SWIMMING"), Ints(<<4>>))
         \o When(
              ~Is(w, "MOVEMENT_FLAGS_SWIMMING") /\ Is(w, "MOVEMENT_FLAGS_FLYING"), Ints(<<4>>))
         \o When(~Is(w, "MOVEMENT_FLAGS_SWIMMING") /\ ~Is(w, "MOVEMENT_FLAGS_FLYING")
                 /\ Is(w, "MOVEMENT_FLAGS_ALWAYS_ALLOW_PITCHING"), Ints(<<4>>)) \o Ints(<<4>>)
         \o When(Is(w, "MOVEMENT_FLAGS_FALLING"), Ints(<<4, 4, 4, 4>>))
         \o When(Is(w, "MOVEMENT_FLAGS_SPLINE_ELEVATION"), Ints(<<4>>)) \o Ints(Repeat(9, 4))
         \o When(
              Is(w, "MOVEMENT_FLAGS_SPLINE_ENABLED"),
              Ints(<<4>>) \o When(Is(w, "SPLINE_FLAG_FINAL_ANGLE"), Ints(<<4>>))
              \o When(~Is(w, "SPLINE_FLAG_FINAL_ANGLE") /\ Is(w, "SPLINE_FLAG_FINAL_TARGET"),
                      Ints(<<8>>))
              \o When(~Is(w, "SPLINE_FLAG_FINAL_ANGLE") /\ ~Is(w, "SPLINE_FLAG_FINAL_TARGET")
                      /\ Is(w, "SPLINE_FLAG_FINAL_POINT"), Vector3d.read) \o Ints(Repeat(8, 4))
              \o Each(w.count, Vector3d.read) \o Ints(<<1>>) \o Vector3d.read))
    \o When(~Is(w, "UPDATE_FLAG_LIVING") /\ Is(w, "UPDATE_FLAG_POSITION"),
            PackedGuid(w) \o Vector3d.read \o Vector3d.read \o Ints(<<4, 4>>))
    \o When(~Is(w, "UPDATE_FLAG_LIVING") /\ ~Is(w, "UPDATE_FLAG_POSITION")
            /\ Is(w, "UPDATE_FLAG_HAS_POSITION"), Vector3d.read \o Ints(<<4>>))
    \o When(Is(w, "UPDATE_FLAG_HIGH_GUID"), Ints(<<4>>))
    \o When(Is(w, "UPDATE_FLAG_LOW_GUID"), Ints(<<4>>))
    \o When(Is(w, "UPDATE_FLAG_HAS_ATTACKING_TARGET"), PackedGuid(w))
    \o When(Is(w, "UPDATE_FLAG_TRANSPORT"), Ints(<<4>>))
    \o When(Is(w, "UPDATE_FLAG_VEHICLE"), Ints(<<4, 4>>))
    \o When(Is(w, "UPDATE_FLAG_ROTATION"), Ints(<<8>>)),
    2
    + Bytes(
        Is(w, "UPDATE_FLAG_LIVING"),
        6 + 4 + Vector3d.written + 4
        + Bytes(Is(w, "MOVEMENT_FLAGS_ON_TRANSPORT_AND_INTERPOLATED_MOVEMENT"),
                wrath_TransportInfo(w).written + 4)
        + Bytes(~Is(w, "MOVEMENT_FLAGS_ON_TRANSPORT_AND_INTERPOLATED_MOVEMENT")
                /\ Is(w, "MOVEMENT_FLAGS_ON_TRANSPORT"), wrath_TransportInfo(w).written)
        + Bytes(Is(w, "MOVEMENT_FLAGS_SWIMMING"), 4)
        + Bytes(~Is(w, "MOVEMENT_FLAGS_SWIMMING") /\ Is(w, "MOVEMENT_FLAGS_FLYING"), 4)
        + Bytes(~Is(w, "MOVEMENT_FLAGS_SWIMMING") /\ ~Is(w, "MOVEMENT_FLAGS_FLYING")
                /\ Is(w, "MOVEMENT_FLAGS_ALWAYS_ALLOW_PITCHING"), 4) + 4
        + Bytes(Is(w, "MOVEMENT_FLAGS_FALLING"), 4 * 4)
        + Bytes(Is(w, "MOVEMENT_FLAGS_SPLINE_ELEVATION"), 4) + 9 * 4
        + Bytes(
            Is(w, "MOVEMENT_FLAGS_SPLINE_ENABLED"),
            4 + Bytes(Is(w, "SPLINE_FLAG_FINAL_ANGLE"), 4)
            + Bytes(~Is(w, "SPLINE_FLAG_FINAL_ANGLE") /\ Is(w, "SPLINE_FLAG_FINAL_TARGET"), 8)
            + Bytes(~Is(w, "SPLINE_FLAG_FINAL_ANGLE") /\ ~Is(w, "SPLINE_FLAG_FINAL_TARGET")
                    /\ Is(w, "SPLINE_FLAG_FINAL_POINT"), Vector3d.written) + 8 * 4
            + w.count * Vector3d.written + 1 + Vector3d.written))
    + Bytes(~Is(w, "UPDATE_FLAG_LIVING") /\ Is(w, "UPDATE_FLAG_POSITION"),
            write_packed_guid(w) + 2 * Vector3d.written + 2 * 4)
    + Bytes(~Is(w, "UPDATE_FLAG_LIVING") /\ ~Is(w, "UPDATE_FLAG_POSITION")
            /\ Is(w, "UPDATE_FLAG_HAS_POSITION"), Vector3d.written + 4)
    + Bytes(Is(w, "UPDATE_FLAG_HIGH_GUID"), 4) + Bytes(Is(w, "UPDATE_FLAG_LOW_GUID"), 4)
    + Bytes(Is(w, "UPDATE_FLAG_HAS_ATTACKING_TARGET"), write_packed_guid(w))
    + Bytes(Is(w, "UPDATE_FLAG_TRANSPORT"), 4) + Bytes(Is(w, "UPDATE_FLAG_VEHICLE"), 2 * 4)
    + Bytes(Is(w, "UPDATE_FLAG_ROTATION"), 8),
    2
    + Bytes(
        Is(w, "UPDATE_FLAG_LIVING"),
        66
        + Bytes(Is(w, "MOVEMENT_FLAGS_ON_TRANSPORT_AND_INTERPOLATED_MOVEMENT"),
                4 + wrath_TransportInfo(w).size)
        + Bytes(~Is(w, "MOVEMENT_FLAGS_ON_TRANSPORT_AND_INTERPOLATED_MOVEMENT")
                /\ Is(w, "MOVEMENT_FLAGS_ON_TRANSPORT"), wrath_TransportInfo(w).size)
        + Bytes(Is(w, "MOVEMENT_FLAGS_SWIMMING"), 4)
        + Bytes(~Is(w, "MOVEMENT_FLAGS_SWIMMING") /\ Is(w, "MOVEMENT_FLAGS_FLYING"), 4)
        + Bytes(~Is(w, "MOVEMENT_FLAGS_SWIMMING") /\ ~Is(w, "MOVEMENT_FLAGS_FLYING")
                /\ Is(w, "MOVEMENT_FLAGS_ALWAYS_ALLOW_PITCHING"), 4)
        + Bytes(Is(w, "MOVEMENT_FLAGS_FALLING"), 16)
        + Bytes(Is(w, "MOVEMENT_FLAGS_SPLINE_ELEVATION"), 4)
        + Bytes(
            Is(w, "MOVEMENT_FLAGS_SPLINE_ENABLED"),
            49 + 12 * w.count + Bytes(Is(w, "SPLINE_FLAG_FINAL_ANGLE"), 4)
            + Bytes(~Is(w, "SPLINE_FLAG_FINAL_ANGLE") /\ Is(w, "SPLINE_FLAG_FINAL_TARGET"), 8)
            + Bytes(~Is(w, "SPLINE_FLAG_FINAL_ANGLE") /\ ~Is(w, "SPLINE_FLAG_FINAL_TARGET")
                    /\ Is(w, "SPLINE_FLAG_FINAL_POINT"), 12)))
    + Bytes(~Is(w, "UPDATE_FLAG_LIVING") /\ Is(w, "UPDATE_FLAG_POSITION"),
            32 + wwm_packed_guid_size(w))
    + Bytes(~Is(w, "UPDATE_FLAG_LIVING") /\ ~Is(w, "UPDATE_FLAG_POSITION")
            /\ Is(w, "UPDATE_FLAG_HAS_POSITION"), 16) + Bytes(Is(w, "UPDATE_FLAG_HIGH_GUID"), 4)
    + Bytes(Is(w, "UPDATE_FLAG_LOW_GUID"), 4)
    + Bytes(Is(w, "UPDATE_FLAG_HAS_ATTACKING_TARGET"), wwm_packed_guid_size(w))
    + Bytes(Is(w, "UPDATE_FLAG_TRANSPORT"), 4) + Bytes(Is(w, "UPDATE_FLAG_VEHICLE"), 8)
    + Bytes(Is(w, "UPDATE_FLAG_ROTATION"), 8))

wrath_MovementInfoFlags ==
  {"MOVEMENT_FLAGS_ON_TRANSPORT_AND_INTERPOLATED_MOVEMENT", "MOVEMENT_FLAGS_ON_TRANSPORT",
   "MOVEMENT_FLAGS_SWIMMING", "MOVEMENT_FLAGS_FLYING", "MOVEMENT_FLAGS_ALWAYS_ALLOW_PITCHING",
   "MOVEMENT_FLAGS_FALLING", "MOVEMENT_FLAGS_SPLINE_ELEVATION"}

wrath_MovementInfo(w) ==
  Struct(
    Ints(<<6, 4>>) \o Vector3d.read \o Ints(<<4>>)
    \o When(Is(w, "MOVEMENT_FLAGS_ON_TRANSPORT_AND_INTERPOLATED_MOVEMENT"),
            wrath_TransportInfo(w).read \o Ints(<<4>>))
    \o When(~Is(w, "MOVEMENT_FLAGS_ON_TRANSPORT_AND_INTERPOLATED_MOVEMENT")
            /\ Is(w, "MOVEMENT_FLAGS_ON_TRANSPORT"), wrath_TransportInfo(w).read)
    \o When(Is(w, "MOVEMENT_FLAGS_SWIMMING"), Ints(<<4>>))
    \o When(~Is(w, "MOVEMENT_FLAGS_SWIMMING") /\ Is(w, "MOVEMENT_FLAGS_FLYING"), Ints(<<4>>))
    \o When(~Is(w, "MOVEMENT_FLAGS_SWIMMING") /\ ~Is(w, "MOVEMENT_FLAGS_FLYING")
            /\ Is(w, "MOVEMENT_FLAGS_ALWAYS_ALLOW_PITCHING"), Ints(<<4>>)) \o Ints(<<4>>)
    \o When(Is(w, "MOVEMENT_FLAGS_FALLING"), Ints(<<4, 4, 4, 4>>))
    \o When(Is(w, "MOVEMENT_FLAGS_SPLINE_ELEVATION"), Ints(<<4>>)),
    6 + 4 + Vector3d.written + 4
    + Bytes(Is(w, "MOVEMENT_FLAGS_ON_TRANSPORT_AND_INTERPOLATED_MOVEMENT"),
            wrath_TransportInfo(w).written + 4)
    + Bytes(~Is(w, "MOVEMENT_FLAGS_ON_TRANSPORT_AND_INTERPOLATED_MOVEMENT")
            /\ Is(w, "MOVEMENT_FLAGS_ON_TRANSPORT"), wrath_TransportInfo(w).written)
    + Bytes(Is(w, "MOVEMENT_FLAGS_SWIMMING"), 4)
    + Bytes(~Is(w, "MOVEMENT_FLAGS_SWIMMING") /\ Is(w, "MOVEMENT_FLAGS_FLYING"), 4)
    + Bytes(~Is(w, "MOVEMENT_FLAGS_SWIMMING") /\ ~Is(w, "MOVEMENT_FLAGS_FLYING")
            /\ Is(w, "MOVEMENT_FLAGS_ALWAYS_ALLOW_PITCHING"), 4) + 4
    + Bytes(Is(w, "MOVEMENT_FLAGS_FALLING"), 4 * 4)
    + Bytes(Is(w, "MOVEMENT_FLAGS_SPLINE_ELEVATION"), 4),
    30
    + Bytes(Is(w, "MOVEMENT_FLAGS_ON_TRANSPORT_AND_INTERPOLATED_MOVEMENT"),
            4 + wrath_TransportInfo(w).size)
    + Bytes(~Is(w, "MOVEMENT_FLAGS_ON_TRANSPORT_AND_INTERPOLATED_MOVEMENT")
            /\ Is(w, "MOVEMENT_FLAGS_ON_TRANSPORT"), wrath_TransportInfo(w).size)
    + Bytes(Is(w, "MOVEMENT_FLAGS_SWIMMING"), 4)
    + Bytes(~Is(w, "MOVEMENT_FLAGS_SWIMMING") /\ Is(w, "MOVEMENT_FLAGS_FLYING"), 4)
    + Bytes(~Is(w, "MOVEMENT_FLAGS_SWIMMING") /\ ~Is(w, "MOVEMENT_FLAGS_FLYING")
            /\ Is(w, "MOVEMENT_FLAGS_ALWAYS_ALLOW_PITCHING"), 4)
    + Bytes(Is(w, "MOVEMENT_FLAGS_FALLING"), 16)
    + Bytes(Is(w, "MOVEMENT_FLAGS_SPLINE_ELEVATION"), 4))

wrath_NpcTextUpdateEmote == PlainStruct(<<4, 4>>, 2 * 4)

wrath_NpcTextUpdate(w) ==
  Struct(
    Ints(<<4>>) \o Each(2, Cstring(w)) \o Ints(<<1>>) \o Each(3, wrath_NpcTextUpdateEmote.read),
    4 + 2 * write_cstring(w) + 1 + 3 * wrath_NpcTextUpdateEmote.written, 29 + 2 * (1 + w.len))

wrath_ObjectEnums ==
  {{"UpdateType::VALUES", "UpdateType::MOVEMENT", "UpdateType::CREATE_OBJECT",
    "UpdateType::OUT_OF_RANGE_OBJECTS"}}

wrath_ObjectFlags == wrath_MovementBlockFlags

wrath_Object(w) ==
  Struct(
    Ints(<<1>>) \o When(Is(w, "UpdateType::VALUES"), PackedGuid(w) \o UpdateMask(w))
    \o When(Is(w, "UpdateType::MOVEMENT"), PackedGuid(w) \o wrath_MovementBlock(w).read)
    \o When(Is(w, "UpdateType::CREATE_OBJECT"),
            PackedGuid(w) \o Ints(<<1>>) \o wrath_MovementBlock(w).read \o UpdateMask(w))
    \o When(
         Is(w, "UpdateType::OUT_OF_RANGE_OBJECTS"), Ints(<<4>>) \o Each(w.count, PackedGuid(w))),
    1 + Bytes(Is(w, "UpdateType::VALUES"), write_packed_guid(w) + update_mask_written(w))
    + Bytes(Is(w, "UpdateType::MOVEMENT"), write_packed_guid(w) + wrath_MovementBlock(w).written)
    + Bytes(Is(w, "UpdateType::CREATE_OBJECT"),
            write_packed_guid(w) + 1 + wrath_MovementBlock(w).written + update_mask_written(w))
    + Bytes(Is(w, "UpdateType::OUT_OF_RANGE_OBJECTS"), 4 + w.count * write_packed_guid(w)),
    1 + Bytes(Is(w, "UpdateType::VALUES"), wwm_packed_guid_size(w) + update_mask_size(w))
    + Bytes(Is(w, "UpdateType::MOVEMENT"), wwm_packed_guid_size(w) + wrath_MovementBlock(w).size)
    + Bytes(Is(w, "UpdateType::CREATE_OBJECT"),
            1 + wwm_packed_guid_size(w) + wrath_MovementBlock(w).size + update_mask_size(w))
    + Bytes(Is(w, "UpdateType::OUT_OF_RANGE_OBJECTS"), 4 + w.count * wwm_packed_guid_size(w)))

wrath_PendingAuctionSale(w) ==
  Struct(
    Cstring(w) \o Cstring(w) \o Ints(<<4, 4, 4>>), 2 * write_cstring(w) + 3 * 4, 14 + 2 * w.len)

wrath_PetSpellCooldown == PlainStruct(<<4, 2, 4, 4>>, 4 + 2 + 2 * 4)

wrath_PetitionShowlist == PlainStruct(Repeat(6, 4), 6 * 4)

wrath_PetitionSignature == PlainStruct(<<8, 4>>, 8 + 4)

wrath_PreviewTalent == PlainStruct(<<4, 4>>, 2 * 4)

wrath_QuestDetailsEmote == PlainStruct(<<4, 4>>, 2 * 4)

wrath_QuestGiverReward == PlainStruct(<<4, 4, 4>>, 3 * 4)

wrath_QuestGiverStatusReport == PlainStruct(<<8, 1>>, 8 + 1)

wrath_QuestItem(w) ==
  Struct(Ints(<<4, 4, 4, 4, 1>>) \o Cstring(w), 4 * 4 + 1 + write_cstring(w), 18 + w.len)

wrath_QuestItemRequirement == PlainStruct(<<4, 4, 4>>, 3 * 4)

wrath_QuestItemReward == PlainStruct(<<4, 4>>, 2 * 4)

wrath_QuestObjective == PlainStruct(<<4, 4, 4, 4>>, 4 * 4)

wrath_Vector2dUnsigned == PlainStruct(<<4, 4>>, 2 * 4)

wrath_QuestPoi(w) ==
  Struct(Ints(Repeat(8, 4)) \o Each(w.count, wrath_Vector2dUnsigned.read),
         8 * 4 + w.count * wrath_Vector2dUnsigned.written, 32 + 8 * w.count)

wrath_QuestPoiList(w) ==
  Struct(Ints(<<4, 4>>) \o Each(w.count, wrath_QuestPoi(w).read),
         2 * 4 + w.count * wrath_QuestPoi(w).written, 8 + w.count * wrath_QuestPoi(w).size)

wrath_RaidInfo == PlainStruct(<<4, 4, 8, 1, 1, 4>>, 2 * 4 + 8 + 2 * 1 + 4)

wrath_RaidTargetUpdate == PlainStruct(<<1, 8>>, 1 + 8)

wrath_ReceivedMail == PlainStruct(<<8, 4, 4, 4, 4>>, 8 + 4 * 4)

wrath_Relation(w) ==
  Struct(
    Ints(<<8, 4>>) \o Cstring(w)
    \o When(Is(w, "RELATION_TYPE_FRIEND"),
            Ints(<<1>>) \o When(Is(w, "FriendStatus::ONLINE"), Ints(<<4, 4, 4>>))),
    8 + 4 + write_cstring(w)
    + Bytes(Is(w, "RELATION_TYPE_FRIEND"), 1 + Bytes(Is(w, "FriendStatus::ONLINE"), 3 * 4)),
    13 + w.len
    + Bytes(Is(w, "RELATION_TYPE_FRIEND"), 1 + Bytes(Is(w, "FriendStatus::ONLINE"), 12)))

wrath_ResyncRune == PlainStruct(<<1, 1>>, 2 * 1)

wrath_SendCalendarEvent(w) ==
  Struct(
    Ints(<<8>>) \o Cstring(w) \o Ints(<<4, 4, 4, 4>>) \o PackedGuid(w),
    8 + write_cstring(w) + 4 * 4 + write_packed_guid(w), 25 + w.len + wwm_packed_guid_size(w))

wrath_SendCalendarHoliday(w) ==
  Struct(Ints(Repeat(51, 4)) \o Cstring(w),
         5 * 4 + 26 * 4 + 2 * 10 * 4 + write_cstring(w), 205 + w.len)

wrath_SendCalendarInstance == PlainStruct(<<4, 4, 4, 8>>, 3 * 4 + 8)

wrath_SendCalendarInvite(w) ==
  Struct(Ints(<<8, 8, 1, 1, 1>>) \o PackedGuid(w),
         2 * 8 + 3 * 1 + write_packed_guid(w), 19 + wwm_packed_guid_size(w))

wrath_SendCalendarResetTime == PlainStruct(<<4, 4, 4>>, 3 * 4)

wrath_SpellCastTargetsFlags ==
  {"SPELL_CAST_TARGET_FLAGS_UNIT", "SPELL_CAST_TARGET_FLAGS_UNIT_MINIPET",
   "SPELL_CAST_TARGET_FLAGS_GAMEOBJECT", "SPELL_CAST_TARGET_FLAGS_CORPSE_ENEMY",
   "SPELL_CAST_TARGET_FLAGS_CORPSE_ALLY", "SPELL_CAST_TARGET_FLAGS_ITEM",
   "SPELL_CAST_TARGET_FLAGS_TRADE_ITEM", "SPELL_CAST_TARGET_FLAGS_SOURCE_LOCATION",
   "SPELL_CAST_TARGET_FLAGS_DEST_LOCATION", "SPELL_CAST_TARGET_FLAGS_STRING"}

wrath_SpellCastTargets(w) ==
  Struct(
    Ints(<<4>>) \o When(Is(w, "SPELL_CAST_TARGET_FLAGS_UNIT"), PackedGuid(w))
    \o When(~Is(w, "SPELL_CAST_TARGET_FLAGS_UNIT")
            /\ Is(w, "SPELL_CAST_TARGET_FLAGS_UNIT_MINIPET"), PackedGuid(w))
    \o When(
         ~Is(w, "SPELL_CAST_TARGET_FLAGS_UNIT") /\ ~Is(w, "SPELL_CAST_TARGET_FLAGS_UNIT_MINIPET")
         /\ Is(w, "SPELL_CAST_TARGET_FLAGS_GAMEOBJECT"), PackedGuid(w))
    \o When(
         ~Is(w, "SPELL_CAST_TARGET_FLAGS_UNIT") /\ ~Is(w, "SPELL_CAST_TARGET_FLAGS_UNIT_MINIPET")
         /\ ~Is(w, "SPELL_CAST_TARGET_FLAGS_GAMEOBJECT")
         /\ Is(w, "SPELL_CAST_TARGET_FLAGS_CORPSE_ENEMY"), PackedGuid(w))
    \o When(
         ~Is(w, "SPELL_CAST_TARGET_FLAGS_UNIT") /\ ~Is(w, "SPELL_CAST_TARGET_FLAGS_UNIT_MINIPET")
         /\ ~Is(w, "SPELL_CAST_TARGET_FLAGS_GAMEOBJECT")
         /\ ~Is(w, "SPELL_CAST_TARGET_FLAGS_CORPSE_ENEMY")
         /\ Is(w, "SPELL_CAST_TARGET_FLAGS_CORPSE_ALLY"), PackedGuid(w))
    \o When(Is(w, "SPELL_CAST_TARGET_FLAGS_ITEM"), PackedGuid(w))
    \o When(~Is(w, "SPELL_CAST_TARGET_FLAGS_ITEM") /\ Is(w, "SPELL_CAST_TARGET_FLAGS_TRADE_ITEM"),
            PackedGuid(w))
    \o When(Is(w, "SPELL_CAST_TARGET_FLAGS_SOURCE_LOCATION"), Vector3d.read)
    \o When(Is(w, "SPELL_CAST_TARGET_FLAGS_DEST_LOCATION"), Vector3d.read)
    \o When(Is(w, "SPELL_CAST_TARGET_FLAGS_STRING"), Cstring(w)),
    4 + Bytes(Is(w, "SPELL_CAST_TARGET_FLAGS_UNIT"), write_packed_guid(w))
    + Bytes(~Is(w, "SPELL_CAST_TARGET_FLAGS_UNIT")
            /\ Is(w, "SPELL_CAST_TARGET_FLAGS_UNIT_MINIPET"), write_packed_guid(w))
    + Bytes(
        ~Is(w, "SPELL_CAST_TARGET_FLAGS_UNIT") /\ ~Is(w, "SPELL_CAST_TARGET_FLAGS_UNIT_MINIPET")
        /\ Is(w, "SPELL_CAST_TARGET_FLAGS_GAMEOBJECT"), write_packed_guid(w))
    + Bytes(
        ~Is(w, "SPELL_CAST_TARGET_FLAGS_UNIT") /\ ~Is(w, "SPELL_CAST_TARGET_FLAGS_UNIT_MINIPET")
        /\ ~Is(w, "SPELL_CAST_TARGET_FLAGS_GAMEOBJECT")
        /\ Is(w, "SPELL_CAST_TARGET_FLAGS_CORPSE_ENEMY"), write_packed_guid(w))
    + Bytes(
        ~Is(w, "SPELL_CAST_TARGET_FLAGS_UNIT") /\ ~Is(w, "SPELL_CAST_TARGET_FLAGS_UNIT_MINIPET")
        /\ ~Is(w, "SPELL_CAST_TARGET_FLAGS_GAMEOBJECT")
        /\ ~Is(w, "SPELL_CAST_TARGET_FLAGS_CORPSE_ENEMY")
        /\ Is(w, "SPELL_CAST_TARGET_FLAGS_CORPSE_ALLY"), write_packed_guid(w))
    + Bytes(Is(w, "SPELL_CAST_TARGET_FLAGS_ITEM"), write_packed_guid(w))
    + Bytes(~Is(w, "SPELL_CAST_TARGET_FLAGS_ITEM") /\ Is(w, "SPELL_CAST_TARGET_FLAGS_TRADE_ITEM"),
            write_packed_guid(w))
    + Bytes(Is(w, "SPELL_CAST_TARGET_FLAGS_SOURCE_LOCATION"), Vector3d.written)
    + Bytes(Is(w, "SPELL_CAST_TARGET_FLAGS_DEST_LOCATION"), Vector3d.written)
    + Bytes(Is(w, "SPELL_CAST_TARGET_FLAGS_STRING"), write_cstring(w)),
    4 + Bytes(Is(w, "SPELL_CAST_TARGET_FLAGS_UNIT"), wwm_packed_guid_size(w))
    + Bytes(~Is(w, "SPELL_CAST_TARGET_FLAGS_UNIT")
            /\ Is(w, "SPELL_CAST_TARGET_FLAGS_UNIT_MINIPET"), wwm_packed_guid_size(w))
    + Bytes(
        ~Is(w, "SPELL_CAST_TARGET_FLAGS_UNIT") /\ ~Is(w, "SPELL_CAST_TARGET_FLAGS_UNIT_MINIPET")
        /\ Is(w, "SPELL_CAST_TARGET_FLAGS_GAMEOBJECT"), wwm_packed_guid_size(w))
    + Bytes(
        ~Is(w, "SPELL_CAST_TARGET_FLAGS_UNIT") /\ ~Is(w, "SPELL_CAST_TARGET_FLAGS_UNIT_MINIPET")
        /\ ~Is(w, "SPELL_CAST_TARGET_FLAGS_GAMEOBJECT")
        /\ Is(w, "SPELL_CAST_TARGET_FLAGS_CORPSE_ENEMY"), wwm_packed_guid_size(w))
    + Bytes(
        ~Is(w, "SPELL_CAST_TARGET_FLAGS_UNIT") /\ ~Is(w, "SPELL_CAST_TARGET_FLAGS_UNIT_MINIPET")
        /\ ~Is(w, "SPELL_CAST_TARGET_FLAGS_GAMEOBJECT")
        /\ ~Is(w, "SPELL_CAST_TARGET_FLAGS_CORPSE_ENEMY")
        /\ Is(w, "SPELL_CAST_TARGET_FLAGS_CORPSE_ALLY"), wwm_packed_guid_size(w))
    + Bytes(Is(w, "SPELL_CAST_TARGET_FLAGS_ITEM"), wwm_packed_guid_size(w))
    + Bytes(~Is(w, "SPELL_CAST_TARGET_FLAGS_ITEM") /\ Is(w, "SPELL_CAST_TARGET_FLAGS_TRADE_ITEM"),
            wwm_packed_guid_size(w))
    + Bytes(Is(w, "SPELL_CAST_TARGET_FLAGS_SOURCE_LOCATION"), 12)
    + Bytes(Is(w, "SPELL_CAST_TARGET_FLAGS_DEST_LOCATION"), 12)
    + Bytes(Is(w, "SPELL_CAST_TARGET_FLAGS_STRING"), 1 + w.len))

wrath_SpellCooldownStatus == PlainStruct(<<4, 4>>, 2 * 4)

wrath_SpellLogEnums ==
  {{"SpellEffect::POWER_DRAIN", "SpellEffect::ADD_EXTRA_ATTACKS", "SpellEffect::INTERRUPT_CAST",
    "SpellEffect::DURABILITY_DAMAGE", "SpellEffect::OPEN_LOCK", "SpellEffect::CREATE_ITEM",
    "SpellEffect::SUMMON", "SpellEffect::FEED_PET", "SpellEffect::DISMISS_PET",
    "SpellEffect::RESURRECT", "SpellEffect::NONE"}}

wrath_SpellLog(w) ==
  Struct(
    Ints(<<4, 4>>) \o When(Is(w, "SpellEffect::POWER_DRAIN"), PackedGuid(w) \o Ints(<<4, 4, 4>>))
    \o When(Is(w, "SpellEffect::ADD_EXTRA_ATTACKS"), PackedGuid(w) \o Ints(<<4>>))
    \o When(Is(w, "SpellEffect::INTERRUPT_CAST"), PackedGuid(w) \o Ints(<<4>>))
    \o When(Is(w, "SpellEffect::DURABILITY_DAMAGE"), PackedGuid(w) \o Ints(<<4, 4>>))
    \o When(Is(w, "SpellEffect::OPEN_LOCK"), PackedGuid(w))
    \o When(Is(w, "SpellEffect::CREATE_ITEM"), Ints(<<4>>))
    \o When(Is(w, "SpellEffect::SUMMON"), PackedGuid(w))
    \o When(Is(w, "SpellEffect::FEED_PET"), PackedGuid(w))
    \o When(Is(w, "SpellEffect::DISMISS_PET"), PackedGuid(w))
    \o When(Is(w, "SpellEffect::RESURRECT"), PackedGuid(w)),
    2 * 4 + Bytes(Is(w, "SpellEffect::POWER_DRAIN"), write_packed_guid(w) + 3 * 4)
    + Bytes(Is(w, "SpellEffect::ADD_EXTRA_ATTACKS"), write_packed_guid(w) + 4)
    + Bytes(Is(w, "SpellEffect::INTERRUPT_CAST"), write_packed_guid(w) + 4)
    + Bytes(Is(w, "SpellEffect::DURABILITY_DAMAGE"), write_packed_guid(w) + 2 * 4)
    + Bytes(Is(w, "SpellEffect::OPEN_LOCK"), write_packed_guid(w))
    + Bytes(Is(w, "SpellEffect::CREATE_ITEM"), 4)
    + Bytes(Is(w, "SpellEffect::SUMMON"), write_packed_guid(w))
    + Bytes(Is(w, "SpellEffect::FEED_PET"), write_packed_guid(w))
    + Bytes(Is(w, "SpellEffect::DISMISS_PET"), write_packed_guid(w))
    + Bytes(Is(w, "SpellEffect::RESURRECT"), write_packed_guid(w)),
    8 + Bytes(Is(w, "SpellEffect::POWER_DRAIN"), 12 + wwm_packed_guid_size(w))
    + Bytes(Is(w, "SpellEffect::ADD_EXTRA_ATTACKS"), 4 + wwm_packed_guid_size(w))
    + Bytes(Is(w, "SpellEffect::INTERRUPT_CAST"), 4 + wwm_packed_guid_size(w))
    + Bytes(Is(w, "SpellEffect::DURABILITY_DAMAGE"), 8 + wwm_packed_guid_size(w))
    + Bytes(Is(w, "SpellEffect::OPEN_LOCK"), wwm_packed_guid_size(w))
    + Bytes(Is(w, "SpellEffect::CREATE_ITEM"), 4)
    + Bytes(Is(w, "SpellEffect::SUMMON"), wwm_packed_guid_size(w))
    + Bytes(Is(w, "SpellEffect::FEED_PET"), wwm_packed_guid_size(w))
    + Bytes(Is(w, "SpellEffect::DISMISS_PET"), wwm_packed_guid_size(w))
    + Bytes(Is(w, "SpellEffect::RESURRECT"), wwm_packed_guid_size(w)))

wrath_SpellLogMiss == PlainStruct(<<8, 1>>, 8 + 1)

wrath_SpellMiss(w) ==
  Struct(
    Ints(<<8, 1>>) \o When(Is(w, "SpellMissInfo::REFLECT"), Ints(<<1>>)),
    8 + 1 + Bytes(Is(w, "SpellMissInfo::REFLECT"), 1),
    9 + Bytes(Is(w, "SpellMissInfo::REFLECT"), 1))

wrath_SpellSteal == PlainStruct(<<4, 1>>, 4 + 1)

wrath_StabledPet(w) ==
  Struct(Ints(<<4, 4, 4>>) \o Cstring(w) \o Ints(<<4, 1>>),
         3 * 4 + write_cstring(w) + 4 + 1, 18 + w.len)

wrath_TalentInfoSpec(w) ==
  Struct(
    Ints(<<1>>) \o Each(U8(w.count), wrath_InspectTalent.read)
    \o Ints(<<1>> \o Repeat(U8(w.count), 2)),
    1 + w.count * wrath_InspectTalent.written + 1 + w.count * 2, 2 + 5 * w.count + 2 * w.count)

wrath_ThreatUpdateUnit(w) ==
  Struct(PackedGuid(w) \o Ints(<<4>>), write_packed_guid(w) + 4, 4 + wwm_packed_guid_size(w))

wrath_TradeSlot ==
  PlainStruct(
    <<1, 4, 4, 4, 4, 8, 4, 4, 4, 4, 8>> \o Repeat(6, 4), 1 + 4 * 4 + 8 + 4 + 3 * 4 + 8 + 6 * 4)

wrath_TrainerSpell ==
  PlainStruct(<<4, 1, 4, 4, 4, 1>> \o Repeat(5, 4), 4 + 1 + 3 * 4 + 1 + 2 * 4 + 3 * 4)

wrath_WhoPlayer(w) ==
  Struct(Cstring(w) \o Cstring(w) \o Ints(<<4, 1, 1, 1, 4>>),
         2 * write_cstring(w) + 4 + 3 * 1 + 4, 13 + 2 * w.len)

wrath_WorldState == PlainStruct(<<4, 4>>, 2 * 4)

wrath_MSG_MOVE_START_FORWARDFlags == wrath_MovementInfoFlags

wrath_MSG_MOVE_START_FORWARD(w) ==
  Struct(
    PackedGuid(w) \o wrath_MovementInfo(w).read,
    write_packed_guid(w) + wrath_MovementInfo(w).written,
    wwm_packed_guid_size(w) + wrath_MovementInfo(w).size)

wrath_MSG_MOVE_START_BACKWARDFlags == wrath_MovementInfoFlags

wrath_MSG_MOVE_START_BACKWARD(w) ==
  Struct(
    PackedGuid(w) \o wrath_MovementInfo(w).read,
    write_packed_guid(w) + wrath_MovementInfo(w).written,
    wwm_packed_guid_size(w) + wrath_MovementInfo(w).size)

wrath_MSG_MOVE_STOPFlags == wrath_MovementInfoFlags

wrath_MSG_MOVE_STOP(w) ==
  Struct(
    PackedGuid(w) \o wrath_MovementInfo(w).read,
    write_packed_guid(w) + wrath_MovementInfo(w).written,
    wwm_packed_guid_size(w) + wrath_MovementInfo(w).size)

wrath_MSG_MOVE_START_STRAFE_LEFTFlags == wrath_MovementInfoFlags

wrath_MSG_MOVE_START_STRAFE_LEFT(w) ==
  Struct(
    PackedGuid(w) \o wrath_MovementInfo(w).read,
    write_packed_guid(w) + wrath_MovementInfo(w).written,
    wwm_packed_guid_size(w) + wrath_MovementInfo(w).size)

wrath_MSG_MOVE_START_STRAFE_RIGHTFlags == wrath_MovementInfoFlags

wrath_MSG_MOVE_START_STRAFE_RIGHT(w) ==
  Struct(
    PackedGuid(w) \o wrath_MovementInfo(w).read,
    write_packed_guid(w) + wrath_MovementInfo(w).written,
    wwm_packed_guid_size(w) + wrath_MovementInfo(w).size)

wrath_MSG_MOVE_STOP_STRAFEFlags == wrath_MovementInfoFlags

wrath_MSG_MOVE_STOP_STRAFE(w) ==
  Struct(
    PackedGuid(w) \o wrath_MovementInfo(w).read,
    write_packed_guid(w) + wrath_MovementInfo(w).written,
    wwm_packed_guid_size(w) + wrath_MovementInfo(w).size)

wrath_MSG_MOVE_JUMPFlags == wrath_MovementInfoFlags

wrath_MSG_MOVE_JUMP(w) ==
  Struct(
    PackedGuid(w) \o wrath_MovementInfo(w).read,
    write_packed_guid(w) + wrath_MovementInfo(w).written,
    wwm_packed_guid_size(w) + wrath_MovementInfo(w).size)

wrath_MSG_MOVE_START_TURN_LEFTFlags == wrath_MovementInfoFlags

wrath_MSG_MOVE_START_TURN_LEFT(w) ==
  Struct(
    PackedGuid(w) \o wrath_MovementInfo(w).read,
    write_packed_guid(w) + wrath_MovementInfo(w).written,
    wwm_packed_guid_size(w) + wrath_MovementInfo(w).size)

wrath_MSG_MOVE_START_TURN_RIGHTFlags == wrath_MovementInfoFlags

wrath_MSG_MOVE_START_TURN_RIGHT(w) ==
  Struct(
    PackedGuid(w) \o wrath_MovementInfo(w).read,
    write_packed_guid(w) + wrath_MovementInfo(w).written,
    wwm_packed_guid_size(w) + wrath_MovementInfo(w).size)

wrath_MSG_MOVE_STOP_TURNFlags == wrath_MovementInfoFlags

wrath_MSG_MOVE_STOP_TURN(w) ==
  Struct(
    PackedGuid(w) \o wrath_MovementInfo(w).read,
    write_packed_guid(w) + wrath_MovementInfo(w).written,
    wwm_packed_guid_size(w) + wrath_MovementInfo(w).size)

wrath_MSG_MOVE_START_PITCH_UPFlags == wrath_MovementInfoFlags

wrath_MSG_MOVE_START_PITCH_UP(w) ==
  Struct(
    PackedGuid(w) \o wrath_MovementInfo(w).read,
    write_packed_guid(w) + wrath_MovementInfo(w).written,
    wwm_packed_guid_size(w) + wrath_MovementInfo(w).size)

wrath_MSG_MOVE_START_PITCH_DOWNFlags == wrath_MovementInfoFlags

wrath_MSG_MOVE_START_PITCH_DOWN(w) ==
  Struct(
    PackedGuid(w) \o wrath_MovementInfo(w).read,
    write_packed_guid(w) + wrath_MovementInfo(w).written,
    wwm_packed_guid_size(w) + wrath_MovementInfo(w).size)

wrath_MSG_MOVE_STOP_PITCHFlags == wrath_MovementInfoFlags

wrath_MSG_MOVE_STOP_PITCH(w) ==
  Struct(
    PackedGuid(w) \o wrath_MovementInfo(w).read,
    write_packed_guid(w) + wrath_MovementInfo(w).written,
    wwm_packed_guid_size(w) + wrath_MovementInfo(w).size)

wrath_MSG_MOVE_SET_RUN_MODEFlags == wrath_MovementInfoFlags

wrath_MSG_MOVE_SET_RUN_MODE(w) ==
  Struct(
    PackedGuid(w) \o wrath_MovementInfo(w).read,
    write_packed_guid(w) + wrath_MovementInfo(w).written,
    wwm_packed_guid_size(w) + wrath_MovementInfo(w).size)

wrath_MSG_MOVE_SET_WALK_MODEFlags == wrath_MovementInfoFlags

wrath_MSG_MOVE_SET_WALK_MODE(w) ==
  Struct(
    PackedGuid(w) \o wrath_MovementInfo(w).read,
    write_packed_guid(w) + wrath_MovementInfo(w).written,
    wwm_packed_guid_size(w) + wrath_MovementInfo(w).size)

wrath_MSG_MOVE_FALL_LANDFlags == wrath_MovementInfoFlags

wrath_MSG_MOVE_FALL_LAND(w) ==
  Struct(
    PackedGuid(w) \o wrath_MovementInfo(w).read,
    write_packed_guid(w) + wrath_MovementInfo(w).written,
    wwm_packed_guid_size(w) + wrath_MovementInfo(w).size)

wrath_MSG_MOVE_START_SWIMFlags == wrath_MovementInfoFlags

wrath_MSG_MOVE_START_SWIM(w) ==
  Struct(
    PackedGuid(w) \o wrath_MovementInfo(w).read,
    write_packed_guid(w) + wrath_MovementInfo(w).written,
    wwm_packed_guid_size(w) + wrath_MovementInfo(w).size)

wrath_MSG_MOVE_STOP_SWIMFlags == wrath_MovementInfoFlags

wrath_MSG_MOVE_STOP_SWIM(w) ==
  Struct(
    PackedGuid(w) \o wrath_MovementInfo(w).read,
    write_packed_guid(w) + wrath_MovementInfo(w).written,
    wwm_packed_guid_size(w) + wrath_MovementInfo(w).size)

wrath_MSG_MOVE_SET_FACINGFlags == wrath_MovementInfoFlags

wrath_MSG_MOVE_SET_FACING(w) ==
  Struct(
    PackedGuid(w) \o wrath_MovementInfo(w).read,
    write_packed_guid(w) + wrath_MovementInfo(w).written,
    wwm_packed_guid_size(w) + wrath_MovementInfo(w).size)

wrath_MSG_MOVE_SET_PITCHFlags == wrath_MovementInfoFlags

wrath_MSG_MOVE_SET_PITCH(w) ==
  Struct(
    PackedGuid(w) \o wrath_MovementInfo(w).read,
    write_packed_guid(w) + wrath_MovementInfo(w).written,
    wwm_packed_guid_size(w) + wrath_MovementInfo(w).size)

wrath_MSG_MOVE_HEARTBEATFlags == wrath_MovementInfoFlags

wrath_MSG_MOVE_HEARTBEAT(w) ==
  Struct(
    PackedGuid(w) \o wrath_MovementInfo(w).read,
    write_packed_guid(w) + wrath_MovementInfo(w).written,
    wwm_packed_guid_size(w) + wrath_MovementInfo(w).size)

wrath_MSG_MOVE_HOVERFlags == wrath_MovementInfoFlags

wrath_MSG_MOVE_HOVER(w) ==
  Struct(
    PackedGuid(w) \o wrath_MovementInfo(w).read,
    write_packed_guid(w) + wrath_MovementInfo(w).written,
    wwm_packed_guid_size(w) + wrath_MovementInfo(w).size)

wrath_MSG_PETITION_DECLINE == Struct(Ints(<<8>>), 8, 8)

wrath_MSG_TABARDVENDOR_ACTIVATE == Struct(Ints(<<8>>), 8, 8)

wrath_MSG_QUEST_PUSH_RESULT == Struct(Ints(<<8, 1>>), 8 + 1, 9)

wrath_MSG_MOVE_WATER_WALKFlags == wrath_MovementInfoFlags

wrath_MSG_MOVE_WATER_WALK(w) ==
  Struct(
    PackedGuid(w) \o wrath_MovementInfo(w).read,
    write_packed_guid(w) + wrath_MovementInfo(w).written,
    wwm_packed_guid_size(w) + wrath_MovementInfo(w).size)

wrath_MSG_PETITION_RENAME(w) == Struct(Ints(<<8>>) \o Cstring(w), 8 + write_cstring(w), 9 + w.len)

wrath_MSG_MOVE_START_ASCENDFlags == wrath_MovementInfoFlags

wrath_MSG_MOVE_START_ASCEND(w) ==
  Struct(
    PackedGuid(w) \o wrath_MovementInfo(w).read,
    write_packed_guid(w) + wrath_MovementInfo(w).written,
    wwm_packed_guid_size(w) + wrath_MovementInfo(w).size)

wrath_MSG_MOVE_STOP_ASCENDFlags == wrath_MovementInfoFlags

wrath_MSG_MOVE_STOP_ASCEND(w) ==
  Struct(
    PackedGuid(w) \o wrath_MovementInfo(w).read,
    write_packed_guid(w) + wrath_MovementInfo(w).written,
    wwm_packed_guid_size(w) + wrath_MovementInfo(w).size)

wrath_MSG_MOVE_SET_FLIGHT_BACK_SPEEDFlags == wrath_MovementInfoFlags

wrath_MSG_MOVE_SET_FLIGHT_BACK_SPEED(w) ==
  Struct(
    PackedGuid(w) \o wrath_MovementInfo(w).read \o Ints(<<4>>),
    write_packed_guid(w) + wrath_MovementInfo(w).written + 4,
    4 + wwm_packed_guid_size(w) + wrath_MovementInfo(w).size)

wrath_MSG_MOVE_START_DESCENDFlags == wrath_MovementInfoFlags

wrath_MSG_MOVE_START_DESCEND(w) ==
  Struct(
    PackedGuid(w) \o wrath_MovementInfo(w).read,
    write_packed_guid(w) + wrath_MovementInfo(w).written,
    wwm_packed_guid_size(w) + wrath_MovementInfo(w).size)
=============================================================================
