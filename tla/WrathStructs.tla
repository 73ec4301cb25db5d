--------------------------- MODULE WrathStructs ---------------------------
(*****************************************************************************)
(* The structs of the 3.3.5 version of the world protocol: what the read,    *)
(* write, size and free functions of src/wow_world_messages_c/src/wrath.c    *)
(* do with them, one definition for each struct, in the vocabulary of        *)
(* WorldFormat.                                                              *)
(*                                                                           *)
(* A struct is a record of what its functions do with it on one wire. Of     *)
(* its last two numbers the first adds up the calls of the write function,   *)
(* in their order, and the second is what the size function adds up.         *)
(*****************************************************************************)
EXTENDS WorldFormat

wrath_enchant_mask(w) == Mask(2, 2, w)
wrath_enchant_mask_written(w) == mask_written(2, 2, w)
wrath_enchant_mask_size(w) == mask_size(2, 2, w)

wrath_cache_mask(w) == Mask(4, 4, w)
wrath_cache_mask_written(w) == mask_written(4, 4, w)
wrath_cache_mask_size(w) == mask_size(4, 4, w)

wrath_AchievementDone == PlainStruct(8, <<4, 4>>, 2 * 4)

wrath_AchievementInProgress(w) ==
  Struct({}, Minimum(22) \o Ints(<<4>>) \o PackedGuid(w) \o PackedGuid(w) \o Ints(<<4, 4, 4, 4>>),
         4 + 2 * WRITE_PACKED_GUID(w) + 4 * 4, 20 + 2 * wwm_packed_guid_size(w))

wrath_ActionButton == PlainStruct(4, <<2, 1, 1>>, 2 + 2 * 1)

wrath_ArenaTeamMember(w) ==
  Struct(
    Free({"name"}),
    Minimum(32) \o Null({"name"}) \o Ints(<<8, 1>>) \o Cstring("name", w)
    \o Ints(<<1, 1>> \o Repeat(5, 4)), 8 + 1 + WRITE_CSTRING(w) + 2 * 1 + 5 * 4, 32 + w.len)

wrath_AuctionEnchantment == PlainStruct(12, <<4, 4, 4>>, 3 * 4)

wrath_AuctionListItem ==
  FixedStruct(
    Minimum(148) \o Ints(<<4, 4>>) \o Each("enchantments", 7, wrath_AuctionEnchantment.read)
    \o Ints(Repeat(5, 4) \o <<8, 4, 4, 4, 4, 8, 4>>),
    2 * 4 + 7 * wrath_AuctionEnchantment.written + 5 * 4 + 8 + 4 * 4 + 8 + 4)

wrath_AuctionSort == PlainStruct(2, <<1, 1>>, 2 * 1)

wrath_Aura == PlainStruct(5, <<4, 1>>, 4 + 1)

wrath_aura_mask(w) == Ints(<<8>>) \o FlattenSeq(Repeat(w.len, wrath_Aura.read))
wrath_aura_mask_written(w) == mask_written(8, wrath_Aura.written, w)
wrath_aura_mask_size(w) == mask_size(8, 5, w)

wrath_AuraLogEnums ==
  {{"AURA_TYPE_PERIODIC_DAMAGE", "AURA_TYPE_PERIODIC_HEAL", "AURA_TYPE_OBS_MOD_POWER",
    "AURA_TYPE_PERIODIC_MANA_LEECH", "AURA_TYPE_NONE"}}

wrath_AuraLog(w) ==
  Struct(
    {},
    Minimum(4) \o Ints(<<4>>)
    \o When(Is(w, "AURA_TYPE_PERIODIC_DAMAGE"), Ints(<<4, 4, 1, 4, 4, 1>>))
    \o When(Is(w, "AURA_TYPE_PERIODIC_HEAL"), Ints(<<4, 4, 4, 1>>))
    \o When(Is(w, "AURA_TYPE_OBS_MOD_POWER"), Ints(<<4, 4>>))
    \o When(Is(w, "AURA_TYPE_PERIODIC_MANA_LEECH"), Ints(<<4, 4, 4>>)),
    4 + Bytes(Is(w, "AURA_TYPE_PERIODIC_DAMAGE"), 2 * 4 + 1 + 2 * 4 + 1)
    + Bytes(Is(w, "AURA_TYPE_PERIODIC_HEAL"), 3 * 4 + 1)
    + Bytes(Is(w, "AURA_TYPE_OBS_MOD_POWER"), 2 * 4)
    + Bytes(Is(w, "AURA_TYPE_PERIODIC_MANA_LEECH"), 3 * 4),
    4 + Bytes(Is(w, "AURA_TYPE_PERIODIC_DAMAGE"), 18)
    + Bytes(Is(w, "AURA_TYPE_PERIODIC_HEAL"), 13) + Bytes(Is(w, "AURA_TYPE_OBS_MOD_POWER"), 8)
    + Bytes(Is(w, "AURA_TYPE_PERIODIC_MANA_LEECH"), 12))

wrath_AuraUpdate(w) ==
  Struct(
    {},
    Minimum(8) \o Ints(<<1, 4, 1, 1, 1>>) \o When(Is(w, "AURA_FLAG_NOT_CASTER"), PackedGuid(w))
    \o When(Is(w, "AURA_FLAG_DURATION"), Ints(<<4, 4>>)),
    1 + 4 + 3 * 1 + Bytes(Is(w, "AURA_FLAG_NOT_CASTER"), WRITE_PACKED_GUID(w))
    + Bytes(Is(w, "AURA_FLAG_DURATION"), 2 * 4),
    8 + Bytes(Is(w, "AURA_FLAG_NOT_CASTER"), wwm_packed_guid_size(w))
    + Bytes(Is(w, "AURA_FLAG_DURATION"), 8))

wrath_BankTab == PlainStruct(8, <<4, 4>>, 2 * 4)

wrath_BattlegroundPlayerPosition == PlainStruct(16, <<8, 4, 4>>, 8 + 2 * 4)

wrath_CalendarInvitee(w) ==
  Struct({}, Minimum(3) \o PackedGuid(w) \o Ints(<<1, 1>>),
         WRITE_PACKED_GUID(w) + 2 * 1, 2 + wwm_packed_guid_size(w))

wrath_CalendarMember(w) ==
  Struct({}, Minimum(2) \o PackedGuid(w) \o Ints(<<1>>),
         WRITE_PACKED_GUID(w) + 1, 1 + wwm_packed_guid_size(w))

wrath_CalendarSendInvitee(w) ==
  Struct(
    Free({"text"}),
    Minimum(18) \o Null({"text"}) \o PackedGuid(w) \o Ints(<<1, 1, 1, 1, 8, 4>>)
    \o Cstring("text", w),
    WRITE_PACKED_GUID(w) + 4 * 1 + 8 + 4 + WRITE_CSTRING(w), 17 + w.len + wwm_packed_guid_size(w))

wrath_ChannelMember == PlainStruct(9, <<8, 1>>, 8 + 1)

wrath_CharacterGear == PlainStruct(9, <<4, 1, 4>>, 4 + 1 + 4)

wrath_Character(w) ==
  Struct(
    Free({"name"}),
    Minimum(270) \o Null({"name"}) \o Ints(<<8>>) \o Cstring("name", w)
    \o Ints(Repeat(9, 1) \o <<4, 4>>) \o Vector3d.read \o Ints(<<4, 4, 4, 1, 4, 4, 4>>)
    \o Each("equipment", 23, wrath_CharacterGear.read),
    8 + WRITE_CSTRING(w) + 9 * 1 + 2 * 4 + Vector3d.written + 3 * 4 + 1 + 3 * 4
    + 23 * wrath_CharacterGear.written, 270 + w.len)

wrath_CooldownSpell == PlainStruct(14, <<2, 2, 2, 4, 4>>, 3 * 2 + 2 * 4)

wrath_DamageInfo == PlainStruct(12, <<4, 4, 4>>, 3 * 4)

wrath_DispelledSpell == PlainStruct(5, <<4, 1>>, 4 + 1)

wrath_EquipmentSet == PlainStruct(10, <<8, 1, 1>>, 8 + 2 * 1)

wrath_EquipmentSetListItem(w) ==
  Struct(
    Free({"name", "icon_name"}),
    Minimum(162) \o Null({"name", "icon_name"}) \o Ints(<<8>>) \o Cstring("name", w)
    \o Cstring("icon_name", w) \o Ints(Repeat(19, 8)),
    8 + 2 * WRITE_CSTRING(w) + 19 * 8, 162 + 2 * w.len)

wrath_FactionInitializer == PlainStruct(5, <<1, 4>>, 1 + 4)

wrath_FactionStanding == PlainStruct(6, <<2, 4>>, 2 + 4)

wrath_ForcedReaction == PlainStruct(6, <<2, 4>>, 2 + 4)

wrath_GmSurveyQuestion(w) ==
  Struct(
    Free({"comment"}), Minimum(6) \o Null({"comment"}) \o Ints(<<4, 1>>) \o Cstring("comment", w),
    4 + 1 + WRITE_CSTRING(w), 6 + w.len)

wrath_GossipItem(w) ==
  Struct(
    Free({"message", "accept_text"}),
    Minimum(12) \o Null({"message", "accept_text"}) \o Ints(<<4, 1, 1, 4>>)
    \o Cstring("message", w) \o Cstring("accept_text", w),
    4 + 2 * 1 + 4 + 2 * WRITE_CSTRING(w), 12 + 2 * w.len)

wrath_GroupListMember(w) ==
  Struct(
    Free({"name"}),
    Minimum(13) \o Null({"name"}) \o Cstring("name", w) \o Ints(<<8, 1, 1, 1, 1>>),
    WRITE_CSTRING(w) + 8 + 4 * 1, 13 + w.len)

wrath_GuildBankRights == PlainStruct(8, <<4, 4>>, 2 * 4)

wrath_GuildBankSocket == PlainStruct(5, <<1, 4>>, 1 + 4)

wrath_GuildBankSlot(w) ==
  Struct(
    Free({"sockets"}),
    Minimum(23) \o Null({"sockets"}) \o Ints(<<1, 4, 4>>) \o VariableItemRandomProperty(w).read
    \o Ints(<<4, 4, 1, 1>>) \o Array("sockets", w.count, {}, wrath_GuildBankSocket.read),
    1 + 2 * 4 + VariableItemRandomProperty(w).written + 2 * 4 + 2 * 1
    + w.count * wrath_GuildBankSocket.written,
    19 + VariableItemRandomProperty(w).size + 5 * w.count)

wrath_GuildBankTab(w) ==
  Struct(
    Free({"tab_name", "tab_icon"}),
    Minimum(2) \o Null({"tab_name", "tab_icon"}) \o Cstring("tab_name", w)
    \o Cstring("tab_icon", w), 2 * WRITE_CSTRING(w), 2 + 2 * w.len)

wrath_GuildLogEvent(w) ==
  Struct(
    {},
    Minimum(13) \o Ints(<<1, 8>>) \o When(Is(w, "GUILD_EVENT_JOINED"), Ints(<<8>>))
    \o When(Is(w, "GUILD_EVENT_PROMOTION"), Ints(<<1>>)) \o Ints(<<4>>),
    1 + 8 + Bytes(Is(w, "GUILD_EVENT_JOINED"), 8) + Bytes(Is(w, "GUILD_EVENT_PROMOTION"), 1) + 4,
    13 + Bytes(Is(w, "GUILD_EVENT_JOINED"), 8) + Bytes(Is(w, "GUILD_EVENT_PROMOTION"), 1))

wrath_GuildMember(w) ==
  Struct(
    Free({"name", "public_note", "officer_note"}),
    Minimum(27) \o Null({"name", "public_note", "officer_note"}) \o Ints(<<8, 4, 1>>)
    \o Cstring("name", w) \o Ints(<<4, 1, 1, 1, 4>>)
    \o When(Is(w, "GUILD_MEMBER_STATUS_OFFLINE"), Ints(<<4>>)) \o Cstring("public_note", w)
    \o Cstring("officer_note", w),
    8 + 4 + 1 + WRITE_CSTRING(w) + 4 + 3 * 1 + 4 + Bytes(Is(w, "GUILD_MEMBER_STATUS_OFFLINE"), 4)
    + 2 * WRITE_CSTRING(w), 27 + 3 * w.len + Bytes(Is(w, "GUILD_MEMBER_STATUS_OFFLINE"), 4))

wrath_GuildRights ==
  FixedStruct(
    Minimum(56) \o Ints(<<4, 4>>) \o Each("bank_tab_rights", 6, wrath_GuildBankRights.read),
    2 * 4 + 6 * wrath_GuildBankRights.written)

wrath_InitialSpell == PlainStruct(6, <<4, 2>>, 4 + 2)

wrath_InspectTalent == PlainStruct(5, <<4, 1>>, 4 + 1)

wrath_InspectTalentGear(w) ==
  Struct(
    {},
    Minimum(13) \o Ints(<<4>>) \o wrath_enchant_mask(w) \o Ints(<<2>>) \o PackedGuid(w)
    \o Ints(<<4>>),
    4 + wrath_enchant_mask_written(w) + 2 + WRITE_PACKED_GUID(w) + 4,
    10 + wwm_packed_guid_size(w) + wrath_enchant_mask_size(w))

wrath_inspect_talent_gear_mask(w) == Ints(<<4>>) \o FlattenSeq(Repeat(w.len, wrath_InspectTalentGear(w).read))
wrath_inspect_talent_gear_mask_written(w) == mask_written(4, wrath_InspectTalentGear(w).written, w)
wrath_inspect_talent_gear_mask_size(w) == mask_size(4, wrath_InspectTalentGear(w).size, w)

wrath_InspectTalentSpec(w) ==
  Struct(
    Free({"talents"}),
    Minimum(1) \o Null({"talents"}) \o Ints(<<1>>)
    \o Array("talents", w.count, {}, wrath_InspectTalent.read),
    1 + w.count * wrath_InspectTalent.written, 1 + 5 * w.count)

wrath_ItemDamageType == PlainStruct(12, <<4, 4, 4>>, 3 * 4)

wrath_ItemRefundExtra == PlainStruct(8, <<4, 4>>, 2 * 4)

wrath_ItemSocket == PlainStruct(8, <<4, 4>>, 2 * 4)

wrath_ItemSpells == PlainStruct(24, Repeat(6, 4), 6 * 4)

wrath_ItemStat == PlainStruct(8, <<4, 4>>, 2 * 4)

wrath_LfgQuestReward == PlainStruct(12, <<4, 4, 4>>, 3 * 4)

wrath_LfgAvailableDungeon(w) ==
  Struct(
    Free({"rewards"}),
    Minimum(22) \o Null({"rewards"}) \o Ints(<<4, 1, 4, 4, 4, 4, 1>>)
    \o Array("rewards", w.count, {}, wrath_LfgQuestReward.read),
    4 + 1 + 4 * 4 + 1 + w.count * wrath_LfgQuestReward.written, 22 + 12 * w.count)

wrath_LfgJoinLockedDungeon == PlainStruct(8, <<4, 4>>, 2 * 4)

wrath_LfgJoinPlayer(w) ==
  Struct(
    Free({"locked_dungeons"}),
    Minimum(12) \o Null({"locked_dungeons"}) \o Ints(<<8, 4>>)
    \o Array("locked_dungeons", w.count, {}, wrath_LfgJoinLockedDungeon.read),
    8 + 4 + w.count * wrath_LfgJoinLockedDungeon.written, 12 + 8 * w.count)

wrath_LfgListGroup(w) ==
  Struct(
    FreeIf("flags", {"LFG_UPDATE_FLAG_COMMENT"}, Free({"comment"})),
    Minimum(24) \o Null({"comment"}) \o Ints(<<8>>) \o Field(4, "flags", {}, w)
    \o When(Is(w, "LFG_UPDATE_FLAG_COMMENT"), Cstring("comment", w))
    \o When(Is(w, "LFG_UPDATE_FLAG_ROLES"), Ints(<<1, 1, 1>>)) \o Ints(<<8, 4>>),
    8 + 4 + Bytes(Is(w, "LFG_UPDATE_FLAG_COMMENT"), WRITE_CSTRING(w))
    + Bytes(Is(w, "LFG_UPDATE_FLAG_ROLES"), 3) + 8 + 4,
    24 + Bytes(Is(w, "LFG_UPDATE_FLAG_COMMENT"), 1 + w.len)
    + Bytes(Is(w, "LFG_UPDATE_FLAG_ROLES"), 3))

wrath_LfgListPlayerFlags ==
  {"LFG_UPDATE_FLAG_CHARACTER_INFO", "LFG_UPDATE_FLAG_COMMENT", "LFG_UPDATE_FLAG_GROUP_LEADER",
   "LFG_UPDATE_FLAG_GROUP_GUID", "LFG_UPDATE_FLAG_ROLES", "LFG_UPDATE_FLAG_AREA",
   "LFG_UPDATE_FLAG_STATUS"}

wrath_LfgListPlayer(w) ==
  Struct(
    FreeIf("flags", {"LFG_UPDATE_FLAG_COMMENT"}, Free({"comment"})),
    Minimum(24) \o Null({"comment"}) \o Ints(<<8>>) \o Field(4, "flags", {}, w)
    \o When(Is(w, "LFG_UPDATE_FLAG_CHARACTER_INFO"), Ints(Repeat(6, 1) \o Repeat(20, 4)))
    \o When(Is(w, "LFG_UPDATE_FLAG_COMMENT"), Cstring("comment", w))
    \o When(Is(w, "LFG_UPDATE_FLAG_GROUP_LEADER"), Ints(<<1>>))
    \o When(Is(w, "LFG_UPDATE_FLAG_GROUP_GUID"), Ints(<<8>>))
    \o When(Is(w, "LFG_UPDATE_FLAG_ROLES"), Ints(<<1>>))
    \o When(Is(w, "LFG_UPDATE_FLAG_AREA"), Ints(<<4>>))
    \o When(Is(w, "LFG_UPDATE_FLAG_STATUS"), Ints(<<1>>)) \o Ints(<<8, 4>>),
    8 + 4 + Bytes(Is(w, "LFG_UPDATE_FLAG_CHARACTER_INFO"), 6 * 1 + 20 * 4)
    + Bytes(Is(w, "LFG_UPDATE_FLAG_COMMENT"), WRITE_CSTRING(w))
    + Bytes(Is(w, "LFG_UPDATE_FLAG_GROUP_LEADER"), 1)
    + Bytes(Is(w, "LFG_UPDATE_FLAG_GROUP_GUID"), 8) + Bytes(Is(w, "LFG_UPDATE_FLAG_ROLES"), 1)
    + Bytes(Is(w, "LFG_UPDATE_FLAG_AREA"), 4) + Bytes(Is(w, "LFG_UPDATE_FLAG_STATUS"), 1) + 8
    + 4,
    24 + Bytes(Is(w, "LFG_UPDATE_FLAG_CHARACTER_INFO"), 86)
    + Bytes(Is(w, "LFG_UPDATE_FLAG_COMMENT"), 1 + w.len)
    + Bytes(Is(w, "LFG_UPDATE_FLAG_GROUP_LEADER"), 1)
    + Bytes(Is(w, "LFG_UPDATE_FLAG_GROUP_GUID"), 8) + Bytes(Is(w, "LFG_UPDATE_FLAG_ROLES"), 1)
    + Bytes(Is(w, "LFG_UPDATE_FLAG_AREA"), 4) + Bytes(Is(w, "LFG_UPDATE_FLAG_STATUS"), 1))

wrath_LfgPartyInfo(w) ==
  Struct(
    Free({"dungeons"}),
    Minimum(12) \o Null({"dungeons"}) \o Ints(<<8, 4>>)
    \o Array("dungeons", w.count, {}, wrath_LfgJoinLockedDungeon.read),
    8 + 4 + w.count * wrath_LfgJoinLockedDungeon.written, 12 + 8 * w.count)

wrath_LfgProposal == PlainStruct(9, <<4>> \o Repeat(5, 1), 4 + 5 * 1)

wrath_LfgRole == PlainStruct(14, <<8, 1, 4, 1>>, 8 + 1 + 4 + 1)

wrath_ListInventoryItem == PlainStruct(32, Repeat(8, 4), 8 * 4)

wrath_LootItem == PlainStruct(6, <<1, 4, 1>>, 1 + 4 + 1)

wrath_MailListItemEnchant == PlainStruct(12, <<4, 4, 4>>, 3 * 4)

wrath_MailListItem ==
  FixedStruct(
    Minimum(115) \o Ints(<<1, 4, 4>>) \o Each("enchants", 7, wrath_MailListItemEnchant.read)
    \o Ints(<<4, 4, 1, 4, 4, 4, 1>>),
    1 + 2 * 4 + 7 * wrath_MailListItemEnchant.written + 2 * 4 + 1 + 3 * 4 + 1)

wrath_MailEnums ==
  {{"MAIL_TYPE_NORMAL", "MAIL_TYPE_CREATURE", "MAIL_TYPE_AUCTION", "MAIL_TYPE_ITEM"}}

wrath_Mail(w) ==
  Struct(
    Free({"subject", "message", "items"}),
    Minimum(38) \o Null({"subject", "message", "items"}) \o Ints(<<2, 4, 1>>)
    \o When(Is(w, "MAIL_TYPE_NORMAL"), Ints(<<8>>))
    \o When(Is(w, "MAIL_TYPE_CREATURE"), Ints(<<4>>))
    \o When(Is(w, "MAIL_TYPE_AUCTION"), Ints(<<4>>))
    \o When(Is(w, "MAIL_TYPE_ITEM"), Ints(<<4>>)) \o Ints(Repeat(7, 4)) \o Cstring("subject", w)
    \o Cstring("message", w) \o Ints(<<1>>)
    \o Array("items", w.count, {}, wrath_MailListItem.read),
    2 + 4 + 1 + Bytes(Is(w, "MAIL_TYPE_NORMAL"), 8) + Bytes(Is(w, "MAIL_TYPE_CREATURE"), 4)
    + Bytes(Is(w, "MAIL_TYPE_AUCTION"), 4) + Bytes(Is(w, "MAIL_TYPE_ITEM"), 4) + 7 * 4
    + 2 * WRITE_CSTRING(w) + 1 + w.count * wrath_MailListItem.written,
    38 + 2 * w.len + 115 * w.count + Bytes(Is(w, "MAIL_TYPE_NORMAL"), 8)
    + Bytes(Is(w, "MAIL_TYPE_CREATURE"), 4) + Bytes(Is(w, "MAIL_TYPE_AUCTION"), 4)
    + Bytes(Is(w, "MAIL_TYPE_ITEM"), 4))

wrath_MailItem == PlainStruct(9, <<8, 1>>, 8 + 1)

wrath_MiniMoveMessage(w) ==
  Struct({}, Minimum(8) \o Ints(<<1, 2>>) \o PackedGuid(w) \o Ints(<<4>>),
         1 + 2 + WRITE_PACKED_GUID(w) + 4, 7 + wwm_packed_guid_size(w))

wrath_MoneyLogItem == PlainStruct(17, <<1, 8, 4, 4>>, 1 + 8 + 2 * 4)

wrath_TransportInfo(w) ==
  Struct({}, Minimum(22) \o PackedGuid(w) \o Vector3d.read \o Ints(<<4, 4, 1>>),
         WRITE_PACKED_GUID(w) + Vector3d.written + 2 * 4 + 1, 21 + wwm_packed_guid_size(w))

wrath_MovementBlockFlags ==
  {"UPDATE_FLAG_LIVING", "UPDATE_FLAG_POSITION", "UPDATE_FLAG_HAS_POSITION",
   "UPDATE_FLAG_HIGH_GUID", "UPDATE_FLAG_LOW_GUID", "UPDATE_FLAG_HAS_ATTACKING_TARGET",
   "UPDATE_FLAG_TRANSPORT", "UPDATE_FLAG_VEHICLE", "UPDATE_FLAG_ROTATION",
   "MOVEMENT_FLAGS_ON_TRANSPORT_AND_INTERPOLATED_MOVEMENT", "MOVEMENT_FLAGS_ON_TRANSPORT",
   "MOVEMENT_FLAGS_SWIMMING", "MOVEMENT_FLAGS_FLYING", "MOVEMENT_FLAGS_ALWAYS_ALLOW_PITCHING",
   "MOVEMENT_FLAGS_FALLING", "MOVEMENT_FLAGS_SPLINE_ELEVATION", "MOVEMENT_FLAGS_SPLINE_ENABLED",
   "SPLINE_FLAG_FINAL_ANGLE", "SPLINE_FLAG_FINAL_TARGET", "SPLINE_FLAG_FINAL_POINT"}

wrath_MovementBlock(w) ==
  Struct(
    FreeIf("update_flag", {"UPDATE_FLAG_LIVING"},
           FreeIf("flags", {"MOVEMENT_FLAGS_SPLINE_ENABLED"}, Free({"nodes"}))),
    Minimum(2) \o Null({"nodes"}) \o Field(2, "update_flag", {}, w)
    \o When(
         Is(w, "UPDATE_FLAG_LIVING"),
         Field(6, "flags", {}, w) \o Ints(<<4>>) \o Vector3d.read \o Ints(<<4>>)
         \o When(Is(w, "MOVEMENT_FLAGS_ON_TRANSPORT_AND_INTERPOLATED_MOVEMENT"),
                 wrath_TransportInfo(w).read \o Ints(<<4>>))
         \o When(~Is(w, "MOVEMENT_FLAGS_ON_TRANSPORT_AND_INTERPOLATED_MOVEMENT")
                 /\ Is(w, "MOVEMENT_FLAGS_ON_TRANSPORT"), wrath_TransportInfo(w).read)
         \o When(Is(w, "MOVEMENT_FLAGS_SWIMMING"), Ints(<<4>>))
         \o When(
              ~Is(w, "MOVEMENT_FLAGS_SWIMMING") /\ Is(w, "MOVEMENT_FLAGS_FLYING"), Ints(<<4>>))
         \o When(~Is(w, "MOVEMENT_FLAGS_SWIMMING") /\ ~Is(w, "MOVEMENT_FLAGS_FLYING")
                 /\ Is(w, "MOVEMENT_FLAGS_ALWAYS_ALLOW_PITCHING"), Ints(<<4>>)) \o Ints(<<4>>)
         \o When(Is(w, "MOVEMENT_FLAGS_FALLING"), Ints(<<4, 4, 4, 4>>))
         \o When(Is(w, "MOVEMENT_FLAGS_SPLINE_ELEVATION"), Ints(<<4>>)) \o Ints(Repeat(9, 4))
         \o When(
              Is(w, "MOVEMENT_FLAGS_SPLINE_ENABLED"),
              Ints(<<4>>) \o When(Is(w, "SPLINE_FLAG_FINAL_ANGLE"), Ints(<<4>>))
              \o When(~Is(w, "SPLINE_FLAG_FINAL_ANGLE") /\ Is(w, "SPLINE_FLAG_FINAL_TARGET"),
                      Ints(<<8>>))
              \o When(~Is(w, "SPLINE_FLAG_FINAL_ANGLE") /\ ~Is(w, "SPLINE_FLAG_FINAL_TARGET")
                      /\ Is(w, "SPLINE_FLAG_FINAL_POINT"), Vector3d.read) \o Ints(Repeat(8, 4))
              \o Array("nodes", w.count, {}, Vector3d.read) \o Ints(<<1>>) \o Vector3d.read))
    \o When(~Is(w, "UPDATE_FLAG_LIVING") /\ Is(w, "UPDATE_FLAG_POSITION"),
            PackedGuid(w) \o Vector3d.read \o Vector3d.read \o Ints(<<4, 4>>))
    \o When(~Is(w, "UPDATE_FLAG_LIVING") /\ ~Is(w, "UPDATE_FLAG_POSITION")
            /\ Is(w, "UPDATE_FLAG_HAS_POSITION"), Vector3d.read \o Ints(<<4>>))
    \o When(Is(w, "UPDATE_FLAG_HIGH_GUID"), Ints(<<4>>))
    \o When(Is(w, "UPDATE_FLAG_LOW_GUID"), Ints(<<4>>))
    \o When(Is(w, "UPDATE_FLAG_HAS_ATTACKING_TARGET"), PackedGuid(w))
    \o When(Is(w, "UPDATE_FLAG_TRANSPORT"), Ints(<<4>>))
    \o When(Is(w, "UPDATE_FLAG_VEHICLE"), Ints(<<4, 4>>))
    \o When(Is(w, "UPDATE_FLAG_ROTATION"), Ints(<<8>>)),
    2
    + Bytes(
        Is(w, "UPDATE_FLAG_LIVING"),
        6 + 4 + Vector3d.written + 4
        + Bytes(Is(w, "MOVEMENT_FLAGS_ON_TRANSPORT_AND_INTERPOLATED_MOVEMENT"),
                wrath_TransportInfo(w).written + 4)
        + Bytes(~Is(w, "MOVEMENT_FLAGS_ON_TRANSPORT_AND_INTERPOLATED_MOVEMENT")
                /\ Is(w, "MOVEMENT_FLAGS_ON_TRANSPORT"), wrath_TransportInfo(w).written)
        + Bytes(Is(w, "MOVEMENT_FLAGS_SWIMMING"), 4)
        + Bytes(~Is(w, "MOVEMENT_FLAGS_SWIMMING") /\ Is(w, "MOVEMENT_FLAGS_FLYING"), 4)
        + Bytes(~Is(w, "MOVEMENT_FLAGS_SWIMMING") /\ ~Is(w, "MOVEMENT_FLAGS_FLYING")
                /\ Is(w, "MOVEMENT_FLAGS_ALWAYS_ALLOW_PITCHING"), 4) + 4
        + Bytes(Is(w, "MOVEMENT_FLAGS_FALLING"), 4 * 4)
        + Bytes(Is(w, "MOVEMENT_FLAGS_SPLINE_ELEVATION"), 4) + 9 * 4
        + Bytes(
            Is(w, "MOVEMENT_FLAGS_SPLINE_ENABLED"),
            4 + Bytes(Is(w, "SPLINE_FLAG_FINAL_ANGLE"), 4)
            + Bytes(~Is(w, "SPLINE_FLAG_FINAL_ANGLE") /\ Is(w, "SPLINE_FLAG_FINAL_TARGET"), 8)
            + Bytes(~Is(w, "SPLINE_FLAG_FINAL_ANGLE") /\ ~Is(w, "SPLINE_FLAG_FINAL_TARGET")
                    /\ Is(w, "SPLINE_FLAG_FINAL_POINT"), Vector3d.written) + 8 * 4
            + w.count * Vector3d.written + 1 + Vector3d.written))
    + Bytes(~Is(w, "UPDATE_FLAG_LIVING") /\ Is(w, "UPDATE_FLAG_POSITION"),
            WRITE_PACKED_GUID(w) + 2 * Vector3d.written + 2 * 4)
    + Bytes(~Is(w, "UPDATE_FLAG_LIVING") /\ ~Is(w, "UPDATE_FLAG_POSITION")
            /\ Is(w, "UPDATE_FLAG_HAS_POSITION"), Vector3d.written + 4)
    + Bytes(Is(w, "UPDATE_FLAG_HIGH_GUID"), 4) + Bytes(Is(w, "UPDATE_FLAG_LOW_GUID"), 4)
    + Bytes(Is(w, "UPDATE_FLAG_HAS_ATTACKING_TARGET"), WRITE_PACKED_GUID(w))
    + Bytes(Is(w, "UPDATE_FLAG_TRANSPORT"), 4) + Bytes(Is(w, "UPDATE_FLAG_VEHICLE"), 2 * 4)
    + Bytes(Is(w, "UPDATE_FLAG_ROTATION"), 8),
    2
    + Bytes(
        Is(w, "UPDATE_FLAG_LIVING"),
        66
        + Bytes(Is(w, "MOVEMENT_FLAGS_ON_TRANSPORT_AND_INTERPOLATED_MOVEMENT"),
                4 + wrath_TransportInfo(w).size)
        + Bytes(~Is(w, "MOVEMENT_FLAGS_ON_TRANSPORT_AND_INTERPOLATED_MOVEMENT")
                /\ Is(w, "MOVEMENT_FLAGS_ON_TRANSPORT"), wrath_TransportInfo(w).size)
        + Bytes(Is(w, "MOVEMENT_FLAGS_SWIMMING"), 4)
        + Bytes(~Is(w, "MOVEMENT_FLAGS_SWIMMING") /\ Is(w, "MOVEMENT_FLAGS_FLYING"), 4)
        + Bytes(~Is(w, "MOVEMENT_FLAGS_SWIMMING") /\ ~Is(w, "MOVEMENT_FLAGS_FLYING")
                /\ Is(w, "MOVEMENT_FLAGS_ALWAYS_ALLOW_PITCHING"), 4)
        + Bytes(Is(w, "MOVEMENT_FLAGS_FALLING"), 16)
        + Bytes(Is(w, "MOVEMENT_FLAGS_SPLINE_ELEVATION"), 4)
        + Bytes(
            Is(w, "MOVEMENT_FLAGS_SPLINE_ENABLED"),
            49 + 12 * w.count + Bytes(Is(w, "SPLINE_FLAG_FINAL_ANGLE"), 4)
            + Bytes(~Is(w, "SPLINE_FLAG_FINAL_ANGLE") /\ Is(w, "SPLINE_FLAG_FINAL_TARGET"), 8)
            + Bytes(~Is(w, "SPLINE_FLAG_FINAL_ANGLE") /\ ~Is(w, "SPLINE_FLAG_FINAL_TARGET")
                    /\ Is(w, "SPLINE_FLAG_FINAL_POINT"), 12)))
    + Bytes(~Is(w, "UPDATE_FLAG_LIVING") /\ Is(w, "UPDATE_FLAG_POSITION"),
            32 + wwm_packed_guid_size(w))
    + Bytes(~Is(w, "UPDATE_FLAG_LIVING") /\ ~Is(w, "UPDATE_FLAG_POSITION")
            /\ Is(w, "UPDATE_FLAG_HAS_POSITION"), 16) + Bytes(Is(w, "UPDATE_FLAG_HIGH_GUID"), 4)
    + Bytes(Is(w, "UPDATE_FLAG_LOW_GUID"), 4)
    + Bytes(Is(w, "UPDATE_FLAG_HAS_ATTACKING_TARGET"), wwm_packed_guid_size(w))
    + Bytes(Is(w, "UPDATE_FLAG_TRANSPORT"), 4) + Bytes(Is(w, "UPDATE_FLAG_VEHICLE"), 8)
    + Bytes(Is(w, "UPDATE_FLAG_ROTATION"), 8))

wrath_MovementInfoFlags ==
  {"MOVEMENT_FLAGS_ON_TRANSPORT_AND_INTERPOLATED_MOVEMENT", "MOVEMENT_FLAGS_ON_TRANSPORT",
   "MOVEMENT_FLAGS_SWIMMING", "MOVEMENT_FLAGS_FLYING", "MOVEMENT_FLAGS_ALWAYS_ALLOW_PITCHING",
   "MOVEMENT_FLAGS_FALLING", "MOVEMENT_FLAGS_SPLINE_ELEVATION"}

wrath_MovementInfo(w) ==
  Struct(
    {},
    Minimum(30) \o Ints(<<6, 4>>) \o Vector3d.read \o Ints(<<4>>)
    \o When(Is(w, "MOVEMENT_FLAGS_ON_TRANSPORT_AND_INTERPOLATED_MOVEMENT"),
            wrath_TransportInfo(w).read \o Ints(<<4>>))
    \o When(~Is(w, "MOVEMENT_FLAGS_ON_TRANSPORT_AND_INTERPOLATED_MOVEMENT")
            /\ Is(w, "MOVEMENT_FLAGS_ON_TRANSPORT"), wrath_TransportInfo(w).read)
    \o When(Is(w, "MOVEMENT_FLAGS_SWIMMING"), Ints(<<4>>))
    \o When(~Is(w, "MOVEMENT_FLAGS_SWIMMING") /\ Is(w, "MOVEMENT_FLAGS_FLYING"), Ints(<<4>>))
    \o When(~Is(w, "MOVEMENT_FLAGS_SWIMMING") /\ ~Is(w, "MOVEMENT_FLAGS_FLYING")
            /\ Is(w, "MOVEMENT_FLAGS_ALWAYS_ALLOW_PITCHING"), Ints(<<4>>)) \o Ints(<<4>>)
    \o When(Is(w, "MOVEMENT_FLAGS_FALLING"), Ints(<<4, 4, 4, 4>>))
    \o When(Is(w, "MOVEMENT_FLAGS_SPLINE_ELEVATION"), Ints(<<4>>)),
    6 + 4 + Vector3d.written + 4
    + Bytes(Is(w, "MOVEMENT_FLAGS_ON_TRANSPORT_AND_INTERPOLATED_MOVEMENT"),
            wrath_TransportInfo(w).written + 4)
    + Bytes(~Is(w, "MOVEMENT_FLAGS_ON_TRANSPORT_AND_INTERPOLATED_MOVEMENT")
            /\ Is(w, "MOVEMENT_FLAGS_ON_TRANSPORT"), wrath_TransportInfo(w).written)
    + Bytes(Is(w, "MOVEMENT_FLAGS_SWIMMING"), 4)
    + Bytes(~Is(w, "MOVEMENT_FLAGS_SWIMMING") /\ Is(w, "MOVEMENT_FLAGS_FLYING"), 4)
    + Bytes(~Is(w, "MOVEMENT_FLAGS_SWIMMING") /\ ~Is(w, "MOVEMENT_FLAGS_FLYING")
            /\ Is(w, "MOVEMENT_FLAGS_ALWAYS_ALLOW_PITCHING"), 4) + 4
    + Bytes(Is(w, "MOVEMENT_FLAGS_FALLING"), 4 * 4)
    + Bytes(Is(w, "MOVEMENT_FLAGS_SPLINE_ELEVATION"), 4),
    30
    + Bytes(Is(w, "MOVEMENT_FLAGS_ON_TRANSPORT_AND_INTERPOLATED_MOVEMENT"),
            4 + wrath_TransportInfo(w).size)
    + Bytes(~Is(w, "MOVEMENT_FLAGS_ON_TRANSPORT_AND_INTERPOLATED_MOVEMENT")
            /\ Is(w, "MOVEMENT_FLAGS_ON_TRANSPORT"), wrath_TransportInfo(w).size)
    + Bytes(Is(w, "MOVEMENT_FLAGS_SWIMMING"), 4)
    + Bytes(~Is(w, "MOVEMENT_FLAGS_SWIMMING") /\ Is(w, "MOVEMENT_FLAGS_FLYING"), 4)
    + Bytes(~Is(w, "MOVEMENT_FLAGS_SWIMMING") /\ ~Is(w, "MOVEMENT_FLAGS_FLYING")
            /\ Is(w, "MOVEMENT_FLAGS_ALWAYS_ALLOW_PITCHING"), 4)
    + Bytes(Is(w, "MOVEMENT_FLAGS_FALLING"), 16)
    + Bytes(Is(w, "MOVEMENT_FLAGS_SPLINE_ELEVATION"), 4))

wrath_NpcTextUpdateEmote == PlainStruct(8, <<4, 4>>, 2 * 4)

wrath_NpcTextUpdate(w) ==
  Struct(
    FreeFixed("texts", 2, Free({"text"})),
    Minimum(31) \o Each("texts", 2, Null({"text"})) \o Ints(<<4>>)
    \o Each("texts", 2, Cstring("text", w)) \o Ints(<<1>>)
    \o Each("emotes", 3, wrath_NpcTextUpdateEmote.read),
    4 + 2 * WRITE_CSTRING(w) + 1 + 3 * wrath_NpcTextUpdateEmote.written, 29 + 2 * (1 + w.len))

wrath_ObjectEnums ==
  {{"UPDATE_TYPE_VALUES", "UPDATE_TYPE_MOVEMENT", "UPDATE_TYPE_CREATE_OBJECT",
    "UPDATE_TYPE_OUT_OF_RANGE_OBJECTS"}}

wrath_ObjectFlags == wrath_MovementBlockFlags

wrath_Object(w) ==
  Struct(
    FreeIf("update_type", {"UPDATE_TYPE_MOVEMENT"},
           FreeAt(<<"movement1">>, wrath_MovementBlock(w).free))
    \union FreeIf("update_type", {"UPDATE_TYPE_CREATE_OBJECT"},
                  FreeAt(<<"movement2">>, wrath_MovementBlock(w).free))
    \union FreeIf("update_type", {"UPDATE_TYPE_OUT_OF_RANGE_OBJECTS"}, Free({"guids"})),
    Minimum(1) \o Null({"guids"}) \o Field(1, "update_type", {}, w)
    \o When(Is(w, "UPDATE_TYPE_VALUES"), PackedGuid(w) \o UpdateMask(w))
    \o When(Is(w, "UPDATE_TYPE_MOVEMENT"),
            PackedGuid(w) \o At(<<"movement1">>, wrath_MovementBlock(w).read))
    \o When(Is(w, "UPDATE_TYPE_CREATE_OBJECT"),
            PackedGuid(w) \o Ints(<<1>>) \o At(<<"movement2">>, wrath_MovementBlock(w).read)
            \o UpdateMask(w))
    \o When(Is(w, "UPDATE_TYPE_OUT_OF_RANGE_OBJECTS"),
            Ints(<<4>>) \o Calloc("guids", w.count, {})
            \o Ints(Repeat(w.count * wwm_packed_guid_size(w), 1))),
    1 + Bytes(Is(w, "UPDATE_TYPE_VALUES"), WRITE_PACKED_GUID(w) + update_mask_written(w))
    + Bytes(Is(w, "UPDATE_TYPE_MOVEMENT"), WRITE_PACKED_GUID(w) + wrath_MovementBlock(w).written)
    + Bytes(Is(w, "UPDATE_TYPE_CREATE_OBJECT"),
            WRITE_PACKED_GUID(w) + 1 + wrath_MovementBlock(w).written + update_mask_written(w))
    + Bytes(Is(w, "UPDATE_TYPE_OUT_OF_RANGE_OBJECTS"), 4 + w.count * WRITE_PACKED_GUID(w)),
    1 + Bytes(Is(w, "UPDATE_TYPE_VALUES"), wwm_packed_guid_size(w) + update_mask_size(w))
    + Bytes(Is(w, "UPDATE_TYPE_MOVEMENT"), wwm_packed_guid_size(w) + wrath_MovementBlock(w).size)
    + Bytes(Is(w, "UPDATE_TYPE_CREATE_OBJECT"),
            1 + wwm_packed_guid_size(w) + wrath_MovementBlock(w).size + update_mask_size(w))
    + Bytes(Is(w, "UPDATE_TYPE_OUT_OF_RANGE_OBJECTS"), 4 + w.count * wwm_packed_guid_size(w)))

wrath_PendingAuctionSale(w) ==
  Struct(
    Free({"string1", "string2"}),
    Minimum(14) \o Null({"string1", "string2"}) \o Cstring("string1", w) \o Cstring("string2", w)
    \o Ints(<<4, 4, 4>>), 2 * WRITE_CSTRING(w) + 3 * 4, 14 + 2 * w.len)

wrath_PetSpellCooldown == PlainStruct(14, <<4, 2, 4, 4>>, 4 + 2 + 2 * 4)

wrath_PetitionShowlist == PlainStruct(24, Repeat(6, 4), 6 * 4)

wrath_PetitionSignature == PlainStruct(12, <<8, 4>>, 8 + 4)

wrath_PreviewTalent == PlainStruct(8, <<4, 4>>, 2 * 4)

wrath_QuestDetailsEmote == PlainStruct(8, <<4, 4>>, 2 * 4)

wrath_QuestGiverReward == PlainStruct(12, <<4, 4, 4>>, 3 * 4)

wrath_QuestGiverStatusReport == PlainStruct(9, <<8, 1>>, 8 + 1)

wrath_QuestItem(w) ==
  Struct(
    Free({"title"}),
    Minimum(18) \o Null({"title"}) \o Ints(<<4, 4, 4, 4, 1>>) \o Cstring("title", w),
    4 * 4 + 1 + WRITE_CSTRING(w), 18 + w.len)

wrath_QuestItemRequirement == PlainStruct(12, <<4, 4, 4>>, 3 * 4)

wrath_QuestItemReward == PlainStruct(8, <<4, 4>>, 2 * 4)

wrath_QuestObjective == PlainStruct(16, <<4, 4, 4, 4>>, 4 * 4)

wrath_Vector2dUnsigned == PlainStruct(8, <<4, 4>>, 2 * 4)

wrath_QuestPoi(w) ==
  Struct(
    Free({"points"}),
    Minimum(32) \o Null({"points"}) \o Ints(Repeat(8, 4))
    \o Array("points", w.count, {}, wrath_Vector2dUnsigned.read),
    8 * 4 + w.count * wrath_Vector2dUnsigned.written, 32 + 8 * w.count)

wrath_QuestPoiList(w) ==
  Struct(
    FreeEach("pois", w.count, wrath_QuestPoi(w).free),
    Minimum(8) \o Null({"pois"}) \o Ints(<<4, 4>>)
    \o Array("pois", w.count, wrath_QuestPoi(w).free, wrath_QuestPoi(w).read),
    2 * 4 + w.count * wrath_QuestPoi(w).written, 8 + w.count * wrath_QuestPoi(w).size)

wrath_RaidInfo == PlainStruct(22, <<4, 4, 8, 1, 1, 4>>, 2 * 4 + 8 + 2 * 1 + 4)

wrath_RaidTargetUpdate == PlainStruct(9, <<1, 8>>, 1 + 8)

wrath_ReceivedMail == PlainStruct(24, <<8, 4, 4, 4, 4>>, 8 + 4 * 4)

wrath_Relation(w) ==
  Struct(
    Free({"note"}),
    Minimum(13) \o Null({"note"}) \o Ints(<<8, 4>>) \o Cstring("note", w)
    \o When(Is(w, "RELATION_TYPE_FRIEND"),
            Ints(<<1>>) \o When(Is(w, "FRIEND_STATUS_ONLINE"), Ints(<<4, 4, 4>>))),
    8 + 4 + WRITE_CSTRING(w)
    + Bytes(Is(w, "RELATION_TYPE_FRIEND"), 1 + Bytes(Is(w, "FRIEND_STATUS_ONLINE"), 3 * 4)),
    13 + w.len
    + Bytes(Is(w, "RELATION_TYPE_FRIEND"), 1 + Bytes(Is(w, "FRIEND_STATUS_ONLINE"), 12)))

wrath_ResyncRune == PlainStruct(2, <<1, 1>>, 2 * 1)

wrath_SendCalendarEvent(w) ==
  Struct(
    Free({"title"}),
    Minimum(26) \o Null({"title"}) \o Ints(<<8>>) \o Cstring("title", w) \o Ints(<<4, 4, 4, 4>>)
    \o PackedGuid(w),
    8 + WRITE_CSTRING(w) + 4 * 4 + WRITE_PACKED_GUID(w), 25 + w.len + wwm_packed_guid_size(w))

wrath_SendCalendarHoliday(w) ==
  Struct(
    Free({"texture_file_name"}),
    Minimum(205) \o Null({"texture_file_name"}) \o Ints(Repeat(51, 4))
    \o Cstring("texture_file_name", w),
    5 * 4 + 26 * 4 + 2 * 10 * 4 + WRITE_CSTRING(w), 205 + w.len)

wrath_SendCalendarInstance == PlainStruct(20, <<4, 4, 4, 8>>, 3 * 4 + 8)

wrath_SendCalendarInvite(w) ==
  Struct({}, Minimum(20) \o Ints(<<8, 8, 1, 1, 1>>) \o PackedGuid(w),
         2 * 8 + 3 * 1 + WRITE_PACKED_GUID(w), 19 + wwm_packed_guid_size(w))

wrath_SendCalendarResetTime == PlainStruct(12, <<4, 4, 4>>, 3 * 4)

wrath_SpellCastTargetsFlags ==
  {"SPELL_CAST_TARGET_FLAGS_UNIT", "SPELL_CAST_TARGET_FLAGS_UNIT_MINIPET",
   "SPELL_CAST_TARGET_FLAGS_GAMEOBJECT", "SPELL_CAST_TARGET_FLAGS_CORPSE_ENEMY",
   "SPELL_CAST_TARGET_FLAGS_CORPSE_ALLY", "SPELL_CAST_TARGET_FLAGS_ITEM",
   "SPELL_CAST_TARGET_FLAGS_TRADE_ITEM", "SPELL_CAST_TARGET_FLAGS_SOURCE_LOCATION",
   "SPELL_CAST_TARGET_FLAGS_DEST_LOCATION", "SPELL_CAST_TARGET_FLAGS_STRING"}

wrath_SpellCastTargets(w) ==
  Struct(
    FreeIf("target_flags", {"SPELL_CAST_TARGET_FLAGS_STRING"}, Free({"target_string"})),
    Minimum(4) \o Null({"target_string"}) \o Field(4, "target_flags", {}, w)
    \o When(Is(w, "SPELL_CAST_TARGET_FLAGS_UNIT"), PackedGuid(w))
    \o When(~Is(w, "SPELL_CAST_TARGET_FLAGS_UNIT")
            /\ Is(w, "SPELL_CAST_TARGET_FLAGS_UNIT_MINIPET"), PackedGuid(w))
    \o When(
         ~Is(w, "SPELL_CAST_TARGET_FLAGS_UNIT") /\ ~Is(w, "SPELL_CAST_TARGET_FLAGS_UNIT_MINIPET")
         /\ Is(w, "SPELL_CAST_TARGET_FLAGS_GAMEOBJECT"), PackedGuid(w))
    \o When(
         ~Is(w, "SPELL_CAST_TARGET_FLAGS_UNIT") /\ ~Is(w, "SPELL_CAST_TARGET_FLAGS_UNIT_MINIPET")
         /\ ~Is(w, "SPELL_CAST_TARGET_FLAGS_GAMEOBJECT")
         /\ Is(w, "SPELL_CAST_TARGET_FLAGS_CORPSE_ENEMY"), PackedGuid(w))
    \o When(
         ~Is(w, "SPELL_CAST_TARGET_FLAGS_UNIT") /\ ~Is(w, "SPELL_CAST_TARGET_FLAGS_UNIT_MINIPET")
         /\ ~Is(w, "SPELL_CAST_TARGET_FLAGS_GAMEOBJECT")
         /\ ~Is(w, "SPELL_CAST_TARGET_FLAGS_CORPSE_ENEMY")
         /\ Is(w, "SPELL_CAST_TARGET_FLAGS_CORPSE_ALLY"), PackedGuid(w))
    \o When(Is(w, "SPELL_CAST_TARGET_FLAGS_ITEM"), PackedGuid(w))
    \o When(~Is(w, "SPELL_CAST_TARGET_FLAGS_ITEM") /\ Is(w, "SPELL_CAST_TARGET_FLAGS_TRADE_ITEM"),
            PackedGuid(w))
    \o When(Is(w, "SPELL_CAST_TARGET_FLAGS_SOURCE_LOCATION"), Vector3d.read)
    \o When(Is(w, "SPELL_CAST_TARGET_FLAGS_DEST_LOCATION"), Vector3d.read)
    \o When(Is(w, "SPELL_CAST_TARGET_FLAGS_STRING"), Cstring("target_string", w)),
    4 + Bytes(Is(w, "SPELL_CAST_TARGET_FLAGS_UNIT"), WRITE_PACKED_GUID(w))
    + Bytes(~Is(w, "SPELL_CAST_TARGET_FLAGS_UNIT")
            /\ Is(w, "SPELL_CAST_TARGET_FLAGS_UNIT_MINIPET"), WRITE_PACKED_GUID(w))
    + Bytes(
        ~Is(w, "SPELL_CAST_TARGET_FLAGS_UNIT") /\ ~Is(w, "SPELL_CAST_TARGET_FLAGS_UNIT_MINIPET")
        /\ Is(w, "SPELL_CAST_TARGET_FLAGS_GAMEOBJECT"), WRITE_PACKED_GUID(w))
    + Bytes(
        ~Is(w, "SPELL_CAST_TARGET_FLAGS_UNIT") /\ ~Is(w, "SPELL_CAST_TARGET_FLAGS_UNIT_MINIPET")
        /\ ~Is(w, "SPELL_CAST_TARGET_FLAGS_GAMEOBJECT")
        /\ Is(w, "SPELL_CAST_TARGET_FLAGS_CORPSE_ENEMY"), WRITE_PACKED_GUID(w))
    + Bytes(
        ~Is(w, "SPELL_CAST_TARGET_FLAGS_UNIT") /\ ~Is(w, "SPELL_CAST_TARGET_FLAGS_UNIT_MINIPET")
        /\ ~Is(w, "SPELL_CAST_TARGET_FLAGS_GAMEOBJECT")
        /\ ~Is(w, "SPELL_CAST_TARGET_FLAGS_CORPSE_ENEMY")
        /\ Is(w, "SPELL_CAST_TARGET_FLAGS_CORPSE_ALLY"), WRITE_PACKED_GUID(w))
    + Bytes(Is(w, "SPELL_CAST_TARGET_FLAGS_ITEM"), WRITE_PACKED_GUID(w))
    + Bytes(~Is(w, "SPELL_CAST_TARGET_FLAGS_ITEM") /\ Is(w, "SPELL_CAST_TARGET_FLAGS_TRADE_ITEM"),
            WRITE_PACKED_GUID(w))
    + Bytes(Is(w, "SPELL_CAST_TARGET_FLAGS_SOURCE_LOCATION"), Vector3d.written)
    + Bytes(Is(w, "SPELL_CAST_TARGET_FLAGS_DEST_LOCATION"), Vector3d.written)
    + Bytes(Is(w, "SPELL_CAST_TARGET_FLAGS_STRING"), WRITE_CSTRING(w)),
    4 + Bytes(Is(w, "SPELL_CAST_TARGET_FLAGS_UNIT"), wwm_packed_guid_size(w))
    + Bytes(~Is(w, "SPELL_CAST_TARGET_FLAGS_UNIT")
            /\ Is(w, "SPELL_CAST_TARGET_FLAGS_UNIT_MINIPET"), wwm_packed_guid_size(w))
    + Bytes(
        ~Is(w, "SPELL_CAST_TARGET_FLAGS_UNIT") /\ ~Is(w, "SPELL_CAST_TARGET_FLAGS_UNIT_MINIPET")
        /\ Is(w, "SPELL_CAST_TARGET_FLAGS_GAMEOBJECT"), wwm_packed_guid_size(w))
    + Bytes(
        ~Is(w, "SPELL_CAST_TARGET_FLAGS_UNIT") /\ ~Is(w, "SPELL_CAST_TARGET_FLAGS_UNIT_MINIPET")
        /\ ~Is(w, "SPELL_CAST_TARGET_FLAGS_GAMEOBJECT")
        /\ Is(w, "SPELL_CAST_TARGET_FLAGS_CORPSE_ENEMY"), wwm_packed_guid_size(w))
    + Bytes(
        ~Is(w, "SPELL_CAST_TARGET_FLAGS_UNIT") /\ ~Is(w, "SPELL_CAST_TARGET_FLAGS_UNIT_MINIPET")
        /\ ~Is(w, "SPELL_CAST_TARGET_FLAGS_GAMEOBJECT")
        /\ ~Is(w, "SPELL_CAST_TARGET_FLAGS_CORPSE_ENEMY")
        /\ Is(w, "SPELL_CAST_TARGET_FLAGS_CORPSE_ALLY"), wwm_packed_guid_size(w))
    + Bytes(Is(w, "SPELL_CAST_TARGET_FLAGS_ITEM"), wwm_packed_guid_size(w))
    + Bytes(~Is(w, "SPELL_CAST_TARGET_FLAGS_ITEM") /\ Is(w, "SPELL_CAST_TARGET_FLAGS_TRADE_ITEM"),
            wwm_packed_guid_size(w))
    + Bytes(Is(w, "SPELL_CAST_TARGET_FLAGS_SOURCE_LOCATION"), 12)
    + Bytes(Is(w, "SPELL_CAST_TARGET_FLAGS_DEST_LOCATION"), 12)
    + Bytes(Is(w, "SPELL_CAST_TARGET_FLAGS_STRING"), 1 + w.len))

wrath_SpellCooldownStatus == PlainStruct(8, <<4, 4>>, 2 * 4)

wrath_SpellLogEnums ==
  {{"SPELL_EFFECT_POWER_DRAIN", "SPELL_EFFECT_ADD_EXTRA_ATTACKS", "SPELL_EFFECT_INTERRUPT_CAST",
    "SPELL_EFFECT_DURABILITY_DAMAGE", "SPELL_EFFECT_OPEN_LOCK", "SPELL_EFFECT_CREATE_ITEM",
    "SPELL_EFFECT_SUMMON", "SPELL_EFFECT_FEED_PET", "SPELL_EFFECT_DISMISS_PET",
    "SPELL_EFFECT_RESURRECT", "SPELL_EFFECT_NONE"}}

wrath_SpellLog(w) ==
  Struct(
    {},
    Minimum(8) \o Ints(<<4, 4>>)
    \o When(Is(w, "SPELL_EFFECT_POWER_DRAIN"), PackedGuid(w) \o Ints(<<4, 4, 4>>))
    \o When(Is(w, "SPELL_EFFECT_ADD_EXTRA_ATTACKS"), PackedGuid(w) \o Ints(<<4>>))
    \o When(Is(w, "SPELL_EFFECT_INTERRUPT_CAST"), PackedGuid(w) \o Ints(<<4>>))
    \o When(Is(w, "SPELL_EFFECT_DURABILITY_DAMAGE"), PackedGuid(w) \o Ints(<<4, 4>>))
    \o When(Is(w, "SPELL_EFFECT_OPEN_LOCK"), PackedGuid(w))
    \o When(Is(w, "SPELL_EFFECT_CREATE_ITEM"), Ints(<<4>>))
    \o When(Is(w, "SPELL_EFFECT_SUMMON"), PackedGuid(w))
    \o When(Is(w, "SPELL_EFFECT_FEED_PET"), PackedGuid(w))
    \o When(Is(w, "SPELL_EFFECT_DISMISS_PET"), PackedGuid(w))
    \o When(Is(w, "SPELL_EFFECT_RESURRECT"), PackedGuid(w)),
    2 * 4 + Bytes(Is(w, "SPELL_EFFECT_POWER_DRAIN"), WRITE_PACKED_GUID(w) + 3 * 4)
    + Bytes(Is(w, "SPELL_EFFECT_ADD_EXTRA_ATTACKS"), WRITE_PACKED_GUID(w) + 4)
    + Bytes(Is(w, "SPELL_EFFECT_INTERRUPT_CAST"), WRITE_PACKED_GUID(w) + 4)
    + Bytes(Is(w, "SPELL_EFFECT_DURABILITY_DAMAGE"), WRITE_PACKED_GUID(w) + 2 * 4)
    + Bytes(Is(w, "SPELL_EFFECT_OPEN_LOCK"), WRITE_PACKED_GUID(w))
    + Bytes(Is(w, "SPELL_EFFECT_CREATE_ITEM"), 4)
    + Bytes(Is(w, "SPELL_EFFECT_SUMMON"), WRITE_PACKED_GUID(w))
    + Bytes(Is(w, "SPELL_EFFECT_FEED_PET"), WRITE_PACKED_GUID(w))
    + Bytes(Is(w, "SPELL_EFFECT_DISMISS_PET"), WRITE_PACKED_GUID(w))
    + Bytes(Is(w, "SPELL_EFFECT_RESURRECT"), WRITE_PACKED_GUID(w)),
    8 + Bytes(Is(w, "SPELL_EFFECT_POWER_DRAIN"), 12 + wwm_packed_guid_size(w))
    + Bytes(Is(w, "SPELL_EFFECT_ADD_EXTRA_ATTACKS"), 4 + wwm_packed_guid_size(w))
    + Bytes(Is(w, "SPELL_EFFECT_INTERRUPT_CAST"), 4 + wwm_packed_guid_size(w))
    + Bytes(Is(w, "SPELL_EFFECT_DURABILITY_DAMAGE"), 8 + wwm_packed_guid_size(w))
    + Bytes(Is(w, "SPELL_EFFECT_OPEN_LOCK"), wwm_packed_guid_size(w))
    + Bytes(Is(w, "SPELL_EFFECT_CREATE_ITEM"), 4)
    + Bytes(Is(w, "SPELL_EFFECT_SUMMON"), wwm_packed_guid_size(w))
    + Bytes(Is(w, "SPELL_EFFECT_FEED_PET"), wwm_packed_guid_size(w))
    + Bytes(Is(w, "SPELL_EFFECT_DISMISS_PET"), wwm_packed_guid_size(w))
    + Bytes(Is(w, "SPELL_EFFECT_RESURRECT"), wwm_packed_guid_size(w)))

wrath_SpellLogMiss == PlainStruct(9, <<8, 1>>, 8 + 1)

wrath_SpellMiss(w) ==
  Struct(
    {}, Minimum(9) \o Ints(<<8, 1>>) \o When(Is(w, "SPELL_MISS_INFO_REFLECT"), Ints(<<1>>)),
    8 + 1 + Bytes(Is(w, "SPELL_MISS_INFO_REFLECT"), 1),
    9 + Bytes(Is(w, "SPELL_MISS_INFO_REFLECT"), 1))

wrath_SpellSteal == PlainStruct(5, <<4, 1>>, 4 + 1)

wrath_StabledPet(w) ==
  Struct(
    Free({"name"}),
    Minimum(18) \o Null({"name"}) \o Ints(<<4, 4, 4>>) \o Cstring("name", w) \o Ints(<<4, 1>>),
    3 * 4 + WRITE_CSTRING(w) + 4 + 1, 18 + w.len)

wrath_TalentInfoSpec(w) ==
  Struct(
    Free({"talents", "glyphs"}),
    Minimum(2) \o Null({"talents", "glyphs"}) \o Ints(<<1>>)
    \o Array("talents", w.count, {}, wrath_InspectTalent.read) \o Ints(<<1>>)
    \o Calloc("glyphs", w.count, {}) \o Ints(Repeat(w.count, 2)),
    1 + w.count * wrath_InspectTalent.written + 1 + w.count * 2, 2 + 5 * w.count + 2 * w.count)

wrath_ThreatUpdateUnit(w) ==
  Struct({}, Minimum(5) \o PackedGuid(w) \o Ints(<<4>>),
         WRITE_PACKED_GUID(w) + 4, 4 + wwm_packed_guid_size(w))

wrath_TradeSlot ==
  PlainStruct(
    73, <<1, 4, 4, 4, 4, 8, 4, 4, 4, 4, 8>> \o Repeat(6, 4),
    1 + 4 * 4 + 8 + 4 + 3 * 4 + 8 + 6 * 4)

wrath_TrainerSpell ==
  PlainStruct(38, <<4, 1, 4, 4, 4, 1>> \o Repeat(5, 4), 4 + 1 + 3 * 4 + 1 + 2 * 4 + 3 * 4)

wrath_WhoPlayer(w) ==
  Struct(
    Free({"name", "guild"}),
    Minimum(13) \o Null({"name", "guild"}) \o Cstring("name", w) \o Cstring("guild", w)
    \o Ints(<<4, 1, 1, 1, 4>>), 2 * WRITE_CSTRING(w) + 4 + 3 * 1 + 4, 13 + 2 * w.len)

wrath_WorldState == PlainStruct(8, <<4, 4>>, 2 * 4)

wrath_MSG_MOVE_START_FORWARDFlags == wrath_MovementInfoFlags

wrath_MSG_MOVE_START_FORWARD(w) ==
  Struct(
    {}, Minimum(31) \o PackedGuid(w) \o wrath_MovementInfo(w).read,
    WRITE_PACKED_GUID(w) + wrath_MovementInfo(w).written,
    wwm_packed_guid_size(w) + wrath_MovementInfo(w).size)

wrath_MSG_MOVE_START_BACKWARDFlags == wrath_MovementInfoFlags

wrath_MSG_MOVE_START_BACKWARD(w) ==
  Struct(
    {}, Minimum(31) \o PackedGuid(w) \o wrath_MovementInfo(w).read,
    WRITE_PACKED_GUID(w) + wrath_MovementInfo(w).written,
    wwm_packed_guid_size(w) + wrath_MovementInfo(w).size)

wrath_MSG_MOVE_STOPFlags == wrath_MovementInfoFlags

wrath_MSG_MOVE_STOP(w) ==
  Struct(
    {}, Minimum(31) \o PackedGuid(w) \o wrath_MovementInfo(w).read,
    WRITE_PACKED_GUID(w) + wrath_MovementInfo(w).written,
    wwm_packed_guid_size(w) + wrath_MovementInfo(w).size)

wrath_MSG_MOVE_START_STRAFE_LEFTFlags == wrath_MovementInfoFlags

wrath_MSG_MOVE_START_STRAFE_LEFT(w) ==
  Struct(
    {}, Minimum(31) \o PackedGuid(w) \o wrath_MovementInfo(w).read,
    WRITE_PACKED_GUID(w) + wrath_MovementInfo(w).written,
    wwm_packed_guid_size(w) + wrath_MovementInfo(w).size)

wrath_MSG_MOVE_START_STRAFE_RIGHTFlags == wrath_MovementInfoFlags

wrath_MSG_MOVE_START_STRAFE_RIGHT(w) ==
  Struct(
    {}, Minimum(31) \o PackedGuid(w) \o wrath_MovementInfo(w).read,
    WRITE_PACKED_GUID(w) + wrath_MovementInfo(w).written,
    wwm_packed_guid_size(w) + wrath_MovementInfo(w).size)

wrath_MSG_MOVE_STOP_STRAFEFlags == wrath_MovementInfoFlags

wrath_MSG_MOVE_STOP_STRAFE(w) ==
  Struct(
    {}, Minimum(31) \o PackedGuid(w) \o wrath_MovementInfo(w).read,
    WRITE_PACKED_GUID(w) + wrath_MovementInfo(w).written,
    wwm_packed_guid_size(w) + wrath_MovementInfo(w).size)

wrath_MSG_MOVE_JUMPFlags == wrath_MovementInfoFlags

wrath_MSG_MOVE_JUMP(w) ==
  Struct(
    {}, Minimum(31) \o PackedGuid(w) \o wrath_MovementInfo(w).read,
    WRITE_PACKED_GUID(w) + wrath_MovementInfo(w).written,
    wwm_packed_guid_size(w) + wrath_MovementInfo(w).size)

wrath_MSG_MOVE_START_TURN_LEFTFlags == wrath_MovementInfoFlags

wrath_MSG_MOVE_START_TURN_LEFT(w) ==
  Struct(
    {}, Minimum(31) \o PackedGuid(w) \o wrath_MovementInfo(w).read,
    WRITE_PACKED_GUID(w) + wrath_MovementInfo(w).written,
    wwm_packed_guid_size(w) + wrath_MovementInfo(w).size)

wrath_MSG_MOVE_START_TURN_RIGHTFlags == wrath_MovementInfoFlags

wrath_MSG_MOVE_START_TURN_RIGHT(w) ==
  Struct(
    {}, Minimum(31) \o PackedGuid(w) \o wrath_MovementInfo(w).read,
    WRITE_PACKED_GUID(w) + wrath_MovementInfo(w).written,
    wwm_packed_guid_size(w) + wrath_MovementInfo(w).size)

wrath_MSG_MOVE_STOP_TURNFlags == wrath_MovementInfoFlags

wrath_MSG_MOVE_STOP_TURN(w) ==
  Struct(
    {}, Minimum(31) \o PackedGuid(w) \o wrath_MovementInfo(w).read,
    WRITE_PACKED_GUID(w) + wrath_MovementInfo(w).written,
    wwm_packed_guid_size(w) + wrath_MovementInfo(w).size)

wrath_MSG_MOVE_START_PITCH_UPFlags == wrath_MovementInfoFlags

wrath_MSG_MOVE_START_PITCH_UP(w) ==
  Struct(
    {}, Minimum(31) \o PackedGuid(w) \o wrath_MovementInfo(w).read,
    WRITE_PACKED_GUID(w) + wrath_MovementInfo(w).written,
    wwm_packed_guid_size(w) + wrath_MovementInfo(w).size)

wrath_MSG_MOVE_START_PITCH_DOWNFlags == wrath_MovementInfoFlags

wrath_MSG_MOVE_START_PITCH_DOWN(w) ==
  Struct(
    {}, Minimum(31) \o PackedGuid(w) \o wrath_MovementInfo(w).read,
    WRITE_PACKED_GUID(w) + wrath_MovementInfo(w).written,
    wwm_packed_guid_size(w) + wrath_MovementInfo(w).size)

wrath_MSG_MOVE_STOP_PITCHFlags == wrath_MovementInfoFlags

wrath_MSG_MOVE_STOP_PITCH(w) ==
  Struct(
    {}, Minimum(31) \o PackedGuid(w) \o wrath_MovementInfo(w).read,
    WRITE_PACKED_GUID(w) + wrath_MovementInfo(w).written,
    wwm_packed_guid_size(w) + wrath_MovementInfo(w).size)

wrath_MSG_MOVE_SET_RUN_MODEFlags == wrath_MovementInfoFlags

wrath_MSG_MOVE_SET_RUN_MODE(w) ==
  Struct(
    {}, Minimum(31) \o PackedGuid(w) \o wrath_MovementInfo(w).read,
    WRITE_PACKED_GUID(w) + wrath_MovementInfo(w).written,
    wwm_packed_guid_size(w) + wrath_MovementInfo(w).size)

wrath_MSG_MOVE_SET_WALK_MODEFlags == wrath_MovementInfoFlags

wrath_MSG_MOVE_SET_WALK_MODE(w) ==
  Struct(
    {}, Minimum(31) \o PackedGuid(w) \o wrath_MovementInfo(w).read,
    WRITE_PACKED_GUID(w) + wrath_MovementInfo(w).written,
    wwm_packed_guid_size(w) + wrath_MovementInfo(w).size)

wrath_MSG_MOVE_FALL_LANDFlags == wrath_MovementInfoFlags

wrath_MSG_MOVE_FALL_LAND(w) ==
  Struct(
    {}, Minimum(31) \o PackedGuid(w) \o wrath_MovementInfo(w).read,
    WRITE_PACKED_GUID(w) + wrath_MovementInfo(w).written,
    wwm_packed_guid_size(w) + wrath_MovementInfo(w).size)

wrath_MSG_MOVE_START_SWIMFlags == wrath_MovementInfoFlags

wrath_MSG_MOVE_START_SWIM(w) ==
  Struct(
    {}, Minimum(31) \o PackedGuid(w) \o wrath_MovementInfo(w).read,
    WRITE_PACKED_GUID(w) + wrath_MovementInfo(w).written,
    wwm_packed_guid_size(w) + wrath_MovementInfo(w).size)

wrath_MSG_MOVE_STOP_SWIMFlags == wrath_MovementInfoFlags

wrath_MSG_MOVE_STOP_SWIM(w) ==
  Struct(
    {}, Minimum(31) \o PackedGuid(w) \o wrath_MovementInfo(w).read,
    WRITE_PACKED_GUID(w) + wrath_MovementInfo(w).written,
    wwm_packed_guid_size(w) + wrath_MovementInfo(w).size)

wrath_MSG_MOVE_SET_FACINGFlags == wrath_MovementInfoFlags

wrath_MSG_MOVE_SET_FACING(w) ==
  Struct(
    {}, Minimum(31) \o PackedGuid(w) \o wrath_MovementInfo(w).read,
    WRITE_PACKED_GUID(w) + wrath_MovementInfo(w).written,
    wwm_packed_guid_size(w) + wrath_MovementInfo(w).size)

wrath_MSG_MOVE_SET_PITCHFlags == wrath_MovementInfoFlags

wrath_MSG_MOVE_SET_PITCH(w) ==
  Struct(
    {}, Minimum(31) \o PackedGuid(w) \o wrath_MovementInfo(w).read,
    WRITE_PACKED_GUID(w) + wrath_MovementInfo(w).written,
    wwm_packed_guid_size(w) + wrath_MovementInfo(w).size)

wrath_MSG_MOVE_HEARTBEATFlags == wrath_MovementInfoFlags

wrath_MSG_MOVE_HEARTBEAT(w) ==
  Struct(
    {}, Minimum(31) \o PackedGuid(w) \o wrath_MovementInfo(w).read,
    WRITE_PACKED_GUID(w) + wrath_MovementInfo(w).written,
    wwm_packed_guid_size(w) + wrath_MovementInfo(w).size)

wrath_MSG_MOVE_HOVERFlags == wrath_MovementInfoFlags

wrath_MSG_MOVE_HOVER(w) ==
  Struct(
    {}, Minimum(31) \o PackedGuid(w) \o wrath_MovementInfo(w).read,
    WRITE_PACKED_GUID(w) + wrath_MovementInfo(w).written,
    wwm_packed_guid_size(w) + wrath_MovementInfo(w).size)

wrath_MSG_PETITION_DECLINE == Struct({}, Minimum(8) \o Ints(<<8>>), 8, 8)

wrath_MSG_TABARDVENDOR_ACTIVATE == Struct({}, Minimum(8) \o Ints(<<8>>), 8, 8)

wrath_MSG_QUEST_PUSH_RESULT == Struct({}, Minimum(9) \o Ints(<<8, 1>>), 8 + 1, 9)

wrath_MSG_MOVE_WATER_WALKFlags == wrath_MovementInfoFlags

wrath_MSG_MOVE_WATER_WALK(w) ==
  Struct(
    {}, Minimum(31) \o PackedGuid(w) \o wrath_MovementInfo(w).read,
    WRITE_PACKED_GUID(w) + wrath_MovementInfo(w).written,
    wwm_packed_guid_size(w) + wrath_MovementInfo(w).size)

wrath_MSG_PETITION_RENAME(w) ==
  Struct(
    Free({"new_name"}), Minimum(9) \o Null({"new_name"}) \o Ints(<<8>>) \o Cstring("new_name", w),
    8 + WRITE_CSTRING(w), 9 + w.len)

wrath_MSG_MOVE_START_ASCENDFlags == wrath_MovementInfoFlags

wrath_MSG_MOVE_START_ASCEND(w) ==
  Struct(
    {}, Minimum(31) \o PackedGuid(w) \o wrath_MovementInfo(w).read,
    WRITE_PACKED_GUID(w) + wrath_MovementInfo(w).written,
    wwm_packed_guid_size(w) + wrath_MovementInfo(w).size)

wrath_MSG_MOVE_STOP_ASCENDFlags == wrath_MovementInfoFlags

wrath_MSG_MOVE_STOP_ASCEND(w) ==
  Struct(
    {}, Minimum(31) \o PackedGuid(w) \o wrath_MovementInfo(w).read,
    WRITE_PACKED_GUID(w) + wrath_MovementInfo(w).written,
    wwm_packed_guid_size(w) + wrath_MovementInfo(w).size)

wrath_MSG_MOVE_SET_FLIGHT_BACK_SPEEDFlags == wrath_MovementInfoFlags

wrath_MSG_MOVE_SET_FLIGHT_BACK_SPEED(w) ==
  Struct(
    {}, Minimum(35) \o PackedGuid(w) \o wrath_MovementInfo(w).read \o Ints(<<4>>),
    WRITE_PACKED_GUID(w) + wrath_MovementInfo(w).written + 4,
    4 + wwm_packed_guid_size(w) + wrath_MovementInfo(w).size)

wrath_MSG_MOVE_START_DESCENDFlags == wrath_MovementInfoFlags

wrath_MSG_MOVE_START_DESCEND(w) ==
  Struct(
    {}, Minimum(31) \o PackedGuid(w) \o wrath_MovementInfo(w).read,
    WRITE_PACKED_GUID(w) + wrath_MovementInfo(w).written,
    wwm_packed_guid_size(w) + wrath_MovementInfo(w).size)
=============================================================================
