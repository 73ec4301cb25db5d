--------------------------- MODULE CppTbcStructs ---------------------------
(*****************************************************************************)
(* The structs of the 2.4.3 version of the world protocol: what the read,    *)
(* write and size functions of src/wow_world_messages_cpp/src/tbc.cpp do     *)
(* with them, one definition for each struct, in the vocabulary of           *)
(* CppFormat.                                                                *)
(*                                                                           *)
(* A struct is a record of what its functions do with it on one wire. Of     *)
(* its last two numbers the first adds up the calls of the write function,   *)
(* in their order, and the second is what the size function adds up.         *)
(*****************************************************************************)
EXTENDS CppFormat

tbc_AddonInfo(w) ==
  Struct(Cstring(w) \o Ints(<<1, 4, 4>>), write_cstring(w) + 1 + 2 * 4, 10 + w.len)

tbc_ArenaTeamMember(w) ==
  Struct(Ints(<<8, 1>>) \o Cstring(w) \o Ints(<<1, 1>> \o Repeat(5, 4)),
         8 + 1 + write_cstring(w) + 2 * 1 + 5 * 4, 32 + w.len)

tbc_AuctionEnchantment == PlainStruct(<<4, 4, 4>>, 3 * 4)

tbc_AuctionListItem ==
  FixedStruct(
    Ints(<<4, 4>>) \o Each(6, tbc_AuctionEnchantment.read)
    \o Ints(Repeat(5, 4) \o <<8, 4, 4, 4, 4, 8, 4>>),
    2 * 4 + 6 * tbc_AuctionEnchantment.written + 5 * 4 + 8 + 4 * 4 + 8 + 4)

tbc_AuctionSort == PlainStruct(<<1, 1>>, 2 * 1)

tbc_Aura == PlainStruct(<<2, 1>>, 2 + 1)

tbc_aura_mask(w) == Run(8) \o Each(w.len, tbc_Aura.read)
tbc_aura_mask_written(w) == mask_written(8, tbc_Aura.written, w)
tbc_aura_mask_size(w) == mask_size(8, 3, w)

tbc_AuraLogEnums ==
  {{"AuraType::PERIODIC_DAMAGE", "AuraType::PERIODIC_HEAL", "AuraType::OBS_MOD_MANA",
    "AuraType::PERIODIC_MANA_LEECH", "AuraType::NONE"}}

tbc_AuraLog(w) ==
  Struct(
    Ints(<<4>>) \o When(Is(w, "AuraType::PERIODIC_DAMAGE"), Ints(<<4, 1, 4, 4>>))
    \o When(Is(w, "AuraType::PERIODIC_HEAL"), Ints(<<4>>))
    \o When(Is(w, "AuraType::OBS_MOD_MANA"), Ints(<<4, 4>>))
    \o When(Is(w, "AuraType::PERIODIC_MANA_LEECH"), Ints(<<4, 4, 4>>)),
    4 + Bytes(Is(w, "AuraType::PERIODIC_DAMAGE"), 4 + 1 + 2 * 4)
    + Bytes(Is(w, "AuraType::PERIODIC_HEAL"), 4) + Bytes(Is(w, "AuraType::OBS_MOD_MANA"), 2 * 4)
    + Bytes(Is(w, "AuraType::PERIODIC_MANA_LEECH"), 3 * 4),
    4 + Bytes(Is(w, "AuraType::PERIODIC_DAMAGE"), 13)
    + Bytes(Is(w, "AuraType::PERIODIC_HEAL"), 4) + Bytes(Is(w, "AuraType::OBS_MOD_MANA"), 8)
    + Bytes(Is(w, "AuraType::PERIODIC_MANA_LEECH"), 12))

tbc_BankTab == PlainStruct(<<4, 4>>, 2 * 4)

tbc_BattlegroundPlayerPosition == PlainStruct(<<8, 4, 4>>, 8 + 2 * 4)

tbc_ChannelMember == PlainStruct(<<8, 1>>, 8 + 1)

tbc_CharacterGear == PlainStruct(<<4, 1, 4>>, 4 + 1 + 4)

tbc_Character(w) ==
  Struct(
    Ints(<<8>>) \o Cstring(w) \o Ints(Repeat(9, 1) \o <<4, 4>>) \o Vector3d.read
    \o Ints(<<4, 4, 1, 4, 4, 4>>) \o Each(20, tbc_CharacterGear.read),
    8 + write_cstring(w) + 9 * 1 + 2 * 4 + Vector3d.written + 2 * 4 + 1 + 3 * 4
    + 20 * tbc_CharacterGear.written, 239 + w.len)

tbc_CooldownSpell == PlainStruct(<<2, 2, 2, 4, 4>>, 3 * 2 + 2 * 4)

tbc_DamageInfo == PlainStruct(Repeat(5, 4), 5 * 4)

tbc_DispelledSpell == PlainStruct(<<4, 1>>, 4 + 1)

tbc_FactionInitializer == PlainStruct(<<1, 4>>, 1 + 4)

tbc_FactionStanding == PlainStruct(<<2, 4>>, 2 + 4)

tbc_ForcedReaction == PlainStruct(<<2, 4>>, 2 + 4)

tbc_GmSurveyQuestion(w) ==
  Struct(Ints(<<4, 1>>) \o Cstring(w), 4 + 1 + write_cstring(w), 6 + w.len)

tbc_GossipItem(w) ==
  Struct(Ints(<<4, 1, 1, 4>>) \o Cstring(w) \o Cstring(w),
         4 + 2 * 1 + 4 + 2 * write_cstring(w), 12 + 2 * w.len)

tbc_GroupListMember(w) ==
  Struct(Cstring(w) \o Ints(<<8, 1, 1, 1>>), write_cstring(w) + 8 + 3 * 1, 12 + w.len)

tbc_GuildBankRights == PlainStruct(<<4, 4>>, 2 * 4)

tbc_GuildBankSocket == PlainStruct(<<1, 4>>, 1 + 4)

tbc_GuildBankSlot(w) ==
  Struct(
    Ints(<<1, 4>>) \o VariableItemRandomProperty(w).read \o Ints(<<1, 4, 1, 1>>)
    \o Each(U8(w.count), tbc_GuildBankSocket.read),
    1 + 4 + VariableItemRandomProperty(w).written + 1 + 4 + 2 * 1
    + w.count * tbc_GuildBankSocket.written,
    12 + VariableItemRandomProperty(w).size + 5 * w.count)

tbc_GuildBankTab(w) == Struct(Cstring(w) \o Cstring(w), 2 * write_cstring(w), 2 + 2 * w.len)

tbc_GuildLogEvent(w) ==
  Struct(
    Ints(<<1, 8>>) \o When(Is(w, "GuildEvent::JOINED"), Ints(<<8>>))
    \o When(Is(w, "GuildEvent::PROMOTION"), Ints(<<1>>)) \o Ints(<<4>>),
    1 + 8 + Bytes(Is(w, "GuildEvent::JOINED"), 8) + Bytes(Is(w, "GuildEvent::PROMOTION"), 1) + 4,
    13 + Bytes(Is(w, "GuildEvent::JOINED"), 8) + Bytes(Is(w, "GuildEvent::PROMOTION"), 1))

tbc_GuildMember(w) ==
  Struct(
    Ints(<<8, 1>>) \o Cstring(w) \o Ints(<<4, 1, 1, 1, 4>>)
    \o When(Is(w, "GuildMemberStatus::OFFLINE"), Ints(<<4>>)) \o Cstring(w) \o Cstring(w),
    8 + 1 + write_cstring(w) + 4 + 3 * 1 + 4 + Bytes(Is(w, "GuildMemberStatus::OFFLINE"), 4)
    + 2 * write_cstring(w), 23 + 3 * w.len + Bytes(Is(w, "GuildMemberStatus::OFFLINE"), 4))

tbc_GuildRights ==
  FixedStruct(
    Ints(<<4, 4>>) \o Each(6, tbc_GuildBankRights.read), 2 * 4 + 6 * tbc_GuildBankRights.written)

tbc_InitialSpell == PlainStruct(<<2, 2>>, 2 * 2)

tbc_ItemDamageType == PlainStruct(<<4, 4, 4>>, 3 * 4)

tbc_ItemSocket == PlainStruct(<<4, 4>>, 2 * 4)

tbc_ItemSpells == PlainStruct(Repeat(6, 4), 6 * 4)

tbc_ItemStat == PlainStruct(<<4, 4>>, 2 * 4)

tbc_LfgData == PlainStruct(<<2, 2>>, 2 * 2)

tbc_LfgPlayerMember(w) ==
  Struct(PackedGuid(w) \o Ints(<<4>>), write_packed_guid(w) + 4, 4 + wwm_packed_guid_size(w))

tbc_LfgPlayer(w) ==
  Struct(
    PackedGuid(w) \o Ints(<<4, 4, 1, 4, 4, 4>>) \o Cstring(w) \o Ints(<<4>>)
    \o Each(w.count, tbc_LfgPlayerMember(w).read),
    write_packed_guid(w) + 2 * 4 + 1 + 3 * 4 + write_cstring(w) + 4
    + w.count * tbc_LfgPlayerMember(w).written,
    26 + w.len + wwm_packed_guid_size(w) + w.count * tbc_LfgPlayerMember(w).size)

tbc_ListInventoryItem == PlainStruct(Repeat(8, 4), 8 * 4)

tbc_LootItem == PlainStruct(<<1, 4, 1>>, 1 + 4 + 1)

tbc_MailListItemEnchant == PlainStruct(<<4, 4, 4>>, 3 * 4)

tbc_MailListItem ==
  FixedStruct(
    Ints(<<1, 4, 4>>) \o Each(6, tbc_MailListItemEnchant.read) \o Ints(<<4, 4, 1, 4, 4, 4>>),
    1 + 2 * 4 + 6 * tbc_MailListItemEnchant.written + 2 * 4 + 1 + 3 * 4)

tbc_MailEnums ==
  {{"MailType::NORMAL", "MailType::CREATURE", "MailType::AUCTION", "MailType::ITEM"}}

tbc_Mail(w) ==
  Struct(
    Ints(<<2, 4, 1>>) \o When(Is(w, "MailType::NORMAL"), Ints(<<8>>))
    \o When(Is(w, "MailType::CREATURE"), Ints(<<4>>))
    \o When(Is(w, "MailType::AUCTION"), Ints(<<4>>))
    \o When(Is(w, "MailType::ITEM"), Ints(<<4>>)) \o Ints(Repeat(8, 4)) \o Cstring(w)
    \o Ints(<<1>>) \o Each(U8(w.count), tbc_MailListItem.read),
    2 + 4 + 1 + Bytes(Is(w, "MailType::NORMAL"), 8) + Bytes(Is(w, "MailType::CREATURE"), 4)
    + Bytes(Is(w, "MailType::AUCTION"), 4) + Bytes(Is(w, "MailType::ITEM"), 4) + 8 * 4
    + write_cstring(w) + 1 + w.count * tbc_MailListItem.written,
    41 + w.len + 102 * w.count + Bytes(Is(w, "MailType::NORMAL"), 8)
    + Bytes(Is(w, "MailType::CREATURE"), 4) + Bytes(Is(w, "MailType::AUCTION"), 4)
    + Bytes(Is(w, "MailType::ITEM"), 4))

tbc_MailItem == PlainStruct(<<8, 1>>, 8 + 1)

tbc_MoneyLogItem == PlainStruct(<<1, 8, 4, 4>>, 1 + 8 + 2 * 4)

tbc_TransportInfo(w) ==
  Struct(PackedGuid(w) \o Vector3d.read \o Ints(<<4, 4>>),
         write_packed_guid(w) + Vector3d.written + 2 * 4, 20 + wwm_packed_guid_size(w))

tbc_MovementBlockFlags ==
  {"UPDATE_FLAG_LIVING", "UPDATE_FLAG_HAS_POSITION", "UPDATE_FLAG_HIGH_GUID", "UPDATE_FLAG_ALL",
   "UPDATE_FLAG_MELEE_ATTACKING", "UPDATE_FLAG_TRANSPORT", "MOVEMENT_FLAGS_ON_TRANSPORT",
   "MOVEMENT_FLAGS_SWIMMING", "MOVEMENT_FLAGS_ONTRANSPORT", "MOVEMENT_FLAGS_JUMPING",
   "MOVEMENT_FLAGS_SPLINE_ELEVATION", "MOVEMENT_FLAGS_SPLINE_ENABLED", "SPLINE_FLAG_FINAL_ANGLE",
   "SPLINE_FLAG_FINAL_TARGET", "SPLINE_FLAG_FINAL_POINT"}

tbc_MovementBlock(w) ==
  Struct(
    Ints(<<1>>)
    \o When(
         Is(w, "UPDATE_FLAG_LIVING"),
         Ints(<<4, 1, 4>>) \o Vector3d.read \o Ints(<<4>>)
         \o When(Is(w, "MOVEMENT_FLAGS_ON_TRANSPORT"), tbc_TransportInfo(w).read)
         \o When(Is(w, "MOVEMENT_FLAGS_SWIMMING"), Ints(<<4>>))
         \o When(~Is(w, "MOVEMENT_FLAGS_SWIMMING") /\ Is(w, "MOVEMENT_FLAGS_ONTRANSPORT"),
                 Ints(<<4>>)) \o Ints(<<4>>)
         \o When(Is(w, "MOVEMENT_FLAGS_JUMPING"), Ints(<<4, 4, 4, 4>>))
         \o When(Is(w, "MOVEMENT_FLAGS_SPLINE_ELEVATION"), Ints(<<4>>)) \o Ints(Repeat(8, 4))
         \o When(
              Is(w, "MOVEMENT_FLAGS_SPLINE_ENABLED"),
              Ints(<<4>>) \o When(Is(w, "SPLINE_FLAG_FINAL_ANGLE"), Ints(<<4>>))
              \o When(~Is(w, "SPLINE_FLAG_FINAL_ANGLE") /\ Is(w, "SPLINE_FLAG_FINAL_TARGET"),
                      Ints(<<8>>))
              \o When(~Is(w, "SPLINE_FLAG_FINAL_ANGLE") /\ ~Is(w, "SPLINE_FLAG_FINAL_TARGET")
                      /\ Is(w, "SPLINE_FLAG_FINAL_POINT"), Vector3d.read) \o Ints(<<4, 4, 4, 4>>)
              \o Each(w.count, Vector3d.read) \o Vector3d.read))
    \o When(~Is(w, "UPDATE_FLAG_LIVING") /\ Is(w, "UPDATE_FLAG_HAS_POSITION"),
            Vector3d.read \o Ints(<<4>>)) \o When(Is(w, "UPDATE_FLAG_HIGH_GUID"), Ints(<<4, 4>>))
    \o When(Is(w, "UPDATE_FLAG_ALL"), Ints(<<4>>))
    \o When(Is(w, "UPDATE_FLAG_MELEE_ATTACKING"), PackedGuid(w))
    \o When(Is(w, "UPDATE_FLAG_TRANSPORT"), Ints(<<4>>)),
    1
    + Bytes(
        Is(w, "UPDATE_FLAG_LIVING"),
        4 + 1 + 4 + Vector3d.written + 4
        + Bytes(Is(w, "MOVEMENT_FLAGS_ON_TRANSPORT"), tbc_TransportInfo(w).written)
        + Bytes(Is(w, "MOVEMENT_FLAGS_SWIMMING"), 4)
        + Bytes(~Is(w, "MOVEMENT_FLAGS_SWIMMING") /\ Is(w, "MOVEMENT_FLAGS_ONTRANSPORT"), 4) + 4
        + Bytes(Is(w, "MOVEMENT_FLAGS_JUMPING"), 4 * 4)
        + Bytes(Is(w, "MOVEMENT_FLAGS_SPLINE_ELEVATION"), 4) + 8 * 4
        + Bytes(
            Is(w, "MOVEMENT_FLAGS_SPLINE_ENABLED"),
            4 + Bytes(Is(w, "SPLINE_FLAG_FINAL_ANGLE"), 4)
            + Bytes(~Is(w, "SPLINE_FLAG_FINAL_ANGLE") /\ Is(w, "SPLINE_FLAG_FINAL_TARGET"), 8)
            + Bytes(~Is(w, "SPLINE_FLAG_FINAL_ANGLE") /\ ~Is(w, "SPLINE_FLAG_FINAL_TARGET")
                    /\ Is(w, "SPLINE_FLAG_FINAL_POINT"), Vector3d.written) + 4 * 4
            + w.count * Vector3d.written + Vector3d.written))
    + Bytes(
        ~Is(w, "UPDATE_FLAG_LIVING") /\ Is(w, "UPDATE_FLAG_HAS_POSITION"), Vector3d.written + 4)
    + Bytes(Is(w, "UPDATE_FLAG_HIGH_GUID"), 2 * 4) + Bytes(Is(w, "UPDATE_FLAG_ALL"), 4)
    + Bytes(Is(w, "UPDATE_FLAG_MELEE_ATTACKING"), write_packed_guid(w))
    + Bytes(Is(w, "UPDATE_FLAG_TRANSPORT"), 4),
    1
    + Bytes(
        Is(w, "UPDATE_FLAG_LIVING"),
        61 + Bytes(Is(w, "MOVEMENT_FLAGS_ON_TRANSPORT"), tbc_TransportInfo(w).size)
        + Bytes(Is(w, "MOVEMENT_FLAGS_SWIMMING"), 4)
        + Bytes(~Is(w, "MOVEMENT_FLAGS_SWIMMING") /\ Is(w, "MOVEMENT_FLAGS_ONTRANSPORT"), 4)
        + Bytes(Is(w, "MOVEMENT_FLAGS_JUMPING"), 16)
        + Bytes(Is(w, "MOVEMENT_FLAGS_SPLINE_ELEVATION"), 4)
        + Bytes(
            Is(w, "MOVEMENT_FLAGS_SPLINE_ENABLED"),
            32 + 12 * w.count + Bytes(Is(w, "SPLINE_FLAG_FINAL_ANGLE"), 4)
            + Bytes(~Is(w, "SPLINE_FLAG_FINAL_ANGLE") /\ Is(w, "SPLINE_FLAG_FINAL_TARGET"), 8)
            + Bytes(~Is(w, "SPLINE_FLAG_FINAL_ANGLE") /\ ~Is(w, "SPLINE_FLAG_FINAL_TARGET")
                    /\ Is(w, "SPLINE_FLAG_FINAL_POINT"), 12)))
    + Bytes(~Is(w, "UPDATE_FLAG_LIVING") /\ Is(w, "UPDATE_FLAG_HAS_POSITION"), 16)
    + Bytes(Is(w, "UPDATE_FLAG_HIGH_GUID"), 8) + Bytes(Is(w, "UPDATE_FLAG_ALL"), 4)
    + Bytes(Is(w, "UPDATE_FLAG_MELEE_ATTACKING"), wwm_packed_guid_size(w))
    + Bytes(Is(w, "UPDATE_FLAG_TRANSPORT"), 4))

tbc_MovementInfoFlags ==
  {"MOVEMENT_FLAGS_ON_TRANSPORT", "MOVEMENT_FLAGS_SWIMMING", "MOVEMENT_FLAGS_ONTRANSPORT",
   "MOVEMENT_FLAGS_JUMPING", "MOVEMENT_FLAGS_SPLINE_ELEVATION"}

tbc_MovementInfo(w) ==
  Struct(
    Ints(<<4, 1, 4>>) \o Vector3d.read \o Ints(<<4>>)
    \o When(Is(w, "MOVEMENT_FLAGS_ON_TRANSPORT"), tbc_TransportInfo(w).read)
    \o When(Is(w, "MOVEMENT_FLAGS_SWIMMING"), Ints(<<4>>))
    \o When(
         ~Is(w, "MOVEMENT_FLAGS_SWIMMING") /\ Is(w, "MOVEMENT_FLAGS_ONTRANSPORT"), Ints(<<4>>))
    \o Ints(<<4>>) \o When(Is(w, "MOVEMENT_FLAGS_JUMPING"), Ints(<<4, 4, 4, 4>>))
    \o When(Is(w, "MOVEMENT_FLAGS_SPLINE_ELEVATION"), Ints(<<4>>)),
    4 + 1 + 4 + Vector3d.written + 4
    + Bytes(Is(w, "MOVEMENT_FLAGS_ON_TRANSPORT"), tbc_TransportInfo(w).written)
    + Bytes(Is(w, "MOVEMENT_FLAGS_SWIMMING"), 4)
    + Bytes(~Is(w, "MOVEMENT_FLAGS_SWIMMING") /\ Is(w, "MOVEMENT_FLAGS_ONTRANSPORT"), 4) + 4
    + Bytes(Is(w, "MOVEMENT_FLAGS_JUMPING"), 4 * 4)
    + Bytes(Is(w, "MOVEMENT_FLAGS_SPLINE_ELEVATION"), 4),
    29 + Bytes(Is(w, "MOVEMENT_FLAGS_ON_TRANSPORT"), tbc_TransportInfo(w).size)
    + Bytes(Is(w, "MOVEMENT_FLAGS_SWIMMING"), 4)
    + Bytes(~Is(w, "MOVEMENT_FLAGS_SWIMMING") /\ Is(w, "MOVEMENT_FLAGS_ONTRANSPORT"), 4)
    + Bytes(Is(w, "MOVEMENT_FLAGS_JUMPING"), 16)
    + Bytes(Is(w, "MOVEMENT_FLAGS_SPLINE_ELEVATION"), 4))

tbc_NpcTextUpdateEmote == PlainStruct(<<4, 4>>, 2 * 4)

tbc_NpcTextUpdate(w) ==
  Struct(
    Ints(<<4>>) \o Each(2, Cstring(w)) \o Ints(<<1>>) \o Each(3, tbc_NpcTextUpdateEmote.read),
    4 + 2 * write_cstring(w) + 1 + 3 * tbc_NpcTextUpdateEmote.written, 29 + 2 * (1 + w.len))

tbc_ObjectEnums ==
  {{"UpdateType::VALUES", "UpdateType::MOVEMENT", "UpdateType::CREATE_OBJECT",
    "UpdateType::OUT_OF_RANGE_OBJECTS"}}

tbc_ObjectFlags == tbc_MovementBlockFlags

tbc_Object(w) ==
  Struct(
    Ints(<<1>>) \o When(Is(w, "UpdateType::VALUES"), PackedGuid(w) \o UpdateMask(w))
    \o When(Is(w, "UpdateType::MOVEMENT"), PackedGuid(w) \o tbc_MovementBlock(w).read)
    \o When(Is(w, "UpdateType::CREATE_OBJECT"),
            PackedGuid(w) \o Ints(<<1>>) \o tbc_MovementBlock(w).read \o UpdateMask(w))
    \o When(
         Is(w, "UpdateType::OUT_OF_RANGE_OBJECTS"), Ints(<<4>>) \o Each(w.count, PackedGuid(w))),
    1 + Bytes(Is(w, "UpdateType::VALUES"), write_packed_guid(w) + update_mask_written(w))
    + Bytes(Is(w, "UpdateType::MOVEMENT"), write_packed_guid(w) + tbc_MovementBlock(w).written)
    + Bytes(Is(w, "UpdateType::CREATE_OBJECT"),
            write_packed_guid(w) + 1 + tbc_MovementBlock(w).written + update_mask_written(w))
    + Bytes(Is(w, "UpdateType::OUT_OF_RANGE_OBJECTS"), 4 + w.count * write_packed_guid(w)),
    1 + Bytes(Is(w, "UpdateType::VALUES"), wwm_packed_guid_size(w) + update_mask_size(w))
    + Bytes(Is(w, "UpdateType::MOVEMENT"), wwm_packed_guid_size(w) + tbc_MovementBlock(w).size)
    + Bytes(Is(w, "UpdateType::CREATE_OBJECT"),
            1 + wwm_packed_guid_size(w) + tbc_MovementBlock(w).size + update_mask_size(w))
    + Bytes(Is(w, "UpdateType::OUT_OF_RANGE_OBJECTS"), 4 + w.count * wwm_packed_guid_size(w)))

tbc_PetSpellCooldown == PlainStruct(<<2, 2, 4, 4>>, 2 * 2 + 2 * 4)

tbc_PetitionShowlist == PlainStruct(Repeat(6, 4), 6 * 4)

tbc_PetitionSignature == PlainStruct(<<8, 4>>, 8 + 4)

tbc_QuestDetailsEmote == PlainStruct(<<4, 4>>, 2 * 4)

tbc_QuestGiverStatusReport == PlainStruct(<<8, 1>>, 8 + 1)

tbc_QuestItem(w) == Struct(Ints(<<4, 4, 4>>) \o Cstring(w), 3 * 4 + write_cstring(w), 13 + w.len)

tbc_QuestItemRequirement == PlainStruct(<<4, 4, 4>>, 3 * 4)

tbc_QuestItemReward == PlainStruct(<<4, 4>>, 2 * 4)

tbc_QuestObjective == PlainStruct(<<4, 4, 4, 4>>, 4 * 4)

tbc_RaidInfo == PlainStruct(<<4, 4, 4, 4>>, 4 * 4)

tbc_RaidTargetUpdate == PlainStruct(<<1, 8>>, 1 + 8)

tbc_ReceivedMail == PlainStruct(<<8, 4, 4, 4, 4>>, 8 + 4 * 4)

tbc_Relation(w) ==
  Struct(
    Ints(<<8, 4>>) \o Cstring(w)
    \o When(Is(w, "RELATION_TYPE_FRIEND"),
            Ints(<<1>>) \o When(Is(w, "FriendStatus::ONLINE"), Ints(<<4, 4, 4>>))),
    8 + 4 + write_cstring(w)
    + Bytes(Is(w, "RELATION_TYPE_FRIEND"), 1 + Bytes(Is(w, "FriendStatus::ONLINE"), 3 * 4)),
    13 + w.len
    + Bytes(Is(w, "RELATION_TYPE_FRIEND"), 1 + Bytes(Is(w, "FriendStatus::ONLINE"), 12)))

tbc_SpellCastTargetsFlags ==
  {"SPELL_CAST_TARGET_FLAGS_UNIT", "SPELL_CAST_TARGET_FLAGS_UNIT_MINIPET",
   "SPELL_CAST_TARGET_FLAGS_UNIT_ENEMY", "SPELL_CAST_TARGET_FLAGS_GAMEOBJECT",
   "SPELL_CAST_TARGET_FLAGS_LOCKED", "SPELL_CAST_TARGET_FLAGS_ITEM",
   "SPELL_CAST_TARGET_FLAGS_TRADE_ITEM", "SPELL_CAST_TARGET_FLAGS_SOURCE_LOCATION",
   "SPELL_CAST_TARGET_FLAGS_DEST_LOCATION", "SPELL_CAST_TARGET_FLAGS_STRING",
   "SPELL_CAST_TARGET_FLAGS_CORPSE_ALLY", "SPELL_CAST_TARGET_FLAGS_CORPSE_ENEMY"}

tbc_SpellCastTargets(w) ==
  Struct(
    Ints(<<4>>) \o When(Is(w, "SPELL_CAST_TARGET_FLAGS_UNIT"), PackedGuid(w))
    \o When(~Is(w, "SPELL_CAST_TARGET_FLAGS_UNIT")
            /\ Is(w, "SPELL_CAST_TARGET_FLAGS_UNIT_MINIPET"), PackedGuid(w))
    \o When(
         ~Is(w, "SPELL_CAST_TARGET_FLAGS_UNIT") /\ ~Is(w, "SPELL_CAST_TARGET_FLAGS_UNIT_MINIPET")
         /\ Is(w, "SPELL_CAST_TARGET_FLAGS_UNIT_ENEMY"), PackedGuid(w))
    \o When(Is(w, "SPELL_CAST_TARGET_FLAGS_GAMEOBJECT"), PackedGuid(w))
    \o When(~Is(w, "SPELL_CAST_TARGET_FLAGS_GAMEOBJECT")
            /\ Is(w, "SPELL_CAST_TARGET_FLAGS_LOCKED"), PackedGuid(w))
    \o When(Is(w, "SPELL_CAST_TARGET_FLAGS_ITEM"), PackedGuid(w))
    \o When(~Is(w, "SPELL_CAST_TARGET_FLAGS_ITEM") /\ Is(w, "SPELL_CAST_TARGET_FLAGS_TRADE_ITEM"),
            PackedGuid(w))
    \o When(Is(w, "SPELL_CAST_TARGET_FLAGS_SOURCE_LOCATION"), Vector3d.read)
    \o When(Is(w, "SPELL_CAST_TARGET_FLAGS_DEST_LOCATION"), Vector3d.read)
    \o When(Is(w, "SPELL_CAST_TARGET_FLAGS_STRING"), Cstring(w))
    \o When(Is(w, "SPELL_CAST_TARGET_FLAGS_CORPSE_ALLY"), PackedGuid(w))
    \o When(~Is(w, "SPELL_CAST_TARGET_FLAGS_CORPSE_ALLY")
            /\ Is(w, "SPELL_CAST_TARGET_FLAGS_CORPSE_ENEMY"), PackedGuid(w)),
    4 + Bytes(Is(w, "SPELL_CAST_TARGET_FLAGS_UNIT"), write_packed_guid(w))
    + Bytes(~Is(w, "SPELL_CAST_TARGET_FLAGS_UNIT")
            /\ Is(w, "SPELL_CAST_TARGET_FLAGS_UNIT_MINIPET"), write_packed_guid(w))
    + Bytes(
        ~Is(w, "SPELL_CAST_TARGET_FLAGS_UNIT") /\ ~Is(w, "SPELL_CAST_TARGET_FLAGS_UNIT_MINIPET")
        /\ Is(w, "SPELL_CAST_TARGET_FLAGS_UNIT_ENEMY"), write_packed_guid(w))
    + Bytes(Is(w, "SPELL_CAST_TARGET_FLAGS_GAMEOBJECT"), write_packed_guid(w))
    + Bytes(~Is(w, "SPELL_CAST_TARGET_FLAGS_GAMEOBJECT")
            /\ Is(w, "SPELL_CAST_TARGET_FLAGS_LOCKED"), write_packed_guid(w))
    + Bytes(Is(w, "SPELL_CAST_TARGET_FLAGS_ITEM"), write_packed_guid(w))
    + Bytes(~Is(w, "SPELL_CAST_TARGET_FLAGS_ITEM") /\ Is(w, "SPELL_CAST_TARGET_FLAGS_TRADE_ITEM"),
            write_packed_guid(w))
    + Bytes(Is(w, "SPELL_CAST_TARGET_FLAGS_SOURCE_LOCATION"), Vector3d.written)
    + Bytes(Is(w, "SPELL_CAST_TARGET_FLAGS_DEST_LOCATION"), Vector3d.written)
    + Bytes(Is(w, "SPELL_CAST_TARGET_FLAGS_STRING"), write_cstring(w))
    + Bytes(Is(w, "SPELL_CAST_TARGET_FLAGS_CORPSE_ALLY"), write_packed_guid(w))
    + Bytes(~Is(w, "SPELL_CAST_TARGET_FLAGS_CORPSE_ALLY")
            /\ Is(w, "SPELL_CAST_TARGET_FLAGS_CORPSE_ENEMY"), write_packed_guid(w)),
    4 + Bytes(Is(w, "SPELL_CAST_TARGET_FLAGS_UNIT"), wwm_packed_guid_size(w))
    + Bytes(~Is(w, "SPELL_CAST_TARGET_FLAGS_UNIT")
            /\ Is(w, "SPELL_CAST_TARGET_FLAGS_UNIT_MINIPET"), wwm_packed_guid_size(w))
    + Bytes(
        ~Is(w, "SPELL_CAST_TARGET_FLAGS_UNIT") /\ ~Is(w, "SPELL_CAST_TARGET_FLAGS_UNIT_MINIPET")
        /\ Is(w, "SPELL_CAST_TARGET_FLAGS_UNIT_ENEMY"), wwm_packed_guid_size(w))
    + Bytes(Is(w, "SPELL_CAST_TARGET_FLAGS_GAMEOBJECT"), wwm_packed_guid_size(w))
    + Bytes(~Is(w, "SPELL_CAST_TARGET_FLAGS_GAMEOBJECT")
            /\ Is(w, "SPELL_CAST_TARGET_FLAGS_LOCKED"), wwm_packed_guid_size(w))
    + Bytes(Is(w, "SPELL_CAST_TARGET_FLAGS_ITEM"), wwm_packed_guid_size(w))
    + Bytes(~Is(w, "SPELL_CAST_TARGET_FLAGS_ITEM") /\ Is(w, "SPELL_CAST_TARGET_FLAGS_TRADE_ITEM"),
            wwm_packed_guid_size(w))
    + Bytes(Is(w, "SPELL_CAST_TARGET_FLAGS_SOURCE_LOCATION"), 12)
    + Bytes(Is(w, "SPELL_CAST_TARGET_FLAGS_DEST_LOCATION"), 12)
    + Bytes(Is(w, "SPELL_CAST_TARGET_FLAGS_STRING"), 1 + w.len)
    + Bytes(Is(w, "SPELL_CAST_TARGET_FLAGS_CORPSE_ALLY"), wwm_packed_guid_size(w))
    + Bytes(~Is(w, "SPELL_CAST_TARGET_FLAGS_CORPSE_ALLY")
            /\ Is(w, "SPELL_CAST_TARGET_FLAGS_CORPSE_ENEMY"), wwm_packed_guid_size(w)))

tbc_SpellCooldownStatus == PlainStruct(<<4, 4>>, 2 * 4)

tbc_SpellLogEnums ==
  {{"SpellEffect::POWER_DRAIN", "SpellEffect::ADD_EXTRA_ATTACKS", "SpellEffect::INTERRUPT_CAST",
    "SpellEffect::DURABILITY_DAMAGE", "SpellEffect::OPEN_LOCK", "SpellEffect::CREATE_ITEM",
    "SpellEffect::SUMMON", "SpellEffect::FEED_PET", "SpellEffect::DISMISS_PET",
    "SpellEffect::NONE"}}

tbc_SpellLog(w) ==
  Struct(
    Ints(<<4, 4>>) \o When(Is(w, "SpellEffect::POWER_DRAIN"), PackedGuid(w) \o Ints(<<4, 4, 4>>))
    \o When(Is(w, "SpellEffect::ADD_EXTRA_ATTACKS"), PackedGuid(w) \o Ints(<<4>>))
    \o When(Is(w, "SpellEffect::INTERRUPT_CAST"), PackedGuid(w) \o Ints(<<4>>))
    \o When(Is(w, "SpellEffect::DURABILITY_DAMAGE"), PackedGuid(w) \o Ints(<<4, 4>>))
    \o When(Is(w, "SpellEffect::OPEN_LOCK"), PackedGuid(w))
    \o When(Is(w, "SpellEffect::CREATE_ITEM"), Ints(<<4>>))
    \o When(Is(w, "SpellEffect::SUMMON"), PackedGuid(w))
    \o When(Is(w, "SpellEffect::FEED_PET"), PackedGuid(w))
    \o When(Is(w, "SpellEffect::DISMISS_PET"), PackedGuid(w)),
    2 * 4 + Bytes(Is(w, "SpellEffect::POWER_DRAIN"), write_packed_guid(w) + 3 * 4)
    + Bytes(Is(w, "SpellEffect::ADD_EXTRA_ATTACKS"), write_packed_guid(w) + 4)
    + Bytes(Is(w, "SpellEffect::INTERRUPT_CAST"), write_packed_guid(w) + 4)
    + Bytes(Is(w, "SpellEffect::DURABILITY_DAMAGE"), write_packed_guid(w) + 2 * 4)
    + Bytes(Is(w, "SpellEffect::OPEN_LOCK"), write_packed_guid(w))
    + Bytes(Is(w, "SpellEffect::CREATE_ITEM"), 4)
    + Bytes(Is(w, "SpellEffect::SUMMON"), write_packed_guid(w))
    + Bytes(Is(w, "SpellEffect::FEED_PET"), write_packed_guid(w))
    + Bytes(Is(w, "SpellEffect::DISMISS_PET"), write_packed_guid(w)),
    8 + Bytes(Is(w, "SpellEffect::POWER_DRAIN"), 12 + wwm_packed_guid_size(w))
    + Bytes(Is(w, "SpellEffect::ADD_EXTRA_ATTACKS"), 4 + wwm_packed_guid_size(w))
    + Bytes(Is(w, "SpellEffect::INTERRUPT_CAST"), 4 + wwm_packed_guid_size(w))
    + Bytes(Is(w, "SpellEffect::DURABILITY_DAMAGE"), 8 + wwm_packed_guid_size(w))
    + Bytes(Is(w, "SpellEffect::OPEN_LOCK"), wwm_packed_guid_size(w))
    + Bytes(Is(w, "SpellEffect::CREATE_ITEM"), 4)
    + Bytes(Is(w, "SpellEffect::SUMMON"), wwm_packed_guid_size(w))
    + Bytes(Is(w, "SpellEffect::FEED_PET"), wwm_packed_guid_size(w))
    + Bytes(Is(w, "SpellEffect::DISMISS_PET"), wwm_packed_guid_size(w)))

tbc_SpellLogMiss == PlainStruct(<<8, 1>>, 8 + 1)

tbc_SpellMiss(w) ==
  Struct(
    Ints(<<8, 1>>) \o When(Is(w, "SpellMissInfo::REFLECT"), Ints(<<1>>)),
    8 + 1 + Bytes(Is(w, "SpellMissInfo::REFLECT"), 1),
    9 + Bytes(Is(w, "SpellMissInfo::REFLECT"), 1))

tbc_SpellSteal == PlainStruct(<<4, 1>>, 4 + 1)

tbc_StabledPet(w) ==
  Struct(Ints(<<4, 4, 4>>) \o Cstring(w) \o Ints(<<4, 1>>),
         3 * 4 + write_cstring(w) + 4 + 1, 18 + w.len)

tbc_TradeSlot ==
  PlainStruct(
    <<1, 4, 4, 4, 4, 8, 4, 4, 4, 4, 8>> \o Repeat(6, 4), 1 + 4 * 4 + 8 + 4 + 3 * 4 + 8 + 6 * 4)

tbc_TrainerSpell ==
  PlainStruct(<<4, 1, 4, 4, 4, 1>> \o Repeat(5, 4), 4 + 1 + 3 * 4 + 1 + 2 * 4 + 3 * 4)

tbc_WhoPlayer(w) ==
  Struct(Cstring(w) \o Cstring(w) \o Ints(<<4, 1, 1, 1, 4>>),
         2 * write_cstring(w) + 4 + 3 * 1 + 4, 13 + 2 * w.len)

tbc_WorldState == PlainStruct(<<4, 4>>, 2 * 4)

tbc_MSG_MOVE_HOVERFlags == tbc_MovementInfoFlags

tbc_MSG_MOVE_HOVER(w) ==
  Struct(
    PackedGuid(w) \o tbc_MovementInfo(w).read,
    write_packed_guid(w) + tbc_MovementInfo(w).written,
    wwm_packed_guid_size(w) + tbc_MovementInfo(w).size)

tbc_MSG_PETITION_DECLINE == Struct(Ints(<<8>>), 8, 8)

tbc_MSG_TABARDVENDOR_ACTIVATE == Struct(Ints(<<8>>), 8, 8)

tbc_MSG_QUEST_PUSH_RESULT == Struct(Ints(<<8, 1>>), 8 + 1, 9)

tbc_MSG_MOVE_WATER_WALKFlags == tbc_MovementInfoFlags

tbc_MSG_MOVE_WATER_WALK(w) ==
  Struct(
    PackedGuid(w) \o tbc_MovementInfo(w).read,
    write_packed_guid(w) + tbc_MovementInfo(w).written,
    wwm_packed_guid_size(w) + tbc_MovementInfo(w).size)

tbc_MSG_PETITION_RENAME(w) == Struct(Ints(<<8>>) \o Cstring(w), 8 + write_cstring(w), 9 + w.len)

tbc_MSG_MOVE_SET_FLIGHT_BACK_SPEEDFlags == tbc_MovementInfoFlags

tbc_MSG_MOVE_SET_FLIGHT_BACK_SPEED(w) ==
  Struct(
    PackedGuid(w) \o tbc_MovementInfo(w).read \o Ints(<<4>>),
    write_packed_guid(w) + tbc_MovementInfo(w).written + 4,
    4 + wwm_packed_guid_size(w) + tbc_MovementInfo(w).size)
=============================================================================
