------------------------- MODULE CppVanillaStructs -------------------------
(*****************************************************************************)
(* The structs of the 1.12 version of the world protocol: what the read,     *)
(* write and size functions of src/wow_world_messages_cpp/src/vanilla.cpp    *)
(* do with them, one definition for each struct, in the vocabulary of        *)
(* CppFormat.                                                                *)
(*                                                                           *)
(* A struct is a record of what its functions do with it on one wire. Of     *)
(* its last two numbers the first adds up the calls of the write function,   *)
(* in their order, and the second is what the size function adds up.         *)
(*****************************************************************************)
EXTENDS CppFormat

vanilla_aura_mask(w) == Mask(4, 2, w)
vanilla_aura_mask_written(w) == mask_written(4, 2, w)
vanilla_aura_mask_size(w) == mask_size(4, 2, w)

vanilla_AddonEnums ==
  {{"InfoBlock::AVAILABLE", "InfoBlock::UNAVAILABLE"}, {"KeyVersion::ONE", "KeyVersion::ZERO"},
   {"UrlInfo::AVAILABLE", "UrlInfo::UNAVAILABLE"}}

vanilla_Addon(w) ==
  Struct(
    Ints(<<1, 1>>)
    \o When(Is(w, "InfoBlock::AVAILABLE"),
            Ints(<<1>>) \o When(Is(w, "KeyVersion::ONE"), Ints(Repeat(256, 1))) \o Ints(<<4>>))
    \o Ints(<<1>>) \o When(Is(w, "UrlInfo::AVAILABLE"), Cstring(w)),
    2 * 1 + Bytes(Is(w, "InfoBlock::AVAILABLE"), 1 + Bytes(Is(w, "KeyVersion::ONE"), 256) + 4)
    + 1 + Bytes(Is(w, "UrlInfo::AVAILABLE"), write_cstring(w)),
    3 + Bytes(Is(w, "InfoBlock::AVAILABLE"), 5 + Bytes(Is(w, "KeyVersion::ONE"), 256))
    + Bytes(Is(w, "UrlInfo::AVAILABLE"), 1 + w.len))

vanilla_AddonInfo(w) ==
  Struct(Cstring(w) \o Ints(<<1, 4, 4>>), write_cstring(w) + 1 + 2 * 4, 10 + w.len)

vanilla_AuctionListItem ==
  PlainStruct(Repeat(7, 4) \o <<8, 4, 4, 4, 4, 8, 4>>, 7 * 4 + 8 + 4 * 4 + 8 + 4)

vanilla_AuraLogEnums ==
  {{"AuraType::PERIODIC_DAMAGE", "AuraType::PERIODIC_HEAL", "AuraType::OBS_MOD_MANA",
    "AuraType::PERIODIC_MANA_LEECH", "AuraType::NONE"}}

vanilla_AuraLog(w) ==
  Struct(
    Ints(<<4>>) \o When(Is(w, "AuraType::PERIODIC_DAMAGE"), Ints(<<4, 1, 4, 4>>))
    \o When(Is(w, "AuraType::PERIODIC_HEAL"), Ints(<<4>>))
    \o When(Is(w, "AuraType::OBS_MOD_MANA"), Ints(<<4, 4>>))
    \o When(Is(w, "AuraType::PERIODIC_MANA_LEECH"), Ints(<<4, 4, 4>>)),
    4 + Bytes(Is(w, "AuraType::PERIODIC_DAMAGE"), 4 + 1 + 2 * 4)
    + Bytes(Is(w, "AuraType::PERIODIC_HEAL"), 4) + Bytes(Is(w, "AuraType::OBS_MOD_MANA"), 2 * 4)
    + Bytes(Is(w, "AuraType::PERIODIC_MANA_LEECH"), 3 * 4),
    4 + Bytes(Is(w, "AuraType::PERIODIC_DAMAGE"), 13)
    + Bytes(Is(w, "AuraType::PERIODIC_HEAL"), 4) + Bytes(Is(w, "AuraType::OBS_MOD_MANA"), 8)
    + Bytes(Is(w, "AuraType::PERIODIC_MANA_LEECH"), 12))

vanilla_BattlegroundPlayer(w) ==
  Struct(
    Ints(<<8>> \o Repeat(6, 4) \o Repeat(w.count, 4)), 8 + 6 * 4 + w.count * 4, 32 + 4 * w.count)

vanilla_BattlegroundPlayerPosition == PlainStruct(<<8, 4, 4>>, 8 + 2 * 4)

vanilla_ChannelMember == PlainStruct(<<8, 1>>, 8 + 1)

vanilla_CharacterGear == PlainStruct(<<4, 1>>, 4 + 1)

vanilla_Character(w) ==
  Struct(
    Ints(<<8>>) \o Cstring(w) \o Ints(Repeat(9, 1) \o <<4, 4>>) \o Vector3d.read
    \o Ints(<<4, 4, 1, 4, 4, 4>>) \o Each(19, vanilla_CharacterGear.read) \o Ints(<<4, 1>>),
    8 + write_cstring(w) + 9 * 1 + 2 * 4 + Vector3d.written + 2 * 4 + 1 + 3 * 4
    + 19 * vanilla_CharacterGear.written + 4 + 1, 159 + w.len)

vanilla_MonsterMoveEnums ==
  {{"MonsterMoveType::FACING_TARGET", "MonsterMoveType::FACING_ANGLE",
    "MonsterMoveType::FACING_SPOT", "MonsterMoveType::NORMAL", "MonsterMoveType::STOP"}}

vanilla_MonsterMove(w) ==
  Struct(
    Vector3d.read \o Ints(<<4, 1>>) \o When(Is(w, "MonsterMoveType::FACING_TARGET"), Ints(<<8>>))
    \o When(Is(w, "MonsterMoveType::FACING_ANGLE"), Ints(<<4>>))
    \o When(Is(w, "MonsterMoveType::FACING_SPOT"), Vector3d.read)
    \o When(IsIn(w,
                 {"MonsterMoveType::NORMAL", "MonsterMoveType::FACING_SPOT",
                  "MonsterMoveType::FACING_TARGET", "MonsterMoveType::FACING_ANGLE"}),
            Ints(<<4, 4>>) \o MonsterMoveSpline(w)),
    Vector3d.written + 4 + 1 + Bytes(Is(w, "MonsterMoveType::FACING_TARGET"), 8)
    + Bytes(Is(w, "MonsterMoveType::FACING_ANGLE"), 4)
    + Bytes(Is(w, "MonsterMoveType::FACING_SPOT"), Vector3d.written)
    + Bytes(
        IsIn(w,
             {"MonsterMoveType::NORMAL", "MonsterMoveType::FACING_SPOT",
              "MonsterMoveType::FACING_TARGET", "MonsterMoveType::FACING_ANGLE"}),
        2 * 4 + wwm_write_monster_move_spline(w)),
    17 + Bytes(Is(w, "MonsterMoveType::FACING_TARGET"), 8)
    + Bytes(Is(w, "MonsterMoveType::FACING_ANGLE"), 4)
    + Bytes(Is(w, "MonsterMoveType::FACING_SPOT"), 12)
    + Bytes(
        IsIn(w,
             {"MonsterMoveType::NORMAL", "MonsterMoveType::FACING_SPOT",
              "MonsterMoveType::FACING_TARGET", "MonsterMoveType::FACING_ANGLE"}),
        8 + wwm_monster_move_spline_size(w)))

vanilla_CompressedMoveEnums ==
  vanilla_MonsterMoveEnums
  \union {{"CompressedMoveOpcode::SMSG_SPLINE_SET_RUN_SPEED",
           "CompressedMoveOpcode::SMSG_MONSTER_MOVE",
           "CompressedMoveOpcode::SMSG_MONSTER_MOVE_TRANSPORT",
           "CompressedMoveOpcode::SMSG_SPLINE_MOVE_UNROOT"}}

vanilla_CompressedMove(w) ==
  Struct(
    Ints(<<1, 2>>) \o PackedGuid(w)
    \o When(Is(w, "CompressedMoveOpcode::SMSG_SPLINE_SET_RUN_SPEED"), Ints(<<4>>))
    \o When(Is(w, "CompressedMoveOpcode::SMSG_MONSTER_MOVE"), vanilla_MonsterMove(w).read)
    \o When(Is(w, "CompressedMoveOpcode::SMSG_MONSTER_MOVE_TRANSPORT"),
            PackedGuid(w) \o vanilla_MonsterMove(w).read),
    1 + 2 + write_packed_guid(w)
    + Bytes(Is(w, "CompressedMoveOpcode::SMSG_SPLINE_SET_RUN_SPEED"), 4)
    + Bytes(Is(w, "CompressedMoveOpcode::SMSG_MONSTER_MOVE"), vanilla_MonsterMove(w).written)
    + Bytes(Is(w, "CompressedMoveOpcode::SMSG_MONSTER_MOVE_TRANSPORT"),
            write_packed_guid(w) + vanilla_MonsterMove(w).written),
    3 + wwm_packed_guid_size(w)
    + Bytes(Is(w, "CompressedMoveOpcode::SMSG_SPLINE_SET_RUN_SPEED"), 4)
    + Bytes(Is(w, "CompressedMoveOpcode::SMSG_MONSTER_MOVE"), vanilla_MonsterMove(w).size)
    + Bytes(Is(w, "CompressedMoveOpcode::SMSG_MONSTER_MOVE_TRANSPORT"),
            wwm_packed_guid_size(w) + vanilla_MonsterMove(w).size))

vanilla_CooldownSpell == PlainStruct(<<2, 2, 2, 4, 4>>, 3 * 2 + 2 * 4)

vanilla_DamageInfo == PlainStruct(Repeat(5, 4), 5 * 4)

vanilla_FactionInitializer == PlainStruct(<<1, 4>>, 1 + 4)

vanilla_FactionStanding == PlainStruct(<<2, 4>>, 2 + 4)

vanilla_ForcedReaction == PlainStruct(<<2, 4>>, 2 + 4)

vanilla_Friend(w) ==
  Struct(
    Ints(<<8, 1>>) \o When(Is(w, "FriendStatus::ONLINE"), Ints(<<4, 4, 4>>)),
    8 + 1 + Bytes(Is(w, "FriendStatus::ONLINE"), 3 * 4),
    9 + Bytes(Is(w, "FriendStatus::ONLINE"), 12))

vanilla_GmSurveyQuestion(w) ==
  Struct(Ints(<<4, 1>>) \o Cstring(w), 4 + 1 + write_cstring(w), 6 + w.len)

vanilla_GossipItem(w) ==
  Struct(Ints(<<4, 1, 1>>) \o Cstring(w), 4 + 2 * 1 + write_cstring(w), 7 + w.len)

vanilla_GroupListMember(w) ==
  Struct(Cstring(w) \o Ints(<<8, 1, 1>>), write_cstring(w) + 8 + 2 * 1, 11 + w.len)

vanilla_GuildMember(w) ==
  Struct(
    Ints(<<8, 1>>) \o Cstring(w) \o Ints(<<4, 1, 1, 4>>)
    \o When(Is(w, "GuildMemberStatus::OFFLINE"), Ints(<<4>>)) \o Cstring(w) \o Cstring(w),
    8 + 1 + write_cstring(w) + 4 + 2 * 1 + 4 + Bytes(Is(w, "GuildMemberStatus::OFFLINE"), 4)
    + 2 * write_cstring(w), 22 + 3 * w.len + Bytes(Is(w, "GuildMemberStatus::OFFLINE"), 4))

vanilla_InitialSpell == PlainStruct(<<2, 2>>, 2 * 2)

vanilla_ItemDamageType == PlainStruct(<<4, 4, 4>>, 3 * 4)

vanilla_ItemSpells == PlainStruct(Repeat(6, 4), 6 * 4)

vanilla_ItemStat == PlainStruct(<<4, 4>>, 2 * 4)

vanilla_ListInventoryItem == PlainStruct(Repeat(7, 4), 7 * 4)

vanilla_LootItem == PlainStruct(<<1, 4, 1>>, 1 + 4 + 1)

vanilla_MailEnums ==
  {{"MailType::NORMAL", "MailType::CREATURE", "MailType::AUCTION", "MailType::ITEM"}}

vanilla_Mail(w) ==
  Struct(
    Ints(<<4, 1>>) \o When(Is(w, "MailType::NORMAL"), Ints(<<8>>))
    \o When(Is(w, "MailType::CREATURE"), Ints(<<4>>))
    \o When(Is(w, "MailType::AUCTION"), Ints(<<4>>)) \o Cstring(w)
    \o Ints(Repeat(7, 4) \o <<1>> \o Repeat(8, 4)),
    4 + 1 + Bytes(Is(w, "MailType::NORMAL"), 8) + Bytes(Is(w, "MailType::CREATURE"), 4)
    + Bytes(Is(w, "MailType::AUCTION"), 4) + write_cstring(w) + 7 * 4 + 1 + 8 * 4,
    67 + w.len + Bytes(Is(w, "MailType::NORMAL"), 8) + Bytes(Is(w, "MailType::CREATURE"), 4)
    + Bytes(Is(w, "MailType::AUCTION"), 4))

vanilla_MovementBlockFlags ==
  {"UPDATE_FLAG_LIVING", "UPDATE_FLAG_HAS_POSITION", "UPDATE_FLAG_HIGH_GUID", "UPDATE_FLAG_ALL",
   "UPDATE_FLAG_MELEE_ATTACKING", "UPDATE_FLAG_TRANSPORT", "MOVEMENT_FLAGS_ON_TRANSPORT",
   "MOVEMENT_FLAGS_SWIMMING", "MOVEMENT_FLAGS_JUMPING", "MOVEMENT_FLAGS_SPLINE_ELEVATION",
   "MOVEMENT_FLAGS_SPLINE_ENABLED", "SPLINE_FLAG_FINAL_ANGLE", "SPLINE_FLAG_FINAL_TARGET",
   "SPLINE_FLAG_FINAL_POINT"}

vanilla_MovementBlock(w) ==
  Struct(
    Ints(<<1>>)
    \o When(
         Is(w, "UPDATE_FLAG_LIVING"),
         Ints(<<4, 4>>) \o Vector3d.read \o Ints(<<4>>)
         \o When(Is(w, "MOVEMENT_FLAGS_ON_TRANSPORT"),
                 PackedGuid(w) \o Vector3d.read \o Ints(<<4>>))
         \o When(Is(w, "MOVEMENT_FLAGS_SWIMMING"), Ints(<<4>>)) \o Ints(<<4>>)
         \o When(Is(w, "MOVEMENT_FLAGS_JUMPING"), Ints(<<4, 4, 4, 4>>))
         \o When(Is(w, "MOVEMENT_FLAGS_SPLINE_ELEVATION"), Ints(<<4>>)) \o Ints(Repeat(6, 4))
         \o When(
              Is(w, "MOVEMENT_FLAGS_SPLINE_ENABLED"),
              Ints(<<4>>) \o When(Is(w, "SPLINE_FLAG_FINAL_ANGLE"), Ints(<<4>>))
              \o When(~Is(w, "SPLINE_FLAG_FINAL_ANGLE") /\ Is(w, "SPLINE_FLAG_FINAL_TARGET"),
                      Ints(<<8>>))
              \o When(~Is(w, "SPLINE_FLAG_FINAL_ANGLE") /\ ~Is(w, "SPLINE_FLAG_FINAL_TARGET")
                      /\ Is(w, "SPLINE_FLAG_FINAL_POINT"), Vector3d.read) \o Ints(<<4, 4, 4, 4>>)
              \o Each(w.count, Vector3d.read) \o Vector3d.read))
    \o When(~Is(w, "UPDATE_FLAG_LIVING") /\ Is(w, "UPDATE_FLAG_HAS_POSITION"),
            Vector3d.read \o Ints(<<4>>)) \o When(Is(w, "UPDATE_FLAG_HIGH_GUID"), Ints(<<4>>))
    \o When(Is(w, "UPDATE_FLAG_ALL"), Ints(<<4>>))
    \o When(Is(w, "UPDATE_FLAG_MELEE_ATTACKING"), PackedGuid(w))
    \o When(Is(w, "UPDATE_FLAG_TRANSPORT"), Ints(<<4>>)),
    1
    + Bytes(
        Is(w, "UPDATE_FLAG_LIVING"),
        2 * 4 + Vector3d.written + 4
        + Bytes(
            Is(w, "MOVEMENT_FLAGS_ON_TRANSPORT"), write_packed_guid(w) + Vector3d.written + 4)
        + Bytes(Is(w, "MOVEMENT_FLAGS_SWIMMING"), 4) + 4
        + Bytes(Is(w, "MOVEMENT_FLAGS_JUMPING"), 4 * 4)
        + Bytes(Is(w, "MOVEMENT_FLAGS_SPLINE_ELEVATION"), 4) + 6 * 4
        + Bytes(
            Is(w, "MOVEMENT_FLAGS_SPLINE_ENABLED"),
            4 + Bytes(Is(w, "SPLINE_FLAG_FINAL_ANGLE"), 4)
            + Bytes(~Is(w, "SPLINE_FLAG_FINAL_ANGLE") /\ Is(w, "SPLINE_FLAG_FINAL_TARGET"), 8)
            + Bytes(~Is(w, "SPLINE_FLAG_FINAL_ANGLE") /\ ~Is(w, "SPLINE_FLAG_FINAL_TARGET")
                    /\ Is(w, "SPLINE_FLAG_FINAL_POINT"), Vector3d.written) + 4 * 4
            + w.count * Vector3d.written + Vector3d.written))
    + Bytes(
        ~Is(w, "UPDATE_FLAG_LIVING") /\ Is(w, "UPDATE_FLAG_HAS_POSITION"), Vector3d.written + 4)
    + Bytes(Is(w, "UPDATE_FLAG_HIGH_GUID"), 4) + Bytes(Is(w, "UPDATE_FLAG_ALL"), 4)
    + Bytes(Is(w, "UPDATE_FLAG_MELEE_ATTACKING"), write_packed_guid(w))
    + Bytes(Is(w, "UPDATE_FLAG_TRANSPORT"), 4),
    1
    + Bytes(
        Is(w, "UPDATE_FLAG_LIVING"),
        52 + Bytes(Is(w, "MOVEMENT_FLAGS_ON_TRANSPORT"), 16 + wwm_packed_guid_size(w))
        + Bytes(Is(w, "MOVEMENT_FLAGS_SWIMMING"), 4) + Bytes(Is(w, "MOVEMENT_FLAGS_JUMPING"), 16)
        + Bytes(Is(w, "MOVEMENT_FLAGS_SPLINE_ELEVATION"), 4)
        + Bytes(
            Is(w, "MOVEMENT_FLAGS_SPLINE_ENABLED"),
            32 + 12 * w.count + Bytes(Is(w, "SPLINE_FLAG_FINAL_ANGLE"), 4)
            + Bytes(~Is(w, "SPLINE_FLAG_FINAL_ANGLE") /\ Is(w, "SPLINE_FLAG_FINAL_TARGET"), 8)
            + Bytes(~Is(w, "SPLINE_FLAG_FINAL_ANGLE") /\ ~Is(w, "SPLINE_FLAG_FINAL_TARGET")
                    /\ Is(w, "SPLINE_FLAG_FINAL_POINT"), 12)))
    + Bytes(~Is(w, "UPDATE_FLAG_LIVING") /\ Is(w, "UPDATE_FLAG_HAS_POSITION"), 16)
    + Bytes(Is(w, "UPDATE_FLAG_HIGH_GUID"), 4) + Bytes(Is(w, "UPDATE_FLAG_ALL"), 4)
    + Bytes(Is(w, "UPDATE_FLAG_MELEE_ATTACKING"), wwm_packed_guid_size(w))
    + Bytes(Is(w, "UPDATE_FLAG_TRANSPORT"), 4))

vanilla_TransportInfo(w) ==
  Struct(PackedGuid(w) \o Vector3d.read \o Ints(<<4, 4>>),
         write_packed_guid(w) + Vector3d.written + 2 * 4, 20 + wwm_packed_guid_size(w))

vanilla_MovementInfoFlags ==
  {"MOVEMENT_FLAGS_ON_TRANSPORT", "MOVEMENT_FLAGS_SWIMMING", "MOVEMENT_FLAGS_JUMPING",
   "MOVEMENT_FLAGS_SPLINE_ELEVATION"}

vanilla_MovementInfo(w) ==
  Struct(
    Ints(<<4, 4>>) \o Vector3d.read \o Ints(<<4>>)
    \o When(Is(w, "MOVEMENT_FLAGS_ON_TRANSPORT"), vanilla_TransportInfo(w).read)
    \o When(Is(w, "MOVEMENT_FLAGS_SWIMMING"), Ints(<<4>>)) \o Ints(<<4>>)
    \o When(Is(w, "MOVEMENT_FLAGS_JUMPING"), Ints(<<4, 4, 4, 4>>))
    \o When(Is(w, "MOVEMENT_FLAGS_SPLINE_ELEVATION"), Ints(<<4>>)),
    2 * 4 + Vector3d.written + 4
    + Bytes(Is(w, "MOVEMENT_FLAGS_ON_TRANSPORT"), vanilla_TransportInfo(w).written)
    + Bytes(Is(w, "MOVEMENT_FLAGS_SWIMMING"), 4) + 4
    + Bytes(Is(w, "MOVEMENT_FLAGS_JUMPING"), 4 * 4)
    + Bytes(Is(w, "MOVEMENT_FLAGS_SPLINE_ELEVATION"), 4),
    28 + Bytes(Is(w, "MOVEMENT_FLAGS_ON_TRANSPORT"), vanilla_TransportInfo(w).size)
    + Bytes(Is(w, "MOVEMENT_FLAGS_SWIMMING"), 4) + Bytes(Is(w, "MOVEMENT_FLAGS_JUMPING"), 16)
    + Bytes(Is(w, "MOVEMENT_FLAGS_SPLINE_ELEVATION"), 4))

vanilla_NpcTextUpdateEmote == PlainStruct(<<4, 4>>, 2 * 4)

vanilla_NpcTextUpdate(w) ==
  Struct(
    Ints(<<4>>) \o Each(2, Cstring(w)) \o Ints(<<4>>) \o Each(3, vanilla_NpcTextUpdateEmote.read),
    4 + 2 * write_cstring(w) + 4 + 3 * vanilla_NpcTextUpdateEmote.written, 32 + 2 * (1 + w.len))

vanilla_ObjectEnums ==
  {{"UpdateType::VALUES", "UpdateType::MOVEMENT", "UpdateType::CREATE_OBJECT",
    "UpdateType::OUT_OF_RANGE_OBJECTS"}}

vanilla_ObjectFlags == vanilla_MovementBlockFlags

vanilla_Object(w) ==
  Struct(
    Ints(<<1>>) \o When(Is(w, "UpdateType::VALUES"), PackedGuid(w) \o UpdateMask(w))
    \o When(Is(w, "UpdateType::MOVEMENT"), PackedGuid(w) \o vanilla_MovementBlock(w).read)
    \o When(Is(w, "UpdateType::CREATE_OBJECT"),
            PackedGuid(w) \o Ints(<<1>>) \o vanilla_MovementBlock(w).read \o UpdateMask(w))
    \o When(
         Is(w, "UpdateType::OUT_OF_RANGE_OBJECTS"), Ints(<<4>>) \o Each(w.count, PackedGuid(w))),
    1 + Bytes(Is(w, "UpdateType::VALUES"), write_packed_guid(w) + update_mask_written(w))
    + Bytes(
        Is(w, "UpdateType::MOVEMENT"), write_packed_guid(w) + vanilla_MovementBlock(w).written)
    + Bytes(Is(w, "UpdateType::CREATE_OBJECT"),
            write_packed_guid(w) + 1 + vanilla_MovementBlock(w).written + update_mask_written(w))
    + Bytes(Is(w, "UpdateType::OUT_OF_RANGE_OBJECTS"), 4 + w.count * write_packed_guid(w)),
    1 + Bytes(Is(w, "UpdateType::VALUES"), wwm_packed_guid_size(w) + update_mask_size(w))
    + Bytes(
        Is(w, "UpdateType::MOVEMENT"), wwm_packed_guid_size(w) + vanilla_MovementBlock(w).size)
    + Bytes(Is(w, "UpdateType::CREATE_OBJECT"),
            1 + wwm_packed_guid_size(w) + vanilla_MovementBlock(w).size + update_mask_size(w))
    + Bytes(Is(w, "UpdateType::OUT_OF_RANGE_OBJECTS"), 4 + w.count * wwm_packed_guid_size(w)))

vanilla_PetSpellCooldown == PlainStruct(<<2, 2, 4, 4>>, 2 * 2 + 2 * 4)

vanilla_PetitionShowlist == PlainStruct(Repeat(5, 4), 5 * 4)

vanilla_PetitionSignature == PlainStruct(<<8, 4>>, 8 + 4)

vanilla_QuestDetailsEmote == PlainStruct(<<4, 4>>, 2 * 4)

vanilla_QuestItem(w) ==
  Struct(Ints(<<4, 4, 4>>) \o Cstring(w), 3 * 4 + write_cstring(w), 13 + w.len)

vanilla_QuestItemRequirement == PlainStruct(<<4, 4, 4>>, 3 * 4)

vanilla_QuestItemReward == PlainStruct(<<4, 4>>, 2 * 4)

vanilla_QuestObjective == PlainStruct(<<4, 4, 4, 4>>, 4 * 4)

vanilla_RaidInfo == PlainStruct(<<4, 4, 4>>, 3 * 4)

vanilla_RaidTargetUpdate == PlainStruct(<<1, 8>>, 1 + 8)

vanilla_SpellCastTargetsFlags ==
  {"SPELL_CAST_TARGET_FLAGS_UNIT", "SPELL_CAST_TARGET_FLAGS_GAMEOBJECT",
   "SPELL_CAST_TARGET_FLAGS_OBJECT_UNK", "SPELL_CAST_TARGET_FLAGS_ITEM",
   "SPELL_CAST_TARGET_FLAGS_TRADE_ITEM", "SPELL_CAST_TARGET_FLAGS_SOURCE_LOCATION",
   "SPELL_CAST_TARGET_FLAGS_DEST_LOCATION", "SPELL_CAST_TARGET_FLAGS_STRING",
   "SPELL_CAST_TARGET_FLAGS_CORPSE", "SPELL_CAST_TARGET_FLAGS_PVP_CORPSE"}

vanilla_SpellCastTargets(w) ==
  Struct(
    Ints(<<2>>) \o When(Is(w, "SPELL_CAST_TARGET_FLAGS_UNIT"), PackedGuid(w))
    \o When(Is(w, "SPELL_CAST_TARGET_FLAGS_GAMEOBJECT"), PackedGuid(w))
    \o When(~Is(w, "SPELL_CAST_TARGET_FLAGS_GAMEOBJECT")
            /\ Is(w, "SPELL_CAST_TARGET_FLAGS_OBJECT_UNK"), PackedGuid(w))
    \o When(Is(w, "SPELL_CAST_TARGET_FLAGS_ITEM"), PackedGuid(w))
    \o When(~Is(w, "SPELL_CAST_TARGET_FLAGS_ITEM") /\ Is(w, "SPELL_CAST_TARGET_FLAGS_TRADE_ITEM"),
            PackedGuid(w))
    \o When(Is(w, "SPELL_CAST_TARGET_FLAGS_SOURCE_LOCATION"), Vector3d.read)
    \o When(Is(w, "SPELL_CAST_TARGET_FLAGS_DEST_LOCATION"), Vector3d.read)
    \o When(Is(w, "SPELL_CAST_TARGET_FLAGS_STRING"), Cstring(w))
    \o When(Is(w, "SPELL_CAST_TARGET_FLAGS_CORPSE"), PackedGuid(w))
    \o When(~Is(w, "SPELL_CAST_TARGET_FLAGS_CORPSE")
            /\ Is(w, "SPELL_CAST_TARGET_FLAGS_PVP_CORPSE"), PackedGuid(w)),
    2 + Bytes(Is(w, "SPELL_CAST_TARGET_FLAGS_UNIT"), write_packed_guid(w))
    + Bytes(Is(w, "SPELL_CAST_TARGET_FLAGS_GAMEOBJECT"), write_packed_guid(w))
    + Bytes(~Is(w, "SPELL_CAST_TARGET_FLAGS_GAMEOBJECT")
            /\ Is(w, "SPELL_CAST_TARGET_FLAGS_OBJECT_UNK"), write_packed_guid(w))
    + Bytes(Is(w, "SPELL_CAST_TARGET_FLAGS_ITEM"), write_packed_guid(w))
    + Bytes(~Is(w, "SPELL_CAST_TARGET_FLAGS_ITEM") /\ Is(w, "SPELL_CAST_TARGET_FLAGS_TRADE_ITEM"),
            write_packed_guid(w))
    + Bytes(Is(w, "SPELL_CAST_TARGET_FLAGS_SOURCE_LOCATION"), Vector3d.written)
    + Bytes(Is(w, "SPELL_CAST_TARGET_FLAGS_DEST_LOCATION"), Vector3d.written)
    + Bytes(Is(w, "SPELL_CAST_TARGET_FLAGS_STRING"), write_cstring(w))
    + Bytes(Is(w, "SPELL_CAST_TARGET_FLAGS_CORPSE"), write_packed_guid(w))
    + Bytes(~Is(w, "SPELL_CAST_TARGET_FLAGS_CORPSE")
            /\ Is(w, "SPELL_CAST_TARGET_FLAGS_PVP_CORPSE"), write_packed_guid(w)),
    2 + Bytes(Is(w, "SPELL_CAST_TARGET_FLAGS_UNIT"), wwm_packed_guid_size(w))
    + Bytes(Is(w, "SPELL_CAST_TARGET_FLAGS_GAMEOBJECT"), wwm_packed_guid_size(w))
    + Bytes(~Is(w, "SPELL_CAST_TARGET_FLAGS_GAMEOBJECT")
            /\ Is(w, "SPELL_CAST_TARGET_FLAGS_OBJECT_UNK"), wwm_packed_guid_size(w))
    + Bytes(Is(w, "SPELL_CAST_TARGET_FLAGS_ITEM"), wwm_packed_guid_size(w))
    + Bytes(~Is(w, "SPELL_CAST_TARGET_FLAGS_ITEM") /\ Is(w, "SPELL_CAST_TARGET_FLAGS_TRADE_ITEM"),
            wwm_packed_guid_size(w))
    + Bytes(Is(w, "SPELL_CAST_TARGET_FLAGS_SOURCE_LOCATION"), 12)
    + Bytes(Is(w, "SPELL_CAST_TARGET_FLAGS_DEST_LOCATION"), 12)
    + Bytes(Is(w, "SPELL_CAST_TARGET_FLAGS_STRING"), 1 + w.len)
    + Bytes(Is(w, "SPELL_CAST_TARGET_FLAGS_CORPSE"), wwm_packed_guid_size(w))
    + Bytes(~Is(w, "SPELL_CAST_TARGET_FLAGS_CORPSE")
            /\ Is(w, "SPELL_CAST_TARGET_FLAGS_PVP_CORPSE"), wwm_packed_guid_size(w)))

vanilla_SpellCooldownStatus == PlainStruct(<<4, 4>>, 2 * 4)

vanilla_SpellLogEnums ==
  {{"SpellEffect::POWER_DRAIN", "SpellEffect::HEAL", "SpellEffect::ENERGIZE",
    "SpellEffect::ADD_EXTRA_ATTACKS", "SpellEffect::CREATE_ITEM", "SpellEffect::INTERRUPT_CAST",
    "SpellEffect::DURABILITY_DAMAGE", "SpellEffect::FEED_PET", "SpellEffect::INSTAKILL",
    "SpellEffect::NONE"}}

vanilla_SpellLog(w) ==
  Struct(
    Ints(<<4, 4>>) \o When(Is(w, "SpellEffect::POWER_DRAIN"), Ints(<<8, 4, 4, 4>>))
    \o When(Is(w, "SpellEffect::HEAL"), Ints(<<8, 4, 4>>))
    \o When(Is(w, "SpellEffect::ENERGIZE"), Ints(<<8, 4, 4>>))
    \o When(Is(w, "SpellEffect::ADD_EXTRA_ATTACKS"), Ints(<<8, 4>>))
    \o When(Is(w, "SpellEffect::CREATE_ITEM"), Ints(<<4>>))
    \o When(Is(w, "SpellEffect::INTERRUPT_CAST"), Ints(<<8, 4>>))
    \o When(Is(w, "SpellEffect::DURABILITY_DAMAGE"), Ints(<<8, 4, 4>>))
    \o When(Is(w, "SpellEffect::FEED_PET"), Ints(<<4>>))
    \o When(Is(w, "SpellEffect::INSTAKILL"), Ints(<<8>>)),
    2 * 4 + Bytes(Is(w, "SpellEffect::POWER_DRAIN"), 8 + 3 * 4)
    + Bytes(Is(w, "SpellEffect::HEAL"), 8 + 2 * 4)
    + Bytes(Is(w, "SpellEffect::ENERGIZE"), 8 + 2 * 4)
    + Bytes(Is(w, "SpellEffect::ADD_EXTRA_ATTACKS"), 8 + 4)
    + Bytes(Is(w, "SpellEffect::CREATE_ITEM"), 4)
    + Bytes(Is(w, "SpellEffect::INTERRUPT_CAST"), 8 + 4)
    + Bytes(Is(w, "SpellEffect::DURABILITY_DAMAGE"), 8 + 2 * 4)
    + Bytes(Is(w, "SpellEffect::FEED_PET"), 4) + Bytes(Is(w, "SpellEffect::INSTAKILL"), 8),
    8 + Bytes(Is(w, "SpellEffect::POWER_DRAIN"), 20) + Bytes(Is(w, "SpellEffect::HEAL"), 16)
    + Bytes(Is(w, "SpellEffect::ENERGIZE"), 16)
    + Bytes(Is(w, "SpellEffect::ADD_EXTRA_ATTACKS"), 12)
    + Bytes(Is(w, "SpellEffect::CREATE_ITEM"), 4)
    + Bytes(Is(w, "SpellEffect::INTERRUPT_CAST"), 12)
    + Bytes(Is(w, "SpellEffect::DURABILITY_DAMAGE"), 16)
    + Bytes(Is(w, "SpellEffect::FEED_PET"), 4) + Bytes(Is(w, "SpellEffect::INSTAKILL"), 8))

vanilla_SpellLogMiss == PlainStruct(<<8, 1>>, 8 + 1)

vanilla_SpellMiss == PlainStruct(<<8, 1>>, 8 + 1)

vanilla_StabledPet(w) ==
  Struct(Ints(<<4, 4, 4>>) \o Cstring(w) \o Ints(<<4, 1>>),
         3 * 4 + write_cstring(w) + 4 + 1, 18 + w.len)

vanilla_TradeSlot ==
  PlainStruct(<<1, 4, 4, 4, 4, 8, 4, 8>> \o Repeat(6, 4), 1 + 4 * 4 + 8 + 4 + 8 + 6 * 4)

vanilla_TrainerSpell ==
  PlainStruct(<<4, 1, 4, 4, 4, 1>> \o Repeat(5, 4), 4 + 1 + 3 * 4 + 1 + 2 * 4 + 3 * 4)

vanilla_WhoPlayer(w) ==
  Struct(Cstring(w) \o Cstring(w) \o Ints(<<4, 4, 4, 4>>),
         2 * write_cstring(w) + 4 * 4, 18 + 2 * w.len)

vanilla_WorldState == PlainStruct(<<4, 4>>, 2 * 4)

vanilla_MSG_PETITION_DECLINE == Struct(Ints(<<8>>), 8, 8)

vanilla_MSG_TABARDVENDOR_ACTIVATE == Struct(Ints(<<8>>), 8, 8)

vanilla_MSG_QUEST_PUSH_RESULT == Struct(Ints(<<8, 1>>), 8 + 1, 9)

vanilla_MSG_MOVE_WATER_WALKFlags == vanilla_MovementInfoFlags

vanilla_MSG_MOVE_WATER_WALK(w) ==
  Struct(
    PackedGuid(w) \o vanilla_MovementInfo(w).read,
    write_packed_guid(w) + vanilla_MovementInfo(w).written,
    wwm_packed_guid_size(w) + vanilla_MovementInfo(w).size)

vanilla_MSG_PETITION_RENAME(w) ==
  Struct(Ints(<<8>>) \o Cstring(w), 8 + write_cstring(w), 9 + w.len)
=============================================================================
