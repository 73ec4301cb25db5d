-------------------------- MODULE VanillaStructs --------------------------
(*****************************************************************************)
(* The structs of the 1.12 version of the world protocol: what the read,     *)
(* write, size and free functions of                                         *)
(* src/wow_world_messages_c/src/vanilla.c do with them, one definition for   *)
(* each struct, in the vocabulary of WorldFormat.                            *)
(*                                                                           *)
(* A struct is a record of what its functions do with it on one wire. Of     *)
(* its last two numbers the first adds up the calls of the write function,   *)
(* in their order, and the second is what the size function adds up.         *)
(*****************************************************************************)
EXTENDS WorldFormat

vanilla_aura_mask(w) == Mask(4, 2, w)
vanilla_aura_mask_written(w) == mask_written(4, 2, w)
vanilla_aura_mask_size(w) == mask_size(4, 2, w)

vanilla_AddonEnums ==
  {{"INFO_BLOCK_AVAILABLE", "INFO_BLOCK_UNAVAILABLE"}, {"KEY_VERSION_ONE", "KEY_VERSION_ZERO"},
   {"URL_INFO_AVAILABLE", "URL_INFO_UNAVAILABLE"}}

vanilla_Addon(w) ==
  Struct(
    FreeIf("url_info", {"URL_INFO_AVAILABLE"}, Free({"url"})),
    Minimum(3) \o Null({"url"}) \o Ints(<<1, 1>>)
    \o When(Is(w, "INFO_BLOCK_AVAILABLE"),
            Ints(<<1>>) \o When(Is(w, "KEY_VERSION_ONE"), Ints(Repeat(256, 1))) \o Ints(<<4>>))
    \o Field(1, "url_info", {}, w) \o When(Is(w, "URL_INFO_AVAILABLE"), Cstring("url", w)),
    2 * 1 + Bytes(Is(w, "INFO_BLOCK_AVAILABLE"), 1 + Bytes(Is(w, "KEY_VERSION_ONE"), 256) + 4)
    + 1 + Bytes(Is(w, "URL_INFO_AVAILABLE"), WRITE_CSTRING(w)),
    3 + Bytes(Is(w, "INFO_BLOCK_AVAILABLE"), 5 + Bytes(Is(w, "KEY_VERSION_ONE"), 256))
    + Bytes(Is(w, "URL_INFO_AVAILABLE"), 1 + w.len))

vanilla_AddonInfo(w) ==
  Struct(
    Free({"addon_name"}),
    Minimum(10) \o Null({"addon_name"}) \o Cstring("addon_name", w) \o Ints(<<1, 4, 4>>),
    WRITE_CSTRING(w) + 1 + 2 * 4, 10 + w.len)

vanilla_AuctionListItem ==
  PlainStruct(64, Repeat(7, 4) \o <<8, 4, 4, 4, 4, 8, 4>>, 7 * 4 + 8 + 4 * 4 + 8 + 4)

vanilla_AuraLogEnums ==
  {{"AURA_TYPE_PERIODIC_DAMAGE", "AURA_TYPE_PERIODIC_HEAL", "AURA_TYPE_OBS_MOD_MANA",
    "AURA_TYPE_PERIODIC_MANA_LEECH", "AURA_TYPE_NONE"}}

vanilla_AuraLog(w) ==
  Struct(
    {},
    Minimum(4) \o Ints(<<4>>) \o When(Is(w, "AURA_TYPE_PERIODIC_DAMAGE"), Ints(<<4, 1, 4, 4>>))
    \o When(Is(w, "AURA_TYPE_PERIODIC_HEAL"), Ints(<<4>>))
    \o When(Is(w, "AURA_TYPE_OBS_MOD_MANA"), Ints(<<4, 4>>))
    \o When(Is(w, "AURA_TYPE_PERIODIC_MANA_LEECH"), Ints(<<4, 4, 4>>)),
    4 + Bytes(Is(w, "AURA_TYPE_PERIODIC_DAMAGE"), 4 + 1 + 2 * 4)
    + Bytes(Is(w, "AURA_TYPE_PERIODIC_HEAL"), 4) + Bytes(Is(w, "AURA_TYPE_OBS_MOD_MANA"), 2 * 4)
    + Bytes(Is(w, "AURA_TYPE_PERIODIC_MANA_LEECH"), 3 * 4),
    4 + Bytes(Is(w, "AURA_TYPE_PERIODIC_DAMAGE"), 13)
    + Bytes(Is(w, "AURA_TYPE_PERIODIC_HEAL"), 4) + Bytes(Is(w, "AURA_TYPE_OBS_MOD_MANA"), 8)
    + Bytes(Is(w, "AURA_TYPE_PERIODIC_MANA_LEECH"), 12))

vanilla_BattlegroundPlayer(w) ==
  Struct(
    Free({"fields"}),
    Minimum(32) \o Null({"fields"}) \o Ints(<<8>> \o Repeat(6, 4))
    \o Calloc("fields", w.count, {}) \o Ints(Repeat(w.count, 4)),
    8 + 6 * 4 + w.count * 4, 32 + 4 * w.count)

vanilla_BattlegroundPlayerPosition == PlainStruct(16, <<8, 4, 4>>, 8 + 2 * 4)

vanilla_ChannelMember == PlainStruct(9, <<8, 1>>, 8 + 1)

vanilla_CharacterGear == PlainStruct(5, <<4, 1>>, 4 + 1)

vanilla_Character(w) ==
  Struct(
    Free({"name"}),
    Minimum(159) \o Null({"name"}) \o Ints(<<8>>) \o Cstring("name", w)
    \o Ints(Repeat(9, 1) \o <<4, 4>>) \o Vector3d.read \o Ints(<<4, 4, 1, 4, 4, 4>>)
    \o Each("equipment", 19, vanilla_CharacterGear.read) \o Ints(<<4, 1>>),
    8 + WRITE_CSTRING(w) + 9 * 1 + 2 * 4 + Vector3d.written + 2 * 4 + 1 + 3 * 4
    + 19 * vanilla_CharacterGear.written + 4 + 1, 159 + w.len)

vanilla_MonsterMoveEnums ==
  {{"MONSTER_MOVE_TYPE_FACING_TARGET", "MONSTER_MOVE_TYPE_FACING_ANGLE",
    "MONSTER_MOVE_TYPE_FACING_SPOT", "MONSTER_MOVE_TYPE_NORMAL", "MONSTER_MOVE_TYPE_STOP"}}

vanilla_MonsterMove(w) ==
  Struct(
    FreeIf(
      "move_type",
      {"MONSTER_MOVE_TYPE_NORMAL", "MONSTER_MOVE_TYPE_FACING_SPOT",
       "MONSTER_MOVE_TYPE_FACING_TARGET", "MONSTER_MOVE_TYPE_FACING_ANGLE"},
      FreeSpline("splines")),
    Minimum(17) \o At(<<"splines">>, Null({"splines"})) \o Vector3d.read \o Ints(<<4>>)
    \o Field(1, "move_type", {"MONSTER_MOVE_TYPE_NORMAL"}, w)
    \o When(Is(w, "MONSTER_MOVE_TYPE_FACING_TARGET"), Ints(<<8>>))
    \o When(Is(w, "MONSTER_MOVE_TYPE_FACING_ANGLE"), Ints(<<4>>))
    \o When(Is(w, "MONSTER_MOVE_TYPE_FACING_SPOT"), Vector3d.read)
    \o When(IsIn(w,
                 {"MONSTER_MOVE_TYPE_NORMAL", "MONSTER_MOVE_TYPE_FACING_SPOT",
                  "MONSTER_MOVE_TYPE_FACING_TARGET", "MONSTER_MOVE_TYPE_FACING_ANGLE"}),
            Ints(<<4, 4>>) \o MonsterMoveSpline("splines", w)),
    Vector3d.written + 4 + 1 + Bytes(Is(w, "MONSTER_MOVE_TYPE_FACING_TARGET"), 8)
    + Bytes(Is(w, "MONSTER_MOVE_TYPE_FACING_ANGLE"), 4)
    + Bytes(Is(w, "MONSTER_MOVE_TYPE_FACING_SPOT"), Vector3d.written)
    + Bytes(
        IsIn(w,
             {"MONSTER_MOVE_TYPE_NORMAL", "MONSTER_MOVE_TYPE_FACING_SPOT",
              "MONSTER_MOVE_TYPE_FACING_TARGET", "MONSTER_MOVE_TYPE_FACING_ANGLE"}),
        2 * 4 + WRITE_MONSTER_MOVE_SPLINE(w)),
    17 + Bytes(Is(w, "MONSTER_MOVE_TYPE_FACING_TARGET"), 8)
    + Bytes(Is(w, "MONSTER_MOVE_TYPE_FACING_ANGLE"), 4)
    + Bytes(Is(w, "MONSTER_MOVE_TYPE_FACING_SPOT"), 12)
    + Bytes(
        IsIn(w,
             {"MONSTER_MOVE_TYPE_NORMAL", "MONSTER_MOVE_TYPE_FACING_SPOT",
              "MONSTER_MOVE_TYPE_FACING_TARGET", "MONSTER_MOVE_TYPE_FACING_ANGLE"}),
        8 + wwm_monster_move_spline_size(w)))

vanilla_CompressedMoveEnums ==
  vanilla_MonsterMoveEnums
  \union {{"COMPRESSED_MOVE_OPCODE_SMSG_SPLINE_SET_RUN_SPEED",
           "COMPRESSED_MOVE_OPCODE_SMSG_MONSTER_MOVE",
           "COMPRESSED_MOVE_OPCODE_SMSG_MONSTER_MOVE_TRANSPORT",
           "COMPRESSED_MOVE_OPCODE_SMSG_SPLINE_MOVE_UNROOT"}}

vanilla_CompressedMove(w) ==
  Struct(
    FreeIf("opcode", {"COMPRESSED_MOVE_OPCODE_SMSG_MONSTER_MOVE"},
           FreeAt(<<"monster_move">>, vanilla_MonsterMove(w).free))
    \union FreeIf("opcode", {"COMPRESSED_MOVE_OPCODE_SMSG_MONSTER_MOVE_TRANSPORT"},
                  FreeAt(<<"monster_move_transport">>, vanilla_MonsterMove(w).free)),
    Minimum(4) \o Ints(<<1>>) \o Field(2, "opcode", {}, w) \o PackedGuid(w)
    \o When(Is(w, "COMPRESSED_MOVE_OPCODE_SMSG_SPLINE_SET_RUN_SPEED"), Ints(<<4>>))
    \o When(Is(w, "COMPRESSED_MOVE_OPCODE_SMSG_MONSTER_MOVE"),
            At(<<"monster_move">>, vanilla_MonsterMove(w).read))
    \o When(Is(w, "COMPRESSED_MOVE_OPCODE_SMSG_MONSTER_MOVE_TRANSPORT"),
            PackedGuid(w) \o At(<<"monster_move_transport">>, vanilla_MonsterMove(w).read)),
    1 + 2 + WRITE_PACKED_GUID(w)
    + Bytes(Is(w, "COMPRESSED_MOVE_OPCODE_SMSG_SPLINE_SET_RUN_SPEED"), 4)
    + Bytes(Is(w, "COMPRESSED_MOVE_OPCODE_SMSG_MONSTER_MOVE"), vanilla_MonsterMove(w).written)
    + Bytes(Is(w, "COMPRESSED_MOVE_OPCODE_SMSG_MONSTER_MOVE_TRANSPORT"),
            WRITE_PACKED_GUID(w) + vanilla_MonsterMove(w).written),
    3 + wwm_packed_guid_size(w)
    + Bytes(Is(w, "COMPRESSED_MOVE_OPCODE_SMSG_SPLINE_SET_RUN_SPEED"), 4)
    + Bytes(Is(w, "COMPRESSED_MOVE_OPCODE_SMSG_MONSTER_MOVE"), vanilla_MonsterMove(w).size)
    + Bytes(Is(w, "COMPRESSED_MOVE_OPCODE_SMSG_MONSTER_MOVE_TRANSPORT"),
            wwm_packed_guid_size(w) + vanilla_MonsterMove(w).size))

vanilla_CooldownSpell == PlainStruct(14, <<2, 2, 2, 4, 4>>, 3 * 2 + 2 * 4)

vanilla_DamageInfo == PlainStruct(20, Repeat(5, 4), 5 * 4)

vanilla_FactionInitializer == PlainStruct(5, <<1, 4>>, 1 + 4)

vanilla_FactionStanding == PlainStruct(6, <<2, 4>>, 2 + 4)

vanilla_ForcedReaction == PlainStruct(6, <<2, 4>>, 2 + 4)

vanilla_Friend(w) ==
  Struct(
    {}, Minimum(9) \o Ints(<<8, 1>>) \o When(Is(w, "FRIEND_STATUS_ONLINE"), Ints(<<4, 4, 4>>)),
    8 + 1 + Bytes(Is(w, "FRIEND_STATUS_ONLINE"), 3 * 4),
    9 + Bytes(Is(w, "FRIEND_STATUS_ONLINE"), 12))

vanilla_GmSurveyQuestion(w) ==
  Struct(
    Free({"comment"}), Minimum(6) \o Null({"comment"}) \o Ints(<<4, 1>>) \o Cstring("comment", w),
    4 + 1 + WRITE_CSTRING(w), 6 + w.len)

vanilla_GossipItem(w) ==
  Struct(
    Free({"message"}),
    Minimum(7) \o Null({"message"}) \o Ints(<<4, 1, 1>>) \o Cstring("message", w),
    4 + 2 * 1 + WRITE_CSTRING(w), 7 + w.len)

vanilla_GroupListMember(w) ==
  Struct(Free({"name"}), Minimum(11) \o Null({"name"}) \o Cstring("name", w) \o Ints(<<8, 1, 1>>),
         WRITE_CSTRING(w) + 8 + 2 * 1, 11 + w.len)

vanilla_GuildMember(w) ==
  Struct(
    Free({"name", "public_note", "officer_note"}),
    Minimum(22) \o Null({"name", "public_note", "officer_note"}) \o Ints(<<8, 1>>)
    \o Cstring("name", w) \o Ints(<<4, 1, 1, 4>>)
    \o When(Is(w, "GUILD_MEMBER_STATUS_OFFLINE"), Ints(<<4>>)) \o Cstring("public_note", w)
    \o Cstring("officer_note", w),
    8 + 1 + WRITE_CSTRING(w) + 4 + 2 * 1 + 4 + Bytes(Is(w, "GUILD_MEMBER_STATUS_OFFLINE"), 4)
    + 2 * WRITE_CSTRING(w), 22 + 3 * w.len + Bytes(Is(w, "GUILD_MEMBER_STATUS_OFFLINE"), 4))

vanilla_InitialSpell == PlainStruct(4, <<2, 2>>, 2 * 2)

vanilla_ItemDamageType == PlainStruct(12, <<4, 4, 4>>, 3 * 4)

vanilla_ItemSpells == PlainStruct(24, Repeat(6, 4), 6 * 4)

vanilla_ItemStat == PlainStruct(8, <<4, 4>>, 2 * 4)

vanilla_ListInventoryItem == PlainStruct(28, Repeat(7, 4), 7 * 4)

vanilla_LootItem == PlainStruct(6, <<1, 4, 1>>, 1 + 4 + 1)

vanilla_MailEnums ==
  {{"MAIL_TYPE_NORMAL", "MAIL_TYPE_CREATURE", "MAIL_TYPE_AUCTION", "MAIL_TYPE_ITEM"}}

vanilla_Mail(w) ==
  Struct(
    Free({"subject"}),
    Minimum(67) \o Null({"subject"}) \o Ints(<<4, 1>>)
    \o When(Is(w, "MAIL_TYPE_NORMAL"), Ints(<<8>>))
    \o When(Is(w, "MAIL_TYPE_CREATURE"), Ints(<<4>>))
    \o When(Is(w, "MAIL_TYPE_AUCTION"), Ints(<<4>>)) \o Cstring("subject", w)
    \o Ints(Repeat(7, 4) \o <<1>> \o Repeat(8, 4)),
    4 + 1 + Bytes(Is(w, "MAIL_TYPE_NORMAL"), 8) + Bytes(Is(w, "MAIL_TYPE_CREATURE"), 4)
    + Bytes(Is(w, "MAIL_TYPE_AUCTION"), 4) + WRITE_CSTRING(w) + 7 * 4 + 1 + 8 * 4,
    67 + w.len + Bytes(Is(w, "MAIL_TYPE_NORMAL"), 8) + Bytes(Is(w, "MAIL_TYPE_CREATURE"), 4)
    + Bytes(Is(w, "MAIL_TYPE_AUCTION"), 4))

vanilla_MovementBlockFlags ==
  {"UPDATE_FLAG_LIVING", "UPDATE_FLAG_HAS_POSITION", "UPDATE_FLAG_HIGH_GUID", "UPDATE_FLAG_ALL",
   "UPDATE_FLAG_MELEE_ATTACKING", "UPDATE_FLAG_TRANSPORT", "MOVEMENT_FLAGS_ON_TRANSPORT",
   "MOVEMENT_FLAGS_SWIMMING", "MOVEMENT_FLAGS_JUMPING", "MOVEMENT_FLAGS_SPLINE_ELEVATION",
   "MOVEMENT_FLAGS_SPLINE_ENABLED", "SPLINE_FLAG_FINAL_ANGLE", "SPLINE_FLAG_FINAL_TARGET",
   "SPLINE_FLAG_FINAL_POINT"}

vanilla_MovementBlock(w) ==
  Struct(
    FreeIf("update_flag", {"UPDATE_FLAG_LIVING"},
           FreeIf("flags", {"MOVEMENT_FLAGS_SPLINE_ENABLED"}, Free({"nodes"}))),
    Minimum(1) \o Null({"nodes"}) \o Field(1, "update_flag", {}, w)
    \o When(
         Is(w, "UPDATE_FLAG_LIVING"),
         Field(4, "flags", {}, w) \o Ints(<<4>>) \o Vector3d.read \o Ints(<<4>>)
         \o When(Is(w, "MOVEMENT_FLAGS_ON_TRANSPORT"),
                 PackedGuid(w) \o Vector3d.read \o Ints(<<4>>))
         \o When(Is(w, "MOVEMENT_FLAGS_SWIMMING"), Ints(<<4>>)) \o Ints(<<4>>)
         \o When(Is(w, "MOVEMENT_FLAGS_JUMPING"), Ints(<<4, 4, 4, 4>>))
         \o When(Is(w, "MOVEMENT_FLAGS_SPLINE_ELEVATION"), Ints(<<4>>)) \o Ints(Repeat(6, 4))
         \o When(
              Is(w, "MOVEMENT_FLAGS_SPLINE_ENABLED"),
              Ints(<<4>>) \o When(Is(w, "SPLINE_FLAG_FINAL_ANGLE"), Ints(<<4>>))
              \o When(~Is(w, "SPLINE_FLAG_FINAL_ANGLE") /\ Is(w, "SPLINE_FLAG_FINAL_TARGET"),
                      Ints(<<8>>))
              \o When(~Is(w, "SPLINE_FLAG_FINAL_ANGLE") /\ ~Is(w, "SPLINE_FLAG_FINAL_TARGET")
                      /\ Is(w, "SPLINE_FLAG_FINAL_POINT"), Vector3d.read) \o Ints(<<4, 4, 4, 4>>)
              \o Array("nodes", w.count, {}, Vector3d.read) \o Vector3d.read))
    \o When(~Is(w, "UPDATE_FLAG_LIVING") /\ Is(w, "UPDATE_FLAG_HAS_POSITION"),
            Vector3d.read \o Ints(<<4>>)) \o When(Is(w, "UPDATE_FLAG_HIGH_GUID"), Ints(<<4>>))
    \o When(Is(w, "UPDATE_FLAG_ALL"), Ints(<<4>>))
    \o When(Is(w, "UPDATE_FLAG_MELEE_ATTACKING"), PackedGuid(w))
    \o When(Is(w, "UPDATE_FLAG_TRANSPORT"), Ints(<<4>>)),
    1
    + Bytes(
        Is(w, "UPDATE_FLAG_LIVING"),
        2 * 4 + Vector3d.written + 4
        + Bytes(
            Is(w, "MOVEMENT_FLAGS_ON_TRANSPORT"), WRITE_PACKED_GUID(w) + Vector3d.written + 4)
        + Bytes(Is(w, "MOVEMENT_FLAGS_SWIMMING"), 4) + 4
        + Bytes(Is(w, "MOVEMENT_FLAGS_JUMPING"), 4 * 4)
        + Bytes(Is(w, "MOVEMENT_FLAGS_SPLINE_ELEVATION"), 4) + 6 * 4
        + Bytes(
            Is(w, "MOVEMENT_FLAGS_SPLINE_ENABLED"),
            4 + Bytes(Is(w, "SPLINE_FLAG_FINAL_ANGLE"), 4)
            + Bytes(~Is(w, "SPLINE_FLAG_FINAL_ANGLE") /\ Is(w, "SPLINE_FLAG_FINAL_TARGET"), 8)
            + Bytes(~Is(w, "SPLINE_FLAG_FINAL_ANGLE") /\ ~Is(w, "SPLINE_FLAG_FINAL_TARGET")
                    /\ Is(w, "SPLINE_FLAG_FINAL_POINT"), Vector3d.written) + 4 * 4
            + w.count * Vector3d.written + Vector3d.written))
    + Bytes(
        ~Is(w, "UPDATE_FLAG_LIVING") /\ Is(w, "UPDATE_FLAG_HAS_POSITION"), Vector3d.written + 4)
    + Bytes(Is(w, "UPDATE_FLAG_HIGH_GUID"), 4) + Bytes(Is(w, "UPDATE_FLAG_ALL"), 4)
    + Bytes(Is(w, "UPDATE_FLAG_MELEE_ATTACKING"), WRITE_PACKED_GUID(w))
    + Bytes(Is(w, "UPDATE_FLAG_TRANSPORT"), 4),
    1
    + Bytes(
        Is(w, "UPDATE_FLAG_LIVING"),
        52 + Bytes(Is(w, "MOVEMENT_FLAGS_ON_TRANSPORT"), 16 + wwm_packed_guid_size(w))
        + Bytes(Is(w, "MOVEMENT_FLAGS_SWIMMING"), 4) + Bytes(Is(w, "MOVEMENT_FLAGS_JUMPING"), 16)
        + Bytes(Is(w, "MOVEMENT_FLAGS_SPLINE_ELEVATION"), 4)
        + Bytes(
            Is(w, "MOVEMENT_FLAGS_SPLINE_ENABLED"),
            32 + 12 * w.count + Bytes(Is(w, "SPLINE_FLAG_FINAL_ANGLE"), 4)
            + Bytes(~Is(w, "SPLINE_FLAG_FINAL_ANGLE") /\ Is(w, "SPLINE_FLAG_FINAL_TARGET"), 8)
            + Bytes(~Is(w, "SPLINE_FLAG_FINAL_ANGLE") /\ ~Is(w, "SPLINE_FLAG_FINAL_TARGET")
                    /\ Is(w, "SPLINE_FLAG_FINAL_POINT"), 12)))
    + Bytes(~Is(w, "UPDATE_FLAG_LIVING") /\ Is(w, "UPDATE_FLAG_HAS_POSITION"), 16)
    + Bytes(Is(w, "UPDATE_FLAG_HIGH_GUID"), 4) + Bytes(Is(w, "UPDATE_FLAG_ALL"), 4)
    + Bytes(Is(w, "UPDATE_FLAG_MELEE_ATTACKING"), wwm_packed_guid_size(w))
    + Bytes(Is(w, "UPDATE_FLAG_TRANSPORT"), 4))

vanilla_TransportInfo(w) ==
  Struct({}, Minimum(21) \o PackedGuid(w) \o Vector3d.read \o Ints(<<4, 4>>),
         WRITE_PACKED_GUID(w) + Vector3d.written + 2 * 4, 20 + wwm_packed_guid_size(w))

vanilla_MovementInfoFlags ==
  {"MOVEMENT_FLAGS_ON_TRANSPORT", "MOVEMENT_FLAGS_SWIMMING", "MOVEMENT_FLAGS_JUMPING",
   "MOVEMENT_FLAGS_SPLINE_ELEVATION"}

vanilla_MovementInfo(w) ==
  Struct(
    {},
    Minimum(28) \o Ints(<<4, 4>>) \o Vector3d.read \o Ints(<<4>>)
    \o When(Is(w, "MOVEMENT_FLAGS_ON_TRANSPORT"), vanilla_TransportInfo(w).read)
    \o When(Is(w, "MOVEMENT_FLAGS_SWIMMING"), Ints(<<4>>)) \o Ints(<<4>>)
    \o When(Is(w, "MOVEMENT_FLAGS_JUMPING"), Ints(<<4, 4, 4, 4>>))
    \o When(Is(w, "MOVEMENT_FLAGS_SPLINE_ELEVATION"), Ints(<<4>>)),
    2 * 4 + Vector3d.written + 4
    + Bytes(Is(w, "MOVEMENT_FLAGS_ON_TRANSPORT"), vanilla_TransportInfo(w).written)
    + Bytes(Is(w, "MOVEMENT_FLAGS_SWIMMING"), 4) + 4
    + Bytes(Is(w, "MOVEMENT_FLAGS_JUMPING"), 4 * 4)
    + Bytes(Is(w, "MOVEMENT_FLAGS_SPLINE_ELEVATION"), 4),
    28 + Bytes(Is(w, "MOVEMENT_FLAGS_ON_TRANSPORT"), vanilla_TransportInfo(w).size)
    + Bytes(Is(w, "MOVEMENT_FLAGS_SWIMMING"), 4) + Bytes(Is(w, "MOVEMENT_FLAGS_JUMPING"), 16)
    + Bytes(Is(w, "MOVEMENT_FLAGS_SPLINE_ELEVATION"), 4))

vanilla_NpcTextUpdateEmote == PlainStruct(8, <<4, 4>>, 2 * 4)

vanilla_NpcTextUpdate(w) ==
  Struct(
    FreeFixed("texts", 2, Free({"text"})),
    Minimum(34) \o Each("texts", 2, Null({"text"})) \o Ints(<<4>>)
    \o Each("texts", 2, Cstring("text", w)) \o Ints(<<4>>)
    \o Each("emotes", 3, vanilla_NpcTextUpdateEmote.read),
    4 + 2 * WRITE_CSTRING(w) + 4 + 3 * vanilla_NpcTextUpdateEmote.written, 32 + 2 * (1 + w.len))

vanilla_ObjectEnums ==
  {{"UPDATE_TYPE_VALUES", "UPDATE_TYPE_MOVEMENT", "UPDATE_TYPE_CREATE_OBJECT",
    "UPDATE_TYPE_OUT_OF_RANGE_OBJECTS"}}

vanilla_ObjectFlags == vanilla_MovementBlockFlags

vanilla_Object(w) ==
  Struct(
    FreeIf("update_type", {"UPDATE_TYPE_MOVEMENT"},
           FreeAt(<<"movement1">>, vanilla_MovementBlock(w).free))
    \union FreeIf("update_type", {"UPDATE_TYPE_CREATE_OBJECT"},
                  FreeAt(<<"movement2">>, vanilla_MovementBlock(w).free))
    \union FreeIf("update_type", {"UPDATE_TYPE_OUT_OF_RANGE_OBJECTS"}, Free({"guids"})),
    Minimum(1) \o Null({"guids"}) \o Field(1, "update_type", {}, w)
    \o When(Is(w, "UPDATE_TYPE_VALUES"), PackedGuid(w) \o UpdateMask(w))
    \o When(Is(w, "UPDATE_TYPE_MOVEMENT"),
            PackedGuid(w) \o At(<<"movement1">>, vanilla_MovementBlock(w).read))
    \o When(Is(w, "UPDATE_TYPE_CREATE_OBJECT"),
            PackedGuid(w) \o Ints(<<1>>) \o At(<<"movement2">>, vanilla_MovementBlock(w).read)
            \o UpdateMask(w))
    \o When(Is(w, "UPDATE_TYPE_OUT_OF_RANGE_OBJECTS"),
            Ints(<<4>>) \o Calloc("guids", w.count, {})
            \o Ints(Repeat(w.count * wwm_packed_guid_size(w), 1))),
    1 + Bytes(Is(w, "UPDATE_TYPE_VALUES"), WRITE_PACKED_GUID(w) + update_mask_written(w))
    + Bytes(
        Is(w, "UPDATE_TYPE_MOVEMENT"), WRITE_PACKED_GUID(w) + vanilla_MovementBlock(w).written)
    + Bytes(Is(w, "UPDATE_TYPE_CREATE_OBJECT"),
            WRITE_PACKED_GUID(w) + 1 + vanilla_MovementBlock(w).written + update_mask_written(w))
    + Bytes(Is(w, "UPDATE_TYPE_OUT_OF_RANGE_OBJECTS"), 4 + w.count * WRITE_PACKED_GUID(w)),
    1 + Bytes(Is(w, "UPDATE_TYPE_VALUES"), wwm_packed_guid_size(w) + update_mask_size(w))
    + Bytes(
        Is(w, "UPDATE_TYPE_MOVEMENT"), wwm_packed_guid_size(w) + vanilla_MovementBlock(w).size)
    + Bytes(Is(w, "UPDATE_TYPE_CREATE_OBJECT"),
            1 + wwm_packed_guid_size(w) + vanilla_MovementBlock(w).size + update_mask_size(w))
    + Bytes(Is(w, "UPDATE_TYPE_OUT_OF_RANGE_OBJECTS"), 4 + w.count * wwm_packed_guid_size(w)))

vanilla_PetSpellCooldown == PlainStruct(12, <<2, 2, 4, 4>>, 2 * 2 + 2 * 4)

vanilla_PetitionShowlist == PlainStruct(20, Repeat(5, 4), 5 * 4)

vanilla_PetitionSignature == PlainStruct(12, <<8, 4>>, 8 + 4)

vanilla_QuestDetailsEmote == PlainStruct(8, <<4, 4>>, 2 * 4)

vanilla_QuestItem(w) ==
  Struct(
    Free({"title"}), Minimum(13) \o Null({"title"}) \o Ints(<<4, 4, 4>>) \o Cstring("title", w),
    3 * 4 + WRITE_CSTRING(w), 13 + w.len)

vanilla_QuestItemRequirement == PlainStruct(12, <<4, 4, 4>>, 3 * 4)

vanilla_QuestItemReward == PlainStruct(8, <<4, 4>>, 2 * 4)

vanilla_QuestObjective == PlainStruct(16, <<4, 4, 4, 4>>, 4 * 4)

vanilla_RaidInfo == PlainStruct(12, <<4, 4, 4>>, 3 * 4)

vanilla_RaidTargetUpdate == PlainStruct(9, <<1, 8>>, 1 + 8)

vanilla_SpellCastTargetsFlags ==
  {"SPELL_CAST_TARGET_FLAGS_UNIT", "SPELL_CAST_TARGET_FLAGS_GAMEOBJECT",
   "SPELL_CAST_TARGET_FLAGS_OBJECT_UNK", "SPELL_CAST_TARGET_FLAGS_ITEM",
   "SPELL_CAST_TARGET_FLAGS_TRADE_ITEM", "SPELL_CAST_TARGET_FLAGS_SOURCE_LOCATION",
   "SPELL_CAST_TARGET_FLAGS_DEST_LOCATION", "SPELL_CAST_TARGET_FLAGS_STRING",
   "SPELL_CAST_TARGET_FLAGS_CORPSE", "SPELL_CAST_TARGET_FLAGS_PVP_CORPSE"}

vanilla_SpellCastTargets(w) ==
  Struct(
    FreeIf("target_flags", {"SPELL_CAST_TARGET_FLAGS_STRING"}, Free({"target_string"})),
    Minimum(2) \o Null({"target_string"}) \o Field(2, "target_flags", {}, w)
    \o When(Is(w, "SPELL_CAST_TARGET_FLAGS_UNIT"), PackedGuid(w))
    \o When(Is(w, "SPELL_CAST_TARGET_FLAGS_GAMEOBJECT"), PackedGuid(w))
    \o When(~Is(w, "SPELL_CAST_TARGET_FLAGS_GAMEOBJECT")
            /\ Is(w, "SPELL_CAST_TARGET_FLAGS_OBJECT_UNK"), PackedGuid(w))
    \o When(Is(w, "SPELL_CAST_TARGET_FLAGS_ITEM"), PackedGuid(w))
    \o When(~Is(w, "SPELL_CAST_TARGET_FLAGS_ITEM") /\ Is(w, "SPELL_CAST_TARGET_FLAGS_TRADE_ITEM"),
            PackedGuid(w))
    \o When(Is(w, "SPELL_CAST_TARGET_FLAGS_SOURCE_LOCATION"), Vector3d.read)
    \o When(Is(w, "SPELL_CAST_TARGET_FLAGS_DEST_LOCATION"), Vector3d.read)
    \o When(Is(w, "SPELL_CAST_TARGET_FLAGS_STRING"), Cstring("target_string", w))
    \o When(Is(w, "SPELL_CAST_TARGET_FLAGS_CORPSE"), PackedGuid(w))
    \o When(~Is(w, "SPELL_CAST_TARGET_FLAGS_CORPSE")
            /\ Is(w, "SPELL_CAST_TARGET_FLAGS_PVP_CORPSE"), PackedGuid(w)),
    2 + Bytes(Is(w, "SPELL_CAST_TARGET_FLAGS_UNIT"), WRITE_PACKED_GUID(w))
    + Bytes(Is(w, "SPELL_CAST_TARGET_FLAGS_GAMEOBJECT"), WRITE_PACKED_GUID(w))
    + Bytes(~Is(w, "SPELL_CAST_TARGET_FLAGS_GAMEOBJECT")
            /\ Is(w, "SPELL_CAST_TARGET_FLAGS_OBJECT_UNK"), WRITE_PACKED_GUID(w))
    + Bytes(Is(w, "SPELL_CAST_TARGET_FLAGS_ITEM"), WRITE_PACKED_GUID(w))
    + Bytes(~Is(w, "SPELL_CAST_TARGET_FLAGS_ITEM") /\ Is(w, "SPELL_CAST_TARGET_FLAGS_TRADE_ITEM"),
            WRITE_PACKED_GUID(w))
    + Bytes(Is(w, "SPELL_CAST_TARGET_FLAGS_SOURCE_LOCATION"), Vector3d.written)
    + Bytes(Is(w, "SPELL_CAST_TARGET_FLAGS_DEST_LOCATION"), Vector3d.written)
    + Bytes(Is(w, "SPELL_CAST_TARGET_FLAGS_STRING"), WRITE_CSTRING(w))
    + Bytes(Is(w, "SPELL_CAST_TARGET_FLAGS_CORPSE"), WRITE_PACKED_GUID(w))
    + Bytes(~Is(w, "SPELL_CAST_TARGET_FLAGS_CORPSE")
            /\ Is(w, "SPELL_CAST_TARGET_FLAGS_PVP_CORPSE"), WRITE_PACKED_GUID(w)),
    2 + Bytes(Is(w, "SPELL_CAST_TARGET_FLAGS_UNIT"), wwm_packed_guid_size(w))
    + Bytes(Is(w, "SPELL_CAST_TARGET_FLAGS_GAMEOBJECT"), wwm_packed_guid_size(w))
    + Bytes(~Is(w, "SPELL_CAST_TARGET_FLAGS_GAMEOBJECT")
            /\ Is(w, "SPELL_CAST_TARGET_FLAGS_OBJECT_UNK"), wwm_packed_guid_size(w))
    + Bytes(Is(w, "SPELL_CAST_TARGET_FLAGS_ITEM"), wwm_packed_guid_size(w))
    + Bytes(~Is(w, "SPELL_CAST_TARGET_FLAGS_ITEM") /\ Is(w, "SPELL_CAST_TARGET_FLAGS_TRADE_ITEM"),
            wwm_packed_guid_size(w))
    + Bytes(Is(w, "SPELL_CAST_TARGET_FLAGS_SOURCE_LOCATION"), 12)
    + Bytes(Is(w, "SPELL_CAST_TARGET_FLAGS_DEST_LOCATION"), 12)
    + Bytes(Is(w, "SPELL_CAST_TARGET_FLAGS_STRING"), 1 + w.len)
    + Bytes(Is(w, "SPELL_CAST_TARGET_FLAGS_CORPSE"), wwm_packed_guid_size(w))
    + Bytes(~Is(w, "SPELL_CAST_TARGET_FLAGS_CORPSE")
            /\ Is(w, "SPELL_CAST_TARGET_FLAGS_PVP_CORPSE"), wwm_packed_guid_size(w)))

vanilla_SpellCooldownStatus == PlainStruct(8, <<4, 4>>, 2 * 4)

vanilla_SpellLogEnums ==
  {{"SPELL_EFFECT_POWER_DRAIN", "SPELL_EFFECT_HEAL", "SPELL_EFFECT_ENERGIZE",
    "SPELL_EFFECT_ADD_EXTRA_ATTACKS", "SPELL_EFFECT_CREATE_ITEM", "SPELL_EFFECT_INTERRUPT_CAST",
    "SPELL_EFFECT_DURABILITY_DAMAGE", "SPELL_EFFECT_FEED_PET", "SPELL_EFFECT_INSTAKILL",
    "SPELL_EFFECT_NONE"}}

vanilla_SpellLog(w) ==
  Struct(
    {},
    Minimum(8) \o Ints(<<4, 4>>) \o When(Is(w, "SPELL_EFFECT_POWER_DRAIN"), Ints(<<8, 4, 4, 4>>))
    \o When(Is(w, "SPELL_EFFECT_HEAL"), Ints(<<8, 4, 4>>))
    \o When(Is(w, "SPELL_EFFECT_ENERGIZE"), Ints(<<8, 4, 4>>))
    \o When(Is(w, "SPELL_EFFECT_ADD_EXTRA_ATTACKS"), Ints(<<8, 4>>))
    \o When(Is(w, "SPELL_EFFECT_CREATE_ITEM"), Ints(<<4>>))
    \o When(Is(w, "SPELL_EFFECT_INTERRUPT_CAST"), Ints(<<8, 4>>))
    \o When(Is(w, "SPELL_EFFECT_DURABILITY_DAMAGE"), Ints(<<8, 4, 4>>))
    \o When(Is(w, "SPELL_EFFECT_FEED_PET"), Ints(<<4>>))
    \o When(Is(w, "SPELL_EFFECT_INSTAKILL"), Ints(<<8>>)),
    2 * 4 + Bytes(Is(w, "SPELL_EFFECT_POWER_DRAIN"), 8 + 3 * 4)
    + Bytes(Is(w, "SPELL_EFFECT_HEAL"), 8 + 2 * 4)
    + Bytes(Is(w, "SPELL_EFFECT_ENERGIZE"), 8 + 2 * 4)
    + Bytes(Is(w, "SPELL_EFFECT_ADD_EXTRA_ATTACKS"), 8 + 4)
    + Bytes(Is(w, "SPELL_EFFECT_CREATE_ITEM"), 4)
    + Bytes(Is(w, "SPELL_EFFECT_INTERRUPT_CAST"), 8 + 4)
    + Bytes(Is(w, "SPELL_EFFECT_DURABILITY_DAMAGE"), 8 + 2 * 4)
    + Bytes(Is(w, "SPELL_EFFECT_FEED_PET"), 4) + Bytes(Is(w, "SPELL_EFFECT_INSTAKILL"), 8),
    8 + Bytes(Is(w, "SPELL_EFFECT_POWER_DRAIN"), 20) + Bytes(Is(w, "SPELL_EFFECT_HEAL"), 16)
    + Bytes(Is(w, "SPELL_EFFECT_ENERGIZE"), 16)
    + Bytes(Is(w, "SPELL_EFFECT_ADD_EXTRA_ATTACKS"), 12)
    + Bytes(Is(w, "SPELL_EFFECT_CREATE_ITEM"), 4)
    + Bytes(Is(w, "SPELL_EFFECT_INTERRUPT_CAST"), 12)
    + Bytes(Is(w, "SPELL_EFFECT_DURABILITY_DAMAGE"), 16)
    + Bytes(Is(w, "SPELL_EFFECT_FEED_PET"), 4) + Bytes(Is(w, "SPELL_EFFECT_INSTAKILL"), 8))

vanilla_SpellLogMiss == PlainStruct(9, <<8, 1>>, 8 + 1)

vanilla_SpellMiss == PlainStruct(9, <<8, 1>>, 8 + 1)

vanilla_StabledPet(w) ==
  Struct(
    Free({"name"}),
    Minimum(18) \o Null({"name"}) \o Ints(<<4, 4, 4>>) \o Cstring("name", w) \o Ints(<<4, 1>>),
    3 * 4 + WRITE_CSTRING(w) + 4 + 1, 18 + w.len)

vanilla_TradeSlot ==
  PlainStruct(61, <<1, 4, 4, 4, 4, 8, 4, 8>> \o Repeat(6, 4), 1 + 4 * 4 + 8 + 4 + 8 + 6 * 4)

vanilla_TrainerSpell ==
  PlainStruct(38, <<4, 1, 4, 4, 4, 1>> \o Repeat(5, 4), 4 + 1 + 3 * 4 + 1 + 2 * 4 + 3 * 4)

vanilla_WhoPlayer(w) ==
  Struct(
    Free({"name", "guild"}),
    Minimum(18) \o Null({"name", "guild"}) \o Cstring("name", w) \o Cstring("guild", w)
    \o Ints(<<4, 4, 4, 4>>), 2 * WRITE_CSTRING(w) + 4 * 4, 18 + 2 * w.len)

vanilla_WorldState == PlainStruct(8, <<4, 4>>, 2 * 4)

vanilla_MSG_PETITION_DECLINE == Struct({}, Minimum(8) \o Ints(<<8>>), 8, 8)

vanilla_MSG_TABARDVENDOR_ACTIVATE == Struct({}, Minimum(8) \o Ints(<<8>>), 8, 8)

vanilla_MSG_QUEST_PUSH_RESULT == Struct({}, Minimum(9) \o Ints(<<8, 1>>), 8 + 1, 9)

vanilla_MSG_MOVE_WATER_WALKFlags == vanilla_MovementInfoFlags

vanilla_MSG_MOVE_WATER_WALK(w) ==
  Struct(
    {}, Minimum(29) \o PackedGuid(w) \o vanilla_MovementInfo(w).read,
    WRITE_PACKED_GUID(w) + vanilla_MovementInfo(w).written,
    wwm_packed_guid_size(w) + vanilla_MovementInfo(w).size)

vanilla_MSG_PETITION_RENAME(w) ==
  Struct(
    Free({"new_name"}), Minimum(9) \o Null({"new_name"}) \o Ints(<<8>>) \o Cstring("new_name", w),
    8 + WRITE_CSTRING(w), 9 + w.len)
=============================================================================
