---------------------------- MODULE TbcStructs ----------------------------
(*****************************************************************************)
(* The structs of the 2.4.3 version of the world protocol: what the read,    *)
(* write, size and free functions of src/wow_world_messages_c/src/tbc.c do   *)
(* with them, one definition for each struct, in the vocabulary of           *)
(* WorldFormat.                                                              *)
(*                                                                           *)
(* A struct is a record of what its functions do with it on one wire. Of     *)
(* its last two numbers the first adds up the calls of the write function,   *)
(* in their order, and the second is what the size function adds up.         *)
(*****************************************************************************)
EXTENDS WorldFormat

tbc_AddonInfo(w) ==
  Struct(
    Free({"addon_name"}),
    Minimum(10) \o Null({"addon_name"}) \o Cstring("addon_name", w) \o Ints(<<1, 4, 4>>),
    WRITE_CSTRING(w) + 1 + 2 * 4, 10 + w.len)

tbc_ArenaTeamMember(w) ==
  Struct(
    Free({"name"}),
    Minimum(32) \o Null({"name"}) \o Ints(<<8, 1>>) \o Cstring("name", w)
    \o Ints(<<1, 1>> \o Repeat(5, 4)), 8 + 1 + WRITE_CSTRING(w) + 2 * 1 + 5 * 4, 32 + w.len)

tbc_AuctionEnchantment == PlainStruct(12, <<4, 4, 4>>, 3 * 4)

tbc_AuctionListItem ==
  FixedStruct(
    Minimum(136) \o Ints(<<4, 4>>) \o Each("enchantments", 6, tbc_AuctionEnchantment.read)
    \o Ints(Repeat(5, 4) \o <<8, 4, 4, 4, 4, 8, 4>>),
    2 * 4 + 6 * tbc_AuctionEnchantment.written + 5 * 4 + 8 + 4 * 4 + 8 + 4)

tbc_AuctionSort == PlainStruct(2, <<1, 1>>, 2 * 1)

tbc_Aura == PlainStruct(3, <<2, 1>>, 2 + 1)

tbc_aura_mask(w) == Ints(<<8>>) \o FlattenSeq(Repeat(w.len, tbc_Aura.read))
tbc_aura_mask_written(w) == mask_written(8, tbc_Aura.written, w)
tbc_aura_mask_size(w) == mask_size(8, 3, w)

tbc_AuraLogEnums ==
  {{"AURA_TYPE_PERIODIC_DAMAGE", "AURA_TYPE_PERIODIC_HEAL", "AURA_TYPE_OBS_MOD_MANA",
    "AURA_TYPE_PERIODIC_MANA_LEECH", "AURA_TYPE_NONE"}}

tbc_AuraLog(w) ==
  Struct(
    {},
    Minimum(4) \o Ints(<<4>>) \o When(Is(w, "AURA_TYPE_PERIODIC_DAMAGE"), Ints(<<4, 1, 4, 4>>))
    \o When(Is(w, "AURA_TYPE_PERIODIC_HEAL"), Ints(<<4>>))
    \o When(Is(w, "AURA_TYPE_OBS_MOD_MANA"), Ints(<<4, 4>>))
    \o When(Is(w, "AURA_TYPE_PERIODIC_MANA_LEECH"), Ints(<<4, 4, 4>>)),
    4 + Bytes(Is(w, "AURA_TYPE_PERIODIC_DAMAGE"), 4 + 1 + 2 * 4)
    + Bytes(Is(w, "AURA_TYPE_PERIODIC_HEAL"), 4) + Bytes(Is(w, "AURA_TYPE_OBS_MOD_MANA"), 2 * 4)
    + Bytes(Is(w, "AURA_TYPE_PERIODIC_MANA_LEECH"), 3 * 4),
    4 + Bytes(Is(w, "AURA_TYPE_PERIODIC_DAMAGE"), 13)
    + Bytes(Is(w, "AURA_TYPE_PERIODIC_HEAL"), 4) + Bytes(Is(w, "AURA_TYPE_OBS_MOD_MANA"), 8)
    + Bytes(Is(w, "AURA_TYPE_PERIODIC_MANA_LEECH"), 12))

tbc_BankTab == PlainStruct(8, <<4, 4>>, 2 * 4)

tbc_BattlegroundPlayerPosition == PlainStruct(16, <<8, 4, 4>>, 8 + 2 * 4)

tbc_ChannelMember == PlainStruct(9, <<8, 1>>, 8 + 1)

tbc_CharacterGear == PlainStruct(9, <<4, 1, 4>>, 4 + 1 + 4)

tbc_Character(w) ==
  Struct(
    Free({"name"}),
    Minimum(239) \o Null({"name"}) \o Ints(<<8>>) \o Cstring("name", w)
    \o Ints(Repeat(9, 1) \o <<4, 4>>) \o Vector3d.read \o Ints(<<4, 4, 1, 4, 4, 4>>)
    \o Each("equipment", 20, tbc_CharacterGear.read),
    8 + WRITE_CSTRING(w) + 9 * 1 + 2 * 4 + Vector3d.written + 2 * 4 + 1 + 3 * 4
    + 20 * tbc_CharacterGear.written, 239 + w.len)

tbc_CooldownSpell == PlainStruct(14, <<2, 2, 2, 4, 4>>, 3 * 2 + 2 * 4)

tbc_DamageInfo == PlainStruct(20, Repeat(5, 4), 5 * 4)

tbc_DispelledSpell == PlainStruct(5, <<4, 1>>, 4 + 1)

tbc_FactionInitializer == PlainStruct(5, <<1, 4>>, 1 + 4)

tbc_FactionStanding == PlainStruct(6, <<2, 4>>, 2 + 4)

tbc_ForcedReaction == PlainStruct(6, <<2, 4>>, 2 + 4)

tbc_GmSurveyQuestion(w) ==
  Struct(
    Free({"comment"}), Minimum(6) \o Null({"comment"}) \o Ints(<<4, 1>>) \o Cstring("comment", w),
    4 + 1 + WRITE_CSTRING(w), 6 + w.len)

tbc_GossipItem(w) ==
  Struct(
    Free({"message", "accept_text"}),
    Minimum(12) \o Null({"message", "accept_text"}) \o Ints(<<4, 1, 1, 4>>)
    \o Cstring("message", w) \o Cstring("accept_text", w),
    4 + 2 * 1 + 4 + 2 * WRITE_CSTRING(w), 12 + 2 * w.len)

tbc_GroupListMember(w) ==
  Struct(
    Free({"name"}), Minimum(12) \o Null({"name"}) \o Cstring("name", w) \o Ints(<<8, 1, 1, 1>>),
    WRITE_CSTRING(w) + 8 + 3 * 1, 12 + w.len)

tbc_GuildBankRights == PlainStruct(8, <<4, 4>>, 2 * 4)

tbc_GuildBankSocket == PlainStruct(5, <<1, 4>>, 1 + 4)

tbc_GuildBankSlot(w) ==
  Struct(
    Free({"sockets"}),
    Minimum(16) \o Null({"sockets"}) \o Ints(<<1, 4>>) \o VariableItemRandomProperty(w).read
    \o Ints(<<1, 4, 1, 1>>) \o Array("sockets", w.count, {}, tbc_GuildBankSocket.read),
    1 + 4 + VariableItemRandomProperty(w).written + 1 + 4 + 2 * 1
    + w.count * tbc_GuildBankSocket.written,
    12 + VariableItemRandomProperty(w).size + 5 * w.count)

tbc_GuildBankTab(w) ==
  Struct(
    Free({"tab_name", "tab_icon"}),
    Minimum(2) \o Null({"tab_name", "tab_icon"}) \o Cstring("tab_name", w)
    \o Cstring("tab_icon", w), 2 * WRITE_CSTRING(w), 2 + 2 * w.len)

tbc_GuildLogEvent(w) ==
  Struct(
    {},
    Minimum(13) \o Ints(<<1, 8>>) \o When(Is(w, "GUILD_EVENT_JOINED"), Ints(<<8>>))
    \o When(Is(w, "GUILD_EVENT_PROMOTION"), Ints(<<1>>)) \o Ints(<<4>>),
    1 + 8 + Bytes(Is(w, "GUILD_EVENT_JOINED"), 8) + Bytes(Is(w, "GUILD_EVENT_PROMOTION"), 1) + 4,
    13 + Bytes(Is(w, "GUILD_EVENT_JOINED"), 8) + Bytes(Is(w, "GUILD_EVENT_PROMOTION"), 1))

tbc_GuildMember(w) ==
  Struct(
    Free({"name", "public_note", "officer_note"}),
    Minimum(23) \o Null({"name", "public_note", "officer_note"}) \o Ints(<<8, 1>>)
    \o Cstring("name", w) \o Ints(<<4, 1, 1, 1, 4>>)
    \o When(Is(w, "GUILD_MEMBER_STATUS_OFFLINE"), Ints(<<4>>)) \o Cstring("public_note", w)
    \o Cstring("officer_note", w),
    8 + 1 + WRITE_CSTRING(w) + 4 + 3 * 1 + 4 + Bytes(Is(w, "GUILD_MEMBER_STATUS_OFFLINE"), 4)
    + 2 * WRITE_CSTRING(w), 23 + 3 * w.len + Bytes(Is(w, "GUILD_MEMBER_STATUS_OFFLINE"), 4))

tbc_GuildRights ==
  FixedStruct(
    Minimum(56) \o Ints(<<4, 4>>) \o Each("bank_tab_rights", 6, tbc_GuildBankRights.read),
    2 * 4 + 6 * tbc_GuildBankRights.written)

tbc_InitialSpell == PlainStruct(4, <<2, 2>>, 2 * 2)

tbc_ItemDamageType == PlainStruct(12, <<4, 4, 4>>, 3 * 4)

tbc_ItemSocket == PlainStruct(8, <<4, 4>>, 2 * 4)

tbc_ItemSpells == PlainStruct(24, Repeat(6, 4), 6 * 4)

tbc_ItemStat == PlainStruct(8, <<4, 4>>, 2 * 4)

tbc_LfgData == PlainStruct(4, <<2, 2>>, 2 * 2)

tbc_LfgPlayerMember(w) ==
  Struct({}, Minimum(5) \o PackedGuid(w) \o Ints(<<4>>),
         WRITE_PACKED_GUID(w) + 4, 4 + wwm_packed_guid_size(w))

tbc_LfgPlayer(w) ==
  Struct(
    Free({"comment", "members"}),
    Minimum(27) \o Null({"comment", "members"}) \o PackedGuid(w) \o Ints(<<4, 4, 1, 4, 4, 4>>)
    \o Cstring("comment", w) \o Ints(<<4>>)
    \o Array("members", w.count, {}, tbc_LfgPlayerMember(w).read),
    WRITE_PACKED_GUID(w) + 2 * 4 + 1 + 3 * 4 + WRITE_CSTRING(w) + 4
    + w.count * tbc_LfgPlayerMember(w).written,
    26 + w.len + wwm_packed_guid_size(w) + w.count * tbc_LfgPlayerMember(w).size)

tbc_ListInventoryItem == PlainStruct(32, Repeat(8, 4), 8 * 4)

tbc_LootItem == PlainStruct(6, <<1, 4, 1>>, 1 + 4 + 1)

tbc_MailListItemEnchant == PlainStruct(12, <<4, 4, 4>>, 3 * 4)

tbc_MailListItem ==
  FixedStruct(
    Minimum(102) \o Ints(<<1, 4, 4>>) \o Each("enchants", 6, tbc_MailListItemEnchant.read)
    \o Ints(<<4, 4, 1, 4, 4, 4>>),
    1 + 2 * 4 + 6 * tbc_MailListItemEnchant.written + 2 * 4 + 1 + 3 * 4)

tbc_MailEnums ==
  {{"MAIL_TYPE_NORMAL", "MAIL_TYPE_CREATURE", "MAIL_TYPE_AUCTION", "MAIL_TYPE_ITEM"}}

tbc_Mail(w) ==
  Struct(
    Free({"subject", "items"}),
    Minimum(41) \o Null({"subject", "items"}) \o Ints(<<2, 4, 1>>)
    \o When(Is(w, "MAIL_TYPE_NORMAL"), Ints(<<8>>))
    \o When(Is(w, "MAIL_TYPE_CREATURE"), Ints(<<4>>))
    \o When(Is(w, "MAIL_TYPE_AUCTION"), Ints(<<4>>))
    \o When(Is(w, "MAIL_TYPE_ITEM"), Ints(<<4>>)) \o Ints(Repeat(8, 4)) \o Cstring("subject", w)
    \o Ints(<<1>>) \o Array("items", w.count, {}, tbc_MailListItem.read),
    2 + 4 + 1 + Bytes(Is(w, "MAIL_TYPE_NORMAL"), 8) + Bytes(Is(w, "MAIL_TYPE_CREATURE"), 4)
    + Bytes(Is(w, "MAIL_TYPE_AUCTION"), 4) + Bytes(Is(w, "MAIL_TYPE_ITEM"), 4) + 8 * 4
    + WRITE_CSTRING(w) + 1 + w.count * tbc_MailListItem.written,
    41 + w.len + 102 * w.count + Bytes(Is(w, "MAIL_TYPE_NORMAL"), 8)
    + Bytes(Is(w, "MAIL_TYPE_CREATURE"), 4) + Bytes(Is(w, "MAIL_TYPE_AUCTION"), 4)
    + Bytes(Is(w, "MAIL_TYPE_ITEM"), 4))

tbc_MailItem == PlainStruct(9, <<8, 1>>, 8 + 1)

tbc_MoneyLogItem == PlainStruct(17, <<1, 8, 4, 4>>, 1 + 8 + 2 * 4)

tbc_TransportInfo(w) ==
  Struct({}, Minimum(21) \o PackedGuid(w) \o Vector3d.read \o Ints(<<4, 4>>),
         WRITE_PACKED_GUID(w) + Vector3d.written + 2 * 4, 20 + wwm_packed_guid_size(w))

tbc_MovementBlockFlags ==
  {"UPDATE_FLAG_LIVING", "UPDATE_FLAG_HAS_POSITION", "UPDATE_FLAG_HIGH_GUID", "UPDATE_FLAG_ALL",
   "UPDATE_FLAG_MELEE_ATTACKING", "UPDATE_FLAG_TRANSPORT", "MOVEMENT_FLAGS_ON_TRANSPORT",
   "MOVEMENT_FLAGS_SWIMMING", "MOVEMENT_FLAGS_ONTRANSPORT", "MOVEMENT_FLAGS_JUMPING",
   "MOVEMENT_FLAGS_SPLINE_ELEVATION", "MOVEMENT_FLAGS_SPLINE_ENABLED", "SPLINE_FLAG_FINAL_ANGLE",
   "SPLINE_FLAG_FINAL_TARGET", "SPLINE_FLAG_FINAL_POINT"}

tbc_MovementBlock(w) ==
  Struct(
    FreeIf("update_flag", {"UPDATE_FLAG_LIVING"},
           FreeIf("flags", {"MOVEMENT_FLAGS_SPLINE_ENABLED"}, Free({"nodes"}))),
    Minimum(1) \o Null({"nodes"}) \o Field(1, "update_flag", {}, w)
    \o When(
         Is(w, "UPDATE_FLAG_LIVING"),
         Field(4, "flags", {}, w) \o Ints(<<1, 4>>) \o Vector3d.read \o Ints(<<4>>)
         \o When(Is(w, "MOVEMENT_FLAGS_ON_TRANSPORT"), tbc_TransportInfo(w).read)
         \o When(Is(w, "MOVEMENT_FLAGS_SWIMMING"), Ints(<<4>>))
         \o When(~Is(w, "MOVEMENT_FLAGS_SWIMMING") /\ Is(w, "MOVEMENT_FLAGS_ONTRANSPORT"),
                 Ints(<<4>>)) \o Ints(<<4>>)
         \o When(Is(w, "MOVEMENT_FLAGS_JUMPING"), Ints(<<4, 4, 4, 4>>))
         \o When(Is(w, "MOVEMENT_FLAGS_SPLINE_ELEVATION"), Ints(<<4>>)) \o Ints(Repeat(8, 4))
         \o When(
              Is(w, "MOVEMENT_FLAGS_SPLINE_ENABLED"),
              Ints(<<4>>) \o When(Is(w, "SPLINE_FLAG_FINAL_ANGLE"), Ints(<<4>>))
              \o When(~Is(w, "SPLINE_FLAG_FINAL_ANGLE") /\ Is(w, "SPLINE_FLAG_FINAL_TARGET"),
                      Ints(<<8>>))
              \o When(~Is(w, "SPLINE_FLAG_FINAL_ANGLE") /\ ~Is(w, "SPLINE_FLAG_FINAL_TARGET")
                      /\ Is(w, "SPLINE_FLAG_FINAL_POINT"), Vector3d.read) \o Ints(<<4, 4, 4, 4>>)
              \o Array("nodes", w.count, {}, Vector3d.read) \o Vector3d.read))
    \o When(~Is(w, "UPDATE_FLAG_LIVING") /\ Is(w, "UPDATE_FLAG_HAS_POSITION"),
            Vector3d.read \o Ints(<<4>>)) \o When(Is(w, "UPDATE_FLAG_HIGH_GUID"), Ints(<<4, 4>>))
    \o When(Is(w, "UPDATE_FLAG_ALL"), Ints(<<4>>))
    \o When(Is(w, "UPDATE_FLAG_MELEE_ATTACKING"), PackedGuid(w))
    \o When(Is(w, "UPDATE_FLAG_TRANSPORT"), Ints(<<4>>)),
    1
    + Bytes(
        Is(w, "UPDATE_FLAG_LIVING"),
        4 + 1 + 4 + Vector3d.written + 4
        + Bytes(Is(w, "MOVEMENT_FLAGS_ON_TRANSPORT"), tbc_TransportInfo(w).written)
        + Bytes(Is(w, "MOVEMENT_FLAGS_SWIMMING"), 4)
        + Bytes(~Is(w, "MOVEMENT_FLAGS_SWIMMING") /\ Is(w, "MOVEMENT_FLAGS_ONTRANSPORT"), 4) + 4
        + Bytes(Is(w, "MOVEMENT_FLAGS_JUMPING"), 4 * 4)
        + Bytes(Is(w, "MOVEMENT_FLAGS_SPLINE_ELEVATION"), 4) + 8 * 4
        + Bytes(
            Is(w, "MOVEMENT_FLAGS_SPLINE_ENABLED"),
            4 + Bytes(Is(w, "SPLINE_FLAG_FINAL_ANGLE"), 4)
            + Bytes(~Is(w, "SPLINE_FLAG_FINAL_ANGLE") /\ Is(w, "SPLINE_FLAG_FINAL_TARGET"), 8)
            + Bytes(~Is(w, "SPLINE_FLAG_FINAL_ANGLE") /\ ~Is(w, "SPLINE_FLAG_FINAL_TARGET")
                    /\ Is(w, "SPLINE_FLAG_FINAL_POINT"), Vector3d.written) + 4 * 4
            + w.count * Vector3d.written + Vector3d.written))
    + Bytes(
        ~Is(w, "UPDATE_FLAG_LIVING") /\ Is(w, "UPDATE_FLAG_HAS_POSITION"), Vector3d.written + 4)
    + Bytes(Is(w, "UPDATE_FLAG_HIGH_GUID"), 2 * 4) + Bytes(Is(w, "UPDATE_FLAG_ALL"), 4)
    + Bytes(Is(w, "UPDATE_FLAG_MELEE_ATTACKING"), WRITE_PACKED_GUID(w))
    + Bytes(Is(w, "UPDATE_FLAG_TRANSPORT"), 4),
    1
    + Bytes(
        Is(w, "UPDATE_FLAG_LIVING"),
        61 + Bytes(Is(w, "MOVEMENT_FLAGS_ON_TRANSPORT"), tbc_TransportInfo(w).size)
        + Bytes(Is(w, "MOVEMENT_FLAGS_SWIMMING"), 4)
        + Bytes(~Is(w, "MOVEMENT_FLAGS_SWIMMING") /\ Is(w, "MOVEMENT_FLAGS_ONTRANSPORT"), 4)
        + Bytes(Is(w, "MOVEMENT_FLAGS_JUMPING"), 16)
        + Bytes(Is(w, "MOVEMENT_FLAGS_SPLINE_ELEVATION"), 4)
        + Bytes(
            Is(w, "MOVEMENT_FLAGS_SPLINE_ENABLED"),
            32 + 12 * w.count + Bytes(Is(w, "SPLINE_FLAG_FINAL_ANGLE"), 4)
            + Bytes(~Is(w, "SPLINE_FLAG_FINAL_ANGLE") /\ Is(w, "SPLINE_FLAG_FINAL_TARGET"), 8)
            + Bytes(~Is(w, "SPLINE_FLAG_FINAL_ANGLE") /\ ~Is(w, "SPLINE_FLAG_FINAL_TARGET")
                    /\ Is(w, "SPLINE_FLAG_FINAL_POINT"), 12)))
    + Bytes(~Is(w, "UPDATE_FLAG_LIVING") /\ Is(w, "UPDATE_FLAG_HAS_POSITION"), 16)
    + Bytes(Is(w, "UPDATE_FLAG_HIGH_GUID"), 8) + Bytes(Is(w, "UPDATE_FLAG_ALL"), 4)
    + Bytes(Is(w, "UPDATE_FLAG_MELEE_ATTACKING"), wwm_packed_guid_size(w))
    + Bytes(Is(w, "UPDATE_FLAG_TRANSPORT"), 4))

tbc_MovementInfoFlags ==
  {"MOVEMENT_FLAGS_ON_TRANSPORT", "MOVEMENT_FLAGS_SWIMMING", "MOVEMENT_FLAGS_ONTRANSPORT",
   "MOVEMENT_FLAGS_JUMPING", "MOVEMENT_FLAGS_SPLINE_ELEVATION"}

tbc_MovementInfo(w) ==
  Struct(
    {},
    Minimum(29) \o Ints(<<4, 1, 4>>) \o Vector3d.read \o Ints(<<4>>)
    \o When(Is(w, "MOVEMENT_FLAGS_ON_TRANSPORT"), tbc_TransportInfo(w).read)
    \o When(Is(w, "MOVEMENT_FLAGS_SWIMMING"), Ints(<<4>>))
    \o When(
         ~Is(w, "MOVEMENT_FLAGS_SWIMMING") /\ Is(w, "MOVEMENT_FLAGS_ONTRANSPORT"), Ints(<<4>>))
    \o Ints(<<4>>) \o When(Is(w, "MOVEMENT_FLAGS_JUMPING"), Ints(<<4, 4, 4, 4>>))
    \o When(Is(w, "MOVEMENT_FLAGS_SPLINE_ELEVATION"), Ints(<<4>>)),
    4 + 1 + 4 + Vector3d.written + 4
    + Bytes(Is(w, "MOVEMENT_FLAGS_ON_TRANSPORT"), tbc_TransportInfo(w).written)
    + Bytes(Is(w, "MOVEMENT_FLAGS_SWIMMING"), 4)
    + Bytes(~Is(w, "MOVEMENT_FLAGS_SWIMMING") /\ Is(w, "MOVEMENT_FLAGS_ONTRANSPORT"), 4) + 4
    + Bytes(Is(w, "MOVEMENT_FLAGS_JUMPING"), 4 * 4)
    + Bytes(Is(w, "MOVEMENT_FLAGS_SPLINE_ELEVATION"), 4),
    29 + Bytes(Is(w, "MOVEMENT_FLAGS_ON_TRANSPORT"), tbc_TransportInfo(w).size)
    + Bytes(Is(w, "MOVEMENT_FLAGS_SWIMMING"), 4)
    + Bytes(~Is(w, "MOVEMENT_FLAGS_SWIMMING") /\ Is(w, "MOVEMENT_FLAGS_ONTRANSPORT"), 4)
    + Bytes(Is(w, "MOVEMENT_FLAGS_JUMPING"), 16)
    + Bytes(Is(w, "MOVEMENT_FLAGS_SPLINE_ELEVATION"), 4))

tbc_NpcTextUpdateEmote == PlainStruct(8, <<4, 4>>, 2 * 4)

tbc_NpcTextUpdate(w) ==
  Struct(
    FreeFixed("texts", 2, Free({"text"})),
    Minimum(31) \o Each("texts", 2, Null({"text"})) \o Ints(<<4>>)
    \o Each("texts", 2, Cstring("text", w)) \o Ints(<<1>>)
    \o Each("emotes", 3, tbc_NpcTextUpdateEmote.read),
    4 + 2 * WRITE_CSTRING(w) + 1 + 3 * tbc_NpcTextUpdateEmote.written, 29 + 2 * (1 + w.len))

tbc_ObjectEnums ==
  {{"UPDATE_TYPE_VALUES", "UPDATE_TYPE_MOVEMENT", "UPDATE_TYPE_CREATE_OBJECT",
    "UPDATE_TYPE_OUT_OF_RANGE_OBJECTS"}}

tbc_ObjectFlags == tbc_MovementBlockFlags

tbc_Object(w) ==
  Struct(
    FreeIf("update_type", {"UPDATE_TYPE_MOVEMENT"},
           FreeAt(<<"movement1">>, tbc_MovementBlock(w).free))
    \union FreeIf("update_type", {"UPDATE_TYPE_CREATE_OBJECT"},
                  FreeAt(<<"movement2">>, tbc_MovementBlock(w).free))
    \union FreeIf("update_type", {"UPDATE_TYPE_OUT_OF_RANGE_OBJECTS"}, Free({"guids"})),
    Minimum(1) \o Null({"guids"}) \o Field(1, "update_type", {}, w)
    \o When(Is(w, "UPDATE_TYPE_VALUES"), PackedGuid(w) \o UpdateMask(w))
    \o When(Is(w, "UPDATE_TYPE_MOVEMENT"),
            PackedGuid(w) \o At(<<"movement1">>, tbc_MovementBlock(w).read))
    \o When(Is(w, "UPDATE_TYPE_CREATE_OBJECT"),
            PackedGuid(w) \o Ints(<<1>>) \o At(<<"movement2">>, tbc_MovementBlock(w).read)
            \o UpdateMask(w))
    \o When(Is(w, "UPDATE_TYPE_OUT_OF_RANGE_OBJECTS"),
            Ints(<<4>>) \o Calloc("guids", w.count, {})
            \o Ints(Repeat(w.count * wwm_packed_guid_size(w), 1))),
    1 + Bytes(Is(w, "UPDATE_TYPE_VALUES"), WRITE_PACKED_GUID(w) + update_mask_written(w))
    + Bytes(Is(w, "UPDATE_TYPE_MOVEMENT"), WRITE_PACKED_GUID(w) + tbc_MovementBlock(w).written)
    + Bytes(Is(w, "UPDATE_TYPE_CREATE_OBJECT"),
            WRITE_PACKED_GUID(w) + 1 + tbc_MovementBlock(w).written + update_mask_written(w))
    + Bytes(Is(w, "UPDATE_TYPE_OUT_OF_RANGE_OBJECTS"), 4 + w.count * WRITE_PACKED_GUID(w)),
    1 + Bytes(Is(w, "UPDATE_TYPE_VALUES"), wwm_packed_guid_size(w) + update_mask_size(w))
    + Bytes(Is(w, "UPDATE_TYPE_MOVEMENT"), wwm_packed_guid_size(w) + tbc_MovementBlock(w).size)
    + Bytes(Is(w, "UPDATE_TYPE_CREATE_OBJECT"),
            1 + wwm_packed_guid_size(w) + tbc_MovementBlock(w).size + update_mask_size(w))
    + Bytes(Is(w, "UPDATE_TYPE_OUT_OF_RANGE_OBJECTS"), 4 + w.count * wwm_packed_guid_size(w)))

tbc_PetSpellCooldown == PlainStruct(12, <<2, 2, 4, 4>>, 2 * 2 + 2 * 4)

tbc_PetitionShowlist == PlainStruct(24, Repeat(6, 4), 6 * 4)

tbc_PetitionSignature == PlainStruct(12, <<8, 4>>, 8 + 4)

tbc_QuestDetailsEmote == PlainStruct(8, <<4, 4>>, 2 * 4)

tbc_QuestGiverStatusReport == PlainStruct(9, <<8, 1>>, 8 + 1)

tbc_QuestItem(w) ==
  Struct(
    Free({"title"}), Minimum(13) \o Null({"title"}) \o Ints(<<4, 4, 4>>) \o Cstring("title", w),
    3 * 4 + WRITE_CSTRING(w), 13 + w.len)

tbc_QuestItemRequirement == PlainStruct(12, <<4, 4, 4>>, 3 * 4)

tbc_QuestItemReward == PlainStruct(8, <<4, 4>>, 2 * 4)

tbc_QuestObjective == PlainStruct(16, <<4, 4, 4, 4>>, 4 * 4)

tbc_RaidInfo == PlainStruct(16, <<4, 4, 4, 4>>, 4 * 4)

tbc_RaidTargetUpdate == PlainStruct(9, <<1, 8>>, 1 + 8)

tbc_ReceivedMail == PlainStruct(24, <<8, 4, 4, 4, 4>>, 8 + 4 * 4)

tbc_Relation(w) ==
  Struct(
    Free({"note"}),
    Minimum(13) \o Null({"note"}) \o Ints(<<8, 4>>) \o Cstring("note", w)
    \o When(Is(w, "RELATION_TYPE_FRIEND"),
            Ints(<<1>>) \o When(Is(w, "FRIEND_STATUS_ONLINE"), Ints(<<4, 4, 4>>))),
    8 + 4 + WRITE_CSTRING(w)
    + Bytes(Is(w, "RELATION_TYPE_FRIEND"), 1 + Bytes(Is(w, "FRIEND_STATUS_ONLINE"), 3 * 4)),
    13 + w.len
    + Bytes(Is(w, "RELATION_TYPE_FRIEND"), 1 + Bytes(Is(w, "FRIEND_STATUS_ONLINE"), 12)))

tbc_SpellCastTargetsFlags ==
  {"SPELL_CAST_TARGET_FLAGS_UNIT", "SPELL_CAST_TARGET_FLAGS_UNIT_MINIPET",
   "SPELL_CAST_TARGET_FLAGS_UNIT_ENEMY", "SPELL_CAST_TARGET_FLAGS_GAMEOBJECT",
   "SPELL_CAST_TARGET_FLAGS_LOCKED", "SPELL_CAST_TARGET_FLAGS_ITEM",
   "SPELL_CAST_TARGET_FLAGS_TRADE_ITEM", "SPELL_CAST_TARGET_FLAGS_SOURCE_LOCATION",
   "SPELL_CAST_TARGET_FLAGS_DEST_LOCATION", "SPELL_CAST_TARGET_FLAGS_STRING",
   "SPELL_CAST_TARGET_FLAGS_CORPSE_ALLY", "SPELL_CAST_TARGET_FLAGS_CORPSE_ENEMY"}

tbc_SpellCastTargets(w) ==
  Struct(
    FreeIf("target_flags", {"SPELL_CAST_TARGET_FLAGS_STRING"}, Free({"target_string"})),
    Minimum(4) \o Null({"target_string"}) \o Field(4, "target_flags", {}, w)
    \o When(Is(w, "SPELL_CAST_TARGET_FLAGS_UNIT"), PackedGuid(w))
    \o When(~Is(w, "SPELL_CAST_TARGET_FLAGS_UNIT")
            /\ Is(w, "SPELL_CAST_TARGET_FLAGS_UNIT_MINIPET"), PackedGuid(w))
    \o When(
         ~Is(w, "SPELL_CAST_TARGET_FLAGS_UNIT") /\ ~Is(w, "SPELL_CAST_TARGET_FLAGS_UNIT_MINIPET")
         /\ Is(w, "SPELL_CAST_TARGET_FLAGS_UNIT_ENEMY"), PackedGuid(w))
    \o When(Is(w, "SPELL_CAST_TARGET_FLAGS_GAMEOBJECT"), PackedGuid(w))
    \o When(~Is(w, "SPELL_CAST_TARGET_FLAGS_GAMEOBJECT")
            /\ Is(w, "SPELL_CAST_TARGET_FLAGS_LOCKED"), PackedGuid(w))
    \o When(Is(w, "SPELL_CAST_TARGET_FLAGS_ITEM"), PackedGuid(w))
    \o When(~Is(w, "SPELL_CAST_TARGET_FLAGS_ITEM") /\ Is(w, "SPELL_CAST_TARGET_FLAGS_TRADE_ITEM"),
            PackedGuid(w))
    \o When(Is(w, "SPELL_CAST_TARGET_FLAGS_SOURCE_LOCATION"), Vector3d.read)
    \o When(Is(w, "SPELL_CAST_TARGET_FLAGS_DEST_LOCATION"), Vector3d.read)
    \o When(Is(w, "SPELL_CAST_TARGET_FLAGS_STRING"), Cstring("target_string", w))
    \o When(Is(w, "SPELL_CAST_TARGET_FLAGS_CORPSE_ALLY"), PackedGuid(w))
    \o When(~Is(w, "SPELL_CAST_TARGET_FLAGS_CORPSE_ALLY")
            /\ Is(w, "SPELL_CAST_TARGET_FLAGS_CORPSE_ENEMY"), PackedGuid(w)),
    4 + Bytes(Is(w, "SPELL_CAST_TARGET_FLAGS_UNIT"), WRITE_PACKED_GUID(w))
    + Bytes(~Is(w, "SPELL_CAST_TARGET_FLAGS_UNIT")
            /\ Is(w, "SPELL_CAST_TARGET_FLAGS_UNIT_MINIPET"), WRITE_PACKED_GUID(w))
    + Bytes(
        ~Is(w, "SPELL_CAST_TARGET_FLAGS_UNIT") /\ ~Is(w, "SPELL_CAST_TARGET_FLAGS_UNIT_MINIPET")
        /\ Is(w, "SPELL_CAST_TARGET_FLAGS_UNIT_ENEMY"), WRITE_PACKED_GUID(w))
    + Bytes(Is(w, "SPELL_CAST_TARGET_FLAGS_GAMEOBJECT"), WRITE_PACKED_GUID(w))
    + Bytes(~Is(w, "SPELL_CAST_TARGET_FLAGS_GAMEOBJECT")
            /\ Is(w, "SPELL_CAST_TARGET_FLAGS_LOCKED"), WRITE_PACKED_GUID(w))
    + Bytes(Is(w, "SPELL_CAST_TARGET_FLAGS_ITEM"), WRITE_PACKED_GUID(w))
    + Bytes(~Is(w, "SPELL_CAST_TARGET_FLAGS_ITEM") /\ Is(w, "SPELL_CAST_TARGET_FLAGS_TRADE_ITEM"),
            WRITE_PACKED_GUID(w))
    + Bytes(Is(w, "SPELL_CAST_TARGET_FLAGS_SOURCE_LOCATION"), Vector3d.written)
    + Bytes(Is(w, "SPELL_CAST_TARGET_FLAGS_DEST_LOCATION"), Vector3d.written)
    + Bytes(Is(w, "SPELL_CAST_TARGET_FLAGS_STRING"), WRITE_CSTRING(w))
    + Bytes(Is(w, "SPELL_CAST_TARGET_FLAGS_CORPSE_ALLY"), WRITE_PACKED_GUID(w))
    + Bytes(~Is(w, "SPELL_CAST_TARGET_FLAGS_CORPSE_ALLY")
            /\ Is(w, "SPELL_CAST_TARGET_FLAGS_CORPSE_ENEMY"), WRITE_PACKED_GUID(w)),
    4 + Bytes(Is(w, "SPELL_CAST_TARGET_FLAGS_UNIT"), wwm_packed_guid_size(w))
    + Bytes(~Is(w, "SPELL_CAST_TARGET_FLAGS_UNIT")
            /\ Is(w, "SPELL_CAST_TARGET_FLAGS_UNIT_MINIPET"), wwm_packed_guid_size(w))
    + Bytes(
        ~Is(w, "SPELL_CAST_TARGET_FLAGS_UNIT") /\ ~Is(w, "SPELL_CAST_TARGET_FLAGS_UNIT_MINIPET")
        /\ Is(w, "SPELL_CAST_TARGET_FLAGS_UNIT_ENEMY"), wwm_packed_guid_size(w))
    + Bytes(Is(w, "SPELL_CAST_TARGET_FLAGS_GAMEOBJECT"), wwm_packed_guid_size(w))
    + Bytes(~Is(w, "SPELL_CAST_TARGET_FLAGS_GAMEOBJECT")
            /\ Is(w, "SPELL_CAST_TARGET_FLAGS_LOCKED"), wwm_packed_guid_size(w))
    + Bytes(Is(w, "SPELL_CAST_TARGET_FLAGS_ITEM"), wwm_packed_guid_size(w))
    + Bytes(~Is(w, "SPELL_CAST_TARGET_FLAGS_ITEM") /\ Is(w, "SPELL_CAST_TARGET_FLAGS_TRADE_ITEM"),
            wwm_packed_guid_size(w))
    + Bytes(Is(w, "SPELL_CAST_TARGET_FLAGS_SOURCE_LOCATION"), 12)
    + Bytes(Is(w, "SPELL_CAST_TARGET_FLAGS_DEST_LOCATION"), 12)
    + Bytes(Is(w, "SPELL_CAST_TARGET_FLAGS_STRING"), 1 + w.len)
    + Bytes(Is(w, "SPELL_CAST_TARGET_FLAGS_CORPSE_ALLY"), wwm_packed_guid_size(w))
    + Bytes(~Is(w, "SPELL_CAST_TARGET_FLAGS_CORPSE_ALLY")
            /\ Is(w, "SPELL_CAST_TARGET_FLAGS_CORPSE_ENEMY"), wwm_packed_guid_size(w)))

tbc_SpellCooldownStatus == PlainStruct(8, <<4, 4>>, 2 * 4)

tbc_SpellLogEnums ==
  {{"SPELL_EFFECT_POWER_DRAIN", "SPELL_EFFECT_ADD_EXTRA_ATTACKS", "SPELL_EFFECT_INTERRUPT_CAST",
    "SPELL_EFFECT_DURABILITY_DAMAGE", "SPELL_EFFECT_OPEN_LOCK", "SPELL_EFFECT_CREATE_ITEM",
    "SPELL_EFFECT_SUMMON", "SPELL_EFFECT_FEED_PET", "SPELL_EFFECT_DISMISS_PET",
    "SPELL_EFFECT_NONE"}}

tbc_SpellLog(w) ==
  Struct(
    {},
    Minimum(8) \o Ints(<<4, 4>>)
    \o When(Is(w, "SPELL_EFFECT_POWER_DRAIN"), PackedGuid(w) \o Ints(<<4, 4, 4>>))
    \o When(Is(w, "SPELL_EFFECT_ADD_EXTRA_ATTACKS"), PackedGuid(w) \o Ints(<<4>>))
    \o When(Is(w, "SPELL_EFFECT_INTERRUPT_CAST"), PackedGuid(w) \o Ints(<<4>>))
    \o When(Is(w, "SPELL_EFFECT_DURABILITY_DAMAGE"), PackedGuid(w) \o Ints(<<4, 4>>))
    \o When(Is(w, "SPELL_EFFECT_OPEN_LOCK"), PackedGuid(w))
    \o When(Is(w, "SPELL_EFFECT_CREATE_ITEM"), Ints(<<4>>))
    \o When(Is(w, "SPELL_EFFECT_SUMMON"), PackedGuid(w))
    \o When(Is(w, "SPELL_EFFECT_FEED_PET"), PackedGuid(w))
    \o When(Is(w, "SPELL_EFFECT_DISMISS_PET"), PackedGuid(w)),
    2 * 4 + Bytes(Is(w, "SPELL_EFFECT_POWER_DRAIN"), WRITE_PACKED_GUID(w) + 3 * 4)
    + Bytes(Is(w, "SPELL_EFFECT_ADD_EXTRA_ATTACKS"), WRITE_PACKED_GUID(w) + 4)
    + Bytes(Is(w, "SPELL_EFFECT_INTERRUPT_CAST"), WRITE_PACKED_GUID(w) + 4)
    + Bytes(Is(w, "SPELL_EFFECT_DURABILITY_DAMAGE"), WRITE_PACKED_GUID(w) + 2 * 4)
    + Bytes(Is(w, "SPELL_EFFECT_OPEN_LOCK"), WRITE_PACKED_GUID(w))
    + Bytes(Is(w, "SPELL_EFFECT_CREATE_ITEM"), 4)
    + Bytes(Is(w, "SPELL_EFFECT_SUMMON"), WRITE_PACKED_GUID(w))
    + Bytes(Is(w, "SPELL_EFFECT_FEED_PET"), WRITE_PACKED_GUID(w))
    + Bytes(Is(w, "SPELL_EFFECT_DISMISS_PET"), WRITE_PACKED_GUID(w)),
    8 + Bytes(Is(w, "SPELL_EFFECT_POWER_DRAIN"), 12 + wwm_packed_guid_size(w))
    + Bytes(Is(w, "SPELL_EFFECT_ADD_EXTRA_ATTACKS"), 4 + wwm_packed_guid_size(w))
    + Bytes(Is(w, "SPELL_EFFECT_INTERRUPT_CAST"), 4 + wwm_packed_guid_size(w))
    + Bytes(Is(w, "SPELL_EFFECT_DURABILITY_DAMAGE"), 8 + wwm_packed_guid_size(w))
    + Bytes(Is(w, "SPELL_EFFECT_OPEN_LOCK"), wwm_packed_guid_size(w))
    + Bytes(Is(w, "SPELL_EFFECT_CREATE_ITEM"), 4)
    + Bytes(Is(w, "SPELL_EFFECT_SUMMON"), wwm_packed_guid_size(w))
    + Bytes(Is(w, "SPELL_EFFECT_FEED_PET"), wwm_packed_guid_size(w))
    + Bytes(Is(w, "SPELL_EFFECT_DISMISS_PET"), wwm_packed_guid_size(w)))

tbc_SpellLogMiss == PlainStruct(9, <<8, 1>>, 8 + 1)

tbc_SpellMiss(w) ==
  Struct(
    {}, Minimum(9) \o Ints(<<8, 1>>) \o When(Is(w, "SPELL_MISS_INFO_REFLECT"), Ints(<<1>>)),
    8 + 1 + Bytes(Is(w, "SPELL_MISS_INFO_REFLECT"), 1),
    9 + Bytes(Is(w, "SPELL_MISS_INFO_REFLECT"), 1))

tbc_SpellSteal == PlainStruct(5, <<4, 1>>, 4 + 1)

tbc_StabledPet(w) ==
  Struct(
    Free({"name"}),
    Minimum(18) \o Null({"name"}) \o Ints(<<4, 4, 4>>) \o Cstring("name", w) \o Ints(<<4, 1>>),
    3 * 4 + WRITE_CSTRING(w) + 4 + 1, 18 + w.len)

tbc_TradeSlot ==
  PlainStruct(
    73, <<1, 4, 4, 4, 4, 8, 4, 4, 4, 4, 8>> \o Repeat(6, 4),
    1 + 4 * 4 + 8 + 4 + 3 * 4 + 8 + 6 * 4)

tbc_TrainerSpell ==
  PlainStruct(38, <<4, 1, 4, 4, 4, 1>> \o Repeat(5, 4), 4 + 1 + 3 * 4 + 1 + 2 * 4 + 3 * 4)

tbc_WhoPlayer(w) ==
  Struct(
    Free({"name", "guild"}),
    Minimum(13) \o Null({"name", "guild"}) \o Cstring("name", w) \o Cstring("guild", w)
    \o Ints(<<4, 1, 1, 1, 4>>), 2 * WRITE_CSTRING(w) + 4 + 3 * 1 + 4, 13 + 2 * w.len)

tbc_WorldState == PlainStruct(8, <<4, 4>>, 2 * 4)

tbc_MSG_MOVE_HOVERFlags == tbc_MovementInfoFlags

tbc_MSG_MOVE_HOVER(w) ==
  Struct(
    {}, Minimum(30) \o PackedGuid(w) \o tbc_MovementInfo(w).read,
    WRITE_PACKED_GUID(w) + tbc_MovementInfo(w).written,
    wwm_packed_guid_size(w) + tbc_MovementInfo(w).size)

tbc_MSG_PETITION_DECLINE == Struct({}, Minimum(8) \o Ints(<<8>>), 8, 8)

tbc_MSG_TABARDVENDOR_ACTIVATE == Struct({}, Minimum(8) \o Ints(<<8>>), 8, 8)

tbc_MSG_QUEST_PUSH_RESULT == Struct({}, Minimum(9) \o Ints(<<8, 1>>), 8 + 1, 9)

tbc_MSG_MOVE_WATER_WALKFlags == tbc_MovementInfoFlags

tbc_MSG_MOVE_WATER_WALK(w) ==
  Struct(
    {}, Minimum(30) \o PackedGuid(w) \o tbc_MovementInfo(w).read,
    WRITE_PACKED_GUID(w) + tbc_MovementInfo(w).written,
    wwm_packed_guid_size(w) + tbc_MovementInfo(w).size)

tbc_MSG_PETITION_RENAME(w) ==
  Struct(
    Free({"new_name"}), Minimum(9) \o Null({"new_name"}) \o Ints(<<8>>) \o Cstring("new_name", w),
    8 + WRITE_CSTRING(w), 9 + w.len)

tbc_MSG_MOVE_SET_FLIGHT_BACK_SPEEDFlags == tbc_MovementInfoFlags

tbc_MSG_MOVE_SET_FLIGHT_BACK_SPEED(w) ==
  Struct(
    {}, Minimum(34) \o PackedGuid(w) \o tbc_MovementInfo(w).read \o Ints(<<4>>),
    WRITE_PACKED_GUID(w) + tbc_MovementInfo(w).written + 4,
    4 + wwm_packed_guid_size(w) + tbc_MovementInfo(w).size)
=============================================================================
