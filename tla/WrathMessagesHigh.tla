------------------------- MODULE WrathMessagesHigh -------------------------
(*****************************************************************************)
(* The messages of the 3.3.5 version of the world protocol from              *)
(* SMSG_INVALIDATE_PLAYER to SMSG_MULTIPLE_MOVES, in the order of            *)
(* src/wow_world_messages_c/src/wrath.c.                                     *)
(*                                                                           *)
(* A message is a function from its wires to records of what its functions   *)
(* do on them. Neighbours are defined together, in a record named for the    *)
(* first. A message of which every function does what that of an earlier     *)
(* message does is defined as that message.                                  *)
(*****************************************************************************)
EXTENDS WrathMessagesMid

wrath_FromSmsgInvalidatePlayer ==
  [SMSG_INVALIDATE_PLAYER |-> PlainSmsg(8, <<8>>, 8, 8),
   CMSG_RESET_INSTANCES |-> EmptyCmsg(0),
   SMSG_INSTANCE_RESET |-> PlainSmsg(4, <<4>>, 4, 4),
   SMSG_INSTANCE_RESET_FAILED |-> PlainSmsg(8, <<4, 4>>, 2 * 4, 8)]

wrath_FromSmsgUpdateLastInstance ==
  [SMSG_UPDATE_LAST_INSTANCE |-> PlainSmsg(4, <<4>>, 4, 4),
   MSG_RAID_TARGET_UPDATE_Client |->
     [w \in Wires(
              {0}, {0}, {{"RAID_TARGET_INDEX_UNKNOWN0", "RAID_TARGET_INDEX_REQUEST_ICONS"}}, {}) |->
       Cmsg({}, Minimum(1) \o Ints(<<1>>) \o When(Is(w, "RAID_TARGET_INDEX_UNKNOWN0"), Ints(<<8>>)),
            1 + Bytes(Is(w, "RAID_TARGET_INDEX_UNKNOWN0"), 8),
            1 + Bytes(Is(w, "RAID_TARGET_INDEX_UNKNOWN0"), 8))],
   MSG_RAID_TARGET_UPDATE_Server |->
     [w \in Wires({0}, {0}, {{"RAID_TARGET_UPDATE_TYPE_FULL", "RAID_TARGET_UPDATE_TYPE_PARTIAL"}},
                  {}) |->
       Smsg(
         {},
         Minimum(1) \o Ints(<<1>>)
         \o When(Is(w, "RAID_TARGET_UPDATE_TYPE_FULL"),
                 Each("raid_targets", 8, wrath_RaidTargetUpdate.read))
         \o When(Is(w, "RAID_TARGET_UPDATE_TYPE_PARTIAL"), wrath_RaidTargetUpdate.read),
         1 + Bytes(Is(w, "RAID_TARGET_UPDATE_TYPE_FULL"), 8 * wrath_RaidTargetUpdate.written)
         + Bytes(Is(w, "RAID_TARGET_UPDATE_TYPE_PARTIAL"), wrath_RaidTargetUpdate.written),
         1 + Bytes(Is(w, "RAID_TARGET_UPDATE_TYPE_FULL"), 72)
         + Bytes(Is(w, "RAID_TARGET_UPDATE_TYPE_PARTIAL"), 9))]]

wrath_FromMsgRaidReadyCheck ==
  [MSG_RAID_READY_CHECK_Client |-> [w \in Wires({0}, {0}, {}, {"answer"}) |->
     Cmsg(Free({"answer"}), Null({"answer"}) \o Optional("answer", {}, Ints(<<1>>)),
          Bytes(Is(w, "answer"), 1), Bytes(Is(w, "answer"), 1))],
   MSG_RAID_READY_CHECK_Server |-> [w \in Wires({0}, {0}, {}, {"state_check"}) |->
     Smsg(
       Free({"state_check"}), Null({"state_check"}) \o Optional("state_check", {}, Ints(<<8, 1>>)),
       Bytes(Is(w, "state_check"), 8 + 1), Bytes(Is(w, "state_check"), 9))]]

wrath_FromSmsgPetActionSound ==
  [SMSG_PET_ACTION_SOUND |-> PlainSmsg(12, <<8, 4>>, 8 + 4, 12),
   SMSG_PET_DISMISS_SOUND |-> [w \in {Fixed} |->
     Smsg({}, Minimum(16) \o Ints(<<4>>) \o Vector3d.read, 4 + Vector3d.written, 16)],
   SMSG_GM_TICKET_STATUS_UPDATE |-> PlainSmsg(4, <<4>>, 4, 4),
   MSG_SET_DUNGEON_DIFFICULTY_Client |-> PlainCmsg(4, <<4>>, 4, 4)]

wrath_FromMsgSetDungeonDifficulty ==
  [MSG_SET_DUNGEON_DIFFICULTY_Server |-> PlainSmsg(12, <<4, 4, 4>>, 3 * 4, 12),
   CMSG_GMSURVEY_SUBMIT |-> [w \in OfLength |->
     Cmsg(
       Free({"answer_comment"}) \union FreeFixed("questions", 10, wrath_GmSurveyQuestion(w).free),
       Minimum(65) \o Null({"answer_comment"}) \o Ints(<<4>>)
       \o Each("questions", 10, wrath_GmSurveyQuestion(w).read) \o Cstring("answer_comment", w),
       4 + 10 * wrath_GmSurveyQuestion(w).written + WRITE_CSTRING(w),
       5 + w.len + 10 * wrath_GmSurveyQuestion(w).size)],
   SMSG_UPDATE_INSTANCE_OWNERSHIP |-> PlainSmsg(4, <<4>>, 4, 4)]

wrath_FromSmsgChatPlayerAmbiguous ==
  [SMSG_CHAT_PLAYER_AMBIGUOUS |-> wrath_FromSmsgGuildInvite.SMSG_GUILD_DECLINE,
   SMSG_SPELLINSTAKILLLOG |-> PlainSmsg(20, <<8, 8, 4>>, 2 * 8 + 4, 20)]

wrath_FromSmsgSpellUpdateChainTargets ==
  [SMSG_SPELL_UPDATE_CHAIN_TARGETS |-> [w \in OfCount |->
     Smsg(Free({"targets"}),
          Minimum(16) \o Null({"targets"}) \o Ints(<<8, 4, 4>>) \o Calloc("targets", w.count, {})
          \o Ints(Repeat(w.count, 8)), 8 + 2 * 4 + w.count * 8, 16 + 8 * w.count)],
   SMSG_SPELLSTEALLOG |-> [w \in OfLengthAndCount |->
     Smsg(
       Free({"spell_steals"}),
       Minimum(11) \o Null({"spell_steals"}) \o PackedGuid(w) \o PackedGuid(w)
       \o Ints(<<4, 1, 4>>) \o Array("spell_steals", w.count, {}, wrath_SpellSteal.read),
       2 * WRITE_PACKED_GUID(w) + 4 + 1 + 4 + w.count * wrath_SpellSteal.written,
       9 + 2 * wwm_packed_guid_size(w) + 5 * w.count)]]

wrath_FromSmsgDefenseMessage ==
  [SMSG_DEFENSE_MESSAGE |-> [w \in OfLength |->
     Smsg(Free({"message"}),
          Minimum(9) \o Null({"message"}) \o Ints(<<4>>) \o SizedCstring("message", w),
          4 + WRITE_SIZED_CSTRING(w), 9 + w.len)],
   SMSG_INSTANCE_DIFFICULTY |-> PlainSmsg(8, <<4, 4>>, 2 * 4, 8)]

wrath_FromSmsgMotd ==
  [SMSG_MOTD |-> [w \in OfLengthAndCount |->
     Smsg(
       FreeEach("motds", w.count, Free({"text"})),
       Minimum(4) \o Null({"motds"}) \o Ints(<<4>>)
       \o Array("motds", w.count, Free({"text"}), Cstring("text", w)),
       4 + w.count * WRITE_CSTRING(w), 4 + w.count * (1 + w.len))],
   CMSG_MOVE_SET_CAN_TRANSITION_BETWEEN_SWIM_AND_FLY_ACK |->
     wrath_FromSmsgForceRunSpeedChange.CMSG_FORCE_RUN_SPEED_CHANGE_ACK]

wrath_FromSmsgMoveSetCanFly ==
  [SMSG_MOVE_SET_CAN_FLY |-> [w \in OfLength |->
     Smsg({}, Minimum(5) \o PackedGuid(w) \o Ints(<<4>>),
          WRITE_PACKED_GUID(w) + 4, 4 + wwm_packed_guid_size(w))],
   SMSG_MOVE_UNSET_CAN_FLY |-> [w \in OfLength |->
     Smsg({}, Minimum(5) \o PackedGuid(w) \o Ints(<<4>>),
          WRITE_PACKED_GUID(w) + 4, 4 + wwm_packed_guid_size(w))],
   CMSG_MOVE_SET_CAN_FLY_ACK |-> wrath_FromSmsgMoveSetHover.CMSG_MOVE_HOVER_ACK]

wrath_FromCmsgMoveSetFly ==
  [CMSG_MOVE_SET_FLY |-> wrath_FromCmsgMoveSplineDone.CMSG_MOVE_FALL_RESET,
   CMSG_SOCKET_GEMS |-> PlainCmsg(32, <<8, 8, 8, 8>>, 8 + 3 * 8, 32),
   SMSG_ARENA_TEAM_COMMAND_RESULT |-> [w \in OfLength |->
     Smsg(Free({"team", "player"}),
          Minimum(10) \o Null({"team", "player"}) \o Ints(<<4>>) \o Cstring("team", w)
          \o Cstring("player", w) \o Ints(<<4>>), 4 + 2 * WRITE_CSTRING(w) + 4, 10 + 2 * w.len)]]

wrath_FromSmsgArenaTeamQueryResponse ==
  [SMSG_ARENA_TEAM_QUERY_RESPONSE |-> [w \in OfLength |->
     Smsg(Free({"team_name"}),
          Minimum(26) \o Null({"team_name"}) \o Ints(<<4>>) \o Cstring("team_name", w)
          \o Ints(<<1>> \o Repeat(5, 4)), 4 + WRITE_CSTRING(w) + 1 + 5 * 4, 26 + w.len)],
   CMSG_ARENA_TEAM_ROSTER |-> PlainCmsg(4, <<4>>, 4, 4)]

wrath_FromSmsgArenaTeamRoster ==
  [SMSG_ARENA_TEAM_ROSTER |-> [w \in OfLengthAndCount |->
     Smsg(
       FreeEach("members", w.count, wrath_ArenaTeamMember(w).free),
       Minimum(10) \o Null({"members"}) \o Ints(<<4, 1, 4, 1>>)
       \o Array("members", w.count, wrath_ArenaTeamMember(w).free, wrath_ArenaTeamMember(w).read),
       4 + 1 + 4 + 1 + w.count * wrath_ArenaTeamMember(w).written,
       10 + w.count * wrath_ArenaTeamMember(w).size)],
   CMSG_ARENA_TEAM_INVITE |-> [w \in OfLength |->
     Cmsg(Free({"player"}), Minimum(5) \o Null({"player"}) \o Ints(<<4>>) \o Cstring("player", w),
          4 + WRITE_CSTRING(w), 5 + w.len)]]

wrath_FromSmsgArenaTeamInvite ==
  [SMSG_ARENA_TEAM_INVITE |-> [w \in OfLength |->
     Smsg(Free({"player_name", "team_name"}),
          Minimum(2) \o Null({"player_name", "team_name"}) \o Cstring("player_name", w)
          \o Cstring("team_name", w), 2 * WRITE_CSTRING(w), 2 + 2 * w.len)],
   CMSG_ARENA_TEAM_ACCEPT |-> EmptyCmsg(0),
   CMSG_ARENA_TEAM_DECLINE |-> EmptyCmsg(0),
   CMSG_ARENA_TEAM_LEAVE |-> PlainCmsg(4, <<4>>, 4, 4)]

wrath_FromCmsgArenaTeamRemove ==
  [CMSG_ARENA_TEAM_REMOVE |-> wrath_FromSmsgArenaTeamRoster.CMSG_ARENA_TEAM_INVITE,
   CMSG_ARENA_TEAM_DISBAND |-> PlainCmsg(4, <<4>>, 4, 4),
   CMSG_ARENA_TEAM_LEADER |-> wrath_FromSmsgArenaTeamRoster.CMSG_ARENA_TEAM_INVITE]

wrath_FromSmsgArenaTeamEvent ==
  [SMSG_ARENA_TEAM_EVENT |->
     [w \in Wires(Lengths, Counts,
                  {{"ARENA_TEAM_EVENT_JOIN", "ARENA_TEAM_EVENT_LEAVE", "ARENA_TEAM_EVENT_REMOVE",
                    "ARENA_TEAM_EVENT_LEADER_IS", "ARENA_TEAM_EVENT_LEADER_CHANGED"}}, {}) |->
       Smsg(
         FreeIf("event", {"ARENA_TEAM_EVENT_JOIN"}, Free({"joiner_name", "arena_team_name1"}))
         \union FreeIf("event", {"ARENA_TEAM_EVENT_LEAVE"}, Free({"leaver_name"}))
         \union FreeIf("event", {"ARENA_TEAM_EVENT_REMOVE"},
                       Free({"kicked_player_name", "arena_team_name2", "kicker_name"}))
         \union FreeIf("event", {"ARENA_TEAM_EVENT_LEADER_IS"},
                       Free({"leader_name", "arena_team_name3"}))
         \union FreeIf(
                  "event", {"ARENA_TEAM_EVENT_LEADER_CHANGED"}, Free({"old_leader", "new_leader"}))
         \union FreeEach("string", w.count, Free({"text"})),
         Minimum(2)
         \o Null({"joiner_name", "arena_team_name1", "leaver_name", "kicked_player_name",
                  "arena_team_name2", "kicker_name", "leader_name", "arena_team_name3", "old_leader",
                  "new_leader", "string"}) \o Field(1, "event", {}, w)
         \o When(Is(w, "ARENA_TEAM_EVENT_JOIN"),
                 Cstring("joiner_name", w) \o Cstring("arena_team_name1", w) \o Ints(<<8>>))
         \o When(Is(w, "ARENA_TEAM_EVENT_LEAVE"), Cstring("leaver_name", w) \o Ints(<<8>>))
         \o When(Is(w, "ARENA_TEAM_EVENT_REMOVE"),
                 Cstring("kicked_player_name", w) \o Cstring("arena_team_name2", w)
                 \o Cstring("kicker_name", w))
         \o When(Is(w, "ARENA_TEAM_EVENT_LEADER_IS"),
                 Cstring("leader_name", w) \o Cstring("arena_team_name3", w))
         \o When(Is(w, "ARENA_TEAM_EVENT_LEADER_CHANGED"),
                 Cstring("old_leader", w) \o Cstring("new_leader", w)) \o Ints(<<1>>)
         \o Array("string", w.count, Free({"text"}), Cstring("text", w)),
         1 + Bytes(Is(w, "ARENA_TEAM_EVENT_JOIN"), 2 * WRITE_CSTRING(w) + 8)
         + Bytes(Is(w, "ARENA_TEAM_EVENT_LEAVE"), WRITE_CSTRING(w) + 8)
         + Bytes(Is(w, "ARENA_TEAM_EVENT_REMOVE"), 3 * WRITE_CSTRING(w))
         + Bytes(Is(w, "ARENA_TEAM_EVENT_LEADER_IS"), 2 * WRITE_CSTRING(w))
         + Bytes(Is(w, "ARENA_TEAM_EVENT_LEADER_CHANGED"), 2 * WRITE_CSTRING(w)) + 1
         + w.count * WRITE_CSTRING(w),
         2 + Bytes(Is(w, "ARENA_TEAM_EVENT_JOIN"), 10 + 2 * w.len)
         + Bytes(Is(w, "ARENA_TEAM_EVENT_LEAVE"), 9 + w.len)
         + Bytes(Is(w, "ARENA_TEAM_EVENT_REMOVE"), 3 + 3 * w.len)
         + Bytes(Is(w, "ARENA_TEAM_EVENT_LEADER_IS"), 2 + 2 * w.len)
         + Bytes(Is(w, "ARENA_TEAM_EVENT_LEADER_CHANGED"), 2 + 2 * w.len) + w.count * (1 + w.len))]]

wrath_FromCmsgBattlemasterJoinArena ==
  [CMSG_BATTLEMASTER_JOIN_ARENA |-> PlainCmsg(11, <<8, 1, 1, 1>>, 8 + 3 * 1, 11),
   MSG_MOVE_START_ASCEND_cmsg |-> [w \in Wires(Lengths, {0}, {}, wrath_MovementInfoFlags) |->
     Client(wrath_MSG_MOVE_START_ASCEND(w))],
   MSG_MOVE_START_ASCEND_smsg |-> [w \in Wires(Lengths, {0}, {}, wrath_MovementInfoFlags) |->
     Server(wrath_MSG_MOVE_START_ASCEND(w))],
   MSG_MOVE_STOP_ASCEND_cmsg |-> [w \in Wires(Lengths, {0}, {}, wrath_MovementInfoFlags) |->
     Client(wrath_MSG_MOVE_STOP_ASCEND(w))]]

wrath_FromMsgMoveStopAscend ==
  [MSG_MOVE_STOP_ASCEND_smsg |-> [w \in Wires(Lengths, {0}, {}, wrath_MovementInfoFlags) |->
     Server(wrath_MSG_MOVE_STOP_ASCEND(w))],
   SMSG_ARENA_TEAM_STATS |-> PlainSmsg(28, Repeat(7, 4), 7 * 4, 28)]

wrath_FromCmsgLfgJoin ==
  [CMSG_LFG_JOIN |-> [w \in OfLengthAndCount |->
     Cmsg(
       Free({"slots", "needs", "comment"}),
       Minimum(9) \o Null({"slots", "needs", "comment"}) \o Ints(<<4, 1, 1, 1>>)
       \o Calloc("slots", w.count, {}) \o Ints(Repeat(w.count, 4) \o <<1>>)
       \o Calloc("needs", w.count, {}) \o Ints(Repeat(w.count, 1)) \o Cstring("comment", w),
       4 + 3 * 1 + w.count * 4 + 1 + w.count + WRITE_CSTRING(w),
       9 + w.len + 4 * w.count + w.count)],
   CMSG_LFG_LEAVE |-> EmptyCmsg(0),
   CMSG_SEARCH_LFG_JOIN |-> PlainCmsg(4, <<4>>, 4, 4)]

wrath_FromCmsgSearchLfgLeave ==
  [CMSG_SEARCH_LFG_LEAVE |-> PlainCmsg(4, <<4>>, 4, 4)]

wrath_FromSmsgUpdateLfgList ==
  [SMSG_UPDATE_LFG_LIST |->
     [w \in Wires(Lengths, Counts, {{"LFG_LIST_UPDATE_TYPE_PARTIAL", "LFG_LIST_UPDATE_TYPE_FULL"}},
                  wrath_LfgListPlayerFlags) |->
       Smsg(
         FreeIf("update_type", {"LFG_LIST_UPDATE_TYPE_PARTIAL"}, Free({"deleted_guids"}))
         \union FreeEach("groups", w.count, wrath_LfgListGroup(w).free)
         \union FreeEach("players", w.count, wrath_LfgListPlayer(w).free),
         Minimum(25) \o Null({"deleted_guids", "groups", "players"}) \o Ints(<<4, 4>>)
         \o Field(1, "update_type", {"LFG_LIST_UPDATE_TYPE_PARTIAL"}, w)
         \o When(Is(w, "LFG_LIST_UPDATE_TYPE_PARTIAL"),
                 Ints(<<4>>) \o Calloc("deleted_guids", w.count, {}) \o Ints(Repeat(w.count, 8)))
         \o Ints(<<4, 4>>)
         \o Array("groups", w.count, wrath_LfgListGroup(w).free, wrath_LfgListGroup(w).read)
         \o Ints(<<4, 4>>)
         \o Array("players", w.count, wrath_LfgListPlayer(w).free, wrath_LfgListPlayer(w).read),
         2 * 4 + 1 + Bytes(Is(w, "LFG_LIST_UPDATE_TYPE_PARTIAL"), 4 + w.count * 8) + 2 * 4
         + w.count * wrath_LfgListGroup(w).written + 2 * 4
         + w.count * wrath_LfgListPlayer(w).written,
         25 + Bytes(Is(w, "LFG_LIST_UPDATE_TYPE_PARTIAL"), 4 + 8 * w.count)
         + w.count * wrath_LfgListGroup(w).size + w.count * wrath_LfgListPlayer(w).size)]]

wrath_FromSmsgLfgProposalUpdate ==
  [SMSG_LFG_PROPOSAL_UPDATE |-> [w \in OfCount |->
     Smsg(
       Free({"proposals"}),
       Minimum(15) \o Null({"proposals"}) \o Ints(<<4, 1, 4, 4, 1, 1>>)
       \o Array("proposals", w.count, {}, wrath_LfgProposal.read),
       4 + 1 + 2 * 4 + 2 * 1 + w.count * wrath_LfgProposal.written, 15 + 9 * w.count)],
   CMSG_LFG_PROPOSAL_RESULT |-> PlainCmsg(5, <<4, 1>>, 4 + 1, 5)]

wrath_FromSmsgLfgRoleCheckUpdate ==
  [SMSG_LFG_ROLE_CHECK_UPDATE |-> [w \in OfCount |->
     Smsg(
       Free({"dungeon_entries", "roles"}),
       Minimum(7) \o Null({"dungeon_entries", "roles"}) \o Ints(<<4, 1, 1>>)
       \o Calloc("dungeon_entries", w.count, {}) \o Ints(Repeat(w.count, 4) \o <<1>>)
       \o Array("roles", w.count, {}, wrath_LfgRole.read),
       4 + 2 * 1 + w.count * 4 + 1 + w.count * wrath_LfgRole.written,
       7 + 4 * w.count + 14 * w.count)]]

wrath_FromSmsgLfgJoinResult ==
  [SMSG_LFG_JOIN_RESULT |-> [w \in OfCount |->
     Smsg(
       FreeEndless("players", w.count, wrath_LfgJoinPlayer(w).free),
       Counted(8, Minimum(8) \o Null({"players"}) \o Ints(<<4, 4>>))
       \o Endless("players", w.count, wrath_LfgJoinPlayer(w).free, wrath_LfgJoinPlayer(w).read,
                  wrath_LfgJoinPlayer(w).size),
       2 * 4 + w.count * wrath_LfgJoinPlayer(w).written,
       8 + w.count * wrath_LfgJoinPlayer(w).size)]]

wrath_FromSmsgLfgQueueStatus ==
  [SMSG_LFG_QUEUE_STATUS |-> PlainSmsg(31, Repeat(6, 4) \o <<1, 1, 1, 4>>, 6 * 4 + 3 * 1 + 4, 31),
   CMSG_SET_LFG_COMMENT |-> [w \in OfLength |->
     Cmsg(Free({"comment"}), Minimum(1) \o Null({"comment"}) \o Cstring("comment", w),
          WRITE_CSTRING(w), 1 + w.len)]]

wrath_FromSmsgLfgUpdatePlayer ==
  [SMSG_LFG_UPDATE_PLAYER |->
     [w \in Wires(
              Lengths, Counts, {{"LFG_JOIN_STATUS_JOINED", "LFG_JOIN_STATUS_NOT_JOINED"}}, {}) |->
       Smsg(
         FreeIf("join_status", {"LFG_JOIN_STATUS_JOINED"}, Free({"dungeons", "comment"})),
         Minimum(2) \o Null({"dungeons", "comment"}) \o Ints(<<1>>)
         \o Field(1, "join_status", {}, w)
         \o When(Is(w, "LFG_JOIN_STATUS_JOINED"),
                 Ints(<<1, 1, 1, 1>>) \o Calloc("dungeons", w.count, {}) \o Ints(Repeat(w.count, 4))
                 \o Cstring("comment", w)),
         2 * 1 + Bytes(Is(w, "LFG_JOIN_STATUS_JOINED"), 4 * 1 + w.count * 4 + WRITE_CSTRING(w)),
         2 + Bytes(Is(w, "LFG_JOIN_STATUS_JOINED"), 5 + w.len + 4 * w.count))]]

wrath_FromSmsgLfgUpdateParty ==
  [SMSG_LFG_UPDATE_PARTY |->
     [w \in Wires(
              Lengths, Counts, {{"LFG_JOIN_STATUS_JOINED", "LFG_JOIN_STATUS_NOT_JOINED"}}, {}) |->
       Smsg(
         FreeIf("join_status", {"LFG_JOIN_STATUS_JOINED"}, Free({"dungeons", "comment"})),
         Minimum(2) \o Null({"dungeons", "comment"}) \o Ints(<<1>>)
         \o Field(1, "join_status", {}, w)
         \o When(Is(w, "LFG_JOIN_STATUS_JOINED"),
                 Ints(Repeat(5, 1)) \o Calloc("dungeons", w.count, {}) \o Ints(Repeat(w.count, 4))
                 \o Cstring("comment", w)),
         2 * 1 + Bytes(Is(w, "LFG_JOIN_STATUS_JOINED"), 5 * 1 + w.count * 4 + WRITE_CSTRING(w)),
         2 + Bytes(Is(w, "LFG_JOIN_STATUS_JOINED"), 6 + w.len + 4 * w.count))],
   SMSG_LFG_UPDATE_SEARCH |-> PlainSmsg(1, <<1>>, 1, 1)]

wrath_FromCmsgLfgSetRoles ==
  [CMSG_LFG_SET_ROLES |-> PlainCmsg(1, <<1>>, 1, 1),
   CMSG_LFG_SET_BOOT_VOTE |-> PlainCmsg(1, <<1>>, 1, 1),
   SMSG_LFG_BOOT_PROPOSAL_UPDATE |-> [w \in OfLength |->
     Smsg(Free({"reason"}),
          Minimum(28) \o Null({"reason"}) \o Ints(<<1, 1, 1, 8, 4, 4, 4, 4>>)
          \o Cstring("reason", w), 3 * 1 + 8 + 4 * 4 + WRITE_CSTRING(w), 28 + w.len)]]

wrath_FromCmsgLfdPlayerLockInfoRequest ==
  [CMSG_LFD_PLAYER_LOCK_INFO_REQUEST |-> EmptyCmsg(0),
   SMSG_LFG_PLAYER_INFO |-> [w \in OfCount |->
     Smsg(
       Free({"locked_dungeons"})
       \union FreeEach("available_dungeons", w.count, wrath_LfgAvailableDungeon(w).free),
       Minimum(2) \o Null({"available_dungeons", "locked_dungeons"}) \o Ints(<<1>>)
       \o Array("available_dungeons", w.count, wrath_LfgAvailableDungeon(w).free,
                wrath_LfgAvailableDungeon(w).read) \o Ints(<<1>>)
       \o Array("locked_dungeons", w.count, {}, wrath_LfgJoinLockedDungeon.read),
       1 + w.count * wrath_LfgAvailableDungeon(w).written + 1
       + w.count * wrath_LfgJoinLockedDungeon.written,
       2 + 8 * w.count + w.count * wrath_LfgAvailableDungeon(w).size)],
   CMSG_LFG_TELEPORT |-> PlainCmsg(1, <<1>>, 1, 1)]

wrath_FromCmsgLfdPartyLockInfoRequest ==
  [CMSG_LFD_PARTY_LOCK_INFO_REQUEST |-> EmptyCmsg(0),
   SMSG_LFG_PARTY_INFO |-> [w \in OfCount |->
     Smsg(
       FreeEach("infos", w.count, wrath_LfgPartyInfo(w).free),
       Minimum(1) \o Null({"infos"}) \o Ints(<<1>>)
       \o Array("infos", w.count, wrath_LfgPartyInfo(w).free, wrath_LfgPartyInfo(w).read),
       1 + w.count * wrath_LfgPartyInfo(w).written, 1 + w.count * wrath_LfgPartyInfo(w).size)],
   SMSG_TITLE_EARNED |-> PlainSmsg(8, <<4, 4>>, 2 * 4, 8)]

wrath_FromCmsgSetTitle ==
  [CMSG_SET_TITLE |-> PlainCmsg(4, <<4>>, 4, 4),
   CMSG_CANCEL_MOUNT_AURA |-> EmptyCmsg(0),
   SMSG_ARENA_ERROR |-> PlainSmsg(5, <<4, 1>>, 4 + 1, 5),
   MSG_INSPECT_ARENA_TEAMS_Client |-> PlainCmsg(8, <<8>>, 8, 8)]

wrath_FromMsgInspectArenaTeams ==
  [MSG_INSPECT_ARENA_TEAMS_Server |-> PlainSmsg(33, <<8, 1>> \o Repeat(6, 4), 8 + 1 + 6 * 4, 33),
   SMSG_DEATH_RELEASE_LOC |-> [w \in {Fixed} |->
     Smsg({}, Minimum(16) \o Ints(<<4>>) \o Vector3d.read, 4 + Vector3d.written, 16)],
   CMSG_CANCEL_TEMP_ENCHANTMENT |-> PlainCmsg(4, <<4>>, 4, 4),
   SMSG_FORCED_DEATH_UPDATE |-> EmptySmsg(0)]

wrath_FromMsgMoveSetFlightSpeed ==
  [MSG_MOVE_SET_FLIGHT_SPEED_Server |->
     [w \in Wires(Lengths, {0}, {}, wrath_MovementInfoFlags) |->
       Smsg({}, Minimum(35) \o PackedGuid(w) \o wrath_MovementInfo(w).read \o Ints(<<4>>),
            WRITE_PACKED_GUID(w) + wrath_MovementInfo(w).written + 4,
            4 + wwm_packed_guid_size(w) + wrath_MovementInfo(w).size)],
   MSG_MOVE_SET_FLIGHT_BACK_SPEED_cmsg |->
     [w \in Wires(Lengths, {0}, {}, wrath_MovementInfoFlags) |->
       Client(wrath_MSG_MOVE_SET_FLIGHT_BACK_SPEED(w))],
   MSG_MOVE_SET_FLIGHT_BACK_SPEED_smsg |->
     [w \in Wires(Lengths, {0}, {}, wrath_MovementInfoFlags) |->
       Server(wrath_MSG_MOVE_SET_FLIGHT_BACK_SPEED(w))]]

wrath_FromSmsgForceFlightSpeedChange ==
  [SMSG_FORCE_FLIGHT_SPEED_CHANGE |-> [w \in OfLength |->
     Smsg({}, Minimum(9) \o PackedGuid(w) \o Ints(<<4, 4>>),
          WRITE_PACKED_GUID(w) + 2 * 4, 8 + wwm_packed_guid_size(w))],
   CMSG_FORCE_FLIGHT_SPEED_CHANGE_ACK |-> wrath_FromSmsgMoveSetHover.CMSG_MOVE_HOVER_ACK,
   SMSG_FORCE_FLIGHT_BACK_SPEED_CHANGE |-> [w \in OfLength |->
     Smsg({}, Minimum(9) \o PackedGuid(w) \o Ints(<<4, 4>>),
          WRITE_PACKED_GUID(w) + 2 * 4, 8 + wwm_packed_guid_size(w))]]

wrath_FromCmsgForceFlightBackSpeedChangeAck ==
  [CMSG_FORCE_FLIGHT_BACK_SPEED_CHANGE_ACK |-> wrath_FromSmsgMoveSetHover.CMSG_MOVE_HOVER_ACK,
   SMSG_SPLINE_SET_FLIGHT_SPEED |-> [w \in OfLength |->
     Smsg({}, Minimum(5) \o PackedGuid(w) \o Ints(<<4>>),
          WRITE_PACKED_GUID(w) + 4, 4 + wwm_packed_guid_size(w))],
   SMSG_SPLINE_SET_FLIGHT_BACK_SPEED |-> [w \in OfLength |->
     Smsg({}, Minimum(5) \o PackedGuid(w) \o Ints(<<4>>),
          WRITE_PACKED_GUID(w) + 4, 4 + wwm_packed_guid_size(w))]]

wrath_FromSmsgFlightSplineSync ==
  [SMSG_FLIGHT_SPLINE_SYNC |-> [w \in OfLength |->
     Smsg({}, Minimum(5) \o Ints(<<4>>) \o PackedGuid(w),
          4 + WRITE_PACKED_GUID(w), 4 + wwm_packed_guid_size(w))],
   CMSG_SET_TAXI_BENCHMARK_MODE |-> PlainCmsg(1, <<1>>, 1, 1),
   SMSG_REALM_SPLIT |-> [w \in OfLength |->
     Smsg(Free({"split_date"}),
          Minimum(9) \o Null({"split_date"}) \o Ints(<<4, 4>>) \o Cstring("split_date", w),
          2 * 4 + WRITE_CSTRING(w), 9 + w.len)]]

wrath_FromCmsgRealmSplit ==
  [CMSG_REALM_SPLIT |-> PlainCmsg(4, <<4>>, 4, 4),
   CMSG_MOVE_CHNG_TRANSPORT |-> wrath_FromCmsgMoveSplineDone.CMSG_MOVE_FALL_RESET,
   MSG_PARTY_ASSIGNMENT_Client |-> PlainCmsg(10, <<1, 1, 8>>, 2 * 1 + 8, 10),
   SMSG_TIME_SYNC_REQ |-> PlainSmsg(4, <<4>>, 4, 4)]

wrath_FromCmsgTimeSyncResp ==
  [CMSG_TIME_SYNC_RESP |-> PlainCmsg(8, <<4, 4>>, 2 * 4, 8),
   SMSG_RESET_FAILED_NOTIFY |-> PlainSmsg(4, <<4>>, 4, 4),
   SMSG_LFG_DISABLED |-> EmptySmsg(0),
   SMSG_UPDATE_COMBO_POINTS |-> [w \in OfLength |->
     Smsg({}, Minimum(2) \o PackedGuid(w) \o Ints(<<1>>),
          WRITE_PACKED_GUID(w) + 1, 1 + wwm_packed_guid_size(w))]]

wrath_FromMsgMoveStartDescend ==
  [MSG_MOVE_START_DESCEND_cmsg |-> [w \in Wires(Lengths, {0}, {}, wrath_MovementInfoFlags) |->
     Client(wrath_MSG_MOVE_START_DESCEND(w))],
   MSG_MOVE_START_DESCEND_smsg |-> [w \in Wires(Lengths, {0}, {}, wrath_MovementInfoFlags) |->
     Server(wrath_MSG_MOVE_START_DESCEND(w))],
   SMSG_DISMOUNT |-> [w \in OfLength |->
     Smsg({}, Minimum(1) \o PackedGuid(w), WRITE_PACKED_GUID(w), wwm_packed_guid_size(w))],
   MSG_MOVE_UPDATE_CAN_FLY_Server |-> wrath_FromSmsgPetBroken.MSG_MOVE_FEATHER_FALL_Server]

wrath_FromMsgRaidReadyCheckConfirm ==
  [MSG_RAID_READY_CHECK_CONFIRM_Client |-> wrath_FromSmsgResurrectFailed.CMSG_TOGGLE_PVP,
   MSG_RAID_READY_CHECK_CONFIRM_Server |-> PlainSmsg(9, <<8, 1>>, 8 + 1, 9),
   CMSG_VOICE_SESSION_ENABLE |-> PlainCmsg(2, <<1, 1>>, 2 * 1, 2)]

wrath_FromSmsgGmMessagechat ==
  [SMSG_GM_MESSAGECHAT |->
     [w \in Wires(
              Lengths, {0},
              {{"CHAT_TYPE_MONSTER_SAY", "CHAT_TYPE_WHISPER_FOREIGN", "CHAT_TYPE_BG_SYSTEM_NEUTRAL",
                "CHAT_TYPE_ACHIEVEMENT", "CHAT_TYPE_CHANNEL", "CHAT_TYPE_SYSTEM"}}, {"guid"}) |->
       Smsg(
         Free({"message"})
         \union FreeIf("chat_type", {"CHAT_TYPE_MONSTER_SAY"},
                       Free({"sender1"}) \union FreeAt(<<"target1">>, NamedGuid(w).free))
         \union FreeIf("chat_type", {"CHAT_TYPE_WHISPER_FOREIGN"}, Free({"sender2"}))
         \union FreeIf("chat_type", {"CHAT_TYPE_BG_SYSTEM_NEUTRAL"},
                       FreeAt(<<"target3">>, NamedGuid(w).free))
         \union FreeIf("chat_type", {"CHAT_TYPE_CHANNEL"}, Free({"channel_name"}))
         \union FreeIf("chat_type", {"CHAT_TYPE_SYSTEM"}, Free({"sender_name"})),
         Minimum(31) \o Null({"sender1"}) \o At(<<"target1">>, Clear("guid"))
         \o At(<<"target1">>, Null({"name"})) \o Null({"sender2"})
         \o At(<<"target3">>, Clear("guid")) \o At(<<"target3">>, Null({"name"}))
         \o Null({"channel_name", "sender_name", "message"})
         \o Field(1, "chat_type", {"CHAT_TYPE_SYSTEM"}, w) \o Ints(<<4, 8, 4>>)
         \o When(Is(w, "CHAT_TYPE_MONSTER_SAY"),
                 SizedCstring("sender1", w) \o At(<<"target1">>, NamedGuid(w).read))
         \o When(Is(w, "CHAT_TYPE_WHISPER_FOREIGN"), SizedCstring("sender2", w) \o Ints(<<8>>))
         \o When(Is(w, "CHAT_TYPE_BG_SYSTEM_NEUTRAL"), At(<<"target3">>, NamedGuid(w).read))
         \o When(Is(w, "CHAT_TYPE_ACHIEVEMENT"), Ints(<<8>>))
         \o When(Is(w, "CHAT_TYPE_CHANNEL"), Cstring("channel_name", w) \o Ints(<<8>>))
         \o When(Is(w, "CHAT_TYPE_SYSTEM"), SizedCstring("sender_name", w) \o Ints(<<8>>))
         \o SizedCstring("message", w) \o Ints(<<1>>)
         \o When(Is(w, "CHAT_TYPE_ACHIEVEMENT"), Ints(<<4>>)),
         1 + 4 + 8 + 4
         + Bytes(Is(w, "CHAT_TYPE_MONSTER_SAY"), WRITE_SIZED_CSTRING(w) + NamedGuid(w).written)
         + Bytes(Is(w, "CHAT_TYPE_WHISPER_FOREIGN"), WRITE_SIZED_CSTRING(w) + 8)
         + Bytes(Is(w, "CHAT_TYPE_BG_SYSTEM_NEUTRAL"), NamedGuid(w).written)
         + Bytes(Is(w, "CHAT_TYPE_ACHIEVEMENT"), 8)
         + Bytes(Is(w, "CHAT_TYPE_CHANNEL"), WRITE_CSTRING(w) + 8)
         + Bytes(Is(w, "CHAT_TYPE_SYSTEM"), WRITE_SIZED_CSTRING(w) + 8) + WRITE_SIZED_CSTRING(w) + 1
         + Bytes(Is(w, "CHAT_TYPE_ACHIEVEMENT"), 4),
         23 + w.len + Bytes(Is(w, "CHAT_TYPE_MONSTER_SAY"), 5 + w.len + NamedGuid(w).size)
         + Bytes(Is(w, "CHAT_TYPE_WHISPER_FOREIGN"), 13 + w.len)
         + Bytes(Is(w, "CHAT_TYPE_BG_SYSTEM_NEUTRAL"), NamedGuid(w).size)
         + Bytes(Is(w, "CHAT_TYPE_ACHIEVEMENT"), 8) + Bytes(Is(w, "CHAT_TYPE_CHANNEL"), 9 + w.len)
         + Bytes(Is(w, "CHAT_TYPE_SYSTEM"), 13 + w.len) + Bytes(Is(w, "CHAT_TYPE_ACHIEVEMENT"), 4))]]

wrath_FromCmsgCommentatorEnable ==
  [CMSG_COMMENTATOR_ENABLE |-> PlainCmsg(4, <<4>>, 4, 4),
   SMSG_CLEAR_TARGET |-> PlainSmsg(8, <<8>>, 8, 8),
   SMSG_CROSSED_INEBRIATION_THRESHOLD |-> PlainSmsg(16, <<8, 4, 4>>, 8 + 2 * 4, 16)]

wrath_FromSmsgKickReason ==
  [SMSG_KICK_REASON |-> [w \in OfLength |->
     Smsg(Free({"text"}), Minimum(2) \o Null({"text"}) \o Ints(<<1>>) \o Cstring("text", w),
          1 + WRITE_CSTRING(w), 2 + w.len)],
   MSG_RAID_READY_CHECK_FINISHED_Client |-> EmptyCmsg(0)]

wrath_FromCmsgComplain ==
  [CMSG_COMPLAIN |-> [w \in Wires(Lengths, {0}, {{"SPAM_TYPE_MAIL", "SPAM_TYPE_CHAT"}}, {}) |->
     Cmsg(
       FreeIf("complaint_type", {"SPAM_TYPE_CHAT"}, Free({"description"})),
       Minimum(9) \o Null({"description"}) \o Field(1, "complaint_type", {}, w) \o Ints(<<8>>)
       \o When(Is(w, "SPAM_TYPE_MAIL"), Ints(<<4, 4, 4>>))
       \o When(Is(w, "SPAM_TYPE_CHAT"), Ints(<<4, 4, 4, 4>>) \o Cstring("description", w)),
       1 + 8 + Bytes(Is(w, "SPAM_TYPE_MAIL"), 3 * 4)
       + Bytes(Is(w, "SPAM_TYPE_CHAT"), 4 * 4 + WRITE_CSTRING(w)),
       9 + Bytes(Is(w, "SPAM_TYPE_MAIL"), 12) + Bytes(Is(w, "SPAM_TYPE_CHAT"), 17 + w.len))],
   SMSG_COMPLAIN_RESULT |-> PlainSmsg(2, <<1, 1>>, 2 * 1, 2)]

wrath_FromSmsgFeatureSystemStatus ==
  [SMSG_FEATURE_SYSTEM_STATUS |-> PlainSmsg(2, <<1, 1>>, 2 * 1, 2),
   CMSG_CHANNEL_DISPLAY_LIST |-> [w \in OfLength |->
     Cmsg(Free({"channel"}), Minimum(1) \o Null({"channel"}) \o Cstring("channel", w),
          WRITE_CSTRING(w), 1 + w.len)],
   CMSG_SET_ACTIVE_VOICE_CHANNEL |-> [w \in OfLength |->
     Cmsg(Free({"unknown2"}),
          Minimum(5) \o Null({"unknown2"}) \o Ints(<<4>>) \o Cstring("unknown2", w),
          4 + WRITE_CSTRING(w), 5 + w.len)]]

wrath_FromCmsgGetChannelMemberCount ==
  [CMSG_GET_CHANNEL_MEMBER_COUNT |-> [w \in OfLength |->
     Cmsg(Free({"channel"}), Minimum(1) \o Null({"channel"}) \o Cstring("channel", w),
          WRITE_CSTRING(w), 1 + w.len)],
   SMSG_CHANNEL_MEMBER_COUNT |-> [w \in OfLength |->
     Smsg(Free({"channel"}),
          Minimum(6) \o Null({"channel"}) \o Cstring("channel", w) \o Ints(<<1, 4>>),
          WRITE_CSTRING(w) + 1 + 4, 6 + w.len)],
   CMSG_CHANNEL_VOICE_ON |-> EmptyCmsg(0),
   CMSG_REPORT_PVP_AFK |-> PlainCmsg(8, <<8>>, 8, 8)]

wrath_FromCmsgGuildBankerActivate ==
  [CMSG_GUILD_BANKER_ACTIVATE |-> PlainCmsg(9, <<8, 1>>, 8 + 1, 9),
   CMSG_GUILD_BANK_QUERY_TAB |-> PlainCmsg(10, <<8, 1, 1>>, 8 + 2 * 1, 10)]

wrath_FromSmsgGuildBankList ==
  [SMSG_GUILD_BANK_LIST |->
     [w \in Wires(Lengths, Counts,
                  {{"GUILD_BANK_TAB_RESULT_PRESENT", "GUILD_BANK_TAB_RESULT_NOT_PRESENT"},
                   {"GUILD_BANK_CONTENT_RESULT_PRESENT", "GUILD_BANK_CONTENT_RESULT_NOT_PRESENT"}},
                  {"item_random_property_id"}) |->
       Smsg(
         FreeIf("tab_result", {"GUILD_BANK_TAB_RESULT_PRESENT"},
                FreeEach("tabs", w.count, wrath_GuildBankTab(w).free))
         \union FreeIf("content_result", {"GUILD_BANK_CONTENT_RESULT_PRESENT"},
                       FreeEach("slot_updates", w.count, wrath_GuildBankSlot(w).free)),
         Minimum(15) \o Null({"tabs", "slot_updates"}) \o Ints(<<8, 1, 4>>)
         \o Field(1, "tab_result", {}, w)
         \o When(Is(w, "GUILD_BANK_TAB_RESULT_PRESENT"),
                 Ints(<<1>>)
                 \o Array("tabs", w.count, wrath_GuildBankTab(w).free, wrath_GuildBankTab(w).read))
         \o Field(1, "content_result", {}, w)
         \o When(Is(w, "GUILD_BANK_CONTENT_RESULT_PRESENT"),
                 Ints(<<1>>)
                 \o Array("slot_updates", w.count, wrath_GuildBankSlot(w).free,
                          wrath_GuildBankSlot(w).read)),
         8 + 1 + 4 + 1
         + Bytes(
             Is(w, "GUILD_BANK_TAB_RESULT_PRESENT"), 1 + w.count * wrath_GuildBankTab(w).written)
         + 1
         + Bytes(Is(w, "GUILD_BANK_CONTENT_RESULT_PRESENT"),
                 1 + w.count * wrath_GuildBankSlot(w).written),
         15
         + Bytes(Is(w, "GUILD_BANK_TAB_RESULT_PRESENT"), 1 + w.count * wrath_GuildBankTab(w).size)
         + Bytes(Is(w, "GUILD_BANK_CONTENT_RESULT_PRESENT"),
                 1 + w.count * wrath_GuildBankSlot(w).size))]]

wrath_FromCmsgGuildBankSwapItems ==
  [CMSG_GUILD_BANK_SWAP_ITEMS |->
     [w \in Wires({0}, Counts,
                  {{"BANK_SWAP_SOURCE_BANK", "BANK_SWAP_SOURCE_INVENTORY"},
                   {"BANK_SWAP_STORE_MODE_AUTOMATIC", "BANK_SWAP_STORE_MODE_MANUAL"}}, {}) |->
       Cmsg(
         Free({"unknown5"}),
         Counted(
           9,
           Minimum(23) \o Null({"unknown5"}) \o Ints(<<8, 1>>)
           \o When(Is(w, "BANK_SWAP_SOURCE_BANK"), Counted(17, Ints(<<1, 1, 4, 1, 1, 4, 1, 4>>)))
           \o When(
                Is(w, "BANK_SWAP_SOURCE_INVENTORY"),
                Counted(
                  7,
                  Ints(<<1, 1, 4, 1>>)
                  \o When(Is(w, "BANK_SWAP_STORE_MODE_AUTOMATIC"), Counted(9, Ints(<<4, 1, 4>>)))
                  \o When(
                       Is(w, "BANK_SWAP_STORE_MODE_MANUAL"), Counted(7, Ints(<<1, 1, 1, 4>>))))))
         \o Endless("unknown5", w.count, {}, Ints(<<1>>), 1),
         8 + 1 + Bytes(Is(w, "BANK_SWAP_SOURCE_BANK"), 2 * 1 + 4 + 2 * 1 + 4 + 1 + 4)
         + Bytes(Is(w, "BANK_SWAP_SOURCE_INVENTORY"),
                 2 * 1 + 4 + 1 + Bytes(Is(w, "BANK_SWAP_STORE_MODE_AUTOMATIC"), 4 + 1 + 4)
                 + Bytes(Is(w, "BANK_SWAP_STORE_MODE_MANUAL"), 3 * 1 + 4)) + w.count,
         9 + w.count + Bytes(Is(w, "BANK_SWAP_SOURCE_BANK"), 17)
         + Bytes(Is(w, "BANK_SWAP_SOURCE_INVENTORY"),
                 7 + Bytes(Is(w, "BANK_SWAP_STORE_MODE_AUTOMATIC"), 9)
                 + Bytes(Is(w, "BANK_SWAP_STORE_MODE_MANUAL"), 7)))]]

wrath_FromCmsgGuildBankBuyTab ==
  [CMSG_GUILD_BANK_BUY_TAB |-> PlainCmsg(9, <<8, 1>>, 8 + 1, 9),
   CMSG_GUILD_BANK_UPDATE_TAB |-> [w \in OfLength |->
     Cmsg(Free({"name", "icon"}),
          Minimum(11) \o Null({"name", "icon"}) \o Ints(<<8, 1>>) \o Cstring("name", w)
          \o Cstring("icon", w), 8 + 1 + 2 * WRITE_CSTRING(w), 11 + 2 * w.len)],
   CMSG_GUILD_BANK_DEPOSIT_MONEY |-> PlainCmsg(12, <<8, 4>>, 8 + 4, 12)]

wrath_FromCmsgGuildBankWithdrawMoney ==
  [CMSG_GUILD_BANK_WITHDRAW_MONEY |-> PlainCmsg(12, <<8, 4>>, 8 + 4, 12),
   MSG_GUILD_BANK_LOG_QUERY_Client |-> PlainCmsg(1, <<1>>, 1, 1),
   MSG_GUILD_BANK_LOG_QUERY_Server |-> [w \in OfCount |->
     Smsg(
       Free({"money_logs"}),
       Minimum(6) \o Null({"money_logs"}) \o Ints(<<4, 1, 1>>)
       \o Array("money_logs", w.count, {}, wrath_MoneyLogItem.read),
       4 + 2 * 1 + w.count * wrath_MoneyLogItem.written, 6 + 17 * w.count)]]

wrath_FromCmsgSetChannelWatch ==
  [CMSG_SET_CHANNEL_WATCH |-> [w \in OfLength |->
     Cmsg(Free({"channel"}), Minimum(1) \o Null({"channel"}) \o Cstring("channel", w),
          WRITE_CSTRING(w), 1 + w.len)],
   SMSG_USERLIST_ADD |-> [w \in OfLength |->
     Smsg(
       Free({"name"}), Minimum(15) \o Null({"name"}) \o Ints(<<8, 1, 1, 4>>) \o Cstring("name", w),
       8 + 2 * 1 + 4 + WRITE_CSTRING(w), 15 + w.len)]]

wrath_FromSmsgUserlistRemove ==
  [SMSG_USERLIST_REMOVE |-> [w \in OfLength |->
     Smsg(Free({"name"}), Minimum(14) \o Null({"name"}) \o Ints(<<8, 1, 4>>) \o Cstring("name", w),
          8 + 1 + 4 + WRITE_CSTRING(w), 14 + w.len)],
   SMSG_USERLIST_UPDATE |-> wrath_FromCmsgSetChannelWatch.SMSG_USERLIST_ADD]

wrath_FromCmsgClearChannelWatch ==
  [CMSG_CLEAR_CHANNEL_WATCH |-> [w \in OfLength |->
     Cmsg(Free({"channel"}), Minimum(1) \o Null({"channel"}) \o Cstring("channel", w),
          WRITE_CSTRING(w), 1 + w.len)],
   SMSG_INSPECT_TALENT |-> [w \in OfLengthAndCount |->
     Smsg(
       Free({"glyphs"}) \union FreeEach("specs", w.count, wrath_InspectTalentSpec(w).free),
       Minimum(12) \o Null({"specs", "glyphs"}) \o PackedGuid(w) \o Ints(<<4, 1, 1>>)
       \o Array(
            "specs", w.count, wrath_InspectTalentSpec(w).free, wrath_InspectTalentSpec(w).read)
       \o Ints(<<1>>) \o Calloc("glyphs", w.count, {}) \o Ints(Repeat(w.count, 2))
       \o wrath_inspect_talent_gear_mask(w),
       WRITE_PACKED_GUID(w) + 4 + 2 * 1 + w.count * wrath_InspectTalentSpec(w).written + 1
       + w.count * 2 + wrath_inspect_talent_gear_mask_written(w),
       7 + wwm_packed_guid_size(w) + 2 * w.count + wrath_inspect_talent_gear_mask_size(w)
       + w.count * wrath_InspectTalentSpec(w).size)]]

wrath_FromCmsgSpellclick ==
  [CMSG_SPELLCLICK |-> PlainCmsg(8, <<8>>, 8, 8),
   SMSG_LOOT_LIST |-> [w \in OfLength |->
     Smsg({}, Minimum(10) \o Ints(<<8>>) \o PackedGuid(w) \o PackedGuid(w),
          8 + 2 * WRITE_PACKED_GUID(w), 8 + 2 * wwm_packed_guid_size(w))],
   MSG_GUILD_PERMISSIONS_Client |-> EmptyCmsg(0),
   MSG_GUILD_PERMISSIONS_Server |-> [w \in {Fixed} |->
     Smsg({}, Minimum(61) \o Ints(<<4, 4, 4, 1>>) \o Each("bank_tabs", 6, wrath_BankTab.read),
          3 * 4 + 1 + 6 * wrath_BankTab.written, 61)]]

wrath_FromMsgGuildBankMoneyWithdrawn ==
  [MSG_GUILD_BANK_MONEY_WITHDRAWN_Client |-> EmptyCmsg(0),
   MSG_GUILD_BANK_MONEY_WITHDRAWN_Server |-> PlainSmsg(4, <<4>>, 4, 4),
   MSG_GUILD_EVENT_LOG_QUERY_Client |-> EmptyCmsg(0),
   MSG_GUILD_EVENT_LOG_QUERY_Server |->
     [w \in Wires({0}, Counts, {{"GUILD_EVENT_JOINED", "GUILD_EVENT_PROMOTION", "GUILD_EVENT_MOTD"}},
                  {}) |->
       Smsg(
         Free({"events"}),
         Minimum(1) \o Null({"events"}) \o Ints(<<1>>)
         \o Array("events", w.count, {}, wrath_GuildLogEvent(w).read),
         1 + w.count * wrath_GuildLogEvent(w).written, 1 + w.count * wrath_GuildLogEvent(w).size)]]

wrath_FromCmsgGetMirrorimageData ==
  [CMSG_GET_MIRRORIMAGE_DATA |-> PlainCmsg(8, <<8>>, 8, 8),
   SMSG_MIRRORIMAGE_DATA |->
     PlainSmsg(68, <<8, 4>> \o Repeat(8, 1) \o Repeat(12, 4), 8 + 4 + 8 * 1 + 4 + 11 * 4, 68),
   CMSG_KEEP_ALIVE |-> EmptyCmsg(0)]

wrath_FromCmsgOptOutOfLoot ==
  [CMSG_OPT_OUT_OF_LOOT |-> PlainCmsg(4, <<4>>, 4, 4),
   MSG_QUERY_GUILD_BANK_TEXT_Client |-> PlainCmsg(1, <<1>>, 1, 1),
   MSG_QUERY_GUILD_BANK_TEXT_Server |-> wrath_FromSmsgKickReason.SMSG_KICK_REASON]

wrath_FromCmsgSetGuildBankText ==
  [CMSG_SET_GUILD_BANK_TEXT |-> [w \in OfLength |->
     Cmsg(Free({"text"}), Minimum(2) \o Null({"text"}) \o Ints(<<1>>) \o Cstring("text", w),
          1 + WRITE_CSTRING(w), 2 + w.len)],
   CMSG_GRANT_LEVEL |-> [w \in OfLength |->
     Cmsg({}, Minimum(1) \o PackedGuid(w), WRITE_PACKED_GUID(w), wwm_packed_guid_size(w))],
   SMSG_OVERRIDE_LIGHT |-> PlainSmsg(12, <<4, 4, 4>>, 3 * 4, 12)]

wrath_FromSmsgTotemCreated ==
  [SMSG_TOTEM_CREATED |-> PlainSmsg(17, <<1, 8, 4, 4>>, 1 + 8 + 2 * 4, 17),
   CMSG_TOTEM_DESTROYED |-> PlainCmsg(1, <<1>>, 1, 1),
   CMSG_QUESTGIVER_STATUS_MULTIPLE_QUERY |-> EmptyCmsg(0)]

wrath_FromSmsgQuestgiverStatusMultiple ==
  [SMSG_QUESTGIVER_STATUS_MULTIPLE |-> [w \in OfCount |->
     Smsg(
       Free({"statuses"}),
       Minimum(4) \o Null({"statuses"}) \o Ints(<<4>>)
       \o Array("statuses", w.count, {}, wrath_QuestGiverStatusReport.read),
       4 + w.count * wrath_QuestGiverStatusReport.written, 4 + 9 * w.count)],
   CMSG_SET_PLAYER_DECLINED_NAMES |-> [w \in OfLength |->
     Cmsg(
       Free({"name"}) \union FreeFixed("declined_names", 5, Free({"text"})),
       Minimum(14) \o Null({"name"}) \o Each("declined_names", 5, Null({"text"})) \o Ints(<<8>>)
       \o Cstring("name", w) \o Each("declined_names", 5, Cstring("text", w)),
       8 + WRITE_CSTRING(w) + 5 * WRITE_CSTRING(w), 9 + w.len + 5 * (1 + w.len))]]

wrath_FromSmsgSetPlayerDeclinedNamesResult ==
  [SMSG_SET_PLAYER_DECLINED_NAMES_RESULT |-> PlainSmsg(12, <<4, 8>>, 4 + 8, 12),
   SMSG_SEND_UNLEARN_SPELLS |-> [w \in OfCount |->
     Smsg(Free({"spells"}),
          Minimum(4) \o Null({"spells"}) \o Ints(<<4>>) \o Calloc("spells", w.count, {})
          \o Ints(Repeat(w.count, 4)), 4 + w.count * 4, 4 + 4 * w.count)],
   SMSG_PROPOSE_LEVEL_GRANT |-> [w \in OfLength |->
     Smsg({}, Minimum(1) \o PackedGuid(w), WRITE_PACKED_GUID(w), wwm_packed_guid_size(w))]]

wrath_FromCmsgAcceptLevelGrant ==
  [CMSG_ACCEPT_LEVEL_GRANT |-> [w \in OfLength |->
     Cmsg({}, Minimum(1) \o PackedGuid(w), WRITE_PACKED_GUID(w), wwm_packed_guid_size(w))],
   SMSG_REFER_A_FRIEND_FAILURE |->
     [w \in Wires(Lengths, {0}, {{"REFER_A_FRIEND_ERROR_NOT_IN_GROUP", "REFER_A_FRIEND_ERROR_NONE"}},
                  {}) |->
       Smsg(
         FreeIf("error", {"REFER_A_FRIEND_ERROR_NOT_IN_GROUP"}, Free({"target_name"})),
         Minimum(4) \o Null({"target_name"}) \o Field(4, "error", {}, w)
         \o When(Is(w, "REFER_A_FRIEND_ERROR_NOT_IN_GROUP"), Cstring("target_name", w)),
         4 + Bytes(Is(w, "REFER_A_FRIEND_ERROR_NOT_IN_GROUP"), WRITE_CSTRING(w)),
         4 + Bytes(Is(w, "REFER_A_FRIEND_ERROR_NOT_IN_GROUP"), 1 + w.len))],
   SMSG_SPLINE_MOVE_SET_FLYING |-> [w \in OfLength |->
     Smsg({}, Minimum(1) \o PackedGuid(w), WRITE_PACKED_GUID(w), wwm_packed_guid_size(w))]]

wrath_FromSmsgSplineMoveUnsetFlying ==
  [SMSG_SPLINE_MOVE_UNSET_FLYING |-> [w \in OfLength |->
     Smsg({}, Minimum(1) \o PackedGuid(w), WRITE_PACKED_GUID(w), wwm_packed_guid_size(w))],
   CMSG_ALTER_APPEARANCE |-> PlainCmsg(12, <<4, 4, 4>>, 3 * 4, 12),
   SMSG_ENABLE_BARBER_SHOP |-> EmptySmsg(0),
   SMSG_BARBER_SHOP_RESULT |-> PlainSmsg(4, <<4>>, 4, 4),
   CMSG_CALENDAR_GET_CALENDAR |-> EmptyCmsg(0)]

wrath_FromCmsgCalendarGetEvent ==
  [CMSG_CALENDAR_GET_EVENT |-> PlainCmsg(8, <<8>>, 8, 8),
   CMSG_CALENDAR_GUILD_FILTER |-> PlainCmsg(12, <<4, 4, 4>>, 3 * 4, 12),
   CMSG_CALENDAR_ARENA_TEAM |-> PlainCmsg(4, <<4>>, 4, 4)]

wrath_FromCmsgCalendarAddEvent ==
  [CMSG_CALENDAR_ADD_EVENT |-> [w \in OfLengthAndCount |->
     Cmsg(
       Free({"title", "description", "invitees"}),
       Minimum(28) \o Null({"title", "description", "invitees"}) \o Cstring("title", w)
       \o Cstring("description", w) \o Ints(<<1, 1>> \o Repeat(6, 4))
       \o Array("invitees", w.count, {}, wrath_CalendarInvitee(w).read),
       2 * WRITE_CSTRING(w) + 2 * 1 + 6 * 4 + w.count * wrath_CalendarInvitee(w).written,
       28 + 2 * w.len + w.count * wrath_CalendarInvitee(w).size)]]

wrath_FromCmsgCalendarUpdateEvent ==
  [CMSG_CALENDAR_UPDATE_EVENT |-> [w \in OfLength |->
     Cmsg(
       Free({"title", "description"}),
       Minimum(40) \o Null({"title", "description"}) \o Ints(<<8, 8>>) \o Cstring("title", w)
       \o Cstring("description", w) \o Ints(<<1, 1>> \o Repeat(5, 4)),
       2 * 8 + 2 * WRITE_CSTRING(w) + 2 * 1 + 5 * 4, 40 + 2 * w.len)],
   CMSG_CALENDAR_REMOVE_EVENT |-> PlainCmsg(20, <<8, 8, 4>>, 2 * 8 + 4, 20)]

wrath_FromCmsgCalendarCopyEvent ==
  [CMSG_CALENDAR_COPY_EVENT |-> PlainCmsg(20, <<8, 8, 4>>, 2 * 8 + 4, 20),
   CMSG_CALENDAR_EVENT_INVITE |-> [w \in OfLength |->
     Cmsg(Free({"name"}),
          Minimum(19) \o Null({"name"}) \o Ints(<<8, 8>>) \o Cstring("name", w) \o Ints(<<1, 1>>),
          2 * 8 + WRITE_CSTRING(w) + 2 * 1, 19 + w.len)],
   CMSG_CALENDAR_EVENT_RSVP |-> PlainCmsg(20, <<8, 8, 4>>, 2 * 8 + 4, 20)]

wrath_FromCmsgCalendarEventRemoveInvite ==
  [CMSG_CALENDAR_EVENT_REMOVE_INVITE |-> PlainCmsg(24, <<8, 8, 8>>, 3 * 8, 24),
   CMSG_CALENDAR_EVENT_STATUS |-> PlainCmsg(25, <<8, 8, 8, 1>>, 3 * 8 + 1, 25),
   CMSG_CALENDAR_EVENT_MODERATOR_STATUS |-> PlainCmsg(25, <<8, 8, 8, 1>>, 3 * 8 + 1, 25)]

wrath_FromSmsgCalendarSendCalendar ==
  [SMSG_CALENDAR_SEND_CALENDAR |-> [w \in OfLengthAndCount |->
     Smsg(
       Free({"invites", "instances", "reset_times"})
       \union FreeEach("events", w.count, wrath_SendCalendarEvent(w).free)
       \union FreeEach("holidays", w.count, wrath_SendCalendarHoliday(w).free),
       Minimum(32) \o Null({"invites", "events", "instances", "reset_times", "holidays"})
       \o Ints(<<4>>) \o Array("invites", w.count, {}, wrath_SendCalendarInvite(w).read)
       \o Ints(<<4>>)
       \o Array(
            "events", w.count, wrath_SendCalendarEvent(w).free, wrath_SendCalendarEvent(w).read)
       \o Ints(<<4, 4, 4>>) \o Array("instances", w.count, {}, wrath_SendCalendarInstance.read)
       \o Ints(<<4, 4>>) \o Array("reset_times", w.count, {}, wrath_SendCalendarResetTime.read)
       \o Ints(<<4>>)
       \o Array("holidays", w.count, wrath_SendCalendarHoliday(w).free,
                wrath_SendCalendarHoliday(w).read),
       4 + w.count * wrath_SendCalendarInvite(w).written + 4
       + w.count * wrath_SendCalendarEvent(w).written + 3 * 4
       + w.count * wrath_SendCalendarInstance.written + 2 * 4
       + w.count * wrath_SendCalendarResetTime.written + 4
       + w.count * wrath_SendCalendarHoliday(w).written,
       32 + 20 * w.count + 12 * w.count + w.count * wrath_SendCalendarInvite(w).size
       + w.count * wrath_SendCalendarEvent(w).size + w.count * wrath_SendCalendarHoliday(w).size)]]

wrath_FromSmsgCalendarSendEvent ==
  [SMSG_CALENDAR_SEND_EVENT |-> [w \in OfLengthAndCount |->
     Smsg(
       Free({"title", "description"})
       \union FreeEach("invitees", w.count, wrath_CalendarSendInvitee(w).free),
       Minimum(42) \o Null({"title", "description", "invitees"}) \o Ints(<<1>>) \o PackedGuid(w)
       \o Ints(<<8>>) \o Cstring("title", w) \o Cstring("description", w)
       \o Ints(<<1, 1>> \o Repeat(7, 4))
       \o Array("invitees", w.count, wrath_CalendarSendInvitee(w).free,
                wrath_CalendarSendInvitee(w).read),
       1 + WRITE_PACKED_GUID(w) + 8 + 2 * WRITE_CSTRING(w) + 2 * 1 + 7 * 4
       + w.count * wrath_CalendarSendInvitee(w).written,
       41 + 2 * w.len + wwm_packed_guid_size(w) + w.count * wrath_CalendarSendInvitee(w).size)]]

wrath_FromSmsgCalendarFilterGuild ==
  [SMSG_CALENDAR_FILTER_GUILD |-> [w \in OfLengthAndCount |->
     Smsg(
       Free({"members"}),
       Minimum(4) \o Null({"members"}) \o Ints(<<4>>)
       \o Array("members", w.count, {}, wrath_CalendarMember(w).read),
       4 + w.count * wrath_CalendarMember(w).written, 4 + w.count * wrath_CalendarMember(w).size)],
   SMSG_CALENDAR_ARENA_TEAM |-> [w \in OfLengthAndCount |->
     Smsg(
       Free({"members"}),
       Minimum(4) \o Null({"members"}) \o Ints(<<4>>)
       \o Array("members", w.count, {}, wrath_CalendarMember(w).read),
       4 + w.count * wrath_CalendarMember(w).written, 4 + w.count * wrath_CalendarMember(w).size)]]

wrath_FromSmsgCalendarEventInvite ==
  [SMSG_CALENDAR_EVENT_INVITE |->
     [w \in Wires(Lengths, {0},
                  {{"CALENDAR_STATUS_TIME_PRESENT", "CALENDAR_STATUS_TIME_NOT_PRESENT"}}, {}) |->
       Smsg(
         {},
         Minimum(21) \o PackedGuid(w) \o Ints(<<8, 8, 1, 1, 1>>)
         \o When(Is(w, "CALENDAR_STATUS_TIME_PRESENT"), Ints(<<4>>)) \o Ints(<<1>>),
         WRITE_PACKED_GUID(w) + 2 * 8 + 3 * 1 + Bytes(Is(w, "CALENDAR_STATUS_TIME_PRESENT"), 4) + 1,
         20 + wwm_packed_guid_size(w) + Bytes(Is(w, "CALENDAR_STATUS_TIME_PRESENT"), 4))],
   SMSG_CALENDAR_EVENT_INVITE_REMOVED |-> [w \in OfLength |->
     Smsg({}, Minimum(14) \o PackedGuid(w) \o Ints(<<8, 4, 1>>),
          WRITE_PACKED_GUID(w) + 8 + 4 + 1, 13 + wwm_packed_guid_size(w))]]

wrath_FromSmsgCalendarEventStatus ==
  [SMSG_CALENDAR_EVENT_STATUS |-> [w \in OfLength |->
     Smsg({}, Minimum(23) \o PackedGuid(w) \o Ints(<<8, 4, 4, 1, 1, 4>>),
          WRITE_PACKED_GUID(w) + 8 + 2 * 4 + 2 * 1 + 4, 22 + wwm_packed_guid_size(w))],
   SMSG_CALENDAR_COMMAND_RESULT |-> [w \in OfLength |->
     Smsg(Free({"name"}),
          Minimum(10) \o Null({"name"}) \o Ints(<<4, 1>>) \o Cstring("name", w) \o Ints(<<4>>),
          4 + 1 + WRITE_CSTRING(w) + 4, 10 + w.len)]]

wrath_FromSmsgCalendarRaidLockoutAdded ==
  [SMSG_CALENDAR_RAID_LOCKOUT_ADDED |-> PlainSmsg(24, <<4, 4, 4, 4, 8>>, 4 * 4 + 8, 24),
   SMSG_CALENDAR_RAID_LOCKOUT_REMOVED |-> PlainSmsg(20, <<4, 4, 4, 8>>, 3 * 4 + 8, 20)]

wrath_FromSmsgCalendarEventInviteAlert ==
  [SMSG_CALENDAR_EVENT_INVITE_ALERT |-> [w \in OfLength |->
     Smsg(
       Free({"title"}),
       Minimum(37) \o Null({"title"}) \o Ints(<<8>>) \o Cstring("title", w)
       \o Ints(<<4, 4, 4, 4, 8, 1, 1>>) \o PackedGuid(w) \o PackedGuid(w),
       8 + WRITE_CSTRING(w) + 4 * 4 + 8 + 2 * 1 + 2 * WRITE_PACKED_GUID(w),
       35 + w.len + 2 * wwm_packed_guid_size(w))],
   SMSG_CALENDAR_EVENT_INVITE_REMOVED_ALERT |-> PlainSmsg(17, <<8, 4, 4, 1>>, 8 + 2 * 4 + 1, 17)]

wrath_FromSmsgCalendarEventRemovedAlert ==
  [SMSG_CALENDAR_EVENT_REMOVED_ALERT |-> PlainSmsg(13, <<1, 8, 4>>, 1 + 8 + 4, 13),
   SMSG_CALENDAR_EVENT_UPDATED_ALERT |-> [w \in OfLength |->
     Smsg(
       Free({"title", "description"}),
       Minimum(37) \o Null({"title", "description"}) \o Ints(<<1, 8, 4, 4, 4, 1, 4>>)
       \o Cstring("title", w) \o Cstring("description", w) \o Ints(<<1, 4, 4>>),
       1 + 8 + 3 * 4 + 1 + 4 + 2 * WRITE_CSTRING(w) + 1 + 2 * 4, 37 + 2 * w.len)]]

wrath_FromSmsgCalendarEventModeratorStatusAlert ==
  [SMSG_CALENDAR_EVENT_MODERATOR_STATUS_ALERT |-> [w \in OfLength |->
     Smsg({}, Minimum(11) \o PackedGuid(w) \o Ints(<<8, 1, 1>>),
          WRITE_PACKED_GUID(w) + 8 + 2 * 1, 10 + wwm_packed_guid_size(w))],
   CMSG_CALENDAR_COMPLAIN |-> PlainCmsg(24, <<8, 8, 8>>, 3 * 8, 24),
   CMSG_CALENDAR_GET_NUM_PENDING_cmsg |-> EmptyCmsg(0),
   CMSG_CALENDAR_GET_NUM_PENDING_smsg |-> EmptySmsg(0)]

wrath_FromSmsgCalendarSendNumPending ==
  [SMSG_CALENDAR_SEND_NUM_PENDING |-> PlainSmsg(4, <<4>>, 4, 4),
   MSG_MOVE_SET_PITCH_RATE_Server |->
     wrath_FromMsgMoveSetFlightSpeed.MSG_MOVE_SET_FLIGHT_SPEED_Server,
   SMSG_FORCE_PITCH_RATE_CHANGE |-> [w \in OfLength |->
     Smsg({}, Minimum(9) \o PackedGuid(w) \o Ints(<<4, 4>>),
          WRITE_PACKED_GUID(w) + 2 * 4, 8 + wwm_packed_guid_size(w))]]

wrath_FromSmsgCalendarEventInviteNotes ==
  [SMSG_CALENDAR_EVENT_INVITE_NOTES |-> [w \in OfLength |->
     Smsg(
       Free({"text"}),
       Minimum(11) \o Null({"text"}) \o PackedGuid(w) \o Ints(<<8>>) \o Cstring("text", w)
       \o Ints(<<1>>),
       WRITE_PACKED_GUID(w) + 8 + WRITE_CSTRING(w) + 1, 10 + w.len + wwm_packed_guid_size(w))],
   SMSG_CALENDAR_EVENT_INVITE_NOTES_ALERT |-> [w \in OfLength |->
     Smsg(Free({"text"}), Minimum(9) \o Null({"text"}) \o Ints(<<8>>) \o Cstring("text", w),
          8 + WRITE_CSTRING(w), 9 + w.len)]]

wrath_FromCmsgUpdateMissileTrajectory ==
  [CMSG_UPDATE_MISSILE_TRAJECTORY |-> [w \in {Fixed} |->
     Cmsg({}, Minimum(44) \o Ints(<<8, 4, 4, 4>>) \o Vector3d.read \o Vector3d.read,
          8 + 3 * 4 + 2 * Vector3d.written, 44)],
   SMSG_UPDATE_ACCOUNT_DATA_COMPLETE |-> PlainSmsg(8, <<4, 4>>, 2 * 4, 8),
   SMSG_TRIGGER_MOVIE |-> PlainSmsg(4, <<4>>, 4, 4),
   CMSG_COMPLETE_MOVIE |-> EmptyCmsg(0)]

wrath_FromSmsgAchievementEarned ==
  [SMSG_ACHIEVEMENT_EARNED |-> [w \in OfLength |->
     Smsg({}, Minimum(13) \o PackedGuid(w) \o Ints(<<4, 4, 4>>),
          WRITE_PACKED_GUID(w) + 3 * 4, 12 + wwm_packed_guid_size(w))],
   SMSG_CRITERIA_UPDATE |-> [w \in OfLength |->
     Smsg({}, Minimum(22) \o Ints(<<4>>) \o PackedGuid(w) \o PackedGuid(w) \o Ints(<<4, 4, 4, 4>>),
          4 + 2 * WRITE_PACKED_GUID(w) + 4 * 4, 20 + 2 * wwm_packed_guid_size(w))],
   CMSG_QUERY_INSPECT_ACHIEVEMENTS |-> [w \in OfLength |->
     Cmsg({}, Minimum(1) \o PackedGuid(w), WRITE_PACKED_GUID(w), wwm_packed_guid_size(w))]]

wrath_FromCmsgDismissControlledVehicle ==
  [CMSG_DISMISS_CONTROLLED_VEHICLE |-> EmptyCmsg(0),
   SMSG_QUESTUPDATE_ADD_PVP_KILL |-> PlainSmsg(12, <<4, 4, 4>>, 3 * 4, 12),
   SMSG_CALENDAR_RAID_LOCKOUT_UPDATED |-> PlainSmsg(20, Repeat(5, 4), 5 * 4, 20)]

wrath_FromCmsgCharCustomize ==
  [CMSG_CHAR_CUSTOMIZE |-> [w \in OfLength |->
     Cmsg(Free({"new_name"}),
          Minimum(15) \o Null({"new_name"}) \o Ints(<<8>>) \o Cstring("new_name", w)
          \o Ints(Repeat(6, 1)), 8 + WRITE_CSTRING(w) + 6 * 1, 15 + w.len)]]

wrath_FromSmsgCharCustomize ==
  [SMSG_CHAR_CUSTOMIZE |->
     [w \in Wires(Lengths, {0}, {{"WORLD_RESULT_RESPONSE_SUCCESS", "WORLD_RESULT_RESPONSE_FAILURE"}},
                  {}) |->
       Smsg(
         FreeIf("result", {"WORLD_RESULT_RESPONSE_SUCCESS"}, Free({"name"})),
         Minimum(1) \o Null({"name"}) \o Field(1, "result", {"WORLD_RESULT_RESPONSE_SUCCESS"}, w)
         \o When(Is(w, "WORLD_RESULT_RESPONSE_SUCCESS"),
                 Ints(<<8>>) \o Cstring("name", w) \o Ints(Repeat(6, 1))),
         1 + Bytes(Is(w, "WORLD_RESULT_RESPONSE_SUCCESS"), 8 + WRITE_CSTRING(w) + 6 * 1),
         1 + Bytes(Is(w, "WORLD_RESULT_RESPONSE_SUCCESS"), 15 + w.len))],
   CMSG_REQUEST_VEHICLE_EXIT |-> EmptyCmsg(0),
   CMSG_REQUEST_VEHICLE_PREV_SEAT |-> EmptyCmsg(0),
   CMSG_REQUEST_VEHICLE_NEXT_SEAT |-> EmptyCmsg(0)]

wrath_FromCmsgRequestVehicleSwitchSeat ==
  [CMSG_REQUEST_VEHICLE_SWITCH_SEAT |-> PlainCmsg(9, <<8, 1>>, 8 + 1, 9),
   CMSG_PET_LEARN_TALENT |-> PlainCmsg(16, <<8, 4, 4>>, 8 + 2 * 4, 16),
   SMSG_SET_PHASE_SHIFT |-> PlainSmsg(4, <<4>>, 4, 4)]

wrath_FromSmsgPowerUpdate ==
  [SMSG_POWER_UPDATE |-> [w \in OfLength |->
     Smsg({}, Minimum(6) \o PackedGuid(w) \o Ints(<<1, 4>>),
          WRITE_PACKED_GUID(w) + 1 + 4, 5 + wwm_packed_guid_size(w))],
   CMSG_GAMEOBJ_REPORT_USE |-> PlainCmsg(8, <<8>>, 8, 8)]

wrath_FromSmsgHighestThreatUpdate ==
  [SMSG_HIGHEST_THREAT_UPDATE |-> [w \in OfLengthAndCount |->
     Smsg(
       Free({"units"}),
       Minimum(6) \o Null({"units"}) \o PackedGuid(w) \o PackedGuid(w) \o Ints(<<4>>)
       \o Array("units", w.count, {}, wrath_ThreatUpdateUnit(w).read),
       2 * WRITE_PACKED_GUID(w) + 4 + w.count * wrath_ThreatUpdateUnit(w).written,
       4 + 2 * wwm_packed_guid_size(w) + w.count * wrath_ThreatUpdateUnit(w).size)],
   SMSG_THREAT_UPDATE |-> [w \in OfLengthAndCount |->
     Smsg(
       Free({"units"}),
       Minimum(5) \o Null({"units"}) \o PackedGuid(w) \o Ints(<<4>>)
       \o Array("units", w.count, {}, wrath_ThreatUpdateUnit(w).read),
       WRITE_PACKED_GUID(w) + 4 + w.count * wrath_ThreatUpdateUnit(w).written,
       4 + wwm_packed_guid_size(w) + w.count * wrath_ThreatUpdateUnit(w).size)]]

wrath_FromSmsgThreatRemove ==
  [SMSG_THREAT_REMOVE |-> [w \in OfLength |->
     Smsg({}, Minimum(2) \o PackedGuid(w) \o PackedGuid(w),
          2 * WRITE_PACKED_GUID(w), 2 * wwm_packed_guid_size(w))],
   SMSG_THREAT_CLEAR |-> [w \in OfLength |->
     Smsg({}, Minimum(1) \o PackedGuid(w), WRITE_PACKED_GUID(w), wwm_packed_guid_size(w))],
   SMSG_CONVERT_RUNE |-> PlainSmsg(2, <<1, 1>>, 2 * 1, 2)]

wrath_FromSmsgResyncRunes ==
  [SMSG_RESYNC_RUNES |-> [w \in OfCount |->
     Smsg(
       Free({"runes"}),
       Minimum(4) \o Null({"runes"}) \o Ints(<<4>>)
       \o Array("runes", w.count, {}, wrath_ResyncRune.read),
       4 + w.count * wrath_ResyncRune.written, 4 + 2 * w.count)],
   SMSG_ADD_RUNE_POWER |-> PlainSmsg(4, <<4>>, 4, 4),
   CMSG_REMOVE_GLYPH |-> PlainCmsg(4, <<4>>, 4, 4)]

wrath_FromCmsgDismissCritter ==
  [CMSG_DISMISS_CRITTER |-> PlainCmsg(8, <<8>>, 8, 8),
   CMSG_AUCTION_LIST_PENDING_SALES |-> PlainCmsg(8, <<8>>, 8, 8),
   SMSG_AUCTION_LIST_PENDING_SALES |-> [w \in OfLengthAndCount |->
     Smsg(
       FreeEach("pending_sales", w.count, wrath_PendingAuctionSale(w).free),
       Minimum(4) \o Null({"pending_sales"}) \o Ints(<<4>>)
       \o Array("pending_sales", w.count, wrath_PendingAuctionSale(w).free,
                wrath_PendingAuctionSale(w).read),
       4 + w.count * wrath_PendingAuctionSale(w).written,
       4 + w.count * wrath_PendingAuctionSale(w).size)]]

wrath_FromSmsgModifyCooldown ==
  [SMSG_MODIFY_COOLDOWN |-> PlainSmsg(16, <<4, 8, 4>>, 4 + 8 + 4, 16),
   SMSG_PET_UPDATE_COMBO_POINTS |-> [w \in OfLength |->
     Smsg({}, Minimum(3) \o PackedGuid(w) \o PackedGuid(w) \o Ints(<<1>>),
          2 * WRITE_PACKED_GUID(w) + 1, 1 + 2 * wwm_packed_guid_size(w))],
   CMSG_ENABLETAXI |-> PlainCmsg(8, <<8>>, 8, 8)]

wrath_FromSmsgPreResurrect ==
  [SMSG_PRE_RESURRECT |-> [w \in OfLength |->
     Smsg({}, Minimum(1) \o PackedGuid(w), WRITE_PACKED_GUID(w), wwm_packed_guid_size(w))],
   SMSG_AURA_UPDATE_ALL |->
     [w \in Wires(Lengths, Counts, {}, {"AURA_FLAG_NOT_CASTER", "AURA_FLAG_DURATION"}) |->
       Smsg(
         Free({"aura_updates"}),
         Counted(wwm_packed_guid_size(w), Minimum(1) \o Null({"aura_updates"}) \o PackedGuid(w))
         \o Endless(
              "aura_updates", w.count, {}, wrath_AuraUpdate(w).read, wrath_AuraUpdate(w).size),
         WRITE_PACKED_GUID(w) + w.count * wrath_AuraUpdate(w).written,
         wwm_packed_guid_size(w) + w.count * wrath_AuraUpdate(w).size)]]

wrath_FromSmsgAuraUpdate ==
  [SMSG_AURA_UPDATE |->
     [w \in Wires(Lengths, {0}, {}, {"AURA_FLAG_NOT_CASTER", "AURA_FLAG_DURATION"}) |->
       Smsg({}, Minimum(9) \o PackedGuid(w) \o wrath_AuraUpdate(w).read,
            WRITE_PACKED_GUID(w) + wrath_AuraUpdate(w).written,
            wwm_packed_guid_size(w) + wrath_AuraUpdate(w).size)],
   SMSG_SERVER_FIRST_ACHIEVEMENT |-> [w \in OfLength |->
     Smsg(Free({"name"}), Minimum(14) \o Null({"name"}) \o Cstring("name", w) \o Ints(<<8, 4, 1>>),
          WRITE_CSTRING(w) + 8 + 4 + 1, 14 + w.len)],
   SMSG_PET_LEARNED_SPELL |-> PlainSmsg(4, <<4>>, 4, 4)]

wrath_FromSmsgPetUnlearnedSpell ==
  [SMSG_PET_UNLEARNED_SPELL |-> PlainSmsg(4, <<4>>, 4, 4),
   CMSG_CHANGE_SEATS_ON_CONTROLLED_VEHICLE |->
     [w \in Wires(Lengths, {0}, {}, wrath_MovementInfoFlags) |->
       Cmsg(
         {},
         Minimum(33) \o PackedGuid(w) \o wrath_MovementInfo(w).read \o PackedGuid(w) \o Ints(<<1>>),
         WRITE_PACKED_GUID(w) + wrath_MovementInfo(w).written + WRITE_PACKED_GUID(w) + 1,
         1 + 2 * wwm_packed_guid_size(w) + wrath_MovementInfo(w).size)],
   CMSG_HEARTH_AND_RESURRECT |-> EmptyCmsg(0),
   SMSG_ON_CANCEL_EXPECTED_RIDE_VEHICLE_AURA |-> EmptySmsg(0),
   SMSG_CRITERIA_DELETED |-> PlainSmsg(4, <<4>>, 4, 4)]

wrath_FromSmsgAchievementDeleted ==
  [SMSG_ACHIEVEMENT_DELETED |-> PlainSmsg(4, <<4>>, 4, 4),
   SMSG_BATTLEGROUND_INFO_THROTTLED |-> EmptySmsg(0),
   SMSG_PLAYER_VEHICLE_DATA |-> [w \in OfLength |->
     Smsg({}, Minimum(5) \o PackedGuid(w) \o Ints(<<4>>),
          WRITE_PACKED_GUID(w) + 4, 4 + wwm_packed_guid_size(w))],
   CMSG_PLAYER_VEHICLE_ENTER |-> PlainCmsg(8, <<8>>, 8, 8)]

wrath_FromCmsgControllerEjectPassenger ==
  [CMSG_CONTROLLER_EJECT_PASSENGER |-> PlainCmsg(8, <<8>>, 8, 8),
   SMSG_PET_GUIDS |-> [w \in OfCount |->
     Smsg(Free({"guids"}),
          Minimum(4) \o Null({"guids"}) \o Ints(<<4>>) \o Calloc("guids", w.count, {})
          \o Ints(Repeat(w.count, 8)), 4 + w.count * 8, 4 + 8 * w.count)],
   SMSG_CLIENTCACHE_VERSION |-> PlainSmsg(4, <<4>>, 4, 4)]

wrath_FromSmsgItemRefundInfoResponse ==
  [SMSG_ITEM_REFUND_INFO_RESPONSE |-> [w \in {Fixed} |->
     Smsg(
       {},
       Minimum(68) \o Ints(<<8, 4, 4, 4>>) \o Each("extra_items", 5, wrath_ItemRefundExtra.read)
       \o Ints(<<4, 4>>), 8 + 3 * 4 + 5 * wrath_ItemRefundExtra.written + 2 * 4, 68)],
   CMSG_ITEM_REFUND_INFO |-> PlainCmsg(8, <<8>>, 8, 8),
   CMSG_ITEM_REFUND |-> PlainCmsg(8, <<8>>, 8, 8)]

wrath_FromSmsgItemRefundResult ==
  [SMSG_ITEM_REFUND_RESULT |->
     [w \in Wires({0}, {0}, {{"ITEM_REFUND_RESULT_SUCCESS", "ITEM_REFUND_RESULT_FAILURE"}}, {}) |->
       Smsg(
         {},
         Minimum(9) \o Ints(<<8, 1>>)
         \o When(Is(w, "ITEM_REFUND_RESULT_SUCCESS"),
                 Ints(<<4, 4, 4>>) \o Each("extra_items", 5, wrath_ItemRefundExtra.read)),
         8 + 1
         + Bytes(Is(w, "ITEM_REFUND_RESULT_SUCCESS"), 3 * 4 + 5 * wrath_ItemRefundExtra.written),
         9 + Bytes(Is(w, "ITEM_REFUND_RESULT_SUCCESS"), 52))],
   CMSG_CORPSE_MAP_POSITION_QUERY |-> PlainCmsg(4, <<4>>, 4, 4),
   SMSG_CORPSE_MAP_POSITION_QUERY_RESPONSE |-> PlainSmsg(16, <<4, 4, 4, 4>>, 4 * 4, 16)]

wrath_FromCmsgCalendarEventSignup ==
  [CMSG_CALENDAR_EVENT_SIGNUP |-> PlainCmsg(9, <<8, 1>>, 8 + 1, 9),
   SMSG_CALENDAR_CLEAR_PENDING_ACTION |-> EmptySmsg(0),
   SMSG_EQUIPMENT_SET_LIST |-> [w \in OfLengthAndCount |->
     Smsg(
       FreeEach("equipment_sets", w.count, wrath_EquipmentSetListItem(w).free),
       Minimum(4) \o Null({"equipment_sets"}) \o Ints(<<4>>)
       \o Array("equipment_sets", w.count, wrath_EquipmentSetListItem(w).free,
                wrath_EquipmentSetListItem(w).read),
       4 + w.count * wrath_EquipmentSetListItem(w).written,
       4 + w.count * wrath_EquipmentSetListItem(w).size)]]

wrath_FromCmsgEquipmentSetSave ==
  [CMSG_EQUIPMENT_SET_SAVE |-> [w \in OfLength |->
     Cmsg(
       Free({"name", "icon_name"}),
       Minimum(159) \o Null({"name", "icon_name"}) \o PackedGuid(w) \o Ints(<<4>>)
       \o Cstring("name", w) \o Cstring("icon_name", w) \o Ints(Repeat(19, 8)),
       WRITE_PACKED_GUID(w) + 4 + 2 * WRITE_CSTRING(w) + 19 * 8,
       158 + 2 * w.len + wwm_packed_guid_size(w))],
   CMSG_UPDATE_PROJECTILE_POSITION |-> [w \in {Fixed} |->
     Cmsg({}, Minimum(25) \o Ints(<<8, 4, 1>>) \o Vector3d.read, 8 + 4 + 1 + Vector3d.written, 25)],
   SMSG_SET_PROJECTILE_POSITION |-> [w \in {Fixed} |->
     Smsg({}, Minimum(21) \o Ints(<<8, 1>>) \o Vector3d.read, 8 + 1 + Vector3d.written, 21)]]

wrath_FromSmsgTalentsInfo ==
  [SMSG_TALENTS_INFO |->
     [w \in Wires({0}, Counts, {{"TALENT_INFO_TYPE_PET", "TALENT_INFO_TYPE_PLAYER"}}, {}) |->
       Smsg(
         FreeIf("talent_type", {"TALENT_INFO_TYPE_PET"}, Free({"talents"}))
         \union FreeIf("talent_type", {"TALENT_INFO_TYPE_PLAYER"},
                       FreeEach("specs", w.count, wrath_TalentInfoSpec(w).free)),
         Minimum(5) \o Null({"talents", "specs"})
         \o Field(1, "talent_type", {"TALENT_INFO_TYPE_PLAYER"}, w) \o Ints(<<4>>)
         \o When(Is(w, "TALENT_INFO_TYPE_PET"),
                 Ints(<<1>>) \o Array("talents", w.count, {}, wrath_InspectTalent.read))
         \o When(Is(w, "TALENT_INFO_TYPE_PLAYER"),
                 Ints(<<1, 1>>)
                 \o Array("specs", w.count, wrath_TalentInfoSpec(w).free,
                          wrath_TalentInfoSpec(w).read)),
         1 + 4 + Bytes(Is(w, "TALENT_INFO_TYPE_PET"), 1 + w.count * wrath_InspectTalent.written)
         + Bytes(
             Is(w, "TALENT_INFO_TYPE_PLAYER"), 2 * 1 + w.count * wrath_TalentInfoSpec(w).written),
         5 + Bytes(Is(w, "TALENT_INFO_TYPE_PET"), 1 + 5 * w.count)
         + Bytes(Is(w, "TALENT_INFO_TYPE_PLAYER"), 2 + w.count * wrath_TalentInfoSpec(w).size))]]

wrath_FromCmsgLearnPreviewTalents ==
  [CMSG_LEARN_PREVIEW_TALENTS |-> [w \in OfCount |->
     Cmsg(
       Free({"talents"}),
       Minimum(4) \o Null({"talents"}) \o Ints(<<4>>)
       \o Array("talents", w.count, {}, wrath_PreviewTalent.read),
       4 + w.count * wrath_PreviewTalent.written, 4 + 8 * w.count)],
   CMSG_LEARN_PREVIEW_TALENTS_PET |-> [w \in OfCount |->
     Cmsg(
       Free({"talents"}),
       Minimum(12) \o Null({"talents"}) \o Ints(<<8, 4>>)
       \o Array("talents", w.count, {}, wrath_PreviewTalent.read),
       8 + 4 + w.count * wrath_PreviewTalent.written, 12 + 8 * w.count)],
   SMSG_ARENA_UNIT_DESTROYED |-> PlainSmsg(8, <<8>>, 8, 8)]

wrath_FromSmsgArenaTeamChangeFailedQueued ==
  [SMSG_ARENA_TEAM_CHANGE_FAILED_QUEUED |-> PlainSmsg(4, <<4>>, 4, 4),
   SMSG_MOVE_GRAVITY_DISABLE |-> [w \in OfLength |->
     Smsg({}, Minimum(5) \o PackedGuid(w) \o Ints(<<4>>),
          WRITE_PACKED_GUID(w) + 4, 4 + wwm_packed_guid_size(w))],
   CMSG_MOVE_GRAVITY_DISABLE_ACK |-> wrath_FromSmsgForceMoveRoot.CMSG_FORCE_MOVE_ROOT_ACK]

wrath_FromSmsgMoveGravityEnable ==
  [SMSG_MOVE_GRAVITY_ENABLE |-> [w \in OfLength |->
     Smsg({}, Minimum(5) \o PackedGuid(w) \o Ints(<<4>>),
          WRITE_PACKED_GUID(w) + 4, 4 + wwm_packed_guid_size(w))],
   CMSG_MOVE_GRAVITY_ENABLE_ACK |-> wrath_FromSmsgForceMoveRoot.CMSG_FORCE_MOVE_ROOT_ACK,
   MSG_MOVE_GRAVITY_CHNG_Server |-> wrath_FromSmsgPetBroken.MSG_MOVE_FEATHER_FALL_Server]

wrath_FromSmsgSplineMoveGravityDisable ==
  [SMSG_SPLINE_MOVE_GRAVITY_DISABLE |-> [w \in OfLength |->
     Smsg({}, Minimum(1) \o PackedGuid(w), WRITE_PACKED_GUID(w), wwm_packed_guid_size(w))],
   SMSG_SPLINE_MOVE_GRAVITY_ENABLE |-> [w \in OfLength |->
     Smsg({}, Minimum(1) \o PackedGuid(w), WRITE_PACKED_GUID(w), wwm_packed_guid_size(w))],
   CMSG_EQUIPMENT_SET_USE |-> [w \in {Fixed} |->
     Cmsg({}, Minimum(190) \o Each("sets", 19, wrath_EquipmentSet.read),
          19 * wrath_EquipmentSet.written, 190)],
   SMSG_EQUIPMENT_SET_USE_RESULT |-> PlainSmsg(1, <<1>>, 1, 1)]

wrath_FromCmsgCharFactionChange ==
  [CMSG_CHAR_FACTION_CHANGE |-> [w \in OfLength |->
     Cmsg(Free({"name"}),
          Minimum(16) \o Null({"name"}) \o Ints(<<8>>) \o Cstring("name", w) \o Ints(Repeat(7, 1)),
          8 + WRITE_CSTRING(w) + 7 * 1, 16 + w.len)]]

wrath_FromSmsgCharFactionChange ==
  [SMSG_CHAR_FACTION_CHANGE |->
     [w \in Wires(Lengths, {0}, {{"WORLD_RESULT_RESPONSE_SUCCESS", "WORLD_RESULT_RESPONSE_FAILURE"}},
                  {}) |->
       Smsg(
         FreeIf("result", {"WORLD_RESULT_RESPONSE_SUCCESS"}, Free({"name"})),
         Minimum(1) \o Null({"name"}) \o Field(1, "result", {"WORLD_RESULT_RESPONSE_SUCCESS"}, w)
         \o When(Is(w, "WORLD_RESULT_RESPONSE_SUCCESS"),
                 Ints(<<8>>) \o Cstring("name", w) \o Ints(Repeat(7, 1))),
         1 + Bytes(Is(w, "WORLD_RESULT_RESPONSE_SUCCESS"), 8 + WRITE_CSTRING(w) + 7 * 1),
         1 + Bytes(Is(w, "WORLD_RESULT_RESPONSE_SUCCESS"), 16 + w.len))],
   SMSG_BATTLEFIELD_MGR_ENTRY_INVITE |-> PlainSmsg(12, <<4, 4, 4>>, 3 * 4, 12)]

wrath_FromCmsgBattlefieldMgrEntryInviteResponse ==
  [CMSG_BATTLEFIELD_MGR_ENTRY_INVITE_RESPONSE |-> PlainCmsg(5, <<4, 1>>, 4 + 1, 5),
   SMSG_BATTLEFIELD_MGR_ENTERED |-> PlainSmsg(7, <<4, 1, 1, 1>>, 4 + 3 * 1, 7),
   SMSG_BATTLEFIELD_MGR_QUEUE_INVITE |-> PlainSmsg(5, <<4, 1>>, 4 + 1, 5)]

wrath_FromCmsgBattlefieldMgrQueueInviteResponse ==
  [CMSG_BATTLEFIELD_MGR_QUEUE_INVITE_RESPONSE |-> PlainCmsg(5, <<4, 1>>, 4 + 1, 5),
   SMSG_BATTLEFIELD_MGR_QUEUE_REQUEST_RESPONSE |->
     PlainSmsg(11, <<4, 4, 1, 1, 1>>, 2 * 4 + 3 * 1, 11),
   SMSG_BATTLEFIELD_MGR_EJECT_PENDING |-> PlainSmsg(4, <<4>>, 4, 4)]

wrath_FromSmsgBattlefieldMgrEjected ==
  [SMSG_BATTLEFIELD_MGR_EJECTED |-> PlainSmsg(7, <<4, 1, 1, 1>>, 4 + 3 * 1, 7),
   CMSG_BATTLEFIELD_MGR_EXIT_REQUEST |-> PlainCmsg(4, <<4>>, 4, 4),
   SMSG_BATTLEFIELD_MGR_STATE_CHANGE |-> PlainSmsg(8, <<4, 4>>, 2 * 4, 8),
   MSG_SET_RAID_DIFFICULTY_Client |-> PlainCmsg(4, <<4>>, 4, 4)]

wrath_FromMsgSetRaidDifficulty ==
  [MSG_SET_RAID_DIFFICULTY_Server |-> PlainSmsg(12, <<4, 4, 4>>, 3 * 4, 12),
   SMSG_TOGGLE_XP_GAIN |-> EmptySmsg(0),
   SMSG_GMRESPONSE_DB_ERROR |-> EmptySmsg(0)]

wrath_FromSmsgGmresponseReceived ==
  [SMSG_GMRESPONSE_RECEIVED |-> [w \in OfLength |->
     Smsg(
       Free({"message"}) \union FreeFixed("response", 4, Free({"text"})),
       Minimum(13) \o Null({"message"}) \o Each("response", 4, Null({"text"})) \o Ints(<<4, 4>>)
       \o Cstring("message", w) \o Each("response", 4, Cstring("text", w)),
       2 * 4 + WRITE_CSTRING(w) + 4 * WRITE_CSTRING(w), 9 + w.len + 4 * (1 + w.len))],
   CMSG_GMRESPONSE_RESOLVE |-> EmptyCmsg(0),
   SMSG_GMRESPONSE_STATUS_UPDATE |-> PlainSmsg(1, <<1>>, 1, 1),
   CMSG_WORLD_STATE_UI_TIMER_UPDATE |-> EmptyCmsg(0)]

wrath_FromSmsgWorldStateUiTimerUpdate ==
  [SMSG_WORLD_STATE_UI_TIMER_UPDATE |-> PlainSmsg(4, <<4>>, 4, 4),
   CMSG_CHAR_RACE_CHANGE |-> wrath_FromCmsgCharFactionChange.CMSG_CHAR_FACTION_CHANGE,
   SMSG_TALENTS_INVOLUNTARILY_RESET |-> PlainSmsg(1, <<1>>, 1, 1)]

wrath_FromCmsgReadyForAccountDataTimes ==
  [CMSG_READY_FOR_ACCOUNT_DATA_TIMES |-> EmptyCmsg(0),
   CMSG_QUERY_QUESTS_COMPLETED |-> EmptyCmsg(0),
   SMSG_QUERY_QUESTS_COMPLETED_RESPONSE |-> [w \in OfCount |->
     Smsg(
       Free({"reward_quests"}),
       Minimum(4) \o Null({"reward_quests"}) \o Ints(<<4>>)
       \o Calloc("reward_quests", w.count, {}) \o Ints(Repeat(w.count, 4)),
       4 + w.count * 4, 4 + 4 * w.count)],
   CMSG_GM_REPORT_LAG |-> [w \in {Fixed} |->
     Cmsg({}, Minimum(20) \o Ints(<<4, 4>>) \o Vector3d.read, 2 * 4 + Vector3d.written, 20)],
   SMSG_CORPSE_NOT_IN_INSTANCE |-> EmptySmsg(0)]

wrath_FromSmsgCameraShake ==
  [SMSG_CAMERA_SHAKE |-> PlainSmsg(8, <<4, 4>>, 2 * 4, 8),
   SMSG_SOCKET_GEMS_RESULT |-> PlainSmsg(20, <<8, 4, 4, 4>>, 8 + 3 * 4, 20),
   SMSG_REDIRECT_CLIENT |-> PlainSmsg(30, <<4, 2, 4>> \o Repeat(20, 1), 4 + 2 + 4 + 20, 30)]

wrath_FromSmsgMoveSetCollisionHgt ==
  [SMSG_MOVE_SET_COLLISION_HGT |-> [w \in OfLength |->
     Smsg({}, Minimum(9) \o PackedGuid(w) \o Ints(<<4, 4>>),
          WRITE_PACKED_GUID(w) + 2 * 4, 8 + wwm_packed_guid_size(w))],
   CMSG_MOVE_SET_COLLISION_HGT_ACK |->
     wrath_FromSmsgForceRunSpeedChange.CMSG_FORCE_RUN_SPEED_CHANGE_ACK]

wrath_FromSmsgMultipleMoves ==
  [SMSG_MULTIPLE_MOVES |-> [w \in OfLengthAndCount |->
     Smsg(
       Free({"moves"}),
       Counted(4, Minimum(4) \o Null({"moves"}) \o Ints(<<4>>))
       \o Endless(
            "moves", w.count, {}, wrath_MiniMoveMessage(w).read, wrath_MiniMoveMessage(w).size),
       4 + w.count * wrath_MiniMoveMessage(w).written,
       4 + w.count * wrath_MiniMoveMessage(w).size)]]

wrath_HighGroups ==
  <<wrath_FromSmsgInvalidatePlayer, wrath_FromSmsgUpdateLastInstance,
    wrath_FromMsgRaidReadyCheck, wrath_FromSmsgPetActionSound, wrath_FromMsgSetDungeonDifficulty,
    wrath_FromSmsgChatPlayerAmbiguous, wrath_FromSmsgSpellUpdateChainTargets,
    wrath_FromSmsgDefenseMessage, wrath_FromSmsgMotd, wrath_FromSmsgMoveSetCanFly,
    wrath_FromCmsgMoveSetFly, wrath_FromSmsgArenaTeamQueryResponse,
    wrath_FromSmsgArenaTeamRoster, wrath_FromSmsgArenaTeamInvite, wrath_FromCmsgArenaTeamRemove,
    wrath_FromSmsgArenaTeamEvent, wrath_FromCmsgBattlemasterJoinArena,
    wrath_FromMsgMoveStopAscend, wrath_FromCmsgLfgJoin, wrath_FromCmsgSearchLfgLeave,
    wrath_FromSmsgUpdateLfgList, wrath_FromSmsgLfgProposalUpdate,
    wrath_FromSmsgLfgRoleCheckUpdate, wrath_FromSmsgLfgJoinResult, wrath_FromSmsgLfgQueueStatus,
    wrath_FromSmsgLfgUpdatePlayer, wrath_FromSmsgLfgUpdateParty, wrath_FromCmsgLfgSetRoles,
    wrath_FromCmsgLfdPlayerLockInfoRequest, wrath_FromCmsgLfdPartyLockInfoRequest,
    wrath_FromCmsgSetTitle, wrath_FromMsgInspectArenaTeams, wrath_FromMsgMoveSetFlightSpeed,
    wrath_FromSmsgForceFlightSpeedChange, wrath_FromCmsgForceFlightBackSpeedChangeAck,
    wrath_FromSmsgFlightSplineSync, wrath_FromCmsgRealmSplit, wrath_FromCmsgTimeSyncResp,
    wrath_FromMsgMoveStartDescend, wrath_FromMsgRaidReadyCheckConfirm,
    wrath_FromSmsgGmMessagechat, wrath_FromCmsgCommentatorEnable, wrath_FromSmsgKickReason,
    wrath_FromCmsgComplain, wrath_FromSmsgFeatureSystemStatus,
    wrath_FromCmsgGetChannelMemberCount, wrath_FromCmsgGuildBankerActivate,
    wrath_FromSmsgGuildBankList, wrath_FromCmsgGuildBankSwapItems, wrath_FromCmsgGuildBankBuyTab,
    wrath_FromCmsgGuildBankWithdrawMoney, wrath_FromCmsgSetChannelWatch,
    wrath_FromSmsgUserlistRemove, wrath_FromCmsgClearChannelWatch, wrath_FromCmsgSpellclick,
    wrath_FromMsgGuildBankMoneyWithdrawn, wrath_FromCmsgGetMirrorimageData,
    wrath_FromCmsgOptOutOfLoot, wrath_FromCmsgSetGuildBankText, wrath_FromSmsgTotemCreated,
    wrath_FromSmsgQuestgiverStatusMultiple, wrath_FromSmsgSetPlayerDeclinedNamesResult,
    wrath_FromCmsgAcceptLevelGrant, wrath_FromSmsgSplineMoveUnsetFlying,
    wrath_FromCmsgCalendarGetEvent, wrath_FromCmsgCalendarAddEvent,
    wrath_FromCmsgCalendarUpdateEvent, wrath_FromCmsgCalendarCopyEvent,
    wrath_FromCmsgCalendarEventRemoveInvite, wrath_FromSmsgCalendarSendCalendar,
    wrath_FromSmsgCalendarSendEvent, wrath_FromSmsgCalendarFilterGuild,
    wrath_FromSmsgCalendarEventInvite, wrath_FromSmsgCalendarEventStatus,
    wrath_FromSmsgCalendarRaidLockoutAdded, wrath_FromSmsgCalendarEventInviteAlert,
    wrath_FromSmsgCalendarEventRemovedAlert, wrath_FromSmsgCalendarEventModeratorStatusAlert,
    wrath_FromSmsgCalendarSendNumPending, wrath_FromSmsgCalendarEventInviteNotes,
    wrath_FromCmsgUpdateMissileTrajectory, wrath_FromSmsgAchievementEarned,
    wrath_FromCmsgDismissControlledVehicle, wrath_FromCmsgCharCustomize,
    wrath_FromSmsgCharCustomize, wrath_FromCmsgRequestVehicleSwitchSeat,
    wrath_FromSmsgPowerUpdate, wrath_FromSmsgHighestThreatUpdate, wrath_FromSmsgThreatRemove,
    wrath_FromSmsgResyncRunes, wrath_FromCmsgDismissCritter, wrath_FromSmsgModifyCooldown,
    wrath_FromSmsgPreResurrect, wrath_FromSmsgAuraUpdate, wrath_FromSmsgPetUnlearnedSpell,
    wrath_FromSmsgAchievementDeleted, wrath_FromCmsgControllerEjectPassenger,
    wrath_FromSmsgItemRefundInfoResponse, wrath_FromSmsgItemRefundResult,
    wrath_FromCmsgCalendarEventSignup, wrath_FromCmsgEquipmentSetSave, wrath_FromSmsgTalentsInfo,
    wrath_FromCmsgLearnPreviewTalents, wrath_FromSmsgArenaTeamChangeFailedQueued,
    wrath_FromSmsgMoveGravityEnable, wrath_FromSmsgSplineMoveGravityDisable,
    wrath_FromCmsgCharFactionChange, wrath_FromSmsgCharFactionChange,
    wrath_FromCmsgBattlefieldMgrEntryInviteResponse,
    wrath_FromCmsgBattlefieldMgrQueueInviteResponse, wrath_FromSmsgBattlefieldMgrEjected,
    wrath_FromMsgSetRaidDifficulty, wrath_FromSmsgGmresponseReceived,
    wrath_FromSmsgWorldStateUiTimerUpdate, wrath_FromCmsgReadyForAccountDataTimes,
    wrath_FromSmsgCameraShake, wrath_FromSmsgMoveSetCollisionHgt, wrath_FromSmsgMultipleMoves>>

wrath_Messages == wrath_LowGroups \o wrath_MidGroups \o wrath_HighGroups
=============================================================================
