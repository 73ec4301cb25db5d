----------------------- MODULE CppWrathMessagesHigh -----------------------
(*****************************************************************************)
(* The messages of the 3.3.5 version of the world protocol from              *)
(* SMSG_SPLINE_MOVE_SET_RUN_MODE to SMSG_MULTIPLE_MOVES, in the order of     *)
(* src/wow_world_messages_cpp/src/wrath.cpp.                                 *)
(*                                                                           *)
(* A message is a function from its wires to records of what its functions   *)
(* do on them. Neighbours are defined together, in a record named for the    *)
(* first. A message of which every function does what that of an earlier     *)
(* message does is defined as that message.                                  *)
(*****************************************************************************)
EXTENDS CppWrathMessagesMid

wrath_FromSmsgSplineMoveSetRunMode ==
  [SMSG_SPLINE_MOVE_SET_RUN_MODE |-> [w \in OfLength |->
     Smsg(PackedGuid(w), write_packed_guid(w), wwm_packed_guid_size(w))],
   SMSG_SPLINE_MOVE_SET_WALK_MODE |-> [w \in OfLength |->
     Smsg(PackedGuid(w), write_packed_guid(w), wwm_packed_guid_size(w))],
   CMSG_ACTIVATETAXIEXPRESS |-> [w \in OfCount |->
     Cmsg(Ints(<<8, 4>> \o Repeat(w.count, 4)), 8 + 4 + w.count * 4, 12 + 4 * w.count)],
   CMSG_SET_FACTION_INACTIVE |-> PlainCmsg(<<2, 1>>, 2 + 1, 3),
   CMSG_SET_WATCHED_FACTION |-> PlainCmsg(<<2>>, 2, 2)]

wrath_FromMsgMoveTimeSkipped ==
  [MSG_MOVE_TIME_SKIPPED_Server |-> [w \in OfLength |->
     Smsg(PackedGuid(w) \o Ints(<<4>>), write_packed_guid(w) + 4, 4 + wwm_packed_guid_size(w))],
   SMSG_SPLINE_MOVE_ROOT |-> PlainSmsg(<<8>>, 8, 8),
   SMSG_INVALIDATE_PLAYER |-> PlainSmsg(<<8>>, 8, 8),
   CMSG_RESET_INSTANCES |-> EmptyCmsg(0),
   SMSG_INSTANCE_RESET |-> PlainSmsg(<<4>>, 4, 4),
   SMSG_INSTANCE_RESET_FAILED |-> PlainSmsg(<<4, 4>>, 2 * 4, 8)]

wrath_FromSmsgUpdateLastInstance ==
  [SMSG_UPDATE_LAST_INSTANCE |-> PlainSmsg(<<4>>, 4, 4),
   MSG_RAID_TARGET_UPDATE_Client |->
     [w \in Wires(
              {0}, {0}, {{"RaidTargetIndex::UNKNOWN0", "RaidTargetIndex::REQUEST_ICONS"}}, {}) |->
       Cmsg(Ints(<<1>>) \o When(Is(w, "RaidTargetIndex::UNKNOWN0"), Ints(<<8>>)),
            1 + Bytes(Is(w, "RaidTargetIndex::UNKNOWN0"), 8),
            1 + Bytes(Is(w, "RaidTargetIndex::UNKNOWN0"), 8))],
   MSG_RAID_TARGET_UPDATE_Server |->
     [w \in Wires(
              {0}, {0}, {{"RaidTargetUpdateType::FULL", "RaidTargetUpdateType::PARTIAL"}}, {}) |->
       Smsg(
         Ints(<<1>>)
         \o When(Is(w, "RaidTargetUpdateType::FULL"), Each(8, wrath_RaidTargetUpdate.read))
         \o When(Is(w, "RaidTargetUpdateType::PARTIAL"), wrath_RaidTargetUpdate.read),
         1 + Bytes(Is(w, "RaidTargetUpdateType::FULL"), 8 * wrath_RaidTargetUpdate.written)
         + Bytes(Is(w, "RaidTargetUpdateType::PARTIAL"), wrath_RaidTargetUpdate.written),
         1 + Bytes(Is(w, "RaidTargetUpdateType::FULL"), 72)
         + Bytes(Is(w, "RaidTargetUpdateType::PARTIAL"), 9))]]

wrath_FromMsgRaidReadyCheck ==
  [MSG_RAID_READY_CHECK_Client |-> [w \in Wires({0}, {0}, {}, {"answer"}) |->
     Cmsg(Optional(Ints(<<1>>)), Bytes(Is(w, "answer"), 1), Bytes(Is(w, "answer"), 1))],
   MSG_RAID_READY_CHECK_Server |-> [w \in Wires({0}, {0}, {}, {"state_check"}) |->
     Smsg(Optional(Ints(<<8, 1>>)),
          Bytes(Is(w, "state_check"), 8 + 1), Bytes(Is(w, "state_check"), 9))],
   SMSG_PET_ACTION_SOUND |-> PlainSmsg(<<8, 4>>, 8 + 4, 12),
   SMSG_PET_DISMISS_SOUND |-> [w \in {Fixed} |->
     Smsg(Ints(<<4>>) \o Vector3d.read, 4 + Vector3d.written, 16)]]

wrath_FromSmsgGmTicketStatusUpdate ==
  [SMSG_GM_TICKET_STATUS_UPDATE |-> PlainSmsg(<<4>>, 4, 4),
   MSG_SET_DUNGEON_DIFFICULTY_Client |-> PlainCmsg(<<4>>, 4, 4),
   MSG_SET_DUNGEON_DIFFICULTY_Server |-> PlainSmsg(<<4, 4, 4>>, 3 * 4, 12),
   CMSG_GMSURVEY_SUBMIT |-> [w \in OfLength |->
     Cmsg(Ints(<<4>>) \o Each(10, wrath_GmSurveyQuestion(w).read) \o Cstring(w),
          4 + 10 * wrath_GmSurveyQuestion(w).written + write_cstring(w),
          5 + w.len + 10 * wrath_GmSurveyQuestion(w).size)],
   SMSG_UPDATE_INSTANCE_OWNERSHIP |-> PlainSmsg(<<4>>, 4, 4)]

wrath_FromSmsgChatPlayerAmbiguous ==
  [SMSG_CHAT_PLAYER_AMBIGUOUS |-> [w \in OfLength |->
     Smsg(Cstring(w), write_cstring(w), 1 + w.len)],
   SMSG_SPELLINSTAKILLLOG |-> PlainSmsg(<<8, 8, 4>>, 2 * 8 + 4, 20),
   SMSG_SPELL_UPDATE_CHAIN_TARGETS |-> [w \in OfCount |->
     Smsg(Ints(<<8, 4, 4>> \o Repeat(w.count, 8)), 8 + 2 * 4 + w.count * 8, 16 + 8 * w.count)]]

wrath_FromSmsgSpellsteallog ==
  [SMSG_SPELLSTEALLOG |-> [w \in OfLengthAndCount |->
     Smsg(
       PackedGuid(w) \o PackedGuid(w) \o Ints(<<4, 1, 4>>) \o Each(w.count, wrath_SpellSteal.read),
       2 * write_packed_guid(w) + 4 + 1 + 4 + w.count * wrath_SpellSteal.written,
       9 + 2 * wwm_packed_guid_size(w) + 5 * w.count)],
   SMSG_DEFENSE_MESSAGE |-> [w \in OfLength |->
     Smsg(Ints(<<4>>) \o SizedCstring(w), 4 + write_sized_cstring(w), 9 + w.len)],
   SMSG_INSTANCE_DIFFICULTY |-> PlainSmsg(<<4, 4>>, 2 * 4, 8),
   SMSG_MOTD |-> [w \in OfLengthAndCount |->
     Smsg(Ints(<<4>>) \o Each(w.count, Cstring(w)),
          4 + w.count * write_cstring(w), 4 + w.count * (1 + w.len))]]

wrath_FromCmsgMoveSetCanTransitionBetweenSwimAndFlyAck ==
  [CMSG_MOVE_SET_CAN_TRANSITION_BETWEEN_SWIM_AND_FLY_ACK |->
     wrath_FromCmsgForceRunSpeedChangeAck.CMSG_FORCE_RUN_SPEED_CHANGE_ACK,
   SMSG_MOVE_SET_CAN_FLY |-> [w \in OfLength |->
     Smsg(PackedGuid(w) \o Ints(<<4>>), write_packed_guid(w) + 4, 4 + wwm_packed_guid_size(w))],
   SMSG_MOVE_UNSET_CAN_FLY |-> [w \in OfLength |->
     Smsg(PackedGuid(w) \o Ints(<<4>>), write_packed_guid(w) + 4, 4 + wwm_packed_guid_size(w))],
   CMSG_MOVE_SET_CAN_FLY_ACK |-> wrath_FromCmsgMoveHoverAck.CMSG_MOVE_HOVER_ACK]

wrath_FromCmsgMoveSetFly ==
  [CMSG_MOVE_SET_FLY |-> wrath_FromCmsgMoveSplineDone.CMSG_MOVE_FALL_RESET,
   CMSG_SOCKET_GEMS |-> PlainCmsg(<<8, 8, 8, 8>>, 8 + 3 * 8, 32),
   SMSG_ARENA_TEAM_COMMAND_RESULT |-> [w \in OfLength |->
     Smsg(Ints(<<4>>) \o Cstring(w) \o Cstring(w) \o Ints(<<4>>),
          4 + 2 * write_cstring(w) + 4, 10 + 2 * w.len)]]

wrath_FromSmsgArenaTeamQueryResponse ==
  [SMSG_ARENA_TEAM_QUERY_RESPONSE |-> [w \in OfLength |->
     Smsg(Ints(<<4>>) \o Cstring(w) \o Ints(<<1>> \o Repeat(5, 4)),
          4 + write_cstring(w) + 1 + 5 * 4, 26 + w.len)],
   CMSG_ARENA_TEAM_ROSTER |-> PlainCmsg(<<4>>, 4, 4),
   SMSG_ARENA_TEAM_ROSTER |-> [w \in OfLengthAndCount |->
     Smsg(Ints(<<4, 1, 4, 1>>) \o Each(w.count, wrath_ArenaTeamMember(w).read),
          4 + 1 + 4 + 1 + w.count * wrath_ArenaTeamMember(w).written,
          10 + w.count * wrath_ArenaTeamMember(w).size)]]

wrath_FromCmsgArenaTeamInvite ==
  [CMSG_ARENA_TEAM_INVITE |-> [w \in OfLength |->
     Cmsg(Ints(<<4>>) \o Cstring(w), 4 + write_cstring(w), 5 + w.len)],
   SMSG_ARENA_TEAM_INVITE |-> [w \in OfLength |->
     Smsg(Cstring(w) \o Cstring(w), 2 * write_cstring(w), 2 + 2 * w.len)],
   CMSG_ARENA_TEAM_ACCEPT |-> EmptyCmsg(0),
   CMSG_ARENA_TEAM_DECLINE |-> EmptyCmsg(0),
   CMSG_ARENA_TEAM_LEAVE |-> PlainCmsg(<<4>>, 4, 4),
   CMSG_ARENA_TEAM_REMOVE |-> [w \in OfLength |->
     Cmsg(Ints(<<4>>) \o Cstring(w), 4 + write_cstring(w), 5 + w.len)]]

wrath_FromCmsgArenaTeamDisband ==
  [CMSG_ARENA_TEAM_DISBAND |-> PlainCmsg(<<4>>, 4, 4),
   CMSG_ARENA_TEAM_LEADER |-> [w \in OfLength |->
     Cmsg(Ints(<<4>>) \o Cstring(w), 4 + write_cstring(w), 5 + w.len)]]

wrath_FromSmsgArenaTeamEvent ==
  [SMSG_ARENA_TEAM_EVENT |->
     [w \in Wires(Lengths, Counts,
                  {{"ArenaTeamEvent::JOIN", "ArenaTeamEvent::LEAVE", "ArenaTeamEvent::REMOVE",
                    "ArenaTeamEvent::LEADER_IS", "ArenaTeamEvent::LEADER_CHANGED"}}, {}) |->
       Smsg(
         Ints(<<1>>) \o When(Is(w, "ArenaTeamEvent::JOIN"), Cstring(w) \o Cstring(w) \o Ints(<<8>>))
         \o When(Is(w, "ArenaTeamEvent::LEAVE"), Cstring(w) \o Ints(<<8>>))
         \o When(Is(w, "ArenaTeamEvent::REMOVE"), Cstring(w) \o Cstring(w) \o Cstring(w))
         \o When(Is(w, "ArenaTeamEvent::LEADER_IS"), Cstring(w) \o Cstring(w))
         \o When(Is(w, "ArenaTeamEvent::LEADER_CHANGED"), Cstring(w) \o Cstring(w)) \o Ints(<<1>>)
         \o Each(U8(w.count), Cstring(w)),
         1 + Bytes(Is(w, "ArenaTeamEvent::JOIN"), 2 * write_cstring(w) + 8)
         + Bytes(Is(w, "ArenaTeamEvent::LEAVE"), write_cstring(w) + 8)
         + Bytes(Is(w, "ArenaTeamEvent::REMOVE"), 3 * write_cstring(w))
         + Bytes(Is(w, "ArenaTeamEvent::LEADER_IS"), 2 * write_cstring(w))
         + Bytes(Is(w, "ArenaTeamEvent::LEADER_CHANGED"), 2 * write_cstring(w)) + 1
         + w.count * write_cstring(w),
         2 + Bytes(Is(w, "ArenaTeamEvent::JOIN"), 10 + 2 * w.len)
         + Bytes(Is(w, "ArenaTeamEvent::LEAVE"), 9 + w.len)
         + Bytes(Is(w, "ArenaTeamEvent::REMOVE"), 3 + 3 * w.len)
         + Bytes(Is(w, "ArenaTeamEvent::LEADER_IS"), 2 + 2 * w.len)
         + Bytes(Is(w, "ArenaTeamEvent::LEADER_CHANGED"), 2 + 2 * w.len) + w.count * (1 + w.len))]]

wrath_FromCmsgBattlemasterJoinArena ==
  [CMSG_BATTLEMASTER_JOIN_ARENA |-> PlainCmsg(<<8, 1, 1, 1>>, 8 + 3 * 1, 11),
   MSG_MOVE_START_ASCEND_cmsg |-> [w \in Wires(Lengths, {0}, {}, wrath_MovementInfoFlags) |->
     Client(wrath_MSG_MOVE_START_ASCEND(w))],
   MSG_MOVE_START_ASCEND_smsg |-> [w \in Wires(Lengths, {0}, {}, wrath_MovementInfoFlags) |->
     Server(wrath_MSG_MOVE_START_ASCEND(w))],
   MSG_MOVE_STOP_ASCEND_cmsg |-> [w \in Wires(Lengths, {0}, {}, wrath_MovementInfoFlags) |->
     Client(wrath_MSG_MOVE_STOP_ASCEND(w))],
   MSG_MOVE_STOP_ASCEND_smsg |-> [w \in Wires(Lengths, {0}, {}, wrath_MovementInfoFlags) |->
     Server(wrath_MSG_MOVE_STOP_ASCEND(w))]]

wrath_FromSmsgArenaTeamStats ==
  [SMSG_ARENA_TEAM_STATS |-> PlainSmsg(Repeat(7, 4), 7 * 4, 28),
   CMSG_LFG_JOIN |-> [w \in OfLengthAndCount |->
     Cmsg(
       Ints(<<4, 1, 1, 1>> \o Repeat(U8(w.count), 4) \o <<1>> \o Repeat(U8(w.count), 1))
       \o Cstring(w),
       4 + 3 * 1 + w.count * 4 + 1 + w.count + write_cstring(w),
       9 + w.len + 4 * w.count + w.count)],
   CMSG_LFG_LEAVE |-> EmptyCmsg(0),
   CMSG_SEARCH_LFG_JOIN |-> PlainCmsg(<<4>>, 4, 4)]

wrath_FromCmsgSearchLfgLeave ==
  [CMSG_SEARCH_LFG_LEAVE |-> PlainCmsg(<<4>>, 4, 4),
   SMSG_UPDATE_LFG_LIST |->
     [w \in Wires(Lengths, Counts, {{"LfgListUpdateType::PARTIAL", "LfgListUpdateType::FULL"}},
                  wrath_LfgListPlayerFlags) |->
       Smsg(
         Ints(<<4, 4, 1>>)
         \o When(Is(w, "LfgListUpdateType::PARTIAL"), Ints(<<4>> \o Repeat(w.count, 8)))
         \o Ints(<<4, 4>>) \o Each(w.count, wrath_LfgListGroup(w).read) \o Ints(<<4, 4>>)
         \o Each(w.count, wrath_LfgListPlayer(w).read),
         2 * 4 + 1 + Bytes(Is(w, "LfgListUpdateType::PARTIAL"), 4 + w.count * 8) + 2 * 4
         + w.count * wrath_LfgListGroup(w).written + 2 * 4
         + w.count * wrath_LfgListPlayer(w).written,
         25 + Bytes(Is(w, "LfgListUpdateType::PARTIAL"), 4 + 8 * w.count)
         + w.count * wrath_LfgListGroup(w).size + w.count * wrath_LfgListPlayer(w).size)]]

wrath_FromSmsgLfgProposalUpdate ==
  [SMSG_LFG_PROPOSAL_UPDATE |-> [w \in OfCount |->
     Smsg(Ints(<<4, 1, 4, 4, 1, 1>>) \o Each(U8(w.count), wrath_LfgProposal.read),
          4 + 1 + 2 * 4 + 2 * 1 + w.count * wrath_LfgProposal.written, 15 + 9 * w.count)],
   CMSG_LFG_PROPOSAL_RESULT |-> PlainCmsg(<<4, 1>>, 4 + 1, 5),
   SMSG_LFG_ROLE_CHECK_UPDATE |-> [w \in OfCount |->
     Smsg(
       Ints(<<4, 1, 1>> \o Repeat(U8(w.count), 4) \o <<1>>)
       \o Each(U8(w.count), wrath_LfgRole.read),
       4 + 2 * 1 + w.count * 4 + 1 + w.count * wrath_LfgRole.written,
       7 + 4 * w.count + 14 * w.count)]]

wrath_FromSmsgLfgJoinResult ==
  [SMSG_LFG_JOIN_RESULT |-> [w \in OfCount |->
     Smsg(
       Counted(8, Ints(<<4, 4>>))
       \o Endless(w.count, wrath_LfgJoinPlayer(w).read, wrath_LfgJoinPlayer(w).size),
       2 * 4 + w.count * wrath_LfgJoinPlayer(w).written,
       8 + w.count * wrath_LfgJoinPlayer(w).size)],
   SMSG_LFG_QUEUE_STATUS |-> PlainSmsg(Repeat(6, 4) \o <<1, 1, 1, 4>>, 6 * 4 + 3 * 1 + 4, 31),
   CMSG_SET_LFG_COMMENT |-> [w \in OfLength |->
     Cmsg(Cstring(w), write_cstring(w), 1 + w.len)]]

wrath_FromSmsgLfgUpdatePlayer ==
  [SMSG_LFG_UPDATE_PLAYER |->
     [w \in Wires(Lengths, Counts, {{"LfgJoinStatus::JOINED", "LfgJoinStatus::NOT_JOINED"}}, {}) |->
       Smsg(
         Ints(<<1, 1>>)
         \o When(Is(w, "LfgJoinStatus::JOINED"),
                 Ints(<<1, 1, 1, 1>> \o Repeat(U8(w.count), 4)) \o Cstring(w)),
         2 * 1 + Bytes(Is(w, "LfgJoinStatus::JOINED"), 4 * 1 + w.count * 4 + write_cstring(w)),
         2 + Bytes(Is(w, "LfgJoinStatus::JOINED"), 5 + w.len + 4 * w.count))],
   SMSG_LFG_UPDATE_PARTY |->
     [w \in Wires(Lengths, Counts, {{"LfgJoinStatus::JOINED", "LfgJoinStatus::NOT_JOINED"}}, {}) |->
       Smsg(
         Ints(<<1, 1>>)
         \o When(Is(w, "LfgJoinStatus::JOINED"),
                 Ints(Repeat(5, 1) \o Repeat(U8(w.count), 4)) \o Cstring(w)),
         2 * 1 + Bytes(Is(w, "LfgJoinStatus::JOINED"), 5 * 1 + w.count * 4 + write_cstring(w)),
         2 + Bytes(Is(w, "LfgJoinStatus::JOINED"), 6 + w.len + 4 * w.count))]]

wrath_FromSmsgLfgUpdateSearch ==
  [SMSG_LFG_UPDATE_SEARCH |-> PlainSmsg(<<1>>, 1, 1),
   CMSG_LFG_SET_ROLES |-> PlainCmsg(<<1>>, 1, 1),
   CMSG_LFG_SET_BOOT_VOTE |-> PlainCmsg(<<1>>, 1, 1),
   SMSG_LFG_BOOT_PROPOSAL_UPDATE |-> [w \in OfLength |->
     Smsg(Ints(<<1, 1, 1, 8, 4, 4, 4, 4>>) \o Cstring(w),
          3 * 1 + 8 + 4 * 4 + write_cstring(w), 28 + w.len)],
   CMSG_LFD_PLAYER_LOCK_INFO_REQUEST |-> EmptyCmsg(0)]

wrath_FromSmsgLfgPlayerInfo ==
  [SMSG_LFG_PLAYER_INFO |-> [w \in OfCount |->
     Smsg(
       Ints(<<1>>) \o Each(U8(w.count), wrath_LfgAvailableDungeon(w).read) \o Ints(<<1>>)
       \o Each(U8(w.count), wrath_LfgJoinLockedDungeon.read),
       1 + w.count * wrath_LfgAvailableDungeon(w).written + 1
       + w.count * wrath_LfgJoinLockedDungeon.written,
       2 + 8 * w.count + w.count * wrath_LfgAvailableDungeon(w).size)],
   CMSG_LFG_TELEPORT |-> PlainCmsg(<<1>>, 1, 1),
   CMSG_LFD_PARTY_LOCK_INFO_REQUEST |-> EmptyCmsg(0),
   SMSG_LFG_PARTY_INFO |-> [w \in OfCount |->
     Smsg(Ints(<<1>>) \o Each(U8(w.count), wrath_LfgPartyInfo(w).read),
          1 + w.count * wrath_LfgPartyInfo(w).written, 1 + w.count * wrath_LfgPartyInfo(w).size)]]

wrath_FromSmsgTitleEarned ==
  [SMSG_TITLE_EARNED |-> PlainSmsg(<<4, 4>>, 2 * 4, 8),
   CMSG_SET_TITLE |-> PlainCmsg(<<4>>, 4, 4),
   CMSG_CANCEL_MOUNT_AURA |-> EmptyCmsg(0),
   SMSG_ARENA_ERROR |-> PlainSmsg(<<4, 1>>, 4 + 1, 5),
   MSG_INSPECT_ARENA_TEAMS_Client |-> PlainCmsg(<<8>>, 8, 8)]

wrath_FromMsgInspectArenaTeams ==
  [MSG_INSPECT_ARENA_TEAMS_Server |-> PlainSmsg(<<8, 1>> \o Repeat(6, 4), 8 + 1 + 6 * 4, 33),
   SMSG_DEATH_RELEASE_LOC |-> [w \in {Fixed} |->
     Smsg(Ints(<<4>>) \o Vector3d.read, 4 + Vector3d.written, 16)],
   CMSG_CANCEL_TEMP_ENCHANTMENT |-> PlainCmsg(<<4>>, 4, 4),
   SMSG_FORCED_DEATH_UPDATE |-> EmptySmsg(0),
   MSG_MOVE_SET_FLIGHT_SPEED_Server |->
     [w \in Wires(Lengths, {0}, {}, wrath_MovementInfoFlags) |->
       Smsg(PackedGuid(w) \o wrath_MovementInfo(w).read \o Ints(<<4>>),
            write_packed_guid(w) + wrath_MovementInfo(w).written + 4,
            4 + wwm_packed_guid_size(w) + wrath_MovementInfo(w).size)]]

wrath_FromMsgMoveSetFlightBackSpeed ==
  [MSG_MOVE_SET_FLIGHT_BACK_SPEED_cmsg |->
     [w \in Wires(Lengths, {0}, {}, wrath_MovementInfoFlags) |->
       Client(wrath_MSG_MOVE_SET_FLIGHT_BACK_SPEED(w))],
   MSG_MOVE_SET_FLIGHT_BACK_SPEED_smsg |->
     [w \in Wires(Lengths, {0}, {}, wrath_MovementInfoFlags) |->
       Server(wrath_MSG_MOVE_SET_FLIGHT_BACK_SPEED(w))],
   SMSG_FORCE_FLIGHT_SPEED_CHANGE |-> [w \in OfLength |->
     Smsg(
       PackedGuid(w) \o Ints(<<4, 4>>), write_packed_guid(w) + 2 * 4, 8 + wwm_packed_guid_size(w))],
   CMSG_FORCE_FLIGHT_SPEED_CHANGE_ACK |-> wrath_FromCmsgMoveHoverAck.CMSG_MOVE_HOVER_ACK,
   SMSG_FORCE_FLIGHT_BACK_SPEED_CHANGE |-> [w \in OfLength |->
     Smsg(
       PackedGuid(w) \o Ints(<<4, 4>>), write_packed_guid(w) + 2 * 4, 8 + wwm_packed_guid_size(w))]]

wrath_FromCmsgForceFlightBackSpeedChangeAck ==
  [CMSG_FORCE_FLIGHT_BACK_SPEED_CHANGE_ACK |-> wrath_FromCmsgMoveHoverAck.CMSG_MOVE_HOVER_ACK,
   SMSG_SPLINE_SET_FLIGHT_SPEED |-> [w \in OfLength |->
     Smsg(PackedGuid(w) \o Ints(<<4>>), write_packed_guid(w) + 4, 4 + wwm_packed_guid_size(w))],
   SMSG_SPLINE_SET_FLIGHT_BACK_SPEED |-> [w \in OfLength |->
     Smsg(PackedGuid(w) \o Ints(<<4>>), write_packed_guid(w) + 4, 4 + wwm_packed_guid_size(w))],
   SMSG_FLIGHT_SPLINE_SYNC |-> [w \in OfLength |->
     Smsg(Ints(<<4>>) \o PackedGuid(w), 4 + write_packed_guid(w), 4 + wwm_packed_guid_size(w))]]

wrath_FromCmsgSetTaxiBenchmarkMode ==
  [CMSG_SET_TAXI_BENCHMARK_MODE |-> PlainCmsg(<<1>>, 1, 1),
   SMSG_REALM_SPLIT |-> [w \in OfLength |->
     Smsg(Ints(<<4, 4>>) \o Cstring(w), 2 * 4 + write_cstring(w), 9 + w.len)],
   CMSG_REALM_SPLIT |-> PlainCmsg(<<4>>, 4, 4),
   CMSG_MOVE_CHNG_TRANSPORT |-> wrath_FromCmsgMoveSplineDone.CMSG_MOVE_FALL_RESET,
   MSG_PARTY_ASSIGNMENT_Client |-> PlainCmsg(<<1, 1, 8>>, 2 * 1 + 8, 10)]

wrath_FromSmsgTimeSyncReq ==
  [SMSG_TIME_SYNC_REQ |-> PlainSmsg(<<4>>, 4, 4),
   CMSG_TIME_SYNC_RESP |-> PlainCmsg(<<4, 4>>, 2 * 4, 8),
   SMSG_RESET_FAILED_NOTIFY |-> PlainSmsg(<<4>>, 4, 4),
   SMSG_LFG_DISABLED |-> EmptySmsg(0),
   SMSG_UPDATE_COMBO_POINTS |-> [w \in OfLength |->
     Smsg(PackedGuid(w) \o Ints(<<1>>), write_packed_guid(w) + 1, 1 + wwm_packed_guid_size(w))],
   MSG_MOVE_START_DESCEND_cmsg |-> [w \in Wires(Lengths, {0}, {}, wrath_MovementInfoFlags) |->
     Client(wrath_MSG_MOVE_START_DESCEND(w))]]

wrath_FromMsgMoveStartDescend ==
  [MSG_MOVE_START_DESCEND_smsg |-> [w \in Wires(Lengths, {0}, {}, wrath_MovementInfoFlags) |->
     Server(wrath_MSG_MOVE_START_DESCEND(w))],
   SMSG_DISMOUNT |-> [w \in OfLength |->
     Smsg(PackedGuid(w), write_packed_guid(w), wwm_packed_guid_size(w))],
   MSG_MOVE_UPDATE_CAN_FLY_Server |-> wrath_FromMsgMoveFeatherFall.MSG_MOVE_FEATHER_FALL_Server,
   MSG_RAID_READY_CHECK_CONFIRM_Client |-> [w \in Wires({0}, {0}, {}, {"set"}) |->
     Cmsg(Optional(Ints(<<1>>)), Bytes(Is(w, "set"), 1), Bytes(Is(w, "set"), 1))],
   MSG_RAID_READY_CHECK_CONFIRM_Server |-> PlainSmsg(<<8, 1>>, 8 + 1, 9)]

wrath_FromCmsgVoiceSessionEnable ==
  [CMSG_VOICE_SESSION_ENABLE |-> PlainCmsg(<<1, 1>>, 2 * 1, 2)]

wrath_FromSmsgGmMessagechat ==
  [SMSG_GM_MESSAGECHAT |->
     [w \in Wires(
              Lengths, {0},
              {{"ChatType::MONSTER_SAY", "ChatType::WHISPER_FOREIGN", "ChatType::BG_SYSTEM_NEUTRAL",
                "ChatType::ACHIEVEMENT", "ChatType::CHANNEL", "ChatType::SYSTEM"}}, {"guid"}) |->
       Smsg(
         Ints(<<1, 4, 8, 4>>)
         \o When(Is(w, "ChatType::MONSTER_SAY"), SizedCstring(w) \o NamedGuid(w).read)
         \o When(Is(w, "ChatType::WHISPER_FOREIGN"), SizedCstring(w) \o Ints(<<8>>))
         \o When(Is(w, "ChatType::BG_SYSTEM_NEUTRAL"), NamedGuid(w).read)
         \o When(Is(w, "ChatType::ACHIEVEMENT"), Ints(<<8>>))
         \o When(Is(w, "ChatType::CHANNEL"), Cstring(w) \o Ints(<<8>>))
         \o When(Is(w, "ChatType::SYSTEM"), SizedCstring(w) \o Ints(<<8>>)) \o SizedCstring(w)
         \o Ints(<<1>>) \o When(Is(w, "ChatType::ACHIEVEMENT"), Ints(<<4>>)),
         1 + 4 + 8 + 4
         + Bytes(Is(w, "ChatType::MONSTER_SAY"), write_sized_cstring(w) + NamedGuid(w).written)
         + Bytes(Is(w, "ChatType::WHISPER_FOREIGN"), write_sized_cstring(w) + 8)
         + Bytes(Is(w, "ChatType::BG_SYSTEM_NEUTRAL"), NamedGuid(w).written)
         + Bytes(Is(w, "ChatType::ACHIEVEMENT"), 8)
         + Bytes(Is(w, "ChatType::CHANNEL"), write_cstring(w) + 8)
         + Bytes(Is(w, "ChatType::SYSTEM"), write_sized_cstring(w) + 8) + write_sized_cstring(w) + 1
         + Bytes(Is(w, "ChatType::ACHIEVEMENT"), 4),
         23 + w.len + Bytes(Is(w, "ChatType::MONSTER_SAY"), 5 + w.len + NamedGuid(w).size)
         + Bytes(Is(w, "ChatType::WHISPER_FOREIGN"), 13 + w.len)
         + Bytes(Is(w, "ChatType::BG_SYSTEM_NEUTRAL"), NamedGuid(w).size)
         + Bytes(Is(w, "ChatType::ACHIEVEMENT"), 8) + Bytes(Is(w, "ChatType::CHANNEL"), 9 + w.len)
         + Bytes(Is(w, "ChatType::SYSTEM"), 13 + w.len) + Bytes(Is(w, "ChatType::ACHIEVEMENT"), 4))]]

wrath_FromCmsgCommentatorEnable ==
  [CMSG_COMMENTATOR_ENABLE |-> PlainCmsg(<<4>>, 4, 4),
   SMSG_CLEAR_TARGET |-> PlainSmsg(<<8>>, 8, 8),
   SMSG_CROSSED_INEBRIATION_THRESHOLD |-> PlainSmsg(<<8, 4, 4>>, 8 + 2 * 4, 16),
   SMSG_KICK_REASON |-> [w \in OfLength |->
     Smsg(Ints(<<1>>) \o Cstring(w), 1 + write_cstring(w), 2 + w.len)],
   MSG_RAID_READY_CHECK_FINISHED_Client |-> EmptyCmsg(0)]

wrath_FromCmsgComplain ==
  [CMSG_COMPLAIN |-> [w \in Wires(Lengths, {0}, {{"SpamType::MAIL", "SpamType::CHAT"}}, {}) |->
     Cmsg(
       Ints(<<1, 8>>) \o When(Is(w, "SpamType::MAIL"), Ints(<<4, 4, 4>>))
       \o When(Is(w, "SpamType::CHAT"), Ints(<<4, 4, 4, 4>>) \o Cstring(w)),
       1 + 8 + Bytes(Is(w, "SpamType::MAIL"), 3 * 4)
       + Bytes(Is(w, "SpamType::CHAT"), 4 * 4 + write_cstring(w)),
       9 + Bytes(Is(w, "SpamType::MAIL"), 12) + Bytes(Is(w, "SpamType::CHAT"), 17 + w.len))],
   SMSG_COMPLAIN_RESULT |-> PlainSmsg(<<1, 1>>, 2 * 1, 2),
   SMSG_FEATURE_SYSTEM_STATUS |-> PlainSmsg(<<1, 1>>, 2 * 1, 2)]

wrath_FromCmsgChannelDisplayList ==
  [CMSG_CHANNEL_DISPLAY_LIST |-> [w \in OfLength |->
     Cmsg(Cstring(w), write_cstring(w), 1 + w.len)],
   CMSG_SET_ACTIVE_VOICE_CHANNEL |-> [w \in OfLength |->
     Cmsg(Ints(<<4>>) \o Cstring(w), 4 + write_cstring(w), 5 + w.len)],
   CMSG_GET_CHANNEL_MEMBER_COUNT |-> [w \in OfLength |->
     Cmsg(Cstring(w), write_cstring(w), 1 + w.len)],
   SMSG_CHANNEL_MEMBER_COUNT |-> [w \in OfLength |->
     Smsg(Cstring(w) \o Ints(<<1, 4>>), write_cstring(w) + 1 + 4, 6 + w.len)],
   CMSG_CHANNEL_VOICE_ON |-> EmptyCmsg(0)]

wrath_FromCmsgReportPvpAfk ==
  [CMSG_REPORT_PVP_AFK |-> PlainCmsg(<<8>>, 8, 8),
   CMSG_GUILD_BANKER_ACTIVATE |-> PlainCmsg(<<8, 1>>, 8 + 1, 9),
   CMSG_GUILD_BANK_QUERY_TAB |-> PlainCmsg(<<8, 1, 1>>, 8 + 2 * 1, 10)]

wrath_FromSmsgGuildBankList ==
  [SMSG_GUILD_BANK_LIST |->
     [w \in Wires(Lengths, Counts,
                  {{"GuildBankTabResult::PRESENT", "GuildBankTabResult::NOT_PRESENT"},
                   {"GuildBankContentResult::PRESENT", "GuildBankContentResult::NOT_PRESENT"}},
                  {"item_random_property_id"}) |->
       Smsg(
         Ints(<<8, 1, 4, 1>>)
         \o When(Is(w, "GuildBankTabResult::PRESENT"),
                 Ints(<<1>>) \o Each(U8(w.count), wrath_GuildBankTab(w).read)) \o Ints(<<1>>)
         \o When(Is(w, "GuildBankContentResult::PRESENT"),
                 Ints(<<1>>) \o Each(U8(w.count), wrath_GuildBankSlot(w).read)),
         8 + 1 + 4 + 1
         + Bytes(Is(w, "GuildBankTabResult::PRESENT"), 1 + w.count * wrath_GuildBankTab(w).written)
         + 1
         + Bytes(Is(w, "GuildBankContentResult::PRESENT"),
                 1 + w.count * wrath_GuildBankSlot(w).written),
         15 + Bytes(Is(w, "GuildBankTabResult::PRESENT"), 1 + w.count * wrath_GuildBankTab(w).size)
         + Bytes(
             Is(w, "GuildBankContentResult::PRESENT"), 1 + w.count * wrath_GuildBankSlot(w).size))]]

wrath_FromCmsgGuildBankSwapItems ==
  [CMSG_GUILD_BANK_SWAP_ITEMS |->
     [w \in Wires({0}, Counts,
                  {{"BankSwapSource::BANK", "BankSwapSource::INVENTORY"},
                   {"BankSwapStoreMode::AUTOMATIC", "BankSwapStoreMode::MANUAL"}}, {}) |->
       Cmsg(
         Counted(
           9,
           Ints(<<8, 1>>)
           \o When(Is(w, "BankSwapSource::BANK"), Counted(17, Ints(<<1, 1, 4, 1, 1, 4, 1, 4>>)))
           \o When(
                Is(w, "BankSwapSource::INVENTORY"),
                Counted(
                  7,
                  Ints(<<1, 1, 4, 1>>)
                  \o When(Is(w, "BankSwapStoreMode::AUTOMATIC"), Counted(9, Ints(<<4, 1, 4>>)))
                  \o When(Is(w, "BankSwapStoreMode::MANUAL"), Counted(7, Ints(<<1, 1, 1, 4>>))))))
         \o Endless(w.count, Ints(<<1>>), 1),
         8 + 1 + Bytes(Is(w, "BankSwapSource::BANK"), 2 * 1 + 4 + 2 * 1 + 4 + 1 + 4)
         + Bytes(Is(w, "BankSwapSource::INVENTORY"),
                 2 * 1 + 4 + 1 + Bytes(Is(w, "BankSwapStoreMode::AUTOMATIC"), 4 + 1 + 4)
                 + Bytes(Is(w, "BankSwapStoreMode::MANUAL"), 3 * 1 + 4)) + w.count,
         9 + w.count + Bytes(Is(w, "BankSwapSource::BANK"), 17)
         + Bytes(Is(w, "BankSwapSource::INVENTORY"),
                 7 + Bytes(Is(w, "BankSwapStoreMode::AUTOMATIC"), 9)
                 + Bytes(Is(w, "BankSwapStoreMode::MANUAL"), 7)))]]

wrath_FromCmsgGuildBankBuyTab ==
  [CMSG_GUILD_BANK_BUY_TAB |-> PlainCmsg(<<8, 1>>, 8 + 1, 9),
   CMSG_GUILD_BANK_UPDATE_TAB |-> [w \in OfLength |->
     Cmsg(
       Ints(<<8, 1>>) \o Cstring(w) \o Cstring(w), 8 + 1 + 2 * write_cstring(w), 11 + 2 * w.len)],
   CMSG_GUILD_BANK_DEPOSIT_MONEY |-> PlainCmsg(<<8, 4>>, 8 + 4, 12),
   CMSG_GUILD_BANK_WITHDRAW_MONEY |-> PlainCmsg(<<8, 4>>, 8 + 4, 12),
   MSG_GUILD_BANK_LOG_QUERY_Client |-> PlainCmsg(<<1>>, 1, 1)]

wrath_FromMsgGuildBankLogQuery ==
  [MSG_GUILD_BANK_LOG_QUERY_Server |-> [w \in OfCount |->
     Smsg(Ints(<<4, 1, 1>>) \o Each(U8(w.count), wrath_MoneyLogItem.read),
          4 + 2 * 1 + w.count * wrath_MoneyLogItem.written, 6 + 17 * w.count)],
   CMSG_SET_CHANNEL_WATCH |-> [w \in OfLength |->
     Cmsg(Cstring(w), write_cstring(w), 1 + w.len)],
   SMSG_USERLIST_ADD |-> [w \in OfLength |->
     Smsg(Ints(<<8, 1, 1, 4>>) \o Cstring(w), 8 + 2 * 1 + 4 + write_cstring(w), 15 + w.len)]]

wrath_FromSmsgUserlistRemove ==
  [SMSG_USERLIST_REMOVE |-> [w \in OfLength |->
     Smsg(Ints(<<8, 1, 4>>) \o Cstring(w), 8 + 1 + 4 + write_cstring(w), 14 + w.len)],
   SMSG_USERLIST_UPDATE |-> [w \in OfLength |->
     Smsg(Ints(<<8, 1, 1, 4>>) \o Cstring(w), 8 + 2 * 1 + 4 + write_cstring(w), 15 + w.len)],
   CMSG_CLEAR_CHANNEL_WATCH |-> [w \in OfLength |->
     Cmsg(Cstring(w), write_cstring(w), 1 + w.len)]]

wrath_FromSmsgInspectTalent ==
  [SMSG_INSPECT_TALENT |-> [w \in OfLengthAndCount |->
     Smsg(
       PackedGuid(w) \o Ints(<<4, 1, 1>>) \o Each(U8(w.count), wrath_InspectTalentSpec(w).read)
       \o Ints(<<1>> \o Repeat(U8(w.count), 2)) \o wrath_inspect_talent_gear_mask(w),
       write_packed_guid(w) + 4 + 2 * 1 + w.count * wrath_InspectTalentSpec(w).written + 1
       + w.count * 2 + wrath_inspect_talent_gear_mask_written(w),
       7 + wwm_packed_guid_size(w) + 2 * w.count + wrath_inspect_talent_gear_mask_size(w)
       + w.count * wrath_InspectTalentSpec(w).size)],
   CMSG_SPELLCLICK |-> PlainCmsg(<<8>>, 8, 8),
   SMSG_LOOT_LIST |-> [w \in OfLength |->
     Smsg(Ints(<<8>>) \o PackedGuid(w) \o PackedGuid(w),
          8 + 2 * write_packed_guid(w), 8 + 2 * wwm_packed_guid_size(w))],
   MSG_GUILD_PERMISSIONS_Client |-> EmptyCmsg(0)]

wrath_FromMsgGuildPermissions ==
  [MSG_GUILD_PERMISSIONS_Server |-> [w \in {Fixed} |->
     Smsg(Ints(<<4, 4, 4, 1>>) \o Each(6, wrath_BankTab.read),
          3 * 4 + 1 + 6 * wrath_BankTab.written, 61)],
   MSG_GUILD_BANK_MONEY_WITHDRAWN_Client |-> EmptyCmsg(0),
   MSG_GUILD_BANK_MONEY_WITHDRAWN_Server |-> PlainSmsg(<<4>>, 4, 4),
   MSG_GUILD_EVENT_LOG_QUERY_Client |-> EmptyCmsg(0),
   MSG_GUILD_EVENT_LOG_QUERY_Server |->
     [w \in Wires({0}, Counts, {{"GuildEvent::JOINED", "GuildEvent::PROMOTION", "GuildEvent::MOTD"}},
                  {}) |->
       Smsg(Ints(<<1>>) \o Each(U8(w.count), wrath_GuildLogEvent(w).read),
            1 + w.count * wrath_GuildLogEvent(w).written, 1 + w.count * wrath_GuildLogEvent(w).size)]]

wrath_FromCmsgGetMirrorimageData ==
  [CMSG_GET_MIRRORIMAGE_DATA |-> PlainCmsg(<<8>>, 8, 8),
   SMSG_MIRRORIMAGE_DATA |->
     PlainSmsg(<<8, 4>> \o Repeat(8, 1) \o Repeat(12, 4), 8 + 4 + 8 * 1 + 4 + 11 * 4, 68),
   CMSG_KEEP_ALIVE |-> EmptyCmsg(0),
   CMSG_OPT_OUT_OF_LOOT |-> PlainCmsg(<<4>>, 4, 4)]

wrath_FromMsgQueryGuildBankText ==
  [MSG_QUERY_GUILD_BANK_TEXT_Client |-> PlainCmsg(<<1>>, 1, 1),
   MSG_QUERY_GUILD_BANK_TEXT_Server |-> [w \in OfLength |->
     Smsg(Ints(<<1>>) \o Cstring(w), 1 + write_cstring(w), 2 + w.len)],
   CMSG_SET_GUILD_BANK_TEXT |-> [w \in OfLength |->
     Cmsg(Ints(<<1>>) \o Cstring(w), 1 + write_cstring(w), 2 + w.len)],
   CMSG_GRANT_LEVEL |-> [w \in OfLength |->
     Cmsg(PackedGuid(w), write_packed_guid(w), wwm_packed_guid_size(w))],
   SMSG_OVERRIDE_LIGHT |-> PlainSmsg(<<4, 4, 4>>, 3 * 4, 12)]

wrath_FromSmsgTotemCreated ==
  [SMSG_TOTEM_CREATED |-> PlainSmsg(<<1, 8, 4, 4>>, 1 + 8 + 2 * 4, 17),
   CMSG_TOTEM_DESTROYED |-> PlainCmsg(<<1>>, 1, 1),
   CMSG_QUESTGIVER_STATUS_MULTIPLE_QUERY |-> EmptyCmsg(0),
   SMSG_QUESTGIVER_STATUS_MULTIPLE |-> [w \in OfCount |->
     Smsg(Ints(<<4>>) \o Each(w.count, wrath_QuestGiverStatusReport.read),
          4 + w.count * wrath_QuestGiverStatusReport.written, 4 + 9 * w.count)],
   CMSG_SET_PLAYER_DECLINED_NAMES |-> [w \in OfLength |->
     Cmsg(Ints(<<8>>) \o Cstring(w) \o Each(5, Cstring(w)),
          8 + write_cstring(w) + 5 * write_cstring(w), 9 + w.len + 5 * (1 + w.len))]]

wrath_FromSmsgSetPlayerDeclinedNamesResult ==
  [SMSG_SET_PLAYER_DECLINED_NAMES_RESULT |-> PlainSmsg(<<4, 8>>, 4 + 8, 12),
   SMSG_SEND_UNLEARN_SPELLS |-> [w \in OfCount |->
     Smsg(Ints(<<4>> \o Repeat(w.count, 4)), 4 + w.count * 4, 4 + 4 * w.count)],
   SMSG_PROPOSE_LEVEL_GRANT |-> [w \in OfLength |->
     Smsg(PackedGuid(w), write_packed_guid(w), wwm_packed_guid_size(w))],
   CMSG_ACCEPT_LEVEL_GRANT |-> [w \in OfLength |->
     Cmsg(PackedGuid(w), write_packed_guid(w), wwm_packed_guid_size(w))]]

wrath_FromSmsgReferAFriendFailure ==
  [SMSG_REFER_A_FRIEND_FAILURE |->
     [w \in Wires(
              Lengths, {0}, {{"ReferAFriendError::NOT_IN_GROUP", "ReferAFriendError::NONE"}}, {}) |->
       Smsg(Ints(<<4>>) \o When(Is(w, "ReferAFriendError::NOT_IN_GROUP"), Cstring(w)),
            4 + Bytes(Is(w, "ReferAFriendError::NOT_IN_GROUP"), write_cstring(w)),
            4 + Bytes(Is(w, "ReferAFriendError::NOT_IN_GROUP"), 1 + w.len))],
   SMSG_SPLINE_MOVE_SET_FLYING |-> [w \in OfLength |->
     Smsg(PackedGuid(w), write_packed_guid(w), wwm_packed_guid_size(w))],
   SMSG_SPLINE_MOVE_UNSET_FLYING |-> [w \in OfLength |->
     Smsg(PackedGuid(w), write_packed_guid(w), wwm_packed_guid_size(w))],
   CMSG_ALTER_APPEARANCE |-> PlainCmsg(<<4, 4, 4>>, 3 * 4, 12),
   SMSG_ENABLE_BARBER_SHOP |-> EmptySmsg(0)]

wrath_FromSmsgBarberShopResult ==
  [SMSG_BARBER_SHOP_RESULT |-> PlainSmsg(<<4>>, 4, 4),
   CMSG_CALENDAR_GET_CALENDAR |-> EmptyCmsg(0),
   CMSG_CALENDAR_GET_EVENT |-> PlainCmsg(<<8>>, 8, 8),
   CMSG_CALENDAR_GUILD_FILTER |-> PlainCmsg(<<4, 4, 4>>, 3 * 4, 12),
   CMSG_CALENDAR_ARENA_TEAM |-> PlainCmsg(<<4>>, 4, 4)]

wrath_FromCmsgCalendarAddEvent ==
  [CMSG_CALENDAR_ADD_EVENT |-> [w \in OfLengthAndCount |->
     Cmsg(
       Cstring(w) \o Cstring(w) \o Ints(<<1, 1>> \o Repeat(6, 4))
       \o Each(w.count, wrath_CalendarInvitee(w).read),
       2 * write_cstring(w) + 2 * 1 + 6 * 4 + w.count * wrath_CalendarInvitee(w).written,
       28 + 2 * w.len + w.count * wrath_CalendarInvitee(w).size)],
   CMSG_CALENDAR_UPDATE_EVENT |-> [w \in OfLength |->
     Cmsg(Ints(<<8, 8>>) \o Cstring(w) \o Cstring(w) \o Ints(<<1, 1>> \o Repeat(5, 4)),
          2 * 8 + 2 * write_cstring(w) + 2 * 1 + 5 * 4, 40 + 2 * w.len)]]

wrath_FromCmsgCalendarRemoveEvent ==
  [CMSG_CALENDAR_REMOVE_EVENT |-> PlainCmsg(<<8, 8, 4>>, 2 * 8 + 4, 20),
   CMSG_CALENDAR_COPY_EVENT |-> PlainCmsg(<<8, 8, 4>>, 2 * 8 + 4, 20),
   CMSG_CALENDAR_EVENT_INVITE |-> [w \in OfLength |->
     Cmsg(Ints(<<8, 8>>) \o Cstring(w) \o Ints(<<1, 1>>),
          2 * 8 + write_cstring(w) + 2 * 1, 19 + w.len)],
   CMSG_CALENDAR_EVENT_RSVP |-> PlainCmsg(<<8, 8, 4>>, 2 * 8 + 4, 20)]

wrath_FromCmsgCalendarEventRemoveInvite ==
  [CMSG_CALENDAR_EVENT_REMOVE_INVITE |-> PlainCmsg(<<8, 8, 8>>, 3 * 8, 24),
   CMSG_CALENDAR_EVENT_STATUS |-> PlainCmsg(<<8, 8, 8, 1>>, 3 * 8 + 1, 25),
   CMSG_CALENDAR_EVENT_MODERATOR_STATUS |-> PlainCmsg(<<8, 8, 8, 1>>, 3 * 8 + 1, 25)]

wrath_FromSmsgCalendarSendCalendar ==
  [SMSG_CALENDAR_SEND_CALENDAR |-> [w \in OfLengthAndCount |->
     Smsg(
       Ints(<<4>>) \o Each(w.count, wrath_SendCalendarInvite(w).read) \o Ints(<<4>>)
       \o Each(w.count, wrath_SendCalendarEvent(w).read) \o Ints(<<4, 4, 4>>)
       \o Each(w.count, wrath_SendCalendarInstance.read) \o Ints(<<4, 4>>)
       \o Each(w.count, wrath_SendCalendarResetTime.read) \o Ints(<<4>>)
       \o Each(w.count, wrath_SendCalendarHoliday(w).read),
       4 + w.count * wrath_SendCalendarInvite(w).written + 4
       + w.count * wrath_SendCalendarEvent(w).written + 3 * 4
       + w.count * wrath_SendCalendarInstance.written + 2 * 4
       + w.count * wrath_SendCalendarResetTime.written + 4
       + w.count * wrath_SendCalendarHoliday(w).written,
       32 + 20 * w.count + 12 * w.count + w.count * wrath_SendCalendarInvite(w).size
       + w.count * wrath_SendCalendarEvent(w).size + w.count * wrath_SendCalendarHoliday(w).size)]]

wrath_FromSmsgCalendarSendEvent ==
  [SMSG_CALENDAR_SEND_EVENT |-> [w \in OfLengthAndCount |->
     Smsg(
       Ints(<<1>>) \o PackedGuid(w) \o Ints(<<8>>) \o Cstring(w) \o Cstring(w)
       \o Ints(<<1, 1>> \o Repeat(7, 4)) \o Each(w.count, wrath_CalendarSendInvitee(w).read),
       1 + write_packed_guid(w) + 8 + 2 * write_cstring(w) + 2 * 1 + 7 * 4
       + w.count * wrath_CalendarSendInvitee(w).written,
       41 + 2 * w.len + wwm_packed_guid_size(w) + w.count * wrath_CalendarSendInvitee(w).size)],
   SMSG_CALENDAR_FILTER_GUILD |-> [w \in OfLengthAndCount |->
     Smsg(
       Ints(<<4>>) \o Each(w.count, wrath_CalendarMember(w).read),
       4 + w.count * wrath_CalendarMember(w).written, 4 + w.count * wrath_CalendarMember(w).size)]]

wrath_FromSmsgCalendarArenaTeam ==
  [SMSG_CALENDAR_ARENA_TEAM |-> wrath_FromSmsgCalendarSendEvent.SMSG_CALENDAR_FILTER_GUILD,
   SMSG_CALENDAR_EVENT_INVITE |->
     [w \in Wires(Lengths, {0}, {{"CalendarStatusTime::PRESENT", "CalendarStatusTime::NOT_PRESENT"}},
                  {}) |->
       Smsg(
         PackedGuid(w) \o Ints(<<8, 8, 1, 1, 1>>)
         \o When(Is(w, "CalendarStatusTime::PRESENT"), Ints(<<4>>)) \o Ints(<<1>>),
         write_packed_guid(w) + 2 * 8 + 3 * 1 + Bytes(Is(w, "CalendarStatusTime::PRESENT"), 4) + 1,
         20 + wwm_packed_guid_size(w) + Bytes(Is(w, "CalendarStatusTime::PRESENT"), 4))],
   SMSG_CALENDAR_EVENT_INVITE_REMOVED |-> [w \in OfLength |->
     Smsg(PackedGuid(w) \o Ints(<<8, 4, 1>>),
          write_packed_guid(w) + 8 + 4 + 1, 13 + wwm_packed_guid_size(w))]]

wrath_FromSmsgCalendarEventStatus ==
  [SMSG_CALENDAR_EVENT_STATUS |-> [w \in OfLength |->
     Smsg(PackedGuid(w) \o Ints(<<8, 4, 4, 1, 1, 4>>),
          write_packed_guid(w) + 8 + 2 * 4 + 2 * 1 + 4, 22 + wwm_packed_guid_size(w))],
   SMSG_CALENDAR_COMMAND_RESULT |-> [w \in OfLength |->
     Smsg(Ints(<<4, 1>>) \o Cstring(w) \o Ints(<<4>>), 4 + 1 + write_cstring(w) + 4, 10 + w.len)],
   SMSG_CALENDAR_RAID_LOCKOUT_ADDED |-> PlainSmsg(<<4, 4, 4, 4, 8>>, 4 * 4 + 8, 24)]

wrath_FromSmsgCalendarRaidLockoutRemoved ==
  [SMSG_CALENDAR_RAID_LOCKOUT_REMOVED |-> PlainSmsg(<<4, 4, 4, 8>>, 3 * 4 + 8, 20),
   SMSG_CALENDAR_EVENT_INVITE_ALERT |-> [w \in OfLength |->
     Smsg(
       Ints(<<8>>) \o Cstring(w) \o Ints(<<4, 4, 4, 4, 8, 1, 1>>) \o PackedGuid(w)
       \o PackedGuid(w),
       8 + write_cstring(w) + 4 * 4 + 8 + 2 * 1 + 2 * write_packed_guid(w),
       35 + w.len + 2 * wwm_packed_guid_size(w))],
   SMSG_CALENDAR_EVENT_INVITE_REMOVED_ALERT |-> PlainSmsg(<<8, 4, 4, 1>>, 8 + 2 * 4 + 1, 17)]

wrath_FromSmsgCalendarEventRemovedAlert ==
  [SMSG_CALENDAR_EVENT_REMOVED_ALERT |-> PlainSmsg(<<1, 8, 4>>, 1 + 8 + 4, 13),
   SMSG_CALENDAR_EVENT_UPDATED_ALERT |-> [w \in OfLength |->
     Smsg(Ints(<<1, 8, 4, 4, 4, 1, 4>>) \o Cstring(w) \o Cstring(w) \o Ints(<<1, 4, 4>>),
          1 + 8 + 3 * 4 + 1 + 4 + 2 * write_cstring(w) + 1 + 2 * 4, 37 + 2 * w.len)],
   SMSG_CALENDAR_EVENT_MODERATOR_STATUS_ALERT |-> [w \in OfLength |->
     Smsg(PackedGuid(w) \o Ints(<<8, 1, 1>>),
          write_packed_guid(w) + 8 + 2 * 1, 10 + wwm_packed_guid_size(w))]]

wrath_FromCmsgCalendarComplain ==
  [CMSG_CALENDAR_COMPLAIN |-> PlainCmsg(<<8, 8, 8>>, 3 * 8, 24),
   CMSG_CALENDAR_GET_NUM_PENDING_cmsg |-> EmptyCmsg(0),
   CMSG_CALENDAR_GET_NUM_PENDING_smsg |-> EmptySmsg(0),
   SMSG_CALENDAR_SEND_NUM_PENDING |-> PlainSmsg(<<4>>, 4, 4),
   MSG_MOVE_SET_PITCH_RATE_Server |->
     wrath_FromMsgInspectArenaTeams.MSG_MOVE_SET_FLIGHT_SPEED_Server,
   SMSG_FORCE_PITCH_RATE_CHANGE |-> [w \in OfLength |->
     Smsg(
       PackedGuid(w) \o Ints(<<4, 4>>), write_packed_guid(w) + 2 * 4, 8 + wwm_packed_guid_size(w))]]

wrath_FromSmsgCalendarEventInviteNotes ==
  [SMSG_CALENDAR_EVENT_INVITE_NOTES |-> [w \in OfLength |->
     Smsg(PackedGuid(w) \o Ints(<<8>>) \o Cstring(w) \o Ints(<<1>>),
          write_packed_guid(w) + 8 + write_cstring(w) + 1, 10 + w.len + wwm_packed_guid_size(w))],
   SMSG_CALENDAR_EVENT_INVITE_NOTES_ALERT |-> [w \in OfLength |->
     Smsg(Ints(<<8>>) \o Cstring(w), 8 + write_cstring(w), 9 + w.len)],
   CMSG_UPDATE_MISSILE_TRAJECTORY |-> [w \in {Fixed} |->
     Cmsg(Ints(<<8, 4, 4, 4>>) \o Vector3d.read \o Vector3d.read,
          8 + 3 * 4 + 2 * Vector3d.written, 44)],
   SMSG_UPDATE_ACCOUNT_DATA_COMPLETE |-> PlainSmsg(<<4, 4>>, 2 * 4, 8)]

wrath_FromSmsgTriggerMovie ==
  [SMSG_TRIGGER_MOVIE |-> PlainSmsg(<<4>>, 4, 4),
   CMSG_COMPLETE_MOVIE |-> EmptyCmsg(0),
   SMSG_ACHIEVEMENT_EARNED |-> [w \in OfLength |->
     Smsg(PackedGuid(w) \o Ints(<<4, 4, 4>>),
          write_packed_guid(w) + 3 * 4, 12 + wwm_packed_guid_size(w))],
   SMSG_CRITERIA_UPDATE |-> [w \in OfLength |->
     Smsg(Ints(<<4>>) \o PackedGuid(w) \o PackedGuid(w) \o Ints(<<4, 4, 4, 4>>),
          4 + 2 * write_packed_guid(w) + 4 * 4, 20 + 2 * wwm_packed_guid_size(w))]]

wrath_FromCmsgQueryInspectAchievements ==
  [CMSG_QUERY_INSPECT_ACHIEVEMENTS |-> [w \in OfLength |->
     Cmsg(PackedGuid(w), write_packed_guid(w), wwm_packed_guid_size(w))],
   SMSG_RESPOND_INSPECT_ACHIEVEMENTS |-> [w \in OfLengthAndCount |->
     Smsg(
       PackedGuid(w) \o wrath_achievement_done_array(w) \o wrath_achievement_in_progress_array(w),
       write_packed_guid(w) + wrath_achievement_done_array_written(w)
       + wrath_achievement_in_progress_array_written(w),
       wwm_packed_guid_size(w) + wrath_achievement_done_array_size(w)
       + wrath_achievement_in_progress_array_size(w))],
   CMSG_DISMISS_CONTROLLED_VEHICLE |-> EmptyCmsg(0),
   SMSG_QUESTUPDATE_ADD_PVP_KILL |-> PlainSmsg(<<4, 4, 4>>, 3 * 4, 12),
   SMSG_CALENDAR_RAID_LOCKOUT_UPDATED |-> PlainSmsg(Repeat(5, 4), 5 * 4, 20)]

wrath_FromCmsgCharCustomize ==
  [CMSG_CHAR_CUSTOMIZE |-> [w \in OfLength |->
     Cmsg(
       Ints(<<8>>) \o Cstring(w) \o Ints(Repeat(6, 1)), 8 + write_cstring(w) + 6 * 1, 15 + w.len)],
   SMSG_CHAR_CUSTOMIZE |->
     [w \in Wires(Lengths, {0}, {{"WorldResult::RESPONSE_SUCCESS", "WorldResult::RESPONSE_FAILURE"}},
                  {}) |->
       Smsg(
         Ints(<<1>>)
         \o When(Is(w, "WorldResult::RESPONSE_SUCCESS"),
                 Ints(<<8>>) \o Cstring(w) \o Ints(Repeat(6, 1))),
         1 + Bytes(Is(w, "WorldResult::RESPONSE_SUCCESS"), 8 + write_cstring(w) + 6 * 1),
         1 + Bytes(Is(w, "WorldResult::RESPONSE_SUCCESS"), 15 + w.len))],
   CMSG_REQUEST_VEHICLE_EXIT |-> EmptyCmsg(0),
   CMSG_REQUEST_VEHICLE_PREV_SEAT |-> EmptyCmsg(0)]

wrath_FromCmsgRequestVehicleNextSeat ==
  [CMSG_REQUEST_VEHICLE_NEXT_SEAT |-> EmptyCmsg(0),
   CMSG_REQUEST_VEHICLE_SWITCH_SEAT |-> PlainCmsg(<<8, 1>>, 8 + 1, 9),
   CMSG_PET_LEARN_TALENT |-> PlainCmsg(<<8, 4, 4>>, 8 + 2 * 4, 16),
   SMSG_SET_PHASE_SHIFT |-> PlainSmsg(<<4>>, 4, 4),
   SMSG_ALL_ACHIEVEMENT_DATA |-> [w \in OfLengthAndCount |->
     Smsg(wrath_achievement_done_array(w) \o wrath_achievement_in_progress_array(w),
          wrath_achievement_done_array_written(w) + wrath_achievement_in_progress_array_written(w),
          wrath_achievement_done_array_size(w) + wrath_achievement_in_progress_array_size(w))]]

wrath_FromSmsgPowerUpdate ==
  [SMSG_POWER_UPDATE |-> [w \in OfLength |->
     Smsg(
       PackedGuid(w) \o Ints(<<1, 4>>), write_packed_guid(w) + 1 + 4, 5 + wwm_packed_guid_size(w))],
   CMSG_GAMEOBJ_REPORT_USE |-> PlainCmsg(<<8>>, 8, 8),
   SMSG_HIGHEST_THREAT_UPDATE |-> [w \in OfLengthAndCount |->
     Smsg(
       PackedGuid(w) \o PackedGuid(w) \o Ints(<<4>>)
       \o Each(w.count, wrath_ThreatUpdateUnit(w).read),
       2 * write_packed_guid(w) + 4 + w.count * wrath_ThreatUpdateUnit(w).written,
       4 + 2 * wwm_packed_guid_size(w) + w.count * wrath_ThreatUpdateUnit(w).size)]]

wrath_FromSmsgThreatUpdate ==
  [SMSG_THREAT_UPDATE |-> [w \in OfLengthAndCount |->
     Smsg(PackedGuid(w) \o Ints(<<4>>) \o Each(w.count, wrath_ThreatUpdateUnit(w).read),
          write_packed_guid(w) + 4 + w.count * wrath_ThreatUpdateUnit(w).written,
          4 + wwm_packed_guid_size(w) + w.count * wrath_ThreatUpdateUnit(w).size)],
   SMSG_THREAT_REMOVE |-> [w \in OfLength |->
     Smsg(PackedGuid(w) \o PackedGuid(w), 2 * write_packed_guid(w), 2 * wwm_packed_guid_size(w))],
   SMSG_THREAT_CLEAR |-> [w \in OfLength |->
     Smsg(PackedGuid(w), write_packed_guid(w), wwm_packed_guid_size(w))],
   SMSG_CONVERT_RUNE |-> PlainSmsg(<<1, 1>>, 2 * 1, 2)]

wrath_FromSmsgResyncRunes ==
  [SMSG_RESYNC_RUNES |-> [w \in OfCount |->
     Smsg(Ints(<<4>>) \o Each(w.count, wrath_ResyncRune.read),
          4 + w.count * wrath_ResyncRune.written, 4 + 2 * w.count)],
   SMSG_ADD_RUNE_POWER |-> PlainSmsg(<<4>>, 4, 4),
   CMSG_REMOVE_GLYPH |-> PlainCmsg(<<4>>, 4, 4),
   CMSG_DISMISS_CRITTER |-> PlainCmsg(<<8>>, 8, 8),
   CMSG_AUCTION_LIST_PENDING_SALES |-> PlainCmsg(<<8>>, 8, 8)]

wrath_FromSmsgAuctionListPendingSales ==
  [SMSG_AUCTION_LIST_PENDING_SALES |-> [w \in OfLengthAndCount |->
     Smsg(Ints(<<4>>) \o Each(w.count, wrath_PendingAuctionSale(w).read),
          4 + w.count * wrath_PendingAuctionSale(w).written,
          4 + w.count * wrath_PendingAuctionSale(w).size)],
   SMSG_MODIFY_COOLDOWN |-> PlainSmsg(<<4, 8, 4>>, 4 + 8 + 4, 16),
   SMSG_PET_UPDATE_COMBO_POINTS |-> [w \in OfLength |->
     Smsg(PackedGuid(w) \o PackedGuid(w) \o Ints(<<1>>),
          2 * write_packed_guid(w) + 1, 1 + 2 * wwm_packed_guid_size(w))],
   CMSG_ENABLETAXI |-> PlainCmsg(<<8>>, 8, 8)]

wrath_FromSmsgPreResurrect ==
  [SMSG_PRE_RESURRECT |-> [w \in OfLength |->
     Smsg(PackedGuid(w), write_packed_guid(w), wwm_packed_guid_size(w))],
   SMSG_AURA_UPDATE_ALL |->
     [w \in Wires(Lengths, Counts, {}, {"AURA_FLAG_NOT_CASTER", "AURA_FLAG_DURATION"}) |->
       Smsg(
         Counted(wwm_packed_guid_size(w), PackedGuid(w))
         \o Endless(w.count, wrath_AuraUpdate(w).read, wrath_AuraUpdate(w).size),
         write_packed_guid(w) + w.count * wrath_AuraUpdate(w).written,
         wwm_packed_guid_size(w) + w.count * wrath_AuraUpdate(w).size)],
   SMSG_AURA_UPDATE |->
     [w \in Wires(Lengths, {0}, {}, {"AURA_FLAG_NOT_CASTER", "AURA_FLAG_DURATION"}) |->
       Smsg(PackedGuid(w) \o wrath_AuraUpdate(w).read,
            write_packed_guid(w) + wrath_AuraUpdate(w).written,
            wwm_packed_guid_size(w) + wrath_AuraUpdate(w).size)],
   SMSG_SERVER_FIRST_ACHIEVEMENT |-> [w \in OfLength |->
     Smsg(Cstring(w) \o Ints(<<8, 4, 1>>), write_cstring(w) + 8 + 4 + 1, 14 + w.len)]]

wrath_FromSmsgPetLearnedSpell ==
  [SMSG_PET_LEARNED_SPELL |-> PlainSmsg(<<4>>, 4, 4),
   SMSG_PET_UNLEARNED_SPELL |-> PlainSmsg(<<4>>, 4, 4),
   CMSG_CHANGE_SEATS_ON_CONTROLLED_VEHICLE |->
     [w \in Wires(Lengths, {0}, {}, wrath_MovementInfoFlags) |->
       Cmsg(PackedGuid(w) \o wrath_MovementInfo(w).read \o PackedGuid(w) \o Ints(<<1>>),
            write_packed_guid(w) + wrath_MovementInfo(w).written + write_packed_guid(w) + 1,
            1 + 2 * wwm_packed_guid_size(w) + wrath_MovementInfo(w).size)],
   CMSG_HEARTH_AND_RESURRECT |-> EmptyCmsg(0),
   SMSG_ON_CANCEL_EXPECTED_RIDE_VEHICLE_AURA |-> EmptySmsg(0),
   SMSG_CRITERIA_DELETED |-> PlainSmsg(<<4>>, 4, 4)]

wrath_FromSmsgAchievementDeleted ==
  [SMSG_ACHIEVEMENT_DELETED |-> PlainSmsg(<<4>>, 4, 4),
   SMSG_BATTLEGROUND_INFO_THROTTLED |-> EmptySmsg(0),
   SMSG_PLAYER_VEHICLE_DATA |-> [w \in OfLength |->
     Smsg(PackedGuid(w) \o Ints(<<4>>), write_packed_guid(w) + 4, 4 + wwm_packed_guid_size(w))],
   CMSG_PLAYER_VEHICLE_ENTER |-> PlainCmsg(<<8>>, 8, 8),
   CMSG_CONTROLLER_EJECT_PASSENGER |-> PlainCmsg(<<8>>, 8, 8),
   SMSG_PET_GUIDS |-> [w \in OfCount |->
     Smsg(Ints(<<4>> \o Repeat(w.count, 8)), 4 + w.count * 8, 4 + 8 * w.count)]]

wrath_FromSmsgClientcacheVersion ==
  [SMSG_CLIENTCACHE_VERSION |-> PlainSmsg(<<4>>, 4, 4),
   SMSG_ITEM_REFUND_INFO_RESPONSE |-> [w \in {Fixed} |->
     Smsg(Ints(<<8, 4, 4, 4>>) \o Each(5, wrath_ItemRefundExtra.read) \o Ints(<<4, 4>>),
          8 + 3 * 4 + 5 * wrath_ItemRefundExtra.written + 2 * 4, 68)],
   CMSG_ITEM_REFUND_INFO |-> PlainCmsg(<<8>>, 8, 8),
   CMSG_ITEM_REFUND |-> PlainCmsg(<<8>>, 8, 8)]

wrath_FromSmsgItemRefundResult ==
  [SMSG_ITEM_REFUND_RESULT |->
     [w \in Wires({0}, {0}, {{"ItemRefundResult::SUCCESS", "ItemRefundResult::FAILURE"}}, {}) |->
       Smsg(
         Ints(<<8, 1>>)
         \o When(Is(w, "ItemRefundResult::SUCCESS"),
                 Ints(<<4, 4, 4>>) \o Each(5, wrath_ItemRefundExtra.read)),
         8 + 1
         + Bytes(Is(w, "ItemRefundResult::SUCCESS"), 3 * 4 + 5 * wrath_ItemRefundExtra.written),
         9 + Bytes(Is(w, "ItemRefundResult::SUCCESS"), 52))],
   CMSG_CORPSE_MAP_POSITION_QUERY |-> PlainCmsg(<<4>>, 4, 4),
   SMSG_CORPSE_MAP_POSITION_QUERY_RESPONSE |-> PlainSmsg(<<4, 4, 4, 4>>, 4 * 4, 16),
   CMSG_CALENDAR_EVENT_SIGNUP |-> PlainCmsg(<<8, 1>>, 8 + 1, 9)]

wrath_FromSmsgCalendarClearPendingAction ==
  [SMSG_CALENDAR_CLEAR_PENDING_ACTION |-> EmptySmsg(0),
   SMSG_EQUIPMENT_SET_LIST |-> [w \in OfLengthAndCount |->
     Smsg(Ints(<<4>>) \o Each(w.count, wrath_EquipmentSetListItem(w).read),
          4 + w.count * wrath_EquipmentSetListItem(w).written,
          4 + w.count * wrath_EquipmentSetListItem(w).size)],
   CMSG_EQUIPMENT_SET_SAVE |-> [w \in OfLength |->
     Cmsg(PackedGuid(w) \o Ints(<<4>>) \o Cstring(w) \o Cstring(w) \o Ints(Repeat(19, 8)),
          write_packed_guid(w) + 4 + 2 * write_cstring(w) + 19 * 8,
          158 + 2 * w.len + wwm_packed_guid_size(w))],
   CMSG_UPDATE_PROJECTILE_POSITION |-> [w \in {Fixed} |->
     Cmsg(Ints(<<8, 4, 1>>) \o Vector3d.read, 8 + 4 + 1 + Vector3d.written, 25)]]

wrath_FromSmsgSetProjectilePosition ==
  [SMSG_SET_PROJECTILE_POSITION |-> [w \in {Fixed} |->
     Smsg(Ints(<<8, 1>>) \o Vector3d.read, 8 + 1 + Vector3d.written, 21)],
   SMSG_TALENTS_INFO |->
     [w \in Wires({0}, Counts, {{"TalentInfoType::PET", "TalentInfoType::PLAYER"}}, {}) |->
       Smsg(
         Ints(<<1, 4>>)
         \o When(Is(w, "TalentInfoType::PET"),
                 Ints(<<1>>) \o Each(U8(w.count), wrath_InspectTalent.read))
         \o When(Is(w, "TalentInfoType::PLAYER"),
                 Ints(<<1, 1>>) \o Each(U8(w.count), wrath_TalentInfoSpec(w).read)),
         1 + 4 + Bytes(Is(w, "TalentInfoType::PET"), 1 + w.count * wrath_InspectTalent.written)
         + Bytes(
             Is(w, "TalentInfoType::PLAYER"), 2 * 1 + w.count * wrath_TalentInfoSpec(w).written),
         5 + Bytes(Is(w, "TalentInfoType::PET"), 1 + 5 * w.count)
         + Bytes(Is(w, "TalentInfoType::PLAYER"), 2 + w.count * wrath_TalentInfoSpec(w).size))],
   CMSG_LEARN_PREVIEW_TALENTS |-> [w \in OfCount |->
     Cmsg(Ints(<<4>>) \o Each(w.count, wrath_PreviewTalent.read),
          4 + w.count * wrath_PreviewTalent.written, 4 + 8 * w.count)]]

wrath_FromCmsgLearnPreviewTalentsPet ==
  [CMSG_LEARN_PREVIEW_TALENTS_PET |-> [w \in OfCount |->
     Cmsg(Ints(<<8, 4>>) \o Each(w.count, wrath_PreviewTalent.read),
          8 + 4 + w.count * wrath_PreviewTalent.written, 12 + 8 * w.count)],
   SMSG_ARENA_UNIT_DESTROYED |-> PlainSmsg(<<8>>, 8, 8),
   SMSG_ARENA_TEAM_CHANGE_FAILED_QUEUED |-> PlainSmsg(<<4>>, 4, 4),
   SMSG_MOVE_GRAVITY_DISABLE |-> [w \in OfLength |->
     Smsg(PackedGuid(w) \o Ints(<<4>>), write_packed_guid(w) + 4, 4 + wwm_packed_guid_size(w))],
   CMSG_MOVE_GRAVITY_DISABLE_ACK |->
     wrath_FromCmsgForceSwimSpeedChangeAck.CMSG_FORCE_MOVE_ROOT_ACK]

wrath_FromSmsgMoveGravityEnable ==
  [SMSG_MOVE_GRAVITY_ENABLE |-> [w \in OfLength |->
     Smsg(PackedGuid(w) \o Ints(<<4>>), write_packed_guid(w) + 4, 4 + wwm_packed_guid_size(w))],
   CMSG_MOVE_GRAVITY_ENABLE_ACK |->
     wrath_FromCmsgForceSwimSpeedChangeAck.CMSG_FORCE_MOVE_ROOT_ACK,
   MSG_MOVE_GRAVITY_CHNG_Server |-> wrath_FromMsgMoveFeatherFall.MSG_MOVE_FEATHER_FALL_Server,
   SMSG_SPLINE_MOVE_GRAVITY_DISABLE |-> [w \in OfLength |->
     Smsg(PackedGuid(w), write_packed_guid(w), wwm_packed_guid_size(w))],
   SMSG_SPLINE_MOVE_GRAVITY_ENABLE |-> [w \in OfLength |->
     Smsg(PackedGuid(w), write_packed_guid(w), wwm_packed_guid_size(w))]]

wrath_FromCmsgEquipmentSetUse ==
  [CMSG_EQUIPMENT_SET_USE |-> [w \in {Fixed} |->
     Cmsg(Each(19, wrath_EquipmentSet.read), 19 * wrath_EquipmentSet.written, 190)],
   SMSG_EQUIPMENT_SET_USE_RESULT |-> PlainSmsg(<<1>>, 1, 1),
   CMSG_CHAR_FACTION_CHANGE |-> [w \in OfLength |->
     Cmsg(
       Ints(<<8>>) \o Cstring(w) \o Ints(Repeat(7, 1)), 8 + write_cstring(w) + 7 * 1, 16 + w.len)]]

wrath_FromSmsgCharFactionChange ==
  [SMSG_CHAR_FACTION_CHANGE |->
     [w \in Wires(Lengths, {0}, {{"WorldResult::RESPONSE_SUCCESS", "WorldResult::RESPONSE_FAILURE"}},
                  {}) |->
       Smsg(
         Ints(<<1>>)
         \o When(Is(w, "WorldResult::RESPONSE_SUCCESS"),
                 Ints(<<8>>) \o Cstring(w) \o Ints(Repeat(7, 1))),
         1 + Bytes(Is(w, "WorldResult::RESPONSE_SUCCESS"), 8 + write_cstring(w) + 7 * 1),
         1 + Bytes(Is(w, "WorldResult::RESPONSE_SUCCESS"), 16 + w.len))],
   SMSG_BATTLEFIELD_MGR_ENTRY_INVITE |-> PlainSmsg(<<4, 4, 4>>, 3 * 4, 12),
   CMSG_BATTLEFIELD_MGR_ENTRY_INVITE_RESPONSE |-> PlainCmsg(<<4, 1>>, 4 + 1, 5)]

wrath_FromSmsgBattlefieldMgrEntered ==
  [SMSG_BATTLEFIELD_MGR_ENTERED |-> PlainSmsg(<<4, 1, 1, 1>>, 4 + 3 * 1, 7),
   SMSG_BATTLEFIELD_MGR_QUEUE_INVITE |-> PlainSmsg(<<4, 1>>, 4 + 1, 5),
   CMSG_BATTLEFIELD_MGR_QUEUE_INVITE_RESPONSE |-> PlainCmsg(<<4, 1>>, 4 + 1, 5),
   SMSG_BATTLEFIELD_MGR_QUEUE_REQUEST_RESPONSE |->
     PlainSmsg(<<4, 4, 1, 1, 1>>, 2 * 4 + 3 * 1, 11),
   SMSG_BATTLEFIELD_MGR_EJECT_PENDING |-> PlainSmsg(<<4>>, 4, 4)]

wrath_FromSmsgBattlefieldMgrEjected ==
  [SMSG_BATTLEFIELD_MGR_EJECTED |-> PlainSmsg(<<4, 1, 1, 1>>, 4 + 3 * 1, 7),
   CMSG_BATTLEFIELD_MGR_EXIT_REQUEST |-> PlainCmsg(<<4>>, 4, 4),
   SMSG_BATTLEFIELD_MGR_STATE_CHANGE |-> PlainSmsg(<<4, 4>>, 2 * 4, 8),
   MSG_SET_RAID_DIFFICULTY_Client |-> PlainCmsg(<<4>>, 4, 4),
   MSG_SET_RAID_DIFFICULTY_Server |-> PlainSmsg(<<4, 4, 4>>, 3 * 4, 12),
   SMSG_TOGGLE_XP_GAIN |-> EmptySmsg(0)]

wrath_FromSmsgGmresponseDbError ==
  [SMSG_GMRESPONSE_DB_ERROR |-> EmptySmsg(0),
   SMSG_GMRESPONSE_RECEIVED |-> [w \in OfLength |->
     Smsg(Ints(<<4, 4>>) \o Cstring(w) \o Each(4, Cstring(w)),
          2 * 4 + write_cstring(w) + 4 * write_cstring(w), 9 + w.len + 4 * (1 + w.len))],
   CMSG_GMRESPONSE_RESOLVE |-> EmptyCmsg(0),
   SMSG_GMRESPONSE_STATUS_UPDATE |-> PlainSmsg(<<1>>, 1, 1),
   CMSG_WORLD_STATE_UI_TIMER_UPDATE |-> EmptyCmsg(0),
   SMSG_WORLD_STATE_UI_TIMER_UPDATE |-> PlainSmsg(<<4>>, 4, 4)]

wrath_FromCmsgCharRaceChange ==
  [CMSG_CHAR_RACE_CHANGE |-> [w \in OfLength |->
     Cmsg(
       Ints(<<8>>) \o Cstring(w) \o Ints(Repeat(7, 1)), 8 + write_cstring(w) + 7 * 1, 16 + w.len)],
   SMSG_TALENTS_INVOLUNTARILY_RESET |-> PlainSmsg(<<1>>, 1, 1),
   CMSG_READY_FOR_ACCOUNT_DATA_TIMES |-> EmptyCmsg(0),
   CMSG_QUERY_QUESTS_COMPLETED |-> EmptyCmsg(0),
   SMSG_QUERY_QUESTS_COMPLETED_RESPONSE |-> [w \in OfCount |->
     Smsg(Ints(<<4>> \o Repeat(w.count, 4)), 4 + w.count * 4, 4 + 4 * w.count)]]

wrath_FromCmsgGmReportLag ==
  [CMSG_GM_REPORT_LAG |-> [w \in {Fixed} |->
     Cmsg(Ints(<<4, 4>>) \o Vector3d.read, 2 * 4 + Vector3d.written, 20)],
   SMSG_CORPSE_NOT_IN_INSTANCE |-> EmptySmsg(0),
   SMSG_CAMERA_SHAKE |-> PlainSmsg(<<4, 4>>, 2 * 4, 8),
   SMSG_SOCKET_GEMS_RESULT |-> PlainSmsg(<<8, 4, 4, 4>>, 8 + 3 * 4, 20),
   SMSG_REDIRECT_CLIENT |-> PlainSmsg(<<4, 2, 4>> \o Repeat(20, 1), 4 + 2 + 4 + 20, 30)]

wrath_FromSmsgMoveSetCollisionHgt ==
  [SMSG_MOVE_SET_COLLISION_HGT |-> [w \in OfLength |->
     Smsg(
       PackedGuid(w) \o Ints(<<4, 4>>), write_packed_guid(w) + 2 * 4, 8 + wwm_packed_guid_size(w))],
   CMSG_MOVE_SET_COLLISION_HGT_ACK |->
     wrath_FromCmsgForceRunSpeedChangeAck.CMSG_FORCE_RUN_SPEED_CHANGE_ACK,
   SMSG_MULTIPLE_MOVES |-> [w \in OfLengthAndCount |->
     Smsg(
       Counted(4, Ints(<<4>>))
       \o Endless(w.count, wrath_MiniMoveMessage(w).read, wrath_MiniMoveMessage(w).size),
       4 + w.count * wrath_MiniMoveMessage(w).written,
       4 + w.count * wrath_MiniMoveMessage(w).size)]]

wrath_HighGroups ==
  <<wrath_FromSmsgSplineMoveSetRunMode, wrath_FromMsgMoveTimeSkipped,
    wrath_FromSmsgUpdateLastInstance, wrath_FromMsgRaidReadyCheck,
    wrath_FromSmsgGmTicketStatusUpdate, wrath_FromSmsgChatPlayerAmbiguous,
    wrath_FromSmsgSpellsteallog, wrath_FromCmsgMoveSetCanTransitionBetweenSwimAndFlyAck,
    wrath_FromCmsgMoveSetFly, wrath_FromSmsgArenaTeamQueryResponse,
    wrath_FromCmsgArenaTeamInvite, wrath_FromCmsgArenaTeamDisband, wrath_FromSmsgArenaTeamEvent,
    wrath_FromCmsgBattlemasterJoinArena, wrath_FromSmsgArenaTeamStats,
    wrath_FromCmsgSearchLfgLeave, wrath_FromSmsgLfgProposalUpdate, wrath_FromSmsgLfgJoinResult,
    wrath_FromSmsgLfgUpdatePlayer, wrath_FromSmsgLfgUpdateSearch, wrath_FromSmsgLfgPlayerInfo,
    wrath_FromSmsgTitleEarned, wrath_FromMsgInspectArenaTeams,
    wrath_FromMsgMoveSetFlightBackSpeed, wrath_FromCmsgForceFlightBackSpeedChangeAck,
    wrath_FromCmsgSetTaxiBenchmarkMode, wrath_FromSmsgTimeSyncReq, wrath_FromMsgMoveStartDescend,
    wrath_FromCmsgVoiceSessionEnable, wrath_FromSmsgGmMessagechat,
    wrath_FromCmsgCommentatorEnable, wrath_FromCmsgComplain, wrath_FromCmsgChannelDisplayList,
    wrath_FromCmsgReportPvpAfk, wrath_FromSmsgGuildBankList, wrath_FromCmsgGuildBankSwapItems,
    wrath_FromCmsgGuildBankBuyTab, wrath_FromMsgGuildBankLogQuery, wrath_FromSmsgUserlistRemove,
    wrath_FromSmsgInspectTalent, wrath_FromMsgGuildPermissions, wrath_FromCmsgGetMirrorimageData,
    wrath_FromMsgQueryGuildBankText, wrath_FromSmsgTotemCreated,
    wrath_FromSmsgSetPlayerDeclinedNamesResult, wrath_FromSmsgReferAFriendFailure,
    wrath_FromSmsgBarberShopResult, wrath_FromCmsgCalendarAddEvent,
    wrath_FromCmsgCalendarRemoveEvent, wrath_FromCmsgCalendarEventRemoveInvite,
    wrath_FromSmsgCalendarSendCalendar, wrath_FromSmsgCalendarSendEvent,
    wrath_FromSmsgCalendarArenaTeam, wrath_FromSmsgCalendarEventStatus,
    wrath_FromSmsgCalendarRaidLockoutRemoved, wrath_FromSmsgCalendarEventRemovedAlert,
    wrath_FromCmsgCalendarComplain, wrath_FromSmsgCalendarEventInviteNotes,
    wrath_FromSmsgTriggerMovie, wrath_FromCmsgQueryInspectAchievements,
    wrath_FromCmsgCharCustomize, wrath_FromCmsgRequestVehicleNextSeat, wrath_FromSmsgPowerUpdate,
    wrath_FromSmsgThreatUpdate, wrath_FromSmsgResyncRunes, wrath_FromSmsgAuctionListPendingSales,
    wrath_FromSmsgPreResurrect, wrath_FromSmsgPetLearnedSpell, wrath_FromSmsgAchievementDeleted,
    wrath_FromSmsgClientcacheVersion, wrath_FromSmsgItemRefundResult,
    wrath_FromSmsgCalendarClearPendingAction, wrath_FromSmsgSetProjectilePosition,
    wrath_FromCmsgLearnPreviewTalentsPet, wrath_FromSmsgMoveGravityEnable,
    wrath_FromCmsgEquipmentSetUse, wrath_FromSmsgCharFactionChange,
    wrath_FromSmsgBattlefieldMgrEntered, wrath_FromSmsgBattlefieldMgrEjected,
    wrath_FromSmsgGmresponseDbError, wrath_FromCmsgCharRaceChange, wrath_FromCmsgGmReportLag,
    wrath_FromSmsgMoveSetCollisionHgt>>

wrath_Messages == wrath_LowGroups \o wrath_MidGroups \o wrath_HighGroups
=============================================================================
