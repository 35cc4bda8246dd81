---------------------------- MODULE MpdOperations ----------------------------
(***************************************************************************)
(* What each function of libmpd that works on the MpdObj does, but for     *)
(* those of a search (MpdSearch), as the sequence of its steps.  A step is *)
(* the name of another function, which is called, or of an action of       *)
(* MpdSession; a function whose result the caller looks at is followed by  *)
(* "or_fail", which returns if it failed.  Functions are named as in the   *)
(* code, without their mpd_.                                               *)
(***************************************************************************)
EXTENDS Sequences

CONSTANT HasPassword   \* mi->password is set and not empty

ASSUME HasPasswordAssumption == HasPassword \in BOOLEAN

\* Nearly every function begins with these two tests, talks to the server
\* and gives the connection back.
Locked(talk) == <<"connected", "lock">> \o talk \o <<"unlock">>

OK      == <<"return">>
Checked == <<"or_fail", "return">>

-----------------------------------------------------------------------------
(* libmpd.c: errors and the life of the connection *)

\* mpd_check_error goes on as one of the two below when there is an error.
CheckError == <<"look", "return">>
AckError   == <<"error_callback", "obey", "return_failed">>

\* Mutation: the connection is kept after any error.
FatalErrorKeeps == <<"error_callback", "return_failed">>

FatalError == <<"error_callback", "disconnect", "return_failed">>

Disconnect == <<"close", "return">>

Connect ==
  <<"leave", "open", "check_error", "or_fail", "accept", "unlock", "or_fail",
    "server_get_allowed_commands", "or_fail",
    IF HasPassword THEN "send_password" ELSE "server_get_tag_types",
    "server_update_outputs", "signal_connected", "return">>

SendPassword ==
  IF ~HasPassword THEN OK
  ELSE <<"if_connected", "lock", "exec", "unlock", "or_fail",
         "server_get_allowed_commands", "server_get_tag_types", "signal_status", "return">>

SetConnectionTimeout == <<"if_connected", "lock", "unlock", "return">>

ServerGetAllowedCommands ==
  <<"connected", "version", "free_commands", "lock", "commands", "notcommands", "unlock", "or_fail", "return">>

\* Mutation: the early return without the unlock.
ServerUpdateOutputsLeaves == <<"connected", "lock", "outputs", "return">>

ServerUpdateOutputs         == Locked(<<"outputs">>) \o <<"return_result">>
ServerGetOutputDevices      == Locked(<<"exec">>) \o Checked
ServerSetOutputDevice       == Locked(<<"exec">>) \o <<"status_queue_update", "return">>
ServerGetUrlHandlers        == <<"connected", "if_no_handlers", "lock", "handlers", "unlock", "return">>
ServerGetTagTypes           == Locked(<<"exec">>) \o OK
ServerSetReplaygainMode     == Locked(<<"exec">>) \o <<"return_result">>
ServerGetReplaygainMode     == Locked(<<"exec">>) \o OK
ServerGetDatabaseUpdateTime == <<"connected", "stats_check", "or_fail", "stats_value", "return">>

-----------------------------------------------------------------------------
(* libmpd-status.c *)

StatusQueueUpdate == <<"connected", "forget_status", "return">>

\* Mutation: the status is used without asking whether the unlock failed.
StatusUpdateUnchecked ==
  <<"connected", "lock", "fetch_status", "unlock", "compare", "clear_error", "stats_if_stopped",
    "record", "watch", "stats_if_database", "signal_status", "connected", "return">>

StatusUpdate ==
  <<"connected", "lock", "fetch_status", "unlock", "or_fail", "compare", "clear_error", "stats_if_stopped",
    "record", "watch", "stats_if_database", "signal_status", "connected", "return">>

\* Mutation: what mpd_status_update returns is not looked at.
StatusCheckUnchecked == <<"connected", "need_status", "return">>

StatusCheck == <<"connected", "need_status", "or_fail", "return">>

\* The getters: those that read mi->status and those that read CurrentState.
StatusGetter  == <<"connected", "status_check", "or_fail", "status_value", "return">>
CurrentGetter == <<"status_check", "or_fail", "return">>

StatusGetVolume    == <<"status_check", "or_fail", "status_value", "return">>
StatusSetVolume    == Locked(<<"set">>) \o <<"status_queue_update", "status_get_volume", "return_result">>
StatusSetCrossfade == Locked(<<"set">>) \o <<"status_queue_update", "return">>

\* What mpd_stats_update finds out reaches no callback (see MpdStatus).
StatsUpdateReal == Locked(<<"fetch_stats">>) \o Checked
StatsUpdate     == StatsUpdateReal
StatsCheck      == <<"connected", "need_stats", "or_fail", "return">>
StatsGetter     == <<"stats_check", "or_fail", "stats_value", "return">>

-----------------------------------------------------------------------------
(* libmpd-player.c *)

\* A command to the player and the status it leads to.
PlayerCommand == Locked(<<"set">>) \o <<"status_update", "or_fail", "return">>

PlayerGetState == <<"connected", "status_check", "or_fail", "status_value", "return">>

\* The state is asked for twice unless the first answer settles it.
AskState == <<"player_get_state", "ask_again">>
PlayingValue == <<"connected", "status_check", "or_fail">> \o AskState \o <<"or_fail", "if_playing", "status_value", "return">>
PlayerGetNextSongId     == PlayingValue
PlayerGetNextSongPos    == PlayingValue
PlayerGetCurrentSongId  == PlayingValue
PlayerGetCurrentSongPos == PlayingValue

PlayerPlayId == PlayerCommand
PlayerStop   == PlayerCommand
PlayerNext   == PlayerCommand
PlayerPrev   == PlayerCommand

\* Mutation: the cached status is kept after the command.
PlayerSetterKeeps == Locked(<<"set">>) \o OK

PlayerSetter == Locked(<<"set">>) \o <<"status_queue_update", "return">>

PlayerSetSingle  == PlayerSetter
PlayerSetConsume == PlayerSetter
PlayerSetRepeat  == PlayerSetter
PlayerSetRandom  == PlayerSetter

\* The state is asked for while the lock is held; the second question gets
\* the answer of the first, because nothing happens in between.
PlayerPause == Locked(<<"player_get_state", "pause">>) \o <<"status_update", "or_fail", "return">>

PlayerSeek == <<"player_get_current_song_pos", "or_fail">> \o PlayerCommand

-----------------------------------------------------------------------------
(* libmpd-playlist.c *)

PlaylistGetSong        == Locked(<<"exec">>) \o Checked
PlaylistGetSongFromPos == Locked(<<"exec">>) \o Checked
PlaylistGetSongFromPosRange ==
  <<"connected", "status_check", "or_fail", "lock", "status_value", "exec", "unlock", "or_fail", "return">>
PlaylistGetCurrentSong ==
  <<"connected", "status_check", "or_fail", "drop_old_song", "if_no_song">> \o AskState \o
  <<"if_not_stopped", "player_get_current_song_id", "or_fail", "playlist_get_song", "or_fail", "keep_song", "return">>
PlaylistClear          == Locked(<<"set">>) \o <<"status_update", "return">>
PlaylistShuffle        == Locked(<<"set">>) \o OK
PlaylistMoveId         == Locked(<<"set">>) \o OK
PlaylistMovePos        == Locked(<<"set">>) \o OK
PlaylistSetPriority    == <<"connected", "command_allowed">> \o Locked(<<"set">>) \o OK
PlaylistGetChanges     == Locked(<<"exec">>) \o Checked
PlaylistGetChangesPosid == Locked(<<"exec">>) \o Checked
PlaylistAddGetId       == Locked(<<"set">>) \o OK
\* What is queued, and what becomes of the queue, is the matter of CommandQueue.
PlaylistQueueCommit    == Locked(<<"set">>) \o <<"status_update", "return">>
\* The answer to the question of "load_failed" decides how the function ends.
PlaylistLoad           == Locked(<<"set", "load_failed">>) \o Checked
EndsAsFailed           == <<"unlock", "return_failed">>

-----------------------------------------------------------------------------
(* libmpd-database.c and libmpd-sticker.c *)

DatabaseUpdateDir          == Locked(<<"set">>) \o <<"status_update", "return">>
DatabaseGetArtists         == Locked(<<"exec">>) \o OK
DatabaseGetAlbums          == Locked(<<"exec">>) \o OK
DatabaseGetComplete        == Locked(<<"exec">>) \o OK
DatabaseFind               == Locked(<<"exec">>) \o OK
DatabaseGetDirectory       == Locked(<<"exec">>) \o OK
DatabaseGetDirectoryRecursive == Locked(<<"exec">>) \o OK
DatabaseDeletePlaylist     == Locked(<<"exec">>) \o OK
DatabaseSavePlaylist       == Locked(<<"exec", "name_exists">>) \o OK
DatabaseGetPlaylistContent ==
  <<"connected", "version", "command_allowed">> \o Locked(<<"exec", "forgive">>) \o OK
DatabaseGetFileinfo        == Locked(<<"exec">>) \o Checked
\* The edits of a stored playlist first see to it that there is a status.
StoredPlaylistEdit         == <<"connected", "status_check", "or_fail", "lock", "exec", "unlock", "return">>
DatabasePlaylistClear      == StoredPlaylistEdit
DatabasePlaylistListDelete == StoredPlaylistEdit
DatabasePlaylistListAdd    == StoredPlaylistEdit
DatabasePlaylistRename     == StoredPlaylistEdit
DatabasePlaylistMove       == Locked(<<"exec">>) \o OK
DatabasePlaylistList       == Locked(<<"exec">>) \o OK

StickerSongGet == <<"connected", "command_allowed">> \o Locked(<<"exec", "forgive">>) \o Checked
StickerSongSet == <<"connected", "command_allowed">> \o Locked(<<"exec">>) \o Checked

-----------------------------------------------------------------------------
\* The body of every function.
Code ==
  [check_error |-> CheckError, ack_error |-> AckError, fatal_error |-> FatalError,
   disconnect |-> Disconnect, connect |-> Connect, send_password |-> SendPassword,
   set_connection_timeout |-> SetConnectionTimeout,
   server_get_allowed_commands |-> ServerGetAllowedCommands,
   server_update_outputs |-> ServerUpdateOutputs,
   server_get_output_devices |-> ServerGetOutputDevices,
   server_set_output_device |-> ServerSetOutputDevice,
   server_get_url_handlers |-> ServerGetUrlHandlers,
   server_get_tag_types |-> ServerGetTagTypes,
   server_set_replaygain_mode |-> ServerSetReplaygainMode,
   server_get_replaygain_mode |-> ServerGetReplaygainMode,
   server_get_database_update_time |-> ServerGetDatabaseUpdateTime,
   status_queue_update |-> StatusQueueUpdate, status_update |-> StatusUpdate,
   status_check |-> StatusCheck, status_getter |-> StatusGetter, current_getter |-> CurrentGetter,
   status_get_volume |-> StatusGetVolume, status_set_volume |-> StatusSetVolume,
   status_set_crossfade |-> StatusSetCrossfade,
   stats_update |-> StatsUpdate, stats_update_real |-> StatsUpdateReal,
   stats_check |-> StatsCheck, stats_getter |-> StatsGetter,
   player_get_state |-> PlayerGetState,
   player_get_next_song_id |-> PlayerGetNextSongId, player_get_next_song_pos |-> PlayerGetNextSongPos,
   player_get_current_song_id |-> PlayerGetCurrentSongId, player_get_current_song_pos |-> PlayerGetCurrentSongPos,
   player_play_id |-> PlayerPlayId, player_stop |-> PlayerStop,
   player_next |-> PlayerNext, player_prev |-> PlayerPrev,
   player_set_single |-> PlayerSetSingle, player_set_consume |-> PlayerSetConsume,
   player_set_repeat |-> PlayerSetRepeat, player_set_random |-> PlayerSetRandom,
   player_pause |-> PlayerPause, player_seek |-> PlayerSeek,
   playlist_get_song |-> PlaylistGetSong, playlist_get_song_from_pos |-> PlaylistGetSongFromPos,
   playlist_get_song_from_pos_range |-> PlaylistGetSongFromPosRange,
   playlist_get_current_song |-> PlaylistGetCurrentSong,
   playlist_clear |-> PlaylistClear, playlist_shuffle |-> PlaylistShuffle,
   playlist_move_id |-> PlaylistMoveId, playlist_move_pos |-> PlaylistMovePos,
   playlist_set_priority |-> PlaylistSetPriority,
   playlist_get_changes |-> PlaylistGetChanges, playlist_get_changes_posid |-> PlaylistGetChangesPosid,
   playlist_add_get_id |-> PlaylistAddGetId, playlist_queue_commit |-> PlaylistQueueCommit,
   playlist_load |-> PlaylistLoad, ends_as_failed |-> EndsAsFailed,
   database_update_dir |-> DatabaseUpdateDir,
   database_get_artists |-> DatabaseGetArtists, database_get_albums |-> DatabaseGetAlbums,
   database_get_complete |-> DatabaseGetComplete, database_find |-> DatabaseFind,
   database_get_directory |-> DatabaseGetDirectory,
   database_get_directory_recursive |-> DatabaseGetDirectoryRecursive,
   database_delete_playlist |-> DatabaseDeletePlaylist, database_save_playlist |-> DatabaseSavePlaylist,
   database_get_playlist_content |-> DatabaseGetPlaylistContent,
   database_get_fileinfo |-> DatabaseGetFileinfo,
   database_playlist_clear |-> DatabasePlaylistClear,
   database_playlist_list_delete |-> DatabasePlaylistListDelete,
   database_playlist_list_add |-> DatabasePlaylistListAdd,
   database_playlist_rename |-> DatabasePlaylistRename,
   database_playlist_move |-> DatabasePlaylistMove, database_playlist_list |-> DatabasePlaylistList,
   sticker_song_get |-> StickerSongGet, sticker_song_set |-> StickerSongSet]

\* Parts of a function that are not functions of their own, and the two
\* internal functions: nobody calls them from outside.
Internal == {"check_error", "ack_error", "fatal_error", "ends_as_failed", "stats_update_real"}

Public == DOMAIN Code \ Internal

=============================================================================
