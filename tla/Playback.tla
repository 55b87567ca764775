------------------------------- MODULE Playback -------------------------------
(***************************************************************************)
(* Listening to a recording in the terminal: the controller of tbo-tui's   *)
(* data/playback.rs, which fetches the audio and sends commands, and the   *)
(* player's thread of tbo-audio, which applies them to the output device   *)
(* and keeps the state that the screen and the play/pause key read. The    *)
(* host is one that has an output device.                                  *)
(***************************************************************************)
EXTENDS Integers, Sequences

CONSTANT MaxCommands    \* bound: commands in the channel

ASSUME PlaybackAssumption == MaxCommands \in Nat \ {0}

VARIABLES
    fetch,          \* the fetch whose channel is held, and how far it is
    commands,       \* the channel to the thread
    thread,
    device,         \* the backend's player: what is heard
    status,         \* the shared PlaybackState
    undecoded       \* its `error` is set

playbackVars == <<fetch, commands, thread, device, status, undecoded>>

Commands == {"play", "pause", "resume", "stop", "quit"}

PlaybackTypeOK ==
    /\ fetch \in {"none", "detail", "download", "answered", "failed", "dead"}
    /\ commands \in Seq(Commands) /\ Len(commands) <= MaxCommands + 1
    /\ thread \in {"running", "quitting", "gone"}
    /\ device \in {"none", "playing", "paused", "drained"}
    /\ status \in {"idle", "playing", "paused", "ended"}
    /\ undecoded \in BOOLEAN

PlaybackInit ==
    /\ fetch = "none"
    /\ commands = <<>>
    /\ thread = "running"
    /\ device = "none"
    /\ status = "idle"
    /\ undecoded = FALSE

----------------------------------------------------------------------------
(* The controller.                                                         *)

(* A message's URL is fetched anew before the download, a question's is    *)
(* used as it is. Nothing is fetched while something else is.              *)
AskToPlay ==
    /\ thread = "running"
    /\ fetch = "none"
    /\ fetch' \in {"detail", "download"}
    /\ UNCHANGED <<commands, thread, device, status, undecoded>>

(* A message that cannot be fetched anew is downloaded all the same.       *)
FetchMoves ==
    /\ \/ fetch = "detail" /\ fetch' = "download"
       \/ fetch = "download" /\ fetch' \in {"answered", "failed"}
       \/ fetch \in {"detail", "download"} /\ fetch' = "dead"
    /\ UNCHANGED <<commands, thread, device, status, undecoded>>

Send(command) ==
    /\ thread = "running"
    /\ Len(commands) < MaxCommands
    /\ commands' = Append(commands, command)
    /\ UNCHANGED <<thread, device, status, undecoded>>

(* drain: what was downloaded goes to the player, also after a stop.       *)
Deliver ==
    \/ fetch = "answered" /\ Send("play") /\ fetch' = "none"
    \/ /\ fetch \in {"failed", "dead"} /\ thread = "running"
       /\ fetch' = "none"
       /\ UNCHANGED <<commands, thread, device, status, undecoded>>

(* toggle goes by the state, which lags behind the commands on their way.  *)
Toggle ==
    /\ \/ status = "playing" /\ Send("pause")
       \/ status = "paused" /\ Send("resume")
    /\ UNCHANGED fetch

StopKey == Send("stop") /\ UNCHANGED fetch

(* The player is dropped, and joins its thread.                            *)
QuitKey ==
    /\ thread = "running"
    /\ thread' = "quitting"
    /\ commands' = Append(commands, "quit")
    /\ UNCHANGED <<fetch, device, status, undecoded>>

----------------------------------------------------------------------------
(* The thread: apply_command. A command and its change of the state are    *)
(* one step: a key pressed between the two reads the state from before     *)
(* both, as if it had been pressed before the command was taken.           *)

Decoded ==
    device' = "playing" /\ status' = "playing" /\ undecoded' = FALSE

(* backend.play returns before it replaces the track that is heard.        *)
NotDecoded ==
    status' = "idle" /\ undecoded' = TRUE /\ UNCHANGED device

Paused ==
    /\ device' = IF device = "playing" THEN "paused" ELSE device
    /\ status' = IF status = "playing" THEN "paused" ELSE status
    /\ UNCHANGED undecoded

ResumedAnyway ==        \* a slip: resuming does not look at the state
    /\ device' = IF device = "paused" THEN "playing" ELSE device
    /\ status' = "playing"
    /\ UNCHANGED undecoded

Resumed ==
    /\ device' = IF device = "paused" THEN "playing" ELSE device
    /\ status' = IF status = "paused" THEN "playing" ELSE status
    /\ UNCHANGED undecoded

Stopped ==
    device' = "none" /\ status' = "idle" /\ UNCHANGED undecoded

QuitNow == device' = "none" /\ thread' = "gone" /\ UNCHANGED <<status, undecoded>>

ApplyCommand ==
    /\ thread # "gone"
    /\ commands # <<>>
    /\ commands' = Tail(commands)
    /\ LET command == Head(commands) IN
         \/ command = "play" /\ (Decoded \/ NotDecoded) /\ UNCHANGED thread
         \/ command = "pause" /\ Paused /\ UNCHANGED thread
         \/ command = "resume" /\ Resumed /\ UNCHANGED thread
         \/ command = "stop" /\ Stopped /\ UNCHANGED thread
         \/ command = "quit" /\ QuitNow
    /\ UNCHANGED fetch

(* poll_progress, when no command came for POLL_INTERVAL.                  *)
PollProgress ==
    /\ thread # "gone"
    /\ commands = <<>>
    /\ status = "playing" /\ device \in {"none", "drained"}
    /\ status' = "ended"
    /\ UNCHANGED <<fetch, commands, thread, device, undecoded>>

(* The device has played the track to its end.                             *)
Drains ==
    /\ device = "playing"
    /\ device' = "drained"
    /\ UNCHANGED <<fetch, commands, thread, status, undecoded>>

(* The program is over.                                                    *)
PlaybackOver == thread = "gone" /\ UNCHANGED playbackVars

PlaybackNext ==
    \/ AskToPlay \/ FetchMoves \/ Deliver \/ Toggle \/ StopKey \/ QuitKey
    \/ ApplyCommand \/ PollProgress \/ Drains \/ PlaybackOver

PlaybackSpec == PlaybackInit /\ [][PlaybackNext]_playbackVars

----------------------------------------------------------------------------
(* The state is what is heard, whatever the order in which keys, the       *)
(* thread and the end of the track meet: a track said to play is there and *)
(* not paused, one said to be paused does not sound, and without an error  *)
(* an idle player is silent. A pause that comes after the last sample      *)
(* finds the track drained.                                                *)
ShownAsHeard ==
    thread # "gone" =>
      /\ status = "playing" => device \in {"playing", "drained"}
      /\ status = "paused" => device \in {"paused", "drained"}
      /\ status = "ended" => device = "drained"
      /\ status = "idle" /\ ~undecoded => device = "none"

(* state.rs: "Idle: Nothing is loaded", and a failed load is "returning to *)
(* idle"; player.rs: play is "replacing any current track".                *)
IdleIsSilent == status = "idle" => device = "none"
=============================================================================
