----------------------------- MODULE PanelRecords -----------------------------
(***************************************************************************)
(* What the booth debug panel (data/debug.rs) makes of the records and the *)
(* rounds that reach it: the log with its filter, the pins, the state and  *)
(* the audio device. Which rounds and records reach it, and when, is in    *)
(* DebugPanel; the meters are in AudioMeter.                               *)
(*                                                                         *)
(* A log line is only its level, and of a pin or a state it only counts    *)
(* whether it is shown. The booth's answer to a round is chosen where it   *)
(* is applied: nobody sees it before.                                      *)
(***************************************************************************)
EXTENDS Naturals, SequencesExt

CONSTANTS
    LogLimit,       \* LOG_LIMIT
    Logged,         \* the levels the booth logs at, as it spells them
    Roles           \* the pins of the booth

ASSUME PanelAssumption == LogLimit \in Nat

LogLevels == <<"error", "warn", "info", "debug", "trace">>      \* LOG_LEVELS

VARIABLES
    logLevel,       \* the filter: a place in LogLevels
    logs,           \* the lines shown, newest first
    asked,          \* the filter that the round in flight was asked with
    pins,           \* the roles of the pins that are shown
    word, audioDevice,      \* what the state and the audio snapshot say
    unasked         \* history: the filter changed, and no lines under it came

panelVars == <<logLevel, logs, asked, pins, word, audioDevice, unasked>>

NoAsk == 0
Unknown == "unknown"
Words == {"a state"}
Devices == {"card"}

PanelTypeOK ==
    /\ logLevel \in DOMAIN LogLevels
    /\ logs \in Seq(Logged) /\ Len(logs) <= LogLimit
    /\ asked \in DOMAIN LogLevels \cup {NoAsk}
    /\ pins \subseteq Roles
    /\ word \in Words \cup {Unknown}
    /\ audioDevice \in Devices \cup {Unknown, "no audio"}
    /\ unasked \in BOOLEAN

PanelInit ==
    /\ logLevel = 3 /\ logs = <<>>
    /\ asked = NoAsk
    /\ pins = {}
    /\ word = Unknown /\ audioDevice = "no audio"
    /\ unasked = FALSE
-----------------------------------------------------------------------------
(* level_rank: what it does not know counts as info. *)
Rank(level) ==
    CASE level = "error" -> 4 [] level \in {"warn", "warning"} -> 3
      [] level = "debug" -> 1 [] level = "trace" -> 0 [] OTHER -> 2

Fits(level, filter) == Rank(level) >= Rank(LogLevels[filter])

(* The booth's lines under a filter (external: the booth's own filter, as  *)
(* the panel's comment takes it).                                          *)
LinesUnder(filter) ==
    UNION {[1..n -> {l \in Logged : Fits(l, filter)}] : n \in 0..LogLimit}

(* refresh, by the key or the tick: nothing while a round is in flight. *)
RoundAskedWith(filter) == asked' = IF asked = NoAsk THEN filter ELSE asked

AsksRound ==
    /\ RoundAskedWith(logLevel)
    /\ UNCHANGED <<logLevel, logs, pins, word, audioDevice, unasked>>

(* cycle_log_level: the filter is the next one at once, whatever becomes   *)
(* of the round.                                                           *)
CycleLogLevel ==
    /\ logLevel' = (logLevel % Len(LogLevels)) + 1
    /\ RoundAskedWith(logLevel')
    /\ unasked' = TRUE
    /\ UNCHANGED <<logs, pins, word, audioDevice>>

(* apply: an endpoint that failed keeps its panel. The pins and the audio  *)
(* are replaced whole.                                                     *)
RoundApplied ==
    /\ asked # NoAsk
    /\ asked' = NoAsk
    /\ word' \in Words \cup {word}
    /\ pins' \in {Roles, pins}
    /\ audioDevice' \in Devices \cup {Unknown, audioDevice}
    /\ \/ /\ logs' \in LinesUnder(asked)
          /\ unasked' = (unasked /\ asked # logLevel)
       \/ UNCHANGED <<logs, unasked>>
    /\ UNCHANGED logLevel

\* The round's task died: drain forgets it.
RoundForgotten ==
    /\ asked # NoAsk
    /\ asked' = NoAsk
    /\ UNCHANGED <<logLevel, logs, pins, word, audioDevice, unasked>>
-----------------------------------------------------------------------------
(* apply_record, by the record's kind. *)
WithLine(line) ==
    LET all == <<line>> \o logs
    IN  SubSeq(all, 1, IF Len(all) < LogLimit THEN Len(all) ELSE LogLimit)

PushAnyLine(level) == WithLine(level)    \* a slip: telemetry is not filtered

(* push_live_log. *)
PushLiveLog(level) == IF Fits(level, logLevel) THEN WithLine(level) ELSE logs

LogRecord ==
    /\ \E level \in Logged : logs' = PushLiveLog(level)
    /\ UNCHANGED <<logLevel, asked, pins, word, audioDevice, unasked>>

ErrorRecord ==
    /\ "error" \in Logged
    /\ logs' = PushLiveLog("error")
    /\ UNCHANGED <<logLevel, asked, pins, word, audioDevice, unasked>>

TransitionRecord ==
    /\ word' \in Words
    /\ UNCHANGED <<logLevel, logs, asked, pins, audioDevice, unasked>>

(* apply_gpio_edge: a pin that is not known yet is added. *)
EdgeRecord ==
    /\ \E role \in Roles : pins' = pins \cup {role}
    /\ UNCHANGED <<logLevel, logs, asked, word, audioDevice, unasked>>

(* A level makes a silent snapshot if there is none; a device does not. *)
LevelRecord ==
    /\ audioDevice' = IF audioDevice = "no audio" THEN Unknown ELSE audioDevice
    /\ UNCHANGED <<logLevel, logs, asked, pins, word, unasked>>

DeviceRecord ==
    /\ audioDevice # "no audio"
    /\ audioDevice' \in Devices
    /\ UNCHANGED <<logLevel, logs, asked, pins, word, unasked>>

PanelNext ==
    \/ AsksRound \/ CycleLogLevel \/ RoundApplied \/ RoundForgotten
    \/ LogRecord \/ ErrorRecord \/ TransitionRecord \/ EdgeRecord
    \/ LevelRecord \/ DeviceRecord

PanelSpec == PanelInit /\ [][PanelNext]_panelVars
-----------------------------------------------------------------------------
(* The lines shown fit the filter shown, though rounds and telemetry bring *)
(* them side by side, each filtered in its own place. The exception is the *)
(* time between a change of the filter and the first lines that were asked *)
(* for under it: the change's own round is dropped if one is in flight,    *)
(* and that one still brings lines of the filter before.                   *)
LogFitsFilter == ~unasked => \A i \in DOMAIN logs : Fits(logs[i], logLevel)
=============================================================================
