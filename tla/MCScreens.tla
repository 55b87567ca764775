------------------------------ MODULE MCScreens ------------------------------
(***************************************************************************)
(* One run for the parts of the program that share no state: in each       *)
(* behaviour one of them is at work, and the others stay as they were at   *)
(* the start.                                                              *)
(***************************************************************************)
EXTENDS EventFeed, AuditLog, CallSessions, StatsView, BoothStatus, Playback,
        DebugPanel, AudioMeter, DevicePoll, ConfigStore, SystemHealth, SseStream,
        OperatorCalls, BoothLink, Onboarding, PanelRecords, Exposition, Keys

VARIABLE screen     \* the part that is at work

screensVars ==
    <<eventsVars, auditVars, callsVars, statsVars, statusVars, playbackVars,
      debugVars, meterVars, deviceVars, configVars, healthVars, sseVars, requestVars, linkVars,
      setupVars, panelVars, pageVars, keysVars, screen>>

Screens == {"events", "audit", "calls", "stats", "status", "playback", "debug",
            "meter", "device", "config", "health", "stream", "calling", "link", "setup",
            "panel", "page", "keys"}

\* The lines a server may send: a blank line, a comment, the name of a booth
\* event or of another one, data with a value or none, an unknown field. A line
\* may end in CRLF; two of them do. The last line of a stream is blank: what
\* comes after it would not be an event yet.
Texts == {<<>>, <<":", "x">>, <<"event", "booth">>, <<"event", "x">>,
          <<"data", "x">>, <<"data">>, <<"retry">>}
Lines == {t \o <<"nl">> : t \in Texts} \cup {<<"data", "x", "cr", "nl">>, <<"cr", "nl">>}
ThreeLines == {FlattenSeq(ls) \o <<"nl">> : ls \in BoundedSeq(Lines, 3)}

\* Two mount points that differ only in how they are escaped.
TwinMounts == {<<Back, Letter>>, <<LineFeed, Quote>>}

\* The types of the part that is at work: the others stay as they were.
ScreensTypeOK ==
    CASE screen = "events" -> EventsTypeOK
      [] screen = "audit" -> AuditTypeOK
      [] screen = "calls" -> CallsTypeOK
      [] screen = "stats" -> StatsTypeOK
      [] screen = "status" -> StatusTypeOK
      [] screen = "playback" -> PlaybackTypeOK
      [] screen = "debug" -> DebugTypeOK
      [] screen = "meter" -> MeterTypeOK
      [] screen = "device" -> DeviceTypeOK
      [] screen = "config" -> ConfigTypeOK
      [] screen = "health" -> HealthTypeOK
      [] screen = "stream" -> SseTypeOK
      [] screen = "calling" -> RequestsTypeOK
      [] screen = "link" -> LinkTypeOK
      [] screen = "setup" -> SetupTypeOK
      [] screen = "panel" -> PanelTypeOK
      [] screen = "page" -> PageTypeOK
      [] screen = "keys" -> KeysTypeOK

OneBooth == [scheme |-> "http", caps |-> FALSE, blank |-> "no", pin |-> "none", token |-> FALSE]

\* A part that is not at work has one initial state.
ScreensInit ==
    /\ screen \in Screens
    /\ screen # "status" => installation = "none"
    /\ screen # "device" => began = 0
    /\ screen # "stream" => wire = <<"nl">>
    /\ screen # "calling" => signedIn = FALSE /\ archive = "absent"
    /\ screen # "link" => booth = OneBooth
    /\ screen # "setup" => existing = Unset
    /\ screen # "keys" => signIn = "out" /\ debugger = "no-booth"
    /\ EventsInit /\ AuditInit /\ CallsInit /\ StatsInit /\ StatusInit
    /\ PlaybackInit /\ DebugInit /\ MeterInit /\ DeviceInit /\ ConfigInit
    /\ screen # "config" =>
         configFile.holds = Defaults /\ ~secretsFile.torn /\ secretsFile.token = NoToken
    /\ HealthInit /\ SseInit /\ RequestsInit /\ LinkInit /\ SetupInit /\ PanelInit
    /\ PageInit /\ KeysInit

Others(name) ==
    /\ screen = name
    /\ UNCHANGED screen
    /\ name # "events" => UNCHANGED eventsVars
    /\ name # "audit" => UNCHANGED auditVars
    /\ name # "calls" => UNCHANGED callsVars
    /\ name # "stats" => UNCHANGED statsVars
    /\ name # "status" => UNCHANGED statusVars
    /\ name # "playback" => UNCHANGED playbackVars
    /\ name # "debug" => UNCHANGED debugVars
    /\ name # "meter" => UNCHANGED meterVars
    /\ name # "device" => UNCHANGED deviceVars
    /\ name # "config" => UNCHANGED configVars
    /\ name # "health" => UNCHANGED healthVars
    /\ name # "stream" => UNCHANGED sseVars
    /\ name # "calling" => UNCHANGED requestVars
    /\ name # "link" => UNCHANGED linkVars
    /\ name # "setup" => UNCHANGED setupVars
    /\ name # "panel" => UNCHANGED panelVars
    /\ name # "page" => UNCHANGED pageVars
    /\ name # "keys" => UNCHANGED keysVars

ScreensNext ==
    \/ Others("events") /\ EventsNext
    \/ Others("audit") /\ AuditNext
    \/ Others("calls") /\ CallsNext
    \/ Others("stats") /\ StatsNext
    \/ Others("status") /\ StatusNext
    \/ Others("playback") /\ PlaybackNext
    \/ Others("debug") /\ DebugNext
    \/ Others("meter") /\ MeterNext
    \/ Others("device") /\ DeviceNext
    \/ Others("config") /\ ConfigNext
    \/ Others("health") /\ HealthNext
    \/ Others("stream") /\ SseNext
    \/ Others("calling") /\ RequestsNext
    \/ Others("link") /\ LinkNext
    \/ Others("setup") /\ SetupNext
    \/ Others("panel") /\ PanelNext
    \/ Others("page") /\ PageNext
    \/ Others("keys") /\ KeysNext

ScreensSpec ==
    /\ ScreensInit /\ [][ScreensNext]_screensVars
    /\ WF_eventsVars(screen = "events" /\ EventsTick)
    /\ WF_statusVars(screen = "status" /\ StatusTick)
    /\ WF_statusVars(screen = "status" /\ FiveSeconds)
    /\ WF_statusVars(screen = "status" /\ (PollServed \/ PollAnswered \/ PollFails))
    /\ SF_statusVars(screen = "status" /\ PollServed)
    /\ SF_statusVars(screen = "status" /\ PollAnswered)
    /\ WF_debugVars(screen = "debug" /\ DebugTick(TRUE))
    /\ WF_debugVars(screen = "debug" /\ RoundFallsDue)
    /\ WF_debugVars(screen = "debug" /\ RoundMoves)
    /\ SF_debugVars(screen = "debug" /\ RoundServed)
    /\ SF_debugVars(screen = "debug" /\ RoundAnswered)
    /\ WF_setupVars(screen = "setup" /\ GoesOnAlone)

(* The status settles (SettledIsShown of BoothStatus), where it is asked   *)
(* for: data/status.rs polls on every screen.                              *)
StatusSettles == screen = "status" => SettledIsShown
=============================================================================
