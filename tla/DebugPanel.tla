------------------------------ MODULE DebugPanel ------------------------------
(***************************************************************************)
(* The booth debug panel of tbo-tui's data/debug.rs: rounds of REST polls, *)
(* each endpoint for itself, and a telemetry socket that drives the panel  *)
(* instead while it is on, replaying from where the last one ended.        *)
(*                                                                         *)
(* The booth numbers its telemetry records; what the panel shows is the    *)
(* number of the record it is up to date with. The kinds of records and    *)
(* the log filter are PanelRecords', the meters AudioMeter's, the controls *)
(* Keys'.                                                                  *)
(***************************************************************************)
EXTENDS Integers, Sequences, FiniteSetsExt

CONSTANTS
    Kept,           \* records the booth keeps for a replay
    MaxRecords      \* bound: records made

ASSUME DebugAssumption == {Kept, MaxRecords} \subseteq Nat \ {0}

VARIABLES
    recorded,       \* the booth's last record
    panel,          \* what the panel shows, 0 before anything came
    round,          \* the round of polls whose channel is held
    roundError, seeded, roundDue,
    isLive, stream, sent, records,      \* the socket: its task and channel
    lastRecord,     \* `last_record_id`, 0 for none
    outrun          \* history: the booth no longer had what was asked for

debugVars == <<recorded, panel, round, roundError, seeded, roundDue, isLive,
               stream, sent, records, lastRecord, outrun>>

RecordIds == 1..MaxRecords
Failed == -1
Rounds == [at: {"none", "asked", "served", "answered", "dead"}, of: Failed..MaxRecords]
NoRound(at) == [at |-> at, of |-> Failed]

DebugTypeOK ==
    /\ recorded \in 0..MaxRecords
    /\ panel \in 0..MaxRecords
    /\ round \in Rounds
    /\ roundError \in BOOLEAN /\ seeded \in BOOLEAN /\ roundDue \in BOOLEAN
    /\ isLive \in BOOLEAN
    /\ stream \in {"none", "connecting", "open", "failed", "closed"}
    /\ sent \in 0..MaxRecords
    /\ records \in Seq(RecordIds)
    /\ lastRecord \in 0..MaxRecords
    /\ outrun \in BOOLEAN

DebugInit ==
    /\ recorded = 0
    /\ panel = 0
    /\ round = NoRound("none")
    /\ roundError = FALSE /\ seeded = FALSE /\ roundDue = FALSE
    /\ isLive = FALSE /\ stream = "none" /\ sent = 0 /\ records = <<>>
    /\ lastRecord = 0
    /\ outrun = FALSE

----------------------------------------------------------------------------
(* The booth, and the tasks that talk to it.                               *)

RecordMade ==
    /\ recorded < MaxRecords
    /\ recorded' = recorded + 1
    /\ UNCHANGED <<panel, round, roundError, seeded, roundDue, isLive,
                   stream, sent, records, lastRecord, outrun>>

(* The booth answers, and the answer is here when newer records have come. *)
RoundServed ==
    /\ round.at = "asked"
    /\ round' = [at |-> "served", of |-> recorded]
    /\ UNCHANGED <<recorded, panel, roundError, seeded, roundDue, isLive,
                   stream, sent, records, lastRecord, outrun>>

RoundAnswered ==
    /\ round.at = "served"
    /\ round' = [round EXCEPT !.at = "answered"]
    /\ UNCHANGED <<recorded, panel, roundError, seeded, roundDue, isLive,
                   stream, sent, records, lastRecord, outrun>>

(* The booth does not answer; or the task died.                            *)
RoundFails ==
    /\ round.at = "asked"
    /\ round' \in {NoRound("answered"), NoRound("dead")}
    /\ UNCHANGED <<recorded, panel, roundError, seeded, roundDue, isLive,
                   stream, sent, records, lastRecord, outrun>>

RoundMoves == RoundServed \/ RoundAnswered \/ RoundFails

ReplaysLast ==          \* a slip: the replay begins with the record that was last
    IF lastRecord = 0 THEN recorded ELSE Max({lastRecord - 1, recorded - Kept})

(* The records before the first that the stream sends: with no record yet, *)
(* there is no replay; else it is asked to begin after the last one.       *)
SentBefore == IF lastRecord = 0 THEN recorded ELSE Max({lastRecord, recorded - Kept})

StreamOpens ==
    /\ stream = "connecting"
    /\ stream' = "open"
    /\ sent' = SentBefore
    /\ outrun' = (outrun \/ (lastRecord # 0 /\ recorded - Kept > lastRecord))
    /\ UNCHANGED <<recorded, panel, round, roundError, seeded, roundDue,
                   isLive, records, lastRecord>>

StreamForwards ==
    /\ stream = "open"
    /\ sent < recorded
    /\ sent' = sent + 1
    /\ records' = Append(records, sent + 1)
    /\ UNCHANGED <<recorded, panel, round, roundError, seeded, roundDue,
                   isLive, stream, lastRecord, outrun>>

(* An error is forwarded behind the records; a closed stream just ends.    *)
StreamEnds ==
    /\ \/ stream \in {"connecting", "open"} /\ stream' = "failed"
       \/ stream = "open" /\ stream' = "closed"
    /\ UNCHANGED <<recorded, panel, round, roundError, seeded, roundDue,
                   isLive, sent, records, lastRecord, outrun>>

----------------------------------------------------------------------------
(* The controller.                                                         *)

ReadyUnlessDead ==      \* a slip: a round that died stays in flight
    round.at \notin {"asked", "served", "dead"}

(* No round is in flight, once the channel was drained.                    *)
RoundReady == round.at \notin {"asked", "served"}

StreamOver == stream \in {"failed", "closed"}

(* tick: drain, drain_stream, and the next round: one to begin with, and   *)
(* then on the interval unless telemetry drives the panel.                 *)
DebugTick(focused) ==
    LET applied == round.at = "answered"
        polled == IF applied /\ round.of # Failed THEN round.of ELSE panel
        stillLive == isLive /\ ~StreamOver
        asks == /\ focused /\ RoundReady
                /\ \/ ~(seeded \/ applied)
                   \/ ~stillLive /\ ~applied /\ roundDue
    IN  /\ panel' = IF records = <<>> THEN polled ELSE records[Len(records)]
        /\ roundError' = IF applied THEN (round.of = Failed) ELSE roundError
        /\ seeded' = (seeded \/ applied)
        /\ roundDue' = (roundDue /\ ~applied)
        /\ round' = IF asks THEN NoRound("asked")
                    ELSE IF RoundReady THEN NoRound("none") ELSE round
        /\ lastRecord' = IF records = <<>> THEN lastRecord ELSE records[Len(records)]
        /\ records' = <<>>
        /\ isLive' = stillLive
        /\ stream' = IF StreamOver THEN "none" ELSE stream
        /\ UNCHANGED <<recorded, sent, outrun>>

(* POLL_INTERVAL has passed since the last round was applied.              *)
RoundFallsDue ==
    /\ seeded /\ ~roundDue
    /\ roundDue' = TRUE
    /\ UNCHANGED <<recorded, panel, round, roundError, seeded, isLive, stream,
                   sent, records, lastRecord, outrun>>

(* refresh, which a new log filter (cycle_log_level) asks for as well.     *)
DebugRefresh ==
    /\ round.at = "none"
    /\ round' = NoRound("asked")
    /\ UNCHANGED <<recorded, panel, roundError, seeded, roundDue, isLive,
                   stream, sent, records, lastRecord, outrun>>

(* toggle_live; what a stream that is switched off has sent is gone.       *)
ToggleLive ==
    /\ isLive' = ~isLive
    /\ stream' = IF isLive THEN "none" ELSE "connecting"
    /\ sent' = 0
    /\ records' = <<>>
    /\ UNCHANGED <<recorded, panel, round, roundError, seeded, roundDue,
                   lastRecord, outrun>>

DebugNext ==
    \/ RecordMade \/ RoundMoves
    \/ StreamOpens \/ StreamForwards \/ StreamEnds
    \/ DebugTick(TRUE) \/ DebugTick(FALSE)
    \/ RoundFallsDue \/ DebugRefresh \/ ToggleLive

DebugSpec == DebugInit /\ [][DebugNext]_debugVars

----------------------------------------------------------------------------
(* Telemetry that is switched off and on again, or whose socket fails with *)
(* records still in the channel, goes on where it ended: no record is left *)
(* out and none comes twice (toggle_live, stop_live, apply_record), unless *)
(* the booth has forgotten it meanwhile.                                   *)
ReplayGoesOn ==
    records # <<>> /\ lastRecord # 0 =>
      \/ records[1] = lastRecord + 1
      \/ outrun /\ records[1] > lastRecord

(* Once telemetry is off for good, polling takes over and shows the booth  *)
(* as it is, whatever rounds died or failed before, and whatever an early  *)
(* round or a late replay has shown meanwhile.                             *)
PollingTakesOver ==
    <>[](~isLive /\ recorded = MaxRecords) => <>[](panel = MaxRecords)
=============================================================================
