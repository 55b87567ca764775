---------------------------- MODULE Booth_proofs -----------------------------
(***************************************************************************)
(* Theorems about the booth's panel, its meters, its host's health, the    *)
(* link to it and its metrics page: DebugPanel, PanelRecords, AudioMeter,  *)
(* SystemHealth, BoothLink and Exposition, for any length of the channel,  *)
(* of the log, of the buffers and of the page, any interfaces and mount    *)
(* points and any range of levels.                                         *)
(***************************************************************************)
EXTENDS DebugPanel, PanelRecords, AudioMeter, SystemHealth, BoothLink, Exposition,
        SequenceTheorems, Induction

------------------------------------------------------------------------------
(* DebugPanel: telemetry goes on where it ended.                           *)

(* The channel holds the records that were sent last, one after the other. *)
ChannelInOrder ==
    /\ sent <= recorded /\ lastRecord <= recorded
    /\ \A i \in DOMAIN records : records[i] = sent - Len(records) + i
    /\ stream \in {"none", "connecting"} => records = <<>>

(* The record that the panel is to get next from its socket.               *)
NextRecord == sent - Len(records) + 1

Resumes ==
    (stream = "open" \/ records # <<>>) /\ lastRecord # 0 =>
      NextRecord = lastRecord + 1 \/ (outrun /\ NextRecord > lastRecord)

DebugInv == DebugTypeOK /\ ChannelInOrder /\ Resumes

LEMMA DebugNumbers ==
    /\ Kept \in Nat /\ Kept >= 1 /\ MaxRecords \in Nat /\ MaxRecords >= 1
    /\ Failed \in Int /\ Failed = 0 - 1
  BY DebugAssumption DEF Failed

LEMMA RecordList ==
    ASSUME DebugInv
    PROVE  /\ records \in Seq(RecordIds) /\ Len(records) \in Nat
           /\ DOMAIN records = 1..Len(records)
           /\ records # <<>> =>
                /\ Len(records) >= 1 /\ records[1] = NextRecord
                /\ records[Len(records)] = sent /\ records[Len(records)] \in RecordIds
           /\ recorded \in Int /\ sent \in Int /\ lastRecord \in Int /\ sent >= 0 /\ lastRecord >= 0
           /\ recorded <= MaxRecords
  <1>1. records \in Seq(RecordIds) /\ Len(records) \in Nat /\ DOMAIN records = 1..Len(records)
    BY LenProperties DEF DebugInv, DebugTypeOK
  <1>2. recorded \in Int /\ sent \in Int /\ lastRecord \in Int /\ sent >= 0 /\ lastRecord >= 0
        /\ recorded <= MaxRecords
    BY DebugNumbers DEF DebugInv, DebugTypeOK
  <1>3. ASSUME records # <<>>
        PROVE  /\ Len(records) >= 1 /\ records[1] = NextRecord
               /\ records[Len(records)] = sent /\ records[Len(records)] \in RecordIds
    <2>1. Len(records) >= 1
      BY <1>1, <1>3, EmptySeq
    <2>2. 1 \in DOMAIN records /\ Len(records) \in DOMAIN records
      BY <1>1, <2>1
    <2>3. records[Len(records)] \in RecordIds
      BY <1>1, <2>2, ElementOfSeq
    <2>4. records[1] = sent - Len(records) + 1 /\ records[Len(records)] = sent - Len(records) + Len(records)
      BY <2>2 DEF DebugInv, ChannelInOrder
    <2> QED
      BY <1>1, <1>2, <2>1, <2>3, <2>4 DEF NextRecord
  <1> QED
    BY <1>1, <1>2, <1>3

LEMMA NoRecords == <<>> \in Seq(RecordIds) /\ Len(<<>>) = 0 /\ DOMAIN <<>> = {}
  OBVIOUS

LEMMA RoundFields ==
    \A at \in {"none", "asked", "answered", "dead"} : NoRound(at) \in Rounds
  BY DebugNumbers DEF NoRound, Rounds

LEMMA DebugInitial == DebugInit => DebugInv
  <1> SUFFICES ASSUME DebugInit PROVE DebugInv
    OBVIOUS
  <1>1. records \in Seq(RecordIds) /\ DOMAIN records = {} /\ Len(records) = 0
    BY NoRecords DEF DebugInit
  <1>2. recorded \in 0..MaxRecords /\ panel \in 0..MaxRecords /\ sent \in 0..MaxRecords
        /\ lastRecord \in 0..MaxRecords
    BY DebugNumbers DEF DebugInit
  <1>3. DebugTypeOK
    BY <1>1, <1>2, RoundFields DEF DebugInit, DebugTypeOK
  <1>4. ChannelInOrder /\ Resumes
    BY <1>1 DEF DebugInit, ChannelInOrder, Resumes
  <1> QED
    BY <1>3, <1>4 DEF DebugInv

(* Polls leave the socket alone.                                           *)
LEMMA PollsKeep ==
    DebugInv /\ (RoundMoves \/ RoundFallsDue \/ DebugRefresh \/ UNCHANGED debugVars) => DebugInv'
  <1> SUFFICES ASSUME DebugInv, RoundMoves \/ RoundFallsDue \/ DebugRefresh \/ UNCHANGED debugVars
               PROVE  DebugInv'
    OBVIOUS
  <1>1. UNCHANGED <<recorded, panel, roundError, seeded, isLive, stream, sent, records, lastRecord, outrun>>
    BY DEF RoundMoves, RoundServed, RoundAnswered, RoundFails, RoundFallsDue, DebugRefresh, debugVars
  <1>2. round' \in Rounds
    <2>1. CASE RoundServed
      BY <2>1, DebugNumbers DEF RoundServed, Rounds, DebugInv, DebugTypeOK
    <2>2. CASE RoundAnswered
      BY <2>2 DEF RoundAnswered, Rounds, DebugInv, DebugTypeOK
    <2>3. CASE ~(RoundServed \/ RoundAnswered)
      BY <2>3, RoundFields DEF RoundMoves, RoundFails, RoundFallsDue, DebugRefresh, debugVars, DebugInv, DebugTypeOK
    <2> QED
      BY <2>1, <2>2, <2>3
  <1>3. roundDue' \in BOOLEAN
    BY DEF RoundMoves, RoundServed, RoundAnswered, RoundFails, RoundFallsDue, DebugRefresh, debugVars,
           DebugInv, DebugTypeOK
  <1> QED
    BY <1>1, <1>2, <1>3 DEF DebugInv, DebugTypeOK, ChannelInOrder, Resumes, NextRecord

LEMMA RecordMadeKeeps == DebugInv /\ RecordMade => DebugInv'
  <1> SUFFICES ASSUME DebugInv, RecordMade PROVE DebugInv'
    OBVIOUS
  <1>1. recorded' = recorded + 1 /\ recorded < MaxRecords
        /\ UNCHANGED <<panel, round, roundError, seeded, roundDue, isLive, stream, sent, records,
                       lastRecord, outrun>>
    BY DEF RecordMade
  <1>2. recorded' \in 0..MaxRecords /\ sent <= recorded' /\ lastRecord <= recorded'
    BY <1>1, RecordList, DebugNumbers DEF DebugInv, DebugTypeOK, ChannelInOrder
  <1> QED
    BY <1>1, <1>2 DEF DebugInv, DebugTypeOK, ChannelInOrder, Resumes, NextRecord

LEMMA StreamOpensKeeps == DebugInv /\ StreamOpens => DebugInv'
  <1> SUFFICES ASSUME DebugInv, StreamOpens PROVE DebugInv'
    OBVIOUS
  <1>1. /\ stream = "connecting" /\ stream' = "open" /\ sent' = SentBefore
        /\ outrun' = (outrun \/ (lastRecord # 0 /\ recorded - Kept > lastRecord))
        /\ UNCHANGED <<recorded, panel, round, roundError, seeded, roundDue, isLive, records, lastRecord>>
    BY DEF StreamOpens
  <1>2. records = <<>> /\ Len(records) = 0 /\ DOMAIN records = {}
    BY <1>1, NoRecords DEF DebugInv, ChannelInOrder
  <1>3. SentBefore = IF lastRecord = 0 THEN recorded
                     ELSE IF lastRecord <= recorded - Kept THEN recorded - Kept ELSE lastRecord
    <2>1. recorded - Kept \in Int /\ lastRecord \in Int
      BY RecordList, DebugNumbers
    <2>2. Max({lastRecord, recorded - Kept}) =
            IF lastRecord <= recorded - Kept THEN recorded - Kept ELSE lastRecord
      BY <2>1, MinMaxOfTwo
    <2> QED
      BY <2>2 DEF SentBefore
  <1>4. lastRecord <= recorded
    BY DEF DebugInv, ChannelInOrder
  <1>5. sent' \in 0..MaxRecords /\ sent' <= recorded
    BY <1>1, <1>3, <1>4, RecordList, DebugNumbers
  <1>6. lastRecord # 0 => sent' = lastRecord \/ (outrun' /\ sent' > lastRecord)
    <2>1. CASE lastRecord # 0 /\ lastRecord <= recorded - Kept
      <3>1. sent' = recorded - Kept
        BY <1>1, <1>3, <2>1
      <3>2. recorded - Kept = lastRecord \/ recorded - Kept > lastRecord
        BY <2>1, RecordList, DebugNumbers
      <3> QED
        BY <1>1, <2>1, <3>1, <3>2
    <2>2. CASE lastRecord # 0 /\ ~(lastRecord <= recorded - Kept)
      BY <1>1, <1>3, <2>2
    <2> QED
      BY <2>1, <2>2
  <1>7. DebugTypeOK'
    BY <1>1, <1>5 DEF DebugInv, DebugTypeOK
  <1>8. ChannelInOrder'
    BY <1>1, <1>2, <1>5 DEF DebugInv, ChannelInOrder
  <1>9. Resumes'
    BY <1>1, <1>2, <1>6, <1>5, RecordList DEF Resumes, NextRecord
  <1> QED
    BY <1>7, <1>8, <1>9 DEF DebugInv

LEMMA StreamForwardsKeeps == DebugInv /\ StreamForwards => DebugInv'
  <1> SUFFICES ASSUME DebugInv, StreamForwards PROVE DebugInv'
    OBVIOUS
  <1>1. /\ stream = "open" /\ sent < recorded /\ sent' = sent + 1 /\ records' = Append(records, sent + 1)
        /\ UNCHANGED <<recorded, panel, round, roundError, seeded, roundDue, isLive, stream, lastRecord, outrun>>
    BY DEF StreamForwards
  <1>2. sent + 1 \in RecordIds
    BY <1>1, RecordList, DebugNumbers DEF RecordIds
  <1>3. /\ records' \in Seq(RecordIds) /\ Len(records') = Len(records) + 1
        /\ \A i \in 1..Len(records) : records'[i] = records[i]
        /\ records'[Len(records) + 1] = sent + 1
    BY <1>1, <1>2, RecordList, AppendProperties
  <1>4. DOMAIN records' = 1..(Len(records) + 1)
    BY <1>3, LenProperties
  <1>5. DebugTypeOK'
    BY <1>1, <1>3, RecordList, DebugNumbers DEF DebugInv, DebugTypeOK
  <1>6. ChannelInOrder'
    <2>1. \A i \in DOMAIN records' : records'[i] = sent' - Len(records') + i
      <3> SUFFICES ASSUME NEW i \in DOMAIN records'
                   PROVE  records'[i] = sent' - Len(records') + i
        OBVIOUS
      <3>1. sent' - Len(records') = sent - Len(records)
        BY <1>1, <1>3, RecordList
      <3>2. CASE i \in 1..Len(records)
        <4>1. records'[i] = records[i] /\ records[i] = sent - Len(records) + i
          BY <1>3, <3>2, RecordList DEF DebugInv, ChannelInOrder
        <4> QED
          BY <3>1, <4>1
      <3>3. CASE i \notin 1..Len(records)
        <4>1. i = Len(records) + 1
          BY <1>4, <3>3, RecordList
        <4>2. records'[i] = sent + 1
          BY <1>3, <4>1
        <4> QED
          BY <3>1, <4>1, <4>2, RecordList
      <3> QED
        BY <3>2, <3>3
    <2> QED
      BY <1>1, <2>1, RecordList DEF DebugInv, ChannelInOrder
  <1>7. NextRecord' = NextRecord
    BY <1>1, <1>3, RecordList DEF NextRecord
  <1>8. Resumes'
    BY <1>1, <1>7 DEF DebugInv, Resumes
  <1> QED
    BY <1>5, <1>6, <1>8 DEF DebugInv

LEMMA StreamStopsKeep == DebugInv /\ (StreamEnds \/ ToggleLive) => DebugInv'
  <1>1. ASSUME DebugInv, StreamEnds PROVE DebugInv'
    BY <1>1 DEF StreamEnds, DebugInv, DebugTypeOK, ChannelInOrder, Resumes, NextRecord
  <1>2. ASSUME DebugInv, ToggleLive PROVE DebugInv'
    <2>1. /\ isLive' = ~isLive /\ stream' \in {"none", "connecting"} /\ sent' = 0 /\ records' = <<>>
          /\ UNCHANGED <<recorded, panel, round, roundError, seeded, roundDue, lastRecord, outrun>>
      BY <1>2 DEF ToggleLive
    <2>2. records' \in Seq(RecordIds) /\ DOMAIN records' = {} /\ 0 \in 0..MaxRecords /\ 0 <= recorded
      BY <1>2, <2>1, NoRecords, DebugNumbers DEF DebugInv, DebugTypeOK
    <2> QED
      BY <1>2, <2>1, <2>2 DEF DebugInv, DebugTypeOK, ChannelInOrder, Resumes
  <1> QED
    BY <1>1, <1>2

LEMMA DebugTickKeeps == DebugInv /\ (\E focused \in BOOLEAN : DebugTick(focused)) => DebugInv'
  <1> SUFFICES ASSUME DebugInv, NEW focused \in BOOLEAN, DebugTick(focused) PROVE DebugInv'
    OBVIOUS
  <1> DEFINE applied == round.at = "answered"
             polled == IF applied /\ round.of # Failed THEN round.of ELSE panel
  <1>1. /\ panel' = IF records = <<>> THEN polled ELSE records[Len(records)]
        /\ roundError' \in BOOLEAN /\ seeded' \in BOOLEAN /\ roundDue' \in BOOLEAN /\ isLive' \in BOOLEAN
        /\ round' \in {NoRound("asked"), NoRound("none"), round}
        /\ lastRecord' = IF records = <<>> THEN lastRecord ELSE records[Len(records)]
        /\ records' = <<>>
        /\ stream' = (IF StreamOver THEN "none" ELSE stream)
        /\ UNCHANGED <<recorded, sent, outrun>>
    BY DEF DebugTick, DebugInv, DebugTypeOK
  <1>2. polled \in 0..MaxRecords
    BY DebugNumbers DEF DebugInv, DebugTypeOK, Rounds
  <1> HIDE DEF polled
  <1>3. /\ records' \in Seq(RecordIds) /\ Len(records') = 0 /\ DOMAIN records' = {}
    BY <1>1, NoRecords
  <1>4. records # <<>> => records[Len(records)] = sent /\ records[Len(records)] \in 0..MaxRecords
    BY RecordList, DebugNumbers DEF RecordIds
  <1>5. panel' \in 0..MaxRecords /\ lastRecord' \in 0..MaxRecords
    BY <1>1, <1>2, <1>4 DEF DebugInv, DebugTypeOK
  <1>6. round' \in Rounds
    BY <1>1, RoundFields DEF DebugInv, DebugTypeOK
  <1>7. DebugTypeOK'
    BY <1>1, <1>3, <1>5, <1>6 DEF DebugInv, DebugTypeOK
  <1>8. ChannelInOrder'
    BY <1>1, <1>3, <1>4 DEF DebugInv, ChannelInOrder
  <1>9. Resumes'
    <2>1. NextRecord' = sent + 1 /\ (stream' = "open" => stream = "open")
      BY <1>1, <1>3, RecordList DEF NextRecord
    <2>2. CASE records = <<>>
      <3>1. NextRecord' = NextRecord /\ lastRecord' = lastRecord
        BY <1>1, <2>1, <2>2, NoRecords, RecordList DEF NextRecord
      <3> QED
        BY <1>1, <2>1, <2>2, <3>1 DEF DebugInv, Resumes
    <2>3. CASE records # <<>>
      BY <1>1, <1>4, <2>1, <2>3 DEF Resumes
    <2> QED
      BY <2>2, <2>3
  <1> QED
    BY <1>7, <1>8, <1>9 DEF DebugInv

LEMMA DebugKept == DebugInv /\ [DebugNext]_debugVars => DebugInv'
  BY PollsKeep, RecordMadeKeeps, StreamOpensKeeps, StreamForwardsKeeps, StreamStopsKeep, DebugTickKeeps
  DEF DebugNext

LEMMA DebugAlways == DebugSpec => []DebugInv
  BY DebugInitial, DebugKept, PTL DEF DebugSpec

(* The types of the debug panel, its polls and its socket.                 *)
THEOREM DebugTypes == DebugSpec => []DebugTypeOK
  <1>1. DebugInv => DebugTypeOK
    BY DEF DebugInv
  <1> QED
    BY <1>1, DebugAlways, PTL

(* Telemetry goes on where it ended: no record is left out or comes twice, *)
(* however many the booth makes and keeps, and however often the socket    *)
(* fails or is switched off (toggle_live, stop_live, apply_record).        *)
THEOREM ReplaysGoOn == DebugSpec => []ReplayGoesOn
  <1>1. DebugInv => ReplayGoesOn
    BY RecordList DEF ReplayGoesOn, DebugInv, Resumes
  <1> QED
    BY <1>1, DebugAlways, PTL

------------------------------------------------------------------------------
(* PanelRecords: the lines in the log and the filter over them.            *)

(* Lines that came under the filter shown are of that filter, and so is    *)
(* the round in flight.                                                    *)
FilterAnswered ==
    ~unasked =>
      /\ asked \in {NoAsk, logLevel}
      /\ logs \in Seq({l \in Logged : Fits(l, logLevel)})

PanelInv == PanelTypeOK /\ FilterAnswered

LEMMA FilterPlaces ==
    /\ DOMAIN LogLevels = 1..5 /\ Len(LogLevels) = 5 /\ NoAsk \notin 1..5
    /\ \A n \in 1..5 : (n % 5) + 1 \in 1..5
  BY DEF LogLevels, NoAsk

(* A line on top of lines of a kind, cut at the limit: still that kind.    *)
LEMMA LineAdded ==
    ASSUME NEW S, logs \in Seq(S), NEW line \in S
    PROVE  WithLine(line) \in Seq(S) /\ Len(WithLine(line)) <= LogLimit
  <1> DEFINE all == <<line>> \o logs
             n == IF Len(all) < LogLimit THEN Len(all) ELSE LogLimit
  <1>1. <<line>> \in Seq(S) /\ Len(<<line>>) = 1
    OBVIOUS
  <1>2. all \in Seq(S) /\ Len(all) \in Nat
    BY <1>1, ConcatProperties, LenProperties
  <1>3. n \in 0..Len(all) /\ n <= LogLimit /\ n \in Nat
    BY <1>2, PanelAssumption
  <1> HIDE DEF all, n
  <1>4. SubSeq(all, 1, n) \in Seq(S) /\ Len(SubSeq(all, 1, n)) = n
    BY <1>2, <1>3, SubSeqProperties
  <1> QED
    BY <1>3, <1>4 DEF WithLine, all, n

LEMMA LinesUnderAre ==
    ASSUME NEW filter, NEW shown \in LinesUnder(filter)
    PROVE  /\ shown \in Seq({l \in Logged : Fits(l, filter)})
           /\ shown \in Seq(Logged) /\ Len(shown) <= LogLimit
  <1> DEFINE Fit == {l \in Logged : Fits(l, filter)}
  <1>1. PICK n \in 0..LogLimit : shown \in [1..n -> Fit]
    BY DEF LinesUnder
  <1>2. n \in Nat /\ n <= LogLimit
    BY PanelAssumption
  <1>3. shown \in [1..n -> Logged]
    BY <1>1
  <1>4. shown \in Seq(Fit) /\ shown \in Seq(Logged)
    BY <1>1, <1>2, <1>3, IsASeq
  <1>5. Len(shown) = n
    BY <1>1, <1>2, <1>4, LenProperties
  <1> QED
    BY <1>2, <1>4, <1>5

LEMMA PushedLine ==
    ASSUME PanelInv, NEW level \in Logged
    PROVE  /\ PushLiveLog(level) \in Seq(Logged) /\ Len(PushLiveLog(level)) <= LogLimit
           /\ ~unasked => PushLiveLog(level) \in Seq({l \in Logged : Fits(l, logLevel)})
  <1> DEFINE Fit == {l \in Logged : Fits(l, logLevel)}
  <1>1. CASE ~Fits(level, logLevel)
    BY <1>1 DEF PushLiveLog, PanelInv, PanelTypeOK, FilterAnswered
  <1>2. CASE Fits(level, logLevel)
    <2>1. WithLine(level) \in Seq(Logged) /\ Len(WithLine(level)) <= LogLimit
      BY LineAdded DEF PanelInv, PanelTypeOK
    <2>2. ASSUME ~unasked PROVE WithLine(level) \in Seq(Fit)
      <3>1. level \in Fit /\ logs \in Seq(Fit)
        BY <1>2, <2>2 DEF PanelInv, FilterAnswered
      <3> HIDE DEF Fit
      <3> QED
        BY <3>1, LineAdded
    <2> QED
      BY <1>2, <2>1, <2>2 DEF PushLiveLog
  <1> QED
    BY <1>1, <1>2

LEMMA PanelInitial == PanelInit => PanelInv
  <1>1. \A S : <<>> \in Seq(S) /\ Len(<<>>) = 0
    OBVIOUS
  <1>2. ASSUME PanelInit PROVE PanelTypeOK
    <2>1. logs = <<>> /\ logLevel = 3 /\ asked = NoAsk
      BY <1>2 DEF PanelInit
    <2>2. 3 \in 1..5 /\ 0 <= LogLimit
      BY PanelAssumption
    <2>3. logs \in Seq(Logged) /\ Len(logs) <= LogLimit
      BY <2>1, <2>2
    <2>4. logLevel \in DOMAIN LogLevels /\ asked \in DOMAIN LogLevels \cup {NoAsk}
      BY <2>1, <2>2, FilterPlaces
    <2> QED
      BY <1>2, <2>3, <2>4 DEF PanelInit, PanelTypeOK
  <1>3. PanelInit => FilterAnswered
    BY <1>1 DEF PanelInit, FilterAnswered
  <1> QED
    BY <1>2, <1>3 DEF PanelInv

LEMMA PanelStepTypes == PanelInv /\ [PanelNext]_panelVars => PanelTypeOK'
  <1> SUFFICES ASSUME PanelInv, [PanelNext]_panelVars PROVE PanelTypeOK'
    OBVIOUS
  <1> USE FilterPlaces DEF PanelInv, PanelTypeOK
  <1>1. CASE AsksRound
    BY <1>1 DEF AsksRound, RoundAskedWith
  <1>2. CASE CycleLogLevel
    BY <1>2 DEF CycleLogLevel, RoundAskedWith
  <1>3. CASE RoundApplied
    BY <1>3, LinesUnderAre DEF RoundApplied
  <1>4. CASE RoundForgotten
    BY <1>4 DEF RoundForgotten
  <1>5. CASE LogRecord \/ ErrorRecord
    <2>1. /\ UNCHANGED <<logLevel, asked, pins, word, audioDevice, unasked>>
          /\ \E level \in Logged : logs' = PushLiveLog(level)
      BY <1>5 DEF LogRecord, ErrorRecord
    <2> QED
      BY <2>1, PushedLine
  <1>6. CASE TransitionRecord \/ EdgeRecord
    BY <1>6 DEF TransitionRecord, EdgeRecord
  <1>7. CASE LevelRecord \/ DeviceRecord
    BY <1>7 DEF LevelRecord, DeviceRecord
  <1>8. CASE UNCHANGED panelVars
    BY <1>8 DEF panelVars
  <1> QED
    BY <1>1, <1>2, <1>3, <1>4, <1>5, <1>6, <1>7, <1>8 DEF PanelNext

LEMMA PanelStepFilter == PanelInv /\ [PanelNext]_panelVars => FilterAnswered'
  <1> SUFFICES ASSUME PanelInv, [PanelNext]_panelVars, ~unasked'
               PROVE  asked' \in {NoAsk, logLevel'} /\ logs' \in Seq({l \in Logged : Fits(l, logLevel')})
    BY DEF FilterAnswered
  <1>1. CASE AsksRound \/ RoundForgotten
    BY <1>1 DEF AsksRound, RoundForgotten, RoundAskedWith, PanelInv, FilterAnswered
  <1>2. CASE CycleLogLevel
    BY <1>2 DEF CycleLogLevel
  <1>3. CASE RoundApplied
    <2>1. /\ asked # NoAsk /\ asked' = NoAsk /\ logLevel' = logLevel
          /\ \/ /\ logs' \in LinesUnder(asked)
                /\ ~(unasked /\ asked # logLevel)
             \/ UNCHANGED <<logs, unasked>>
      BY <1>3 DEF RoundApplied
    <2>2. CASE logs' \in LinesUnder(asked) /\ ~(unasked /\ asked # logLevel)
      <3>1. asked = logLevel
        BY <2>1, <2>2 DEF PanelInv, FilterAnswered
      <3> QED
        BY <2>1, <2>2, <3>1, LinesUnderAre
    <2>3. CASE UNCHANGED <<logs, unasked>>
      BY <2>1, <2>3 DEF PanelInv, FilterAnswered
    <2> QED
      BY <2>1, <2>2, <2>3
  <1>4. CASE LogRecord \/ ErrorRecord
    <2>1. /\ UNCHANGED <<logLevel, asked, unasked>>
          /\ \E level \in Logged : logs' = PushLiveLog(level)
      BY <1>4 DEF LogRecord, ErrorRecord
    <2> QED
      BY <2>1, PushedLine DEF PanelInv, FilterAnswered
  <1>5. CASE TransitionRecord \/ EdgeRecord \/ LevelRecord \/ DeviceRecord \/ UNCHANGED panelVars
    <2>1. UNCHANGED <<logLevel, asked, unasked, logs>>
      BY <1>5 DEF TransitionRecord, EdgeRecord, LevelRecord, DeviceRecord, panelVars
    <2> QED
      BY <2>1 DEF PanelInv, FilterAnswered
  <1> QED
    BY <1>1, <1>2, <1>3, <1>4, <1>5 DEF PanelNext

LEMMA PanelAlways == PanelSpec => []PanelInv
  <1>1. PanelInv /\ [PanelNext]_panelVars => PanelInv'
    BY PanelStepTypes, PanelStepFilter DEF PanelInv
  <1> QED
    BY <1>1, PanelInitial, PTL DEF PanelSpec

(* Whatever the booth answers or reports, the panel stays within its types *)
(* and shows no more lines than its limit.                                 *)
THEOREM PanelTypes == PanelSpec => []PanelTypeOK
  <1>1. PanelInv => PanelTypeOK
    BY DEF PanelInv
  <1> QED
    BY <1>1, PanelAlways, PTL

(* The lines shown are of the filter shown, unless none have come since    *)
(* the filter changed.                                                     *)
THEOREM LogsFit == PanelSpec => []LogFitsFilter
  <1>1. PanelInv => LogFitsFilter
    BY DEF PanelInv, FilterAnswered, LogFitsFilter
  <1> QED
    BY <1>1, PanelAlways, PTL

------------------------------------------------------------------------------
(* AudioMeter: the held peak and its fall.                                 *)

LEMMA StepCounts ==
    /\ PeakHold \in Nat /\ Loudest \in Nat /\ LongestHeld \in Nat
    /\ LongestHeld >= PeakHold + Loudest
  BY MeterAssumption

LEMMA MeterInitial == MeterInit => MeterTypeOK
  <1>1. 0 \in Levels /\ 0 \in 0..LongestHeld
    BY StepCounts DEF Levels
  <1> QED
    BY <1>1 DEF MeterInit, MeterTypeOK

(* What is drawn is a level, too: the fall ends at the floor, and what was *)
(* held for the longest time that is told apart has fallen down to it.     *)
LEMMA DecayedIsLevel ==
    ASSUME MeterTypeOK
    PROVE  /\ Decayed \in Levels
           /\ Decayed <= held
           /\ heldFor = LongestHeld => Decayed = 0
  BY StepCounts DEF MeterTypeOK, Levels, Decayed

LEMMA MeterStep == MeterTypeOK /\ [MeterNext]_meterVars => MeterTypeOK'
  <1> SUFFICES ASSUME MeterTypeOK, [MeterNext]_meterVars PROVE MeterTypeOK'
    OBVIOUS
  <1>1. CASE TimePasses
    BY <1>1, StepCounts DEF MeterTypeOK, TimePasses, Levels
  <1>2. ASSUME NEW peak \in Levels, FirstSample(peak) \/ Sample(peak)
        PROVE  MeterTypeOK'
    <2>1. Decayed \in Levels /\ 0 \in 0..LongestHeld /\ PeakHold \in 0..LongestHeld
      BY DecayedIsLevel, StepCounts
    <2> QED
      BY <1>2, <2>1 DEF MeterTypeOK, FirstSample, Sample, Observe
  <1>3. CASE UNCHANGED meterVars
    BY <1>3 DEF MeterTypeOK, meterVars
  <1> QED
    BY <1>1, <1>2, <1>3 DEF MeterNext

(* The meter's variables keep their types.                                 *)
THEOREM MeterTypes == MeterSpec => []MeterTypeOK
  BY MeterInitial, MeterStep, PTL DEF MeterSpec

LEMMA TimeLowers ==
    ASSUME MeterTypeOK, TimePasses
    PROVE  Decayed' <= Decayed /\ Decayed' >= Decayed - 1
  <1>1. CASE heldFor = LongestHeld
    <2>1. held' = held /\ heldFor' = heldFor
      BY <1>1, StepCounts DEF TimePasses, MeterTypeOK
    <2>2. Decayed' = Decayed /\ Decayed \in Int
      BY <2>1, DecayedIsLevel DEF Decayed, Levels
    <2> QED
      BY <2>2
  <1>2. CASE heldFor < LongestHeld
    BY <1>2, StepCounts DEF TimePasses, MeterTypeOK, Levels, Decayed
  <1> QED
    BY <1>1, <1>2, StepCounts DEF MeterTypeOK, TimePasses

LEMMA SampleLifts ==
    ASSUME MeterTypeOK, NEW peak \in Levels, Sample(peak)
    PROVE  Decayed' = IF peak > Decayed THEN peak ELSE Decayed
  <1>1. Decayed \in Levels /\ Decayed <= held
    BY DecayedIsLevel
  <1>2. CASE peak >= Decayed
    <2>1. held' = peak /\ heldFor' = 0
      BY <1>2 DEF Sample, Observe
    <2>2. Decayed' = peak
      BY <2>1, StepCounts DEF Decayed, Levels
    <2> QED
      BY <1>1, <1>2, <2>2 DEF Levels
  <1>3. CASE ~(peak >= Decayed)
    <2>1. held' = Decayed /\ heldFor' = PeakHold
      BY <1>3 DEF Sample, Observe
    <2>2. Decayed' = Decayed
      BY <1>1, <2>1, StepCounts DEF Decayed, Levels
    <2> QED
      BY <1>1, <1>3, <2>2 DEF Levels
  <1> QED
    BY <1>2, <1>3

(* The drawn peak glides: time lowers it by a level at most, and a sample  *)
(* only ever lifts it, to the sample's own level (observe), although the   *)
(* falling value is not kept but computed from the one that is held.       *)
THEOREM PeaksGlide == MeterSpec => PeakGlides
  <1>1. MeterTypeOK /\ [MeterNext]_meterVars =>
          [/\ TimePasses => Decayed' <= Decayed /\ Decayed' >= Decayed - 1
           /\ \A peak \in Levels :
                Sample(peak) => Decayed' = IF peak > Decayed THEN peak
                                           ELSE Decayed]_meterVars
    BY TimeLowers, SampleLifts
  <1> QED
    BY <1>1, MeterTypes, PTL DEF MeterSpec, PeakGlides

------------------------------------------------------------------------------
(* SystemHealth: the counters, their sum, and the rates.                   *)

Up == DOMAIN counter
InSum == SumOver(counter, Up)

(* A total taken when `moved` bytes had been moved has grown by no more    *)
(* than was moved since the baseline's.                                    *)
Traffic(total, moved, since) == total - since.total <= moved - since.moved

ScrapeKnown ==
    scrape.at \notin {"served", "answered"} => scrape = NoScrape(scrape.at)

HistoryInOrder ==
    /\ InSum <= bytes
    /\ baseline.moved <= bytes /\ scrape.moved <= bytes
    /\ scrape.at \in {"served", "answered"} => baseline.moved <= scrape.moved

(* The counters against the baseline, and those that were read meanwhile   *)
(* against the baseline and the counters.                                  *)
CountersAreTraffic ==
    /\ baseline.total # NoBytes /\ ~grown /\ ~scrape.grew => Traffic(InSum, bytes, baseline)
    /\ scrape.total # NoBytes /\ ~grown => Traffic(InSum, bytes, scrape)
    /\ baseline.total # NoBytes /\ scrape.total # NoBytes /\ ~scrape.grew =>
         Traffic(scrape.total, scrape.moved, baseline)

TrueRates == {r \in Rates : r.delta >= 0 /\ (r.delta <= r.moved \/ r.grew)}

HealthInv ==
    /\ HealthTypeOK /\ ScrapeKnown /\ HistoryInOrder /\ CountersAreTraffic
    /\ series \in Seq(TrueRates)

LEMMA HealthNumbers ==
    /\ HistoryCapacity \in Nat /\ HistoryCapacity >= 1 /\ MaxBytes \in Nat /\ LongestGap \in Nat
    /\ LongestGap >= 1 /\ IsFiniteSet(Interfaces) /\ NoBytes = 0 - 1 /\ NoBytes \notin Bytes
    /\ \A b \in Bytes : b \in Nat /\ b <= MaxBytes
    /\ \A n \in Nat : n <= MaxBytes => n \in Bytes
  BY HealthAssumption DEF NoBytes, Bytes

LEMMA UpFinite ==
    ASSUME HealthTypeOK
    PROVE  /\ IsFiniteSet(Up)
           /\ \A i \in Up : counter[i] \in Bytes
           /\ Summable(counter, Up) /\ InSum \in Nat
  <1>1. IsFiniteSet(Up) /\ \A i \in Up : counter[i] \in Bytes
    <2>1. IsFiniteSet(Up)
      BY HealthNumbers, FS_Subset DEF HealthTypeOK, Up
    <2>2. \A i \in Up : counter[i] \in Bytes
      BY DEF HealthTypeOK, Up, Range
    <2> QED
      BY <2>1, <2>2 DEF HealthTypeOK, Up
  <1>2. Summable(counter, Up)
    BY <1>1, HealthNumbers DEF Summable
  <1> QED
    BY <1>1, <1>2, SumType DEF InSum

LEMMA HealthRecords ==
    ASSUME HealthTypeOK
    PROVE  /\ scrape = [at |-> scrape.at, total |-> scrape.total, moved |-> scrape.moved, grew |-> scrape.grew]
           /\ scrape.total \in Bytes \cup {NoBytes} /\ scrape.moved \in Bytes /\ scrape.grew \in BOOLEAN
           /\ scrape.at \in {"none", "asked", "served", "answered", "failed", "dead"}
           /\ baseline.total \in Bytes \cup {NoBytes} /\ baseline.moved \in Bytes
           /\ grown \in BOOLEAN /\ bytes \in Bytes
  BY DEF HealthTypeOK, Scrapes, Baselines

LEMMA NoScrapeFields ==
    \A at \in {"none", "asked", "failed", "dead"} :
        /\ NoScrape(at) \in Scrapes /\ NoScrape(at).at = at /\ NoScrape(at).total = NoBytes
        /\ NoScrape(at).moved = 0 /\ NoScrape(at).grew = FALSE
  BY HealthNumbers DEF NoScrape, Scrapes

LEMMA AllZero ==
    ASSUME counter' = [i \in Interfaces |-> 0]
    PROVE  /\ Up' = Interfaces /\ InSum' = 0
           /\ DOMAIN counter' \subseteq Interfaces /\ Range(counter') \subseteq Bytes
  <1>1. Up' = Interfaces /\ \A i \in Interfaces : counter'[i] = 0
    BY DEF Up
  <1>2. SumOver(counter', Interfaces) = 0
    BY <1>1, HealthNumbers, SumZero
  <1>3. Range(counter') \subseteq Bytes
    BY HealthNumbers DEF Range
  <1> QED
    BY <1>1, <1>2, <1>3 DEF InSum, Up

LEMMA HealthInitial == HealthInit => HealthInv
  <1> SUFFICES ASSUME HealthInit PROVE HealthInv
    OBVIOUS
  <1>1. /\ counter = [i \in Interfaces |-> 0] /\ bytes = 0 /\ scrape = NoScrape("none")
        /\ elapsed = TRUE /\ baseline = NoBaseline /\ age = 0 /\ series = <<>> /\ grown = FALSE
    BY DEF HealthInit
  <1>2. DOMAIN counter \subseteq Interfaces /\ Range(counter) \subseteq Bytes
    BY <1>1, HealthNumbers DEF Range
  <1>3. InSum = 0
    <2>1. Up = Interfaces /\ \A i \in Interfaces : counter[i] = 0
      BY <1>1 DEF Up
    <2> QED
      BY <2>1, HealthNumbers, SumZero DEF InSum
  <1>4. scrape \in Scrapes /\ scrape.at = "none" /\ scrape.total = NoBytes /\ scrape.moved = 0
        /\ scrape.grew = FALSE
    BY <1>1, NoScrapeFields
  <1>5. baseline \in Baselines /\ baseline.total = NoBytes /\ baseline.moved = 0
    BY <1>1, HealthNumbers DEF NoBaseline, Baselines
  <1>6. series \in Seq(Rates) /\ series \in Seq(TrueRates) /\ Len(series) <= HistoryCapacity
    BY <1>1, HealthNumbers
  <1>7. HealthTypeOK
    <2>1. bytes \in Bytes
      BY <1>1, HealthNumbers
    <2>3. elapsed \in BOOLEAN /\ grown \in BOOLEAN
      BY <1>1
    <2>2. age \in 0..LongestGap
      BY <1>1, HealthNumbers
    <2> QED
      BY <1>2, <1>4, <1>5, <1>6, <2>1, <2>2, <2>3 DEF HealthTypeOK
  <1> QED
    BY <1>1, <1>3, <1>4, <1>5, <1>6, <1>7, HealthNumbers
    DEF HealthInv, ScrapeKnown, HistoryInOrder, CountersAreTraffic

LEMMA NoFaster ==
    ASSUME NEW s \in Nat, NEW u \in Nat, NEW b \in Nat, NEW c \in Nat, NEW t \in Nat, NEW m \in Nat,
           b <= c, m <= b, s - t <= b - m, u - s <= c - b \/ u = 0
    PROVE  u - t <= c - m
  OBVIOUS

(* The counters change, the scrape and the meter do not.                   *)
LEMMA CountersChange ==
    ASSUME HealthInv, UNCHANGED <<scrape, elapsed, baseline, age, series>>,
           DOMAIN counter' \subseteq Interfaces, Range(counter') \subseteq Bytes,
           grown' \in BOOLEAN, bytes' \in Bytes, bytes <= bytes',
           InSum' \in Nat, InSum' <= bytes',
           \/ grown' = grown /\ InSum' - InSum <= bytes' - bytes
           \/ grown' = grown /\ InSum' = 0
           \/ grown' = TRUE
    PROVE  HealthInv'
  <1>1. HealthTypeOK'
    BY DEF HealthInv, HealthTypeOK, Up
  <1>2. ScrapeKnown' /\ series' \in Seq(TrueRates)
    BY DEF HealthInv, ScrapeKnown
  <1>3. bytes \in Nat /\ bytes' \in Nat /\ baseline.moved \in Nat /\ scrape.moved \in Nat /\ InSum \in Nat
    BY HealthRecords, UpFinite, HealthNumbers DEF HealthInv
  <1>4. HistoryInOrder'
    BY <1>3 DEF HealthInv, HistoryInOrder
  <1>5. (baseline.total # NoBytes => baseline.total \in Nat) /\ (scrape.total # NoBytes => scrape.total \in Nat)
    BY HealthRecords, HealthNumbers DEF HealthInv
  <1>6. ASSUME NEW since, since.total \in Nat, since.moved \in Nat, since.moved <= bytes, ~grown',
               Traffic(InSum, bytes, since)
        PROVE  Traffic(InSum', bytes', since)
    <2>1. InSum' - InSum <= bytes' - bytes \/ InSum' = 0
      BY <1>6
    <2>2. InSum - since.total <= bytes - since.moved
      BY <1>6 DEF Traffic
    <2>3. InSum' - since.total <= bytes' - since.moved
      BY <1>3, <1>6, <2>1, <2>2, NoFaster
    <2> QED
      BY <2>3 DEF Traffic
  <1>7. CountersAreTraffic'
    <2>1. ASSUME baseline.total # NoBytes, ~grown', ~scrape.grew
          PROVE  Traffic(InSum', bytes', baseline)
      <3>1. ~grown
        BY <2>1
      <3> QED
        BY <1>3, <1>5, <1>6, <2>1, <3>1 DEF HealthInv, CountersAreTraffic, HistoryInOrder
    <2>2. ASSUME scrape.total # NoBytes, ~grown'
          PROVE  Traffic(InSum', bytes', scrape)
      <3>1. ~grown
        BY <2>2
      <3> QED
        BY <1>3, <1>5, <1>6, <2>2, <3>1 DEF HealthInv, CountersAreTraffic, HistoryInOrder
    <2> QED
      BY <2>1, <2>2 DEF HealthInv, CountersAreTraffic
  <1> QED
    BY <1>1, <1>2, <1>4, <1>7 DEF HealthInv

LEMMA TransferKeeps ==
    ASSUME HealthInv, NEW i \in DOMAIN counter, Transfer(i)
    PROVE  HealthInv'
  <1>1. /\ bytes < MaxBytes /\ counter' = [counter EXCEPT ![i] = @ + 1] /\ bytes' = bytes + 1
        /\ UNCHANGED <<scrape, elapsed, baseline, age, series, grown>>
    BY DEF Transfer
  <1>2. /\ IsFiniteSet(Up) /\ Summable(counter, Up) /\ InSum \in Nat /\ i \in Up
        /\ \A j \in Up : counter[j] \in Nat
    BY UpFinite, HealthNumbers DEF HealthInv, Up
  <1>3. Up' = Up /\ counter'[i] = counter[i] + 1 /\ \A j \in Up \ {i} : counter'[j] = counter[j]
    BY <1>1, <1>2 DEF Up
  <1>4. Summable(counter', Up) /\ Summable(counter, Up \ {i})
    BY <1>2, <1>3, FS_RemoveElement DEF Summable
  <1>5. InSum = counter[i] + SumOver(counter, Up \ {i})
    BY <1>2, SumRemove DEF InSum
  <1>6. SumOver(counter', Up) = counter'[i] + SumOver(counter', Up \ {i})
    BY <1>2, <1>4, SumRemove
  <1>7. SumOver(counter', Up \ {i}) = SumOver(counter, Up \ {i}) /\ SumOver(counter, Up \ {i}) \in Nat
    BY <1>3, <1>4, SumSame, SumType
  <1>8. InSum' = InSum + 1
    BY <1>2, <1>3, <1>5, <1>6, <1>7 DEF InSum
  <1>9. bytes \in Nat /\ InSum <= bytes /\ counter[i] <= InSum
    BY <1>2, <1>5, <1>7, HealthRecords, HealthNumbers DEF HealthInv, HistoryInOrder
  <1>10. counter'[i] \in Bytes /\ bytes' \in Bytes
    BY <1>1, <1>2, <1>3, <1>9, HealthNumbers
  <1>11. DOMAIN counter' \subseteq Interfaces /\ Range(counter') \subseteq Bytes
    <2>1. \A j \in Up : counter'[j] \in Bytes
      BY <1>3, <1>10, UpFinite DEF HealthInv
    <2> QED
      BY <1>3, <2>1 DEF HealthInv, HealthTypeOK, Up, Range
  <1>13. InSum' \in Nat /\ InSum' <= bytes' /\ InSum' - InSum <= bytes' - bytes /\ bytes <= bytes'
    BY <1>1, <1>2, <1>8, <1>9
  <1> QED
    BY <1>1, <1>10, <1>11, <1>13, CountersChange, HealthRecords DEF HealthInv

LEMMA LinkDownKeeps ==
    ASSUME HealthInv, NEW i \in DOMAIN counter, LinkDown(i)
    PROVE  HealthInv'
  <1>1. counter' = [j \in Up \ {i} |-> counter[j]] /\ UNCHANGED <<bytes, scrape, elapsed, baseline, age, series, grown>>
    BY DEF LinkDown, Up
  <1>2. /\ IsFiniteSet(Up) /\ Summable(counter, Up) /\ InSum \in Nat /\ i \in Up
        /\ \A j \in Up : counter[j] \in Bytes /\ counter[j] \in Nat
    BY UpFinite, HealthNumbers DEF HealthInv, Up
  <1>3. Up' = Up \ {i} /\ \A j \in Up' : counter'[j] = counter[j]
    BY <1>1 DEF Up
  <1>4. Summable(counter, Up \ {i})
    BY <1>2, FS_RemoveElement DEF Summable
  <1>5. InSum = counter[i] + SumOver(counter, Up \ {i})
    BY <1>2, SumRemove DEF InSum
  <1>6. InSum' = SumOver(counter, Up \ {i}) /\ InSum' \in Nat
    BY <1>3, <1>4, SumSame, SumType DEF InSum
  <1>7. InSum' <= InSum
    BY <1>2, <1>5, <1>6
  <1>8. DOMAIN counter' \subseteq Interfaces /\ Range(counter') \subseteq Bytes
    BY <1>2, <1>3 DEF HealthInv, HealthTypeOK, Up, Range
  <1>10. bytes \in Bytes /\ bytes \in Nat /\ InSum <= bytes /\ grown \in BOOLEAN
    BY HealthRecords, HealthNumbers DEF HealthInv, HistoryInOrder
  <1>11. InSum' <= bytes' /\ InSum' - InSum <= bytes' - bytes /\ bytes <= bytes'
    BY <1>1, <1>2, <1>6, <1>7, <1>10
  <1> QED
    BY <1>1, <1>6, <1>8, <1>10, <1>11, CountersChange

LEMMA LinkUpKeeps ==
    ASSUME HealthInv, NEW i \in Interfaces, i \notin DOMAIN counter, LinkUp(i)
    PROVE  HealthInv'
  <1>1. PICK n \in Bytes :
          counter' = [j \in DOMAIN counter \cup {i} |-> IF j = i THEN n ELSE counter[j]]
    BY DEF LinkUp
  <1>2. Up' = Up \cup {i} /\ \A j \in Up' : counter'[j] \in Bytes
    BY <1>1, UpFinite DEF Up, HealthInv
  <1>3. IsFiniteSet(Up') /\ Up' # {}
    BY <1>2, UpFinite, FS_AddElement DEF HealthInv
  <1>4. Summable(counter', Up')
    BY <1>2, <1>3, HealthNumbers DEF Summable
  <1>5. InSum' \in Nat
    BY <1>4, SumType DEF InSum
  <1>6. InSum' <= bytes
    BY <1>3 DEF LinkUp, Total, InSum, SumOver, Up
  <1>7. DOMAIN counter' \subseteq Interfaces /\ Range(counter') \subseteq Bytes
    BY <1>2 DEF HealthInv, HealthTypeOK, Up, Range
  <1>9. grown' = TRUE /\ UNCHANGED <<bytes, scrape, elapsed, baseline, age, series>>
    BY DEF LinkUp
  <1>10. bytes \in Bytes /\ bytes \in Nat
    BY HealthRecords, HealthNumbers DEF HealthInv
  <1>11. bytes' \in Bytes /\ bytes <= bytes' /\ InSum' <= bytes' /\ grown' \in BOOLEAN
    BY <1>6, <1>9, <1>10
  <1> QED
    BY <1>5, <1>6, <1>7, <1>9, <1>10, <1>11, CountersChange

LEMMA RebootKeeps == HealthInv /\ Reboot => HealthInv'
  <1> SUFFICES ASSUME HealthInv, Reboot PROVE HealthInv'
    OBVIOUS
  <1>1. counter' = [i \in Interfaces |-> 0] /\ UNCHANGED <<bytes, scrape, elapsed, baseline, age, series, grown>>
    BY DEF Reboot
  <1>3. bytes \in Bytes /\ bytes \in Nat /\ grown \in BOOLEAN
    BY HealthRecords, HealthNumbers DEF HealthInv
  <1>4. InSum' \in Nat /\ InSum' <= bytes' /\ bytes <= bytes'
    BY <1>1, <1>3, AllZero
  <1> QED
    BY <1>1, <1>3, <1>4, AllZero, CountersChange

(* A scrape on its way; the counters stay.                                 *)
LEMMA ScrapeMovesKeep ==
    HealthInv /\ (ScrapeServed \/ ScrapeAnswered \/ ScrapeFails) => HealthInv'
  <1> SUFFICES ASSUME HealthInv, ScrapeServed \/ ScrapeAnswered \/ ScrapeFails PROVE HealthInv'
    OBVIOUS
  <1>1. UNCHANGED <<counter, bytes, elapsed, baseline, age, series>>
    BY DEF ScrapeServed, ScrapeAnswered, ScrapeFails
  <1>2. InSum' = InSum /\ InSum \in Nat
    BY <1>1, UpFinite DEF InSum, Up, HealthInv
  <1>3. bytes \in Nat /\ baseline.moved \in Nat /\ scrape.moved \in Nat /\ InSum <= bytes
    BY HealthRecords, HealthNumbers DEF HealthInv, HistoryInOrder
  <1>4. CASE ScrapeServed
    <2>1. /\ scrape.at = "asked" /\ scrape' = [at |-> "served", total |-> Total, moved |-> bytes, grew |-> grown]
          /\ grown' = FALSE
      BY <1>4 DEF ScrapeServed
    <2>2. Total = IF Up = {} THEN NoBytes ELSE InSum
      BY DEF Total, InSum, SumOver, Up
    <2>3. Total \in Bytes \cup {NoBytes}
      BY <1>2, <1>3, <2>2, HealthRecords, HealthNumbers DEF HealthInv
    <2>4. scrape' \in Scrapes
      BY <2>1, <2>3, HealthRecords DEF Scrapes, HealthInv
    <2>5. HealthTypeOK'
      BY <1>1, <2>1, <2>4 DEF HealthInv, HealthTypeOK
    <2>6. /\ scrape'.at = "served" /\ scrape'.total = Total /\ scrape'.moved = bytes /\ scrape'.grew = grown
      BY <2>1
    <2>7. ScrapeKnown' /\ HistoryInOrder'
      BY <1>1, <1>2, <1>3, <2>1, <2>6 DEF HealthInv, ScrapeKnown, HistoryInOrder
    <2>8. scrape.grew = FALSE
      BY <2>1, NoScrapeFields DEF HealthInv, ScrapeKnown
    <2>9. CountersAreTraffic'
      BY <1>1, <1>2, <1>3, <2>1, <2>2, <2>6, <2>8 DEF HealthInv, CountersAreTraffic, Traffic
    <2> QED
      BY <1>1, <2>5, <2>7, <2>9 DEF HealthInv
  <1>5. CASE ScrapeAnswered
    <2>1. scrape.at = "served" /\ scrape' = [scrape EXCEPT !.at = "answered"] /\ grown' = grown
      BY <1>5 DEF ScrapeAnswered
    <2>2. /\ scrape' \in Scrapes /\ scrape'.at = "answered" /\ scrape'.total = scrape.total
          /\ scrape'.moved = scrape.moved /\ scrape'.grew = scrape.grew
      BY <2>1 DEF HealthInv, HealthTypeOK, Scrapes
    <2>3. HealthTypeOK'
      BY <1>1, <2>1, <2>2 DEF HealthInv, HealthTypeOK
    <2>4. ScrapeKnown' /\ HistoryInOrder'
      BY <1>1, <1>2, <2>1, <2>2 DEF HealthInv, ScrapeKnown, HistoryInOrder
    <2>5. CountersAreTraffic'
      BY <1>1, <1>2, <2>1, <2>2 DEF HealthInv, CountersAreTraffic, Traffic
    <2> QED
      BY <1>1, <2>3, <2>4, <2>5 DEF HealthInv
  <1>6. CASE ScrapeFails
    <2>1. scrape' \in {NoScrape("failed"), NoScrape("dead")} /\ grown' = (grown \/ scrape.grew)
      BY <1>6 DEF ScrapeFails
    <2>2. /\ scrape' \in Scrapes /\ scrape'.at \in {"failed", "dead"} /\ scrape'.total = NoBytes
          /\ scrape'.moved = 0 /\ scrape'.grew = FALSE /\ scrape' = NoScrape(scrape'.at)
      BY <2>1, NoScrapeFields
    <2>3. HealthTypeOK'
      BY <1>1, <2>1, <2>2, HealthRecords DEF HealthInv, HealthTypeOK
    <2>4. ScrapeKnown' /\ HistoryInOrder'
      BY <1>1, <1>2, <1>3, <2>1, <2>2 DEF HealthInv, ScrapeKnown, HistoryInOrder
    <2>5. CountersAreTraffic'
      BY <1>1, <1>2, <2>1, <2>2 DEF HealthInv, CountersAreTraffic, Traffic
    <2> QED
      BY <1>1, <2>3, <2>4, <2>5 DEF HealthInv
  <1> QED
    BY <1>4, <1>5, <1>6

LEMMA HealthTimeKeeps == HealthInv /\ HealthTime => HealthInv'
  <1> SUFFICES ASSUME HealthInv, HealthTime PROVE HealthInv'
    OBVIOUS
  <1>1. UNCHANGED <<counter, bytes, scrape, baseline, series, grown>> /\ elapsed' = TRUE
        /\ age' = IF age < LongestGap THEN age + 1 ELSE age
    BY DEF HealthTime
  <1>2. age' \in 0..LongestGap
    BY <1>1, HealthNumbers DEF HealthInv, HealthTypeOK
  <1> QED
    BY <1>1, <1>2 DEF HealthInv, HealthTypeOK, ScrapeKnown, HistoryInOrder, CountersAreTraffic,
                      Traffic, InSum, Up

LEMMA HealthRefreshKeeps == HealthInv /\ (HealthRefresh \/ UNCHANGED healthVars) => HealthInv'
  <1>1. ASSUME HealthInv, UNCHANGED healthVars PROVE HealthInv'
    BY <1>1 DEF healthVars, HealthInv, HealthTypeOK, ScrapeKnown, HistoryInOrder, CountersAreTraffic,
                Traffic, InSum, Up
  <1>2. ASSUME HealthInv, HealthRefresh PROVE HealthInv'
    <2>1. scrape.at = "none" /\ scrape' = NoScrape("asked")
          /\ UNCHANGED <<counter, bytes, elapsed, baseline, age, series, grown>>
      BY <1>2 DEF HealthRefresh
    <2>2. scrape = NoScrape("none")
      BY <1>2, <2>1 DEF HealthInv, ScrapeKnown
    <2>3. /\ scrape' \in Scrapes /\ scrape'.at = "asked" /\ scrape'.total = scrape.total
          /\ scrape'.moved = scrape.moved /\ scrape'.grew = scrape.grew /\ scrape' = NoScrape(scrape'.at)
          /\ scrape.total = NoBytes /\ scrape.moved = 0 /\ scrape.grew = FALSE
      BY <2>1, <2>2, NoScrapeFields
    <2> QED
      BY <1>2, <2>1, <2>3 DEF HealthInv, HealthTypeOK, ScrapeKnown, HistoryInOrder, CountersAreTraffic,
                              Traffic, InSum, Up
  <1> QED
    BY <1>1, <1>2

LEMMA PushedRates ==
    ASSUME NEW R, NEW buffer \in Seq(R), Len(buffer) <= HistoryCapacity, NEW r \in R
    PROVE  Pushed(buffer, r) \in Seq(R) /\ Len(Pushed(buffer, r)) <= HistoryCapacity
  <1> DEFINE kept == IF Len(buffer) = HistoryCapacity THEN Tail(buffer) ELSE buffer
  <1>1. Len(buffer) \in Nat
    BY LenProperties
  <1>2. CASE Len(buffer) = HistoryCapacity
    <2>1. buffer # <<>>
      BY <1>2, HealthNumbers, EmptySeq
    <2>2. Tail(buffer) \in Seq(R) /\ Len(Tail(buffer)) = Len(buffer) - 1
      BY <2>1, HeadTailProperties
    <2>3. kept \in Seq(R) /\ Len(kept) = HistoryCapacity - 1
      BY <1>2, <2>2
    <2> HIDE DEF kept
    <2>4. Append(kept, r) \in Seq(R) /\ Len(Append(kept, r)) = Len(kept) + 1
      BY <2>3, AppendProperties
    <2> QED
      BY <2>3, <2>4, HealthNumbers DEF Pushed, kept
  <1>3. CASE Len(buffer) # HistoryCapacity
    <2>1. Append(buffer, r) \in Seq(R) /\ Len(Append(buffer, r)) = Len(buffer) + 1
      BY AppendProperties
    <2> QED
      BY <1>1, <1>3, <2>1, HealthNumbers DEF Pushed
  <1> QED
    BY <1>2, <1>3

LEMMA RateIsTrue ==
    ASSUME HealthInv, scrape.at = "answered", scrape.total # NoBytes, HasRate
    PROVE  Rate \in Rates /\ Rate \in TrueRates
  <1>1. /\ scrape.total \in Nat /\ scrape.moved \in Nat /\ baseline.total \in Nat /\ baseline.moved \in Nat
        /\ scrape.moved <= MaxBytes /\ baseline.moved <= scrape.moved /\ scrape.grew \in BOOLEAN
    BY HealthRecords, HealthNumbers DEF HealthInv, HistoryInOrder, HasRate
  <1>2. age \in 1..LongestGap
    BY HealthNumbers DEF HealthInv, HealthTypeOK, HasRate
  <1>3. Delta(scrape.total) \in Int /\ Delta(scrape.total) >= 0
    BY <1>1 DEF Delta
  <1>4. Delta(scrape.total) <= scrape.moved - baseline.moved \/ scrape.grew
    BY <1>1 DEF Delta, HealthInv, CountersAreTraffic, Traffic, HasRate
  <1>5. scrape.moved - baseline.moved \in Bytes
    BY <1>1, HealthNumbers
  <1>6. Rate \in Rates
    BY <1>1, <1>2, <1>3, <1>5 DEF Rate, Rates
  <1> QED
    BY <1>3, <1>4, <1>6 DEF TrueRates, Rate

LEMMA HealthTickKeeps ==
    ASSUME HealthInv, NEW focused \in BOOLEAN, HealthTick(focused)
    PROVE  HealthInv'
  <1>1. UNCHANGED <<counter, bytes>> /\ InSum' = InSum /\ Record
    BY DEF HealthTick, InSum, Up
  <1>2. InSum \in Nat /\ bytes \in Nat /\ baseline.moved \in Nat /\ scrape.moved \in Nat
    BY UpFinite, HealthRecords, HealthNumbers DEF HealthInv
  <1>3. \/ scrape' = scrape /\ scrape.at \in {"asked", "served"}
        \/ scrape' \in {NoScrape("asked"), NoScrape("none")} /\ scrape.at \notin {"asked", "served"}
    BY DEF HealthTick
  <1>4. /\ scrape' \in Scrapes /\ ScrapeKnown'
        /\ scrape.at \notin {"asked", "served"} =>
             scrape'.total = NoBytes /\ scrape'.moved = 0 /\ scrape'.grew = FALSE
             /\ scrape'.at \in {"asked", "none"}
    <2>1. CASE scrape' = scrape /\ scrape.at \in {"asked", "served"}
      BY <2>1 DEF HealthInv, HealthTypeOK, ScrapeKnown
    <2>2. CASE scrape' \in {NoScrape("asked"), NoScrape("none")} /\ scrape.at \notin {"asked", "served"}
      BY <2>2, NoScrapeFields DEF ScrapeKnown
    <2> QED
      BY <1>3, <2>1, <2>2
  <1>5. elapsed' \in BOOLEAN
    BY DEF HealthTick, HealthInv, HealthTypeOK
  <1>6. CASE scrape.at = "answered" /\ scrape.total # NoBytes
    <2>1. /\ series' = (IF HasRate THEN Pushed(series, Rate) ELSE series)
          /\ baseline' = [total |-> scrape.total, moved |-> scrape.moved]
          /\ age' = 0 /\ grown' = grown
      BY <1>1, <1>6 DEF Record
    <2>2. /\ series' \in Seq(Rates) /\ Len(series') <= HistoryCapacity /\ series' \in Seq(TrueRates)
      <3>1. CASE HasRate
        BY <1>6, <2>1, <3>1, PushedRates, RateIsTrue DEF HealthInv, HealthTypeOK
      <3>2. CASE ~HasRate
        BY <2>1, <3>2 DEF HealthInv, HealthTypeOK
      <3> QED
        BY <3>1, <3>2
    <2>3. baseline' \in Baselines /\ baseline'.total = scrape.total /\ baseline'.moved = scrape.moved
      BY <2>1, HealthRecords DEF HealthInv, Baselines
    <2>4. HealthTypeOK'
      BY <1>1, <1>4, <1>5, <2>1, <2>2, <2>3, HealthNumbers DEF HealthInv, HealthTypeOK
    <2>5. HistoryInOrder'
      BY <1>1, <1>2, <1>4, <1>6, <2>3 DEF HealthInv, HistoryInOrder
    <2>6. CountersAreTraffic'
      BY <1>1, <1>4, <1>6, <2>1, <2>3 DEF HealthInv, CountersAreTraffic, Traffic
    <2> QED
      BY <1>4, <2>2, <2>4, <2>5, <2>6 DEF HealthInv
  <1>7. CASE ~(scrape.at = "answered" /\ scrape.total # NoBytes)
    <2>1. grown' = (grown \/ (scrape.at = "answered" /\ scrape.grew)) /\ UNCHANGED <<series, baseline, age>>
      BY <1>1, <1>7 DEF Record
    <2>2. HealthTypeOK'
      BY <1>1, <1>4, <1>5, <2>1, HealthRecords DEF HealthInv, HealthTypeOK
    <2>3. CASE scrape' = scrape /\ scrape.at \in {"asked", "served"}
      BY <1>1, <1>4, <2>1, <2>2, <2>3 DEF HealthInv, HistoryInOrder, CountersAreTraffic, Traffic
    <2>4. CASE scrape.at \notin {"asked", "served"}
      <3>1. scrape.grew => scrape.at = "answered"
        BY <2>4, HealthRecords, NoScrapeFields DEF HealthInv, ScrapeKnown
      <3>2. HistoryInOrder'
        BY <1>1, <1>2, <1>4, <2>1, <2>4 DEF HealthInv, HistoryInOrder
      <3>3. CountersAreTraffic'
        BY <1>1, <1>4, <2>1, <2>4, <3>1 DEF HealthInv, CountersAreTraffic, Traffic
      <3> QED
        BY <1>4, <2>1, <2>2, <3>2, <3>3 DEF HealthInv
    <2> QED
      BY <1>3, <2>3, <2>4
  <1> QED
    BY <1>6, <1>7

LEMMA HealthKept == HealthInv /\ [HealthNext]_healthVars => HealthInv'
  BY TransferKeeps, LinkDownKeeps, LinkUpKeeps, RebootKeeps, ScrapeMovesKeep, HealthTimeKeeps,
     HealthRefreshKeeps, HealthTickKeeps
  DEF HealthNext

LEMMA HealthAlways == HealthSpec => []HealthInv
  BY HealthInitial, HealthKept, PTL DEF HealthSpec

(* The types of the booth's counters, of a scrape and of the chart.        *)
THEOREM HealthTypes == HealthSpec => []HealthTypeOK
  <1>1. HealthInv => HealthTypeOK
    BY DEF HealthInv
  <1> QED
    BY <1>1, HealthAlways, PTL

(* No rate is of more bytes than were moved, whatever interfaces the booth *)
(* has, and whatever restarts, links that go down, scrapes that fail or    *)
(* find no counters lie between (RateMeter::observe).                      *)
THEOREM ChartShowsTraffic == HealthSpec => []RatesAreTraffic
  <1>1. HealthInv => RatesAreTraffic
    <2> SUFFICES ASSUME HealthInv, NEW k \in DOMAIN series
                 PROVE  /\ series[k].delta >= 0
                        /\ series[k].delta <= series[k].moved \/ series[k].grew
      BY DEF RatesAreTraffic
    <2>1. series[k] \in TrueRates
      BY LenProperties, ElementOfSeq DEF HealthInv
    <2> QED
      BY <2>1 DEF TrueRates
  <1> QED
    BY <1>1, HealthAlways, PTL

------------------------------------------------------------------------------
(* BoothLink: to whom the token goes.                                      *)

LinkRequests ==
    [of: Made \cup {"none", "telemetry"}, at: {"sent", "done", "refused", "ended"},
     reply: Replies \cup {"none"}, out: LinkErrors \cup {"none", "ok", "nothing", "open", "dropped"}]

(* The client is still the one that was built for the booth.               *)
LinkInv ==
    /\ LinkTypeOK /\ TokenGoesToPinned
    /\ request \in LinkRequests
    /\ request.at = "done" => request.reply \in {"ok", "no_content"}
    /\ request.at = "refused" => request.reply \in Replies \ {"ok", "no_content"}
    /\ client = Connected(booth)

LEMMA OverIs ==
    ASSUME NEW out \in LinkErrors \cup {"ok", "nothing", "open", "dropped"}, Over(out)
    PROVE  request' \in LinkRequests /\ request'.at = "ended"
  BY DEF Over, Idle, LinkRequests

LEMMA LinkStays ==
    ASSUME LinkInv, UNCHANGED <<booth, client>>, peer' \in Peers, heard' \subseteq Peers,
           request' \in LinkRequests,
           request'.at = "done" => request'.reply \in {"ok", "no_content"},
           request'.at = "refused" => request'.reply \in Replies \ {"ok", "no_content"},
           \A p \in heard' \ heard : p = IF Given(booth.pin) THEN "booth" ELSE "public"
    PROVE  LinkInv'
  <1>1. TokenGoesToPinned'
    BY DEF LinkInv, TokenGoesToPinned
  <1>2. LinkTypeOK'
    BY DEF LinkInv, LinkTypeOK, LinkRequests
  <1>3. client' = Connected(booth')
    BY DEF LinkInv
  <1> QED
    BY <1>1, <1>2, <1>3 DEF LinkInv

LEMMA ReachesKeeps ==
    ASSUME LinkInv, UNCHANGED <<booth, client, peer>>, NEW of \in Made \cup {"telemetry"},
           NEW how \in {"plain", "pinned"}, NEW tls \in BOOLEAN,
           Reaches(how, tls, of),
           tls /\ how = "pinned" => Normalized(booth.pin) # "none",
           tls /\ how = "plain" => ~Given(booth.pin)
    PROVE  LinkInv'
  <1>1. peer \in Peers /\ heard \subseteq Peers
    BY DEF LinkInv, LinkTypeOK
  <1>2. CASE Over("transport") /\ UNCHANGED heard
    <2>1. request' \in LinkRequests /\ request'.at = "ended"
      BY <1>2, OverIs DEF LinkErrors
    <2> QED
      BY <1>1, <1>2, <2>1, LinkStays
  <1>3. CASE /\ Accepts(how, tls, peer)
             /\ request' = [of |-> of, at |-> "sent", reply |-> "none", out |-> "none"]
             /\ heard' = heard \cup {p \in {peer} : tls /\ booth.token}
    <2>1. request' \in LinkRequests /\ request'.at = "sent"
      BY <1>3 DEF LinkRequests
    <2>2. ASSUME tls PROVE peer = IF Given(booth.pin) THEN "booth" ELSE "public"
      BY <1>3, <2>2 DEF Accepts, Normalized, CertOf, Given
    <2> QED
      BY <1>1, <1>3, <2>1, <2>2, LinkStays
  <1> QED
    BY <1>2, <1>3 DEF Reaches

LEMMA CallsKeep ==
    ASSUME LinkInv, (\E c \in Made : Call(c)) \/ Follow
    PROVE  LinkInv'
  <1>0. peer \in Peers /\ heard \subseteq Peers /\ booth \in Booths
    BY DEF LinkInv, LinkTypeOK
  <1>1. ASSUME NEW c \in Made, Call(c) PROVE LinkInv'
    <2>1. client \in {"plain", "pinned"} /\ UNCHANGED <<booth, client, peer>>
      BY <1>1 DEF Call, LinkInv, LinkTypeOK
    <2>2. CASE Over("transport") /\ UNCHANGED heard
      <3>1. request' \in LinkRequests /\ request'.at = "ended"
        BY <2>2, OverIs DEF LinkErrors
      <3> QED
        BY <1>0, <2>1, <2>2, <3>1, LinkStays
    <2>3. CASE Reaches(client, RestTls, c)
      <3>1. RestTls \in BOOLEAN
        BY DEF RestTls
      <3>2. /\ RestTls /\ client = "pinned" => Normalized(booth.pin) # "none"
            /\ RestTls /\ client = "plain" => ~Given(booth.pin)
        BY DEF LinkInv, Connected, RestTls
      <3> QED
        BY <2>1, <2>3, <3>1, <3>2, ReachesKeeps
    <2> QED
      BY <1>1, <2>2, <2>3 DEF Call
  <1>2. ASSUME Follow PROVE LinkInv'
    <2>1. UNCHANGED <<booth, client, peer>>
      BY <1>2 DEF Follow
    <2>2. CASE Over("invalid") /\ UNCHANGED heard
      <3>1. request' \in LinkRequests /\ request'.at = "ended"
        BY <2>2, OverIs DEF LinkErrors
      <3> QED
        BY <1>0, <2>1, <2>2, <3>1, LinkStays
    <2>3. CASE (SocketTls => Normalized(booth.pin) # "none") /\ Reaches("pinned", SocketTls, "telemetry")
      <3>1. SocketTls \in BOOLEAN
        BY DEF SocketTls
      <3> QED
        BY <2>1, <2>3, <3>1, ReachesKeeps
    <2> QED
      BY <1>2, <2>2, <2>3 DEF Follow
  <1> QED
    BY <1>1, <1>2

LEMMA AnswersKeep ==
    ASSUME LinkInv,
           Answers \/ AnswerLost \/ PeerChanges \/ (\E fits \in BOOLEAN : AnswerArrives(fits))
             \/ UNCHANGED linkVars
    PROVE  LinkInv'
  <1>0. peer \in Peers /\ heard \subseteq Peers /\ request \in LinkRequests
    BY DEF LinkInv, LinkTypeOK
  <1>1. CASE Answers
    <2>1. UNCHANGED <<booth, client, peer, heard>>
      BY <1>1 DEF Answers
    <2>2. CASE \E reply \in {"ok"} \cup {r \in {"no_content"} : request.of = "system"} :
                 request' = [request EXCEPT !.at = "done", !.reply = reply]
      <3>1. request' \in LinkRequests /\ request'.at = "done" /\ request'.reply \in {"ok", "no_content"}
        BY <1>0, <2>2 DEF LinkRequests, Replies
      <3> QED
        BY <1>0, <2>1, <3>1, LinkStays
    <2>3. CASE \E reply \in Replies \ {"ok", "no_content"} :
                 request' = [request EXCEPT !.at = "refused", !.reply = reply]
      <3>1. /\ request' \in LinkRequests /\ request'.at = "refused"
            /\ request'.reply \in Replies \ {"ok", "no_content"}
        BY <1>0, <2>3 DEF LinkRequests, Replies
      <3> QED
        BY <1>0, <2>1, <3>1, LinkStays
    <2> QED
      BY <1>1, <2>2, <2>3 DEF Answers
  <1>2. CASE AnswerLost
    <2>1. PICK out \in {"transport", "dropped"} : Over(out)
      BY <1>2 DEF AnswerLost
    <2>2. request' \in LinkRequests /\ request'.at = "ended" /\ UNCHANGED <<booth, client, peer, heard>>
      BY <1>2, <2>1, OverIs DEF LinkErrors, AnswerLost
    <2> QED
      BY <1>0, <2>2, LinkStays
  <1>3. CASE PeerChanges
    BY <1>0, <1>3, LinkStays DEF PeerChanges, LinkInv
  <1>4. ASSUME NEW fits \in BOOLEAN, AnswerArrives(fits) PROVE LinkInv'
    <2>1. /\ request.at \in {"done", "refused"} /\ Over(Outcome(request, fits))
          /\ UNCHANGED <<booth, client, peer, heard>>
      BY <1>4 DEF AnswerArrives
    <2>2. Outcome(request, fits) \in LinkErrors \cup {"ok", "nothing", "open", "dropped"}
      <3>1. request.at = "refused" => StatusErrorOf[request.reply] \in LinkErrors
        BY <2>1 DEF LinkInv, Replies, StatusErrorOf, LinkErrors
      <3> QED
        BY <3>1 DEF Outcome, LinkErrors
    <2>3. request' \in LinkRequests /\ request'.at = "ended"
      BY <2>1, <2>2, OverIs
    <2> QED
      BY <1>0, <2>1, <2>3, LinkStays
  <1>5. CASE UNCHANGED linkVars
    BY <1>0, <1>5, LinkStays DEF linkVars, LinkInv
  <1> QED
    BY <1>1, <1>2, <1>3, <1>4, <1>5

LEMMA LinkAlways == LinkSpec => []LinkInv
  <1>1. LinkInit => LinkInv
    <2> SUFFICES ASSUME LinkInit PROVE LinkInv
      OBVIOUS
    <2>1. request \in LinkRequests /\ request.at = "ended"
      BY DEF LinkInit, Idle, LinkRequests
    <2>2. client \in {"plain", "pinned", "none"}
      BY DEF LinkInit, Connected
    <2> QED
      BY <2>1, <2>2 DEF LinkInit, LinkInv, LinkTypeOK, LinkRequests, Peers, TokenGoesToPinned
  <1>2. LinkInv /\ [LinkNext]_linkVars => LinkInv'
    BY CallsKeep, AnswersKeep DEF LinkNext
  <1> QED
    BY <1>1, <1>2, PTL DEF LinkSpec

(* The types of a booth's client, its peers and its requests.              *)
THEOREM LinkTypes == LinkSpec => []LinkTypeOK
  <1>1. LinkInv => LinkTypeOK
    BY DEF LinkInv
  <1> QED
    BY <1>1, LinkAlways, PTL

(* Over TLS the token goes to nobody but the pinned booth, whichever calls *)
(* are made and however the peer changes between them (BoothClient::       *)
(* connect, connect_telemetry, PinnedCertVerifier).                        *)
THEOREM TokensGoToPinned == LinkSpec => []TokenGoesToPinned
  <1>1. LinkInv => TokenGoesToPinned
    BY DEF LinkInv
  <1> QED
    BY <1>1, LinkAlways, PTL

------------------------------------------------------------------------------
(* Exposition: the page as it is written, and as it is read.               *)
Alphabet ==
    Names \cup {Back, Quote, LineFeed, Comment, NoText, OneSpace, Comma, EqualSign, OpenBrace,
                CloseBrace}
Chars == Seq(Alphabet)
LabelLists == Seq(Alphabet \X Chars)
Places == {"start", "named", "labels", "next_label", "key", "equals", "quoted",
           "escaped", "label_over", "labelled", "valued", "stamped", "malformed"}
Scans == [at: Places, name: Alphabet, key: Alphabet, value: Chars, labels: LabelLists]
SampleSet == [name: Alphabet, labels: LabelLists]

------------------------------------------------------------------------------
(* What is written of a mount point, character by character: what stands   *)
(* before and what stands behind a character.                              *)
Before(mount, h) ==
    /\ h \in [0..Len(mount) -> Chars]
    /\ h[0] = <<>> /\ h[Len(mount)] = Written(mount)
    /\ \A k \in 1..Len(mount) : h[k] = h[k - 1] \o Escaped(mount[k])

Behind(mount, r) ==
    /\ r \in [0..Len(mount) -> Chars]
    /\ r[0] = Written(mount) /\ r[Len(mount)] = <<>>
    /\ \A k \in 1..Len(mount) : r[k - 1] = Escaped(mount[k]) \o r[k]

LEMMA UpToSets ==
    ASSUME NEW n \in Nat, NEW k \in 1..n
    PROVE  /\ 1..k \in SUBSET (1..n) /\ 1..k # {} /\ Max(1..k) = k
           /\ (1..k) \ {k} = 1..(k - 1) /\ k - 1 \in 0..n
  <1>1. k \in 1..k /\ \A i \in 1..k : i \in 1..n
    OBVIOUS
  <1>2. 1..k \in SUBSET (1..n) /\ 1..k # {}
    BY <1>1
  <1>3. k - 1 \in Nat /\ (k - 1) + 1 = k
    OBVIOUS
  <1>4. \A s \in SUBSET (1..((k - 1) + 1)) : (k - 1) + 1 \in s => Max(s) = (k - 1) + 1
    BY <1>3, MaxOfUpTo
  <1>5. Max(1..k) = k
    BY <1>1, <1>3, <1>4
  <1> QED
    BY <1>2, <1>5

LEMMA Distinct ==
    /\ {Back, Quote, LineFeed, Letter} \subseteq Alphabet
    /\ Back # Quote /\ Back # LineFeed /\ Back # Letter
    /\ Quote # LineFeed /\ Quote # Letter /\ LineFeed # Letter
  <1>1. {Back, Quote, LineFeed, Letter} \subseteq Alphabet
    BY DEF Alphabet, Names
  <1>2. /\ Back # Quote /\ Back # LineFeed /\ Back # Letter
        /\ Quote # LineFeed /\ Quote # Letter /\ LineFeed # Letter
    BY DEF Back, Quote, LineFeed, Letter
  <1> QED
    BY <1>1, <1>2

LEMMA JoinedText ==
    ASSUME NEW s \in Chars, NEW t \in Chars
    PROVE  s \o t \in Chars /\ s \o <<>> = s /\ <<>> \o s = s /\ <<>> \in Chars
  BY ConcatProperties, ConcatEmptySeq DEF Chars

LEMMA JoinedThrice ==
    ASSUME NEW s \in Chars, NEW t \in Chars, NEW u \in Chars
    PROVE  (s \o t) \o u = s \o (t \o u)
  BY ConcatAssociative DEF Chars

LEMMA SameBehind ==
    ASSUME NEW s \in Chars, NEW t \in Chars, NEW u \in Chars, s \o t = s \o u
    PROVE  t = u
  BY ConcatSimplifications DEF Chars

LEMMA EscapedTypes == ASSUME NEW c \in Alphabet PROVE Escaped(c) \in Chars
  <1>1. CASE c = Back
    BY <1>1, Distinct DEF Escaped, Chars
  <1>2. CASE c = Quote
    BY <1>2, Distinct DEF Escaped, Chars
  <1>3. CASE c = LineFeed
    BY <1>3, Distinct DEF Escaped, Chars
  <1>4. CASE c \notin {Back, Quote, LineFeed}
    BY <1>4 DEF Escaped, Chars
  <1> QED
    BY <1>1, <1>2, <1>3, <1>4

LEMMA WrittenBefore ==
    ASSUME NEW mount \in Chars
    PROVE  \E h : Before(mount, h)
  <1> DEFINE n == Len(mount)
             step == [k \in 1..n |-> [v \in Chars |-> v \o Escaped(mount[k])]]
             Eq(g) == g = [s \in SUBSET DOMAIN mount |->
                             IF s = {} THEN <<>>
                             ELSE g[s \ {Max(s)}] \o Escaped(mount[Max(s)])]
             iter == CHOOSE g : Eq(g)
             h == [k \in 0..n |-> iter[1..k]]
  <1>1. n \in Nat /\ DOMAIN mount = 1..n /\ \A k \in 1..n : mount[k] \in Alphabet
    BY LenProperties DEF Chars
  <1>2. \A k \in 1..n : \A v \in Chars : v \o Escaped(mount[k]) \in Chars
    BY <1>1, EscapedTypes, ConcatProperties DEF Chars
  <1>3. <<>> \in Chars
    BY DEF Chars
  <1>4. PICK g \in [SUBSET (1..n) -> Chars] : Walks(g, n, <<>>, step)
    <2>1. step \in [1..n -> [Chars -> Chars]]
      BY <1>2
    <2> HIDE DEF step, n
    <2> QED
      BY <1>1, <1>3, <2>1, WalkExists
  <1>5. Eq(g)
    <2>1. ASSUME NEW s \in SUBSET (1..n), s # {}
          PROVE  step[Max(s)][g[s \ {Max(s)}]] = g[s \ {Max(s)}] \o Escaped(mount[Max(s)])
      <3>1. Max(s) \in 1..n
        BY <1>1, <2>1, MaxInside
      <3> QED
        BY <3>1
    <2> QED
      BY <1>1, <1>4, <2>1 DEF Walks
  <1>6. Eq(iter)
    BY <1>5
  <1>7. Written(mount) = iter[DOMAIN mount]
    BY DEF Written, FoldLeft, MapThenFoldSet
  <1> HIDE DEF iter
  <1>8. iter[{}] = <<>>
    <2>1. {} \in SUBSET DOMAIN mount
      OBVIOUS
    <2> QED
      BY <1>6, <2>1
  <1>9. \A k \in 1..n : iter[1..k] = iter[1..(k - 1)] \o Escaped(mount[k])
    <2> SUFFICES ASSUME NEW k \in 1..n
                 PROVE  iter[1..k] = iter[1..(k - 1)] \o Escaped(mount[k])
      OBVIOUS
    <2> HIDE DEF n
    <2> DEFINE s == 1..k
    <2>1. s \in SUBSET DOMAIN mount /\ s # {} /\ Max(s) = k /\ s \ {k} = 1..(k - 1)
      BY <1>1, UpToSets
    <2> HIDE DEF s
    <2>2. iter[s] = iter[s \ {Max(s)}] \o Escaped(mount[Max(s)])
      BY <1>6, <2>1
    <2> QED
      BY <2>1, <2>2 DEF s
  <1>10. 1..0 = {}
    OBVIOUS
  <1> DEFINE T == {k \in 0..n : iter[1..k] \in Chars}
  <1>11. \A k \in 0..n : k \in T
    <2>1. 0 \in T
      BY <1>1, <1>3, <1>8, <1>10
    <2>2. ASSUME NEW k \in Nat, k < n, k \in T PROVE k + 1 \in T
      <3>1. k + 1 \in 1..n /\ (k + 1) - 1 = k /\ k + 1 \in 0..n
        BY <1>1, <2>2
      <3>2. iter[1..(k + 1)] = iter[1..k] \o Escaped(mount[k + 1])
        BY <1>9, <3>1
      <3> QED
        BY <1>2, <2>2, <3>1, <3>2
    <2> HIDE DEF T, n
    <2> QED
      BY <1>1, <2>1, <2>2, UpTo
  <1>12. h \in [0..n -> Chars] /\ h[0] = <<>> /\ h[n] = Written(mount)
    BY <1>1, <1>7, <1>8, <1>10, <1>11
  <1>13. \A k \in 1..n : k \in 0..n /\ k - 1 \in 0..n /\ h[k] = h[k - 1] \o Escaped(mount[k])
    BY <1>1, <1>9
  <1>14. Before(mount, h)
    BY <1>12, <1>13 DEF Before
  <1> QED
    BY <1>14

LEMMA WrittenBehind ==
    ASSUME NEW mount \in Chars
    PROVE  \E r : Behind(mount, r)
  <1> DEFINE n == Len(mount)
  <1>1. n \in Nat /\ \A k \in 1..n : mount[k] \in Alphabet
    BY LenProperties DEF Chars
  <1>2. PICK h : Before(mount, h)
    BY WrittenBefore
  <1>3. /\ h \in [0..n -> Chars] /\ h[0] = <<>> /\ h[n] = Written(mount)
        /\ \A k \in 1..n : h[k] = h[k - 1] \o Escaped(mount[k])
    BY <1>2 DEF Before
  <1> HIDE DEF n
  <1>4. ASSUME NEW k \in 1..n, NEW t \in Chars, Written(mount) = h[k] \o t
        PROVE  Escaped(mount[k]) \o t \in Chars /\ Written(mount) = h[k - 1] \o (Escaped(mount[k]) \o t)
    <2>0. k - 1 \in 0..n
      BY <1>1
    <2>1. h[k - 1] \in Chars /\ Escaped(mount[k]) \in Chars /\ h[k] = h[k - 1] \o Escaped(mount[k])
      BY <1>1, <1>3, <2>0, EscapedTypes
    <2>2. (h[k - 1] \o Escaped(mount[k])) \o t = h[k - 1] \o (Escaped(mount[k]) \o t)
      BY <2>1, JoinedThrice, Zenon
    <2>3. Escaped(mount[k]) \o t \in Chars
      BY <2>1, JoinedText
    <2> QED
      BY <1>4, <2>1, <2>2, <2>3
  <1> DEFINE T == {j \in 0..n : \E t \in Chars : Written(mount) = h[n - j] \o t}
             r == [k \in 0..n |-> CHOOSE t \in Chars : Written(mount) = h[k] \o t]
  <1>5. \A j \in 0..n : j \in T
    <2>1. 0 \in T
      <3>1. Written(mount) = h[n] \o <<>> /\ <<>> \in Chars
        <4>1. n \in 0..n
          BY <1>1
        <4> QED
          BY <1>3, <4>1, JoinedText
      <3>2. n - 0 = n /\ 0 \in 0..n
        BY <1>1
      <3> QED
        BY <3>1, <3>2
    <2>2. ASSUME NEW j \in Nat, j < n, j \in T PROVE j + 1 \in T
      <3>1. PICK t \in Chars : Written(mount) = h[n - j] \o t
        BY <2>2
      <3>2. n - j \in 1..n /\ (n - j) - 1 = n - (j + 1) /\ j + 1 \in 0..n
        BY <1>1, <2>2
      <3>3. \E u \in Chars : Written(mount) = h[(n - j) - 1] \o u
        BY <1>4, <3>1, <3>2
      <3> QED
        BY <3>2, <3>3
    <2> HIDE DEF T
    <2> QED
      BY <1>1, <2>1, <2>2, UpTo
  <1>6. \A k \in 0..n : r[k] \in Chars /\ Written(mount) = h[k] \o r[k]
    <2> SUFFICES ASSUME NEW k \in 0..n PROVE r[k] \in Chars /\ Written(mount) = h[k] \o r[k]
      OBVIOUS
    <2>1. n - k \in 0..n /\ n - (n - k) = k
      BY <1>1
    <2>2. \E t \in Chars : Written(mount) = h[k] \o t
      BY <1>5, <2>1
    <2> QED
      BY <2>2
  <1>7. r \in [0..n -> Chars]
    BY <1>6
  <1> HIDE DEF r
  <1>8. \A k \in 1..n : r[k - 1] = Escaped(mount[k]) \o r[k]
    <2> SUFFICES ASSUME NEW k \in 1..n PROVE r[k - 1] = Escaped(mount[k]) \o r[k]
      OBVIOUS
    <2>1. k \in 0..n /\ k - 1 \in 0..n
      BY <1>1
    <2>2. Escaped(mount[k]) \o r[k] \in Chars
          /\ Written(mount) = h[k - 1] \o (Escaped(mount[k]) \o r[k])
      BY <1>4, <1>6, <2>1
    <2>3. Written(mount) = h[k - 1] \o r[k - 1] /\ h[k - 1] \in Chars /\ r[k - 1] \in Chars
      BY <1>3, <1>6, <2>1
    <2> QED
      BY <2>2, <2>3, SameBehind, Zenon
  <1>9. r[0] = Written(mount)
    <2>1. Written(mount) = h[0] \o r[0] /\ r[0] \in Chars
      <3>1. 0 \in 0..n
        BY <1>1
      <3> QED
        BY <1>6, <3>1
    <2> QED
      BY <1>3, <2>1, JoinedText
  <1>10. r[n] = <<>>
    <2>1. h[n] = h[n] \o r[n] /\ r[n] \in Chars /\ h[n] \in Chars
      <3>1. n \in 0..n
        BY <1>1
      <3> QED
        BY <1>3, <1>6, <3>1
    <2>2. h[n] \o r[n] = h[n] \o <<>> /\ <<>> \in Chars
      BY <2>1, JoinedText
    <2> QED
      BY <2>1, <2>2, SameBehind, Zenon
  <1> QED
    BY <1>7, <1>8, <1>9, <1>10 DEF Behind, n

Rest(mount) == CHOOSE r : Behind(mount, r)

LEMMA RestOfMount == ASSUME NEW mount \in Chars PROVE Behind(mount, Rest(mount))
  BY WrittenBehind DEF Rest

------------------------------------------------------------------------------
(* The scanner on a text w: q[j] is what it has in hand before w[j], and   *)
(* t is what stands behind the text.                                       *)
Follows(w, q) == \A j \in 1..Len(w) : Scanned(q[j], w[j]) = q[j + 1]

WithinText(w, q, t, rest, s) ==
    \E j \in 1..(Len(w) + 1) : rest = SubSeq(w, j, Len(w)) \o t /\ s = q[j]

LEMMA Headed ==
    ASSUME NEW c \in Alphabet, NEW s \in Chars
    PROVE  /\ <<c>> \o s \in Chars /\ <<c>> \o s # <<>>
           /\ Head(<<c>> \o s) = c /\ Tail(<<c>> \o s) = s
  <1> DEFINE w == <<c>> \o s
  <1>1. <<c>> \in Chars /\ Len(<<c>>) = 1 /\ <<c>>[1] = c
    BY DEF Chars
  <1>2. /\ w \in Chars /\ Len(w) = 1 + Len(s) /\ Len(s) \in Nat
        /\ \A i \in 1..(1 + Len(s)) : w[i] = IF i <= 1 THEN <<c>>[i] ELSE s[i - 1]
    BY <1>1, ConcatProperties, LenProperties DEF Chars
  <1> HIDE DEF w
  <1>3. w # <<>> /\ w[1] = c
    BY <1>1, <1>2
  <1>4. Tail(w) \in Chars /\ Len(Tail(w)) = Len(s) /\ \A i \in 1..Len(s) : Tail(w)[i] = w[i + 1]
    BY <1>2, <1>3, HeadTailProperties DEF Chars
  <1>5. \A i \in 1..Len(s) : w[i + 1] = s[i]
    BY <1>2
  <1>6. Tail(w) = s
    BY <1>4, <1>5, SeqEqual DEF Chars
  <1>7. Head(w) = c
    BY <1>2, <1>3 DEF Chars
  <1> QED
    BY <1>2, <1>3, <1>6, <1>7 DEF w

LEMMA OnStart ==
    ASSUME NEW w \in Chars, NEW q, NEW t
    PROVE  WithinText(w, q, t, w \o t, q[1])
  BY SubSeqFull, LenProperties DEF WithinText, Chars

LEMMA OnStep ==
    ASSUME NEW w \in Chars, NEW q, Follows(w, q), NEW t \in Chars, NEW rest, NEW s,
           WithinText(w, q, t, rest, s)
    PROVE  \/ rest = t /\ s = q[Len(w) + 1]
           \/ rest # <<>> /\ WithinText(w, q, t, Tail(rest), Scanned(s, Head(rest)))
  <1>1. PICK j \in 1..(Len(w) + 1) : rest = SubSeq(w, j, Len(w)) \o t /\ s = q[j]
    BY DEF WithinText
  <1>2. Len(w) \in Nat /\ \A i \in 1..Len(w) : w[i] \in Alphabet
    BY LenProperties DEF Chars
  <1>3. CASE j = Len(w) + 1
    <2>1. SubSeq(w, j, Len(w)) = <<>>
      BY <1>2, <1>3, SubSeqEmpty
    <2> QED
      BY <1>1, <1>3, <2>1, ConcatEmptySeq DEF Chars
  <1>4. CASE j \in 1..Len(w)
    <2> DEFINE u == SubSeq(w, j + 1, Len(w))
    <2>1. SubSeq(w, j, Len(w)) = <<w[j]>> \o u
      BY <1>2, <1>4, SubSeqRecursiveFirst DEF Chars
    <2>2. u \in Chars
      BY <1>2, <1>4, SubSeqProperties DEF Chars
    <2> HIDE DEF u
    <2>3. w[j] \in Alphabet /\ <<w[j]>> \in Chars
      BY <1>2, <1>4 DEF Chars
    <2>4. rest = <<w[j]>> \o (u \o t) /\ u \o t \in Chars
      BY <1>1, <2>1, <2>2, <2>3, ConcatAssociative, ConcatProperties, SMTT(20) DEF Chars
    <2>5. rest # <<>> /\ Head(rest) = w[j] /\ Tail(rest) = u \o t
      <3> DEFINE v == u \o t
      <3>1. v \in Chars /\ rest = <<w[j]>> \o v
        BY <2>4
      <3> HIDE DEF v
      <3>2. rest # <<>> /\ Head(rest) = w[j] /\ Tail(rest) = v
        BY <2>3, <3>1, Headed
      <3> QED
        BY <3>2 DEF v
    <2>6. j + 1 \in 1..(Len(w) + 1)
      BY <1>2, <1>4
    <2>7. Scanned(s, Head(rest)) = q[j + 1]
      BY <1>1, <1>4, <2>5 DEF Follows
    <2> QED
      BY <2>5, <2>6, <2>7 DEF WithinText, u
  <1> QED
    BY <1>2, <1>3, <1>4

------------------------------------------------------------------------------
(* The lines the booth writes, and what the scanner has in hand after each *)
(* character of them.                                                      *)
At(at, name, key, value, labels) ==
    [at |-> at, name |-> name, key |-> key, value |-> value, labels |-> labels]

Own == <<Label(IdKey, <<Letter>>)>>
Both(mount) == <<Label(IdKey, <<Letter>>), Label(MountKey, mount)>>

Header(name) ==
    <<name, OpenBrace, IdKey, EqualSign, Quote, Letter, Quote, Comma, MountKey, EqualSign, Quote>>
InHeader(name) ==
    <<Fresh, At("named", name, NoText, <<>>, <<>>), At("labels", name, NoText, <<>>, <<>>),
      At("key", name, IdKey, <<>>, <<>>), At("equals", name, IdKey, <<>>, <<>>),
      At("quoted", name, IdKey, <<>>, <<>>), At("quoted", name, IdKey, <<Letter>>, <<>>),
      At("label_over", name, IdKey, <<>>, Own), At("next_label", name, NoText, <<>>, Own),
      At("key", name, MountKey, <<>>, Own), At("equals", name, MountKey, <<>>, Own),
      At("quoted", name, MountKey, <<>>, Own)>>

Closing == <<Quote, CloseBrace, OneSpace, Value>>
InClosing(name, mount) ==
    <<At("quoted", name, MountKey, mount, Own), At("label_over", name, MountKey, <<>>, Both(mount)),
      At("labelled", name, MountKey, <<>>, Both(mount)),
      At("labelled", name, MountKey, <<>>, Both(mount)),
      At("valued", name, MountKey, <<>>, Both(mount))>>

Gauge == <<GaugeKey, OneSpace, Value>>
InGauge ==
    <<Fresh, At("named", GaugeKey, NoText, <<>>, <<>>), At("labelled", GaugeKey, NoText, <<>>, <<>>),
      At("valued", GaugeKey, NoText, <<>>, <<>>)>>

InComment == <<Fresh, Malformed>>

LEMMA Fields ==
    ASSUME NEW a, NEW n, NEW k, NEW v, NEW l, NEW x
    PROVE  LET s == At(a, n, k, v, l) IN
           /\ s.at = a /\ s.name = n /\ s.key = k /\ s.value = v /\ s.labels = l
           /\ [s EXCEPT !.at = x] = At(x, n, k, v, l)
           /\ [s EXCEPT !.name = x] = At(a, x, k, v, l)
           /\ [s EXCEPT !.key = x] = At(a, n, x, v, l)
           /\ [s EXCEPT !.value = x] = At(a, n, k, x, l)
           /\ [s EXCEPT !.labels = x] = At(a, n, k, v, x)
  BY DEF At
(* Two or three fields at a time.                                          *)
Keyed(s, x, y) == [s EXCEPT !.at = x, !.key = y]
Valued(s, x, y) == [s EXCEPT !.at = x, !.value = y]
LabelClosed(s, x, y, z) == [s EXCEPT !.at = x, !.value = y, !.labels = z]

LEMMA KeyedAt ==
    ASSUME NEW a, NEW n, NEW k, NEW v, NEW l, NEW x, NEW y
    PROVE  Keyed(At(a, n, k, v, l), x, y) = At(x, n, y, v, l)
  <1> DEFINE s == At(a, n, k, v, l)
  <1> HIDE DEF s
  <1>1. Keyed(s, x, y) = [[s EXCEPT !.at = x] EXCEPT !.key = y]
    BY DEF Keyed
  <1>2. [s EXCEPT !.at = x] = At(x, n, k, v, l)
    BY Fields DEF s
  <1>3. [At(x, n, k, v, l) EXCEPT !.key = y] = At(x, n, y, v, l)
    BY Fields
  <1> QED
    BY <1>1, <1>2, <1>3 DEF s

LEMMA ValuedAt ==
    ASSUME NEW a, NEW n, NEW k, NEW v, NEW l, NEW x, NEW y
    PROVE  Valued(At(a, n, k, v, l), x, y) = At(x, n, k, y, l)
  <1> DEFINE s == At(a, n, k, v, l)
  <1> HIDE DEF s
  <1>1. Valued(s, x, y) = [[s EXCEPT !.at = x] EXCEPT !.value = y]
    BY DEF Valued
  <1>2. [s EXCEPT !.at = x] = At(x, n, k, v, l)
    BY Fields DEF s
  <1>3. [At(x, n, k, v, l) EXCEPT !.value = y] = At(x, n, k, y, l)
    BY Fields
  <1> QED
    BY <1>1, <1>2, <1>3 DEF s

LEMMA LabelClosedAt ==
    ASSUME NEW a, NEW n, NEW k, NEW v, NEW l, NEW x, NEW y, NEW z
    PROVE  LabelClosed(At(a, n, k, v, l), x, y, z) = At(x, n, k, y, z)
  <1> DEFINE s == At(a, n, k, v, l)
  <1> HIDE DEF s
  <1>1. LabelClosed(s, x, y, z) = [[[s EXCEPT !.at = x] EXCEPT !.value = y] EXCEPT !.labels = z]
    BY DEF LabelClosed
  <1>2. [s EXCEPT !.at = x] = At(x, n, k, v, l)
    BY Fields DEF s
  <1>3. [At(x, n, k, v, l) EXCEPT !.value = y] = At(x, n, k, y, l)
    BY Fields
  <1>4. [At(x, n, k, y, l) EXCEPT !.labels = z] = At(x, n, k, y, z)
    BY Fields
  <1> QED
    BY <1>1, <1>2, <1>3, <1>4 DEF s

(* The steps of the scanner along a line, each from what it has in hand.   *)
LEMMA FromStart ==
    ASSUME NEW n \in Names
    PROVE  Scanned(Fresh, n) = At("named", n, NoText, <<>>, <<>>)
  <1> DEFINE s == Fresh
  <1>1. s = At("start", NoText, NoText, <<>>, <<>>) /\ s.at = "start"
    BY DEF Fresh, At
  <1> HIDE DEF s
  <1>2. Scanned(s, n) = [[s EXCEPT !.at = "named"] EXCEPT !.name = n]
    BY <1>1 DEF Scanned, Names, UsedKey, TotalKey, GaugeKey, MountKey, IdKey, Letter,
       Value, OneSpace, OpenBrace
  <1>3. [At("start", NoText, NoText, <<>>, <<>>) EXCEPT !.at = "named"] = At("named", NoText, NoText, <<>>, <<>>)
    BY DEF At
  <1>4. [At("named", NoText, NoText, <<>>, <<>>) EXCEPT !.name = n] = At("named", n, NoText, <<>>, <<>>)
    BY DEF At
  <1> QED
    BY <1>1, <1>2, <1>3, <1>4 DEF s

LEMMA FromNamed ==
    ASSUME NEW n, NEW k, NEW v, NEW l
    PROVE  /\ Scanned(At("named", n, k, v, l), OpenBrace) = At("labels", n, k, v, l)
           /\ Scanned(At("named", n, k, v, l), OneSpace) = At("labelled", n, k, v, l)
  <1> DEFINE s == At("named", n, k, v, l)
  <1>1. /\ s.at = "named" /\ [s EXCEPT !.at = "labels"] = At("labels", n, k, v, l)
        /\ [s EXCEPT !.at = "labelled"] = At("labelled", n, k, v, l)
    BY DEF At
  <1> HIDE DEF s
  <1>2. /\ Scanned(s, OpenBrace) = [s EXCEPT !.at = "labels"]
        /\ Scanned(s, OneSpace) = [s EXCEPT !.at = "labelled"]
    BY <1>1 DEF Scanned, Names, UsedKey, TotalKey, GaugeKey, MountKey, IdKey, Letter,
       Value, OneSpace, OpenBrace
  <1> QED
    BY <1>1, <1>2 DEF s

LEMMA FromLabelled ==
    ASSUME NEW n, NEW k, NEW v, NEW l
    PROVE  /\ Scanned(At("labelled", n, k, v, l), OneSpace) = At("labelled", n, k, v, l)
           /\ Scanned(At("labelled", n, k, v, l), Value) = At("valued", n, k, v, l)
  <1> DEFINE s == At("labelled", n, k, v, l)
  <1>1. s.at = "labelled" /\ [s EXCEPT !.at = "valued"] = At("valued", n, k, v, l)
    BY DEF At
  <1> HIDE DEF s
  <1>2. Scanned(s, OneSpace) = s /\ Scanned(s, Value) = [s EXCEPT !.at = "valued"]
    BY <1>1 DEF Scanned, Value, OneSpace
  <1> QED
    BY <1>1, <1>2 DEF s

LEMMA FromOpenLabels ==
    ASSUME NEW at \in {"labels", "next_label"}, NEW n, NEW k, NEW v, NEW l,
           NEW c \in {IdKey, MountKey}
    PROVE  Scanned(At(at, n, k, v, l), c) = At("key", n, c, v, l)
  <1> DEFINE s == At(at, n, k, v, l)
  <1>0. s.at = at
    BY DEF At
  <1>1. Keyed(s, "key", c) = At("key", n, c, v, l)
    BY KeyedAt
  <1> HIDE DEF s
  <1>2. Scanned(s, c) = Labelled(s, c)
    BY <1>0 DEF Scanned
  <1>3. Labelled(s, c) = Keyed(s, "key", c)
    BY <1>0 DEF Keyed, Labelled, IdKey, MountKey, OneSpace, EqualSign, CloseBrace
  <1> QED
    BY <1>1, <1>2, <1>3 DEF s

LEMMA FromKey ==
    ASSUME NEW n, NEW k \in {IdKey, MountKey}, NEW v, NEW l
    PROVE  Scanned(At("key", n, k, v, l), EqualSign) = At("equals", n, k, v, l)
  <1> DEFINE s == At("key", n, k, v, l)
  <1>1. s.at = "key" /\ s.key = k /\ [s EXCEPT !.at = "equals"] = At("equals", n, k, v, l)
    BY DEF At
  <1> HIDE DEF s
  <1>2. s.key # NoText
    BY <1>1 DEF IdKey, MountKey, NoText
  <1>3. Scanned(s, EqualSign) = Labelled(s, EqualSign)
    BY <1>1 DEF Scanned
  <1>4. Labelled(s, EqualSign) = [s EXCEPT !.at = "equals"]
    BY <1>1, <1>2 DEF Labelled, OneSpace, EqualSign, CloseBrace, Comma
  <1> QED
    BY <1>1, <1>3, <1>4 DEF s

LEMMA FromEquals ==
    ASSUME NEW n, NEW k, NEW v, NEW l
    PROVE  Scanned(At("equals", n, k, v, l), Quote) = At("quoted", n, k, v, l)
  <1> DEFINE s == At("equals", n, k, v, l)
  <1>1. s.at = "equals" /\ [s EXCEPT !.at = "quoted"] = At("quoted", n, k, v, l)
    BY DEF At
  <1> HIDE DEF s
  <1>2. Scanned(s, Quote) = Labelled(s, Quote)
    BY <1>1 DEF Scanned
  <1>3. Labelled(s, Quote) = [s EXCEPT !.at = "quoted"]
    BY <1>1 DEF Labelled, Quote, OneSpace
  <1> QED
    BY <1>1, <1>2, <1>3 DEF s

LEMMA FromLabelOver ==
    ASSUME NEW n, NEW k, NEW v, NEW l
    PROVE  /\ Scanned(At("label_over", n, k, v, l), Comma) = At("next_label", n, NoText, v, l)
           /\ Scanned(At("label_over", n, k, v, l), CloseBrace) = At("labelled", n, k, v, l)
  <1> DEFINE s == At("label_over", n, k, v, l)
  <1>0. s.at = "label_over"
    BY DEF At
  <1>1. Keyed(s, "next_label", NoText) = At("next_label", n, NoText, v, l)
    BY KeyedAt
  <1>4. [s EXCEPT !.at = "labelled"] = At("labelled", n, k, v, l)
    BY DEF At
  <1> HIDE DEF s
  <1>2. Scanned(s, Comma) = Labelled(s, Comma) /\ Scanned(s, CloseBrace) = Labelled(s, CloseBrace)
    BY <1>0 DEF Scanned
  <1>3. /\ Labelled(s, Comma) = Keyed(s, "next_label", NoText)
        /\ Labelled(s, CloseBrace) = [s EXCEPT !.at = "labelled"]
    BY <1>0 DEF Keyed, Labelled, OneSpace, EqualSign, CloseBrace, Comma
  <1> QED
    BY <1>1, <1>2, <1>3, <1>4 DEF s

(* What the exporter escaped is unescaped, and nothing else is.            *)
LEMMA FromQuoted ==
    ASSUME NEW n, NEW k, NEW v, NEW l, NEW c
    PROVE  /\ c \notin {Back, Quote} =>
                Scanned(At("quoted", n, k, v, l), c) = At("quoted", n, k, Append(v, c), l)
           /\ Scanned(At("quoted", n, k, v, l), Back) = At("escaped", n, k, v, l)
           /\ Scanned(At("quoted", n, k, v, l), Quote)
                = At("label_over", n, k, <<>>, Append(l, Label(k, v)))
  <1> DEFINE s == At("quoted", n, k, v, l)
             more == Append(v, c)
             closed == Append(l, Label(k, v))
  <1>1. s.at = "quoted" /\ s.key = k /\ s.value = v /\ s.labels = l
    BY DEF At
  <1>2. [s EXCEPT !.at = "escaped"] = At("escaped", n, k, v, l)
    BY DEF At
  <1> HIDE DEF more, closed
  <1>3. [s EXCEPT !.value = more] = At("quoted", n, k, more, l)
    BY DEF At
  <1>4. LabelClosed(s, "label_over", <<>>, closed) = At("label_over", n, k, <<>>, closed)
    BY LabelClosedAt
  <1> HIDE DEF s
  <1>5. \A x : Scanned(s, x) = Quoted(s, x)
    BY <1>1 DEF Scanned
  <1>6. c \notin {Back, Quote} => Quoted(s, c) = [s EXCEPT !.value = more]
    BY <1>1 DEF Quoted, more
  <1>7. Quoted(s, Back) = [s EXCEPT !.at = "escaped"]
    BY <1>1 DEF Quoted
  <1>8. Quoted(s, Quote) = LabelClosed(s, "label_over", <<>>, closed)
    BY <1>1 DEF LabelClosed, Quoted, Quote, Back, closed
  <1> QED
    BY <1>2, <1>3, <1>4, <1>5, <1>6, <1>7, <1>8 DEF s, more, closed

LEMMA FromEscaped ==
    ASSUME NEW n, NEW k, NEW v, NEW l, NEW c
    PROVE  Scanned(At("escaped", n, k, v, l), c) = At("quoted", n, k, Append(v, Unescaped(c)), l)
  <1> DEFINE s == At("escaped", n, k, v, l)
             u == Append(v, Unescaped(c))
  <1>0. s.at = "escaped" /\ s.value = v
    BY DEF At
  <1>1. /\ s.at = "escaped" /\ s.value = v
        /\ Valued(s, "quoted", u) = At("quoted", n, k, u, l)
    BY <1>0, ValuedAt
  <1> HIDE DEF s
  <1>2. Scanned(s, c) = Quoted(s, c)
    BY <1>1 DEF Scanned
  <1>3. Quoted(s, c) = Valued(s, "quoted", u)
    BY <1>1 DEF Valued, Quoted
  <1> QED
    BY <1>1, <1>2, <1>3 DEF s

------------------------------------------------------------------------------
(* The lines the booth writes, character by character.                     *)
LEMMA GaugeFollows == Gauge \in Chars /\ Len(Gauge) = 3 /\ Follows(Gauge, InGauge)
  <1>1. Gauge \in Chars /\ Len(Gauge) = 3
    BY DEF Gauge, Chars, Alphabet, Names
  <1>2. Gauge[1] = GaugeKey /\ Gauge[2] = OneSpace /\ Gauge[3] = Value
    BY DEF Gauge
  <1>3. /\ InGauge[1] = Fresh /\ InGauge[2] = At("named", GaugeKey, NoText, <<>>, <<>>)
        /\ InGauge[3] = At("labelled", GaugeKey, NoText, <<>>, <<>>)
        /\ InGauge[4] = At("valued", GaugeKey, NoText, <<>>, <<>>)
    BY DEF InGauge
  <1>4. Scanned(InGauge[1], Gauge[1]) = InGauge[2]
    BY <1>2, <1>3, FromStart DEF Names
  <1>5. Scanned(InGauge[2], Gauge[2]) = InGauge[3]
    BY <1>2, <1>3, FromNamed
  <1>6. Scanned(InGauge[3], Gauge[3]) = InGauge[4]
    BY <1>2, <1>3, FromLabelled
  <1> QED
    BY <1>1, <1>4, <1>5, <1>6 DEF Follows

LEMMA CommentFollows ==
    <<Comment>> \in Chars /\ Len(<<Comment>>) = 1 /\ Follows(<<Comment>>, InComment)
  <1>1. <<Comment>> \in Chars /\ Len(<<Comment>>) = 1
    BY DEF Chars, Alphabet
  <1> DEFINE s == Fresh
  <1>2. s.at = "start"
    BY DEF Fresh
  <1> HIDE DEF s
  <1>3. Comment \notin Names /\ Comment # OneSpace
    BY DEF Names, UsedKey, TotalKey, GaugeKey, MountKey, IdKey, Letter, Value, Comment, OneSpace
  <1>4. Scanned(s, Comment) = Malformed
    BY <1>2, <1>3 DEF Scanned
  <1>5. InComment[1] = s /\ InComment[2] = Malformed
    BY DEF InComment, s
  <1> QED
    BY <1>1, <1>4, <1>5 DEF Follows

LEMMA ClosingFollows ==
    ASSUME NEW name, NEW mount
    PROVE  Closing \in Chars /\ Len(Closing) = 4 /\ Follows(Closing, InClosing(name, mount))
  <1> DEFINE q == InClosing(name, mount)
  <1>1. Closing \in Chars /\ Len(Closing) = 4
    BY DEF Closing, Chars, Alphabet, Names
  <1>2. Closing[1] = Quote /\ Closing[2] = CloseBrace /\ Closing[3] = OneSpace /\ Closing[4] = Value
    BY DEF Closing
  <1>3. /\ q[1] = At("quoted", name, MountKey, mount, Own)
        /\ q[2] = At("label_over", name, MountKey, <<>>, Both(mount))
        /\ q[3] = At("labelled", name, MountKey, <<>>, Both(mount))
        /\ q[4] = At("labelled", name, MountKey, <<>>, Both(mount))
        /\ q[5] = At("valued", name, MountKey, <<>>, Both(mount))
    BY DEF InClosing
  <1>4. Both(mount) = Append(Own, Label(MountKey, mount))
    BY DEF Both, Own
  <1> HIDE DEF q
  <1>5. Scanned(q[1], Closing[1]) = q[2]
    BY <1>2, <1>3, <1>4, FromQuoted
  <1>6. Scanned(q[2], Closing[2]) = q[3]
    BY <1>2, <1>3, FromLabelOver
  <1>7. Scanned(q[3], Closing[3]) = q[4]
    BY <1>2, <1>3, FromLabelled
  <1>8. Scanned(q[4], Closing[4]) = q[5]
    BY <1>2, <1>3, FromLabelled
  <1> QED
    BY <1>1, <1>5, <1>6, <1>7, <1>8 DEF Follows, q

LEMMA HeaderFollows ==
    ASSUME NEW name \in {UsedKey, TotalKey}
    PROVE  Header(name) \in Chars /\ Len(Header(name)) = 11 /\ Follows(Header(name), InHeader(name))
  <1> DEFINE w == Header(name)
             q == InHeader(name)
  <1>1. w \in Chars /\ Len(w) = 11
    BY DEF Header, Chars, Alphabet, Names
  <1>2. /\ w[1] = name /\ w[2] = OpenBrace /\ w[3] = IdKey /\ w[4] = EqualSign /\ w[5] = Quote /\ w[6] = Letter
        /\ w[7] = Quote /\ w[8] = Comma /\ w[9] = MountKey /\ w[10] = EqualSign /\ w[11] = Quote
    BY DEF Header
  <1>3. /\ q[1] = Fresh /\ q[2] = At("named", name, NoText, <<>>, <<>>)
        /\ q[3] = At("labels", name, NoText, <<>>, <<>>) /\ q[4] = At("key", name, IdKey, <<>>, <<>>)
        /\ q[5] = At("equals", name, IdKey, <<>>, <<>>) /\ q[6] = At("quoted", name, IdKey, <<>>, <<>>)
    BY DEF InHeader
  <1>4. /\ q[7] = At("quoted", name, IdKey, <<Letter>>, <<>>)
        /\ q[8] = At("label_over", name, IdKey, <<>>, Own)
        /\ q[9] = At("next_label", name, NoText, <<>>, Own) /\ q[10] = At("key", name, MountKey, <<>>, Own)
        /\ q[11] = At("equals", name, MountKey, <<>>, Own) /\ q[12] = At("quoted", name, MountKey, <<>>, Own)
    BY DEF InHeader
  <1> HIDE DEF w, q
  <1>5. Scanned(q[1], w[1]) = q[2]
    BY <1>2, <1>3, FromStart DEF Names
  <1>6. Scanned(q[2], w[2]) = q[3]
    BY <1>2, <1>3, FromNamed
  <1>7. Scanned(q[3], w[3]) = q[4]
    BY <1>2, <1>3, FromOpenLabels
  <1>8. Scanned(q[4], w[4]) = q[5]
    <2> DEFINE e == <<>>
    <2> HIDE DEF e
    <2>1. Scanned(At("key", name, IdKey, e, e), EqualSign) = At("equals", name, IdKey, e, e)
      BY FromKey
    <2> QED
      BY <1>2, <1>3, <2>1 DEF e
  <1>9. Scanned(q[5], w[5]) = q[6]
    <2> DEFINE e == <<>>
    <2> HIDE DEF e
    <2>1. Scanned(At("equals", name, IdKey, e, e), Quote) = At("quoted", name, IdKey, e, e)
      BY FromEquals
    <2> QED
      BY <1>2, <1>3, <2>1 DEF e
  <1>10. Scanned(q[6], w[6]) = q[7]
    <2>1. Letter \notin {Back, Quote}
      BY Distinct
    <2> DEFINE e == <<>>
    <2>2. Append(e, Letter) = <<Letter>>
      OBVIOUS
    <2> HIDE DEF e
    <2>3. Scanned(At("quoted", name, IdKey, e, e), Letter)
            = At("quoted", name, IdKey, Append(e, Letter), e)
      BY <2>1, FromQuoted
    <2> QED
      BY <1>2, <1>3, <1>4, <2>2, <2>3 DEF e
  <1>11. Scanned(q[7], w[7]) = q[8]
    <2> DEFINE e == <<>>
               v == <<Letter>>
    <2>1. Append(e, Label(IdKey, v)) = Own
      BY DEF Own
    <2> HIDE DEF e, v
    <2>2. Scanned(At("quoted", name, IdKey, v, e), Quote)
            = At("label_over", name, IdKey, <<>>, Append(e, Label(IdKey, v)))
      BY FromQuoted
    <2> QED
      BY <1>2, <1>4, <2>1, <2>2 DEF e, v
  <1>12. Scanned(q[8], w[8]) = q[9]
    BY <1>2, <1>4, FromLabelOver
  <1>13. Scanned(q[9], w[9]) = q[10]
    BY <1>2, <1>4, FromOpenLabels
  <1>14. Scanned(q[10], w[10]) = q[11]
    <2>1. MountKey \in {IdKey, MountKey}
      OBVIOUS
    <2>2. Scanned(At("key", name, MountKey, <<>>, Own), EqualSign)
            = At("equals", name, MountKey, <<>>, Own)
      BY <2>1, FromKey
    <2> QED
      BY <1>2, <1>4, <2>2
  <1>15. Scanned(q[11], w[11]) = q[12]
    BY <1>2, <1>4, FromEquals
  <1> QED
    BY <1>1, <1>5, <1>6, <1>7, <1>8, <1>9, <1>10, <1>11, <1>12, <1>13, <1>14, <1>15 DEF Follows, w, q

------------------------------------------------------------------------------
(* The mount point between its quotes. Of a character that is escaped,     *)
(* what stands behind the backslash.                                       *)
Special == {Back, Quote, LineFeed}
Sign(c) == IF c = LineFeed THEN Letter ELSE c

Read(name, mount, k) == At("quoted", name, MountKey, SubSeq(mount, 1, k), Own)
ReadEscaped(name, mount, k) == At("escaped", name, MountKey, SubSeq(mount, 1, k), Own)

InMount(name, mount, rest, s) ==
    \/ \E k \in 0..Len(mount) : rest = Rest(mount)[k] \o Closing /\ s = Read(name, mount, k)
    \/ \E k \in 1..Len(mount) :
          /\ mount[k] \in Special /\ rest = <<Sign(mount[k])>> \o (Rest(mount)[k] \o Closing)
          /\ s = ReadEscaped(name, mount, k - 1)

LEMMA TwoChars == ASSUME NEW a \in Alphabet, NEW b \in Alphabet PROVE <<a, b>> = <<a>> \o <<b>>
  <1>1. <<a>> \in Seq(Alphabet) /\ <<a, b>> = Append(<<a>>, b)
    OBVIOUS
  <1> QED
    BY <1>1, AppendIsConcat

LEMMA EscapedIs ==
    ASSUME NEW c \in Alphabet
    PROVE  /\ c \notin Special => Escaped(c) = <<c>>
           /\ c \in Special => /\ Escaped(c) = <<Back>> \o <<Sign(c)>>
                               /\ Unescaped(Sign(c)) = c /\ Sign(c) \in Alphabet
  <1>1. c \notin Special => Escaped(c) = <<c>>
    BY DEF Escaped, Special
  <1>2. ASSUME c \in Special
        PROVE  Escaped(c) = <<Back, Sign(c)>> /\ Unescaped(Sign(c)) = c /\ Sign(c) \in Alphabet
    <2>1. CASE c = Back
      BY <2>1, Distinct DEF Escaped, Sign, Unescaped
    <2>2. CASE c = Quote
      BY <2>2, Distinct DEF Escaped, Sign, Unescaped
    <2>3. CASE c = LineFeed
      BY <2>3, Distinct DEF Escaped, Sign, Unescaped
    <2> QED
      BY <1>2, <2>1, <2>2, <2>3 DEF Special
  <1>3. Back \in Alphabet
    BY Distinct
  <1> QED
    BY <1>1, <1>2, <1>3, TwoChars

LEMMA OneMore ==
    ASSUME NEW mount \in Chars, NEW k \in 1..Len(mount)
    PROVE  Append(SubSeq(mount, 1, k - 1), mount[k]) = SubSeq(mount, 1, k)
  <1>1. Len(mount) \in Nat
    BY LenProperties DEF Chars
  <1>2. k - 1 \in Int /\ 1 \in 1..k /\ k \in 1..Len(mount)
    BY <1>1
  <1> QED
    BY <1>1, <1>2, SubSeqRecursiveSecond DEF Chars

LEMMA MountStep ==
    ASSUME NEW name, NEW mount \in Chars, NEW rest, NEW s, InMount(name, mount, rest, s)
    PROVE  \/ rest = Closing /\ s = InClosing(name, mount)[1]
           \/ rest # <<>> /\ InMount(name, mount, Tail(rest), Scanned(s, Head(rest)))
  <1> DEFINE n == Len(mount)
             r == Rest(mount)
             Left(k) == r[k] \o Closing
  <1>1. /\ n \in Nat /\ r \in [0..n -> Chars] /\ r[n] = <<>>
        /\ \A k \in 1..n : mount[k] \in Alphabet
        /\ \A k \in 1..n : r[k - 1] = Escaped(mount[k]) \o r[k]
    BY RestOfMount, LenProperties DEF Behind, Chars
  <1>2. Closing \in Chars
    BY ClosingFollows
  <1> HIDE DEF n, r
  <1>3. \A k \in 0..n : Left(k) \in Chars
    BY <1>1, <1>2, JoinedText
  <1>4. Left(n) = Closing
    BY <1>1, <1>2, JoinedText
  <1>5. Read(name, mount, n) = InClosing(name, mount)[1]
    BY SubSeqFull DEF Read, InClosing, n, Chars
  <1>6. ASSUME NEW k \in 1..n
        PROVE  Left(k - 1) = Escaped(mount[k]) \o Left(k)
    <2>1. k \in 0..n /\ k - 1 \in 0..n
      BY <1>1
    <2>2. r[k] \in Chars /\ Escaped(mount[k]) \in Chars
      BY <1>1, <2>1, EscapedTypes
    <2>3. (Escaped(mount[k]) \o r[k]) \o Closing = Escaped(mount[k]) \o (r[k] \o Closing)
      BY <1>2, <2>2, JoinedThrice, Zenon
    <2> QED
      BY <1>1, <2>3
  <1> HIDE DEF Left
  <1>7. InMount(name, mount, rest, s) <=>
          \/ \E k \in 0..n : rest = Left(k) /\ s = Read(name, mount, k)
          \/ \E k \in 1..n : /\ mount[k] \in Special /\ rest = <<Sign(mount[k])>> \o Left(k)
                             /\ s = ReadEscaped(name, mount, k - 1)
    BY DEF InMount, Left, n, r
  <1>8. ASSUME NEW k \in 0..n, rest = Left(k), s = Read(name, mount, k), k # n
        PROVE  rest # <<>> /\ InMount(name, mount, Tail(rest), Scanned(s, Head(rest)))
    <2> DEFINE j == k + 1
               c == mount[j]
    <2>1. j \in 1..n /\ j - 1 = k /\ j \in 0..n
      BY <1>1, <1>8
    <2>2. c \in Alphabet /\ Left(j) \in Chars /\ rest = Escaped(c) \o Left(j)
      BY <1>1, <1>3, <1>6, <1>8, <2>1
    <2> HIDE DEF j
    <2>3. CASE c \notin Special
      <3>1. rest = <<c>> \o Left(j)
        BY <2>2, <2>3, EscapedIs
      <3>2. rest # <<>> /\ Head(rest) = c /\ Tail(rest) = Left(j)
        BY <2>2, <3>1, Headed
      <3>3. Scanned(s, c) = Read(name, mount, j)
        <4>1. c \notin {Back, Quote}
          BY <2>3 DEF Special
        <4>2. Scanned(s, c) = At("quoted", name, MountKey, Append(SubSeq(mount, 1, k), c), Own)
          BY <1>8, <4>1, FromQuoted DEF Read
        <4>3. Append(SubSeq(mount, 1, k), c) = SubSeq(mount, 1, j)
          BY <2>1, OneMore DEF n
        <4> QED
          BY <4>2, <4>3 DEF Read
      <3> QED
        BY <1>7, <2>1, <3>2, <3>3 DEF InMount, Left, n, r
    <2>4. CASE c \in Special
      <3>1. /\ rest = (<<Back>> \o <<Sign(c)>>) \o Left(j) /\ Sign(c) \in Alphabet
            /\ Back \in Alphabet
        BY <2>2, <2>4, EscapedIs, Distinct
      <3>2. <<Back>> \in Chars /\ <<Sign(c)>> \in Chars
        BY <3>1 DEF Chars
      <3> DEFINE u == <<Sign(c)>> \o Left(j)
      <3>3. rest = <<Back>> \o u /\ u \in Chars
        <4> DEFINE b == <<Back>>
                   d == <<Sign(c)>>
                   l == Left(j)
        <4>1. b \in Chars /\ d \in Chars /\ l \in Chars /\ rest = (b \o d) \o l
          BY <2>2, <3>1, <3>2
        <4> HIDE DEF b, d, l
        <4>2. (b \o d) \o l = b \o (d \o l)
          BY <4>1, JoinedThrice, Zenon
        <4>3. d \o l \in Chars
          BY <4>1, JoinedText
        <4> QED
          BY <4>1, <4>2, <4>3 DEF b, d, l
      <3> HIDE DEF u
      <3>4. rest # <<>> /\ Head(rest) = Back /\ Tail(rest) = u
        BY <3>1, <3>3, Headed
      <3>5. Scanned(s, Back) = ReadEscaped(name, mount, k)
        BY <1>8, FromQuoted DEF Read, ReadEscaped
      <3> QED
        BY <2>1, <2>4, <3>4, <3>5 DEF InMount, Left, n, r, u
    <2> QED
      BY <2>3, <2>4
  <1>9. ASSUME NEW k \in 1..n, mount[k] \in Special, rest = <<Sign(mount[k])>> \o Left(k),
               s = ReadEscaped(name, mount, k - 1)
        PROVE  rest # <<>> /\ InMount(name, mount, Tail(rest), Scanned(s, Head(rest)))
    <2> DEFINE c == mount[k]
    <2>1. k \in 0..n
      BY <1>1
    <2>2. Left(k) \in Chars /\ c \in Alphabet /\ Sign(c) \in Alphabet /\ Unescaped(Sign(c)) = c
      BY <1>1, <1>3, <1>9, <2>1, EscapedIs
    <2>3. rest # <<>> /\ Head(rest) = Sign(c) /\ Tail(rest) = Left(k)
      BY <1>9, <2>2, Headed
    <2>4. Scanned(s, Sign(c))
            = At("quoted", name, MountKey, Append(SubSeq(mount, 1, k - 1), Unescaped(Sign(c))), Own)
      BY <1>9, FromEscaped DEF ReadEscaped
    <2>5. Append(SubSeq(mount, 1, k - 1), c) = SubSeq(mount, 1, k)
      BY OneMore DEF n
    <2>6. Scanned(s, Head(rest)) = Read(name, mount, k)
      BY <2>2, <2>3, <2>4, <2>5 DEF Read
    <2> QED
      BY <2>1, <2>3, <2>6 DEF InMount, Left, n, r
  <1> QED
    BY <1>4, <1>5, <1>7, <1>8, <1>9

------------------------------------------------------------------------------
(* A line of which nothing was lost or added: what is left of it, and what *)
(* the scanner has in hand by then.                                        *)
Disk == {UsedKey, TotalKey}

InLine(name, mount, rest, s) ==
    \/ name = Comment /\ mount = NoMount /\ WithinText(<<Comment>>, InComment, <<>>, rest, s)
    \/ name = GaugeKey /\ mount = NoMount /\ WithinText(Gauge, InGauge, <<>>, rest, s)
    \/ /\ name \in Disk /\ mount \in Mounts
       /\ \/ WithinText(Header(name), InHeader(name), Written(mount) \o Closing, rest, s)
          \/ InMount(name, mount, rest, s)
          \/ WithinText(Closing, InClosing(name, mount), <<>>, rest, s)

\* The scanner when such a line is over.
LineOutcome(name, mount) ==
    IF name = Comment THEN Malformed
    ELSE IF name = GaugeKey THEN At("valued", GaugeKey, NoText, <<>>, <<>>)
    ELSE At("valued", name, MountKey, <<>>, Both(mount))

LEMMA MountChars == ASSUME NEW mount \in Mounts PROVE mount \in Chars
  <1> DEFINE Few == {Back, Quote, LineFeed, Letter, Comma, CloseBrace}
  <1>1. mount \in Seq(Few)
    BY PageAssumption
  <1>2. Few \subseteq Alphabet
    BY DEF Alphabet, Names
  <1> HIDE DEF Few
  <1>3. Len(mount) \in Nat /\ \A i \in 1..Len(mount) : mount[i] \in Alphabet
    BY <1>1, <1>2
  <1> QED
    BY <1>1, <1>3 DEF Chars

LEMMA DiskNames ==
    ASSUME NEW name \in Disk
    PROVE  name # Comment /\ name # GaugeKey /\ name \in Names
  BY DEF Disk, UsedKey, TotalKey, Comment, GaugeKey, Names

LEMMA WrittenTypes == ASSUME NEW mount \in Chars PROVE Written(mount) \in Chars
  <1>1. /\ Rest(mount) \in [0..Len(mount) -> Chars] /\ Rest(mount)[0] = Written(mount)
        /\ Len(mount) \in Nat
    BY RestOfMount, LenProperties DEF Behind, Chars
  <1> QED
    BY <1>1

LEMMA DiskLine ==
    ASSUME NEW name \in Disk, NEW mount \in Chars
    PROVE  /\ LineOf(name, mount) = Header(name) \o (Written(mount) \o Closing)
           /\ Written(mount) \o Closing \in Chars /\ LineOf(name, mount) \in Chars
  <1> DEFINE h == Header(name)
             w == Written(mount)
             c == Closing
  <1>1. LineOf(name, mount) = (h \o w) \o c
    BY DiskNames DEF LineOf, Header, Closing
  <1>2. h \in Chars /\ w \in Chars /\ c \in Chars
    BY HeaderFollows, WrittenTypes, ClosingFollows DEF Disk
  <1> HIDE DEF h, w, c
  <1>3. (h \o w) \o c = h \o (w \o c)
    BY <1>2, JoinedThrice, ZenonT(30)
  <1>4. w \o c \in Chars
    BY <1>2, JoinedText
  <1>5. h \o (w \o c) \in Chars
    BY <1>2, <1>4, JoinedText
  <1> QED
    BY <1>1, <1>3, <1>4, <1>5 DEF h, w, c

LEMMA LineBegun ==
    ASSUME NEW name, NEW mount,
           \/ name \in {GaugeKey, Comment} /\ mount = NoMount
           \/ name \in Disk /\ mount \in Mounts
    PROVE  LineOf(name, mount) \in Chars /\ InLine(name, mount, LineOf(name, mount), Fresh)
  <1>1. CASE name = Comment /\ mount = NoMount
    <2>1. LineOf(name, mount) = <<Comment>> /\ <<Comment>> \in Chars /\ InComment[1] = Fresh
      BY <1>1, CommentFollows DEF LineOf, InComment
    <2>2. <<Comment>> \o <<>> = <<Comment>>
      BY <2>1, JoinedText
    <2>3. WithinText(<<Comment>>, InComment, <<>>, <<Comment>> \o <<>>, InComment[1])
      BY <2>1, OnStart
    <2> QED
      BY <1>1, <2>1, <2>2, <2>3 DEF InLine
  <1>2. CASE name = GaugeKey /\ mount = NoMount
    <2>1. LineOf(name, mount) = Gauge /\ Gauge \in Chars /\ InGauge[1] = Fresh
      <3>1. GaugeKey # Comment
        BY DEF GaugeKey, Comment
      <3> QED
        BY <1>2, <3>1, GaugeFollows DEF LineOf, InGauge, Gauge
    <2>2. Gauge \o <<>> = Gauge
      BY <2>1, JoinedText
    <2>3. WithinText(Gauge, InGauge, <<>>, Gauge \o <<>>, InGauge[1])
      BY <2>1, OnStart
    <2> QED
      BY <1>2, <2>1, <2>2, <2>3 DEF InLine
  <1>3. CASE name \in Disk /\ mount \in Mounts
    <2> DEFINE t == Written(mount) \o Closing
    <2>1. mount \in Chars
      BY <1>3, MountChars
    <2>2. LineOf(name, mount) = Header(name) \o t /\ LineOf(name, mount) \in Chars
      BY <1>3, <2>1, DiskLine
    <2>3. Header(name) \in Chars /\ InHeader(name)[1] = Fresh
      BY <1>3, HeaderFollows DEF Disk, InHeader
    <2>4. WithinText(Header(name), InHeader(name), t, Header(name) \o t, InHeader(name)[1])
      <3> HIDE DEF t
      <3> QED
        BY <2>3, OnStart
    <2> QED
      BY <1>3, <2>2, <2>3, <2>4 DEF InLine
  <1> QED
    BY <1>1, <1>2, <1>3

LEMMA LineStep ==
    ASSUME NEW name, NEW mount, NEW rest, NEW s, InLine(name, mount, rest, s)
    PROVE  \/ rest = <<>> /\ s = LineOutcome(name, mount)
           \/ rest # <<>> /\ InLine(name, mount, Tail(rest), Scanned(s, Head(rest)))
  <1>0. <<>> \in Chars
    BY DEF Chars
  <1>1. CASE name = Comment /\ mount = NoMount /\ WithinText(<<Comment>>, InComment, <<>>, rest, s)
    <2>1. \/ rest = <<>> /\ s = InComment[2]
          \/ rest # <<>> /\ WithinText(<<Comment>>, InComment, <<>>, Tail(rest), Scanned(s, Head(rest)))
      <3>1. \/ rest = <<>> /\ s = InComment[Len(<<Comment>>) + 1]
            \/ rest # <<>> /\ WithinText(<<Comment>>, InComment, <<>>, Tail(rest), Scanned(s, Head(rest)))
        BY <1>0, <1>1, CommentFollows, OnStep
      <3> QED
        BY <3>1, CommentFollows
    <2>2. InComment[2] = LineOutcome(name, mount)
      BY <1>1 DEF InComment, LineOutcome
    <2> QED
      BY <1>1, <2>1, <2>2 DEF InLine
  <1>2. CASE name = GaugeKey /\ mount = NoMount /\ WithinText(Gauge, InGauge, <<>>, rest, s)
    <2>1. \/ rest = <<>> /\ s = InGauge[4]
          \/ rest # <<>> /\ WithinText(Gauge, InGauge, <<>>, Tail(rest), Scanned(s, Head(rest)))
      <3>1. \/ rest = <<>> /\ s = InGauge[Len(Gauge) + 1]
            \/ rest # <<>> /\ WithinText(Gauge, InGauge, <<>>, Tail(rest), Scanned(s, Head(rest)))
        BY <1>0, <1>2, GaugeFollows, OnStep
      <3> QED
        BY <3>1, GaugeFollows
    <2>2. InGauge[4] = LineOutcome(name, mount)
      <3>1. GaugeKey # Comment
        BY DEF GaugeKey, Comment
      <3> QED
        BY <1>2, <3>1 DEF InGauge, LineOutcome
    <2> QED
      BY <1>2, <2>1, <2>2 DEF InLine
  <1>3. ASSUME name \in Disk, mount \in Mounts
        PROVE  \/ rest = <<>> /\ s = LineOutcome(name, mount)
               \/ rest # <<>> /\ InLine(name, mount, Tail(rest), Scanned(s, Head(rest)))
    <2> DEFINE t == Written(mount) \o Closing
    <2>1. mount \in Chars
      BY <1>3, MountChars
    <2>2. t \in Chars /\ Len(mount) \in Nat
      BY <1>3, <2>1, DiskLine, LenProperties DEF Chars
    <2>3. name # Comment /\ name # GaugeKey
      BY <1>3, DiskNames
    <2>4. Closing # <<>>
      BY DEF Closing
    <2>5. ASSUME InMount(name, mount, rest, s)
          PROVE  rest # <<>> /\ InLine(name, mount, Tail(rest), Scanned(s, Head(rest)))
      <3>1. CASE rest = Closing /\ s = InClosing(name, mount)[1]
        <4>1. Closing \in Chars /\ Closing \o <<>> = Closing
          BY ClosingFollows, JoinedText
        <4>2. WithinText(Closing, InClosing(name, mount), <<>>, rest, s)
          <5>1. WithinText(Closing, InClosing(name, mount), <<>>, Closing \o <<>>, InClosing(name, mount)[1])
            BY <4>1, OnStart
          <5> QED
            BY <3>1, <4>1, <5>1
        <4>3. \/ rest = <<>> /\ s = InClosing(name, mount)[Len(Closing) + 1]
              \/ rest # <<>> /\ WithinText(Closing, InClosing(name, mount), <<>>, Tail(rest), Scanned(s, Head(rest)))
          BY <1>0, <4>2, ClosingFollows, OnStep
        <4> QED
          BY <1>3, <2>4, <3>1, <4>3 DEF InLine
      <3>2. CASE rest # <<>> /\ InMount(name, mount, Tail(rest), Scanned(s, Head(rest)))
        BY <1>3, <3>2 DEF InLine
      <3> QED
        BY <2>1, <2>5, <3>1, <3>2, MountStep
    <2>6. CASE WithinText(Header(name), InHeader(name), t, rest, s)
      <3>1. \/ rest = t /\ s = InHeader(name)[12]
            \/ rest # <<>> /\ WithinText(Header(name), InHeader(name), t, Tail(rest), Scanned(s, Head(rest)))
        <4> HIDE DEF t
        <4>1. \/ rest = t /\ s = InHeader(name)[Len(Header(name)) + 1]
              \/ rest # <<>> /\ WithinText(Header(name), InHeader(name), t, Tail(rest), Scanned(s, Head(rest)))
          BY <1>3, <2>2, <2>6, HeaderFollows, OnStep DEF Disk
        <4>2. Len(Header(name)) = 11
          BY <1>3, HeaderFollows DEF Disk
        <4> QED
          BY <4>1, <4>2
      <3>2. CASE rest = t /\ s = InHeader(name)[12]
        <4>1. rest = Rest(mount)[0] \o Closing /\ 0 \in 0..Len(mount)
          <5>1. Rest(mount)[0] = Written(mount)
            BY <2>1, RestOfMount DEF Behind
          <5>2. 0 \in 0..Len(mount)
            BY <2>2
          <5> QED
            BY <3>2, <5>1, <5>2
        <4>2. s = Read(name, mount, 0)
          <5>1. SubSeq(mount, 1, 0) = <<>>
            BY <2>1, SubSeqEmpty
          <5> QED
            BY <3>2, <5>1 DEF InHeader, Read
        <4>3. InMount(name, mount, rest, s)
          BY <4>1, <4>2 DEF InMount
        <4> QED
          BY <2>5, <4>3
      <3> QED
        BY <1>3, <3>1, <3>2 DEF InLine
    <2>7. CASE WithinText(Closing, InClosing(name, mount), <<>>, rest, s)
      <3>1. \/ rest = <<>> /\ s = InClosing(name, mount)[5]
            \/ rest # <<>> /\ WithinText(Closing, InClosing(name, mount), <<>>, Tail(rest), Scanned(s, Head(rest)))
        <4>1. \/ rest = <<>> /\ s = InClosing(name, mount)[Len(Closing) + 1]
              \/ rest # <<>> /\ WithinText(Closing, InClosing(name, mount), <<>>, Tail(rest), Scanned(s, Head(rest)))
          BY <1>0, <2>7, ClosingFollows, OnStep
        <4>2. Len(Closing) = 4
          BY ClosingFollows
        <4> QED
          BY <4>1, <4>2
      <3>2. InClosing(name, mount)[5] = LineOutcome(name, mount)
        BY <2>3 DEF InClosing, LineOutcome
      <3> QED
        BY <1>3, <3>1, <3>2 DEF InLine
    <2>8. \/ WithinText(Header(name), InHeader(name), t, rest, s) \/ InMount(name, mount, rest, s)
          \/ WithinText(Closing, InClosing(name, mount), <<>>, rest, s)
      BY <2>3 DEF InLine
    <2> QED
      BY <2>5, <2>6, <2>7, <2>8
  <1> QED
    BY <1>1, <1>2, <1>3 DEF InLine

------------------------------------------------------------------------------
(* What the scanner has in hand is of its kind, whatever it is given.      *)
LEMMA FieldTypes ==
    ASSUME NEW s \in Scans
    PROVE  /\ \A x \in Places : [s EXCEPT !.at = x] \in Scans
           /\ \A x \in Alphabet : [s EXCEPT !.name = x] \in Scans /\ [s EXCEPT !.key = x] \in Scans
           /\ \A x \in Chars : [s EXCEPT !.value = x] \in Scans
           /\ \A x \in LabelLists : [s EXCEPT !.labels = x] \in Scans
           /\ \A x \in Places, y \in Alphabet :
                /\ [s EXCEPT !.at = x, !.name = y] \in Scans
                /\ [s EXCEPT !.at = x, !.key = y] \in Scans
           /\ \A x \in Places, y \in Chars : [s EXCEPT !.at = x, !.value = y] \in Scans
           /\ \A x \in Places, y \in Chars, z \in LabelLists :
                [s EXCEPT !.at = x, !.value = y, !.labels = z] \in Scans
  BY DEF Scans

LEMMA FreshTypes == Fresh \in Scans /\ Malformed \in Scans /\ Malformed # Fresh
  <1>1. NoText \in Alphabet /\ <<>> \in Chars /\ <<>> \in LabelLists
    BY DEF Alphabet, Chars, LabelLists
  <1>2. "start" \in Places /\ "malformed" \in Places
    BY DEF Places
  <1>3. Fresh \in Scans /\ Fresh.at = "start"
    BY <1>1, <1>2 DEF Fresh, Scans
  <1> DEFINE f == Fresh
  <1> HIDE DEF f
  <1>4. [f EXCEPT !.at = "malformed"] \in Scans /\ [f EXCEPT !.at = "malformed"] # f
    BY <1>2, <1>3 DEF f, Scans
  <1> QED
    BY <1>3, <1>4 DEF f, Malformed

LEMMA ScannedTypes ==
    ASSUME NEW s \in Scans, NEW c \in Alphabet
    PROVE  Scanned(s, c) \in Scans
  <1>1. /\ s.at \in Places /\ s.name \in Alphabet /\ s.key \in Alphabet /\ s.value \in Chars
        /\ s.labels \in LabelLists
    BY DEF Scans
  <1>2. Malformed \in Scans
    BY FreshTypes
  <1>3. Letter \in Alphabet /\ NoText \in Alphabet /\ LineFeed \in Alphabet
    BY DEF Alphabet, Names
  <1>4. Unescaped(c) \in Alphabet
    BY <1>3 DEF Unescaped
  <1>5. Append(s.value, c) \in Chars /\ Append(s.value, Unescaped(c)) \in Chars /\ <<>> \in Chars
    BY <1>1, <1>4 DEF Chars
  <1>6. Append(s.labels, Label(s.key, s.value)) \in LabelLists
    BY <1>1 DEF LabelLists, Label
  <1>7. Quoted(s, c) \in Scans
    <2>1. "quoted" \in Places /\ "escaped" \in Places /\ "label_over" \in Places
      BY DEF Places
    <2> DEFINE u == Append(s.value, Unescaped(c))
               v == Append(s.value, c)
               l == Append(s.labels, Label(s.key, s.value))
    <2>2. u \in Chars /\ v \in Chars /\ l \in LabelLists
      BY <1>5, <1>6
    <2> HIDE DEF u, v, l
    <2>3. /\ [s EXCEPT !.at = "quoted", !.value = u] \in Scans /\ [s EXCEPT !.at = "escaped"] \in Scans
          /\ [s EXCEPT !.at = "label_over", !.value = <<>>, !.labels = l] \in Scans
          /\ [s EXCEPT !.value = v] \in Scans
      BY <1>5, <2>1, <2>2, FieldTypes
    <2> QED
      BY <2>3 DEF Quoted, u, v, l
  <1>8. Labelled(s, c) \in Scans
    <2>1. /\ "equals" \in Places /\ "key" \in Places /\ "quoted" \in Places
          /\ "next_label" \in Places /\ "labelled" \in Places
      BY DEF Places
    <2>2. /\ [s EXCEPT !.at = "equals"] \in Scans /\ [s EXCEPT !.at = "quoted"] \in Scans
          /\ [s EXCEPT !.at = "labelled"] \in Scans /\ [s EXCEPT !.key = Letter] \in Scans
          /\ [s EXCEPT !.at = "key", !.key = c] \in Scans
          /\ [s EXCEPT !.at = "next_label", !.key = NoText] \in Scans
      BY <1>3, <2>1, FieldTypes
    <2> QED
      BY <1>2, <2>2 DEF Labelled
  <1>9. /\ [s EXCEPT !.at = "stamped"] \in Scans /\ [s EXCEPT !.at = "labels"] \in Scans
        /\ [s EXCEPT !.at = "labelled"] \in Scans /\ [s EXCEPT !.at = "valued"] \in Scans
        /\ [s EXCEPT !.name = Letter] \in Scans /\ [s EXCEPT !.at = "named", !.name = c] \in Scans
    <2>1. /\ "stamped" \in Places /\ "labels" \in Places /\ "labelled" \in Places
          /\ "valued" \in Places /\ "named" \in Places
      BY DEF Places
    <2> QED
      BY <1>3, <2>1, FieldTypes
  <1> QED
    BY <1>2, <1>7, <1>8, <1>9 DEF Scanned

------------------------------------------------------------------------------
(* What one more sample is read as.                                        *)
LEMMA OneSample ==
    ASSUME NEW set \in Seq(SampleSet), NEW x \in SampleSet
    PROVE  /\ Append(set, x) \in Seq(SampleSet) /\ Len(Append(set, x)) = Len(set) + 1
           /\ DOMAIN Append(set, x) = DOMAIN set \cup {Len(set) + 1}
           /\ \A i \in DOMAIN set : Append(set, x)[i] = set[i]
           /\ Append(set, x)[Len(set) + 1] = x /\ Len(set) \in Nat
  OBVIOUS

LEMMA InDisks ==
    ASSUME NEW set, NEW f
    PROVE  f \in Disks(set) <=>
             \E i \in DOMAIN set : /\ set[i].name \in Disk
                                   /\ \E m \in LabelOf(set[i], MountKey) : f = Figure(set[i].name, m)
  BY DEF Disks, Disk

LEMMA InGauges ==
    ASSUME NEW set, NEW f
    PROVE  f \in Gauges(set) <=>
             \E i \in DOMAIN set : set[i].name = GaugeKey /\ f = Figure(set[i].name, NoMount)
  BY DEF Gauges

LEMMA LabelRead ==
    ASSUME NEW name, NEW mount
    PROVE  LabelOf(SampleOf(name, Both(mount)), MountKey) = {mount}
  <1> DEFINE l == Both(mount)
  <1>1. /\ DOMAIN l = 1..2 /\ l[1] = Label(IdKey, <<Letter>>) /\ l[2] = Label(MountKey, mount)
    BY DEF Both
  <1> HIDE DEF l
  <1>2. l[1][1] = IdKey /\ l[2][1] = MountKey /\ l[2][2] = mount
    BY <1>1 DEF Label
  <1>3. IdKey # MountKey
    BY DEF IdKey, MountKey
  <1> DEFINE of == {i \in DOMAIN l : l[i][1] = MountKey}
  <1>4. of = {2}
    BY <1>1, <1>2, <1>3
  <1> HIDE DEF of
  <1>5. {l[i][2] : i \in {j \in of : \A k \in of : j <= k}} = {mount}
    <2>1. {j \in of : \A k \in of : j <= k} = {2}
      BY <1>4
    <2> QED
      BY <1>2, <2>1
  <1>6. SampleOf(name, l).labels = l
    BY DEF SampleOf
  <1> QED
    BY <1>5, <1>6 DEF LabelOf, of, l

LEMMA DiskSample ==
    ASSUME NEW set \in Seq(SampleSet), NEW name \in Disk, NEW mount, 
           SampleOf(name, Both(mount)) \in SampleSet
    PROVE  LET new == Append(set, SampleOf(name, Both(mount))) IN
           Disks(new) \cup Gauges(new) = (Disks(set) \cup Gauges(set)) \cup {Figure(name, mount)}
  <1> DEFINE x == SampleOf(name, Both(mount))
             new == Append(set, x)
  <1>1. x.name = name /\ LabelOf(x, MountKey) = {mount} /\ name # GaugeKey
    BY LabelRead, DiskNames DEF SampleOf
  <1> HIDE DEF x
  <1>2. /\ DOMAIN new = DOMAIN set \cup {Len(set) + 1}
        /\ \A i \in DOMAIN set : new[i] = set[i]
        /\ new[Len(set) + 1] = x
    BY OneSample DEF x
  <1> HIDE DEF new
  <1>3. ASSUME NEW f
        PROVE  f \in Disks(new) <=> f \in Disks(set) \/ f = Figure(name, mount)
    BY <1>1, <1>2, InDisks
  <1>4. ASSUME NEW f
        PROVE  f \in Gauges(new) <=> f \in Gauges(set)
    BY <1>1, <1>2, InGauges
  <1>5. Disks(new) \cup Gauges(new) = (Disks(set) \cup Gauges(set)) \cup {Figure(name, mount)}
    BY <1>3, <1>4
  <1> QED
    BY <1>5 DEF new, x

LEMMA GaugeSample ==
    ASSUME NEW set \in Seq(SampleSet), NEW labels, SampleOf(GaugeKey, labels) \in SampleSet
    PROVE  LET new == Append(set, SampleOf(GaugeKey, labels)) IN
           Disks(new) \cup Gauges(new)
             = (Disks(set) \cup Gauges(set)) \cup {Figure(GaugeKey, NoMount)}
  <1> DEFINE x == SampleOf(GaugeKey, labels)
             new == Append(set, x)
  <1>1. x.name = GaugeKey
    BY DEF SampleOf
  <1>2. GaugeKey \notin Disk
    BY DEF GaugeKey, Disk, UsedKey, TotalKey
  <1> HIDE DEF x
  <1>3. /\ DOMAIN new = DOMAIN set \cup {Len(set) + 1}
        /\ \A i \in DOMAIN set : new[i] = set[i]
        /\ new[Len(set) + 1] = x
    BY OneSample DEF x
  <1> HIDE DEF new
  <1>4. ASSUME NEW f
        PROVE  f \in Disks(new) <=> f \in Disks(set)
    BY <1>1, <1>2, <1>3, InDisks
  <1>5. ASSUME NEW f
        PROVE  f \in Gauges(new) <=> f \in Gauges(set) \/ f = Figure(GaugeKey, NoMount)
    BY <1>1, <1>3, InGauges
  <1>6. Disks(new) \cup Gauges(new)
          = (Disks(set) \cup Gauges(set)) \cup {Figure(GaugeKey, NoMount)}
    BY <1>4, <1>5
  <1> QED
    BY <1>6 DEF new, x

LEMMA NoSample == Disks(<<>>) \cup Gauges(<<>>) = {}
  <1>1. DOMAIN <<>> = {}
    OBVIOUS
  <1> QED
    BY <1>1, InDisks, InGauges

------------------------------------------------------------------------------
UnderWay == ahead # <<>> \/ scan # Fresh

PageShape ==
    /\ ahead \in Chars /\ scan \in Scans /\ samples \in Seq(SampleSet)
    /\ intends \in {Figure(n, m) : n \in Names \cup {Comment}, m \in Mounts \cup {NoMount}}
    /\ lines \in 0..MaxPage /\ Len(samples) <= lines /\ (UnderWay => lines < MaxPage)
    /\ whole \in BOOLEAN /\ odd \in BOOLEAN

(* What was read of the whole lines is what they were to say; the line     *)
(* under way, if it is whole, is read as far as it was written.            *)
PageInv ==
    /\ PageShape
    /\ odd => ~UnderWay
    /\ ~odd => Disks(samples) \cup Gauges(samples) = meant
    /\ whole /\ UnderWay => InLine(intends[1], intends[2], ahead, scan)

LEMMA PageInitInv == PageInit => PageInv
  <1>0. SUFFICES ASSUME PageInit PROVE PageInv
    OBVIOUS
  <1>1. ahead \in Chars /\ samples \in Seq(SampleSet) /\ Len(samples) = 0
    BY <1>0 DEF Chars, PageInit
  <1>2. ~UnderWay
    BY <1>0 DEF UnderWay, PageInit
  <1>3. intends \in {Figure(n, m) : n \in Names \cup {Comment}, m \in Mounts \cup {NoMount}}
    BY <1>0 DEF PageInit
  <1>4. lines \in 0..MaxPage
    BY <1>0, PageAssumption DEF PageInit
  <1>5. Len(samples) <= lines
    BY <1>0, <1>1 DEF PageInit
  <1>6. PageShape
    <2>1. whole \in BOOLEAN /\ odd \in BOOLEAN
      BY <1>0, Zenon DEF PageInit
    <2>2. scan \in Scans
      BY <1>0, FreshTypes DEF PageInit
    <2> QED
      BY <1>1, <1>2, <1>3, <1>4, <1>5, <2>1, <2>2 DEF PageShape
  <1> QED
    BY <1>0, <1>2, <1>6, NoSample DEF PageInit, PageInv

(* A line is over: only a whole one is a sample, or the page is odd.       *)
LEMMA LineOverInv ==
    ASSUME PageInv, LineOver
    PROVE  PageInv'
  <1> DEFINE n == intends[1]
             m == intends[2]
             x == SampleOf(scan.name, scan.labels)
  <1>1. /\ PageShape /\ ahead = <<>> /\ scan # Fresh /\ UnderWay /\ ~odd
        /\ Disks(samples) \cup Gauges(samples) = meant
        /\ whole => InLine(n, m, ahead, scan)
    BY DEF PageInv, LineOver, UnderWay
  <1>2. /\ ahead' = ahead /\ intends' = intends /\ whole' = whole /\ scan' = Fresh
        /\ lines' = lines + 1 /\ odd' = (Parsed(scan) /\ ~whole)
        /\ samples' = samples \o (IF Parsed(scan) THEN <<x>> ELSE <<>>)
        /\ meant' = meant \cup {f \in {intends} : whole /\ f[1] # Comment}
    BY DEF LineOver
  <1>3. ~UnderWay'
    BY <1>1, <1>2 DEF UnderWay
  <1>4. x \in SampleSet
    BY <1>1 DEF PageShape, Scans, SampleSet, SampleOf
  <1>5. samples' = IF Parsed(scan) THEN Append(samples, x) ELSE samples
    <2>1. samples \in Seq(SampleSet)
      BY <1>1 DEF PageShape
    <2>2. samples \o <<>> = samples
      BY <2>1, ConcatEmptySeq
    <2>3. samples \o <<x>> = Append(samples, x)
      BY <1>4, <2>1, AppendIsConcat
    <2> QED
      BY <1>2, <2>2, <2>3
  <1>6. PageShape'
    <2>1. /\ samples' \in Seq(SampleSet) /\ Len(samples') <= Len(samples) + 1
          /\ Len(samples) \in Nat
      BY <1>1, <1>4, <1>5, OneSample DEF PageShape
    <2>2. lines' \in 0..MaxPage /\ Len(samples') <= lines'
      BY <1>1, <1>2, <2>1, PageAssumption DEF PageShape
    <2>3. odd' \in BOOLEAN
      BY <1>2
    <2> QED
      BY <1>1, <1>2, <1>3, <2>1, <2>2, <2>3, FreshTypes DEF PageShape
  <1>7. ASSUME ~odd'
        PROVE  Disks(samples') \cup Gauges(samples') = meant'
    <2>1. CASE ~whole
      BY <1>1, <1>2, <1>5, <1>7, <2>1
    <2>2. CASE whole
      <3>1. scan = LineOutcome(n, m) /\ InLine(n, m, ahead, scan)
        BY <1>1, <2>2, LineStep
      <3>2. intends = Figure(n, m)
        BY <1>1 DEF PageShape, Figure
      <3>3. CASE n = Comment
        <4>1. scan = Malformed
          BY <3>1, <3>3 DEF LineOutcome
        <4>2. ~Parsed(scan)
          BY <4>1 DEF Parsed, Malformed, Fresh
        <4> QED
          BY <1>1, <1>2, <1>5, <3>3, <4>2
      <3>4. CASE n = GaugeKey /\ m = NoMount
        <4>1. n # Comment
          BY <3>4 DEF GaugeKey, Comment
        <4>2. scan = At("valued", GaugeKey, NoText, <<>>, <<>>)
          BY <3>1, <3>4, <4>1 DEF LineOutcome
        <4>3. Parsed(scan) /\ x = SampleOf(GaugeKey, <<>>)
          BY <4>2 DEF At, Parsed
        <4>4. meant' = meant \cup {Figure(GaugeKey, NoMount)}
          BY <1>2, <2>2, <3>2, <3>4, <4>1
        <4>5. samples \in Seq(SampleSet)
          BY <1>1 DEF PageShape
        <4> QED
          BY <1>1, <1>4, <1>5, <4>3, <4>4, <4>5, GaugeSample
      <3>5. CASE n \in Disk /\ m \in Mounts
        <4>1. n # Comment /\ n # GaugeKey
          BY <3>5, DiskNames
        <4>2. scan = At("valued", n, MountKey, <<>>, Both(m))
          BY <3>1, <4>1 DEF LineOutcome
        <4>3. Parsed(scan) /\ x = SampleOf(n, Both(m))
          BY <4>2 DEF At, Parsed
        <4>4. meant' = meant \cup {Figure(n, m)}
          BY <1>2, <2>2, <3>2, <4>1
        <4>5. samples \in Seq(SampleSet)
          BY <1>1 DEF PageShape
        <4> QED
          BY <1>1, <1>4, <1>5, <3>5, <4>3, <4>4, <4>5, DiskSample
      <3> QED
        BY <3>1, <3>3, <3>4, <3>5 DEF InLine
    <2> QED
      BY <2>1, <2>2
  <1> QED
    BY <1>3, <1>6, <1>7 DEF PageInv

LEMMA BeginsLineInv ==
    ASSUME PageInv, NEW name, NEW mount, BeginsLine(name, mount),
           \/ name \in {GaugeKey, Comment} /\ mount = NoMount
           \/ name \in Disk /\ mount \in Mounts
    PROVE  PageInv'
  <1>1. /\ PageShape /\ ~odd /\ lines < MaxPage /\ scan = Fresh
        /\ Disks(samples) \cup Gauges(samples) = meant
    BY DEF PageInv, BeginsLine
  <1>2. /\ ahead' = LineOf(name, mount) /\ intends' = Figure(name, mount)
        /\ UNCHANGED <<scan, meant, samples, lines, odd>> /\ whole' = TRUE
    BY DEF BeginsLine
  <1>3. LineOf(name, mount) \in Chars /\ InLine(name, mount, LineOf(name, mount), Fresh)
    BY LineBegun
  <1>4. intends' \in {Figure(n, m) : n \in Names \cup {Comment}, m \in Mounts \cup {NoMount}}
    BY <1>2, DiskNames DEF Names
  <1>5. PageShape'
    BY <1>1, <1>2, <1>3, <1>4 DEF PageShape
  <1>6. intends'[1] = name /\ intends'[2] = mount
    BY <1>2 DEF Figure
  <1> QED
    BY <1>1, <1>2, <1>3, <1>5, <1>6 DEF PageInv

LEMMA WritesCharInv ==
    ASSUME PageInv, WritesChar
    PROVE  PageInv'
  <1>1. /\ ahead # <<>> /\ ahead' = Tail(ahead) /\ scan' = Scanned(scan, Head(ahead))
        /\ UNCHANGED <<intends, whole, meant, samples, lines, odd>>
    BY DEF WritesChar
  <1>2. PageShape /\ UnderWay /\ ~odd /\ lines < MaxPage
    BY <1>1 DEF PageInv, UnderWay, PageShape
  <1>3. Head(ahead) \in Alphabet /\ ahead' \in Chars
    BY <1>1, <1>2, HeadTailProperties DEF PageShape, Chars
  <1>4. scan' \in Scans
    BY <1>1, <1>2, <1>3, ScannedTypes DEF PageShape
  <1>5. PageShape'
    BY <1>1, <1>2, <1>3, <1>4 DEF PageShape
  <1>6. whole => InLine(intends[1], intends[2], ahead', scan')
    <2> SUFFICES ASSUME whole PROVE InLine(intends[1], intends[2], ahead', scan')
      OBVIOUS
    <2>1. InLine(intends[1], intends[2], ahead, scan)
      BY <1>2 DEF PageInv
    <2> QED
      BY <1>1, <2>1, LineStep
  <1> QED
    BY <1>1, <1>2, <1>5, <1>6 DEF PageInv

(* A character that is added or lost, and a line that is cut: the line is  *)
(* whole no more.                                                          *)
LEMMA SpoiltInv ==
    ASSUME PageInv, NEW c \in Alphabet, CharAdded(c) \/ CharLost \/ LineCut
    PROVE  PageInv'
  <1>1. /\ ahead # <<>> /\ ~whole' /\ whole' \in BOOLEAN
        /\ UNCHANGED <<intends, meant, samples, lines, odd>>
        /\ scan' \in {scan, Scanned(scan, c)} /\ ahead' \in {ahead, Tail(ahead), <<>>}
    BY DEF CharAdded, CharLost, LineCut
  <1>2. PageShape /\ UnderWay /\ ~odd /\ lines < MaxPage
    BY <1>1 DEF PageInv, UnderWay, PageShape
  <1>3. ahead' \in Chars
    <2>1. Tail(ahead) \in Chars /\ <<>> \in Chars /\ ahead \in Chars
      BY <1>1, <1>2, HeadTailProperties DEF PageShape, Chars
    <2> QED
      BY <1>1, <2>1
  <1>4. scan' \in Scans
    BY <1>1, <1>2, ScannedTypes DEF PageShape
  <1>5. PageShape'
    BY <1>1, <1>2, <1>3, <1>4 DEF PageShape
  <1> QED
    BY <1>1, <1>2, <1>5 DEF PageInv

LEMMA PageOverInv ==
    ASSUME PageInv, PageOver
    PROVE  PageInv'
  <1>1. /\ PageShape /\ ~UnderWay /\ ~UnderWay'
        /\ ahead' = ahead /\ intends' = intends /\ whole' = whole /\ scan' = scan
        /\ meant' = {} /\ samples' = <<>> /\ lines' = 0 /\ odd' = FALSE
    BY DEF PageInv, PageOver, UnderWay
  <1>2. samples' \in Seq(SampleSet) /\ Len(samples') <= lines' /\ lines' \in 0..MaxPage
    BY <1>1, PageAssumption
  <1>3. odd' \in BOOLEAN
    BY <1>1, Zenon
  <1>4. PageShape'
    <2>1. /\ ahead' \in Chars /\ scan' \in Scans /\ whole' \in BOOLEAN
          /\ intends' \in {Figure(n, m) : n \in Names \cup {Comment}, m \in Mounts \cup {NoMount}}
      BY <1>1 DEF PageShape
    <2>2. ~UnderWay'
      BY <1>1
    <2> QED
      BY <1>2, <1>3, <2>1, <2>2 DEF PageShape
  <1> QED
    BY <1>1, <1>4, NoSample DEF PageInv

(* What was read is what the lines were to say, at any point of the page.  *)
THEOREM PageInvariant == PageSpec => []PageInv
  <1>1. PageInit => PageInv
    BY PageInitInv
  <1>2. PageInv /\ [PageNext]_pageVars => PageInv'
    <2> SUFFICES ASSUME PageInv, [PageNext]_pageVars PROVE PageInv'
      OBVIOUS
    <2>1. CASE \E name \in {GaugeKey, Comment} : BeginsLine(name, NoMount)
      BY <2>1, BeginsLineInv
    <2>2. CASE \E name \in {UsedKey, TotalKey}, mount \in Mounts : BeginsLine(name, mount)
      BY <2>2, BeginsLineInv DEF Disk
    <2>3. CASE WritesChar
      BY <2>3, WritesCharInv
    <2>4. CASE CharLost \/ LineCut
      <3>1. Back \in Alphabet
        BY Distinct
      <3> QED
        BY <2>4, <3>1, SpoiltInv
    <2>5. CASE \E c \in {CloseBrace, Comma, OneSpace, Quote, Back, Value, Letter} : CharAdded(c)
      <3>1. {CloseBrace, Comma, OneSpace, Quote, Back, Value, Letter} \subseteq Alphabet
        BY DEF Alphabet, Names
      <3> QED
        BY <2>5, <3>1, SpoiltInv
    <2>6. CASE LineOver
      BY <2>6, LineOverInv
    <2>7. CASE PageOver
      BY <2>7, PageOverInv
    <2>8. CASE UNCHANGED pageVars
      BY <2>8 DEF pageVars, PageInv, PageShape, UnderWay
    <2> QED
      BY <2>1, <2>2, <2>3, <2>4, <2>5, <2>6, <2>7, <2>8 DEF PageNext
  <1> QED
    BY <1>1, <1>2, PTL DEF PageSpec

(* The reader is always in a place of its line, and never has more samples *)
(* than there were lines.                                                  *)
THEOREM PageTypes == PageSpec => []PageTypeOK
  <1>1. PageInv => PageTypeOK
    BY DEF PageInv, PageShape, PageTypeOK, Scans, Places
  <1> QED
    BY <1>1, PageInvariant, PTL

(* What the booth writes is what is read, for any mount points, and for    *)
(* pages of any length.                                                    *)
THEOREM PageReads == PageSpec => []PageReadsBack
  <1>1. PageInv => PageReadsBack
    BY DEF PageInv, PageReadsBack
  <1> QED
    BY <1>1, PageInvariant, PTL
=============================================================================
