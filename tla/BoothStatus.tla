---------------------------- MODULE BoothStatus ------------------------------
(***************************************************************************)
(* The booth status of tbo-tui's data/status.rs: a REST poll every five    *)
(* seconds on every screen, and a live socket that is kept open, with a    *)
(* pause between attempts (how long a pause is left out), once the Status  *)
(* screen was in front.                                                    *)
(*                                                                         *)
(* A status is the number of the heartbeat it reports, and what it says of *)
(* the installation: "active", "between" exhibitions, or nothing at all    *)
(* ("none": an older server, or a live frame that leaves it out). It is    *)
(* synthetic while the installation has had no heartbeat yet, and then has *)
(* the heartbeat 0, older than any.                                        *)
(***************************************************************************)
EXTENDS Integers, Sequences, FiniteSetsExt, SequencesExt

CONSTANTS
    MaxBeat,        \* bound: heartbeats
    MaxFrames       \* bound: frames in the channel

ASSUME StatusAssumption == {MaxBeat, MaxFrames} \subseteq Nat

VARIABLES
    beat, beaten, installation,     \* the operator's server
    shown, statusError,             \* `state`, whether `last_error` is set
    statusPoll, due,                \* the poll whose channel is held; the timer
    live, frames                    \* the socket's worker; frames not yet taken

statusVars == <<beat, beaten, installation, shown, statusError, statusPoll, due,
                live, frames>>

Beats == 0..MaxBeat
Said == {"none", "active", "between"}
Reports == [upd: Beats, inst: Said, synthetic: BOOLEAN]
Report == [upd |-> IF beaten THEN beat ELSE 0, inst |-> installation,
           synthetic |-> ~beaten]
NoReport == [upd |-> 0, inst |-> "none", synthetic |-> FALSE]

Statuses == [at: {"idle", "loading", "ready", "failed"}, value: Reports]
NoStatus(at) == [at |-> at, value |-> NoReport]
Polls ==
    [at: {"none", "asked", "served", "answered", "failed", "dead"}, value: Reports]

StatusTypeOK ==
    /\ beat \in Beats /\ beaten \in BOOLEAN /\ installation \in Said
    /\ shown \in Statuses /\ statusError \in BOOLEAN
    /\ statusPoll \in Polls /\ due \in BOOLEAN
    /\ live \in {"off", "connecting", "open", "waiting"}
    /\ frames \in Seq(Reports) /\ Len(frames) <= MaxFrames

StatusInit ==
    /\ beat = 0 /\ beaten = FALSE
    /\ installation \in {"none", "active"}
    /\ shown = NoStatus("idle") /\ statusError = FALSE
    /\ statusPoll = NoStatus("none") /\ due = TRUE
    /\ live = "off" /\ frames = <<>>

----------------------------------------------------------------------------
(* The server and the booth behind it.                                     *)

(* A heartbeat; with a socket open, a frame that may leave the lifecycle   *)
(* out, and that is late or lost with the socket.                          *)
Heartbeat ==
    /\ beat < MaxBeat
    /\ beat' = beat + 1
    /\ beaten' = TRUE
    /\ \/ /\ live = "open" /\ Len(frames) < MaxFrames
          /\ \E inst \in {"none", installation} :
               frames' = Append(frames, [upd |-> beat + 1, inst |-> inst,
                                         synthetic |-> FALSE])
       \/ UNCHANGED frames
    /\ UNCHANGED <<installation, shown, statusError, statusPoll, due, live>>

(* An exhibition ends, or the next installation starts: no heartbeat of it *)
(* is known at first.                                                      *)
LifecycleChange ==
    /\ installation # "none"
    /\ installation' = IF installation = "active" THEN "between" ELSE "active"
    /\ beaten' \in {FALSE, beaten}
    /\ UNCHANGED <<beat, shown, statusError, statusPoll, due, live, frames>>

(* The server writes its answer; it arrives when newer frames have come.   *)
PollServed ==
    /\ statusPoll.at = "asked"
    /\ statusPoll' = [at |-> "served", value |-> Report]
    /\ UNCHANGED <<beat, beaten, installation, shown, statusError, due, live,
                   frames>>

PollAnswered ==
    /\ statusPoll.at = "served"
    /\ statusPoll' = [statusPoll EXCEPT !.at = "answered"]
    /\ UNCHANGED <<beat, beaten, installation, shown, statusError, due, live,
                   frames>>

PollFails ==
    /\ statusPoll.at \in {"asked", "served"}
    /\ statusPoll' \in {NoStatus("failed"), NoStatus("dead")}
    /\ UNCHANGED <<beat, beaten, installation, shown, statusError, due, live,
                   frames>>

----------------------------------------------------------------------------
(* The socket's worker (ensure_live): every stream that ends and every     *)
(* attempt that fails is followed by a pause.                              *)

Connects ==
    /\ live = "connecting"
    /\ live' = "open"
    /\ UNCHANGED <<beat, beaten, installation, shown, statusError, statusPoll, due,
                   frames>>

Disconnects ==
    /\ live \in {"connecting", "open"}
    /\ live' = "waiting"
    /\ UNCHANGED <<beat, beaten, installation, shown, statusError, statusPoll, due,
                   frames>>

PauseEnds ==
    /\ live = "waiting"
    /\ live' = "connecting"
    /\ UNCHANGED <<beat, beaten, installation, shown, statusError, statusPoll, due,
                   frames>>

----------------------------------------------------------------------------
(* apply_status: a report that is older than what is shown is dropped; one *)
(* that says nothing of the lifecycle leaves it, and cannot show through a *)
(* status that is between exhibitions.                                     *)
Silent(s, r) == s.value.inst = "between" /\ r.inst = "none"

ApplyAny(s, r) ==       \* a slip: reports are taken as they come
    IF s.at # "ready" THEN [at |-> "ready", value |-> r]
    ELSE IF Silent(s, r) THEN s
    ELSE [s EXCEPT !.value = [r EXCEPT !.inst = IF r.inst = "none"
                                                THEN s.value.inst ELSE r.inst]]

ApplyStatus(s, r) ==
    IF s.at # "ready" THEN [at |-> "ready", value |-> r]
    ELSE IF Silent(s, r) \/ r.upd < s.value.upd THEN s
    ELSE [s EXCEPT !.value = [r EXCEPT !.inst = IF r.inst = "none"
                                                THEN s.value.inst ELSE r.inst]]

(* apply: a poll's word on the lifecycle always counts, and a synthetic    *)
(* status replaces whatever is shown.                                      *)
PollApplied ==
    LET r == statusPoll.value
        s == IF shown.at = "ready" THEN [shown EXCEPT !.value.inst = r.inst] ELSE shown
    IN  CASE statusPoll.at = "answered" ->
               IF r.synthetic THEN [at |-> "ready", value |-> r] ELSE ApplyStatus(s, r)
          [] statusPoll.at = "failed" /\ shown.at # "ready" -> NoStatus("failed")
          [] OTHER -> shown

StatusBegun(s) == IF s.at \in {"idle", "failed"} THEN NoStatus("loading") ELSE s

FreeUnlessItDied ==     \* a slip: a poll that died is held for ever
    statusPoll.at \notin {"asked", "served", "dead"}

PollFree == statusPoll.at \notin {"asked", "served"}
DueNow == PollFree /\ due /\ statusPoll.at \in {"none", "dead"}

(* tick: the poll, then the frames that are here by now, then the socket   *)
(* if the Status screen is in front, then the next poll if it is due.      *)
StatusTick == \E here \in 0..Len(frames) :
    LET drained == FoldLeft(ApplyStatus, PollApplied, SubSeq(frames, 1, here)) IN
    /\ shown' = IF DueNow THEN StatusBegun(drained) ELSE drained
    /\ statusError' = CASE statusPoll.at = "answered" -> FALSE
                        [] statusPoll.at = "failed" -> TRUE
                        [] OTHER -> statusError
    /\ statusPoll' = IF DueNow THEN NoStatus("asked")
                     ELSE IF PollFree THEN NoStatus("none") ELSE statusPoll
    /\ due' = (due /\ statusPoll.at \notin {"answered", "failed"})
    /\ frames' = SubSeq(frames, here + 1, Len(frames))
    /\ live' \in {live, IF live = "off" THEN "connecting" ELSE live}
    /\ UNCHANGED <<beat, beaten, installation>>

(* Five seconds have passed since the last poll was applied.               *)
FiveSeconds ==
    /\ ~due
    /\ due' = TRUE
    /\ UNCHANGED <<beat, beaten, installation, shown, statusError, statusPoll, live,
                   frames>>

StatusRefresh ==
    /\ statusPoll.at = "none"
    /\ statusPoll' = NoStatus("asked")
    /\ shown' = StatusBegun(shown)
    /\ UNCHANGED <<beat, beaten, installation, statusError, due, live, frames>>

StatusNext ==
    \/ Heartbeat \/ LifecycleChange
    \/ PollServed \/ PollAnswered \/ PollFails
    \/ Connects \/ Disconnects \/ PauseEnds
    \/ StatusTick \/ FiveSeconds \/ StatusRefresh

StatusSpec == StatusInit /\ [][StatusNext]_statusVars

----------------------------------------------------------------------------
(* between_exhibitions.                                                    *)
Between ==
    ~statusError /\ shown.at = "ready" /\ shown.value.inst = "between"

(* Polls and frames come out of order, yet the status never goes back to   *)
(* an older heartbeat; only a poll that answers with a synthetic status,   *)
(* which reports none, may take the place of any. And the state of being   *)
(* between exhibitions ends only on the word of a poll, or of a frame that *)
(* names the lifecycle: a heartbeat of a booth that was left on does not   *)
(* end it (apply_status, apply).                                           *)
NoReportUndone ==
    [][/\ shown.at = "ready" /\ shown'.at = "ready" =>
            \/ shown'.value.upd >= shown.value.upd
            \/ statusPoll.at = "answered" /\ statusPoll.value.synthetic
       /\ Between /\ ~Between' =>
            \/ statusPoll.at \in {"answered", "failed"}
            \/ \E k \in DOMAIN frames : frames[k].inst = "active"]_statusVars

(* The poll makes up for a socket that is down or loses frames: a booth    *)
(* that settles is shown as it is, whatever came before.                   *)
SettledIsShown ==
    <>[][UNCHANGED <<beat, beaten, installation>>]_statusVars =>
      <>[](shown.at = "ready" /\ shown.value.inst = installation
           /\ (beaten => shown.value.upd = beat))
=============================================================================
