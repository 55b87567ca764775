------------------------------ MODULE StatsView ------------------------------
(***************************************************************************)
(* The statistics of tbo-tui's data/stats.rs: an overview of one window of *)
(* time. Another window is asked for at once, also while a load is under   *)
(* way: the earlier task goes on, and its answer must not be shown.        *)
(***************************************************************************)
EXTENDS Integers

CONSTANTS
    Windows,        \* WINDOW_CYCLE: the windows are 1..Windows
    MaxAsks         \* bound: loads ever made

ASSUME StatsAssumption == Windows \in Nat /\ Windows >= 2 /\ MaxAsks \in Nat

VARIABLES
    window,
    overview,       \* `state`, with the window it is an overview of
    asks, made,     \* the tasks: the window of each and what became of it
    statsRx,        \* the task whose channel is held, or 0
    statsLoaded

statsVars == <<window, overview, asks, made, statsRx, statsLoaded>>

AllWindows == 1..Windows
Week == 2           \* the default, second in the cycle
Tasks == 1..MaxAsks

Overviews == [at: {"idle", "loading", "ready", "failed"}, of: AllWindows \cup {0}]
Asks == [at: {"asked", "answered", "failed", "dead"}, of: AllWindows]
Unmade == [at |-> "asked", of |-> 1]

StatsTypeOK ==
    /\ window \in AllWindows
    /\ overview \in Overviews
    /\ asks \in [Tasks -> Asks]
    /\ made \in 0..MaxAsks
    /\ statsRx \in 0..made
    /\ statsLoaded \in BOOLEAN

StatsInit ==
    /\ window = Week
    /\ overview = [at |-> "idle", of |-> 0]
    /\ asks = [t \in Tasks |-> Unmade]
    /\ made = 0
    /\ statsRx = 0
    /\ statsLoaded = FALSE

(* A task ends: with an answer, an error or without a word.                *)
AskEnds ==
    /\ \E t \in 1..made, at \in {"answered", "failed", "dead"} :
         /\ asks[t].at = "asked"
         /\ asks' = [asks EXCEPT ![t].at = at]
    /\ UNCHANGED <<window, overview, made, statsRx, statsLoaded>>

SharedChannel(w) ==     \* a slip: the earlier task's channel is kept
    /\ made < MaxAsks
    /\ made' = made + 1
    /\ asks' = [asks EXCEPT ![made + 1] = [at |-> "asked", of |-> w]]
    /\ statsRx' = IF statsRx = 0 THEN made + 1 ELSE statsRx

(* start_load, for the window w: the channel of an earlier task is gone.   *)
StartLoad(w) ==
    /\ made < MaxAsks
    /\ made' = made + 1
    /\ asks' = [asks EXCEPT ![made + 1] = [at |-> "asked", of |-> w]]
    /\ statsRx' = made + 1

StatsBegun(o) == IF o.at \in {"idle", "failed"} THEN [at |-> "loading", of |-> 0] ELSE o

Held == IF statsRx = 0 THEN "none" ELSE asks[statsRx].at

(* drain and apply.                                                        *)
OverviewDrained ==
    CASE Held = "answered" -> [at |-> "ready", of |-> asks[statsRx].of]
      [] Held = "failed" -> [at |-> "failed", of |-> 0]
      [] OTHER -> overview

StatsTick ==
    LET over == Held \in {"answered", "failed"}
        first == ~(statsLoaded \/ over) /\ Held # "asked"
    IN  /\ \/ /\ first          \* in front for the first time
              /\ StartLoad(window)
              /\ overview' = StatsBegun(OverviewDrained)
           \/ /\ overview' = OverviewDrained
              /\ statsRx' = IF Held = "asked" THEN statsRx ELSE 0
              /\ UNCHANGED <<asks, made>>
        /\ statsLoaded' = (statsLoaded \/ over)
        /\ UNCHANGED window

StatsRefresh ==
    /\ statsRx = 0
    /\ StartLoad(window)
    /\ overview' = StatsBegun(overview)
    /\ UNCHANGED <<window, statsLoaded>>

CycleWindow ==
    /\ window' = 1 + (window % Windows)
    /\ StartLoad(window')
    /\ overview' = StatsBegun(overview)
    /\ UNCHANGED statsLoaded

StatsNext == AskEnds \/ StatsTick \/ StatsRefresh \/ CycleWindow

StatsSpec == StatsInit /\ [][StatsNext]_statsVars

----------------------------------------------------------------------------
(* stats.rs: "the most recently requested window always wins": whatever    *)
(* order the answers come in, one that is shown is for the window that is  *)
(* selected.                                                               *)
LatestWindowWins ==
    [][overview' # overview /\ overview'.at = "ready" => overview'.of = window']_statsVars
=============================================================================
