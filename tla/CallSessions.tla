---------------------------- MODULE CallSessions -----------------------------
(***************************************************************************)
(* The call sessions of tbo-tui's data/sessions.rs: a list, and the        *)
(* timeline of the selected session, fetched by every tick that finds the  *)
(* pane out of step with the selection.                                    *)
(*                                                                         *)
(* Sessions are numbered in the order they began and listed newest first,  *)
(* so that a list is given by the set of its sessions.                     *)
(***************************************************************************)
EXTENDS Integers, FiniteSets, FiniteSetsExt

CONSTANT MaxCalls       \* bound: sessions that begin

ASSUME CallsAssumption == MaxCalls \in Nat \ {0}

VARIABLES
    calls,              \* the sessions the server knows: 1..calls
    callsFront,         \* the Sessions screen is in front
    callList, callRow,  \* `list` and `selected`, 1-based
    callsLoaded,
    callLoad,           \* the list load whose channel is held
    detail, detailFor,  \* the pane, and the session it is meant for
    detailLoad          \* the timeline fetch whose channel is held

callsVars == <<calls, callsFront, callList, callRow, callsLoaded, callLoad,
               detail, detailFor, detailLoad>>

Calls == 1..MaxCalls
NoCall == 0

CallLists == [at: {"idle", "loading", "ready", "failed"}, rows: SUBSET Calls]
CallLoads == [at: {"none", "asked", "answered", "failed", "dead"}, rows: SUBSET Calls]
NoCalls(at) == [at |-> at, rows |-> {}]

Details == [at: {"idle", "loading", "ready", "failed"}, of: Calls \cup {NoCall}]
Fetches == [at: {"none", "asked", "answered", "failed", "dead"}, of: Calls \cup {NoCall}]
Nothing(at) == [at |-> at, of |-> NoCall]

CallsTypeOK ==
    /\ calls \in 0..MaxCalls
    /\ callsFront \in BOOLEAN
    /\ callList \in CallLists
    /\ callRow \in 1..MaxCalls
    /\ callsLoaded \in BOOLEAN
    /\ callLoad \in CallLoads
    /\ detail \in Details
    /\ detailFor \in Calls \cup {NoCall}
    /\ detailLoad \in Fetches

CallsInit ==
    /\ calls = 1
    /\ callsFront = FALSE
    /\ callList = NoCalls("idle")
    /\ callRow = 1
    /\ callsLoaded = FALSE
    /\ callLoad = NoCalls("none")
    /\ detail = Nothing("idle")
    /\ detailFor = NoCall
    /\ detailLoad = Nothing("none")

----------------------------------------------------------------------------
CallBegins ==
    /\ calls < MaxCalls
    /\ calls' = calls + 1
    /\ UNCHANGED <<callsFront, callList, callRow, callsLoaded, callLoad, detail,
                   detailFor, detailLoad>>

CallLoadEnds ==
    /\ callLoad.at = "asked"
    /\ callLoad' \in {[at |-> "answered", rows |-> 1..calls], NoCalls("failed"),
                      NoCalls("dead")}
    /\ UNCHANGED <<calls, callsFront, callList, callRow, callsLoaded, detail,
                   detailFor, detailLoad>>

DetailFetched ==
    /\ detailLoad.at = "asked"
    /\ \E at \in {"answered", "failed", "dead"} :
         detailLoad' = [detailLoad EXCEPT !.at = at]
    /\ UNCHANGED <<calls, callsFront, callList, callRow, callsLoaded, callLoad,
                   detail, detailFor>>

----------------------------------------------------------------------------
(* selected_session of a list l whose selection is row k.                  *)
CallAt(l, k) ==
    IF l.at = "ready" /\ \E c \in l.rows : Cardinality({d \in l.rows : d > c}) + 1 = k
    THEN CHOOSE c \in l.rows : Cardinality({d \in l.rows : d > c}) + 1 = k
    ELSE NoCall

CallsBegun(l) == IF l.at \in {"idle", "failed"} THEN NoCalls("loading") ELSE l

(* drain_list and apply_list.                                              *)
CallsDrained ==
    CASE callLoad.at = "answered" -> [callLoad EXCEPT !.at = "ready"]
      [] callLoad.at = "failed" -> NoCalls("failed")
      [] OTHER -> callList

(* drain_detail and apply_detail: a fetch that died is a failure.          *)
DetailDrained ==
    CASE detailLoad.at = "answered" -> [detailLoad EXCEPT !.at = "ready"]
      [] detailLoad.at \in {"failed", "dead"} -> Nothing("failed")
      [] OTHER -> detail

(* A timeline may be asked for: none is on its way.                        *)
DetailFree == detailLoad.at # "asked"

LabelOnly(c) ==         \* a slip: the label moves on although a fetch is under way
    IF c # NoCall /\ detailFor # c
    THEN /\ detailFor' = c
         /\ detail' = IF DetailFree THEN Nothing("loading") ELSE detail
         /\ detailLoad' = IF DetailFree THEN [at |-> "asked", of |-> c] ELSE detailLoad
    ELSE /\ detail' = DetailDrained
         /\ detailLoad' = IF DetailFree THEN Nothing("none") ELSE detailLoad
         /\ UNCHANGED detailFor

(* sync_detail, after the channels were drained.                           *)
SyncDetail(c) ==
    IF c # NoCall /\ DetailFree /\ detailFor # c
    THEN /\ detailFor' = c
         /\ detail' = Nothing("loading")
         /\ detailLoad' = [at |-> "asked", of |-> c]
    ELSE /\ detail' = DetailDrained
         /\ detailLoad' = IF DetailFree THEN Nothing("none") ELSE detailLoad
         /\ UNCHANGED detailFor

CallsTick ==
    LET applied == callLoad.at \in {"answered", "failed"}
        first == callsFront /\ ~(callsLoaded \/ applied) /\ callLoad.at # "asked"
    IN  /\ callList' = IF first THEN CallsBegun(CallsDrained) ELSE CallsDrained
        /\ callRow' = IF callLoad.at = "answered"
                      THEN Min({callRow, Max({1, Cardinality(callLoad.rows)})})
                      ELSE callRow
        /\ callLoad' = IF first THEN NoCalls("asked")
                       ELSE IF callLoad.at = "asked" THEN callLoad ELSE NoCalls("none")
        /\ callsLoaded' = (callsLoaded \/ applied)
        /\ SyncDetail(IF callsFront THEN CallAt(callList', callRow') ELSE NoCall)
        /\ UNCHANGED <<calls, callsFront>>

CallsRefresh ==
    /\ callsFront
    /\ IF callLoad.at = "none"
       THEN callLoad' = NoCalls("asked") /\ callList' = CallsBegun(callList)
       ELSE UNCHANGED <<callLoad, callList>>
    /\ detailFor' = NoCall
    /\ UNCHANGED <<calls, callsFront, callRow, callsLoaded, detail, detailLoad>>

CallsSelect ==
    /\ callsFront
    /\ \/ callList.at = "ready" /\ callRow < Cardinality(callList.rows)
          /\ callRow' = callRow + 1
       \/ callRow > 1 /\ callRow' = callRow - 1
    /\ UNCHANGED <<calls, callsFront, callList, callsLoaded, callLoad, detail,
                   detailFor, detailLoad>>

CallsNavigate ==
    /\ callsFront' = ~callsFront
    /\ UNCHANGED <<calls, callList, callRow, callsLoaded, callLoad, detail,
                   detailFor, detailLoad>>

CallsNext ==
    \/ CallBegins \/ CallLoadEnds \/ DetailFetched
    \/ CallsTick \/ CallsRefresh \/ CallsSelect \/ CallsNavigate

CallsSpec == CallsInit /\ [][CallsNext]_callsVars

----------------------------------------------------------------------------
(* After every tick in front, the timeline on the pane is that of the      *)
(* session that is selected, although the selection moved, or a reload     *)
(* renumbered the rows, while an earlier timeline was on its way           *)
(* (sync_detail). A failed reload leaves the pane as it is: no session is  *)
(* selected then.                                                          *)
PaneInStep ==
    [][CallsTick /\ callsFront =>
         LET c == CallAt(callList', callRow') IN
         detail'.at = "ready" /\ c # NoCall => detail'.of = c]_callsVars
=============================================================================
