------------------------------ MODULE EventFeed ------------------------------
(***************************************************************************)
(* The event log of tbo-tui's data/events.rs: a page of the newest events, *)
(* loaded on demand, and a live tail that merges events as they happen.    *)
(*                                                                         *)
(* An event is the number of its occurrence: event n is newer than event   *)
(* n - 1. The server answers a load with a page of the newest events and   *)
(* streams every event that occurs after the tail was opened, in order but *)
(* with delay.                                                             *)
(***************************************************************************)
EXTENDS Integers, SequencesExt

CONSTANTS
    PageLimit,      \* PAGE_LIMIT
    MaxEvents,      \* MAX_EVENTS
    MaxLag,         \* bound: how far the tail may fall behind the log
    MaxLog          \* bound: events that occur

ASSUME EventsAssumption ==
    /\ {PageLimit, MaxEvents, MaxLag, MaxLog} \subseteq Nat \ {0}
    /\ PageLimit <= MaxEvents
    /\ MaxLag <= PageLimit

VARIABLES
    log,            \* the number of events that occurred
    feed,           \* `state`: the list, newest event first
    row,            \* `selected`, 1-based
    fetched,        \* `loaded`
    page,           \* the load whose channel is held
    following,      \* the live tail is on
    tail,           \* the tail's task
    seen, pipe      \* the last event it was sent, and its channel

eventsVars == <<log, feed, row, fetched, page, following, tail, seen, pipe>>

Ids == 1..MaxLog

Feeds == [at: {"idle", "loading", "ready", "failed"}, items: Seq(Ids)]
NoItems(at) == [at |-> at, items |-> <<>>]
Pages == [at: {"none", "asked", "served", "answered", "failed", "dead"}, items: Seq(Ids)]
Tails == {"none", "opening", "open", "over"}

EventsTypeOK ==
    /\ log \in 0..MaxLog
    /\ feed \in Feeds /\ Len(feed.items) <= MaxEvents
    /\ row \in 1..MaxEvents
    /\ fetched \in BOOLEAN
    /\ page \in Pages /\ Len(page.items) <= PageLimit
    /\ following \in BOOLEAN
    /\ tail \in Tails
    /\ seen \in 0..MaxLog
    /\ pipe \in Seq(Ids)

EventsInit ==
    /\ log = 1
    /\ feed = NoItems("idle")
    /\ row = 1
    /\ fetched = FALSE
    /\ page = NoItems("none")
    /\ following = FALSE
    /\ tail = "none"
    /\ seen = 0
    /\ pipe = <<>>

----------------------------------------------------------------------------
(* The server and the tasks that talk to it.                               *)

NewestFirst(n) == [k \in 1..n |-> n + 1 - k]
CutNever(items, n) == items     \* a slip: the list grows without bound
Cut(items, n) == SubSeq(items, 1, IF Len(items) < n THEN Len(items) ELSE n)

(* The oldest event that has still to reach the list.                      *)
OldestPending == IF pipe # <<>> THEN pipe[1] ELSE seen + 1

Occur ==
    /\ log < MaxLog
    /\ tail = "open" \/ pipe # <<>> => log + 1 - OldestPending < MaxLag
    /\ log' = log + 1
    /\ UNCHANGED <<feed, row, fetched, page, following, tail, seen, pipe>>

(* The server writes a page; newer events may come before it is here.      *)
PageServed ==
    /\ page.at = "asked"
    /\ page' = [at |-> "served", items |-> Cut(NewestFirst(log), PageLimit)]
    /\ UNCHANGED <<log, feed, row, fetched, following, tail, seen, pipe>>

PageEnds ==
    /\ page.at \in {"asked", "served"}
    /\ \/ page.at = "served" /\ page' = [page EXCEPT !.at = "answered"]
       \/ page' \in {NoItems("failed"), NoItems("dead")}
    /\ UNCHANGED <<log, feed, row, fetched, following, tail, seen, pipe>>

(* The tail's task opens the stream, forwards what it is sent, and ends    *)
(* with an error or when the server closes the stream.                     *)
TailOpens ==
    /\ tail = "opening"
    /\ tail' = "open"
    /\ seen' = log
    /\ UNCHANGED <<log, feed, row, fetched, page, following, pipe>>

TailForwards ==
    /\ tail = "open"
    /\ seen < log
    /\ seen' = seen + 1
    /\ pipe' = Append(pipe, seen + 1)
    /\ UNCHANGED <<log, feed, row, fetched, page, following, tail>>

TailEnds ==
    /\ tail \in {"opening", "open"}
    /\ tail' = "over"
    /\ UNCHANGED <<log, feed, row, fetched, page, following, seen, pipe>>

----------------------------------------------------------------------------
(* The controller. A view is what the list shows: state, selection, loaded.*)

(* apply, by way of drain.                                                 *)
PageApplied ==
    [feed |-> CASE page.at = "answered" -> [page EXCEPT !.at = "ready"]
                [] page.at = "failed" -> NoItems("failed")
                [] OTHER -> feed,
     row |-> IF page.at = "answered" /\ row > Len(page.items)
             THEN (IF page.items = <<>> THEN 1 ELSE Len(page.items)) ELSE row,
     fetched |-> fetched \/ page.at \in {"answered", "failed"}]

MergeAnyway(v, e) ==            \* a slip: the selection stays where it is
    IF v.feed.at # "ready"
    THEN [feed |-> [at |-> "ready", items |-> <<e>>], row |-> 1, fetched |-> TRUE]
    ELSE IF e \in Range(v.feed.items) THEN v
    ELSE [v EXCEPT !.feed.items = Cut(<<e>> \o @, MaxEvents)]

MergeTwice(v, e) ==             \* a slip: what the page brought is not looked at
    IF v.feed.at # "ready"
    THEN [feed |-> [at |-> "ready", items |-> <<e>>], row |-> 1, fetched |-> TRUE]
    ELSE LET merged == Cut(<<e>> \o v.feed.items, MaxEvents) IN
         [v EXCEPT !.feed.items = merged,
                   !.row = IF @ = 1 THEN 1 ELSE IF @ < Len(merged) THEN @ + 1
                           ELSE Len(merged)]

(* merge_live: a highlighted row stays on its event, unless it is the top. *)
Merge(v, e) ==
    IF v.feed.at # "ready"
    THEN [feed |-> [at |-> "ready", items |-> <<e>>], row |-> 1, fetched |-> TRUE]
    ELSE IF e \in Range(v.feed.items) THEN v
    ELSE LET merged == Cut(<<e>> \o v.feed.items, MaxEvents) IN
         [v EXCEPT !.feed.items = merged,
                   !.row = IF @ = 1 THEN 1 ELSE IF @ < Len(merged) THEN @ + 1
                           ELSE Len(merged)]

(* drain, drain_stream, and the load of the first focused tick.            *)
Drained == FoldLeft(Merge, PageApplied, pipe)

EventsBegun(f) == IF f.at \in {"idle", "failed"} THEN NoItems("loading") ELSE f

Loading == page.at \in {"asked", "served"}
FirstLoad(focused) == focused /\ ~Drained.fetched /\ ~Loading

StaysOn ==              \* a slip: a tail that is over is not noticed
    UNCHANGED <<following, tail>>

StopsIfOver ==
    IF tail = "over" THEN following' = FALSE /\ tail' = "none"
    ELSE UNCHANGED <<following, tail>>

EventsTick ==
    /\ \E focused \in BOOLEAN :
         /\ feed' = IF FirstLoad(focused) THEN EventsBegun(Drained.feed) ELSE Drained.feed
         /\ page' = IF FirstLoad(focused) THEN NoItems("asked")
                    ELSE IF Loading THEN page ELSE NoItems("none")
    /\ row' = Drained.row
    /\ fetched' = Drained.fetched
    /\ pipe' = <<>>
    /\ StopsIfOver
    /\ UNCHANGED <<log, seen>>

EventsRefresh ==
    /\ page.at = "none"
    /\ page' = NoItems("asked")
    /\ feed' = EventsBegun(feed)
    /\ UNCHANGED <<log, row, fetched, following, tail, seen, pipe>>

EventsSelect ==
    /\ \/ feed.at = "ready" /\ row < Len(feed.items) /\ row' = row + 1
       \/ row > 1 /\ row' = row - 1
    /\ UNCHANGED <<log, feed, fetched, page, following, tail, seen, pipe>>

(* toggle_follow: a tail that is switched off is aborted, its channel gone.*)
ToggleFollow ==
    /\ following' = ~following
    /\ tail' = IF following THEN "none" ELSE "opening"
    /\ seen' = 0
    /\ pipe' = <<>>
    /\ UNCHANGED <<log, feed, row, fetched, page>>

EventsNext ==
    \/ Occur \/ PageServed \/ PageEnds \/ TailOpens \/ TailForwards \/ TailEnds
    \/ EventsTick \/ EventsRefresh \/ EventsSelect \/ ToggleFollow

EventsSpec == EventsInit /\ [][EventsNext]_eventsVars

----------------------------------------------------------------------------
(* Pages and live events make one list without gaps in its order: newest   *)
(* first, nothing twice, although the page may hold events that are still  *)
(* on their way through the tail (merge_live). A tail that falls behind by *)
(* more than a page is outside this promise: hence MaxLag.                 *)
FeedInOrder ==
    \A i, j \in DOMAIN feed.items : i < j => feed.items[i] > feed.items[j]

(* events.rs: "Keep the highlighted row on the same event as new ones      *)
(* arrive, but let a top selection ride the newest event." An event that   *)
(* is cut off at the end of the list is the exception.                     *)
LiveStep ==
    /\ feed.at = "ready" /\ row <= Len(feed.items)
    /\ page.at \notin {"answered", "failed"}
    /\ feed' # feed

HighlightKept ==
    [][LiveStep =>
         IF row = 1 THEN row' = 1
         ELSE \/ feed'.items[row'] = feed.items[row]
              \/ feed.items[row] \notin Range(feed'.items)]_eventsVars

(* Following ends with its stream: the screen does not claim to follow a   *)
(* tail whose connection is gone (drain_stream, stop_follow).              *)
FollowEndsWithTail == following /\ tail = "over" ~> ~(following /\ tail = "over")
=============================================================================
