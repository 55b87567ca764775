------------------------------ MODULE AuditLog -------------------------------
(***************************************************************************)
(* The audit log of tbo-tui's data/audit.rs: entries page by page, newest  *)
(* first, under a filter that the operator cycles through.                 *)
(*                                                                         *)
(* An entry is the number of its record; its action belongs to one of the  *)
(* families 1..Families in turn. Filter 0 is "all actions", filter f is    *)
(* family f: FILTERS is longer and has prefixes of prefixes, which no      *)
(* property tells apart. A cursor is the oldest entry a page has shown.    *)
(***************************************************************************)
EXTENDS Integers, Sequences, FiniteSets, FiniteSetsExt

CONSTANTS
    Families,       \* filters besides "all actions"
    AuditPage,      \* PAGE_LIMIT
    MaxTrail        \* bound: entries ever recorded

ASSUME AuditAssumption == {Families, AuditPage, MaxTrail} \subseteq Nat \ {0}

VARIABLES
    trail,          \* the number of entries the server has recorded
    entries,        \* `list`: newest first, as a set of entries
    auditRow,       \* `selected`, 1-based
    filter,
    nextCursor,     \* 0 when there is none
    loadingMore,
    auditLoad,      \* the load whose channel is held, with its filter
    auditLoaded,    \* `loaded`
    misled          \* history: see AuditHonest

auditVars == <<trail, entries, auditRow, filter, nextCursor, loadingMore,
               auditLoad, auditLoaded, misled>>

Entries == 1..MaxTrail
Filters == 0..Families
Family(e) == 1 + (e % Families)
Matches(e, f) == f = 0 \/ Family(e) = f

EntryLists == [at: {"idle", "loading", "ready", "failed"}, rows: SUBSET Entries]
NoEntries(at) == [at |-> at, rows |-> {}]
AuditLoads == [at: {"none", "asked", "answered", "failed", "dead"}, of: Filters,
               after: 0..MaxTrail, rows: SUBSET Entries, next: 0..MaxTrail]
NoAuditLoad == [at |-> "none", of |-> 0, after |-> 0, rows |-> {}, next |-> 0]

AuditTypeOK ==
    /\ trail \in 0..MaxTrail
    /\ entries \in EntryLists
    /\ auditRow \in 1..MaxTrail
    /\ filter \in Filters
    /\ nextCursor \in 0..MaxTrail
    /\ loadingMore \in BOOLEAN
    /\ auditLoad \in AuditLoads
    /\ auditLoaded \in BOOLEAN
    /\ misled \in BOOLEAN

AuditInit ==
    /\ trail = MaxTrail - 1
    /\ entries = NoEntries("idle")
    /\ auditRow = 1
    /\ filter = 0
    /\ nextCursor = 0
    /\ loadingMore = FALSE
    /\ auditLoad = NoAuditLoad
    /\ auditLoaded = FALSE
    /\ misled = FALSE

----------------------------------------------------------------------------
(* The server: GET /v1/admin/audit-logs with an action, a cursor, a limit. *)

Recorded ==
    /\ trail < MaxTrail
    /\ trail' = trail + 1
    /\ UNCHANGED <<entries, auditRow, filter, nextCursor, loadingMore, auditLoad,
                   auditLoaded, misled>>

Hits(f, after) == {e \in 1..trail : Matches(e, f) /\ (after = 0 \/ e < after)}

Newer(e, S) == {s \in S : s > e}
FirstPage(S) == {e \in S : Cardinality(Newer(e, S)) < AuditPage}

AuditAnswered ==
    LET hits == Hits(auditLoad.of, auditLoad.after)
        rows == FirstPage(hits)
    IN  /\ auditLoad.at = "asked"
        /\ auditLoad' = [auditLoad EXCEPT !.at = "answered", !.rows = rows,
                            !.next = IF rows = hits THEN 0 ELSE Min(rows)]
        /\ UNCHANGED <<trail, entries, auditRow, filter, nextCursor, loadingMore,
                       auditLoaded, misled>>

AuditFails ==
    /\ auditLoad.at = "asked"
    /\ \E at \in {"failed", "dead"} : auditLoad' = [auditLoad EXCEPT !.at = at]
    /\ UNCHANGED <<trail, entries, auditRow, filter, nextCursor, loadingMore,
                   auditLoaded, misled>>

----------------------------------------------------------------------------
(* load(false), with the filter f, for a controller without a load.        *)
FirstAsked(f) == [NoAuditLoad EXCEPT !.at = "asked", !.of = f]

AuditBegun(l) == IF l.at \in {"idle", "failed"} THEN NoEntries("loading") ELSE l

JoinedAlways ==         \* a slip: every answer is appended
    [at |-> "ready",
     rows |-> auditLoad.rows \cup (IF entries.at = "ready" THEN entries.rows ELSE {})]

(* A list's rows in the place of, or after, those that are there.          *)
Joined ==
    [at |-> "ready",
     rows |-> auditLoad.rows \cup (IF loadingMore /\ entries.at = "ready"
                                   THEN entries.rows ELSE {})]

AuditDrained ==
    CASE auditLoad.at = "answered" -> Joined
      [] auditLoad.at = "failed" -> NoEntries("failed")
      [] OTHER -> entries

AuditTick ==
    LET applied == auditLoad.at \in {"answered", "failed"}
        free == auditLoad.at # "asked"
    IN  \E focused \in BOOLEAN :
        LET first == focused /\ free /\ ~(auditLoaded \/ applied) IN
        /\ entries' = IF first THEN AuditBegun(AuditDrained) ELSE AuditDrained
        /\ auditLoad' = IF first THEN FirstAsked(filter)
                        ELSE IF free THEN NoAuditLoad ELSE auditLoad
        /\ loadingMore' = (loadingMore /\ ~applied /\ ~first)
        /\ auditLoaded' = (auditLoaded \/ applied)
        /\ nextCursor' = IF auditLoad.at = "answered" THEN auditLoad.next ELSE nextCursor
        /\ auditRow' = IF auditLoad.at = "answered"
                       THEN Min({auditRow, Max({1, Cardinality(Joined.rows)})})
                       ELSE auditRow
        /\ misled' = IF first THEN FALSE
                     ELSE \/ misled
                          \/ auditLoad.at = "dead"
                          \/ auditLoad.at = "answered" /\ loadingMore
                             /\ entries.at # "ready"
        /\ UNCHANGED <<trail, filter>>

(* refresh: the cursor goes at once, the load only if there is none.       *)
Reload(f) ==
    /\ nextCursor' = 0
    /\ IF auditLoad.at = "none"
       THEN /\ auditLoad' = FirstAsked(f)
            /\ loadingMore' = FALSE
            /\ entries' = AuditBegun(entries)
            /\ misled' = FALSE
       ELSE /\ misled' = (misled \/ f # filter)
            /\ UNCHANGED <<auditLoad, loadingMore, entries>>
    /\ UNCHANGED <<trail, auditLoaded>>

AuditRefresh == Reload(filter) /\ UNCHANGED <<auditRow, filter>>

CycleFilter ==
    /\ filter' = (filter + 1) % (Families + 1)
    /\ auditRow' = 1
    /\ Reload(filter')

LoadMore ==
    /\ nextCursor # 0
    /\ auditLoad.at = "none"
    /\ auditLoad' = [FirstAsked(filter) EXCEPT !.after = nextCursor]
    /\ loadingMore' = TRUE
    /\ UNCHANGED <<trail, entries, auditRow, filter, nextCursor, auditLoaded, misled>>

AuditSelect ==
    /\ \/ entries.at = "ready" /\ auditRow < Cardinality(entries.rows)
          /\ auditRow' = auditRow + 1
       \/ auditRow > 1 /\ auditRow' = auditRow - 1
    /\ UNCHANGED <<trail, entries, filter, nextCursor, loadingMore, auditLoad,
                   auditLoaded, misled>>

AuditNext ==
    \/ Recorded \/ AuditAnswered \/ AuditFails
    \/ AuditTick \/ AuditRefresh \/ CycleFilter \/ LoadMore \/ AuditSelect

AuditSpec == AuditInit /\ [][AuditNext]_auditVars

----------------------------------------------------------------------------
(* What is shown is what the filter on the screen selects, from some entry *)
(* on down to another without a gap, and the cursor is where it ends.      *)
(* Three things can mislead it until the next reload: a filter changed     *)
(* while a load is under way (its own load is dropped), a load that died,  *)
(* and "load more" after a failed one, which brings an older page alone.   *)
Settled == entries.at = "ready" /\ auditLoad.at = "none" /\ entries.rows # {}

AuditHonest ==
    Settled /\ ~misled =>
      /\ entries.rows = {e \in Min(entries.rows)..Max(entries.rows) : Matches(e, filter)}
      /\ nextCursor \in {0, Min(entries.rows)}

(* audit.rs: cycle_filter is to "move to the next action filter and reload *)
(* from the first page": what is shown belongs to the filter on the screen *)
(* once no load is under way.                                              *)
AuditMatchesFilter ==
    Settled => \A e \in entries.rows : Matches(e, filter)
=============================================================================
