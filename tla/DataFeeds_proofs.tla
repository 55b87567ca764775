-------------------------- MODULE DataFeeds_proofs ---------------------------
(***************************************************************************)
(* Theorems about the controllers that only read: EventFeed, AuditLog,     *)
(* CallSessions, StatsView, BoothStatus and Playback, for any number of    *)
(* events, entries, sessions, windows, heartbeats and commands. A part has *)
(* its module's invariants and ends with its theorems.                     *)
(***************************************************************************)
EXTENDS EventFeed, AuditLog, CallSessions, StatsView, BoothStatus, Playback,
        SequenceTheorems, Induction

------------------------------------------------------------------------------
(* EventFeed: the list in order, page and tail together.                   *)

(* The events from e on to the list's first are all in the list.           *)
Covers(items, e) ==
    \A d \in Int : items # <<>> /\ e <= d /\ d <= items[1] =>
                     \E i \in DOMAIN items : items[i] = d

InOrder(items) == \A i, j \in DOMAIN items : i < j => items[i] > items[j]

Known(items) == \A i \in DOMAIN items : items[i] <= log

TailPending == tail = "open" \/ pipe # <<>>

(* The tail forwards one event after the other: what is in its channel     *)
(* ends with the event that it was sent last.                              *)
TailInOrder ==
    /\ Len(pipe) <= seen /\ seen <= log
    /\ \A i \in DOMAIN pipe : pipe[i] = seen - Len(pipe) + i
    /\ tail = "opening" => pipe = <<>>

(* The first event that is still to come through the tail.                 *)
NextLive == seen - Len(pipe) + 1

ListsInOrder ==
    /\ InOrder(feed.items) /\ InOrder(page.items)
    /\ Known(feed.items) /\ Known(page.items)
    /\ feed.at # "ready" => feed.items = <<>>

PagesReachTail ==
    TailPending => /\ log - NextLive < MaxLag
               /\ Covers(feed.items, NextLive)
               /\ Covers(page.items, NextLive)

FeedInv == EventsTypeOK /\ TailInOrder /\ ListsInOrder /\ PagesReachTail

----------------------------------------------------------------------------
LEMMA EventNumbers ==
    /\ PageLimit \in Nat /\ PageLimit >= 1 /\ MaxEvents \in Nat /\ MaxEvents >= 1
    /\ MaxLag \in Nat /\ MaxLag >= 1 /\ MaxLog \in Nat /\ MaxLog >= 1
    /\ PageLimit <= MaxEvents /\ MaxLag <= PageLimit
  BY EventsAssumption

LEMMA NumberList ==
    ASSUME NEW items \in Seq(Ids)
    PROVE  /\ Len(items) \in Nat /\ DOMAIN items = 1..Len(items)
           /\ \A i \in DOMAIN items : items[i] \in Int /\ items[i] \in Ids
           /\ items # <<>> => 1 \in DOMAIN items
  <1>1. Len(items) \in Nat /\ DOMAIN items = 1..Len(items)
    BY LenProperties
  <1>2. \A i \in DOMAIN items : items[i] \in Ids
    BY <1>1, ElementOfSeq
  <1>3. \A e \in Ids : e \in Int
    BY EventNumbers DEF Ids
  <1>4. items # <<>> => Len(items) >= 1
    BY <1>1, EmptySeq
  <1> QED
    BY <1>1, <1>2, <1>3, <1>4

LEMMA CutFacts ==
    ASSUME NEW S, NEW items \in Seq(S), NEW n \in Nat
    PROVE  /\ Cut(items, n) \in Seq(S)
           /\ Len(Cut(items, n)) = IF Len(items) < n THEN Len(items) ELSE n
           /\ \A i \in 1..Len(Cut(items, n)) : Cut(items, n)[i] = items[i]
  <1> DEFINE m == IF Len(items) < n THEN Len(items) ELSE n
  <1>1. Len(items) \in Nat /\ m \in Nat /\ m <= Len(items)
    BY LenProperties
  <1>2. \A i \in 1..m : items[i] \in S
    BY <1>1, ElementOfSeq
  <1>3. Cut(items, n) = SubSeq(items, 1, m)
    BY DEF Cut
  <1> HIDE DEF m
  <1>4. /\ SubSeq(items, 1, m) \in Seq(S)
        /\ Len(SubSeq(items, 1, m)) = IF 1 <= m THEN m - 1 + 1 ELSE 0
        /\ \A i \in 1..(m - 1 + 1) : SubSeq(items, 1, m)[i] = items[1 + i - 1]
    BY <1>1, <1>2, SubSeqProperties
  <1>5. Len(SubSeq(items, 1, m)) = m
    BY <1>1, <1>4
  <1>6. \A i \in 1..m : SubSeq(items, 1, m)[i] = items[i]
    BY <1>1, <1>4
  <1> QED
    BY <1>3, <1>4, <1>5, <1>6 DEF m

(* An event on top of a list that is cut.                                  *)
Topped(items, e) == Cut(<<e>> \o items, MaxEvents)

LEMMA ToppedFacts ==
    ASSUME NEW S, NEW items \in Seq(S), NEW e \in S
    PROVE  /\ Topped(items, e) \in Seq(S)
           /\ Len(Topped(items, e)) = IF Len(items) < MaxEvents THEN Len(items) + 1 ELSE MaxEvents
           /\ Topped(items, e)[1] = e
           /\ \A i \in 2..Len(Topped(items, e)) : i - 1 \in DOMAIN items /\ Topped(items, e)[i] = items[i - 1]
           /\ DOMAIN Topped(items, e) = 1..Len(Topped(items, e))
           /\ Topped(items, e) # <<>>
  <1> DEFINE all == <<e>> \o items
  <1>0. <<e>> \in Seq(S) /\ Len(<<e>>) = 1 /\ <<e>>[1] = e
    OBVIOUS
  <1>1. /\ all \in Seq(S) /\ Len(all) = 1 + Len(items)
        /\ \A i \in 1..(1 + Len(items)) : all[i] = IF i <= 1 THEN <<e>>[i] ELSE items[i - 1]
    BY <1>0, ConcatProperties
  <1>2. Len(items) \in Nat /\ DOMAIN items = 1..Len(items)
    BY LenProperties
  <1> HIDE DEF all
  <1>3. /\ Topped(items, e) \in Seq(S)
        /\ Len(Topped(items, e)) = IF Len(all) < MaxEvents THEN Len(all) ELSE MaxEvents
        /\ \A i \in 1..Len(Topped(items, e)) : Topped(items, e)[i] = all[i]
    BY <1>1, CutFacts, EventNumbers DEF Topped, all
  <1>4. Len(Topped(items, e)) \in Nat /\ Len(Topped(items, e)) >= 1
    BY <1>1, <1>2, <1>3, EventNumbers
  <1>5. DOMAIN Topped(items, e) = 1..Len(Topped(items, e))
    BY <1>3, LenProperties
  <1>6. Topped(items, e)[1] = e
    BY <1>0, <1>1, <1>2, <1>3, <1>4
  <1>7. \A i \in 2..Len(Topped(items, e)) : i - 1 \in DOMAIN items /\ Topped(items, e)[i] = items[i - 1]
    BY <1>1, <1>2, <1>3, <1>4
  <1>8. Topped(items, e) # <<>>
    BY <1>4
  <1> QED
    BY <1>1, <1>2, <1>3, <1>5, <1>6, <1>7, <1>8, EventNumbers

----------------------------------------------------------------------------
(* What draining makes of the list, one event after the other.             *)
Views == {v \in [feed : Feeds, row : 1..MaxEvents, fetched : BOOLEAN] :
            Len(v.feed.items) <= MaxEvents}

(* A view before the event e is merged into it.                            *)
Waits(e) ==
    {v \in Views : /\ InOrder(v.feed.items) /\ Known(v.feed.items)
                   /\ Covers(v.feed.items, e)
                   /\ v.feed.at # "ready" => v.feed.items = <<>>}

LEMMA OneEvent ==
    ASSUME NEW e \in Ids
    PROVE  /\ <<e>> \in Seq(Ids) /\ Len(<<e>>) = 1 /\ <<e>>[1] = e /\ DOMAIN <<e>> = {1}
           /\ InOrder(<<e>>) /\ Covers(<<e>>, e + 1)
  <1>1. /\ <<e>> \in Seq(Ids) /\ Len(<<e>>) = 1 /\ <<e>>[1] = e /\ DOMAIN <<e>> = {1}
    OBVIOUS
  <1>2. InOrder(<<e>>)
    BY <1>1 DEF InOrder
  <1>3. Covers(<<e>>, e + 1)
    BY <1>1 DEF Covers, Ids
  <1> QED
    BY <1>1, <1>2, <1>3

LEMMA OnTop ==
    ASSUME NEW items \in Seq(Ids), InOrder(items), Known(items), NEW e \in Ids,
           Covers(items, e), e \notin Range(items), log \in Int, e <= log
    PROVE  /\ InOrder(Topped(items, e)) /\ Known(Topped(items, e))
           /\ Covers(Topped(items, e), e + 1)
           /\ items # <<>> => items[1] < e
  <1> DEFINE top == Topped(items, e)
  <1>1. items # <<>> => 1 \in DOMAIN items /\ items[1] \in Int
    BY NumberList
  <1>2. e \in Int /\ \A i \in DOMAIN items : items[i] # e
    BY EventNumbers DEF Range, Ids
  <1>3. items # <<>> => items[1] < e
    BY <1>1, <1>2 DEF Covers
  <1>4. \A i \in DOMAIN items : items[i] < e
    <2> SUFFICES ASSUME NEW i \in DOMAIN items PROVE items[i] < e
      OBVIOUS
    <2>1. items # <<>> /\ DOMAIN items = 1..Len(items) /\ Len(items) \in Nat /\ i \in 1..Len(items)
      BY LenProperties
    <2>2. items[i] \in Int /\ (i = 1 \/ 1 < i)
      BY <2>1, NumberList
    <2>3. 1 < i => items[1] > items[i]
      BY <1>1, <2>1 DEF InOrder
    <2> QED
      BY <1>1, <1>2, <1>3, <2>1, <2>2, <2>3
  <1>5. /\ top[1] = e /\ DOMAIN top = 1..Len(top) /\ top # <<>>
        /\ \A i \in 2..Len(top) : i - 1 \in DOMAIN items /\ top[i] = items[i - 1]
    BY ToppedFacts
  <1>6. Len(top) \in Nat /\ DOMAIN items \subseteq Nat
    <2>1. top \in Seq(Ids)
      BY ToppedFacts
    <2> HIDE DEF top
    <2> QED
      BY <2>1, NumberList
  <1> HIDE DEF top
  <1>7. InOrder(top)
    <2> SUFFICES ASSUME NEW i \in DOMAIN top, NEW j \in DOMAIN top, i < j
                 PROVE  top[i] > top[j]
      BY DEF InOrder
    <2>1. j \in 2..Len(top) /\ (i = 1 \/ i \in 2..Len(top)) /\ j \in Nat /\ i \in Nat
      BY <1>5, <1>6
    <2>2. j - 1 \in DOMAIN items /\ top[j] = items[j - 1]
      BY <2>1, <1>5
    <2>3. CASE i = 1
      <3>1. items[j - 1] \in Int
        BY <2>2, NumberList
      <3> QED
        BY <2>2, <2>3, <1>4, <1>5, <1>2, <3>1
    <2>4. CASE i \in 2..Len(top)
      <3>1. i - 1 \in DOMAIN items /\ top[i] = items[i - 1] /\ i - 1 < j - 1
        BY <2>1, <2>4, <1>5
      <3> QED
        BY <2>2, <3>1 DEF InOrder
    <2> QED
      BY <2>1, <2>3, <2>4
  <1>8. Known(top)
    <2> SUFFICES ASSUME NEW i \in DOMAIN top PROVE top[i] <= log
      BY DEF Known
    <2>1. i = 1 \/ i \in 2..Len(top)
      BY <1>5, <1>6
    <2> QED
      BY <2>1, <1>5 DEF Known
  <1>9. Covers(top, e + 1)
    BY <1>5, <1>2 DEF Covers
  <1> QED
    BY <1>3, <1>7, <1>8, <1>9 DEF top

LEMMA MergeTypes ==
    ASSUME NEW e \in Ids, NEW v \in Views
    PROVE  Merge(v, e) \in Views
  <1>1. CASE v.feed.at # "ready"
    <2> DEFINE w == [feed |-> [at |-> "ready", items |-> <<e>>], row |-> 1, fetched |-> TRUE]
    <2>1. Merge(v, e) = w
      BY <1>1 DEF Merge
    <2>2. w.feed \in Feeds /\ w.row \in 1..MaxEvents
      BY OneEvent, EventNumbers DEF Feeds
    <2>3. Len(w.feed.items) <= MaxEvents
      BY OneEvent, EventNumbers
    <2> QED
      BY <2>1, <2>2, <2>3 DEF Views
  <1>2. CASE v.feed.at = "ready" /\ e \in Range(v.feed.items)
    BY <1>2 DEF Merge
  <1>3. CASE v.feed.at = "ready" /\ e \notin Range(v.feed.items)
    <2> DEFINE items == v.feed.items
               merged == Topped(items, e)
               row1 == IF v.row = 1 THEN 1 ELSE IF v.row < Len(merged) THEN v.row + 1 ELSE Len(merged)
    <2>1. v \in [feed : Feeds, row : 1..MaxEvents, fetched : BOOLEAN] /\ items \in Seq(Ids)
          /\ Len(items) <= MaxEvents /\ v.feed \in Feeds
      BY DEF Views, Feeds
    <2>2. Merge(v, e) = [v EXCEPT !.feed = [v.feed EXCEPT !.items = merged], !.row = row1]
      BY <1>3, <2>1 DEF Merge, Topped, Feeds
    <2> HIDE DEF items
    <2>3. merged \in Seq(Ids) /\ Len(merged) \in 1..MaxEvents
      <3>1. /\ merged \in Seq(Ids) /\ merged # <<>>
            /\ Len(merged) = IF Len(items) < MaxEvents THEN Len(items) + 1 ELSE MaxEvents
        BY <2>1, ToppedFacts
      <3>2. Len(items) \in Nat
        BY <2>1, NumberList
      <3> QED
        BY <2>1, <3>1, <3>2, EventNumbers
    <2>4. row1 \in 1..MaxEvents
      BY <2>1, <2>3, EventNumbers
    <2> HIDE DEF merged, row1
    <2>5. /\ Merge(v, e) \in [feed : Feeds, row : 1..MaxEvents, fetched : BOOLEAN]
          /\ Merge(v, e).feed.items = merged
      BY <1>3, <2>1, <2>2, <2>3, <2>4 DEF Feeds
    <2> QED
      BY <2>3, <2>5 DEF Views
  <1> QED
    BY <1>1, <1>2, <1>3

LEMMA MergeStep ==
    ASSUME NEW e \in Ids, NEW v \in Waits(e), log \in Int, e <= log
    PROVE  Merge(v, e) \in Waits(e + 1)
  <1>0. v \in Views /\ Merge(v, e) \in Views
    BY MergeTypes DEF Waits
  <1>1. CASE v.feed.at # "ready"
    <2>1. Merge(v, e).feed = [at |-> "ready", items |-> <<e>>]
      BY <1>1 DEF Merge
    <2>2. Known(<<e>>)
      BY OneEvent DEF Known
    <2> QED
      BY <1>0, <2>1, <2>2, OneEvent DEF Waits
  <1>2. CASE v.feed.at = "ready" /\ e \in Range(v.feed.items)
    <2>1. Merge(v, e) = v
      BY <1>2 DEF Merge
    <2>2. Covers(v.feed.items, e + 1)
      BY DEF Waits, Covers, Ids
    <2> QED
      BY <2>1, <2>2 DEF Waits
  <1>3. CASE v.feed.at = "ready" /\ e \notin Range(v.feed.items)
    <2> DEFINE items == v.feed.items
               merged == Topped(items, e)
    <2>1. items \in Seq(Ids) /\ v.feed \in Feeds
      BY <1>0 DEF Views, Feeds
    <2>2. Merge(v, e).feed.items = merged /\ Merge(v, e).feed.at = "ready"
      BY <1>0, <1>3, <2>1 DEF Merge, Topped, Feeds, Views
    <2>3. e \notin Range(items) /\ InOrder(items) /\ Known(items) /\ Covers(items, e)
      BY <1>3 DEF Waits
    <2> HIDE DEF items
    <2>4. InOrder(merged) /\ Known(merged) /\ Covers(merged, e + 1)
      BY <2>1, <2>3, OnTop
    <2> HIDE DEF merged
    <2> QED
      BY <1>0, <2>2, <2>4 DEF Waits
  <1> QED
    BY <1>1, <1>2, <1>3

(* What draining the tail's channel comes to, by steps.                    *)
LEMMA DrainByStep ==
    ASSUME pipe \in Seq(Ids), NEW base \in Views, NEW I, base \in I[0],
           \A k \in 1..Len(pipe) : \A v \in I[k - 1] : Merge(v, pipe[k]) \in I[k]
    PROVE  FoldLeft(Merge, base, pipe) \in I[Len(pipe)]
  <1> DEFINE n == Len(pipe)
             step == [k \in 1..n |-> [v \in Views |-> Merge(v, pipe[k])]]
             Eq(g) == g = [s \in SUBSET DOMAIN pipe |->
                             IF s = {} THEN base ELSE Merge(g[s \ {Max(s)}], pipe[Max(s)])]
             iter == CHOOSE g : Eq(g)
  <1>1. n \in Nat /\ DOMAIN pipe = 1..n /\ \A k \in 1..n : pipe[k] \in Ids
    BY NumberList
  <1>2. step \in [1..n -> [Views -> Views]]
    BY <1>1, MergeTypes
  <1>3. PICK g \in [SUBSET (1..n) -> Views] : Walks(g, n, base, step)
    <2> HIDE DEF step, n
    <2> QED
      BY <1>1, <1>2, WalkExists
  <1>4. Eq(g)
    <2>1. ASSUME NEW s \in SUBSET (1..n), s # {}
          PROVE  step[Max(s)][g[s \ {Max(s)}]] = Merge(g[s \ {Max(s)}], pipe[Max(s)])
      <3>1. Max(s) \in 1..n
        BY <1>1, <2>1, MaxInside
      <3> QED
        BY <3>1
    <2> QED
      BY <1>1, <1>3, <2>1 DEF Walks
  <1>5. Eq(iter)
    BY <1>4
  <1>6. FoldLeft(Merge, base, pipe) = iter[DOMAIN pipe]
    BY DEF FoldLeft, MapThenFoldSet
  <1> DEFINE D == Views \cup {iter[s] : s \in SUBSET (1..n)} \cup UNION {I[k] : k \in 0..n}
             wide == [k \in 1..n |-> [v \in D |-> Merge(v, pipe[k])]]
  <1> HIDE DEF iter
  <1>7. Walks(iter, n, base, wide)
    <2>1. ASSUME NEW s \in SUBSET (1..n), s # {}
          PROVE  wide[Max(s)][iter[s \ {Max(s)}]] = Merge(iter[s \ {Max(s)}], pipe[Max(s)])
      <3>1. Max(s) \in 1..n
        BY <1>1, <2>1, MaxInside
      <3>2. iter[s \ {Max(s)}] \in D
        OBVIOUS
      <3> QED
        BY <3>1, <3>2
    <2> QED
      BY <1>1, <1>5, <2>1 DEF Walks
  <1>8. \A k \in 1..n : \A v \in I[k - 1] : wide[k][v] \in I[k]
    <2> SUFFICES ASSUME NEW k \in 1..n, NEW v \in I[k - 1] PROVE wide[k][v] \in I[k]
      OBVIOUS
    <2>1. k - 1 \in 0..n
      BY <1>1
    <2>2. v \in D
      BY <2>1
    <2> QED
      BY <2>2
  <1> HIDE DEF wide, n
  <1>9. iter[1..n] \in I[n]
    BY <1>1, <1>7, <1>8, WalkInvariant
  <1> QED
    BY <1>1, <1>6, <1>9 DEF n

----------------------------------------------------------------------------
LEMMA Empty ==
    /\ <<>> \in Seq(Ids) /\ Len(<<>>) = 0 /\ DOMAIN <<>> = {}
    /\ InOrder(<<>>) /\ Known(<<>>) /\ \A e : Covers(<<>>, e)
  <1>1. /\ <<>> \in Seq(Ids) /\ Len(<<>>) = 0 /\ DOMAIN <<>> = {}
    OBVIOUS
  <1> QED
    BY <1>1 DEF InOrder, Known, Covers

LEMMA BareFeeds ==
    /\ \A at \in {"idle", "loading", "failed"} :
          NoItems(at) \in Feeds /\ NoItems(at).items = <<>> /\ NoItems(at).at = at
    /\ \A at \in {"none", "asked", "failed", "dead"} :
          NoItems(at) \in Pages /\ NoItems(at).items = <<>> /\ NoItems(at).at = at
  BY Empty DEF NoItems, Feeds, Pages

LEMMA FeedInitial == EventsInit => FeedInv
  <1> SUFFICES ASSUME EventsInit PROVE FeedInv
    OBVIOUS
  <1>1. EventsTypeOK
    <2>1. feed \in Feeds /\ feed.items = <<>> /\ page \in Pages /\ page.items = <<>>
      BY BareFeeds DEF EventsInit
    <2>2. Len(<<>>) = 0 /\ pipe \in Seq(Ids)
      BY Empty DEF EventsInit
    <2>3. Len(feed.items) <= MaxEvents /\ Len(page.items) <= PageLimit
      BY <2>1, <2>2, EventNumbers
    <2>4. log \in 0..MaxLog /\ row \in 1..MaxEvents /\ seen \in 0..MaxLog
      BY EventNumbers DEF EventsInit
    <2>5. fetched \in BOOLEAN /\ following \in BOOLEAN /\ tail \in Tails
      BY DEF EventsInit, Tails
    <2> QED
      BY <2>1, <2>2, <2>3, <2>4, <2>5 DEF EventsTypeOK
  <1>2. feed.items = <<>> /\ page.items = <<>>
    BY BareFeeds DEF EventsInit
  <1>3. TailInOrder
    BY Empty DEF EventsInit, TailInOrder
  <1>4. ListsInOrder
    BY <1>2, Empty DEF ListsInOrder
  <1>5. ~TailPending
    BY DEF EventsInit, TailPending
  <1> QED
    BY <1>1, <1>3, <1>4, <1>5 DEF FeedInv, PagesReachTail

(* What the tail forwards is to come after what is shown.                  *)
LEMMA NextLiveFacts ==
    ASSUME EventsTypeOK, TailInOrder
    PROVE  /\ NextLive \in Int /\ NextLive >= 1 /\ NextLive <= log + 1
           /\ log \in Int /\ seen \in Int /\ Len(pipe) \in Nat
           /\ OldestPending = NextLive
  <1>1. log \in Int /\ seen \in Int /\ seen >= 0
    BY EventNumbers DEF EventsTypeOK
  <1>2. Len(pipe) \in Nat /\ (pipe # <<>> => 1 \in DOMAIN pipe) /\ (pipe = <<>> => Len(pipe) = 0)
    BY NumberList DEF EventsTypeOK
  <1>3. NextLive \in Int /\ NextLive >= 1 /\ NextLive <= log + 1
    BY <1>1, <1>2 DEF NextLive, TailInOrder
  <1>4. OldestPending = NextLive
    BY <1>1, <1>2 DEF OldestPending, NextLive, TailInOrder
  <1> QED
    BY <1>1, <1>2, <1>3, <1>4

LEMMA NewestFirstFacts ==
    ASSUME log \in Nat, log <= MaxLog, log >= 0
    PROVE  LET items == Cut(NewestFirst(log), PageLimit) IN
           /\ items \in Seq(Ids) /\ Len(items) <= PageLimit
           /\ InOrder(items) /\ Known(items)
           /\ \A e \in Int : e >= 1 /\ log - e < PageLimit => Covers(items, e)
  <1> DEFINE all == NewestFirst(log)
             items == Cut(all, PageLimit)
  <1>1. all \in Seq(Ids) /\ Len(all) = log /\ \A k \in 1..log : all[k] = log + 1 - k
    BY EventNumbers DEF NewestFirst, Ids
  <1> HIDE DEF all
  <1>2. /\ items \in Seq(Ids)
        /\ Len(items) = IF log < PageLimit THEN log ELSE PageLimit
        /\ \A k \in 1..Len(items) : items[k] = all[k]
    BY <1>1, CutFacts, EventNumbers
  <1>3. DOMAIN items = 1..Len(items) /\ Len(items) \in Nat /\ Len(items) <= log /\ Len(items) <= PageLimit
    BY <1>2, NumberList, EventNumbers
  <1>4. \A k \in 1..Len(items) : items[k] = log + 1 - k
    BY <1>1, <1>2, <1>3
  <1> HIDE DEF items
  <1>5. InOrder(items)
    BY <1>3, <1>4 DEF InOrder
  <1>6. Known(items)
    BY <1>3, <1>4 DEF Known
  <1>7. ASSUME NEW e \in Int, e >= 1, log - e < PageLimit PROVE Covers(items, e)
    <2> SUFFICES ASSUME NEW d \in Int, items # <<>>, e <= d, d <= items[1]
                 PROVE  \E i \in DOMAIN items : items[i] = d
      BY DEF Covers
    <2>1. 1 \in 1..Len(items)
      BY <1>2, <1>3, NumberList
    <2>2. items[1] = log
      BY <2>1, <1>4
    <2>3. log + 1 - d \in 1..Len(items)
      BY <1>2, <1>7, <2>2, EventNumbers
    <2>4. items[log + 1 - d] = d
      BY <2>3, <1>4
    <2> QED
      BY <1>3, <2>3, <2>4
  <1> QED
    BY <1>2, <1>3, <1>5, <1>6, <1>7 DEF items, all

----------------------------------------------------------------------------
(* The steps of the server and of the tasks.                               *)
LEMMA OccurKeeps == FeedInv /\ Occur => FeedInv'
  <1> SUFFICES ASSUME FeedInv, Occur PROVE FeedInv'
    OBVIOUS
  <1>1. log' = log + 1 /\ log < MaxLog /\ UNCHANGED <<feed, row, fetched, page, following, tail, seen, pipe>>
    BY DEF Occur
  <1>2. log \in Int /\ OldestPending = NextLive /\ NextLive \in Int /\ seen \in Int /\ Len(pipe) \in Nat
    BY NextLiveFacts DEF FeedInv
  <1>3. EventsTypeOK'
    BY <1>1, EventNumbers DEF FeedInv, EventsTypeOK
  <1>4. TailInOrder'
    BY <1>1, <1>2 DEF FeedInv, TailInOrder
  <1>5. feed.items \in Seq(Ids) /\ page.items \in Seq(Ids)
    BY DEF FeedInv, EventsTypeOK, Feeds, Pages
  <1>6. ListsInOrder'
    <2>1. Known(feed.items)' /\ Known(page.items)'
      BY <1>1, <1>2, <1>5, NumberList DEF FeedInv, ListsInOrder, Known
    <2> QED
      BY <1>1, <2>1 DEF FeedInv, ListsInOrder, InOrder
  <1>7. PagesReachTail'
    BY <1>1, <1>2 DEF FeedInv, PagesReachTail, Occur, TailPending, NextLive, Covers
  <1> QED
    BY <1>3, <1>4, <1>6, <1>7 DEF FeedInv

LEMMA PageServedKeeps == FeedInv /\ PageServed => FeedInv'
  <1> SUFFICES ASSUME FeedInv, PageServed PROVE FeedInv'
    OBVIOUS
  <1> DEFINE items == Cut(NewestFirst(log), PageLimit)
  <1>1. page' = [at |-> "served", items |-> items]
        /\ UNCHANGED <<log, feed, row, fetched, following, tail, seen, pipe>>
    BY DEF PageServed
  <1>2. log \in Nat /\ log <= MaxLog /\ log >= 0
    BY EventNumbers DEF FeedInv, EventsTypeOK
  <1>3. /\ items \in Seq(Ids) /\ Len(items) <= PageLimit /\ InOrder(items) /\ Known(items)
        /\ \A e \in Int : e >= 1 /\ log - e < PageLimit => Covers(items, e)
    BY <1>2, NewestFirstFacts
  <1> HIDE DEF items
  <1>4. page'.items = items /\ page' \in Pages
    BY <1>1, <1>3 DEF Pages
  <1>5. EventsTypeOK'
    BY <1>1, <1>3, <1>4 DEF FeedInv, EventsTypeOK
  <1>6. TailInOrder' /\ TailPending' = TailPending /\ NextLive' = NextLive
    BY <1>1 DEF FeedInv, TailInOrder, TailPending, NextLive
  <1>7. ListsInOrder'
    BY <1>1, <1>3, <1>4 DEF FeedInv, ListsInOrder, Known, InOrder
  <1>8. PagesReachTail'
    <2>1. NextLive \in Int /\ NextLive >= 1
      BY NextLiveFacts DEF FeedInv
    <2>2. TailPending => Covers(items, NextLive)
      BY <1>2, <1>3, <2>1, EventNumbers DEF FeedInv, PagesReachTail
    <2> QED
      BY <1>1, <1>4, <1>6, <2>2 DEF FeedInv, PagesReachTail, Covers
  <1> QED
    BY <1>5, <1>6, <1>7, <1>8 DEF FeedInv

LEMMA PageEndsKeeps == FeedInv /\ PageEnds => FeedInv'
  <1> SUFFICES ASSUME FeedInv, PageEnds PROVE FeedInv'
    OBVIOUS
  <1>1. UNCHANGED <<log, feed, row, fetched, following, tail, seen, pipe>>
    BY DEF PageEnds
  <1>2. page' \in Pages /\ (page'.items = page.items \/ page'.items = <<>>)
    <2>1. CASE page.at = "served" /\ page' = [page EXCEPT !.at = "answered"]
      BY <2>1 DEF FeedInv, EventsTypeOK, Pages
    <2>2. CASE page' \in {NoItems("failed"), NoItems("dead")}
      BY <2>2, BareFeeds
    <2> QED
      BY <2>1, <2>2 DEF PageEnds
  <1>3. Len(page'.items) <= PageLimit
    BY <1>2, Empty, EventNumbers DEF FeedInv, EventsTypeOK
  <1>4. EventsTypeOK'
    BY <1>1, <1>2, <1>3 DEF FeedInv, EventsTypeOK
  <1>5. TailInOrder' /\ TailPending' = TailPending /\ NextLive' = NextLive
    BY <1>1 DEF FeedInv, TailInOrder, TailPending, NextLive
  <1>6. ListsInOrder'
    BY <1>1, <1>2, Empty DEF FeedInv, ListsInOrder, Known, InOrder
  <1>7. PagesReachTail'
    BY <1>1, <1>2, <1>5, Empty DEF FeedInv, PagesReachTail, Covers
  <1> QED
    BY <1>4, <1>5, <1>6, <1>7 DEF FeedInv

(* A list that is known ends below what is yet to occur.                   *)
LEMMA KnownCovers ==
    ASSUME NEW items \in Seq(Ids), Known(items), log \in Int
    PROVE  Covers(items, log + 1)
  BY NumberList DEF Known, Covers

LEMMA TailOpensKeeps == FeedInv /\ TailOpens => FeedInv'
  <1> SUFFICES ASSUME FeedInv, TailOpens PROVE FeedInv'
    OBVIOUS
  <1>1. /\ tail' = "open" /\ seen' = log /\ tail = "opening"
        /\ UNCHANGED <<log, feed, row, fetched, page, following, pipe>>
    BY DEF TailOpens
  <1>2. pipe = <<>> /\ Len(pipe) = 0 /\ DOMAIN pipe = {}
    BY <1>1, Empty DEF FeedInv, TailInOrder
  <1>3. log \in Int /\ log >= 0
    BY EventNumbers DEF FeedInv, EventsTypeOK
  <1>4. EventsTypeOK'
    BY <1>1 DEF FeedInv, EventsTypeOK, Tails
  <1>5. TailInOrder' /\ NextLive' = log + 1
    BY <1>1, <1>2, <1>3 DEF TailInOrder, NextLive
  <1>6. ListsInOrder'
    BY <1>1 DEF FeedInv, ListsInOrder, Known, InOrder
  <1>7. feed.items \in Seq(Ids) /\ page.items \in Seq(Ids)
    BY DEF FeedInv, EventsTypeOK, Feeds, Pages
  <1>8. Covers(feed.items, log + 1) /\ Covers(page.items, log + 1)
    BY <1>3, <1>7, KnownCovers DEF FeedInv, ListsInOrder
  <1>9. PagesReachTail'
    BY <1>1, <1>3, <1>5, <1>8, EventNumbers DEF PagesReachTail, Covers
  <1> QED
    BY <1>4, <1>5, <1>6, <1>9 DEF FeedInv

LEMMA TailForwardsKeeps == FeedInv /\ TailForwards => FeedInv'
  <1> SUFFICES ASSUME FeedInv, TailForwards PROVE FeedInv'
    OBVIOUS
  <1>1. /\ tail = "open" /\ seen < log /\ seen' = seen + 1
        /\ pipe' = Append(pipe, seen + 1)
        /\ UNCHANGED <<log, feed, row, fetched, page, following, tail>>
    BY DEF TailForwards
  <1>2. log \in Int /\ seen \in Int /\ seen >= 0 /\ log <= MaxLog /\ pipe \in Seq(Ids)
    BY EventNumbers DEF FeedInv, EventsTypeOK
  <1>3. seen + 1 \in Ids
    BY <1>1, <1>2, EventNumbers DEF Ids
  <1>4. /\ pipe' \in Seq(Ids) /\ Len(pipe') = Len(pipe) + 1
        /\ \A i \in 1..Len(pipe) : pipe'[i] = pipe[i]
        /\ pipe'[Len(pipe) + 1] = seen + 1
    BY <1>1, <1>2, <1>3, AppendProperties
  <1>5. /\ DOMAIN pipe' = 1..(Len(pipe) + 1) /\ DOMAIN pipe = 1..Len(pipe)
        /\ Len(pipe) \in Nat
    BY <1>2, <1>4, NumberList
  <1>6. EventsTypeOK'
    BY <1>1, <1>2, <1>3, <1>4, EventNumbers DEF FeedInv, EventsTypeOK
  <1>7. TailInOrder' /\ NextLive' = NextLive /\ TailPending
    <2>1. NextLive' = NextLive /\ TailPending
      BY <1>1, <1>2, <1>4, <1>5 DEF NextLive, TailPending
    <2>2. \A i \in DOMAIN pipe' : pipe'[i] = seen' - Len(pipe') + i
      BY <1>1, <1>2, <1>4, <1>5 DEF FeedInv, TailInOrder
    <2>3. Len(pipe') <= seen' /\ seen' <= log'
      BY <1>1, <1>2, <1>4, <1>5 DEF FeedInv, TailInOrder
    <2> QED
      BY <1>1, <2>1, <2>2, <2>3 DEF TailInOrder
  <1>8. ListsInOrder'
    BY <1>1 DEF FeedInv, ListsInOrder, Known, InOrder
  <1>9. PagesReachTail'
    BY <1>1, <1>7 DEF FeedInv, PagesReachTail, Covers
  <1> QED
    BY <1>6, <1>7, <1>8, <1>9 DEF FeedInv

LEMMA TailEndsKeeps == FeedInv /\ TailEnds => FeedInv'
  <1> SUFFICES ASSUME FeedInv, TailEnds PROVE FeedInv'
    OBVIOUS
  <1>1. /\ tail' = "over" /\ UNCHANGED <<log, feed, row, fetched, page, following, seen, pipe>>
    BY DEF TailEnds
  <1>2. EventsTypeOK' /\ TailInOrder' /\ (TailPending' => TailPending) /\ NextLive' = NextLive
    BY <1>1 DEF FeedInv, EventsTypeOK, TailInOrder, Tails, TailPending, NextLive
  <1>3. ListsInOrder'
    BY <1>1 DEF FeedInv, ListsInOrder, Known, InOrder
  <1>4. PagesReachTail'
    BY <1>1, <1>2 DEF FeedInv, PagesReachTail, Covers
  <1> QED
    BY <1>2, <1>3, <1>4 DEF FeedInv

(* Keys: the lists stay as they are.                                       *)
LEMMA KeysKeep ==
    FeedInv /\ (EventsRefresh \/ EventsSelect \/ ToggleFollow) => FeedInv'
  <1>1. ASSUME FeedInv, EventsRefresh PROVE FeedInv'
    <2>1. /\ page' = NoItems("asked") /\ feed' = EventsBegun(feed)
          /\ UNCHANGED <<log, row, fetched, following, tail, seen, pipe>>
      BY <1>1 DEF EventsRefresh
    <2>2. page' \in Pages /\ page'.items = <<>>
      BY <2>1, BareFeeds
    <2>3. feed' \in Feeds /\ feed'.items \in {feed.items, <<>>}
          /\ (feed'.at # "ready" => feed'.items = <<>>)
      BY <1>1, <2>1, BareFeeds DEF EventsBegun, FeedInv, EventsTypeOK, ListsInOrder
    <2>4. EventsTypeOK'
      BY <1>1, <2>1, <2>2, <2>3, Empty, EventNumbers DEF FeedInv, EventsTypeOK
    <2>5. TailInOrder' /\ TailPending' = TailPending /\ NextLive' = NextLive
      BY <1>1, <2>1 DEF FeedInv, TailInOrder, TailPending, NextLive
    <2>6. ListsInOrder'
      BY <1>1, <2>1, <2>2, <2>3, Empty DEF FeedInv, ListsInOrder, Known, InOrder
    <2>7. PagesReachTail'
      BY <1>1, <2>1, <2>2, <2>3, <2>5, Empty DEF FeedInv, PagesReachTail, Covers
    <2> QED
      BY <2>4, <2>5, <2>6, <2>7 DEF FeedInv
  <1>2. ASSUME FeedInv, EventsSelect PROVE FeedInv'
    <2>1. UNCHANGED <<log, feed, fetched, page, following, tail, seen, pipe>>
      BY <1>2 DEF EventsSelect
    <2>2. Len(feed.items) \in Nat
      BY <1>2, NumberList DEF FeedInv, EventsTypeOK, Feeds
    <2>3. row' \in 1..MaxEvents
      BY <1>2, <2>2, EventNumbers DEF EventsSelect, FeedInv, EventsTypeOK
    <2>4. EventsTypeOK'
      BY <1>2, <2>1, <2>3 DEF FeedInv, EventsTypeOK
    <2> QED
      BY <1>2, <2>1, <2>4 DEF FeedInv, TailInOrder, ListsInOrder, PagesReachTail, Known, InOrder, Covers, NextLive, TailPending
  <1>3. ASSUME FeedInv, ToggleFollow PROVE FeedInv'
    <2>1. /\ following' = ~following /\ tail' \in {"none", "opening"} /\ seen' = 0 /\ pipe' = <<>>
          /\ UNCHANGED <<log, feed, row, fetched, page>>
      BY <1>3 DEF ToggleFollow
    <2>2. EventsTypeOK'
      <3>1. pipe' \in Seq(Ids) /\ seen' \in 0..MaxLog /\ tail' \in Tails /\ following' \in BOOLEAN
        BY <2>1, Empty, EventNumbers DEF Tails
      <3> QED
        BY <1>3, <2>1, <3>1 DEF FeedInv, EventsTypeOK
    <2>3. TailInOrder' /\ ~TailPending'
      BY <1>3, <2>1, Empty, EventNumbers DEF TailInOrder, TailPending, FeedInv, EventsTypeOK
    <2>4. ListsInOrder'
      BY <1>3, <2>1 DEF FeedInv, ListsInOrder, Known, InOrder
    <2> QED
      BY <2>2, <2>3, <2>4 DEF FeedInv, PagesReachTail
  <1> QED
    BY <1>1, <1>2, <1>3

----------------------------------------------------------------------------
(* The tick.                                                               *)
LEMMA AppliedPage ==
    ASSUME FeedInv
    PROVE  /\ PageApplied \in Views
           /\ InOrder(PageApplied.feed.items) /\ Known(PageApplied.feed.items)
           /\ PageApplied.feed.at # "ready" => PageApplied.feed.items = <<>>
           /\ PageApplied.feed.items \in {feed.items, page.items, <<>>}
  <1>1. CASE page.at = "answered"
    <2> DEFINE rows == IF row > Len(page.items)
                       THEN (IF page.items = <<>> THEN 1 ELSE Len(page.items)) ELSE row
    <2>1. PageApplied = [feed |-> [page EXCEPT !.at = "ready"], row |-> rows, fetched |-> TRUE]
      BY <1>1 DEF PageApplied, FeedInv, EventsTypeOK
    <2>2. page \in Pages /\ page.items \in Seq(Ids) /\ Len(page.items) <= PageLimit
      BY DEF FeedInv, EventsTypeOK, Pages
    <2>3. Len(page.items) \in Nat /\ (page.items # <<>> => Len(page.items) >= 1)
      BY <2>2, NumberList
    <2>4. rows \in 1..MaxEvents
      BY <2>2, <2>3, EventNumbers DEF FeedInv, EventsTypeOK
    <2>5. Len(page.items) <= MaxEvents
      BY <2>2, <2>3, EventNumbers
    <2> HIDE DEF rows
    <2>6. PageApplied.feed \in Feeds /\ PageApplied.feed.items = page.items /\ PageApplied.feed.at = "ready"
      BY <2>1, <2>2 DEF Pages, Feeds
    <2> QED
      BY <2>1, <2>4, <2>5, <2>6 DEF Views, FeedInv, ListsInOrder
  <1>2. CASE page.at # "answered"
    <2>1. PageApplied.feed \in {feed, NoItems("failed")} /\ PageApplied.row = row
          /\ PageApplied = [feed |-> PageApplied.feed, row |-> row, fetched |-> PageApplied.fetched]
          /\ PageApplied.fetched \in BOOLEAN
      BY <1>2 DEF PageApplied
    <2>2. PageApplied.feed \in Feeds /\ PageApplied.feed.items \in {feed.items, <<>>}
          /\ (PageApplied.feed.at # "ready" => PageApplied.feed.items = <<>>)
      BY <2>1, BareFeeds DEF FeedInv, EventsTypeOK, ListsInOrder
    <2>3. Len(PageApplied.feed.items) <= MaxEvents
      BY <2>2, Empty, EventNumbers DEF FeedInv, EventsTypeOK
    <2>4. PageApplied \in Views
      BY <2>1, <2>2, <2>3 DEF Views, FeedInv, EventsTypeOK
    <2> QED
      BY <2>2, <2>4, Empty DEF FeedInv, ListsInOrder
  <1> QED
    BY <1>1, <1>2

(* The event that is number k of the channel.                              *)
LEMMA PipeStep ==
    ASSUME EventsTypeOK, TailInOrder, NEW k \in 1..Len(pipe)
    PROVE  pipe[k] = NextLive + (k - 1) /\ pipe[k] \in Ids /\ pipe[k] <= log
  <1>1. log \in Int /\ seen \in Int /\ Len(pipe) \in Nat /\ seen <= log
    BY NextLiveFacts DEF TailInOrder
  <1>2. k \in DOMAIN pipe /\ pipe[k] \in Ids
    BY NumberList DEF EventsTypeOK
  <1>3. pipe[k] = seen - Len(pipe) + k
    BY <1>2 DEF TailInOrder
  <1> QED
    BY <1>1, <1>2, <1>3 DEF NextLive

LEMMA DrainedEmpty ==
    ASSUME FeedInv, pipe = <<>>
    PROVE  Drained = PageApplied
  <1> DEFINE I == [k \in 0..0 |-> {PageApplied}]
  <1>1. Len(pipe) = 0 /\ pipe \in Seq(Ids)
    BY Empty
  <1>2. PageApplied \in I[0] /\ \A k \in 1..Len(pipe) : \A v \in I[k - 1] : Merge(v, pipe[k]) \in I[k]
    BY <1>1
  <1>3. I[0] = {PageApplied}
    OBVIOUS
  <1> HIDE DEF I
  <1>4. FoldLeft(Merge, PageApplied, pipe) \in I[Len(pipe)]
    BY <1>1, <1>2, AppliedPage, DrainByStep
  <1> QED
    BY <1>1, <1>3, <1>4 DEF Drained

(* What draining leaves behind waits for the event after the last one that *)
(* the tail was sent.                                                      *)
LEMMA DrainedFacts ==
    ASSUME FeedInv
    PROVE  /\ Drained \in Views
           /\ InOrder(Drained.feed.items) /\ Known(Drained.feed.items)
           /\ Drained.feed.at # "ready" => Drained.feed.items = <<>>
           /\ TailPending => Covers(Drained.feed.items, seen + 1)
  <1>0. pipe \in Seq(Ids) /\ Len(pipe) \in Nat /\ DOMAIN pipe = 1..Len(pipe)
        /\ (pipe = <<>> => Len(pipe) = 0) /\ log \in Int /\ seen \in Int /\ seen <= log
        /\ NextLive \in Int
    BY NumberList, NextLiveFacts, Empty DEF FeedInv, EventsTypeOK, TailInOrder
  <1>1. CASE TailPending
    <2> DEFINE I == [k \in 0..Len(pipe) |-> Waits(NextLive + k)]
    <2>1. PageApplied \in I[0]
      <3>1. Covers(PageApplied.feed.items, NextLive)
        BY <1>1, AppliedPage, Empty DEF FeedInv, PagesReachTail
      <3>2. I[0] = Waits(NextLive)
        BY <1>0
      <3> QED
        BY <3>1, <3>2, AppliedPage DEF Waits
    <2>2. ASSUME NEW k \in 1..Len(pipe), NEW v \in I[k - 1] PROVE Merge(v, pipe[k]) \in I[k]
      <3>1. pipe[k] = NextLive + (k - 1) /\ pipe[k] \in Ids /\ pipe[k] <= log
        BY <1>0, PipeStep DEF FeedInv
      <3>2. I[k - 1] = Waits(pipe[k])
        BY <1>0, <3>1
      <3>3. I[k] = Waits(pipe[k] + 1)
        <4>1. pipe[k] + 1 = NextLive + k
          BY <1>0, <3>1
        <4> QED
          BY <4>1
      <3> HIDE DEF I
      <3> QED
        BY <1>0, <3>1, <3>2, <3>3, MergeStep
    <2>3. Waits(seen + 1) = I[Len(pipe)]
      <3>1. NextLive + Len(pipe) = seen + 1
        BY <1>0 DEF NextLive
      <3> QED
        BY <1>0, <3>1
    <2> HIDE DEF I
    <2>4. FoldLeft(Merge, PageApplied, pipe) \in I[Len(pipe)]
      BY <1>0, <2>1, <2>2, AppliedPage, DrainByStep
    <2> QED
      BY <2>3, <2>4 DEF Waits, Drained
  <1>2. CASE ~TailPending
    <2>1. Drained = PageApplied
      BY <1>2, DrainedEmpty DEF FeedInv, TailPending
    <2> QED
      BY <1>2, <2>1, AppliedPage
  <1> QED
    BY <1>1, <1>2

LEMMA FeedTickKeeps == FeedInv /\ EventsTick => FeedInv'
  <1> SUFFICES ASSUME FeedInv, EventsTick PROVE FeedInv'
    OBVIOUS
  <1>1. PICK focused \in BOOLEAN :
          /\ feed' = IF FirstLoad(focused) THEN EventsBegun(Drained.feed) ELSE Drained.feed
          /\ page' = IF FirstLoad(focused) THEN NoItems("asked")
                     ELSE IF Loading THEN page ELSE NoItems("none")
    BY DEF EventsTick
  <1>2. row' = Drained.row /\ fetched' = Drained.fetched /\ pipe' = <<>>
        /\ UNCHANGED <<log, seen>> /\ StopsIfOver
    BY DEF EventsTick
  <1>3. following' \in BOOLEAN /\ tail' \in Tails /\ (tail' = tail \/ tail' = "none")
    BY <1>2 DEF StopsIfOver, FeedInv, EventsTypeOK, Tails
  <1>4. /\ feed' \in Feeds /\ feed'.items = Drained.feed.items
        /\ Len(feed'.items) <= MaxEvents
        /\ feed'.at # "ready" => feed'.items = <<>>
    <2>1. /\ Drained.feed \in Feeds /\ Len(Drained.feed.items) <= MaxEvents
          /\ Drained.feed.at # "ready" => Drained.feed.items = <<>>
      BY DrainedFacts DEF Views
    <2> QED
      BY <1>1, <2>1, BareFeeds, Empty DEF EventsBegun
  <1>5. page' \in Pages /\ Len(page'.items) <= PageLimit /\ page'.items \in {page.items, <<>>}
    BY <1>1, BareFeeds, Empty, EventNumbers DEF FeedInv, EventsTypeOK
  <1>6. row' \in 1..MaxEvents /\ fetched' \in BOOLEAN
    BY <1>2, DrainedFacts DEF Views
  <1>7. EventsTypeOK'
    BY <1>2, <1>3, <1>4, <1>5, <1>6, Empty DEF FeedInv, EventsTypeOK
  <1>8. TailInOrder' /\ NextLive' = seen + 1 /\ (TailPending' => tail = "open")
    BY <1>2, <1>3, Empty, EventNumbers DEF TailInOrder, NextLive, TailPending, FeedInv, EventsTypeOK
  <1>9. ListsInOrder'
    BY <1>2, <1>4, <1>5, DrainedFacts, Empty DEF FeedInv, ListsInOrder, Known, InOrder
  <1>10. PagesReachTail'
    <2> SUFFICES ASSUME TailPending' PROVE log - (seen + 1) < MaxLag
                          /\ Covers(feed'.items, seen + 1) /\ Covers(page'.items, seen + 1)
      BY <1>2, <1>8 DEF PagesReachTail, Covers
    <2>1. TailPending /\ NextLive <= seen + 1 /\ NextLive \in Int /\ log \in Int /\ seen \in Int
      <3>1. Len(pipe) \in Nat
        BY NextLiveFacts DEF FeedInv
      <3>2. TailPending
        BY <1>8 DEF TailPending
      <3> QED
        BY <3>1, <3>2, NextLiveFacts DEF NextLive, FeedInv
    <2>2. Covers(page'.items, seen + 1)
      BY <1>5, <2>1, Empty DEF FeedInv, PagesReachTail, Covers
    <2>3. Covers(feed'.items, seen + 1)
      BY <1>4, <2>1, DrainedFacts
    <2>4. log - (seen + 1) < MaxLag
      BY <2>1, EventNumbers DEF FeedInv, PagesReachTail
    <2> QED
      BY <2>2, <2>3, <2>4
  <1> QED
    BY <1>7, <1>8, <1>9, <1>10 DEF FeedInv

LEMMA FeedKept == FeedInv /\ [EventsNext]_eventsVars => FeedInv'
  <1>1. FeedInv /\ UNCHANGED eventsVars => FeedInv'
    BY DEF eventsVars, FeedInv, EventsTypeOK, TailInOrder, ListsInOrder, PagesReachTail,
           Known, InOrder, Covers, NextLive, TailPending
  <1> QED
    BY <1>1, OccurKeeps, PageServedKeeps, PageEndsKeeps, TailOpensKeeps, TailForwardsKeeps,
       TailEndsKeeps, KeysKeep, FeedTickKeeps DEF EventsNext

LEMMA FeedAlways == EventsSpec => []FeedInv
  BY FeedInitial, FeedKept, PTL DEF EventsSpec

(* The types of the event log, and the bounds of its list and of a page.   *)
THEOREM EventsTypes == EventsSpec => []EventsTypeOK
  <1>1. FeedInv => EventsTypeOK
    BY DEF FeedInv
  <1> QED
    BY <1>1, FeedAlways, PTL

(* Pages and live events make one list, newest first and nothing twice,    *)
(* for any lengths of a page and of the list (merge_live).                 *)
THEOREM FeedStaysInOrder == EventsSpec => []FeedInOrder
  <1>1. FeedInv => FeedInOrder
    BY DEF FeedInv, ListsInOrder, InOrder, FeedInOrder
  <1> QED
    BY <1>1, FeedAlways, PTL

----------------------------------------------------------------------------
(* The highlighted row.                                                    *)

(* A view in which row r of the list showed event x before the tick.       *)
FeedHeld(r, x) ==
    {v \in Views :
       /\ v.feed.at = "ready"
       /\ IF r = 1 THEN v.row = 1
          ELSE /\ v.row \in 2..Len(v.feed.items)
               /\ x < v.feed.items[1]
               /\ v.feed.items[v.row] = x \/ x \notin Range(v.feed.items)}

LEMMA HeldStep ==
    ASSUME NEW e \in Ids, NEW r, NEW x \in Ids, NEW v \in Waits(e) \cap FeedHeld(r, x),
           log \in Int, e <= log
    PROVE  Merge(v, e) \in Waits(e + 1) \cap FeedHeld(r, x)
  <1>0. v \in Views /\ Merge(v, e) \in Views /\ Merge(v, e) \in Waits(e + 1)
        /\ v.feed.at = "ready"
    BY MergeTypes, MergeStep DEF FeedHeld
  <1>1. CASE e \in Range(v.feed.items)
    BY <1>0, <1>1 DEF Merge
  <1>2. CASE e \notin Range(v.feed.items)
    <2> DEFINE items == v.feed.items
               merged == Topped(items, e)
               w == Merge(v, e)
    <2>1. items \in Seq(Ids) /\ v.feed \in Feeds /\ Len(items) <= MaxEvents /\ v.row \in Int
      BY <1>0, EventNumbers DEF Views, Feeds
    <2>2. /\ w.feed.items = merged /\ w.feed.at = "ready"
          /\ w.row = IF v.row = 1 THEN 1
                     ELSE IF v.row < Len(merged) THEN v.row + 1 ELSE Len(merged)
      BY <1>0, <1>2, <2>1 DEF Merge, Topped, Feeds, Views
    <2> SUFFICES ASSUME r # 1
                 PROVE  /\ w.row \in 2..Len(w.feed.items)
                        /\ x < w.feed.items[1]
                        /\ w.feed.items[w.row] = x \/ x \notin Range(w.feed.items)
      BY <1>0, <2>2 DEF FeedHeld
    <2> HIDE DEF w
    <2>3. /\ v.row \in 2..Len(items) /\ x < items[1]
          /\ items[v.row] = x \/ x \notin Range(items)
      BY DEF FeedHeld
    <2>4. e \notin Range(items) /\ InOrder(items) /\ Known(items) /\ Covers(items, e)
      BY <1>2 DEF Waits
    <2> HIDE DEF items
    <2>5. /\ Len(items) \in Nat /\ DOMAIN items = 1..Len(items)
          /\ \A i \in DOMAIN items : items[i] \in Int
      BY <2>1, NumberList
    <2>6. items # <<>> /\ 1 \in DOMAIN items /\ v.row \in DOMAIN items
      BY <2>3, <2>5, Empty
    <2>7. items[1] < e /\ e \in Int /\ x \in Int /\ x < e
      <3>1. e \in Int /\ x \in Int /\ items[1] < e
        BY <2>1, <2>4, <2>6, OnTop, EventNumbers DEF Ids
      <3> QED
        BY <2>3, <2>5, <2>6, <3>1
    <2>8. /\ Len(merged) = IF Len(items) < MaxEvents THEN Len(items) + 1 ELSE MaxEvents
          /\ merged[1] = e /\ DOMAIN merged = 1..Len(merged)
          /\ \A i \in 2..Len(merged) : i - 1 \in DOMAIN items /\ merged[i] = items[i - 1]
      BY <2>1, ToppedFacts
    <2> HIDE DEF merged
    <2>9. Len(merged) \in Nat /\ Len(merged) >= 2 /\ v.row <= Len(merged)
      BY <2>1, <2>3, <2>5, <2>8, EventNumbers
    <2>10. x \notin Range(items) => x \notin Range(merged)
      <3> SUFFICES ASSUME x \notin Range(items), NEW i \in DOMAIN merged PROVE merged[i] # x
        BY DEF Range
      <3>1. i = 1 \/ i \in 2..Len(merged)
        BY <2>8, <2>9
      <3> QED
        BY <2>7, <2>8, <3>1 DEF Range
    <2>11. CASE v.row < Len(merged)
      <3>1. w.row = v.row + 1 /\ w.row \in 2..Len(merged) /\ w.row - 1 = v.row
        BY <2>2, <2>3, <2>5, <2>9, <2>11, <2>1
      <3>2. merged[w.row] = items[v.row]
        BY <2>8, <3>1
      <3> QED
        BY <2>2, <2>3, <2>7, <2>8, <2>10, <3>1, <3>2
    <2>12. CASE v.row = Len(merged)
      <3>1. v.row # 1 /\ ~(v.row < Len(merged)) /\ Len(merged) \in 2..Len(merged)
        <4>1. v.row \in Int /\ v.row >= 2
          BY <2>3, <2>5
        <4>2. ~(v.row < Len(merged)) /\ Len(merged) >= 2 /\ Len(merged) \in Int
          BY <2>9, <2>12, <4>1
        <4>3. \A m \in Int : m >= 2 => m \in 2..m
          OBVIOUS
        <4> QED
          BY <4>1, <4>2, <4>3
      <3>2. w.row = Len(merged)
        BY <2>2, <3>1
      <3>3. items[v.row] = x => x \notin Range(merged)
        <4> SUFFICES ASSUME items[v.row] = x, NEW i \in DOMAIN merged PROVE merged[i] # x
          BY DEF Range
        <4>1. CASE i = 1
          BY <2>7, <2>8, <4>1
        <4>2. CASE i \in 2..Len(merged)
          <5>1. i - 1 \in DOMAIN items /\ merged[i] = items[i - 1] /\ i - 1 < v.row
            BY <2>8, <2>9, <2>12, <4>2
          <5>2. items[i - 1] > items[v.row]
            BY <2>4, <2>6, <5>1 DEF InOrder
          <5> QED
            BY <2>5, <2>6, <5>1, <5>2
        <4> QED
          BY <2>8, <2>9, <4>1, <4>2
      <3> QED
        BY <2>2, <2>3, <2>7, <2>8, <2>10, <3>1, <3>2, <3>3
    <2> QED
      BY <2>9, <2>11, <2>12, <2>1
  <1> QED
    BY <1>1, <1>2

(* The row and the event that it showed, when the tick has drained.        *)
LEMMA DrainedHolds ==
    ASSUME FeedInv, TailPending, LiveStep
    PROVE  Drained \in FeedHeld(row, feed.items[row])
  <1> DEFINE x == feed.items[row]
  <1>0. pipe \in Seq(Ids) /\ Len(pipe) \in Nat /\ log \in Int /\ NextLive \in Int
    BY NextLiveFacts DEF FeedInv, EventsTypeOK
  <1>1. /\ PageApplied.feed = feed /\ PageApplied.row = row
        /\ PageApplied \in Views
    BY AppliedPage DEF LiveStep, PageApplied
  <1>2. /\ feed.items \in Seq(Ids) /\ row \in Int /\ row >= 1 /\ row <= Len(feed.items)
        /\ feed.at = "ready"
    BY EventNumbers DEF LiveStep, FeedInv, EventsTypeOK, Feeds
  <1>3. /\ DOMAIN feed.items = 1..Len(feed.items) /\ Len(feed.items) \in Nat
        /\ row \in DOMAIN feed.items /\ 1 \in DOMAIN feed.items
        /\ x \in Ids /\ x \in Int /\ feed.items[1] \in Int
    <2>1. DOMAIN feed.items = 1..Len(feed.items) /\ Len(feed.items) \in Nat
      BY <1>2, NumberList
    <2>2. row \in DOMAIN feed.items /\ 1 \in DOMAIN feed.items
      BY <1>2, <2>1
    <2> QED
      BY <1>2, <2>1, <2>2, NumberList
  <1>4. row # 1 => x < feed.items[1]
    BY <1>2, <1>3 DEF FeedInv, ListsInOrder, InOrder
  <1> DEFINE I == [k \in 0..Len(pipe) |-> Waits(NextLive + k) \cap FeedHeld(row, x)]
  <1>5. PageApplied \in I[0]
    <2>1. Covers(PageApplied.feed.items, NextLive)
      BY <1>1 DEF FeedInv, PagesReachTail
    <2>2. I[0] = Waits(NextLive) \cap FeedHeld(row, x)
      BY <1>0
    <2>3. PageApplied \in Waits(NextLive)
      BY <2>1, AppliedPage DEF Waits
    <2>4. PageApplied \in FeedHeld(row, x)
      BY <1>1, <1>2, <1>3, <1>4 DEF FeedHeld
    <2> QED
      BY <2>2, <2>3, <2>4
  <1>6. ASSUME NEW k \in 1..Len(pipe), NEW v \in I[k - 1] PROVE Merge(v, pipe[k]) \in I[k]
    <2>1. pipe[k] = NextLive + (k - 1) /\ pipe[k] \in Ids /\ pipe[k] <= log
      BY PipeStep DEF FeedInv
    <2>2. I[k - 1] = Waits(pipe[k]) \cap FeedHeld(row, x)
      BY <1>0, <2>1
    <2>3. I[k] = Waits(pipe[k] + 1) \cap FeedHeld(row, x)
      <3>1. pipe[k] + 1 = NextLive + k
        BY <1>0, <2>1
      <3> QED
        BY <3>1
    <2> HIDE DEF I, x
    <2> QED
      BY <1>0, <1>3, <2>1, <2>2, <2>3, HeldStep
  <1>7. I[Len(pipe)] \subseteq FeedHeld(row, x)
    BY <1>0
  <1> HIDE DEF I
  <1>8. FoldLeft(Merge, PageApplied, pipe) \in I[Len(pipe)]
    BY <1>0, <1>1, <1>5, <1>6, DrainByStep
  <1> QED
    BY <1>7, <1>8 DEF Drained

LEMMA HighlightStep ==
    FeedInv /\ [EventsNext]_eventsVars =>
      (LiveStep =>
         IF row = 1 THEN row' = 1
         ELSE \/ feed'.items[row'] = feed.items[row]
              \/ feed.items[row] \notin Range(feed'.items))
  <1> SUFFICES ASSUME FeedInv, [EventsNext]_eventsVars, LiveStep
               PROVE  IF row = 1 THEN row' = 1
                      ELSE \/ feed'.items[row'] = feed.items[row]
                           \/ feed.items[row] \notin Range(feed'.items)
    OBVIOUS
  <1>1. feed' # feed /\ feed.at = "ready"
    BY DEF LiveStep
  <1>2. EventsTick
    BY <1>1 DEF EventsNext, eventsVars, Occur, PageServed, PageEnds, TailOpens, TailForwards,
           TailEnds, EventsRefresh, EventsBegun, EventsSelect, ToggleFollow
  <1>3. row' = Drained.row
        /\ \E focused \in BOOLEAN :
             feed' = IF FirstLoad(focused) THEN EventsBegun(Drained.feed) ELSE Drained.feed
    BY <1>2 DEF EventsTick
  <1>4. TailPending
    <2> SUFFICES ASSUME pipe = <<>> PROVE FALSE
      BY DEF TailPending
    <2>1. Drained = PageApplied
      BY DrainedEmpty DEF FeedInv
    <2>2. PageApplied.feed = feed
      BY DEF LiveStep, PageApplied
    <2> QED
      BY <1>1, <1>3, <2>1, <2>2 DEF EventsBegun
  <1>5. Drained \in FeedHeld(row, feed.items[row])
    BY <1>4, DrainedHolds
  <1>6. feed' = Drained.feed
    BY <1>3, <1>5 DEF FeedHeld, EventsBegun
  <1> QED
    BY <1>3, <1>5, <1>6 DEF FeedHeld

(* events.rs, "Keep the highlighted row on the same event as new ones      *)
(* arrive, but let a top selection ride the newest event": whatever a tick *)
(* finds in the tail's channel, and however long the list may be.          *)
THEOREM HighlightStays == EventsSpec => HighlightKept
  BY FeedAlways, HighlightStep, PTL DEF EventsSpec, HighlightKept

------------------------------------------------------------------------------
(* AuditLog: the entries of the filter, without a gap.                     *)

(* Every entry the filter f selects is there, from one of the set to       *)
(* another.                                                                *)
Gapless(rows, f) ==
    /\ \A e \in rows : Matches(e, f)
    /\ \A a, b \in rows : \A e \in Entries :
         a <= e /\ e <= b /\ Matches(e, f) => e \in rows

Least(n, rows) == n \in rows /\ \A e \in rows : n <= e

(* A load of a first page, which takes the place of what is shown.         *)
Replacing == auditLoad.at # "none" /\ ~loadingMore

InTrail ==
    /\ entries.rows \subseteq 1..trail /\ auditLoad.rows \subseteq 1..trail
    /\ nextCursor <= trail /\ auditLoad.after <= trail /\ auditLoad.next <= trail

ShownFits ==
    entries.at = "ready" /\ ~Replacing =>
      /\ Gapless(entries.rows, filter)
      /\ nextCursor # 0 => Least(nextCursor, entries.rows)

LoadFits ==
    auditLoad.at \in {"asked", "answered"} =>
      /\ auditLoad.of = filter
      /\ loadingMore /\ entries.at = "ready" => Least(auditLoad.after, entries.rows)
      /\ ~loadingMore => auditLoad.after = 0

AnswerFits ==
    auditLoad.at = "answered" =>
      LET rows == auditLoad.rows  after == auditLoad.after IN
      /\ Gapless(rows, auditLoad.of)
      /\ auditLoad.next # 0 => Least(auditLoad.next, rows)
      /\ after # 0 =>
           /\ \A e \in rows : e < after
           /\ \A r \in rows : \A e \in Entries :
                r <= e /\ e < after /\ Matches(e, auditLoad.of) => e \in rows

AuditInv ==
    AuditTypeOK /\ InTrail /\ AnswerFits /\ (~misled => ShownFits /\ LoadFits)

----------------------------------------------------------------------------
LEMMA AuditNumbers ==
    /\ Families \in Nat /\ Families >= 1 /\ AuditPage \in Nat /\ AuditPage >= 1
    /\ MaxTrail \in Nat /\ MaxTrail >= 1
    /\ \A e \in Entries : e \in Nat
  BY AuditAssumption DEF Entries

(* What the types say of the state, in numbers.                            *)
LEMMA AuditFields ==
    ASSUME AuditInv
    PROVE  /\ trail \in Nat /\ trail <= MaxTrail
           /\ entries \in EntryLists /\ entries.rows \in SUBSET Entries
           /\ auditLoad \in AuditLoads /\ auditLoad.rows \in SUBSET Entries
           /\ auditLoad.after \in Nat /\ auditLoad.next \in Nat
           /\ nextCursor \in Nat /\ auditRow \in Nat /\ auditRow >= 1
  <1>1. trail \in Nat /\ trail <= MaxTrail /\ nextCursor \in Nat /\ auditRow \in Nat /\ auditRow >= 1
    BY AuditNumbers DEF AuditInv, AuditTypeOK
  <1>2. entries \in EntryLists /\ entries.rows \in SUBSET Entries
    BY DEF AuditInv, AuditTypeOK, EntryLists
  <1>3. auditLoad \in AuditLoads /\ auditLoad.rows \in SUBSET Entries
        /\ auditLoad.after \in Nat /\ auditLoad.next \in Nat
    BY AuditNumbers DEF AuditInv, AuditTypeOK, AuditLoads
  <1> QED
    BY <1>1, <1>2, <1>3

LEMMA NothingAsked ==
    /\ NoAuditLoad \in AuditLoads /\ NoAuditLoad.at = "none" /\ NoAuditLoad.rows = {}
    /\ NoAuditLoad.after = 0 /\ NoAuditLoad.next = 0
    /\ \A f \in Filters :
         /\ FirstAsked(f) \in AuditLoads /\ FirstAsked(f).at = "asked"
         /\ FirstAsked(f).of = f /\ FirstAsked(f).after = 0
         /\ FirstAsked(f).rows = {} /\ FirstAsked(f).next = 0
  <1>1. 0 \in Filters /\ 0 \in 0..MaxTrail
    BY AuditNumbers DEF Filters
  <1>2. /\ NoAuditLoad \in AuditLoads /\ NoAuditLoad.at = "none" /\ NoAuditLoad.rows = {}
        /\ NoAuditLoad.after = 0 /\ NoAuditLoad.next = 0
    BY <1>1 DEF NoAuditLoad, AuditLoads
  <1>3. \A f \in Filters :
          /\ FirstAsked(f) \in AuditLoads /\ FirstAsked(f).at = "asked"
          /\ FirstAsked(f).of = f /\ FirstAsked(f).after = NoAuditLoad.after
          /\ FirstAsked(f).rows = NoAuditLoad.rows /\ FirstAsked(f).next = NoAuditLoad.next
    BY <1>2 DEF FirstAsked, AuditLoads
  <1> QED
    BY <1>2, <1>3

LEMMA NothingListed ==
    \A at \in {"idle", "loading", "failed"} :
      NoEntries(at) \in EntryLists /\ NoEntries(at).at = at /\ NoEntries(at).rows = {}
  BY DEF NoEntries, EntryLists

LEMMA FilterNumbers == filter \in Filters => filter \in Filters /\ 0 \in Filters
  BY AuditNumbers DEF Filters

(* The page of hits that the server sends.                                 *)
LEMMA FirstPageFacts ==
    ASSUME NEW hits \in SUBSET Entries
    PROVE  /\ FirstPage(hits) \subseteq hits
           /\ \A r \in FirstPage(hits) : \A e \in hits : r <= e => e \in FirstPage(hits)
           /\ hits # {} => FirstPage(hits) # {}
  <1>1. \A e \in hits : IsFiniteSet(Newer(e, hits)) /\ Cardinality(Newer(e, hits)) \in Nat
    <2>1. IsFiniteSet(Entries)
      BY FS_Interval, AuditNumbers DEF Entries
    <2> QED
      BY <2>1, FS_Subset, FS_CardinalityType DEF Newer
  <1>2. ASSUME NEW r \in FirstPage(hits), NEW e \in hits, r <= e
        PROVE  e \in FirstPage(hits)
    <2>0. r \in hits /\ r \in Nat /\ e \in Nat /\ \A s \in hits : s \in Nat
      BY AuditNumbers DEF FirstPage
    <2>1. Newer(e, hits) \subseteq Newer(r, hits)
      <3> SUFFICES ASSUME NEW s \in hits, s > e PROVE s > r
        BY DEF Newer
      <3> QED
        BY <1>2, <2>0
    <2>2. Cardinality(Newer(e, hits)) <= Cardinality(Newer(r, hits))
      BY <1>1, <2>0, <2>1, FS_Subset
    <2> QED
      BY <1>1, <2>0, <2>2, AuditNumbers DEF FirstPage
  <1>3. ASSUME hits # {} PROVE FirstPage(hits) # {}
    <2>1. Max(hits) \in hits /\ \A y \in hits : Max(hits) >= y
      <3>1. hits \in SUBSET (1..MaxTrail)
        BY DEF Entries
      <3> QED
        BY <1>3, <3>1, MaxInside, AuditNumbers
    <2>2. Newer(Max(hits), hits) = {}
      BY <2>1, AuditNumbers DEF Newer
    <2>3. Cardinality(Newer(Max(hits), hits)) < AuditPage
      BY <2>2, FS_EmptySet, AuditNumbers
    <2> QED
      BY <2>1, <2>3 DEF FirstPage
  <1> QED
    BY <1>2, <1>3 DEF FirstPage

LEMMA AuditInitial == AuditInit => AuditInv
  <1> SUFFICES ASSUME AuditInit PROVE AuditInv
    OBVIOUS
  <1>1. AuditTypeOK
    <2>1. trail \in 0..MaxTrail /\ auditRow \in 1..MaxTrail /\ nextCursor \in 0..MaxTrail
      BY AuditNumbers DEF AuditInit
    <2>2. entries \in EntryLists /\ auditLoad \in AuditLoads /\ filter \in Filters
      BY NothingAsked, NothingListed, AuditNumbers DEF AuditInit, Filters
    <2> QED
      BY <2>1, <2>2 DEF AuditInit, AuditTypeOK
  <1>2. InTrail
    BY NothingAsked, NothingListed, AuditNumbers DEF AuditInit, InTrail
  <1> QED
    BY <1>1, <1>2, NothingAsked, NothingListed
    DEF AuditInit, AuditInv, AnswerFits, ShownFits, LoadFits

(* The server.                                                             *)
LEMMA RecordedKeeps == AuditInv /\ Recorded => AuditInv'
  <1> SUFFICES ASSUME AuditInv, Recorded PROVE AuditInv'
    OBVIOUS
  <1>1. trail' = trail + 1 /\ trail < MaxTrail
        /\ UNCHANGED <<entries, auditRow, filter, nextCursor, loadingMore, auditLoad,
                       auditLoaded, misled>>
    BY DEF Recorded
  <1>2. AuditTypeOK'
    BY <1>1, AuditNumbers DEF AuditInv, AuditTypeOK
  <1>3. InTrail'
    <2>1. 1..trail \subseteq 1..trail'
      BY <1>1, AuditFields
    <2> QED
      BY <1>1, <2>1, AuditFields DEF AuditInv, InTrail
  <1> QED
    BY <1>1, <1>2, <1>3 DEF AuditInv, AnswerFits, ShownFits, LoadFits, Replacing, Gapless, Least

LEMMA AnsweredKeeps == AuditInv /\ AuditAnswered => AuditInv'
  <1> SUFFICES ASSUME AuditInv, AuditAnswered PROVE AuditInv'
    OBVIOUS
  <1> DEFINE f == auditLoad.of
             after == auditLoad.after
             hits == Hits(f, after)
             rows == FirstPage(hits)
             next == IF rows = hits THEN 0 ELSE Min(rows)
  <1>1. /\ auditLoad.at = "asked"
        /\ auditLoad' = [auditLoad EXCEPT !.at = "answered", !.rows = rows, !.next = next]
        /\ UNCHANGED <<trail, entries, auditRow, filter, nextCursor, loadingMore,
                       auditLoaded, misled>>
    BY DEF AuditAnswered
  <1>2. trail \in Nat /\ trail <= MaxTrail /\ after \in Nat /\ auditLoad \in AuditLoads
        /\ 1..trail \subseteq Entries
    BY AuditFields, AuditNumbers DEF Entries
  <1>3. /\ hits \in SUBSET Entries /\ hits \subseteq 1..trail
        /\ \A e \in hits : Matches(e, f) /\ (after = 0 \/ e < after)
        /\ \A e \in 1..trail : Matches(e, f) /\ (after = 0 \/ e < after) => e \in hits
    BY <1>2 DEF Hits
  <1> HIDE DEF hits
  <1>4. /\ rows \subseteq hits
        /\ \A r \in rows : \A e \in hits : r <= e => e \in rows
        /\ hits # {} => rows # {}
    BY <1>3, FirstPageFacts
  <1> HIDE DEF rows
  <1>5. next \in 0..MaxTrail /\ next <= trail /\ (next # 0 => Least(next, rows))
    <2>1. CASE rows = hits
      BY <1>2, <2>1, AuditNumbers
    <2>2. CASE rows # hits
      <3>1. rows # {} /\ rows \in SUBSET Nat /\ rows \subseteq 1..trail
        BY <1>3, <1>4, <2>2, AuditNumbers
      <3>2. next \in rows /\ \A y \in rows : next <= y
        BY <2>2, <3>1, MinInside
      <3>3. Least(next, rows)
        BY <3>2 DEF Least
      <3>4. next \in 1..trail
        BY <3>1, <3>2
      <3> HIDE DEF next
      <3> QED
        BY <1>2, <3>3, <3>4, AuditNumbers
    <2> QED
      BY <2>1, <2>2
  <1> HIDE DEF next
  <1>6. /\ auditLoad' \in AuditLoads /\ auditLoad'.at = "answered" /\ auditLoad'.rows = rows
        /\ auditLoad'.next = next /\ auditLoad'.of = f /\ auditLoad'.after = after
    BY <1>1, <1>2, <1>3, <1>4, <1>5 DEF AuditLoads
  <1>7. AuditTypeOK' /\ InTrail'
    BY <1>1, <1>3, <1>4, <1>5, <1>6 DEF AuditInv, AuditTypeOK, InTrail
  <1>8. Gapless(rows, f)
    <2> SUFFICES ASSUME NEW a \in rows, NEW b \in rows, NEW e \in Entries,
                        a <= e, e <= b, Matches(e, f)
                 PROVE  e \in rows
      BY <1>3, <1>4 DEF Gapless
    <2>1. e \in Nat /\ b \in 1..trail /\ (after = 0 \/ b < after) /\ e >= 1
      BY <1>3, <1>4, AuditNumbers DEF Entries
    <2>2. e \in 1..trail /\ (after = 0 \/ e < after)
      BY <1>2, <2>1
    <2> QED
      BY <1>3, <1>4, <2>2
  <1>9. ASSUME after # 0, NEW r \in rows, NEW e \in Entries, r <= e, e < after, Matches(e, f)
        PROVE  e \in rows
    <2>1. e \in 1..trail
      BY <1>2, <1>9 DEF AuditInv, InTrail, Entries
    <2> QED
      BY <1>3, <1>4, <1>9, <2>1
  <1>10. \A e \in rows : after # 0 => e < after
    BY <1>3, <1>4
  <1>11. AnswerFits'
    BY <1>5, <1>6, <1>8, <1>9, <1>10 DEF AnswerFits
  <1>12. ~misled' => ShownFits' /\ LoadFits'
    BY <1>1, <1>6 DEF AuditInv, ShownFits, LoadFits, Replacing, Gapless, Least
  <1> QED
    BY <1>7, <1>11, <1>12 DEF AuditInv

LEMMA AuditFailsKeeps == AuditInv /\ AuditFails => AuditInv'
  <1> SUFFICES ASSUME AuditInv, AuditFails PROVE AuditInv'
    OBVIOUS
  <1>1. /\ auditLoad.at = "asked" /\ auditLoad' \in AuditLoads
        /\ auditLoad'.at \in {"failed", "dead"} /\ auditLoad'.rows = auditLoad.rows
        /\ auditLoad'.after = auditLoad.after /\ auditLoad'.next = auditLoad.next
        /\ UNCHANGED <<trail, entries, auditRow, filter, nextCursor, loadingMore,
                       auditLoaded, misled>>
    BY DEF AuditFails, AuditInv, AuditTypeOK, AuditLoads
  <1> QED
    BY <1>1 DEF AuditInv, AuditTypeOK, InTrail, AnswerFits, ShownFits, LoadFits, Replacing, Gapless, Least

----------------------------------------------------------------------------
(* A page that follows on what is shown makes one list with it.            *)
LEMMA JoinedFits ==
    ASSUME AuditInv, ~misled, auditLoad.at = "answered",
           loadingMore => entries.at = "ready"
    PROVE  /\ Gapless(Joined.rows, filter)
           /\ auditLoad.next # 0 => Least(auditLoad.next, Joined.rows)
  <1> DEFINE rows == auditLoad.rows
             after == auditLoad.after
  <1>0. auditLoad.of = filter /\ Gapless(rows, filter)
        /\ (auditLoad.next # 0 => Least(auditLoad.next, rows))
    BY DEF AuditInv, LoadFits, AnswerFits
  <1>1. CASE ~loadingMore
    BY <1>0, <1>1 DEF Joined
  <1>2. CASE loadingMore
    <2>1. /\ Joined.rows = rows \cup entries.rows
          /\ Least(after, entries.rows) /\ Gapless(entries.rows, filter)
      BY <1>2 DEF Joined, AuditInv, LoadFits, ShownFits, Replacing
    <2>2. entries.rows \in SUBSET Entries /\ rows \in SUBSET Entries /\ after \in Nat /\ after # 0
      BY <2>1, AuditFields DEF Least, Entries
    <2>3. /\ \A e \in rows : e < after
          /\ \A r \in rows : \A e \in Entries :
                r <= e /\ e < after /\ Matches(e, filter) => e \in rows
      BY <1>0, <2>2 DEF AuditInv, AnswerFits
    <2>4. ASSUME NEW a \in rows \cup entries.rows, NEW b \in rows \cup entries.rows,
                 NEW e \in Entries, a <= e, e <= b, Matches(e, filter)
          PROVE  e \in rows \cup entries.rows
      <3>0. e \in Nat /\ a \in Nat /\ b \in Nat
        BY <2>2, AuditNumbers
      <3>1. CASE e < after
        <4>1. a \in rows
          BY <2>1, <2>2, <2>4, <3>0, <3>1 DEF Least
        <4> QED
          BY <2>3, <2>4, <3>1, <4>1
      <3>2. CASE after <= e
        <4>1. b \in entries.rows /\ after \in entries.rows
          BY <2>1, <2>2, <2>3, <2>4, <3>0, <3>2 DEF Least
        <4> QED
          BY <2>1, <2>4, <3>2, <4>1 DEF Gapless
      <3> QED
        BY <2>2, <3>0, <3>1, <3>2
    <2>5. \A e \in rows \cup entries.rows : Matches(e, filter)
      BY <1>0, <2>1 DEF Gapless
    <2>6. auditLoad.next # 0 => Least(auditLoad.next, rows \cup entries.rows)
      <3> SUFFICES ASSUME auditLoad.next # 0, NEW e \in entries.rows PROVE auditLoad.next <= e
        BY <1>0 DEF Least
      <3>1. auditLoad.next \in rows /\ auditLoad.next < after /\ after <= e
        BY <1>0, <2>1, <2>3 DEF Least
      <3> QED
        BY <2>2, <3>1, AuditNumbers
    <2> QED
      BY <2>1, <2>4, <2>5, <2>6 DEF Gapless
  <1> QED
    BY <1>1, <1>2

LEMMA AuditTickKeeps == AuditInv /\ AuditTick => AuditInv'
  <1> SUFFICES ASSUME AuditInv, AuditTick PROVE AuditInv'
    OBVIOUS
  <1> DEFINE applied == auditLoad.at \in {"answered", "failed"}
             free == auditLoad.at # "asked"
  <1>1. PICK first \in BOOLEAN :
        /\ first => free /\ ~(auditLoaded \/ applied)
        /\ entries' = IF first THEN AuditBegun(AuditDrained) ELSE AuditDrained
        /\ auditLoad' = IF first THEN FirstAsked(filter)
                        ELSE IF free THEN NoAuditLoad ELSE auditLoad
        /\ loadingMore' = (loadingMore /\ ~applied /\ ~first)
        /\ misled' = IF first THEN FALSE
                     ELSE \/ misled
                          \/ auditLoad.at = "dead"
                          \/ auditLoad.at = "answered" /\ loadingMore
                             /\ entries.at # "ready"
    BY DEF AuditTick
  <1>2. /\ auditLoaded' = (auditLoaded \/ applied)
        /\ nextCursor' = IF auditLoad.at = "answered" THEN auditLoad.next ELSE nextCursor
        /\ auditRow' = IF auditLoad.at = "answered"
                       THEN Min({auditRow, Max({1, Cardinality(Joined.rows)})})
                       ELSE auditRow
        /\ UNCHANGED <<trail, filter>>
    BY DEF AuditTick
  <1>3. /\ Joined \in EntryLists /\ Joined.at = "ready" /\ Joined.rows \in SUBSET Entries
        /\ Joined.rows \subseteq 1..trail
    BY AuditFields DEF Joined, EntryLists, AuditInv, InTrail
  <1>4. AuditDrained \in EntryLists /\ AuditDrained.rows \subseteq 1..trail
    BY <1>3, NothingListed, AuditFields DEF AuditDrained, AuditInv, InTrail
  <1>5. entries' \in EntryLists /\ entries'.rows \subseteq 1..trail
    BY <1>1, <1>4, NothingListed DEF AuditBegun
  <1>6. auditLoad' \in AuditLoads /\ auditLoad'.rows \subseteq 1..trail
        /\ auditLoad'.after <= trail /\ auditLoad'.next <= trail
    BY <1>1, NothingAsked, AuditFields DEF AuditInv, InTrail, AuditTypeOK
  <1>7. auditRow' \in 1..MaxTrail
    <2>1. CASE auditLoad.at = "answered"
      <3>1. Cardinality(Joined.rows) \in Nat
        <4>1. IsFiniteSet(Entries)
          BY FS_Interval, AuditNumbers DEF Entries
        <4> QED
          BY <1>3, <4>1, FS_Subset, FS_CardinalityType
      <3> DEFINE most == Max({1, Cardinality(Joined.rows)})
      <3>2. most \in Int /\ most >= 1
        <4>1. most = (IF 1 <= Cardinality(Joined.rows) THEN Cardinality(Joined.rows) ELSE 1)
          BY <3>1, MinMaxOfTwo
        <4> HIDE DEF most
        <4> QED
          BY <3>1, <4>1
      <3> HIDE DEF most
      <3>3. auditRow \in Int /\ auditRow >= 1 /\ auditRow <= MaxTrail
        BY AuditNumbers DEF AuditInv, AuditTypeOK
      <3>4. Min({auditRow, most}) = (IF auditRow <= most THEN auditRow ELSE most)
        BY <3>2, <3>3, MinMaxOfTwo
      <3>5. auditRow' = Min({auditRow, most})
        BY <1>2, <2>1 DEF most
      <3> QED
        BY <3>2, <3>3, <3>4, <3>5, AuditNumbers
    <2>2. CASE auditLoad.at # "answered"
      BY <1>2, <2>2 DEF AuditInv, AuditTypeOK
    <2> QED
      BY <2>1, <2>2
  <1>8. nextCursor' \in 0..MaxTrail /\ nextCursor' <= trail
    BY <1>2 DEF AuditInv, AuditTypeOK, AuditLoads, InTrail
  <1>9. loadingMore' \in BOOLEAN /\ auditLoaded' \in BOOLEAN /\ misled' \in BOOLEAN
    BY <1>1, <1>2 DEF AuditInv, AuditTypeOK
  <1>10. AuditTypeOK' /\ InTrail'
    BY <1>2, <1>5, <1>6, <1>7, <1>8, <1>9 DEF AuditInv, AuditTypeOK, InTrail
  <1>11. auditLoad'.at # "answered"
    BY <1>1, NothingAsked DEF AuditInv, AuditTypeOK
  <1>12. AnswerFits'
    BY <1>11 DEF AnswerFits
  <1>13. CASE first
    <2>1. auditLoad' = FirstAsked(filter) /\ ~loadingMore' /\ filter' = filter /\ filter \in Filters
      BY <1>1, <1>2, <1>13 DEF AuditInv, AuditTypeOK
    <2>2. ShownFits' /\ LoadFits'
      BY <2>1, NothingAsked DEF ShownFits, LoadFits, Replacing
    <2> QED
      BY <1>10, <1>12, <2>2 DEF AuditInv
  <1>14. CASE ~first
    <2> SUFFICES ASSUME ~misled' PROVE ShownFits' /\ LoadFits'
      BY <1>10, <1>12 DEF AuditInv
    <2>1. /\ ~misled /\ auditLoad.at # "dead" /\ filter' = filter
          /\ ~(auditLoad.at = "answered" /\ loadingMore /\ entries.at # "ready")
      BY <1>1, <1>2, <1>14
    <2>2. CASE auditLoad.at = "answered"
      <3>1. /\ Gapless(Joined.rows, filter)
            /\ auditLoad.next # 0 => Least(auditLoad.next, Joined.rows)
        BY <2>1, <2>2, JoinedFits
      <3>2. auditLoad' = NoAuditLoad /\ entries' = Joined /\ nextCursor' = auditLoad.next
        BY <1>1, <1>2, <1>14, <2>2 DEF AuditDrained
      <3> QED
        BY <2>1, <3>1, <3>2, NothingAsked DEF ShownFits, LoadFits, Gapless, Least
    <2>3. CASE auditLoad.at = "failed"
      <3>1. auditLoad' = NoAuditLoad /\ entries'.at = "failed"
        BY <1>1, <1>14, <2>3, NothingListed DEF AuditDrained
      <3> QED
        BY <3>1, NothingAsked DEF ShownFits, LoadFits
    <2>4. CASE auditLoad.at = "none"
      <3>1. auditLoad' = NoAuditLoad /\ entries' = entries /\ nextCursor' = nextCursor /\ ~Replacing
        BY <1>1, <1>2, <1>14, <2>4 DEF AuditDrained, Replacing
      <3> QED
        BY <2>1, <3>1, NothingAsked DEF AuditInv, ShownFits, LoadFits, Replacing, Gapless, Least
    <2>5. CASE auditLoad.at = "asked"
      <3>1. auditLoad' = auditLoad /\ entries' = entries /\ nextCursor' = nextCursor
            /\ loadingMore' = loadingMore
        BY <1>1, <1>2, <1>14, <2>5 DEF AuditDrained, AuditInv, AuditTypeOK
      <3> QED
        BY <2>1, <3>1 DEF AuditInv, ShownFits, LoadFits, Replacing, Gapless, Least
    <2> QED
      BY <2>1, <2>2, <2>3, <2>4, <2>5 DEF AuditInv, AuditTypeOK, AuditLoads
  <1> QED
    BY <1>13, <1>14

(* A reload under the filter f, which the screen shows from here on.       *)
LEMMA ReloadKeeps ==
    ASSUME AuditInv, NEW f \in Filters, Reload(f), filter' = f, auditRow' \in 1..MaxTrail
    PROVE  AuditInv'
  <1>1. nextCursor' = 0 /\ UNCHANGED <<trail, auditLoaded>>
    BY DEF Reload
  <1>2. CASE auditLoad.at = "none"
    <2>1. auditLoad' = FirstAsked(f) /\ loadingMore' = FALSE /\ entries' = AuditBegun(entries)
          /\ misled' = FALSE
      BY <1>2 DEF Reload
    <2>2. entries' \in EntryLists /\ entries'.rows \subseteq 1..trail
      BY <2>1, NothingListed, AuditFields DEF AuditBegun, AuditInv, InTrail
    <2>3. AuditTypeOK' /\ InTrail'
      <3>1. auditLoad' \in AuditLoads /\ auditLoad'.rows = {} /\ auditLoad'.after = 0 /\ auditLoad'.next = 0
        BY <2>1, NothingAsked
      <3>2. trail \in Nat /\ 0 \in 0..MaxTrail /\ trail' = trail
        BY <1>1, AuditFields, AuditNumbers
      <3>3. InTrail'
        BY <1>1, <2>2, <3>1, <3>2 DEF InTrail
      <3>4. AuditTypeOK'
        BY <1>1, <2>1, <2>2, <3>1, <3>2 DEF AuditInv, AuditTypeOK
      <3> QED
        BY <3>3, <3>4
    <2> QED
      BY <2>1, <2>3, NothingAsked DEF AuditInv, AnswerFits, ShownFits, LoadFits, Replacing
  <1>3. CASE auditLoad.at # "none"
    <2>1. UNCHANGED <<auditLoad, loadingMore, entries>> /\ misled' = (misled \/ f # filter)
      BY <1>3 DEF Reload
    <2>2. AuditTypeOK' /\ InTrail'
      BY <1>1, <2>1, AuditFields, AuditNumbers DEF AuditInv, AuditTypeOK, InTrail
    <2>3. AnswerFits'
      BY <2>1 DEF AuditInv, AnswerFits, Gapless, Least
    <2>4. ~misled' => ~misled /\ filter' = filter
      BY <2>1
    <2>5. ~misled' => ShownFits' /\ LoadFits'
      BY <1>1, <2>1, <2>4 DEF AuditInv, ShownFits, LoadFits, Replacing, Gapless, Least
    <2> QED
      BY <2>2, <2>3, <2>5 DEF AuditInv
  <1> QED
    BY <1>2, <1>3

LEMMA AuditKeysKeep ==
    AuditInv /\ (AuditRefresh \/ CycleFilter \/ LoadMore \/ AuditSelect) => AuditInv'
  <1>0. ASSUME AuditInv PROVE filter \in Filters /\ auditRow \in 1..MaxTrail
    BY <1>0 DEF AuditInv, AuditTypeOK
  <1>1. ASSUME AuditInv, AuditRefresh PROVE AuditInv'
    BY <1>0, <1>1, ReloadKeeps DEF AuditRefresh
  <1>2. ASSUME AuditInv, CycleFilter PROVE AuditInv'
    <2>1. filter' \in Filters
      <3>1. filter \in Int /\ 0 <= filter /\ filter <= Families
        BY <1>0, <1>2, AuditNumbers DEF Filters
      <3>2. filter' = (filter + 1) % (Families + 1)
        BY <1>2 DEF CycleFilter
      <3> QED
        BY <3>1, <3>2, AuditNumbers DEF Filters
    <2>2. auditRow' \in 1..MaxTrail /\ Reload(filter')
      BY <1>2, AuditNumbers DEF CycleFilter
    <2> QED
      BY <1>2, <2>1, <2>2, ReloadKeeps
  <1>3. ASSUME AuditInv, LoadMore PROVE AuditInv'
    <2>1. /\ nextCursor # 0 /\ auditLoad.at = "none"
          /\ auditLoad' = [FirstAsked(filter) EXCEPT !.after = nextCursor]
          /\ loadingMore' = TRUE
          /\ UNCHANGED <<trail, entries, auditRow, filter, nextCursor, auditLoaded, misled>>
      BY <1>3 DEF LoadMore
    <2>2. /\ auditLoad' \in AuditLoads /\ auditLoad'.at = "asked" /\ auditLoad'.of = filter
          /\ auditLoad'.after = nextCursor /\ auditLoad'.rows = {} /\ auditLoad'.next = 0
      <3>1. FirstAsked(filter) \in AuditLoads /\ FirstAsked(filter).at = "asked"
            /\ FirstAsked(filter).of = filter /\ FirstAsked(filter).rows = {}
            /\ FirstAsked(filter).next = 0
        BY <1>0, <1>3, NothingAsked
      <3>2. nextCursor \in 0..MaxTrail
        BY <1>3 DEF AuditInv, AuditTypeOK
      <3> QED
        BY <2>1, <3>1, <3>2 DEF AuditLoads
    <2>3. AuditTypeOK' /\ InTrail' /\ AnswerFits'
      BY <1>3, <2>1, <2>2, AuditFields DEF AuditInv, AuditTypeOK, InTrail, AnswerFits
    <2>4. ~Replacing /\ ~Replacing'
      BY <2>1 DEF Replacing
    <2> QED
      BY <1>3, <2>1, <2>2, <2>3, <2>4 DEF AuditInv, ShownFits, LoadFits, Gapless, Least
  <1>4. ASSUME AuditInv, AuditSelect PROVE AuditInv'
    <2>1. UNCHANGED <<trail, entries, filter, nextCursor, loadingMore, auditLoad, auditLoaded, misled>>
      BY <1>4 DEF AuditSelect
    <2>2. auditRow' \in 1..MaxTrail
      <3>1. entries.rows \in SUBSET Entries /\ auditRow \in Nat /\ auditRow >= 1 /\ auditRow <= MaxTrail
        BY <1>4, AuditFields, AuditNumbers DEF AuditInv, AuditTypeOK
      <3>2. Cardinality(entries.rows) \in Nat /\ Cardinality(entries.rows) <= MaxTrail
        <4>1. IsFiniteSet(Entries) /\ Cardinality(Entries) = MaxTrail
          BY FS_Interval, AuditNumbers DEF Entries
        <4> QED
          BY <3>1, <4>1, FS_Subset, FS_CardinalityType
      <3> QED
        BY <1>4, <3>1, <3>2, AuditNumbers DEF AuditSelect
    <2> QED
      BY <1>4, <2>1, <2>2 DEF AuditInv, AuditTypeOK, InTrail, AnswerFits, ShownFits, LoadFits,
                              Replacing, Gapless, Least
  <1> QED
    BY <1>1, <1>2, <1>3, <1>4

LEMMA AuditKept == AuditInv /\ [AuditNext]_auditVars => AuditInv'
  <1>1. AuditInv /\ UNCHANGED auditVars => AuditInv'
    BY DEF auditVars, AuditInv, AuditTypeOK, InTrail, AnswerFits, ShownFits, LoadFits,
           Replacing, Gapless, Least
  <1> QED
    BY <1>1, RecordedKeeps, AnsweredKeeps, AuditFailsKeeps, AuditTickKeeps, AuditKeysKeep
    DEF AuditNext

LEMMA AuditAlways == AuditSpec => []AuditInv
  BY AuditInitial, AuditKept, PTL DEF AuditSpec

(* The types of the audit log's screen and of its loads.                   *)
THEOREM AuditTypes == AuditSpec => []AuditTypeOK
  <1>1. AuditInv => AuditTypeOK
    BY DEF AuditInv
  <1> QED
    BY <1>1, AuditAlways, PTL

(* What is shown is what the filter selects, without a gap, and the cursor *)
(* is where it ends, for any number of filters and any length of a page.   *)
THEOREM AuditIsHonest == AuditSpec => []AuditHonest
  <1>1. ASSUME AuditInv PROVE AuditHonest
    <2> SUFFICES ASSUME Settled, ~misled
                 PROVE  /\ entries.rows = {e \in Min(entries.rows)..Max(entries.rows) : Matches(e, filter)}
                        /\ nextCursor \in {0, Min(entries.rows)}
      BY DEF AuditHonest
    <2> DEFINE rows == entries.rows
    <2>1. rows \in SUBSET (1..MaxTrail) /\ rows \in SUBSET Nat /\ rows # {}
      BY <1>1, AuditFields, AuditNumbers DEF Settled, Entries
    <2>2. Gapless(rows, filter) /\ (nextCursor # 0 => Least(nextCursor, rows))
      BY <1>1 DEF Settled, AuditInv, ShownFits, Replacing
    <2> HIDE DEF rows
    <2>3. Min(rows) \in rows /\ \A y \in rows : Min(rows) <= y
      BY <2>1, MinInside
    <2>4. Max(rows) \in rows /\ \A y \in rows : Max(rows) >= y
      BY <2>1, MaxInside, AuditNumbers
    <2>5. \A e \in rows : e \in Min(rows)..Max(rows) /\ Matches(e, filter)
      BY <2>1, <2>2, <2>3, <2>4 DEF Gapless
    <2>6. ASSUME NEW e \in Min(rows)..Max(rows), Matches(e, filter) PROVE e \in rows
      <3>1. e \in Entries /\ Min(rows) <= e /\ e <= Max(rows)
        <4>1. Min(rows) \in Nat /\ Max(rows) \in Nat /\ Min(rows) >= 1 /\ Max(rows) <= MaxTrail
          <5>1. Min(rows) \in 1..MaxTrail /\ Max(rows) \in 1..MaxTrail
            BY <2>1, <2>3, <2>4
          <5> QED
            BY <5>1, AuditNumbers
        <4> QED
          BY <4>1, AuditNumbers DEF Entries
      <3> QED
        BY <2>2, <2>3, <2>4, <2>6, <3>1 DEF Gapless
    <2>7. ASSUME nextCursor # 0 PROVE nextCursor = Min(rows)
      <3>1. nextCursor \in rows /\ nextCursor <= Min(rows) /\ Min(rows) <= nextCursor
        BY <2>2, <2>3, <2>7 DEF Least
      <3>2. nextCursor \in Nat /\ Min(rows) \in Nat
        BY <2>1, <2>3, <3>1
      <3> QED
        BY <3>1, <3>2
    <2> QED
      BY <2>5, <2>6, <2>7 DEF rows
  <1> QED
    BY <1>1, AuditAlways, PTL

------------------------------------------------------------------------------
(* CallSessions: the pane and the selected call.                           *)

LEMMA CallNumbers ==
    /\ MaxCalls \in Nat /\ MaxCalls >= 1
    /\ NoCall \notin Calls
    /\ 1 \in 1..MaxCalls
  BY CallsAssumption DEF Calls, NoCall

(* Rows of sessions are counted by a number of sessions at most.           *)
LEMMA RowCount ==
    ASSUME NEW rows \in SUBSET Calls
    PROVE  Cardinality(rows) \in 0..MaxCalls
  <1>1. IsFiniteSet(Calls) /\ Cardinality(Calls) = MaxCalls
    BY FS_Interval, CallNumbers DEF Calls
  <1> QED
    BY <1>1, FS_Subset, FS_CardinalityType, CallNumbers

(* The selection, clamped to a list.                                       *)
LEMMA ClampedRow ==
    ASSUME NEW rows \in SUBSET Calls, NEW k \in 1..MaxCalls
    PROVE  Min({k, Max({1, Cardinality(rows)})}) \in 1..MaxCalls
  <1>1. Cardinality(rows) \in 0..MaxCalls
    BY RowCount
  <1>2. PICK n \in 0..MaxCalls : n = Cardinality(rows)
    BY <1>1
  <1>3. Max({1, n}) = IF 1 <= n THEN n ELSE 1
    BY MinMaxOfTwo
  <1>4. PICK m \in 1..MaxCalls : m = Max({1, n})
    BY <1>3, CallNumbers
  <1>5. Min({k, m}) = IF k <= m THEN k ELSE m
    BY MinMaxOfTwo
  <1> QED
    BY <1>2, <1>4, <1>5

LEMMA BareReplies ==
    ASSUME NEW at \in {"idle", "loading", "ready", "failed"}
    PROVE  NoCalls(at) \in CallLists /\ Nothing(at) \in Details
  BY DEF NoCalls, Nothing, CallLists, Details

LEMMA BareLoads ==
    ASSUME NEW at \in {"none", "asked", "failed", "dead"}
    PROVE  NoCalls(at) \in CallLoads /\ Nothing(at) \in Fetches
           /\ NoCalls(at).at = at /\ Nothing(at).at = at
  BY DEF NoCalls, Nothing, CallLoads, Fetches

------------------------------------------------------------------------------
(* The pane, and what is on its way to it, is of the session that the pane *)
(* is meant for; a refresh makes it meant for none, so that the next tick  *)
(* asks again. Nothing is shown while a timeline is on its way.            *)
PaneOfLabel ==
    /\ detailFor # NoCall /\ detail.at = "ready" => detail.of = detailFor
    /\ detailFor # NoCall /\ detailLoad.at # "none" => detailLoad.of = detailFor
    /\ detailLoad.at # "none" => detail.at # "ready"

CallsInv == CallsTypeOK /\ PaneOfLabel

LEMMA CallsInitial == CallsInit => CallsInv
  <1> SUFFICES ASSUME CallsInit PROVE CallsInv
    OBVIOUS
  <1>1. calls \in 0..MaxCalls /\ callRow \in 1..MaxCalls
    BY CallNumbers DEF CallsInit
  <1>2. /\ callList \in CallLists /\ callLoad \in CallLoads
        /\ detail \in Details /\ detailLoad \in Fetches
    BY BareReplies, BareLoads DEF CallsInit
  <1>3. callsFront \in BOOLEAN /\ callsLoaded \in BOOLEAN /\ detailFor = NoCall
    BY DEF CallsInit
  <1>4. PaneOfLabel
    BY <1>3 DEF CallsInit, PaneOfLabel, Nothing
  <1> QED
    BY <1>1, <1>2, <1>3, <1>4 DEF CallsInv, CallsTypeOK

LEMMA SelectedIsCall ==
    ASSUME NEW l \in CallLists, NEW k
    PROVE  CallAt(l, k) \in Calls \cup {NoCall}
  <1>1. l.rows \subseteq Calls
    BY DEF CallLists
  <1> QED
    BY <1>1 DEF CallAt

LEMMA CallsDrainedTypes ==
    ASSUME CallsInv
    PROVE  CallsDrained \in CallLists /\ CallsBegun(CallsDrained) \in CallLists
           /\ CallsBegun(callList) \in CallLists
  <1>1. CallsDrained \in CallLists
    <2>1. CASE callLoad.at = "answered"
      BY <2>1 DEF CallsDrained, CallsInv, CallsTypeOK, CallLoads, CallLists
    <2>2. CASE callLoad.at = "failed"
      BY <2>2, BareReplies DEF CallsDrained
    <2>3. CASE callLoad.at \notin {"answered", "failed"}
      BY <2>3 DEF CallsDrained, CallsInv, CallsTypeOK
    <2> QED
      BY <2>1, <2>2, <2>3
  <1> QED
    BY <1>1, BareReplies DEF CallsBegun, CallsInv, CallsTypeOK

(* What draining the timeline's channel leaves on the pane.                *)
LEMMA PaneDrained ==
    ASSUME CallsInv
    PROVE  /\ DetailDrained \in Details
           /\ ~DetailFree => DetailDrained = detail
           /\ DetailDrained.at = "ready" /\ detailFor # NoCall =>
                DetailDrained.of = detailFor
  <1>1. CASE detailLoad.at = "answered"
    <2>1. DetailDrained = [detailLoad EXCEPT !.at = "ready"]
      BY <1>1 DEF DetailDrained
    <2> QED
      BY <1>1, <2>1
      DEF CallsInv, CallsTypeOK, PaneOfLabel, Fetches, Details, DetailFree
  <1>2. CASE detailLoad.at \in {"failed", "dead"}
    <2>1. DetailDrained = Nothing("failed")
      BY <1>2 DEF DetailDrained
    <2> QED
      BY <1>2, <2>1, BareReplies DEF Nothing, DetailFree
  <1>3. CASE detailLoad.at \notin {"answered", "failed", "dead"}
    <2>1. DetailDrained = detail
      BY <1>3 DEF DetailDrained
    <2> QED
      BY <2>1 DEF CallsInv, CallsTypeOK, PaneOfLabel
  <1> QED
    BY <1>1, <1>2, <1>3

LEMMA SyncKeeps ==
    ASSUME CallsInv, NEW c \in Calls \cup {NoCall}, SyncDetail(c)
    PROVE  /\ detail' \in Details /\ detailLoad' \in Fetches
           /\ detailFor' \in Calls \cup {NoCall}
           /\ PaneOfLabel'
           /\ detail'.at = "ready" /\ c # NoCall => detail'.of = c
  <1>1. CASE c # NoCall /\ DetailFree /\ detailFor # c
    <2>1. /\ detailFor' = c
          /\ detail' = Nothing("loading")
          /\ detailLoad' = [at |-> "asked", of |-> c]
      BY <1>1 DEF SyncDetail
    <2>2. detail' \in Details /\ detail'.at = "loading"
      BY <2>1, BareReplies DEF Nothing
    <2>3. detailLoad' \in Fetches /\ detailLoad'.of = c
      BY <2>1 DEF Fetches
    <2> QED
      BY <2>1, <2>2, <2>3 DEF PaneOfLabel
  <1>2. CASE ~(c # NoCall /\ DetailFree /\ detailFor # c)
    <2>1. /\ detail' = DetailDrained
          /\ detailLoad' = (IF DetailFree THEN Nothing("none") ELSE detailLoad)
          /\ detailFor' = detailFor
      BY <1>2 DEF SyncDetail
    <2>2. /\ detailLoad' \in Fetches
          /\ DetailFree => detailLoad'.at = "none"
      BY <2>1, BareLoads DEF CallsInv, CallsTypeOK
    <2>3. ~DetailFree => detail' = detail /\ detailLoad' = detailLoad
                         /\ detailLoad.at # "none"
      BY <2>1, PaneDrained DEF DetailFree
    <2>4. PaneOfLabel'
      BY <2>1, <2>2, <2>3, PaneDrained DEF CallsInv, PaneOfLabel
    <2> QED
      BY <1>2, <2>1, <2>2, <2>3, <2>4, PaneDrained
      DEF CallsInv, CallsTypeOK, PaneOfLabel
  <1> QED
    BY <1>1, <1>2

LEMMA CallsTickKeeps ==
    ASSUME CallsInv, CallsTick
    PROVE  /\ CallsInv'
           /\ callsFront =>
                LET c == CallAt(callList', callRow') IN
                detail'.at = "ready" /\ c # NoCall => detail'.of = c
  <1>1. callList' \in CallLists
    BY CallsDrainedTypes DEF CallsTick
  <1>2. callLoad' \in CallLoads /\ callsLoaded' \in BOOLEAN
    BY BareLoads DEF CallsTick, CallsInv, CallsTypeOK
  <1>3. callRow' \in 1..MaxCalls
    BY ClampedRow DEF CallsTick, CallsInv, CallsTypeOK, CallLoads
  <1>4. calls' = calls /\ callsFront' = callsFront
    BY DEF CallsTick
  <1>5. SyncDetail(IF callsFront THEN CallAt(callList', callRow') ELSE NoCall)
    BY DEF CallsTick
  <1>6. (IF callsFront THEN CallAt(callList', callRow') ELSE NoCall)
          \in Calls \cup {NoCall}
    BY <1>1, SelectedIsCall
  <1>7. /\ detail' \in Details /\ detailLoad' \in Fetches
        /\ detailFor' \in Calls \cup {NoCall}
        /\ PaneOfLabel'
    BY <1>5, <1>6, SyncKeeps
  <1>8. CallsInv'
    BY <1>1, <1>2, <1>3, <1>4, <1>7 DEF CallsInv, CallsTypeOK
  <1>9. ASSUME callsFront, NEW c, c = CallAt(callList', callRow')
        PROVE  detail'.at = "ready" /\ c # NoCall => detail'.of = c
    BY <1>5, <1>6, <1>9, SyncKeeps
  <1> QED
    BY <1>8, <1>9

LEMMA CallsStep == CallsInv /\ [CallsNext]_callsVars => CallsInv'
  <1> SUFFICES ASSUME CallsInv, [CallsNext]_callsVars PROVE CallsInv'
    OBVIOUS
  <1>1. CASE CallBegins
    BY <1>1, CallNumbers DEF CallBegins, CallsInv, CallsTypeOK, PaneOfLabel
  <1>2. CASE CallLoadEnds
    <2>1. [at |-> "answered", rows |-> 1..calls] \in CallLoads
      BY CallNumbers DEF CallLoads, Calls, CallsInv, CallsTypeOK
    <2>2. callLoad' \in CallLoads
      BY <1>2, <2>1, BareLoads DEF CallLoadEnds
    <2> QED
      BY <1>2, <2>2 DEF CallLoadEnds, CallsInv, CallsTypeOK, PaneOfLabel
  <1>3. CASE DetailFetched
    <2>1. PICK at \in {"answered", "failed", "dead"} :
            detailLoad' = [detailLoad EXCEPT !.at = at]
      BY <1>3 DEF DetailFetched
    <2>2. /\ detailLoad' \in Fetches /\ detailLoad'.of = detailLoad.of
          /\ detailLoad.at # "none"
      BY <1>3, <2>1 DEF DetailFetched, CallsInv, CallsTypeOK, Fetches
    <2> QED
      BY <1>3, <2>2 DEF DetailFetched, CallsInv, CallsTypeOK, PaneOfLabel
  <1>4. CASE CallsTick
    BY <1>4, CallsTickKeeps
  <1>5. CASE CallsRefresh
    <2>1. callLoad' \in CallLoads /\ callList' \in CallLists
      BY <1>5, BareLoads, CallsDrainedTypes DEF CallsRefresh, CallsInv, CallsTypeOK
    <2> QED
      BY <1>5, <2>1 DEF CallsRefresh, CallsInv, CallsTypeOK, PaneOfLabel
  <1>6. CASE CallsSelect
    <2>1. callList.rows \in SUBSET Calls
      BY DEF CallsInv, CallsTypeOK, CallLists
    <2>2. callRow' \in 1..MaxCalls
      BY <1>6, <2>1, RowCount, CallNumbers DEF CallsSelect, CallsInv, CallsTypeOK
    <2> QED
      BY <1>6, <2>2 DEF CallsSelect, CallsInv, CallsTypeOK, PaneOfLabel
  <1>7. CASE CallsNavigate
    BY <1>7 DEF CallsNavigate, CallsInv, CallsTypeOK, PaneOfLabel
  <1>8. CASE UNCHANGED callsVars
    BY <1>8 DEF callsVars, CallsInv, CallsTypeOK, PaneOfLabel
  <1> QED
    BY <1>1, <1>2, <1>3, <1>4, <1>5, <1>6, <1>7, <1>8 DEF CallsNext

LEMMA CallsAlways == CallsSpec => []CallsInv
  BY CallsInitial, CallsStep, PTL DEF CallsSpec

(* The variables keep their types; the selection stays a row of the list.  *)
THEOREM CallsTypes == CallsSpec => []CallsTypeOK
  BY CallsAlways, PTL DEF CallsInv

(* Whatever moves the selection or renumbers the rows, and however late a  *)
(* timeline comes, the one on the pane is of the selected session after    *)
(* every tick in front (sync_detail).                                      *)
THEOREM PaneFollows == CallsSpec => PaneInStep
  <1>1. CallsInv /\ [CallsNext]_callsVars =>
          [CallsTick /\ callsFront =>
             LET c == CallAt(callList', callRow') IN
             detail'.at = "ready" /\ c # NoCall => detail'.of = c]_callsVars
    BY CallsTickKeeps
  <1> QED
    BY <1>1, CallsAlways, PTL DEF CallsSpec, PaneInStep

------------------------------------------------------------------------------
(* StatsView: the load of the selected window.                             *)

(* The task whose channel is held asked for the window that is selected:   *)
(* another window is another task.                                         *)
HeldIsForWindow == statsRx # 0 => asks[statsRx].of = window

StatsInv == StatsTypeOK /\ HeldIsForWindow

LEMMA WeekIsAWindow == Week \in AllWindows /\ 0 \notin AllWindows
  BY StatsAssumption DEF Week, AllWindows

LEMMA StatsInitial == StatsInit => StatsInv
  <1> SUFFICES ASSUME StatsInit PROVE StatsInv
    OBVIOUS
  <1>1. Unmade \in Asks
    BY StatsAssumption DEF Unmade, Asks, AllWindows
  <1>2. asks \in [Tasks -> Asks] /\ statsRx = 0
    BY <1>1 DEF StatsInit
  <1>3. made \in 0..MaxAsks /\ statsRx \in 0..made
    BY StatsAssumption DEF StatsInit
  <1>4. window \in AllWindows /\ overview \in Overviews /\ statsLoaded \in BOOLEAN
    BY WeekIsAWindow DEF StatsInit, Overviews
  <1> QED
    BY <1>2, <1>3, <1>4 DEF StatsInv, StatsTypeOK, HeldIsForWindow

LEMMA HeldTask ==
    ASSUME StatsInv, statsRx # 0
    PROVE  statsRx \in Tasks /\ asks[statsRx] \in Asks
  BY StatsAssumption DEF StatsInv, StatsTypeOK, Tasks

LEMMA DrainedTypes ==
    ASSUME StatsInv
    PROVE  OverviewDrained \in Overviews /\ StatsBegun(OverviewDrained) \in Overviews
           /\ StatsBegun(overview) \in Overviews
  <1>1. OverviewDrained \in Overviews
    <2>1. CASE Held = "answered"
      <3>1. statsRx # 0
        BY <2>1 DEF Held
      <3>2. asks[statsRx].of \in AllWindows
        BY <3>1, HeldTask DEF Asks
      <3> QED
        BY <2>1, <3>2 DEF OverviewDrained, Overviews
    <2>2. CASE Held # "answered"
      BY <2>2 DEF OverviewDrained, StatsInv, StatsTypeOK, Overviews
    <2> QED
      BY <2>1, <2>2
  <1> QED
    BY <1>1 DEF StatsBegun, StatsInv, StatsTypeOK, Overviews

(* A load of the window that is selected then keeps the invariant.         *)
LEMMA LoadKeeps ==
    ASSUME StatsInv, StartLoad(window'), window' \in AllWindows,
           overview' \in Overviews, statsLoaded' \in BOOLEAN
    PROVE  StatsInv'
  <1>1. made + 1 \in Tasks /\ made' \in 0..MaxAsks /\ statsRx' \in 0..made'
    BY StatsAssumption DEF StartLoad, StatsInv, StatsTypeOK, Tasks
  <1>2. asks' \in [Tasks -> Asks] /\ asks'[made + 1].of = window'
    BY <1>1 DEF StartLoad, StatsInv, StatsTypeOK, Asks
  <1> QED
    BY <1>1, <1>2 DEF StatsInv, StatsTypeOK, HeldIsForWindow, StartLoad

LEMMA StatsStep == StatsInv /\ [StatsNext]_statsVars => StatsInv'
  <1> SUFFICES ASSUME StatsInv, [StatsNext]_statsVars PROVE StatsInv'
    OBVIOUS
  <1>1. CASE AskEnds
    <2>1. PICK t \in 1..made, at \in {"answered", "failed", "dead"} :
            asks' = [asks EXCEPT ![t].at = at]
      BY <1>1 DEF AskEnds
    <2>2. t \in Tasks
      BY StatsAssumption DEF StatsInv, StatsTypeOK, Tasks
    <2>3. asks' \in [Tasks -> Asks]
      BY <2>1, <2>2 DEF StatsInv, StatsTypeOK, Asks
    <2>4. statsRx # 0 => asks'[statsRx].of = asks[statsRx].of
      BY <2>1, HeldTask DEF StatsInv, StatsTypeOK
    <2> QED
      BY <1>1, <2>3, <2>4 DEF AskEnds, StatsInv, StatsTypeOK, HeldIsForWindow
  <1>2. CASE StatsTick
    <2>1. window' = window /\ window \in AllWindows /\ overview' \in Overviews
          /\ statsLoaded' \in BOOLEAN
      BY <1>2, DrainedTypes DEF StatsTick, StatsInv, StatsTypeOK
    <2>2. CASE StartLoad(window)
      BY <2>1, <2>2, LoadKeeps
    <2>3. CASE statsRx' \in {statsRx, 0} /\ UNCHANGED <<asks, made>>
      BY <2>1, <2>3, StatsAssumption DEF StatsInv, StatsTypeOK, HeldIsForWindow
    <2> QED
      BY <1>2, <2>2, <2>3 DEF StatsTick
  <1>3. CASE StatsRefresh
    BY <1>3, LoadKeeps, DrainedTypes DEF StatsRefresh, StatsInv, StatsTypeOK
  <1>4. CASE CycleWindow
    <2>1. window' \in AllWindows
      BY <1>4, StatsAssumption DEF CycleWindow, StatsInv, StatsTypeOK, AllWindows
    <2> QED
      BY <1>4, <2>1, LoadKeeps, DrainedTypes DEF CycleWindow, StatsInv, StatsTypeOK
  <1>5. CASE UNCHANGED statsVars
    BY <1>5 DEF StatsInv, StatsTypeOK, HeldIsForWindow, statsVars
  <1> QED
    BY <1>1, <1>2, <1>3, <1>4, <1>5 DEF StatsNext

LEMMA StatsAlways == StatsSpec => []StatsInv
  BY StatsInitial, StatsStep, PTL DEF StatsSpec

(* The variables keep their types.                                         *)
THEOREM StatsTypes == StatsSpec => []StatsTypeOK
  BY StatsAlways, PTL DEF StatsInv

(* Only a tick shows an overview, and the one it shows was asked for with  *)
(* the window that is still selected.                                      *)
LEMMA ShowsWindow ==
    ASSUME StatsInv, [StatsNext]_statsVars, overview' # overview,
           overview'.at = "ready"
    PROVE  overview'.of = window'
  <1>1. \A o : o # StatsBegun(o) => StatsBegun(o).at # "ready"
    BY DEF StatsBegun
  <1>2. StatsTick
    BY <1>1 DEF StatsNext, AskEnds, StatsRefresh, CycleWindow, statsVars
  <1>3. OverviewDrained # overview /\ overview' = OverviewDrained
    BY <1>1, <1>2 DEF StatsTick
  <1>4. Held = "answered" /\ overview'.of = asks[statsRx].of
    BY <1>3 DEF OverviewDrained
  <1>5. statsRx # 0
    BY <1>4 DEF Held
  <1> QED
    BY <1>2, <1>4, <1>5 DEF StatsTick, StatsInv, HeldIsForWindow

(* Whatever the order in which the answers of any number of loads come, an *)
(* overview that is shown is of the window that is selected (start_load).  *)
THEOREM LatestWins == StatsSpec => LatestWindowWins
  <1>1. StatsInv /\ [StatsNext]_statsVars =>
          [overview' # overview /\ overview'.at = "ready" =>
             overview'.of = window']_statsVars
    BY ShowsWindow
  <1> QED
    BY <1>1, StatsAlways, PTL DEF StatsSpec, LatestWindowWins

------------------------------------------------------------------------------
(* BoothStatus: reports, by poll and by socket.                            *)

LEMMA StatusNumbers ==
    /\ MaxBeat \in Nat /\ MaxFrames \in Nat
    /\ \A b \in Beats : b \in Int
  BY StatusAssumption DEF Beats

LEMMA ReportFields ==
    /\ NoReport \in Reports
    /\ beat \in Beats /\ beaten \in BOOLEAN /\ installation \in Said => Report \in Reports
    /\ \A at \in {"idle", "loading", "ready", "failed"} :
         NoStatus(at) \in Statuses /\ NoStatus(at).at = at
    /\ \A at \in {"none", "asked", "failed", "dead"} :
         NoStatus(at) \in Polls /\ NoStatus(at).at = at
  <1>1. NoReport \in Reports
    BY StatusAssumption DEF NoReport, Reports, Beats, Said
  <1>2. beat \in Beats /\ beaten \in BOOLEAN /\ installation \in Said => Report \in Reports
    BY StatusAssumption DEF Report, Reports, Beats, Said
  <1> QED
    BY <1>1, <1>2 DEF NoStatus, Statuses, Polls

LEMMA ApplyTypes ==
    ASSUME NEW s \in Statuses, NEW r \in Reports
    PROVE  /\ ApplyStatus(s, r) \in Statuses
           /\ ApplyStatus(s, r).at = "ready"
  <1>1. CASE s.at # "ready"
    <2>1. ApplyStatus(s, r) = [at |-> "ready", value |-> r]
      BY <1>1 DEF ApplyStatus
    <2> QED
      BY <2>1 DEF Statuses
  <1>2. CASE s.at = "ready" /\ (Silent(s, r) \/ r.upd < s.value.upd)
    BY <1>2 DEF ApplyStatus
  <1>3. CASE s.at = "ready" /\ ~(Silent(s, r) \/ r.upd < s.value.upd)
    <2> DEFINE inst == IF r.inst = "none" THEN s.value.inst ELSE r.inst
    <2>1. s.value \in Reports /\ inst \in Said
      BY DEF Statuses, Reports
    <2> HIDE DEF inst
    <2>2. [r EXCEPT !.inst = inst] \in Reports
      BY <2>1 DEF Reports
    <2>3. ApplyStatus(s, r) = [s EXCEPT !.value = [r EXCEPT !.inst = inst]]
      BY <1>3 DEF ApplyStatus, inst
    <2> QED
      BY <1>3, <2>2, <2>3 DEF Statuses
  <1> QED
    BY <1>1, <1>2, <1>3

(* What applying one report after the other comes to, by steps.            *)
LEMMA ApplyByStep ==
    ASSUME NEW taken \in Seq(Reports), NEW base \in Statuses, NEW I, base \in I[0],
           \A k \in 1..Len(taken) : \A s \in I[k - 1] : ApplyStatus(s, taken[k]) \in I[k]
    PROVE  FoldLeft(ApplyStatus, base, taken) \in I[Len(taken)]
  <1> DEFINE n == Len(taken)
             step == [k \in 1..n |-> [s \in Statuses |-> ApplyStatus(s, taken[k])]]
             Eq(g) == g = [s \in SUBSET DOMAIN taken |->
                             IF s = {} THEN base ELSE ApplyStatus(g[s \ {Max(s)}], taken[Max(s)])]
             iter == CHOOSE g : Eq(g)
  <1>1. n \in Nat /\ DOMAIN taken = 1..n /\ \A k \in 1..n : taken[k] \in Reports
    BY LenProperties, ElementOfSeq
  <1>2. step \in [1..n -> [Statuses -> Statuses]]
    BY <1>1, ApplyTypes
  <1>3. PICK g \in [SUBSET (1..n) -> Statuses] : Walks(g, n, base, step)
    <2> HIDE DEF step, n
    <2> QED
      BY <1>1, <1>2, WalkExists
  <1>4. Eq(g)
    <2>1. ASSUME NEW s \in SUBSET (1..n), s # {}
          PROVE  step[Max(s)][g[s \ {Max(s)}]] = ApplyStatus(g[s \ {Max(s)}], taken[Max(s)])
      <3>1. Max(s) \in 1..n
        BY <1>1, <2>1, MaxInside
      <3> QED
        BY <3>1
    <2> QED
      BY <1>1, <1>3, <2>1 DEF Walks
  <1>5. Eq(iter)
    BY <1>4
  <1>6. FoldLeft(ApplyStatus, base, taken) = iter[DOMAIN taken]
    BY DEF FoldLeft, MapThenFoldSet
  <1> DEFINE D == Statuses \cup {iter[s] : s \in SUBSET (1..n)} \cup UNION {I[k] : k \in 0..n}
             wide == [k \in 1..n |-> [s \in D |-> ApplyStatus(s, taken[k])]]
  <1> HIDE DEF iter
  <1>7. Walks(iter, n, base, wide)
    <2>1. ASSUME NEW s \in SUBSET (1..n), s # {}
          PROVE  wide[Max(s)][iter[s \ {Max(s)}]] = ApplyStatus(iter[s \ {Max(s)}], taken[Max(s)])
      <3>1. Max(s) \in 1..n
        BY <1>1, <2>1, MaxInside
      <3>2. iter[s \ {Max(s)}] \in D
        OBVIOUS
      <3> QED
        BY <3>1, <3>2
    <2> QED
      BY <1>1, <1>5, <2>1 DEF Walks
  <1>8. \A k \in 1..n : \A s \in I[k - 1] : wide[k][s] \in I[k]
    <2> SUFFICES ASSUME NEW k \in 1..n, NEW s \in I[k - 1] PROVE wide[k][s] \in I[k]
      OBVIOUS
    <2>1. k - 1 \in 0..n
      BY <1>1
    <2>2. s \in D
      BY <2>1
    <2> QED
      BY <2>2
  <1> HIDE DEF wide, n
  <1>9. iter[1..n] \in I[n]
    BY <1>1, <1>7, <1>8, WalkInvariant
  <1> QED
    BY <1>1, <1>6, <1>9 DEF n

(* A set of statuses that no report taken leads out of.                    *)
LEMMA ApplyStays ==
    ASSUME NEW taken \in Seq(Reports), NEW S \in SUBSET Statuses, NEW base \in S,
           \A k \in 1..Len(taken) : \A s \in S : ApplyStatus(s, taken[k]) \in S
    PROVE  FoldLeft(ApplyStatus, base, taken) \in S
  <1> DEFINE I == [k \in 0..Len(taken) |-> S]
  <1>1. Len(taken) \in Nat
    BY LenProperties
  <1>2. base \in I[0] /\ I[Len(taken)] = S
    BY <1>1
  <1>3. ASSUME NEW k \in 1..Len(taken), NEW s \in I[k - 1]
        PROVE  ApplyStatus(s, taken[k]) \in I[k]
    BY <1>1
  <1> HIDE DEF I
  <1>4. FoldLeft(ApplyStatus, base, taken) \in I[Len(taken)]
    BY <1>2, <1>3, ApplyByStep
  <1> QED
    BY <1>2, <1>4

Taken(here) == SubSeq(frames, 1, here)
Shown(here) == FoldLeft(ApplyStatus, PollApplied, Taken(here))

LEMMA TakenFrames ==
    ASSUME StatusTypeOK, NEW here \in 0..Len(frames)
    PROVE  /\ Taken(here) \in Seq(Reports) /\ Len(Taken(here)) = here
           /\ \A k \in 1..here : k \in DOMAIN frames /\ Taken(here)[k] = frames[k]
           /\ SubSeq(frames, here + 1, Len(frames)) \in Seq(Reports)
           /\ Len(SubSeq(frames, here + 1, Len(frames))) <= MaxFrames
  <1>1. frames \in Seq(Reports) /\ Len(frames) \in Nat /\ DOMAIN frames = 1..Len(frames)
        /\ Len(frames) <= MaxFrames
        /\ \A k \in 1..Len(frames) : frames[k] \in Reports
    BY LenProperties, ElementOfSeq DEF StatusTypeOK
  <1>2. /\ Taken(here) \in Seq(Reports) /\ Len(Taken(here)) = here
        /\ \A k \in 1..here : Taken(here)[k] = frames[k]
    BY <1>1, SubSeqProperties DEF Taken
  <1>3. /\ SubSeq(frames, here + 1, Len(frames)) \in Seq(Reports)
        /\ Len(SubSeq(frames, here + 1, Len(frames))) =
             IF here + 1 <= Len(frames) THEN Len(frames) - (here + 1) + 1 ELSE 0
    BY <1>1, SubSeqProperties
  <1> QED
    BY <1>1, <1>2, <1>3, StatusNumbers

LEMMA AppliedPoll ==
    ASSUME StatusTypeOK
    PROVE  PollApplied \in Statuses
  <1> DEFINE r == statusPoll.value
             s == IF shown.at = "ready" THEN [shown EXCEPT !.value.inst = r.inst] ELSE shown
  <1>1. r \in Reports /\ shown \in Statuses
    BY DEF StatusTypeOK, Polls
  <1>2. [shown.value EXCEPT !.inst = r.inst] \in Reports
    BY <1>1 DEF Reports, Statuses
  <1>3. [shown EXCEPT !.value.inst = r.inst] = [shown EXCEPT !.value = [shown.value EXCEPT !.inst = r.inst]]
    BY <1>1 DEF Statuses
  <1>4. s \in Statuses
    BY <1>1, <1>2, <1>3 DEF Statuses
  <1>5. PollApplied = CASE statusPoll.at = "answered" ->
               IF r.synthetic THEN [at |-> "ready", value |-> r] ELSE ApplyStatus(s, r)
          [] statusPoll.at = "failed" /\ shown.at # "ready" -> NoStatus("failed")
          [] OTHER -> shown
    BY DEF PollApplied
  <1> HIDE DEF s, r
  <1>6. ApplyStatus(s, r) \in Statuses
    BY <1>1, <1>4, ApplyTypes
  <1>7. [at |-> "ready", value |-> r] \in Statuses
    BY <1>1 DEF Statuses
  <1>8. NoStatus("failed") \in Statuses
    BY ReportFields
  <1> QED
    BY <1>1, <1>5, <1>6, <1>7, <1>8

LEMMA ShownTypes ==
    ASSUME StatusTypeOK, NEW here \in 0..Len(frames)
    PROVE  Shown(here) \in Statuses
  <1>1. Taken(here) \in Seq(Reports)
    BY TakenFrames
  <1>2. \A k \in 1..Len(Taken(here)) : \A s \in Statuses : ApplyStatus(s, Taken(here)[k]) \in Statuses
    BY <1>1, ApplyTypes, LenProperties, ElementOfSeq
  <1> QED
    BY <1>1, <1>2, AppliedPoll, ApplyStays DEF Shown

LEMMA StatusInitial == StatusInit => StatusTypeOK
  <1> SUFFICES ASSUME StatusInit PROVE StatusTypeOK
    OBVIOUS
  <1>1. beat \in Beats /\ beaten \in BOOLEAN /\ installation \in Said /\ due \in BOOLEAN
        /\ statusError \in BOOLEAN /\ live \in {"off", "connecting", "open", "waiting"}
    <2>1. beat \in Beats
      BY StatusNumbers DEF StatusInit, Beats
    <2>2. installation \in Said
      BY DEF StatusInit, Said
    <2> QED
      BY <2>1, <2>2 DEF StatusInit
  <1>2. shown \in Statuses /\ statusPoll \in Polls
    BY ReportFields DEF StatusInit
  <1>3. frames \in Seq(Reports) /\ Len(frames) <= MaxFrames
    <2>1. <<>> \in Seq(Reports) /\ Len(<<>>) = 0
      OBVIOUS
    <2> QED
      BY <2>1, StatusNumbers DEF StatusInit
  <1> QED
    BY <1>1, <1>2, <1>3 DEF StatusTypeOK

LEMMA StatusStep == StatusTypeOK /\ [StatusNext]_statusVars => StatusTypeOK'
  <1> SUFFICES ASSUME StatusTypeOK, [StatusNext]_statusVars PROVE StatusTypeOK'
    OBVIOUS
  <1> USE DEF StatusTypeOK
  <1>1. CASE Heartbeat
    <2>1. beat + 1 \in Beats
      BY <1>1, StatusNumbers DEF Heartbeat, Beats
    <2>2. frames' \in Seq(Reports) /\ Len(frames') <= MaxFrames
      <3>1. CASE UNCHANGED frames
        BY <3>1
      <3>2. ASSUME Len(frames) < MaxFrames, NEW inst \in {"none", installation},
                   frames' = Append(frames, [upd |-> beat + 1, inst |-> inst, synthetic |-> FALSE])
            PROVE  frames' \in Seq(Reports) /\ Len(frames') <= MaxFrames
        <4>1. [upd |-> beat + 1, inst |-> inst, synthetic |-> FALSE] \in Reports
          BY <2>1 DEF Reports, Said
        <4> QED
          BY <3>2, <4>1, AppendProperties, LenProperties, StatusNumbers
      <3> QED
        BY <1>1, <3>1, <3>2 DEF Heartbeat
    <2> QED
      BY <1>1, <2>1, <2>2 DEF Heartbeat
  <1>2. CASE LifecycleChange
    BY <1>2 DEF LifecycleChange, Said
  <1>3. CASE PollServed
    BY <1>3, ReportFields DEF PollServed, Polls
  <1>4. CASE PollAnswered
    BY <1>4 DEF PollAnswered, Polls
  <1>5. CASE PollFails
    BY <1>5, ReportFields DEF PollFails
  <1>6. CASE Connects \/ Disconnects \/ PauseEnds
    BY <1>6 DEF Connects, Disconnects, PauseEnds
  <1>7. CASE StatusTick
    <2>1. PICK here \in 0..Len(frames) :
            /\ shown' = IF DueNow THEN StatusBegun(Shown(here)) ELSE Shown(here)
            /\ frames' = SubSeq(frames, here + 1, Len(frames))
      BY <1>7 DEF StatusTick, Shown, Taken
    <2>2. shown' \in Statuses
      BY <2>1, ShownTypes, ReportFields DEF StatusBegun
    <2>3. frames' \in Seq(Reports) /\ Len(frames') <= MaxFrames
      BY <2>1, TakenFrames
    <2>4. statusPoll' \in Polls /\ statusError' \in BOOLEAN /\ due' \in BOOLEAN
      BY <1>7, ReportFields DEF StatusTick
    <2>5. live' \in {"off", "connecting", "open", "waiting"} /\ UNCHANGED <<beat, beaten, installation>>
      BY <1>7 DEF StatusTick
    <2> QED
      BY <2>2, <2>3, <2>4, <2>5
  <1>8. CASE FiveSeconds
    BY <1>8 DEF FiveSeconds
  <1>9. CASE StatusRefresh
    BY <1>9, ReportFields DEF StatusRefresh, StatusBegun
  <1>10. CASE UNCHANGED statusVars
    BY <1>10 DEF statusVars
  <1> QED
    BY <1>1, <1>2, <1>3, <1>4, <1>5, <1>6, <1>7, <1>8, <1>9, <1>10 DEF StatusNext

(* The types of the status, of its poll and of the frames on their way.    *)
THEOREM StatusTypes == StatusSpec => []StatusTypeOK
  BY StatusInitial, StatusStep, PTL DEF StatusSpec

----------------------------------------------------------------------------
(* Statuses that are not older than the heartbeat u.                       *)
NotBefore(u) == {s \in Statuses : s.at = "ready" /\ s.value.upd >= u}

LEMMA NeverBack ==
    ASSUME NEW s \in Statuses, NEW r \in Reports, NEW u \in Beats, s \in NotBefore(u)
    PROVE  ApplyStatus(s, r) \in NotBefore(u)
  <1>1. ApplyStatus(s, r) \in Statuses /\ ApplyStatus(s, r).at = "ready" /\ s.at = "ready"
    BY ApplyTypes DEF NotBefore
  <1>2. r.upd \in Int /\ s.value.upd \in Int /\ u \in Int /\ s.value.upd >= u
    BY StatusNumbers DEF Reports, Statuses, NotBefore
  <1>3. CASE Silent(s, r) \/ r.upd < s.value.upd
    BY <1>1, <1>3 DEF ApplyStatus
  <1>4. CASE ~(Silent(s, r) \/ r.upd < s.value.upd)
    <2>1. ApplyStatus(s, r).value.upd = r.upd
      BY <1>1, <1>4 DEF ApplyStatus, Statuses, Reports
    <2> QED
      BY <1>1, <1>2, <1>4, <2>1 DEF NotBefore
  <1> QED
    BY <1>3, <1>4

LEMMA PollNeverBack ==
    ASSUME StatusTypeOK, shown.at = "ready",
           ~(statusPoll.at = "answered" /\ statusPoll.value.synthetic)
    PROVE  PollApplied \in NotBefore(shown.value.upd)
  <1> DEFINE r == statusPoll.value
             s == [shown EXCEPT !.value.inst = r.inst]
  <1>1. r \in Reports /\ shown \in Statuses /\ shown.value \in Reports
        /\ shown.value.upd \in Beats /\ shown.value.upd \in Int
    BY StatusNumbers DEF StatusTypeOK, Polls, Statuses, Reports
  <1>2. s = [shown EXCEPT !.value = [shown.value EXCEPT !.inst = r.inst]]
    BY <1>1 DEF Statuses
  <1>3. s \in Statuses /\ s.at = "ready" /\ s.value.upd = shown.value.upd
    BY <1>1, <1>2 DEF Statuses, Reports
  <1>4. PollApplied = IF statusPoll.at = "answered" THEN ApplyStatus(s, r) ELSE shown
    BY DEF PollApplied
  <1> HIDE DEF s, r
  <1>5. s \in NotBefore(shown.value.upd) /\ shown \in NotBefore(shown.value.upd)
    BY <1>1, <1>3 DEF NotBefore
  <1>6. ApplyStatus(s, r) \in NotBefore(shown.value.upd)
    BY <1>1, <1>3, <1>5, NeverBack
  <1> QED
    BY <1>4, <1>5, <1>6

(* Statuses that say the installation is between exhibitions.              *)
Resting == {s \in Statuses : s.at = "ready" /\ s.value.inst = "between"}

LEMMA RestsOn ==
    ASSUME NEW s \in Resting, NEW r \in Reports, r.inst # "active"
    PROVE  ApplyStatus(s, r) \in Resting
  <1>1. ApplyStatus(s, r) \in Statuses /\ ApplyStatus(s, r).at = "ready" /\ s.at = "ready"
        /\ s.value.inst = "between"
    BY ApplyTypes DEF Resting
  <1>2. CASE Silent(s, r) \/ r.upd < s.value.upd
    BY <1>1, <1>2 DEF ApplyStatus
  <1>3. CASE ~(Silent(s, r) \/ r.upd < s.value.upd)
    <2>1. r.inst = "between"
      BY <1>1, <1>3 DEF Silent, Reports, Said
    <2>2. ApplyStatus(s, r).value.inst = r.inst
      BY <1>1, <1>3, <2>1 DEF ApplyStatus, Statuses, Reports, Resting
    <2> QED
      BY <1>1, <2>1, <2>2 DEF Resting
  <1> QED
    BY <1>2, <1>3

LEMMA StepUndoesNothing ==
    StatusTypeOK /\ [StatusNext]_statusVars =>
      /\ shown.at = "ready" /\ shown'.at = "ready" =>
            \/ shown'.value.upd >= shown.value.upd
            \/ statusPoll.at = "answered" /\ statusPoll.value.synthetic
      /\ Between /\ ~Between' =>
            \/ statusPoll.at \in {"answered", "failed"}
            \/ \E k \in DOMAIN frames : frames[k].inst = "active"
  <1> SUFFICES ASSUME StatusTypeOK, [StatusNext]_statusVars
               PROVE  /\ shown.at = "ready" /\ shown'.at = "ready" =>
                            \/ shown'.value.upd >= shown.value.upd
                            \/ statusPoll.at = "answered" /\ statusPoll.value.synthetic
                      /\ Between /\ ~Between' =>
                            \/ statusPoll.at \in {"answered", "failed"}
                            \/ \E k \in DOMAIN frames : frames[k].inst = "active"
    OBVIOUS
  <1>0. shown \in Statuses /\ shown.value.upd \in Int
    BY StatusNumbers DEF StatusTypeOK, Statuses, Reports
  <1>1. CASE StatusTick
    <2>1. PICK here \in 0..Len(frames) :
            shown' = IF DueNow THEN StatusBegun(Shown(here)) ELSE Shown(here)
      BY <1>1 DEF StatusTick, Shown, Taken
    <2>2. Taken(here) \in Seq(Reports) /\ Len(Taken(here)) = here
          /\ \A k \in 1..here : k \in DOMAIN frames /\ Taken(here)[k] = frames[k] /\ Taken(here)[k] \in Reports
      BY TakenFrames, ElementOfSeq
    <2>3. ASSUME shown.at = "ready", ~(statusPoll.at = "answered" /\ statusPoll.value.synthetic)
          PROVE  shown'.value.upd >= shown.value.upd
      <3> DEFINE S == NotBefore(shown.value.upd)
      <3>1. PollApplied \in S /\ S \in SUBSET Statuses
        BY <2>3, PollNeverBack DEF NotBefore
      <3>2. \A k \in 1..here : \A s \in S : ApplyStatus(s, Taken(here)[k]) \in S
        BY <1>0, <2>2, NeverBack DEF NotBefore, Statuses, Reports
      <3> HIDE DEF S
      <3>3. Shown(here) \in S
        BY <2>2, <3>1, <3>2, ApplyStays DEF Shown
      <3> QED
        BY <2>1, <3>3 DEF S, NotBefore, StatusBegun
    <2>4. ASSUME Between, statusPoll.at \notin {"answered", "failed"},
                 \A k \in DOMAIN frames : frames[k].inst # "active"
          PROVE  Between'
      <3>1. shown \in Resting /\ PollApplied = shown /\ ~statusError
        BY <1>0, <2>4 DEF Between, Resting, PollApplied
      <3>2. \A k \in 1..here : \A s \in Resting : ApplyStatus(s, Taken(here)[k]) \in Resting
        BY <2>2, <2>4, RestsOn
      <3>3. Resting \in SUBSET Statuses
        BY DEF Resting
      <3>4. Shown(here) \in Resting
        BY <2>2, <3>1, <3>2, <3>3, ApplyStays DEF Shown
      <3>5. shown' = Shown(here)
        BY <2>1, <3>4 DEF Resting, StatusBegun
      <3>6. ~statusError'
        BY <1>1, <2>4, <3>1 DEF StatusTick
      <3> QED
        BY <3>4, <3>5, <3>6 DEF Between, Resting
    <2> QED
      BY <2>3, <2>4
  <1>2. CASE ~StatusTick
    <2>1. UNCHANGED statusError /\ (shown' = shown \/ shown' = StatusBegun(shown))
      BY <1>2 DEF StatusNext, statusVars, Heartbeat, LifecycleChange, PollServed, PollAnswered,
             PollFails, Connects, Disconnects, PauseEnds, FiveSeconds, StatusRefresh
    <2>2. shown.at = "ready" => shown' = shown
      BY <2>1 DEF StatusBegun
    <2> QED
      BY <1>0, <2>1, <2>2 DEF Between
  <1> QED
    BY <1>1, <1>2

(* status.rs: the status does not go back to an older heartbeat, nor does  *)
(* one of a booth that was left on end the time between exhibitions, for   *)
(* any number of heartbeats and of frames, however poll and socket         *)
(* interleave (apply_status, drain).                                       *)
THEOREM ReportsStand == StatusSpec => NoReportUndone
  BY StatusTypes, StepUndoesNothing, PTL DEF StatusSpec, NoReportUndone

------------------------------------------------------------------------------
(* Playback: the state and what is heard.                                  *)

LEMMA PlaybackInitial == PlaybackInit => PlaybackTypeOK
  <1> SUFFICES ASSUME PlaybackInit PROVE PlaybackTypeOK
    OBVIOUS
  <1>1. commands \in Seq(Commands) /\ Len(commands) <= MaxCommands + 1
    BY PlaybackAssumption DEF PlaybackInit
  <1> QED
    BY <1>1 DEF PlaybackInit, PlaybackTypeOK

(* Only the command to quit, the last there will be, comes on top of the   *)
(* channel's bound.                                                        *)
RoomForQuit == thread = "running" => Len(commands) <= MaxCommands

PlaybackInv == PlaybackTypeOK /\ RoomForQuit

LEMMA Sent ==
    ASSUME PlaybackInv, NEW command \in Commands, thread = "running"
    PROVE  /\ Append(commands, command) \in Seq(Commands)
           /\ Len(Append(commands, command)) = Len(commands) + 1
           /\ Len(commands) \in Nat /\ Len(commands) <= MaxCommands
  BY DEF PlaybackInv, RoomForQuit, PlaybackTypeOK

LEMMA SendKeeps ==
    ASSUME PlaybackInv, NEW command \in Commands, Send(command),
           fetch' \in {"none", "detail", "download", "answered", "failed", "dead"}
    PROVE  PlaybackInv'
  <1>1. thread = "running" /\ commands' = Append(commands, command)
        /\ Len(commands) < MaxCommands
    BY DEF Send
  <1>2. commands' \in Seq(Commands) /\ Len(commands') <= MaxCommands
    BY <1>1, Sent, PlaybackAssumption
  <1> QED
    BY <1>1, <1>2, PlaybackAssumption
    DEF Send, PlaybackInv, PlaybackTypeOK, RoomForQuit

LEMMA PlaybackStep == PlaybackInv /\ [PlaybackNext]_playbackVars => PlaybackInv'
  <1> SUFFICES ASSUME PlaybackInv, [PlaybackNext]_playbackVars PROVE PlaybackInv'
    OBVIOUS
  <1> USE DEF PlaybackInv, PlaybackTypeOK, RoomForQuit
  <1>1. CASE AskToPlay \/ FetchMoves
    BY <1>1 DEF AskToPlay, FetchMoves
  <1>2. CASE Deliver
    BY <1>2, SendKeeps DEF Deliver, Commands
  <1>3. CASE Toggle \/ StopKey
    BY <1>3, SendKeeps DEF Toggle, StopKey, Commands
  <1>4. CASE QuitKey
    BY <1>4, Sent, PlaybackAssumption DEF QuitKey, Commands
  <1>5. CASE ApplyCommand
    <2>1. commands # <<>> /\ commands' = Tail(commands) /\ fetch' = fetch
      BY <1>5 DEF ApplyCommand
    <2>2. commands' \in Seq(Commands) /\ Len(commands') = Len(commands) - 1
          /\ Len(commands) \in Nat
      BY <2>1, HeadTailProperties
    <2>3. /\ thread' \in {thread, "gone"}
          /\ device' \in {"none", "playing", "paused", "drained"}
          /\ status' \in {"idle", "playing", "paused", "ended"}
          /\ undecoded' \in BOOLEAN
      BY <1>5 DEF ApplyCommand, Decoded, NotDecoded, Paused, Resumed, Stopped, QuitNow
    <2> QED
      BY <2>1, <2>2, <2>3, PlaybackAssumption
  <1>6. CASE PollProgress \/ Drains
    BY <1>6 DEF PollProgress, Drains
  <1>7. CASE PlaybackOver \/ UNCHANGED playbackVars
    BY <1>7 DEF PlaybackOver, playbackVars
  <1> QED
    BY <1>1, <1>2, <1>3, <1>4, <1>5, <1>6, <1>7 DEF PlaybackNext

LEMMA TypesAlways == PlaybackSpec => []PlaybackInv
  <1>1. PlaybackInit => PlaybackInv
    BY PlaybackInitial, PlaybackAssumption DEF PlaybackInv, RoomForQuit, PlaybackInit
  <1> QED
    BY <1>1, PlaybackStep, PTL DEF PlaybackSpec

(* The variables keep their types, the channel's bound included.           *)
THEOREM PlaybackTypes == PlaybackSpec => []PlaybackTypeOK
  BY TypesAlways, PTL DEF PlaybackInv

------------------------------------------------------------------------------
(* ShownAsHeard is inductive: every command, and the end of the track,     *)
(* moves what is shown together with what is heard.                        *)
LEMMA ShownInitial == PlaybackInit => ShownAsHeard
  BY DEF PlaybackInit, ShownAsHeard

LEMMA ShownStep ==
    ASSUME PlaybackTypeOK, ShownAsHeard, [PlaybackNext]_playbackVars
    PROVE  ShownAsHeard'
  <1> USE DEF ShownAsHeard
  <1>1. CASE AskToPlay \/ FetchMoves \/ Deliver \/ Toggle \/ StopKey \/ QuitKey
    <2>1. UNCHANGED <<device, status, undecoded>> /\ (thread = "gone" <=> thread' = "gone")
      BY <1>1 DEF AskToPlay, FetchMoves, Deliver, Toggle, StopKey, QuitKey, Send
    <2> QED
      BY <2>1
  <1>2. CASE ApplyCommand
    <2>1. CASE Decoded \/ NotDecoded \/ Stopped
      BY <1>2, <2>1 DEF ApplyCommand, Decoded, NotDecoded, Stopped
    <2>2. CASE Paused /\ thread' = thread
      BY <1>2, <2>2 DEF ApplyCommand, Paused, PlaybackTypeOK
    <2>3. CASE Resumed /\ thread' = thread
      BY <1>2, <2>3 DEF ApplyCommand, Resumed, PlaybackTypeOK
    <2>4. CASE QuitNow
      BY <2>4 DEF QuitNow
    <2> QED
      BY <1>2, <2>1, <2>2, <2>3, <2>4 DEF ApplyCommand
  <1>3. CASE PollProgress
    BY <1>3 DEF PollProgress
  <1>4. CASE Drains
    BY <1>4 DEF Drains
  <1>5. CASE PlaybackOver \/ UNCHANGED playbackVars
    BY <1>5 DEF PlaybackOver, playbackVars
  <1> QED
    BY <1>1, <1>2, <1>3, <1>4, <1>5 DEF PlaybackNext

(* However keys, the player's thread and the end of the track meet, and    *)
(* however many commands are on their way, the state that the screen and   *)
(* the play/pause key go by is that of what is heard (apply_command,       *)
(* poll_progress).                                                         *)
THEOREM StateIsHeard == PlaybackSpec => []ShownAsHeard
  <1>1. PlaybackTypeOK /\ ShownAsHeard /\ [PlaybackNext]_playbackVars => ShownAsHeard'
    BY ShownStep
  <1> QED
    BY <1>1, ShownInitial, PlaybackTypes, PTL DEF PlaybackSpec
=============================================================================
