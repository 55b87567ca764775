-------------------------- MODULE ManagedList_proofs --------------------------
(***************************************************************************)
(* Theorems about ManagedList, for each of the three lists and any number  *)
(* of rows.                                                                *)
(***************************************************************************)
EXTENDS ManagedList, FiniteSetTheorems, TLAPS

LEMMA RowNumbers ==
    /\ MaxRow \in Nat /\ MaxRow >= 1
    /\ FirstRows \in Nat /\ FirstRows <= MaxRow
    /\ NoRow \notin Rows /\ 1 \in 1..MaxRow
  BY RowAssumption DEF Rows, NoRow

LEMMA RowCount ==
    ASSUME NEW rows \in SUBSET Rows
    PROVE  Cardinality(rows) \in 0..MaxRow
  <1>1. IsFiniteSet(Rows) /\ Cardinality(Rows) = MaxRow
    BY FS_Interval, RowNumbers DEF Rows
  <1> QED
    BY <1>1, FS_Subset, FS_CardinalityType, RowNumbers

LEMMA MinMaxOfTwo ==
    ASSUME NEW a \in Nat, NEW b \in Nat
    PROVE  Min({a, b}) = (IF a <= b THEN a ELSE b) /\ Max({a, b}) = (IF a <= b THEN b ELSE a)
  BY DEF Min, Max

LEMMA ClampedRow ==
    ASSUME NEW rows \in SUBSET Rows, NEW k \in 1..MaxRow
    PROVE  Min({k, Max({Cardinality(rows), 1})}) \in 1..MaxRow
  <1>1. PICK n \in 0..MaxRow : n = Cardinality(rows)
    BY RowCount
  <1>2. Max({n, 1}) = IF n <= 1 THEN 1 ELSE n
    BY MinMaxOfTwo
  <1>3. PICK m \in 1..MaxRow : m = Max({n, 1})
    BY <1>2, RowNumbers
  <1>4. Min({k, m}) = IF k <= m THEN k ELSE m
    BY MinMaxOfTwo
  <1> QED
    BY <1>1, <1>3, <1>4

LEMMA BareTypes ==
    /\ \A at \in {"idle", "loading", "ready", "failed"} : Bare(at) \in Lists
    /\ \A at \in {"none", "asked", "failed", "dead"} : Bare(at) \in Loads
    /\ \A at : Bare(at).at = at
  BY DEF Bare, Lists, Loads

LEMMA Nobodys ==
    /\ NoAction.at = "none" /\ NoAction.intent = "none"
    /\ NoAction \notin Actions
    /\ NoModal.intent = "none" /\ NoModal \notin Modals
    /\ NoLookup \in Lookups /\ NoLookup.at = "none"
  BY DEF NoAction, Actions, NoModal, Modals, Intents, Stages, NoLookup, Lookups

(* The selection is a row of the list, or none.                            *)
LEMMA SelectedIsRow == TypeOK => Selected \in Rows \cup {NoRow}
  <1> SUFFICES ASSUME TypeOK PROVE Selected \in Rows \cup {NoRow}
    OBVIOUS
  <1>1. list.rows \subseteq Rows
    BY DEF TypeOK, Lists
  <1> QED
    BY <1>1 DEF Selected, RowAt

LEMMA InitTypes == Init => TypeOK
  <1> SUFFICES ASSUME Init PROVE TypeOK
    OBVIOUS
  <1>1. server \subseteq Rows /\ touched \subseteq Rows /\ born \in 0..MaxRow
    BY RowNumbers DEF Init, Rows
  <1>2. list \in Lists /\ load \in Loads /\ selected \in 1..MaxRow
    BY BareTypes, RowNumbers DEF Init
  <1>3. usage \in Usages /\ usageFor \in Rows \cup {NoRow} /\ usageLoad \in Lookups
    BY Nobodys DEF Init, Usages
  <1> QED
    BY <1>1, <1>2, <1>3 DEF Init, TypeOK

------------------------------------------------------------------------------
(* The steps of the API and of the tasks.                                  *)
LEMMA TaskTypes ==
    ASSUME TypeOK,
           \/ Arrive \/ Vanish \/ LoadEnds \/ UploadStep \/ ActionFails
           \/ ActionServed \/ LookupEnds
    PROVE  TypeOK'
  <1>1. CASE Arrive
    <2>1. born' \in 0..MaxRow /\ server' \subseteq Rows
      BY <1>1, RowNumbers DEF Arrive, TypeOK, Rows
    <2> QED
      BY <1>1, <2>1 DEF Arrive, TypeOK, listVars, usageVars
  <1>2. CASE Vanish
    <2>1. server' \subseteq Rows /\ touched' \subseteq Rows
      BY <1>2 DEF Vanish, TypeOK
    <2> QED
      BY <1>2, <2>1 DEF Vanish, TypeOK, listVars, usageVars
  <1>3. CASE LoadEnds
    <2>1. [at |-> "answered", rows |-> server, touched |-> touched] \in Loads
      BY DEF TypeOK, Loads
    <2>2. load' \in Loads
      BY <1>3, <2>1, BareTypes DEF LoadEnds
    <2> QED
      BY <1>3, <2>2 DEF LoadEnds, TypeOK, serverVars, usageVars
  <1>4. CASE UploadStep \/ ActionFails
    <2>1. action \in Actions
      BY <1>4, Nobodys DEF UploadStep, Uploads, ActionFails, TypeOK
    <2>2. \A at \in Stages : [action EXCEPT !.at = at] \in Actions
      BY <2>1 DEF Actions
    <2>3. action' \in Actions
      BY <1>4, <2>2 DEF UploadStep, Uploads, ActionFails, Stages
    <2> QED
      BY <1>4, <2>3
      DEF UploadStep, ActionFails, TypeOK, serverVars, listVars, usageVars
  <1>5. CASE ActionServed
    <2>1. action \in Actions
      BY <1>5, Nobodys DEF ActionServed, TypeOK
    <2>2. /\ born' \in 0..MaxRow /\ server' \subseteq Rows /\ touched' \subseteq Rows
          /\ action.intent = "create" => born + 1 \in Rows
      <3>1. CASE action.intent = "create"
        BY <1>5, <3>1, RowNumbers DEF ActionServed, TypeOK, Rows
      <3>2. CASE action.intent # "create"
        BY <1>5, <3>2 DEF ActionServed, TypeOK
      <3> QED
        BY <3>1, <3>2
    <2>3. PICK at \in {"ok", "lost"} :
            action' = [action EXCEPT
               !.at = at, !.row = IF action.intent = "create" THEN born + 1 ELSE @]
      BY <1>5 DEF ActionServed
    <2>4. action' \in Actions
      BY <2>1, <2>2, <2>3 DEF Actions, Stages
    <2> QED
      BY <1>5, <2>2, <2>4 DEF ActionServed, TypeOK, listVars, usageVars
  <1>6. CASE LookupEnds
    <2>1. usageLoad' \in Lookups
      BY <1>6 DEF LookupEnds, TypeOK, Lookups
    <2> QED
      BY <1>6, <2>1 DEF LookupEnds, TypeOK, serverVars, listVars
  <1> QED
    BY <1>1, <1>2, <1>3, <1>4, <1>5, <1>6

LEMMA DrainedTypes ==
    ASSUME TypeOK
    PROVE  /\ Drained \in Lists /\ Begun(Drained) \in Lists /\ Begun(list) \in Lists
           /\ Clamped \in 1..MaxRow
  <1>1. Drained \in Lists
    <2>1. CASE load.at = "answered"
      <3>1. Drained = [load EXCEPT !.at = "ready"]
        BY <2>1 DEF Drained
      <3> QED
        BY <3>1 DEF TypeOK, Loads, Lists
    <2>2. CASE load.at = "failed"
      <3>1. Drained = Bare("failed")
        BY <2>2 DEF Drained
      <3> QED
        BY <3>1, BareTypes
    <2>3. CASE load.at \notin {"answered", "failed"}
      <3>1. Drained = list
        BY <2>3 DEF Drained
      <3> QED
        BY <3>1 DEF TypeOK
    <2> QED
      BY <2>1, <2>2, <2>3
  <1>2. load.rows \in SUBSET Rows /\ selected \in 1..MaxRow
    BY DEF TypeOK, Loads
  <1> QED
    BY <1>1, <1>2, BareTypes, ClampedRow DEF Begun, Clamped, TypeOK

LEMMA TickTypes == TypeOK /\ Tick => TypeOK'
  <1> SUFFICES ASSUME TypeOK, Tick PROVE TypeOK'
    OBVIOUS
  <1>1. list' \in Lists /\ selected' \in 1..MaxRow
    BY DrainedTypes DEF Tick
  <1>2. load' \in Loads
    BY BareTypes DEF Tick, TypeOK
  <1>3. loaded' \in BOOLEAN /\ revealed' \in BOOLEAN /\ excused' \in BOOLEAN
        /\ front' \in BOOLEAN
    BY Zenon DEF Tick, TypeOK
  <1>4. action' \in Actions \cup {NoAction} /\ reported' \in Actions \cup {NoAction}
    BY DEF Tick, TypeOK
  <1>5. modal' \in Modals \cup {NoModal}
    <2>1. modal # NoModal => [modal EXCEPT !.reloaded = TRUE] \in Modals
      BY DEF TypeOK, Modals
    <2> QED
      BY <2>1 DEF Tick, TypeOK
  <1>6. usage' \in Usages /\ usageLoad' \in Lookups /\ usageFor' \in Rows \cup {NoRow}
    <2>1. usageLoad' \in Lookups /\ usageFor' = usageFor
      BY Nobodys DEF Tick, TickUsage, TypeOK
    <2>2. CASE usageLoad.at = "answered"
      <3>1. usage' = [at |-> "ready", of |-> usageLoad.of]
        BY <2>2 DEF Tick, TickUsage
      <3> QED
        BY <2>1, <3>1 DEF TypeOK, Usages, Lookups
    <2>3. CASE usageLoad.at = "failed"
      <3>1. usage' = [at |-> "failed", of |-> NoRow]
        BY <2>3 DEF Tick, TickUsage
      <3> QED
        BY <2>1, <3>1 DEF TypeOK, Usages
    <2>4. CASE usageLoad.at \notin {"answered", "failed"}
      <3>1. usage' = usage
        BY <2>4 DEF Tick, TickUsage
      <3> QED
        BY <2>1, <3>1 DEF TypeOK
    <2> QED
      BY <2>2, <2>3, <2>4
  <1> QED
    BY <1>1, <1>2, <1>3, <1>4, <1>5, <1>6 DEF Tick, TypeOK, serverVars
------------------------------------------------------------------------------
(* The keys.                                                               *)
LEMMA WriteTypes ==
    ASSUME TypeOK, NEW intent \in Intents, NEW row \in Rows \cup {NoRow},
           Write(intent, row)
    PROVE  action' \in Actions \cup {NoAction}
  BY DEF Write, TypeOK, Actions, Stages

LEMMA AskingTypes ==
    ASSUME TypeOK, NEW intent \in Intents
    PROVE  Asking(intent) \in Modals
  BY SelectedIsRow DEF Asking, Modals

LEMMA KeyTypes == TypeOK /\ Key => TypeOK'
  <1> SUFFICES ASSUME TypeOK, Key PROVE TypeOK'
    OBVIOUS
  <1> USE DEF serverVars, listVars, usageVars
  <1>1. CASE Refresh
    BY <1>1, BareTypes, DrainedTypes DEF Refresh, TypeOK
  <1>2. CASE Select
    <2>1. selected' \in 1..MaxRow
      <3>1. Cardinality(list.rows) \in 0..MaxRow
        BY RowCount DEF TypeOK, Lists
      <3>2. selected \in 1..MaxRow
        BY DEF TypeOK
      <3>3. CASE selected < Cardinality(list.rows) /\ selected' = selected + 1
        BY <3>1, <3>2, <3>3, RowNumbers
      <3>4. CASE selected' = Max({1, selected - 1})
        <4>1. PICK n \in 0..MaxRow : n = selected - 1
          BY <3>2, RowNumbers
        <4>2. Max({1, n}) = IF 1 <= n THEN n ELSE 1
          BY MinMaxOfTwo
        <4> QED
          BY <3>4, <4>1, <4>2, RowNumbers
      <3> QED
        BY <1>2, <3>3, <3>4 DEF Select, Moved
    <2> QED
      BY <1>2, <2>1 DEF Select, TypeOK
  <1>3. CASE Touch
    <2>1. action' \in Actions \cup {NoAction}
      BY <1>3, WriteTypes, SelectedIsRow DEF Touch, Intents
    <2> QED
      BY <1>3, <2>1 DEF Touch, TypeOK
  <1>4. CASE OpenOnRow \/ OpenCreate
    <2>1. modal' \in Modals
      BY <1>4, AskingTypes DEF OpenOnRow, OpenCreate, Intents
    <2> QED
      BY <1>4, <2>1 DEF OpenOnRow, OpenCreate, TypeOK
  <1>5. CASE LoadUsage
    <2>1. /\ usage' \in Usages /\ usageLoad' \in Lookups
          /\ usageFor' \in Rows \cup {NoRow}
      BY <1>5, SelectedIsRow DEF LoadUsage, Usages, Lookups
    <2> QED
      BY <1>5, <2>1 DEF LoadUsage, TypeOK
  <1>6. CASE Dismiss \/ Navigate \/ Cancel
    BY <1>6 DEF Dismiss, Navigate, Cancel, TypeOK
  <1>7. CASE NextPrompt
    <2>1. modal \in Modals
      BY <1>7, Nobodys DEF NextPrompt, TypeOK
    <2>2. modal' \in Modals
      BY <1>7, <2>1 DEF NextPrompt, Modals
    <2> QED
      BY <1>7, <2>2 DEF NextPrompt, TypeOK
  <1>8. CASE Confirm
    <2>1. modal.intent \in Intents
      BY <1>8 DEF Confirm, TypeOK, Modals
    <2>2. action' \in Actions \cup {NoAction}
      BY <1>8, <2>1, WriteTypes, SelectedIsRow DEF Confirm, Intents, TypeOK
    <2> QED
      BY <1>8, <2>2 DEF Confirm, TypeOK
  <1> QED
    BY <1>1, <1>2, <1>3, <1>4, <1>5, <1>6, <1>7, <1>8 DEF Key

LEMMA TypeStep == TypeOK /\ [Next]_vars => TypeOK'
  <1>1. TypeOK /\ UNCHANGED vars => TypeOK'
    BY DEF vars, serverVars, listVars, usageVars, TypeOK
  <1> QED
    BY <1>1, TaskTypes, TickTypes, KeyTypes DEF Next

(* The variables of each of the three lists keep their types: a selection  *)
(* is kept inside the rows there can be.                                   *)
THEOREM ListTypes == Spec => []TypeOK
  BY InitTypes, TypeStep, PTL DEF Spec

------------------------------------------------------------------------------
(* A write that was started is held until it is over.                      *)
LEMMA WriteHeld ==
    ASSUME TypeOK, [Next]_vars, Busy, action' # action
    PROVE  action'.intent = action.intent \/ action.at \in {"ok", "lost"}
  <1> USE DEF serverVars, listVars, usageVars
  <1>1. action \in Actions
    BY DEF TypeOK, Busy
  <1>2. CASE UploadStep \/ ActionFails \/ ActionServed
    BY <1>1, <1>2 DEF UploadStep, Uploads, ActionFails, ActionServed, Actions
  <1>3. CASE Tick
    BY <1>3 DEF Tick
  <1>4. CASE Touch
    BY <1>4 DEF Touch
  <1>5. CASE Confirm
    BY <1>5 DEF Confirm, Write
  <1>6. CASE \/ Arrive \/ Vanish \/ LoadEnds \/ LookupEnds
             \/ Refresh \/ Select \/ OpenOnRow \/ OpenCreate \/ LoadUsage
             \/ Dismiss \/ Navigate \/ Cancel \/ NextPrompt
             \/ UNCHANGED vars
    BY <1>6
    DEF Arrive, Vanish, LoadEnds, LookupEnds, Refresh, Select, OpenOnRow, OpenCreate,
        LoadUsage, Dismiss, Navigate, Cancel, NextPrompt, vars
  <1> QED
    BY <1>2, <1>3, <1>4, <1>5, <1>6 DEF Next, Key

(* No second write takes the place of one that is under way, whatever keys *)
(* and dialogs come in between (run_action).                               *)
THEOREM WritesAreHeld == Spec => NoWriteForgotten
  <1>1. TypeOK /\ [Next]_vars =>
          [Busy /\ action' # action =>
             \/ action'.intent = action.intent
             \/ action.at \in {"ok", "lost"}]_vars
    BY WriteHeld
  <1> QED
    BY <1>1, ListTypes, PTL DEF Spec, NoWriteForgotten

------------------------------------------------------------------------------
(* What UsageIsOfItsToken needs: what is shown, or is on its way, is of    *)
(* the token that the label names.                                         *)
UsageOfLabel ==
    /\ usage.at = "ready" => usage.of = usageFor
    /\ usageLoad.at # "none" => usageLoad.of = usageFor

LEMMA UsageStep == TypeOK /\ UsageOfLabel /\ [Next]_vars => UsageOfLabel'
  <1> SUFFICES ASSUME TypeOK, UsageOfLabel, [Next]_vars PROVE UsageOfLabel'
    OBVIOUS
  <1> USE DEF usageVars
  <1>1. CASE UNCHANGED usageVars
    BY <1>1 DEF UsageOfLabel
  <1>2. CASE LookupEnds
    <2>1. PICK at \in {"answered", "failed", "dead"} :
            usageLoad' = [usageLoad EXCEPT !.at = at]
      BY <1>2 DEF LookupEnds
    <2>2. usageLoad'.of = usageLoad.of /\ usageLoad.at = "asked"
      BY <1>2, <2>1 DEF LookupEnds, TypeOK, Lookups
    <2> QED
      BY <1>2, <2>2 DEF LookupEnds, UsageOfLabel
  <1>3. CASE Tick
    <2>1. usageFor' = usageFor /\ usageLoad' \in {usageLoad, NoLookup}
      BY <1>3 DEF Tick, TickUsage
    <2>2. usage'.at = "ready" => usage'.of = usageFor
      <3>1. CASE usageLoad.at = "answered"
        BY <1>3, <3>1 DEF Tick, TickUsage, UsageOfLabel
      <3>2. CASE usageLoad.at = "failed"
        BY <1>3, <3>2 DEF Tick, TickUsage
      <3>3. CASE usageLoad.at \notin {"answered", "failed"}
        BY <1>3, <3>3 DEF Tick, TickUsage, UsageOfLabel
      <3> QED
        BY <3>1, <3>2, <3>3, RowNumbers
    <2> QED
      BY <2>1, <2>2, Nobodys DEF UsageOfLabel
  <1>4. CASE LoadUsage
    BY <1>4 DEF LoadUsage, UsageOfLabel
  <1> QED
    BY <1>1, <1>2, <1>3, <1>4
    DEF Next, Key, vars, Arrive, Vanish, LoadEnds, UploadStep, ActionFails, ActionServed,
        Refresh, Select, Touch, OpenOnRow, OpenCreate, Dismiss, Navigate, Cancel,
        NextPrompt, Confirm

(* Usage is never shown under another token than the one it was asked for, *)
(* however late it comes and however the rows were renumbered meanwhile    *)
(* (load_usage_selected, usage).                                           *)
THEOREM UsageUnderItsToken == Spec => []UsageIsOfItsToken
  <1>1. Init => UsageOfLabel
    BY Nobodys DEF Init, UsageOfLabel
  <1>2. UsageOfLabel => UsageIsOfItsToken
    BY DEF UsageOfLabel, UsageIsOfItsToken, UsageShown
  <1> QED
    BY <1>1, <1>2, UsageStep, ListTypes, PTL DEF Spec

------------------------------------------------------------------------------
(* Until a load is applied behind a dialog, the row it was opened on is    *)
(* the one that is selected: the keys do not reach the list.               *)
DialogOnRow ==
    modal.intent \in {"drop", "touch"} /\ ~modal.reloaded => Selected = modal.row

LEMMA SelectedStays ==
    ASSUME TypeOK, Tick, ~Applied
    PROVE  Selected' = Selected
  <1>1. Drained = list /\ Clamped = selected
    BY DEF Applied, Drained, Clamped
  <1>2. list' \in {list, Begun(list)} /\ selected' = selected
    BY <1>1 DEF Tick
  <1>3. list' # list => list.at # "ready" /\ list'.at # "ready"
    BY <1>2, BareTypes DEF Begun
  <1> QED
    BY <1>2, <1>3 DEF Selected

LEMMA DialogStep == TypeOK /\ DialogOnRow /\ [Next]_vars => DialogOnRow'
  <1> SUFFICES ASSUME TypeOK, DialogOnRow, [Next]_vars PROVE DialogOnRow'
    OBVIOUS
  <1> USE DEF serverVars, listVars, usageVars
  <1>1. CASE UNCHANGED <<list, selected, modal>>
    BY <1>1 DEF DialogOnRow, Selected
  <1>2. CASE Tick
    <2>1. CASE modal # NoModal /\ Applied
      <3>1. modal' = [modal EXCEPT !.reloaded = TRUE] /\ modal \in Modals
        BY <1>2, <2>1 DEF Tick, TypeOK
      <3>2. modal'.reloaded
        BY <3>1 DEF Modals
      <3> QED
        BY <3>2 DEF DialogOnRow
    <2>2. CASE modal = NoModal
      BY <1>2, <2>2, Nobodys DEF Tick, DialogOnRow
    <2>3. CASE modal # NoModal /\ ~Applied
      BY <1>2, <2>3, SelectedStays DEF Tick, DialogOnRow
    <2> QED
      BY <2>1, <2>2, <2>3
  <1>3. CASE Refresh \/ Select
    BY <1>3, Nobodys DEF Refresh, Select, Listening, DialogOnRow
  <1>4. CASE OpenOnRow \/ OpenCreate
    BY <1>4 DEF OpenOnRow, OpenCreate, Asking, DialogOnRow, Selected
  <1>5. CASE Cancel \/ Confirm
    BY <1>5, Nobodys DEF Cancel, Confirm, DialogOnRow
  <1>6. CASE NextPrompt
    <2>1. modal \in Modals /\ modal.intent = "create"
      BY <1>6, Nobodys DEF NextPrompt, TypeOK
    <2>2. modal'.intent = "create"
      BY <1>6, <2>1 DEF NextPrompt, Modals
    <2> QED
      BY <2>2 DEF DialogOnRow
  <1> QED
    BY <1>1, <1>2, <1>3, <1>4, <1>5, <1>6
    DEF Next, Key, vars, Arrive, Vanish, LoadEnds, UploadStep, ActionFails, ActionServed,
        LookupEnds, Touch, LoadUsage, Dismiss, Navigate

LEMMA HitsRow ==
    ASSUME TypeOK, DialogOnRow, [Next]_vars, Hits, ~modal.reloaded
    PROVE  action'.row = modal.row
  <1> USE DEF serverVars, listVars, usageVars
  <1>1. modal # NoModal /\ modal \in Modals
    BY Nobodys DEF Hits, TypeOK
  <1>2. modal' # modal
    BY <1>1 DEF Hits
  <1>3. ~Tick
    <2> SUFFICES ASSUME Tick PROVE FALSE
      OBVIOUS
    <2>1. modal' = modal \/ modal' = [modal EXCEPT !.reloaded = TRUE]
      BY DEF Tick
    <2>2. modal'.intent = modal.intent
      BY <1>1, <2>1 DEF Modals
    <2> QED
      BY <2>2, Nobodys DEF Hits
  <1>4. Confirm
    BY <1>1, <1>2, <1>3
    DEF Hits, Next, Key, vars, Arrive, Vanish, LoadEnds, UploadStep, ActionFails,
        ActionServed, LookupEnds, Refresh, Select, Touch, OpenOnRow, OpenCreate,
        LoadUsage, Dismiss, Navigate, Cancel, NextPrompt, Listening
  <1>5. Write(modal.intent, Selected) /\ action' # action
    BY <1>4 DEF Confirm, Hits
  <1>6. action'.row = Selected
    BY <1>5 DEF Write
  <1> QED
    BY <1>6 DEF DialogOnRow, Hits

(* A confirmation hits the row it was asked about unless a load was        *)
(* applied behind the dialog: no key, no tick and no other write can make  *)
(* it hit another one (dispatch_modal, handle_modal_key).                  *)
THEOREM OnlyReloads == Spec => OnlyReloadMisleads
  <1>1. Init => DialogOnRow
    BY Nobodys DEF Init, DialogOnRow
  <1>2. TypeOK /\ DialogOnRow /\ [Next]_vars =>
          [Hits /\ ~modal.reloaded => action'.row = modal.row]_vars
    BY HitsRow
  <1> QED
    BY <1>1, <1>2, DialogStep, ListTypes, PTL DEF Spec, OnlyReloadMisleads

------------------------------------------------------------------------------
(* What ReportedWriteShown needs: a write that is reported was done, and   *)
(* what is done is neither undone nor left out of an answer that is        *)
(* written after it.                                                       *)
Removes(w) == w.intent = "drop" /\ kind = "messages"

Done(w) ==
    /\ w.row \in 1..born
    /\ Removes(w) => w.row \notin server
    /\ ~Removes(w) /\ w.intent # "create" => w.row \in touched \/ w.row \notin server

Reflects(w, rows, marked) ==
    /\ Removes(w) => w.row \notin rows
    /\ w.intent = "create" => w.row \in rows \/ w.row \notin server
    /\ ~Removes(w) /\ w.intent # "create" => w.row \in marked \/ w.row \notin rows

WriteInv ==
    /\ server \subseteq 1..born
    /\ action.at = "ok" => Done(action)
    /\ reported # NoAction => Done(reported)
    /\ reported # NoAction /\ ~excused =>
         /\ load.at = "answered" => Reflects(reported, load.rows, load.touched)
         /\ load.at = "none" /\ list.at = "ready" =>
              Reflects(reported, list.rows, list.touched)

(* What a step does to the rows of the API.                                *)
LEMMA ServerStep ==
    ASSUME TypeOK, server \subseteq 1..born, [Next]_vars
    PROVE  /\ kind' = kind /\ born \in Nat /\ born' \in Nat /\ born <= born'
           /\ server' \subseteq 1..born'
           /\ \A r \in 1..born : r \in server' => r \in server
           /\ \A r \in touched : r \in touched' \/ r \notin server'
  <1> USE DEF serverVars, listVars, usageVars
  <1>0. born \in Nat /\ born + 1 \notin 1..born /\ 1..born \subseteq 1..(born + 1)
    BY DEF TypeOK
  <1>1. CASE Arrive
    BY <1>0, <1>1 DEF Arrive
  <1>2. CASE Vanish
    BY <1>0, <1>2 DEF Vanish
  <1>3. CASE ActionServed
    <2>1. kind' = kind
      BY <1>3 DEF ActionServed
    <2>2. CASE born' = born + 1 /\ server' = server \cup {born + 1} /\ UNCHANGED touched
      BY <1>0, <2>1, <2>2
    <2>3. CASE server' = server \ {action.row} /\ touched' = touched \ {action.row} /\ UNCHANGED born
      <3>1. \A r \in touched : r \in touched' \/ r \notin server'
        BY <2>3
      <3>2. server' \subseteq server /\ born' = born
        BY <2>3
      <3> QED
        BY <1>0, <2>1, <3>1, <3>2
    <2>4. CASE touched' = touched \cup {action.row} /\ UNCHANGED <<server, born>>
      BY <1>0, <2>1, <2>4
    <2> QED
      BY <1>3, <2>2, <2>3, <2>4 DEF ActionServed
  <1>4. CASE UNCHANGED <<kind, server, touched, born>>
    BY <1>0, <1>4
  <1>5. CASE ~(Arrive \/ Vanish \/ ActionServed)
    <2>1. UNCHANGED <<kind, server, touched, born>>
      BY <1>5
      DEF Next, Key, vars, LoadEnds, UploadStep, ActionFails, LookupEnds, Tick, Refresh, Select,
          Touch, OpenOnRow, OpenCreate, LoadUsage, Dismiss, Navigate, Cancel, NextPrompt, Confirm
    <2> QED
      BY <1>4, <2>1
  <1> QED
    BY <1>1, <1>2, <1>3, <1>5

LEMMA DoneStays ==
    TypeOK /\ server \subseteq 1..born /\ [Next]_vars =>
      \A w : Done(w) =>
        /\ Done(w)'
        /\ \A rows, marked : Reflects(w, rows, marked) => Reflects(w, rows, marked)'
  <1> SUFFICES ASSUME TypeOK, server \subseteq 1..born, [Next]_vars, NEW w, Done(w)
               PROVE  /\ Done(w)'
                      /\ \A rows, marked : Reflects(w, rows, marked) => Reflects(w, rows, marked)'
    OBVIOUS
  <1>1. /\ kind' = kind /\ born \in Nat /\ born' \in Nat /\ born <= born'
        /\ \A r \in 1..born : r \in server' => r \in server
        /\ \A r \in touched : r \in touched' \/ r \notin server'
    BY ServerStep
  <1>2. w.row \in 1..born /\ w.row \in 1..born'
    BY <1>1 DEF Done
  <1>3. Done(w)'
    BY <1>1, <1>2 DEF Done, Removes
  <1>4. \A rows, marked : Reflects(w, rows, marked) => Reflects(w, rows, marked)'
    BY <1>1, <1>2 DEF Reflects, Removes
  <1> QED
    BY <1>3, <1>4

LEMMA WriteInitial == Init => WriteInv
  BY Nobodys DEF Init, WriteInv

LEMMA WriteStep == TypeOK /\ WriteInv /\ [Next]_vars => WriteInv'
  <1> SUFFICES ASSUME TypeOK, WriteInv, [Next]_vars PROVE WriteInv'
    OBVIOUS
  <1> USE DEF serverVars, listVars, usageVars
  <1>1. /\ server \subseteq 1..born /\ server' \subseteq 1..born' /\ kind' = kind
        /\ \A w : Done(w) =>
             /\ Done(w)'
             /\ \A rows, marked : Reflects(w, rows, marked) => Reflects(w, rows, marked)'
    BY ServerStep, DoneStays DEF WriteInv
  <1>2. CASE Tick
    <2>1. /\ action' = IF action.at \in {"ok", "lost"} THEN NoAction ELSE action
          /\ reported' = IF Succeeded THEN action ELSE reported
          /\ UNCHANGED <<kind, server, touched, born>>
      BY <1>2 DEF Tick
    <2>2. action'.at = "ok" => Done(action)' /\ action' = action
      BY <1>1, <2>1, Nobodys DEF WriteInv
    <2>3. reported' # NoAction => Done(reported)'
      BY <1>1, <2>1 DEF WriteInv, Done, Removes, Succeeded
    <2>4. ASSUME reported' # NoAction, ~excused', load'.at = "answered"
          PROVE  FALSE
      <3>1. load' = (IF Reloads(front') THEN Bare("asked") ELSE IF Free THEN Bare("none") ELSE load)
        BY <1>2 DEF Tick
      <3> QED
        BY <2>4, <3>1, BareTypes DEF Free
    <2>5. ASSUME reported' # NoAction, ~excused', load'.at = "none", list'.at = "ready"
          PROVE  Reflects(reported, list.rows, list.touched)'
      <3>1. ~Reloads(front') /\ Free /\ list' = Drained
        BY <1>2, <2>5, BareTypes DEF Tick, Free
      <3>2. ~Succeeded /\ reported' = reported
        BY <2>1, <3>1 DEF Reloads
      <3>3. ~excused /\ load.at # "dead"
        BY <1>2, <2>5, <3>1, <3>2 DEF Tick
      <3>4. CASE load.at = "answered"
        <4>1. list'.rows = load.rows /\ list'.touched = load.touched
          BY <3>1, <3>4 DEF Drained, TypeOK, Loads
        <4> QED
          BY <2>1, <2>5, <3>2, <3>3, <3>4, <4>1 DEF WriteInv, Reflects, Removes
      <3>5. CASE load.at = "none"
        <4>1. list' = list
          BY <3>1, <3>5 DEF Drained
        <4> QED
          BY <2>1, <2>5, <3>2, <3>3, <3>5, <4>1 DEF WriteInv, Reflects, Removes
      <3>6. load.at # "failed"
        BY <2>5, <3>1, BareTypes DEF Drained
      <3> QED
        BY <3>1, <3>3, <3>4, <3>5, <3>6 DEF Free, TypeOK, Loads
    <2>6. action'.at = "ok" => Done(action)'
      BY <2>2
    <2> QED
      BY <1>1, <2>3, <2>4, <2>5, <2>6 DEF WriteInv
  <1>3. CASE LoadEnds
    <2>1. /\ load' \in {[at |-> "answered", rows |-> server, touched |-> touched],
                        Bare("failed"), Bare("dead")}
          /\ UNCHANGED <<kind, server, touched, born, list, action, reported, excused>>
      BY <1>3 DEF LoadEnds
    <2>2. load'.at # "none"
      BY <2>1, BareTypes
    <2>3. load'.at = "answered" => load'.rows = server /\ load'.touched = touched
      BY <2>1, BareTypes
    <2>4. \A w : Done(w) => Reflects(w, server, touched)'
      BY <2>1 DEF Done, Reflects, Removes
    <2> QED
      BY <1>1, <2>1, <2>2, <2>3, <2>4 DEF WriteInv, Done, Reflects, Removes
  <1>4. CASE ActionServed
    <2>1. action \in Actions /\ UNCHANGED <<kind, list, load, reported, excused>>
      BY <1>4, Nobodys DEF ActionServed, TypeOK
    <2>2. Done(action)'
      <3>1. /\ action'.intent = action.intent
            /\ action'.row = IF action.intent = "create" THEN born + 1 ELSE action.row
        BY <1>4, <2>1 DEF ActionServed, Actions
      <3>2. born \in Nat /\ 1..born \subseteq 1..(born + 1) /\ born + 1 \in 1..(born + 1)
        BY DEF TypeOK
      <3>3. CASE action.intent = "create" /\ born' = born + 1
        BY <2>1, <3>1, <3>2, <3>3 DEF Done, Removes
      <3>4. CASE action.intent = "drop" /\ kind = "messages" /\ action.row \in server
                 /\ server' = server \ {action.row} /\ UNCHANGED born
        BY <1>1, <2>1, <3>1, <3>2, <3>4 DEF Done, Removes
      <3>5. CASE /\ action.intent = "touch" \/ (action.intent = "drop" /\ kind # "messages")
                 /\ action.row \in server
                 /\ touched' = touched \cup {action.row} /\ UNCHANGED <<server, born>>
        BY <1>1, <2>1, <3>1, <3>2, <3>5 DEF Done, Removes
      <3> QED
        BY <1>4, <3>3, <3>4, <3>5 DEF ActionServed
    <2> QED
      BY <1>1, <2>1, <2>2 DEF WriteInv, Done, Reflects, Removes
  <1>5. CASE Refresh
    <2>1. load' = Bare("asked") /\ UNCHANGED <<kind, server, touched, born, action, reported>>
      BY <1>5 DEF Refresh
    <2> QED
      BY <1>1, <2>1, BareTypes DEF WriteInv, Done, Removes
  <1>6. CASE UploadStep \/ ActionFails \/ Touch \/ Confirm
    <2>1. UNCHANGED <<kind, server, touched, born, list, load, reported, excused>>
      BY <1>6 DEF UploadStep, ActionFails, Touch, Confirm
    <2>2. action' = action \/ action'.at # "ok"
      <3>1. CASE UploadStep \/ ActionFails
        BY <3>1, Nobodys DEF UploadStep, Uploads, ActionFails, TypeOK, Actions
      <3>2. CASE Touch \/ Confirm
        BY <3>2 DEF Touch, Confirm, Write
      <3> QED
        BY <1>6, <3>1, <3>2
    <2> QED
      BY <1>1, <2>1, <2>2 DEF WriteInv, Done, Reflects, Removes
  <1>7. CASE \/ Arrive \/ Vanish \/ LookupEnds \/ Select \/ OpenOnRow \/ OpenCreate \/ LoadUsage
             \/ Dismiss \/ Navigate \/ Cancel \/ NextPrompt \/ UNCHANGED vars
    <2>1. UNCHANGED <<list, load, action, reported, excused>>
      BY <1>7 DEF Arrive, Vanish, LookupEnds, Select, OpenOnRow, OpenCreate, LoadUsage, Dismiss,
                  Navigate, Cancel, NextPrompt, vars
    <2> QED
      BY <1>1, <2>1 DEF WriteInv, Done, Reflects, Removes
  <1> QED
    BY <1>2, <1>3, <1>4, <1>5, <1>6, <1>7 DEF Next, Key

(* "a successful create or revoke schedules a reload so the list reflects  *)
(* the change" (tokens.rs; app.rs for all three lists): it does, however   *)
(* loads, writes and other clients' changes are interleaved, unless the    *)
(* reload was dropped or died.                                             *)
THEOREM ReportedWritesShow == Spec => []ReportedWriteShown
  <1>1. TypeOK /\ WriteInv => ReportedWriteShown
    BY DEF WriteInv, ReportedWriteShown, Quiet, Shows, Reflects, Removes
  <1>2. Init /\ [][Next]_vars => [](TypeOK /\ WriteInv)
    BY InitTypes, TypeStep, WriteInitial, WriteStep, PTL
  <1> QED
    BY <1>1, <1>2, PTL DEF Spec
==============================================================================
