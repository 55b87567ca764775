----------------------------- MODULE ManagedList -----------------------------
(***************************************************************************)
(* One of the three lists an operator manages: messages, questions or API  *)
(* tokens. The controllers of tbo-tui's data/messages.rs, questions.rs and *)
(* tokens.rs are one design (a load, a write and, for tokens, a usage      *)
(* lookup, each a task that reports over a channel the UI drains on its    *)
(* tick), driven by app.rs and its modal dialogs. `kind` says which list   *)
(* it is and never changes.                                                *)
(*                                                                         *)
(* Rows are numbered in the order of their creation and listed newest      *)
(* first, so that a list is given by the set of its rows. The operator     *)
(* stays signed in; a permission that is refused is a key without effect.  *)
(***************************************************************************)
EXTENDS Naturals, FiniteSets, FiniteSetsExt

CONSTANTS
    Kinds,      \* the lists to consider
    FirstRows,  \* rows there are at the start
    MaxRow      \* bound: rows ever created

ASSUME KindsAssumption == Kinds \subseteq {"messages", "questions", "tokens"}
ASSUME RowAssumption ==
    MaxRow \in Nat \ {0} /\ FirstRows \in Nat /\ FirstRows <= MaxRow

VARIABLES
    kind,
    server, touched, born,      \* the API: rows, rows written to, rows ever made
    list, selected, loaded,     \* the controller: the list as loaded, 1-based row
    load,                       \* the load whose channel it holds
    action,                     \* the write whose channel it holds
    usage, usageFor, usageLoad, \* tokens: usage shown, its label, its lookup
    revealed,                   \* tokens: a new secret is on the screen
    front,                      \* this list's screen is the one in front
    modal,
    reported, excused           \* history: see the end of the module

serverVars == <<server, touched, born>>
listVars == <<list, selected, loaded, load>>
usageVars == <<usage, usageFor, usageLoad>>
vars == <<kind, serverVars, listVars, action, usageVars, revealed, front, modal,
          reported, excused>>

Rows == 1..MaxRow
NoRow == 0

Lists == [at: {"idle", "loading", "ready", "failed"}, rows: SUBSET Rows,
          touched: SUBSET Rows]
Bare(at) == [at |-> at, rows |-> {}, touched |-> {}]

Loads == [at: {"none", "asked", "answered", "failed", "dead"}, rows: SUBSET Rows,
          touched: SUBSET Rows]

(* What can be done to the rows of each list: a decision, a translation or *)
(* another try of the pipeline, publication; removal or retirement; a new  *)
(* row.                                                                    *)
MessageWrites == {"touch", "drop"}
QuestionWrites == {"touch", "drop", "create"}
TokenWrites == {"drop", "create"}
Offers(intent) ==
    intent \in CASE kind = "messages" -> MessageWrites
                 [] kind = "questions" -> QuestionWrites
                 [] kind = "tokens" -> TokenWrites

Intents == {"touch", "drop", "create"}
Stages == {"file", "slot", "upload", "asked", "ok", "lost"}
Actions == [at: Stages, intent: Intents, row: Rows \cup {NoRow}]
NoAction == [at |-> "none", intent |-> "none", row |-> NoRow]

Usages == [at: {"idle", "loading", "ready", "failed"}, of: Rows \cup {NoRow}]
Lookups == [at: {"none", "asked", "answered", "failed", "dead"}, of: Rows \cup {NoRow}]
NoLookup == [at |-> "none", of |-> NoRow]

(* `row` and `reloaded` are history: the row that was selected when the    *)
(* dialog was opened, and whether a load was applied since.                *)
Modals == [intent: Intents, step: {1, 2}, row: Rows \cup {NoRow}, reloaded: BOOLEAN]
NoModal == [intent |-> "none", step |-> 1, row |-> NoRow, reloaded |-> FALSE]

TypeOK ==
    /\ kind \in Kinds
    /\ server \subseteq Rows /\ touched \subseteq Rows /\ born \in 0..MaxRow
    /\ list \in Lists
    /\ selected \in 1..MaxRow
    /\ loaded \in BOOLEAN
    /\ load \in Loads
    /\ action \in Actions \cup {NoAction}
    /\ usage \in Usages /\ usageFor \in Rows \cup {NoRow} /\ usageLoad \in Lookups
    /\ revealed \in BOOLEAN
    /\ front \in BOOLEAN
    /\ modal \in Modals \cup {NoModal}
    /\ reported \in Actions \cup {NoAction}
    /\ excused \in BOOLEAN

Init ==
    /\ kind \in Kinds
    /\ born = FirstRows
    /\ server = 1..FirstRows
    /\ touched = {}
    /\ list = Bare("idle")
    /\ selected = 1
    /\ loaded = FALSE
    /\ load = Bare("none")
    /\ action = NoAction
    /\ usage = [at |-> "idle", of |-> NoRow]
    /\ usageFor = NoRow
    /\ usageLoad = NoLookup
    /\ revealed = FALSE
    /\ front = FALSE
    /\ modal = NoModal
    /\ reported = NoAction
    /\ excused = FALSE

----------------------------------------------------------------------------
(* The API, and the tasks that call it.                                    *)

(* The booth records a message, or somebody else adds a row. Only messages *)
(* are ever removed; questions and tokens are marked as retired.           *)
Arrive ==
    /\ born < MaxRow
    /\ born' = born + 1
    /\ server' = server \cup {born + 1}
    /\ UNCHANGED <<kind, touched, listVars, action, usageVars, revealed, front,
                   modal, reported, excused>>

Vanish ==
    /\ kind = "messages"
    /\ \E r \in server : server' = server \ {r} /\ touched' = touched \ {r}
    /\ UNCHANGED <<kind, born, listVars, action, usageVars, revealed,
                   front, modal, reported, excused>>

(* The load's task: an answer, an error, or a death without a word. That   *)
(* an answer may be older when it arrives only matters for a write that is *)
(* reported meanwhile, and that one counts as `excused` below.             *)
LoadEnds ==
    /\ load.at = "asked"
    /\ load' \in {[at |-> "answered", rows |-> server, touched |-> touched],
                  Bare("failed"), Bare("dead")}
    /\ UNCHANGED <<kind, serverVars, list, selected, loaded, action, usageVars,
                   revealed, front, modal, reported, excused>>

(* Creating a question reads a file, reserves an upload slot and uploads   *)
(* the audio before it asks for the question itself.                       *)
Uploads ==
    \/ action.at = "file" /\ action' = [action EXCEPT !.at = "slot"]
    \/ action.at = "slot" /\ action' = [action EXCEPT !.at = "upload"]
    \/ action.at = "upload" /\ action' = [action EXCEPT !.at = "asked"]
UploadStep ==
    /\ Uploads
    /\ UNCHANGED <<kind, serverVars, listVars, usageVars, revealed, front, modal,
                   reported, excused>>

(* The write is refused, its reply is lost or its task dies, at whatever   *)
(* step: to the controller all of these only free the channel.             *)
ActionFails ==
    /\ action.at \in {"file", "slot", "upload", "asked"}
    /\ action' = [action EXCEPT !.at = "lost"]
    /\ UNCHANGED <<kind, serverVars, listVars, usageVars, revealed, front, modal,
                   reported, excused>>

(* The API takes the write. The reply may still be lost.                   *)
ActionServed ==
    /\ action.at = "asked"
    /\ \/ /\ action.intent = "create"
          /\ born < MaxRow
          /\ born' = born + 1
          /\ server' = server \cup {born + 1}
          /\ UNCHANGED touched
       \/ /\ action.intent = "drop" /\ kind = "messages"
          /\ action.row \in server
          /\ server' = server \ {action.row}
          /\ touched' = touched \ {action.row}
          /\ UNCHANGED born
       \/ /\ action.intent = "touch" \/ (action.intent = "drop" /\ kind # "messages")
          /\ action.row \in server
          /\ touched' = touched \cup {action.row}
          /\ UNCHANGED <<server, born>>
    /\ \E at \in {"ok", "lost"} :
         action' = [action EXCEPT
            !.at = at, !.row = IF action.intent = "create" THEN born + 1 ELSE @]
    /\ UNCHANGED <<kind, listVars, usageVars, revealed, front, modal, reported,
                   excused>>

LookupEnds ==
    /\ usageLoad.at = "asked"
    /\ \E at \in {"answered", "failed", "dead"} :
         usageLoad' = [usageLoad EXCEPT !.at = at]
    /\ UNCHANGED <<kind, serverVars, listVars, action, usage, usageFor, revealed,
                   front, modal, reported, excused>>

----------------------------------------------------------------------------
(* The controller.                                                         *)

(* The k-th row of a list.                                                 *)
RowAt(rows, k) ==
    IF \E r \in rows : Cardinality({s \in rows : s > r}) + 1 = k
    THEN CHOOSE r \in rows : Cardinality({s \in rows : s > r}) + 1 = k
    ELSE NoRow

(* selected_message, selected_question, selected_token.                    *)
Selected == IF list.at = "ready" THEN RowAt(list.rows, selected) ELSE NoRow

(* refresh, for a list l whose channel is free.                            *)
Begun(l) == IF l.at \in {"idle", "failed"} THEN Bare("loading") ELSE l

Busy == action # NoAction

WriteAnyway(intent, row) ==     \* a slip: the in-flight guard is gone
    action' = [at |-> IF intent = "create" /\ kind = "questions"
                      THEN "file" ELSE "asked",
               intent |-> intent, row |-> row]

(* run_action: dropped if another write is under way.                      *)
Write(intent, row) ==
    action' = IF Busy THEN action
              ELSE [at |-> IF intent = "create" /\ kind = "questions"
                           THEN "file" ELSE "asked",
                    intent |-> intent, row |-> row]

(* The list after drain has applied the load that is over.                 *)
Drained ==
    CASE load.at = "answered" -> [load EXCEPT !.at = "ready"]
      [] load.at = "failed" -> Bare("failed")
      [] OTHER -> list

(* The selection is an index, and is kept inside the list.                 *)
Clamped ==
    IF load.at = "answered"
    THEN Min({selected, Max({Cardinality(load.rows), 1})}) ELSE selected

FreeUnlessDead == load.at \in {"none", "answered", "failed"}   \* a slip

(* No load holds the channel once drain is done.                           *)
Free == load.at # "asked"

Applied == load.at \in {"answered", "failed"}

Succeeded == action.at = "ok"

NoReload(inFront) == Free /\ inFront /\ ~(loaded \/ Applied)   \* a slip

(* The tick makes the first load once the screen is in front, and a write  *)
(* that succeeded asks for a reload: either is dropped while one is asked. *)
Reloads(inFront) == Free /\ ((inFront /\ ~(loaded \/ Applied)) \/ Succeeded)

TickUsage ==
    /\ usage' = CASE usageLoad.at = "answered" -> [at |-> "ready", of |-> usageLoad.of]
                  [] usageLoad.at = "failed" -> [at |-> "failed", of |-> NoRow]
                  [] OTHER -> usage
    /\ usageLoad' = IF usageLoad.at \in {"answered", "failed", "dead"}
                    THEN NoLookup ELSE usageLoad
    /\ UNCHANGED usageFor

(* A tick of the controller. It may also find that the operator is no      *)
(* administrator any more, and the tokens' screen is left then.            *)
Tick ==
    /\ front' \in {front, front /\ kind # "tokens"}
    /\ list' = IF Reloads(front') THEN Begun(Drained) ELSE Drained
    /\ selected' = Clamped
    /\ load' = IF Reloads(front') THEN Bare("asked")
               ELSE IF Free THEN Bare("none") ELSE load
    /\ loaded' = ((loaded \/ Applied) /\ ~(kind = "tokens" /\ Succeeded))
    /\ TickUsage
    /\ action' = IF action.at \in {"ok", "lost"} THEN NoAction ELSE action
    /\ revealed' = (revealed \/ (Succeeded /\ kind = "tokens" /\ action.intent = "create"))
    /\ modal' = IF modal # NoModal /\ Applied
                THEN [modal EXCEPT !.reloaded = TRUE] ELSE modal
    /\ reported' = IF Succeeded THEN action ELSE reported
    /\ excused' = IF (Succeeded /\ Free) \/ Reloads(front') THEN FALSE
                  ELSE (excused \/ Succeeded \/ load.at = "dead")
    /\ UNCHANGED <<kind, serverVars>>

----------------------------------------------------------------------------
(* Keys, while the list is in front and no dialog is open.                 *)

Listening == front /\ modal = NoModal

(* refresh_active.                                                         *)
Refresh ==
    /\ Listening
    /\ load.at = "none"
    /\ load' = Bare("asked")
    /\ list' = Begun(list)
    /\ excused' = FALSE
    /\ UNCHANGED <<kind, serverVars, selected, loaded, action, usageVars, revealed,
                   front, modal, reported>>

Moved ==
    \/ list.at = "ready" /\ selected < Cardinality(list.rows)
       /\ selected' = selected + 1
    \/ selected' = Max({1, selected - 1})

SelectAnyTime ==        \* a slip: the keys reach the list behind a dialog
    /\ front
    /\ Moved
    /\ UNCHANGED <<kind, serverVars, list, loaded, load, action, usageVars, revealed,
                   front, modal, reported, excused>>

Select ==
    /\ Listening
    /\ Moved
    /\ UNCHANGED <<kind, serverVars, list, loaded, load, action, usageVars, revealed,
                   front, modal, reported, excused>>

(* A write on the selected row that needs no dialog: a decision on a       *)
(* message, a question made active or not.                                 *)
Touch ==
    /\ Listening
    /\ Offers("touch")
    /\ ~Busy
    /\ Selected # NoRow
    /\ Write("touch", Selected)
    /\ UNCHANGED <<kind, serverVars, listVars, usageVars, revealed, front, modal,
                   reported, excused>>

Asking(intent) == [intent |-> intent, step |-> 1, row |-> Selected, reloaded |-> FALSE]

(* A confirmation of the removal of the selected row, or a prompt for its  *)
(* translation. Of the three lists only the tokens look at Busy here.      *)
OpenOnRow ==
    /\ Listening
    /\ Selected # NoRow
    /\ kind = "tokens" => ~Busy
    /\ \/ modal' = Asking("drop")
       \/ kind = "messages" /\ modal' = Asking("touch")
    /\ UNCHANGED <<kind, serverVars, listVars, action, usageVars, revealed, front,
                   reported, excused>>

OpenCreate ==
    /\ Listening
    /\ Offers("create")
    /\ ~Busy
    /\ modal' = Asking("create")
    /\ UNCHANGED <<kind, serverVars, listVars, action, usageVars, revealed, front,
                   reported, excused>>

LabelFirst ==       \* a slip: the label changes although a lookup is under way
    /\ Listening
    /\ kind = "tokens"
    /\ Selected # NoRow
    /\ usageFor' = Selected
    /\ IF usageLoad = NoLookup
       THEN /\ usage' = [at |-> "loading", of |-> NoRow]
            /\ usageLoad' = [at |-> "asked", of |-> Selected]
       ELSE UNCHANGED <<usage, usageLoad>>
    /\ UNCHANGED <<kind, serverVars, listVars, action, revealed, front, modal,
                   reported, excused>>

LoadUsage ==
    /\ Listening
    /\ kind = "tokens"
    /\ usageLoad = NoLookup
    /\ Selected # NoRow
    /\ usage' = [at |-> "loading", of |-> NoRow]
    /\ usageFor' = Selected
    /\ usageLoad' = [at |-> "asked", of |-> Selected]
    /\ UNCHANGED <<kind, serverVars, listVars, action, revealed, front, modal,
                   reported, excused>>

Dismiss ==
    /\ Listening
    /\ revealed
    /\ revealed' = FALSE
    /\ UNCHANGED <<kind, serverVars, listVars, action, usageVars, front, modal,
                   reported, excused>>

(* Another screen is opened, or this one.                                  *)
Navigate ==
    /\ modal = NoModal
    /\ front' = ~front
    /\ UNCHANGED <<kind, serverVars, listVars, action, usageVars, revealed, modal,
                   reported, excused>>

(* Keys of an open dialog.                                                 *)
Cancel ==
    /\ modal # NoModal
    /\ modal' = NoModal
    /\ UNCHANGED <<kind, serverVars, listVars, action, usageVars, revealed, front,
                   reported, excused>>

(* dispatch_modal: the dialog is gone, and what it was for is done to the  *)
(* row that is selected now. A new question has a second prompt.           *)
NextPrompt ==
    /\ modal.intent = "create" /\ kind = "questions" /\ modal.step = 1
    /\ modal' = [modal EXCEPT !.step = 2]
    /\ UNCHANGED <<kind, serverVars, listVars, action, usageVars, revealed, front,
                   reported, excused>>

Confirm ==
    /\ modal # NoModal
    /\ modal.intent = "create" /\ kind = "questions" => modal.step = 2
    /\ modal' = NoModal
    /\ IF modal.intent = "create" THEN Write("create", NoRow)
       ELSE IF Selected # NoRow THEN Write(modal.intent, Selected)
       ELSE UNCHANGED action
    /\ UNCHANGED <<kind, serverVars, listVars, usageVars, revealed, front, reported,
                   excused>>

Key ==
    \/ Refresh \/ Select \/ Touch \/ OpenOnRow \/ OpenCreate \/ LoadUsage
    \/ Dismiss \/ Navigate \/ Cancel \/ NextPrompt \/ Confirm

Next ==
    \/ Arrive \/ Vanish
    \/ LoadEnds \/ UploadStep \/ ActionFails \/ ActionServed \/ LookupEnds
    \/ Tick \/ Key

Spec == Init /\ [][Next]_vars

(* Ticks go on, requests end somehow, and loads do not die for ever.       *)
Fairness ==
    /\ WF_vars(Tick)
    /\ WF_vars(LoadEnds) /\ SF_vars(LoadEnds /\ load'.at # "dead")
    /\ WF_vars(UploadStep \/ ActionFails \/ ActionServed)

FairSpec == Spec /\ Fairness

----------------------------------------------------------------------------
(* tokens.rs: "a successful create or revoke schedules a reload so the     *)
(* list reflects the change"; app.rs does so for all three lists. Once no  *)
(* load is under way, the list shows the last write that was reported as   *)
(* successful, unless the reload was dropped because a load was already    *)
(* under way when the success was reported, or died (`excused`).           *)
Shows(write) ==
    CASE write.intent = "drop" /\ kind = "messages" -> write.row \notin list.rows
      [] write.intent = "create" -> write.row \in list.rows \/ write.row \notin server
      [] OTHER -> write.row \in list.touched \/ write.row \notin list.rows

Quiet == load.at = "none" /\ list.at = "ready" /\ reported # NoAction

ReportedWriteShown == Quiet /\ ~excused => Shows(reported)

(* A dialog is about the row that was selected when it was opened. Nothing *)
(* but a load that is applied behind it can make its confirmation hit      *)
(* another row.                                                            *)
Hits == modal.intent \in {"drop", "touch"} /\ modal' = NoModal /\ action' # action

OnlyReloadMisleads ==
    [][Hits /\ ~modal.reloaded => action'.row = modal.row]_vars

(* questions.rs: the list loads on demand only, "so a reload never disrupts*)
(* the selection": what is confirmed hits the row it was asked about.      *)
ConfirmHitsRowAsked == [][Hits => action'.row = modal.row]_vars

(* A write that was started is not forgotten: it stays until its outcome   *)
(* is in, and the controller lets go of it only then.                      *)
NoWriteForgotten ==
    [][Busy /\ action' # action =>
         \/ action'.intent = action.intent
         \/ action.at \in {"ok", "lost"}]_vars

(* Usage is shown under the token it was asked for, although the selection *)
(* moves and reloads renumber the rows (TokensController::usage).          *)
UsageShown == usageFor # NoRow /\ usageFor = Selected /\ usage.at = "ready"
UsageIsOfItsToken == UsageShown => usage.of = Selected

(* Whatever becomes of a request or of its task, nothing sticks: a load    *)
(* ends with a list, or so that "a later refresh can run", and a write     *)
(* makes room for the next one.                                            *)
NothingSticks ==
    /\ load.at # "none" ~> load.at = "none" \/ list.at = "ready"
    /\ Busy ~> ~Busy
=============================================================================
