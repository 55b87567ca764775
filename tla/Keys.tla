--------------------------------- MODULE Keys ---------------------------------
(***************************************************************************)
(* What each key does: tbo-tui's `App::on_key` with the gate, the dialogs  *)
(* and the screen palette in front of it, next to the keys that the status *)
(* bar, the gate and the palette offer (ui/mod.rs).                        *)
(*                                                                         *)
(* A key that hands over to a controller which has a module of its own     *)
(* changes nothing here; which rows are selected and which requests are    *)
(* under way is theirs, and a choice. A lower-case letter stands for both  *)
(* cases where the code takes both.                                        *)
(***************************************************************************)
EXTENDS Integers, Sequences, FiniteSetsExt

VARIABLES
    onScreen,          \* the screen
    dialog,         \* `modal`, or `show_help`
    signIn,         \* the phase: "out", "busy" while in progress, "in"
    permission,     \* the identity: "unknown", "member" or "admin"
    debugger,       \* `debug`: no booth, no controller, controls off or on
    simulating,     \* a simulate action is in flight
    creating,       \* a token creation is in flight
    secretShown,    \* the created token's secret is revealed
    left            \* `should_quit`

keysVars == <<onScreen, dialog, signIn, permission, debugger, simulating, creating,
              secretShown, left>>

All == <<"Status", "Messages", "Questions", "Events", "Sessions", "Stats", "LiveSystem",
         "SystemHealth", "Debug", "Tokens", "Audit", "Settings", "About">>
ScreenSet == {All[i] : i \in DOMAIN All}
AdminOnly == {"Tokens", "Debug", "Audit"}

NavKey == [s \in ScreenSet |->
    CASE s = "Status" -> "1" [] s = "Messages" -> "2" [] s = "Questions" -> "3"
      [] s = "Events" -> "4" [] s = "Sessions" -> "5" [] s = "Stats" -> "6"
      [] s = "LiveSystem" -> "7" [] s = "SystemHealth" -> "8" [] s = "Debug" -> "9"
      [] s = "Tokens" -> "0" [] s = "Audit" -> "U" [] s = "Settings" -> "S"
      [] s = "About" -> "A"]
NavKeys == {NavKey[s] : s \in ScreenSet}

Digits == <<"1", "2", "3", "4", "5", "6", "7", "8", "9">>

(* from_nav_key, for a key of the palette.                                 *)
FromNavKey(key) ==
    IF \E i \in 1..9 : Digits[i] = key
    THEN All[CHOOSE i \in 1..9 : Digits[i] = key]
    ELSE CASE key = "0" -> "Tokens" [] key = "U" -> "Audit"
           [] key = "S" -> "Settings" [] key = "A" -> "About"

Letters == {"q", "g", "l", "o", "u", "b", "k", "p", "j", "r", "w", "f", "m", "a", "x",
            "t", "d", "e", "n", "s", "v", "h", "y"}
KeySet == Letters \cup NavKeys
    \cup {"Esc", "?", "Tab", "BackTab", "Up", "Down", "Space", "Enter", "Backspace"}

Intents == {"DeleteMessage", "TranslateMessage", "ArchiveQuestion", "NewQuestionPrompt",
            "NewQuestionAudio", "NewApiToken", "RevokeApiToken", "SimulateDial",
            "EditOperatorBaseUrl", "EditBoothDebugUrl", "EditBoothDebugToken",
            "EditPollInterval"}
Dialogs == [kind: {"none", "help", "confirm", "prompt"}, intent: Intents \cup {"none"},
            blank: BOOLEAN]
NoDialog == [kind |-> "none", intent |-> "none", blank |-> TRUE]
HelpShown == [NoDialog EXCEPT !.kind = "help"]
Confirm(intent) == [kind |-> "confirm", intent |-> intent, blank |-> TRUE]
Prompt(intent, blank) == [kind |-> "prompt", intent |-> intent, blank |-> blank]

HasBooth == debugger # "no-booth"
HasDebug == debugger \in {"controls-off", "controls-on"}

KeysTypeOK ==
    /\ onScreen \in ScreenSet
    /\ dialog \in Dialogs
    /\ signIn \in {"out", "busy", "in"}
    /\ permission \in {"unknown", "member", "admin"}
    /\ debugger \in {"no-booth", "no-debug", "controls-off", "controls-on"}
    /\ {simulating, creating, secretShown, left} \subseteq BOOLEAN

KeysInit ==
    /\ onScreen = "Status"
    /\ dialog = NoDialog
    /\ signIn \in {"out", "in"}
    /\ permission = "unknown"
    /\ debugger \in {"no-booth", "no-debug", "controls-off"}
    /\ simulating = FALSE /\ creating = FALSE /\ secretShown = FALSE /\ left = FALSE

----------------------------------------------------------------------------
(* The arms of each match, in the order they are tried: the keys, the      *)
(* screens on which they count, and what they are for.                     *)

Arm(keys, does) == [keys |-> keys, on |-> ScreenSet, does |-> does]
On(screens, keys, does) == [keys |-> keys, on |-> screens, does |-> does]

LockedArms == <<Arm({"q"}, "quit"), Arm({"l"}, "log-in"), Arm({"Esc"}, "escape")>>

ConfirmArms == <<Arm({"Enter", "y"}, "confirm"), Arm({"Esc", "n"}, "cancel")>>
PromptArms ==
    <<Arm({"Esc"}, "cancel"), Arm({"Enter"}, "submit"), Arm({"Backspace"}, "erase"),
      Arm(Letters \cup NavKeys \cup {"?", "Space"}, "type")>>

HelpArms ==
    <<Arm({"Esc", "?", "q"}, "close"), Arm({"Tab"}, "next"), Arm({"BackTab"}, "previous"),
      Arm(NavKeys, "palette"), Arm({"l"}, "log-in"), Arm({"o"}, "sign-out")>>

Lists == {"Messages", "Questions"}
OpensAnywhere == ScreenSet         \* a slip: g is in use already
OpensOn == ScreenSet \ {"Messages"}

GeneralArms ==
    <<Arm({"q"}, "quit"), Arm({"?"}, "screens"), On(OpensOn, {"g"}, "screens"),
      Arm({"Esc"}, "escape"), Arm({"Tab"}, "next"), Arm({"BackTab"}, "previous"),
      Arm({"U"}, "palette")>>
EditArms ==
    <<On({"Settings"}, {"u"}, "API-URL"), On({"Settings"}, {"b"}, "booth-URL"),
      On({"Settings"}, {"k"}, "booth-token"), On({"Settings"}, {"p"}, "poll-ms")>>
ListArms == <<Arm({"Down", "j", "Up", "k"}, "select"), Arm({"r"}, "refresh")>>
FeedArms ==
    <<On({"Stats"}, {"w"}, "window"), On({"Audit"}, {"f"}, "filter"),
      On({"Audit"}, {"m"}, "older"), On({"Events"}, {"f"}, "follow")>>
MessageArms ==
    <<On({"Messages"}, {"a"}, "approve"), On({"Messages"}, {"x"}, "reject"),
      On({"Messages"}, {"t"}, "transcribe"), On({"Messages"}, {"m"}, "moderate"),
      On({"Messages"}, {"g"}, "translate"), On({"Messages"}, {"d"}, "delete")>>
QuestionArms ==
    <<On({"Questions"}, {"a"}, "activate"), On({"Questions"}, {"e"}, "deactivate"),
      On({"Questions"}, {"d"}, "archive"), On({"Questions"}, {"n"}, "new-question")>>
AudioArms ==
    <<On(Lists, {"p"}, "play"), On(Lists, {"Space"}, "pause"), On(Lists, {"s"}, "stop")>>
TokenArms ==
    <<On({"Tokens"}, {"n"}, "new-token"), On({"Tokens"}, {"d"}, "revoke"),
      On({"Tokens"}, {"u"}, "usage")>>
DebugArms ==
    <<On({"Debug"}, {"v"}, "level"), On({"Debug"}, {"f"}, "live"),
      On({"Debug"}, {"o"}, "hook-off"), On({"Debug"}, {"h"}, "hook-on"),
      On({"Debug"}, {"p"}, "playback"), On({"Debug"}, {"d"}, "dial")>>
LastArms ==
    <<Arm({"l"}, "log-in"), On({"Settings"}, {"o"}, "sign-out"),
      On({"Settings"}, {"t"}, "theme"), Arm(NavKeys, "palette")>>

ScreenArms ==
    GeneralArms \o EditArms \o ListArms \o FeedArms \o MessageArms \o QuestionArms
      \o AudioArms \o TokenArms \o DebugArms \o LastArms

(* The first arm that takes a key on a screen decides what it is for.      *)
Uses(arms) == [s \in ScreenSet |-> [key \in KeySet |->
    LET taken == {i \in DOMAIN arms : key \in arms[i].keys /\ s \in arms[i].on}
    IN  IF taken = {} THEN "nothing" ELSE arms[Min(taken)].does]]

Used == [at \in {"locked", "confirm", "prompt", "help", "none"} |->
    Uses(CASE at = "locked" -> LockedArms
           [] at = "confirm" -> ConfirmArms
           [] at = "prompt" -> PromptArms
           [] at = "help" -> HelpArms
           [] at = "none" -> ScreenArms)]

(* What Esc means where no dialog takes it.                                *)
Escape ==
    IF signIn = "in" /\ onScreen = "Tokens" /\ secretShown THEN "dismiss-secret"
    ELSE IF signIn = "busy" THEN "cancel-login"
    ELSE "quit"

(* What a key is for at the moment; for a key of the palette, its screen.  *)
Does(key) ==
    LET does == Used[IF signIn = "in" THEN dialog.kind ELSE "locked"][onScreen][key]
    IN  CASE does = "escape" -> Escape
          [] does = "palette" -> FromNavKey(key)
          [] OTHER -> does

----------------------------------------------------------------------------
(* What the keys do. Nothing is selected, or a write is in flight: then    *)
(* some of them are answered with a toast.                                 *)

(* The gate drops what a sign-out left open before it looks at the key.    *)
GateClears == dialog' = IF signIn = "in" THEN dialog ELSE NoDialog

(* Quitting by key, or by Ctrl-C, before anything else.                    *)
Quits ==
    /\ left' = TRUE
    /\ \/ \E key \in KeySet : Does(key) = "quit" /\ GateClears
       \/ UNCHANGED dialog
    /\ UNCHANGED <<onScreen, signIn, permission, debugger, simulating, creating, secretShown>>

(* begin_login, which is ignored unless nobody is signed in or about to be. *)
LogsIn ==
    /\ \E key \in KeySet : Does(key) = "log-in"
    /\ signIn = "out"
    /\ signIn' = "busy"
    /\ GateClears
    /\ UNCHANGED <<onScreen, permission, debugger, simulating, creating, secretShown, left>>

CancelsLogin ==
    /\ \E key \in KeySet : Does(key) = "cancel-login"
    /\ signIn' = "out"
    /\ GateClears
    /\ UNCHANGED <<onScreen, permission, debugger, simulating, creating, secretShown, left>>

IgnoredAtGate ==
    /\ signIn # "in"
    /\ dialog # NoDialog
    /\ GateClears
    /\ UNCHANGED <<onScreen, signIn, permission, debugger, simulating, creating, secretShown,
                   left>>

SignsOut ==
    /\ \E key \in KeySet : Does(key) = "sign-out"
    /\ signIn' = "out"
    /\ dialog' = NoDialog
    /\ UNCHANGED <<onScreen, permission, debugger, simulating, creating, secretShown, left>>

Permitted(s) == s \in AdminOnly => permission = "admin"

(* reachable_screen: the first one that may be opened, the way of `step`.  *)
Reachable(step) ==
    LET at == CHOOSE i \in DOMAIN All : All[i] = onScreen
        candidate(n) == All[((at - 1 + n * step) % Len(All)) + 1]
        open == {n \in DOMAIN All : Permitted(candidate(n))}
    IN  IF open = {} THEN onScreen ELSE candidate(Min(open))

Cycles ==
    /\ \E key \in KeySet :
         \/ Does(key) = "next" /\ onScreen' = Reachable(1)
         \/ Does(key) = "previous" /\ onScreen' = Reachable(-1)
    /\ UNCHANGED <<dialog, signIn, permission, debugger, simulating, creating, secretShown,
                   left>>

(* jump_to_nav_key; the palette closes whether or not the screen opens.    *)
GoesTo ==
    /\ \E key \in NavKeys :
         /\ Does(key) \in ScreenSet
         /\ onScreen' = IF Permitted(Does(key)) THEN Does(key) ELSE onScreen
    /\ dialog' = NoDialog
    /\ UNCHANGED <<signIn, permission, debugger, simulating, creating, secretShown, left>>

TogglesHelp ==
    /\ \E key \in KeySet :
         \/ Does(key) = "screens" /\ dialog' = HelpShown
         \/ Does(key) = "close" /\ dialog' = NoDialog
    /\ UNCHANGED <<onScreen, signIn, permission, debugger, simulating, creating, secretShown,
                   left>>

DismissesSecret ==
    /\ \E key \in KeySet : Does(key) = "dismiss-secret"
    /\ secretShown' = FALSE
    /\ UNCHANGED <<onScreen, dialog, signIn, permission, debugger, simulating, creating, left>>

(* The dialog that a key asks for, if what it is for can be done now.      *)
Opened(does) ==
    CASE does = "delete" -> {Confirm("DeleteMessage")}
      [] does = "translate" -> {Prompt("TranslateMessage", TRUE)}
      [] does = "archive" /\ permission = "admin" -> {Confirm("ArchiveQuestion")}
      [] does = "new-question" /\ permission = "admin" -> {Prompt("NewQuestionPrompt", TRUE)}
      [] does = "new-token" -> {Prompt("NewApiToken", TRUE)}
      [] does = "revoke" -> {Confirm("RevokeApiToken")}
      [] does = "dial" /\ debugger = "controls-on" -> {Prompt("SimulateDial", TRUE)}
      [] does = "API-URL" -> {Prompt("EditOperatorBaseUrl", FALSE)}
      [] does = "booth-URL" /\ HasBooth -> {Prompt("EditBoothDebugUrl", FALSE)}
      [] does = "booth-token" /\ HasBooth -> {Prompt("EditBoothDebugToken", TRUE)}
      [] does = "poll-ms" -> {Prompt("EditPollInterval", FALSE)}
      [] OTHER -> {}

OpensDialog ==
    /\ \E key \in KeySet : dialog' \in Opened(Does(key))
    /\ UNCHANGED <<onScreen, signIn, permission, debugger, simulating, creating, secretShown,
                   left>>

(* PromptModal::on_key; what is typed, and what is left, may be blank.     *)
Types ==
    /\ dialog.kind = "prompt"
    /\ \E key \in KeySet :
         \/ Does(key) = "type" /\ dialog' = [dialog EXCEPT !.blank = @ /\ key = "Space"]
         \/ Does(key) = "erase" /\ \E b \in {dialog.blank, TRUE} :
                                     dialog' = [dialog EXCEPT !.blank = b]
    /\ UNCHANGED <<onScreen, signIn, permission, debugger, simulating, creating, secretShown,
                   left>>

Cancels ==
    /\ \E key \in KeySet : Does(key) = "cancel"
    /\ dialog' = NoDialog
    /\ UNCHANGED <<onScreen, signIn, permission, debugger, simulating, creating, secretShown,
                   left>>

(* debug_simulate, and run_action, which one action at a time gets to.     *)
Simulated == simulating' = (simulating \/ debugger = "controls-on")

(* dispatch_modal. What is entered may be refused: that is a toast.        *)
Confirms ==
    /\ \E key \in KeySet :
         Does(key) = "confirm" \/ (Does(key) = "submit" /\ ~dialog.blank)
    /\ dialog' = IF dialog.intent = "NewQuestionPrompt"
                 THEN Prompt("NewQuestionAudio", TRUE) ELSE NoDialog
    /\ creating' \in {creating, creating \/ dialog.intent = "NewApiToken"}
    /\ \/ /\ dialog.intent = "SimulateDial"
          /\ Simulated
          /\ UNCHANGED debugger
       \/ /\ dialog.intent \in {"EditBoothDebugUrl", "EditBoothDebugToken"}
          /\ debugger' \in {"no-debug", "controls-off"}
          /\ simulating' = FALSE
       \/ UNCHANGED <<debugger, simulating>>
    /\ UNCHANGED <<onScreen, signIn, permission, secretShown, left>>

Simulates ==
    /\ \E key \in KeySet : Does(key) \in {"hook-off", "hook-on", "playback"}
    /\ Simulated
    /\ UNCHANGED <<onScreen, dialog, signIn, permission, debugger, creating, secretShown, left>>

Pressed ==
    \/ Quits \/ LogsIn \/ CancelsLogin \/ IgnoredAtGate \/ SignsOut
    \/ Cycles \/ GoesTo \/ TogglesHelp \/ DismissesSecret
    \/ OpensDialog \/ Types \/ Cancels \/ Confirms \/ Simulates

----------------------------------------------------------------------------
(* A tick, with whatever the controllers have drained.                     *)

AppTick ==
    /\ signIn' \in CASE signIn = "out" -> {"out"}
                     [] signIn = "busy" -> {"busy", "in", "out"}
                     [] signIn = "in" -> {"in", "out"}
    /\ permission' \in IF signIn' = "in" THEN {permission, "member", "admin"}
                       ELSE {"unknown"}
    /\ dialog' = IF signIn = "in" /\ signIn' = "out" /\ dialog = HelpShown
                 THEN NoDialog ELSE dialog
    /\ onScreen' = IF onScreen \in AdminOnly /\ permission' # "admin" THEN "Status" ELSE onScreen
    /\ debugger' \in {debugger} \cup
          IF HasDebug THEN {"controls-off", "controls-on"} ELSE {}
    /\ simulating' \in {simulating, FALSE}
    /\ creating' \in {creating, FALSE}
    /\ secretShown' \in {secretShown, secretShown \/ (creating /\ ~creating')}
    /\ UNCHANGED left

(* The program is started again.                                           *)
Reopened ==
    /\ left
    /\ onScreen' = "Status" /\ dialog' = NoDialog
    /\ signIn' \in {"out", "in"} /\ permission' = "unknown"
    /\ debugger' = IF HasDebug THEN "controls-off" ELSE debugger
    /\ simulating' = FALSE /\ creating' = FALSE /\ secretShown' = FALSE /\ left' = FALSE

KeysNext == \/ ~left /\ (Pressed \/ AppTick)
            \/ Reopened

KeysSpec == KeysInit /\ [][KeysNext]_keysVars

----------------------------------------------------------------------------
(* The keys that are on offer, each with what it is offered for.           *)

GateOffers == {<<"q", "quit">>,
    IF signIn = "busy" THEN <<"Esc", "cancel-login">> ELSE <<"l", "log-in">>}

(* render_help: every screen, those that are refused included. *)
HelpOffers ==
    {<<NavKey[s], s>> : s \in ScreenSet} \cup
    {<<"l", "log-in">>, <<"o", "sign-out">>, <<"Esc", "close">>, <<"?", "close">>,
     <<"Tab", "next">>, <<"BackTab", "previous">>}

DialogOffers ==
    CASE dialog.kind = "help" -> HelpOffers
      [] dialog.kind = "confirm" ->
           {<<"y", "confirm">>, <<"n", "cancel">>, <<"Esc", "cancel">>}
      [] dialog.kind = "prompt" ->
           {<<key, "type">> : key \in Letters \cup NavKeys} \cup
           {<<"Enter", "submit">>, <<"Esc", "cancel">>}

BackAndForth == {<<"Tab", "next">>, <<"BackTab", "previous">>, <<"q", "quit">>}
Going == {<<"Tab", "next">>, <<"q", "quit">>}
Selecting == {<<"Up", "select">>, <<"Down", "select">>, <<"r", "refresh">>}
Playing == {<<"p", "play">>, <<"Space", "pause">>, <<"s", "stop">>}

BarOffers == {<<"?", "screens">>} \cup
    CASE onScreen = "Settings" ->
           {<<"u", "API-URL">>, <<"b", "booth-URL">>, <<"k", "booth-token">>,
            <<"p", "poll-ms">>, <<"t", "theme">>, <<"l", "log-in">>, <<"o", "sign-out">>}
      [] onScreen = "About" -> BackAndForth
      [] onScreen \in {"Status", "LiveSystem", "SystemHealth"} ->
           BackAndForth \cup {<<"r", "refresh">>}
      [] onScreen = "Messages" -> Selecting \cup Playing \cup
           {<<"a", "approve">>, <<"x", "reject">>, <<"t", "transcribe">>,
            <<"m", "moderate">>, <<"g", "translate">>, <<"d", "delete">>}
      [] onScreen = "Questions" -> Selecting \cup Playing \cup
           {<<"a", "activate">>, <<"e", "deactivate">>, <<"d", "archive">>,
            <<"n", "new-question">>}
      [] onScreen = "Sessions" -> Selecting \cup Going
      [] onScreen = "Events" -> Selecting \cup Going \cup {<<"f", "follow">>}
      [] onScreen = "Stats" -> Going \cup {<<"r", "refresh">>, <<"w", "window">>}
      [] onScreen = "Debug" -> {<<"r", "refresh">>, <<"f", "live">>, <<"v", "level">>} \cup
           (IF debugger = "controls-on"
            THEN {<<"o", "hook-off">>, <<"h", "hook-on">>, <<"p", "playback">>,
                  <<"d", "dial">>}
            ELSE Going)
      [] onScreen = "Tokens" -> Selecting \cup
           {<<"n", "new-token">>, <<"d", "revoke">>, <<"u", "usage">>,
            <<"Esc", "dismiss-secret">>}
      [] onScreen = "Audit" -> Selecting \cup Going \cup {<<"f", "filter">>, <<"m", "older">>}

Offered ==
    IF signIn # "in" THEN GateOffers
    ELSE IF dialog # NoDialog THEN DialogOffers ELSE BarOffers

(* Whatever is open and on whichever screen, a key that is on offer does   *)
(* what it is offered for: no arm that is tried earlier takes it, and a    *)
(* key of the palette leads to the screen it stands next to. One offer is  *)
(* excepted: without a secret on the screen, Esc on Tokens has nothing to  *)
(* dismiss, and leaves the program.                                        *)
OfferedKeysAct ==
    \A offer \in Offered :
      \/ Does(offer[1]) = offer[2]
      \/ offer[2] = "dismiss-secret" /\ ~secretShown
=============================================================================
