---------------------------- MODULE Screens_proofs ----------------------------
(***************************************************************************)
(* Theorems about MCScreens, for all values of the constants of the parts  *)
(* that it composes: each part behaves as if it were alone, and what the   *)
(* other modules of theorems say of a part's own specification therefore   *)
(* holds of the composition. Keys, which has no constants, is proved here. *)
(***************************************************************************)
EXTENDS MCScreens, DataFeeds_proofs, Booth_proofs, Edge_proofs

------------------------------------------------------------------------------
(* Keys: the types of what the keys change.                                *)

(* The keys of the palette, and where they lead.                           *)
LEMMA Palette ==
    /\ ScreenSet = {"Status", "Messages", "Questions", "Events", "Sessions", "Stats",
                    "LiveSystem", "SystemHealth", "Debug", "Tokens", "Audit", "Settings",
                    "About"}
    /\ NavKeys = {"1", "2", "3", "4", "5", "6", "7", "8", "9", "0", "U", "S", "A"}
    /\ \A s \in ScreenSet : FromNavKey(NavKey[s]) = s
  <1>1. ScreenSet = {"Status", "Messages", "Questions", "Events", "Sessions", "Stats",
                     "LiveSystem", "SystemHealth", "Debug", "Tokens", "Audit", "Settings",
                     "About"}
    <2>1. DOMAIN All = 1..13
      BY DEF All
    <2>2. \A i \in 1..13 : i = 1 \/ i = 2 \/ i = 3 \/ i = 4 \/ i = 5 \/ i = 6 \/ i = 7
                         \/ i = 8 \/ i = 9 \/ i = 10 \/ i = 11 \/ i = 12 \/ i = 13
      OBVIOUS
    <2>3. /\ All[1] = "Status" /\ All[2] = "Messages" /\ All[3] = "Questions"
          /\ All[4] = "Events" /\ All[5] = "Sessions" /\ All[6] = "Stats"
          /\ All[7] = "LiveSystem" /\ All[8] = "SystemHealth" /\ All[9] = "Debug"
          /\ All[10] = "Tokens" /\ All[11] = "Audit" /\ All[12] = "Settings"
          /\ All[13] = "About"
      BY DEF All
    <2> QED
      BY <2>1, <2>2, <2>3 DEF ScreenSet
  <1>2. NavKeys = {"1", "2", "3", "4", "5", "6", "7", "8", "9", "0", "U", "S", "A"}
    BY <1>1 DEF NavKeys, NavKey
  <1>3. ASSUME NEW s \in ScreenSet PROVE FromNavKey(NavKey[s]) = s
    <2>1. \A key : FromNavKey(key) =
                IF \E i \in 1..9 : Digits[i] = key
                THEN All[CHOOSE i \in 1..9 : Digits[i] = key]
                ELSE CASE key = "0" -> "Tokens" [] key = "U" -> "Audit"
                       [] key = "S" -> "Settings" [] key = "A" -> "About"
      BY DEF FromNavKey
    <2> QED
      BY <1>1, <2>1 DEF NavKey, Digits, All
  <1> QED
    BY <1>1, <1>2, <1>3

(* The dialogs that keys open, and none, are dialogs.                      *)
LEMMA DialogTypes ==
    /\ NoDialog \in Dialogs /\ HelpShown \in Dialogs
    /\ \A intent \in Intents : Confirm(intent) \in Dialogs
    /\ \A intent \in Intents, blank \in BOOLEAN : Prompt(intent, blank) \in Dialogs
  BY DEF NoDialog, HelpShown, Confirm, Prompt, Dialogs

(* Whatever a key asks for, what opens is a dialog.                        *)
LEMMA OpenedTypes ==
    ASSUME NEW does
    PROVE  Opened(does) \subseteq Dialogs
  BY DialogTypes DEF Opened, Intents

(* Tab and its reverse lead from screen to screen.                         *)
LEMMA CycleTypes ==
    ASSUME onScreen \in ScreenSet, NEW step \in {1, -1}
    PROVE  Reachable(step) \in ScreenSet
  <1> DEFINE at == CHOOSE i \in DOMAIN All : All[i] = onScreen
             candidate(n) == All[((at - 1 + n * step) % Len(All)) + 1]
             open == {n \in DOMAIN All : Permitted(candidate(n))}
  <1>1. Len(All) = 13 /\ DOMAIN All = 1..13 /\ \A i \in 1..13 : All[i] \in ScreenSet
    BY DEF All, ScreenSet
  <1>2. at \in 1..13
    BY <1>1 DEF ScreenSet
  <1>3. \A n \in Nat : candidate(n) \in ScreenSet
    <2> TAKE n \in Nat
    <2>1. \A z \in Int : (z % 13) + 1 \in 1..13
      OBVIOUS
    <2>2. at - 1 + n * step \in Int
      <3>1. step = 1 => n * step = n
        OBVIOUS
      <3>2. step = -1 => n * step = -n
        OBVIOUS
      <3> HIDE DEF at
      <3> QED
        BY <1>2, <3>1, <3>2
    <2>3. ((at - 1 + n * step) % 13) + 1 \in 1..13
      BY <2>1, <2>2
    <2> QED
      BY <1>1, <2>3
  <1>4. CASE open = {}
    BY <1>4 DEF Reachable
  <1>5. CASE open # {}
    <2>1. open \subseteq Nat
      BY <1>1
    <2>2. PICK m \in open : \A n \in open : m <= n
      BY <1>5, <2>1, LeastNat
    <2>3. Min(open) \in open
      BY <2>1, <2>2 DEF Min
    <2>4. Reachable(step) = candidate(Min(open))
      BY <1>5 DEF Reachable
    <2>5. candidate(Min(open)) \in ScreenSet
      BY <1>3, <2>1, <2>3
    <2> QED
      BY <2>4, <2>5
  <1> QED
    BY <1>4, <1>5

(* Every key and every tick keeps the types.                               *)
LEMMA KeysStep ==
    ASSUME KeysTypeOK, [KeysNext]_keysVars
    PROVE  KeysTypeOK'
  <1> USE DEF KeysTypeOK
  <1>1. CASE UNCHANGED keysVars
    BY <1>1 DEF keysVars
  <1>2. CASE Quits
    BY <1>2, DialogTypes DEF Quits, GateClears
  <1>3. CASE LogsIn
    BY <1>3, DialogTypes DEF LogsIn, GateClears
  <1>4. CASE CancelsLogin
    BY <1>4, DialogTypes DEF CancelsLogin, GateClears
  <1>5. CASE IgnoredAtGate
    BY <1>5, DialogTypes DEF IgnoredAtGate, GateClears
  <1>6. CASE SignsOut
    BY <1>6, DialogTypes DEF SignsOut
  <1>7. CASE Cycles
    BY <1>7, CycleTypes DEF Cycles
  <1>8. CASE GoesTo
    BY <1>8, DialogTypes DEF GoesTo
  <1>9. CASE TogglesHelp
    BY <1>9, DialogTypes DEF TogglesHelp
  <1>10. CASE DismissesSecret
    BY <1>10 DEF DismissesSecret
  <1>11. CASE OpensDialog
    BY <1>11, OpenedTypes DEF OpensDialog
  <1>12. CASE Types
    BY <1>12 DEF Types, Dialogs
  <1>13. CASE Cancels
    BY <1>13, DialogTypes DEF Cancels
  <1>14. CASE Confirms
    <2>1. dialog' \in Dialogs
      BY <1>14, DialogTypes DEF Confirms, Intents
    <2>2. creating' \in BOOLEAN
      BY <1>14 DEF Confirms
    <2>3. /\ simulating' \in BOOLEAN
          /\ debugger' \in {"no-booth", "no-debug", "controls-off", "controls-on"}
      BY <1>14 DEF Confirms, Simulated
    <2> QED
      BY <1>14, <2>1, <2>2, <2>3 DEF Confirms
  <1>15. CASE Simulates
    BY <1>15 DEF Simulates, Simulated
  <1>16. CASE AppTick
    <2>1. signIn' \in {"out", "busy", "in"} /\ permission' \in {"unknown", "member", "admin"}
      BY <1>16 DEF AppTick
    <2>2. dialog' \in Dialogs /\ onScreen' \in ScreenSet
      BY <1>16, Palette, DialogTypes DEF AppTick
    <2>3. debugger' \in {"no-booth", "no-debug", "controls-off", "controls-on"}
      BY <1>16 DEF AppTick, HasDebug
    <2>4. /\ simulating' \in BOOLEAN /\ creating' \in BOOLEAN
          /\ secretShown' \in BOOLEAN /\ left' \in BOOLEAN
      BY <1>16 DEF AppTick
    <2> QED
      BY <2>1, <2>2, <2>3, <2>4
  <1>17. CASE Reopened
    BY <1>17, Palette, DialogTypes DEF Reopened, HasDebug
  <1> QED
    BY <1>1, <1>2, <1>3, <1>4, <1>5, <1>6, <1>7, <1>8, <1>9, <1>10, <1>11, <1>12, <1>13,
       <1>14, <1>15, <1>16, <1>17 DEF KeysNext, Pressed

(* The types of the screens, the dialogs and the phases, on every key.     *)
THEOREM KeysTypes == KeysSpec => []KeysTypeOK
  <1>1. KeysInit => KeysTypeOK
    BY Palette, DialogTypes DEF KeysInit, KeysTypeOK
  <1> QED
    BY <1>1, KeysStep, PTL DEF KeysSpec

------------------------------------------------------------------------------
(* Keys: a key that is on offer does what it is offered for.               *)

(* The arm counts for the key on screen s.                                 *)
ArmTakes(arm, key, s) == key \in arm.keys /\ s \in arm.on

(* Of the arms that count for a key the first one decides.                 *)
LEMMA FirstArm ==
    ASSUME NEW arms, DOMAIN arms \subseteq Nat,
           NEW s \in ScreenSet, NEW key \in KeySet,
           NEW i \in DOMAIN arms, ArmTakes(arms[i], key, s),
           \A j \in DOMAIN arms : ArmTakes(arms[j], key, s) => i <= j
    PROVE  Uses(arms)[s][key] = arms[i].does
  <1> DEFINE fitting == {j \in DOMAIN arms : key \in arms[j].keys /\ s \in arms[j].on}
  <1>1. i \in fitting /\ \A j \in fitting : i <= j
    BY DEF ArmTakes
  <1>2. \A j \in fitting : (\A k \in fitting : j <= k) => j = i
    BY <1>1
  <1>3. Min(fitting) = i
    <2> HIDE DEF fitting
    <2> QED
      BY <1>1, <1>2 DEF Min
  <1>4. Uses(arms)[s][key] = IF fitting = {} THEN "nothing" ELSE arms[Min(fitting)].does
    BY DEF Uses
  <1> HIDE DEF fitting
  <1> QED
    BY <1>1, <1>3, <1>4

(* A key for which no arm counts is for nothing.                           *)
LEMMA NoArm ==
    ASSUME NEW arms, NEW s \in ScreenSet, NEW key \in KeySet,
           \A j \in DOMAIN arms : ~ArmTakes(arms[j], key, s)
    PROVE  Uses(arms)[s][key] = "nothing"
  BY DEF Uses, ArmTakes

(* The arms of a match, none of which is for nothing.                      *)
Match(a) == (\E arms : a \in Seq(arms)) /\ \A j \in DOMAIN a : a[j].does # "nothing"

(* A match tries the arms of a, then those of b.                           *)
LEMMA ThenArms ==
    ASSUME NEW a, Match(a), NEW b, Match(b)
    PROVE  /\ Match(a \o b)
           /\ \A s \in ScreenSet, key \in KeySet :
                Uses(a \o b)[s][key] = IF Uses(a)[s][key] = "nothing"
                                      THEN Uses(b)[s][key] ELSE Uses(a)[s][key]
  <1>1. /\ DOMAIN a = 1..Len(a) /\ DOMAIN b = 1..Len(b)
        /\ Len(a) \in Nat /\ Len(b) \in Nat
        /\ DOMAIN (a \o b) = 1..(Len(a) + Len(b))
        /\ \A j \in DOMAIN a : (a \o b)[j] = a[j]
        /\ \A j \in DOMAIN b : (a \o b)[Len(a) + j] = b[j]
        /\ \A j \in DOMAIN (a \o b) : j \in DOMAIN a \/ j - Len(a) \in DOMAIN b
    <2>1. PICK arms, others : a \in Seq(arms) /\ b \in Seq(others)
      BY DEF Match
    <2>2. a \in Seq(arms \cup others) /\ b \in Seq(arms \cup others)
      BY <2>1
    <2> QED
      BY <2>2
  <1>2. Match(a \o b)
    <2>1. PICK arms, others : a \in Seq(arms) /\ b \in Seq(others)
      BY DEF Match
    <2>2. a \in Seq(arms \cup others) /\ b \in Seq(arms \cup others)
      BY <2>1
    <2>3. a \o b \in Seq(arms \cup others)
      BY <2>2
    <2>4. \A j \in DOMAIN (a \o b) : (a \o b)[j].does # "nothing"
      BY <1>1 DEF Match
    <2> QED
      BY <2>3, <2>4 DEF Match
  <1> SUFFICES ASSUME NEW s \in ScreenSet, NEW key \in KeySet
               PROVE  Uses(a \o b)[s][key] = IF Uses(a)[s][key] = "nothing"
                                     THEN Uses(b)[s][key] ELSE Uses(a)[s][key]
    BY <1>2
  <1>3. CASE \E j \in DOMAIN a : ArmTakes(a[j], key, s)
    <2> DEFINE fitting == {j \in DOMAIN a : ArmTakes(a[j], key, s)}
    <2>1. fitting # {} /\ fitting \subseteq Nat
      BY <1>1, <1>3
    <2>2. PICK i \in fitting : \A j \in fitting : i <= j
      BY <2>1, LeastNat
    <2>3. Uses(a)[s][key] = a[i].does
      BY <1>1, <2>2, FirstArm
    <2>4. \A j \in DOMAIN (a \o b) : ArmTakes((a \o b)[j], key, s) => i <= j
      BY <1>1, <2>2
    <2>5. i \in DOMAIN (a \o b) /\ (a \o b)[i] = a[i]
      BY <1>1, <2>2
    <2>6. Uses(a \o b)[s][key] = a[i].does
      <3> DEFINE c == a \o b
      <3>1. DOMAIN c \subseteq Nat
        BY <1>1
      <3>2. ArmTakes(c[i], key, s)
        BY <2>2, <2>5
      <3> HIDE DEF c
      <3>3. i \in DOMAIN c /\ \A j \in DOMAIN c : ArmTakes(c[j], key, s) => i <= j
        BY <2>4, <2>5 DEF c
      <3>4. Uses(c)[s][key] = c[i].does
        BY <3>1, <3>2, <3>3, FirstArm
      <3> QED
        BY <3>4, <2>5 DEF c
    <2>7. a[i].does # "nothing"
      BY <2>2 DEF Match
    <2> QED
      BY <1>1, <2>3, <2>6, <2>7
  <1>4. CASE ~\E j \in DOMAIN a : ArmTakes(a[j], key, s)
    <2>1. Uses(a)[s][key] = "nothing"
      BY <1>4, NoArm
    <2>2. CASE \E j \in DOMAIN b : ArmTakes(b[j], key, s)
      <3> DEFINE fitting == {j \in DOMAIN b : ArmTakes(b[j], key, s)}
      <3>1. fitting # {} /\ fitting \subseteq Nat
        BY <1>1, <2>2
      <3>2. PICK i \in fitting : \A j \in fitting : i <= j
        BY <3>1, LeastNat
      <3>3. Uses(b)[s][key] = b[i].does
        BY <1>1, <3>2, FirstArm
      <3> DEFINE c == a \o b
                 n == Len(a) + i
      <3>4. /\ DOMAIN c \subseteq Nat /\ n \in DOMAIN c /\ c[n] = b[i]
            /\ \A j \in DOMAIN c : ArmTakes(c[j], key, s) => n <= j
        <4>1. DOMAIN c \subseteq Nat /\ n \in DOMAIN c /\ c[n] = b[i]
          BY <1>1, <3>2
        <4>2. ASSUME NEW j \in DOMAIN c, ArmTakes(c[j], key, s) PROVE n <= j
          <5>1. j - Len(a) \in DOMAIN b /\ c[j] = b[j - Len(a)]
            BY <1>1, <1>4, <4>2
          <5>2. i <= j - Len(a)
            BY <3>2, <4>2, <5>1
          <5> QED
            BY <1>1, <3>2, <5>1, <5>2
        <4> QED
          BY <4>1, <4>2
      <3> HIDE DEF c, n
      <3>5. Uses(c)[s][key] = c[n].does
        BY <3>2, <3>4, FirstArm
      <3> QED
        BY <1>1, <2>1, <3>3, <3>4, <3>5 DEF c
    <2>3. CASE ~\E j \in DOMAIN b : ArmTakes(b[j], key, s)
      <3> DEFINE c == a \o b
      <3>1. \A j \in DOMAIN c : ~ArmTakes(c[j], key, s)
        BY <1>1, <1>4, <2>3
      <3>2. Uses(b)[s][key] = "nothing"
        BY <2>3, NoArm
      <3> HIDE DEF c
      <3>3. Uses(c)[s][key] = "nothing"
        BY <3>1, NoArm
      <3> QED
        BY <1>1, <2>1, <3>2, <3>3 DEF c
    <2> QED
      BY <2>2, <2>3
  <1> QED
    BY <1>3, <1>4

(* The first arm that takes a key is the only one.                         *)
Apart(a) ==
    \A s \in ScreenSet, key \in KeySet :
      /\ \A i \in DOMAIN a : ArmTakes(a[i], key, s) => Uses(a)[s][key] = a[i].does
      /\ (\A i \in DOMAIN a : ~ArmTakes(a[i], key, s)) => Uses(a)[s][key] = "nothing"

(* Where no other arm wants its keys, an arm decides what they are for.    *)
LEMMA OwnArm ==
    ASSUME NEW arms, NEW S, arms \in Seq(S),
           \A i \in DOMAIN arms : arms[i].does # "nothing",
           \A i, j \in DOMAIN arms, s \in ScreenSet, key \in KeySet :
              ArmTakes(arms[i], key, s) /\ ArmTakes(arms[j], key, s) => i = j
    PROVE  Match(arms) /\ Apart(arms)
  <1>1. Match(arms) /\ DOMAIN arms \subseteq Nat
    BY DEF Match
  <1>2. ASSUME NEW s \in ScreenSet, NEW key \in KeySet,
               NEW i \in DOMAIN arms, ArmTakes(arms[i], key, s)
        PROVE  Uses(arms)[s][key] = arms[i].does
    <2>1. \A j \in DOMAIN arms : ArmTakes(arms[j], key, s) => i <= j
      BY <1>1, <1>2
    <2> QED
      BY <1>1, <1>2, <2>1, FirstArm
  <1>3. ASSUME NEW s \in ScreenSet, NEW key \in KeySet,
               \A i \in DOMAIN arms : ~ArmTakes(arms[i], key, s)
        PROVE  Uses(arms)[s][key] = "nothing"
    BY <1>3, NoArm
  <1> QED
    BY <1>1, <1>2, <1>3 DEF Apart

(* Within each block, and at the gate and in the dialogs, no two arms want *)
(* the same key on the same screen.                                        *)
LEMMA BlocksApart ==
    /\ Match(GeneralArms) /\ Apart(GeneralArms)
    /\ Match(EditArms) /\ Apart(EditArms)
    /\ Match(ListArms) /\ Apart(ListArms)
    /\ Match(FeedArms) /\ Apart(FeedArms)
    /\ Match(MessageArms) /\ Apart(MessageArms)
    /\ Match(QuestionArms) /\ Apart(QuestionArms)
    /\ Match(AudioArms) /\ Apart(AudioArms)
    /\ Match(TokenArms) /\ Apart(TokenArms)
    /\ Match(DebugArms) /\ Apart(DebugArms)
    /\ Match(LastArms) /\ Apart(LastArms)
    /\ Apart(LockedArms) /\ Apart(ConfirmArms) /\ Apart(PromptArms) /\ Apart(HelpArms)
  <1>1. Match(GeneralArms) /\ Apart(GeneralArms)
    <2> DEFINE arms == GeneralArms
    <2>1. arms \in Seq({arms[1], arms[2], arms[3], arms[4], arms[5], arms[6], arms[7]})
      BY DEF GeneralArms
    <2>2. \A i, j \in DOMAIN arms, s \in ScreenSet, key \in KeySet :
             ArmTakes(arms[i], key, s) /\ ArmTakes(arms[j], key, s) => i = j
      BY DEF GeneralArms, ArmTakes, Arm, On
    <2>3. \A i \in DOMAIN arms : arms[i].does # "nothing"
      BY DEF GeneralArms, Arm, On
    <2> HIDE DEF arms
    <2>4. Match(arms) /\ Apart(arms)
      BY <2>1, <2>2, <2>3, OwnArm
    <2> QED
      BY <2>4 DEF arms
  <1>2. Match(EditArms) /\ Apart(EditArms)
    <2> DEFINE arms == EditArms
    <2>1. arms \in Seq({arms[1], arms[2], arms[3], arms[4]})
      BY DEF EditArms
    <2>2. \A i, j \in DOMAIN arms, s \in ScreenSet, key \in KeySet :
             ArmTakes(arms[i], key, s) /\ ArmTakes(arms[j], key, s) => i = j
      BY DEF EditArms, ArmTakes, Arm, On
    <2>3. \A i \in DOMAIN arms : arms[i].does # "nothing"
      BY DEF EditArms, Arm, On
    <2> HIDE DEF arms
    <2>4. Match(arms) /\ Apart(arms)
      BY <2>1, <2>2, <2>3, OwnArm
    <2> QED
      BY <2>4 DEF arms
  <1>3. Match(ListArms) /\ Apart(ListArms)
    <2> DEFINE arms == ListArms
    <2>1. arms \in Seq({arms[1], arms[2]})
      BY DEF ListArms
    <2>2. \A i, j \in DOMAIN arms, s \in ScreenSet, key \in KeySet :
             ArmTakes(arms[i], key, s) /\ ArmTakes(arms[j], key, s) => i = j
      BY DEF ListArms, ArmTakes, Arm, On
    <2>3. \A i \in DOMAIN arms : arms[i].does # "nothing"
      BY DEF ListArms, Arm, On
    <2> HIDE DEF arms
    <2>4. Match(arms) /\ Apart(arms)
      BY <2>1, <2>2, <2>3, OwnArm
    <2> QED
      BY <2>4 DEF arms
  <1>4. Match(FeedArms) /\ Apart(FeedArms)
    <2> DEFINE arms == FeedArms
    <2>1. arms \in Seq({arms[1], arms[2], arms[3], arms[4]})
      BY DEF FeedArms
    <2>2. \A i, j \in DOMAIN arms, s \in ScreenSet, key \in KeySet :
             ArmTakes(arms[i], key, s) /\ ArmTakes(arms[j], key, s) => i = j
      BY DEF FeedArms, ArmTakes, Arm, On
    <2>3. \A i \in DOMAIN arms : arms[i].does # "nothing"
      BY DEF FeedArms, Arm, On
    <2> HIDE DEF arms
    <2>4. Match(arms) /\ Apart(arms)
      BY <2>1, <2>2, <2>3, OwnArm
    <2> QED
      BY <2>4 DEF arms
  <1>5. Match(MessageArms) /\ Apart(MessageArms)
    <2> DEFINE arms == MessageArms
    <2>1. arms \in Seq({arms[1], arms[2], arms[3], arms[4], arms[5], arms[6]})
      BY DEF MessageArms
    <2>2. \A i, j \in DOMAIN arms, s \in ScreenSet, key \in KeySet :
             ArmTakes(arms[i], key, s) /\ ArmTakes(arms[j], key, s) => i = j
      BY DEF MessageArms, ArmTakes, Arm, On
    <2>3. \A i \in DOMAIN arms : arms[i].does # "nothing"
      BY DEF MessageArms, Arm, On
    <2> HIDE DEF arms
    <2>4. Match(arms) /\ Apart(arms)
      BY <2>1, <2>2, <2>3, OwnArm
    <2> QED
      BY <2>4 DEF arms
  <1>6. Match(QuestionArms) /\ Apart(QuestionArms)
    <2> DEFINE arms == QuestionArms
    <2>1. arms \in Seq({arms[1], arms[2], arms[3], arms[4]})
      BY DEF QuestionArms
    <2>2. \A i, j \in DOMAIN arms, s \in ScreenSet, key \in KeySet :
             ArmTakes(arms[i], key, s) /\ ArmTakes(arms[j], key, s) => i = j
      BY DEF QuestionArms, ArmTakes, Arm, On
    <2>3. \A i \in DOMAIN arms : arms[i].does # "nothing"
      BY DEF QuestionArms, Arm, On
    <2> HIDE DEF arms
    <2>4. Match(arms) /\ Apart(arms)
      BY <2>1, <2>2, <2>3, OwnArm
    <2> QED
      BY <2>4 DEF arms
  <1>7. Match(AudioArms) /\ Apart(AudioArms)
    <2> DEFINE arms == AudioArms
    <2>1. arms \in Seq({arms[1], arms[2], arms[3]})
      BY DEF AudioArms
    <2>2. \A i, j \in DOMAIN arms, s \in ScreenSet, key \in KeySet :
             ArmTakes(arms[i], key, s) /\ ArmTakes(arms[j], key, s) => i = j
      BY DEF AudioArms, ArmTakes, Arm, On
    <2>3. \A i \in DOMAIN arms : arms[i].does # "nothing"
      BY DEF AudioArms, Arm, On
    <2> HIDE DEF arms
    <2>4. Match(arms) /\ Apart(arms)
      BY <2>1, <2>2, <2>3, OwnArm
    <2> QED
      BY <2>4 DEF arms
  <1>8. Match(TokenArms) /\ Apart(TokenArms)
    <2> DEFINE arms == TokenArms
    <2>1. arms \in Seq({arms[1], arms[2], arms[3]})
      BY DEF TokenArms
    <2>2. \A i, j \in DOMAIN arms, s \in ScreenSet, key \in KeySet :
             ArmTakes(arms[i], key, s) /\ ArmTakes(arms[j], key, s) => i = j
      BY DEF TokenArms, ArmTakes, Arm, On
    <2>3. \A i \in DOMAIN arms : arms[i].does # "nothing"
      BY DEF TokenArms, Arm, On
    <2> HIDE DEF arms
    <2>4. Match(arms) /\ Apart(arms)
      BY <2>1, <2>2, <2>3, OwnArm
    <2> QED
      BY <2>4 DEF arms
  <1>9. Match(DebugArms) /\ Apart(DebugArms)
    <2> DEFINE arms == DebugArms
    <2>1. arms \in Seq({arms[1], arms[2], arms[3], arms[4], arms[5], arms[6]})
      BY DEF DebugArms
    <2>2. \A i, j \in DOMAIN arms, s \in ScreenSet, key \in KeySet :
             ArmTakes(arms[i], key, s) /\ ArmTakes(arms[j], key, s) => i = j
      BY DEF DebugArms, ArmTakes, Arm, On
    <2>3. \A i \in DOMAIN arms : arms[i].does # "nothing"
      BY DEF DebugArms, Arm, On
    <2> HIDE DEF arms
    <2>4. Match(arms) /\ Apart(arms)
      BY <2>1, <2>2, <2>3, OwnArm
    <2> QED
      BY <2>4 DEF arms
  <1>10. Match(LastArms) /\ Apart(LastArms)
    <2> DEFINE arms == LastArms
    <2>1. arms \in Seq({arms[1], arms[2], arms[3], arms[4]})
      BY DEF LastArms
    <2>2. \A i, j \in DOMAIN arms, s \in ScreenSet, key \in KeySet :
             ArmTakes(arms[i], key, s) /\ ArmTakes(arms[j], key, s) => i = j
      BY Palette DEF LastArms, ArmTakes, Arm, On
    <2>3. \A i \in DOMAIN arms : arms[i].does # "nothing"
      BY DEF LastArms, Arm, On
    <2> HIDE DEF arms
    <2>4. Match(arms) /\ Apart(arms)
      BY <2>1, <2>2, <2>3, OwnArm
    <2> QED
      BY <2>4 DEF arms
  <1>11. Apart(LockedArms)
    <2> DEFINE arms == LockedArms
    <2>1. arms \in Seq({arms[1], arms[2], arms[3]})
      BY DEF LockedArms
    <2>2. \A i, j \in DOMAIN arms, s \in ScreenSet, key \in KeySet :
             ArmTakes(arms[i], key, s) /\ ArmTakes(arms[j], key, s) => i = j
      BY DEF LockedArms, ArmTakes, Arm
    <2>3. \A i \in DOMAIN arms : arms[i].does # "nothing"
      BY DEF LockedArms, Arm
    <2> HIDE DEF arms
    <2>4. Match(arms) /\ Apart(arms)
      BY <2>1, <2>2, <2>3, OwnArm
    <2> QED
      BY <2>4 DEF arms
  <1>12. Apart(ConfirmArms)
    <2> DEFINE arms == ConfirmArms
    <2>1. arms \in Seq({arms[1], arms[2]})
      BY DEF ConfirmArms
    <2>2. \A i, j \in DOMAIN arms, s \in ScreenSet, key \in KeySet :
             ArmTakes(arms[i], key, s) /\ ArmTakes(arms[j], key, s) => i = j
      BY DEF ConfirmArms, ArmTakes, Arm
    <2>3. \A i \in DOMAIN arms : arms[i].does # "nothing"
      BY DEF ConfirmArms, Arm
    <2> HIDE DEF arms
    <2>4. Match(arms) /\ Apart(arms)
      BY <2>1, <2>2, <2>3, OwnArm
    <2> QED
      BY <2>4 DEF arms
  <1>13. Apart(PromptArms)
    <2> DEFINE arms == PromptArms
    <2>1. arms \in Seq({arms[1], arms[2], arms[3], arms[4]})
      BY DEF PromptArms
    <2>2. \A i, j \in DOMAIN arms, s \in ScreenSet, key \in KeySet :
             ArmTakes(arms[i], key, s) /\ ArmTakes(arms[j], key, s) => i = j
      BY Palette DEF PromptArms, ArmTakes, Arm, Letters
    <2>3. \A i \in DOMAIN arms : arms[i].does # "nothing"
      BY DEF PromptArms, Arm
    <2> HIDE DEF arms
    <2>4. Match(arms) /\ Apart(arms)
      BY <2>1, <2>2, <2>3, OwnArm
    <2> QED
      BY <2>4 DEF arms
  <1>14. Apart(HelpArms)
    <2> DEFINE arms == HelpArms
    <2>1. arms \in Seq({arms[1], arms[2], arms[3], arms[4], arms[5], arms[6]})
      BY DEF HelpArms
    <2>2. \A i, j \in DOMAIN arms, s \in ScreenSet, key \in KeySet :
             ArmTakes(arms[i], key, s) /\ ArmTakes(arms[j], key, s) => i = j
      BY Palette DEF HelpArms, ArmTakes, Arm
    <2>3. \A i \in DOMAIN arms : arms[i].does # "nothing"
      BY DEF HelpArms, Arm
    <2> HIDE DEF arms
    <2>4. Match(arms) /\ Apart(arms)
      BY <2>1, <2>2, <2>3, OwnArm
    <2> QED
      BY <2>4 DEF arms
  <1> QED
    BY <1>1, <1>2, <1>3, <1>4, <1>5, <1>6, <1>7, <1>8, <1>9, <1>10, <1>11, <1>12, <1>13, <1>14

(* The keys that the arms of a block leave to the blocks below it.         *)
LEMMA LeftToOthers ==
    ASSUME NEW s \in ScreenSet, NEW key \in KeySet
    PROVE
      /\ (\/ key \notin {"q", "?", "g", "Esc", "Tab", "BackTab", "U"}
          \/ key = "g" /\ s = "Messages")
           => Uses(GeneralArms)[s][key] = "nothing"
      /\ s # "Settings" \/ key \notin {"u", "b", "k", "p"}
           => Uses(EditArms)[s][key] = "nothing"
      /\ key \notin {"Down", "j", "Up", "k", "r"}
           => Uses(ListArms)[s][key] = "nothing"
      /\ ~(<<s, key>> \in {<<"Stats", "w">>, <<"Audit", "f">>, <<"Audit", "m">>,
                           <<"Events", "f">>})
           => Uses(FeedArms)[s][key] = "nothing"
      /\ s # "Messages" \/ key \notin {"a", "x", "t", "m", "g", "d"}
           => Uses(MessageArms)[s][key] = "nothing"
      /\ s # "Questions" \/ key \notin {"a", "e", "d", "n"}
           => Uses(QuestionArms)[s][key] = "nothing"
      /\ s \notin Lists \/ key \notin {"p", "Space", "s"}
           => Uses(AudioArms)[s][key] = "nothing"
      /\ s # "Tokens" \/ key \notin {"n", "d", "u"}
           => Uses(TokenArms)[s][key] = "nothing"
      /\ s # "Debug" \/ key \notin {"v", "f", "o", "h", "p", "d"}
           => Uses(DebugArms)[s][key] = "nothing"
  <1> DEFINE none(arms) == \A i \in DOMAIN arms : ~ArmTakes(arms[i], key, s)
  <1>1. (\/ key \notin {"q", "?", "g", "Esc", "Tab", "BackTab", "U"}
         \/ key = "g" /\ s = "Messages")
          => none(GeneralArms)
    BY DEF GeneralArms, ArmTakes, Arm, On, OpensOn
  <1>2. s # "Settings" \/ key \notin {"u", "b", "k", "p"}
          => none(EditArms)
    BY DEF EditArms, ArmTakes, On
  <1>3. key \notin {"Down", "j", "Up", "k", "r"}
          => none(ListArms)
    BY DEF ListArms, ArmTakes, Arm
  <1>4. ~(<<s, key>> \in {<<"Stats", "w">>, <<"Audit", "f">>, <<"Audit", "m">>,
                          <<"Events", "f">>})
          => none(FeedArms)
    BY DEF FeedArms, ArmTakes, On
  <1>5. s # "Messages" \/ key \notin {"a", "x", "t", "m", "g", "d"}
          => none(MessageArms)
    BY DEF MessageArms, ArmTakes, On
  <1>6. s # "Questions" \/ key \notin {"a", "e", "d", "n"}
          => none(QuestionArms)
    BY DEF QuestionArms, ArmTakes, On
  <1>7. s \notin Lists \/ key \notin {"p", "Space", "s"}
          => none(AudioArms)
    BY DEF AudioArms, ArmTakes, On
  <1>8. s # "Tokens" \/ key \notin {"n", "d", "u"}
          => none(TokenArms)
    BY DEF TokenArms, ArmTakes, On
  <1>9. s # "Debug" \/ key \notin {"v", "f", "o", "h", "p", "d"}
          => none(DebugArms)
    BY DEF DebugArms, ArmTakes, On
  <1> QED
    BY <1>1, <1>2, <1>3, <1>4, <1>5, <1>6, <1>7, <1>8, <1>9, BlocksApart DEF Apart
(* What the keys of each block are for.                                    *)
LEMMA OwnKeys ==
    ASSUME NEW s \in ScreenSet
    PROVE
      /\ Uses(GeneralArms)[s]["q"] = "quit"
      /\ Uses(GeneralArms)[s]["?"] = "screens"
      /\ Uses(GeneralArms)[s]["Esc"] = "escape"
      /\ Uses(GeneralArms)[s]["Tab"] = "next"
      /\ Uses(GeneralArms)[s]["BackTab"] = "previous"
      /\ Uses(EditArms)["Settings"]["u"] = "API-URL"
      /\ Uses(EditArms)["Settings"]["b"] = "booth-URL"
      /\ Uses(EditArms)["Settings"]["k"] = "booth-token"
      /\ Uses(EditArms)["Settings"]["p"] = "poll-ms"
      /\ Uses(ListArms)[s]["Up"] = "select"
      /\ Uses(ListArms)[s]["Down"] = "select"
      /\ Uses(ListArms)[s]["r"] = "refresh"
      /\ Uses(FeedArms)["Stats"]["w"] = "window"
      /\ Uses(FeedArms)["Audit"]["f"] = "filter"
      /\ Uses(FeedArms)["Audit"]["m"] = "older"
      /\ Uses(FeedArms)["Events"]["f"] = "follow"
      /\ Uses(MessageArms)["Messages"]["a"] = "approve"
      /\ Uses(MessageArms)["Messages"]["x"] = "reject"
      /\ Uses(MessageArms)["Messages"]["t"] = "transcribe"
      /\ Uses(MessageArms)["Messages"]["m"] = "moderate"
      /\ Uses(MessageArms)["Messages"]["g"] = "translate"
      /\ Uses(MessageArms)["Messages"]["d"] = "delete"
      /\ Uses(QuestionArms)["Questions"]["a"] = "activate"
      /\ Uses(QuestionArms)["Questions"]["e"] = "deactivate"
      /\ Uses(QuestionArms)["Questions"]["d"] = "archive"
      /\ Uses(QuestionArms)["Questions"]["n"] = "new-question"
      /\ (s \in Lists => Uses(AudioArms)[s]["p"] = "play")
      /\ (s \in Lists => Uses(AudioArms)[s]["Space"] = "pause")
      /\ (s \in Lists => Uses(AudioArms)[s]["s"] = "stop")
      /\ Uses(TokenArms)["Tokens"]["n"] = "new-token"
      /\ Uses(TokenArms)["Tokens"]["d"] = "revoke"
      /\ Uses(TokenArms)["Tokens"]["u"] = "usage"
      /\ Uses(DebugArms)["Debug"]["v"] = "level"
      /\ Uses(DebugArms)["Debug"]["f"] = "live"
      /\ Uses(DebugArms)["Debug"]["o"] = "hook-off"
      /\ Uses(DebugArms)["Debug"]["h"] = "hook-on"
      /\ Uses(DebugArms)["Debug"]["p"] = "playback"
      /\ Uses(DebugArms)["Debug"]["d"] = "dial"
      /\ Uses(LastArms)[s]["l"] = "log-in"
      /\ Uses(LastArms)["Settings"]["o"] = "sign-out"
      /\ Uses(LastArms)["Settings"]["t"] = "theme"
  <1> DEFINE keys == {"?", "BackTab", "Down", "Esc", "Space", "Tab", "Up", "a", "b", "d",
                      "e", "f", "g", "h", "k", "l", "m", "n", "o", "p",
                      "q", "r", "s", "t", "u", "v", "w", "x"}
  <1>1. keys \subseteq KeySet
    BY DEF KeySet, Letters
  <1>2. /\ \A key \in keys : key \in KeySet
        /\ "Settings" \in ScreenSet /\ "Stats" \in ScreenSet /\ "Audit" \in ScreenSet
        /\ "Events" \in ScreenSet /\ "Messages" \in ScreenSet /\ "Questions" \in ScreenSet
        /\ "Tokens" \in ScreenSet /\ "Debug" \in ScreenSet
    BY <1>1, Palette
  <1>3. /\ Uses(GeneralArms)[s]["q"] = "quit"
        /\ Uses(GeneralArms)[s]["?"] = "screens"
        /\ Uses(GeneralArms)[s]["Esc"] = "escape"
        /\ Uses(GeneralArms)[s]["Tab"] = "next"
        /\ Uses(GeneralArms)[s]["BackTab"] = "previous"
    <2>1. /\ DOMAIN GeneralArms = 1..7
          /\ ArmTakes(GeneralArms[1], "q", s) /\ GeneralArms[1].does = "quit"
          /\ ArmTakes(GeneralArms[2], "?", s) /\ GeneralArms[2].does = "screens"
          /\ ArmTakes(GeneralArms[4], "Esc", s) /\ GeneralArms[4].does = "escape"
          /\ ArmTakes(GeneralArms[5], "Tab", s) /\ GeneralArms[5].does = "next"
          /\ ArmTakes(GeneralArms[6], "BackTab", s) /\ GeneralArms[6].does = "previous"
      BY DEF GeneralArms, ArmTakes, Arm
    <2> QED
      BY <1>2, <2>1, BlocksApart DEF Apart
  <1>4. /\ Uses(EditArms)["Settings"]["u"] = "API-URL"
        /\ Uses(EditArms)["Settings"]["b"] = "booth-URL"
        /\ Uses(EditArms)["Settings"]["k"] = "booth-token"
        /\ Uses(EditArms)["Settings"]["p"] = "poll-ms"
    <2>1. /\ DOMAIN EditArms = 1..4
          /\ ArmTakes(EditArms[1], "u", "Settings") /\ EditArms[1].does = "API-URL"
          /\ ArmTakes(EditArms[2], "b", "Settings") /\ EditArms[2].does = "booth-URL"
          /\ ArmTakes(EditArms[3], "k", "Settings") /\ EditArms[3].does = "booth-token"
          /\ ArmTakes(EditArms[4], "p", "Settings") /\ EditArms[4].does = "poll-ms"
      BY DEF EditArms, ArmTakes, On
    <2> QED
      BY <1>2, <2>1, BlocksApart DEF Apart
  <1>5. /\ Uses(ListArms)[s]["Up"] = "select"
        /\ Uses(ListArms)[s]["Down"] = "select"
        /\ Uses(ListArms)[s]["r"] = "refresh"
    <2>1. /\ DOMAIN ListArms = 1..2
          /\ ArmTakes(ListArms[1], "Up", s) /\ ListArms[1].does = "select"
          /\ ArmTakes(ListArms[1], "Down", s) /\ ListArms[1].does = "select"
          /\ ArmTakes(ListArms[2], "r", s) /\ ListArms[2].does = "refresh"
      BY DEF ListArms, ArmTakes, Arm
    <2> QED
      BY <1>2, <2>1, BlocksApart DEF Apart
  <1>6. /\ Uses(FeedArms)["Stats"]["w"] = "window"
        /\ Uses(FeedArms)["Audit"]["f"] = "filter"
        /\ Uses(FeedArms)["Audit"]["m"] = "older"
        /\ Uses(FeedArms)["Events"]["f"] = "follow"
    <2>1. /\ DOMAIN FeedArms = 1..4
          /\ ArmTakes(FeedArms[1], "w", "Stats") /\ FeedArms[1].does = "window"
          /\ ArmTakes(FeedArms[2], "f", "Audit") /\ FeedArms[2].does = "filter"
          /\ ArmTakes(FeedArms[3], "m", "Audit") /\ FeedArms[3].does = "older"
          /\ ArmTakes(FeedArms[4], "f", "Events") /\ FeedArms[4].does = "follow"
      BY DEF FeedArms, ArmTakes, On
    <2> QED
      BY <1>2, <2>1, BlocksApart DEF Apart
  <1>7. /\ Uses(MessageArms)["Messages"]["a"] = "approve"
        /\ Uses(MessageArms)["Messages"]["x"] = "reject"
        /\ Uses(MessageArms)["Messages"]["t"] = "transcribe"
        /\ Uses(MessageArms)["Messages"]["m"] = "moderate"
        /\ Uses(MessageArms)["Messages"]["g"] = "translate"
        /\ Uses(MessageArms)["Messages"]["d"] = "delete"
    <2>1. /\ DOMAIN MessageArms = 1..6
          /\ ArmTakes(MessageArms[1], "a", "Messages") /\ MessageArms[1].does = "approve"
          /\ ArmTakes(MessageArms[2], "x", "Messages") /\ MessageArms[2].does = "reject"
          /\ ArmTakes(MessageArms[3], "t", "Messages") /\ MessageArms[3].does = "transcribe"
          /\ ArmTakes(MessageArms[4], "m", "Messages") /\ MessageArms[4].does = "moderate"
          /\ ArmTakes(MessageArms[5], "g", "Messages") /\ MessageArms[5].does = "translate"
          /\ ArmTakes(MessageArms[6], "d", "Messages") /\ MessageArms[6].does = "delete"
      BY DEF MessageArms, ArmTakes, On
    <2> QED
      BY <1>2, <2>1, BlocksApart DEF Apart
  <1>8. /\ Uses(QuestionArms)["Questions"]["a"] = "activate"
        /\ Uses(QuestionArms)["Questions"]["e"] = "deactivate"
        /\ Uses(QuestionArms)["Questions"]["d"] = "archive"
        /\ Uses(QuestionArms)["Questions"]["n"] = "new-question"
    <2>1. /\ DOMAIN QuestionArms = 1..4
          /\ ArmTakes(QuestionArms[1], "a", "Questions") /\ QuestionArms[1].does = "activate"
          /\ ArmTakes(QuestionArms[2], "e", "Questions") /\ QuestionArms[2].does = "deactivate"
          /\ ArmTakes(QuestionArms[3], "d", "Questions") /\ QuestionArms[3].does = "archive"
          /\ ArmTakes(QuestionArms[4], "n", "Questions")
          /\ QuestionArms[4].does = "new-question"
      BY DEF QuestionArms, ArmTakes, On
    <2> QED
      BY <1>2, <2>1, BlocksApart DEF Apart
  <1>9. /\ (s \in Lists => Uses(AudioArms)[s]["p"] = "play")
        /\ (s \in Lists => Uses(AudioArms)[s]["Space"] = "pause")
        /\ (s \in Lists => Uses(AudioArms)[s]["s"] = "stop")
    <2>1. /\ DOMAIN AudioArms = 1..3
          /\ (s \in Lists => ArmTakes(AudioArms[1], "p", s)) /\ AudioArms[1].does = "play"
          /\ (s \in Lists => ArmTakes(AudioArms[2], "Space", s)) /\ AudioArms[2].does = "pause"
          /\ (s \in Lists => ArmTakes(AudioArms[3], "s", s)) /\ AudioArms[3].does = "stop"
      BY DEF AudioArms, ArmTakes, On
    <2> QED
      BY <1>2, <2>1, BlocksApart DEF Apart
  <1>10. /\ Uses(TokenArms)["Tokens"]["n"] = "new-token"
        /\ Uses(TokenArms)["Tokens"]["d"] = "revoke"
        /\ Uses(TokenArms)["Tokens"]["u"] = "usage"
    <2>1. /\ DOMAIN TokenArms = 1..3
          /\ ArmTakes(TokenArms[1], "n", "Tokens") /\ TokenArms[1].does = "new-token"
          /\ ArmTakes(TokenArms[2], "d", "Tokens") /\ TokenArms[2].does = "revoke"
          /\ ArmTakes(TokenArms[3], "u", "Tokens") /\ TokenArms[3].does = "usage"
      BY DEF TokenArms, ArmTakes, On
    <2> QED
      BY <1>2, <2>1, BlocksApart DEF Apart
  <1>11. /\ Uses(DebugArms)["Debug"]["v"] = "level"
        /\ Uses(DebugArms)["Debug"]["f"] = "live"
        /\ Uses(DebugArms)["Debug"]["o"] = "hook-off"
        /\ Uses(DebugArms)["Debug"]["h"] = "hook-on"
        /\ Uses(DebugArms)["Debug"]["p"] = "playback"
        /\ Uses(DebugArms)["Debug"]["d"] = "dial"
    <2>1. /\ DOMAIN DebugArms = 1..6
          /\ ArmTakes(DebugArms[1], "v", "Debug") /\ DebugArms[1].does = "level"
          /\ ArmTakes(DebugArms[2], "f", "Debug") /\ DebugArms[2].does = "live"
          /\ ArmTakes(DebugArms[3], "o", "Debug") /\ DebugArms[3].does = "hook-off"
          /\ ArmTakes(DebugArms[4], "h", "Debug") /\ DebugArms[4].does = "hook-on"
          /\ ArmTakes(DebugArms[5], "p", "Debug") /\ DebugArms[5].does = "playback"
          /\ ArmTakes(DebugArms[6], "d", "Debug") /\ DebugArms[6].does = "dial"
      BY DEF DebugArms, ArmTakes, On
    <2> QED
      BY <1>2, <2>1, BlocksApart DEF Apart
  <1>12. /\ Uses(LastArms)[s]["l"] = "log-in"
        /\ Uses(LastArms)["Settings"]["o"] = "sign-out"
        /\ Uses(LastArms)["Settings"]["t"] = "theme"
    <2>1. /\ DOMAIN LastArms = 1..4
          /\ ArmTakes(LastArms[1], "l", s) /\ LastArms[1].does = "log-in"
          /\ ArmTakes(LastArms[2], "o", "Settings") /\ LastArms[2].does = "sign-out"
          /\ ArmTakes(LastArms[3], "t", "Settings") /\ LastArms[3].does = "theme"
      BY DEF LastArms, ArmTakes, Arm, On
    <2> QED
      BY <1>2, <2>1, BlocksApart DEF Apart
  <1> QED
    BY <1>3, <1>4, <1>5, <1>6, <1>7, <1>8, <1>9, <1>10, <1>11, <1>12

(* On a screen the blocks are tried one after the other.                   *)
LEMMA InTurn ==
    ASSUME NEW s \in ScreenSet, NEW key \in KeySet
    PROVE  LET use(arms) == Uses(arms)[s][key]
           IN  use(ScreenArms) =
                 IF use(GeneralArms) # "nothing" THEN use(GeneralArms) ELSE
                 IF use(EditArms) # "nothing" THEN use(EditArms) ELSE
                 IF use(ListArms) # "nothing" THEN use(ListArms) ELSE
                 IF use(FeedArms) # "nothing" THEN use(FeedArms) ELSE
                 IF use(MessageArms) # "nothing" THEN use(MessageArms) ELSE
                 IF use(QuestionArms) # "nothing" THEN use(QuestionArms) ELSE
                 IF use(AudioArms) # "nothing" THEN use(AudioArms) ELSE
                 IF use(TokenArms) # "nothing" THEN use(TokenArms) ELSE
                 IF use(DebugArms) # "nothing" THEN use(DebugArms) ELSE
                 use(LastArms)
  <1> DEFINE use(arms) == Uses(arms)[s][key]
             then(x, y) == IF x = "nothing" THEN y ELSE x
             a2 == GeneralArms \o EditArms
             a3 == a2 \o ListArms
             a4 == a3 \o FeedArms
             a5 == a4 \o MessageArms
             a6 == a5 \o QuestionArms
             a7 == a6 \o AudioArms
             a8 == a7 \o TokenArms
             a9 == a8 \o DebugArms
  <1>1. Match(a2) /\ use(a2) = then(use(GeneralArms), use(EditArms))
    BY BlocksApart, ThenArms
  <1>2. Match(a3) /\ use(a3) = then(use(a2), use(ListArms))
    BY <1>1, BlocksApart, ThenArms
  <1>3. Match(a4) /\ use(a4) = then(use(a3), use(FeedArms))
    BY <1>2, BlocksApart, ThenArms
  <1>4. Match(a5) /\ use(a5) = then(use(a4), use(MessageArms))
    BY <1>3, BlocksApart, ThenArms
  <1>5. Match(a6) /\ use(a6) = then(use(a5), use(QuestionArms))
    BY <1>4, BlocksApart, ThenArms
  <1>6. Match(a7) /\ use(a7) = then(use(a6), use(AudioArms))
    BY <1>5, BlocksApart, ThenArms
  <1>7. Match(a8) /\ use(a8) = then(use(a7), use(TokenArms))
    BY <1>6, BlocksApart, ThenArms
  <1>8. Match(a9) /\ use(a9) = then(use(a8), use(DebugArms))
    BY <1>7, BlocksApart, ThenArms
  <1>9. Match(ScreenArms) /\ use(ScreenArms) = then(use(a9), use(LastArms))
    BY <1>8, BlocksApart, ThenArms DEF ScreenArms
  <1> HIDE DEF use, a2, a3, a4, a5, a6, a7, a8, a9
  <1>10. use(ScreenArms) =
           IF use(GeneralArms) # "nothing" THEN use(GeneralArms) ELSE
           IF use(EditArms) # "nothing" THEN use(EditArms) ELSE
           IF use(ListArms) # "nothing" THEN use(ListArms) ELSE
           IF use(FeedArms) # "nothing" THEN use(FeedArms) ELSE
           IF use(MessageArms) # "nothing" THEN use(MessageArms) ELSE
           IF use(QuestionArms) # "nothing" THEN use(QuestionArms) ELSE
           IF use(AudioArms) # "nothing" THEN use(AudioArms) ELSE
           IF use(TokenArms) # "nothing" THEN use(TokenArms) ELSE
           IF use(DebugArms) # "nothing" THEN use(DebugArms) ELSE
           use(LastArms)
    BY <1>1, <1>2, <1>3, <1>4, <1>5, <1>6, <1>7, <1>8, <1>9
  <1> QED
    BY <1>10 DEF use

(* The block that a key gets to.                                           *)
LEMMA Reached ==
    ASSUME NEW s \in ScreenSet, NEW key \in KeySet
    PROVE  LET use(arms) == Uses(arms)[s][key]
           IN
             /\ key \in {"q", "?", "Esc", "Tab", "BackTab"}
                  => use(ScreenArms) = use(GeneralArms)
             /\ s = "Settings" /\ key \in {"u", "b", "k", "p"}
                  => use(ScreenArms) = use(EditArms)
             /\ key \in {"Up", "Down", "r"}
                  => use(ScreenArms) = use(ListArms)
             /\ <<s, key>> \in {<<"Stats", "w">>, <<"Audit", "f">>, <<"Audit", "m">>,
                                <<"Events", "f">>}
                  => use(ScreenArms) = use(FeedArms)
             /\ s = "Messages" /\ key \in {"a", "x", "t", "m", "g", "d"}
                  => use(ScreenArms) = use(MessageArms)
             /\ s = "Questions" /\ key \in {"a", "e", "d", "n"}
                  => use(ScreenArms) = use(QuestionArms)
             /\ s \in Lists /\ key \in {"p", "Space", "s"}
                  => use(ScreenArms) = use(AudioArms)
             /\ s = "Tokens" /\ key \in {"n", "d", "u"}
                  => use(ScreenArms) = use(TokenArms)
             /\ s = "Debug" /\ key \in {"v", "f", "o", "h", "p", "d"}
                  => use(ScreenArms) = use(DebugArms)
             /\ key = "l" \/ (s = "Settings" /\ key \in {"o", "t"})
                  => use(ScreenArms) = use(LastArms)
  <1> DEFINE use(arms) == Uses(arms)[s][key]
  <1>1. use(ScreenArms) =
           IF use(GeneralArms) # "nothing" THEN use(GeneralArms) ELSE
           IF use(EditArms) # "nothing" THEN use(EditArms) ELSE
           IF use(ListArms) # "nothing" THEN use(ListArms) ELSE
           IF use(FeedArms) # "nothing" THEN use(FeedArms) ELSE
           IF use(MessageArms) # "nothing" THEN use(MessageArms) ELSE
           IF use(QuestionArms) # "nothing" THEN use(QuestionArms) ELSE
           IF use(AudioArms) # "nothing" THEN use(AudioArms) ELSE
           IF use(TokenArms) # "nothing" THEN use(TokenArms) ELSE
           IF use(DebugArms) # "nothing" THEN use(DebugArms) ELSE
           use(LastArms)
    BY InTurn
  <1>2. ASSUME key \in {"q", "?", "Esc", "Tab", "BackTab"}
        PROVE  use(ScreenArms) = use(GeneralArms)
    <2>1. use(GeneralArms) # "nothing"
      BY <1>2, OwnKeys
    <2> HIDE DEF use
    <2> QED
      BY <1>1, <2>1
  <1>3. ASSUME s = "Settings" /\ key \in {"u", "b", "k", "p"}
        PROVE  use(ScreenArms) = use(EditArms)
    <2>1. /\ use(GeneralArms) = "nothing"
      BY <1>3, LeftToOthers
    <2>2. use(EditArms) # "nothing"
      BY <1>3, OwnKeys
    <2> HIDE DEF use
    <2> QED
      BY <1>1, <2>1, <2>2
  <1>4. ASSUME key \in {"Up", "Down", "r"}
        PROVE  use(ScreenArms) = use(ListArms)
    <2>1. /\ use(GeneralArms) = "nothing" /\ use(EditArms) = "nothing"
      BY <1>4, LeftToOthers
    <2>2. use(ListArms) # "nothing"
      BY <1>4, OwnKeys
    <2> HIDE DEF use
    <2> QED
      BY <1>1, <2>1, <2>2
  <1>5. ASSUME <<s, key>> \in {<<"Stats", "w">>, <<"Audit", "f">>, <<"Audit", "m">>,
                               <<"Events", "f">>}
        PROVE  use(ScreenArms) = use(FeedArms)
    <2>1. /\ use(GeneralArms) = "nothing" /\ use(EditArms) = "nothing"
          /\ use(ListArms) = "nothing"
      BY <1>5, LeftToOthers
    <2>2. use(FeedArms) # "nothing"
      BY <1>5, OwnKeys
    <2> HIDE DEF use
    <2> QED
      BY <1>1, <2>1, <2>2
  <1>6. ASSUME s = "Messages" /\ key \in {"a", "x", "t", "m", "g", "d"}
        PROVE  use(ScreenArms) = use(MessageArms)
    <2>1. /\ use(GeneralArms) = "nothing" /\ use(EditArms) = "nothing"
          /\ use(ListArms) = "nothing" /\ use(FeedArms) = "nothing"
      BY <1>6, LeftToOthers
    <2>2. use(MessageArms) # "nothing"
      BY <1>6, OwnKeys
    <2> HIDE DEF use
    <2> QED
      BY <1>1, <2>1, <2>2
  <1>7. ASSUME s = "Questions" /\ key \in {"a", "e", "d", "n"}
        PROVE  use(ScreenArms) = use(QuestionArms)
    <2>1. /\ use(GeneralArms) = "nothing" /\ use(EditArms) = "nothing"
          /\ use(ListArms) = "nothing" /\ use(FeedArms) = "nothing"
          /\ use(MessageArms) = "nothing"
      BY <1>7, LeftToOthers
    <2>2. use(QuestionArms) # "nothing"
      BY <1>7, OwnKeys
    <2> HIDE DEF use
    <2> QED
      BY <1>1, <2>1, <2>2
  <1>8. ASSUME s \in Lists /\ key \in {"p", "Space", "s"}
        PROVE  use(ScreenArms) = use(AudioArms)
    <2>1. /\ use(GeneralArms) = "nothing" /\ use(EditArms) = "nothing"
          /\ use(ListArms) = "nothing" /\ use(FeedArms) = "nothing"
          /\ use(MessageArms) = "nothing" /\ use(QuestionArms) = "nothing"
      BY <1>8, LeftToOthers DEF Lists
    <2>2. use(AudioArms) # "nothing"
      BY <1>8, OwnKeys
    <2> HIDE DEF use
    <2> QED
      BY <1>1, <2>1, <2>2
  <1>9. ASSUME s = "Tokens" /\ key \in {"n", "d", "u"}
        PROVE  use(ScreenArms) = use(TokenArms)
    <2>1. /\ use(GeneralArms) = "nothing" /\ use(EditArms) = "nothing"
          /\ use(ListArms) = "nothing" /\ use(FeedArms) = "nothing"
          /\ use(MessageArms) = "nothing" /\ use(QuestionArms) = "nothing"
          /\ use(AudioArms) = "nothing"
      BY <1>9, LeftToOthers
    <2>2. use(TokenArms) # "nothing"
      BY <1>9, OwnKeys
    <2> HIDE DEF use
    <2> QED
      BY <1>1, <2>1, <2>2
  <1>10. ASSUME s = "Debug" /\ key \in {"v", "f", "o", "h", "p", "d"}
        PROVE  use(ScreenArms) = use(DebugArms)
    <2>1. /\ use(GeneralArms) = "nothing" /\ use(EditArms) = "nothing"
          /\ use(ListArms) = "nothing" /\ use(FeedArms) = "nothing"
          /\ use(MessageArms) = "nothing" /\ use(QuestionArms) = "nothing"
          /\ use(AudioArms) = "nothing" /\ use(TokenArms) = "nothing"
      BY <1>10, LeftToOthers DEF Lists
    <2>2. use(DebugArms) # "nothing"
      BY <1>10, OwnKeys
    <2> HIDE DEF use
    <2> QED
      BY <1>1, <2>1, <2>2
  <1>11. ASSUME key = "l" \/ (s = "Settings" /\ key \in {"o", "t"})
        PROVE  use(ScreenArms) = use(LastArms)
    <2>1. /\ use(GeneralArms) = "nothing" /\ use(EditArms) = "nothing"
          /\ use(ListArms) = "nothing" /\ use(FeedArms) = "nothing"
          /\ use(MessageArms) = "nothing" /\ use(QuestionArms) = "nothing"
          /\ use(AudioArms) = "nothing" /\ use(TokenArms) = "nothing"
          /\ use(DebugArms) = "nothing"
      BY <1>11, LeftToOthers
    <2> HIDE DEF use
    <2> QED
      BY <1>1, <2>1
  <1> QED
    BY <1>2, <1>3, <1>4, <1>5, <1>6, <1>7, <1>8, <1>9, <1>10, <1>11

(* What a key is for, while no dialog is open, on every screen and on each.*)
LEMMA KeysEverywhere ==
    ASSUME NEW s \in ScreenSet
    PROVE  /\ Uses(ScreenArms)[s]["q"] = "quit"
           /\ Uses(ScreenArms)[s]["?"] = "screens"
           /\ Uses(ScreenArms)[s]["Esc"] = "escape"
           /\ Uses(ScreenArms)[s]["Tab"] = "next"
           /\ Uses(ScreenArms)[s]["BackTab"] = "previous"
           /\ Uses(ScreenArms)[s]["Up"] = "select"
           /\ Uses(ScreenArms)[s]["Down"] = "select"
           /\ Uses(ScreenArms)[s]["r"] = "refresh"
           /\ Uses(ScreenArms)[s]["l"] = "log-in"
  <1>1. \A key \in {"q", "?", "Esc", "Tab", "BackTab", "Up", "Down", "r", "l"} :
           key \in KeySet
    BY Palette DEF KeySet, Letters
  <1>2. \A key \in {"q", "?", "Esc", "Tab", "BackTab"} :
           Uses(ScreenArms)[s][key] = Uses(GeneralArms)[s][key]
    BY <1>1, Reached
  <1>3. \A key \in {"Up", "Down", "r"} : Uses(ScreenArms)[s][key] = Uses(ListArms)[s][key]
    BY <1>1, Reached
  <1>4. Uses(ScreenArms)[s]["l"] = Uses(LastArms)[s]["l"]
    BY <1>1, Reached
  <1> QED
    BY <1>2, <1>3, <1>4, OwnKeys

(* What the keys that only some screens have are for there.                *)
LEMMA KeysOfScreens ==
    /\ Uses(ScreenArms)["Settings"]["u"] = "API-URL"
    /\ Uses(ScreenArms)["Settings"]["b"] = "booth-URL"
    /\ Uses(ScreenArms)["Settings"]["k"] = "booth-token"
    /\ Uses(ScreenArms)["Settings"]["p"] = "poll-ms"
    /\ Uses(ScreenArms)["Settings"]["t"] = "theme"
    /\ Uses(ScreenArms)["Settings"]["o"] = "sign-out"
    /\ Uses(ScreenArms)["Messages"]["a"] = "approve"
    /\ Uses(ScreenArms)["Messages"]["x"] = "reject"
    /\ Uses(ScreenArms)["Messages"]["t"] = "transcribe"
    /\ Uses(ScreenArms)["Messages"]["m"] = "moderate"
    /\ Uses(ScreenArms)["Messages"]["g"] = "translate"
    /\ Uses(ScreenArms)["Messages"]["d"] = "delete"
    /\ Uses(ScreenArms)["Messages"]["p"] = "play"
    /\ Uses(ScreenArms)["Messages"]["Space"] = "pause"
    /\ Uses(ScreenArms)["Messages"]["s"] = "stop"
    /\ Uses(ScreenArms)["Questions"]["a"] = "activate"
    /\ Uses(ScreenArms)["Questions"]["e"] = "deactivate"
    /\ Uses(ScreenArms)["Questions"]["d"] = "archive"
    /\ Uses(ScreenArms)["Questions"]["n"] = "new-question"
    /\ Uses(ScreenArms)["Questions"]["p"] = "play"
    /\ Uses(ScreenArms)["Questions"]["Space"] = "pause"
    /\ Uses(ScreenArms)["Questions"]["s"] = "stop"
    /\ Uses(ScreenArms)["Events"]["f"] = "follow"
    /\ Uses(ScreenArms)["Stats"]["w"] = "window"
    /\ Uses(ScreenArms)["Audit"]["f"] = "filter"
    /\ Uses(ScreenArms)["Audit"]["m"] = "older"
    /\ Uses(ScreenArms)["Tokens"]["n"] = "new-token"
    /\ Uses(ScreenArms)["Tokens"]["d"] = "revoke"
    /\ Uses(ScreenArms)["Tokens"]["u"] = "usage"
    /\ Uses(ScreenArms)["Debug"]["v"] = "level"
    /\ Uses(ScreenArms)["Debug"]["f"] = "live"
    /\ Uses(ScreenArms)["Debug"]["o"] = "hook-off"
    /\ Uses(ScreenArms)["Debug"]["h"] = "hook-on"
    /\ Uses(ScreenArms)["Debug"]["p"] = "playback"
    /\ Uses(ScreenArms)["Debug"]["d"] = "dial"
  <1>1. /\ \A key \in {"Space", "a", "b", "d", "e", "f", "g", "h", "k", "m", "n", "o",
                      "p", "s", "t", "u", "v", "w", "x"} :
              key \in KeySet
        /\ \A s \in {"Settings", "Messages", "Questions", "Events", "Stats",
                     "Audit", "Tokens", "Debug"} :
              s \in ScreenSet
    BY Palette DEF KeySet, Letters
  <1>2. /\ Uses(ScreenArms)["Settings"]["u"] = "API-URL"
        /\ Uses(ScreenArms)["Settings"]["b"] = "booth-URL"
        /\ Uses(ScreenArms)["Settings"]["k"] = "booth-token"
        /\ Uses(ScreenArms)["Settings"]["p"] = "poll-ms"
        /\ Uses(ScreenArms)["Settings"]["t"] = "theme"
        /\ Uses(ScreenArms)["Settings"]["o"] = "sign-out"
    <2>1. \A key \in {"u", "b", "k", "p"} :
             Uses(ScreenArms)["Settings"][key] = Uses(EditArms)["Settings"][key]
      BY <1>1, Reached
    <2>2. \A key \in {"t", "o"} :
             Uses(ScreenArms)["Settings"][key] = Uses(LastArms)["Settings"][key]
      BY <1>1, Reached
    <2> QED
      BY <1>1, <2>1, <2>2, OwnKeys DEF Lists
  <1>3. /\ Uses(ScreenArms)["Messages"]["a"] = "approve"
        /\ Uses(ScreenArms)["Messages"]["x"] = "reject"
        /\ Uses(ScreenArms)["Messages"]["t"] = "transcribe"
        /\ Uses(ScreenArms)["Messages"]["m"] = "moderate"
        /\ Uses(ScreenArms)["Messages"]["g"] = "translate"
        /\ Uses(ScreenArms)["Messages"]["d"] = "delete"
        /\ Uses(ScreenArms)["Messages"]["p"] = "play"
        /\ Uses(ScreenArms)["Messages"]["Space"] = "pause"
        /\ Uses(ScreenArms)["Messages"]["s"] = "stop"
    <2>1. \A key \in {"a", "x", "t", "m", "g", "d"} :
             Uses(ScreenArms)["Messages"][key] = Uses(MessageArms)["Messages"][key]
      BY <1>1, Reached
    <2>2. \A key \in {"p", "Space", "s"} :
             Uses(ScreenArms)["Messages"][key] = Uses(AudioArms)["Messages"][key]
      BY <1>1, Reached DEF Lists
    <2> QED
      BY <1>1, <2>1, <2>2, OwnKeys DEF Lists
  <1>4. /\ Uses(ScreenArms)["Questions"]["a"] = "activate"
        /\ Uses(ScreenArms)["Questions"]["e"] = "deactivate"
        /\ Uses(ScreenArms)["Questions"]["d"] = "archive"
        /\ Uses(ScreenArms)["Questions"]["n"] = "new-question"
        /\ Uses(ScreenArms)["Questions"]["p"] = "play"
        /\ Uses(ScreenArms)["Questions"]["Space"] = "pause"
        /\ Uses(ScreenArms)["Questions"]["s"] = "stop"
    <2>1. \A key \in {"a", "e", "d", "n"} :
             Uses(ScreenArms)["Questions"][key] = Uses(QuestionArms)["Questions"][key]
      BY <1>1, Reached
    <2>2. \A key \in {"p", "Space", "s"} :
             Uses(ScreenArms)["Questions"][key] = Uses(AudioArms)["Questions"][key]
      BY <1>1, Reached DEF Lists
    <2> QED
      BY <1>1, <2>1, <2>2, OwnKeys DEF Lists
  <1>5. /\ Uses(ScreenArms)["Events"]["f"] = "follow"
    <2>1. \A key \in {"f"} :
             Uses(ScreenArms)["Events"][key] = Uses(FeedArms)["Events"][key]
      BY <1>1, Reached
    <2> QED
      BY <1>1, <2>1, OwnKeys DEF Lists
  <1>6. /\ Uses(ScreenArms)["Stats"]["w"] = "window"
    <2>1. \A key \in {"w"} :
             Uses(ScreenArms)["Stats"][key] = Uses(FeedArms)["Stats"][key]
      BY <1>1, Reached
    <2> QED
      BY <1>1, <2>1, OwnKeys DEF Lists
  <1>7. /\ Uses(ScreenArms)["Audit"]["f"] = "filter"
        /\ Uses(ScreenArms)["Audit"]["m"] = "older"
    <2>1. \A key \in {"f", "m"} :
             Uses(ScreenArms)["Audit"][key] = Uses(FeedArms)["Audit"][key]
      BY <1>1, Reached
    <2> QED
      BY <1>1, <2>1, OwnKeys DEF Lists
  <1>8. /\ Uses(ScreenArms)["Tokens"]["n"] = "new-token"
        /\ Uses(ScreenArms)["Tokens"]["d"] = "revoke"
        /\ Uses(ScreenArms)["Tokens"]["u"] = "usage"
    <2>1. \A key \in {"n", "d", "u"} :
             Uses(ScreenArms)["Tokens"][key] = Uses(TokenArms)["Tokens"][key]
      BY <1>1, Reached
    <2> QED
      BY <1>1, <2>1, OwnKeys DEF Lists
  <1>9. /\ Uses(ScreenArms)["Debug"]["v"] = "level"
        /\ Uses(ScreenArms)["Debug"]["f"] = "live"
        /\ Uses(ScreenArms)["Debug"]["o"] = "hook-off"
        /\ Uses(ScreenArms)["Debug"]["h"] = "hook-on"
        /\ Uses(ScreenArms)["Debug"]["p"] = "playback"
        /\ Uses(ScreenArms)["Debug"]["d"] = "dial"
    <2>1. \A key \in {"v", "f", "o", "h", "p", "d"} :
             Uses(ScreenArms)["Debug"][key] = Uses(DebugArms)["Debug"][key]
      BY <1>1, Reached
    <2> QED
      BY <1>1, <2>1, OwnKeys DEF Lists
  <1> QED
    BY <1>2, <1>3, <1>4, <1>5, <1>6, <1>7, <1>8, <1>9

(* What a key is for at the gate, in the dialogs and in the palette.       *)
LEMMA DialogKeys ==
    ASSUME NEW s \in ScreenSet
    PROVE  /\ Uses(LockedArms)[s]["q"] = "quit"
           /\ Uses(LockedArms)[s]["l"] = "log-in"
           /\ Uses(LockedArms)[s]["Esc"] = "escape"
           /\ Uses(ConfirmArms)[s]["y"] = "confirm"
           /\ Uses(ConfirmArms)[s]["n"] = "cancel"
           /\ Uses(ConfirmArms)[s]["Esc"] = "cancel"
           /\ Uses(PromptArms)[s]["Enter"] = "submit"
           /\ Uses(PromptArms)[s]["Esc"] = "cancel"
           /\ \A key \in Letters \cup NavKeys : Uses(PromptArms)[s][key] = "type"
           /\ Uses(HelpArms)[s]["Esc"] = "close"
           /\ Uses(HelpArms)[s]["?"] = "close"
           /\ Uses(HelpArms)[s]["Tab"] = "next"
           /\ Uses(HelpArms)[s]["BackTab"] = "previous"
           /\ Uses(HelpArms)[s]["l"] = "log-in"
           /\ Uses(HelpArms)[s]["o"] = "sign-out"
           /\ \A key \in NavKeys : Uses(HelpArms)[s][key] = "palette"
  <1>1. /\ \A key \in {"q", "l", "o", "y", "n", "?", "Esc", "Enter", "Tab", "BackTab"} :
              key \in KeySet
        /\ \A key \in Letters \cup NavKeys : key \in KeySet
    BY Palette DEF KeySet, Letters
  <1>2. /\ DOMAIN LockedArms = 1..3
        /\ ArmTakes(LockedArms[1], "q", s) /\ LockedArms[1].does = "quit"
        /\ ArmTakes(LockedArms[2], "l", s) /\ LockedArms[2].does = "log-in"
        /\ ArmTakes(LockedArms[3], "Esc", s) /\ LockedArms[3].does = "escape"
    BY DEF LockedArms, ArmTakes, Arm
  <1>3. /\ DOMAIN ConfirmArms = 1..2
        /\ ArmTakes(ConfirmArms[1], "y", s) /\ ConfirmArms[1].does = "confirm"
        /\ ArmTakes(ConfirmArms[2], "n", s) /\ ConfirmArms[2].does = "cancel"
        /\ ArmTakes(ConfirmArms[2], "Esc", s)
    BY DEF ConfirmArms, ArmTakes, Arm
  <1>4. /\ DOMAIN PromptArms = 1..4
        /\ ArmTakes(PromptArms[2], "Enter", s) /\ PromptArms[2].does = "submit"
        /\ ArmTakes(PromptArms[1], "Esc", s) /\ PromptArms[1].does = "cancel"
        /\ \A key \in Letters \cup NavKeys : ArmTakes(PromptArms[4], key, s)
        /\ PromptArms[4].does = "type"
    BY DEF PromptArms, ArmTakes, Arm
  <1>5. /\ DOMAIN HelpArms = 1..6
        /\ ArmTakes(HelpArms[1], "Esc", s) /\ ArmTakes(HelpArms[1], "?", s)
        /\ HelpArms[1].does = "close"
        /\ ArmTakes(HelpArms[2], "Tab", s) /\ HelpArms[2].does = "next"
        /\ ArmTakes(HelpArms[3], "BackTab", s) /\ HelpArms[3].does = "previous"
        /\ \A key \in NavKeys : ArmTakes(HelpArms[4], key, s)
        /\ HelpArms[4].does = "palette"
        /\ ArmTakes(HelpArms[5], "l", s) /\ HelpArms[5].does = "log-in"
        /\ ArmTakes(HelpArms[6], "o", s) /\ HelpArms[6].does = "sign-out"
    BY DEF HelpArms, ArmTakes, Arm
  <1> QED
    BY <1>1, <1>2, <1>3, <1>4, <1>5, BlocksApart DEF Apart

(* While no dialog is open, no rest of one is kept.                        *)
NothingLeftOpen == dialog.kind = "none" => dialog = NoDialog

(* Once nothing is left open behind a dialog, each offer is kept.          *)
LEMMA OffersAct ==
    ASSUME KeysTypeOK, NothingLeftOpen
    PROVE  OfferedKeysAct
  <1> SUFFICES ASSUME NEW offer \in Offered
               PROVE  \/ Does(offer[1]) = offer[2]
                      \/ offer[2] = "dismiss-secret" /\ ~secretShown
    BY DEF OfferedKeysAct
  <1>1. onScreen \in ScreenSet
    BY DEF KeysTypeOK
  <1>2. /\ Used["locked"] = Uses(LockedArms)
        /\ Used["confirm"] = Uses(ConfirmArms)
        /\ Used["prompt"] = Uses(PromptArms)
        /\ Used["help"] = Uses(HelpArms)
        /\ Used["none"] = Uses(ScreenArms)
    BY DEF Used
  <1>3. ASSUME NEW at, at = IF signIn = "in" THEN dialog.kind ELSE "locked", NEW key
        PROVE  Does(key) = LET does == Used[at][onScreen][key]
                           IN  CASE does = "escape" -> Escape
                                 [] does = "palette" -> FromNavKey(key)
                                 [] OTHER -> does
    BY <1>3 DEF Does
  <1>4. CASE signIn # "in"
    <2>1. \A key : Does(key) = LET does == Uses(LockedArms)[onScreen][key]
                               IN  CASE does = "escape" -> Escape
                                     [] does = "palette" -> FromNavKey(key)
                                     [] OTHER -> does
      BY <1>2, <1>3, <1>4
    <2>2. /\ Does("q") = "quit" /\ Does("l") = "log-in"
          /\ signIn = "busy" => Does("Esc") = "cancel-login"
      BY <1>1, <2>1, DialogKeys DEF Escape
    <2>3. offer \in GateOffers
      BY <1>4 DEF Offered
    <2> QED
      BY <2>2, <2>3 DEF GateOffers
  <1>5. CASE signIn = "in" /\ dialog.kind = "confirm"
    <2>1. \A key : Does(key) = LET does == Uses(ConfirmArms)[onScreen][key]
                               IN  CASE does = "escape" -> Escape
                                     [] does = "palette" -> FromNavKey(key)
                                     [] OTHER -> does
      BY <1>2, <1>3, <1>5
    <2>2. Does("y") = "confirm" /\ Does("n") = "cancel" /\ Does("Esc") = "cancel"
      BY <1>1, <2>1, DialogKeys
    <2>3. offer \in {<<"y", "confirm">>, <<"n", "cancel">>, <<"Esc", "cancel">>}
      BY <1>5 DEF Offered, DialogOffers, NoDialog
    <2> QED
      BY <2>2, <2>3
  <1>6. CASE signIn = "in" /\ dialog.kind = "prompt"
    <2>1. \A key : Does(key) = LET does == Uses(PromptArms)[onScreen][key]
                               IN  CASE does = "escape" -> Escape
                                     [] does = "palette" -> FromNavKey(key)
                                     [] OTHER -> does
      BY <1>2, <1>3, <1>6
    <2>2. /\ Does("Enter") = "submit" /\ Does("Esc") = "cancel"
          /\ \A key \in Letters \cup NavKeys : Does(key) = "type"
      BY <1>1, <2>1, DialogKeys
    <2>3. offer \in {<<key, "type">> : key \in Letters \cup NavKeys} \cup
                    {<<"Enter", "submit">>, <<"Esc", "cancel">>}
      BY <1>6 DEF Offered, DialogOffers, NoDialog
    <2> QED
      BY <2>2, <2>3
  <1>7. CASE signIn = "in" /\ dialog.kind = "help"
    <2>1. \A key : Does(key) = LET does == Uses(HelpArms)[onScreen][key]
                               IN  CASE does = "escape" -> Escape
                                     [] does = "palette" -> FromNavKey(key)
                                     [] OTHER -> does
      BY <1>2, <1>3, <1>7
    <2>2. /\ Does("l") = "log-in" /\ Does("o") = "sign-out"
          /\ Does("Esc") = "close" /\ Does("?") = "close"
          /\ Does("Tab") = "next" /\ Does("BackTab") = "previous"
      BY <1>1, <2>1, DialogKeys
    <2>3. \A s \in ScreenSet : Does(NavKey[s]) = s
      <3>1. \A s \in ScreenSet : NavKey[s] \in NavKeys /\ FromNavKey(NavKey[s]) = s
        BY Palette DEF NavKeys
      <3> QED
        BY <1>1, <2>1, <3>1, DialogKeys
    <2>4. offer \in HelpOffers
      BY <1>7 DEF Offered, DialogOffers, NoDialog
    <2> QED
      BY <2>2, <2>3, <2>4 DEF HelpOffers
  <1>8. CASE signIn = "in" /\ dialog.kind = "none"
    <2>1. \A key : Does(key) = LET does == Uses(ScreenArms)[onScreen][key]
                               IN  CASE does = "escape" -> Escape
                                     [] does = "palette" -> FromNavKey(key)
                                     [] OTHER -> does
      BY <1>2, <1>3, <1>8
    <2>2. /\ Does("q") = "quit" /\ Does("?") = "screens"
          /\ Does("Tab") = "next" /\ Does("BackTab") = "previous"
          /\ Does("Up") = "select" /\ Does("Down") = "select"
          /\ Does("r") = "refresh" /\ Does("l") = "log-in"
          /\ onScreen = "Tokens" /\ secretShown => Does("Esc") = "dismiss-secret"
      BY <1>1, <1>8, <2>1, KeysEverywhere DEF Escape
    <2>3. offer \in BarOffers
      BY <1>8 DEF Offered, NothingLeftOpen
    <2> USE DEF BackAndForth, Going, Selecting, Playing
    <2>4. CASE onScreen = "Settings"
      <3>1. /\ Does("u") = "API-URL" /\ Does("b") = "booth-URL"
            /\ Does("k") = "booth-token" /\ Does("p") = "poll-ms"
            /\ Does("t") = "theme" /\ Does("o") = "sign-out"
        BY <2>1, <2>4, KeysOfScreens
      <3> QED
        BY <2>2, <2>3, <2>4, <3>1 DEF BarOffers
    <2>5. CASE onScreen = "Messages"
      <3>1. /\ Does("a") = "approve" /\ Does("x") = "reject"
            /\ Does("t") = "transcribe" /\ Does("m") = "moderate"
            /\ Does("g") = "translate" /\ Does("d") = "delete"
            /\ Does("p") = "play" /\ Does("Space") = "pause"
            /\ Does("s") = "stop"
        BY <2>1, <2>5, KeysOfScreens
      <3> QED
        BY <2>2, <2>3, <2>5, <3>1 DEF BarOffers
    <2>6. CASE onScreen = "Questions"
      <3>1. /\ Does("a") = "activate" /\ Does("e") = "deactivate"
            /\ Does("d") = "archive" /\ Does("n") = "new-question"
            /\ Does("p") = "play" /\ Does("Space") = "pause"
            /\ Does("s") = "stop"
        BY <2>1, <2>6, KeysOfScreens
      <3> QED
        BY <2>2, <2>3, <2>6, <3>1 DEF BarOffers
    <2>7. CASE onScreen = "Events"
      <3>1. /\ Does("f") = "follow"
        BY <2>1, <2>7, KeysOfScreens
      <3> QED
        BY <2>2, <2>3, <2>7, <3>1 DEF BarOffers
    <2>8. CASE onScreen = "Stats"
      <3>1. /\ Does("w") = "window"
        BY <2>1, <2>8, KeysOfScreens
      <3> QED
        BY <2>2, <2>3, <2>8, <3>1 DEF BarOffers
    <2>9. CASE onScreen = "Audit"
      <3>1. /\ Does("f") = "filter" /\ Does("m") = "older"
        BY <2>1, <2>9, KeysOfScreens
      <3> QED
        BY <2>2, <2>3, <2>9, <3>1 DEF BarOffers
    <2>10. CASE onScreen = "Tokens"
      <3>1. /\ Does("n") = "new-token" /\ Does("d") = "revoke"
            /\ Does("u") = "usage"
        BY <2>1, <2>10, KeysOfScreens
      <3> QED
        BY <2>2, <2>3, <2>10, <3>1 DEF BarOffers
    <2>11. CASE onScreen = "Debug"
      <3>1. /\ Does("v") = "level" /\ Does("f") = "live"
            /\ Does("o") = "hook-off" /\ Does("h") = "hook-on"
            /\ Does("p") = "playback" /\ Does("d") = "dial"
        BY <2>1, <2>11, KeysOfScreens
      <3> QED
        BY <2>2, <2>3, <2>11, <3>1 DEF BarOffers
    <2>12. CASE onScreen \in {"About", "Status", "LiveSystem", "SystemHealth", "Sessions"}
      BY <2>2, <2>3, <2>12 DEF BarOffers
    <2> QED
      BY <1>1, Palette, <2>4, <2>5, <2>6, <2>7, <2>8, <2>9, <2>10, <2>11, <2>12
  <1> QED
    BY <1>4, <1>5, <1>6, <1>7, <1>8 DEF KeysTypeOK, Dialogs

(* A dialog that is closed leaves nothing; what is typed goes to a prompt. *)
LEMMA NothingLeft ==
    ASSUME KeysTypeOK, NothingLeftOpen, [KeysNext]_keysVars
    PROVE  NothingLeftOpen'
  <1> USE DEF NothingLeftOpen
  <1>1. CASE dialog' = dialog \/ dialog' = NoDialog
    BY <1>1
  <1>2. CASE TogglesHelp
    BY <1>2 DEF TogglesHelp, HelpShown, NoDialog
  <1>3. CASE OpensDialog
    BY <1>3 DEF OpensDialog, Opened, Confirm, Prompt
  <1>4. CASE Types
    <2>1. dialog.kind = "prompt" /\ \E b : dialog' = [dialog EXCEPT !.blank = b]
      BY <1>4 DEF Types
    <2>2. PICK b : dialog' = [dialog EXCEPT !.blank = b]
      BY <2>1
    <2>3. dialog'.kind = dialog.kind
      BY <2>2 DEF KeysTypeOK, Dialogs
    <2> QED
      BY <2>1, <2>3
  <1>5. CASE Confirms
    BY <1>5 DEF Confirms, Prompt
  <1> QED
    BY <1>1, <1>2, <1>3, <1>4, <1>5
    DEF KeysNext, Pressed, keysVars, Quits, GateClears, LogsIn, CancelsLogin, IgnoredAtGate,
        SignsOut, Cycles, GoesTo, DismissesSecret, Cancels, Simulates, AppTick, Reopened

(* Whatever is open and on whichever screen, a key that is on offer does   *)
(* what it is offered for: no arm that is tried earlier takes it.          *)
THEOREM OffersAreKept == KeysSpec => []OfferedKeysAct
  <1>1. KeysInit => NothingLeftOpen
    BY DEF KeysInit, NothingLeftOpen
  <1>2. KeysTypeOK /\ NothingLeftOpen /\ [KeysNext]_keysVars => NothingLeftOpen'
    BY NothingLeft
  <1>3. KeysTypeOK /\ NothingLeftOpen => OfferedKeysAct
    BY OffersAct
  <1> QED
    BY <1>1, <1>2, <1>3, KeysTypes, PTL DEF KeysSpec

------------------------------------------------------------------------------
(* Each part runs alone.                                                   *)

(* Of the parts' steps one is fitting, and the variables of all others stay. *)
LEMMA OneAtWork ==
    ASSUME [ScreensNext]_screensVars
    PROVE  /\ [EventsNext]_eventsVars
           /\ [AuditNext]_auditVars
           /\ [CallsNext]_callsVars
           /\ [StatsNext]_statsVars
           /\ [StatusNext]_statusVars
           /\ [PlaybackNext]_playbackVars
           /\ [DebugNext]_debugVars
           /\ [MeterNext]_meterVars
           /\ [DeviceNext]_deviceVars
           /\ [ConfigNext]_configVars
           /\ [HealthNext]_healthVars
           /\ [SseNext]_sseVars
           /\ [RequestsNext]_requestVars
           /\ [LinkNext]_linkVars
           /\ [SetupNext]_setupVars
           /\ [PanelNext]_panelVars
           /\ [PageNext]_pageVars
           /\ [KeysNext]_keysVars
           /\ screen' = screen
  <1>1. CASE UNCHANGED screensVars
    BY <1>1 DEF screensVars
  <1>2. CASE Others("events") /\ EventsNext
    BY <1>2 DEF Others
  <1>3. CASE Others("audit") /\ AuditNext
    BY <1>3 DEF Others
  <1>4. CASE Others("calls") /\ CallsNext
    BY <1>4 DEF Others
  <1>5. CASE Others("stats") /\ StatsNext
    BY <1>5 DEF Others
  <1>6. CASE Others("status") /\ StatusNext
    BY <1>6 DEF Others
  <1>7. CASE Others("playback") /\ PlaybackNext
    BY <1>7 DEF Others
  <1>8. CASE Others("debug") /\ DebugNext
    BY <1>8 DEF Others
  <1>9. CASE Others("meter") /\ MeterNext
    BY <1>9 DEF Others
  <1>10. CASE Others("device") /\ DeviceNext
    BY <1>10 DEF Others
  <1>11. CASE Others("config") /\ ConfigNext
    BY <1>11 DEF Others
  <1>12. CASE Others("health") /\ HealthNext
    BY <1>12 DEF Others
  <1>13. CASE Others("stream") /\ SseNext
    BY <1>13 DEF Others
  <1>14. CASE Others("calling") /\ RequestsNext
    BY <1>14 DEF Others
  <1>15. CASE Others("link") /\ LinkNext
    BY <1>15 DEF Others
  <1>16. CASE Others("setup") /\ SetupNext
    BY <1>16 DEF Others
  <1>17. CASE Others("panel") /\ PanelNext
    BY <1>17 DEF Others
  <1>18. CASE Others("page") /\ PageNext
    BY <1>18 DEF Others
  <1>19. CASE Others("keys") /\ KeysNext
    BY <1>19 DEF Others
  <1> QED
    BY <1>1, <1>2, <1>3, <1>4, <1>5, <1>6, <1>7, <1>8, <1>9, <1>10, <1>11, <1>12, <1>13,
       <1>14, <1>15, <1>16, <1>17, <1>18, <1>19 DEF ScreensNext

(* MCScreens implements the specification of each of its parts: those of   *)
(* the screens and of the work behind them share no state.                 *)
THEOREM EachPartRuns ==
    ScreensSpec =>
      /\ EventsSpec
      /\ AuditSpec
      /\ CallsSpec
      /\ StatsSpec
      /\ StatusSpec
      /\ PlaybackSpec
      /\ DebugSpec
      /\ MeterSpec
      /\ DeviceSpec
      /\ ConfigSpec
      /\ HealthSpec
      /\ SseSpec
      /\ RequestsSpec
      /\ LinkSpec
      /\ SetupSpec
      /\ PanelSpec
      /\ PageSpec
      /\ KeysSpec
  <1>1. ScreensInit =>
          /\ EventsInit
          /\ AuditInit
          /\ CallsInit
          /\ StatsInit
          /\ StatusInit
          /\ PlaybackInit
          /\ DebugInit
          /\ MeterInit
          /\ DeviceInit
          /\ ConfigInit
          /\ HealthInit
          /\ SseInit
          /\ RequestsInit
          /\ LinkInit
          /\ SetupInit
          /\ PanelInit
          /\ PageInit
          /\ KeysInit
    BY DEF ScreensInit
  <1>2. ScreensSpec => EventsSpec
    BY <1>1, OneAtWork, PTL DEF ScreensSpec, EventsSpec
  <1>3. ScreensSpec => AuditSpec
    BY <1>1, OneAtWork, PTL DEF ScreensSpec, AuditSpec
  <1>4. ScreensSpec => CallsSpec
    BY <1>1, OneAtWork, PTL DEF ScreensSpec, CallsSpec
  <1>5. ScreensSpec => StatsSpec
    BY <1>1, OneAtWork, PTL DEF ScreensSpec, StatsSpec
  <1>6. ScreensSpec => StatusSpec
    BY <1>1, OneAtWork, PTL DEF ScreensSpec, StatusSpec
  <1>7. ScreensSpec => PlaybackSpec
    BY <1>1, OneAtWork, PTL DEF ScreensSpec, PlaybackSpec
  <1>8. ScreensSpec => DebugSpec
    BY <1>1, OneAtWork, PTL DEF ScreensSpec, DebugSpec
  <1>9. ScreensSpec => MeterSpec
    BY <1>1, OneAtWork, PTL DEF ScreensSpec, MeterSpec
  <1>10. ScreensSpec => DeviceSpec
    BY <1>1, OneAtWork, PTL DEF ScreensSpec, DeviceSpec
  <1>11. ScreensSpec => ConfigSpec
    BY <1>1, OneAtWork, PTL DEF ScreensSpec, ConfigSpec
  <1>12. ScreensSpec => HealthSpec
    BY <1>1, OneAtWork, PTL DEF ScreensSpec, HealthSpec
  <1>13. ScreensSpec => SseSpec
    BY <1>1, OneAtWork, PTL DEF ScreensSpec, SseSpec
  <1>14. ScreensSpec => RequestsSpec
    BY <1>1, OneAtWork, PTL DEF ScreensSpec, RequestsSpec
  <1>15. ScreensSpec => LinkSpec
    BY <1>1, OneAtWork, PTL DEF ScreensSpec, LinkSpec
  <1>16. ScreensSpec => SetupSpec
    BY <1>1, OneAtWork, PTL DEF ScreensSpec, SetupSpec
  <1>17. ScreensSpec => PanelSpec
    BY <1>1, OneAtWork, PTL DEF ScreensSpec, PanelSpec
  <1>18. ScreensSpec => PageSpec
    BY <1>1, OneAtWork, PTL DEF ScreensSpec, PageSpec
  <1>19. ScreensSpec => KeysSpec
    BY <1>1, OneAtWork, PTL DEF ScreensSpec, KeysSpec
  <1> QED
    BY <1>2, <1>3, <1>4, <1>5, <1>6, <1>7, <1>8, <1>9, <1>10, <1>11, <1>12, <1>13, <1>14,
       <1>15, <1>16, <1>17, <1>18, <1>19

(* The types of the part at work, for every part.                          *)
THEOREM ScreensTypes == ScreensSpec => []ScreensTypeOK
  <1>1. ScreensSpec => [](screen \in Screens)
    <2>1. ScreensInit => screen \in Screens
      BY DEF ScreensInit
    <2>2. screen \in Screens /\ [ScreensNext]_screensVars => (screen \in Screens)'
      BY OneAtWork
    <2> QED
      BY <2>1, <2>2, PTL DEF ScreensSpec
  <1>2. ASSUME screen \in Screens,
               EventsTypeOK, AuditTypeOK, CallsTypeOK, StatsTypeOK, StatusTypeOK,
               PlaybackTypeOK, DebugTypeOK, MeterTypeOK, DeviceTypeOK, ConfigTypeOK,
               HealthTypeOK, SseTypeOK, RequestsTypeOK, LinkTypeOK, SetupTypeOK,
               PanelTypeOK, PageTypeOK, KeysTypeOK
        PROVE  ScreensTypeOK
    <2>1. CASE screen = "events"
      BY <1>2, <2>1 DEF ScreensTypeOK
    <2>2. CASE screen = "audit"
      BY <1>2, <2>2 DEF ScreensTypeOK
    <2>3. CASE screen = "calls"
      BY <1>2, <2>3 DEF ScreensTypeOK
    <2>4. CASE screen = "stats"
      BY <1>2, <2>4 DEF ScreensTypeOK
    <2>5. CASE screen = "status"
      BY <1>2, <2>5 DEF ScreensTypeOK
    <2>6. CASE screen = "playback"
      BY <1>2, <2>6 DEF ScreensTypeOK
    <2>7. CASE screen = "debug"
      BY <1>2, <2>7 DEF ScreensTypeOK
    <2>8. CASE screen = "meter"
      BY <1>2, <2>8 DEF ScreensTypeOK
    <2>9. CASE screen = "device"
      BY <1>2, <2>9 DEF ScreensTypeOK
    <2>10. CASE screen = "config"
      BY <1>2, <2>10 DEF ScreensTypeOK
    <2>11. CASE screen = "health"
      BY <1>2, <2>11 DEF ScreensTypeOK
    <2>12. CASE screen = "stream"
      BY <1>2, <2>12 DEF ScreensTypeOK
    <2>13. CASE screen = "calling"
      BY <1>2, <2>13 DEF ScreensTypeOK
    <2>14. CASE screen = "link"
      BY <1>2, <2>14 DEF ScreensTypeOK
    <2>15. CASE screen = "setup"
      BY <1>2, <2>15 DEF ScreensTypeOK
    <2>16. CASE screen = "panel"
      BY <1>2, <2>16 DEF ScreensTypeOK
    <2>17. CASE screen = "page"
      BY <1>2, <2>17 DEF ScreensTypeOK
    <2>18. CASE screen = "keys"
      BY <1>2, <2>18 DEF ScreensTypeOK
    <2> QED
      BY <1>2, <2>1, <2>2, <2>3, <2>4, <2>5, <2>6, <2>7, <2>8, <2>9,
         <2>10, <2>11, <2>12, <2>13, <2>14, <2>15, <2>16, <2>17, <2>18 DEF Screens
  <1> QED
    BY <1>1, <1>2, EachPartRuns, PTL,
       EventsTypes, AuditTypes, CallsTypes, StatsTypes, StatusTypes, PlaybackTypes,
       DebugTypes, MeterTypes, DeviceTypes, ConfigTypes, HealthTypes, SseTypes,
       RequestsTypes, LinkTypes, SetupTypes, PanelTypes, PageTypes, KeysTypes

(* What the run of MCScreens checks, but for liveness, holds in it for all *)
(* values of the constants.                                                *)
THEOREM ScreensHold ==
    ScreensSpec =>
      /\ [](FeedInOrder /\ AuditHonest /\ ShownAsHeard
            /\ ReplayGoesOn /\ ApprovalReaped /\ SavedIsDurable
            /\ RatesAreTraffic /\ CutsDoNotShow /\ EndTellsWhatWasDone
            /\ TokenGoesToPinned /\ EnterKeepsAll /\ LogFitsFilter /\ PageReadsBack
            /\ OfferedKeysAct)
      /\ HighlightKept /\ PaneInStep /\ LatestWindowWins /\ NoReportUndone /\ NoTokenWritten
  BY EachPartRuns, PTL,
     FeedStaysInOrder, AuditIsHonest, StateIsHeard, ReplaysGoOn, ApprovalsReaped,
     SavesAreDurable, ChartShowsTraffic, CutsNeverShow, EndsTell, TokensGoToPinned,
     EnterKeeps, LogsFit, PageReads, OffersAreKept, HighlightStays, PaneFollows,
     LatestWins, ReportsStand, TokensStayApart
==============================================================================
