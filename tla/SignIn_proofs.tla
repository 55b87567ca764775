--------------------------- MODULE SignIn_proofs ---------------------------
(***************************************************************************)
(* Theorems about SignIn, for any number of sign-ins, identity fetches and *)
(* other callers: types, the admin gate, the overlay rule and the fate of  *)
(* a cancelled login.                                                      *)
(***************************************************************************)
EXTENDS SignIn, TLAPS

Callers == Fetches \cup Others

------------------------------------------------------------------------------
(* What TypeOK needs to be inductive. An operator who is signed in has a   *)
(* sign-in, which a modal then carries; a verdict on an account names the  *)
(* session it was asked with, which becomes the profile's. The UI holds a  *)
(* login task's channel exactly while a login is under way, and what the   *)
(* channel may hold follows from how far that task is.                     *)
SomebodyIsIn == phase = "in" => who # 0

VerdictsNameSession ==
    \A f \in Fetches : fetch[f].verdict \in {"admin", "member"} => fetch[f].of # 0

ChannelHeld == phase \in InProgress <=> attempt # 0

Queued ==
    attempt # 0 =>
        /\ tasks[attempt] \in {"unborn", "begin"} => outbox = <<>>
        /\ tasks[attempt] \in {"poll", "save"} => outbox \in {<<>>, <<"pending">>}

TypeInv == TypeOK /\ SomebodyIsIn /\ VerdictsNameSession /\ ChannelHeld /\ Queued

LEMMA LoginNumbers ==
    /\ MaxLogins \in Nat
    /\ 1 \in Logins
    /\ 0 \notin Logins /\ 0 \in 0..MaxLogins
    /\ Error \notin Logins
    /\ Error # 0
    /\ Logins \subseteq 0..MaxLogins
    /\ \A l \in 0..MaxLogins : l # 0 => l \in Logins
  BY LoginsAssumption, ErrorAssumption DEF Logins

LEMMA FreeFetch ==
    /\ Free \in FetchStates
    /\ Free.at = "free" /\ Free.of = 0 /\ Free.verdict = "none"
  BY LoginsAssumption DEF Free, FetchStates

LEMMA TypeInit == Init => TypeInv
  <1> SUFFICES ASSUME Init PROVE TypeInv
    OBVIOUS
  <1>1. session \in Logins \cup {0} /\ who \in 0..MaxLogins
    BY LoginNumbers DEF Init
  <1>2. Token!TypeOK
    BY <1>1, LoginNumbers DEF Init, Token!TypeOK, Token!Stages, Token!Answers
  <1>3. /\ outbox \in Seq(Messages) /\ Len(outbox) = 0
        /\ attempt = 0
    BY DEF Init
  <1>4. /\ phase \in Phases
        /\ tasks \in [Logins -> TaskStages]
        /\ account \in [Logins -> {"admin", "member", "gone"}]
    BY DEF Init, Phases, TaskStages
  <1>5. /\ fetch \in [Fetches -> FetchStates]
        /\ fetching \in Fetches \cup {NoFetch}
        /\ due \in BOOLEAN
        /\ screen \in {"open", "admin"}
    BY FreeFetch DEF Init
  <1>6. /\ attempt \in 0..MaxLogins
        /\ cancelled \subseteq Logins
        /\ profile \in Profiles \cup {NoProfile}
        /\ overlay \in Overlays \cup {NoOverlay}
    BY LoginNumbers DEF Init
  <1>7. TypeOK
    BY <1>1, <1>2, <1>3, <1>4, <1>5, <1>6 DEF TypeOK
  <1> QED
    BY <1>3, <1>7, FreeFetch DEF Init, TypeInv, SomebodyIsIn, InProgress,
       VerdictsNameSession, ChannelHeld, Queued

(* The session manager's steps keep its variables in their types.          *)
LEMMA TokenTypes ==
    ASSUME Token!TypeOK,
           \/ \E c \in Callers : Token!CallStep(c) \/ Token!Ask(c)
           \/ \E l \in Logins : Token!SignIn(l)
           \/ Token!SignOut
    PROVE  Token!TypeOK'
  <1> USE DEF Token!TypeOK, Token!Stages, Token!Answers, Callers
  <1>1. CASE \E l \in Logins : Token!SignIn(l)
    BY <1>1 DEF Token!SignIn
  <1>2. CASE Token!SignOut
    BY <1>2 DEF Token!SignOut
  <1>3. CASE \E c \in Callers : Token!Ask(c)
    BY <1>3 DEF Token!Ask
  <1>4. ASSUME NEW c \in Callers, Token!CallStep(c) PROVE Token!TypeOK'
    <2>1. CASE Token!StartRenewal(c)
      BY <2>1 DEF Token!StartRenewal
    <2>2. CASE Token!Answer(c) \/ Token!Renew(c) \/ Token!Discard(c)
               \/ Token!GiveUp(c)
      <3>1. /\ session' \in Logins \cup {0}
            /\ \E a \in Logins \cup {0, Error} : Token!Tell(c, a)
        BY <2>2 DEF Token!Answer, Token!Renew, Token!Discard, Token!GiveUp
      <3> QED
        BY <3>1 DEF Token!Tell
    <2> QED
      BY <1>4, <2>1, <2>2 DEF Token!CallStep
  <1> QED
    BY <1>1, <1>2, <1>3, <1>4

(* A step of the login task moves only that task, and may send one message *)
(* on its channel.                                                         *)
LEMMA TypeLogin ==
    ASSUME TypeInv, NEW a \in Logins, LoginStep(a)
    PROVE  TypeInv'
  <1>1. PICK from \in TaskStages, to \in TaskStages :
          /\ Moves(a, from, to)
          /\ from \in {"begin", "poll", "save"}
          /\ to = "ended" \/ (from = "begin" /\ to = "poll")
             \/ (from = "poll" /\ to = "save" /\ outbox' = outbox)
    BY DEF LoginStep, DeviceCodeIssued, DeviceCodeRefused, Approved, PollEnds,
       SaveLogin, Panics, TaskStages
  <1>2. \/ outbox' = outbox /\ (to = "poll" => attempt # a)
        \/ /\ attempt = a
           /\ \E message \in Messages :
                /\ outbox' = Append(outbox, message)
                /\ to = "poll" => message = "pending"
    <2>1. CASE DeviceCodeIssued(a)
      BY <2>1 DEF DeviceCodeIssued, Send, Messages
    <2>2. CASE DeviceCodeRefused(a) \/ PollEnds(a)
      <3>1. Send(a, "failed") /\ to = "ended"
        BY <1>1, <2>2 DEF DeviceCodeRefused, PollEnds, Moves, TypeInv, TypeOK
      <3> QED
        BY <3>1 DEF Send, Messages
    <2>3. CASE Approved(a)
      <3>1. outbox' = outbox /\ to = "save"
        BY <1>1, <2>3 DEF Approved, Moves, TypeInv, TypeOK
      <3> QED
        BY <3>1
    <2>4. CASE SaveLogin(a)
      <3>1. (Send(a, "completed") \/ Send(a, "failed")) /\ to = "ended"
        BY <1>1, <2>4 DEF SaveLogin, Moves, TypeInv, TypeOK
      <3> QED
        BY <3>1 DEF Send, Messages
    <2>5. CASE Panics(a)
      <3>1. outbox' = outbox /\ to = "ended"
        BY <1>1, <2>5 DEF Panics, Moves, TypeInv, TypeOK
      <3> QED
        BY <3>1
    <2> QED
      BY <2>1, <2>2, <2>3, <2>4, <2>5 DEF LoginStep
  <1>3. /\ tasks[a] = from
        /\ tasks' = [tasks EXCEPT ![a] = to]
        /\ UNCHANGED <<phase, attempt, who, cancelled, profile, fetching, due,
                       fetch, account, screen, overlay>>
    BY <1>1 DEF Moves, identityVars
  <1>4. Token!TypeOK'
    <2>1. CASE UNCHANGED <<session, stage, seen, answer>>
      BY <2>1 DEF TypeInv, TypeOK, Token!TypeOK
    <2>2. CASE Token!SignIn(a)
      BY <2>2, TokenTypes DEF TypeInv, TypeOK
    <2> QED
      BY <2>1, <2>2 DEF LoginStep, DeviceCodeIssued, DeviceCodeRefused, Approved,
         PollEnds, SaveLogin, Panics, tokenVars
  <1>5. outbox \in Seq(Messages) /\ Len(outbox) \in Nat
    BY DEF TypeInv, TypeOK
  <1>6. outbox' \in Seq(Messages) /\ Len(outbox') <= 2
    <2>1. CASE outbox' = outbox
      BY <2>1 DEF TypeInv, TypeOK
    <2>2. ASSUME attempt = a, NEW message \in Messages,
                 outbox' = Append(outbox, message)
          PROVE  outbox' \in Seq(Messages) /\ Len(outbox') <= 2
      <3>1. Len(outbox) <= 1
        BY <1>1, <1>3, <1>5, <2>2, LoginNumbers DEF TypeInv, Queued
      <3> QED
        BY <1>5, <2>2, <3>1
    <2> QED
      BY <1>2, <2>1, <2>2
  <1>7. TypeOK'
    BY <1>3, <1>4, <1>6 DEF TypeInv, TypeOK
  <1>8. Queued'
    <2> SUFFICES ASSUME attempt # 0 PROVE Queued'
      BY <1>3 DEF Queued
    <2>1. CASE attempt # a
      BY <1>2, <1>3, <2>1 DEF TypeInv, TypeOK, Queued
    <2>2. CASE attempt = a
      <3>1. tasks'[a] = to
        BY <1>3 DEF TypeInv, TypeOK
      <3>2. CASE to = "ended"
        BY <1>3, <2>2, <3>1, <3>2 DEF Queued
      <3>3. CASE from = "begin" /\ to = "poll"
        <4>1. outbox' = Append(outbox, "pending")
          BY <1>2, <2>2, <3>3
        <4>2. outbox = <<>>
          BY <1>3, <2>2, <3>3, LoginNumbers DEF TypeInv, Queued
        <4>3. outbox' = <<"pending">>
          BY <4>1, <4>2
        <4> QED
          BY <1>3, <2>2, <3>1, <3>3, <4>3 DEF Queued
      <3>4. CASE from = "poll" /\ to = "save" /\ outbox' = outbox
        BY <1>3, <2>2, <3>1, <3>4, LoginNumbers DEF TypeInv, Queued
      <3> QED
        BY <1>1, <3>2, <3>3, <3>4
    <2> QED
      BY <2>1, <2>2
  <1> QED
    BY <1>3, <1>7, <1>8 DEF TypeInv, SomebodyIsIn, VerdictsNameSession, ChannelHeld

(* The identity fetches, the other callers, time and the administrators.   *)
LEMMA TypeAround ==
    ASSUME TypeInv,
           \/ \E c \in Callers : TokenStep(c)
           \/ \E c \in Others : OtherAsks(c)
           \/ \E f \in Fetches : FetchEnds(f)
           \/ Elapse
           \/ \E l \in Logins : ChangeAccount(l)
    PROVE  TypeInv'
  <1> USE DEF TypeInv
  <1>1. CASE \/ \E c \in Callers : TokenStep(c)
             \/ \E c \in Others : OtherAsks(c)
    <2>1. /\ Token!TypeOK'
          /\ UNCHANGED <<authVars, tasks, identityVars, fetch, account, screen,
                         overlay>>
      BY <1>1, TokenTypes DEF TokenStep, OtherAsks, Callers, TypeOK
    <2> QED
      BY <2>1 DEF authVars, identityVars, TypeOK, SomebodyIsIn,
         VerdictsNameSession, ChannelHeld, Queued
  <1>2. ASSUME NEW f \in Fetches, FetchEnds(f) PROVE TypeInv'
    <2>1. PICK v \in VerdictsOn(answer[f]) :
            fetch' = [fetch EXCEPT ![f] =
               IF fetching = f
               THEN [at |-> "answered", verdict |-> v,
                     of |-> IF answer[f] = Error THEN 0 ELSE answer[f]]
               ELSE Free]
      BY <1>2 DEF FetchEnds
    <2>2. UNCHANGED <<tokenVars, authVars, tasks, identityVars, account, screen,
                      overlay>>
      BY <1>2 DEF FetchEnds
    <2>3. answer[f] \in Logins \cup {0, Error}
      BY DEF TypeOK, Token!TypeOK, Token!Answers, Callers
    <2>4. /\ v \in Verdicts
          /\ v \in {"admin", "member"} => answer[f] \in Logins
      BY <2>1, <2>3, LoginNumbers DEF VerdictsOn, Verdicts, TypeOK
    <2>5. fetch'[f] \in FetchStates
      <3>1. CASE fetching = f
        <4>1. fetch'[f] = [at |-> "answered", verdict |-> v,
                           of |-> IF answer[f] = Error THEN 0 ELSE answer[f]]
          BY <2>1, <3>1 DEF TypeOK, FetchStates
        <4>2. (IF answer[f] = Error THEN 0 ELSE answer[f]) \in 0..MaxLogins
          BY <2>3, LoginNumbers
        <4> QED
          BY <2>4, <4>1, <4>2 DEF FetchStates
      <3>2. CASE fetching # f
        BY <2>1, <3>2, FreeFetch DEF TypeOK
      <3> QED
        BY <3>1, <3>2
    <2>6. fetch'[f].verdict \in {"admin", "member"} => fetch'[f].of # 0
      <3>1. CASE fetching = f
        <4>1. /\ fetch'[f].verdict = v
              /\ fetch'[f].of = IF answer[f] = Error THEN 0 ELSE answer[f]
          BY <2>1, <3>1 DEF TypeOK, FetchStates
        <4> QED
          BY <2>4, <4>1, LoginNumbers
      <3>2. CASE fetching # f
        BY <2>1, <3>2, FreeFetch DEF TypeOK
      <3> QED
        BY <3>1, <3>2
    <2>7. \A d \in Fetches \ {f} : fetch'[d] = fetch[d]
      BY <2>1 DEF TypeOK
    <2>8. fetch' \in [Fetches -> FetchStates]
      BY <2>1, <2>5, <2>7 DEF TypeOK
    <2>9. TypeOK'
      BY <2>2, <2>8 DEF TypeOK, Token!TypeOK, tokenVars, authVars, identityVars
    <2> QED
      BY <2>2, <2>6, <2>7, <2>9 DEF authVars, SomebodyIsIn, VerdictsNameSession,
         ChannelHeld, Queued
  <1>3. CASE Elapse \/ \E l \in Logins : ChangeAccount(l)
    <2>1. TypeOK'
      BY <1>3, ZenonT(30) DEF Elapse, ChangeAccount, TypeOK, Token!TypeOK, tokenVars, authVars,
         identityVars
    <2> QED
      BY <1>3, <2>1 DEF Elapse, ChangeAccount, authVars, SomebodyIsIn,
         VerdictsNameSession, ChannelHeld, Queued
  <1> QED
    BY <1>1, <1>2, <1>3

(* What AuthController::drain leaves behind.                               *)
LEMMA Drained ==
    ASSUME TypeInv
    PROVE  /\ DrainedPhase \in Phases
           /\ DrainedAttempt \in 0..MaxLogins
           /\ DrainedWho \in 0..MaxLogins
           /\ DrainedPhase = "in" => DrainedWho # 0
           /\ DrainedAttempt \in {0, attempt}
           /\ DrainedPhase \in InProgress <=> DrainedAttempt # 0
  <1>1. /\ phase \in Phases /\ attempt \in 0..MaxLogins /\ who \in 0..MaxLogins
        /\ phase = "in" => who # 0
    BY DEF TypeInv, TypeOK, SomebodyIsIn
  <1>2. DrainedPhase \in Phases
    BY <1>1 DEF DrainedPhase, Phases
  <1>3. attempt = 0 => DrainedPhase = phase
    BY DEF DrainedPhase
  <1>4. DrainedPhase \in InProgress <=> DrainedAttempt # 0
    <2>1. CASE attempt = 0
      BY <1>3, <2>1 DEF TypeInv, ChannelHeld, DrainedAttempt
    <2>2. CASE attempt # 0 /\ tasks[attempt] = "ended"
      BY <2>2 DEF DrainedPhase, DrainedAttempt, InProgress
    <2>3. CASE attempt # 0 /\ tasks[attempt] # "ended"
      <3>1. outbox \in {<<>>, <<"pending">>}
        BY <1>1, <2>3, LoginNumbers DEF TypeInv, Queued, TypeOK, TaskStages
      <3>2. ~(outbox # <<>> /\ outbox[Len(outbox)] = "completed")
        BY <3>1
      <3> QED
        BY <2>3, <3>2 DEF DrainedPhase, DrainedAttempt, InProgress, TypeInv,
           ChannelHeld
    <2> QED
      BY <2>1, <2>2, <2>3
  <1> QED
    BY <1>1, <1>2, <1>3, <1>4, LoginNumbers DEF DrainedAttempt, DrainedWho

(* What IdentityController::drain leaves behind.                           *)
LEMMA Applied ==
    ASSUME TypeInv
    PROVE  /\ AppliedProfile \in Profiles \cup {NoProfile}
           /\ Collected \in [Fetches -> FetchStates]
           /\ \A f \in Fetches :
                Collected[f].verdict \in {"admin", "member"} => Collected[f].of # 0
  <1>1. /\ fetch \in [Fetches -> FetchStates]
        /\ profile \in Profiles \cup {NoProfile}
        /\ fetching \in Fetches \cup {NoFetch}
    BY DEF TypeInv, TypeOK
  <1>2. \/ Arrived = Free
        \/ fetching \in Fetches /\ Arrived = fetch[fetching]
    BY <1>1 DEF Arrived
  <1>3. Arrived \in FetchStates
    BY <1>1, <1>2, FreeFetch
  <1>4. Arrived.verdict \in {"admin", "member"} => Arrived.of \in Logins
    <2>1. Arrived.of \in 0..MaxLogins
      BY <1>3 DEF FetchStates
    <2>2. Arrived.verdict \in {"admin", "member"} => Arrived.of # 0
      BY <1>2, FreeFetch DEF TypeInv, VerdictsNameSession
    <2> QED
      BY <2>1, <2>2, LoginNumbers
  <1>5. AppliedProfile \in Profiles \cup {NoProfile}
    BY <1>1, <1>4 DEF AppliedProfile, Profiles
  <1>6. \A f \in Fetches : Collected[f] \in {fetch[f], Free}
    BY <1>1 DEF Collected
  <1>7. Collected \in [Fetches -> FetchStates]
    BY <1>1, FreeFetch DEF Collected
  <1> QED
    BY <1>5, <1>6, <1>7, FreeFetch DEF TypeInv, VerdictsNameSession

LEMMA TypeTick ==
    ASSUME TypeInv, Tick
    PROVE  TypeInv'
  <1> USE DEF TypeInv
  <1>0. /\ Token!TypeOK /\ screen \in {"open", "admin"}
        /\ tasks \in [Logins -> TaskStages] /\ due \in BOOLEAN
        /\ fetching \in Fetches \cup {NoFetch}
    BY DEF TypeOK
  <1>1. CASE TickSignedIn \/ TickSignedOut
    <2>1. /\ phase' = DrainedPhase /\ attempt' = DrainedAttempt /\ outbox' = <<>>
          /\ who' \in 0..MaxLogins /\ (phase' = "in" => who' # 0)
          /\ profile' \in Profiles \cup {NoProfile}
          /\ screen' \in {"open", "admin"}
          /\ UNCHANGED <<tasks, cancelled, account, overlay>>
      BY <1>0, <1>1, Drained, Applied, LoginNumbers
      DEF TickSignedIn, TickSignedOut, Bounce
    <2>2. /\ Token!TypeOK'
          /\ fetching' \in Fetches \cup {NoFetch}
          /\ due' \in BOOLEAN
          /\ fetch' \in [Fetches -> FetchStates]
          /\ VerdictsNameSession'
      <3> DEFINE Fine ==
                   /\ Token!TypeOK'
                   /\ fetching' \in Fetches \cup {NoFetch}
                   /\ due' \in BOOLEAN
                   /\ fetch' \in [Fetches -> FetchStates]
                   /\ VerdictsNameSession'
      <3>1. ASSUME NEW f \in Fetches, StartFetch(f) PROVE Fine
        <4>1. [Free EXCEPT !.at = "asking"] \in FetchStates
          BY FreeFetch DEF FetchStates
        <4>2. [Free EXCEPT !.at = "asking"].verdict = "none"
          BY DEF Free
        <4>3. fetch' = [Collected EXCEPT ![f] = [Free EXCEPT !.at = "asking"]]
          BY <3>1 DEF StartFetch
        <4> HIDE DEF TypeInv
        <4>4. Token!TypeOK'
          BY <1>0, <3>1, TokenTypes DEF StartFetch, Callers
        <4>5. fetch' \in [Fetches -> FetchStates] /\ VerdictsNameSession'
          BY <4>1, <4>2, <4>3, Applied DEF VerdictsNameSession
        <4> QED
          BY <3>1, <4>4, <4>5 DEF StartFetch
      <3>2. ASSUME fetch' = Collected, fetching' \in {fetching, NoFetch},
                   due' \in BOOLEAN, UNCHANGED tokenVars
            PROVE  Fine
        BY <1>0, <3>2, Applied DEF tokenVars, Token!TypeOK, VerdictsNameSession
      <3>3. \/ \E f \in Fetches : StartFetch(f)
            \/ /\ fetch' = Collected /\ UNCHANGED tokenVars
               /\ fetching' = fetching \/ fetching' = NoFetch
               /\ \/ due' = (due /\ Arrived = Free)
                  \/ due' = TRUE
        <4>1. CASE TickSignedIn
          BY <4>1 DEF TickSignedIn
        <4>2. CASE TickSignedOut
          BY <4>2 DEF TickSignedOut
        <4> QED
          BY <1>1, <4>1, <4>2
      <3>4. due' = (due /\ Arrived = Free) \/ due' = TRUE => due' \in BOOLEAN
        OBVIOUS
      <3> HIDE DEF Fine, TypeInv
      <3>5. Fine
        BY <3>1, <3>2, <3>3, <3>4
      <3> QED
        BY <3>5 DEF Fine
    <2>3. TypeOK'
      BY <2>1, <2>2, Drained DEF TypeOK
    <2> QED
      BY <2>1, <2>2, <2>3, Drained DEF SomebodyIsIn, ChannelHeld, Queued
  <1>2. CASE TickRevoked
    <2>1. EndSession(DrainedPhase, DrainedAttempt)
      BY <1>2 DEF TickRevoked
    <2>2. /\ profile' = NoProfile /\ fetching' = NoFetch /\ due' = TRUE
          /\ fetch' = Collected
          /\ overlay' \in {overlay, NoOverlay}
          /\ screen' \in {"open", "admin"}
          /\ UNCHANGED <<cancelled, account>>
      BY <1>0, <1>2 DEF TickRevoked, Bounce
    <2>3. /\ phase' \in Phases \ InProgress /\ who' \in 0..MaxLogins
          /\ phase' = "in" => who' # 0
          /\ attempt' = 0 /\ outbox' = <<>>
      BY <2>1, Drained, LoginNumbers DEF EndSession, Phases, InProgress
    <2>4. tasks' \in [Logins -> TaskStages]
      BY <1>0, <2>1 DEF EndSession, Aborted, TaskStages
    <2>5. Token!TypeOK'
      BY <1>0, <2>1, TokenTypes DEF EndSession, tokenVars, Token!TypeOK
    <2>6. fetch' \in [Fetches -> FetchStates] /\ VerdictsNameSession'
      BY <2>2, Applied DEF VerdictsNameSession
    <2>7. TypeOK'
      BY <2>2, <2>3, <2>4, <2>5, <2>6, LoginNumbers DEF TypeOK
    <2> QED
      BY <2>3, <2>6, <2>7 DEF SomebodyIsIn, ChannelHeld, Queued
  <1> QED
    BY <1>1, <1>2 DEF Tick

LEMMA TypeKey ==
    ASSUME TypeInv, Key
    PROVE  TypeInv'
  <1> USE DEF TypeInv
  <1>1. CASE OtherLockedKey \/ Navigate \/ CloseOverlay
    <2>1. TypeOK'
      BY <1>1 DEF OtherLockedKey, Navigate, CloseOverlay, DropOverlay, TypeOK,
         Token!TypeOK, tokenVars, authVars, identityVars
    <2> QED
      BY <1>1, <2>1 DEF OtherLockedKey, Navigate, CloseOverlay, authVars,
         SomebodyIsIn, VerdictsNameSession, ChannelHeld, Queued
  <1>2. CASE OpenOverlay
    <2>1. who \in Logins
      BY <1>2, LoginNumbers DEF OpenOverlay, Unlocked, SomebodyIsIn, TypeOK
    <2>2. overlay' \in Overlays
      BY <1>2, <2>1 DEF OpenOverlay, Overlays
    <2>3. TypeOK'
      BY <1>2, <2>2 DEF OpenOverlay, TypeOK, Token!TypeOK, tokenVars, authVars,
         identityVars
    <2> QED
      BY <1>2, <2>3 DEF OpenOverlay, authVars, SomebodyIsIn, VerdictsNameSession,
         ChannelHeld, Queued
  <1>3. ASSUME NEW l \in Logins, StartLogin(l) PROVE TypeInv'
    <2>1. /\ tasks' = [tasks EXCEPT ![l] = "begin"]
          /\ phase' = "starting" /\ attempt' = l /\ outbox' = <<>>
          /\ overlay' = NoOverlay
          /\ UNCHANGED <<tokenVars, who, cancelled, identityVars, fetch, account,
                         screen>>
      BY <1>3 DEF StartLogin, DropOverlay
    <2>2. l \in 0..MaxLogins /\ "starting" \in Phases
      BY LoginNumbers DEF Phases
    <2>3. tasks' \in [Logins -> TaskStages] /\ tasks'[l] = "begin"
      BY <2>1 DEF TypeOK, TaskStages
    <2>4. outbox' \in Seq(Messages) /\ Len(outbox') = 0
      BY <2>1
    <2>5. TypeOK'
      BY <2>1, <2>2, <2>3, <2>4 DEF TypeOK, Token!TypeOK, tokenVars, identityVars
    <2> QED
      BY <2>1, <2>3, <2>5, LoginNumbers DEF SomebodyIsIn, VerdictsNameSession,
         ChannelHeld, Queued, InProgress, identityVars
  <1>4. CASE CancelLogin
    <2>1. /\ tasks' = Aborted(attempt)
          /\ cancelled' = cancelled \cup {attempt}
          /\ attempt' = 0 /\ outbox' = <<>> /\ phase' = "out"
          /\ overlay' = NoOverlay
          /\ UNCHANGED <<tokenVars, who, identityVars, fetch, account, screen>>
          /\ attempt \in Logins
      BY <1>4, LoginNumbers DEF CancelLogin, DropOverlay, ChannelHeld, TypeOK
    <2>2. tasks' \in [Logins -> TaskStages]
      BY <2>1 DEF Aborted, TaskStages, TypeOK
    <2>3. TypeOK'
      BY <2>1, <2>2, LoginNumbers DEF TypeOK, Token!TypeOK, tokenVars, identityVars,
         Phases
    <2> QED
      BY <2>1, <2>3 DEF SomebodyIsIn, VerdictsNameSession, ChannelHeld, Queued,
         InProgress
  <1>5. CASE SignOut
    <2>1. /\ EndSession(phase, attempt)
          /\ overlay' \in {overlay, NoOverlay}
          /\ UNCHANGED <<cancelled, identityVars, fetch, account, screen>>
          /\ phase = "in"
      BY <1>5 DEF SignOut, Unlocked
    <2>2. /\ phase' \in {"in", "out"}
          /\ attempt' = 0 /\ outbox' = <<>>
      BY <2>1 DEF EndSession, InProgress
    <2>3. who' \in 0..MaxLogins /\ (phase' = "in" => who' # 0)
      <3>1. DrainedPhase = "in"
        BY <2>1 DEF ChannelHeld, InProgress, DrainedPhase
      <3> QED
        BY <2>1, <3>1, Drained, LoginNumbers DEF EndSession
    <2>4. tasks' \in [Logins -> TaskStages]
      BY <2>1 DEF EndSession, Aborted, TaskStages, TypeOK
    <2>5. Token!TypeOK'
      BY <2>1, TokenTypes DEF EndSession, tokenVars, Token!TypeOK, TypeOK
    <2>6. TypeOK'
      BY <2>1, <2>2, <2>3, <2>4, <2>5, LoginNumbers DEF TypeOK, identityVars, Phases
    <2> QED
      BY <2>1, <2>2, <2>3, <2>6 DEF SomebodyIsIn, VerdictsNameSession,
         ChannelHeld, Queued, InProgress
  <1> QED
    BY <1>1, <1>2, <1>3, <1>4, <1>5 DEF Key

LEMMA TypeStep == TypeInv /\ [Next]_vars => TypeInv'
  <1> SUFFICES ASSUME TypeInv, [Next]_vars PROVE TypeInv'
    OBVIOUS
  <1>1. CASE UNCHANGED vars
    BY <1>1 DEF vars, tokenVars, authVars, identityVars, TypeInv, TypeOK,
       Token!TypeOK, SomebodyIsIn, VerdictsNameSession, ChannelHeld, Queued
  <1>2. CASE Next
    BY <1>2, TypeLogin, TypeAround, TypeTick, TypeKey DEF Next, Callers
  <1> QED
    BY <1>1, <1>2

LEMMA TypeAlways == Spec => []TypeInv
  BY TypeInit, TypeStep, PTL DEF Spec

(* Every variable of the sign-in keeps its type; in particular a login     *)
(* task's channel never holds more than the two messages it may send.      *)
THEOREM SignInTypes == Spec => []TypeOK
  <1>1. TypeInv => TypeOK
    BY DEF TypeInv
  <1> QED
    BY <1>1, TypeAlways, PTL

------------------------------------------------------------------------------
(* The admin gate.                                                         *)

(* Steps of the tasks and of the outside world touch nothing the UI shows. *)
LEMMA TasksLeaveUI ==
    ASSUME \/ \E a \in Logins : LoginStep(a) \/ ChangeAccount(a)
           \/ \E c \in Callers : TokenStep(c)
           \/ \E c \in Others : OtherAsks(c)
           \/ \E f \in Fetches : FetchEnds(f)
           \/ Elapse
    PROVE  UNCHANGED <<phase, attempt, who, cancelled, profile, screen, overlay>>
  <1>1. ASSUME NEW a \in Logins, LoginStep(a)
        PROVE  UNCHANGED <<phase, attempt, who, cancelled, profile, screen, overlay>>
    BY <1>1 DEF LoginStep, DeviceCodeIssued, DeviceCodeRefused, Approved, PollEnds,
       SaveLogin, Panics, Moves, identityVars
  <1> QED
    BY <1>1 DEF ChangeAccount, TokenStep, OtherAsks, FetchEnds, Elapse, authVars,
       identityVars

(* app.rs bounces an operator off an admin screen on the very tick that    *)
(* replaces or forgets the profile, so that an admin-only screen is never  *)
(* in front between two events without an administrator's profile.         *)
THEOREM AdminGate == Spec => []AdminScreenGated
  <1>1. Init => AdminScreenGated
    BY DEF Init, AdminScreenGated
  <1>2. AdminScreenGated /\ [Next]_vars => AdminScreenGated'
    <2> SUFFICES ASSUME AdminScreenGated, [Next]_vars PROVE AdminScreenGated'
      OBVIOUS
    <2> USE DEF AdminScreenGated
    <2>1. CASE Tick
      BY <2>1 DEF Tick, TickSignedIn, TickSignedOut, TickRevoked, Bounce
    <2>2. CASE Navigate
      BY <2>2 DEF Navigate, identityVars
    <2>3. CASE \/ OtherLockedKey \/ CancelLogin \/ (\E l \in Logins : StartLogin(l))
               \/ SignOut \/ OpenOverlay \/ CloseOverlay
      BY <2>3 DEF OtherLockedKey, CancelLogin, StartLogin, SignOut, OpenOverlay,
         CloseOverlay, identityVars
    <2>4. CASE UNCHANGED vars
      BY <2>4 DEF vars, identityVars
    <2> QED
      BY <2>1, <2>2, <2>3, <2>4, TasksLeaveUI DEF Next, Key, Callers
  <1> QED
    BY <1>1, <1>2, PTL DEF Spec

------------------------------------------------------------------------------
(* Overlays. The rule is inductive because no overlay survives into a      *)
(* login: every key of the locked console drops it, also the one that      *)
(* starts the login, and a tick turns the phase to "in" from there only.   *)
NoneWhileLoggingIn == phase \in InProgress => overlay = NoOverlay

OverlayInv == NoneWhileLoggingIn /\ OverlayOfThisSession

(* A drain that makes or keeps somebody signed in makes it the sign-in     *)
(* whose login was under way, or keeps the one that was.                   *)
LEMMA WhoComesIn ==
    ASSUME TypeInv, DrainedPhase = "in"
    PROVE  \/ phase \in InProgress /\ attempt # 0 /\ DrainedWho = attempt
           \/ phase = "in" /\ attempt = 0 /\ DrainedWho = who
  BY DEF TypeInv, ChannelHeld, DrainedPhase, DrainedWho

LEMMA OverlayTick ==
    ASSUME TypeInv, OverlayInv, Tick
    PROVE  OverlayInv'
  <1> USE DEF OverlayInv, NoneWhileLoggingIn, OverlayOfThisSession
  <1>1. CASE TickSignedIn
    <2>1. /\ DrainedPhase = "in" /\ phase' = "in" /\ who' = DrainedWho
          /\ UNCHANGED overlay
      BY <1>1 DEF TickSignedIn
    <2> QED
      BY <2>1, WhoComesIn DEF InProgress
  <1>2. CASE TickSignedOut
    <2>1. phase' = DrainedPhase /\ phase' # "in" /\ UNCHANGED overlay
      BY <1>2 DEF TickSignedOut
    <2>2. DrainedPhase \in InProgress => phase \in InProgress
      BY Drained DEF TypeInv, ChannelHeld
    <2> QED
      BY <2>1, <2>2
  <1>3. CASE TickRevoked
    <2>1. /\ EndSession(DrainedPhase, DrainedAttempt)
          /\ overlay' \in {overlay, NoOverlay}
      BY <1>3 DEF TickRevoked
    <2>2. /\ phase' \notin InProgress
          /\ phase' = "in" => DrainedPhase = "in" /\ who' = DrainedWho
      BY <2>1, Drained DEF EndSession, InProgress
    <2> QED
      BY <2>1, <2>2, WhoComesIn
  <1> QED
    BY <1>1, <1>2, <1>3 DEF Tick

LEMMA OverlayKey ==
    ASSUME TypeInv, OverlayInv, Key
    PROVE  OverlayInv'
  <1> USE DEF OverlayInv, NoneWhileLoggingIn, OverlayOfThisSession
  <1>1. CASE OtherLockedKey \/ CancelLogin \/ \E l \in Logins : StartLogin(l)
    BY <1>1 DEF OtherLockedKey, CancelLogin, StartLogin, DropOverlay
  <1>2. CASE SignOut
    <2>1. /\ EndSession(phase, attempt)
          /\ overlay' \in {overlay, NoOverlay}
          /\ phase = "in"
      BY <1>2 DEF SignOut, Unlocked
    <2>2. DrainedPhase = "in"
      BY <2>1 DEF TypeInv, ChannelHeld, InProgress, DrainedPhase
    <2>3. /\ phase' \notin InProgress
          /\ phase' = "in" => who' = DrainedWho
      BY <2>1 DEF EndSession, InProgress
    <2> QED
      BY <2>1, <2>2, <2>3, WhoComesIn DEF InProgress
  <1>3. CASE Navigate \/ CloseOverlay
    BY <1>3 DEF Navigate, CloseOverlay, Unlocked, authVars, InProgress
  <1>4. CASE OpenOverlay
    BY <1>4 DEF OpenOverlay, Unlocked, authVars, InProgress
  <1> QED
    BY <1>1, <1>2, <1>3, <1>4 DEF Key

(* app.rs drops overlays when nobody is signed in, so that a modal opened  *)
(* under one sign-in is never open under a later one.                      *)
THEOREM OverlaysOfOneSession == Spec => []OverlayOfThisSession
  <1>1. Init => OverlayInv
    BY DEF Init, OverlayInv, NoneWhileLoggingIn, OverlayOfThisSession
  <1>2. TypeInv /\ OverlayInv /\ [Next]_vars => OverlayInv'
    <2> SUFFICES ASSUME TypeInv, OverlayInv, [Next]_vars PROVE OverlayInv'
      OBVIOUS
    <2>1. CASE UNCHANGED <<phase, who, overlay>>
      BY <2>1 DEF OverlayInv, NoneWhileLoggingIn, OverlayOfThisSession
    <2>2. UNCHANGED vars => UNCHANGED <<phase, who, overlay>>
      BY DEF vars, authVars
    <2> QED
      BY <2>1, <2>2, OverlayTick, OverlayKey, TasksLeaveUI DEF Next, Callers
  <1>3. OverlayInv => OverlayOfThisSession
    BY DEF OverlayInv
  <1> QED
    BY <1>1, <1>2, <1>3, TypeAlways, PTL DEF Spec

------------------------------------------------------------------------------
(* Cancelled logins. A login task is cancelled once, after it was started, *)
(* and the UI gives its channel away at that moment; a later login is a    *)
(* task that was not started then.                                         *)
CancelledAreBorn == \A l \in cancelled : tasks[l] # "unborn"

HeldIsLive == attempt # 0 => tasks[attempt] # "unborn" /\ attempt \notin cancelled

CancelInv == CancelledAreBorn /\ HeldIsLive

LEMMA CancelTick ==
    ASSUME TypeInv, CancelInv, Tick
    PROVE  CancelInv' /\ (phase # "in" /\ phase' = "in" => who' \notin cancelled)
  <1> USE DEF CancelInv, CancelledAreBorn, HeldIsLive
  <1>0. tasks \in [Logins -> TaskStages] /\ cancelled \subseteq Logins
    BY DEF TypeInv, TypeOK
  <1>1. CASE TickSignedIn \/ TickSignedOut
    <2>1. /\ attempt' \in {0, attempt}
          /\ UNCHANGED <<tasks, cancelled>>
          /\ phase' = "in" => DrainedPhase = "in" /\ who' = DrainedWho
      BY <1>1, Drained DEF TickSignedIn, TickSignedOut
    <2> QED
      BY <2>1, WhoComesIn
  <1>2. CASE TickRevoked
    <2>1. EndSession(DrainedPhase, DrainedAttempt) /\ UNCHANGED cancelled
      BY <1>2 DEF TickRevoked
    <2>2. attempt' = 0 /\ \A l \in Logins : tasks[l] # "unborn" => tasks'[l] # "unborn"
      BY <1>0, <2>1 DEF EndSession, Aborted
    <2>3. phase' = "in" => DrainedPhase = "in" /\ who' = DrainedWho
      BY <2>1 DEF EndSession
    <2> QED
      BY <1>0, <2>1, <2>2, <2>3, WhoComesIn
  <1> QED
    BY <1>1, <1>2 DEF Tick

LEMMA CancelKey ==
    ASSUME TypeInv, CancelInv, Key
    PROVE  CancelInv' /\ (phase' = "in" => phase = "in")
  <1> USE DEF CancelInv, CancelledAreBorn, HeldIsLive
  <1>0. tasks \in [Logins -> TaskStages] /\ cancelled \subseteq Logins
    BY DEF TypeInv, TypeOK
  <1>1. CASE OtherLockedKey \/ Navigate \/ OpenOverlay \/ CloseOverlay
    BY <1>1 DEF OtherLockedKey, Navigate, OpenOverlay, CloseOverlay, authVars
  <1>2. ASSUME NEW l \in Logins, StartLogin(l)
        PROVE  CancelInv' /\ (phase' = "in" => phase = "in")
    <2>1. /\ tasks[l] = "unborn" /\ tasks' = [tasks EXCEPT ![l] = "begin"]
          /\ attempt' = l /\ phase' = "starting"
          /\ UNCHANGED cancelled
      BY <1>2 DEF StartLogin
    <2> QED
      BY <1>0, <2>1
  <1>3. CASE CancelLogin
    <2>1. /\ tasks' = Aborted(attempt) /\ cancelled' = cancelled \cup {attempt}
          /\ attempt' = 0 /\ phase' = "out"
          /\ attempt # 0
      BY <1>3 DEF CancelLogin, TypeInv, ChannelHeld
    <2>2. attempt \in Logins
      BY <2>1, LoginNumbers DEF TypeInv, TypeOK
    <2>3. \A l \in Logins : tasks[l] # "unborn" => tasks'[l] # "unborn"
      BY <1>0, <2>1 DEF Aborted
    <2> QED
      BY <1>0, <2>1, <2>2, <2>3
  <1>4. CASE SignOut
    <2>1. EndSession(phase, attempt) /\ UNCHANGED cancelled /\ phase = "in"
      BY <1>4 DEF SignOut, Unlocked
    <2>2. attempt' = 0 /\ \A l \in Logins : tasks[l] # "unborn" => tasks'[l] # "unborn"
      BY <1>0, <2>1 DEF EndSession, Aborted
    <2> QED
      BY <1>0, <2>1, <2>2
  <1> QED
    BY <1>1, <1>2, <1>3, <1>4 DEF Key

LEMMA CancelTasks ==
    ASSUME TypeInv, CancelInv, NEW a \in Logins, LoginStep(a)
    PROVE  CancelInv'
  <1>1. PICK from \in {"begin", "poll", "save"}, to \in {"poll", "save", "ended"} :
          Moves(a, from, to)
    BY DEF LoginStep, DeviceCodeIssued, DeviceCodeRefused, Approved, PollEnds,
       SaveLogin, Panics
  <1>2. /\ tasks' = [tasks EXCEPT ![a] = to] /\ UNCHANGED <<attempt, cancelled>>
        /\ tasks \in [Logins -> TaskStages] /\ cancelled \subseteq Logins
        /\ attempt \in 0..MaxLogins
    BY <1>1 DEF Moves, TypeInv, TypeOK
  <1>3. \A l \in Logins : tasks[l] # "unborn" => tasks'[l] # "unborn"
    BY <1>2
  <1> QED
    BY <1>2, <1>3, LoginNumbers DEF CancelInv, CancelledAreBorn, HeldIsLive

(* Esc on a login that is already past its last await cannot stop it from  *)
(* storing its tokens; the UI nevertheless never reports it as signed in.  *)
THEOREM CancelledStaysOut == Spec => CancelledLoginStaysOut
  <1>1. Init => CancelInv
    BY DEF Init, CancelInv, CancelledAreBorn, HeldIsLive
  <1>2. TypeInv /\ CancelInv /\ [Next]_vars =>
          CancelInv' /\ [phase # "in" /\ phase' = "in" => who' \notin cancelled]_vars
    <2> SUFFICES ASSUME TypeInv, CancelInv, [Next]_vars
                 PROVE  CancelInv'
                        /\ (phase # "in" /\ phase' = "in" => who' \notin cancelled)
      OBVIOUS
    <2>1. CASE UNCHANGED <<phase, attempt, cancelled, tasks>>
      BY <2>1 DEF CancelInv, CancelledAreBorn, HeldIsLive
    <2>2. \/ UNCHANGED vars
          \/ \E c \in Callers : TokenStep(c)
          \/ \E c \in Others : OtherAsks(c)
          \/ \E f \in Fetches : FetchEnds(f)
          \/ Elapse
          \/ \E l \in Logins : ChangeAccount(l)
          => UNCHANGED <<phase, attempt, cancelled, tasks>>
      BY DEF vars, TokenStep, OtherAsks, FetchEnds, Elapse, ChangeAccount, authVars
    <2>3. ASSUME NEW a \in Logins, LoginStep(a) PROVE CancelInv' /\ UNCHANGED phase
      BY <2>3, CancelTasks, TasksLeaveUI
    <2> QED
      BY <2>1, <2>2, <2>3, CancelTick, CancelKey DEF Next, Callers
  <1> QED
    BY <1>1, <1>2, TypeAlways, PTL DEF Spec, CancelledLoginStaysOut

------------------------------------------------------------------------------
(* SignIn as the session manager's client. Each step asks or answers for   *)
(* one caller, signs in, signs out, or leaves the session manager alone:   *)
(* a tick starts at most one fetch, and a sign-out aborts no request.      *)
LEMMA UsesTokens == [Next]_vars => [Token!Next]_(Token!tokenVars)
  <1> SUFFICES ASSUME [Next]_vars PROVE Token!Next \/ UNCHANGED tokenVars
    BY DEF tokenVars, Token!tokenVars
  <1>1. CASE UNCHANGED vars
    BY <1>1 DEF vars
  <1>2. CASE Tick
    <2>1. CASE TickSignedIn
      BY <2>1 DEF TickSignedIn, StartFetch, Token!Next
    <2>2. CASE TickSignedOut
      BY <2>2 DEF TickSignedOut
    <2>3. CASE TickRevoked
      BY <2>3 DEF TickRevoked, EndSession, Token!Next
    <2> QED
      BY <1>2, <2>1, <2>2, <2>3 DEF Tick
  <1>3. CASE Key
    <2>1. CASE SignOut
      BY <2>1 DEF SignOut, EndSession, Token!Next
    <2>2. CASE OtherLockedKey \/ CancelLogin \/ (\E l \in Logins : StartLogin(l))
               \/ Navigate \/ OpenOverlay \/ CloseOverlay
      BY <2>2 DEF OtherLockedKey, CancelLogin, StartLogin, Navigate, OpenOverlay,
         CloseOverlay
    <2> QED
      BY <1>3, <2>1, <2>2 DEF Key
  <1>4. ASSUME NEW a \in Logins, LoginStep(a) PROVE Token!Next \/ UNCHANGED tokenVars
    <2>1. CASE SaveLogin(a)
      BY <2>1 DEF SaveLogin, Token!Next
    <2>2. CASE ~SaveLogin(a)
      BY <1>4, <2>2 DEF LoginStep, DeviceCodeIssued, DeviceCodeRefused, Approved,
         PollEnds, Panics
    <2> QED
      BY <2>1, <2>2
  <1>5. CASE \E a \in Logins : ChangeAccount(a)
    BY <1>5 DEF ChangeAccount
  <1>6. CASE \E c \in Callers : TokenStep(c)
    BY <1>6 DEF TokenStep, Token!Next, Callers
  <1>7. CASE \E c \in Others : OtherAsks(c)
    BY <1>7 DEF OtherAsks, Token!Next
  <1>8. CASE (\E f \in Fetches : FetchEnds(f)) \/ Elapse
    BY <1>8 DEF FetchEnds, Elapse
  <1> QED
    BY <1>1, <1>2, <1>3, <1>4, <1>5, <1>6, <1>7, <1>8 DEF Next, Callers

(* Beside the sign-in, its identity fetches and everything else that asks  *)
(* for a token, the session manager is used as TokenSource says; and that  *)
(* is what SessionManager implements (ManagerIsTokenSource).               *)
THEOREM UsesTokenSource == Spec => Token!Spec
  <1>1. Init => Token!Init
    BY LoginNumbers DEF Init, Token!Init
  <1> QED
    BY <1>1, UsesTokens, PTL DEF Spec, Token!Spec
==============================================================================
