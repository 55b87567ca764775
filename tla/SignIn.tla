------------------------------- MODULE SignIn -------------------------------
(***************************************************************************)
(* Who is signed in: tbo-tui's `AuthController` with its login tasks, the  *)
(* `IdentityController` with its fetches of /operators/me, and the gate    *)
(* `App` builds on them (screens, overlays, locked keys). The UI thread    *)
(* alone runs the controllers, one tick or key at a time; tasks run beside *)
(* it and report over channels that the UI drains on a tick.               *)
(*                                                                         *)
(* Access tokens come from the session manager, here as TokenSource says.  *)
(* Sign-ins are numbered in the order in which they are started; number 1  *)
(* may be one that an earlier run of the console left in the keychain.     *)
(***************************************************************************)
EXTENDS Naturals, Sequences

CONSTANTS
    Fetches,        \* identity fetches that may run at a time (a bound)
    Others,         \* other tasks that ask for access tokens
    MaxLogins,      \* bound: sign-ins started
    NoFetch,        \* the identity controller awaits no fetch
    Error           \* answer of a token request that failed

ASSUME FetchesAssumption ==
    /\ NoFetch \notin Fetches
    /\ Fetches \cap Others = {}
ASSUME LoginsAssumption == MaxLogins \in Nat \ {0}
ASSUME ErrorAssumption == Error \notin 0..MaxLogins

VARIABLES
    session, stage, seen, answer,   \* the session manager
    phase,      \* AuthPhase
    attempt,    \* the login task whose handle and channel the UI holds, or 0
    outbox,     \* what that task has sent and the UI has not drained
    tasks,      \* where each login task is
    who,        \* the sign-in the UI shows, or 0
    cancelled,  \* history: login tasks the operator cancelled
    profile,    \* the cached identity
    fetching,   \* the fetch whose channel the identity controller holds
    due,        \* no identity was fetched within the last REVALIDATE_INTERVAL
    fetch,      \* the identity fetches
    account,    \* what each sign-in's account is to the operator API
    screen,     \* "admin" stands for the Tokens, Debug and Audit screens
    overlay     \* the modal or the help overlay, and the sign-in it is from

tokenVars == <<session, stage, seen, answer>>
authVars == <<phase, attempt, outbox, who, cancelled>>
identityVars == <<profile, fetching, due>>
vars == <<tokenVars, authVars, tasks, identityVars, fetch, account, screen,
          overlay>>

Logins == 1..MaxLogins

Token == INSTANCE TokenSource WITH
    Callers <- Fetches \cup Others,
    None <- 0

Phases == {"out", "starting", "awaiting", "in", "failed"}
InProgress == {"starting", "awaiting"}
TaskStages == {"unborn", "begin", "poll", "save", "ended"}
Messages == {"pending", "completed", "failed"}

Profiles == [login: Logins, admin: BOOLEAN]
NoProfile == [login |-> 0, admin |-> FALSE]

Verdicts == {"admin", "member", "revoked", "transient"}
FetchStates == [at: {"free", "asking", "answered"}, of: 0..MaxLogins,
                verdict: Verdicts \cup {"none"}]
Free == [at |-> "free", of |-> 0, verdict |-> "none"]

Overlays == [kind: {"modal", "help"}, by: Logins]
NoOverlay == [kind |-> "none", by |-> 0]

TypeOK ==
    /\ Token!TypeOK
    /\ phase \in Phases
    /\ attempt \in 0..MaxLogins
    /\ outbox \in Seq(Messages) /\ Len(outbox) <= 2
    /\ tasks \in [Logins -> TaskStages]
    /\ who \in 0..MaxLogins
    /\ cancelled \subseteq Logins
    /\ profile \in Profiles \cup {NoProfile}
    /\ fetching \in Fetches \cup {NoFetch}
    /\ due \in BOOLEAN
    /\ fetch \in [Fetches -> FetchStates]
    /\ account \in [Logins -> {"admin", "member", "gone"}]
    /\ screen \in {"open", "admin"}
    /\ overlay \in Overlays \cup {NoOverlay}

Init ==
    /\ session \in {0, 1}
    /\ stage = [c \in Fetches \cup Others |-> "idle"]
    /\ seen = [c \in Fetches \cup Others |-> 0]
    /\ answer = [c \in Fetches \cup Others |-> Error]
    /\ phase = IF session = 0 THEN "out" ELSE "in"
    /\ who = session
    /\ attempt = 0
    /\ outbox = <<>>
    /\ tasks = [l \in Logins |-> IF l = session THEN "ended" ELSE "unborn"]
    /\ cancelled = {}
    /\ profile = NoProfile
    /\ fetching = NoFetch
    /\ due = TRUE
    /\ fetch = [f \in Fetches |-> Free]
    /\ account = [l \in Logins |-> "admin"]
    /\ screen = "open"
    /\ overlay = NoOverlay

----------------------------------------------------------------------------
(* The login task (run_login).                                             *)

(* What task a sends reaches the UI only while the UI holds its channel.   *)
Send(a, message) ==
    outbox' = IF attempt = a THEN Append(outbox, message) ELSE outbox

Moves(a, from, to) ==
    /\ tasks[a] = from
    /\ tasks' = [tasks EXCEPT ![a] = to]
    /\ UNCHANGED <<phase, attempt, who, cancelled, identityVars, fetch, account,
                   screen, overlay>>

DeviceCodeIssued(a) ==
    /\ Moves(a, "begin", "poll")
    /\ Send(a, "pending")
    /\ UNCHANGED tokenVars

DeviceCodeRefused(a) ==
    /\ Moves(a, "begin", "ended")
    /\ Send(a, "failed")
    /\ UNCHANGED tokenVars

Approved(a) ==
    /\ Moves(a, "poll", "save")
    /\ UNCHANGED <<tokenVars, outbox>>

(* Denied, expired, or an error that is not retried.                       *)
PollEnds(a) ==
    /\ Moves(a, "poll", "ended")
    /\ Send(a, "failed")
    /\ UNCHANGED tokenVars

(* complete_login. No await separates the arrival of the tokens from it,   *)
(* so an abort no longer stops the task here.                              *)
SaveLogin(a) ==
    /\ Moves(a, "save", "ended")
    /\ \/ Token!SignIn(a) /\ Send(a, "completed")
       \/ UNCHANGED tokenVars /\ Send(a, "failed")

(* The task panics (an expiry beyond the calendar) and reports nothing.    *)
Panics(a) ==
    /\ \E from \in {"begin", "save"} : Moves(a, from, "ended")
    /\ UNCHANGED <<tokenVars, outbox>>

LoginStep(a) ==
    \/ DeviceCodeIssued(a) \/ DeviceCodeRefused(a)
    \/ Approved(a) \/ PollEnds(a)
    \/ SaveLogin(a) \/ Panics(a)

----------------------------------------------------------------------------
(* Access tokens and identity fetches.                                     *)

(* A step of the session manager for one of its callers.                   *)
TokenStep(c) ==
    /\ Token!CallStep(c)
    /\ UNCHANGED <<authVars, tasks, identityVars, fetch, account, screen, overlay>>

(* Another task asks for a token.                                          *)
OtherAsks(c) ==
    /\ Token!Ask(c)
    /\ UNCHANGED <<authVars, tasks, identityVars, fetch, account, screen, overlay>>

UnauthenticatedIsTransient(a) ==     \* a slip: only a 401 signs out
    IF a = 0 THEN {"transient"}
    ELSE IF a = Error THEN {"transient"}
    ELSE {"transient", "revoked"}
         \cup (IF account[a] = "gone" THEN {} ELSE {account[a]})

(* What a fetch makes of the token request's answer a: no session and a    *)
(* refused token are both taken for a revoked account; a token that expired*)
(* on the way is refused as well.                                          *)
VerdictsOn(a) ==
    IF a = 0 THEN {"revoked"}
    ELSE IF a = Error THEN {"transient"}
    ELSE {"transient", "revoked"}
         \cup (IF account[a] = "gone" THEN {} ELSE {account[a]})

(* The fetch is over; nobody receives its result once the controller has   *)
(* dropped the channel.                                                    *)
FetchEnds(f) ==
    /\ fetch[f].at = "asking"
    /\ stage[f] = "idle"
    /\ \E v \in VerdictsOn(answer[f]) :
         fetch' = [fetch EXCEPT ![f] =
            IF fetching = f
            THEN [at |-> "answered", verdict |-> v,
                  of |-> IF answer[f] = Error THEN 0 ELSE answer[f]]
            ELSE Free]
    /\ UNCHANGED <<tokenVars, authVars, tasks, identityVars, account, screen,
                   overlay>>

(* REVALIDATE_INTERVAL has passed.                                         *)
Elapse ==
    /\ ~due
    /\ due' = TRUE
    /\ UNCHANGED <<tokenVars, authVars, tasks, profile, fetching, fetch,
                   account, screen, overlay>>

(* An administrator changes or removes an account; removal is for good.    *)
ChangeAccount(l) ==
    /\ account[l] # "gone"
    /\ \E a \in {"admin", "member", "gone"} \ {account[l]} :
         account' = [account EXCEPT ![l] = a]
    /\ UNCHANGED <<tokenVars, authVars, tasks, identityVars, fetch, screen,
                   overlay>>

----------------------------------------------------------------------------
(* The UI thread: a tick.                                                  *)

(* The phase after AuthController::drain. A task that ended and reported   *)
(* neither success nor failure counts as failed.                           *)
StuckPhase ==       \* a slip: a closed channel is only dropped
    IF outbox = <<>> THEN phase
    ELSE CASE outbox[Len(outbox)] = "completed" -> "in"
           [] outbox[Len(outbox)] = "failed" -> "failed"
           [] OTHER -> "awaiting"

DrainedPhase ==
    IF attempt = 0 THEN phase
    ELSE IF outbox # <<>> /\ outbox[Len(outbox)] = "completed" THEN "in"
    ELSE IF tasks[attempt] = "ended" THEN "failed"
    ELSE IF outbox # <<>> THEN "awaiting"
    ELSE phase

(* drain keeps the task's handle and channel until its last word.          *)
DrainedAttempt ==
    IF attempt # 0 /\ tasks[attempt] = "ended" THEN 0 ELSE attempt

DrainedWho ==
    IF attempt # 0 /\ DrainedPhase = "in" THEN attempt
    ELSE IF DrainedPhase = "in" THEN who ELSE 0

(* The result waiting in the identity controller's channel.                *)
Arrived ==
    IF fetching # NoFetch /\ fetch[fetching].at = "answered"
    THEN fetch[fetching] ELSE Free

(* fetch with the slot of the held channel released, if it has answered.   *)
Collected ==
    IF Arrived = Free THEN fetch ELSE [fetch EXCEPT ![fetching] = Free]

FirstProfile ==         \* a slip: a profile, once known, is kept
    IF profile = NoProfile /\ Arrived.verdict \in {"admin", "member"}
    THEN [login |-> Arrived.of, admin |-> Arrived.verdict = "admin"]
    ELSE profile

(* IdentityController::drain and apply, for a result that signs nobody out.*)
AppliedProfile ==
    IF Arrived.verdict \in {"admin", "member"}
    THEN [login |-> Arrived.of, admin |-> Arrived.verdict = "admin"]
    ELSE profile

StayOnAdmin(p) == UNCHANGED screen     \* a slip: no bounce

(* should_bounce_from_admin_screen, with the profile p of this tick.       *)
Bounce(p) == screen' = IF p.admin THEN screen ELSE "open"

(* refresh: a task that asks for a token and then for /operators/me.       *)
StartFetch(f) ==
    /\ Collected[f].at = "free"
    /\ Token!Ask(f)
    /\ fetch' = [Collected EXCEPT ![f] = [Free EXCEPT !.at = "asking"]]
    /\ fetching' = f
    /\ due' = TRUE

(* A tick that finds the operator signed in.                               *)
TickSignedIn ==
    /\ DrainedPhase = "in"
    /\ Arrived.verdict # "revoked"
    /\ profile' = AppliedProfile
    /\ IF Arrived = Free /\ fetching = NoFetch /\ due
       THEN \E f \in Fetches : StartFetch(f)
       ELSE /\ fetching' = IF Arrived = Free THEN fetching ELSE NoFetch
            /\ due' = (due /\ Arrived = Free)
            /\ fetch' = Collected
            /\ UNCHANGED tokenVars
    /\ phase' = "in"
    /\ attempt' = DrainedAttempt
    /\ who' = DrainedWho
    /\ outbox' = <<>>
    /\ Bounce(AppliedProfile)
    /\ UNCHANGED <<tasks, cancelled, account, overlay>>

(* A tick that finds nobody signed in: an identity that is known is        *)
(* forgotten, together with any fetch under way.                           *)
TickSignedOut ==
    /\ DrainedPhase # "in"
    /\ Arrived.verdict # "revoked"
    /\ profile' = NoProfile
    /\ fetching' = IF AppliedProfile = NoProfile /\ Arrived = Free
                   THEN fetching ELSE NoFetch
    /\ due' = IF AppliedProfile # NoProfile THEN TRUE ELSE due /\ Arrived = Free
    /\ fetch' = Collected
    /\ phase' = DrainedPhase
    /\ attempt' = DrainedAttempt
    /\ who' = 0
    /\ outbox' = <<>>
    /\ Bounce(NoProfile)
    /\ UNCHANGED <<tokenVars, tasks, cancelled, account, overlay>>

(* AuthController::sign_out from phase p and attempt a: any login task is  *)
(* aborted, and the keychain is cleared unless it refuses.                 *)
Aborted(a) ==
    IF a # 0 /\ tasks[a] \in {"begin", "poll"}
    THEN [tasks EXCEPT ![a] = "ended"] ELSE tasks

EndSession(p, a) ==
    /\ tasks' = Aborted(a)
    /\ attempt' = 0
    /\ outbox' = <<>>
    /\ \/ Token!SignOut /\ phase' = "out" /\ who' = 0
       \/ /\ phase' = IF p \in InProgress THEN "out" ELSE p
          /\ who' = IF p = "in" THEN DrainedWho ELSE 0
          /\ UNCHANGED tokenVars

(* A tick on which an identity fetch reports the account gone.             *)
TickRevoked ==
    /\ Arrived.verdict = "revoked"
    /\ EndSession(DrainedPhase, DrainedAttempt)
    /\ profile' = NoProfile
    /\ fetching' = NoFetch
    /\ due' = TRUE
    /\ fetch' = Collected
    /\ overlay' = IF overlay.kind = "help" THEN NoOverlay ELSE overlay
    /\ Bounce(NoProfile)
    /\ UNCHANGED <<cancelled, account>>

Tick == TickSignedIn \/ TickSignedOut \/ TickRevoked

----------------------------------------------------------------------------
(* The UI thread: a key.                                                   *)

Unlocked == phase = "in"

KeepOverlay == UNCHANGED overlay        \* a slip: an orphan is left open

(* on_key, while nobody is signed in: overlays are dropped first.          *)
DropOverlay == overlay' = NoOverlay

OtherLockedKey ==
    /\ ~Unlocked
    /\ DropOverlay
    /\ UNCHANGED <<tokenVars, authVars, tasks, identityVars, fetch, account, screen>>

StartLogin(l) ==
    /\ phase \in {"out", "failed"}
    /\ tasks[l] = "unborn"
    /\ \A k \in Logins : k < l => tasks[k] # "unborn"
    /\ tasks' = [tasks EXCEPT ![l] = "begin"]
    /\ phase' = "starting"
    /\ attempt' = l
    /\ outbox' = <<>>
    /\ DropOverlay
    /\ UNCHANGED <<tokenVars, who, cancelled, identityVars, fetch, account, screen>>

CancelKeepsChannel ==       \* a slip: the task is aborted, its channel kept
    /\ phase \in InProgress
    /\ tasks' = Aborted(attempt)
    /\ cancelled' = cancelled \cup {attempt}
    /\ phase' = "out"
    /\ DropOverlay
    /\ UNCHANGED <<tokenVars, attempt, outbox, who, identityVars, fetch, account,
                   screen>>

CancelLogin ==
    /\ phase \in InProgress
    /\ tasks' = Aborted(attempt)
    /\ cancelled' = cancelled \cup {attempt}
    /\ attempt' = 0
    /\ outbox' = <<>>
    /\ phase' = "out"
    /\ DropOverlay
    /\ UNCHANGED <<tokenVars, who, identityVars, fetch, account, screen>>

(* Signing out, from the Settings screen or in the help overlay.           *)
SignOut ==
    /\ Unlocked
    /\ \/ overlay = NoOverlay /\ screen = "open" /\ UNCHANGED overlay
       \/ overlay.kind = "help" /\ overlay' = NoOverlay
    /\ EndSession(phase, attempt)
    /\ UNCHANGED <<cancelled, identityVars, fetch, account, screen>>

(* Moving to another screen, with no overlay or in the help overlay, which *)
(* some keys close.                                                        *)
Navigate ==
    /\ Unlocked
    /\ overlay.kind # "modal"
    /\ \E s \in {"open", "admin"} :
         /\ s = "admin" => profile.admin
         /\ screen' = s
    /\ overlay' \in {overlay, NoOverlay}
    /\ UNCHANGED <<tokenVars, authVars, tasks, identityVars, fetch, account>>

OpenOverlay ==
    /\ Unlocked
    /\ overlay = NoOverlay
    /\ \E kind \in {"modal", "help"} : overlay' = [kind |-> kind, by |-> who]
    /\ UNCHANGED <<tokenVars, authVars, tasks, identityVars, fetch, account, screen>>

(* A modal is confirmed or dismissed, or the help overlay closed. What a   *)
(* confirmed modal does is outside this module.                            *)
CloseOverlay ==
    /\ Unlocked
    /\ overlay # NoOverlay
    /\ overlay' = NoOverlay
    /\ UNCHANGED <<tokenVars, authVars, tasks, identityVars, fetch, account, screen>>

Key ==
    \/ OtherLockedKey \/ CancelLogin \/ (\E l \in Logins : StartLogin(l))
    \/ SignOut \/ Navigate \/ OpenOverlay \/ CloseOverlay

----------------------------------------------------------------------------
Next ==
    \/ Tick
    \/ Key
    \/ \E a \in Logins : LoginStep(a) \/ ChangeAccount(a)
    \/ \E c \in Fetches \cup Others : TokenStep(c)
    \/ \E c \in Others : OtherAsks(c)
    \/ \E f \in Fetches : FetchEnds(f)
    \/ Elapse

Spec == Init /\ [][Next]_vars

(* The executor runs the login task and the token requests; a poll ends    *)
(* with the device code at the latest; ticks and time go on. Requests do   *)
(* not fail without a verdict for ever, nor does the keychain refuse the   *)
(* same deletion for ever. Nothing is assumed of the operator.             *)
Fairness ==
    /\ WF_vars(Tick)
    /\ SF_vars(TickRevoked /\ phase' # "in")
    /\ WF_vars(Elapse)
    /\ \A a \in Logins :
         WF_vars(DeviceCodeIssued(a) \/ DeviceCodeRefused(a) \/ PollEnds(a)
                 \/ SaveLogin(a))
    /\ \A c \in Others : WF_vars(TokenStep(c))
    /\ \A f \in Fetches :
         /\ SF_vars(TokenStep(f) /\ answer'[f] # Error)
         /\ WF_vars(FetchEnds(f))
         /\ SF_vars(FetchEnds(f) /\ fetch'[f].verdict # "transient")

FairSpec == Spec /\ Fairness

----------------------------------------------------------------------------
(* app.rs bounces an operator off an admin screen "so gated content never  *)
(* lingers": between two events the UI handles, an admin-only screen is in *)
(* front only while the cached identity is an administrator's.             *)
AdminScreenGated == screen = "admin" => profile.admin

(* app.rs: an overlay orphaned by a sign-out can "neither dispatch a stale *)
(* action on the next key nor linger past a later login": an overlay open  *)
(* while somebody is signed in was opened by that same sign-in.            *)
OverlayOfThisSession ==
    phase = "in" /\ overlay # NoOverlay => overlay.by = who

(* Cancelling races a login task that is past its last await and will still*)
(* store its tokens: the UI nevertheless never reports a cancelled login as*)
(* signed in, also not when another one was started meanwhile.             *)
CancelledLoginStaysOut ==
    [][phase # "in" /\ phase' = "in" => who' \notin cancelled]_vars

(* auth.rs: the UI "never sticks in a transient phase", even if the login  *)
(* task dies without a word.                                               *)
LoginNeverSticks == phase \in InProgress ~> phase \notin InProgress

(* README: an account that was removed is signed out by the next identity  *)
(* check "so a revoked account cannot keep operating"; the same holds when *)
(* a rejected refresh emptied the store behind the UI's back.              *)
Operable == session # 0 /\ account[session] # "gone"
RevokedIsSignedOut ==
    phase = "in" /\ ~Operable ~> phase # "in" \/ Operable

(* An administrator who is demoted loses the admin screens: the cached     *)
(* profile does not outlive the account's tier.                            *)
DemotionIsNoticed ==
    phase = "in" /\ profile.admin /\ session # 0 /\ account[session] # "admin"
      ~> \/ ~profile.admin
         \/ session # 0 /\ account[session] = "admin"

(* What happens to an account on the server reaches the screens (both of   *)
(* the above): identity checks run on, whatever logins and refreshes do.   *)
AccountChangesAreNoticed == RevokedIsSignedOut /\ DemotionIsNoticed

(* auth.rs says of SignedOut: "No stored session."                         *)
SignedOutMeansNoSession == phase = "out" => session = 0

(* identity.rs: "a result requested for the previous session can never be  *)
(* applied to the next one": an identity that is cached while somebody is  *)
(* signed in, and the store holds that sign-in's session, is theirs.       *)
IdentityOfOwnSession ==
    [][profile' # profile /\ profile' # NoProfile /\ session = who'
         => profile'.login = who']_vars
=============================================================================
