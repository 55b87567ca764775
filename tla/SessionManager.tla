--------------------------- MODULE SessionManager ---------------------------
(***************************************************************************)
(* tbo-auth's `SessionManager`: the stored session, the refresh lock, and  *)
(* `access_token` as it runs in many background tasks at once, against an  *)
(* identity provider that may rotate refresh tokens, lose replies, stall   *)
(* and revoke. `sign_out` and `complete_login` come from the UI thread and *)
(* the login task; neither takes the refresh lock, so they fall between    *)
(* any two steps of a call.                                                *)
(*                                                                         *)
(* A grant is one token bundle the provider issued, numbered from 1; its   *)
(* access token and its refresh token both go by that number, and 0 is the *)
(* token that is not there.                                                *)
(***************************************************************************)
EXTENDS Integers

CONSTANTS
    Callers,        \* tasks that call access_token
    Abortable,      \* those the UI may abort at an await (the event tail)
    NoCaller,       \* the refresh lock is free
    Lifetimes,      \* access-token lifetimes the provider reports; 0: none
    Margin,         \* refresh_margin
    ReplyTimeout,   \* longest time a token-endpoint request takes
    MaxTime,        \* bound: the clock stops here
    MaxGrants       \* bound: bundles the provider issues

ASSUME CallersAssumption ==
    /\ Abortable \subseteq Callers
    /\ NoCaller \notin Callers
ASSUME TimesAssumption ==
    /\ Lifetimes \subseteq Nat
    /\ Margin \in Nat
    /\ ReplyTimeout \in Nat
    /\ MaxTime \in Nat
ASSUME GrantsAssumption == MaxGrants \in Nat \ {0}

VARIABLES
    now,        \* wall clock
    store,      \* the TokenStore's session
    lock,       \* holder of refresh_lock
    pc,         \* where each call is
    asked,      \* the `now` argument of each call, read when it was made
    held,       \* the session a call works on: the one loaded, then the next
    reply,      \* the provider's reply on its way to a call
    result,     \* what each call last returned
    console,    \* "in" while the operator is signed in as far as the UI knows
    login,      \* the token bundle on its way to the login task
    issued,     \* grants made so far
    live,       \* refresh tokens the provider would redeem
    spent,      \* refresh tokens it redeemed and replaced
    ledger,     \* per grant: its sign-in, and when its access token expires
    lost        \* history: a grant never reached the store it was meant for

managerVars == <<lock, pc, asked, held, result>>
providerVars == <<issued, live, spent, ledger>>
vars == <<now, store, lock, pc, asked, held, reply, result, console, login,
          issued, live, spent, ledger, lost>>

Grants == 1..MaxGrants
Sessions == [access: 0..MaxGrants, refresh: 0..MaxGrants, expires: Nat]
NoSession == [access |-> 0, refresh |-> 0, expires |-> 0]

Bundles == [access: Grants, refresh: 0..MaxGrants, life: Nat]
NoBundle == [access |-> 0, refresh |-> 0, life |-> 0]
ReplyKinds == {"none", "tokens", "rejected", "transient", "malformed"}
Replies == [kind: ReplyKinds, tokens: Bundles \cup {NoBundle}]
NoReply == [kind |-> "none", tokens |-> NoBundle]

(* A call returns a grant's access token, `None` or an error.              *)
SignedOut == 0
Failure == -1
Results == Grants \cup {SignedOut, Failure}

Logins == [tokens: Bundles \cup {NoBundle}, at: Nat]
NoLogin == [tokens |-> NoBundle, at |-> 0]

Working == {"refreshing", "saving", "clearing"}

TypeOK ==
    /\ now \in Nat
    /\ store \in Sessions
    /\ lock \in Callers \cup {NoCaller}
    /\ pc \in [Callers -> {"idle", "queued"} \cup Working]
    /\ asked \in [Callers -> Nat]
    /\ held \in [Callers -> Sessions]
    /\ reply \in [Callers -> Replies]
    /\ result \in [Callers -> Results]
    /\ console \in {"in", "out"}
    /\ login \in Logins
    /\ issued \in 0..MaxGrants
    /\ live \subseteq Grants
    /\ spent \subseteq Grants
    /\ ledger \in [Grants -> [login: 0..MaxGrants, until: Nat]]
    /\ lost \in BOOLEAN

(* `StoredSession::from_tokens`: the expiry is resolved against the        *)
(* caller's clock; an unknown lifetime leaves 0, which has always passed.  *)
FromTokens(t, at) ==
    [access |-> t.access, refresh |-> t.refresh,
     expires |-> IF t.life = 0 THEN 0 ELSE at + t.life]

IsExpired(s, at) == at >= s.expires

NoMargin(s, at) == at >= s.expires      \* a slip: refresh only once expired
IsExpiringSoon(s, at) == at + Margin >= s.expires

(* Two slips: the old refresh token kept over a rotated one, and dropped   *)
(* when the provider did not send another.                                 *)
KeepsOldToken(t, old, at) == [FromTokens(t, at) EXCEPT !.refresh = old.refresh]
DropsOldToken(t, old, at) == FromTokens(t, at)

(* The session saved after a refresh: the old refresh token stays when the *)
(* provider did not send another.                                          *)
Refreshed(t, old, at) ==
    LET next == FromTokens(t, at)
    IN  IF next.refresh = 0 THEN [next EXCEPT !.refresh = old.refresh] ELSE next

(* The keychain is empty, or holds the session an earlier run left there.  *)
Init ==
    /\ now = 0
    /\ lock = NoCaller
    /\ pc = [c \in Callers |-> "idle"]
    /\ asked = [c \in Callers |-> 0]
    /\ held = [c \in Callers |-> NoSession]
    /\ reply = [c \in Callers |-> NoReply]
    /\ result = [c \in Callers |-> Failure]
    /\ login = NoLogin
    /\ spent = {}
    /\ lost = FALSE
    /\ \/ /\ store = NoSession
          /\ issued = 0
          /\ live = {}
          /\ ledger = [g \in Grants |-> [login |-> 0, until |-> 0]]
       \/ \E r \in {0, 1}, life \in Lifetimes \cup {0} :
            /\ store = [access |-> 1, refresh |-> r, expires |-> life]
            /\ issued = 1
            /\ live = {r} \ {0}
            /\ ledger = [g \in Grants |->
                            IF g = 1 THEN [login |-> 1, until |-> life]
                                     ELSE [login |-> 0, until |-> 0]]
    /\ console = IF store = NoSession THEN "out" ELSE "in"

----------------------------------------------------------------------------
(* access_token.                                                           *)

(* A task reads the clock and calls; it waits for the lock from here on,   *)
(* and what an earlier call of its returned is forgotten.                  *)
Call(c) ==
    /\ pc[c] = "idle"
    /\ pc' = [pc EXCEPT ![c] = "queued"]
    /\ asked' = [asked EXCEPT ![c] = now]
    /\ result' = [result EXCEPT ![c] = Failure]
    /\ UNCHANGED <<now, store, lock, held, reply, console, login, providerVars,
                   lost>>

ReturnHoldingLock(c, r) ==      \* a slip: the guard outlives the call
    /\ pc' = [pc EXCEPT ![c] = "idle"]
    /\ asked' = [asked EXCEPT ![c] = 0]
    /\ held' = [held EXCEPT ![c] = NoSession]
    /\ reply' = [reply EXCEPT ![c] = NoReply]
    /\ result' = [result EXCEPT ![c] = r]
    /\ UNCHANGED <<now, lock, console, login, providerVars>>

(* The call ends with r; leaving the function drops the lock guard.        *)
Return(c, r) ==
    /\ pc' = [pc EXCEPT ![c] = "idle"]
    /\ lock' = NoCaller
    /\ asked' = [asked EXCEPT ![c] = 0]
    /\ held' = [held EXCEPT ![c] = NoSession]
    /\ reply' = [reply EXCEPT ![c] = NoReply]
    /\ result' = [result EXCEPT ![c] = r]
    /\ UNCHANGED <<now, console, login, providerVars>>

(* Taking the lock and loading the session are one step: nothing another   *)
(* thread does tells them apart.                                           *)
Locks(c) == pc[c] = "queued" /\ lock = NoCaller

ForgetUnreadable(c) ==      \* a slip: a failed load empties the store
    /\ Locks(c)
    /\ Return(c, Failure)
    /\ store' = NoSession
    /\ UNCHANGED lost

LoadFails(c) ==
    /\ Locks(c)
    /\ Return(c, Failure)
    /\ UNCHANGED <<store, lost>>

FindNoSession(c) ==
    /\ Locks(c)
    /\ store = NoSession
    /\ Return(c, SignedOut)
    /\ UNCHANGED <<store, lost>>

UseStored(c) ==
    /\ Locks(c)
    /\ store # NoSession
    /\ \/ /\ ~IsExpiringSoon(store, asked[c])
          /\ Return(c, store.access)
       \/ /\ IsExpiringSoon(store, asked[c])
          /\ store.refresh = 0
          /\ ~IsExpired(store, asked[c])
          /\ Return(c, store.access)
    /\ UNCHANGED <<store, lost>>

DropLock(c, stage) ==       \* a slip: the guard dropped before the await
    /\ lock' = NoCaller
    /\ pc' = [pc EXCEPT ![c] = stage]
    /\ held' = [held EXCEPT ![c] = store]
    /\ UNCHANGED <<now, store, asked, reply, result, console, login,
                   providerVars, lost>>

(* The call keeps the lock and goes on to `stage` with the loaded session. *)
KeepLock(c, stage) ==
    /\ lock' = c
    /\ pc' = [pc EXCEPT ![c] = stage]
    /\ held' = [held EXCEPT ![c] = store]
    /\ UNCHANGED <<now, store, asked, reply, result, console, login,
                   providerVars, lost>>

FindDead(c) ==
    /\ Locks(c)
    /\ store # NoSession
    /\ store.refresh = 0
    /\ IsExpired(store, asked[c])
    /\ KeepLock(c, "clearing")

StartRefresh(c) ==
    /\ Locks(c)
    /\ store # NoSession
    /\ store.refresh # 0
    /\ IsExpiringSoon(store, asked[c])
    /\ KeepLock(c, "refreshing")

Awaiting(c) == pc[c] = "refreshing" /\ reply[c].kind # "none"

(* Tokens came: what remains is to store the session made of them.         *)
ReceiveTokens(c) ==
    /\ Awaiting(c)
    /\ reply[c].kind = "tokens"
    /\ pc' = [pc EXCEPT ![c] = "saving"]
    /\ held' = [held EXCEPT ![c] = Refreshed(reply[c].tokens, held[c], asked[c])]
    /\ reply' = [reply EXCEPT ![c] = NoReply]
    /\ UNCHANGED <<now, store, lock, asked, result, console, login,
                   providerVars, lost>>

(* The refresh token was rejected (RefreshTokenInvalid).                   *)
ReceiveRejection(c) ==
    /\ Awaiting(c)
    /\ reply[c].kind = "rejected"
    /\ pc' = [pc EXCEPT ![c] = "clearing"]
    /\ reply' = [reply EXCEPT ![c] = NoReply]
    /\ UNCHANGED <<now, store, lock, asked, held, result, console, login,
                   providerVars, lost>>

(* No verdict: the token the caller already had, unless it has expired on  *)
(* the clock the caller read when it called.                               *)
FallBack(c) ==
    /\ Awaiting(c)
    /\ reply[c].kind = "transient"
    /\ IF IsExpired(held[c], asked[c])
       THEN Return(c, Failure)
       ELSE Return(c, held[c].access)
    /\ UNCHANGED <<store, lost>>

(* The reply could not be decoded.                                         *)
ReceiveGarbage(c) ==
    /\ Awaiting(c)
    /\ reply[c].kind = "malformed"
    /\ Return(c, Failure)
    /\ UNCHANGED <<store, lost>>

Save(c) ==
    /\ pc[c] = "saving"
    /\ \/ /\ store' = held[c]
          /\ Return(c, held[c].access)
          /\ UNCHANGED lost
       \/ /\ Return(c, Failure)     \* the keychain refuses the write
          /\ lost' = TRUE
          /\ UNCHANGED store

(* A session without a refresh token ends as "signed out", a rejected one  *)
(* as an error.                                                            *)
Clear(c) ==
    /\ pc[c] = "clearing"
    /\ \/ /\ store' = NoSession
          /\ Return(c, IF held[c].refresh = 0 THEN SignedOut ELSE Failure)
       \/ /\ Return(c, Failure)     \* the keychain refuses the delete
          /\ UNCHANGED store
    /\ UNCHANGED lost

(* The UI aborts the task while it waits for the lock or for the reply:    *)
(* the guard is dropped and a reply on its way is never read.              *)
Abort(c) ==
    /\ c \in Abortable
    /\ pc[c] \in {"queued", "refreshing"}
    /\ pc' = [pc EXCEPT ![c] = "idle"]
    /\ lock' = IF lock = c THEN NoCaller ELSE lock
    /\ held' = [held EXCEPT ![c] = NoSession]
    /\ reply' = [reply EXCEPT ![c] = NoReply]
    /\ asked' = [asked EXCEPT ![c] = 0]
    /\ result' = [result EXCEPT ![c] = Failure]
    /\ lost' = (lost \/ reply[c].kind = "tokens")
    /\ UNCHANGED <<now, store, console, login, providerVars>>

----------------------------------------------------------------------------
(* The identity provider, as far as refresh and sign-in show it.           *)

Waiting(c) == pc[c] = "refreshing" /\ reply[c].kind = "none"

Reply(c, kind, tokens) ==
    reply' = [reply EXCEPT ![c] = [kind |-> kind, tokens |-> tokens]]

(* A grant redeems the refresh token it was asked with, and replaces it    *)
(* when the provider rotates. The reply may then get lost or damaged.      *)
Grant(c) ==
    /\ Waiting(c)
    /\ held[c].refresh \in live
    /\ issued < MaxGrants
    /\ LET g == issued + 1
           old == held[c].refresh
       IN  \E life \in Lifetimes, rotates \in BOOLEAN :
             /\ issued' = g
             /\ live' = IF rotates THEN (live \ {old}) \cup {g} ELSE live
             /\ spent' = IF rotates THEN spent \cup {old} ELSE spent
             /\ ledger' = [ledger EXCEPT ![g] = [login |-> ledger[old].login,
                                                 until |-> now + life]]
             /\ \/ /\ Reply(c, "tokens",
                            [access |-> g, life |-> life,
                             refresh |-> IF rotates THEN g ELSE 0])
                   /\ UNCHANGED lost
                \/ /\ \E kind \in {"transient", "malformed"} :
                         Reply(c, kind, NoBundle)
                   /\ lost' = TRUE
    /\ UNCHANGED <<now, store, managerVars, console, login>>

(* The provider will not redeem the token (a 4xx).                         *)
Reject(c) ==
    /\ Waiting(c)
    /\ held[c].refresh \notin live
    /\ Reply(c, "rejected", NoBundle)
    /\ UNCHANGED <<now, store, managerVars, console, login, providerVars, lost>>

(* The request fails or times out before the provider acts on it, or the   *)
(* provider answers 5xx.                                                   *)
RequestFails(c) ==
    /\ Waiting(c)
    /\ Reply(c, "transient", NoBundle)
    /\ UNCHANGED <<now, store, managerVars, console, login, providerVars, lost>>

(* An administrator or the validity period ends a refresh token.           *)
Revoke ==
    /\ \E r \in live : live' = live \ {r}
    /\ UNCHANGED <<now, store, managerVars, reply, console, login, issued,
                   spent, ledger, lost>>

----------------------------------------------------------------------------
(* The UI and the login task.                                              *)

(* The operator approved a device code: a new sign-in, whose tokens travel *)
(* to the login task. A login starts only when the UI shows none.          *)
ApproveLogin ==
    /\ console = "out"
    /\ login = NoLogin
    /\ issued < MaxGrants
    /\ LET g == issued + 1
       IN  \E life \in Lifetimes, r \in {0, g} :
             /\ issued' = g
             /\ live' = live \cup ({r} \ {0})
             /\ ledger' = [ledger EXCEPT ![g] = [login |-> g, until |-> now + life]]
             /\ login' = [tokens |-> [access |-> g, refresh |-> r, life |-> life],
                          at |-> now]
    /\ UNCHANGED <<now, store, managerVars, reply, console, spent, lost>>

(* complete_login, on the clock of the login task at that moment. A login  *)
(* that was cancelled too late for the abort still stores its session, and *)
(* the UI does not learn of it.                                            *)
CompleteLogin ==
    /\ login # NoLogin
    /\ store' = FromTokens(login.tokens, now)
    /\ login' = NoLogin
    /\ console' \in {"in", console}
    /\ UNCHANGED <<now, managerVars, reply, providerVars, lost>>

(* The login is cancelled, its reply lost, or its session not stored.      *)
LoseLogin ==
    /\ login # NoLogin
    /\ login' = NoLogin
    /\ UNCHANGED <<now, store, managerVars, reply, console, providerVars, lost>>

SignOut ==
    /\ console = "in"
    /\ store' = NoSession
    /\ console' = "out"
    /\ UNCHANGED <<now, managerVars, reply, login, providerVars, lost>>

(* The console is quit and started again; the keychain keeps the session.  *)
Restart ==
    /\ lock' = NoCaller
    /\ pc' = [c \in Callers |-> "idle"]
    /\ held' = [c \in Callers |-> NoSession]
    /\ reply' = [c \in Callers |-> NoReply]
    /\ result' = [c \in Callers |-> Failure]
    /\ lost' = (lost \/ \E c \in Callers : reply[c].kind = "tokens" \/ pc[c] = "saving")
    /\ login' = NoLogin
    /\ console' = IF store = NoSession THEN "out" ELSE "in"
    /\ asked' = [c \in Callers |-> 0]
    /\ UNCHANGED <<now, store, providerVars>>

(* A token-endpoint request is answered within ReplyTimeout, so the login  *)
(* task is not left waiting longer.                                        *)
Tick ==
    /\ now < MaxTime
    /\ login # NoLogin => now < login.at + ReplyTimeout
    /\ now' = now + 1
    /\ UNCHANGED <<store, managerVars, reply, console, login, providerVars, lost>>

----------------------------------------------------------------------------
Load(c) ==
    \/ LoadFails(c) \/ FindNoSession(c) \/ UseStored(c)
    \/ FindDead(c) \/ StartRefresh(c)

Receive(c) ==
    \/ ReceiveTokens(c) \/ ReceiveRejection(c) \/ FallBack(c) \/ ReceiveGarbage(c)

Provider(c) == Grant(c) \/ Reject(c) \/ RequestFails(c)

Next ==
    \/ \E c \in Callers :
         \/ Call(c) \/ Load(c) \/ Receive(c) \/ Save(c) \/ Clear(c)
         \/ Abort(c) \/ Provider(c)
    \/ Revoke
    \/ ApproveLogin \/ CompleteLogin \/ LoseLogin
    \/ SignOut \/ Restart
    \/ Tick

Spec == Init /\ [][Next]_vars

(* The executor runs every ready task, a request is answered or times out, *)
(* and tokio's Mutex hands the lock over in the order it was asked for.    *)
Fairness ==
    \A c \in Callers :
        /\ SF_vars(Load(c))
        /\ WF_vars(Provider(c))
        /\ WF_vars(Receive(c))
        /\ WF_vars(Save(c) \/ Clear(c))

FairSpec == Spec /\ Fairness

----------------------------------------------------------------------------
(* manager.rs promises that "at most one refresh is in flight": no two     *)
(* calls are ever past the lock together.                                  *)
OneRefreshInFlight ==
    \A c, d \in Callers : pc[c] \in Working /\ pc[d] \in Working => c = d

(* What that promise is for. A rotating provider takes a second use of a   *)
(* refresh token for theft, so a token it has replaced is never sent to it *)
(* again, whatever sign-outs, sign-ins and concurrent calls happen; unless *)
(* a grant was lost on the way to the store, which no client can repair.   *)
NoSpentTokenSent ==
    \A c \in Callers : ~lost /\ Waiting(c) => held[c].refresh \notin spent

(* The refresh margin covers the reply's travel: a token returned from the *)
(* store as fresh was still accepted by the API when it was asked for,     *)
(* although complete_login dates it by the arrival of the reply.           *)
AnswersFresh ==
    \A c \in Callers :
        /\ pc[c] = "queued"
        /\ store.refresh # 0
        /\ result'[c] \in Grants
        => asked[c] < ledger[result'[c]].until

FreshTokenAccepted == [][AnswersFresh]_vars

(* access_token empties the store only of a session that nothing could     *)
(* have renewed. It may also empty it of one that was put there while the  *)
(* call was refreshing an earlier session, and after a lost grant.         *)
ClearsOnlyDeadSessions ==
    [][\A c \in Callers :
        /\ pc[c] = "clearing"
        /\ store # NoSession
        /\ store' = NoSession
        /\ pc'[c] = "idle"
        /\ held[c] = store
        /\ ~lost
        => \A r \in live : ledger[r].login # ledger[store.access].login]_vars

(* Every call that is not aborted returns: the lock is always given back,  *)
(* also by the aborted ones, and no reply is awaited forever.              *)
EveryCallReturns ==
    \A c \in Callers \ Abortable : pc[c] = "queued" ~> pc[c] = "idle"

(* manager.rs: "a transient refresh failure returns the existing token     *)
(* while it remains valid".                                                *)
FallbackStillValid ==
    [][\A c \in Callers :
        FallBack(c) /\ result'[c] \in Grants => now < held[c].expires]_vars

----------------------------------------------------------------------------
(* The manager implements TokenSource.                                     *)
LoginOf(s) == IF s = NoSession THEN 0 ELSE ledger[s.access].login

Source == INSTANCE TokenSource WITH
    Callers <- Callers,
    Logins  <- Grants,
    None    <- 0,
    Error   <- -1,
    session <- LoginOf(store),
    stage   <- [c \in Callers |-> IF pc[c] = "idle" THEN "idle"
                                  ELSE IF pc[c] = "queued" THEN "asked"
                                  ELSE "renewing"],
    seen    <- [c \in Callers |-> LoginOf(held[c])],
    answer  <- [c \in Callers |-> IF result[c] \in Grants
                                  THEN ledger[result[c]].login
                                  ELSE result[c]]

(* Everything access_token, sign_out and complete_login do to the session  *)
(* is one of the abstract steps: a caller is only ever given a token of the*)
(* sign-in it read, and a renewal writes that sign-in back.                *)
ImplementsTokenSource == Source!Spec
=============================================================================
