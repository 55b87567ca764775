------------------------ MODULE SessionManager_proofs ------------------------
(***************************************************************************)
(* Proofs about SessionManager for any set of callers, any lifetimes and   *)
(* margins, and any number of grants.                                      *)
(***************************************************************************)
EXTENDS SessionManager, TLAPS

USE DEF Grants, Working, ReplyKinds, SignedOut, Failure

(* A null record is none of the records that carry a grant. Stated once so *)
(* that the steps below need not look inside the records.                  *)
LEMMA NullRecords ==
    /\ NoSession \in Sessions
    /\ NoBundle \notin Bundles
    /\ NoReply \in Replies
    /\ NoLogin \in Logins
  BY GrantsAssumption DEF NoSession, Sessions, NoBundle, Bundles, NoReply,
     Replies, NoLogin, Logins

(* from_tokens and the refreshed session are sessions, on any clock.       *)
LEMMA BundlesMakeSessions ==
    ASSUME NEW t \in Bundles, NEW old \in Sessions, NEW at \in Nat
    PROVE  /\ FromTokens(t, at) \in Sessions
           /\ Refreshed(t, old, at) \in Sessions
           /\ Refreshed(t, old, at).access = t.access
           /\ Refreshed(t, old, at).refresh =
                IF t.refresh = 0 THEN old.refresh ELSE t.refresh
           /\ Refreshed(t, old, at).expires = FromTokens(t, at).expires
  BY GrantsAssumption DEF FromTokens, Refreshed, Bundles, Sessions

------------------------------------------------------------------------------
(* The bounds and the provider's bookkeeping that TypeOK alone does not    *)
(* give: who carries tokens at which stage. This is what makes TypeOK      *)
(* inductive.                                                              *)
RepliesCarryTokens ==
    \A c \in Callers : reply[c].kind = "tokens" => reply[c].tokens \in Bundles

LoginCarriesTokens == login # NoLogin => login.tokens \in Bundles

TypeInv == TypeOK /\ RepliesCarryTokens /\ LoginCarriesTokens

LEMMA TypeInit == Init => TypeInv
  <1> SUFFICES ASSUME Init PROVE TypeInv
    OBVIOUS
  <1> USE DEF Init
  <1>1. store \in Sessions
    BY GrantsAssumption, TimesAssumption DEF NoSession, Sessions
  <1>2. issued \in 0..MaxGrants /\ live \subseteq Grants /\ spent \subseteq Grants
    BY GrantsAssumption
  <1>3. ledger \in [Grants -> [login: 0..MaxGrants, until: Nat]]
    BY GrantsAssumption, TimesAssumption
  <1>4. /\ held \in [Callers -> Sessions]
        /\ reply \in [Callers -> Replies]
        /\ result \in [Callers -> Results]
        /\ login \in Logins
    BY NullRecords DEF Results
  <1>5. RepliesCarryTokens /\ LoginCarriesTokens
    BY DEF RepliesCarryTokens, LoginCarriesTokens, NoReply
  <1> QED
    BY <1>1, <1>2, <1>3, <1>4, <1>5 DEF TypeInv, TypeOK


(* The end of a call keeps the types, whichever session is stored by then. *)
LEMMA ReturnTypes ==
    ASSUME TypeInv, NEW c \in Callers, NEW r \in Results, Return(c, r),
           store' \in Sessions, lost' \in BOOLEAN
    PROVE  TypeInv'
  <1> USE NullRecords DEF TypeInv, Return, providerVars
  <1>1. TypeOK'
    BY DEF TypeOK
  <1>2. RepliesCarryTokens'
    BY DEF TypeOK, RepliesCarryTokens, NoReply
  <1>3. LoginCarriesTokens'
    BY DEF LoginCarriesTokens
  <1> QED
    BY <1>1, <1>2, <1>3

LEMMA LoadTypes ==
    ASSUME TypeInv, NEW c \in Callers, Load(c)
    PROVE  TypeInv'
  <1> USE DEF TypeInv
  <1>1. NoSession \in Sessions /\ store \in Sessions /\ lost \in BOOLEAN
    BY NullRecords DEF TypeOK
  <1>2. Failure \in Results /\ SignedOut \in Results
    BY DEF Results
  <1>3. CASE LoadFails(c)
    BY <1>1, <1>2, <1>3, ReturnTypes DEF LoadFails
  <1>4. CASE FindNoSession(c)
    BY <1>1, <1>2, <1>4, ReturnTypes DEF FindNoSession
  <1>5. CASE UseStored(c)
    <2>1. store.access \in Results
      BY <1>1, <1>5, GrantsAssumption DEF UseStored, Results, Sessions, NoSession
    <2> QED
      BY <1>1, <1>5, <2>1, ReturnTypes DEF UseStored
  <1>6. ASSUME NEW stage \in Working, KeepLock(c, stage)
        PROVE  TypeInv'
    BY <1>6 DEF KeepLock, TypeOK, RepliesCarryTokens, LoginCarriesTokens,
       providerVars
  <1>7. CASE FindDead(c) \/ StartRefresh(c)
    BY <1>6, <1>7 DEF FindDead, StartRefresh
  <1> QED
    BY <1>3, <1>4, <1>5, <1>7 DEF Load

LEMMA ReceiveTypes ==
    ASSUME TypeInv, NEW c \in Callers, Receive(c)
    PROVE  TypeInv'
  <1> USE DEF TypeInv
  <1>1. store \in Sessions /\ lost \in BOOLEAN /\ Failure \in Results
    BY DEF TypeOK, Results
  <1>2. CASE ReceiveTokens(c)
    <2>1. reply[c].tokens \in Bundles
      BY <1>2 DEF ReceiveTokens, RepliesCarryTokens
    <2>2. Refreshed(reply[c].tokens, held[c], asked[c]) \in Sessions
      BY <2>1, BundlesMakeSessions DEF TypeOK
    <2>3. TypeOK'
      BY <1>2, <2>2, NullRecords DEF ReceiveTokens, TypeOK, providerVars
    <2> QED
      BY <1>2, <2>3 DEF ReceiveTokens, RepliesCarryTokens, LoginCarriesTokens,
         NoReply, TypeOK
  <1>3. CASE ReceiveRejection(c)
    <2>1. TypeOK'
      BY <1>3, NullRecords DEF ReceiveRejection, TypeOK, providerVars
    <2> QED
      BY <1>3, <2>1 DEF ReceiveRejection, RepliesCarryTokens,
         LoginCarriesTokens, NoReply, TypeOK
  <1>4. CASE FallBack(c)
    <2>1. held[c].access \in Results
      BY GrantsAssumption DEF TypeOK, Sessions, Results
    <2> QED
      BY <1>1, <1>4, <2>1, ReturnTypes DEF FallBack
  <1>5. CASE ReceiveGarbage(c)
    BY <1>1, <1>5, ReturnTypes DEF ReceiveGarbage
  <1> QED
    BY <1>2, <1>3, <1>4, <1>5 DEF Receive

LEMMA EndTypes ==
    ASSUME TypeInv, NEW c \in Callers, Save(c) \/ Clear(c)
    PROVE  TypeInv'
  <1> USE DEF TypeInv
  <1>1. /\ store \in Sessions /\ held[c] \in Sessions /\ NoSession \in Sessions
        /\ lost \in BOOLEAN
    BY NullRecords DEF TypeOK
  <1>2. /\ held[c].access \in Results
        /\ Failure \in Results
        /\ SignedOut \in Results
    BY <1>1, GrantsAssumption DEF Sessions, Results
  <1>3. CASE Save(c)
    BY <1>1, <1>2, <1>3, ReturnTypes DEF Save
  <1>4. CASE Clear(c)
    BY <1>1, <1>2, <1>4, ReturnTypes DEF Clear
  <1> QED
    BY <1>3, <1>4

(* What the provider writes down when it issues grant g.                   *)
LEMMA NextGrant ==
    ASSUME TypeOK, issued < MaxGrants
    PROVE  issued + 1 \in Grants
  BY GrantsAssumption DEF TypeOK

LEMMA ProviderTypes ==
    ASSUME TypeInv, NEW c \in Callers, Provider(c)
    PROVE  TypeInv'
  <1> USE DEF TypeInv
  <1>1. NoBundle.access = 0 /\ "transient" # "tokens"
    BY DEF NoBundle
  <1>2. CASE Grant(c)
    <2> DEFINE g == issued + 1
    <2>1. PICK life \in Lifetimes, rotates \in BOOLEAN :
            /\ issued' = g
            /\ live' = IF rotates THEN (live \ {held[c].refresh}) \cup {g} ELSE live
            /\ spent' = IF rotates THEN spent \cup {held[c].refresh} ELSE spent
            /\ ledger' = [ledger EXCEPT ![g] =
                            [login |-> ledger[held[c].refresh].login,
                             until |-> now + life]]
            /\ \/ /\ Reply(c, "tokens", [access |-> g, life |-> life,
                                         refresh |-> IF rotates THEN g ELSE 0])
                  /\ UNCHANGED lost
               \/ /\ \E kind \in {"transient", "malformed"} :
                        Reply(c, kind, NoBundle)
                  /\ lost' = TRUE
      BY <1>2 DEF Grant
    <2>2. g \in Grants /\ held[c].refresh \in Grants /\ life \in Nat
      BY <1>2, NextGrant, TimesAssumption DEF Grant, TypeOK
    <2>3. [access |-> g, life |-> life, refresh |-> IF rotates THEN g ELSE 0]
            \in Bundles
      BY <2>2, GrantsAssumption DEF Bundles
    <2>4. ledger' \in [Grants -> [login: 0..MaxGrants, until: Nat]]
      BY <2>1, <2>2 DEF TypeOK
    <2>5. reply' \in [Callers -> Replies] /\ RepliesCarryTokens'
      <3>1. ASSUME NEW kind \in {"tokens"}, NEW t \in Bundles, Reply(c, kind, t)
            PROVE  reply' \in [Callers -> Replies] /\ RepliesCarryTokens'
        BY <3>1 DEF Reply, Replies, TypeOK, RepliesCarryTokens
      <3>2. ASSUME NEW kind \in ReplyKinds \ {"tokens"}, Reply(c, kind, NoBundle)
            PROVE  reply' \in [Callers -> Replies] /\ RepliesCarryTokens'
        BY <3>2 DEF Reply, Replies, TypeOK, RepliesCarryTokens
      <3> QED
        BY <2>1, <2>3, <3>1, <3>2
    <2>6. UNCHANGED <<now, store, managerVars, console, login>>
      BY <1>2 DEF Grant
    <2>7. issued' \in 0..MaxGrants /\ live' \subseteq Grants /\ spent' \subseteq Grants
      <3>1. issued' \in 0..MaxGrants
        BY <2>1, <2>2, GrantsAssumption
      <3>2. live \subseteq Grants /\ spent \subseteq Grants
        BY DEF TypeOK
      <3> HIDE DEF Grants, g
      <3>3. live' \subseteq Grants /\ spent' \subseteq Grants
        BY <2>1, <2>2, <3>2
      <3> QED
        BY <3>1, <3>3
    <2>8. lost' \in BOOLEAN
      BY <2>1 DEF TypeOK
    <2>9. TypeOK'
      BY <2>4, <2>5, <2>6, <2>7, <2>8 DEF TypeOK, managerVars
    <2> QED
      BY <2>5, <2>6, <2>9 DEF LoginCarriesTokens
  <1>3. CASE Reject(c) \/ RequestFails(c)
    <2>1. PICK kind \in ReplyKinds \ {"tokens"} : Reply(c, kind, NoBundle)
      BY <1>3 DEF Reject, RequestFails
    <2>2. reply' \in [Callers -> Replies] /\ RepliesCarryTokens'
      BY <2>1 DEF Reply, Replies, TypeOK, RepliesCarryTokens
    <2>3. UNCHANGED <<now, store, managerVars, console, login, providerVars, lost>>
      BY <1>3 DEF Reject, RequestFails
    <2> QED
      BY <2>2, <2>3 DEF TypeOK, LoginCarriesTokens, managerVars, providerVars
  <1> QED
    BY <1>2, <1>3 DEF Provider

LEMMA UserTypes ==
    ASSUME TypeInv, Revoke \/ ApproveLogin \/ CompleteLogin \/ LoseLogin \/ SignOut
    PROVE  TypeInv'
  <1> USE DEF TypeInv
  <1>1. CASE Revoke
    BY <1>1 DEF Revoke, TypeOK, RepliesCarryTokens, LoginCarriesTokens, managerVars
  <1>2. CASE ApproveLogin
    <2> DEFINE g == issued + 1
    <2>1. PICK life \in Lifetimes, r \in {0, g} :
            /\ issued' = g
            /\ live' = live \cup ({r} \ {0})
            /\ ledger' = [ledger EXCEPT ![g] = [login |-> g, until |-> now + life]]
            /\ login' = [tokens |-> [access |-> g, refresh |-> r, life |-> life],
                         at |-> now]
      BY <1>2 DEF ApproveLogin
    <2>2. g \in Grants /\ life \in Nat /\ now \in Nat
      BY <1>2, NextGrant, TimesAssumption DEF ApproveLogin, TypeOK
    <2>3. [access |-> g, refresh |-> r, life |-> life] \in Bundles
      BY <2>2, GrantsAssumption DEF Bundles
    <2>4. login' \in Logins /\ LoginCarriesTokens'
      BY <2>1, <2>2, <2>3 DEF Logins, LoginCarriesTokens
    <2>5. ledger' \in [Grants -> [login: 0..MaxGrants, until: Nat]]
      BY <2>1, <2>2 DEF TypeOK
    <2>6. issued' \in 0..MaxGrants
      BY <2>1, <2>2, GrantsAssumption
    <2>7. live' \subseteq Grants
      <3>1. live \subseteq Grants
        BY DEF TypeOK
      <3>2. {r} \ {0} \subseteq Grants
        BY <2>2
      <3> QED
        BY <2>1, <3>1, <3>2
    <2>8. UNCHANGED <<now, store, managerVars, reply, console, spent, lost>>
      BY <1>2 DEF ApproveLogin
    <2> QED
      BY <2>4, <2>5, <2>6, <2>7, <2>8
      DEF TypeOK, RepliesCarryTokens, managerVars
  <1>3. CASE CompleteLogin
    <2>1. FromTokens(login.tokens, now) \in Sessions
      <3>1. login.tokens \in Bundles
        BY <1>3 DEF CompleteLogin, LoginCarriesTokens
      <3> QED
        BY <3>1, BundlesMakeSessions, NullRecords DEF TypeOK
    <2> QED
      BY <1>3, <2>1, NullRecords DEF CompleteLogin, TypeOK, RepliesCarryTokens,
         LoginCarriesTokens, managerVars, providerVars
  <1>4. CASE LoseLogin
    BY <1>4, NullRecords DEF LoseLogin, TypeOK, RepliesCarryTokens,
       LoginCarriesTokens, managerVars, providerVars
  <1>5. CASE SignOut
    BY <1>5, NullRecords DEF SignOut, TypeOK, RepliesCarryTokens,
       LoginCarriesTokens, managerVars, providerVars
  <1> QED
    BY <1>1, <1>2, <1>3, <1>4, <1>5

LEMMA TypeStep == TypeInv /\ [Next]_vars => TypeInv'
  <1> SUFFICES ASSUME TypeInv, [Next]_vars PROVE TypeInv'
    OBVIOUS
  <1> USE DEF TypeInv
  <1>1. ASSUME NEW c \in Callers, Call(c) PROVE TypeInv'
    BY <1>1 DEF Call, TypeOK, RepliesCarryTokens, LoginCarriesTokens,
       providerVars, Results
  <1>2. ASSUME NEW c \in Callers, Abort(c) PROVE TypeInv'
    <2>1. TypeOK'
      BY <1>2, NullRecords DEF Abort, TypeOK, providerVars, Results
    <2> QED
      BY <1>2, <2>1 DEF Abort, TypeOK, RepliesCarryTokens, LoginCarriesTokens,
         NoReply
  <1>3. ASSUME NEW c \in Callers,
               Load(c) \/ Receive(c) \/ Save(c) \/ Clear(c) \/ Provider(c)
        PROVE  TypeInv'
    BY <1>3, LoadTypes, ReceiveTypes, EndTypes, ProviderTypes
  <1>4. CASE Revoke \/ ApproveLogin \/ CompleteLogin \/ LoseLogin \/ SignOut
    BY <1>4, UserTypes
  <1>5. CASE Restart
    <2>1. TypeOK'
      BY <1>5, NullRecords DEF Restart, TypeOK, providerVars, Results
    <2> QED
      BY <1>5, <2>1 DEF Restart, RepliesCarryTokens, LoginCarriesTokens, NoReply
  <1>6. CASE Tick
    BY <1>6 DEF Tick, TypeOK, RepliesCarryTokens, LoginCarriesTokens,
       managerVars, providerVars
  <1>7. CASE UNCHANGED vars
    BY <1>7 DEF vars, TypeOK, RepliesCarryTokens, LoginCarriesTokens,
       managerVars, providerVars
  <1> QED
    BY <1>1, <1>2, <1>3, <1>4, <1>5, <1>6, <1>7 DEF Next

(* Every variable of the manager and of the provider keeps its type.       *)
THEOREM TypeCorrect == Spec => []TypeOK
  <1>1. TypeInv => TypeOK
    BY DEF TypeInv
  <1> QED
    BY <1>1, TypeInit, TypeStep, PTL DEF Spec

------------------------------------------------------------------------------
(* The refresh lock. A call that is past the lock is the one that holds it,*)
(* and only a call that refreshes has a reply coming.                      *)
LockInv ==
    \A c \in Callers :
        /\ pc[c] \in Working <=> lock = c
        /\ pc[c] # "refreshing" => reply[c] = NoReply

LEMMA LockInit == Init => LockInv
  BY CallersAssumption DEF Init, LockInv

LEMMA LockStep == TypeInv /\ LockInv /\ [Next]_vars => LockInv'
  <1> SUFFICES ASSUME TypeInv, LockInv, [Next]_vars PROVE LockInv'
    OBVIOUS
  <1> USE CallersAssumption DEF TypeInv, LockInv
  <1>t. /\ pc \in [Callers -> {"idle", "queued"} \cup Working]
        /\ reply \in [Callers -> Replies]
    BY DEF TypeOK
  <1>1. ASSUME NEW c \in Callers, NEW r, Return(c, r),
               lock \in {c, NoCaller}
        PROVE  LockInv'
    BY <1>t, <1>1 DEF Return
  <1>2. ASSUME NEW c \in Callers, Call(c) PROVE LockInv'
    BY <1>t, <1>2 DEF Call
  <1>3. ASSUME NEW c \in Callers, Load(c) PROVE LockInv'
    <2>1. ASSUME NEW stage \in Working, Locks(c), KeepLock(c, stage)
          PROVE  LockInv'
      BY <1>t, <2>1 DEF Locks, KeepLock
    <2>2. CASE LoadFails(c) \/ FindNoSession(c) \/ UseStored(c)
      BY <1>1, <2>2 DEF LoadFails, FindNoSession, UseStored, Locks
    <2>3. CASE FindDead(c) \/ StartRefresh(c)
      BY <2>1, <2>3 DEF FindDead, StartRefresh
    <2> QED
      BY <1>3, <2>2, <2>3 DEF Load
  <1>4. ASSUME NEW c \in Callers, Receive(c) PROVE LockInv'
    <2>1. CASE ReceiveTokens(c) \/ ReceiveRejection(c)
      BY <1>t, <2>1 DEF ReceiveTokens, ReceiveRejection, Awaiting
    <2>2. CASE FallBack(c) \/ ReceiveGarbage(c)
      <3>1. lock = c
        BY <2>2 DEF FallBack, ReceiveGarbage, Awaiting
      <3> QED
        BY <1>1, <2>2, <3>1 DEF FallBack, ReceiveGarbage
    <2> QED
      BY <1>4, <2>1, <2>2 DEF Receive
  <1>5. ASSUME NEW c \in Callers, Save(c) \/ Clear(c) PROVE LockInv'
    <2>1. lock = c
      BY <1>5 DEF Save, Clear
    <2> QED
      BY <1>1, <1>5, <2>1 DEF Save, Clear
  <1>6. ASSUME NEW c \in Callers, Abort(c) PROVE LockInv'
    BY <1>t, <1>6 DEF Abort
  <1>7. ASSUME NEW c \in Callers, Provider(c) PROVE LockInv'
    <2>1. pc[c] = "refreshing" /\ UNCHANGED <<pc, lock>>
      BY <1>7 DEF Provider, Grant, Reject, RequestFails, Waiting, managerVars
    <2>2. \A d \in Callers \ {c} : reply'[d] = reply[d]
      BY <1>t, <1>7 DEF Provider, Grant, Reject, RequestFails, Reply
    <2> QED
      BY <2>1, <2>2
  <1>8. CASE Restart
    BY <1>8 DEF Restart
  <1>9. CASE \/ Revoke \/ ApproveLogin \/ CompleteLogin \/ LoseLogin
             \/ SignOut \/ Tick \/ UNCHANGED vars
    BY <1>9 DEF Revoke, ApproveLogin, CompleteLogin, LoseLogin, SignOut, Tick,
       vars, managerVars
  <1> QED
    BY <1>2, <1>3, <1>4, <1>5, <1>6, <1>7, <1>8, <1>9 DEF Next

LEMMA LockAlways == Spec => [](TypeInv /\ LockInv)
  BY TypeInit, TypeStep, LockInit, LockStep, PTL DEF Spec

(* manager.rs: concurrent calls are serialized, so that at most one refresh*)
(* is in flight, whatever is aborted, restarted or fails on the way.       *)
THEOREM OneRefresh == Spec => []OneRefreshInFlight
  <1>1. LockInv => OneRefreshInFlight
    BY DEF LockInv, OneRefreshInFlight
  <1> QED
    BY <1>1, LockAlways, PTL

------------------------------------------------------------------------------
(* Expiry dates. What the manager believes of a token's expiry is never    *)
(* later than the truth, by more than the time a reply may take: a refresh *)
(* is dated by the clock the caller read before asking, a sign-in by the   *)
(* clock at the arrival of its tokens.                                     *)
Dated(s) ==
    /\ s.access <= issued
    /\ s.access # 0 => s.expires <= ledger[s.access].until + ReplyTimeout

DatedReply(c) ==
    reply[c].kind = "tokens" =>
        /\ reply[c].tokens.access <= issued
        /\ asked[c] + reply[c].tokens.life <= ledger[reply[c].tokens.access].until

DatedLogin ==
    login # NoLogin =>
        /\ login.tokens.access <= issued
        /\ now <= login.at + ReplyTimeout
        /\ login.at + login.tokens.life <= ledger[login.tokens.access].until

DatesInv ==
    /\ Dated(store)
    /\ \A c \in Callers :
         /\ Dated(held[c])
         /\ DatedReply(c)
         /\ asked[c] <= now
         /\ pc[c] = "queued" => result[c] = Failure
    /\ DatedLogin

(* The numbers that TypeOK speaks about, one caller at a time.             *)
LEMMA Typing ==
    ASSUME TypeOK
    PROVE  /\ now \in Nat /\ issued \in Nat /\ issued \in 0..MaxGrants
           /\ store \in Sessions
           /\ \A g \in Grants : ledger[g].until \in Nat
           /\ \A c \in Callers :
                held[c] \in Sessions /\ asked[c] \in Nat /\ reply[c] \in Replies
           /\ \A s \in Sessions :
                s.access \in 0..MaxGrants /\ s.refresh \in 0..MaxGrants
                /\ s.expires \in Nat
  BY GrantsAssumption DEF TypeOK, Sessions

(* Issuing a grant leaves the dates of the earlier ones alone.             *)
LEMMA DatedKept ==
    ASSUME TypeOK, NEW s \in Sessions, Dated(s), issued < MaxGrants,
           issued' = issued + 1,
           NEW e \in [login: 0..MaxGrants, until: Nat],
           ledger' = [ledger EXCEPT ![issued + 1] = e]
    PROVE  s.access <= issued'
           /\ (s.access # 0 => s.expires <= ledger'[s.access].until + ReplyTimeout)
  <1>1. s.access \in 0..MaxGrants /\ issued \in 0..MaxGrants /\ s.access <= issued
    BY DEF TypeOK, Sessions, Dated
  <1>2. s.access # 0 => ledger'[s.access] = ledger[s.access]
    BY <1>1, GrantsAssumption DEF TypeOK
  <1> QED
    BY <1>1, <1>2, GrantsAssumption DEF Dated

LEMMA DatesInit == Init => DatesInv
  <1> SUFFICES ASSUME Init PROVE DatesInv
    OBVIOUS
  <1>1. Dated(NoSession)
    BY GrantsAssumption DEF Dated, NoSession, Init
  <1>2. Dated(store)
    BY <1>1, GrantsAssumption, TimesAssumption DEF Init, Dated
  <1> QED
    BY <1>1, <1>2 DEF Init, DatesInv, DatedReply, DatedLogin, NoReply

(* A session made of the bundle of a grant is dated by it.                 *)
LEMMA DatedByBundle ==
    ASSUME TypeOK, NEW t \in Bundles, NEW at \in Nat, t.access <= issued,
           at + t.life <= ledger[t.access].until + ReplyTimeout
    PROVE  /\ Dated(FromTokens(t, at))
           /\ \A old \in Sessions : Dated(Refreshed(t, old, at))
  <1>1. /\ t.access \in Grants /\ t.life \in Nat
        /\ ledger[t.access].until \in Nat
    BY Typing DEF Bundles
  <1>2. FromTokens(t, at).access = t.access
        /\ FromTokens(t, at).expires <= ledger[t.access].until + ReplyTimeout
    BY <1>1, TimesAssumption DEF FromTokens
  <1> QED
    BY <1>2, BundlesMakeSessions DEF Dated

LEMMA DatesReturn ==
    ASSUME TypeInv, DatesInv, NEW c \in Callers, NEW r \in Results, Return(c, r),
           Dated(store)'
    PROVE  DatesInv'
  <1> USE DEF TypeInv, Return, providerVars
  <1>1. /\ held' = [held EXCEPT ![c] = NoSession]
        /\ reply' = [reply EXCEPT ![c] = NoReply]
        /\ pc' = [pc EXCEPT ![c] = "idle"]
        /\ asked' = [asked EXCEPT ![c] = 0]
        /\ result' = [result EXCEPT ![c] = r]
        /\ UNCHANGED <<now, issued, ledger, login>>
    OBVIOUS
  <1>2. Dated(NoSession)'
    BY <1>1, Typing DEF Dated, NoSession
  <1>3. ASSUME NEW d \in Callers
        PROVE  /\ Dated(held[d])'
               /\ DatedReply(d)'
               /\ asked'[d] <= now'
               /\ pc'[d] = "queued" => result'[d] = Failure
    <2>1. CASE d = c
      BY <1>1, <1>2, <2>1, Typing DEF TypeOK, DatedReply, NoReply, Dated
    <2>2. CASE d # c
      BY <1>1, <2>2 DEF TypeOK, DatesInv, Dated, DatedReply
    <2> QED
      BY <2>1, <2>2
  <1>4. DatedLogin'
    BY <1>1 DEF DatesInv, DatedLogin
  <1> QED
    BY <1>3, <1>4 DEF DatesInv

(* The steps that issue no grant and end no call: every caller keeps its   *)
(* dates, or takes the store's or those of its reply.                      *)
LEMMA DatesCall ==
    ASSUME TypeInv, LockInv, DatesInv, NEW c \in Callers,
           Call(c) \/ FindDead(c) \/ StartRefresh(c)
           \/ ReceiveTokens(c) \/ ReceiveRejection(c)
    PROVE  DatesInv'
  <1> USE DEF TypeInv
  <1>1. CASE Call(c)
    <2>1. /\ asked' = [asked EXCEPT ![c] = now]
          /\ pc' = [pc EXCEPT ![c] = "queued"]
          /\ result' = [result EXCEPT ![c] = Failure]
          /\ UNCHANGED <<now, store, held, reply, login, issued, ledger>>
      BY <1>1 DEF Call, providerVars
    <2>2. Dated(store)' /\ DatedLogin'
      BY <2>1 DEF DatesInv, Dated, DatedLogin
    <2>3. reply[c].kind = "none"
      BY <1>1 DEF Call, LockInv, NoReply
    <2>4. ASSUME NEW d \in Callers
          PROVE  /\ Dated(held[d])'
                 /\ DatedReply(d)'
                 /\ asked'[d] <= now'
                 /\ pc'[d] = "queued" => result'[d] = Failure
      <3>1. CASE d = c
        BY <2>1, <2>3, <3>1, Typing DEF TypeOK, DatesInv, Dated, DatedReply
      <3>2. CASE d # c
        BY <2>1, <3>2 DEF TypeOK, DatesInv, Dated, DatedReply
      <3> QED
        BY <3>1, <3>2
    <2> QED
      BY <2>2, <2>4 DEF DatesInv
  <1>2. CASE FindDead(c) \/ StartRefresh(c)
    <2>1. PICK stage \in Working : KeepLock(c, stage)
      BY <1>2 DEF FindDead, StartRefresh
    <2>2. /\ held' = [held EXCEPT ![c] = store]
          /\ pc' = [pc EXCEPT ![c] = stage]
          /\ stage # "queued"
          /\ UNCHANGED <<now, store, asked, reply, result, login, issued, ledger>>
      BY <2>1 DEF KeepLock, providerVars
    <2>3. Dated(store)' /\ DatedLogin'
      BY <2>2 DEF DatesInv, Dated, DatedLogin
    <2>4. ASSUME NEW d \in Callers
          PROVE  /\ Dated(held[d])'
                 /\ DatedReply(d)'
                 /\ asked'[d] <= now'
                 /\ pc'[d] = "queued" => result'[d] = Failure
      BY <2>2, <2>3 DEF TypeOK, DatesInv, Dated, DatedReply
    <2> QED
      BY <2>3, <2>4 DEF DatesInv
  <1>3. CASE ReceiveTokens(c)
    <2> DEFINE s == Refreshed(reply[c].tokens, held[c], asked[c])
    <2>1. reply[c].tokens \in Bundles /\ reply[c].kind = "tokens"
      BY <1>3 DEF ReceiveTokens, RepliesCarryTokens
    <2>2. Dated(s)
      <3>1. /\ reply[c].tokens.access <= issued
            /\ asked[c] + reply[c].tokens.life
                 <= ledger[reply[c].tokens.access].until
        BY <2>1 DEF DatesInv, DatedReply
      <3>2. reply[c].tokens.life \in Nat
            /\ ledger[reply[c].tokens.access].until \in Nat
        BY <2>1, Typing DEF Bundles
      <3> QED
        BY <2>1, <3>1, <3>2, DatedByBundle, Typing, TimesAssumption
    <2> HIDE DEF s
    <2>3. /\ held' = [held EXCEPT ![c] = s]
          /\ reply' = [reply EXCEPT ![c] = NoReply]
          /\ pc' = [pc EXCEPT ![c] = "saving"]
          /\ UNCHANGED <<now, store, asked, result, login, issued, ledger>>
      BY <1>3 DEF ReceiveTokens, providerVars, s
    <2> QED
      BY <2>2, <2>3 DEF TypeOK, DatesInv, Dated, DatedReply, DatedLogin, NoReply
  <1>4. CASE ReceiveRejection(c)
    BY <1>4 DEF ReceiveRejection, providerVars, TypeOK, DatesInv, Dated,
       DatedReply, DatedLogin, NoReply
  <1> QED
    BY <1>1, <1>2, <1>3, <1>4

LEMMA DatesProvider ==
    ASSUME TypeInv, DatesInv, NEW c \in Callers, Provider(c)
    PROVE  DatesInv'
  <1> USE DEF TypeInv
  <1>1. CASE Grant(c)
    <2> DEFINE g == issued + 1
    <2>1. PICK life \in Lifetimes, rotates \in BOOLEAN :
            /\ issued' = g
            /\ ledger' = [ledger EXCEPT ![g] =
                            [login |-> ledger[held[c].refresh].login,
                             until |-> now + life]]
            /\ \/ Reply(c, "tokens", [access |-> g, life |-> life,
                                      refresh |-> IF rotates THEN g ELSE 0])
               \/ \E kind \in {"transient", "malformed"} : Reply(c, kind, NoBundle)
      BY <1>1 DEF Grant
    <2>2. g \in Grants /\ held[c].refresh \in Grants /\ life \in Nat /\ now \in Nat
          /\ issued < MaxGrants
      BY <1>1, NextGrant, TimesAssumption DEF Grant, TypeOK
    <2>3. [login |-> ledger[held[c].refresh].login, until |-> now + life]
             \in [login: 0..MaxGrants, until: Nat]
      BY <2>2 DEF TypeOK
    <2>4. ASSUME NEW s \in Sessions, Dated(s)
          PROVE  /\ s.access <= issued'
                 /\ s.access # 0 => s.expires <= ledger'[s.access].until + ReplyTimeout
      BY <2>1, <2>2, <2>3, <2>4, DatedKept
    <2>5. UNCHANGED <<now, store, pc, asked, held, result, login>>
      BY <1>1 DEF Grant, managerVars
    <2>6. ledger'[g].until = now + life
      BY <2>1, <2>2 DEF TypeOK
    <2>7. ASSUME NEW d \in Callers PROVE DatedReply(d)'
      <3>1. CASE d = c
        <4>1. CASE Reply(c, "tokens", [access |-> g, life |-> life,
                                       refresh |-> IF rotates THEN g ELSE 0])
          <5>1. reply'[d].tokens.access = g /\ reply'[d].tokens.life = life
            BY <3>1, <4>1 DEF Reply, TypeOK
          <5>2. asked'[d] <= now /\ asked'[d] \in Nat
            BY <2>5, Typing DEF DatesInv
          <5> QED
            BY <2>1, <2>2, <2>6, <5>1, <5>2 DEF DatedReply
        <4>2. ASSUME NEW kind \in {"transient", "malformed"},
                     Reply(c, kind, NoBundle)
              PROVE  DatedReply(d)'
          BY <3>1, <4>2 DEF Reply, TypeOK, DatedReply
        <4> QED
          BY <2>1, <4>1, <4>2
      <3>2. CASE d # c
        <4>1. reply'[d] = reply[d] /\ asked'[d] = asked[d]
          BY <2>1, <2>5, <3>2 DEF Reply, TypeOK
        <4>2. reply[d].kind = "tokens" => reply[d].tokens.access \in 1..issued
          BY Typing DEF DatesInv, DatedReply, RepliesCarryTokens, Bundles
        <4>3. reply[d].kind = "tokens" =>
                ledger'[reply[d].tokens.access] = ledger[reply[d].tokens.access]
          BY <2>1, <2>2, <4>2, Typing DEF TypeOK
        <4> QED
          BY <2>1, <4>1, <4>2, <4>3, Typing DEF DatesInv, DatedReply
      <3> QED
        BY <3>1, <3>2
    <2>8. DatedLogin'
      <3>1. login # NoLogin =>
              login.tokens.access \in 1..issued
        BY Typing DEF DatesInv, DatedLogin, LoginCarriesTokens, Bundles
      <3>2. login # NoLogin =>
              ledger'[login.tokens.access] = ledger[login.tokens.access]
        BY <2>1, <2>2, <3>1, Typing DEF TypeOK
      <3> QED
        BY <2>1, <2>5, <3>1, <3>2, Typing DEF DatesInv, DatedLogin
    <2> QED
      BY <2>4, <2>5, <2>7, <2>8, Typing DEF DatesInv, Dated
  <1>2. CASE Reject(c) \/ RequestFails(c)
    <2>1. PICK kind \in {"rejected", "transient"} : Reply(c, kind, NoBundle)
      BY <1>2 DEF Reject, RequestFails
    <2>2. UNCHANGED <<now, store, managerVars, login, issued, ledger>>
      BY <1>2 DEF Reject, RequestFails, providerVars
    <2> QED
      BY <2>1, <2>2 DEF Reply, TypeOK, DatesInv, Dated, DatedReply, DatedLogin,
         managerVars
  <1> QED
    BY <1>1, <1>2 DEF Provider

(* Every way a call ends leaves a store that is dated: its own, the empty  *)
(* one, or the session the call held.                                      *)
LEMMA DatesEnd ==
    ASSUME TypeInv, DatesInv, NEW c \in Callers,
           \/ LoadFails(c) \/ FindNoSession(c) \/ UseStored(c)
           \/ FallBack(c) \/ ReceiveGarbage(c) \/ Save(c) \/ Clear(c)
    PROVE  DatesInv'
  <1>1. \E r \in Results : Return(c, r)
    <2>1. /\ store \in Sessions /\ held[c] \in Sessions
      BY Typing DEF TypeInv
    <2>2. /\ store.access \in Results /\ held[c].access \in Results
          /\ Failure \in Results /\ SignedOut \in Results
      BY <2>1, GrantsAssumption DEF Sessions, Results
    <2> QED
      BY <2>2 DEF LoadFails, FindNoSession, UseStored, FallBack, ReceiveGarbage,
         Save, Clear
  <1>2. UNCHANGED <<issued, ledger>>
    BY <1>1 DEF Return, providerVars
  <1>3. store' \in {store, held[c], NoSession}
    BY DEF LoadFails, FindNoSession, UseStored, FallBack, ReceiveGarbage, Save, Clear
  <1>4. /\ Dated(store) /\ Dated(held[c]) /\ Dated(NoSession)
    BY Typing DEF TypeInv, DatesInv, Dated, NoSession
  <1>5. Dated(store)'
    BY <1>2, <1>3, <1>4 DEF Dated
  <1> QED
    BY <1>1, <1>5, DatesReturn

LEMMA DatesUser ==
    ASSUME TypeInv, DatesInv,
           ApproveLogin \/ CompleteLogin \/ LoseLogin \/ SignOut \/ Revoke
    PROVE  DatesInv'
  <1> USE DEF TypeInv
  <1>1. CASE ApproveLogin
    <2> DEFINE g == issued + 1
    <2>1. PICK life \in Lifetimes, r \in {0, g} :
            /\ issued' = g
            /\ ledger' = [ledger EXCEPT ![g] = [login |-> g, until |-> now + life]]
            /\ login' = [tokens |-> [access |-> g, refresh |-> r, life |-> life],
                         at |-> now]
      BY <1>1 DEF ApproveLogin
    <2>2. g \in Grants /\ life \in Nat /\ now \in Nat /\ issued < MaxGrants
      BY <1>1, NextGrant, TimesAssumption DEF ApproveLogin, TypeOK
    <2>3. [login |-> g, until |-> now + life] \in [login: 0..MaxGrants, until: Nat]
      BY <2>2, GrantsAssumption
    <2>4. ASSUME NEW s \in Sessions, Dated(s)
          PROVE  /\ s.access <= issued'
                 /\ s.access # 0 => s.expires <= ledger'[s.access].until + ReplyTimeout
      BY <2>1, <2>2, <2>3, <2>4, DatedKept
    <2>5. UNCHANGED <<now, store, pc, asked, held, reply, result>>
      BY <1>1 DEF ApproveLogin, managerVars
    <2>6. DatedLogin'
      <3>1. ledger'[g].until = now + life
        BY <2>1, <2>2 DEF TypeOK
      <3>2. /\ login'.at = now /\ login'.tokens.access = g
            /\ login'.tokens.life = life
        BY <2>1
      <3> QED
        BY <2>1, <2>2, <2>5, <3>1, <3>2, TimesAssumption DEF DatedLogin
    <2>7. ASSUME NEW d \in Callers PROVE DatedReply(d)'
      <3>1. reply[d].kind = "tokens" => reply[d].tokens.access \in 1..issued
        BY Typing DEF DatesInv, DatedReply, RepliesCarryTokens, Bundles
      <3>2. reply[d].kind = "tokens" =>
              ledger'[reply[d].tokens.access] = ledger[reply[d].tokens.access]
        BY <2>1, <2>2, <3>1, Typing DEF TypeOK
      <3> QED
        BY <2>1, <2>5, <3>1, <3>2, Typing DEF DatesInv, DatedReply
    <2> QED
      BY <2>4, <2>5, <2>6, <2>7, Typing DEF DatesInv, Dated
  <1>2. CASE CompleteLogin
    <2>1. Dated(FromTokens(login.tokens, now))
      <3>1. /\ login.tokens \in Bundles
            /\ login.tokens.access <= issued
            /\ now <= login.at + ReplyTimeout
            /\ login.at + login.tokens.life <= ledger[login.tokens.access].until
            /\ login.at \in Nat
        BY <1>2 DEF CompleteLogin, LoginCarriesTokens, DatesInv, DatedLogin,
           TypeOK, Logins
      <3>2. login.tokens.life \in Nat /\ ledger[login.tokens.access].until \in Nat
        BY <3>1, Typing DEF Bundles
      <3>3. now + login.tokens.life <= ledger[login.tokens.access].until + ReplyTimeout
        BY <3>1, <3>2, Typing, TimesAssumption
      <3> QED
        BY <3>1, <3>3, DatedByBundle, Typing
    <2>2. /\ store' = FromTokens(login.tokens, now)
          /\ login' = NoLogin
          /\ UNCHANGED <<now, pc, asked, held, reply, result, issued, ledger>>
      BY <1>2 DEF CompleteLogin, managerVars, providerVars
    <2> QED
      BY <2>1, <2>2 DEF DatesInv, Dated, DatedReply, DatedLogin
  <1>3. CASE LoseLogin \/ Revoke
    BY <1>3 DEF LoseLogin, Revoke, DatesInv, Dated, DatedReply, DatedLogin,
       managerVars, providerVars
  <1>4. CASE SignOut
    <2>1. Dated(NoSession)
      BY Typing DEF Dated, NoSession
    <2> QED
      BY <1>4, <2>1 DEF SignOut, DatesInv, Dated, DatedReply, DatedLogin,
         managerVars, providerVars
  <1> QED
    BY <1>1, <1>2, <1>3, <1>4

LEMMA DatesStep ==
    TypeInv /\ LockInv /\ DatesInv /\ [Next]_vars => DatesInv'
  <1> SUFFICES ASSUME TypeInv, LockInv, DatesInv, [Next]_vars PROVE DatesInv'
    OBVIOUS
  <1>0. Dated(NoSession)
    BY Typing DEF TypeInv, Dated, NoSession
  <1>1. ASSUME NEW c \in Callers, Call(c) \/ Load(c) \/ Receive(c) \/ Save(c) \/ Clear(c)
        PROVE  DatesInv'
    BY <1>1, DatesCall, DatesEnd DEF Load, Receive
  <1>2. ASSUME NEW c \in Callers, Provider(c) PROVE DatesInv'
    BY <1>2, DatesProvider
  <1>3. ASSUME NEW c \in Callers, Abort(c) PROVE DatesInv'
    <2>1. /\ held' = [held EXCEPT ![c] = NoSession]
          /\ reply' = [reply EXCEPT ![c] = NoReply]
          /\ pc' = [pc EXCEPT ![c] = "idle"]
          /\ asked' = [asked EXCEPT ![c] = 0]
          /\ result' = [result EXCEPT ![c] = Failure]
          /\ UNCHANGED <<now, store, issued, ledger, login>>
      BY <1>3 DEF Abort, providerVars
    <2>2. Dated(store)' /\ DatedLogin' /\ Dated(NoSession)'
      BY <1>0, <2>1 DEF DatesInv, Dated, DatedLogin
    <2>3. ASSUME NEW d \in Callers
          PROVE  /\ Dated(held[d])'
                 /\ DatedReply(d)'
                 /\ asked'[d] <= now'
                 /\ pc'[d] = "queued" => result'[d] = Failure
      <3>1. CASE d = c
        BY <2>1, <2>2, <3>1, Typing DEF TypeInv, TypeOK, DatedReply, NoReply, Dated
      <3>2. CASE d # c
        BY <2>1, <3>2 DEF TypeInv, TypeOK, DatesInv, Dated, DatedReply
      <3> QED
        BY <3>1, <3>2
    <2> QED
      BY <2>2, <2>3 DEF DatesInv
  <1>4. CASE Restart
    <2>1. /\ held' = [c \in Callers |-> NoSession]
          /\ reply' = [c \in Callers |-> NoReply]
          /\ pc' = [c \in Callers |-> "idle"]
          /\ asked' = [c \in Callers |-> 0]
          /\ login' = NoLogin
          /\ UNCHANGED <<now, store, issued, ledger>>
      BY <1>4 DEF Restart, providerVars
    <2> QED
      BY <1>0, <2>1, Typing DEF TypeInv, DatesInv, Dated, DatedReply, DatedLogin,
         NoReply
  <1>5. CASE Tick
    <2>1. /\ now' = now + 1
          /\ UNCHANGED <<store, pc, asked, held, reply, result, login, issued, ledger>>
          /\ login # NoLogin => now < login.at + ReplyTimeout
      BY <1>5 DEF Tick, managerVars, providerVars
    <2>2. DatedLogin'
      <3>1. login.at \in Nat
        BY DEF TypeInv, TypeOK, Logins
      <3> QED
        BY <2>1, <3>1, Typing, TimesAssumption DEF TypeInv, DatesInv, DatedLogin
    <2> QED
      BY <2>1, <2>2, Typing DEF TypeInv, DatesInv, Dated, DatedReply
  <1>6. CASE ApproveLogin \/ CompleteLogin \/ LoseLogin \/ SignOut \/ Revoke
    BY <1>6, DatesUser
  <1>7. CASE UNCHANGED vars
    BY <1>7 DEF vars, DatesInv, Dated, DatedReply, DatedLogin, managerVars,
       providerVars
  <1> QED
    BY <1>1, <1>2, <1>3, <1>4, <1>5, <1>6, <1>7 DEF Next

(* manager.rs refreshes a margin ahead of the expiry it believes in; as    *)
(* long as that margin is no shorter than the longest reply, a token handed*)
(* out unrefreshed had not expired when it was asked for.                  *)
THEOREM FreshTokens ==
    ASSUME ReplyTimeout <= Margin
    PROVE  Spec => FreshTokenAccepted
  <1>1. TypeInv /\ LockInv /\ DatesInv /\ [Next]_vars => [AnswersFresh]_vars
    <2> SUFFICES ASSUME TypeInv, LockInv, DatesInv, Next,
                        NEW c \in Callers,
                        pc[c] = "queued",
                        store.refresh # 0,
                        result'[c] \in Grants
                 PROVE  asked[c] < ledger[result'[c]].until
      BY DEF AnswersFresh
    <2>1. result[c] \notin Grants
      BY GrantsAssumption DEF DatesInv
    <2>2. result' # result /\ result'[c] # result[c]
      BY <2>1
    <2>3. \A d \in Callers : ~(Provider(d) \/ ReceiveTokens(d) \/ ReceiveRejection(d))
          /\ ~FindDead(d) /\ ~StartRefresh(d)
      BY <2>2 DEF Provider, Grant, Reject, RequestFails, managerVars,
         ReceiveTokens, ReceiveRejection, FindDead, StartRefresh, KeepLock
    <2>4. ~(Revoke \/ ApproveLogin \/ CompleteLogin \/ LoseLogin \/ SignOut
            \/ Tick)
      BY <2>2 DEF Revoke, ApproveLogin, CompleteLogin, LoseLogin, SignOut, Tick,
         managerVars
    <2>5. ~Restart
      BY GrantsAssumption DEF Restart
    <2>6. \A d \in Callers : ~Abort(d) /\ ~Call(d)
      BY <2>2, GrantsAssumption DEF Abort, Call, TypeInv, TypeOK
    <2>7. PICK d \in Callers :
            \/ LoadFails(d) \/ FindNoSession(d) \/ UseStored(d) \/ FallBack(d)
            \/ ReceiveGarbage(d) \/ Save(d) \/ Clear(d)
      BY <2>3, <2>4, <2>5, <2>6 DEF Next, Load, Receive
    <2>8. ASSUME NEW r, Return(d, r) PROVE d = c /\ result'[c] = r
      BY <2>2, <2>8 DEF Return, TypeInv, TypeOK
    <2>9. d = c
      BY <2>7, <2>8 DEF LoadFails, FindNoSession, UseStored, FallBack,
         ReceiveGarbage, Save, Clear
    <2>10. UseStored(c) /\ result'[c] = store.access
      BY <2>7, <2>8, <2>9, GrantsAssumption DEF LoadFails, FindNoSession,
         UseStored, FallBack, ReceiveGarbage, Save, Clear, Awaiting
    <2>11. asked[c] + Margin < store.expires
      BY <2>10, Typing, TimesAssumption
      DEF UseStored, IsExpiringSoon, TypeInv
    <2>12. store.expires <= ledger[store.access].until + ReplyTimeout
      BY <2>10, GrantsAssumption DEF DatesInv, Dated
    <2> QED
      BY <2>10, <2>11, <2>12, Typing, TimesAssumption DEF TypeInv
  <1>2. Spec => [](TypeInv /\ LockInv)
    BY LockAlways
  <1>3. Spec => []DatesInv
    BY <1>2, DatesInit, DatesStep, PTL DEF Spec
  <1> QED
    BY <1>1, <1>2, <1>3, PTL DEF Spec, FreshTokenAccepted

------------------------------------------------------------------------------
(* Rotated refresh tokens. While no grant has been lost, a spent token is  *)
(* nowhere but in the store, and there only while its replacement is on    *)
(* the way; the tokens of a pending sign-in are nobody else's.             *)
Numbered ==
    /\ live \subseteq 1..issued
    /\ spent \subseteq 1..issued
    /\ store.refresh <= issued
    /\ login.tokens.refresh <= issued
    /\ \A c \in Callers :
         held[c].refresh <= issued /\ reply[c].tokens.refresh <= issued

Unshared ==
    login.tokens.refresh # 0 =>
        /\ store.refresh # login.tokens.refresh
        /\ \A c \in Callers :
             /\ held[c].refresh # login.tokens.refresh
             /\ reply[c].tokens.refresh # login.tokens.refresh

EmptyReplies ==
    \A c \in Callers : reply[c].kind # "tokens" => reply[c].tokens = NoBundle

(* A replacement is on its way to the store.                               *)
Bringing(c) ==
    \/ pc[c] = "refreshing" /\ reply[c].kind = "tokens"
    \/ pc[c] = "saving"

(* The refresh token call c is about to send or to store.                  *)
Carried(c) ==
    IF reply[c].tokens.refresh # 0 THEN reply[c].tokens.refresh
                                   ELSE held[c].refresh

Unspent ==
    ~lost =>
        /\ login.tokens.refresh \notin spent
        /\ \A c \in Callers : Waiting(c) \/ Bringing(c) => Carried(c) \notin spent
        /\ store.refresh \in spent => \E c \in Callers : Bringing(c)

SpentInv == Numbered /\ Unshared /\ EmptyReplies /\ Unspent

LEMMA NoTokens ==
    /\ NoSession.refresh = 0
    /\ NoReply.kind = "none" /\ NoReply.tokens = NoBundle
    /\ NoBundle.refresh = 0
    /\ NoLogin.tokens = NoBundle
  BY DEF NoSession, NoReply, NoBundle, NoLogin

(* Refresh-token numbers, one caller at a time.                            *)
LEMMA RefreshTyping ==
    ASSUME TypeOK
    PROVE  /\ issued \in 0..MaxGrants /\ MaxGrants \in Nat
           /\ store.refresh \in 0..MaxGrants
           /\ login.tokens.refresh \in 0..MaxGrants
           /\ \A c \in Callers :
                /\ held[c].refresh \in 0..MaxGrants
                /\ reply[c].tokens.refresh \in 0..MaxGrants
  <1>1. \A t \in Bundles \cup {NoBundle} : t.refresh \in 0..MaxGrants
    BY GrantsAssumption DEF Bundles, NoBundle
  <1>2. /\ login.tokens \in Bundles \cup {NoBundle}
        /\ \A c \in Callers : reply[c].tokens \in Bundles \cup {NoBundle}
    BY DEF TypeOK, Logins, Replies
  <1>3. /\ store.refresh \in 0..MaxGrants
        /\ \A c \in Callers : held[c].refresh \in 0..MaxGrants
    BY DEF TypeOK, Sessions
  <1> QED
    BY <1>1, <1>2, <1>3, GrantsAssumption DEF TypeOK

LEMMA SpentInit == Init => SpentInv
  <1> SUFFICES ASSUME Init PROVE SpentInv
    OBVIOUS
  <1>1. /\ login.tokens.refresh = 0
        /\ \A c \in Callers :
             held[c].refresh = 0 /\ reply[c].tokens = NoBundle
             /\ reply[c].tokens.refresh = 0
    BY NoTokens DEF Init
  <1>2. /\ spent = {} /\ issued \in Nat /\ live \subseteq 1..issued
        /\ store.refresh <= issued
    BY NoTokens DEF Init
  <1> QED
    BY <1>1, <1>2 DEF SpentInv, Numbered, Unshared, EmptyReplies, Unspent

(* The end of a call. Its own token traffic is over; the store must not be *)
(* left with a spent token.                                                *)
LEMMA SpentReturn ==
    ASSUME TypeInv, SpentInv, NEW c \in Callers, NEW r, Return(c, r),
           store'.refresh <= issued,
           login.tokens.refresh # 0 => store'.refresh # login.tokens.refresh,
           lost' = FALSE => ~lost /\ store'.refresh \notin spent,
           lost' \in BOOLEAN
    PROVE  SpentInv'
  <1>1. /\ held' = [held EXCEPT ![c] = NoSession]
        /\ reply' = [reply EXCEPT ![c] = NoReply]
        /\ pc' = [pc EXCEPT ![c] = "idle"]
        /\ UNCHANGED <<login, issued, live, spent>>
    BY DEF Return, providerVars
  <1>2. /\ held'[c] = NoSession /\ reply'[c] = NoReply /\ pc'[c] = "idle"
        /\ \A d \in Callers \ {c} :
             held'[d] = held[d] /\ reply'[d] = reply[d] /\ pc'[d] = pc[d]
    BY <1>1 DEF TypeInv, TypeOK
  <1>3. Numbered'
    BY <1>1, <1>2, NoTokens, RefreshTyping DEF TypeInv, SpentInv, Numbered
  <1>4. Unshared'
    BY <1>1, <1>2, NoTokens DEF SpentInv, Unshared
  <1>5. EmptyReplies'
    BY <1>2, NoTokens DEF SpentInv, EmptyReplies
  <1>6. Unspent'
    BY <1>1, <1>2 DEF SpentInv, Unspent, Waiting, Bringing, Carried
  <1> QED
    BY <1>3, <1>4, <1>5, <1>6 DEF SpentInv

(* While nobody holds the lock no replacement is on its way, so the store's*)
(* token is the current one.                                               *)
LEMMA StoreCurrent ==
    ASSUME LockInv, SpentInv, lock = NoCaller, ~lost
    PROVE  store.refresh \notin spent
  BY CallersAssumption DEF LockInv, SpentInv, Unspent, Bringing

LEMMA SpentLoad ==
    ASSUME TypeInv, LockInv, SpentInv, NEW c \in Callers, Load(c)
    PROVE  SpentInv'
  <1>1. lock = NoCaller /\ pc[c] = "queued"
    BY DEF Load, LoadFails, FindNoSession, UseStored, FindDead, StartRefresh, Locks
  <1>2. ~lost => store.refresh \notin spent
    BY <1>1, StoreCurrent
  <1>3. CASE LoadFails(c) \/ FindNoSession(c) \/ UseStored(c)
    <2>1. /\ UNCHANGED <<store, lost>>
          /\ \E r : Return(c, r)
      BY <1>3 DEF LoadFails, FindNoSession, UseStored
    <2>2. store.refresh <= issued /\ lost \in BOOLEAN
      BY DEF SpentInv, Numbered, TypeInv, TypeOK
    <2>3. login.tokens.refresh # 0 => store.refresh # login.tokens.refresh
      BY DEF SpentInv, Unshared
    <2> QED
      BY <1>2, <2>1, <2>2, <2>3, SpentReturn
  <1>4. CASE FindDead(c) \/ StartRefresh(c)
    <2>1. PICK stage \in Working : KeepLock(c, stage) /\ stage # "saving"
      BY <1>4 DEF FindDead, StartRefresh
    <2>2. /\ held' = [held EXCEPT ![c] = store]
          /\ pc' = [pc EXCEPT ![c] = stage]
          /\ UNCHANGED <<store, reply, login, issued, live, spent, lost>>
      BY <2>1 DEF KeepLock, providerVars
    <2>3. /\ held'[c] = store /\ pc'[c] = stage /\ reply[c] = NoReply
          /\ \A d \in Callers \ {c} : held'[d] = held[d] /\ pc'[d] = pc[d]
      BY <1>1, <2>2 DEF TypeInv, TypeOK, LockInv
    <2>4. Numbered' /\ Unshared' /\ EmptyReplies'
      BY <2>2, <2>3, NoTokens DEF SpentInv, Numbered, Unshared, EmptyReplies
    <2>5. \A d \in Callers : ~Bringing(d)
      BY <1>1, CallersAssumption DEF LockInv, Bringing
    <2>6. Unspent'
      BY <1>2, <2>1, <2>2, <2>3, <2>5, NoTokens
      DEF SpentInv, Unspent, Waiting, Bringing, Carried
    <2> QED
      BY <2>4, <2>6 DEF SpentInv
  <1> QED
    BY <1>3, <1>4 DEF Load

LEMMA SpentReceive ==
    ASSUME TypeInv, LockInv, SpentInv, NEW c \in Callers, Receive(c)
    PROVE  SpentInv'
  <1>1. pc[c] = "refreshing" /\ reply[c].kind # "none"
    BY DEF Receive, ReceiveTokens, ReceiveRejection, FallBack, ReceiveGarbage,
       Awaiting
  <1>2. \A d \in Callers \ {c} : ~Bringing(d) /\ ~Waiting(d)
    BY <1>1 DEF LockInv, Bringing, Waiting
  <1>3. CASE ReceiveTokens(c)
    <2> DEFINE s == Refreshed(reply[c].tokens, held[c], asked[c])
    <2>1. s.refresh = Carried(c)
      <3>1. reply[c].tokens \in Bundles
        BY <1>3 DEF ReceiveTokens, RepliesCarryTokens, TypeInv
      <3>2. held[c] \in Sessions /\ asked[c] \in Nat
        BY Typing DEF TypeInv
      <3>3. s.refresh = IF reply[c].tokens.refresh = 0
                        THEN held[c].refresh ELSE reply[c].tokens.refresh
        BY ONLY <3>1, <3>2, BundlesMakeSessions
      <3> QED
        BY <3>3 DEF Carried
    <2>2. /\ Carried(c) <= issued
          /\ login.tokens.refresh # 0 => Carried(c) # login.tokens.refresh
          /\ ~lost => Carried(c) \notin spent
      BY <1>1, <1>3 DEF ReceiveTokens, SpentInv, Numbered, Unshared, Unspent,
         Bringing, Carried
    <2> HIDE DEF s
    <2>3. /\ held' = [held EXCEPT ![c] = s]
          /\ reply' = [reply EXCEPT ![c] = NoReply]
          /\ pc' = [pc EXCEPT ![c] = "saving"]
          /\ UNCHANGED <<store, login, issued, live, spent, lost>>
      BY <1>3 DEF ReceiveTokens, providerVars, s
    <2>4. /\ held'[c] = s /\ pc'[c] = "saving" /\ reply'[c] = NoReply
          /\ \A d \in Callers \ {c} :
               held'[d] = held[d] /\ pc'[d] = pc[d] /\ reply'[d] = reply[d]
      BY <2>3 DEF TypeInv, TypeOK
    <2>5. Numbered' /\ Unshared' /\ EmptyReplies'
      BY <2>1, <2>2, <2>3, <2>4, NoTokens, RefreshTyping
      DEF TypeInv, SpentInv, Numbered, Unshared, EmptyReplies
    <2>6. Unspent'
      BY <1>2, <2>1, <2>2, <2>3, <2>4, NoTokens
      DEF SpentInv, Unspent, Waiting, Bringing, Carried
    <2> QED
      BY <2>5, <2>6 DEF SpentInv
  <1>4. ASSUME reply[c].kind # "tokens"
        PROVE  ~lost => store.refresh \notin spent
    BY <1>1, <1>2, <1>4 DEF SpentInv, Unspent, Bringing
  <1>5. CASE ReceiveRejection(c)
    <2>1. /\ reply' = [reply EXCEPT ![c] = NoReply]
          /\ pc' = [pc EXCEPT ![c] = "clearing"]
          /\ reply[c].kind = "rejected"
          /\ UNCHANGED <<store, held, login, issued, live, spent, lost>>
      BY <1>5 DEF ReceiveRejection, providerVars
    <2>2. /\ pc'[c] = "clearing" /\ reply'[c] = NoReply
          /\ \A d \in Callers \ {c} : pc'[d] = pc[d] /\ reply'[d] = reply[d]
      BY <2>1 DEF TypeInv, TypeOK
    <2>3. Numbered' /\ Unshared' /\ EmptyReplies'
      BY <2>1, <2>2, NoTokens, RefreshTyping
      DEF TypeInv, SpentInv, Numbered, Unshared, EmptyReplies
    <2>4. Unspent'
      BY <1>2, <1>4, <2>1, <2>2 DEF SpentInv, Unspent, Waiting, Bringing, Carried
    <2> QED
      BY <2>3, <2>4 DEF SpentInv
  <1>6. CASE FallBack(c) \/ ReceiveGarbage(c)
    <2>1. /\ UNCHANGED <<store, lost>>
          /\ \E r : Return(c, r)
          /\ reply[c].kind # "tokens"
      BY <1>6 DEF FallBack, ReceiveGarbage
    <2>2. store.refresh <= issued /\ lost \in BOOLEAN
      BY DEF SpentInv, Numbered, TypeInv, TypeOK
    <2>3. login.tokens.refresh # 0 => store.refresh # login.tokens.refresh
      BY DEF SpentInv, Unshared
    <2> QED
      BY <1>4, <2>1, <2>2, <2>3, SpentReturn
  <1> QED
    BY <1>3, <1>5, <1>6 DEF Receive

LEMMA SpentEnd ==
    ASSUME TypeInv, LockInv, SpentInv, NEW c \in Callers, Save(c) \/ Clear(c)
    PROVE  SpentInv'
  <1>1. /\ held[c].refresh <= issued /\ store.refresh <= issued
        /\ 0 <= issued /\ 0 \notin spent
        /\ lost \in BOOLEAN
    BY RefreshTyping DEF SpentInv, Numbered, TypeInv, TypeOK
  <1>2. login.tokens.refresh # 0 =>
            held[c].refresh # login.tokens.refresh
            /\ store.refresh # login.tokens.refresh
    BY DEF SpentInv, Unshared
  <1>3. CASE Save(c)
    <2>1. reply[c] = NoReply
      BY <1>3 DEF Save, LockInv
    <2>2. ~lost => held[c].refresh \notin spent
      BY <1>3, <2>1, NoTokens DEF Save, SpentInv, Unspent, Bringing, Carried
    <2> QED
      BY <1>1, <1>2, <1>3, <2>2, SpentReturn DEF Save
  <1>4. CASE Clear(c)
    <2>1. \A d \in Callers : ~Bringing(d)
      BY <1>4 DEF Clear, LockInv, Bringing
    <2>2. ~lost => store.refresh \notin spent
      BY <2>1 DEF SpentInv, Unspent
    <2> QED
      BY <1>1, <1>2, <1>4, <2>2, NoTokens, SpentReturn DEF Clear
  <1> QED
    BY <1>3, <1>4

(* Numbers in use stay in use when one more is issued.                     *)
LEMMA NextNumber ==
    ASSUME NEW n \in Nat, NEW S, S \subseteq 1..n, NEW k \in 1..n
    PROVE  /\ S \subseteq 1..(n + 1)
           /\ (S \ {k}) \cup {n + 1} \subseteq 1..(n + 1)
           /\ S \cup {k} \subseteq 1..(n + 1)
  OBVIOUS

LEMMA SpentProvider ==
    ASSUME TypeInv, LockInv, SpentInv, NEW c \in Callers, Provider(c)
    PROVE  SpentInv'
  <1>1. pc[c] = "refreshing" /\ reply[c].kind = "none" /\ Waiting(c)
    BY DEF Provider, Grant, Reject, RequestFails, Waiting
  <1>2. \A d \in Callers \ {c} : pc[d] \notin {"refreshing", "saving"}
    BY <1>1 DEF LockInv
  <1>3. ~lost => store.refresh \notin spent
    BY <1>1, <1>2 DEF SpentInv, Unspent, Bringing
  <1>4. CASE Grant(c)
    <2> DEFINE g == issued + 1
               old == held[c].refresh
    <2>1. PICK life \in Lifetimes, rotates \in BOOLEAN :
            /\ issued' = g
            /\ live' = IF rotates THEN (live \ {old}) \cup {g} ELSE live
            /\ spent' = IF rotates THEN spent \cup {old} ELSE spent
            /\ \/ /\ Reply(c, "tokens", [access |-> g, life |-> life,
                                         refresh |-> IF rotates THEN g ELSE 0])
                  /\ UNCHANGED lost
               \/ /\ \E kind \in {"transient", "malformed"} :
                        Reply(c, kind, NoBundle)
                  /\ lost' = TRUE
      BY <1>4 DEF Grant
    <2>2. /\ UNCHANGED <<store, pc, held, login>>
          /\ old \in live
      BY <1>4 DEF Grant, managerVars
    <2>3. /\ issued \in Nat
          /\ live \subseteq 1..issued /\ spent \subseteq 1..issued
          /\ old \in 1..issued
      BY <2>2, RefreshTyping DEF SpentInv, Numbered, TypeInv
    <2>4. live' \subseteq 1..issued' /\ spent' \subseteq 1..issued'
      <3>1. issued' = issued + 1
        BY <2>1
      <3>2. CASE rotates
        <4>1. live' = (live \ {old}) \cup {issued + 1} /\ spent' = spent \cup {old}
          BY <2>1, <3>2
        <4> QED
          BY <2>3, <3>1, <4>1, NextNumber
      <3>3. CASE ~rotates
        <4>1. live' = live /\ spent' = spent
          BY <2>1, <3>3
        <4> QED
          BY <2>3, <3>1, <4>1, NextNumber
      <3> QED
        BY <3>2, <3>3
    <2>5. \A d \in Callers \ {c} : reply'[d] = reply[d]
      BY <2>1 DEF Reply, TypeInv, TypeOK
    <2>6. /\ login.tokens.refresh <= issued /\ login.tokens.refresh # g
          /\ login.tokens.refresh \in Nat
          /\ login.tokens.refresh # 0 => login.tokens.refresh # old
      BY <2>3, RefreshTyping DEF SpentInv, Numbered, Unshared, TypeInv
    <2>7. reply'[c].tokens.refresh \in {0, g}
          /\ (reply'[c].kind # "tokens" => reply'[c].tokens = NoBundle)
      BY <2>1, NoTokens DEF Reply, TypeInv, TypeOK
    <2>8. Numbered'
      <3>1. \A d \in Callers : reply'[d].tokens.refresh <= issued'
        <4>1. ASSUME NEW d \in Callers \ {c}
              PROVE  reply'[d].tokens.refresh <= issued'
          BY <2>1, <2>3, <2>5, RefreshTyping DEF SpentInv, Numbered, TypeInv
        <4>2. reply'[c].tokens.refresh <= issued'
          BY <2>1, <2>3, <2>7
        <4> QED
          BY <4>1, <4>2
      <3>2. /\ store'.refresh <= issued' /\ login'.tokens.refresh <= issued'
            /\ \A d \in Callers : held'[d].refresh <= issued'
        BY <2>1, <2>2, <2>3, RefreshTyping DEF SpentInv, Numbered, TypeInv
      <3> QED
        BY <2>4, <3>1, <3>2 DEF Numbered
    <2>9. Unshared' /\ EmptyReplies'
      BY <2>2, <2>5, <2>6, <2>7 DEF SpentInv, Unshared, EmptyReplies
    <2>10. ASSUME ~lost'
           PROVE  /\ ~lost /\ reply'[c].kind = "tokens"
                  /\ reply'[c].tokens.refresh = IF rotates THEN g ELSE 0
      <3>1. Reply(c, "tokens", [access |-> g, life |-> life,
                                refresh |-> IF rotates THEN g ELSE 0])
            /\ lost' = lost
        BY <2>1, <2>10
      <3> QED
        BY <2>10, <3>1 DEF Reply, TypeInv, TypeOK
    <2>11. Unspent'
      <3> SUFFICES ASSUME ~lost' PROVE /\ login'.tokens.refresh \notin spent'
                                       /\ Bringing(c)'
                                       /\ Carried(c)' \notin spent'
        BY <1>2, <2>2 DEF Unspent, Bringing, Waiting
      <3>1. /\ ~lost /\ reply'[c].kind = "tokens"
            /\ reply'[c].tokens.refresh = IF rotates THEN g ELSE 0
        BY <2>10
      <3>2. Bringing(c)'
        BY <1>1, <2>2, <3>1 DEF Bringing
      <3>3. login'.tokens.refresh \notin spent'
        BY <2>1, <2>2, <2>3, <2>6, <3>1 DEF SpentInv, Unspent
      <3>4. Carried(c)' \notin spent'
        <4>1. CASE rotates
          <5>1. Carried(c)' = g
            BY <2>3, <3>1, <4>1 DEF Carried
          <5> QED
            BY <2>1, <2>3, <4>1, <5>1
        <4>2. CASE ~rotates
          <5>1. Carried(c)' = held[c].refresh
            BY <2>2, <3>1, <4>2 DEF Carried
          <5>2. Carried(c) = held[c].refresh
            BY <1>1, NoTokens DEF SpentInv, EmptyReplies, Carried
          <5> QED
            BY <1>1, <2>1, <3>1, <4>2, <5>1, <5>2 DEF SpentInv, Unspent
        <4> QED
          BY <4>1, <4>2
      <3> QED
        BY <3>2, <3>3, <3>4
    <2> QED
      BY <2>8, <2>9, <2>11 DEF SpentInv
  <1>5. CASE Reject(c) \/ RequestFails(c)
    <2>1. PICK kind \in {"rejected", "transient"} : Reply(c, kind, NoBundle)
      BY <1>5 DEF Reject, RequestFails
    <2>2. UNCHANGED <<store, pc, held, login, issued, live, spent, lost>>
      BY <1>5 DEF Reject, RequestFails, managerVars, providerVars
    <2>3. /\ reply'[c].kind = kind /\ reply'[c].tokens = NoBundle
          /\ \A d \in Callers \ {c} : reply'[d] = reply[d]
      BY <2>1 DEF Reply, TypeInv, TypeOK
    <2>4. Numbered' /\ Unshared' /\ EmptyReplies'
      BY <2>2, <2>3, NoTokens, RefreshTyping
      DEF TypeInv, SpentInv, Numbered, Unshared, EmptyReplies
    <2>5. Unspent'
      <3>1. \A d \in Callers : ~Waiting(d)' /\ ~Bringing(d)'
        <4>1. ~Waiting(c)' /\ ~Bringing(c)'
          BY <1>1, <2>2, <2>3 DEF Waiting, Bringing
        <4> QED
          BY <1>2, <2>2, <4>1 DEF Waiting, Bringing
      <3>2. ~lost => login.tokens.refresh \notin spent
        BY DEF SpentInv, Unspent
      <3> QED
        BY <1>3, <2>2, <3>1, <3>2 DEF Unspent
    <2> QED
      BY <2>4, <2>5 DEF SpentInv
  <1> QED
    BY <1>4, <1>5 DEF Provider

LEMMA SpentUser ==
    ASSUME TypeInv, SpentInv,
           ApproveLogin \/ CompleteLogin \/ LoseLogin \/ SignOut \/ Revoke
    PROVE  SpentInv'
  <1>0. issued \in Nat /\ 0 \notin spent
    BY RefreshTyping DEF TypeInv, SpentInv, Numbered
  <1>1. CASE ApproveLogin
    <2> DEFINE g == issued + 1
    <2>1. PICK life \in Lifetimes, r \in {0, g} :
            /\ issued' = g
            /\ live' = live \cup ({r} \ {0})
            /\ login' = [tokens |-> [access |-> g, refresh |-> r, life |-> life],
                         at |-> now]
      BY <1>1 DEF ApproveLogin
    <2>2. UNCHANGED <<store, pc, held, reply, spent, lost>>
      BY <1>1 DEF ApproveLogin, managerVars
    <2>3. login'.tokens.refresh \in {0, g}
      BY <2>1
    <2>4. Numbered'
      <3>1. live' \subseteq 1..issued'
        <4>1. live \subseteq 1..issued
          BY DEF SpentInv, Numbered
        <4> QED
          BY <1>0, <2>1, <4>1
      <3>2. spent' \subseteq 1..issued'
        <4>1. spent \subseteq 1..issued
          BY DEF SpentInv, Numbered
        <4> QED
          BY <1>0, <2>1, <2>2, <4>1
      <3>3. /\ store'.refresh <= issued' /\ login'.tokens.refresh <= issued'
            /\ \A c \in Callers :
                 held'[c].refresh <= issued' /\ reply'[c].tokens.refresh <= issued'
        BY <1>0, <2>1, <2>2, <2>3, RefreshTyping DEF TypeInv, SpentInv, Numbered
      <3> QED
        BY <3>1, <3>2, <3>3 DEF Numbered
    <2>5. Unshared'
      BY <1>0, <2>1, <2>2, <2>3, RefreshTyping
      DEF TypeInv, SpentInv, Numbered, Unshared
    <2>6. EmptyReplies'
      BY <2>2 DEF SpentInv, EmptyReplies
    <2>7. Unspent'
      BY <1>0, <2>2, <2>3
      DEF SpentInv, Numbered, Unspent, Waiting, Bringing, Carried
    <2> QED
      BY <2>4, <2>5, <2>6, <2>7 DEF SpentInv
  <1>2. CASE CompleteLogin
    <2>1. store'.refresh = login.tokens.refresh
      BY <1>2 DEF CompleteLogin, FromTokens
    <2>2. /\ login' = NoLogin
          /\ UNCHANGED <<pc, held, reply, issued, live, spent, lost>>
      BY <1>2 DEF CompleteLogin, managerVars, providerVars
    <2>3. Numbered' /\ Unshared' /\ EmptyReplies'
      BY <1>0, <2>1, <2>2, NoTokens DEF SpentInv, Numbered, Unshared, EmptyReplies
    <2>4. Unspent'
      BY <1>0, <2>1, <2>2, NoTokens
      DEF SpentInv, Unspent, Waiting, Bringing, Carried
    <2> QED
      BY <2>3, <2>4 DEF SpentInv
  <1>3. CASE LoseLogin \/ SignOut
    <2>1. /\ UNCHANGED <<pc, held, reply, issued, live, spent, lost>>
          /\ \/ store' = store /\ login' = NoLogin
             \/ store' = NoSession /\ login' = login
      BY <1>3 DEF LoseLogin, SignOut, managerVars, providerVars
    <2>2. Numbered' /\ Unshared' /\ EmptyReplies'
      BY <1>0, <2>1, NoTokens DEF SpentInv, Numbered, Unshared, EmptyReplies
    <2>3. Unspent'
      BY <1>0, <2>1, NoTokens DEF SpentInv, Unspent, Waiting, Bringing, Carried
    <2> QED
      BY <2>2, <2>3 DEF SpentInv
  <1>4. CASE Revoke
    <2>1. /\ UNCHANGED <<store, pc, held, reply, login, issued, spent, lost>>
          /\ live' \subseteq live
      BY <1>4 DEF Revoke, managerVars
    <2> QED
      BY <2>1 DEF SpentInv, Numbered, Unshared, EmptyReplies, Unspent, Waiting,
         Bringing, Carried
  <1> QED
    BY <1>1, <1>2, <1>3, <1>4

LEMMA SpentStep ==
    TypeInv /\ LockInv /\ SpentInv /\ [Next]_vars => SpentInv'
  <1> SUFFICES ASSUME TypeInv, LockInv, SpentInv, [Next]_vars PROVE SpentInv'
    OBVIOUS
  <1>1. ASSUME NEW c \in Callers, Call(c) PROVE SpentInv'
    <2>1. /\ pc' = [pc EXCEPT ![c] = "queued"] /\ pc[c] = "idle"
          /\ UNCHANGED <<store, held, reply, login, issued, live, spent, lost>>
      BY <1>1 DEF Call, providerVars
    <2>2. pc'[c] = "queued" /\ \A d \in Callers \ {c} : pc'[d] = pc[d]
      BY <2>1 DEF TypeInv, TypeOK
    <2> QED
      BY <2>1, <2>2 DEF SpentInv, Numbered, Unshared, EmptyReplies, Unspent,
         Waiting, Bringing, Carried
  <1>2. ASSUME NEW c \in Callers,
               Load(c) \/ Receive(c) \/ Save(c) \/ Clear(c) \/ Provider(c)
        PROVE  SpentInv'
    BY <1>2, SpentLoad, SpentReceive, SpentEnd, SpentProvider
  <1>3. ASSUME NEW c \in Callers, Abort(c) PROVE SpentInv'
    <2>1. /\ held' = [held EXCEPT ![c] = NoSession]
          /\ reply' = [reply EXCEPT ![c] = NoReply]
          /\ pc' = [pc EXCEPT ![c] = "idle"]
          /\ pc[c] # "saving"
          /\ UNCHANGED <<store, login, issued, live, spent>>
          /\ ~lost' => ~lost /\ reply[c].kind # "tokens"
      BY <1>3 DEF Abort, providerVars
    <2>2. /\ held'[c] = NoSession /\ reply'[c] = NoReply /\ pc'[c] = "idle"
          /\ \A d \in Callers \ {c} :
               held'[d] = held[d] /\ reply'[d] = reply[d] /\ pc'[d] = pc[d]
      BY <2>1 DEF TypeInv, TypeOK
    <2>3. Numbered' /\ Unshared' /\ EmptyReplies'
      BY <2>1, <2>2, NoTokens, RefreshTyping
      DEF TypeInv, SpentInv, Numbered, Unshared, EmptyReplies
    <2>4. Unspent'
      <3>1. ~lost' => ~Bringing(c)
        BY <2>1 DEF Bringing
      <3> QED
        BY <2>1, <2>2, <3>1 DEF SpentInv, Unspent, Waiting, Bringing, Carried
    <2> QED
      BY <2>3, <2>4 DEF SpentInv
  <1>4. CASE Restart
    <2>1. /\ held' = [c \in Callers |-> NoSession]
          /\ reply' = [c \in Callers |-> NoReply]
          /\ pc' = [c \in Callers |-> "idle"]
          /\ login' = NoLogin
          /\ UNCHANGED <<store, issued, live, spent>>
          /\ ~lost' => ~lost /\ \A c \in Callers : ~Bringing(c)
      BY <1>4 DEF Restart, providerVars, Bringing
    <2>2. issued \in Nat /\ 0 \notin spent
      BY RefreshTyping DEF TypeInv, SpentInv, Numbered
    <2>3. Numbered' /\ Unshared' /\ EmptyReplies'
      BY <2>1, <2>2, NoTokens DEF SpentInv, Numbered, Unshared, EmptyReplies
    <2>4. Unspent'
      BY <2>1, <2>2, NoTokens DEF SpentInv, Unspent, Waiting, Bringing
    <2> QED
      BY <2>3, <2>4 DEF SpentInv
  <1>5. CASE ApproveLogin \/ CompleteLogin \/ LoseLogin \/ SignOut \/ Revoke
    BY <1>5, SpentUser
  <1>6. CASE Tick \/ UNCHANGED vars
    BY <1>6 DEF Tick, vars, SpentInv, Numbered, Unshared, EmptyReplies, Unspent,
       Waiting, Bringing, Carried, managerVars, providerVars
  <1> QED
    BY <1>1, <1>2, <1>3, <1>4, <1>5, <1>6 DEF Next

(* Whatever sign-outs, sign-ins, aborts, restarts and failures fall between*)
(* the steps of a refresh, a refresh token the provider has replaced is not*)
(* sent to it again, unless a grant was lost on its way to the store.      *)
THEOREM SpentNeverSent == Spec => []NoSpentTokenSent
  <1>1. SpentInv => NoSpentTokenSent
    BY NoTokens DEF SpentInv, Unspent, EmptyReplies, NoSpentTokenSent, Waiting,
       Carried
  <1>2. Spec => []SpentInv
    BY LockAlways, SpentInit, SpentStep, PTL DEF Spec
  <1> QED
    BY <1>1, <1>2, PTL

------------------------------------------------------------------------------
(* Whose session it is. Every session that is stored, worked on or on its  *)
(* way belongs to one sign-in, by its access token and by its refresh      *)
(* token, and a reply belongs to the sign-in of the session it renews.     *)
OneSignIn(n, book, access, refresh) ==
    /\ access \in 1..n /\ refresh \in 0..n
    /\ refresh # 0 => book[refresh].login = book[access].login

Recorded(n, book, s) == s # NoSession => OneSignIn(n, book, s.access, s.refresh)

CallRecorded(n, book, at, s, told, r) ==
    /\ Recorded(n, book, s)
    /\ at \in Working <=> s # NoSession
    /\ told \in Grants => told \in 1..n
    /\ r.kind = "tokens" =>
         /\ OneSignIn(n, book, r.tokens.access, r.tokens.refresh)
         /\ book[r.tokens.access].login = book[s.access].login

LedgerKept == \A g \in 1..issued : ledger[g].login \in 1..issued

SignInsInv ==
    /\ LedgerKept
    /\ Recorded(issued, ledger, store)
    /\ login # NoLogin => OneSignIn(issued, ledger, login.tokens.access, login.tokens.refresh)
    /\ \A c \in Callers : CallRecorded(issued, ledger, pc[c], held[c], result[c], reply[c])

(* What a step may do to the provider's records: add one.                  *)
LedgerGrows ==
    /\ issued' = issued \/ issued' = issued + 1
    /\ \A g \in 1..issued : ledger'[g] = ledger[g]
    /\ LedgerKept'

LEMMA IssuedNumber ==
    ASSUME TypeOK
    PROVE  issued \in Nat /\ issued <= MaxGrants /\ MaxGrants \in Nat
  BY GrantsAssumption DEF TypeOK

(* One more record leaves the ones there were as they were.                *)
LEMMA RecordAdded ==
    ASSUME TypeOK, LedgerKept, issued < MaxGrants, issued' = issued + 1,
           NEW l \in 1..(issued + 1), NEW u \in Nat,
           ledger' = [ledger EXCEPT ![issued + 1] = [login |-> l, until |-> u]]
    PROVE  LedgerGrows /\ ledger'[issued + 1].login = l
  <1>1. issued \in Nat /\ issued + 1 \in Grants
    BY IssuedNumber
  <1>2. \A g \in Grants : ledger'[g] = IF g = issued + 1 THEN [login |-> l, until |-> u] ELSE ledger[g]
    BY DEF TypeOK
  <1>3. \A g \in 1..issued : g \in Grants /\ g # issued + 1
    BY IssuedNumber
  <1>4. \A g \in 1..issued : ledger'[g] = ledger[g]
    BY <1>2, <1>3
  <1>5. ledger'[issued + 1].login = l
    BY <1>1, <1>2
  <1>6. \A g \in 1..(issued + 1) : g \in 1..issued \/ g = issued + 1
    BY <1>1
  <1>7. \A g \in 1..issued : ledger[g].login \in 1..(issued + 1)
    BY <1>1 DEF LedgerKept
  <1>8. LedgerKept'
    BY <1>4, <1>5, <1>6, <1>7 DEF LedgerKept
  <1> QED
    BY <1>4, <1>5, <1>8 DEF LedgerGrows

LEMMA LedgerStep ==
    ASSUME TypeInv, SignInsInv, SpentInv, [Next]_vars
    PROVE  LedgerGrows
  <1>1. CASE UNCHANGED <<issued, ledger>>
    <2>1. LedgerKept'
      BY <1>1 DEF SignInsInv, LedgerKept
    <2> QED
      BY <1>1, <2>1 DEF LedgerGrows
  <1>2. ASSUME NEW c \in Callers, Grant(c) PROVE LedgerGrows
    <2>1. PICK life \in Lifetimes :
            /\ issued' = issued + 1 /\ issued < MaxGrants
            /\ ledger' = [ledger EXCEPT ![issued + 1] = [login |-> ledger[held[c].refresh].login,
                                                         until |-> now + life]]
      BY <1>2 DEF Grant
    <2>2. held[c].refresh \in 1..issued
      BY <1>2 DEF Grant, SpentInv, Numbered
    <2>3. ledger[held[c].refresh].login \in 1..issued
      BY <2>2 DEF SignInsInv, LedgerKept
    <2>4. ledger[held[c].refresh].login \in 1..(issued + 1)
      BY <2>3, IssuedNumber DEF TypeInv
    <2>5. now + life \in Nat
      BY TimesAssumption DEF TypeInv, TypeOK
    <2> HIDE DEF LedgerGrows
    <2> QED
      BY <2>1, <2>4, <2>5, RecordAdded DEF TypeInv, SignInsInv
  <1>3. ASSUME ApproveLogin PROVE LedgerGrows
    <2>1. PICK life \in Lifetimes :
            /\ issued' = issued + 1 /\ issued < MaxGrants
            /\ ledger' = [ledger EXCEPT ![issued + 1] = [login |-> issued + 1, until |-> now + life]]
      BY <1>3 DEF ApproveLogin
    <2>2. issued + 1 \in 1..(issued + 1)
      BY IssuedNumber DEF TypeInv
    <2>3. now + life \in Nat
      BY TimesAssumption DEF TypeInv, TypeOK
    <2> QED
      BY <2>1, <2>2, <2>3, RecordAdded DEF TypeInv, SignInsInv
  <1>4. ASSUME NEW c \in Callers, \/ Call(c) \/ Load(c) \/ Receive(c) \/ Save(c) \/ Clear(c)
                                  \/ Abort(c) \/ Reject(c) \/ RequestFails(c)
        PROVE  UNCHANGED <<issued, ledger>>
    BY <1>4 DEF Call, Load, LoadFails, FindNoSession, UseStored, FindDead, StartRefresh, KeepLock,
       Receive, ReceiveTokens, ReceiveRejection, FallBack, ReceiveGarbage, Save, Clear, Abort,
       Reject, RequestFails, Return, providerVars
  <1>5. ASSUME Revoke \/ CompleteLogin \/ LoseLogin \/ SignOut \/ Restart \/ Tick \/ UNCHANGED vars
        PROVE  UNCHANGED <<issued, ledger>>
    BY <1>5 DEF Revoke, CompleteLogin, LoseLogin, SignOut, Restart, Tick, vars, providerVars
  <1> QED
    BY <1>1, <1>2, <1>3, <1>4, <1>5 DEF Next, Provider

(* What belonged to one sign-in still does.                                *)
LEMMA SignInsStand ==
    ASSUME TypeOK, LedgerGrows
    PROVE  /\ \A a, r : OneSignIn(issued, ledger, a, r) =>
                 /\ OneSignIn(issued', ledger', a, r)
                 /\ a \in 1..issued /\ ledger'[a].login = ledger[a].login
           /\ \A s : Recorded(issued, ledger, s) => Recorded(issued', ledger', s)
           /\ 1..issued \subseteq 1..issued'
  <1>1. issued \in Nat /\ issued <= issued' /\ issued' \in Nat
    BY IssuedNumber DEF LedgerGrows
  <1>2. 1..issued \subseteq 1..issued' /\ 0..issued \subseteq 0..issued'
    BY <1>1
  <1>3. \A r \in 0..issued : r # 0 => r \in 1..issued
    BY <1>1
  <1>4. ASSUME NEW a, NEW r, OneSignIn(issued, ledger, a, r)
        PROVE  OneSignIn(issued', ledger', a, r) /\ a \in 1..issued /\ ledger'[a].login = ledger[a].login
    BY <1>2, <1>3, <1>4 DEF OneSignIn, LedgerGrows
  <1> QED
    BY <1>2, <1>4 DEF Recorded

(* A call that goes on as it was, or forgets what it was told or answered. *)
LEMMA CallStands ==
    ASSUME TypeOK, LedgerGrows, NEW at, NEW at2, NEW s, NEW told, NEW told2 \in {told, Failure},
           NEW r, NEW r2, CallRecorded(issued, ledger, at, s, told, r),
           at2 = at \/ (at \notin Working /\ at2 \notin Working),
           r2 = r \/ r2.kind # "tokens", r.kind = "tokens" => at \in Working
    PROVE  CallRecorded(issued', ledger', at2, s, told2, r2)
  <1>1. r2.kind = "tokens" => /\ OneSignIn(issued, ledger, r2.tokens.access, r2.tokens.refresh)
                              /\ ledger[r2.tokens.access].login = ledger[s.access].login
                              /\ OneSignIn(issued, ledger, s.access, s.refresh)
    BY DEF CallRecorded, Recorded
  <1>2. r2.kind = "tokens" => /\ OneSignIn(issued', ledger', r2.tokens.access, r2.tokens.refresh)
                              /\ ledger'[r2.tokens.access].login = ledger'[s.access].login
    BY <1>1, SignInsStand
  <1>3. Recorded(issued', ledger', s)
    BY SignInsStand DEF CallRecorded
  <1>4. told2 \in Grants => told2 \in 1..issued'
    BY SignInsStand DEF CallRecorded
  <1>5. at2 \in Working <=> s # NoSession
    BY DEF CallRecorded
  <1> QED
    BY <1>2, <1>3, <1>4, <1>5 DEF CallRecorded

(* The calls that a step leaves alone.                                     *)
Untouched(d) == held'[d] = held[d] /\ pc'[d] = pc[d] /\ reply'[d] = reply[d] /\ result'[d] = result[d]

CallNow(d) == CallRecorded(issued, ledger, pc[d], held[d], result[d], reply[d])
CallThen(d) == CallRecorded(issued', ledger', pc'[d], held'[d], result'[d], reply'[d])

LEMMA UntouchedStands ==
    ASSUME TypeInv, LockInv, SignInsInv, LedgerGrows, NEW d \in Callers, Untouched(d)
    PROVE  CallThen(d)
  <1>1. CallRecorded(issued, ledger, pc[d], held[d], result[d], reply[d])
    BY DEF SignInsInv
  <1>2. reply[d].kind = "tokens" => pc[d] \in Working
    BY NoTokens DEF LockInv
  <1>3. CallRecorded(issued', ledger', pc[d], held[d], result[d], reply[d])
    BY <1>1, <1>2, CallStands DEF TypeInv
  <1> QED
    BY <1>3 DEF Untouched, CallThen

(* The next state, put together.                                           *)
LEMMA SignInsThen ==
    ASSUME TypeInv, SignInsInv, LedgerGrows, Recorded(issued', ledger', store'),
           \/ login' = login \/ login' = NoLogin
           \/ OneSignIn(issued', ledger', login'.tokens.access, login'.tokens.refresh),
           \A d \in Callers : CallThen(d)
    PROVE  SignInsInv'
  <1>1. login' # NoLogin => OneSignIn(issued', ledger', login'.tokens.access, login'.tokens.refresh)
    BY SignInsStand DEF SignInsInv, TypeInv
  <1> QED
    BY <1>1 DEF SignInsInv, LedgerGrows, CallThen

LEMMA StoreStands ==
    ASSUME TypeInv, SignInsInv, LedgerGrows, store' \in {store, NoSession}
    PROVE  Recorded(issued', ledger', store')
  BY SignInsStand DEF TypeInv, SignInsInv, Recorded

(* A call that has ended carries nothing any more.                         *)
LEMMA ReturnRecorded ==
    ASSUME TypeInv, LockInv, SignInsInv, LedgerGrows, NEW c \in Callers, NEW r, Return(c, r),
           r \in Grants => r \in 1..issued,
           Recorded(issued', ledger', store')
    PROVE  SignInsInv'
  <1>1. /\ held' = [held EXCEPT ![c] = NoSession] /\ reply' = [reply EXCEPT ![c] = NoReply]
        /\ pc' = [pc EXCEPT ![c] = "idle"] /\ result' = [result EXCEPT ![c] = r]
        /\ UNCHANGED <<login, issued, ledger>>
    BY DEF Return, providerVars
  <1>2. /\ held'[c] = NoSession /\ reply'[c] = NoReply /\ pc'[c] = "idle" /\ result'[c] = r
        /\ \A d \in Callers \ {c} : Untouched(d)
    BY <1>1 DEF TypeInv, TypeOK, Untouched
  <1>3. CallThen(c)
    BY <1>1, <1>2, NoTokens DEF CallThen, CallRecorded, Recorded
  <1>4. \A d \in Callers \ {c} : CallThen(d)
    BY <1>2, UntouchedStands
  <1> QED
    BY <1>1, <1>3, <1>4, SignInsThen

LEMMA SignInsLoad ==
    ASSUME TypeInv, LockInv, SignInsInv, LedgerGrows, NEW c \in Callers, Load(c)
    PROVE  SignInsInv'
  <1>1. UNCHANGED store
    BY DEF Load, LoadFails, FindNoSession, UseStored, FindDead, StartRefresh, KeepLock
  <1>2. Recorded(issued', ledger', store') /\ Recorded(issued', ledger', store)
    BY <1>1, StoreStands
  <1>3. CASE LoadFails(c) \/ FindNoSession(c) \/ UseStored(c)
    <2>1. \E r : Return(c, r) /\ (r \in Grants => r = store.access /\ store # NoSession)
      BY <1>3 DEF LoadFails, FindNoSession, UseStored
    <2>2. store # NoSession => store.access \in 1..issued
      BY DEF SignInsInv, Recorded, OneSignIn
    <2> QED
      BY <1>2, <2>1, <2>2, ReturnRecorded
  <1>4. CASE FindDead(c) \/ StartRefresh(c)
    <2>1. PICK stage \in Working : KeepLock(c, stage) /\ store # NoSession /\ pc[c] = "queued"
      BY <1>4 DEF FindDead, StartRefresh, Locks
    <2>2. /\ held' = [held EXCEPT ![c] = store] /\ pc' = [pc EXCEPT ![c] = stage]
          /\ UNCHANGED <<reply, result, login, issued, ledger>>
      BY <2>1 DEF KeepLock, providerVars
    <2>3. /\ held'[c] = store /\ pc'[c] = stage /\ reply'[c] = NoReply
          /\ \A d \in Callers \ {c} : Untouched(d)
      BY <2>1, <2>2 DEF TypeInv, TypeOK, LockInv, Untouched
    <2>4. CallThen(c)
      BY <1>2, <2>1, <2>2, <2>3, NoTokens DEF SignInsInv, CallThen, CallRecorded
    <2>5. \A d \in Callers \ {c} : CallThen(d)
      BY <2>3, UntouchedStands
    <2> QED
      BY <1>2, <2>2, <2>4, <2>5, SignInsThen
  <1> QED
    BY <1>3, <1>4 DEF Load

(* The session made of a reply is of the sign-in it renews.                *)
LEMMA RenewedSignIn ==
    ASSUME TypeInv, SignInsInv, NEW c \in Callers, pc[c] = "refreshing", reply[c].kind = "tokens"
    PROVE  LET s == Refreshed(reply[c].tokens, held[c], asked[c])
           IN  /\ s \in Sessions /\ s # NoSession /\ OneSignIn(issued, ledger, s.access, s.refresh)
               /\ s.access = reply[c].tokens.access
               /\ s.refresh = Carried(c)
               /\ ledger[s.access].login = ledger[held[c].access].login
  <1> DEFINE s == Refreshed(reply[c].tokens, held[c], asked[c])
             t == reply[c].tokens
  <1>1. t \in Bundles /\ held[c] \in Sessions /\ asked[c] \in Nat
    BY Typing DEF TypeInv, RepliesCarryTokens
  <1>2. /\ s \in Sessions /\ s.access = t.access
        /\ s.refresh = IF t.refresh = 0 THEN held[c].refresh ELSE t.refresh
    BY ONLY <1>1, BundlesMakeSessions
  <1>3. OneSignIn(issued, ledger, t.access, t.refresh) /\ ledger[t.access].login = ledger[held[c].access].login
    BY DEF SignInsInv, CallRecorded
  <1>4. OneSignIn(issued, ledger, held[c].access, held[c].refresh)
    BY DEF SignInsInv, CallRecorded, Recorded
  <1> HIDE DEF s, t
  <1>5. OneSignIn(issued, ledger, s.access, s.refresh)
    BY <1>2, <1>3, <1>4 DEF OneSignIn
  <1>6. s.access \in 1..issued
    BY <1>5 DEF OneSignIn
  <1>7. s.access # 0
    BY <1>6, IssuedNumber DEF TypeInv
  <1>8. s # NoSession
    BY <1>7 DEF NoSession
  <1>9. s.refresh = Carried(c)
    BY <1>2 DEF t, Carried
  <1> QED
    BY <1>2, <1>3, <1>5, <1>8, <1>9 DEF s, t

LEMMA SignInsReceive ==
    ASSUME TypeInv, LockInv, SignInsInv, LedgerGrows, NEW c \in Callers, Receive(c)
    PROVE  SignInsInv'
  <1>0. UNCHANGED store
    BY DEF Receive, ReceiveTokens, ReceiveRejection, FallBack, ReceiveGarbage
  <1>1. pc[c] = "refreshing"
    BY DEF Receive, ReceiveTokens, ReceiveRejection, FallBack, ReceiveGarbage, Awaiting
  <1>2. held[c] # NoSession /\ held[c].access \in 1..issued /\ Recorded(issued, ledger, held[c])
        /\ (result[c] \in Grants => result[c] \in 1..issued)
    BY <1>1 DEF SignInsInv, CallRecorded, Recorded, OneSignIn
  <1>3. Recorded(issued', ledger', store')
    BY <1>0, StoreStands
  <1>4. CASE ReceiveTokens(c)
    <2> DEFINE s == Refreshed(reply[c].tokens, held[c], asked[c])
    <2>1. s # NoSession /\ OneSignIn(issued, ledger, s.access, s.refresh)
      BY <1>1, <1>4, RenewedSignIn DEF ReceiveTokens
    <2>2. /\ held' = [held EXCEPT ![c] = s] /\ reply' = [reply EXCEPT ![c] = NoReply]
          /\ pc' = [pc EXCEPT ![c] = "saving"] /\ UNCHANGED <<result, login, issued, ledger>>
      BY <1>4 DEF ReceiveTokens, providerVars
    <2> HIDE DEF s
    <2>3. /\ held'[c] = s /\ pc'[c] = "saving" /\ reply'[c] = NoReply
          /\ \A d \in Callers \ {c} : Untouched(d)
      BY <2>2 DEF TypeInv, TypeOK, Untouched
    <2>4. CallThen(c)
      BY <1>2, <2>1, <2>2, <2>3, NoTokens DEF CallThen, CallRecorded, Recorded
    <2>5. \A d \in Callers \ {c} : CallThen(d)
      BY <2>3, UntouchedStands
    <2> QED
      BY <1>3, <2>2, <2>4, <2>5, SignInsThen
  <1>5. CASE ReceiveRejection(c)
    <2>1. /\ reply' = [reply EXCEPT ![c] = NoReply] /\ pc' = [pc EXCEPT ![c] = "clearing"]
          /\ UNCHANGED <<held, result, login, issued, ledger>>
      BY <1>5 DEF ReceiveRejection, providerVars
    <2>2. /\ pc'[c] = "clearing" /\ reply'[c] = NoReply
          /\ \A d \in Callers \ {c} : Untouched(d)
      BY <2>1 DEF TypeInv, TypeOK, Untouched
    <2>3. CallThen(c)
      BY <1>2, <2>1, <2>2, NoTokens DEF CallThen, CallRecorded
    <2>4. \A d \in Callers \ {c} : CallThen(d)
      BY <2>2, UntouchedStands
    <2> QED
      BY <1>3, <2>1, <2>3, <2>4, SignInsThen
  <1>6. CASE FallBack(c) \/ ReceiveGarbage(c)
    <2>1. \E r : Return(c, r) /\ (r \in Grants => r = held[c].access)
      BY <1>6 DEF FallBack, ReceiveGarbage
    <2> QED
      BY <1>2, <1>3, <2>1, ReturnRecorded
  <1> QED
    BY <1>4, <1>5, <1>6 DEF Receive

LEMMA SignInsEnd ==
    ASSUME TypeInv, LockInv, SignInsInv, LedgerGrows, NEW c \in Callers, Save(c) \/ Clear(c)
    PROVE  SignInsInv'
  <1>1. pc[c] \in Working
    BY DEF Save, Clear
  <1>2. held[c].access \in 1..issued /\ Recorded(issued, ledger, held[c])
    BY <1>1 DEF SignInsInv, CallRecorded, Recorded, OneSignIn
  <1>3. \E r : Return(c, r) /\ (r \in Grants => r = held[c].access)
    BY DEF Save, Clear
  <1>4. store' \in {store, held[c], NoSession}
    BY DEF Save, Clear
  <1>5. Recorded(issued', ledger', store')
    BY <1>2, <1>4, SignInsStand DEF SignInsInv, Recorded, TypeInv
  <1> QED
    BY <1>2, <1>3, <1>5, ReturnRecorded

LEMMA SignInsProvider ==
    ASSUME TypeInv, LockInv, SpentInv, SignInsInv, LedgerGrows, NEW c \in Callers, Provider(c)
    PROVE  SignInsInv'
  <1>1. /\ pc[c] = "refreshing"
        /\ UNCHANGED <<store, pc, held, result, login>>
    BY DEF Provider, Grant, Reject, RequestFails, Waiting, managerVars
  <1>2. /\ held[c] # NoSession /\ OneSignIn(issued, ledger, held[c].access, held[c].refresh)
        /\ Recorded(issued, ledger, held[c])
        /\ (result[c] \in Grants => result[c] \in 1..issued)
    BY <1>1 DEF SignInsInv, CallRecorded, Recorded
  <1>3. /\ Recorded(issued', ledger', store') /\ Recorded(issued', ledger', held[c])
        /\ ledger'[held[c].access].login = ledger[held[c].access].login
        /\ (result[c] \in Grants => result[c] \in 1..issued')
    BY <1>1, <1>2, StoreStands, SignInsStand DEF TypeInv
  <1>4. \E r : reply' = [reply EXCEPT ![c] = r]
    BY DEF Provider, Grant, Reject, RequestFails, Reply
  <1>5. \A d \in Callers \ {c} : Untouched(d)
    BY <1>1, <1>4 DEF Untouched, TypeInv, TypeOK
  <1>6. \A d \in Callers \ {c} : CallThen(d)
    BY <1>5, UntouchedStands
  <1>7. reply'[c].kind = "tokens" =>
          /\ OneSignIn(issued', ledger', reply'[c].tokens.access, reply'[c].tokens.refresh)
          /\ ledger'[reply'[c].tokens.access].login = ledger[held[c].access].login
    <2>1. CASE Reject(c) \/ RequestFails(c)
      BY <2>1 DEF Reject, RequestFails, Reply, TypeInv, TypeOK
    <2>2. CASE Grant(c)
      <3> DEFINE g == issued + 1
                 old == held[c].refresh
      <3>1. PICK life \in Lifetimes, rotates \in BOOLEAN :
              /\ issued' = g /\ issued < MaxGrants
              /\ ledger' = [ledger EXCEPT ![g] = [login |-> ledger[old].login, until |-> now + life]]
              /\ \/ Reply(c, "tokens", [access |-> g, life |-> life,
                                        refresh |-> IF rotates THEN g ELSE 0])
                 \/ \E kind \in {"transient", "malformed"} : Reply(c, kind, NoBundle)
        BY <2>2 DEF Grant
      <3>2. old \in 1..issued
        BY <2>2 DEF Grant, SpentInv, Numbered
      <3>3. old # 0 /\ g \in 1..g /\ g \in 0..g /\ 0 \in 0..g /\ g \in Grants
        BY <3>1, <3>2, IssuedNumber DEF TypeInv
      <3>4. ledger'[g].login = ledger[old].login
        BY <3>1, <3>3 DEF TypeInv, TypeOK
      <3>5. ledger[old].login = ledger[held[c].access].login
        BY <1>2, <3>3 DEF OneSignIn
      <3>6. reply'[c].kind = "tokens" => reply'[c].tokens.access = g /\ reply'[c].tokens.refresh \in {0, g}
        BY <3>1 DEF Reply, TypeInv, TypeOK
      <3> HIDE DEF g
      <3> QED
        BY <3>1, <3>3, <3>4, <3>5, <3>6 DEF OneSignIn
    <2> QED
      BY <2>1, <2>2 DEF Provider
  <1>8. CallThen(c)
    BY <1>1, <1>2, <1>3, <1>7 DEF CallThen, CallRecorded
  <1> QED
    BY <1>1, <1>3, <1>6, <1>8, SignInsThen

LEMMA SignInsCalls ==
    ASSUME TypeInv, LockInv, SignInsInv, LedgerGrows, NEW c \in Callers, Call(c) \/ Abort(c)
    PROVE  SignInsInv'
  <1>1. CASE Call(c)
    <2>1. /\ pc[c] = "idle" /\ pc' = [pc EXCEPT ![c] = "queued"] /\ result' = [result EXCEPT ![c] = Failure]
          /\ UNCHANGED <<store, held, reply, login>>
      BY <1>1 DEF Call
    <2>2. /\ pc'[c] = "queued" /\ result'[c] = Failure
          /\ \A d \in Callers \ {c} : Untouched(d)
      BY <2>1 DEF Untouched, TypeInv, TypeOK
    <2>3. \A d \in Callers \ {c} : CallThen(d)
      BY <2>2, UntouchedStands
    <2>4. reply[c].kind # "tokens"
      BY <2>1, NoTokens DEF LockInv
    <2>5. CallRecorded(issued, ledger, pc[c], held[c], result[c], reply[c])
      BY DEF SignInsInv
    <2>6. CallRecorded(issued', ledger', "queued", held[c], Failure, reply[c])
      BY <2>1, <2>4, <2>5, CallStands DEF TypeInv
    <2>7. CallThen(c)
      BY <2>1, <2>2, <2>6 DEF CallThen
    <2> QED
      BY <2>1, <2>3, <2>7, StoreStands, SignInsThen
  <1>2. CASE Abort(c)
    <2>1. /\ pc' = [pc EXCEPT ![c] = "idle"] /\ result' = [result EXCEPT ![c] = Failure]
          /\ held' = [held EXCEPT ![c] = NoSession] /\ reply' = [reply EXCEPT ![c] = NoReply]
          /\ UNCHANGED <<store, login>>
      BY <1>2 DEF Abort
    <2>2. /\ pc'[c] = "idle" /\ result'[c] = Failure /\ held'[c] = NoSession /\ reply'[c] = NoReply
          /\ \A d \in Callers \ {c} : Untouched(d)
      BY <2>1 DEF Untouched, TypeInv, TypeOK
    <2>3. \A d \in Callers \ {c} : CallThen(d)
      BY <2>2, UntouchedStands
    <2>4. Failure \notin Grants
      OBVIOUS
    <2>5. CallThen(c)
      BY <2>2, <2>4, NoTokens DEF CallThen, CallRecorded, Recorded
    <2> QED
      BY <2>1, <2>3, <2>5, StoreStands, SignInsThen
  <1> QED
    BY <1>1, <1>2

LEMMA SignInsUser ==
    ASSUME TypeInv, LockInv, SignInsInv, LedgerGrows,
           ApproveLogin \/ CompleteLogin \/ LoseLogin \/ SignOut \/ Revoke \/ Tick \/ UNCHANGED vars
    PROVE  SignInsInv'
  <1>1. UNCHANGED <<pc, held, result, reply>>
    BY DEF ApproveLogin, CompleteLogin, LoseLogin, SignOut, Revoke, Tick, vars, managerVars
  <1>2. \A d \in Callers : CallThen(d)
    BY <1>1, UntouchedStands DEF Untouched
  <1>3. CASE ApproveLogin
    <2> DEFINE g == issued + 1
    <2>1. PICK life \in Lifetimes, r \in {0, g} :
            /\ issued' = g
            /\ login' = [tokens |-> [access |-> g, refresh |-> r, life |-> life], at |-> now]
      BY <1>3 DEF ApproveLogin
    <2>2. login'.tokens.access = g /\ login'.tokens.refresh \in {0, g}
      BY <2>1
    <2>3. g \in 1..g /\ g \in 0..g /\ 0 \in 0..g
      BY IssuedNumber DEF TypeInv
    <2>4. UNCHANGED store
      BY <1>3 DEF ApproveLogin
    <2>5. OneSignIn(issued', ledger', login'.tokens.access, login'.tokens.refresh)
      BY <2>1, <2>2, <2>3 DEF OneSignIn
    <2> QED
      BY <1>2, <2>4, <2>5, StoreStands, SignInsThen
  <1>4. CASE CompleteLogin
    <2>1. login # NoLogin /\ login' = NoLogin /\ UNCHANGED <<issued, ledger>>
          /\ store'.access = login.tokens.access /\ store'.refresh = login.tokens.refresh
      BY <1>4 DEF CompleteLogin, FromTokens, providerVars
    <2>2. Recorded(issued', ledger', store')
      BY <2>1 DEF SignInsInv, Recorded
    <2> QED
      BY <1>2, <2>1, <2>2, SignInsThen
  <1>5. CASE LoseLogin \/ SignOut \/ Revoke \/ Tick \/ UNCHANGED vars
    <2>1. store' \in {store, NoSession} /\ login' \in {login, NoLogin}
      BY <1>5 DEF LoseLogin, SignOut, Revoke, Tick, vars
    <2> QED
      BY <1>2, <2>1, StoreStands, SignInsThen
  <1> QED
    BY <1>3, <1>4, <1>5

LEMMA SignInsRestart ==
    ASSUME TypeInv, SignInsInv, LedgerGrows, Restart
    PROVE  SignInsInv'
  <1>1. /\ held' = [c \in Callers |-> NoSession] /\ reply' = [c \in Callers |-> NoReply]
        /\ pc' = [c \in Callers |-> "idle"] /\ result' = [c \in Callers |-> Failure]
        /\ login' = NoLogin /\ UNCHANGED store
    BY DEF Restart
  <1>2. Failure \notin Grants
    OBVIOUS
  <1>3. \A d \in Callers : CallThen(d)
    BY <1>1, <1>2, NoTokens DEF CallThen, CallRecorded, Recorded
  <1> QED
    BY <1>1, <1>3, StoreStands, SignInsThen

LEMMA SignInsInit == Init => SignInsInv
  <1> SUFFICES ASSUME Init PROVE SignInsInv
    OBVIOUS
  <1>1. /\ held = [c \in Callers |-> NoSession] /\ reply = [c \in Callers |-> NoReply]
        /\ pc = [c \in Callers |-> "idle"] /\ result = [c \in Callers |-> Failure]
        /\ login = NoLogin
    BY DEF Init
  <1>2. Failure \notin Grants
    OBVIOUS
  <1>3. \A c \in Callers : CallRecorded(issued, ledger, pc[c], held[c], result[c], reply[c])
    BY <1>1, <1>2, NoTokens DEF CallRecorded, Recorded
  <1>4. CASE store = NoSession /\ issued = 0
    BY <1>1, <1>3, <1>4 DEF SignInsInv, LedgerKept, Recorded
  <1>5. CASE ~(store = NoSession /\ issued = 0)
    <2>1. PICK r \in {0, 1}, life \in Lifetimes \cup {0} :
            /\ store = [access |-> 1, refresh |-> r, expires |-> life] /\ issued = 1
            /\ ledger = [g \in Grants |-> IF g = 1 THEN [login |-> 1, until |-> life]
                                                   ELSE [login |-> 0, until |-> 0]]
      BY <1>5 DEF Init
    <2>2. 1 \in Grants
      BY GrantsAssumption
    <2>3. ledger[1].login = 1
      BY <2>1, <2>2
    <2>4. LedgerKept
      BY <2>1, <2>3 DEF LedgerKept
    <2>5. store.access = 1 /\ store.refresh \in {0, 1}
      BY <2>1
    <2>6. OneSignIn(issued, ledger, store.access, store.refresh)
      BY <2>1, <2>5 DEF OneSignIn
    <2> QED
      BY <1>1, <1>3, <2>4, <2>6 DEF SignInsInv, Recorded
  <1> QED
    BY <1>4, <1>5

LEMMA SignInsStep ==
    TypeInv /\ LockInv /\ SpentInv /\ SignInsInv /\ [Next]_vars => SignInsInv'
  <1> SUFFICES ASSUME TypeInv, LockInv, SpentInv, SignInsInv, [Next]_vars PROVE SignInsInv'
    OBVIOUS
  <1>1. LedgerGrows
    BY LedgerStep
  <1> QED
    BY <1>1, SignInsLoad, SignInsReceive, SignInsEnd, SignInsProvider, SignInsCalls, SignInsUser,
       SignInsRestart DEF Next

ManagerInv == TypeInv /\ LockInv /\ SpentInv /\ SignInsInv

LEMMA ManagerAlways == Spec => []ManagerInv
  <1>1. Init => ManagerInv
    BY TypeInit, LockInit, SpentInit, SignInsInit DEF ManagerInv
  <1>2. ManagerInv /\ [Next]_vars => ManagerInv'
    BY TypeStep, LockStep, SpentStep, SignInsStep DEF ManagerInv
  <1> QED
    BY <1>1, <1>2, PTL DEF Spec

------------------------------------------------------------------------------
(* The refinement, step by step. What TokenSource sees of a call: where it *)
(* is, whose session it read and what it was told.                         *)
StageOf(at) == IF at = "idle" THEN "idle" ELSE IF at = "queued" THEN "asked" ELSE "renewing"
SignInOf(book, s) == IF s = NoSession THEN 0 ELSE book[s.access].login
ToldOf(book, r) == IF r \in Grants THEN book[r].login ELSE r

Seen(d) == SignInOf(ledger, held[d])
Told(d) == ToldOf(ledger, result[d])
SeenThen(d) == SignInOf(ledger', held'[d])
ToldThen(d) == ToldOf(ledger', result'[d])

(* TokenSource does not notice what becomes of these calls.                *)
LEMMA UntouchedUnnoticed ==
    ASSUME ManagerInv, LedgerGrows
    PROVE  /\ \A d \in Callers : held'[d] = held[d] => SeenThen(d) = Seen(d)
           /\ \A d \in Callers : result'[d] = result[d] => ToldThen(d) = Told(d)
           /\ store' = store => SignInOf(ledger', store') = SignInOf(ledger, store)
  <1>1. \A s : Recorded(issued, ledger, s) => SignInOf(ledger', s) = SignInOf(ledger, s)
    BY SignInsStand DEF ManagerInv, TypeInv, Recorded, SignInOf
  <1>2. \A d \in Callers : Recorded(issued, ledger, held[d]) /\ (result[d] \in Grants => result[d] \in 1..issued)
    BY DEF ManagerInv, SignInsInv, CallRecorded
  <1>3. \A r \in 1..issued : ledger'[r] = ledger[r]
    BY DEF LedgerGrows
  <1>4. Recorded(issued, ledger, store)
    BY DEF ManagerInv, SignInsInv
  <1> QED
    BY <1>1, <1>2, <1>3, <1>4 DEF SeenThen, Seen, ToldThen, Told, ToldOf

StageMap == [d \in Callers |-> StageOf(pc[d])]
SeenMap == [d \in Callers |-> Seen(d)]
ToldMap == [d \in Callers |-> Told(d)]

LEMMA Mapped ==
    /\ StageMap = [c \in Callers |-> IF pc[c] = "idle" THEN "idle" ELSE IF pc[c] = "queued" THEN "asked"
                                     ELSE "renewing"]
    /\ SeenMap = [c \in Callers |-> LoginOf(held[c])]
    /\ ToldMap = [c \in Callers |-> IF result[c] \in Grants THEN ledger[result[c]].login ELSE result[c]]
    /\ SignInOf(ledger, store) = LoginOf(store)
  BY DEF StageMap, SeenMap, ToldMap, StageOf, Seen, SignInOf, Told, ToldOf, LoginOf

LEMMA MappedThen ==
    /\ StageMap' = [d \in Callers |-> StageOf(pc'[d])]
    /\ SeenMap' = [d \in Callers |-> SeenThen(d)]
    /\ ToldMap' = [d \in Callers |-> ToldThen(d)]
  BY DEF StageMap, SeenMap, ToldMap, Seen, SeenThen, Told, ToldThen, SignInOf, ToldOf

(* The end of a call.                                                      *)
LEMMA ToldStep ==
    ASSUME ManagerInv, LedgerGrows, NEW c \in Callers, \A d \in Callers \ {c} : Untouched(d),
           pc'[c] = "idle", held'[c] = NoSession, NEW a, a = ToldThen(c)
    PROVE  Source!Tell(c, a)
  <1>1. \A d \in Callers \ {c} : StageOf(pc'[d]) = StageOf(pc[d]) /\ SeenThen(d) = Seen(d) /\ ToldThen(d) = Told(d)
    BY UntouchedUnnoticed DEF Untouched
  <1>2. StageOf(pc'[c]) = "idle" /\ SeenThen(c) = 0 /\ ToldThen(c) = a
    BY DEF StageOf, SeenThen, SignInOf
  <1>3. StageMap' = [StageMap EXCEPT ![c] = "idle"]
    BY <1>1, <1>2, MappedThen DEF StageMap
  <1>4. SeenMap' = [SeenMap EXCEPT ![c] = 0]
    BY <1>1, <1>2, MappedThen DEF SeenMap
  <1>5. ToldMap' = [ToldMap EXCEPT ![c] = a]
    BY <1>1, <1>2, MappedThen DEF ToldMap
  <1> QED
    BY <1>3, <1>4, <1>5 DEF Source!Tell, StageMap, SeenMap, ToldMap, StageOf, Seen, SignInOf, Told, ToldOf, LoginOf

(* What has not changed for TokenSource.                                   *)
LEMMA SourceStutters ==
    ASSUME ManagerInv, LedgerGrows, store' = store, \A d \in Callers : StageOf(pc'[d]) = StageOf(pc[d]),
           \A d \in Callers : SeenThen(d) = Seen(d), \A d \in Callers : ToldThen(d) = Told(d)
    PROVE  UNCHANGED Source!tokenVars
  <1>1. StageMap' = StageMap /\ SeenMap' = SeenMap /\ ToldMap' = ToldMap
    BY MappedThen DEF StageMap, SeenMap, ToldMap
  <1>2. SignInOf(ledger', store') = SignInOf(ledger, store)
    BY UntouchedUnnoticed
  <1> QED
    BY <1>1, <1>2 DEF Source!tokenVars, StageMap, SeenMap, ToldMap, StageOf, Seen, SignInOf, Told, ToldOf, LoginOf

LEMMA SourceStore ==
    /\ LoginOf(store) = SignInOf(ledger, store)
    /\ LoginOf(store)' = SignInOf(ledger', store')
    /\ \A d \in Callers : LoginOf(held[d]) = Seen(d)
  BY DEF LoginOf, SignInOf, Seen

(* While the lock is free no call renews.                                  *)
LEMMA FreeLock ==
    ASSUME ManagerInv, lock = NoCaller
    PROVE  Source!NobodyRenews
  <1>1. \A d \in Callers : StageOf(pc[d]) # "renewing"
    BY CallersAssumption DEF ManagerInv, LockInv, TypeInv, TypeOK, StageOf
  <1> QED
    BY <1>1 DEF Source!NobodyRenews, StageOf

LEMMA EndsCall ==
    ASSUME ManagerInv, NEW c \in Callers, NEW r, Return(c, r)
    PROVE  /\ \A d \in Callers \ {c} : Untouched(d)
           /\ pc'[c] = "idle" /\ held'[c] = NoSession /\ result'[c] = r
           /\ UNCHANGED <<issued, ledger>> /\ ToldThen(c) = ToldOf(ledger, r)
  BY DEF Return, providerVars, ManagerInv, TypeInv, TypeOK, Untouched, ToldThen

LEMMA CallAsks ==
    ASSUME ManagerInv, LedgerGrows, NEW c \in Callers, Call(c)
    PROVE  Source!Ask(c)
  <1>1. /\ pc[c] = "idle" /\ pc' = [pc EXCEPT ![c] = "queued"] /\ result' = [result EXCEPT ![c] = Failure]
        /\ UNCHANGED <<store, held, ledger>>
    BY DEF Call, providerVars
  <1>2. /\ pc'[c] = "queued" /\ result'[c] = Failure
        /\ \A d \in Callers \ {c} : pc'[d] = pc[d] /\ result'[d] = result[d]
    BY <1>1 DEF ManagerInv, TypeInv, TypeOK
  <1>3. StageMap' = [StageMap EXCEPT ![c] = "asked"] /\ StageMap[c] = "idle"
    BY <1>1, <1>2, MappedThen DEF StageMap, StageOf
  <1>4. ToldThen(c) = -1
    BY <1>2 DEF ToldThen, ToldOf
  <1>5. ToldMap' = [ToldMap EXCEPT ![c] = -1]
    BY <1>2, <1>4, MappedThen, UntouchedUnnoticed DEF ToldMap
  <1>6. SeenMap' = SeenMap /\ LoginOf(store)' = LoginOf(store)
    BY <1>1 DEF SeenMap, Seen, SignInOf, LoginOf
  <1> QED
    BY <1>3, <1>5, <1>6
    DEF Source!Ask, StageMap, SeenMap, ToldMap, StageOf, Seen, SignInOf, Told, ToldOf, LoginOf

LEMMA LoadIsAnswer ==
    ASSUME ManagerInv, LedgerGrows, NEW c \in Callers, LoadFails(c) \/ FindNoSession(c) \/ UseStored(c)
    PROVE  Source!Answer(c)
  <1>1. pc[c] = "queued" /\ lock = NoCaller /\ store' = store
    BY DEF LoadFails, FindNoSession, UseStored, Locks
  <1>2. PICK r : /\ Return(c, r)
                 /\ \/ r = Failure
                    \/ r = SignedOut /\ store = NoSession
                    \/ r = store.access /\ store # NoSession
    BY DEF LoadFails, FindNoSession, UseStored
  <1>3. store # NoSession => store.access \in Grants
    BY IssuedNumber DEF ManagerInv, TypeInv, SignInsInv, Recorded, OneSignIn
  <1> PICK a : a = ToldOf(ledger, r)
    OBVIOUS
  <1>4. a \in {LoginOf(store), -1}
    BY <1>2, <1>3 DEF ToldOf, LoginOf
  <1>5. Source!Tell(c, a)
    <2>1. a = ToldThen(c)
      BY <1>2, EndsCall
    <2> QED
      BY <1>2, <2>1, EndsCall, ToldStep
  <1>6. LoginOf(store)' = LoginOf(store)
    BY <1>1, <1>2, EndsCall DEF LoginOf
  <1>7. StageMap[c] = "asked"
    BY <1>1 DEF StageMap, StageOf
  <1>8. Source!NobodyRenews
    BY <1>1, FreeLock
  <1> QED
    BY <1>4, <1>5, <1>6, <1>7, <1>8 DEF Source!Answer, StageMap, StageOf

LEMMA LockingRenews ==
    ASSUME ManagerInv, LedgerGrows, NEW c \in Callers, FindDead(c) \/ StartRefresh(c)
    PROVE  Source!StartRenewal(c)
  <1>1. /\ pc[c] = "queued" /\ lock = NoCaller /\ store # NoSession
        /\ \E stage \in Working : pc' = [pc EXCEPT ![c] = stage]
        /\ held' = [held EXCEPT ![c] = store] /\ UNCHANGED <<store, result, ledger>>
    BY DEF FindDead, StartRefresh, Locks, KeepLock, providerVars
  <1>2. /\ pc'[c] \in Working /\ held'[c] = store
        /\ \A d \in Callers \ {c} : pc'[d] = pc[d] /\ held'[d] = held[d]
    BY <1>1 DEF ManagerInv, TypeInv, TypeOK
  <1>3. StageMap' = [StageMap EXCEPT ![c] = "renewing"] /\ StageMap[c] = "asked"
    BY <1>1, <1>2, MappedThen DEF StageMap, StageOf
  <1>4. SeenThen(c) = LoginOf(store)
    BY <1>1, <1>2 DEF SeenThen, SignInOf, LoginOf
  <1>5. SeenMap' = [SeenMap EXCEPT ![c] = LoginOf(store)]
    BY <1>2, <1>4, MappedThen, UntouchedUnnoticed DEF SeenMap
  <1>6. ToldMap' = ToldMap /\ LoginOf(store)' = LoginOf(store)
    BY <1>1 DEF ToldMap, Told, ToldOf, LoginOf
  <1>7. LoginOf(store) # 0
    <2>1. store.access \in 1..issued
      BY <1>1 DEF ManagerInv, SignInsInv, Recorded, OneSignIn
    <2>2. ledger[store.access].login \in 1..issued
      BY <2>1 DEF ManagerInv, SignInsInv, LedgerKept
    <2> QED
      BY <1>1, <2>2, IssuedNumber DEF LoginOf, ManagerInv, TypeInv
  <1>8. Source!NobodyRenews
    BY <1>1, FreeLock
  <1> QED
    BY <1>3, <1>5, <1>6, <1>7, <1>8
    DEF Source!StartRenewal, StageMap, SeenMap, ToldMap, StageOf, Seen, SignInOf, Told, ToldOf, LoginOf

LEMMA HeldSignIn ==
    ASSUME ManagerInv, NEW c \in Callers, pc[c] \in Working
    PROVE  /\ held[c] # NoSession /\ held[c].access \in Grants
           /\ Seen(c) = ledger[held[c].access].login /\ StageMap[c] = "renewing"
  <1>1. CallRecorded(issued, ledger, pc[c], held[c], result[c], reply[c])
    BY DEF ManagerInv, SignInsInv
  <1>2. held[c] # NoSession /\ held[c].access \in 1..issued
    BY <1>1 DEF CallRecorded, Recorded, OneSignIn
  <1> QED
    BY <1>2, IssuedNumber DEF ManagerInv, TypeInv, Seen, SignInOf, StageMap, StageOf

(* A reply: the call goes on with what it read, or gives up.               *)
LEMMA ReplyIsGivingUp ==
    ASSUME ManagerInv, LedgerGrows, NEW c \in Callers, Receive(c)
    PROVE  Source!GiveUp(c) \/ UNCHANGED Source!tokenVars
  <1>1. pc[c] = "refreshing" /\ store' = store /\ UNCHANGED <<issued, ledger>>
    BY DEF Receive, ReceiveTokens, ReceiveRejection, FallBack, ReceiveGarbage, Awaiting, Return, providerVars
  <1>2. CASE ReceiveTokens(c)
    <2> DEFINE s == Refreshed(reply[c].tokens, held[c], asked[c])
    <2>1. s # NoSession /\ ledger[s.access].login = ledger[held[c].access].login
      BY <1>1, <1>2, RenewedSignIn DEF ReceiveTokens, ManagerInv
    <2>2. /\ held' = [held EXCEPT ![c] = s] /\ pc' = [pc EXCEPT ![c] = "saving"] /\ UNCHANGED result
      BY <1>2 DEF ReceiveTokens
    <2> HIDE DEF s
    <2>3. /\ held'[c] = s /\ pc'[c] = "saving"
          /\ \A d \in Callers \ {c} : held'[d] = held[d] /\ pc'[d] = pc[d]
      BY <2>2 DEF ManagerInv, TypeInv, TypeOK
    <2>4. SeenThen(c) = Seen(c)
      BY <1>1, <2>1, <2>3, HeldSignIn DEF SeenThen, SignInOf
    <2>5. \A d \in Callers : StageOf(pc'[d]) = StageOf(pc[d]) /\ SeenThen(d) = Seen(d)
      BY <1>1, <2>3, <2>4, UntouchedUnnoticed DEF StageOf
    <2>6. \A d \in Callers : ToldThen(d) = Told(d)
      BY <2>2, UntouchedUnnoticed
    <2> QED
      BY <1>1, <2>5, <2>6, SourceStutters
  <1>3. CASE ReceiveRejection(c)
    <2>1. pc' = [pc EXCEPT ![c] = "clearing"] /\ UNCHANGED <<held, result>>
      BY <1>3 DEF ReceiveRejection
    <2>2. \A d \in Callers : StageOf(pc'[d]) = StageOf(pc[d])
      BY <1>1, <2>1 DEF ManagerInv, TypeInv, TypeOK, StageOf
    <2> QED
      BY <1>1, <2>1, <2>2, UntouchedUnnoticed, SourceStutters
  <1>4. CASE FallBack(c) \/ ReceiveGarbage(c)
    <2>1. PICK r : Return(c, r) /\ r \in {Failure, held[c].access}
      BY <1>4 DEF FallBack, ReceiveGarbage
    <2> PICK a : a = ToldOf(ledger, r)
      OBVIOUS
    <2>2. a \in {Seen(c), -1}
      BY <1>1, <2>1, HeldSignIn DEF ToldOf
    <2>3. Source!Tell(c, a)
      <3>1. a = ToldThen(c)
        BY <2>1, EndsCall
      <3> QED
        BY <2>1, <3>1, EndsCall, ToldStep
    <2>4. LoginOf(store)' = LoginOf(store)
      BY <1>1 DEF LoginOf
    <2>5. StageMap[c] = "renewing" /\ SeenMap[c] = Seen(c)
      BY <1>1, HeldSignIn DEF SeenMap
    <2>6. Source!GiveUp(c)
      BY <2>2, <2>3, <2>4, <2>5 DEF Source!GiveUp, StageMap, SeenMap, StageOf, Seen, SignInOf, LoginOf
    <2> QED
      BY <2>6
  <1> QED
    BY <1>2, <1>3, <1>4 DEF Receive

(* The session is stored, found dead, or neither can be done.              *)
LEMMA EndIsRenewal ==
    ASSUME ManagerInv, LedgerGrows, NEW c \in Callers, Save(c) \/ Clear(c)
    PROVE  Source!Renew(c) \/ Source!Discard(c) \/ Source!GiveUp(c)
  <1>1. pc[c] \in Working
    BY DEF Save, Clear
  <1>2. PICK r : /\ Return(c, r)
                 /\ \/ store' = held[c] /\ r = held[c].access
                    \/ store' = NoSession /\ r \in {SignedOut, Failure}
                    \/ store' = store /\ r = Failure
    BY DEF Save, Clear
  <1> PICK a : a = ToldOf(ledger, r)
    OBVIOUS
  <1>3. Source!Tell(c, a) /\ UNCHANGED ledger
    <2>1. a = ToldThen(c) /\ UNCHANGED ledger
      BY <1>2, EndsCall
    <2> QED
      BY <1>2, <2>1, EndsCall, ToldStep
  <1>4. StageMap[c] = "renewing" /\ SeenMap[c] = Seen(c) /\ held[c] # NoSession /\ held[c].access \in Grants
        /\ Seen(c) = ledger[held[c].access].login
    BY <1>1, HeldSignIn DEF SeenMap
  <1>5. CASE store' = held[c] /\ r = held[c].access
    <2>1. LoginOf(store)' = Seen(c)
      BY <1>3, <1>4, <1>5 DEF LoginOf
    <2>2. a = Seen(c)
      BY <1>4, <1>5 DEF ToldOf
    <2>3. Source!Renew(c)
      BY <1>3, <1>4, <2>1, <2>2 DEF Source!Renew, Source!Tell, StageMap, SeenMap, StageOf, Seen, SignInOf, LoginOf
    <2> QED
      BY <2>3
  <1>6. CASE store' = NoSession /\ r \in {SignedOut, Failure}
    <2>1. LoginOf(store)' = 0
      BY <1>6 DEF LoginOf
    <2>2. a \in {0, -1}
      BY <1>6 DEF ToldOf
    <2>3. Source!Discard(c)
      BY <1>3, <1>4, <2>1, <2>2 DEF Source!Discard, StageMap, StageOf, LoginOf
    <2> QED
      BY <2>3
  <1>7. CASE store' = store /\ r = Failure
    <2>1. LoginOf(store)' = LoginOf(store)
      BY <1>3, <1>7 DEF LoginOf
    <2>2. a = -1
      BY <1>7 DEF ToldOf
    <2>3. Source!GiveUp(c)
      BY <1>3, <1>4, <2>1, <2>2 DEF Source!GiveUp, StageMap, SeenMap, StageOf, Seen, SignInOf, LoginOf
    <2> QED
      BY <2>3
  <1> QED
    BY <1>2, <1>5, <1>6, <1>7

LEMMA AbortAbandons ==
    ASSUME ManagerInv, LedgerGrows, NEW c \in Callers, Abort(c)
    PROVE  Source!Abandon(c)
  <1>1. /\ pc[c] # "idle" /\ pc' = [pc EXCEPT ![c] = "idle"] /\ held' = [held EXCEPT ![c] = NoSession]
        /\ reply' = [reply EXCEPT ![c] = NoReply] /\ result' = [result EXCEPT ![c] = Failure]
        /\ UNCHANGED <<store, ledger>>
    BY DEF Abort, providerVars
  <1>2. /\ pc'[c] = "idle" /\ held'[c] = NoSession /\ result'[c] = Failure
        /\ \A d \in Callers \ {c} : Untouched(d)
    BY <1>1 DEF ManagerInv, TypeInv, TypeOK, Untouched
  <1>3. ToldThen(c) = -1
    BY <1>2 DEF ToldThen, ToldOf
  <1>4. Source!Tell(c, -1)
    BY <1>2, <1>3, ToldStep
  <1>5. LoginOf(store)' = LoginOf(store)
    BY <1>1 DEF LoginOf
  <1>6. StageMap[c] # "idle"
    BY <1>1 DEF StageMap, StageOf
  <1> QED
    BY <1>4, <1>5, <1>6 DEF Source!Abandon, StageMap, StageOf

LEMMA QuietSteps ==
    ASSUME ManagerInv, LedgerGrows,
           \/ \E c \in Callers : Provider(c)
           \/ Revoke \/ ApproveLogin \/ LoseLogin \/ Tick \/ UNCHANGED vars
    PROVE  UNCHANGED Source!tokenVars
  <1>1. UNCHANGED <<store, pc, held, result>>
    BY DEF Provider, Grant, Reject, RequestFails, Revoke, ApproveLogin, LoseLogin, Tick, vars, managerVars
  <1> QED
    BY <1>1, UntouchedUnnoticed, SourceStutters

LEMMA UserSignsInOrOut ==
    ASSUME ManagerInv, LedgerGrows, CompleteLogin \/ SignOut
    PROVE  Source!SignOut \/ \E l \in Grants : Source!SignIn(l)
  <1>1. UNCHANGED <<pc, held, result, ledger>>
    BY DEF CompleteLogin, SignOut, managerVars, providerVars
  <1>2. StageMap' = StageMap /\ SeenMap' = SeenMap /\ ToldMap' = ToldMap
    BY <1>1, MappedThen DEF StageMap, SeenMap, ToldMap, Seen, SeenThen, Told, ToldThen
  <1>3. CASE CompleteLogin
    <2>1. login # NoLogin /\ store'.access = login.tokens.access
      BY <1>3 DEF CompleteLogin, FromTokens
    <2>2. store'.access \in 1..issued
      BY <2>1 DEF ManagerInv, SignInsInv, OneSignIn
    <2>3. ledger[store'.access].login \in Grants /\ store' # NoSession
      BY <2>2, IssuedNumber DEF ManagerInv, TypeInv, SignInsInv, LedgerKept, NoSession
    <2>4. LoginOf(store)' \in Grants
      BY <1>1, <2>3 DEF LoginOf
    <2>5. PICK l \in Grants : LoginOf(store)' = l
      BY <2>4
    <2>6. Source!SignIn(l)
      BY <1>2, <2>5
      DEF Source!SignIn, StageMap, SeenMap, ToldMap, StageOf, Seen, SignInOf, Told, ToldOf, LoginOf
    <2> QED
      BY <2>6
  <1>4. CASE SignOut
    <2>1. LoginOf(store)' = 0
      BY <1>4 DEF SignOut, LoginOf
    <2> QED
      BY <1>2, <2>1
      DEF Source!SignOut, StageMap, SeenMap, ToldMap, StageOf, Seen, SignInOf, Told, ToldOf, LoginOf
  <1> QED
    BY <1>3, <1>4

LEMMA RestartRestarts ==
    ASSUME Restart
    PROVE  Source!Restart
  <1>1. /\ pc' = [c \in Callers |-> "idle"] /\ held' = [c \in Callers |-> NoSession]
        /\ result' = [c \in Callers |-> Failure] /\ UNCHANGED <<store, ledger>>
    BY DEF Restart, providerVars
  <1>2. \A d \in Callers : StageOf(pc'[d]) = "idle" /\ SeenThen(d) = 0 /\ ToldThen(d) = -1
    BY <1>1 DEF StageOf, SeenThen, SignInOf, ToldThen, ToldOf
  <1>3. /\ StageMap' = [d \in Callers |-> "idle"] /\ SeenMap' = [d \in Callers |-> 0]
        /\ ToldMap' = [d \in Callers |-> -1]
    BY <1>2, MappedThen
  <1>4. LoginOf(store)' = LoginOf(store)
    BY <1>1 DEF LoginOf
  <1> QED
    BY <1>3, <1>4
    DEF Source!Restart, StageMap, SeenMap, ToldMap, StageOf, Seen, SignInOf, Told, ToldOf, LoginOf

LEMMA SourceInitial == Init => Source!Init
  <1> SUFFICES ASSUME Init PROVE Source!Init
    OBVIOUS
  <1>1. /\ pc = [c \in Callers |-> "idle"] /\ held = [c \in Callers |-> NoSession]
        /\ result = [c \in Callers |-> Failure]
    BY DEF Init
  <1>2. SignInsInv /\ issued <= MaxGrants /\ issued \in Nat
    BY SignInsInit, TypeInit, IssuedNumber DEF TypeInv
  <1>3. LoginOf(store) \in Grants \cup {0}
    BY <1>2, GrantsAssumption DEF SignInsInv, LedgerKept, Recorded, OneSignIn, LoginOf
  <1>4. \A d \in Callers : StageOf(pc[d]) = "idle" /\ Seen(d) = 0 /\ Told(d) = -1
    BY <1>1 DEF StageOf, Seen, SignInOf, Told, ToldOf
  <1>5. /\ StageMap = [d \in Callers |-> "idle"] /\ SeenMap = [d \in Callers |-> 0]
        /\ ToldMap = [d \in Callers |-> -1]
    BY <1>4 DEF StageMap, SeenMap, ToldMap
  <1> QED
    BY <1>3, <1>5 DEF Source!Init, StageMap, SeenMap, ToldMap, StageOf, Seen, SignInOf, Told, ToldOf, LoginOf

LEMMA SourceSteps ==
    ASSUME ManagerInv, [Next]_vars
    PROVE  [Source!Next]_(Source!tokenVars)
  <1>1. LedgerGrows
    BY LedgerStep DEF ManagerInv
  <1>2. ASSUME NEW c \in Callers, Call(c) \/ Load(c) \/ Receive(c) \/ Save(c) \/ Clear(c) \/ Abort(c)
        PROVE  \/ Source!Ask(c) \/ Source!CallStep(c) \/ Source!Abandon(c)
               \/ UNCHANGED Source!tokenVars
    BY <1>1, <1>2, CallAsks, LoadIsAnswer, LockingRenews, ReplyIsGivingUp, EndIsRenewal, AbortAbandons
    DEF Load, Source!CallStep
  <1>3. CASE Next
    BY <1>1, <1>2, <1>3, QuietSteps, UserSignsInOrOut, RestartRestarts DEF Next, Source!Next
  <1>4. CASE UNCHANGED vars
    BY <1>1, <1>4, QuietSteps
  <1> QED
    BY <1>3, <1>4

(* What callers may assume of `access_token` (manager.rs). Every step of   *)
(* the manager is a step of TokenSource or changes nothing that it shows:  *)
(* a call is told a token of the sign-in it read, "signed out" or an       *)
(* error, and a renewal writes that sign-in back, whatever else signs in   *)
(* or out, is aborted or restarts meanwhile.                               *)
THEOREM ManagerIsTokenSource == Spec => ImplementsTokenSource
  BY SourceInitial, SourceSteps, ManagerAlways, PTL DEF Spec, Source!Spec, ImplementsTokenSource

------------------------------------------------------------------------------
(* What could renew a session. While no grant has been lost, the only live *)
(* refresh token of a sign-in is the one that its session carries: in the  *)
(* store, in a call, in a reply on its way, or in a pending sign-in, which *)
(* is nobody else's.                                                       *)
OnlyOwn(alive, book, access, refresh) ==
    \A r \in alive : book[r].login = book[access].login => r = refresh

Strangers(book, access, s) == s # NoSession => book[s.access].login # book[access].login

CallOwns(alive, book, at, s, r) ==
    /\ at = "clearing" => OnlyOwn(alive, book, s.access, 0)
    /\ at = "saving" => OnlyOwn(alive, book, s.access, s.refresh)
    /\ at = "refreshing" =>
         OnlyOwn(alive, book, s.access, IF r.tokens.refresh # 0 THEN r.tokens.refresh ELSE s.refresh)
    /\ at = "refreshing" /\ r.kind = "rejected" => s.refresh \notin alive

OwnLogin ==
    login # NoLogin =>
        /\ Strangers(ledger, login.tokens.access, store)
        /\ \A c \in Callers : Strangers(ledger, login.tokens.access, held[c])

Owned ==
    /\ \A c \in Callers : CallOwns(live, ledger, pc[c], held[c], reply[c])
    /\ login # NoLogin => OnlyOwn(live, ledger, login.tokens.access, login.tokens.refresh)
    /\ \/ store = NoSession \/ OnlyOwn(live, ledger, store.access, store.refresh)
       \/ \E c \in Callers : Bringing(c)

LiveInv == OwnLogin /\ (~lost => Owned)

(* Nothing brings a replacement: the store's session is the current one.   *)
LEMMA StoreOwns ==
    ASSUME ManagerInv, LiveInv, ~lost, store # NoSession, \A c \in Callers : ~Bringing(c)
    PROVE  OnlyOwn(live, ledger, store.access, store.refresh)
  BY DEF LiveInv, Owned

LEMMA OnlyOneBrings ==
    ASSUME ManagerInv, NEW c \in Callers, lock = NoCaller \/ (pc[c] \in Working /\ ~Bringing(c))
    PROVE  \A d \in Callers : ~Bringing(d)
  BY CallersAssumption DEF ManagerInv, LockInv, Bringing

(* The end of a call.                                                      *)
LEMMA LiveReturn ==
    ASSUME ManagerInv, LiveInv, NEW c \in Callers, NEW r, Return(c, r), lost \in BOOLEAN,
           ~lost' => ~lost /\ (store' = NoSession \/ OnlyOwn(live, ledger, store'.access, store'.refresh)),
           login # NoLogin => Strangers(ledger, login.tokens.access, store')
    PROVE  LiveInv'
  <1>1. /\ held' = [held EXCEPT ![c] = NoSession] /\ reply' = [reply EXCEPT ![c] = NoReply]
        /\ pc' = [pc EXCEPT ![c] = "idle"] /\ UNCHANGED <<login, issued, live, ledger>>
    BY DEF Return, providerVars
  <1>2. /\ held'[c] = NoSession /\ reply'[c] = NoReply /\ pc'[c] = "idle"
        /\ \A d \in Callers \ {c} : held'[d] = held[d] /\ reply'[d] = reply[d] /\ pc'[d] = pc[d]
    BY <1>1 DEF ManagerInv, TypeInv, TypeOK
  <1>3. OwnLogin'
    BY <1>1, <1>2 DEF LiveInv, OwnLogin, Strangers
  <1>4. ASSUME ~lost' PROVE Owned'
    <2>1. CallOwns(live', ledger', pc'[c], held'[c], reply'[c])
      BY <1>2 DEF CallOwns
    <2>2. \A d \in Callers \ {c} : CallOwns(live', ledger', pc'[d], held'[d], reply'[d])
      BY <1>1, <1>2, <1>4 DEF LiveInv, Owned
    <2> QED
      BY <1>1, <1>4, <2>1, <2>2 DEF LiveInv, Owned
  <1> QED
    BY <1>3, <1>4 DEF LiveInv

LEMMA LiveLoad ==
    ASSUME ManagerInv, LiveInv, NEW c \in Callers, Load(c)
    PROVE  LiveInv'
  <1>1. pc[c] = "queued" /\ lock = NoCaller /\ UNCHANGED <<store, lost>> /\ lost \in BOOLEAN
    BY DEF Load, LoadFails, FindNoSession, UseStored, FindDead, StartRefresh, Locks, KeepLock,
       ManagerInv, TypeInv, TypeOK
  <1>2. \A d \in Callers : ~Bringing(d)
    BY <1>1, OnlyOneBrings
  <1>3. ~lost /\ store # NoSession => OnlyOwn(live, ledger, store.access, store.refresh)
    BY <1>2, StoreOwns
  <1>4. login # NoLogin => Strangers(ledger, login.tokens.access, store)
    BY DEF LiveInv, OwnLogin
  <1>5. CASE LoadFails(c) \/ FindNoSession(c) \/ UseStored(c)
    <2>1. \E r : Return(c, r)
      BY <1>5 DEF LoadFails, FindNoSession, UseStored
    <2> QED
      BY <1>1, <1>3, <1>4, <2>1, LiveReturn
  <1>6. CASE FindDead(c) \/ StartRefresh(c)
    <2>1. PICK stage \in Working : /\ KeepLock(c, stage) /\ store # NoSession
                                   /\ stage = "refreshing" \/ (stage = "clearing" /\ store.refresh = 0)
      BY <1>6 DEF FindDead, StartRefresh
    <2>2. /\ held' = [held EXCEPT ![c] = store] /\ pc' = [pc EXCEPT ![c] = stage]
          /\ UNCHANGED <<reply, login, live, ledger>>
      BY <2>1 DEF KeepLock, providerVars
    <2>3. /\ held'[c] = store /\ pc'[c] = stage /\ reply'[c] = NoReply
          /\ \A d \in Callers \ {c} : held'[d] = held[d] /\ pc'[d] = pc[d] /\ reply'[d] = reply[d]
      BY <1>1, <2>2 DEF ManagerInv, TypeInv, TypeOK, LockInv
    <2>4. OwnLogin'
      BY <1>1, <2>2, <2>3 DEF LiveInv, OwnLogin
    <2>5. ASSUME ~lost PROVE Owned'
      <3>1. CallOwns(live', ledger', pc'[c], held'[c], reply'[c])
        BY <1>3, <2>1, <2>2, <2>3, <2>5, NoTokens DEF CallOwns
      <3>2. \A d \in Callers \ {c} : CallOwns(live', ledger', pc'[d], held'[d], reply'[d])
        BY <2>2, <2>3, <2>5 DEF LiveInv, Owned
      <3> QED
        BY <1>1, <1>3, <2>1, <2>2, <2>5, <3>1, <3>2 DEF LiveInv, Owned
    <2> QED
      BY <1>1, <2>4, <2>5 DEF LiveInv
  <1> QED
    BY <1>5, <1>6 DEF Load

LEMMA LiveReceive ==
    ASSUME ManagerInv, LiveInv, NEW c \in Callers, Receive(c)
    PROVE  LiveInv'
  <1>1. pc[c] = "refreshing" /\ UNCHANGED <<store, lost>> /\ lost \in BOOLEAN
    BY DEF Receive, ReceiveTokens, ReceiveRejection, FallBack, ReceiveGarbage, Awaiting,
       ManagerInv, TypeInv, TypeOK
  <1>2. login # NoLogin => /\ Strangers(ledger, login.tokens.access, store)
                           /\ Strangers(ledger, login.tokens.access, held[c])
    BY DEF LiveInv, OwnLogin
  <1>3. held[c] # NoSession
    BY <1>1, HeldSignIn
  <1>4. ~lost => OnlyOwn(live, ledger, held[c].access,
                         IF reply[c].tokens.refresh # 0 THEN reply[c].tokens.refresh ELSE held[c].refresh)
    BY <1>1 DEF LiveInv, Owned, CallOwns
  <1>5. CASE ReceiveTokens(c)
    <2> DEFINE s == Refreshed(reply[c].tokens, held[c], asked[c])
    <2>1. /\ ledger[s.access].login = ledger[held[c].access].login
          /\ s.refresh = Carried(c)
      BY <1>1, <1>5, RenewedSignIn DEF ReceiveTokens, ManagerInv
    <2>2. /\ held' = [held EXCEPT ![c] = s] /\ pc' = [pc EXCEPT ![c] = "saving"]
          /\ reply' = [reply EXCEPT ![c] = NoReply] /\ UNCHANGED <<login, live, ledger>>
      BY <1>5 DEF ReceiveTokens, providerVars
    <2> HIDE DEF s
    <2>3. /\ held'[c] = s /\ pc'[c] = "saving" /\ reply'[c] = NoReply
          /\ \A d \in Callers \ {c} : held'[d] = held[d] /\ pc'[d] = pc[d] /\ reply'[d] = reply[d]
      BY <2>2 DEF ManagerInv, TypeInv, TypeOK
    <2>4. login # NoLogin => Strangers(ledger, login.tokens.access, s)
      BY <1>2, <1>3, <2>1 DEF Strangers
    <2>5. OwnLogin'
      BY <1>1, <2>2, <2>3, <2>4 DEF LiveInv, OwnLogin
    <2>6. ASSUME ~lost PROVE Owned'
      <3>1. OnlyOwn(live, ledger, s.access, s.refresh)
        BY <1>4, <2>1, <2>6 DEF OnlyOwn, Carried
      <3>2. CallOwns(live', ledger', pc'[c], held'[c], reply'[c])
        BY <2>2, <2>3, <3>1, NoTokens DEF CallOwns
      <3>3. \A d \in Callers \ {c} : CallOwns(live', ledger', pc'[d], held'[d], reply'[d])
        BY <2>2, <2>3, <2>6 DEF LiveInv, Owned
      <3>4. Bringing(c)'
        BY <2>3 DEF Bringing
      <3> QED
        BY <2>2, <2>6, <3>2, <3>3, <3>4 DEF LiveInv, Owned
    <2> QED
      BY <1>1, <2>5, <2>6 DEF LiveInv
  <1>6. ASSUME reply[c].kind # "tokens"
        PROVE  ~lost /\ store # NoSession => OnlyOwn(live, ledger, store.access, store.refresh)
    <2>1. ~Bringing(c)
      BY <1>1, <1>6 DEF Bringing
    <2> QED
      BY <1>1, <2>1, OnlyOneBrings, StoreOwns
  <1>7. CASE ReceiveRejection(c)
    <2>1. /\ reply' = [reply EXCEPT ![c] = NoReply] /\ pc' = [pc EXCEPT ![c] = "clearing"]
          /\ reply[c].kind = "rejected" /\ UNCHANGED <<held, login, live, ledger>>
      BY <1>7 DEF ReceiveRejection, providerVars
    <2>2. /\ pc'[c] = "clearing" /\ reply'[c] = NoReply
          /\ \A d \in Callers \ {c} : pc'[d] = pc[d] /\ reply'[d] = reply[d]
      BY <2>1 DEF ManagerInv, TypeInv, TypeOK
    <2>3. OwnLogin'
      BY <1>1, <2>1 DEF LiveInv, OwnLogin
    <2>4. ASSUME ~lost PROVE Owned'
      <3>1. held[c].refresh \notin live
        BY <1>1, <2>1, <2>4 DEF LiveInv, Owned, CallOwns
      <3>2. OnlyOwn(live, ledger, held[c].access, held[c].refresh)
        BY <1>4, <2>1, <2>4, NoTokens DEF ManagerInv, SpentInv, EmptyReplies
      <3>3. OnlyOwn(live, ledger, held[c].access, 0)
        BY <3>1, <3>2 DEF OnlyOwn
      <3>4. CallOwns(live', ledger', pc'[c], held'[c], reply'[c])
        BY <2>1, <2>2, <3>3 DEF CallOwns
      <3>5. \A d \in Callers \ {c} : CallOwns(live', ledger', pc'[d], held'[d], reply'[d])
        BY <2>1, <2>2, <2>4 DEF LiveInv, Owned
      <3> QED
        BY <1>1, <1>6, <2>1, <2>4, <3>4, <3>5 DEF LiveInv, Owned
    <2> QED
      BY <1>1, <2>3, <2>4 DEF LiveInv
  <1>8. CASE FallBack(c) \/ ReceiveGarbage(c)
    <2>1. reply[c].kind # "tokens" /\ \E r : Return(c, r)
      BY <1>8 DEF FallBack, ReceiveGarbage
    <2> QED
      BY <1>1, <1>2, <1>6, <2>1, LiveReturn
  <1> QED
    BY <1>5, <1>7, <1>8 DEF Receive

LEMMA LiveEnd ==
    ASSUME ManagerInv, LiveInv, NEW c \in Callers, Save(c) \/ Clear(c)
    PROVE  LiveInv'
  <1>1. pc[c] \in Working /\ lost \in BOOLEAN /\ \E r : Return(c, r)
    BY DEF Save, Clear, ManagerInv, TypeInv, TypeOK
  <1>2. login # NoLogin => /\ Strangers(ledger, login.tokens.access, store)
                           /\ Strangers(ledger, login.tokens.access, held[c])
                           /\ Strangers(ledger, login.tokens.access, NoSession)
    BY DEF LiveInv, OwnLogin, Strangers
  <1>3. CASE Save(c)
    <2>1. ~lost => OnlyOwn(live, ledger, held[c].access, held[c].refresh)
      BY <1>3 DEF Save, LiveInv, Owned, CallOwns
    <2>2. store' \in {store, held[c]} /\ (~lost' => ~lost /\ store' = held[c])
      BY <1>1, <1>3 DEF Save
    <2>3. login # NoLogin => Strangers(ledger, login.tokens.access, store')
      BY <1>2, <2>2
    <2>4. ~lost' => ~lost /\ OnlyOwn(live, ledger, store'.access, store'.refresh)
      BY <2>1, <2>2
    <2> QED
      BY <1>1, <2>3, <2>4, LiveReturn
  <1>4. CASE Clear(c)
    <2>1. \A d \in Callers : ~Bringing(d)
      <3>1. ~Bringing(c)
        BY <1>4 DEF Clear, Bringing
      <3> QED
        BY <1>1, <3>1, OnlyOneBrings
    <2>2. ~lost /\ store # NoSession => OnlyOwn(live, ledger, store.access, store.refresh)
      BY <2>1, StoreOwns
    <2>3. store' \in {store, NoSession} /\ UNCHANGED lost
      BY <1>4 DEF Clear
    <2>4. login # NoLogin => Strangers(ledger, login.tokens.access, store')
      BY <1>2, <2>3
    <2> QED
      BY <1>1, <2>2, <2>3, <2>4, LiveReturn
  <1> QED
    BY <1>3, <1>4

(* A record more does not change whose the earlier tokens are.             *)
LEMMA OwnStands ==
    ASSUME ManagerInv, LedgerGrows, NEW alive, NEW a \in 1..issued, NEW r,
           OnlyOwn(live, ledger, a, r),
           \A q \in alive : q \in live \/ ledger'[q].login # ledger[a].login \/ q = r
    PROVE  OnlyOwn(alive, ledger', a, r)
  <1>1. live \subseteq 1..issued
    BY DEF ManagerInv, SpentInv, Numbered
  <1> QED
    BY <1>1 DEF OnlyOwn, LedgerGrows

(* Where the sign-ins of all that is under way are recorded.               *)
LEMMA UnderWay ==
    ASSUME ManagerInv
    PROVE  /\ store # NoSession => store.access \in 1..issued
           /\ login # NoLogin => login.tokens.access \in 1..issued
           /\ \A c \in Callers : held[c] # NoSession => held[c].access \in 1..issued
           /\ \A c \in Callers : pc[c] \in Working => held[c] # NoSession
           /\ live \subseteq 1..issued /\ issued \in Nat
  BY IssuedNumber DEF ManagerInv, TypeInv, SignInsInv, CallRecorded, Recorded, OneSignIn, SpentInv, Numbered

LEMMA StrangersStand ==
    ASSUME ManagerInv, LiveInv, LedgerGrows
    PROVE  login # NoLogin =>
             /\ Strangers(ledger', login.tokens.access, store)
             /\ \A c \in Callers : Strangers(ledger', login.tokens.access, held[c])
  <1>1. \A a \in 1..issued : ledger'[a] = ledger[a]
    BY DEF LedgerGrows
  <1> QED
    BY <1>1, UnderWay DEF LiveInv, OwnLogin, Strangers

LEMMA LiveGrant ==
    ASSUME ManagerInv, LiveInv, LedgerGrows, NEW c \in Callers, Grant(c)
    PROVE  LiveInv'
  <1> DEFINE g == issued + 1
             old == held[c].refresh
  <1>1. /\ pc[c] = "refreshing" /\ reply[c].kind = "none" /\ old \in live
        /\ UNCHANGED <<store, pc, held, login>>
    BY DEF Grant, Waiting, managerVars
  <1>2. PICK life \in Lifetimes, rotates \in BOOLEAN :
          /\ issued' = g /\ issued < MaxGrants
          /\ live' = IF rotates THEN (live \ {old}) \cup {g} ELSE live
          /\ ledger' = [ledger EXCEPT ![g] = [login |-> ledger[old].login, until |-> now + life]]
          /\ \/ /\ Reply(c, "tokens", [access |-> g, life |-> life,
                                       refresh |-> IF rotates THEN g ELSE 0])
                /\ UNCHANGED lost
             \/ lost' = TRUE
    BY DEF Grant
  <1>3. OwnLogin'
    BY <1>1, StrangersStand DEF OwnLogin
  <1>4. ASSUME ~lost' PROVE Owned'
    <2>1. /\ ~lost
          /\ Reply(c, "tokens", [access |-> g, life |-> life, refresh |-> IF rotates THEN g ELSE 0])
      BY <1>2, <1>4
    <2>2. /\ reply'[c].kind = "tokens" /\ reply'[c].tokens.refresh = (IF rotates THEN g ELSE 0)
          /\ \A d \in Callers \ {c} : reply'[d] = reply[d]
      BY <2>1 DEF Reply, ManagerInv, TypeInv, TypeOK
    <2>3. /\ old \in 1..issued /\ g \notin live /\ g # 0 /\ issued \in Nat /\ g \in Grants
          /\ held[c] # NoSession /\ held[c].access \in 1..issued
      BY <1>1, <1>2, UnderWay, IssuedNumber DEF ManagerInv, TypeInv
    <2>4. old # 0 /\ ledger[old].login = ledger[held[c].access].login
      BY <2>3 DEF ManagerInv, SignInsInv, CallRecorded, Recorded, OneSignIn
    <2>5. ledger'[g].login = ledger[old].login
      BY <1>2, <2>3 DEF ManagerInv, TypeInv, TypeOK
    <2>6. OnlyOwn(live, ledger, held[c].access, old)
      BY <1>1, <2>1, NoTokens DEF LiveInv, Owned, CallOwns, ManagerInv, SpentInv, EmptyReplies
    <2>7. \A q \in 1..issued : ledger'[q] = ledger[q]
      BY DEF LedgerGrows
    <2>8. CallOwns(live', ledger', pc'[c], held'[c], reply'[c])
      <3>1. live \subseteq 1..issued
        BY UnderWay
      <3>2. CASE rotates
        <4>1. live' = (live \ {old}) \cup {g} /\ reply'[c].tokens.refresh = g
          BY <1>2, <2>2, <3>2
        <4>2. OnlyOwn(live', ledger', held[c].access, g)
          BY <2>3, <2>6, <2>7, <3>1, <4>1 DEF OnlyOwn
        <4> QED
          BY <1>1, <2>2, <2>3, <4>1, <4>2 DEF CallOwns
      <3>3. CASE ~rotates
        <4>1. live' = live /\ reply'[c].tokens.refresh = 0
          BY <1>2, <2>2, <3>3
        <4>2. OnlyOwn(live', ledger', held[c].access, old)
          BY <2>3, <2>6, <2>7, <3>1, <4>1 DEF OnlyOwn
        <4> QED
          BY <1>1, <2>2, <4>1, <4>2 DEF CallOwns
      <3> QED
        BY <3>2, <3>3
    <2>9. \A d \in Callers \ {c} : CallOwns(live', ledger', pc'[d], held'[d], reply'[d])
      <3>1. \A d \in Callers \ {c} : pc'[d] \notin Working
        BY <1>1 DEF ManagerInv, LockInv
      <3> QED
        BY <3>1 DEF CallOwns
    <2>10. login' # NoLogin => OnlyOwn(live', ledger', login'.tokens.access, login'.tokens.refresh)
      <3> SUFFICES ASSUME login # NoLogin
                   PROVE  OnlyOwn(live', ledger', login.tokens.access, login.tokens.refresh)
        BY <1>1
      <3>1. login.tokens.access \in 1..issued
        BY UnderWay
      <3>2. OnlyOwn(live, ledger, login.tokens.access, login.tokens.refresh)
        BY <2>1 DEF LiveInv, Owned
      <3>3. ledger[held[c].access].login # ledger[login.tokens.access].login
        BY <2>3 DEF LiveInv, OwnLogin, Strangers
      <3>4. \A q \in live' : q \in live \/ ledger'[q].login # ledger[login.tokens.access].login
        BY <1>2, <2>4, <2>5, <3>3
      <3> QED
        BY <3>1, <3>2, <3>4, OwnStands
    <2>11. Bringing(c)'
      BY <1>1, <2>2 DEF Bringing
    <2> QED
      BY <2>8, <2>9, <2>10, <2>11 DEF Owned
  <1> QED
    BY <1>3, <1>4 DEF LiveInv

LEMMA LiveRefused ==
    ASSUME ManagerInv, LiveInv, NEW c \in Callers, Reject(c) \/ RequestFails(c)
    PROVE  LiveInv'
  <1>1. /\ pc[c] = "refreshing" /\ reply[c].kind = "none"
        /\ UNCHANGED <<store, pc, held, login, live, ledger, lost>>
        /\ \E kind \in {"rejected", "transient"} :
             /\ Reply(c, kind, NoBundle)
             /\ kind = "rejected" => held[c].refresh \notin live
    BY DEF Reject, RequestFails, Waiting, managerVars, providerVars
  <1>2. /\ reply'[c].kind \in {"rejected", "transient"} /\ reply'[c].tokens = NoBundle
        /\ reply'[c].kind = "rejected" => held[c].refresh \notin live
        /\ \A d \in Callers \ {c} : reply'[d] = reply[d]
    BY <1>1 DEF Reply, ManagerInv, TypeInv, TypeOK
  <1>3. OwnLogin'
    BY <1>1 DEF LiveInv, OwnLogin
  <1>4. ASSUME ~lost PROVE Owned'
    <2>1. reply[c].tokens = NoBundle
      BY <1>1 DEF ManagerInv, SpentInv, EmptyReplies
    <2>2. CallOwns(live', ledger', pc'[c], held'[c], reply'[c])
      BY <1>1, <1>2, <1>4, <2>1 DEF LiveInv, Owned, CallOwns
    <2>3. \A d \in Callers \ {c} : CallOwns(live', ledger', pc'[d], held'[d], reply'[d])
      BY <1>1, <1>2, <1>4 DEF LiveInv, Owned
    <2>4. \A d \in Callers : ~Bringing(d)
      <3>1. ~Bringing(c)
        BY <1>1 DEF Bringing
      <3> QED
        BY <1>1, <3>1, OnlyOneBrings
    <2>5. store # NoSession => OnlyOwn(live, ledger, store.access, store.refresh)
      BY <1>4, <2>4, StoreOwns
    <2> QED
      BY <1>1, <1>4, <2>2, <2>3, <2>5 DEF LiveInv, Owned
  <1> QED
    BY <1>1, <1>3, <1>4 DEF LiveInv

LEMMA LiveCalls ==
    ASSUME ManagerInv, LiveInv, NEW c \in Callers, Call(c) \/ Abort(c)
    PROVE  LiveInv'
  <1>1. /\ pc'[c] \in {"idle", "queued"}
        /\ \A d \in Callers \ {c} : held'[d] = held[d] /\ pc'[d] = pc[d] /\ reply'[d] = reply[d]
        /\ held'[c] \in {held[c], NoSession}
        /\ UNCHANGED <<store, login, live, ledger>>
        /\ ~lost' => ~lost /\ ~Bringing(c)
    <2>1. CASE Call(c)
      BY <2>1 DEF Call, providerVars, ManagerInv, TypeInv, TypeOK, Bringing
    <2>2. CASE Abort(c)
      BY <2>2 DEF Abort, providerVars, ManagerInv, TypeInv, TypeOK, Bringing
    <2> QED
      BY <2>1, <2>2
  <1>2. OwnLogin'
    BY <1>1 DEF LiveInv, OwnLogin, Strangers
  <1>3. ASSUME ~lost' PROVE Owned'
    <2>1. CallOwns(live', ledger', pc'[c], held'[c], reply'[c])
      BY <1>1 DEF CallOwns
    <2>2. \A d \in Callers \ {c} : CallOwns(live', ledger', pc'[d], held'[d], reply'[d])
      BY <1>1, <1>3 DEF LiveInv, Owned
    <2>3. \A d \in Callers : Bringing(d) => Bringing(d)'
      BY <1>1, <1>3 DEF Bringing
    <2> QED
      BY <1>1, <1>3, <2>1, <2>2, <2>3 DEF LiveInv, Owned
  <1> QED
    BY <1>2, <1>3 DEF LiveInv

LEMMA LiveApproved ==
    ASSUME ManagerInv, LiveInv, LedgerGrows, ApproveLogin
    PROVE  LiveInv'
  <1> DEFINE g == issued + 1
  <1>1. login = NoLogin /\ UNCHANGED <<store, pc, held, reply, lost>>
    BY DEF ApproveLogin, managerVars
  <1>2. PICK life \in Lifetimes, r \in {0, g} :
          /\ issued' = g /\ issued < MaxGrants
          /\ live' = live \cup ({r} \ {0})
          /\ ledger' = [ledger EXCEPT ![g] = [login |-> g, until |-> now + life]]
          /\ login' = [tokens |-> [access |-> g, refresh |-> r, life |-> life], at |-> now]
    BY DEF ApproveLogin
  <1>3. issued \in Nat /\ g \in Grants /\ live \subseteq 1..issued /\ g \notin 1..issued
    BY <1>2, UnderWay, IssuedNumber DEF ManagerInv, TypeInv
  <1>4. ledger'[g].login = g
    BY <1>2, <1>3 DEF ManagerInv, TypeInv, TypeOK
  <1>5. \A q \in 1..issued : ledger'[q] = ledger[q] /\ ledger[q].login # g
    BY <1>3 DEF LedgerGrows, ManagerInv, SignInsInv, LedgerKept
  <1>6. login'.tokens.access = g /\ login'.tokens.refresh = r
    BY <1>2
  <1> HIDE DEF g
  <1>7. OwnLogin'
    BY <1>1, <1>4, <1>5, <1>6, UnderWay DEF OwnLogin, Strangers
  <1>8. \A q \in live' : q \in live \/ q = g
    BY <1>2
  <1>9. ASSUME NEW a \in 1..issued, NEW o, OnlyOwn(live, ledger, a, o)
        PROVE  OnlyOwn(live', ledger', a, o)
    BY <1>3, <1>4, <1>5, <1>8, <1>9 DEF OnlyOwn
  <1>10. ASSUME ~lost PROVE Owned'
    <2>1. OnlyOwn(live', ledger', g, r)
      <3>1. \A q \in live : ledger'[q].login # g
        BY <1>3, <1>5
      <3>2. \A q \in live' : q \in live \/ q = r
        BY <1>2
      <3> QED
        BY <1>4, <3>1, <3>2 DEF OnlyOwn
    <2>2. ASSUME NEW c \in Callers PROVE CallOwns(live', ledger', pc'[c], held'[c], reply'[c])
      <3>1. CallOwns(live, ledger, pc[c], held[c], reply[c])
        BY <1>10 DEF LiveInv, Owned
      <3>2. CASE pc[c] \notin Working
        BY <1>1, <3>2 DEF CallOwns
      <3>3. CASE pc[c] \in Working
        <4>1. held[c].access \in 1..issued
          BY <3>3, UnderWay
        <4>2. pc[c] = "refreshing" /\ reply[c].kind = "rejected" => held[c].refresh \notin live'
          <5>1. held[c].refresh \in 0..issued
            BY <3>3, UnderWay DEF ManagerInv, SignInsInv, CallRecorded, Recorded, OneSignIn
          <5>2. held[c].refresh # g
            BY <1>3, <5>1 DEF g
          <5> QED
            BY <1>8, <3>1, <5>2 DEF CallOwns
        <4> QED
          BY <1>1, <1>9, <3>1, <4>1, <4>2 DEF CallOwns
      <3> QED
        BY <3>2, <3>3
    <2>3. \/ store' = NoSession \/ OnlyOwn(live', ledger', store'.access, store'.refresh)
          \/ \E c \in Callers : Bringing(c)'
      <3>1. CASE store = NoSession
        BY <1>1, <3>1
      <3>2. CASE OnlyOwn(live, ledger, store.access, store.refresh) /\ store # NoSession
        BY <1>1, <1>9, <3>2, UnderWay
      <3>3. CASE \E c \in Callers : Bringing(c)
        BY <1>1, <3>3 DEF Bringing
      <3> QED
        BY <1>10, <3>1, <3>2, <3>3 DEF LiveInv, Owned
    <2> QED
      BY <1>6, <2>1, <2>2, <2>3 DEF Owned
  <1> QED
    BY <1>1, <1>7, <1>10 DEF LiveInv

LEMMA LiveUser ==
    ASSUME ManagerInv, LiveInv,
           CompleteLogin \/ LoseLogin \/ SignOut \/ Revoke \/ Tick \/ UNCHANGED vars
    PROVE  LiveInv'
  <1>1. UNCHANGED <<pc, held, reply, ledger, lost>> /\ live' \subseteq live
        /\ login' \in {login, NoLogin}
    BY DEF CompleteLogin, LoseLogin, SignOut, Revoke, Tick, vars, managerVars, providerVars
  <1>2. store' \in {store, NoSession} \/ (login # NoLogin /\ login' = NoLogin /\ live' = live
            /\ store'.access = login.tokens.access /\ store'.refresh = login.tokens.refresh)
    BY DEF CompleteLogin, LoseLogin, SignOut, Revoke, Tick, vars, providerVars, FromTokens
  <1>3. OwnLogin'
    BY <1>1, <1>2 DEF LiveInv, OwnLogin, Strangers
  <1>4. \A a, o : OnlyOwn(live, ledger, a, o) => OnlyOwn(live', ledger', a, o)
    BY <1>1 DEF OnlyOwn
  <1>5. ASSUME ~lost PROVE Owned'
    <2>1. ASSUME NEW c \in Callers PROVE CallOwns(live', ledger', pc'[c], held'[c], reply'[c])
      <3>1. CallOwns(live, ledger, pc[c], held[c], reply[c])
        BY <1>5 DEF LiveInv, Owned
      <3> QED
        BY <1>1, <1>4, <3>1 DEF CallOwns
    <2>2. login' # NoLogin => OnlyOwn(live', ledger', login'.tokens.access, login'.tokens.refresh)
      BY <1>1, <1>4, <1>5 DEF LiveInv, Owned
    <2>3. login # NoLogin => OnlyOwn(live', ledger', login.tokens.access, login.tokens.refresh)
      BY <1>4, <1>5 DEF LiveInv, Owned
    <2>4. \/ store = NoSession \/ OnlyOwn(live', ledger', store.access, store.refresh)
          \/ \E c \in Callers : Bringing(c)'
      BY <1>1, <1>4, <1>5 DEF LiveInv, Owned, Bringing
    <2>5. \/ store' = NoSession \/ OnlyOwn(live', ledger', store'.access, store'.refresh)
          \/ \E c \in Callers : Bringing(c)'
      BY <1>2, <2>3, <2>4
    <2> QED
      BY <2>1, <2>2, <2>5 DEF Owned
  <1> QED
    BY <1>1, <1>3, <1>5 DEF LiveInv

LEMMA LiveRestart ==
    ASSUME ManagerInv, LiveInv, Restart
    PROVE  LiveInv'
  <1>1. /\ held' = [c \in Callers |-> NoSession] /\ reply' = [c \in Callers |-> NoReply]
        /\ pc' = [c \in Callers |-> "idle"] /\ login' = NoLogin /\ UNCHANGED <<store, live, ledger>>
        /\ ~lost' => ~lost /\ \A c \in Callers : ~Bringing(c)
    BY DEF Restart, providerVars, Bringing
  <1>2. OwnLogin'
    BY <1>1 DEF OwnLogin
  <1>3. ASSUME ~lost' PROVE Owned'
    <2>1. \A c \in Callers : CallOwns(live', ledger', pc'[c], held'[c], reply'[c])
      BY <1>1 DEF CallOwns
    <2>2. store # NoSession => OnlyOwn(live, ledger, store.access, store.refresh)
      BY <1>1, <1>3, StoreOwns
    <2> QED
      BY <1>1, <2>1, <2>2 DEF Owned
  <1> QED
    BY <1>2, <1>3 DEF LiveInv

LEMMA LiveInit == Init => LiveInv
  <1> SUFFICES ASSUME Init PROVE LiveInv
    OBVIOUS
  <1>1. /\ held = [c \in Callers |-> NoSession] /\ pc = [c \in Callers |-> "idle"] /\ login = NoLogin
    BY DEF Init
  <1>2. \A c \in Callers : CallOwns(live, ledger, pc[c], held[c], reply[c])
    BY <1>1 DEF CallOwns
  <1>3. store = NoSession \/ OnlyOwn(live, ledger, store.access, store.refresh)
    <2> SUFFICES ASSUME store # NoSession PROVE OnlyOwn(live, ledger, store.access, store.refresh)
      OBVIOUS
    <2>1. PICK r \in {0, 1}, life \in Lifetimes \cup {0} :
            /\ store = [access |-> 1, refresh |-> r, expires |-> life] /\ live = {r} \ {0}
      BY DEF Init
    <2>2. store.refresh = r
      BY <2>1
    <2> QED
      BY <2>1, <2>2 DEF OnlyOwn
  <1> QED
    BY <1>1, <1>2, <1>3 DEF LiveInv, OwnLogin, Owned

LEMMA LiveAlways == Spec => [](ManagerInv /\ LiveInv)
  <1>1. ManagerInv /\ LiveInv /\ [Next]_vars => LiveInv'
    <2> SUFFICES ASSUME ManagerInv, LiveInv, [Next]_vars PROVE LiveInv'
      OBVIOUS
    <2>1. LedgerGrows
      BY LedgerStep DEF ManagerInv
    <2> QED
      BY <2>1, LiveLoad, LiveReceive, LiveEnd, LiveGrant, LiveRefused, LiveCalls, LiveApproved,
         LiveUser, LiveRestart DEF Next, Provider
  <1> QED
    BY <1>1, LiveInit, ManagerAlways, PTL DEF Spec

(* manager.rs: "A rejected refresh token clears the session". Whatever is  *)
(* rotated, revoked, aborted or signed in meanwhile, the session a call    *)
(* clears is one that no live refresh token of its sign-in could renew,    *)
(* unless a grant was lost on its way.                                     *)
THEOREM OnlyDeadCleared == Spec => ClearsOnlyDeadSessions
  <1>1. ASSUME ManagerInv, LiveInv, NEW c \in Callers,
               pc[c] = "clearing", held[c] = store, ~lost, NEW r \in live
        PROVE  ledger[r].login # ledger[store.access].login
    <2>1. OnlyOwn(live, ledger, held[c].access, 0)
      BY <1>1 DEF LiveInv, Owned, CallOwns
    <2>2. r # 0
      BY <1>1, UnderWay
    <2> QED
      BY <1>1, <2>1, <2>2 DEF OnlyOwn
  <1>2. ManagerInv /\ LiveInv =>
          [\A c \in Callers :
            /\ pc[c] = "clearing"
            /\ store # NoSession
            /\ store' = NoSession
            /\ pc'[c] = "idle"
            /\ held[c] = store
            /\ ~lost
            => \A r \in live : ledger[r].login # ledger[store.access].login]_vars
    BY <1>1
  <1> QED
    BY <1>2, LiveAlways, PTL DEF ClearsOnlyDeadSessions
=============================================================================
