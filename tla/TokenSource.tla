---------------------------- MODULE TokenSource ----------------------------
(***************************************************************************)
(* What the rest of the console may assume of `SessionManager::access_token`*)
(* and of the two synchronous calls beside it: which sign-in the stored    *)
(* session belongs to, who is asking for a token, and what they were told. *)
(* Nothing is said here of time, refresh tokens or the identity provider:  *)
(* SessionManager has those and implements this module.                    *)
(***************************************************************************)
CONSTANTS
    Callers,    \* the tasks that may ask for an access token
    Logins,     \* identities of the sign-ins
    None,       \* no session is stored; also the answer "signed out"
    Error       \* the answer of a call that failed

VARIABLES
    session,    \* the sign-in the stored session belongs to, or None
    stage,      \* where each caller is: "idle", "asked" or "renewing"
    seen,       \* the sign-in whose session a renewing caller read
    answer      \* what each caller was last told

tokenVars == <<session, stage, seen, answer>>

Stages == {"idle", "asked", "renewing"}
Answers == Logins \cup {None, Error}

TypeOK ==
    /\ session \in Logins \cup {None}
    /\ stage \in [Callers -> Stages]
    /\ seen \in [Callers -> Logins \cup {None}]
    /\ answer \in [Callers -> Answers]

Init ==
    /\ session \in Logins \cup {None}
    /\ stage = [c \in Callers |-> "idle"]
    /\ seen = [c \in Callers |-> None]
    /\ answer = [c \in Callers |-> Error]

----------------------------------------------------------------------------
(* The end of a call: caller c is idle again and was told a.               *)
Tell(c, a) ==
    /\ stage' = [stage EXCEPT ![c] = "idle"]
    /\ seen' = [seen EXCEPT ![c] = None]
    /\ answer' = [answer EXCEPT ![c] = a]

Ask(c) ==
    /\ stage[c] = "idle"
    /\ stage' = [stage EXCEPT ![c] = "asked"]
    /\ answer' = [answer EXCEPT ![c] = Error]
    /\ UNCHANGED <<session, seen>>

NobodyRenews == \A d \in Callers : stage[d] # "renewing"

(* A call whose session needs no renewal is answered from the store alone, *)
(* or fails because the store cannot be read.                              *)
Answer(c) ==
    /\ stage[c] = "asked"
    /\ NobodyRenews
    /\ \E a \in {session, Error} : Tell(c, a)
    /\ UNCHANGED session

(* A call that has to renew the session does so alone.                     *)
StartRenewal(c) ==
    /\ stage[c] = "asked"
    /\ NobodyRenews
    /\ session # None
    /\ stage' = [stage EXCEPT ![c] = "renewing"]
    /\ seen' = [seen EXCEPT ![c] = session]
    /\ UNCHANGED <<session, answer>>

(* The renewal succeeded. The session written is the one that was read,    *)
(* whatever became of the store in the meantime.                           *)
Renew(c) ==
    /\ stage[c] = "renewing"
    /\ session' = seen[c]
    /\ Tell(c, seen[c])

(* The session turned out to be dead and the store is emptied.             *)
Discard(c) ==
    /\ stage[c] = "renewing"
    /\ session' = None
    /\ \E a \in {None, Error} : Tell(c, a)

(* The renewal failed without a verdict: the store is left alone and the   *)
(* caller is told an error or given the token it already had.              *)
GiveUp(c) ==
    /\ stage[c] = "renewing"
    /\ \E a \in {seen[c], Error} : Tell(c, a)
    /\ UNCHANGED session

(* The calling task is gone, from wherever it was.                         *)
Abandon(c) ==
    /\ stage[c] # "idle"
    /\ Tell(c, Error)
    /\ UNCHANGED session

SignIn(l) ==
    /\ session' = l
    /\ UNCHANGED <<stage, seen, answer>>

SignOut ==
    /\ session' = None
    /\ UNCHANGED <<stage, seen, answer>>

(* The process ends and is started again: no call survives, the store does.*)
Restart ==
    /\ stage' = [c \in Callers |-> "idle"]
    /\ seen' = [c \in Callers |-> None]
    /\ answer' = [c \in Callers |-> Error]
    /\ UNCHANGED session

CallStep(c) ==
    Answer(c) \/ StartRenewal(c) \/ Renew(c) \/ Discard(c) \/ GiveUp(c)

Next ==
    \/ \E c \in Callers : Ask(c) \/ CallStep(c) \/ Abandon(c)
    \/ \E l \in Logins : SignIn(l)
    \/ SignOut
    \/ Restart

Spec == Init /\ [][Next]_tokenVars
============================================================================
