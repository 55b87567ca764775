------------------------------ MODULE DevicePoll ------------------------------
(***************************************************************************)
(* The poll loop of the device-code sign-in, poll_for_token of tbo-auth's  *)
(* client.rs, against a provider that is slow, asks for a slower pace,     *)
(* answers with what the loop does not know, or is out of reach. The code  *)
(* was issued at time 0; the client learns of it, and starts to count, up  *)
(* to MaxDelay later. The provider decides on its answer while the client  *)
(* waits for it, and the answer may arrive long after that: the operator   *)
(* may approve, and the lifetime end, in between.                          *)
(***************************************************************************)
EXTENDS Integers, FiniteSetsExt

CONSTANTS
    Interval,       \* the interval the provider asks for, 0 for none
    Lifetime,       \* the lifetime of the code
    PollTimeout,    \* how long a poll is waited for: REQUEST_TIMEOUT
    MaxDelay,       \* bound: from the issue to the client's clock
    MaxSlowDowns    \* bound: slow_down answers

ASSUME DeviceAssumption ==
    /\ {Interval, PollTimeout, MaxDelay, MaxSlowDowns} \subseteq Nat
    /\ Lifetime \in Nat \ {0}

VARIABLES
    clock,
    began,          \* when the client began to count
    interval,
    outcome,        \* what the loop does, or returned
    until,          \* when the sleep ends, or the poll times out
    said,           \* the provider's answer to the poll, on its way
    approvedAt,     \* when the operator approved, or Never, or Declined
    slowDowns,      \* history: slow_down answers that arrived
    unheard         \* history: after the approval a poll was answered with a
                    \* slow_down or an error, or its answer was lost

deviceVars ==
    <<clock, began, interval, outcome, until, said, approvedAt, slowDowns, unheard>>

Never == -1
Declined == -2
Backoff == 5
LongestPause == Max({Interval, 1}) + Backoff * MaxSlowDowns
Horizon == Lifetime + MaxDelay + LongestPause + PollTimeout
Times == 0..Horizon

DeviceTypeOK ==
    /\ clock \in Times /\ began \in 0..MaxDelay
    /\ interval \in 1..LongestPause
    /\ outcome \in {"sleeping", "polling", "tokens", "denied", "expired", "failed"}
    /\ until \in Times
    /\ said \in {"none", "tokens", "pending", "slow_down", "denied", "expired", "error"}
    /\ approvedAt \in Times \cup {Never, Declined}
    /\ slowDowns \in 0..MaxSlowDowns
    /\ unheard \in BOOLEAN

DeviceInit ==
    /\ began \in 0..MaxDelay
    /\ clock = began
    /\ interval = Max({Interval, 1})
    /\ outcome = "sleeping"
    /\ until = began + interval
    /\ said = "none"
    /\ approvedAt = Never
    /\ slowDowns = 0
    /\ unheard = FALSE

Deadline == began + Lifetime
Approved == approvedAt \in Times

Waiting == outcome \in {"sleeping", "polling"}

SecondPasses ==
    /\ Waiting /\ clock < until
    /\ clock' = clock + 1
    /\ UNCHANGED <<began, interval, outcome, until, said, approvedAt, slowDowns, unheard>>

(* The operator approves or declines while the code lives.                 *)
Decides(at) ==
    /\ Waiting /\ approvedAt = Never /\ clock < Lifetime
    /\ approvedAt' = at
    /\ UNCHANGED <<clock, began, interval, outcome, until, said, slowDowns, unheard>>

OperatorDecides == Decides(clock) \/ Decides(Declined)

(* The sleep is over: a poll, which is waited for until it times out.      *)
SendsPoll ==
    /\ outcome = "sleeping" /\ clock = until
    /\ outcome' = "polling"
    /\ until' = clock + PollTimeout
    /\ said' = "none"
    /\ UNCHANGED <<clock, began, interval, approvedAt, slowDowns, unheard>>

(* What may be answered now. An error is any other answer: of the provider *)
(* or of a gateway before it.                                              *)
Answerable ==
    {"slow_down", "error"}
      \cup {a \in {"expired"} : clock >= Lifetime}
      \cup {a \in {"denied"} : approvedAt = Declined}
      \cup {a \in {"tokens"} : Approved /\ clock < Lifetime}
      \cup {a \in {"pending"} : approvedAt = Never /\ clock < Lifetime}

ProviderAnswers ==
    /\ outcome = "polling" /\ said = "none"
    /\ said' \in Answerable
    /\ said' = "slow_down" => slowDowns < MaxSlowDowns
    /\ UNCHANGED <<clock, began, interval, outcome, until, approvedAt, slowDowns, unheard>>

(* The answer arrives, and the loop ends with it.                          *)
Ends(answer, how) ==
    /\ outcome = "polling" /\ said = answer
    /\ outcome' = how
    /\ UNCHANGED <<clock, began, interval, until, said, approvedAt, slowDowns>>

Redeemed == Ends("tokens", "tokens") /\ UNCHANGED unheard
Denied == Ends("denied", "denied") /\ UNCHANGED unheard
CodeExpired == Ends("expired", "expired") /\ UNCHANGED unheard

(* An answer that is not understood ends the loop too: an error of another *)
(* name or none, and a success without the tokens.                         *)
NotUnderstood ==
    /\ \E answer \in {"error", "tokens"} : Ends(answer, "failed")
    /\ unheard' = (unheard \/ Approved)

(* The loop goes on with another sleep, if there is time left.             *)
GoesOn(pause) ==
    /\ outcome = "polling"
    /\ interval' = pause
    /\ IF clock < Deadline THEN outcome' = "sleeping" /\ until' = clock + pause
       ELSE outcome' = "expired" /\ UNCHANGED until
    /\ UNCHANGED <<clock, began, said, approvedAt>>

PendingSlows ==         \* a slip: the pace slows down with every answer
    said = "pending" /\ GoesOn(interval + Backoff) /\ UNCHANGED <<slowDowns, unheard>>

Pending ==
    said = "pending" /\ GoesOn(interval) /\ UNCHANGED <<slowDowns, unheard>>

SlowDown ==
    /\ said = "slow_down" /\ GoesOn(interval + Backoff)
    /\ slowDowns' = slowDowns + 1
    /\ unheard' = (unheard \/ Approved)

(* The poll or its answer is lost, or too late: retried at the same pace.  *)
OutOfReach ==
    /\ GoesOn(interval)
    /\ unheard' = (unheard \/ Approved)
    /\ UNCHANGED slowDowns

(* The loop has returned.                                                  *)
Returned == ~Waiting /\ UNCHANGED deviceVars

DeviceNext ==
    \/ SecondPasses \/ OperatorDecides \/ SendsPoll \/ ProviderAnswers
    \/ Redeemed \/ Denied \/ CodeExpired \/ NotUnderstood
    \/ Pending \/ SlowDown \/ OutOfReach
    \/ Returned

DeviceSpec == DeviceInit /\ [][DeviceNext]_deviceVars

----------------------------------------------------------------------------
(* The loop sleeps before it looks at its deadline, slows down without     *)
(* limit, and looks again only when a poll has been answered or given up.  *)
(* Yet a code that was approved is lost only when the approval came within *)
(* the last pause that the provider itself had asked for and the time of   *)
(* two polls of the code's end (the poll under way, which may have been    *)
(* answered before, and the next one), or when a poll after it was         *)
(* answered with a slow_down or an error, or not at all.                   *)
ApprovalReaped ==
    outcome \in {"denied", "expired", "failed"} /\ Approved /\ ~unheard =>
      approvedAt + Max({Interval, 1}) + Backoff * slowDowns + 2 * PollTimeout >= Lifetime
=============================================================================
