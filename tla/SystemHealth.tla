---------------------------- MODULE SystemHealth ----------------------------
(***************************************************************************)
(* The network chart of tbo-tui's data/system_health.rs: scrapes of the    *)
(* booth's counters, one at a time, and the rates tbo-metrics' series.rs   *)
(* makes of them. The gauges (processor, memory, temperature, load) go     *)
(* into ring buffers of the same kind as they are.                         *)
(*                                                                         *)
(* A rate is kept as its two parts, the bytes and the steps of time. The   *)
(* time is that of a scrape's arrival, on the console's clock.             *)
(***************************************************************************)
EXTENDS Integers, SequencesExt, FiniteSetsExt

CONSTANTS
    Interfaces,     \* the booth's network interfaces
    HistoryCapacity,\* HISTORY_CAPACITY
    MaxBytes,       \* bound: bytes the booth moves
    LongestGap      \* bound: steps of time that are told apart

ASSUME HealthAssumption ==
    /\ IsFiniteSet(Interfaces)
    /\ {HistoryCapacity, MaxBytes, LongestGap} \subseteq Nat \ {0}

VARIABLES
    counter,        \* the booth: bytes of each interface that is up
    bytes,          \* the booth: bytes it ever moved
    scrape,         \* the scrape whose channel is held, `in_flight`
    elapsed,        \* POLL_INTERVAL has passed since the last answer
    baseline,       \* RateMeter's `last`
    age,            \* the time since the baseline was set
    series,         \* net_receive_rate, oldest first
    grown           \* history: an interface came up since the baseline

healthVars == <<counter, bytes, scrape, elapsed, baseline, age, series, grown>>

Bytes == 0..MaxBytes
NoBytes == -1

(* `moved` is history: all the bytes moved until the counters were read,   *)
(* and `grew`: an interface had come up by then.                           *)
Scrapes == [at: {"none", "asked", "served", "answered", "failed", "dead"},
            total: Bytes \cup {NoBytes}, moved: Bytes, grew: BOOLEAN]
NoScrape(at) == [at |-> at, total |-> NoBytes, moved |-> 0, grew |-> FALSE]

Baselines == [total: Bytes \cup {NoBytes}, moved: Bytes]
NoBaseline == [total |-> NoBytes, moved |-> 0]

Rates == [delta: Int, steps: 1..LongestGap, moved: Bytes, grew: BOOLEAN]

HealthTypeOK ==
    /\ DOMAIN counter \subseteq Interfaces /\ Range(counter) \subseteq Bytes
    /\ bytes \in Bytes
    /\ scrape \in Scrapes
    /\ elapsed \in BOOLEAN
    /\ baseline \in Baselines
    /\ age \in 0..LongestGap
    /\ series \in Seq(Rates) /\ Len(series) <= HistoryCapacity
    /\ grown \in BOOLEAN

HealthInit ==
    /\ counter = [i \in Interfaces |-> 0]
    /\ bytes = 0
    /\ scrape = NoScrape("none")
    /\ elapsed = TRUE
    /\ baseline = NoBaseline
    /\ age = 0
    /\ series = <<>>
    /\ grown = FALSE

----------------------------------------------------------------------------
(* The booth.                                                              *)

(* total_receive_bytes: no interface at all is no total.                   *)
Total ==
    IF DOMAIN counter = {} THEN NoBytes
    ELSE MapThenSumSet(LAMBDA i : counter[i], DOMAIN counter)

Transfer(i) ==
    /\ bytes < MaxBytes
    /\ counter' = [counter EXCEPT ![i] = @ + 1]
    /\ bytes' = bytes + 1
    /\ UNCHANGED <<scrape, elapsed, baseline, age, series, grown>>

(* The booth restarts: its counters begin at zero.                         *)
Reboot ==
    /\ counter' = [i \in Interfaces |-> 0]
    /\ UNCHANGED <<bytes, scrape, elapsed, baseline, age, series, grown>>

(* An interface goes down, or comes up with the counter it had or a lower  *)
(* one: a scrape lists only those that are up.                             *)
LinkDown(i) ==
    /\ counter' = [j \in DOMAIN counter \ {i} |-> counter[j]]
    /\ UNCHANGED <<bytes, scrape, elapsed, baseline, age, series, grown>>

LinkUp(i) ==
    /\ \E n \in Bytes :
         counter' = [j \in DOMAIN counter \cup {i} |-> IF j = i THEN n ELSE counter[j]]
    /\ Total' <= bytes
    /\ grown' = TRUE
    /\ UNCHANGED <<bytes, scrape, elapsed, baseline, age, series>>

(* The counters are read; the answer is on its way for a while.            *)
ScrapeServed ==
    /\ scrape.at = "asked"
    /\ scrape' = [at |-> "served", total |-> Total, moved |-> bytes, grew |-> grown]
    /\ grown' = FALSE
    /\ UNCHANGED <<counter, bytes, elapsed, baseline, age, series>>

ScrapeAnswered ==
    /\ scrape.at = "served"
    /\ scrape' = [scrape EXCEPT !.at = "answered"]
    /\ UNCHANGED <<counter, bytes, elapsed, baseline, age, series, grown>>

ScrapeFails ==
    /\ scrape.at \in {"asked", "served"}
    /\ scrape' \in {NoScrape("failed"), NoScrape("dead")}
    /\ grown' = (grown \/ scrape.grew)
    /\ UNCHANGED <<counter, bytes, elapsed, baseline, age, series>>

(* A step of time, of POLL_INTERVAL or more; an answer that has arrived    *)
(* has its time already.                                                   *)
HealthTime ==
    /\ scrape.at # "answered"
    /\ age' = IF age < LongestGap THEN age + 1 ELSE age
    /\ elapsed' = TRUE
    /\ UNCHANGED <<counter, bytes, scrape, baseline, series, grown>>

----------------------------------------------------------------------------
(* The controller.                                                         *)

(* RingBuffer::push.                                                       *)
Pushed(buffer, value) ==
    Append(IF Len(buffer) = HistoryCapacity THEN Tail(buffer) ELSE buffer, value)

DeltaWithSign(total) == total - baseline.total      \* a slip: resets go below zero

(* A counter that went down was reset.                                     *)
Delta(total) == IF total > baseline.total THEN total - baseline.total ELSE 0

(* RateMeter::observe: the first total and a second one of the same        *)
(* instant give no rate, but are the next baseline.                        *)
HasRate == baseline.total # NoBytes /\ age > 0

Rate == [delta |-> Delta(scrape.total), steps |-> age,
         moved |-> scrape.moved - baseline.moved, grew |-> scrape.grew]

(* MetricsHistory::record: a scrape without the counters leaves the meter  *)
(* as it is.                                                               *)
Record ==
    IF scrape.at = "answered" /\ scrape.total # NoBytes
    THEN /\ series' = IF HasRate THEN Pushed(series, Rate) ELSE series
         /\ baseline' = [total |-> scrape.total, moved |-> scrape.moved]
         /\ age' = 0
         /\ UNCHANGED grown
    ELSE /\ grown' = (grown \/ (scrape.at = "answered" /\ scrape.grew))
         /\ UNCHANGED <<series, baseline, age>>

(* tick: drain, then a scrape if one is due on the screen in front. A      *)
(* scrape that died leaves `last_refresh` as it was.                       *)
HealthTick(focused) ==
    /\ Record
    /\ LET free == scrape.at \notin {"asked", "served"}
           wanted == elapsed /\ scrape.at \notin {"answered", "failed"}
       IN /\ scrape' = IF free /\ focused /\ wanted THEN NoScrape("asked")
                       ELSE IF free THEN NoScrape("none") ELSE scrape
          /\ elapsed' = wanted
    /\ UNCHANGED <<counter, bytes>>

(* The key to refresh.                                                     *)
HealthRefresh ==
    /\ scrape.at = "none"
    /\ scrape' = NoScrape("asked")
    /\ UNCHANGED <<counter, bytes, elapsed, baseline, age, series, grown>>

HealthNext ==
    \/ \E i \in Interfaces :
         \/ i \in DOMAIN counter /\ (Transfer(i) \/ LinkDown(i))
         \/ i \notin DOMAIN counter /\ LinkUp(i)
    \/ Reboot \/ ScrapeServed \/ ScrapeAnswered \/ ScrapeFails
    \/ HealthTime \/ HealthRefresh
    \/ \E focused \in BOOLEAN : HealthTick(focused)

HealthSpec == HealthInit /\ [][HealthNext]_healthVars

----------------------------------------------------------------------------
(* The chart never shows traffic that was not: a rate is of no more bytes  *)
(* than were moved between the two scrapes, and never below zero, whatever *)
(* restarts, scrapes without counters or failures lie between them. An     *)
(* interface that comes up between them is the exception: its whole        *)
(* counter is taken for traffic, for the meter sees only the sum           *)
(* (series.rs: "tolerating counter resets").                               *)
RatesAreTraffic ==
    \A k \in DOMAIN series :
        /\ series[k].delta >= 0
        /\ series[k].delta <= series[k].moved \/ series[k].grew
=============================================================================
