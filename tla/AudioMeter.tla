------------------------------ MODULE AudioMeter ------------------------------
(***************************************************************************)
(* The peak of an audio meter of tbo-tui's data/debug.rs: a sample raises  *)
(* it, it is held for a while, and then it falls at a constant rate. The   *)
(* code keeps no falling value: it computes it from the peak that is held  *)
(* and from the time for which it has been held.                           *)
(*                                                                         *)
(* Time passes in steps; a level is the number of steps in which it falls  *)
(* to the floor, DBFS_FLOOR, which is 0 here.                              *)
(***************************************************************************)
EXTENDS Integers

CONSTANTS
    PeakHold,       \* PEAK_HOLD, in steps
    Loudest,        \* the highest level
    LongestHeld     \* bound: steps that are told apart

ASSUME MeterAssumption ==
    /\ {PeakHold, Loudest, LongestHeld} \subseteq Nat
    /\ LongestHeld >= PeakHold + Loudest

VARIABLES
    metered,        \* a sample has come
    held, heldFor   \* held_peak_dbfs, and the time since held_since

meterVars == <<metered, held, heldFor>>

Levels == 0..Loudest

MeterTypeOK == metered \in BOOLEAN /\ held \in Levels /\ heldFor \in 0..LongestHeld

MeterInit == metered = FALSE /\ held = 0 /\ heldFor = 0

(* decayed_peak_dbfs.                                                      *)
Decayed ==
    IF heldFor < PeakHold THEN held
    ELSE IF held < heldFor - PeakHold THEN 0
    ELSE held - (heldFor - PeakHold)

(* observe: a sample below the falling peak does not end its fall.         *)
Observe(peak) ==
    IF peak >= Decayed THEN held' = peak /\ heldFor' = 0
    ELSE held' = Decayed /\ heldFor' = PeakHold

FirstSample(peak) ==
    ~metered /\ metered' = TRUE /\ held' = peak /\ heldFor' = 0

Sample(peak) == metered /\ Observe(peak) /\ UNCHANGED metered

TimePasses ==
    /\ heldFor' = IF heldFor < LongestHeld THEN heldFor + 1 ELSE heldFor
    /\ UNCHANGED <<metered, held>>

MeterNext ==
    TimePasses \/ \E peak \in Levels : FirstSample(peak) \/ Sample(peak)

MeterSpec == MeterInit /\ [][MeterNext]_meterVars

----------------------------------------------------------------------------
(* Peaks are held, merged and taken up again, but what is drawn neither    *)
(* jumps down nor comes up by itself: in a step of time the peak falls by  *)
(* one level at most and never rises, and a sample leaves it where it is,  *)
(* or raises it to the sample's own level (observe).                       *)
PeakGlides ==
    [][/\ TimePasses => Decayed' <= Decayed /\ Decayed' >= Decayed - 1
       /\ \A peak \in Levels :
            Sample(peak) => Decayed' = IF peak > Decayed THEN peak ELSE Decayed]_meterVars
=============================================================================
