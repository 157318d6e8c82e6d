---------------------------- MODULE MCVolumeShape ----------------------------
(***************************************************************************)
(* A day and a half of one scenario for VolumeShape.                       *)
(***************************************************************************)
EXTENDS VolumeShape

\* (cos(pi * n/d) + 1) / 2 in hundredths, for the two arcs between 14 and 4.
Falling == <<100, 99, 95, 89, 81, 72, 61, 50, 39, 28, 19, 11, 5, 1, 0>>
Rising == <<100, 98, 90, 79, 65, 50, 35, 21, 10, 2, 0>>
CosineWave ==
    [p \in (0..14) \X {14} \cup (0..10) \X {10} |->
        IF p[2] = 14 THEN Falling[p[1] + 1] ELSE Rising[p[1] + 1]]

\* The default curve, with a batch job every six hours.
AfternoonPeak ==
    [peakHour |-> 14, troughHour |-> 4, peakMultiplier |-> 300, troughMultiplier |-> 20,
     cronBursts |-> <<[interval |-> 12, duration |-> 2, multiplier |-> 500]>>]

BurstsAndQuiet ==
    [burstProbability |-> 10, burstMultipliers |-> {200, 350},
     burstDurationMin |-> 1, burstDurationMax |-> 3,
     quietProbability |-> 10, quietMultiplier |-> 0,
     quietDurationMin |-> 2, quietDurationMax |-> 2]

\* The second half of 1969-12-31 and the day after, in half hours.
Start == -24
=============================================================================
