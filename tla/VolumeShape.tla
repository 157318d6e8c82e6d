----------------------------- MODULE VolumeShape -----------------------------
(***************************************************************************)
(* How many records each instance of a scenario gets in each interval      *)
(* (src/logsgenreceiver/receiver.go, lines 57-144 and the head of          *)
(* produceLogs): logs_per_interval times a curve over the hours of the     *)
(* day, times a multiplier that bursts and quiet spells leave standing for *)
(* some intervals, times a factor of the instance.                         *)
(*                                                                         *)
(* Multipliers are integers in hundredths; where the code truncates or     *)
(* rounds to an integer, so do the definitions.  The cosine of the curve   *)
(* is a constant, of which only what WaveAssumption says is used.          *)
(***************************************************************************)
EXTENDS Integers, Sequences, FiniteSetsExt, Functions

CONSTANTS
    LogsPerInterval,    \* logs_per_interval of the scenario
    Scale,              \* number of instances
    StartTime, EndTime, \* the window, in ticks
    Interval,           \* ticks in an interval
    TicksPerHour,       \* ticks in an hour
    Diurnal,            \* diurnal_profile, or Nil
    VolumeProfile,      \* volume_profile, or Nil
    Rolls,              \* percentages rng.Float64() may return
    Draws,              \* values exp(sigma * normal) may take
    Wave,               \* Wave[<<n, d>>]: (cos(pi * n/d) + 1) / 2
    Nil                 \* nothing configured

Hundred == 100

ASSUME WindowAssumption ==
    /\ StartTime \in Int /\ EndTime \in Int
    /\ Interval \in Nat \ {0} /\ TicksPerHour \in Nat \ {0}
    /\ LogsPerInterval \in Nat \ {0} /\ Scale \in Nat
    /\ Rolls \subseteq 0..99 /\ Draws \subseteq Nat \ {0}

(***************************************************************************)
(* validateVolumeProfile, in hundredths.                                   *)
(***************************************************************************)
ASSUME VolumeAssumption ==
    VolumeProfile # Nil =>
        /\ VolumeProfile.burstProbability \in 0..100
        /\ VolumeProfile.quietProbability \in 0..100 - VolumeProfile.burstProbability
        /\ VolumeProfile.burstMultipliers \subseteq Nat
        /\ VolumeProfile.quietMultiplier \in Nat
        /\ VolumeProfile.burstDurationMin \in Nat
        /\ VolumeProfile.burstDurationMax \in Nat
        /\ VolumeProfile.quietDurationMin \in Nat
        /\ VolumeProfile.quietDurationMax \in Nat
        /\ VolumeProfile.burstDurationMin <= VolumeProfile.burstDurationMax
        /\ VolumeProfile.quietDurationMin <= VolumeProfile.quietDurationMax
        /\ VolumeProfile.burstProbability > 0 => VolumeProfile.burstDurationMin >= 1
        /\ VolumeProfile.quietProbability > 0 => VolumeProfile.quietDurationMin >= 1

(***************************************************************************)
(* validateDiurnalProfile and applyDiurnalDefaults.                        *)
(***************************************************************************)
ASSUME DiurnalAssumption ==
    Diurnal # Nil =>
        /\ Diurnal.peakHour \in 0..23
        /\ Diurnal.troughHour \in 0..23 \ {Diurnal.peakHour}
        /\ Diurnal.peakMultiplier \in Nat \ {0}
        /\ Diurnal.troughMultiplier \in Nat \ {0}
        /\ Diurnal.cronBursts \in
              Seq([interval : Nat \ {0}, duration : Nat \ {0}, multiplier : Nat \ {0}])
        /\ \A i \in DOMAIN Diurnal.cronBursts :
              Diurnal.cronBursts[i].duration < Diurnal.cronBursts[i].interval

(***************************************************************************)
(* From 1 at angle 0 the cosine's wave falls to 0 at angle pi, on the arc  *)
(* from the peak to the trough as on the one back.                         *)
(***************************************************************************)
Arcs == {(Diurnal.troughHour - Diurnal.peakHour + 24) % 24,
         (Diurnal.peakHour - Diurnal.troughHour + 24) % 24}

ASSUME WaveAssumption ==
    Diurnal # Nil =>
        \A d \in Arcs :
            /\ Wave[<<0, d>>] = Hundred
            /\ Wave[<<d, d>>] = 0
            /\ \A n \in 0..d : Wave[<<n, d>>] \in 0..Hundred
            /\ \A n \in 1..d : Wave[<<n, d>>] <= Wave[<<n - 1, d>>]

VARIABLES
    now,                \* currentTime
    multiplier,         \* scn.volume.multiplier
    remainingIntervals, \* scn.volume.remainingIntervals
    draws,              \* the values behind the instance multipliers, or Nil
    volumeMult,         \* multiplier of the interval just produced
    instanceLogs,       \* instanceLogs[i]: records of instance i in it
    run                 \* history: the spell the interval belongs to, and
                        \* how long it has lasted

vars == <<now, multiplier, remainingIntervals, draws, volumeMult, instanceLogs, run>>
InstanceIds == 0..Scale - 1

TypeOK ==
    /\ now \in Int
    /\ multiplier \in Nat
    /\ remainingIntervals \in Nat
    /\ draws \in {Nil} \cup [InstanceIds -> Nat \ {0}]
    /\ volumeMult \in Nat
    /\ instanceLogs \in [InstanceIds -> Nat]
    /\ run \in [kind : {"normal", "burst", "quiet"}, length : Nat]
-----------------------------------------------------------------------------
(***************************************************************************)
(* diurnalMultiplier.  Before 1970 the ticks are negative, and the         *)
(* remainder of Go's division with them.                                   *)
(***************************************************************************)
HourOf(t) == (t \div TicksPerHour) % 24
PhaseOf(hour) == (hour - Diurnal.peakHour + 24) % 24
TroughPhase == (Diurnal.troughHour - Diurnal.peakHour + 24) % 24

WaveWithoutPi(hour) ==  \* bug: the second arc starts at angle 0 again
    IF PhaseOf(hour) <= TroughPhase
    THEN Wave[<<PhaseOf(hour), TroughPhase>>]
    ELSE Wave[<<PhaseOf(hour) - TroughPhase, 24 - TroughPhase>>]
WaveAt(hour) ==
    IF PhaseOf(hour) <= TroughPhase
    THEN Wave[<<PhaseOf(hour), TroughPhase>>]
    ELSE Hundred - Wave[<<PhaseOf(hour) - TroughPhase, 24 - TroughPhase>>]

Base(hour) ==
    Diurnal.troughMultiplier
    + ((Diurnal.peakMultiplier - Diurnal.troughMultiplier) * WaveAt(hour)) \div Hundred

GoRemainder(a, b) == IF a < 0 THEN -((-a) % b) ELSE a % b

CronModUncorrected(t, b) == GoRemainder(t, b)  \* bug: negative before 1970
CronMod(t, b) == LET mod == GoRemainder(t, b) IN IF mod < 0 THEN mod + b ELSE mod
Fires(cb, t) == CronMod(t, cb.interval) < cb.duration

DiurnalMultiplier(t) ==
    IF Diurnal = Nil
    THEN Hundred
    ELSE Max({Base(HourOf(t))} \cup
             {Diurnal.cronBursts[i].multiplier :
                 i \in {j \in DOMAIN Diurnal.cronBursts : Fires(Diurnal.cronBursts[j], t)}})

(***************************************************************************)
(* buildInstanceMultipliers and applyInstanceMultiplier: the multiplier of *)
(* an instance is its draw divided by the mean of all draws, and base      *)
(* times that is rounded, half up, but never to nothing.                   *)
(***************************************************************************)
TotalDraws == SumFunction(draws)

RoundedUnnormalised(base, i) == base * draws[i]  \* bug: not over the mean
Rounded(base, i) ==
    (2 * base * draws[i] * Scale + TotalDraws) \div (2 * TotalDraws)

ApplyWithoutFloor(base, i) ==  \* bug: an instance may fall silent
    IF draws = Nil THEN base ELSE Rounded(base, i)
ApplyInstanceMultiplier(base, i) ==
    IF draws = Nil
    THEN base
    ELSE IF Rounded(base, i) < 1 /\ base > 0 THEN 1 ELSE Rounded(base, i)

(***************************************************************************)
(* The head of produceLogs: truncated, but at least one.                   *)
(***************************************************************************)
Truncated(t, mult) ==
    (LogsPerInterval * DiurnalMultiplier(t) * mult) \div (Hundred * Hundred)
EffectiveLogs(t, mult) ==
    IF Truncated(t, mult) < 1 THEN 1 ELSE Truncated(t, mult)

Init ==
    /\ now = StartTime
    /\ multiplier = 0
    /\ remainingIntervals = 0
    /\ draws \in {Nil} \cup [InstanceIds -> Draws]
    /\ volumeMult = Hundred
    /\ instanceLogs = [i \in InstanceIds |-> 0]
    /\ run = [kind |-> "normal", length |-> 0]

(***************************************************************************)
(* One interval of produceLogs for this scenario, in which the volume      *)
(* multiplier is mult.                                                     *)
(***************************************************************************)
ProduceWith(mult) ==
    /\ now < EndTime
    /\ volumeMult' = mult
    /\ instanceLogs' =
          [i \in InstanceIds |-> ApplyInstanceMultiplier(EffectiveLogs(now, mult), i)]
    /\ now' = now + Interval
    /\ UNCHANGED draws

(***************************************************************************)
(* resolveVolumeMultiplier: a spell that has not ended goes on ...         *)
(***************************************************************************)
SpellGoesOnAlways == remainingIntervals >= 0  \* bug: also when none is on
SpellGoesOn == remainingIntervals > 0

ContinueSpell ==
    /\ VolumeProfile # Nil
    /\ SpellGoesOn
    /\ remainingIntervals' = remainingIntervals - 1
    /\ run' = [run EXCEPT !.length = @ + 1]
    /\ UNCHANGED multiplier
    /\ ProduceWith(multiplier)

(***************************************************************************)
(* ... and without one, a roll decides whether a burst or a quiet spell    *)
(* begins; this interval is its first.                                     *)
(***************************************************************************)
IntervalsAfterThisOffByOne(duration) == duration  \* bug: this one not counted
IntervalsAfterThis(duration) == duration - 1

BeginSpell(kind, mult, duration) ==
    /\ VolumeProfile # Nil
    /\ remainingIntervals = 0
    /\ multiplier' = mult
    /\ remainingIntervals' = IntervalsAfterThis(duration)
    /\ run' = [kind |-> kind, length |-> 1]
    /\ ProduceWith(mult)

BurstDurations == VolumeProfile.burstDurationMin..VolumeProfile.burstDurationMax
QuietDurations == VolumeProfile.quietDurationMin..VolumeProfile.quietDurationMax

BeginBurst ==
    /\ VolumeProfile # Nil
    /\ \E roll \in Rolls : roll < VolumeProfile.burstProbability
    /\ \E mult \in VolumeProfile.burstMultipliers, duration \in BurstDurations :
          BeginSpell("burst", mult, duration)

BeginQuiet ==
    /\ VolumeProfile # Nil
    /\ \E roll \in Rolls :
          /\ VolumeProfile.burstProbability <= roll
          /\ roll < VolumeProfile.burstProbability + VolumeProfile.quietProbability
    /\ \E duration \in QuietDurations :
          BeginSpell("quiet", VolumeProfile.quietMultiplier, duration)

StayNormal ==
    /\ VolumeProfile # Nil =>
          /\ remainingIntervals = 0
          /\ \E roll \in Rolls :
                VolumeProfile.burstProbability + VolumeProfile.quietProbability <= roll
    /\ run' = [kind |-> "normal", length |-> 0]
    /\ UNCHANGED <<multiplier, remainingIntervals>>
    /\ ProduceWith(Hundred)

WindowOver == now >= EndTime /\ UNCHANGED vars

Next == ContinueSpell \/ BeginBurst \/ BeginQuiet \/ StayNormal \/ WindowOver

Spec == Init /\ [][Next]_vars
-----------------------------------------------------------------------------
(***************************************************************************)
(* Properties.                                                             *)
(***************************************************************************)
Produced == now > StartTime
ProducedAt == now - Interval
InstancesTotal == SumFunction(instanceLogs)

(***************************************************************************)
(* However low the curve, a quiet spell and the skew go together, no       *)
(* instance of a scenario that generates logs falls silent.  (LogsGen-     *)
(* Receiver takes this for granted: VolumesAssumption.)                    *)
(***************************************************************************)
NoInstanceSilent == Produced => \A i \in InstanceIds : instanceLogs[i] >= 1

(***************************************************************************)
(* The skew only redistributes: what the instances emit together differs   *)
(* from what they would emit without it by less than one record for each,  *)
(* which is what rounding and the floor may do.                            *)
(***************************************************************************)
WithoutSkew == Scale * EffectiveLogs(ProducedAt, volumeMult)
VolumeNearlyPreserved ==
    Produced /\ Scale > 0 =>
        /\ InstancesTotal - WithoutSkew < Scale
        /\ WithoutSkew - InstancesTotal < Scale

(***************************************************************************)
(* A burst or quiet spell lasts for one of the numbers of intervals it is  *)
(* configured to, from the interval that drew it to the one before the     *)
(* next draw, and keeps its multiplier.                                    *)
(***************************************************************************)
Durations(kind) == IF kind = "burst" THEN BurstDurations ELSE QuietDurations
SpellLasts ==
    IF run.kind = "normal"
    THEN remainingIntervals = 0 /\ volumeMult = Hundred
    ELSE /\ run.length + remainingIntervals \in Durations(run.kind)
         /\ volumeMult = multiplier

(***************************************************************************)
(* The curve peaks at the peak hour, has its trough at the trough hour,    *)
(* and only falls from the one to the other and only rises back.           *)
(***************************************************************************)
DiurnalShape ==
    Diurnal # Nil /\ Diurnal.troughMultiplier <= Diurnal.peakMultiplier =>
        LET hour == HourOf(now)
            next == (hour + 1) % 24
        IN  /\ Base(Diurnal.peakHour) = Diurnal.peakMultiplier
            /\ Base(Diurnal.troughHour) = Diurnal.troughMultiplier
            /\ IF PhaseOf(hour) < TroughPhase
               THEN Base(next) <= Base(hour)
               ELSE Base(next) >= Base(hour)

(***************************************************************************)
(* A cron burst fires for its duration in every stretch as long as its     *)
(* interval, before 1970 and across it as well.                            *)
(***************************************************************************)
CronBurstsPeriodic ==
    Diurnal # Nil =>
        \A i \in DOMAIN Diurnal.cronBursts :
            LET cb == Diurnal.cronBursts[i] IN
            Quantify(now..now + cb.interval - 1, LAMBDA t : Fires(cb, t)) = cb.duration
=============================================================================
