-------------------------- MODULE VolumeShapeProofs --------------------------
(***************************************************************************)
(* Bursts and quiet spells last as long as configured, for every volume    *)
(* profile that passes validation.                                         *)
(***************************************************************************)
EXTENDS VolumeShape, FoldLemmas

(***************************************************************************)
(* SpellLasts says nothing of what is stored while no spell is on; a spell *)
(* exists only with a profile, and what is left of it is a natural number. *)
(***************************************************************************)
SpellInv ==
    /\ remainingIntervals \in Nat
    /\ multiplier \in Nat
    /\ run \in [kind : {"normal", "burst", "quiet"}, length : Nat]
    /\ remainingIntervals > 0 => VolumeProfile # Nil
    /\ SpellLasts

(***************************************************************************)
(* A spell begins only if it has a probability, and then its durations are *)
(* positive numbers (validateVolumeProfile).                               *)
(***************************************************************************)
LEMMA BurstDurationPositive ==
    ASSUME VolumeProfile # Nil,
           NEW roll \in Rolls, roll < VolumeProfile.burstProbability,
           NEW duration \in BurstDurations
    PROVE  duration \in Nat \ {0}
<1>1. VolumeProfile.burstProbability > 0 /\ VolumeProfile.burstDurationMin >= 1
    BY WindowAssumption, VolumeAssumption
<1>. QED
    BY <1>1, VolumeAssumption DEF BurstDurations

LEMMA QuietDurationPositive ==
    ASSUME VolumeProfile # Nil,
           NEW roll \in Rolls,
           VolumeProfile.burstProbability <= roll,
           roll < VolumeProfile.burstProbability + VolumeProfile.quietProbability,
           NEW duration \in QuietDurations
    PROVE  duration \in Nat \ {0}
<1>1. /\ VolumeProfile.burstProbability \in Nat
      /\ VolumeProfile.quietProbability \in Nat
    BY VolumeAssumption
<1>2. VolumeProfile.quietProbability > 0 /\ VolumeProfile.quietDurationMin >= 1
    BY <1>1, WindowAssumption, VolumeAssumption
<1>. QED
    BY <1>2, VolumeAssumption DEF QuietDurations

(***************************************************************************)
(* The first interval of a spell establishes the invariant.                *)
(***************************************************************************)
LEMMA BeginSpellKeeps ==
    ASSUME NEW kind \in {"burst", "quiet"}, NEW mult \in Nat,
           NEW duration \in Nat \ {0}, duration \in Durations(kind),
           BeginSpell(kind, mult, duration)
    PROVE  SpellInv'
<1>1. /\ VolumeProfile # Nil
      /\ multiplier' = mult /\ volumeMult' = mult
      /\ remainingIntervals' = duration - 1
      /\ run' = [kind |-> kind, length |-> 1]
    BY DEF BeginSpell, IntervalsAfterThis, ProduceWith
<1>2. 1 + (duration - 1) = duration
    OBVIOUS
<1>3. SpellLasts'
    BY <1>1, <1>2 DEF SpellLasts, Durations, BurstDurations, QuietDurations
<1>. QED
    BY <1>1, <1>3 DEF SpellInv

LEMMA SpellInit == Init => SpellInv
BY DEF Init, SpellInv, SpellLasts, Hundred

LEMMA SpellNext == SpellInv /\ [Next]_vars => SpellInv'
<1>. SUFFICES ASSUME SpellInv, [Next]_vars
              PROVE  SpellInv'
    OBVIOUS
<1>1. CASE ContinueSpell
    <2>1. /\ remainingIntervals' = remainingIntervals - 1
          /\ run' = [run EXCEPT !.length = @ + 1]
          /\ multiplier' = multiplier /\ volumeMult' = multiplier
          /\ remainingIntervals > 0
          /\ VolumeProfile # Nil
        BY <1>1 DEF ContinueSpell, SpellGoesOn, ProduceWith
    <2>2. run.kind # "normal"
        BY <2>1 DEF SpellInv, SpellLasts
    <2>3. run'.kind = run.kind /\ run'.length = run.length + 1
        BY <2>1 DEF SpellInv
    <2>4. run'.length + remainingIntervals' = run.length + remainingIntervals
        BY <2>1, <2>3 DEF SpellInv
    <2>5. SpellLasts'
        BY <2>1, <2>2, <2>3, <2>4
        DEF SpellInv, SpellLasts, Durations, BurstDurations, QuietDurations
    <2>. QED
        BY <2>1, <2>5 DEF SpellInv
<1>2. CASE BeginBurst
    <2>1. PICK roll \in Rolls : roll < VolumeProfile.burstProbability
        BY <1>2 DEF BeginBurst
    <2>2. PICK mult \in VolumeProfile.burstMultipliers, duration \in BurstDurations :
             BeginSpell("burst", mult, duration)
        BY <1>2 DEF BeginBurst
    <2>3. VolumeProfile # Nil
        BY <1>2 DEF BeginBurst
    <2>4. mult \in Nat
        BY <2>3, VolumeAssumption
    <2>. QED
        BY <2>1, <2>2, <2>3, <2>4, BurstDurationPositive, BeginSpellKeeps DEF Durations
<1>3. CASE BeginQuiet
    <2>1. PICK roll \in Rolls :
             /\ VolumeProfile.burstProbability <= roll
             /\ roll < VolumeProfile.burstProbability + VolumeProfile.quietProbability
        BY <1>3 DEF BeginQuiet
    <2>2. PICK duration \in QuietDurations :
             BeginSpell("quiet", VolumeProfile.quietMultiplier, duration)
        BY <1>3 DEF BeginQuiet
    <2>3. VolumeProfile # Nil
        BY <1>3 DEF BeginQuiet
    <2>4. VolumeProfile.quietMultiplier \in Nat
        BY <2>3, VolumeAssumption
    <2>. QED
        BY <2>1, <2>2, <2>3, <2>4, QuietDurationPositive, BeginSpellKeeps DEF Durations
<1>4. CASE StayNormal
    <2>1. /\ VolumeProfile # Nil => remainingIntervals = 0
          /\ run' = [kind |-> "normal", length |-> 0]
          /\ multiplier' = multiplier /\ remainingIntervals' = remainingIntervals
          /\ volumeMult' = Hundred
        BY <1>4 DEF StayNormal, ProduceWith
    <2>2. remainingIntervals = 0
        BY <2>1 DEF SpellInv
    <2>. QED
        BY <2>1, <2>2 DEF SpellInv, SpellLasts
<1>5. CASE UNCHANGED vars
    BY <1>5 DEF SpellInv, SpellLasts, Durations, BurstDurations, QuietDurations, vars
<1>. QED
    BY <1>1, <1>2, <1>3, <1>4, <1>5 DEF Next, WindowOver

(***************************************************************************)
(* A burst or quiet spell lasts for one of its configured numbers of       *)
(* intervals and keeps its multiplier (resolveVolumeMultiplier), whatever  *)
(* the volume profile.                                                     *)
(***************************************************************************)
THEOREM SpellLastsCorrect == Spec => []SpellLasts
<1>1. SpellInv => SpellLasts
    BY DEF SpellInv
<1>. QED
    BY SpellInit, SpellNext, <1>1, PTL DEF Spec
-----------------------------------------------------------------------------
(***************************************************************************)
(* The curve over the day: hours, phases and the two arcs of the wave.     *)
(***************************************************************************)
LEMMA HourType ==
    ASSUME NEW t \in Int
    PROVE  HourOf(t) \in 0..23
<1>1. TicksPerHour \in Nat /\ TicksPerHour > 0
  BY WindowAssumption
<1>2. t \div TicksPerHour \in Int
  BY <1>1
<1> DEFINE q == t \div TicksPerHour
<1>3. q \in Int => q % 24 \in 0..23
  <2> HIDE DEF q
  <2> QED
    OBVIOUS
<1> QED
  BY <1>2, <1>3 DEF HourOf

(***************************************************************************)
(* The phase between the hours of peak and trough.                         *)
(***************************************************************************)
LEMMA PhaseType ==
    ASSUME Diurnal # Nil
    PROVE  /\ Diurnal.peakHour \in 0..23 /\ Diurnal.troughHour \in 0..23
           /\ TroughPhase \in 1..23
           /\ TroughPhase \in Arcs /\ 24 - TroughPhase \in Arcs
           /\ \A h \in 0..23 : PhaseOf(h) \in 0..23
<1>1. /\ Diurnal.peakHour \in 0..23 /\ Diurnal.troughHour \in 0..23
      /\ Diurnal.peakHour # Diurnal.troughHour
  BY DiurnalAssumption
<1>2. TroughPhase \in 1..23 /\ TroughPhase \in Arcs
  BY <1>1 DEF TroughPhase, Arcs
<1>3. 24 - TroughPhase \in Arcs
  <2>1. 24 - TroughPhase = (Diurnal.peakHour - Diurnal.troughHour + 24) % 24
    BY <1>1 DEF TroughPhase
  <2> QED
    BY <2>1 DEF Arcs
<1>4. \A h \in 0..23 : PhaseOf(h) \in 0..23
  BY <1>1 DEF PhaseOf
<1> QED
  BY <1>1, <1>2, <1>3, <1>4

(***************************************************************************)
(* The table of the cosine at every hour.                                  *)
(***************************************************************************)
LEMMA WaveType ==
    ASSUME Diurnal # Nil, NEW h \in 0..23
    PROVE  WaveAt(h) \in 0..Hundred
<1> DEFINE p == PhaseOf(h)
           d == TroughPhase
<1>1. p \in 0..23 /\ d \in 1..23 /\ d \in Arcs /\ 24 - d \in Arcs
  BY PhaseType
<1>2. \A a \in Arcs : \A n \in 0..a : Wave[<<n, a>>] \in 0..Hundred
  BY WaveAssumption
<1>3. CASE p <= d
  <2> HIDE DEF p, d
  <2>1. Wave[<<p, d>>] \in 0..Hundred
    BY <1>1, <1>2, <1>3
  <2> QED
    BY <1>3, <2>1 DEF WaveAt, p, d
<1>4. CASE ~(p <= d)
  <2> DEFINE n == p - d
             a == 24 - d
  <2>1. a \in Arcs /\ n \in 0..a
    BY <1>1, <1>4
  <2>2. Wave[<<n, a>>] \in 0..Hundred
    <3> HIDE DEF n, a
    <3> QED
      BY <1>2, <2>1
  <2>3. Hundred - Wave[<<n, a>>] \in 0..Hundred
    <3> HIDE DEF n, a
    <3> QED
      BY <2>2 DEF Hundred
  <2> QED
    BY <1>4, <2>3 DEF WaveAt
<1> QED
  BY <1>3, <1>4

(***************************************************************************)
(* Multiplied by a percentage, a difference is rounded down to no less     *)
(* than itself, if it is negative, or than nothing.                        *)
(***************************************************************************)
LEMMA PercentOf ==
    ASSUME NEW x \in Int, NEW w \in 0..Hundred
    PROVE  /\ (x * w) \div Hundred \in Int
           /\ x >= 0 => (x * w) \div Hundred >= 0
           /\ x < 0 => (x * w) \div Hundred >= x
<1>1. x * w \in Int /\ (x >= 0 => x * w >= 0) /\ (x < 0 => x * w >= 100 * x)
  BY DEF Hundred
<1> DEFINE y == x * w
<1> HIDE DEF y
<1>2. y \in Int /\ (x >= 0 => y >= 0) /\ (x < 0 => y >= 100 * x)
  BY <1>1 DEF y
<1>3. y \div 100 \in Int /\ (y >= 0 => y \div 100 >= 0) /\ (y >= 100 * x => y \div 100 >= x)
  BY <1>2
<1> QED
  BY <1>2, <1>3 DEF y, Hundred

(***************************************************************************)
(* The multiplier of the curve, without cron bursts, is a number.          *)
(***************************************************************************)
LEMMA BaseType ==
    ASSUME Diurnal # Nil, NEW h \in 0..23
    PROVE  Base(h) \in Nat
<1> DEFINE x == Diurnal.peakMultiplier - Diurnal.troughMultiplier
           part == (x * WaveAt(h)) \div Hundred
<1>1. Diurnal.peakMultiplier \in Nat /\ Diurnal.troughMultiplier \in Nat
  BY DiurnalAssumption
<1>2. x \in Int /\ WaveAt(h) \in 0..Hundred
  BY <1>1, WaveType
<1>3. part \in Int /\ (x >= 0 => part >= 0) /\ (x < 0 => part >= x)
  <2> HIDE DEF x
  <2> QED
    BY <1>2, PercentOf
<1>4. Base(h) = Diurnal.troughMultiplier + part
  BY DEF Base
<1> HIDE DEF part
<1> QED
  BY <1>1, <1>3, <1>4

(***************************************************************************)
(* What validateDiurnalProfile lets through of the cron bursts.            *)
(***************************************************************************)
LEMMA CronBurstType ==
    ASSUME Diurnal # Nil
    PROVE  /\ DOMAIN Diurnal.cronBursts = 1..Len(Diurnal.cronBursts)
           /\ Len(Diurnal.cronBursts) \in Nat
           /\ \A i \in DOMAIN Diurnal.cronBursts :
                 LET cb == Diurnal.cronBursts[i] IN
                 /\ cb.interval \in Nat \ {0}
                 /\ cb.duration \in 1..cb.interval - 1
                 /\ cb.multiplier \in Nat
<1> DEFINE Burst == [interval : Nat \ {0}, duration : Nat \ {0}, multiplier : Nat \ {0}]
           bursts == Diurnal.cronBursts
<1>1. /\ bursts \in Seq(Burst)
      /\ \A i \in DOMAIN bursts : bursts[i].duration < bursts[i].interval
  BY DiurnalAssumption
<1>2. /\ DOMAIN bursts = 1..Len(bursts) /\ Len(bursts) \in Nat
      /\ \A i \in DOMAIN bursts : bursts[i] \in Burst
  <2> HIDE DEF Burst, bursts
  <2> QED
    BY <1>1
<1> QED
  BY <1>1, <1>2, SMTT(30)

(***************************************************************************)
(* The largest of the base and the multipliers of the bursts that fire is  *)
(* one of them.                                                            *)
(***************************************************************************)
LEMMA DiurnalMultiplierType ==
    ASSUME NEW t \in Int
    PROVE  DiurnalMultiplier(t) \in Nat
<1>1. CASE Diurnal = Nil
  BY <1>1 DEF DiurnalMultiplier, Hundred
<1>2. CASE Diurnal # Nil
  <2> DEFINE fire == {j \in DOMAIN Diurnal.cronBursts : Fires(Diurnal.cronBursts[j], t)}
             all == {Base(HourOf(t))} \cup {Diurnal.cronBursts[i].multiplier : i \in fire}
             mult == [i \in fire |-> Diurnal.cronBursts[i].multiplier]
  <2>0. /\ DOMAIN Diurnal.cronBursts = 1..Len(Diurnal.cronBursts)
        /\ Len(Diurnal.cronBursts) \in Nat
        /\ \A i \in DOMAIN Diurnal.cronBursts : Diurnal.cronBursts[i].multiplier \in Nat
    BY <1>2, CronBurstType
  <2>1. all # {} /\ all \subseteq Nat
    <3>1. Base(HourOf(t)) \in Nat
      BY <1>2, HourType, BaseType
    <3> QED
      BY <2>0, <3>1
  <2>2. IsFiniteSet(all)
    <3>1. IsFiniteSet(fire)
      <4>1. IsFiniteSet(DOMAIN Diurnal.cronBursts)
        <5> DEFINE n == Len(Diurnal.cronBursts)
        <5>1. n \in Int /\ DOMAIN Diurnal.cronBursts = 1..n
          BY <2>0
        <5> HIDE DEF n
        <5> QED
          BY <5>1, FS_Interval
      <4>2. fire \in SUBSET (DOMAIN Diurnal.cronBursts)
        OBVIOUS
      <4> QED
        BY <4>1, <4>2, FS_Subset
    <3>2. IsFiniteSet({mult[i] : i \in fire})
      <4> HIDE DEF fire
      <4> QED
        BY <3>1, ImageFinite
    <3>3. all = {mult[i] : i \in fire} \cup {Base(HourOf(t))}
      OBVIOUS
    <3> HIDE DEF all, mult, fire
    <3> QED
      BY <3>2, <3>3, FS_AddElement
  <2>3. DiurnalMultiplier(t) = Max(all)
    BY <1>2 DEF DiurnalMultiplier
  <2> HIDE DEF all
  <2>4. PICK m \in all : \A x \in all : x <= m
    <3>1. all \subseteq Int
      BY <2>1
    <3> QED
      BY <2>1, <2>2, <3>1, GreatestExists
  <2>5. \A x \in all : m >= x
    BY <2>1, <2>4
  <2> QED
    BY <2>1, <2>3, <2>4, <2>5 DEF Max
<1> QED
  BY <1>1, <1>2
-----------------------------------------------------------------------------
(***************************************************************************)
(* Arithmetic: quotients, and factors that may be cancelled.               *)
(***************************************************************************)
LEMMA Quotient ==
    ASSUME NEW x \in Nat, NEW y \in Nat \ {0}
    PROVE  /\ x \div y \in Nat
           /\ y * (x \div y) <= x
           /\ x < y * (x \div y) + y
<1>1. /\ x \div y \in Int
      /\ y * (x \div y) <= x /\ x < y * ((x \div y) + 1)
  BY Z3
<1> DEFINE q == x \div y
<1>2. q >= 0
  <2> SUFFICES ASSUME q < 0 PROVE FALSE
    BY <1>1
  <2>1. q + 1 <= 0 /\ q + 1 \in Int
    BY <1>1
  <2> DEFINE r == q + 1
  <2>2. x < y * r /\ r <= 0 /\ r \in Int
    BY <1>1, <2>1
  <2> HIDE DEF r, q
  <2>3. y * r <= 0
    BY ONLY <2>2, y \in Nat \ {0}
  <2> QED
    BY <2>2, <2>3
<1>3. y * (q + 1) = y * q + y
  <2> HIDE DEF q
  <2> QED
    BY <1>1 DEF q
<1> QED
  BY <1>1, <1>2, <1>3

(***************************************************************************)
(* A common positive factor of an inequality cancels.                      *)
(***************************************************************************)
LEMMA Cancel ==
    ASSUME NEW a \in Nat \ {0}, NEW x \in Int, NEW y \in Int, a * x < a * y
    PROVE  x < y
<1> SUFFICES ASSUME y <= x PROVE FALSE
  OBVIOUS
<1>1. a * y <= a * x
  <2> DEFINE k == x - y
  <2>1. k \in Nat /\ x = y + k
    OBVIOUS
  <2>2. a * k >= 0 /\ a * (y + k) = a * y + a * k
    BY <2>1
  <2> QED
    BY <2>1, <2>2
<1> QED
  BY <1>1

(***************************************************************************)
(* An interval has at least one record per instance.                       *)
(***************************************************************************)
LEMMA EffectiveType ==
    ASSUME NEW t \in Int, NEW mult \in Nat
    PROVE  EffectiveLogs(t, mult) \in Nat \ {0}
<1> DEFINE x == LogsPerInterval * DiurnalMultiplier(t) * mult
<1>1. x \in Nat
  BY WindowAssumption, DiurnalMultiplierType
<1>2. Truncated(t, mult) \in Nat
  <2>1. Truncated(t, mult) = x \div (Hundred * Hundred)
    BY DEF Truncated
  <2>2. Hundred * Hundred \in Nat \ {0}
    BY DEF Hundred
  <2> HIDE DEF x
  <2> QED
    BY <1>1, <2>1, <2>2, Quotient
<1> QED
  BY <1>2 DEF EffectiveLogs

(***************************************************************************)
(* What applyInstanceMultiplier makes of a base, times the sum of all the  *)
(* draws, is the instance's part of the base up to rounding.               *)
(***************************************************************************)
SkewType == draws \in {Nil} \cup [InstanceIds -> Nat \ {0}]

(***************************************************************************)
(* The instances are as many as the scale.                                 *)
(***************************************************************************)
LEMMA InstancesCounted ==
    IsFiniteSet(InstanceIds) /\ Cardinality(InstanceIds) = Scale
<1>1. 0 \in Int /\ Scale - 1 \in Int /\ Scale \in Nat
  BY WindowAssumption
<1>2. /\ IsFiniteSet(0..Scale - 1)
      /\ Cardinality(0..Scale - 1) = IF 0 > Scale - 1 THEN 0 ELSE Scale - 1 - 0 + 1
  BY <1>1, FS_Interval
<1> QED
  BY <1>1, <1>2 DEF InstanceIds

(***************************************************************************)
(* The draws of the skew add up to a positive number.                      *)
(***************************************************************************)
LEMMA TotalDrawsType ==
    ASSUME draws \in [InstanceIds -> Nat \ {0}], Scale > 0
    PROVE  TotalDraws \in Nat \ {0}
<1>1. draws \in [InstanceIds -> Int] /\ \A i \in InstanceIds : draws[i] >= 1
  OBVIOUS
<1>2. /\ SumFunction(draws) \in Nat
      /\ SumFunction(draws) >= 1 * Cardinality(InstanceIds)
  BY <1>1, InstancesCounted, SumAtLeast
<1>3. Scale \in Nat /\ 1 * Scale = Scale
  BY WindowAssumption
<1> QED
  BY <1>2, <1>3, InstancesCounted DEF TotalDraws

(***************************************************************************)
(* An instance's part is its share by weight, up to rounding; at least one *)
(* record.                                                                 *)
(***************************************************************************)
LEMMA PartOfBase ==
    ASSUME NEW base \in Nat \ {0}, NEW i \in InstanceIds,
           draws \in [InstanceIds -> Nat \ {0}], draws # Nil,
           NEW a, a = ApplyInstanceMultiplier(base, i)
    PROVE  /\ a \in Nat \ {0}
           /\ (2 * TotalDraws) * a <= (2 * base * Scale) * draws[i] + (2 * TotalDraws - 1)
           /\ (2 * base * Scale) * draws[i] <= (2 * TotalDraws) * a + (TotalDraws - 1)
<1>1. Scale \in Nat \ {0}
  BY WindowAssumption DEF InstanceIds
<1>2. TotalDraws \in Nat \ {0}
  BY <1>1, TotalDrawsType
<1> DEFINE T == TotalDraws
           d == draws[i]
           y == 2 * T
           part == (2 * base * Scale) * d
           r == (part + T) \div y
<1>3. d \in Nat \ {0} /\ y \in Nat \ {0} /\ 2 * base * Scale \in Nat \ {0}
  BY <1>1, <1>2
<1>4. part \in Nat /\ part >= 1
  <2> DEFINE m == 2 * base * Scale
  <2>1. m \in Nat \ {0}
    BY <1>3
  <2> HIDE DEF m, d
  <2>2. m * d \in Nat \ {0}
    BY <1>3, <2>1
  <2> QED
    BY <2>2 DEF m, d
<1>5. Rounded(base, i) = r
  <2>1. 2 * base * d * Scale = part
    <3> HIDE DEF d
    <3> QED
      BY <1>1, <1>3
  <2> QED
    BY <2>1 DEF Rounded
<1>6. a = IF r < 1 THEN 1 ELSE r
  BY <1>5 DEF ApplyInstanceMultiplier
<1> HIDE DEF d, part
<1>7. r \in Nat /\ y * r <= part + T /\ part + T < y * r + y
  <2> DEFINE x == part + T
  <2>1. x \in Nat
    BY <1>2, <1>4
  <2> HIDE DEF x, y
  <2>2. x \div y \in Nat /\ y * (x \div y) <= x /\ x < y * (x \div y) + y
    BY <1>3, <2>1, Quotient
  <2> QED
    BY <2>2 DEF x
<1> HIDE DEF r
<1>8. /\ a \in Nat \ {0}
      /\ y * a <= part + (y - 1)
      /\ part <= y * a + (T - 1)
  <2>1. CASE r < 1
    <3>1. r = 0 /\ a = 1
      BY <1>6, <1>7, <2>1
    <3>2. y * r = 0 /\ y * a = y
      BY <1>3, <3>1
    <3> QED
      BY <1>2, <1>3, <1>4, <1>7, <3>1, <3>2
  <2>2. CASE ~(r < 1)
    <3>1. a = r /\ a \in Nat \ {0}
      BY <1>6, <1>7, <2>2
    <3> DEFINE z == y * a
    <3>2. z \in Int /\ z <= part + T /\ part + T < z + y
      BY <1>3, <1>7, <3>1
    <3> HIDE DEF z
    <3>3. z <= part + (y - 1) /\ part <= z + (T - 1)
      BY <1>2, <1>4, <3>2
    <3> QED
      BY <3>1, <3>3 DEF z
  <2> QED
    BY <2>1, <2>2
<1> QED
  BY <1>8 DEF part, d

(***************************************************************************)
(* Summed up, the parts are the base of every instance, but for less than  *)
(* one record for each.                                                    *)
(***************************************************************************)
LEMMA Redistributed ==
    ASSUME NEW base \in Nat \ {0}, SkewType,
           NEW logs, logs = [i \in InstanceIds |-> ApplyInstanceMultiplier(base, i)]
    PROVE  /\ logs \in [InstanceIds -> Nat \ {0}]
           /\ Scale > 0 => /\ SumFunction(logs) - Scale * base < Scale
                           /\ Scale * base - SumFunction(logs) < Scale
<1>0. Scale \in Nat
  BY WindowAssumption
<1>1. CASE draws = Nil
  <2>1. logs = [i \in InstanceIds |-> base]
    BY <1>1 DEF ApplyInstanceMultiplier
  <2>2. logs \in [InstanceIds -> Nat \ {0}] /\ logs \in [InstanceIds -> Int]
    BY <2>1
  <2> DEFINE total == SumFunction(logs)
             n == Cardinality(InstanceIds)
  <2>3. PICK one \in Int, none \in Int, minus \in Int :
           one = 1 /\ none = 0 /\ minus = -base
    OBVIOUS
  <2>4. /\ \A i \in InstanceIds : one * logs[i] <= none * logs[i] + base
        /\ \A i \in InstanceIds : none * logs[i] <= one * logs[i] + minus
    BY <2>1, <2>3
  <2>5. one * total <= none * total + base * n
    BY <2>2, <2>4, InstancesCounted, SumBound, SMTT(30)
  <2>6. none * total <= one * total + minus * n
    BY <2>2, <2>4, InstancesCounted, SumBound
  <2>7. total \in Int /\ n = Scale
    BY <2>2, InstancesCounted, SumInt
  <2> HIDE DEF total, n
  <2>8. total <= base * Scale /\ 0 <= total - base * Scale
    BY <1>0, <2>3, <2>5, <2>6, <2>7
  <2>9. base * Scale = Scale * base /\ base * Scale \in Int
    BY <1>0
  <2> QED
    BY <1>0, <2>2, <2>7, <2>8, <2>9 DEF total
<1>2. CASE draws # Nil
  <2> DEFINE T == TotalDraws
             S == Scale
             total == SumFunction(logs)
  <2>1. draws \in [InstanceIds -> Nat \ {0}]
    BY <1>2 DEF SkewType
  <2>2. \A i \in InstanceIds :
           /\ logs[i] \in Nat \ {0}
           /\ (2 * T) * logs[i] <= (2 * base * S) * draws[i] + (2 * T - 1)
           /\ (2 * base * S) * draws[i] <= (2 * T) * logs[i] + (T - 1)
    <3> SUFFICES ASSUME NEW i \in InstanceIds
                 PROVE  /\ logs[i] \in Nat \ {0}
                        /\ (2 * T) * logs[i] <= (2 * base * S) * draws[i] + (2 * T - 1)
                        /\ (2 * base * S) * draws[i] <= (2 * T) * logs[i] + (T - 1)
      OBVIOUS
    <3>1. logs[i] = ApplyInstanceMultiplier(base, i)
      OBVIOUS
    <3> QED
      BY <1>2, <2>1, <3>1, PartOfBase
  <2>3. logs \in [InstanceIds -> Nat \ {0}]
    <3>1. DOMAIN logs = InstanceIds /\ logs = [i \in InstanceIds |-> logs[i]]
      OBVIOUS
    <3> QED
      BY <2>2, <3>1
  <2>4. ASSUME S > 0
        PROVE  total - S * base < S /\ S * base - total < S
    <3>1. T \in Nat \ {0}
      BY <2>1, <2>4, TotalDrawsType
    <3>2. /\ logs \in [InstanceIds -> Int] /\ draws \in [InstanceIds -> Int]
          /\ 2 * T \in Int /\ 2 * base * S \in Int /\ 2 * T - 1 \in Int /\ T - 1 \in Int
      BY <1>0, <2>1, <2>3, <3>1
    <3>3. (2 * T) * total <= (2 * base * S) * SumFunction(draws)
                                + (2 * T - 1) * Cardinality(InstanceIds)
      <4> HIDE DEF T, S
      <4> QED
        BY <2>2, <3>2, InstancesCounted, SumBound
    <3>4. (2 * base * S) * SumFunction(draws) <=
             (2 * T) * total + (T - 1) * Cardinality(InstanceIds)
      <4> HIDE DEF T, S
      <4> QED
        BY <2>2, <3>2, InstancesCounted, SumBound
    <3>5. SumFunction(draws) = T /\ Cardinality(InstanceIds) = S /\ total \in Int
      BY <3>2, InstancesCounted, SumInt DEF TotalDraws
    <3>6. /\ (2 * T) * total <= (2 * base * S) * T + (2 * T - 1) * S
          /\ (2 * base * S) * T <= (2 * T) * total + (T - 1) * S
      BY <3>3, <3>4, <3>5
    <3> HIDE DEF T, S, total
    <3>7. S \in Nat \ {0}
      BY <1>0, <2>4 DEF S
    <3>8. (2 * T) * (total - S * base) < (2 * T) * S
      <4>1. /\ (2 * T) * (total - S * base) = (2 * T) * total - (2 * base * S) * T
            /\ (2 * T - 1) * S = (2 * T) * S - S
        BY <3>1, <3>5, <3>7
      <4> DEFINE a == (2 * T) * total
                 b == (2 * base * S) * T
                 c == (2 * T) * S
      <4>2. a \in Int /\ b \in Int /\ c \in Int
        BY <3>1, <3>5, <3>7
      <4>3. (2 * T) * (total - S * base) = a - b /\ a <= b + (c - S)
        BY <3>6, <4>1
      <4> HIDE DEF a, b
      <4> QED
        BY <3>7, <4>2, <4>3
    <3>9. (2 * T) * (S * base - total) < (2 * T) * S
      <4>1. /\ (2 * T) * (S * base - total) = (2 * base * S) * T - (2 * T) * total
            /\ (T - 1) * S = T * S - S /\ (2 * T) * S = T * S + T * S
        BY <3>1, <3>5, <3>7
      <4> DEFINE a == (2 * T) * total
                 b == (2 * base * S) * T
                 c == T * S
      <4>2. a \in Int /\ b \in Int /\ c \in Nat
        BY <3>1, <3>5, <3>7
      <4>3. (2 * T) * (S * base - total) = b - a /\ b <= a + (c - S) /\ (2 * T) * S = c + c
        BY <3>6, <4>1
      <4> HIDE DEF a, b, c
      <4> QED
        BY <3>7, <4>2, <4>3
    <3>10. 2 * T \in Nat \ {0} /\ total - S * base \in Int /\ S * base - total \in Int
      BY <3>1, <3>5, <3>7
    <3> QED
      BY <3>7, <3>8, <3>9, <3>10, Cancel
  <2> QED
    BY <2>3, <2>4
<1> QED
  BY <1>1, <1>2

-----------------------------------------------------------------------------
(***************************************************************************)
(* One interval of a scenario, whatever the volume multiplier in it.       *)
(***************************************************************************)
VolumeInv ==
    /\ TypeOK
    /\ NoInstanceSilent
    /\ VolumeNearlyPreserved
    /\ remainingIntervals > 0 => VolumeProfile # Nil

(***************************************************************************)
(* An interval keeps the invariant.                                        *)
(***************************************************************************)
LEMMA ProduceWithKeeps ==
    ASSUME VolumeInv, NEW mult \in Nat, ProduceWith(mult)
    PROVE  /\ now' \in Int /\ volumeMult' \in Nat
           /\ draws' \in {Nil} \cup [InstanceIds -> Nat \ {0}]
           /\ instanceLogs' \in [InstanceIds -> Nat]
           /\ NoInstanceSilent'
           /\ VolumeNearlyPreserved'
<1> DEFINE base == EffectiveLogs(now, mult)
<1>1. /\ now \in Int /\ Interval \in Nat
      /\ now' = now + Interval /\ volumeMult' = mult /\ draws' = draws
      /\ instanceLogs' = [i \in InstanceIds |-> ApplyInstanceMultiplier(base, i)]
  BY WindowAssumption DEF ProduceWith, VolumeInv, TypeOK
<1>2. base \in Nat \ {0} /\ SkewType
  BY <1>1, EffectiveType DEF VolumeInv, TypeOK, SkewType
<1>3. /\ instanceLogs' \in [InstanceIds -> Nat \ {0}]
      /\ Scale > 0 => /\ SumFunction(instanceLogs') - Scale * base < Scale
                      /\ Scale * base - SumFunction(instanceLogs') < Scale
  <2> HIDE DEF base
  <2> QED
    BY <1>1, <1>2, Redistributed
<1>4. ProducedAt' = now
  BY <1>1 DEF ProducedAt
<1>5. WithoutSkew' = Scale * base
  BY <1>1, <1>4 DEF WithoutSkew, EffectiveLogs, Truncated
<1>6. InstancesTotal' = SumFunction(instanceLogs')
  BY DEF InstancesTotal
<1>7. VolumeNearlyPreserved'
  BY <1>3, <1>5, <1>6 DEF VolumeNearlyPreserved
<1>8. NoInstanceSilent'
  BY <1>3 DEF NoInstanceSilent
<1>9. instanceLogs' \in [InstanceIds -> Nat]
  <2> HIDE DEF base
  <2> QED
    BY <1>3
<1> QED
  BY <1>1, <1>2, <1>7, <1>8, <1>9 DEF SkewType

LEMMA VolumeInit == Init => VolumeInv
<1> SUFFICES ASSUME Init PROVE VolumeInv
  OBVIOUS
<1>1. draws \in {Nil} \cup [InstanceIds -> Nat \ {0}]
  BY WindowAssumption DEF Init
<1>2. TypeOK
  BY <1>1, WindowAssumption DEF Init, TypeOK, Hundred
<1>3. ~Produced
  BY WindowAssumption DEF Init, Produced
<1> QED
  BY <1>2, <1>3 DEF Init, VolumeInv, NoInstanceSilent, VolumeNearlyPreserved

LEMMA VolumeNext == VolumeInv /\ [Next]_vars => VolumeInv'
<1> SUFFICES ASSUME VolumeInv, [Next]_vars PROVE VolumeInv'
  OBVIOUS
<1>1. ASSUME NEW mult \in Nat, ProduceWith(mult),
             multiplier' \in Nat, remainingIntervals' \in Nat,
             run' \in [kind : {"normal", "burst", "quiet"}, length : Nat],
             remainingIntervals' > 0 => VolumeProfile # Nil
      PROVE  VolumeInv'
  <2>1. /\ now' \in Int /\ volumeMult' \in Nat
        /\ draws' \in {Nil} \cup [InstanceIds -> Nat \ {0}]
        /\ instanceLogs' \in [InstanceIds -> Nat]
        /\ NoInstanceSilent' /\ VolumeNearlyPreserved'
    BY <1>1, ProduceWithKeeps
  <2>2. TypeOK'
    BY <1>1, <2>1 DEF TypeOK
  <2> QED
    BY <1>1, <2>1, <2>2 DEF VolumeInv
<1>2. multiplier \in Nat /\ remainingIntervals \in Nat
      /\ run \in [kind : {"normal", "burst", "quiet"}, length : Nat]
  BY DEF VolumeInv, TypeOK
<1>3. CASE ContinueSpell
  <2>1. /\ VolumeProfile # Nil /\ remainingIntervals > 0
        /\ remainingIntervals' = remainingIntervals - 1
        /\ run' = [run EXCEPT !.length = @ + 1]
        /\ multiplier' = multiplier /\ ProduceWith(multiplier)
    BY <1>3 DEF ContinueSpell, SpellGoesOn
  <2> QED
    BY <1>1, <1>2, <2>1
<1>4. ASSUME NEW kind \in {"burst", "quiet"}, NEW mult \in Nat,
             NEW duration \in Nat \ {0}, BeginSpell(kind, mult, duration)
      PROVE  VolumeInv'
  <2>1. /\ VolumeProfile # Nil /\ multiplier' = mult
        /\ remainingIntervals' = duration - 1
        /\ run' = [kind |-> kind, length |-> 1]
        /\ ProduceWith(mult)
    BY <1>4 DEF BeginSpell, IntervalsAfterThis
  <2> QED
    BY <1>1, <2>1
<1>5. CASE BeginBurst
  <2>1. PICK roll \in Rolls : roll < VolumeProfile.burstProbability
    BY <1>5 DEF BeginBurst
  <2>2. PICK mult \in VolumeProfile.burstMultipliers, duration \in BurstDurations :
           BeginSpell("burst", mult, duration)
    BY <1>5 DEF BeginBurst
  <2>3. VolumeProfile # Nil
    BY <1>5 DEF BeginBurst
  <2>4. mult \in Nat /\ duration \in Nat \ {0}
    BY <2>1, <2>3, VolumeAssumption, BurstDurationPositive
  <2> QED
    BY <1>4, <2>2, <2>4
<1>6. CASE BeginQuiet
  <2>1. PICK roll \in Rolls :
           /\ VolumeProfile.burstProbability <= roll
           /\ roll < VolumeProfile.burstProbability + VolumeProfile.quietProbability
    BY <1>6 DEF BeginQuiet
  <2>2. PICK duration \in QuietDurations :
           BeginSpell("quiet", VolumeProfile.quietMultiplier, duration)
    BY <1>6 DEF BeginQuiet
  <2>3. VolumeProfile # Nil
    BY <1>6 DEF BeginQuiet
  <2>4. VolumeProfile.quietMultiplier \in Nat /\ duration \in Nat \ {0}
    BY <2>1, <2>3, VolumeAssumption, QuietDurationPositive
  <2> QED
    BY <1>4, <2>2, <2>4
<1>7. CASE StayNormal
  <2>1. /\ run' = [kind |-> "normal", length |-> 0]
        /\ multiplier' = multiplier /\ remainingIntervals' = remainingIntervals
        /\ ProduceWith(Hundred)
    BY <1>7 DEF StayNormal
  <2>2. Hundred \in Nat
    BY DEF Hundred
  <2> QED
    BY <1>1, <1>2, <2>1, <2>2 DEF VolumeInv
<1>8. CASE UNCHANGED vars
  <2>1. TypeOK' /\ NoInstanceSilent'
    BY <1>8 DEF vars, VolumeInv, TypeOK, NoInstanceSilent, Produced
  <2>2. VolumeNearlyPreserved'
    BY <1>8
       DEF vars, VolumeInv, VolumeNearlyPreserved, Produced, WithoutSkew,
           InstancesTotal, ProducedAt
  <2> QED
    BY <1>8, <2>1, <2>2 DEF vars, VolumeInv
<1> QED
  BY <1>3, <1>5, <1>6, <1>7, <1>8 DEF Next, WindowOver

(***************************************************************************)
(* The state of a scenario's volume is of the right type, for every        *)
(* profile.                                                                *)
(***************************************************************************)
THEOREM VolumeTypeCorrect == Spec => []TypeOK
<1>1. VolumeInv => TypeOK
  BY DEF VolumeInv
<1> QED
  BY VolumeInit, VolumeNext, <1>1, PTL DEF Spec

(***************************************************************************)
(* However low the curve, a quiet spell and the skew go together, no       *)
(* instance falls silent (produceLogs, applyInstanceMultiplier).           *)
(***************************************************************************)
THEOREM NoInstanceSilentCorrect == Spec => []NoInstanceSilent
<1>1. VolumeInv => NoInstanceSilent
  BY DEF VolumeInv
<1> QED
  BY VolumeInit, VolumeNext, <1>1, PTL DEF Spec

(***************************************************************************)
(* Whatever the draws, the skew changes what the instances emit together   *)
(* by less than one record for each (buildInstanceMultipliers).            *)
(***************************************************************************)
THEOREM VolumeNearlyPreservedCorrect == Spec => []VolumeNearlyPreserved
<1>1. VolumeInv => VolumeNearlyPreserved
  BY DEF VolumeInv
<1> QED
  BY VolumeInit, VolumeNext, <1>1, PTL DEF Spec
-----------------------------------------------------------------------------
(***************************************************************************)
(* The curve over the day.                                                 *)
(***************************************************************************)
LEMMA PercentMonotone ==
    ASSUME NEW x \in Nat, NEW v \in 0..Hundred, NEW w \in 0..Hundred, v <= w
    PROVE  (x * v) \div Hundred <= (x * w) \div Hundred
<1> DEFINE a == x * v
           b == x * w
<1>1. a \in Nat /\ b \in Nat /\ a <= b
  <2>1. \E k \in Nat : w = v + k
    <3>1. w - v \in Nat /\ w = v + (w - v)
      BY DEF Hundred
    <3> QED
      BY <3>1
  <2>2. PICK k \in Nat : w = v + k
    BY <2>1
  <2>3. x * k \in Nat /\ x * v \in Nat /\ x * (v + k) = x * v + x * k
    BY DEF Hundred
  <2> QED
    BY <2>2, <2>3
<1> HIDE DEF a, b
<1>2. a \div 100 <= b \div 100
  BY <1>1
<1> QED
  BY <1>2 DEF a, b, Hundred

(***************************************************************************)
(* The curve is higher where the wave is.                                  *)
(***************************************************************************)
LEMMA BaseMonotone ==
    ASSUME Diurnal # Nil, Diurnal.troughMultiplier <= Diurnal.peakMultiplier,
           NEW g \in 0..23, NEW h \in 0..23, WaveAt(g) <= WaveAt(h)
    PROVE  Base(g) <= Base(h)
<1> DEFINE x == Diurnal.peakMultiplier - Diurnal.troughMultiplier
<1>1. Diurnal.peakMultiplier \in Nat /\ Diurnal.troughMultiplier \in Nat /\ x \in Nat
  BY DiurnalAssumption
<1>2. WaveAt(g) \in 0..Hundred /\ WaveAt(h) \in 0..Hundred
  BY WaveType
<1>3. /\ Base(g) = Diurnal.troughMultiplier + (x * WaveAt(g)) \div Hundred
      /\ Base(h) = Diurnal.troughMultiplier + (x * WaveAt(h)) \div Hundred
  BY DEF Base
<1> HIDE DEF x
<1>4. /\ (x * WaveAt(g)) \div Hundred <= (x * WaveAt(h)) \div Hundred
      /\ (x * WaveAt(g)) \div Hundred \in Int
      /\ (x * WaveAt(h)) \div Hundred \in Int
  <2>1. PICK v \in 0..Hundred, w \in 0..Hundred : v = WaveAt(g) /\ w = WaveAt(h)
    BY <1>2
  <2>2. v <= w /\ x \in Int
    BY <1>1, <2>1
  <2>3. (x * v) \div Hundred <= (x * w) \div Hundred
    BY <1>1, <2>2, PercentMonotone
  <2>4. (x * v) \div Hundred \in Int /\ (x * w) \div Hundred \in Int
    BY <2>2, PercentOf
  <2> QED
    BY <2>1, <2>3, <2>4
<1> QED
  BY <1>1, <1>3, <1>4

(***************************************************************************)
(* The wave from one hour to the next.                                     *)
(***************************************************************************)
LEMMA WaveNext ==
    ASSUME Diurnal # Nil, NEW h \in 0..23
    PROVE  IF PhaseOf(h) < TroughPhase
           THEN WaveAt((h + 1) % 24) <= WaveAt(h)
           ELSE WaveAt((h + 1) % 24) >= WaveAt(h)
<1> DEFINE p == PhaseOf(h)
           d == TroughPhase
           a == 24 - d
           n == p - d
           g == (h + 1) % 24
<1>1. /\ p \in 0..23 /\ d \in 1..23 /\ d \in Arcs /\ a \in Arcs /\ a \in 1..23
      /\ g \in 0..23
  BY PhaseType
<1>2. PhaseOf(g) = IF p = 23 THEN 0 ELSE p + 1
  <2> DEFINE P == Diurnal.peakHour
  <2>1. P \in 0..23
    BY PhaseType
  <2>2. PhaseOf(g) = (g - P + 24) % 24 /\ p = (h - P + 24) % 24
    BY DEF PhaseOf
  <2> HIDE DEF P, p
  <2>3. g = IF h = 23 THEN 0 ELSE h + 1
    OBVIOUS
  <2>4. p = IF h >= P THEN h - P ELSE h - P + 24
    BY <2>1, <2>2
  <2>5. g \in 0..23 /\ PhaseOf(g) = IF g >= P THEN g - P ELSE g - P + 24
    <3>1. g \in 0..23
      BY <2>3
    <3> HIDE DEF g
    <3> QED
      BY <2>1, <2>2, <3>1
  <2> HIDE DEF g
  <2> QED
    BY <2>1, <2>3, <2>4, <2>5
<1>3. /\ Wave[<<0, d>>] = Hundred /\ Wave[<<d, d>>] = 0
      /\ Wave[<<0, a>>] = Hundred /\ Wave[<<a, a>>] = 0
      /\ \A i \in 0..a : Wave[<<i, a>>] \in 0..Hundred
      /\ \A i \in 1..d : Wave[<<i, d>>] <= Wave[<<i - 1, d>>]
      /\ \A i \in 1..a : Wave[<<i, a>>] <= Wave[<<i - 1, a>>]
  <2> HIDE DEF a, d
  <2> QED
    BY <1>1, WaveAssumption
<1>4. WaveAt(g) \in 0..Hundred /\ WaveAt(h) \in 0..Hundred
  BY <1>1, WaveType
<1>5. CASE p < d
  <2>1. WaveAt(h) = Wave[<<p, d>>]
    BY <1>1, <1>5 DEF WaveAt
  <2>2. PhaseOf(g) = p + 1 /\ p + 1 <= d /\ p + 1 \in 1..d /\ p + 1 - 1 = p
    BY <1>1, <1>2, <1>5
  <2>3. WaveAt(g) = Wave[<<p + 1, d>>]
    BY <2>2 DEF WaveAt
  <2>4. Wave[<<p + 1, d>>] <= Wave[<<p + 1 - 1, d>>]
    <3>1. PICK q \in 1..d : q = p + 1
      BY <2>2
    <3>2. Wave[<<q, d>>] <= Wave[<<q - 1, d>>]
      <4> HIDE DEF d, a
      <4> QED
        BY <1>3
    <3>3. q - 1 = p /\ p + 1 - 1 = p
      BY <1>1, <3>1
    <3> HIDE DEF p, d
    <3> QED
      BY <3>1, <3>2, <3>3
  <2>5. WaveAt(g) <= WaveAt(h)
    BY <2>1, <2>2, <2>3, <2>4
  <2> QED
    BY <1>5, <2>5
<1>6. CASE ~(p < d)
  <2>1. WaveAt(h) = Hundred - Wave[<<n, a>>] /\ n \in 0..a - 1 /\ Wave[<<n, a>>] \in 0..Hundred
    <3>1. CASE p = d
      <4>1. WaveAt(h) = 0 /\ n = 0
        BY <1>1, <1>3, <3>1 DEF WaveAt
      <4> QED
        BY <1>1, <1>3, <4>1 DEF Hundred
    <3>2. CASE p # d
      <4>1. n \in 0..a - 1 /\ ~(p <= d)
        BY <1>1, <1>6, <3>2
      <4>2. WaveAt(h) = Hundred - Wave[<<n, a>>]
        BY <4>1 DEF WaveAt
      <4>3. n \in 0..a
        BY <1>1, <4>1
      <4> HIDE DEF n, a
      <4> QED
        BY <1>3, <4>1, <4>2, <4>3
    <3> QED
      BY <3>1, <3>2
  <2>2. CASE p = 23
    <3>1. WaveAt(g) = Hundred
      BY <1>1, <1>2, <1>3, <2>2 DEF WaveAt
    <3>2. WaveAt(g) >= WaveAt(h)
      BY <1>4, <3>1 DEF Hundred
    <3> QED
      BY <1>6, <3>2
  <2>3. CASE p # 23
    <3>1. PhaseOf(g) = p + 1 /\ ~(p + 1 <= d) /\ p + 1 - d = n + 1 /\ n + 1 \in 1..a
      BY <1>1, <1>2, <1>6, <2>1, <2>3
    <3>2. WaveAt(g) = Hundred - Wave[<<n + 1, a>>]
      <4>1. ~(PhaseOf(g) <= d) /\ PhaseOf(g) - d = n + 1
        <5> HIDE DEF g, p, d
        <5> QED
          BY <1>1, <3>1
      <4> HIDE DEF g, n, p
      <4> QED
        BY <4>1 DEF WaveAt
    <3>3. Wave[<<n + 1, a>>] <= Wave[<<n, a>>] /\ Wave[<<n + 1, a>>] \in 0..Hundred
      <4> DEFINE m == n + 1
      <4>1. m \in 1..a /\ m \in 0..a /\ m - 1 = n
        BY <1>1, <2>1, <3>1
      <4> HIDE DEF m, n, a
      <4> QED
        BY <1>3, <4>1 DEF m
    <3>4. WaveAt(g) >= WaveAt(h)
      <4> HIDE DEF n, a
      <4> QED
        BY <2>1, <3>2, <3>3, SMTT(30) DEF Hundred
    <3> QED
      BY <1>6, <3>4
  <2> QED
    BY <2>2, <2>3
<1> QED
  BY <1>5, <1>6

(***************************************************************************)
(* At the peak hour and at the trough hour the curve is what was           *)
(* configured.                                                             *)
(***************************************************************************)
LEMMA BaseEnds ==
    ASSUME Diurnal # Nil
    PROVE  /\ Base(Diurnal.peakHour) = Diurnal.peakMultiplier
           /\ Base(Diurnal.troughHour) = Diurnal.troughMultiplier
<1> DEFINE x == Diurnal.peakMultiplier - Diurnal.troughMultiplier
           d == TroughPhase
<1>1. Diurnal.peakMultiplier \in Nat /\ Diurnal.troughMultiplier \in Nat /\ x \in Int
  BY DiurnalAssumption, SMTT(30)
<1>2. /\ PhaseOf(Diurnal.peakHour) = 0 /\ PhaseOf(Diurnal.troughHour) = d
      /\ d \in 1..23 /\ d \in Arcs
  BY PhaseType DEF PhaseOf, TroughPhase
<1>3. Wave[<<0, d>>] = Hundred /\ Wave[<<d, d>>] = 0
  <2> HIDE DEF d
  <2> QED
    BY <1>2, WaveAssumption
<1>4. WaveAt(Diurnal.peakHour) = Hundred /\ WaveAt(Diurnal.troughHour) = 0
  BY <1>2, <1>3 DEF WaveAt
<1>5. (x * Hundred) \div Hundred = x /\ (x * 0) \div Hundred = 0
  <2> HIDE DEF x
  <2> QED
    BY <1>1 DEF Hundred
<1> HIDE DEF x
<1>6. /\ Base(Diurnal.peakHour) = Diurnal.troughMultiplier + x
      /\ Base(Diurnal.troughHour) = Diurnal.troughMultiplier + 0
  BY <1>4, <1>5 DEF Base, x
<1> QED
  BY <1>1, <1>6 DEF x

(***************************************************************************)
(* For every two hours, multipliers and wave, the curve is the configured  *)
(* one at the peak and at the trough, falls from the one to the other and  *)
(* rises back (diurnalMultiplier).                                         *)
(***************************************************************************)
THEOREM DiurnalShapeCorrect == Spec => []DiurnalShape
<1>1. TypeOK => DiurnalShape
  <2> SUFFICES ASSUME TypeOK, Diurnal # Nil,
                      Diurnal.troughMultiplier <= Diurnal.peakMultiplier
               PROVE  DiurnalShape
    BY DEF DiurnalShape
  <2> DEFINE h == HourOf(now)
             g == (h + 1) % 24
  <2>1. h \in 0..23
    BY HourType DEF TypeOK
  <2>2. g \in 0..23
    BY <2>1
  <2>3. WaveAt(h) \in Int /\ WaveAt(g) \in Int
    BY <2>1, <2>2, WaveType
  <2>4. Base(h) \in Int /\ Base(g) \in Int
    BY <2>1, <2>2, BaseType
  <2> HIDE DEF h
  <2>5. IF PhaseOf(h) < TroughPhase THEN WaveAt(g) <= WaveAt(h) ELSE WaveAt(g) >= WaveAt(h)
    BY <2>1, WaveNext
  <2> HIDE DEF g
  <2>6. IF PhaseOf(h) < TroughPhase THEN Base(g) <= Base(h) ELSE Base(g) >= Base(h)
    <3>1. CASE PhaseOf(h) < TroughPhase
      BY <2>1, <2>2, <2>5, <3>1, BaseMonotone
    <3>2. CASE ~(PhaseOf(h) < TroughPhase)
      <4>1. WaveAt(h) <= WaveAt(g)
        BY <2>3, <2>5, <3>2
      <4>2. Base(h) <= Base(g)
        BY <2>1, <2>2, <4>1, BaseMonotone
      <4> QED
        BY <2>4, <3>2, <4>2
    <3> QED
      BY <3>1, <3>2
  <2> QED
    BY <2>6, BaseEnds DEF DiurnalShape, h, g
<1> QED
  BY <1>1, VolumeTypeCorrect, PTL
-----------------------------------------------------------------------------
(***************************************************************************)
(* The remainder of Go's division, corrected, is the one that numbers the  *)
(* ticks of every interval from 0.                                         *)
(***************************************************************************)
LEMMA Remainder ==
    ASSUME NEW x \in Nat, NEW y \in Nat \ {0}
    PROVE  x % y \in 0..y - 1 /\ \E q \in Int : x = y * q + (x % y)
<1>1. x % y \in 0..y - 1 /\ x \div y \in Int /\ x = y * (x \div y) + (x % y)
  BY Z3
<1> QED
  BY <1>1

(***************************************************************************)
(* A multiple of y that is less than y away from zero is zero.             *)
(***************************************************************************)
LEMMA SmallMultiple ==
    ASSUME NEW y \in Nat \ {0}, NEW k \in Int, y * k < y, -y < y * k
    PROVE  k = 0
<1>1. CASE k >= 1
  <2>1. PICK j \in Nat : k = 1 + j
    <3>1. k - 1 \in Nat /\ k = 1 + (k - 1)
      BY <1>1
    <3> QED
      BY <3>1
  <2>2. y * (1 + j) = y + y * j /\ y * j \in Nat
    OBVIOUS
  <2> QED
    BY <2>1, <2>2
<1>2. CASE k <= -1
  <2>1. PICK j \in Nat : k = -1 - j
    <3>1. -1 - k \in Nat /\ k = -1 - (-1 - k)
      BY <1>2
    <3> QED
      BY <3>1
  <2>2. y * (-1 - j) = -y - y * j /\ y * j \in Nat
    OBVIOUS
  <2> QED
    BY <2>1, <2>2
<1> QED
  BY <1>1, <1>2

(***************************************************************************)
(* The remainder of the time in the period of a cron burst.                *)
(***************************************************************************)
LEMMA CronModType ==
    ASSUME NEW t \in Int, NEW b \in Nat \ {0}
    PROVE  CronMod(t, b) \in 0..b - 1 /\ \E q \in Int : t = b * q + CronMod(t, b)
<1>1. CASE t >= 0
  <2>1. t \in Nat /\ t % b \in 0..b - 1
    BY <1>1, Remainder
  <2>2. CronMod(t, b) = t % b
    BY <1>1, <2>1 DEF CronMod, GoRemainder
  <2> QED
    BY <2>1, <2>2, Remainder
<1>2. CASE t < 0
  <2> DEFINE u == -t
             m == u % b
  <2>1. u \in Nat
    BY <1>2
  <2>2. m \in 0..b - 1 /\ \E q \in Int : u = b * q + m
    <3> HIDE DEF u
    <3> QED
      BY <2>1, Remainder
  <2>3. PICK q \in Int : u = b * q + m
    BY <2>2
  <2>4. CronMod(t, b) = IF -m < 0 THEN -m + b ELSE -m
    BY <1>2 DEF CronMod, GoRemainder
  <2>5. b * (-q) = -(b * q) /\ b * (-q - 1) = -(b * q) - b /\ b * q \in Int
    OBVIOUS
  <2>6. t = -u /\ -q \in Int /\ -q - 1 \in Int
    OBVIOUS
  <2> HIDE DEF u, m
  <2>7. CASE m = 0
    <3>1. CronMod(t, b) = 0 /\ 0 \in 0..b - 1
      <4>1. PICK z \in Int : z = -m /\ z + m = 0
        BY <2>2
      <4>2. CronMod(t, b) = IF z < 0 THEN z + b ELSE z
        BY <2>4, <4>1
      <4>3. z + m = 0
        BY <4>1
      <4> QED
        BY <2>7, <4>2, <4>3
    <3> DEFINE z == b * q
    <3>2. u = z + m /\ b * (-q) = -z /\ z \in Int
      BY <2>3, <2>5
    <3> HIDE DEF z
    <3>3. t = b * (-q) + CronMod(t, b)
      BY <2>6, <2>7, <3>1, <3>2
    <3> QED
      BY <2>6, <3>1, <3>3
  <2>8. CASE m # 0
    <3>1. CronMod(t, b) = b - m /\ b - m \in 0..b - 1
      BY <2>2, <2>4, <2>8
    <3>2. t = b * (-q - 1) + (b - m)
      BY <2>2, <2>3, <2>5, <2>6
    <3> QED
      BY <2>6, <3>1, <3>2
  <2> QED
    BY <2>7, <2>8
<1> QED
  BY <1>1, <1>2

(***************************************************************************)
(* Division is unique.                                                     *)
(***************************************************************************)
LEMMA SameRemainder ==
    ASSUME NEW b \in Nat \ {0}, NEW p \in Int, NEW q \in Int,
           NEW r \in 0..b - 1, NEW s \in 0..b - 1
    PROVE  /\ b * p + r = b * q + s => r = s
           /\ r = s /\ b * p + r - (b * q + s) < b /\ b * q + s - (b * p + r) < b => p = q
<1>1. /\ b * (p - q) = b * p - b * q
      /\ p - q \in Int /\ b * p \in Int /\ b * q \in Int
  OBVIOUS
<1>2. -b < b * (p - q) /\ b * (p - q) < b => p - q = 0
  BY <1>1, SmallMultiple
<1>3. p - q = 0 => p = q
  OBVIOUS
<1> QED
  BY <1>1, <1>2, <1>3

(***************************************************************************)
(* In any stretch as long as the interval, as many ticks have a remainder  *)
(* below the duration as the duration is long.                             *)
(***************************************************************************)
LEMMA FiresForDuration ==
    ASSUME NEW n \in Int, NEW b \in Nat \ {0}, NEW d \in 1..b - 1
    PROVE  Cardinality({t \in n..n + b - 1 : CronMod(t, b) < d}) = d
<1> DEFINE window == n..n + b - 1
           firing == {t \in window : CronMod(t, b) < d}
           first == 0..d - 1
           f == [t \in firing |-> CronMod(t, b)]
<1>1. \A t \in window : t \in Int /\ CronMod(t, b) \in 0..b - 1
  BY CronModType
<1>2. f \in [firing -> first]
  <2>1. \A t \in firing : CronMod(t, b) \in first
    BY <1>1
  <2> HIDE DEF firing, first
  <2> QED
    BY <2>1
<1>3. ASSUME NEW t \in firing, NEW u \in firing, f[t] = f[u]
      PROVE  t = u
  <2>1. t \in Int /\ u \in Int /\ t - u < b /\ u - t < b
    OBVIOUS
  <2>2. PICK r \in 0..b - 1 : r = CronMod(t, b) /\ r = CronMod(u, b)
    BY <1>1, <1>3
  <2>3. PICK p \in Int : t = b * p + CronMod(t, b)
    BY <2>1, CronModType
  <2>4. PICK q \in Int : u = b * q + CronMod(u, b)
    BY <2>1, CronModType
  <2>5. p = q
    <3>1. t = b * p + r /\ u = b * q + r
      BY <2>2, <2>3, <2>4
    <3>2. b * p + r - (b * q + r) < b /\ b * q + r - (b * p + r) < b
      BY <2>1, <3>1
    <3> QED
      BY <3>2, SameRemainder
  <2> QED
    BY <2>2, <2>3, <2>4, <2>5
<1>4. ASSUME NEW r \in first
      PROVE  \E t \in firing : f[t] = r
  <2> DEFINE m == CronMod(n, b)
  <2>1. m \in 0..b - 1 /\ \E q \in Int : n = b * q + m
    BY CronModType
  <2>2. PICK q \in Int : n = b * q + m
    BY <2>1
  <2> HIDE DEF m
  <2>3. PICK t \in window, p \in Int : t = b * p + r
    <3>1. CASE r >= m
      <4>1. n + (r - m) \in window /\ n + (r - m) = b * q + r
        BY <2>1, <2>2, <3>1
      <4> QED
        BY <4>1
    <3>2. CASE r < m
      <4>1. b * (q + 1) = b * q + b /\ q + 1 \in Int
        OBVIOUS
      <4>2. n + (r - m) + b \in window /\ n + (r - m) + b = b * (q + 1) + r
        BY <2>1, <2>2, <3>2, <4>1
      <4> QED
        BY <4>1, <4>2
    <3> QED
      BY <2>1, <3>1, <3>2
  <2>4. r \in 0..b - 1 /\ t \in Int
    OBVIOUS
  <2>5. PICK s \in 0..b - 1 : s = CronMod(t, b)
    BY <2>4, CronModType
  <2>6. s = r
    <3>1. PICK k \in Int : t = b * k + CronMod(t, b)
      BY <2>4, CronModType
    <3>2. b * k + s = b * p + r
      BY <2>3, <2>5, <3>1
    <3> QED
      BY <2>4, <3>2, SameRemainder
  <2>7. t \in firing
    <3>1. CronMod(t, b) < d
      BY <2>5, <2>6
    <3> QED
      BY <3>1
  <2> QED
    BY <2>5, <2>6, <2>7
<1>5. IsFiniteSet(firing)
  <2>1. IsFiniteSet(window)
    <3>1. n + b - 1 \in Int
      OBVIOUS
    <3> QED
      BY <3>1, FS_Interval
  <2>2. firing \in SUBSET window
    OBVIOUS
  <2> HIDE DEF firing, window
  <2> QED
    BY <2>1, <2>2, FS_Subset
<1>6. Cardinality(first) = d
  <2>1. 0 \in Int /\ d - 1 \in Int /\ ~(0 > d - 1) /\ d - 1 - 0 + 1 = d
    OBVIOUS
  <2> QED
    BY <2>1, FS_Interval
<1> HIDE DEF firing, first, f
<1>7. f \in Bijection(firing, first)
  BY <1>2, <1>3, <1>4 DEF Bijection, Injection, IsInjective, Surjection
<1>8. ExistsBijection(firing, first)
  BY <1>7 DEF ExistsBijection
<1>9. Cardinality(first) = Cardinality(firing)
  BY <1>5, <1>8, FS_Bijection
<1> QED
  BY <1>6, <1>9 DEF firing

(***************************************************************************)
(* Whatever the interval and the duration of a cron burst, it fires for    *)
(* its duration in every stretch as long as its interval, also before 1970 *)
(* and across it (diurnalMultiplier).                                      *)
(***************************************************************************)
THEOREM CronBurstsPeriodicCorrect == Spec => []CronBurstsPeriodic
<1>1. TypeOK => CronBurstsPeriodic
  <2> SUFFICES ASSUME TypeOK, Diurnal # Nil,
                      NEW i \in DOMAIN Diurnal.cronBursts
               PROVE  LET cb == Diurnal.cronBursts[i] IN
                      Quantify(now..now + cb.interval - 1, LAMBDA t : Fires(cb, t))
                         = cb.duration
    BY DEF CronBurstsPeriodic
  <2> DEFINE cb == Diurnal.cronBursts[i]
  <2>1. cb.interval \in Nat \ {0} /\ cb.duration \in 1..cb.interval - 1 /\ now \in Int
    BY CronBurstType DEF TypeOK
  <2>2. Cardinality({t \in now..now + cb.interval - 1 : CronMod(t, cb.interval) < cb.duration})
           = cb.duration
    <3> HIDE DEF cb
    <3> QED
      BY <2>1, FiresForDuration
  <2> QED
    BY <2>2 DEF Quantify, Fires
<1> QED
  BY <1>1, VolumeTypeCorrect, PTL
=============================================================================
