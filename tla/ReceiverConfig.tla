--------------------------- MODULE ReceiverConfig ---------------------------
(***************************************************************************)
(* From the configuration of a receiver to its scenarios                   *)
(* (src/logsgenreceiver/config.go, builtin_profiles.go and the head of     *)
(* newLogsGenReceiver): the collector validates a configuration and then   *)
(* creates the receiver, which fills in defaults.  The built-in profiles   *)
(* are loaded once and shared: a receiver that uses one fills in the       *)
(* defaults in the shared copy.                                            *)
(*                                                                         *)
(* Probabilities, rates and multipliers are integers in hundredths.  A     *)
(* field the user leaves out decodes to zero.  The zero time is 0, and     *)
(* every real time is later.                                               *)
(***************************************************************************)
EXTENDS Integers, Sequences, LogGen, IPPool

CONSTANTS
    Receivers,      \* receivers of the collector
    Inputs,         \* what may be configured: functions on Receivers
    BuiltinFiles,   \* what builtin/profiles.yaml may hold: name -> scenarios
    Templates,      \* path -> "ok", "empty" or "missing" (resource template)
    Now             \* the wall clock when receivers are created

(***************************************************************************)
(* Only these application profiles draw IP addresses; GetAppProfile does   *)
(* without the directory.                                                  *)
(***************************************************************************)
IPPoolPaths == {"builtin/k8s-nginx", "builtin/k8s-mysql", "builtin/k8s-redis",
                "builtin/k8s-proxy", "k8s-nginx", "k8s-mysql", "k8s-redis",
                "k8s-proxy"}

ASSUME ConfigAssumption ==
    /\ Now \in Nat \ {0}
    /\ \A input \in Inputs :
          /\ DOMAIN input = Receivers
          /\ \A r \in Receivers :
                /\ input[r].startTime \in Nat /\ input[r].endTime \in Nat
                /\ input[r].startNowMinus \in 0..Now - 1
                /\ input[r].endNowMinus \in 0..Now - 1

(***************************************************************************)
(* A decoded configuration has all its fields, set or not.                 *)
(***************************************************************************)
HaveDiurnal(scns) ==
    \A i \in DOMAIN scns :
        /\ "diurnal" \in DOMAIN scns[i]
        /\ scns[i].diurnal # Nil =>
              /\ {"peakHour", "troughHour", "peakMultiplier", "troughMultiplier"}
                    \subseteq DOMAIN scns[i].diurnal
              /\ scns[i].diurnal.peakMultiplier \in Int
              /\ scns[i].diurnal.troughMultiplier \in Int

ValidatedFields == {"scale", "concurrency", "logsPerInterval", "needles", "volume",
                    "severityWeights", "ipPool", "instanceVolumeSkew"}
HaveValidated(scns) ==
    \A i \in DOMAIN scns :
        /\ ValidatedFields \subseteq DOMAIN scns[i]
        /\ scns[i].scale \in Int /\ scns[i].concurrency \in Int
        /\ scns[i].severityWeights # Nil => scns[i].severityWeights \in [1..6 -> Int]
        /\ scns[i].diurnal # Nil => "cronBursts" \in DOMAIN scns[i].diurnal

ASSUME FieldsAssumption ==
    /\ \A input \in Inputs : \A r \in Receivers :
          /\ {"profile", "scenarios", "startTime", "endTime"} \subseteq DOMAIN input[r]
          /\ HaveDiurnal(input[r].scenarios) /\ HaveValidated(input[r].scenarios)
    /\ \A file \in BuiltinFiles : \A name \in DOMAIN file :
          HaveDiurnal(file[name]) /\ HaveValidated(file[name])

VARIABLES
    phase,      \* phase[r]: "new", "valid", "rejected", "failed", "panicked"
                \* or "created"
    cfg,        \* cfg[r]: its configuration
    loaded,     \* built-in profiles: "no", "ok" or "error"
    profiles    \* the shared built-in profiles, as they are now

vars == <<phase, cfg, loaded, profiles>>

TypeOK ==
    /\ phase \in [Receivers -> {"new", "valid", "rejected", "failed", "panicked", "created"}]
    /\ loaded \in {"no", "ok", "error"}
    /\ \A r \in Receivers :
          /\ phase[r] = "created" => cfg[r].startTime > 0 /\ cfg[r].endTime > 0
          /\ phase[r] # "new" /\ cfg[r].profile # "" =>
                loaded # "no" \/ phase[r] = "rejected"

Init ==
    /\ phase = [r \in Receivers |-> "new"]
    /\ cfg \in Inputs
    /\ loaded = "no"
    /\ profiles \in BuiltinFiles
-----------------------------------------------------------------------------
(***************************************************************************)
(* validateScenarios and the functions it calls.                           *)
(***************************************************************************)
ValidSeverity(sev) == sev.letters = "" \/ sev.letters \in SeverityTexts

ValidNeedle(n) ==
    /\ n.name # "" /\ n.message # ""
    /\ n.rate \in 0..100
    /\ ValidSeverity(n.severity)

ValidVolumeProfile(vp) ==
    vp = Nil \/
    /\ vp.burstProbability \in 0..100
    /\ vp.quietProbability \in 0..100
    /\ vp.burstProbability + vp.quietProbability <= 100
    /\ vp.burstMultiplierMin >= 0
    /\ vp.burstMultiplierMax >= vp.burstMultiplierMin
    /\ vp.burstProbability > 0 => vp.burstDurationMin >= 1
    /\ vp.burstDurationMax >= vp.burstDurationMin
    /\ vp.quietMultiplier >= 0
    /\ vp.quietProbability > 0 => vp.quietDurationMin >= 1
    /\ vp.quietDurationMax >= vp.quietDurationMin

ValidCronBurst(cb) ==
    cb.interval > 0 /\ cb.multiplier > 0 /\ cb.duration > 0 /\ cb.duration < cb.interval

BothHoursZero(dp) == dp.peakHour = 0 /\ dp.troughHour = 0

HoursNotCompared(dp) ==  \* bug: the same hour for peak and trough
    BothHoursZero(dp) \/ (dp.peakHour \in 0..23 /\ dp.troughHour \in 0..23)
ValidHours(dp) ==
    \/ BothHoursZero(dp)
    \/ dp.peakHour \in 0..23 /\ dp.troughHour \in 0..23 \ {dp.peakHour}

ValidDiurnalProfile(dp) ==
    dp = Nil \/
    /\ ValidHours(dp)
    /\ \A i \in DOMAIN dp.cronBursts : ValidCronBurst(dp.cronBursts[i])

WeightsUnordered(sw) ==  \* bug: weights may decrease
    sw = Nil \/ ((\A i \in 1..6 : sw[i] \in 0..100) /\ sw[6] = 100)
ValidSeverityWeights(sw) ==
    sw = Nil \/
    /\ \A i \in 1..6 : sw[i] \in 0..100
    /\ \A i \in 2..6 : sw[i - 1] <= sw[i]
    /\ sw[6] = 100

(***************************************************************************)
(* net.ParseCIDR takes both families; zipf_skew is 0 or above 1.           *)
(***************************************************************************)
ValidIPPool(ip) ==
    ip = Nil \/
    /\ \A i \in DOMAIN ip.cidrs : ip.cidrs[i].family \in {4, 6}
    /\ ip.zipfSkew = 0 \/ ip.zipfSkew > 100

CountsNotDivisible(scn) ==  \* bug: scale may be no multiple of concurrency
    scn.scale >= 0 /\ scn.concurrency >= 0 /\ scn.logsPerInterval >= 0
SignsUnchecked(scn) ==  \* bug: the scale may be negative
    /\ scn.concurrency >= 0
    /\ scn.concurrency > 0 /\ scn.scale > 0 => scn.scale % scn.concurrency = 0
    /\ scn.logsPerInterval >= 0
ValidCounts(scn) ==
    /\ scn.scale >= 0
    /\ scn.concurrency >= 0
    /\ scn.concurrency > 0 /\ scn.scale > 0 => scn.scale % scn.concurrency = 0
    /\ scn.logsPerInterval >= 0

ValidScenarios(scns) ==
    \A i \in DOMAIN scns :
        LET scn == scns[i] IN
        /\ ValidCounts(scn)
        /\ \A n \in DOMAIN scn.needles : ValidNeedle(scn.needles[n])
        /\ ValidVolumeProfile(scn.volume)
        /\ ValidDiurnalProfile(scn.diurnal)
        /\ ValidSeverityWeights(scn.severityWeights)
        /\ ValidIPPool(scn.ipPool)
        /\ scn.instanceVolumeSkew >= 0

(***************************************************************************)
(* loadBuiltinProfiles: on the first use only; every profile of the file   *)
(* must have scenarios and they must be valid.                             *)
(***************************************************************************)
LoadResult ==
    IF loaded # "no"
    THEN loaded
    ELSE IF \A name \in DOMAIN profiles :
               name # "" /\ profiles[name] # <<>> /\ ValidScenarios(profiles[name])
         THEN "ok"
         ELSE "error"

(***************************************************************************)
(* Validate: the checks before the scenarios', then the scenarios.         *)
(***************************************************************************)
ValidWindow(c) ==
    /\ c.interval >= 1
    /\ c.startTime <= c.endTime
    /\ (c.profile # "") # (c.scenarios # <<>>)

Valid(c) ==
    /\ ValidWindow(c)
    /\ IF c.profile = ""
       THEN ValidScenarios(c.scenarios)
       ELSE /\ LoadResult = "ok"
            /\ c.profile \in DOMAIN profiles
            /\ ValidScenarios(profiles[c.profile])

Validate(r) ==
    /\ phase[r] = "new"
    /\ phase' = [phase EXCEPT ![r] = IF Valid(cfg[r]) THEN "valid" ELSE "rejected"]
    /\ loaded' = IF ValidWindow(cfg[r]) /\ cfg[r].profile # "" THEN LoadResult ELSE loaded
    /\ UNCHANGED <<cfg, profiles>>
-----------------------------------------------------------------------------
(***************************************************************************)
(* applyDiurnalDefaults.                                                   *)
(***************************************************************************)
DefaultHoursSwapping(dp) ==  \* bug: not idempotent
    IF BothHoursZero(dp)
    THEN [dp EXCEPT !.peakHour = 14, !.troughHour = 4]
    ELSE [dp EXCEPT !.peakHour = dp.troughHour, !.troughHour = dp.peakHour]
DefaultHoursAlike(dp) ==  \* bug: the peak's default for both
    IF BothHoursZero(dp) THEN [dp EXCEPT !.peakHour = 14, !.troughHour = 14] ELSE dp
DefaultHours(dp) ==
    IF BothHoursZero(dp) THEN [dp EXCEPT !.peakHour = 14, !.troughHour = 4] ELSE dp

DefaultMultipliers(dp) ==
    [dp EXCEPT
        !.peakMultiplier = IF @ <= 0 THEN 300 ELSE @,
        !.troughMultiplier = IF @ <= 0 THEN 20 ELSE @]

ApplyDiurnalDefaults(dp) ==
    IF dp = Nil THEN Nil ELSE DefaultMultipliers(DefaultHours(dp))

WithDefaults(scns) ==
    [i \in DOMAIN scns |-> [scns[i] EXCEPT !.diurnal = ApplyDiurnalDefaults(@)]]

(***************************************************************************)
(* What may come of one scenario in the constructor: its resources are     *)
(* rendered, one for each instance, and an application profile is made.    *)
(* buildIPPool picks a range for each address of the pool, at random, and  *)
(* a host number below the largest one of that range; IPv6 ranges are      *)
(* left out and 10.0.0.0/8 is used if none is left.                        *)
(***************************************************************************)
IPv4Ranges(ip) == IF ip = Nil THEN {} ELSE IPv4(ip.cidrs)

Outcomes(scn) ==
    IF scn.scale < 0
    THEN {"panicked"}
    ELSE IF scn.scale > 0 /\ Templates[scn.path] = "missing"
    THEN {"failed"}
    ELSE IF scn.scale > 0 /\ Templates[scn.path] = "empty"
    THEN {"panicked"}
    ELSE IF scn.path \notin IPPoolPaths \/ IPv4Ranges(scn.ipPool) = {}
    THEN {"created"}
    ELSE {IF HostMax(c) = 0 THEN "panicked" ELSE "created" : c \in IPv4Ranges(scn.ipPool)}

(***************************************************************************)
(* The first scenario that does not go well decides.                       *)
(***************************************************************************)
ConstructorOutcomes(scns) ==
    {o \in {"created", "failed", "panicked"} :
        IF o = "created"
        THEN \A i \in DOMAIN scns : o \in Outcomes(scns[i])
        ELSE \E i \in DOMAIN scns :
                /\ o \in Outcomes(scns[i])
                /\ \A j \in 1..i - 1 : "created" \in Outcomes(scns[j])}

(***************************************************************************)
(* newLogsGenReceiver: the window, the scenarios, the defaults -- written  *)
(* where the scenarios are, which may be the shared profiles -- and then   *)
(* the scenarios one by one.                                               *)
(***************************************************************************)
ResolvedStartOnly(c) ==  \* bug: no default for the end
    [c EXCEPT !.startTime = IF @ = 0 THEN Now - c.startNowMinus ELSE @]
Resolved(c) ==
    [c EXCEPT
        !.startTime = IF @ = 0 THEN Now - c.startNowMinus ELSE @,
        !.endTime = IF @ = 0 THEN Now - c.endNowMinus ELSE @]

EffectiveScenarios(c) ==
    IF c.profile = "" THEN c.scenarios ELSE profiles[c.profile]

Create(r) ==
    LET c == Resolved(cfg[r])
        scns == WithDefaults(EffectiveScenarios(c))
    IN  /\ phase[r] = "valid"
        /\ \E outcome \in ConstructorOutcomes(scns) :
              phase' = [phase EXCEPT ![r] = outcome]
        /\ IF c.profile = ""
           THEN /\ cfg' = [cfg EXCEPT ![r] = [c EXCEPT !.scenarios = scns]]
                /\ UNCHANGED profiles
           ELSE /\ cfg' = [cfg EXCEPT ![r] = c]
                /\ profiles' = [profiles EXCEPT ![c.profile] = scns]
        /\ UNCHANGED loaded

Settled(r) == phase[r] \notin {"new", "valid"}
AllSettled == (\A r \in Receivers : Settled(r)) /\ UNCHANGED vars

Next == (\E r \in Receivers : Validate(r) \/ Create(r)) \/ AllSettled

Spec == Init /\ [][Next]_vars
-----------------------------------------------------------------------------
(***************************************************************************)
(* Properties.                                                             *)
(***************************************************************************)
Created(r) == phase[r] = "created"
ScenariosOf(r) ==
    LET scns == EffectiveScenarios(cfg[r]) IN {scns[i] : i \in DOMAIN scns}

(***************************************************************************)
(* A configuration that passes Validate does not make the constructor      *)
(* panic.  For an IP pool the contract is "each must be a valid IPv4 CIDR" *)
(* (config.go).                                                            *)
(***************************************************************************)
NoPanic == \A r \in Receivers : phase[r] # "panicked"

(***************************************************************************)
(* In every scenario a receiver is created with, each instance falls into  *)
(* the share of exactly one worker, as produceLogs cuts the shares.        *)
(***************************************************************************)
InstancesCovered ==
    \A r \in Receivers : Created(r) =>
        \A scn \in ScenariosOf(r) : scn.concurrency > 0 =>
            \A i \in 0..scn.scale - 1 :
                Quantify((0..scn.concurrency - 1)
                            \X (0..scn.scale \div scn.concurrency - 1),
                         LAMBDA wj : wj[2] + (wj[1] * scn.scale) \div scn.concurrency = i) = 1

(***************************************************************************)
(* The weights a receiver is created with are "cumulative percentages for  *)
(* [TRACE, DEBUG, INFO, WARN, ERROR, FATAL]" (config.go): of the hundred   *)
(* equally likely rolls, each severity gets as many as its weight exceeds  *)
(* the one before.                                                         *)
(***************************************************************************)
SeverityShares ==
    \A r \in Receivers : Created(r) =>
        \A scn \in ScenariosOf(r) : scn.severityWeights # Nil =>
            LET sw == scn.severityWeights IN
            \A i \in 1..6 :
                Quantify(0..99, LAMBDA n : PickSeverity(sw, n) = Severities[i])
                    = sw[i] - (IF i = 1 THEN 0 ELSE sw[i - 1])

(***************************************************************************)
(* diurnalMultiplier divides by the hours from peak to trough and by those *)
(* back: neither is zero in a scenario a receiver is created with, and the *)
(* defaults have replaced every multiplier that is not positive.           *)
(***************************************************************************)
CurveDefined ==
    \A r \in Receivers : Created(r) =>
        \A scn \in ScenariosOf(r) : scn.diurnal # Nil =>
            LET dp == scn.diurnal
                troughPhase == (dp.troughHour - dp.peakHour + 24) % 24
            IN  /\ troughPhase > 0 /\ 24 - troughPhase > 0
                /\ dp.peakMultiplier > 0 /\ dp.troughMultiplier > 0

(***************************************************************************)
(* Creating a receiver leaves the scenarios of those created before it     *)
(* alone, although it fills in defaults in the profile they share.         *)
(***************************************************************************)
CreatedUnchanged ==
    [][\A r \in Receivers : Created(r) =>
          EffectiveScenarios(cfg[r])' = EffectiveScenarios(cfg[r])]_vars

(***************************************************************************)
(* Receivers with the same profile get the same verdict from Validate,     *)
(* whatever was created between their validations.                         *)
(***************************************************************************)
Accepted(r) == phase[r] \notin {"new", "rejected"}
SameVerdict ==
    \A q, r \in Receivers :
        /\ ValidWindow(cfg[q]) /\ ValidWindow(cfg[r])
        /\ cfg[q].profile = cfg[r].profile /\ cfg[q].profile # ""
        /\ Accepted(q)
        => phase[r] # "rejected"
=============================================================================
