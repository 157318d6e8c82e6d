------------------------- MODULE ReceiverConfigProofs -------------------------
(***************************************************************************)
(* Proofs about ReceiverConfig, for all configurations and all built-in    *)
(* profiles: filling in the defaults of scenarios that receivers share is  *)
(* idempotent, keeps what Validate accepted, and so disturbs nobody.       *)
(***************************************************************************)
EXTENDS ReceiverConfig, FoldLemmas

(***************************************************************************)
(* What Validate says of the hours of a scenario's diurnal curve, and that *)
(* the defaults are filled in.                                             *)
(***************************************************************************)
HoursValid(scns) ==
    \A i \in DOMAIN scns : scns[i].diurnal # Nil => ValidHours(scns[i].diurnal)
HasDefaults(scns) == WithDefaults(scns) = scns

ConfigInv ==
    /\ DOMAIN phase = Receivers
    /\ DOMAIN cfg = Receivers
    /\ \A name \in DOMAIN profiles : HaveDiurnal(profiles[name])
    /\ \A r \in Receivers :
          /\ {"profile", "scenarios"} \subseteq DOMAIN cfg[r]
          /\ HaveDiurnal(cfg[r].scenarios)
          /\ phase[r] \in {"valid", "created"} =>
                /\ cfg[r].profile # "" => cfg[r].profile \in DOMAIN profiles
                /\ HoursValid(EffectiveScenarios(cfg[r]))
          /\ phase[r] = "created" => HasDefaults(EffectiveScenarios(cfg[r]))
-----------------------------------------------------------------------------
(***************************************************************************)
(* The defaults of one curve.                                              *)
(***************************************************************************)
HasCurve(dp) ==
    /\ {"peakHour", "troughHour", "peakMultiplier", "troughMultiplier"} \subseteq DOMAIN dp
    /\ dp.peakMultiplier \in Int
    /\ dp.troughMultiplier \in Int

LEMMA DefaultCurve ==
    ASSUME NEW dp, dp # Nil, HasCurve(dp)
    PROVE  LET d == ApplyDiurnalDefaults(dp) IN
           /\ HasCurve(d)
           /\ d.peakMultiplier > 0 /\ d.troughMultiplier > 0
           /\ ~BothHoursZero(d)
           /\ ValidHours(dp) => ValidHours(d)
           /\ ApplyDiurnalDefaults(d) = d
<1> DEFINE h == DefaultHours(dp)
           d == ApplyDiurnalDefaults(dp)
<1>1. /\ HasCurve(h)
      /\ ~BothHoursZero(h)
      /\ ValidHours(dp) => ValidHours(h)
  <2>1. CASE BothHoursZero(dp)
    <3>1. /\ h = [dp EXCEPT !.peakHour = 14, !.troughHour = 4]
          /\ h.peakHour = 14 /\ h.troughHour = 4
          /\ HasCurve(h)
      BY <2>1 DEF DefaultHours, HasCurve
    <3> HIDE DEF h
    <3> QED
      BY <3>1 DEF BothHoursZero, ValidHours
  <2>2. CASE ~BothHoursZero(dp)
    BY <2>2 DEF DefaultHours
  <2> QED
    BY <2>1, <2>2
<1>2. d = DefaultMultipliers(h)
  BY DEF ApplyDiurnalDefaults
<1> HIDE DEF h, d
<1>3. /\ HasCurve(d)
      /\ d.peakMultiplier > 0 /\ d.troughMultiplier > 0
      /\ d.peakHour = h.peakHour /\ d.troughHour = h.troughHour
      /\ d = [x \in DOMAIN d |-> d[x]]
  <2> DEFINE peak == IF h.peakMultiplier <= 0 THEN 300 ELSE h.peakMultiplier
             trough == IF h.troughMultiplier <= 0 THEN 20 ELSE h.troughMultiplier
  <2>1. peak \in Int /\ peak > 0 /\ trough \in Int /\ trough > 0
    BY <1>1 DEF HasCurve
  <2>2. d = [h EXCEPT !.peakMultiplier = peak, !.troughMultiplier = trough]
    BY <1>1, <1>2 DEF DefaultMultipliers, HasCurve
  <2> HIDE DEF peak, trough
  <2> QED
    BY <1>1, <2>1, <2>2 DEF HasCurve
<1>4. ~BothHoursZero(d) /\ (ValidHours(dp) => ValidHours(d))
  <2>1. ~BothHoursZero(d)
    BY <1>1, <1>3 DEF BothHoursZero
  <2>2. ValidHours(h) => ValidHours(d)
    BY <1>3 DEF BothHoursZero, ValidHours
  <2> QED
    BY <1>1, <2>1, <2>2
<1>5. ApplyDiurnalDefaults(d) = d
  <2>1. DefaultHours(d) = d
    BY <1>4 DEF DefaultHours
  <2>2. DefaultMultipliers(d) = d
    <3> DEFINE peak == IF d.peakMultiplier <= 0 THEN 300 ELSE d.peakMultiplier
               trough == IF d.troughMultiplier <= 0 THEN 20 ELSE d.troughMultiplier
    <3>1. peak = d.peakMultiplier /\ trough = d.troughMultiplier
      BY <1>3 DEF HasCurve
    <3>2. DefaultMultipliers(d) = [d EXCEPT !.peakMultiplier = peak, !.troughMultiplier = trough]
      BY <1>3 DEF DefaultMultipliers, HasCurve
    <3> HIDE DEF peak, trough
    <3> QED
      BY <1>3, <3>1, <3>2
  <2>3. CASE d = Nil
    BY <2>3 DEF ApplyDiurnalDefaults
  <2>4. CASE d # Nil
    BY <2>1, <2>2, <2>4 DEF ApplyDiurnalDefaults
  <2> QED
    BY <2>3, <2>4
<1> QED
  BY <1>3, <1>4, <1>5 DEF d

(***************************************************************************)
(* The defaults of all scenarios of a list.                                *)
(***************************************************************************)
LEMMA DefaultsKeep ==
    ASSUME NEW scns, HaveDiurnal(scns)
    PROVE  LET d == WithDefaults(scns) IN
           /\ HaveDiurnal(d)
           /\ HasDefaults(d)
           /\ HoursValid(scns) => HoursValid(d)
<1> DEFINE d == WithDefaults(scns)
<1>1. /\ DOMAIN d = DOMAIN scns
      /\ d = [i \in DOMAIN scns |->
                 [scns[i] EXCEPT !.diurnal = ApplyDiurnalDefaults(scns[i].diurnal)]]
  BY DEF WithDefaults
<1> HIDE DEF d
<1>2. \A i \in DOMAIN scns :
         /\ d[i].diurnal = ApplyDiurnalDefaults(scns[i].diurnal)
         /\ "diurnal" \in DOMAIN d[i]
         /\ d[i] = [x \in DOMAIN d[i] |-> d[i][x]]
  BY <1>1 DEF HaveDiurnal
<1>3. ASSUME NEW i \in DOMAIN scns
      PROVE  /\ d[i].diurnal # Nil => HasCurve(d[i].diurnal)
             /\ ApplyDiurnalDefaults(d[i].diurnal) = d[i].diurnal
             /\ HoursValid(scns) /\ d[i].diurnal # Nil => ValidHours(d[i].diurnal)
  <2>1. CASE scns[i].diurnal = Nil
    BY <1>2, <2>1 DEF ApplyDiurnalDefaults
  <2>2. CASE scns[i].diurnal # Nil
    <3>1. HasCurve(scns[i].diurnal)
      BY <2>2 DEF HaveDiurnal, HasCurve
    <3> QED
      BY <1>2, <2>2, <3>1, DefaultCurve DEF HoursValid
  <2> QED
    BY <2>1, <2>2
<1>4. HaveDiurnal(d)
  BY <1>1, <1>2, <1>3 DEF HaveDiurnal, HasCurve
<1>5. HasDefaults(d)
  <2>1. \A i \in DOMAIN d :
           [d[i] EXCEPT !.diurnal = ApplyDiurnalDefaults(d[i].diurnal)] = d[i]
    BY <1>1, <1>2, <1>3, ZenonT(60)
  <2>2. WithDefaults(d) =
           [i \in DOMAIN d |->
              [d[i] EXCEPT !.diurnal = ApplyDiurnalDefaults(d[i].diurnal)]]
    BY DEF WithDefaults
  <2>3. WithDefaults(d) = [i \in DOMAIN d |-> d[i]]
    BY <2>1, <2>2
  <2>4. d = [i \in DOMAIN d |-> d[i]]
    BY <1>1
  <2> QED
    BY <2>3, <2>4 DEF HasDefaults
<1>6. HoursValid(scns) => HoursValid(d)
  BY <1>1, <1>3 DEF HoursValid
<1> QED
  BY <1>4, <1>5, <1>6 DEF d

(***************************************************************************)
(* What produceLogs relies on in a curve that has its defaults.            *)
(***************************************************************************)
LEMMA CurveOfDefaults ==
    ASSUME NEW scns, HaveDiurnal(scns), HoursValid(scns), HasDefaults(scns),
           NEW i \in DOMAIN scns, scns[i].diurnal # Nil
    PROVE  LET dp == scns[i].diurnal
               troughPhase == (dp.troughHour - dp.peakHour + 24) % 24
           IN  /\ troughPhase > 0 /\ 24 - troughPhase > 0
               /\ dp.peakMultiplier > 0 /\ dp.troughMultiplier > 0
<1> DEFINE dp == scns[i].diurnal
<1>1. HasCurve(dp) /\ ValidHours(dp) /\ dp # Nil
  BY DEF HaveDiurnal, HasCurve, HoursValid
<1>2. ApplyDiurnalDefaults(dp) = dp
  <2>1. WithDefaults(scns)[i].diurnal = ApplyDiurnalDefaults(dp)
    BY DEF WithDefaults, HaveDiurnal
  <2> QED
    BY <2>1 DEF HasDefaults
<1> HIDE DEF dp
<1>3. dp.peakMultiplier > 0 /\ dp.troughMultiplier > 0 /\ ~BothHoursZero(dp)
  BY <1>1, <1>2, DefaultCurve
<1>4. /\ dp.peakHour \in 0..23 /\ dp.troughHour \in 0..23
      /\ dp.peakHour # dp.troughHour
  BY <1>1, <1>3 DEF ValidHours
<1> DEFINE n == dp.troughHour - dp.peakHour + 24
<1>5. n \in 1..47 /\ n # 24
  BY <1>4
<1> HIDE DEF n
<1>6. n % 24 \in Int /\ n % 24 > 0 /\ n % 24 < 24
  BY <1>5
<1>7. 24 - (n % 24) > 0
  BY <1>5, <1>6
<1>8. LET troughPhase == n % 24
      IN  /\ troughPhase > 0 /\ 24 - troughPhase > 0
          /\ dp.peakMultiplier > 0 /\ dp.troughMultiplier > 0
  BY <1>3, <1>6, <1>7
<1> QED
  BY <1>8 DEF dp, n
-----------------------------------------------------------------------------
(***************************************************************************)
(* The invariant of validation and construction.                           *)
(***************************************************************************)
LEMMA ConfigInit == Init => ConfigInv
<1> SUFFICES ASSUME Init PROVE ConfigInv
  OBVIOUS
<1>1. /\ DOMAIN phase = Receivers /\ \A r \in Receivers : phase[r] = "new"
      /\ cfg \in Inputs /\ profiles \in BuiltinFiles
  BY DEF Init
<1>2. DOMAIN cfg = Receivers
  BY <1>1, ConfigAssumption
<1>3. \A r \in Receivers : /\ {"profile", "scenarios"} \subseteq DOMAIN cfg[r]
                           /\ HaveDiurnal(cfg[r].scenarios)
  BY <1>1, FieldsAssumption
<1>4. \A name \in DOMAIN profiles : HaveDiurnal(profiles[name])
  BY <1>1, FieldsAssumption
<1> QED
  BY <1>1, <1>2, <1>3, <1>4 DEF ConfigInv

(***************************************************************************)
(* What the constructor does to the scenarios of the receiver it creates,  *)
(* and to those of the others.                                             *)
(***************************************************************************)
LEMMA CreateScenarios ==
    ASSUME ConfigInv, NEW q \in Receivers, Create(q)
    PROVE  /\ DOMAIN cfg' = Receivers
           /\ \A r \in Receivers :
                 /\ {"profile", "scenarios"} \subseteq DOMAIN cfg'[r]
                 /\ cfg'[r].profile = cfg[r].profile
                 /\ cfg'[r].scenarios =
                       IF r = q /\ cfg[q].profile = ""
                       THEN WithDefaults(cfg[q].scenarios) ELSE cfg[r].scenarios
           /\ profiles' =
                 IF cfg[q].profile = "" THEN profiles
                 ELSE [profiles EXCEPT ![cfg[q].profile] =
                          WithDefaults(profiles[cfg[q].profile])]
<1> USE DEF ConfigInv
<1> DEFINE c == Resolved(cfg[q])
<1>1. /\ c.profile = cfg[q].profile /\ c.scenarios = cfg[q].scenarios
      /\ {"profile", "scenarios"} \subseteq DOMAIN c
  BY DEF Resolved
<1> HIDE DEF c
<1>2. CASE cfg[q].profile = ""
  <2>1. /\ cfg' = [cfg EXCEPT ![q] =
                      [c EXCEPT !.scenarios = WithDefaults(cfg[q].scenarios)]]
        /\ UNCHANGED profiles
    BY <1>1, <1>2 DEF Create, EffectiveScenarios, c
  <2> QED
    BY <1>1, <1>2, <2>1
<1>3. CASE cfg[q].profile # ""
  <2>1. /\ cfg' = [cfg EXCEPT ![q] = c]
        /\ profiles' = [profiles EXCEPT ![cfg[q].profile] =
                           WithDefaults(profiles[cfg[q].profile])]
    BY <1>1, <1>3 DEF Create, EffectiveScenarios, c
  <2> QED
    BY <1>1, <1>3, <2>1
<1> QED
  BY <1>2, <1>3

(***************************************************************************)
(* ... and so to the scenarios a receiver that passed Validate goes by.    *)
(***************************************************************************)
LEMMA CreateEffective ==
    ASSUME ConfigInv, NEW q \in Receivers, Create(q),
           NEW r \in Receivers, phase[r] \in {"valid", "created"}
    PROVE  EffectiveScenarios(cfg[r])' =
              IF r = q \/ (cfg[q].profile # "" /\ cfg[q].profile = cfg[r].profile)
              THEN WithDefaults(EffectiveScenarios(cfg[r]))
              ELSE EffectiveScenarios(cfg[r])
<1> USE DEF ConfigInv
<1>1. /\ cfg'[r].profile = cfg[r].profile
      /\ cfg[r].profile # "" => cfg[r].profile \in DOMAIN profiles
  BY CreateScenarios
<1>2. CASE cfg[r].profile = ""
  BY <1>1, <1>2, CreateScenarios DEF EffectiveScenarios
<1>3. CASE cfg[r].profile # ""
  <2>1. EffectiveScenarios(cfg[r])' = profiles'[cfg[r].profile]
    BY <1>1, <1>3 DEF EffectiveScenarios
  <2>2. EffectiveScenarios(cfg[r]) = profiles[cfg[r].profile]
    BY <1>3 DEF EffectiveScenarios
  <2>3. profiles' = IF cfg[q].profile = "" THEN profiles
                    ELSE [profiles EXCEPT ![cfg[q].profile] =
                             WithDefaults(profiles[cfg[q].profile])]
    BY CreateScenarios
  <2>4. cfg[r].profile \in DOMAIN profiles
    BY <1>1, <1>3
  <2>5. CASE cfg[q].profile = ""
    BY <1>3, <2>1, <2>2, <2>3, <2>5
  <2>6. CASE cfg[q].profile # "" /\ cfg[q].profile # cfg[r].profile
    BY <1>3, <2>1, <2>2, <2>3, <2>4, <2>6
  <2>7. CASE cfg[q].profile # "" /\ cfg[q].profile = cfg[r].profile
    BY <1>3, <2>1, <2>2, <2>3, <2>4, <2>7
  <2> QED
    BY <2>5, <2>6, <2>7
<1> QED
  BY <1>2, <1>3

(***************************************************************************)
(* The scenarios a receiver goes by always have their fields.              *)
(***************************************************************************)
LEMMA EffectiveFields ==
    ASSUME ConfigInv, NEW r \in Receivers, phase[r] \in {"valid", "created"}
    PROVE  HaveDiurnal(EffectiveScenarios(cfg[r]))
  BY DEF ConfigInv, EffectiveScenarios

LEMMA ConfigNext == ConfigInv /\ [Next]_vars => ConfigInv'
<1> SUFFICES ASSUME ConfigInv, [Next]_vars PROVE ConfigInv'
  OBVIOUS
<1>1. ASSUME NEW q \in Receivers, Validate(q) PROVE ConfigInv'
  <2>1. /\ phase' = [phase EXCEPT ![q] = IF Valid(cfg[q]) THEN "valid" ELSE "rejected"]
        /\ UNCHANGED <<cfg, profiles>>
    BY <1>1 DEF Validate
  <2>2. /\ \A r \in Receivers \ {q} : phase'[r] = phase[r]
        /\ phase'[q] = "rejected" \/ (phase'[q] = "valid" /\ Valid(cfg[q]))
        /\ DOMAIN phase' = Receivers
    BY <2>1 DEF ConfigInv
  <2>3. ASSUME Valid(cfg[q])
        PROVE  /\ cfg[q].profile # "" => cfg[q].profile \in DOMAIN profiles
               /\ HoursValid(EffectiveScenarios(cfg[q]))
    <3>1. ValidScenarios(EffectiveScenarios(cfg[q]))
      BY <2>3 DEF Valid, EffectiveScenarios
    <3>2. HoursValid(EffectiveScenarios(cfg[q]))
      BY <3>1 DEF ValidScenarios, ValidDiurnalProfile, HoursValid
    <3> QED
      BY <2>3, <3>2 DEF Valid
  <2>4. \A r \in Receivers : EffectiveScenarios(cfg[r])' = EffectiveScenarios(cfg[r])
    BY <2>1 DEF EffectiveScenarios
  <2> QED
    BY <2>1, <2>2, <2>3, <2>4 DEF ConfigInv
<1>2. ASSUME NEW q \in Receivers, Create(q) PROVE ConfigInv'
  <2>1. /\ \A r \in Receivers \ {q} : phase'[r] = phase[r]
        /\ phase[q] = "valid" /\ phase'[q] # "valid"
        /\ DOMAIN phase' = Receivers
    <3>1. PICK outcome \in {"created", "failed", "panicked"} :
               phase' = [phase EXCEPT ![q] = outcome]
      BY <1>2 DEF Create, ConstructorOutcomes
    <3>2. phase[q] = "valid"
      BY <1>2 DEF Create
    <3> QED
      BY <3>1, <3>2 DEF ConfigInv
  <2>2. \A name \in DOMAIN profiles' : HaveDiurnal(profiles'[name])
    <3>1. \A name \in DOMAIN profiles :
             HaveDiurnal(profiles[name]) /\ HaveDiurnal(WithDefaults(profiles[name]))
      BY DefaultsKeep DEF ConfigInv
    <3>2. CASE cfg[q].profile = ""
      BY <1>2, <3>1, <3>2, CreateScenarios
    <3>3. CASE cfg[q].profile # ""
      <4>1. profiles' = [profiles EXCEPT ![cfg[q].profile] =
                            WithDefaults(profiles[cfg[q].profile])]
        BY <1>2, <3>3, CreateScenarios
      <4>2. \A name \in DOMAIN profiles :
               profiles'[name] \in {profiles[name], WithDefaults(profiles[name])}
        BY <4>1
      <4>3. DOMAIN profiles' = DOMAIN profiles
        BY <4>1
      <4> QED
        BY <3>1, <4>2, <4>3
    <3> QED
      BY <3>2, <3>3
  <2>3. /\ DOMAIN cfg' = Receivers
        /\ \A r \in Receivers : /\ {"profile", "scenarios"} \subseteq DOMAIN cfg'[r]
                                 /\ HaveDiurnal(cfg'[r].scenarios)
    <3>1. \A r \in Receivers : /\ HaveDiurnal(cfg[r].scenarios)
                               /\ HaveDiurnal(WithDefaults(cfg[r].scenarios))
      BY DefaultsKeep DEF ConfigInv
    <3> QED
      BY <1>2, <3>1, CreateScenarios
  <2>4. ASSUME NEW r \in Receivers, phase'[r] \in {"valid", "created"}
        PROVE  /\ cfg'[r].profile # "" => cfg'[r].profile \in DOMAIN profiles'
               /\ HoursValid(EffectiveScenarios(cfg[r])')
               /\ phase'[r] = "created" => HasDefaults(EffectiveScenarios(cfg[r])')
    <3> DEFINE scns == EffectiveScenarios(cfg[r])
               after == EffectiveScenarios(cfg[r])'
    <3>1. phase[r] \in {"valid", "created"} /\ (r # q => phase'[r] = phase[r])
      BY <2>1, <2>4
    <3>2. HaveDiurnal(scns)
      BY <3>1, EffectiveFields
    <3>3. /\ HoursValid(scns)
          /\ phase[r] = "created" => HasDefaults(scns)
          /\ cfg[r].profile # "" => cfg[r].profile \in DOMAIN profiles
      BY <3>1 DEF ConfigInv
    <3>4. after = WithDefaults(scns) \/ (r # q /\ after = scns)
      BY <1>2, <3>1, CreateEffective
    <3>5. cfg'[r].profile = cfg[r].profile /\ DOMAIN profiles' = DOMAIN profiles
      BY <1>2, CreateScenarios
    <3> HIDE DEF scns, after
    <3>6. /\ HoursValid(WithDefaults(scns))
          /\ HasDefaults(WithDefaults(scns))
      BY <3>2, <3>3, DefaultsKeep
    <3>7. HoursValid(after) /\ (phase'[r] = "created" => HasDefaults(after))
      BY <3>1, <3>3, <3>4, <3>6
    <3> QED
      BY <3>3, <3>5, <3>7 DEF after
  <2> QED
    BY <2>1, <2>2, <2>3, <2>4 DEF ConfigInv
<1>3. CASE UNCHANGED vars
  BY <1>3 DEF vars, ConfigInv, EffectiveScenarios
<1> QED
  BY <1>1, <1>2, <1>3 DEF Next, AllSettled

(***************************************************************************)
(* Whatever the receivers share, creating one of them never changes the    *)
(* scenarios of one that exists (newLogsGenReceiver fills in defaults in   *)
(* place).                                                                 *)
(***************************************************************************)
THEOREM CreatedUnchangedCorrect == Spec => CreatedUnchanged
<1>1. ASSUME ConfigInv, [Next]_vars, NEW r \in Receivers, Created(r)
      PROVE  EffectiveScenarios(cfg[r])' = EffectiveScenarios(cfg[r])
  <2>1. phase[r] = "created" /\ HasDefaults(EffectiveScenarios(cfg[r]))
    BY <1>1 DEF Created, ConfigInv
  <2>2. ASSUME NEW q \in Receivers, Create(q)
        PROVE  EffectiveScenarios(cfg[r])' = EffectiveScenarios(cfg[r])
    <3>1. EffectiveScenarios(cfg[r])' \in
              {EffectiveScenarios(cfg[r]), WithDefaults(EffectiveScenarios(cfg[r]))}
      BY <1>1, <2>1, <2>2, CreateEffective
    <3> QED
      BY <2>1, <3>1 DEF HasDefaults
  <2>3. CASE UNCHANGED <<cfg, profiles>>
    BY <2>3 DEF EffectiveScenarios
  <2> QED
    BY <1>1, <2>2, <2>3 DEF Next, Validate, AllSettled, vars
<1>2. ConfigInv /\ [Next]_vars
      => [\A r \in Receivers : Created(r) =>
             EffectiveScenarios(cfg[r])' = EffectiveScenarios(cfg[r])]_vars
  BY <1>1
<1> QED
  BY <1>2, ConfigInit, ConfigNext, PTL DEF Spec, CreatedUnchanged

(***************************************************************************)
(* Whatever a configuration that passed Validate holds, diurnalMultiplier  *)
(* never divides by zero and every multiplier is positive.                 *)
(***************************************************************************)
THEOREM CurveDefinedCorrect == Spec => []CurveDefined
<1>1. ConfigInv => CurveDefined
  <2> SUFFICES ASSUME ConfigInv, NEW r \in Receivers, Created(r),
                      NEW scn \in ScenariosOf(r), scn.diurnal # Nil
               PROVE  LET dp == scn.diurnal
                          troughPhase == (dp.troughHour - dp.peakHour + 24) % 24
                      IN  /\ troughPhase > 0 /\ 24 - troughPhase > 0
                          /\ dp.peakMultiplier > 0 /\ dp.troughMultiplier > 0
    BY DEF CurveDefined
  <2> DEFINE scns == EffectiveScenarios(cfg[r])
  <2>1. /\ HaveDiurnal(scns) /\ HoursValid(scns) /\ HasDefaults(scns)
    BY EffectiveFields DEF ConfigInv, Created
  <2>2. PICK i \in DOMAIN scns : scn = scns[i]
    BY DEF ScenariosOf
  <2> HIDE DEF scns
  <2> QED
    BY <2>1, <2>2, CurveOfDefaults
<1> QED
  BY <1>1, ConfigInit, ConfigNext, PTL DEF Spec
-----------------------------------------------------------------------------
(***************************************************************************)
(* Defaults do not make valid scenarios invalid: everything else that is   *)
(* validated stays as it was.                                              *)
(***************************************************************************)
LEMMA DefaultDiurnalValid ==
    ASSUME NEW dp, dp # Nil, HasCurve(dp), "cronBursts" \in DOMAIN dp,
           ValidDiurnalProfile(dp)
    PROVE  LET d == ApplyDiurnalDefaults(dp) IN
           /\ ValidDiurnalProfile(d)
           /\ d # Nil => "cronBursts" \in DOMAIN d
<1> DEFINE h == DefaultHours(dp)
           d == ApplyDiurnalDefaults(dp)
<1>1. ValidHours(d)
  BY DefaultCurve DEF ValidDiurnalProfile
<1>2. "cronBursts" \in DOMAIN h /\ h.cronBursts = dp.cronBursts
  BY DEF DefaultHours
<1>3. d = DefaultMultipliers(h)
  BY DEF ApplyDiurnalDefaults
<1> HIDE DEF d, h
<1>4. "cronBursts" \in DOMAIN d /\ d.cronBursts = dp.cronBursts
  BY <1>2, <1>3 DEF DefaultMultipliers
<1> QED
  BY <1>1, <1>4 DEF ValidDiurnalProfile, d

LEMMA DefaultsValid ==
    ASSUME NEW scns, HaveDiurnal(scns), HaveValidated(scns), ValidScenarios(scns)
    PROVE  LET d == WithDefaults(scns) IN HaveValidated(d) /\ ValidScenarios(d)
<1> DEFINE d == WithDefaults(scns)
<1>1. /\ DOMAIN d = DOMAIN scns
      /\ \A i \in DOMAIN scns :
            d[i] = [scns[i] EXCEPT !.diurnal = ApplyDiurnalDefaults(scns[i].diurnal)]
  BY DEF WithDefaults
<1> HIDE DEF d
<1>2. ASSUME NEW i \in DOMAIN scns
      PROVE  /\ ValidatedFields \subseteq DOMAIN d[i]
             /\ \A f \in ValidatedFields : d[i][f] = scns[i][f]
             /\ d[i].diurnal = ApplyDiurnalDefaults(scns[i].diurnal)
  BY <1>1 DEF HaveDiurnal, HaveValidated, ValidatedFields
<1>3. ASSUME NEW i \in DOMAIN scns
      PROVE  /\ ValidDiurnalProfile(d[i].diurnal)
             /\ d[i].diurnal # Nil => "cronBursts" \in DOMAIN d[i].diurnal
  <2>1. CASE scns[i].diurnal = Nil
    BY <1>2, <2>1 DEF ApplyDiurnalDefaults, ValidDiurnalProfile
  <2>2. CASE scns[i].diurnal # Nil
    <3>1. /\ HasCurve(scns[i].diurnal) /\ "cronBursts" \in DOMAIN scns[i].diurnal
          /\ ValidDiurnalProfile(scns[i].diurnal)
      BY <2>2 DEF HaveDiurnal, HaveValidated, HasCurve, ValidScenarios
    <3> QED
      BY <1>2, <2>2, <3>1, DefaultDiurnalValid
  <2> QED
    BY <2>1, <2>2
<1>4. ASSUME NEW i \in DOMAIN scns
      PROVE  /\ d[i].scale = scns[i].scale /\ d[i].concurrency = scns[i].concurrency
             /\ d[i].logsPerInterval = scns[i].logsPerInterval
             /\ d[i].needles = scns[i].needles /\ d[i].volume = scns[i].volume
             /\ d[i].severityWeights = scns[i].severityWeights
             /\ d[i].ipPool = scns[i].ipPool
             /\ d[i].instanceVolumeSkew = scns[i].instanceVolumeSkew
  BY <1>2 DEF ValidatedFields
<1>5. ASSUME NEW i \in DOMAIN scns
      PROVE  /\ ValidCounts(d[i])
             /\ \A n \in DOMAIN d[i].needles : ValidNeedle(d[i].needles[n])
             /\ ValidVolumeProfile(d[i].volume)
             /\ ValidSeverityWeights(d[i].severityWeights)
             /\ ValidIPPool(d[i].ipPool)
             /\ d[i].instanceVolumeSkew >= 0
  <2>1. /\ ValidCounts(scns[i])
        /\ \A n \in DOMAIN scns[i].needles : ValidNeedle(scns[i].needles[n])
        /\ ValidVolumeProfile(scns[i].volume)
        /\ ValidSeverityWeights(scns[i].severityWeights)
        /\ ValidIPPool(scns[i].ipPool)
        /\ scns[i].instanceVolumeSkew >= 0
    BY DEF ValidScenarios
  <2>2. ValidCounts(d[i])
    BY <1>4, <2>1 DEF ValidCounts
  <2> QED
    BY <1>4, <2>1, <2>2
<1>6. HaveValidated(d)
  BY <1>1, <1>2, <1>3, <1>4 DEF HaveValidated
<1>7. ValidScenarios(d)
  BY <1>1, <1>3, <1>5 DEF ValidScenarios
<1> QED
  BY <1>6, <1>7 DEF d

(***************************************************************************)
(* The profiles are judged once, when they are loaded, and stay valid if   *)
(* they were.  So the verdict on a receiver that uses one depends only on  *)
(* that judgement and on whether the profile exists.                       *)
(***************************************************************************)
UsesProfile(r) == cfg[r].profile # ""
Found(r) == loaded = "ok" /\ cfg[r].profile \in DOMAIN profiles

VerdictInv ==
    /\ \A name \in DOMAIN profiles : HaveValidated(profiles[name])
    /\ loaded = "ok" => \A name \in DOMAIN profiles : ValidScenarios(profiles[name])
    /\ \A r \in Receivers : UsesProfile(r) =>
          /\ Accepted(r) => Found(r)
          /\ phase[r] = "rejected" /\ ValidWindow(cfg[r]) => loaded # "no" /\ ~Found(r)

LEMMA VerdictInit == Init => VerdictInv
<1> SUFFICES ASSUME Init PROVE VerdictInv
  OBVIOUS
<1>1. /\ \A r \in Receivers : phase[r] = "new"
      /\ loaded = "no" /\ profiles \in BuiltinFiles
  BY DEF Init
<1>2. \A name \in DOMAIN profiles : HaveValidated(profiles[name])
  BY <1>1, FieldsAssumption
<1> QED
  BY <1>1, <1>2 DEF VerdictInv, Accepted

LEMMA VerdictNext == ConfigInv /\ VerdictInv /\ [Next]_vars => VerdictInv'
<1> SUFFICES ASSUME ConfigInv, VerdictInv, [Next]_vars PROVE VerdictInv'
  OBVIOUS
<1> USE DEF VerdictInv
<1>1. ASSUME NEW q \in Receivers, Validate(q) PROVE VerdictInv'
  <2>1. /\ phase[q] = "new"
        /\ phase' = [phase EXCEPT ![q] = IF Valid(cfg[q]) THEN "valid" ELSE "rejected"]
        /\ loaded' = IF ValidWindow(cfg[q]) /\ UsesProfile(q) THEN LoadResult ELSE loaded
        /\ UNCHANGED <<cfg, profiles>>
    BY <1>1 DEF Validate, UsesProfile
  <2>2. /\ \A r \in Receivers \ {q} : phase'[r] = phase[r]
        /\ phase'[q] = IF Valid(cfg[q]) THEN "valid" ELSE "rejected"
    BY <2>1 DEF ConfigInv
  <2>3. /\ LoadResult # "no" /\ (loaded # "no" => LoadResult = loaded)
        /\ LoadResult = "ok" => \A name \in DOMAIN profiles : ValidScenarios(profiles[name])
    BY DEF LoadResult
  <2>4. /\ loaded' = "ok" => \A name \in DOMAIN profiles' : ValidScenarios(profiles'[name])
        /\ loaded # "no" => loaded' = loaded
    BY <2>1, <2>3
  <2>5. ASSUME NEW r \in Receivers, r # q, UsesProfile(r)
        PROVE  /\ Accepted(r)' => Found(r)'
               /\ phase'[r] = "rejected" /\ ValidWindow(cfg'[r]) => loaded' # "no" /\ ~Found(r)'
    <3>1. phase'[r] = phase[r] /\ cfg' = cfg /\ profiles' = profiles
      BY <2>1, <2>2, <2>5
    <3> QED
      BY <2>4, <2>5, <3>1 DEF Accepted, Found
  <2>6. ASSUME UsesProfile(q)
        PROVE  /\ Accepted(q)' => Found(q)'
               /\ phase'[q] = "rejected" /\ ValidWindow(cfg'[q]) => loaded' # "no" /\ ~Found(q)'
    <3>1. Valid(cfg[q]) <=> /\ ValidWindow(cfg[q])
                            /\ LoadResult = "ok" /\ cfg[q].profile \in DOMAIN profiles
                            /\ ValidScenarios(profiles[cfg[q].profile])
      BY <2>6 DEF Valid, UsesProfile
    <3>2. ValidWindow(cfg[q]) => loaded' = LoadResult
      BY <2>1, <2>6
    <3>3. CASE Valid(cfg[q])
      BY <2>1, <2>2, <3>1, <3>2, <3>3 DEF Accepted, Found
    <3>4. CASE ~Valid(cfg[q])
      BY <2>1, <2>2, <2>3, <3>1, <3>2, <3>4 DEF Accepted, Found
    <3> QED
      BY <3>3, <3>4
  <2>7. \A r \in Receivers : UsesProfile(r)' = UsesProfile(r)
    BY <2>1 DEF UsesProfile
  <2>8. \A name \in DOMAIN profiles' : HaveValidated(profiles'[name])
    BY <2>1
  <2> QED
    BY <2>4, <2>5, <2>6, <2>7, <2>8
<1>2. ASSUME NEW q \in Receivers, Create(q) PROVE VerdictInv'
  <2>1. /\ \A r \in Receivers \ {q} : phase'[r] = phase[r]
        /\ phase[q] = "valid" /\ phase'[q] # "rejected"
    <3>1. PICK outcome \in {"created", "failed", "panicked"} :
               phase' = [phase EXCEPT ![q] = outcome]
      BY <1>2 DEF Create, ConstructorOutcomes
    <3>2. phase[q] = "valid"
      BY <1>2 DEF Create
    <3> QED
      BY <3>1, <3>2 DEF ConfigInv
  <2>2. loaded' = loaded
    BY <1>2 DEF Create
  <2>3. /\ DOMAIN profiles' = DOMAIN profiles
        /\ \A name \in DOMAIN profiles :
              profiles'[name] \in {profiles[name], WithDefaults(profiles[name])}
    <3>1. CASE cfg[q].profile = ""
      BY <1>2, <3>1, CreateScenarios
    <3>2. CASE cfg[q].profile # ""
      <4>1. profiles' = [profiles EXCEPT ![cfg[q].profile] =
                            WithDefaults(profiles[cfg[q].profile])]
        BY <1>2, <3>2, CreateScenarios
      <4> QED
        BY <4>1
    <3> QED
      BY <3>1, <3>2
  <2>4. /\ \A name \in DOMAIN profiles' : HaveValidated(profiles'[name])
        /\ loaded' = "ok" => \A name \in DOMAIN profiles' : ValidScenarios(profiles'[name])
    <3>1. CASE cfg[q].profile = ""
      BY <1>2, <2>2, <3>1, CreateScenarios
    <3>2. CASE cfg[q].profile # ""
      <4>1. loaded = "ok"
        BY <2>1, <3>2 DEF UsesProfile, Accepted, Found
      <4>2. \A name \in DOMAIN profiles :
               /\ HaveDiurnal(profiles[name]) /\ HaveValidated(profiles[name])
               /\ ValidScenarios(profiles[name])
        BY <4>1 DEF ConfigInv
      <4>3. \A name \in DOMAIN profiles :
               /\ HaveValidated(WithDefaults(profiles[name]))
               /\ ValidScenarios(WithDefaults(profiles[name]))
        BY <4>2, DefaultsValid
      <4> QED
        BY <2>3, <4>2, <4>3
    <3> QED
      BY <3>1, <3>2
  <2>5. ASSUME NEW r \in Receivers
        PROVE  /\ UsesProfile(r)' = UsesProfile(r)
               /\ Found(r)' = Found(r)
               /\ Accepted(r)' => Accepted(r)
    <3>1. cfg'[r].profile = cfg[r].profile
      BY <1>2, CreateScenarios
    <3>2. Accepted(r)' => Accepted(r)
      BY <2>1 DEF Accepted
    <3> QED
      BY <2>2, <2>3, <3>1, <3>2 DEF UsesProfile, Found
  <2>6. ASSUME NEW r \in Receivers, phase'[r] = "rejected"
        PROVE  phase[r] = "rejected" /\ cfg'[r] = cfg[r]
    <3>1. r # q
      BY <2>1, <2>6
    <3>2. \E c : cfg' = [cfg EXCEPT ![q] = c]
      BY <1>2 DEF Create
    <3>3. cfg'[r] = cfg[r]
      BY <3>1, <3>2 DEF ConfigInv
    <3> QED
      BY <2>1, <2>6, <3>1, <3>3
  <2> QED
    BY <2>2, <2>4, <2>5, <2>6
<1>3. CASE UNCHANGED vars
  BY <1>3 DEF vars, UsesProfile, Found, Accepted
<1> QED
  BY <1>1, <1>2, <1>3 DEF Next, AllSettled

(***************************************************************************)
(* Receivers that use one profile are accepted or rejected alike, whatever *)
(* was created between their validations.                                  *)
(***************************************************************************)
THEOREM SameVerdictCorrect == Spec => []SameVerdict
<1>1. VerdictInv => SameVerdict
  BY DEF VerdictInv, SameVerdict, UsesProfile, Found
<1> QED
  BY <1>1, ConfigInit, ConfigNext, VerdictInit, VerdictNext, PTL DEF Spec
-----------------------------------------------------------------------------
(***************************************************************************)
(* The types: what a receiver's window holds before and after the defaults *)
(* of the clock are filled in.                                             *)
(***************************************************************************)
WindowInv ==
    \A r \in Receivers :
        /\ {"startTime", "endTime"} \subseteq DOMAIN cfg[r]
        /\ cfg[r].startTime \in Nat /\ cfg[r].endTime \in Nat
        /\ cfg[r].startNowMinus \in 0..Now - 1 /\ cfg[r].endNowMinus \in 0..Now - 1

(***************************************************************************)
(* The window that results from the times and offsets of a configuration.  *)
(***************************************************************************)
LEMMA ResolvedWindow ==
    ASSUME NEW c, {"startTime", "endTime"} \subseteq DOMAIN c,
           c.startTime \in Nat, c.endTime \in Nat,
           c.startNowMinus \in 0..Now - 1, c.endNowMinus \in 0..Now - 1
    PROVE  LET d == Resolved(c) IN
           /\ DOMAIN d = DOMAIN c
           /\ d.startTime \in Nat /\ d.startTime > 0
           /\ d.endTime \in Nat /\ d.endTime > 0
           /\ d.startNowMinus = c.startNowMinus /\ d.endNowMinus = c.endNowMinus
<1> DEFINE start == IF c.startTime = 0 THEN Now - c.startNowMinus ELSE c.startTime
           end == IF c.endTime = 0 THEN Now - c.endNowMinus ELSE c.endTime
<1>1. start \in Nat /\ start > 0 /\ end \in Nat /\ end > 0
  BY ConfigAssumption
<1>2. Resolved(c) = [c EXCEPT !.startTime = start, !.endTime = end]
  BY DEF Resolved
<1> HIDE DEF start, end
<1> QED
  BY <1>1, <1>2

LEMMA TypeInit == Init => WindowInv /\ TypeOK
<1> SUFFICES ASSUME Init PROVE WindowInv /\ TypeOK
  OBVIOUS
<1>1. cfg \in Inputs /\ phase = [r \in Receivers |-> "new"] /\ loaded = "no"
  BY DEF Init
<1>2. WindowInv
  BY <1>1, ConfigAssumption, FieldsAssumption DEF WindowInv
<1>3. TypeOK
  BY <1>1 DEF TypeOK
<1> QED
  BY <1>2, <1>3

LEMMA TypeNext == ConfigInv /\ WindowInv /\ TypeOK /\ [Next]_vars => WindowInv' /\ TypeOK'
<1> SUFFICES ASSUME ConfigInv, WindowInv, TypeOK, [Next]_vars PROVE WindowInv' /\ TypeOK'
  OBVIOUS
<1>1. ASSUME NEW q \in Receivers, Validate(q) PROVE WindowInv' /\ TypeOK'
  <2>1. /\ phase' = [phase EXCEPT ![q] = IF Valid(cfg[q]) THEN "valid" ELSE "rejected"]
        /\ loaded' = IF ValidWindow(cfg[q]) /\ cfg[q].profile # "" THEN LoadResult ELSE loaded
        /\ UNCHANGED <<cfg, profiles>> /\ phase[q] = "new"
    BY <1>1 DEF Validate
  <2>2. /\ LoadResult \in {"ok", "error", loaded}
        /\ LoadResult # "no" /\ (loaded # "no" => LoadResult = loaded)
    BY DEF LoadResult
  <2>3. Valid(cfg[q]) => ValidWindow(cfg[q])
    BY DEF Valid
  <2>4. /\ phase'[q] \in {"valid", "rejected"}
        /\ phase'[q] = "valid" => Valid(cfg[q])
        /\ \A r \in Receivers \ {q} : phase'[r] = phase[r]
        /\ phase' \in [Receivers -> {"new", "valid", "rejected", "failed", "panicked",
                                      "created"}]
    BY <2>1 DEF TypeOK
  <2>5. loaded' \in {"no", "ok", "error"} /\ (loaded # "no" => loaded' = loaded)
    BY <2>1, <2>2 DEF TypeOK
  <2>6. WindowInv'
    BY <2>1 DEF WindowInv
  <2>7. ASSUME NEW r \in Receivers
        PROVE  /\ phase'[r] = "created" => cfg'[r].startTime > 0 /\ cfg'[r].endTime > 0
               /\ phase'[r] # "new" /\ cfg'[r].profile # "" =>
                     loaded' # "no" \/ phase'[r] = "rejected"
    <3>1. CASE r = q
      BY <2>1, <2>2, <2>3, <2>4, <3>1
    <3>2. CASE r # q
      BY <2>1, <2>4, <2>5, <3>2 DEF TypeOK
    <3> QED
      BY <3>1, <3>2
  <2> QED
    BY <2>4, <2>5, <2>6, <2>7 DEF TypeOK
<1>2. ASSUME NEW q \in Receivers, Create(q) PROVE WindowInv' /\ TypeOK'
  <2> DEFINE c == Resolved(cfg[q])
             scns == WithDefaults(EffectiveScenarios(c))
  <2>1. PICK outcome \in {"created", "failed", "panicked"} :
             phase' = [phase EXCEPT ![q] = outcome]
    BY <1>2 DEF Create, ConstructorOutcomes
  <2>2. PICK d : /\ cfg' = [cfg EXCEPT ![q] = d]
                 /\ d = c \/ d = [c EXCEPT !.scenarios = scns]
    BY <1>2 DEF Create
  <2>3. loaded' = loaded /\ phase[q] = "valid"
    BY <1>2 DEF Create
  <2>4. /\ {"startTime", "endTime"} \subseteq DOMAIN c
        /\ c.startTime \in Nat /\ c.startTime > 0 /\ c.endTime \in Nat /\ c.endTime > 0
        /\ c.startNowMinus \in 0..Now - 1 /\ c.endNowMinus \in 0..Now - 1
    BY ResolvedWindow DEF WindowInv
  <2> HIDE DEF c, scns
  <2>5. /\ {"startTime", "endTime"} \subseteq DOMAIN d
        /\ d.startTime \in Nat /\ d.startTime > 0 /\ d.endTime \in Nat /\ d.endTime > 0
        /\ d.startNowMinus \in 0..Now - 1 /\ d.endNowMinus \in 0..Now - 1
    <3>1. CASE d = c
      BY <2>4, <3>1
    <3>2. CASE d = [c EXCEPT !.scenarios = scns]
      <4>1. /\ DOMAIN d = DOMAIN c
            /\ d.startTime = c.startTime /\ d.endTime = c.endTime
            /\ d.startNowMinus = c.startNowMinus /\ d.endNowMinus = c.endNowMinus
        BY <2>4, <3>2
      <4> QED
        BY <2>4, <4>1
    <3> QED
      BY <2>2, <3>1, <3>2
  <2>6. cfg'[q] = d /\ \A r \in Receivers \ {q} : cfg'[r] = cfg[r]
    BY <2>2 DEF ConfigInv
  <2>7. WindowInv'
    BY <2>5, <2>6 DEF WindowInv
  <2>8. /\ \A r \in Receivers \ {q} : phase'[r] = phase[r]
        /\ phase' \in [Receivers -> {"new", "valid", "rejected", "failed", "panicked",
                                      "created"}]
    BY <2>1 DEF TypeOK
  <2>9. ASSUME NEW r \in Receivers
        PROVE  /\ phase'[r] = "created" => cfg'[r].startTime > 0 /\ cfg'[r].endTime > 0
               /\ phase'[r] # "new" /\ cfg'[r].profile # "" =>
                     loaded' # "no" \/ phase'[r] = "rejected"
    <3>1. cfg'[r].profile = cfg[r].profile
      BY <1>2, CreateScenarios
    <3>2. CASE r = q
      BY <2>3, <2>5, <2>6, <3>1, <3>2 DEF TypeOK
    <3>3. CASE r # q
      BY <2>3, <2>6, <2>8, <3>3 DEF TypeOK
    <3> QED
      BY <3>2, <3>3
  <2> QED
    BY <2>3, <2>7, <2>8, <2>9 DEF TypeOK
<1>3. CASE UNCHANGED vars
  BY <1>3 DEF vars, WindowInv, TypeOK
<1> QED
  BY <1>1, <1>2, <1>3 DEF Next, AllSettled

(***************************************************************************)
(* Type correctness: in particular a receiver is created with a window     *)
(* whose ends are both known, and no profile is accepted before the        *)
(* built-in ones are loaded.                                               *)
(***************************************************************************)
THEOREM ConfigTypeCorrect == Spec => []TypeOK
  BY ConfigInit, ConfigNext, TypeInit, TypeNext, PTL DEF Spec
-----------------------------------------------------------------------------
(***************************************************************************)
(* Every scenario a receiver goes by once Validate has accepted it passed  *)
(* validateScenarios, and still would.                                     *)
(***************************************************************************)
AcceptedInv ==
    \A r \in Receivers :
        /\ HaveValidated(cfg[r].scenarios)
        /\ Accepted(r) /\ ~UsesProfile(r) => ValidScenarios(cfg[r].scenarios)

(***************************************************************************)
(* The scenarios of an accepted receiver have passed the validation.       *)
(***************************************************************************)
LEMMA AcceptedScenarios ==
    ASSUME VerdictInv, AcceptedInv, NEW r \in Receivers, Accepted(r)
    PROVE  LET scns == EffectiveScenarios(cfg[r]) IN
           HaveValidated(scns) /\ ValidScenarios(scns)
<1>1. CASE UsesProfile(r)
  BY <1>1 DEF VerdictInv, Found, UsesProfile, EffectiveScenarios
<1>2. CASE ~UsesProfile(r)
  BY <1>2 DEF AcceptedInv, UsesProfile, EffectiveScenarios
<1> QED
  BY <1>1, <1>2

LEMMA AcceptedInit == Init => AcceptedInv
<1> SUFFICES ASSUME Init PROVE AcceptedInv
  OBVIOUS
<1>1. cfg \in Inputs /\ \A r \in Receivers : phase[r] = "new"
  BY DEF Init
<1>2. \A r \in Receivers : HaveValidated(cfg[r].scenarios)
  BY <1>1, FieldsAssumption
<1> QED
  BY <1>1, <1>2 DEF AcceptedInv, Accepted

LEMMA AcceptedNext == ConfigInv /\ AcceptedInv /\ [Next]_vars => AcceptedInv'
<1> SUFFICES ASSUME ConfigInv, AcceptedInv, [Next]_vars PROVE AcceptedInv'
  OBVIOUS
<1>1. ASSUME NEW q \in Receivers, Validate(q) PROVE AcceptedInv'
  <2>1. /\ phase' = [phase EXCEPT ![q] = IF Valid(cfg[q]) THEN "valid" ELSE "rejected"]
        /\ cfg' = cfg
    BY <1>1 DEF Validate
  <2>2. /\ \A r \in Receivers \ {q} : phase'[r] = phase[r]
        /\ phase'[q] = IF Valid(cfg[q]) THEN "valid" ELSE "rejected"
    BY <2>1 DEF ConfigInv
  <2>3. ASSUME NEW r \in Receivers, Accepted(r)', ~UsesProfile(r)'
        PROVE  ValidScenarios(cfg'[r].scenarios)
    <3>1. CASE r = q
      <4>1. Valid(cfg[q]) /\ cfg[q].profile = ""
        BY <2>1, <2>2, <2>3, <3>1 DEF Accepted, UsesProfile
      <4>2. ValidScenarios(cfg[q].scenarios)
        BY <4>1 DEF Valid
      <4> QED
        BY <2>1, <3>1, <4>2
    <3>2. CASE r # q
      BY <2>1, <2>2, <2>3, <3>2 DEF AcceptedInv, Accepted, UsesProfile
    <3> QED
      BY <3>1, <3>2
  <2> QED
    BY <2>1, <2>3 DEF AcceptedInv
<1>2. ASSUME NEW q \in Receivers, Create(q) PROVE AcceptedInv'
  <2>1. phase[q] = "valid" /\ \A r \in Receivers : Accepted(r)' => Accepted(r)
    <3>1. PICK outcome : phase' = [phase EXCEPT ![q] = outcome]
      BY <1>2 DEF Create
    <3>2. phase[q] = "valid"
      BY <1>2 DEF Create
    <3> QED
      BY <3>1, <3>2 DEF ConfigInv, Accepted
  <2>2. ASSUME NEW r \in Receivers
        PROVE  /\ HaveValidated(cfg'[r].scenarios)
               /\ Accepted(r)' /\ ~UsesProfile(r)' => ValidScenarios(cfg'[r].scenarios)
    <3>1. /\ cfg'[r].profile = cfg[r].profile
          /\ cfg'[r].scenarios = IF r = q /\ cfg[q].profile = ""
                                 THEN WithDefaults(cfg[q].scenarios) ELSE cfg[r].scenarios
      BY <1>2, CreateScenarios
    <3>2. /\ HaveValidated(cfg[r].scenarios)
          /\ Accepted(r)' /\ ~UsesProfile(r)' => ValidScenarios(cfg[r].scenarios)
      BY <2>1, <3>1 DEF AcceptedInv, UsesProfile
    <3>3. CASE r = q /\ cfg[q].profile = ""
      <4>1. /\ HaveDiurnal(cfg[q].scenarios) /\ HaveValidated(cfg[q].scenarios)
            /\ ValidScenarios(cfg[q].scenarios)
        BY <2>1, <3>2, <3>3 DEF ConfigInv, AcceptedInv, Accepted, UsesProfile
      <4>2. /\ HaveValidated(WithDefaults(cfg[q].scenarios))
            /\ ValidScenarios(WithDefaults(cfg[q].scenarios))
        BY <4>1, DefaultsValid
      <4> QED
        BY <3>1, <3>3, <4>2
    <3>4. CASE ~(r = q /\ cfg[q].profile = "")
      <4>1. cfg'[r].scenarios = cfg[r].scenarios
        BY <3>1, <3>4
      <4> QED
        BY <3>2, <4>1
    <3> QED
      BY <3>3, <3>4
  <2> QED
    BY <2>2 DEF AcceptedInv
<1>3. CASE UNCHANGED vars
  BY <1>3 DEF vars, AcceptedInv, Accepted, UsesProfile
<1> QED
  BY <1>1, <1>2, <1>3 DEF Next, AllSettled
-----------------------------------------------------------------------------
(***************************************************************************)
(* How produceLogs cuts the shares: the shares have one size, and worker w *)
(* begins where the w shares before it end.                                *)
(***************************************************************************)
LEMMA WholeShares ==
    ASSUME NEW scale \in Nat, NEW conc \in Nat, conc > 0, scale % conc = 0,
           NEW w \in Nat
    PROVE  /\ scale \div conc \in Nat /\ scale = conc * (scale \div conc)
           /\ (w * scale) \div conc = w * (scale \div conc)
<1> DEFINE share == scale \div conc
<1>1. share \in Nat /\ scale = conc * share
  BY Z3
<1> HIDE DEF share
<1>2. w * scale = conc * (w * share)
  BY <1>1, Z3
<1>3. PICK m \in Nat : m = w * share
  BY <1>1, Z3
<1>4. (conc * m) \div conc = m
  BY <1>3, Z3
<1> QED
  BY <1>1, <1>2, <1>3, <1>4 DEF share

(***************************************************************************)
(* Every instance has one worker and one place in its share.               *)
(***************************************************************************)
LEMMA OneWorker ==
    ASSUME NEW share \in Nat, NEW conc \in Nat, NEW i \in Nat, i < conc * share
    PROVE  \E w \in 0..conc - 1, j \in 0..share - 1 :
              /\ j + (w * share) = i
              /\ \A v \in 0..conc - 1, k \in 0..share - 1 :
                    k + (v * share) = i => v = w /\ k = j
<1>1. share > 0
  <2>1. share = 0 => conc * share = 0
    BY Z3
  <2> QED
    BY <2>1, Z3
<1>2. PICK w \in Nat, j \in Nat : i = (w * share) + j /\ j < share
  <2>1. i \div share \in Nat /\ i % share \in Nat /\ i % share < share
    BY <1>1, Z3
  <2>2. i = ((i \div share) * share) + (i % share)
    BY <1>1, Z3
  <2> QED
    BY <2>1, <2>2
<1>3. \A a, b \in Nat : a >= b => a * share >= b * share
  <2> SUFFICES ASSUME NEW a \in Nat, NEW b \in Nat, a >= b PROVE a * share >= b * share
    OBVIOUS
  <2>1. PICK d \in Nat : a = b + d
    BY Z3
  <2>2. a * share = (b * share) + (d * share) /\ d * share >= 0 /\ b * share \in Int
    BY <2>1, Z3
  <2>3. d * share \in Int
    BY <2>1, Z3
  <2> QED
    BY <2>2, <2>3
<1>4. \A a \in Nat : a * share \in Nat /\ (a + 1) * share = (a * share) + share
  BY Z3
<1>5. w < conc
  BY <1>2, <1>3, <1>4
<1>6. ASSUME NEW v \in Nat, NEW k \in 0..share - 1, k + (v * share) = i
      PROVE  v = w /\ k = j
  <2>1. ~(v >= w + 1) /\ ~(w >= v + 1)
    BY <1>2, <1>3, <1>4, <1>6
  <2>2. v = w
    BY <1>2, <1>6, <2>1
  <2> QED
    BY <1>2, <1>4, <1>6, <2>2
<1> QED
  BY <1>2, <1>5, <1>6

(***************************************************************************)
(* With counts that Validate accepts, no instance is left out and none is  *)
(* emitted by two workers, for every scale and every number of workers.    *)
(***************************************************************************)
THEOREM InstancesCoveredCorrect == Spec => []InstancesCovered
<1>1. VerdictInv /\ AcceptedInv => InstancesCovered
  <2> SUFFICES ASSUME VerdictInv, AcceptedInv, NEW r \in Receivers, Created(r),
                      NEW scn \in ScenariosOf(r), scn.concurrency > 0,
                      NEW i \in 0..scn.scale - 1
               PROVE  Quantify((0..scn.concurrency - 1)
                                  \X (0..scn.scale \div scn.concurrency - 1),
                               LAMBDA wj : wj[2] + (wj[1] * scn.scale) \div scn.concurrency
                                              = i) = 1
    BY DEF InstancesCovered
  <2>1. /\ scn.scale \in Int /\ scn.concurrency \in Int /\ ValidCounts(scn)
    <3>1. LET scns == EffectiveScenarios(cfg[r]) IN HaveValidated(scns) /\ ValidScenarios(scns)
      BY AcceptedScenarios DEF Created, Accepted
    <3> QED
      BY <3>1 DEF ScenariosOf, HaveValidated, ValidScenarios
  <2>2. PICK scale \in Nat, conc \in Nat :
             /\ scale = scn.scale /\ conc = scn.concurrency /\ conc > 0
             /\ scale % conc = 0 /\ i \in Nat /\ i < scale
    BY <2>1 DEF ValidCounts
  <2>3. PICK share \in Nat :
             /\ share = scale \div conc /\ scale = conc * share
             /\ \A w \in Nat : (w * scale) \div conc = w * share
    <3>1. \A w \in Nat : /\ scale \div conc \in Nat /\ scale = conc * (scale \div conc)
                          /\ (w * scale) \div conc = w * (scale \div conc)
      BY <2>2, WholeShares
    <3>2. 0 \in Nat
      OBVIOUS
    <3> QED
      BY <3>1, <3>2
  <2>4. PICK w \in 0..conc - 1, j \in 0..share - 1 :
              /\ j + (w * share) = i
              /\ \A v \in 0..conc - 1, k \in 0..share - 1 :
                    k + (v * share) = i => v = w /\ k = j
    <3>1. i \in Nat /\ i < conc * share
      BY <2>2, <2>3
    <3> QED
      BY <3>1, OneWorker
  <2> DEFINE all == (0..conc - 1) \X (0..share - 1)
             at == {wj \in all : wj[2] + (wj[1] * scale) \div conc = i}
  <2>5. at = {<<w, j>>}
    <3>1. \A wj \in all : /\ wj[1] \in 0..conc - 1 /\ wj[2] \in 0..share - 1
                          /\ wj = <<wj[1], wj[2]>> /\ wj[1] \in Nat
      OBVIOUS
    <3>2. \A v \in 0..conc - 1 : (v * scale) \div conc = v * share
      <4>1. \A v \in 0..conc - 1 : v \in Nat
        OBVIOUS
      <4> QED
        BY <2>3, <4>1
    <3>3. <<w, j>> \in at
      BY <2>4, <3>2
    <3>4. ASSUME NEW wj \in at PROVE wj = <<w, j>>
      <4>1. PICK v \in 0..conc - 1, k \in 0..share - 1 : wj = <<v, k>>
        BY <3>1
      <4>2. k + ((v * scale) \div conc) = i
        BY <4>1
      <4> QED
        BY <2>4, <3>2, <4>1, <4>2
    <3> QED
      BY <3>3, <3>4
  <2>6. Cardinality(at) = 1
    BY <2>5, FS_Singleton
  <2> QED
    BY <2>2, <2>3, <2>6 DEF Quantify
<1> QED
  BY <1>1, ConfigInit, ConfigNext, VerdictInit, VerdictNext, AcceptedInit, AcceptedNext,
     PTL DEF Spec
-----------------------------------------------------------------------------
(***************************************************************************)
(* pickSeverityFromWeights: with weights that Validate accepts, the rolls  *)
(* that give a severity are those from the weight before its own on.       *)
(***************************************************************************)
LEMMA PickedRolls ==
    ASSUME NEW sw \in [1..6 -> Int], sw # Nil, ValidSeverityWeights(sw),
           NEW i \in 1..6, NEW before \in Int,
           before = IF i = 1 THEN 0 ELSE sw[i - 1]
    PROVE  {n \in 0..99 : PickSeverity(sw, n) = Severities[i]} = before..sw[i] - 1
<1>1. /\ \A k \in 1..6 : sw[k] \in 0..100
      /\ sw[1] <= sw[2] /\ sw[2] <= sw[3] /\ sw[3] <= sw[4] /\ sw[4] <= sw[5]
      /\ sw[5] <= sw[6] /\ sw[6] = 100
  BY DEF ValidSeverityWeights
<1>2. \A k, l \in 1..6 : k <= l => sw[k] <= sw[l]
  BY <1>1
<1>3. \A k, l \in 1..6 : Severities[k] = Severities[l] => k = l
  BY DEF Severities
<1>4. ASSUME NEW n \in 0..99
      PROVE  PickSeverity(sw, n) = Severities[i] <=> n \in before..sw[i] - 1
  <2> DEFINE above == {k \in 1..6 : n < sw[k]}
  <2>1. 6 \in above
    BY <1>1
  <2>2. PICK m \in above : \A k \in above : m <= k
    <3>1. CASE 1 \in above
      BY <3>1
    <3>2. CASE 1 \notin above /\ 2 \in above
      BY <3>2
    <3>3. CASE 1 \notin above /\ 2 \notin above /\ 3 \in above
      BY <3>3
    <3>4. CASE 1 \notin above /\ 2 \notin above /\ 3 \notin above /\ 4 \in above
      BY <3>4
    <3>5. CASE 1 \notin above /\ 2 \notin above /\ 3 \notin above /\ 4 \notin above
               /\ 5 \in above
      BY <3>5
    <3>6. CASE 1 \notin above /\ 2 \notin above /\ 3 \notin above /\ 4 \notin above
               /\ 5 \notin above
      BY <2>1, <3>6
    <3> QED
      BY <3>1, <3>2, <3>3, <3>4, <3>5, <3>6
  <2>3. Min(above) \in above /\ \A k \in above : Min(above) <= k
    <3>1. \E x \in above : \A y \in above : x <= y
      BY <2>2
    <3> QED
      BY <3>1 DEF Min
  <2>4. Min(above) = m
    BY <2>2, <2>3
  <2>5. PickSeverity(sw, n) = Severities[m]
    BY <2>1, <2>4 DEF PickSeverity
  <2>6. m \in 1..6 /\ n < sw[m] /\ \A k \in 1..6 : k < m => ~(n < sw[k])
    BY <2>2
  <2> HIDE DEF above
  <2>7. ASSUME m = i PROVE n \in before..sw[i] - 1
    <3>1. i # 1 => ~(n < sw[i - 1])
      BY <2>6, <2>7
    <3> QED
      BY <2>6, <2>7, <3>1, <1>1
  <2>8. ASSUME n \in before..sw[i] - 1 PROVE m = i
    <3>1. n < sw[i] /\ before <= n
      BY <1>1, <2>8
    <3>2. m <= i
      BY <2>6, <3>1
    <3>3. CASE i = 1
      BY <2>6, <3>2, <3>3
    <3>4. CASE i # 1
      <4>1. i - 1 \in 1..6 /\ sw[i - 1] <= n
        BY <3>1, <3>4
      <4>2. ~(m <= i - 1)
        <5>1. ASSUME m <= i - 1 PROVE FALSE
          <6>1. sw[m] <= sw[i - 1]
            BY <1>2, <2>6, <4>1, <5>1
          <6> QED
            BY <1>1, <2>6, <4>1, <6>1
        <5> QED
          BY <5>1
      <4> QED
        BY <2>6, <3>2, <4>2
    <3> QED
      BY <3>3, <3>4
  <2> QED
    BY <1>3, <2>5, <2>6, <2>7, <2>8
<1>5. before..sw[i] - 1 \subseteq 0..99
  <2>1. before >= 0 /\ sw[i] <= 100
    BY <1>1
  <2> QED
    BY <2>1, <1>1
<1> QED
  BY <1>4, <1>5

(***************************************************************************)
(* The weights a receiver is created with are cumulative percentages: a    *)
(* severity gets as many of the hundred rolls as its weight exceeds the    *)
(* one before.                                                             *)
(***************************************************************************)
THEOREM SeveritySharesCorrect == Spec => []SeverityShares
<1>1. VerdictInv /\ AcceptedInv => SeverityShares
  <2> SUFFICES ASSUME VerdictInv, AcceptedInv, NEW r \in Receivers, Created(r),
                      NEW scn \in ScenariosOf(r), scn.severityWeights # Nil,
                      NEW i \in 1..6
               PROVE  LET sw == scn.severityWeights IN
                      Quantify(0..99, LAMBDA n : PickSeverity(sw, n) = Severities[i])
                          = sw[i] - (IF i = 1 THEN 0 ELSE sw[i - 1])
    BY DEF SeverityShares
  <2>1. /\ scn.severityWeights \in [1..6 -> Int]
        /\ ValidSeverityWeights(scn.severityWeights)
    <3>1. LET scns == EffectiveScenarios(cfg[r]) IN HaveValidated(scns) /\ ValidScenarios(scns)
      BY AcceptedScenarios DEF Created, Accepted
    <3> QED
      BY <3>1 DEF ScenariosOf, HaveValidated, ValidScenarios
  <2>2. PICK sw \in [1..6 -> Int] : /\ sw = scn.severityWeights
                                    /\ sw # Nil /\ ValidSeverityWeights(sw)
    BY <2>1
  <2>3. /\ \A k \in 1..6 : sw[k] \in 0..100
        /\ \A k \in 2..6 : sw[k - 1] <= sw[k]
    BY <2>2 DEF ValidSeverityWeights
  <2>4. PICK before \in Int : /\ before = IF i = 1 THEN 0 ELSE sw[i - 1]
                              /\ before <= sw[i]
    BY <2>3
  <2>5. {n \in 0..99 : PickSeverity(sw, n) = Severities[i]} = before..sw[i] - 1
    BY <2>2, <2>4, PickedRolls
  <2>6. PICK last \in Int : last = sw[i] - 1
    BY <2>3
  <2>7. Cardinality(before..last) = IF before > last THEN 0 ELSE last - before + 1
    BY FS_Interval
  <2>8. Cardinality(before..sw[i] - 1) = sw[i] - before
    <3>1. before..sw[i] - 1 = before..last
      BY <2>6
    <3>2. PICK own \in Int : own = sw[i]
      BY <2>3
    <3>3. last = own - 1 /\ before <= own
      BY <2>4, <2>6, <3>2
    <3>4. Cardinality(before..last) = own - before
      BY <2>7, <3>3
    <3> QED
      BY <3>1, <3>2, <3>4
  <2> QED
    BY <2>2, <2>4, <2>5, <2>8 DEF Quantify
<1> QED
  BY <1>1, ConfigInit, ConfigNext, VerdictInit, VerdictNext, AcceptedInit, AcceptedNext,
     PTL DEF Spec
-----------------------------------------------------------------------------
(***************************************************************************)
(* What Validate does not look at: that the file of resource templates     *)
(* renders a resource, and that an IPv4 range has a host.                  *)
(***************************************************************************)
Hosted(scns) ==
    \A i \in DOMAIN scns :
        /\ "path" \in DOMAIN scns[i]
        /\ Templates[scns[i].path] # "empty"
        /\ \A c \in IPv4Ranges(scns[i].ipPool) : HostMax(c) # 0

HostedInv ==
    /\ \A name \in DOMAIN profiles : Hosted(profiles[name])
    /\ \A r \in Receivers : Hosted(cfg[r].scenarios)

(***************************************************************************)
(* The defaults change no range.                                           *)
(***************************************************************************)
LEMMA DefaultsHosted ==
    ASSUME NEW scns, HaveDiurnal(scns), HaveValidated(scns), Hosted(scns)
    PROVE  Hosted(WithDefaults(scns))
<1> DEFINE d == WithDefaults(scns)
<1>1. /\ DOMAIN d = DOMAIN scns
      /\ \A i \in DOMAIN scns :
            d[i] = [scns[i] EXCEPT !.diurnal = ApplyDiurnalDefaults(scns[i].diurnal)]
  BY DEF WithDefaults
<1> HIDE DEF d
<1>2. \A i \in DOMAIN scns : /\ {"path", "ipPool"} \subseteq DOMAIN scns[i]
                             /\ DOMAIN d[i] = DOMAIN scns[i]
                             /\ d[i].path = scns[i].path
                             /\ d[i].ipPool = scns[i].ipPool
  BY <1>1 DEF Hosted, HaveValidated, ValidatedFields
<1>3. Hosted(d)
  BY <1>1, <1>2 DEF Hosted
<1> QED
  BY <1>3 DEF d

(***************************************************************************)
(* With hosts in every range the constructor does not panic.               *)
(***************************************************************************)
LEMMA NothingPanics ==
    ASSUME NEW scns, HaveValidated(scns), ValidScenarios(scns), Hosted(scns)
    PROVE  "panicked" \notin ConstructorOutcomes(scns)
<1>1. ASSUME NEW i \in DOMAIN scns PROVE "panicked" \notin Outcomes(scns[i])
  <2>1. scns[i].scale \in Int /\ scns[i].scale >= 0
    BY DEF HaveValidated, ValidScenarios, ValidCounts
  <2>2. /\ Templates[scns[i].path] # "empty"
        /\ \A c \in IPv4Ranges(scns[i].ipPool) : HostMax(c) # 0
    BY DEF Hosted
  <2>3. ~(scns[i].scale < 0)
    BY <2>1
  <2> QED
    BY <2>2, <2>3 DEF Outcomes
<1> QED
  BY <1>1 DEF ConstructorOutcomes

LEMMA HostedNext ==
    ConfigInv /\ VerdictInv /\ AcceptedInv /\ HostedInv /\ [Next]_vars => HostedInv'
<1> SUFFICES ASSUME ConfigInv, VerdictInv, AcceptedInv, HostedInv, [Next]_vars
             PROVE  HostedInv'
  OBVIOUS
<1>1. ASSUME UNCHANGED <<cfg, profiles>> PROVE HostedInv'
  BY <1>1 DEF HostedInv
<1>2. ASSUME NEW q \in Receivers, Create(q) PROVE HostedInv'
  <2>1. \A r \in Receivers : Hosted(WithDefaults(cfg[r].scenarios))
    <3>1. \A r \in Receivers : /\ HaveDiurnal(cfg[r].scenarios)
                               /\ HaveValidated(cfg[r].scenarios) /\ Hosted(cfg[r].scenarios)
      BY DEF ConfigInv, AcceptedInv, HostedInv
    <3> QED
      BY <3>1, DefaultsHosted
  <2>2. \A name \in DOMAIN profiles : Hosted(WithDefaults(profiles[name]))
    <3>1. \A name \in DOMAIN profiles : /\ HaveDiurnal(profiles[name])
                                        /\ HaveValidated(profiles[name])
                                        /\ Hosted(profiles[name])
      BY DEF ConfigInv, VerdictInv, HostedInv
    <3> QED
      BY <3>1, DefaultsHosted
  <2>3. \A r \in Receivers : Hosted(cfg'[r].scenarios)
    BY <1>2, <2>1, CreateScenarios DEF HostedInv
  <2>4. \A name \in DOMAIN profiles' : Hosted(profiles'[name])
    <3>1. profiles' = IF cfg[q].profile = "" THEN profiles
                      ELSE [profiles EXCEPT ![cfg[q].profile] =
                               WithDefaults(profiles[cfg[q].profile])]
      BY <1>2, CreateScenarios
    <3>2. ASSUME NEW name \in DOMAIN profiles'
          PROVE  /\ name \in DOMAIN profiles
                 /\ profiles'[name] \in {profiles[name], WithDefaults(profiles[name])}
      BY <3>1
    <3> QED
      BY <2>2, <3>2 DEF HostedInv
  <2> QED
    BY <2>3, <2>4 DEF HostedInv
<1> QED
  BY <1>1, <1>2 DEF Next, Validate, AllSettled, vars

LEMMA NoPanicNext ==
    ConfigInv /\ VerdictInv /\ AcceptedInv /\ HostedInv /\ NoPanic /\ [Next]_vars => NoPanic'
<1> SUFFICES ASSUME ConfigInv, VerdictInv, AcceptedInv, HostedInv, NoPanic, [Next]_vars
             PROVE  NoPanic'
  OBVIOUS
<1>1. ASSUME NEW q \in Receivers, Validate(q) PROVE NoPanic'
  BY <1>1 DEF Validate, NoPanic, ConfigInv
<1>2. ASSUME NEW q \in Receivers, Create(q) PROVE NoPanic'
  <2> DEFINE scns == EffectiveScenarios(cfg[q])
  <2>1. phase[q] = "valid"
    BY <1>2 DEF Create
  <2>2. EffectiveScenarios(Resolved(cfg[q])) = scns
    BY DEF EffectiveScenarios, Resolved
  <2>3. PICK outcome \in ConstructorOutcomes(WithDefaults(scns)) :
             phase' = [phase EXCEPT ![q] = outcome]
    BY <1>2, <2>2 DEF Create
  <2>4. HaveDiurnal(scns) /\ HaveValidated(scns) /\ ValidScenarios(scns)
    BY <2>1, EffectiveFields, AcceptedScenarios DEF Accepted
  <2>5. Hosted(scns)
    BY <2>1 DEF ConfigInv, HostedInv, EffectiveScenarios
  <2> HIDE DEF scns
  <2>6. "panicked" \notin ConstructorOutcomes(WithDefaults(scns))
    <3>1. HaveValidated(WithDefaults(scns)) /\ ValidScenarios(WithDefaults(scns))
      BY <2>4, DefaultsValid
    <3>2. Hosted(WithDefaults(scns))
      BY <2>4, <2>5, DefaultsHosted
    <3> QED
      BY <3>1, <3>2, NothingPanics
  <2> QED
    BY <2>3, <2>6 DEF NoPanic, ConfigInv
<1>3. CASE UNCHANGED vars
  BY <1>3 DEF vars, NoPanic
<1> QED
  BY <1>1, <1>2, <1>3 DEF Next, AllSettled

(***************************************************************************)
(* Where the configurations and the built-in profiles name resource        *)
(* templates that render something and IPv4 ranges that have a host,       *)
(* nothing else that Validate accepts makes the constructor panic.         *)
(***************************************************************************)
THEOREM NoPanicCorrect ==
    ASSUME \A input \in Inputs : \A r \in Receivers : Hosted(input[r].scenarios),
           \A file \in BuiltinFiles : \A name \in DOMAIN file : Hosted(file[name])
    PROVE  Spec => []NoPanic
<1>1. Init => HostedInv /\ NoPanic
  BY DEF Init, HostedInv, NoPanic
<1> QED
  BY <1>1, ConfigInit, ConfigNext, VerdictInit, VerdictNext, AcceptedInit, AcceptedNext,
     HostedNext, NoPanicNext, PTL DEF Spec
=============================================================================
