-------------------------- MODULE MCReceiverConfig --------------------------
(***************************************************************************)
(* Configurations of ReceiverConfig for TLC: a plain one, and what differs *)
(* from it in one field at a time.                                         *)
(***************************************************************************)
EXTENDS ReceiverConfig

LOCAL INSTANCE TLC

CONSTANTS r1, r2

PlainScenario ==
    [path |-> "builtin/k8s-nginx", scale |-> 2, concurrency |-> 0, logsPerInterval |-> 1,
     needles |-> <<>>, volume |-> Nil, diurnal |-> Nil, severityWeights |-> Nil,
     ipPool |-> Nil, instanceVolumeSkew |-> 0]

PlainConfig ==
    [startTime |-> 0, startNowMinus |-> 5, endTime |-> 0, endNowMinus |-> 0,
     interval |-> 1, profile |-> "", scenarios |-> <<PlainScenario>>]

With(scn) == [PlainConfig EXCEPT !.scenarios = <<scn>>]

Counts ==
    {[PlainScenario EXCEPT !.scale = scale, !.concurrency = conc, !.logsPerInterval = logs] :
        scale \in {-1, 0, 3, 4, 6}, conc \in {-1, 0, 1, 2, 3}, logs \in {-1, 0, 1}}

Curve(peakHour, troughHour, peak, bursts) ==
    [peakHour |-> peakHour, troughHour |-> troughHour, peakMultiplier |-> peak,
     troughMultiplier |-> 0, cronBursts |-> bursts]
Burst(interval, duration) == [interval |-> interval, duration |-> duration, multiplier |-> 100]
Curves ==
    {[PlainScenario EXCEPT !.diurnal = Curve(peak, trough, mult, <<>>)] :
        peak \in {0, 4, 14, 24}, trough \in {0, 4, 23, -1}, mult \in {-1, 300}}
    \cup {[PlainScenario EXCEPT !.diurnal = Curve(14, 4, 300, <<Burst(i, d)>>)] :
        i \in {0, 6}, d \in {0, 2, 6}}

Weights ==
    {[PlainScenario EXCEPT !.severityWeights = w] :
        w \in {w \in [1..6 -> {0, 3, 85, 100, 101}] : w[1] = 0 /\ w[3] = 85 /\ w[5] = 100}}

Spells ==
    {[PlainScenario EXCEPT !.volume =
        [burstProbability |-> b, burstMultiplierMin |-> 200, burstMultiplierMax |-> m,
         burstDurationMin |-> d, burstDurationMax |-> 2, quietProbability |-> q,
         quietMultiplier |-> 0, quietDurationMin |-> 0, quietDurationMax |-> 1]] :
        b \in {0, 60}, q \in {0, 50}, m \in {100, 300}, d \in {0, 1, 3}}

NeedleScenarios ==
    {[PlainScenario EXCEPT !.needles = <<[name |-> name, message |-> "m", rate |-> rate,
        severity |-> [letters |-> letters, spaces |-> FALSE]]>>] :
        name \in {"", "n"}, rate \in {-1, 2, 101}, letters \in {"", "WARN", "LOUD"}}

\* A prefix of 96 or more: IPv4 written as IPv6.
Range4(prefix) == [family |-> 4, prefix |-> prefix]
Pools ==
    {[PlainScenario EXCEPT !.path = path, !.ipPool = [cidrs |-> cidrs, zipfSkew |-> skew]] :
        path \in {"builtin/k8s-nginx", "k8s-nginx", "custom", "nowhere"},
        cidrs \in {<<>>, <<Range4(31)>>, <<Range4(8), [family |-> 6, prefix |-> 64]>>,
                   <<[family |-> 0, prefix |-> 0]>>},
        skew \in {0, 100, 150}}

Skewed == {[PlainScenario EXCEPT !.instanceVolumeSkew = skew] : skew \in {-1, 2}}

ScenarioConfigs ==
    {With(scn) : scn \in Counts \cup Curves \cup Weights \cup Spells
                            \cup NeedleScenarios \cup Pools \cup Skewed}
WindowConfigs ==
    {[PlainConfig EXCEPT !.startTime = s, !.startNowMinus = m, !.endTime = e, !.interval = i] :
        s \in {0, 3}, m \in {0, 5}, e \in {0, 2, 9}, i \in {0, 1}}
Ports ==
    "builtin/k8s-nginx" :> "ok" @@ "k8s-nginx" :> "ok" @@ "custom" :> "ok" @@ "nowhere" :> "missing"

\* Receivers with a built-in profile, with both, or with neither.
ProfileConfig(name) == [PlainConfig EXCEPT !.profile = name, !.scenarios = <<>>]
Profiled ==
    {ProfileConfig("p"), ProfileConfig("q"), ProfileConfig("none"), PlainConfig,
     [PlainConfig EXCEPT !.profile = "p"], ProfileConfig("")}

\* One receiver with any of these configurations beside one with a profile.
AnyAndProfiled ==
    {r1 :> any @@ r2 :> profiled :
        any \in ScenarioConfigs \cup WindowConfigs \cup Profiled, profiled \in Profiled}

File(dp) ==
    "p" :> <<[PlainScenario EXCEPT !.diurnal = dp], PlainScenario>>
    @@ "q" :> <<[PlainScenario EXCEPT !.path = "custom"]>>
Files == {File(Curve(0, 0, 0, <<>>)), File(Curve(4, 0, 300, <<>>)),
          File(Curve(4, 4, 300, <<>>))}
NoFile == {[n \in {} |-> <<>>]}

\* Ranges that pass the validation but have no host: ParseCIDR reads 10.0.0.1/32,
\* and ::ffff:10.0.0.0/104.
Hostless ==
    {r1 :> With([PlainScenario EXCEPT !.ipPool =
                    [cidrs |-> <<Range4(8), Range4(prefix)>>, zipfSkew |-> 0]]) :
        prefix \in {32, 104}}
=============================================================================
