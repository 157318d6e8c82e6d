------------------------- MODULE AppendInstanceLogs -------------------------
(***************************************************************************)
(* How the goroutines of one interval make their records and account for   *)
(* them (src/logsgenreceiver/receiver.go, appendInstanceLogs): a record is *)
(* generated into buffers its goroutine reuses, may be replaced by a       *)
(* needle, and is then counted in the goroutine's statistics shard; the    *)
(* needle counters are shared by all goroutines.  When all have handed     *)
(* their batch to the consumer, Shutdown merges the shards.                *)
(*                                                                         *)
(* LogsGenReceiver takes the whole of this as one step per instance.       *)
(***************************************************************************)
EXTENDS Integers, Sequences, LogGen, LogStats

CONSTANTS
    Goroutines,     \* goroutines of this interval; each has its own shard
    Instances,      \* Instances[g]: the resources it goes through, in order
    LogsPerInstance,\* records of an instance in this interval
    Profile,        \* the prepared profile (see LogGen)
    EmitTrace,      \* emit_trace_context
    Needles,        \* needles of the scenario: [name, severity, rate, attrs]
    Tracking,       \* goroutines whose shard tracks field cardinality
    CurrentTime,    \* start of the interval
    Interval,       \* its length
    Rolls,          \* values rng.Intn(100) may return
    Jitters         \* absolute values the normal distribution may return

(***************************************************************************)
(* Validate: an interval is at least a second, rates are probabilities,    *)
(* needles have a severity that is known or none.  Every application       *)
(* profile has templates: the record without one that                      *)
(* GenerateFromPreparedInto returns otherwise is never made.               *)
(***************************************************************************)
ASSUME AppendAssumption ==
    /\ DOMAIN Instances = Goroutines
    /\ \A g \in Goroutines : Instances[g] \in Seq({Instances[g][i] : i \in DOMAIN Instances[g]})
    /\ LogsPerInstance \in Nat \ {0}
    /\ Tracking \subseteq Goroutines
    /\ Interval \in Nat \ {0}
    /\ CurrentTime \in Nat
    /\ Rolls \subseteq 0..99
    /\ Jitters \subseteq Nat
    /\ Profile.messages # <<>>
    /\ Needles \in Seq({Needles[i] : i \in DOMAIN Needles})
    /\ \A i \in DOMAIN Needles :
          /\ Needles[i].rate \in {"never", "sometimes", "always"}
          /\ Needles[i].severity.letters \in SeverityTexts \cup {""}

(***************************************************************************)
(* A prepared template has one of the six severities and lists of          *)
(* generators.                                                             *)
(***************************************************************************)
ASSUME TemplateAssumption ==
    \A t \in DOMAIN Profile.messages :
        LET tmpl == Profile.messages[t] IN
        /\ tmpl.severity \in SeverityTexts
        /\ \A list \in {tmpl.args, tmpl.attrs, tmpl.rare} :
              list \in Seq({list[i] : i \in DOMAIN list})

(***************************************************************************)
(* No template makes an attribute needle.name, and no needle is configured *)
(* with an attribute of that name (Validate does not look: it would        *)
(* replace the name in the record, but not in the counter).                *)
(***************************************************************************)
ASSUME NeedleNameAssumption ==
    /\ IsFiniteSet(Goroutines)
    /\ \A i \in DOMAIN Needles : "needle.name" \notin DOMAIN Needles[i].attrs
    /\ \A t \in DOMAIN Profile.messages : \A o \in Generated(Profile, t, NoAttrs) :
          "needle.name" \notin DOMAIN o.attrs

VARIABLES
    pc,                 \* pc[g]: "generate", "needles", "consume" or "done"
    instance,           \* instance[g]: the instance it is at
    made,               \* made[g]: records of that instance so far
    reusableAttrs,      \* reusableAttrs[g]: its attribute buffer
    lr,                 \* lr[g]: the record it is making
    nextNeedle,         \* nextNeedle[g]: the needle to roll for next
    replaced,           \* replaced[g]: has a needle replaced the record?
    stats,              \* stats[g]: its statistics shard
    needleOccurrences,  \* counter of each needle name, shared
    batch,              \* batch[g]: finished records
    delivered           \* batches handed to the consumer, by goroutine

vars == <<pc, instance, made, reusableAttrs, lr, nextNeedle, replaced, stats,
          needleOccurrences, batch, delivered>>

NeedleNames == {Needles[i].name : i \in DOMAIN Needles}
NoRecord == [source |-> 0, needle |-> 0, severity |-> "INFO", attrs |-> NoAttrs,
             resource |-> NoAttrs, time |-> CurrentTime, draws |-> 0]

TypeOK ==
    /\ pc \in [Goroutines -> {"generate", "needles", "consume", "done"}]
    /\ \A g \in Goroutines :
          /\ instance[g] \in 1..Len(Instances[g]) + 1
          /\ pc[g] \in {"generate", "needles"} => instance[g] <= Len(Instances[g])
          /\ made[g] \in 0..LogsPerInstance - 1
          /\ lr[g].severity \in SeverityTexts
          /\ lr[g].source \in {0} \cup DOMAIN Profile.messages
          /\ lr[g].needle \in {0} \cup DOMAIN Needles
          /\ nextNeedle[g] \in 1..Len(Needles) + 1
    /\ replaced \in [Goroutines -> BOOLEAN]
    /\ needleOccurrences \in [NeedleNames -> Nat]

Init ==
    /\ pc = [g \in Goroutines |-> IF Instances[g] = <<>> THEN "consume" ELSE "generate"]
    /\ instance = [g \in Goroutines |-> 1]
    /\ made = [g \in Goroutines |-> 0]
    /\ reusableAttrs = [g \in Goroutines |-> NoAttrs]
    /\ lr = [g \in Goroutines |-> NoRecord]
    /\ nextNeedle = [g \in Goroutines |-> 1]
    /\ replaced = [g \in Goroutines |-> FALSE]
    /\ stats = [g \in Goroutines |-> NewLogStats(g \in Tracking)]
    /\ needleOccurrences = [n \in NeedleNames |-> 0]
    /\ batch = [g \in Goroutines |-> <<>>]
    /\ delivered = [g \in Goroutines |-> <<>>]
-----------------------------------------------------------------------------
(***************************************************************************)
(* addJitter: the record's time, the jitter capped below the interval.     *)
(***************************************************************************)
JitteredOffByOne(jitter) ==  \* bug: > where the code has >=
    CurrentTime + (IF jitter > Interval THEN Interval - 1 ELSE jitter)
Jittered(jitter) ==
    CurrentTime + (IF jitter >= Interval THEN Interval - 1 ELSE jitter)

(***************************************************************************)
(* The copy of the buffer into the record: nil values are left out.        *)
(***************************************************************************)
Present(attrs) == [k \in {k \in DOMAIN attrs : attrs[k] # Nil} |-> attrs[k]]

(***************************************************************************)
(* A new record: jitter, severity and template, a draw each, then the      *)
(* generators.                                                             *)
(***************************************************************************)
Generate(g) ==
    /\ pc[g] = "generate"
    /\ \E jitter \in Jitters, n \in Rolls :
       \E t \in TemplatesFor(Profile, PickSeverity(Profile.weights, n)) :
       \E o \in Generated(Profile, t, reusableAttrs[g]) :
          /\ reusableAttrs' = [reusableAttrs EXCEPT ![g] = o.attrs]
          /\ lr' = [lr EXCEPT ![g] =
                [source |-> t, needle |-> 0, severity |-> Profile.messages[t].severity,
                 attrs |-> Present(o.attrs), resource |-> Instances[g][instance[g]],
                 time |-> Jittered(jitter), draws |-> o.draws + 3]]
    /\ nextNeedle' = [nextNeedle EXCEPT ![g] = 1]
    /\ replaced' = [replaced EXCEPT ![g] = FALSE]
    /\ pc' = [pc EXCEPT ![g] = "needles"]
    /\ UNCHANGED <<instance, made, stats, needleOccurrences, batch, delivered>>

(***************************************************************************)
(* One round of the loop over the needles: a roll in any case, and the     *)
(* first needle that hits replaces body, severity and attributes.  A roll  *)
(* is below 1 and never below 0.                                           *)
(***************************************************************************)
Replacing(record, i) ==
    [record EXCEPT
        !.needle = i,
        !.severity = ParseSeverity(Needles[i].severity),
        !.attrs = PutAll(Put(@, "needle.name", Needles[i].name), Needles[i].attrs)]

HitsAgain(g, i) == Needles[i].rate # "never"  \* bug: the last hit wins
Hits(g, i) == ~replaced[g] /\ Needles[i].rate # "never"
Misses(g, i) == replaced[g] \/ Needles[i].rate # "always"

NextNeedleBreaking(g) ==  \* bug: no roll after a hit
    IF replaced'[g] THEN Len(Needles) + 1 ELSE nextNeedle[g] + 1
NextNeedle(g) == nextNeedle[g] + 1

RollNeedle(g) ==
    LET i == nextNeedle[g]
        rolled == [lr[g] EXCEPT !.draws = @ + 1]
    IN  /\ pc[g] = "needles"
        /\ i <= Len(Needles)
        /\ \/ /\ Hits(g, i)
              /\ lr' = [lr EXCEPT ![g] = Replacing(rolled, i)]
              /\ replaced' = [replaced EXCEPT ![g] = TRUE]
              /\ needleOccurrences' =
                    [needleOccurrences EXCEPT ![Needles[i].name] = @ + 1]
           \/ /\ Misses(g, i)
              /\ lr' = [lr EXCEPT ![g] = rolled]
              /\ UNCHANGED <<replaced, needleOccurrences>>
        /\ nextNeedle' = [nextNeedle EXCEPT ![g] = NextNeedle(g)]
        /\ UNCHANGED <<pc, instance, made, reusableAttrs, stats, batch, delivered>>

(***************************************************************************)
(* The record is counted as it is now, then given its trace context; then  *)
(* the next record, the next instance, or the end of the batch.            *)
(***************************************************************************)
TraceDraws == IF EmitTrace /\ Profile.trace THEN 2 ELSE 0

CountedBefore(g) ==  \* bug: counted with the severity of its template
    Record(stats[g], Profile.messages[lr[g].source].severity,
           lr[g].resource, lr[g].attrs)
Counted(g) == Record(stats[g], lr[g].severity, lr[g].resource, lr[g].attrs)

FinishRecord(g) ==
    LET last == made[g] + 1 = LogsPerInstance
        next == instance[g] + (IF last THEN 1 ELSE 0)
    IN  /\ pc[g] = "needles"
        /\ nextNeedle[g] > Len(Needles)
        /\ stats' = [stats EXCEPT ![g] = Counted(g)]
        /\ batch' = [batch EXCEPT ![g] =
                        Append(@, [lr[g] EXCEPT !.draws = @ + TraceDraws])]
        /\ made' = [made EXCEPT ![g] = IF last THEN 0 ELSE @ + 1]
        /\ instance' = [instance EXCEPT ![g] = next]
        /\ pc' = [pc EXCEPT ![g] =
                     IF next > Len(Instances[g]) THEN "consume" ELSE "generate"]
        /\ UNCHANGED <<reusableAttrs, lr, nextNeedle, replaced, needleOccurrences,
                       delivered>>

Consume(g) ==
    /\ pc[g] = "consume"
    /\ delivered' = [delivered EXCEPT ![g] = batch[g]]
    /\ pc' = [pc EXCEPT ![g] = "done"]
    /\ UNCHANGED <<instance, made, reusableAttrs, lr, nextNeedle, replaced, stats,
                   needleOccurrences, batch>>

Done == \A g \in Goroutines : pc[g] = "done"
Terminated == Done /\ UNCHANGED vars

Next ==
    \/ \E g \in Goroutines :
          Generate(g) \/ RollNeedle(g) \/ FinishRecord(g) \/ Consume(g)
    \/ Terminated

Spec == Init /\ [][Next]_vars
-----------------------------------------------------------------------------
(***************************************************************************)
(* Properties.                                                             *)
(***************************************************************************)
Made(g) == {<<g, i>> : i \in DOMAIN batch[g]}
AllMade == UNION {Made(g) : g \in Goroutines}
The(r) == batch[r[1]][r[2]]
NumWhere(Test(_)) == Cardinality({r \in AllMade : Test(The(r))})
CopiesOf(e, bag) == IF e \in DOMAIN bag THEN bag[e] ELSE 0

(***************************************************************************)
(* The summary Shutdown prints describes the records that were delivered,  *)
(* as they were delivered: merged over the shards, every severity and      *)
(* every resource label has as many records as the consumer received with  *)
(* it -- a record that a needle replaced counts under the needle's         *)
(* severity.                                                               *)
(***************************************************************************)
SummaryDescribesDelivered ==
    Done =>
        LET merged == Merge(stats) IN
        /\ delivered = batch
        /\ merged.total = Cardinality(AllMade)
        /\ \A sev \in SeverityTexts :
              CopiesOf(sev, merged.bySeverity) = NumWhere(LAMBDA r : r.severity = sev)
        /\ \A l \in Labels :
           \A v \in {The(r).resource[l] : r \in {q \in AllMade : l \in DOMAIN The(q).resource}} :
              CopiesOf(v, merged.byLabel[l]) =
                 NumWhere(LAMBDA r : l \in DOMAIN r.resource /\ r.resource[l] = v)

(***************************************************************************)
(* "Needle counts are reported at shutdown for verification"               *)
(* (docs/log-tuning-guide.md): whatever the goroutines are doing, a        *)
(* needle's counter is the number of records that carry its name, finished *)
(* or in the making.                                                       *)
(***************************************************************************)
Carries(attrs, n) == "needle.name" \in DOMAIN attrs /\ attrs["needle.name"] = n
NeedleCountsExact ==
    \A n \in NeedleNames :
        needleOccurrences[n] =
            NumWhere(LAMBDA r : Carries(r.attrs, n))
            + Cardinality({g \in Goroutines :
                              pc[g] = "needles" /\ Carries(lr[g].attrs, n)})

(***************************************************************************)
(* A record has no attribute that is not its own: none that a record made  *)
(* in the same buffer left behind, and none of a needle that did not       *)
(* replace it.                                                             *)
(***************************************************************************)
TemplateKeys(t) ==
    LET tmpl == Profile.messages[t] IN
    DOMAIN tmpl.fromArg
    \cup {tmpl.attrs[i].key : i \in DOMAIN tmpl.attrs}
    \cup {tmpl.rare[i].key : i \in DOMAIN tmpl.rare}
    \cup UNION {DOMAIN slot : slot \in Profile.longTail}

NeedleKeys(i) == IF i = 0 THEN {} ELSE {"needle.name"} \cup DOMAIN Needles[i].attrs

OwnAttributesOnly ==
    \A r \in AllMade :
        DOMAIN The(r).attrs \subseteq TemplateKeys(The(r).source) \cup NeedleKeys(The(r).needle)

(***************************************************************************)
(* "The generator is always invoked (to keep the rng stream deterministic)"*)
(* (loggen.go): how far a record advances its goroutine's random stream    *)
(* depends on its template only, not on which optional attributes, rare    *)
(* attributes or needles it came out with, so that the records after it    *)
(* are the same whichever probabilities are configured.                    *)
(***************************************************************************)
DrawsByTemplate ==
    \A q, r \in AllMade :
        The(q).source = The(r).source => The(q).draws = The(r).draws

(***************************************************************************)
(* A shard that tracks cardinality remembers the values of a field that    *)
(* its goroutine's records had, all of them up to the cap and never more;  *)
(* a shard that does not track remembers none.                             *)
(***************************************************************************)
ValuesOf(g, k) ==
    {batch[g][i].attrs[k] : i \in {j \in DOMAIN batch[g] : k \in DOMAIN batch[g][j].attrs}}
    \cup
    {batch[g][i].resource[k] :
        i \in {j \in DOMAIN batch[g] : k \in DOMAIN batch[g][j].resource}}

FieldCardinalityExact ==
    \A g \in Goroutines :
        IF g \in Tracking
        THEN \A k \in UNION {DOMAIN batch[g][i].attrs \cup DOMAIN batch[g][i].resource :
                                i \in DOMAIN batch[g]} :
                /\ Seen(stats[g], k) \subseteq ValuesOf(g, k)
                /\ Cardinality(Seen(stats[g], k)) =
                      IF Cardinality(ValuesOf(g, k)) < MaxFieldCardinality
                      THEN Cardinality(ValuesOf(g, k))
                      ELSE MaxFieldCardinality
        ELSE stats[g].cardinality = [k \in {} |-> {}]

(***************************************************************************)
(* Jitter never moves a record to the next interval ("capped by the        *)
(* interval", README.md).                                                  *)
(***************************************************************************)
WithinInterval ==
    \A r \in AllMade : The(r).time \in CurrentTime..CurrentTime + Interval - 1
=============================================================================
