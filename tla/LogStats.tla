------------------------------ MODULE LogStats ------------------------------
(***************************************************************************)
(* Statistics of generated logs                                            *)
(* (src/logsgenreceiver/internal/logstats/logstats.go): counters by        *)
(* severity and by three resource labels, and the values seen of each      *)
(* attribute, up to a cap.  The counters are bags.                         *)
(***************************************************************************)
EXTENDS Naturals, Bags, FiniteSets, Functions

CONSTANT MaxFieldCardinality  \* values remembered of an attribute

ASSUME MaxFieldCardinalityAssumption == MaxFieldCardinality \in Nat \ {0}

Labels == {"service.name", "k8s.node.name", "k8s.namespace.name"}

NewLogStats(track) ==
    [total |-> 0,
     bySeverity |-> EmptyBag,
     byLabel |-> [l \in Labels |-> EmptyBag],
     cardinality |-> [k \in {} |-> {}],
     cappedFields |-> {},
     trackCardinality |-> track]

(***************************************************************************)
(* addCardinality for every attribute of a map: their keys are distinct,   *)
(* so the order does not matter.  A field that is full is not added to.    *)
(***************************************************************************)
Seen(stats, key) ==
    IF key \in DOMAIN stats.cardinality THEN stats.cardinality[key] ELSE {}

FullOffByOne(stats, key) ==  \* bug: > where the code has >=
    Cardinality(Seen(stats, key)) > MaxFieldCardinality
Full(stats, key) ==
    \/ key \in stats.cappedFields
    \/ Cardinality(Seen(stats, key)) >= MaxFieldCardinality

AddCardinality(stats, attrs) ==
    [stats EXCEPT
        !.cardinality =
            [k \in DOMAIN @ \cup DOMAIN attrs |->
                IF k \in DOMAIN attrs /\ ~Full(stats, k)
                THEN Seen(stats, k) \cup {attrs[k]}
                ELSE Seen(stats, k)],
        !.cappedFields = @ \cup {k \in DOMAIN attrs : Full(stats, k)}]

Record(stats, severityText, resource, attrs) ==
    LET counted ==
            [stats EXCEPT
                !.total = @ + 1,
                !.bySeverity = @ (+) SetToBag({severityText}),
                !.byLabel = [l \in Labels |->
                    IF l \in DOMAIN resource
                    THEN @[l] (+) SetToBag({resource[l]})
                    ELSE @[l]]]
    IN  IF stats.trackCardinality
        THEN AddCardinality(AddCardinality(counted, resource), attrs)
        ELSE counted

(***************************************************************************)
(* ShardedLogStats.Merge, over a function from shards to statistics.       *)
(***************************************************************************)
Merge(shards) ==
    LET fields == UNION {DOMAIN shards[i].cardinality : i \in DOMAIN shards}
    IN  [NewLogStats(TRUE) EXCEPT
            !.total = SumFunction([i \in DOMAIN shards |-> shards[i].total]),
            !.bySeverity = FoldFunction(LAMBDA s, b : s.bySeverity (+) b,
                                        EmptyBag, shards),
            !.byLabel = [l \in Labels |->
                FoldFunction(LAMBDA s, b : s.byLabel[l] (+) b, EmptyBag, shards)],
            !.cardinality = [k \in fields |->
                UNION {Seen(shards[i], k) : i \in DOMAIN shards}]]
=============================================================================
