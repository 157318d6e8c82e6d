------------------------------- MODULE LogGen -------------------------------
(***************************************************************************)
(* What a log record is made of (src/logsgenreceiver/internal/loggen): the *)
(* severity drawn from the weights, the message template drawn among those *)
(* of that severity, and the attributes its generators fill in.            *)
(*                                                                         *)
(* A generator is the set of values it may return; Nil is the value of an  *)
(* optional attribute whose roll failed.  A call of a generator or a roll  *)
(* for a probability counts as one draw from the goroutine's random        *)
(* stream.  A profile is                                                   *)
(*   [weights  : cumulative percentages of the six severities,             *)
(*    messages : a sequence of templates,                                  *)
(*    routes   : the route template behind each URL a generator returns,   *)
(*    longTail : the attributes each slot of the long-tail schedule emits, *)
(*               {} without a long tail,                                   *)
(*    trace    : whether its application emits trace contexts]             *)
(* and a template is                                                       *)
(*   [severity, args : a sequence of generators,                           *)
(*    fromArg : attribute key -> index of an argument,                     *)
(*    attrs, rare : sequences of [key, values]].                           *)
(***************************************************************************)
EXTENDS Naturals, SequencesExt

CONSTANT Nil  \* no value

Severities == <<"TRACE", "DEBUG", "INFO", "WARN", "ERROR", "FATAL">>
SeverityTexts == {Severities[i] : i \in DOMAIN Severities}

(***************************************************************************)
(* ParseSeverity: a configured severity is its letters, whatever their     *)
(* case, and whether there are spaces around them.  The letters are        *)
(* upper-cased but the spaces are not trimmed.                             *)
(***************************************************************************)
ParseSeverityAsWritten(sev) == sev.letters  \* bug: no default
ParseSeverity(sev) ==
    IF sev.letters \in SeverityTexts /\ ~sev.spaces THEN sev.letters ELSE "ERROR"

(***************************************************************************)
(* pickSeverityFromWeights, for a roll n below 100.                        *)
(***************************************************************************)
PickSeverityInclusive(weights, n) ==  \* bug: n <= weight
    LET above == {i \in 1..6 : n <= weights[i]}
    IN  IF above = {} THEN "INFO" ELSE Severities[Min(above)]

PickSeverity(weights, n) ==
    LET above == {i \in 1..6 : n < weights[i]}
    IN  IF above = {} THEN "INFO" ELSE Severities[Min(above)]

(***************************************************************************)
(* The templates a record of severity sev may come from.  A profile that   *)
(* has none for it falls back to its INFO templates, then to its first.    *)
(***************************************************************************)
Bucket(profile, sev) ==
    {t \in DOMAIN profile.messages : profile.messages[t].severity = sev}

TemplatesFor(profile, sev) ==
    CASE Bucket(profile, sev) # {} -> Bucket(profile, sev)
      [] Bucket(profile, sev) = {} /\ Bucket(profile, "INFO") # {} ->
            Bucket(profile, "INFO")
      [] OTHER -> {1} \cap DOMAIN profile.messages
-----------------------------------------------------------------------------
(***************************************************************************)
(* Attributes are a function on keys.  An outcome is the attributes so far *)
(* and the draws it took; each step maps a set of outcomes to the next.    *)
(***************************************************************************)
NoAttrs == [k \in {} |-> Nil]
PutAll(attrs, more) ==
    [k \in DOMAIN attrs \cup DOMAIN more |-> IF k \in DOMAIN more THEN more[k] ELSE attrs[k]]
Put(attrs, key, value) == PutAll(attrs, [k \in {key} |-> value])

ArgValues(tmpl) ==
    FoldLeft(LAMBDA made, gen : {Append(args, v) : args \in made, v \in gen},
             {<<>>}, tmpl.args)

(***************************************************************************)
(* An attribute taken from an argument that is a URL holds the URL's route *)
(* template instead.                                                       *)
(***************************************************************************)
ArgAttrWhole(profile, v) == v  \* bug: the URL with its random id
ArgAttr(profile, v) ==
    IF v \in DOMAIN profile.routes THEN profile.routes[v] ELSE v

FromArgs(profile, tmpl, attrs, args) ==
    PutAll(attrs,
           [k \in {k \in DOMAIN tmpl.fromArg : tmpl.fromArg[k] \in DOMAIN args} |->
               ArgAttr(profile, args[tmpl.fromArg[k]])])

(***************************************************************************)
(* A key that is set already is skipped, and its generator is not called.  *)
(***************************************************************************)
WithAttrKeepingNil(outcomes, ag) ==  \* bug: no test for nil
    UNION {IF ag.key \in DOMAIN o.attrs
           THEN {o}
           ELSE {[attrs |-> Put(o.attrs, ag.key, v), draws |-> o.draws + 1] :
                    v \in ag.values} : o \in outcomes}

WithAttr(outcomes, ag) ==
    UNION {IF ag.key \in DOMAIN o.attrs
           THEN {o}
           ELSE {[attrs |-> IF v = Nil THEN o.attrs ELSE Put(o.attrs, ag.key, v),
                  draws |-> o.draws + 1] : v \in ag.values} : o \in outcomes}

(***************************************************************************)
(* A rare attribute: the generator is called and the roll made in any      *)
(* case; when it succeeds, the value replaces what was there.              *)
(***************************************************************************)
WithRareSavingDraws(outcomes, ra) ==  \* bug: no generator call on a miss
    UNION {{[o EXCEPT !.draws = @ + 1]} \cup
           {[attrs |-> Put(o.attrs, ra.key, v), draws |-> o.draws + 2] :
               v \in ra.values} : o \in outcomes}

WithRare(outcomes, ra) ==
    UNION {{[o EXCEPT !.draws = @ + 2]} \cup
           {[attrs |-> Put(o.attrs, ra.key, v), draws |-> o.draws + 2] :
               v \in ra.values} : o \in outcomes}

(***************************************************************************)
(* EmitLongTail: one draw picks a slot of the schedule.                    *)
(***************************************************************************)
EmitLongTail(longTail, outcomes) ==
    IF longTail = {}
    THEN outcomes
    ELSE {[attrs |-> PutAll(o.attrs, slot), draws |-> o.draws + 1] :
             slot \in longTail, o \in outcomes}

(***************************************************************************)
(* GenerateFromPreparedInto, from the template on: what may be in the      *)
(* reusable map attrsOut afterwards.  The map is cleared first.            *)
(***************************************************************************)
ClearedNot(attrsOut) == attrsOut  \* bug: attributes of the last record stay
Cleared(attrsOut) == NoAttrs

Generated(profile, t, attrsOut) ==
    LET tmpl == profile.messages[t]
        start == {[attrs |-> FromArgs(profile, tmpl, Cleared(attrsOut), args),
                   draws |-> Len(tmpl.args)] : args \in ArgValues(tmpl)}
    IN  EmitLongTail(profile.longTail,
            FoldLeft(WithRare, FoldLeft(WithAttr, start, tmpl.attrs), tmpl.rare))
=============================================================================
