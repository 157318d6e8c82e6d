---------------------------- MODULE AppProfiles ----------------------------
(***************************************************************************)
(* The records that the application profiles make                          *)
(* (src/logsgenreceiver/internal/loggen: the profiles, profiles.go and     *)
(* GenerateFromPreparedInto with sprintfSimple): a profile is built with   *)
(* its pool of client addresses, and one goroutine then makes one record   *)
(* after the other in the buffers it reuses.                               *)
(*                                                                         *)
(* A value is <<i, kind>>: what the generator of the template's argument i *)
(* made, or <<0, "own">>: what the generator of an attribute made.  The    *)
(* steps of LogGen treat each attribute key on its own, so a behaviour     *)
(* watches one key and the templates are cut down to it.                   *)
(***************************************************************************)
EXTENDS Integers, Sequences, LogGen, AppTemplates, IPPool

CONSTANTS
    Apps,            \* application profiles: names in Messages, or "generic"
    ConfiguredCIDRs, \* what ip_pool.cidrs may be
    HostNumbers,     \* values a host number may have, where the range has them
    SeverityWeights, \* the weights in use
    Rolls            \* values rng.Intn(100) may return

(***************************************************************************)
(* What To4 takes of the networks net.ParseCIDR reads has 32 bits, or 128  *)
(* of which the first 96 are fixed.                                        *)
(***************************************************************************)
ASSUME NetworksAssumption ==
    \A cs \in ConfiguredCIDRs : \A i \in DOMAIN cs :
        cs[i].family = 4 => cs[i].address \in Nat /\ cs[i].prefix \in 0..32 \cup 96..128
ASSUME HostNumbersAssumption == HostNumbers \subseteq Nat
ASSUME AppsAssumption == Apps \subseteq {"nginx", "mysql", "redis", "goapp", "proxy", "generic"}

VARIABLES
    app,        \* the profile
    cidrs,      \* ip_pool.cidrs
    watch,      \* the attribute key that is watched
    address,    \* an address its generators may return, Nil without a pool
    phase,      \* "configured", "ready", "template", "formatted" or "emitted"
    severity,   \* the severity drawn for the record
    tmpl,       \* the index of its template
    body,       \* the values in its body, in order
    attrsOut    \* the reusable map of attributes

vars == <<app, cidrs, watch, address, phase, severity, tmpl, body, attrsOut>>
-----------------------------------------------------------------------------
(***************************************************************************)
(* The profiles, in the form LogGen takes.                                 *)
(***************************************************************************)
Messages(a) ==
    CASE a = "nginx" -> NginxMessages
      [] a = "mysql" -> MySQLMessages
      [] a = "redis" -> RedisMessages
      [] a = "goapp" -> GoAppMessages
      [] a = "proxy" -> ProxyMessages
      [] a = "generic" -> GenericMessages

Own == <<0, "own">>
CrossCutting(a) == IF a = "generic" THEN <<>> ELSE ErrorMessageAttrs
LongTail(a) == IF a = "generic" THEN {} ELSE LongTailKeys

Template(a, msg) ==
    [severity |-> msg.severity,
     args     |-> [i \in DOMAIN msg.args |-> {<<i, msg.args[i]>>}],
     fromArg  |-> [k \in DOMAIN msg.fromArg |-> msg.fromArg[k] + 1],
     attrs    |-> [i \in DOMAIN msg.attrs |-> [key |-> msg.attrs[i], values |-> {Own}]] \o
                  [i \in DOMAIN CrossCutting(a) |->
                      [key |-> CrossCutting(a)[i], values |-> {Own, Nil}]],
     rare     |-> [i \in DOMAIN msg.rare |-> [key |-> msg.rare[i], values |-> {Own}]]]

(***************************************************************************)
(* RouteWithRandomID makes a path and remembers the route it came from.    *)
(***************************************************************************)
RouteOf(v) == <<v[1], "route template">>
MaxArgs == 16

(***************************************************************************)
(* nil is none of the values, in Go by its type.                           *)
(***************************************************************************)
ASSUME NilAssumption ==
    Nil \notin (0..MaxArgs) \X (ArgKinds \cup {"own", "route template"})

AppProfile(a) ==
    [messages |-> [t \in DOMAIN Messages(a) |-> Template(a, Messages(a)[t])],
     routes   |-> [v \in (1..MaxArgs) \X {"route"} |-> RouteOf(v)],
     longTail |-> IF LongTail(a) = {} THEN {}
                  ELSE {NoAttrs} \cup {Put(NoAttrs, k, Own) : k \in LongTail(a)},
     weights  |-> SeverityWeights,
     trace    |-> a \in {"goapp", "proxy"}]

Profiles == [a \in Apps |-> AppProfile(a)]
Profile == Profiles[app]

KeysOf(tm) ==
    DOMAIN tm.fromArg \cup {tm.attrs[i].key : i \in DOMAIN tm.attrs}
                      \cup {tm.rare[i].key : i \in DOMAIN tm.rare}

WatchedKeys ==
    [a \in Apps |->
        UNION {KeysOf(Profiles[a].messages[t]) : t \in DOMAIN Profiles[a].messages}
        \cup {"thread.id"}]

Only(key, generators) ==
    FoldLeft(LAMBDA kept, g : IF g.key = key THEN Append(kept, g) ELSE kept, <<>>, generators)

(***************************************************************************)
(* The profile with nothing but key in template t and in the long tail.    *)
(***************************************************************************)
CutTo(profile, t, key) ==
    LET tm == profile.messages[t]
        kept == [tm EXCEPT
            !.fromArg = [k \in DOMAIN tm.fromArg \cap {key} |-> tm.fromArg[k]],
            !.attrs = Only(key, @), !.rare = Only(key, @)]
    IN  [profile EXCEPT
            !.messages[t] = kept,
            !.longTail = {slot \in @ : DOMAIN slot \subseteq {key}}]
-----------------------------------------------------------------------------
TypeOK ==
    /\ app \in Apps /\ cidrs \in ConfiguredCIDRs
    /\ address \in Nat \cup {Nil}
    /\ phase \in {"configured", "ready", "template", "formatted", "emitted"}
    /\ severity \in SeverityTexts
    /\ tmpl \in {0} \cup DOMAIN Messages(app)
    /\ phase \in {"template", "formatted", "emitted"} => tmpl > 0
    /\ DOMAIN attrsOut \subseteq {watch}
    /\ \A k \in DOMAIN attrsOut : attrsOut[k] # Nil

Init ==
    /\ app \in Apps
    /\ cidrs \in ConfiguredCIDRs
    /\ watch \in WatchedKeys[app]
    /\ address = Nil
    /\ phase = "configured"
    /\ severity = "INFO"
    /\ tmpl = 0
    /\ body = <<>>
    /\ attrsOut = NoAttrs

(***************************************************************************)
(* GetAppProfile with a pool of addresses: a range is drawn for each, and  *)
(* a host number from 1 on; the Zipf selection returns one of them.  There *)
(* is no pool with a range without hosts: the constructor panics           *)
(* (ReceiverConfig).                                                       *)
(***************************************************************************)
HasPool == app \in {"nginx", "mysql", "redis", "proxy"}

BuildPool ==
    /\ phase = "configured" /\ HasPool
    /\ \E range \in Ranges(PoolCIDRs(app, cidrs)) : \E host \in HostNumbers :
          host \in 1..range.hostMax /\ address' = Address(range, host)
    /\ phase' = "ready"
    /\ UNCHANGED <<app, cidrs, watch, severity, tmpl, body, attrsOut>>

BuildWithoutPool ==
    /\ phase = "configured" /\ ~HasPool
    /\ phase' = "ready"
    /\ UNCHANGED <<app, cidrs, watch, address, severity, tmpl, body, attrsOut>>

(***************************************************************************)
(* GenerateFromPreparedInto: a severity and one of its templates ...       *)
(***************************************************************************)
PickTemplate ==
    /\ phase \in {"ready", "emitted"}
    /\ \E n \in Rolls :
          LET sev == PickSeverity(Profile.weights, n)
          IN  /\ severity' = sev
              /\ tmpl' \in TemplatesFor(Profile, sev)
    /\ phase' = "template"
    /\ UNCHANGED <<app, cidrs, watch, address, body, attrsOut>>

(***************************************************************************)
(* ... the body: each placeholder takes the next argument, and there is no *)
(* check that there is one ...                                             *)
(***************************************************************************)
IndexOutOfRange == <<0, "index out of range">>
SprintfSimple(format, args) ==
    [j \in DOMAIN format |->
        IF j \in DOMAIN args THEN <<j, args[j]>> ELSE IndexOutOfRange]

FormatBody ==
    /\ phase = "template"
    /\ body' = SprintfSimple(Messages(app)[tmpl].format, Messages(app)[tmpl].args)
    /\ phase' = "formatted"
    /\ UNCHANGED <<app, cidrs, watch, address, severity, tmpl, attrsOut>>

(***************************************************************************)
(* ... and the attributes.                                                 *)
(***************************************************************************)
FillAttributes ==
    /\ phase = "formatted"
    /\ \E o \in Generated(CutTo(Profile, tmpl, watch), tmpl, attrsOut) : attrsOut' = o.attrs
    /\ phase' = "emitted"
    /\ UNCHANGED <<app, cidrs, watch, address, severity, tmpl, body>>

Next == BuildPool \/ BuildWithoutPool \/ PickTemplate \/ FormatBody \/ FillAttributes

Spec == Init /\ [][Next]_vars
-----------------------------------------------------------------------------
Emitted == phase = "emitted"

(***************************************************************************)
(* What the attributes with a counterpart in the body are about.           *)
(***************************************************************************)
Kinds(key) ==
    CASE key = "net.peer.ip"                -> {"ip"}
      [] key = "net.peer.port"              -> {"port"}
      [] key = "http.url"                   -> {"url", "route"}
      [] key = "http.status_code"           -> {"status"}
      [] key = "http.response.body.size"    -> {"bytes"}
      [] key = "user_agent.original"        -> {"agent"}
      [] key = "db.name"                    -> {"db"}
      [] key = "db.sql.table"               -> {"table"}
      [] key = "db.user"                    -> {"user"}
      [] key = "rpc.service"                -> {"service"}
      [] key = "rpc.method"                 -> {"method"}
      [] key = "messaging.destination.name" -> {"queue"}
      [] OTHER                              -> {}

(***************************************************************************)
(* What of the body the watched attribute should hold: the value itself,   *)
(* but the route of a path that has one.                                   *)
(***************************************************************************)
Printed ==
    {IF v[2] = "route" THEN RouteOf(v) ELSE v : v \in {v \in ToSet(body) : v[2] \in Kinds(watch)}}

(***************************************************************************)
(* Templates whose attribute is generated anew instead of being taken from *)
(* the body (mysql's db.user and redis's net.peer.port), and mysql's slow  *)
(* query, whose indices are off by one.                                    *)
(***************************************************************************)
SlowQuery == app = "mysql" /\ tmpl = 11
GeneratedAnew ==
    \/ app = "mysql" /\ tmpl \in {4, 9} /\ watch = "db.user"
    \/ app = "redis" /\ tmpl \in {8, 9} /\ watch = "net.peer.port"

(***************************************************************************)
(* The attributes of a record agree with its body ("reuse same value for   *)
(* consistency", loggen.go): an attribute whose key names something the    *)
(* body prints holds what the body prints, a route instead of a path with  *)
(* a random id, no later generator or long-tail field replaces it, and     *)
(* none that is taken from an argument is missing.  The templates named    *)
(* above are excepted.                                                     *)
(***************************************************************************)
AttributesAgree ==
    Emitted /\ ~SlowQuery /\ ~GeneratedAnew =>
        /\ watch \in DOMAIN attrsOut /\ Printed # {} => attrsOut[watch] \in Printed
        /\ watch \in DOMAIN Messages(app)[tmpl].fromArg => watch \in DOMAIN attrsOut

(***************************************************************************)
(* "attr key -> index into Args": an attribute taken from an argument is   *)
(* taken from the one its key names, in every template.                    *)
(***************************************************************************)
ArgAttributesAgree ==
    Emitted /\ watch \in DOMAIN Messages(app)[tmpl].fromArg =>
        watch \in DOMAIN attrsOut /\ attrsOut[watch] \in Printed

(***************************************************************************)
(* The placeholders of every body take all arguments of the template and   *)
(* no more -- one more is an index out of range in the middle of an        *)
(* interval -- and a number where they print one.  The exception is        *)
(* goapp's query in debug logs, where %%s is no placeholder.               *)
(***************************************************************************)
Numbers == {"int", "status", "bytes", "port"}
ShiftedByEscape == app = "goapp" /\ tmpl = 8
PlaceholdersFit ==
    phase \in {"formatted", "emitted"} =>
        /\ IndexOutOfRange \notin ToSet(body)
        /\ ~ShiftedByEscape =>
              /\ Len(body) = Len(Messages(app)[tmpl].args)
              /\ \A j \in DOMAIN body :
                    Messages(app)[tmpl].format[j] \in {D, X} => body[j][2] \in Numbers

(***************************************************************************)
(* A key has one provider per template: no generator is skipped because    *)
(* its key is set already, and no rare or long-tail field silently takes   *)
(* the place of an attribute of the template.                              *)
(***************************************************************************)
Providers ==
    LET tm == CutTo(Profile, tmpl, watch).messages[tmpl]
    IN  [fromArg |-> IF DOMAIN tm.fromArg = {} THEN 0 ELSE 1, attrs |-> Len(tm.attrs),
         rare |-> Len(tm.rare), longTail |-> IF watch \in LongTail(app) THEN 1 ELSE 0]
KeySetOnce ==
    Emitted => Providers.fromArg + Providers.attrs + Providers.rare + Providers.longTail <= 1

(***************************************************************************)
(* Client addresses lie in a configured IPv4 network, in the networks of   *)
(* the profile if none is configured, in 10.0.0.0/8 if only others are;    *)
(* and none is the address of the network itself.                          *)
(***************************************************************************)
InNetwork(a, cidr) ==
    /\ a \div 2^HostBits(cidr) = cidr.address \div 2^HostBits(cidr)
    /\ a % 2^HostBits(cidr) # 0
AddressesConfigured ==
    address # Nil =>
        IF \E i \in DOMAIN cidrs : cidrs[i].family = 4
        THEN \E i \in DOMAIN cidrs : cidrs[i].family = 4 /\ InNetwork(address, cidrs[i])
        ELSE \/ InNetwork(address, NetworkTen)
             \/ cidrs = <<>> /\ app = "proxy" /\ InNetwork(address, SharedAddressSpace)

(***************************************************************************)
(* A record has the severity that was drawn: every profile has templates   *)
(* for each severity its weights may give a share, except for TRACE, and   *)
(* the generic one, which only has INFO.                                   *)
(***************************************************************************)
SeverityServed ==
    Emitted /\ severity # "TRACE" /\ app # "generic" =>
        Messages(app)[tmpl].severity = severity
=============================================================================
