# Verification of logsgenreceiver

TLA+ models, TLC runs and TLAPS proofs for `src/logsgenreceiver`, an
OpenTelemetry collector receiver that replays a window of time as synthetic
logs. File names below are relative to `src/logsgenreceiver` unless they begin
with `docs/` or say otherwise.

## The system

| Component | State it keeps | Operations | Talks to |
|---|---|---|---|
| Receiver life cycle (`receiver.go`) | `cancel` and `done` under a mutex, progress counter, shards | constructor, `Start`, `Shutdown`, the generator goroutine | the host (context, status), the consumer |
| Interval production (`produceLogs`) | `totalLogs`, next free shard, `baseRand`, one volume state per scenario | once per interval: every scenario, in the generator or in worker goroutines | the consumer (`ConsumeLogs`), statistics shards |
| Record production (`appendInstanceLogs`, `internal/loggen/loggen.go`) | a reusable attribute map per goroutine, needle counters shared by all | generate, overlay a needle, record in a shard, trace ids | shards, needle counters |
| Statistics (`internal/logstats`) | counters and field cardinality per shard | `Record`, `Merge`, `Summary` | read by `Shutdown` |
| Volume shaping (`receiver.go` 57-144) | remaining run of a burst or a quiet spell | diurnal curve with cron bursts, burst/quiet draw, instance skew | `produceLogs` |
| Configuration (`config.go`, `builtin_profiles.go`) | built-in profiles, loaded once and shared by all receivers | validate, choose scenarios, apply defaults | constructor |
| Log content (`internal/loggen`: application profiles, address pools, long tail, large texts) | read-only tables built with the seed | argument generators | record production |
| Resource templates (`internal/logstmpl`) | none | render one resource per instance | constructor |

What is hard here: worker goroutines of one interval overlap each other and the
generator that spawned them; statistics are kept without a lock on the promise
that a shard has one writer, although two separate loops compute the shard
indices; a stop may come at any moment and `Shutdown` reads everything without
synchronising with anyone but the generator; and a record is counted after
several steps have rewritten it in buffers that are reused.

## What makes each part correct

| Part | Properties |
|---|---|
| Life cycle and interval production | a shard has one writer at a time; the summary counts exactly what was sent; no goroutine outlives `Shutdown`; `Shutdown` returns; `exit_after_end` is reported; every instance is sent once per interval, intervals whole and in order; the reported count equals the statistics; cardinality is tracked once per scenario |
| Record production and statistics | the merged statistics and the needle counters describe the records as delivered; buffers do not leak attributes; probabilities do not shift the random stream; a field's values are remembered exactly up to the cap; jitter stays inside the interval |
| Volume shaping | no instance falls silent; the skew redistributes up to rounding; spells last as configured; the curve peaks, falls and rises where it is told to; cron bursts fire for their duration in every period |
| Log content | a record's attributes agree with its body and have one provider each; placeholders find their arguments; addresses come from the configured networks; every severity has templates |
| Resource templates | the ranges of a template count, no goroutine is left behind, and the constructor comes to an end |
| Large texts | JSON texts have their commas where they belong; a text reaches its target length unless its frames run out; none outgrows its buffer |
| Configuration | what passes `Validate` does not panic and meets the assumptions of the other parts; receivers that share a built-in profile do not disturb each other |

## Modules

**LogStream** is the abstract specification: what the collector may observe of
the receiver. A phase, a stop request, the interval in progress, and the
instances delivered in it. It knows nothing of goroutines, shards or batches.

**LogsGenReceiver** is the receiver: `newLogsGenReceiver`'s shard layout, `Start`
and its goroutine, `produceLogs`, its workers, `Shutdown`.

| Code | Model |
|---|---|
| `r.done`, `r.cancel` and the context | `doneClosed`, `ctxCancelled`, `life` |
| program counter of the generator | `gen` (`"loop"`, `"scenario"`, `"append"`, `"write"`, `"consume"`, `"spawn"`, `"tick"`, `"sleep"`, `"report"`, `"closing"`, ...) |
| `currentTime`, loop index, `concurrentShardBase` | the same names, `idx` |
| local `totalLogs` of `produceLogs` | `totalLogs`; `+=` is `ReadTotal` then `WriteTotal`, `atomic.AddUint64` is `WorkerCount` |
| the worker closures | `worker[w]`, `workerShard[w]`, `workerNext[w]`, `workerBatch[w]` with `w` = (scenario, `wi`) |
| `LogStats` shards | `shards[k]`, the `TotalLogs` of shard `k` |
| `wg.Wait` | guard of `AwaitWorkers` |
| `ticker.C` | `tick`, at most one |

`sunk` and `delivered` are history variables: what was consumed. One instance of
one scenario is one step; AppendInstanceLogs opens that step. A plain read or
write of a variable two goroutines share is a step of its own; a sequence on
private state, or under the mutex, is one step.

**AppendInstanceLogs** is that step record by record, for goroutines that run at
the same time. Each has its attribute buffer, the record it makes, the needle it
is at and its shard; the needle counters are shared. It EXTENDS **LogGen** (severity,
templates, attributes, random draws) and **LogStats** (`Record`, `addCardinality`,
`Merge`), which are operators without state. A call of a generator or a roll for a
probability is one draw, however many numbers the generator itself takes from
the stream; bodies are left out. Every application profile has templates, so the
"no messages configured" record is not reachable and not modelled.

**VolumeShape** is the number of records per instance and interval of one scenario.
Multipliers are hundredths; truncation and rounding are the code's. The cosine is
a constant table of which the model uses only that it falls from one to zero.
`run` is a history variable: which spell is on and for how long.

**ReceiverConfig** is `Validate`, the built-in profiles that are loaded once, the
constructor's defaults, and whether the constructor can create the scenarios.
The configuration is a record per receiver; the profiles are one variable that all
receivers share, as in the code.

**TracePools** builds one of the large texts of a profile: stack trace, crash report,
JSON body or large error message. Only its length in bytes is modelled, with the
number of units and commas written. The table gives for each text the ranges that
the word lists and number formats of the code allow: `GoStackTrace` has a head of 23 to
25 bytes (`"goroutine "`, 1 to 100, `" [running]:\n"`), frames of 44 to 119, 8 to 87 of
them. A wrapped error calls `buildGoStackTrace` with the rest of its target, which
amounts to a trace with a longer head.

**AppTemplates** holds the templates of the profiles, all 104 of them and the generic one, as the
code's tables do: which placeholders a format has, what each argument is (an address, a URL, a status,
...), which attributes come from arguments, from generators of their own, or rarely.
The operators above the tables are what the templates of a profile share.

**IPPool** is what a pool of client addresses draws from; ReceiverConfig uses it for
whether the constructor can draw at all. The family of a network is what `To4` makes of it
(`loggen.go:425`): IPv4 written as IPv6, as `::ffff:10.0.0.0/104`, counts as IPv4, and since
only the first four bytes of its mask are read it has no hosts.

**AppProfiles** makes records from them with the steps of LogGen: the constructor
builds a profile and its pool, and a goroutine makes record after record. A value
is `<<i, kind>>`, made by the generator of argument `i`, or `<<0, "own">>`, made for an
attribute, so that it can be traced from the argument to the body and to the attributes.
A step of LogGen looks at one attribute key at a time and no key depends on another,
so a behaviour watches one key (`watch`, any of the profile) and `CutTo` leaves the
others out; the set of behaviours covers all keys without their combinations. Its
assumptions name the profiles there are, say that the configured networks have 32 bits,
or 128 when they are IPv4 written as IPv6, and that nil is no value.

**ResourceTemplates** is `GetLogResources`: for each instance it searches for the file, and
the template engine executes the file's nodes. A range over `loop` starts a
goroutine with an unbuffered channel: sending and receiving a number is one step of
both (`Receive`), closing is a step of the goroutine (`Close`), and the engine waits at the
end of the range. The engine is `text/template`, modelled from what a range over a channel
does. `WellNested` is what its parser guarantees of a template, and `FilesAssumption` that every
template has passed it; what a template writes is a recursive function of the node and of
the number a range is at.

How they compose: LogsGenReceiver implements LogStream (`StreamSpec`). What
LogsGenReceiver assumes of its constants is what the others establish: an
instance that generates logs has at least one record (`VolumesAssumption`;
VolumeShape's `NoInstanceSilent`), and the instances divide among the workers
(`ScenariosAssumption`; ReceiverConfig's `InstancesCovered`). VolumeShape's
`DiurnalAssumption` rests on ReceiverConfig's `CurveDefined`. These three are proved.

The modules named `...Proofs` hold the theorems about the module they are named
after, LogsGenReceiverProofs also those about how LogsGenReceiver implements LogStream.
**FoldLemmas** has what sums, largest elements and other folds over a finite set return, and
that recursive functions on an interval exist.

The operators commented `bug:` are plausible mistakes, named in PROJECT.json: each
property is violated when one of them takes the place of the definition after it.

## Runs and bounds

| Run | Shows | Bounds, and why they are enough |
|---|---|---|
| `replay` | `ShardExclusive`, `SummaryComplete`, `NoGoroutineOutlives`, `StreamSpec` | two workers with two instances each, a silent scenario, the generator at work beside workers, a further worker; two intervals, so that the second starts from what the first leaves; stop requests at every step |
| `real_time` | `IInv`, `LogCountExact`, `CardinalityTrackedOnce`, and under fairness `ShutdownReturns`, `ExitReported` | the generator's own scenario, two workers with an instance each, a worker without instances, a silent concurrent scenario; one or two records per instance; ticker on; with and without `exit_after_end_timeout`, so that `Shutdown` is also called during the sleep before the exit |
| `records` | the properties of record production | three instances on two goroutines, two needles, a cap of one value, jitter one below and at the length of the interval, rolls on both sides of each weight |
| `volume` | the properties of volume shaping | 36 simulated hours around 1970-01-01 in half hours, three instances with skews up to 7:1, burst durations 1 to 3, quiet multiplier 0 |
| `configurations` | the properties of configuration | some 360 configurations that leave a plain one in one place each, with values on both sides of every comparison of `Validate`, beside a receiver with a built-in profile; three contents of the profiles file, one of them invalid |
| `large_texts` | the properties of TracePools | of every range of targets and of lengths the two ends, since each property is about the extremes; targets of 2000 to 80000 bytes are cut to 4000, beyond which units only repeat. The proofs have neither bound |
| `app_profiles` | the properties of log content | all templates of all six profiles, every attribute key; weights with a share for every severity and rolls on both sides of each; no network, one given by an address inside it, one beside IPv6 and IPv4 written as IPv6, only IPv6; the first host of every range and the last of the configured ones. The proofs are for all networks, hosts, weights and rolls |
| `resource_templates` | `RangesCount`, and under fairness `ConstructorReturns` | two instances; ranges nested, in turn and empty, with a break or a call that may fail; files missing, malformed, without a resource and undecodable. The numbers of a range are two or three: more only repeat. The proof of `RangesCount` is for all templates, ranges and counts |
| `log_count_race`, `silent_first`, `hostless_range`, `attributes_disagree` | disagreements of the code with itself or its documentation | the smallest instance that shows each |

The order of `real_time`'s scenarios matters. With a sequential scenario after a
concurrent one `LogCountExact` does not hold, and with a silent concurrent one before
one that generates logs `CardinalityTrackedOnce` does not: `log_count_race` and
`silent_first` show that. `replay` has a sequential scenario after a concurrent one; its silent
scenario has no workers and shifts no shard. The properties it checks do not depend on the
order, and `ShardExclusiveCorrect` covers shifted shards.
`real_time` checks the whole inductive invariant of the proofs, because its scenarios
meet the hypotheses of both.
`app_profiles` names the templates it makes an exception for, in `AttributesAgree` and
`PlaceholdersFit`; they are listed under Findings. `large_texts` does not check the
inductive invariants of TracePools again: they are proved.

Deadlock is checked in every run: the models end in explicit stuttering steps, so a
state with nothing to do is one where the code is really done.

### Fairness

`FairSpec` assumes weak fairness of the generator goroutine, of each worker, of the
constructor, of the ticker, and of `Shutdown` once `done` is closed: the Go scheduler
runs every runnable goroutine, tickers tick, `time.Sleep` ends, and `ConsumeLogs`
is assumed to return. Nothing is assumed of the host: it may never start the
receiver, never shut it down, or cancel the context of `Start` on its own.

`FairSpec` of ResourceTemplates assumes weak fairness of the constructor and of each
goroutine of `loop`, again the Go scheduler. A template may break out of a range or not, and
a call may fail or not, without any fairness.

## Proofs

### The receiver

`LogsGenReceiverProofs` proves, for all lists of scenarios, windows and volumes that
satisfy the module's assumptions:

- `TypeCorrect`: the type invariant.
- `ShardExclusiveCorrect`, `SummaryCompleteCorrect`, `NoGoroutineOutlivesCorrect`.
- `StreamCorrect`: the receiver implements LogStream.
- `LogCountExactCorrect`, for scenarios that satisfy `SequentialFirst`, and
  `CardinalityTrackedOnceCorrect`, for those that satisfy `SilentLast`.

None of them but the first is inductive. That no two workers share a shard depends on two
loops agreeing: the constructor counts all concurrent scenarios, `produceLogs` only
those that generate logs. `IInv` adds what connects them: the constructor's ranges
are disjoint and in order (`LayoutInv`); `produceLogs` never gets ahead of them, so
the index never wraps around (`BaseInv`); live workers hold distinct shards below the
next one given out (`OwnerInv`); a shard differs from what was consumed only by its
owner's batch (`CountInv`), which is also why it must have one owner; and the life
cycle (`LifeInv`). `Invariance` is `Spec => []IInv`, one lemma per conjunct, one case
per action; the theorems follow.

The last two theorems have a hypothesis because without it the code violates the
property (`log_count_race`, `silent_first`). `SequentialFirst` says that no sequential
scenario comes after a concurrent one; then the generator never adds to `totalLogs` while a
worker may, and `TotalInv` says that what has been added is, over all shards, what was
consumed and the batches that are about to be. `SilentLast` says that no concurrent
scenario that generates logs comes after one that does not; then `produceLogs` counts the
shards as the constructor laid them out, and `TrackInv` says that a live worker writes to the
shard the constructor gave its index, so that the first worker of each scenario, and no
other, has a shard that tracks cardinality.

The refinement needs `StreamInv` as well: which interval of the window is in progress,
what the generator has delivered of its scenario, and that `delivered` is the
instances of the sequential scenarios already done and the shares of the workers
as far as each has come. An instance is delivered once because the shares of
different workers are disjoint, and an interval is whole because together they
cover the scenario (`SharesDisjoint`, `SharesCover`). These two
are where the division by the number of workers matters, and why the scale must be a
multiple of it. `StreamInit` and `StreamStep` are the mapping.

### Records and statistics

`AppendInstanceLogsProofs` proves every property of `records`, however the goroutines
interleave and for every profile, list of needles and cap within the module's assumptions:

- `AppendTypeCorrect`. What a generated record is made of comes from folds over the
  attributes and long-tail fields of its template; `ShapeInv` says what they leave behind,
  and `TemplateAssumption` what a template has.
- `WithinIntervalCorrect`: whatever the jitter, every record in a buffer or delivered lies
  in its interval. `TimeInv` adds the record that is being made.
- `NeedleCountsExactCorrect`: the shared counter of a needle is the number of records that
  carry its name. `NeedleInv` adds that a record no needle has replaced carries no name, so
  that a hit adds exactly one to both sides. It rests on `NeedleNameAssumption`: no
  template makes the attribute `needle.name` and no needle is configured with one.
- `SummaryDescribesDeliveredCorrect`: the merged counters, in all, by severity and by resource
  label, are those of the records delivered. `SummaryInv` says so of each shard and
  of its goroutine's batch at every moment; merging adds over the shards, and no record is in two
  batches.
- `FieldCardinalityExactCorrect`: a shard that tracks cardinality remembers of each field the
  values of its goroutine's records, up to the cap. `CardinalityInv` says of every field
  that all of its values are remembered until the cap is reached.
- `OwnAttributesOnlyCorrect`: a record has only attributes of its own template and of the needle
  that replaced it, whatever the reused buffer held before. `OwnInv` adds the record in the
  making, and that it carries no needle until one has replaced it.
- `DrawsByTemplateCorrect`: the numbers a record takes from the random stream depend on its
  template alone, so a probability does not shift the stream for the records after it. `DrawsInv`
  counts them from the first roll to the last. The hypothesis `KeysOnce`, that no template
  has two attributes of the same key, is AppProfiles' `KeySetOnce`, which is
  proved of all the built-in profiles: with two, the second would be drawn or skipped depending on
  the first.

### Volume

`VolumeShapeProofs` proves every property of `volume`, for every curve, volume profile, scale
and draw of the skew that pass validation: `VolumeTypeCorrect`, `NoInstanceSilentCorrect`,
`VolumeNearlyPreservedCorrect`, `SpellLastsCorrect`, `DiurnalShapeCorrect`,
`CronBurstsPeriodicCorrect`. The invariants are small (`VolumeInv`, `SpellInv`: what is left of a
spell needs a profile); the work is in the arithmetic of one interval. That the skew
redistributes up to one record per instance is a fact about sums of rounded shares. The shape of the curve is proved from what `WaveAssumption` says of the cosine: on
the arc from peak to trough and on the one back it falls from one to zero.

### Configuration

`ReceiverConfigProofs` proves every property of `configurations`. `CreatedUnchangedCorrect` and
`CurveDefinedCorrect` rest on the defaults being idempotent (`DefaultCurve`, `DefaultsKeep`): a
receiver that is created later writes them into the shared profile once more, and `ConfigInv` says
that the profile of a created receiver has them already. `SameVerdictCorrect` rests on the
defaults keeping valid scenarios valid (`DefaultsValid`); `VerdictInv` says that the verdict on
a receiver with a profile depends on nothing but how the profiles were judged when they were
loaded, and whether the profile exists. `AcceptedInv` says of a receiver that has been
created that its scenarios passed `Validate`, those of a profile included, from which
`InstancesCoveredCorrect` and `SeveritySharesCorrect` follow: each is about what an accepted
scale or list of weights does in a later computation. `NoPanicCorrect` assumes that every
configuration and profile is `Hosted`: its IPv4 ranges have a host and its resource template
renders a resource. A range has no host if it is a /32 or IPv4 written as IPv6. `Validate` looks at
none of this, and `hostless_range` shows the panic; the theorem says that nothing else can panic, and `HostedInv` that the defaults leave it so. `FieldsAssumption` is
what decoding guarantees: a configuration has all its fields.

### Large texts

`TracePoolsProofs` proves `CommasSeparateCorrect`, `WithinReserveCorrect` and
`TargetReachedCorrect` for all targets from 200 bytes on and all lengths in the table.
`TableSound` extracts from the table what matters: every head of an array stays within
the threshold and every head with one unit passes it (289 and 302 around 300), and the
reserve holds the last unit, a comma and the tail. The invariant `IInv` adds that the
buffer is just a head until there is a unit, and that room for the tail is left until
it is written.

### Log content

`AppProfilesProofs` proves every property of `app_profiles`, for all networks, host numbers, weights
and rolls:

- `AddressesConfiguredCorrect`: an address lies in a configured network, also when that is given
  by an address in the middle of it (`AddressInNetwork`), and is not the network's own. Of the
  networks `NetworksAssumption` says that their prefix is one of 32 bits, or from 96 on if they are
  IPv4 written as IPv6, which parsing guarantees.
- `SeverityServedCorrect`, `PlaceholdersFitCorrect`: what `TemplateInv` says of template and body
  from the moment they are made until the next record.
- `KeySetOnceCorrect`: the arguments, the attributes, the rare attributes and the long tail have
  no key in common (`Apart`), and a list that is cut down to a key has one generator at most
  (`OnlyOne`).
- `AttributesAgreeCorrect` and `TypeCorrect`: `AttrsInv` says that the map holds, under the watched
  key, the value of the argument it is taken from, or the value of the only generator that has
  the key, or nothing; whatever it held before, since it is cleared first (`GeneratedIs`).

They rest on `Tables`, which says of each of the 105 templates that it is `Sound`: its
placeholders are no more than its arguments, no key comes twice, an attribute taken from an argument is taken
from one its key names, and the others name nothing the body prints. `Exempt` lists the keys of
which the last two do not hold. A template is built up from parts, and so is the proof that it is
sound (`MatchesJoined`, `PointsJoined`, `SilentJoined`). `AppsAssumption` says which tables there are, `NilAssumption` that nil is no value.

### Resource templates

`ResourceTemplatesProofs` proves `RangesCountCorrect`: a template of any length and nesting that
has been executed has written what it would if its ranges counted, although their
numbers come from goroutines that run beside each other, each at its own time. `RenderInv` says, of a
template that cannot break out of a range, that the open ranges are those around the node
the engine is at (`Nesting`), that the sender of each has sent one number for each pass
begun through it (`Follows`), that what has been written is what the passes begun write,
up to the node (`Engine`), and that a goroutine whose range is no longer open has sent all of its
numbers (`Finished`). What the code gets right here is that a channel belongs to one
range: the inner range of a second pass has a new goroutine, and none is left
behind that could send to it. `WellNested` is used throughout: an end belongs to the
innermost open range because ranges do not overlap.

### Sums and folds

The models write the loops over instances, attributes and records as folds of the community modules,
which are recursive functions over the subsets of a set. `FoldLemmas` proves once that such a function
exists on every finite set and satisfies its equation (`RecursionExists`), by induction over
the subsets (`SubsetInduction`, from the library's theorem that they are well-founded), and from
it what a sum is: it adds an element at a time (`SumAdds`), is zero, bounded or changed as
its terms are (`SumZero`, `SumBound`, `SumUpdate`). `FoldExists` and `FoldTyped` say the same of
folds over a list, which take its elements one by one, and `IntervalRecursion` of functions
defined by what they are at smaller arguments.

### Only model-checked

Liveness (`ShutdownReturns`, `ExitReported`, `ConstructorReturns`), which needs fairness and
`ENABLED`, is out of the prover's reach. Every safety property that a passing run checks
is the subject of a theorem.

## Findings

Shown by a run each:

- `log_count_race`: `totalLogs +=` in the generator races with the workers' atomic adds
  (`receiver.go:380`, `413`); the reported number of logs may be too small.
- `silent_first`: a concurrent scenario with `logs_per_interval` 0 shifts the shards of
  those after it, so cardinality is tracked for the wrong workers (`receiver.go:240`, `354`).
- `hostless_range`: a /32 range, or an IPv4 range written as IPv6 (`::ffff:10.0.0.0/104`), passes
  `Validate` and panics in the constructor (`loggen.go:425`, `431`, `441`).
- `attributes_disagree`: mysql's slow-query template takes `db.name` from the table and
  `db.sql.table` from the column (`mysql.go:138`).

Seen while modelling, without a run:

- `end_time` is documented as exclusive (`README.md:63`); jitter is capped by the interval only
  (`receiver.go:321`), so records of the last interval may be at or after it.
- A needle may be configured with an attribute `needle.name`, which replaces its name in the record
  but not in the counter (`receiver.go:489`, `config.go:179`).
- A needle's severity with spaces is accepted (`config.go:189`) and becomes ERROR (`loggen.go:30`).
- `severity_weights` of zeros are documented to mean the default (`config.go:40`) and rejected
  (`config.go:230`).
- In goapp's query template of debug logs (`goapp.go:118`), `%%s` is a literal, so `%dms` prints the
  argument that was meant for it and the duration is not used.
- mysql's `db.user` in "Aborted connection" and redis's `net.peer.port` are generated again and
  differ from what the body says (`mysql.go:68`, `redis.go:85`).
- No profile has TRACE templates: their share becomes INFO. The generic profile has INFO
  templates only, whatever the weights.
- "61 rare fields" (`longtail.go:95`): there are 62.
- `RareAttrs` are documented as below 1 % (`loggen.go:98`); proxy's reach 31 %.
- The default networks are documented as `10.0.0.0/8` (`config.go:43`); proxy's are also `100.64.0.0/10`
  (`proxy.go:200`).
- A template file that cannot be parsed is passed over for the next extension, one that
  fails when executed is not (`logstmpl.go:48`, `53`).
- A template that breaks out of a range over `loop`, or fails in it, leaves the goroutine waiting
  for ever (`logstmpl.go:29`). `RangesCount` excepts it; no built-in template uses `loop`.
- The order of the window is checked before the defaults are filled in (`config.go:118`,
  `receiver.go:174`): `start_now_minus` below `end_now_minus` is accepted and generates
  nothing; `start_time` without `end_time` is rejected.
- `peak_hour` alone gets trough hour 0, not the documented 4 (`config.go:256`).
- "Total volume is preserved" (`docs/log-tuning-guide.md:159`) holds up to one record per
  instance: `VolumeNearlyPreserved` is what is true.
- Cron bursts follow UTC, the curve the location of the window's times (`receiver.go:71`, `81`).
- A profile with peak below trough multiplier is accepted and turns the curve upside down.
- Same seed, same records per goroutine; the order of the batches depends on the scheduler
  (`docs/log-tuning-guide.md:379` says "identical output").
- `GenerateLogRecord` falls back to the first INFO template, the prepared variant to any.
- "of the given target length" (`traces.go:28`): a trace of 8 short frames has 375 bytes
  whatever its target is, and every text overshoots; `TargetReached` and `WithinReserve`
  are what is true.
- `crosscutting.go` documents presences of 70 % and 25 % where the code has 0.60 and 0.20.

## Not modelled

Word lists and the distributions values are drawn from (Zipf, log-normal, the long tail's
thresholds): they decide how often something appears, not what may. The text of bodies
and resources, the summary's text, obsreport and progress logging, YAML and JSON
decoding, `GenerateLogRecord` (called by tests only), the factory and generated code. None of
them keeps state that the properties relate. Errors of `ConsumeLogs` go to obsreport only
and change nothing in the receiver.

## Plan

1. Done: the core (LogStream, LogsGenReceiver and its proofs), AppendInstanceLogs with
   LogGen and LogStats, VolumeShape, ReceiverConfig with IPPool, TracePools, AppProfiles with
   AppTemplates, ResourceTemplates, their runs; proofs of the refinement of LogStream and of
   every safety property the passing runs check.
2. Next models: determinism of a sequential run, as two copies of AppendInstanceLogs
   with one random stream; the construction of the long-tail schedule.
