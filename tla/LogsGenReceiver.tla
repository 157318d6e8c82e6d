--------------------------- MODULE LogsGenReceiver ---------------------------
(***************************************************************************)
(* The life of one logsgenreceiver in a collector: construction, Start,    *)
(* the generator goroutine with its loop over the intervals of the window, *)
(* produceLogs with its worker goroutines, and Shutdown                    *)
(* (src/logsgenreceiver/receiver.go).                                      *)
(*                                                                         *)
(* A log record is one unit of a count: what is in a record is modelled by *)
(* AppendInstanceLogs.  A step of a goroutine is a stretch of code that    *)
(* touches state of another goroutine at most once; appending one instance *)
(* is one step because a batch and a statistics shard belong to one        *)
(* goroutine -- which is itself a property below, not an assumption: the   *)
(* shard is looked up by index and the index is computed at run time.      *)
(*                                                                         *)
(* A definition with the remark "bug:" is a mistake the code does not make *)
(* in the definition that follows it; the properties are tested on it.     *)
(***************************************************************************)
EXTENDS Integers, Sequences, Functions

CONSTANTS
    Scenarios,      \* the effective scenarios, in configuration order
    Volumes,        \* numbers of records an instance may get in an interval
    StartTime,      \* start of the window
    EndTime,        \* end of the window (exclusive)
    Interval,       \* length of an interval
    RealTime,       \* real_time: one interval per tick of the wall clock
    ExitAfterEnd,   \* exit_after_end
    ExitTimeouts    \* whether exit_after_end_timeout is positive: what it may be

(***************************************************************************)
(* validateScenarios (config.go) lets only these scenarios through.        *)
(***************************************************************************)
ASSUME ScenariosAssumption ==
    /\ Scenarios \in Seq([scale: Nat, concurrency: Nat, logsPerInterval: Nat])
    /\ \A s \in 1..Len(Scenarios) :
          Scenarios[s].concurrency > 0 =>
              Scenarios[s].scale % Scenarios[s].concurrency = 0

(***************************************************************************)
(* effectiveLogs and applyInstanceMultiplier never go below one record.    *)
(***************************************************************************)
ASSUME VolumesAssumption == Volumes \subseteq Nat \ {0}

ASSUME WindowAssumption ==
    /\ StartTime \in Int
    /\ EndTime \in Int
    /\ Interval \in Nat \ {0}
    /\ RealTime \in BOOLEAN
    /\ ExitAfterEnd \in BOOLEAN
    /\ ExitTimeouts \in SUBSET BOOLEAN \ {{}}

VARIABLES
    life,                   \* where the host is: see TypeOK
    laidOut,                \* scenarios whose shards are laid out
    totalConcurrentShards,  \* shards of worker goroutines laid out so far
    shardBase,              \* shardBase[s]: 1 + the shards laid out before s
    cardinalityShards,      \* shards that track field cardinality
    ctxCancelled,           \* is the generator's context cancelled?
    doneClosed,             \* is the channel r.done closed?
    gen,                    \* where the generator goroutine is: see TypeOK
    currentTime,            \* start of the current interval
    idx,                    \* scenario produceLogs is at
    concurrentShardBase,    \* first shard of the next concurrent scenario
    nextWorker,             \* workers of scenario idx spawned so far
    nextInstance,           \* instances of scenario idx appended so far
    batch,                  \* records in the generator's own batch
    readTotal,              \* totalLogs as the generator read it
    totalLogs,              \* records counted in this call of produceLogs
    worker,                 \* worker[w]: where worker goroutine w is
    workerShard,            \* workerShard[w]: index of the shard w writes
    workerNext,             \* workerNext[w]: instances w has appended
    workerBatch,            \* workerBatch[w]: records in w's batch
    tick,                   \* is a tick waiting in ticker.C?
    logCount,               \* r.progress.logCount
    shards,                 \* shards[k]: TotalLogs of statistics shard k
    reported,               \* has the fatal status been reported?
    summary,                \* what Shutdown logs
    sunk,                   \* history: records consumed, by shard counted in
    delivered               \* history: instances consumed in this interval

layoutVars == <<laidOut, totalConcurrentShards, shardBase, cardinalityShards>>
hostVars == <<life, reported, summary>>
produceVars == <<idx, concurrentShardBase, nextWorker, nextInstance, batch,
                 readTotal, totalLogs>>
workerVars == <<worker, workerShard, workerNext, workerBatch>>
outputVars == <<shards, sunk, delivered>>
vars == <<life, layoutVars, ctxCancelled, doneClosed, gen, currentTime,
          produceVars, workerVars, tick, logCount, outputVars, reported,
          summary>>
-----------------------------------------------------------------------------
ScenarioIds == 1..Len(Scenarios)
Scn == Scenarios[idx]

(***************************************************************************)
(* Worker <<s, wi>> is goroutine wi of scenario s; instance <<s, i>> is    *)
(* element i of the resources of scenario s.                               *)
(***************************************************************************)
Workers == UNION {{s} \X (0..Scenarios[s].concurrency - 1) : s \in ScenarioIds}
InstancesOf(s) == {s} \X (0..Scenarios[s].scale - 1)

(***************************************************************************)
(* The instance a worker appends in round j of its loop, and all of them.  *)
(***************************************************************************)
Share(s) == Scenarios[s].scale \div Scenarios[s].concurrency
InstanceAtWithoutStride(w, j) == j + w[2]  \* bug: shares overlap
InstanceAt(w, j) ==
    j + ((w[2] * Scenarios[w[1]].scale) \div Scenarios[w[1]].concurrency)
WorkerInstances(w) ==
    {<<w[1], InstanceAt(w, j)>> : j \in 0..Share(w[1]) - 1} \cap InstancesOf(w[1])

(***************************************************************************)
(* ShardedLogStats.Shard: the index wraps around.                          *)
(***************************************************************************)
NumShardsWithoutSequential == totalConcurrentShards  \* bug: no shard 0
NumShards == 1 + totalConcurrentShards
ShardIds == 0..totalConcurrentShards
Shard(i) == i % NumShards

HostTypeOK ==
    /\ life \in {"constructing", "created", "running", "stopping", "stopped"}
    /\ laidOut \in 0..Len(Scenarios)
    /\ totalConcurrentShards \in Nat
    /\ shardBase \in [ScenarioIds -> Nat]
    /\ cardinalityShards \subseteq Nat
    /\ ctxCancelled \in BOOLEAN
    /\ doneClosed \in BOOLEAN
    /\ reported \in BOOLEAN
    /\ summary \in [stats : {<<>>} \cup [ShardIds -> Nat], logs : Nat]
    /\ life = "constructing" => summary.stats = <<>>

GeneratorTypeOK ==
    /\ gen \in {"off", "loop", "scenario", "append", "write", "consume", "spawn",
                "tick", "sleep", "report", "closing", "finished"}
    /\ currentTime \in Int
    /\ idx \in 1..Len(Scenarios) + 1
    /\ gen \in {"append", "write", "consume", "spawn"} => idx \in ScenarioIds
    /\ concurrentShardBase \in Nat
    /\ nextWorker \in Nat
    /\ nextInstance \in Nat
    /\ batch \in Nat
    /\ readTotal \in Nat
    /\ totalLogs \in Nat
    /\ tick \in BOOLEAN

WorkerTypeOK ==
    /\ worker \in [Workers -> {"off", "append", "consume"}]
    /\ workerShard \in [Workers -> Nat]
    /\ workerNext \in [Workers -> Nat]
    /\ workerBatch \in [Workers -> Nat]

OutputTypeOK ==
    /\ logCount \in Nat
    /\ shards \in [ShardIds -> Nat]
    /\ sunk \in [ShardIds -> Nat]
    /\ delivered \subseteq UNION {InstancesOf(s) : s \in ScenarioIds}

TypeOK == HostTypeOK /\ GeneratorTypeOK /\ WorkerTypeOK /\ OutputTypeOK
-----------------------------------------------------------------------------
Init ==
    /\ life = "constructing"
    /\ laidOut = 0
    /\ totalConcurrentShards = 0
    /\ shardBase = [s \in ScenarioIds |-> 1]
    /\ cardinalityShards = {0}
    /\ ctxCancelled = FALSE
    /\ doneClosed = TRUE
    /\ gen = "off"
    /\ currentTime = StartTime
    /\ idx = 1
    /\ concurrentShardBase = 1
    /\ nextWorker = 0
    /\ nextInstance = 0
    /\ batch = 0
    /\ readTotal = 0
    /\ totalLogs = 0
    /\ worker = [w \in Workers |-> "off"]
    /\ workerShard = [w \in Workers |-> 0]
    /\ workerNext = [w \in Workers |-> 0]
    /\ workerBatch = [w \in Workers |-> 0]
    /\ tick = FALSE
    /\ logCount = 0
    /\ shards = [k \in {0} |-> 0]
    /\ reported = FALSE
    /\ summary = [stats |-> <<>>, logs |-> 0]
    /\ sunk = [k \in {0} |-> 0]
    /\ delivered = {}

(***************************************************************************)
(* newLogsGenReceiver: one round of the loop that gives each concurrent    *)
(* scenario its statistics shards, the first of which tracks cardinality.  *)
(***************************************************************************)
FirstFreeShardOffByOne == totalConcurrentShards  \* bug: overlaps the last one
FirstFreeShard == 1 + totalConcurrentShards

LayOutShards ==
    LET s == laidOut + 1
        total == totalConcurrentShards + Scenarios[s].concurrency
    IN  /\ life = "constructing"
        /\ laidOut < Len(Scenarios)
        /\ laidOut' = s
        /\ shardBase' = [shardBase EXCEPT ![s] = FirstFreeShard]
        /\ totalConcurrentShards' = total
        /\ cardinalityShards' =
              cardinalityShards \cup
                  (IF Scenarios[s].concurrency > 0 THEN {FirstFreeShard} ELSE {})
        /\ shards' = [k \in 0..total |-> 0]
        /\ sunk' = [k \in 0..total |-> 0]
        /\ UNCHANGED <<hostVars, ctxCancelled, doneClosed, gen, currentTime,
                       produceVars, workerVars, tick, logCount, delivered>>

Constructed ==
    /\ life = "constructing"
    /\ laidOut = Len(Scenarios)
    /\ life' = "created"
    /\ UNCHANGED <<layoutVars, ctxCancelled, doneClosed, gen, currentTime,
                   produceVars, workerVars, tick, logCount, outputVars,
                   reported, summary>>

(***************************************************************************)
(* Start: under the mutex a fresh context and a fresh done channel, then   *)
(* the generator goroutine, whose loop begins at StartTime.                *)
(***************************************************************************)
StartKeepingDone ==  \* bug: r.done is not made anew
    /\ life = "created"
    /\ life' = "running"
    /\ gen' = "loop"
    /\ currentTime' = StartTime
    /\ UNCHANGED <<layoutVars, ctxCancelled, doneClosed, produceVars, workerVars,
                   tick, logCount, outputVars, reported, summary>>

Start ==
    /\ life = "created"
    /\ life' = "running"
    /\ doneClosed' = FALSE
    /\ gen' = "loop"
    /\ currentTime' = StartTime
    /\ UNCHANGED <<layoutVars, ctxCancelled, produceVars, workerVars, tick,
                   logCount, outputVars, reported, summary>>

(***************************************************************************)
(* The context Start is given may be cancelled by the host: the            *)
(* generator's context is derived from it.                                 *)
(***************************************************************************)
CancelStartContext ==
    /\ life = "running"
    /\ ~ctxCancelled
    /\ ctxCancelled' = TRUE
    /\ UNCHANGED <<hostVars, layoutVars, doneClosed, gen, currentTime,
                   produceVars, workerVars, tick, logCount, outputVars>>

(***************************************************************************)
(* Shutdown: cancel, if there is anything to cancel, then wait for done,   *)
(* then read the counters.                                                 *)
(***************************************************************************)
ShutdownCancel ==
    /\ life \in {"created", "running"}
    /\ life' = "stopping"
    /\ ctxCancelled' = (ctxCancelled \/ life = "running")
    /\ UNCHANGED <<layoutVars, doneClosed, gen, currentTime, produceVars,
                   workerVars, tick, logCount, outputVars, reported, summary>>

ShutdownCollectAtOnce ==  \* bug: no wait for done
    /\ life = "stopping"
    /\ life' = "stopped"
    /\ summary' = [stats |-> shards, logs |-> logCount]
    /\ UNCHANGED <<layoutVars, ctxCancelled, doneClosed, gen, currentTime,
                   produceVars, workerVars, tick, logCount, outputVars,
                   reported>>

ShutdownCollect ==
    /\ life = "stopping"
    /\ doneClosed
    /\ life' = "stopped"
    /\ summary' = [stats |-> shards, logs |-> logCount]
    /\ UNCHANGED <<layoutVars, ctxCancelled, doneClosed, gen, currentTime,
                   produceVars, workerVars, tick, logCount, outputVars,
                   reported>>
-----------------------------------------------------------------------------
(***************************************************************************)
(* The loop of the generator goroutine.                                    *)
(***************************************************************************)
genUnchanged == <<hostVars, layoutVars, ctxCancelled>>

LoopCancelled ==
    /\ gen = "loop"
    /\ currentTime < EndTime
    /\ ctxCancelled
    /\ gen' = "closing"
    /\ UNCHANGED <<genUnchanged, doneClosed, currentTime, produceVars,
                   workerVars, tick, logCount, outputVars>>

BeginInterval ==
    /\ gen = "loop"
    /\ currentTime < EndTime
    /\ ~ctxCancelled
    /\ gen' = "scenario"
    /\ idx' = 1
    /\ totalLogs' = 0
    /\ concurrentShardBase' = 1
    /\ UNCHANGED <<genUnchanged, doneClosed, currentTime, nextWorker,
                   nextInstance, batch, readTotal, workerVars, tick, logCount,
                   outputVars>>

(***************************************************************************)
(* The end of the window is noticed before a cancelled context is.  That   *)
(* is once in the life of a receiver, and nothing else depends on the      *)
(* timeout, so that it is only chosen here.                                *)
(***************************************************************************)
WindowEndReportingAfterSleepOnly ==  \* bug: no report without a timeout
    /\ gen = "loop"
    /\ currentTime >= EndTime
    /\ \E positive \in ExitTimeouts :
          gen' = IF ExitAfterEnd /\ positive THEN "sleep" ELSE "closing"
    /\ UNCHANGED <<genUnchanged, doneClosed, currentTime, produceVars,
                   workerVars, tick, logCount, outputVars>>

WindowEnd ==
    /\ gen = "loop"
    /\ currentTime >= EndTime
    /\ IF ExitAfterEnd
       THEN \E positive \in ExitTimeouts :
               gen' = IF positive THEN "sleep" ELSE "report"
       ELSE gen' = "closing"
    /\ UNCHANGED <<genUnchanged, doneClosed, currentTime, produceVars,
                   workerVars, tick, logCount, outputVars>>

SleepBeforeExitAnew ==  \* bug: a context that is done begins the wait anew
    /\ gen = "sleep"
    /\ gen' = (IF ctxCancelled THEN "sleep" ELSE "report")
    /\ UNCHANGED <<genUnchanged, doneClosed, currentTime, produceVars,
                   workerVars, tick, logCount, outputVars>>

SleepBeforeExit ==
    /\ gen = "sleep"
    /\ gen' = "report"
    /\ UNCHANGED <<genUnchanged, doneClosed, currentTime, produceVars,
                   workerVars, tick, logCount, outputVars>>

ReportFatal ==
    /\ gen = "report"
    /\ gen' = "closing"
    /\ reported' = TRUE
    /\ UNCHANGED <<life, summary, layoutVars, ctxCancelled, doneClosed,
                   currentTime, produceVars, workerVars, tick, logCount,
                   outputVars>>

CloseDone ==
    /\ gen = "closing"
    /\ gen' = "finished"
    /\ doneClosed' = TRUE
    /\ tick' = FALSE
    /\ UNCHANGED <<genUnchanged, currentTime, produceVars, workerVars,
                   logCount, outputVars>>
-----------------------------------------------------------------------------
(***************************************************************************)
(* produceLogs, at scenario idx: skipped, generated by the generator       *)
(* goroutine itself, or handed to worker goroutines.                       *)
(***************************************************************************)
produceUnchanged == <<hostVars, layoutVars, ctxCancelled, doneClosed,
                      currentTime, tick>>

SkipScenario ==
    /\ gen = "scenario"
    /\ idx <= Len(Scenarios)
    /\ Scn.logsPerInterval = 0
    /\ idx' = idx + 1
    /\ UNCHANGED <<produceUnchanged, gen, concurrentShardBase, nextWorker,
                   nextInstance, batch, readTotal, totalLogs, workerVars,
                   logCount, outputVars>>

EnterScenario ==
    /\ gen = "scenario"
    /\ idx <= Len(Scenarios)
    /\ Scn.logsPerInterval > 0
    /\ gen' = IF Scn.concurrency = 0 THEN "append" ELSE "spawn"
    /\ nextInstance' = 0
    /\ batch' = 0
    /\ nextWorker' = 0
    /\ UNCHANGED <<produceUnchanged, idx, concurrentShardBase, readTotal,
                   totalLogs, workerVars, logCount, outputVars>>

AppendInstance ==
    /\ gen = "append"
    /\ nextInstance < Scn.scale
    /\ \E n \in Volumes :
          /\ batch' = batch + n
          /\ shards' = [shards EXCEPT ![Shard(0)] = @ + n]
    /\ nextInstance' = nextInstance + 1
    /\ UNCHANGED <<produceUnchanged, gen, idx, concurrentShardBase, nextWorker,
                   readTotal, totalLogs, workerVars, logCount, sunk, delivered>>

(***************************************************************************)
(* totalLogs += uint64(logCount): a plain read and a plain write, while    *)
(* workers of the scenarios before this one add to the same variable.      *)
(***************************************************************************)
ReadTotal ==
    /\ gen = "append"
    /\ nextInstance = Scn.scale
    /\ readTotal' = totalLogs
    /\ gen' = "write"
    /\ UNCHANGED <<produceUnchanged, idx, concurrentShardBase, nextWorker,
                   nextInstance, batch, totalLogs, workerVars, logCount,
                   outputVars>>

WriteTotal ==
    /\ gen = "write"
    /\ totalLogs' = readTotal + batch
    /\ gen' = "consume"
    /\ UNCHANGED <<produceUnchanged, idx, concurrentShardBase, nextWorker,
                   nextInstance, batch, readTotal, workerVars, logCount,
                   outputVars>>

(***************************************************************************)
(* ConsumeLogs: an error it returns changes nothing here but telemetry.    *)
(***************************************************************************)
ConsumeSequential ==
    /\ gen = "consume"
    /\ sunk' = [sunk EXCEPT ![Shard(0)] = @ + batch]
    /\ delivered' = delivered \cup InstancesOf(idx)
    /\ batch' = 0
    /\ idx' = idx + 1
    /\ gen' = "scenario"
    /\ UNCHANGED <<produceUnchanged, concurrentShardBase, nextWorker,
                   nextInstance, readTotal, totalLogs, workerVars, logCount,
                   shards>>

SpawnWorker ==
    LET w == <<idx, nextWorker>>
    IN  /\ gen = "spawn"
        /\ nextWorker < Scn.concurrency
        /\ worker' = [worker EXCEPT ![w] = "append"]
        /\ workerShard' = [workerShard EXCEPT
                              ![w] = Shard(concurrentShardBase + nextWorker)]
        /\ workerNext' = [workerNext EXCEPT ![w] = 0]
        /\ workerBatch' = [workerBatch EXCEPT ![w] = 0]
        /\ nextWorker' = nextWorker + 1
        /\ UNCHANGED <<produceUnchanged, gen, idx, concurrentShardBase,
                       nextInstance, batch, readTotal, totalLogs, logCount,
                       outputVars>>

AllSpawnedKeepingBase ==  \* bug: the next scenario reuses these shards
    /\ gen = "spawn"
    /\ nextWorker = Scn.concurrency
    /\ idx' = idx + 1
    /\ gen' = "scenario"
    /\ UNCHANGED <<produceUnchanged, concurrentShardBase, nextWorker,
                   nextInstance, batch, readTotal, totalLogs, workerVars,
                   logCount, outputVars>>

AllSpawned ==
    /\ gen = "spawn"
    /\ nextWorker = Scn.concurrency
    /\ concurrentShardBase' = concurrentShardBase + Scn.concurrency
    /\ idx' = idx + 1
    /\ gen' = "scenario"
    /\ UNCHANGED <<produceUnchanged, nextWorker, nextInstance, batch, readTotal,
                   totalLogs, workerVars, logCount, outputVars>>

(***************************************************************************)
(* wg.Wait, then progress.logCount.Add with what produceLogs returned.     *)
(***************************************************************************)
AwaitNobody ==  \* bug: no wg.Wait
    /\ gen = "scenario"
    /\ idx > Len(Scenarios)
    /\ logCount' = logCount + totalLogs
    /\ gen' = "tick"
    /\ UNCHANGED <<produceUnchanged, produceVars, workerVars, outputVars>>

AwaitWorkers ==
    /\ gen = "scenario"
    /\ idx > Len(Scenarios)
    /\ \A w \in Workers : worker[w] = "off"
    /\ logCount' = logCount + totalLogs
    /\ gen' = "tick"
    /\ UNCHANGED <<produceUnchanged, produceVars, workerVars, outputVars>>

(***************************************************************************)
(* The wait for the ticker in real time, and the next interval.            *)
(***************************************************************************)
Advance ==
    /\ gen = "tick"
    /\ RealTime => tick
    /\ tick' = (IF RealTime THEN FALSE ELSE tick)
    /\ currentTime' = currentTime + Interval
    /\ delivered' = {}
    /\ gen' = "loop"
    /\ UNCHANGED <<genUnchanged, doneClosed, produceVars, workerVars, logCount,
                   shards, sunk>>

(***************************************************************************)
(* time.Ticker: its channel holds one tick, others are dropped.            *)
(***************************************************************************)
Tick ==
    /\ RealTime
    /\ gen \notin {"off", "finished"}
    /\ ~tick
    /\ tick' = TRUE
    /\ UNCHANGED <<genUnchanged, doneClosed, gen, currentTime, produceVars,
                   workerVars, logCount, outputVars>>
-----------------------------------------------------------------------------
(***************************************************************************)
(* The worker goroutines of produceLogs.                                   *)
(***************************************************************************)
workerUnchanged == <<produceUnchanged, gen, idx, concurrentShardBase,
                     nextWorker, nextInstance, batch, readTotal, logCount>>

WorkerAppend(w) ==
    /\ worker[w] = "append"
    /\ workerNext[w] < Share(w[1])
    /\ \E n \in IF InstanceAt(w, workerNext[w]) < Scenarios[w[1]].scale
                THEN Volumes ELSE {0} :
          /\ workerBatch' = [workerBatch EXCEPT ![w] = @ + n]
          /\ shards' = [shards EXCEPT ![workerShard[w]] = @ + n]
    /\ workerNext' = [workerNext EXCEPT ![w] = @ + 1]
    /\ UNCHANGED <<workerUnchanged, totalLogs, worker, workerShard, sunk,
                   delivered>>

(***************************************************************************)
(* atomic.AddUint64(&totalLogs, logCount)                                  *)
(***************************************************************************)
WorkerCount(w) ==
    /\ worker[w] = "append"
    /\ workerNext[w] = Share(w[1])
    /\ totalLogs' = totalLogs + workerBatch[w]
    /\ worker' = [worker EXCEPT ![w] = "consume"]
    /\ UNCHANGED <<workerUnchanged, workerShard, workerNext, workerBatch,
                   outputVars>>

(***************************************************************************)
(* ConsumeLogs and the deferred wg.Done.                                   *)
(***************************************************************************)
WorkerConsume(w) ==
    /\ worker[w] = "consume"
    /\ sunk' = [sunk EXCEPT ![workerShard[w]] = @ + workerBatch[w]]
    /\ delivered' = delivered \cup WorkerInstances(w)
    /\ worker' = [worker EXCEPT ![w] = "off"]
    /\ workerBatch' = [workerBatch EXCEPT ![w] = 0]
    /\ UNCHANGED <<workerUnchanged, totalLogs, workerShard, workerNext, shards>>
-----------------------------------------------------------------------------
Construct == LayOutShards \/ Constructed
Generator ==
    \/ LoopCancelled \/ BeginInterval \/ WindowEnd
    \/ SleepBeforeExit \/ ReportFatal \/ CloseDone
    \/ SkipScenario \/ EnterScenario
    \/ AppendInstance \/ ReadTotal \/ WriteTotal \/ ConsumeSequential
    \/ SpawnWorker \/ AllSpawned \/ AwaitWorkers \/ Advance
Worker(w) == WorkerAppend(w) \/ WorkerCount(w) \/ WorkerConsume(w)

(***************************************************************************)
(* After Shutdown has returned nothing is left to do.                      *)
(***************************************************************************)
Terminated == life = "stopped" /\ UNCHANGED vars

Next ==
    \/ LayOutShards \/ Constructed \/ Start \/ CancelStartContext
    \/ ShutdownCancel \/ ShutdownCollect
    \/ Generator
    \/ Tick
    \/ \E w \in Workers : Worker(w)
    \/ Terminated

Spec == Init /\ [][Next]_vars

(***************************************************************************)
(* Goroutines that can run do run, the clock ticks, and Shutdown goes on   *)
(* when done is closed.  That the host ever starts the receiver or shuts   *)
(* it down is not assumed.                                                 *)
(***************************************************************************)
Fairness ==
    /\ WF_vars(Construct)
    /\ WF_vars(Generator)
    /\ WF_vars(Tick)
    /\ WF_vars(ShutdownCollect)
    /\ \A w \in Workers : WF_vars(Worker(w))

FairSpec == Spec /\ Fairness
-----------------------------------------------------------------------------
(***************************************************************************)
(* Properties.                                                             *)
(***************************************************************************)
Live(w) == worker[w] # "off"
InProduceLogs == gen \in {"scenario", "append", "write", "consume", "spawn"}
OwnBatch == gen \in {"append", "write", "consume"}

(***************************************************************************)
(* "Each shard is written by only one goroutine" (logstats.go): no two     *)
(* goroutines that run at the same time hold the same statistics shard,    *)
(* and none holds shard 0, the generator's, although the indices come from *)
(* two loops -- the constructor's and produceLogs' -- that count           *)
(* scenarios differently, and wrap around.                                 *)
(***************************************************************************)
ShardExclusive ==
    \A w \in Workers : Live(w) =>
        /\ workerShard[w] # 0
        /\ \A v \in Workers \ {w} : Live(v) => workerShard[v] # workerShard[w]

(***************************************************************************)
(* What Shutdown prints is what was sent: the statistics it merges contain *)
(* every record that was handed to the consumer and no other, shard by     *)
(* shard, and nothing is handed over afterwards (receiver.go, Shutdown).   *)
(***************************************************************************)
SummaryComplete == life = "stopped" => summary.stats = sunk

(***************************************************************************)
(* Shutdown leaves no goroutine behind, started or not.                    *)
(***************************************************************************)
NoGoroutineOutlives ==
    life = "stopped" =>
        /\ gen \in {"off", "finished"}
        /\ \A w \in Workers : ~Live(w)

(***************************************************************************)
(* The number of logs Shutdown reports, progress.logCount, is the number   *)
(* of records in the statistics it prints next to it.                      *)
(***************************************************************************)
LogCountExact ==
    life = "stopped" /\ summary.stats # <<>> =>
        summary.logs = SumFunction(summary.stats)

(***************************************************************************)
(* Field cardinality is tracked once per concurrent scenario: its first    *)
(* worker writes a tracking shard, its other workers do not.               *)
(***************************************************************************)
CardinalityTrackedOnce ==
    \A w \in Workers : Live(w) =>
        (workerShard[w] \in cardinalityShards <=> w[2] = 0)

(***************************************************************************)
(* The receiver implements LogStream.                                      *)
(***************************************************************************)
Generating == {s \in ScenarioIds : Scenarios[s].logsPerInterval > 0}
InstancesGenerating == UNION {InstancesOf(s) : s \in Generating}
InInterval == InProduceLogs \/ gen = "tick"
StreamPhase == CASE life = "stopped" -> "closed"
                 [] life # "stopped" /\ gen = "off" -> "idle"
                 [] OTHER -> "open"
AskedToStop == ctxCancelled \/ life \in {"stopping", "stopped"}

Stream == INSTANCE LogStream WITH
    Instances  <- InstancesGenerating,
    phase      <- StreamPhase,
    asked      <- AskedToStop,
    now        <- currentTime,
    inInterval <- InInterval,
    told       <- reported

(***************************************************************************)
(* Every instance once per interval, intervals whole and in order, none    *)
(* begun after a stop request, the collector told only of a window that    *)
(* was replayed to its end, and never closed in mid-interval.              *)
(***************************************************************************)
StreamSpec == Stream!Spec

(***************************************************************************)
(* Shutdown returns: the wait for done ends, whatever the generator was    *)
(* doing when the context was cancelled (a worker in ConsumeLogs, the      *)
(* ticker, the sleep before exit).                                         *)
(***************************************************************************)
ShutdownReturns == (life = "stopping") ~> (life = "stopped")

(***************************************************************************)
(* exit_after_end: a receiver that is left alone tells its collector to    *)
(* exit, in real time as in a replay; and once the goroutine has come to   *)
(* the end of the window it does so even if Shutdown is waiting for it.    *)
(***************************************************************************)
ExitReported ==
    ExitAfterEnd =>
        /\ (life = "running") ~> (reported \/ ctxCancelled)
        /\ (gen = "loop" /\ currentTime >= EndTime) ~> reported
-----------------------------------------------------------------------------
(***************************************************************************)
(* The inductive invariant behind ShardExclusive, SummaryComplete,         *)
(* NoGoroutineOutlives and StreamSpec.                                     *)
(***************************************************************************)

(***************************************************************************)
(* The ranges of shards the constructor lays out are disjoint, in order.   *)
(***************************************************************************)
LayoutInv ==
    /\ life # "constructing" => laidOut = Len(Scenarios)
    /\ \A s \in 1..laidOut :
          /\ 1 <= shardBase[s]
          /\ shardBase[s] + Scenarios[s].concurrency <= 1 + totalConcurrentShards
    /\ \A s, t \in 1..laidOut :
          s < t => shardBase[s] + Scenarios[s].concurrency <= shardBase[t]

(***************************************************************************)
(* produceLogs never gets ahead of that layout ...                         *)
(***************************************************************************)
BaseInv ==
    InProduceLogs =>
        /\ 1 <= concurrentShardBase
        /\ concurrentShardBase <= 1 + totalConcurrentShards
        /\ \A s \in idx..Len(Scenarios) : concurrentShardBase <= shardBase[s]
        /\ gen = "spawn" => nextWorker <= Scn.concurrency

(***************************************************************************)
(* ... and the workers it has spawned hold distinct shards below the next  *)
(* one it will give out.                                                   *)
(***************************************************************************)
Spawned(w) == w[1] < idx \/ (gen = "spawn" /\ w[1] = idx /\ w[2] < nextWorker)
NextShard == concurrentShardBase + (IF gen = "spawn" THEN nextWorker ELSE 0)
OwnerInv ==
    \A w \in Workers : Live(w) =>
        /\ InProduceLogs
        /\ Spawned(w)
        /\ 1 <= workerShard[w]
        /\ workerShard[w] < NextShard
        /\ \A v \in Workers : Live(v) /\ v # w => workerShard[v] # workerShard[w]

(***************************************************************************)
(* A shard differs from what was consumed by the batch of its owner.       *)
(***************************************************************************)
CountInv ==
    /\ shards[0] = sunk[0] + (IF OwnBatch THEN batch ELSE 0)
    /\ \A w \in Workers : Live(w) =>
          shards[workerShard[w]] = sunk[workerShard[w]] + workerBatch[w]
    /\ \A k \in ShardIds \ {0} :
          (\A w \in Workers : Live(w) => workerShard[w] # k) =>
              shards[k] = sunk[k]

(***************************************************************************)
(* Who is running in which state of the host.                              *)
(***************************************************************************)
LifeInv ==
    /\ doneClosed <=> gen \in {"off", "finished"}
    /\ life \in {"constructing", "created"} => gen = "off"
    /\ life = "running" => gen # "off"
    /\ life = "stopped" => doneClosed /\ summary.stats = shards

(***************************************************************************)
(* What was delivered in this interval: all instances of the sequential    *)
(* scenarios that are done, the shares of the workers that are done.       *)
(***************************************************************************)
AllOrNone(instances, all) ==
    IF all THEN instances \subseteq delivered ELSE instances \cap delivered = {}
DeliveredInv ==
    /\ delivered \subseteq InstancesGenerating
    /\ ~InInterval => delivered = {}
    /\ InInterval =>
          /\ \A s \in Generating :
                Scenarios[s].concurrency = 0 => AllOrNone(InstancesOf(s), s < idx)
          /\ \A w \in Workers :
                w[1] \in Generating =>
                    AllOrNone(WorkerInstances(w), Spawned(w) /\ ~Live(w))

(***************************************************************************)
(* What the generator knows of the scenario it is at, and of the window.   *)
(***************************************************************************)
ScenarioInv ==
    /\ gen \in {"append", "write", "consume"} =>
          idx \in Generating /\ Scn.concurrency = 0
    /\ gen = "spawn" => idx \in Generating /\ Scn.concurrency > 0
    /\ gen = "tick" => idx > Len(Scenarios)
    /\ \A w \in Workers : Live(w) => w[1] \in Generating
WindowInv ==
    /\ gen = "off" => currentTime = StartTime
    /\ gen \in {"sleep", "report"} => ExitAfterEnd /\ currentTime >= EndTime
    /\ reported => gen \in {"closing", "finished"}
    /\ life \in {"constructing", "created"} => ~ctxCancelled
    /\ life = "stopping" /\ gen # "off" => ctxCancelled

StreamInv == DeliveredInv /\ ScenarioInv /\ WindowInv

(***************************************************************************)
(* When LogCountExact holds: no scenario that the generator produces       *)
(* itself comes after one whose workers may still be counting.             *)
(***************************************************************************)
SequentialFirst ==
    \A s, t \in Generating :
        s < t /\ Scenarios[s].concurrency > 0 => Scenarios[t].concurrency > 0

(***************************************************************************)
(* The records of a shard that have been added to totalLogs: what was      *)
(* consumed, and a batch between the addition and ConsumeLogs.             *)
(***************************************************************************)
Counting(k) ==
    \/ k = 0 /\ gen = "consume"
    \/ \E w \in Workers : worker[w] = "consume" /\ workerShard[w] = k
Counted == [k \in ShardIds |-> IF Counting(k) THEN shards[k] ELSE sunk[k]]
TotalInv ==
    /\ life = "constructing" => logCount = 0
    /\ life = "stopped" => summary.logs = logCount
    /\ gen = "write" => readTotal = totalLogs
    /\ logCount + (IF InProduceLogs THEN totalLogs ELSE 0) = SumFunction(Counted)

(***************************************************************************)
(* When CardinalityTrackedOnce holds: no concurrent scenario that          *)
(* generates logs comes after one that does not.                           *)
(***************************************************************************)
SilentLast ==
    \A s \in ScenarioIds, t \in Generating :
        /\ s < t
        /\ Scenarios[s].concurrency > 0 /\ Scenarios[t].concurrency > 0
        => s \in Generating

(***************************************************************************)
(* Then produceLogs counts the shards as the constructor laid them out.    *)
(***************************************************************************)
TrackInv ==
    /\ cardinalityShards =
          {0} \cup {shardBase[s] : s \in {t \in 1..laidOut : Scenarios[t].concurrency > 0}}
    /\ laidOut = 0 => totalConcurrentShards = 0
    /\ laidOut > 0 =>
          /\ shardBase[1] = 1
          /\ shardBase[laidOut] + Scenarios[laidOut].concurrency
                = 1 + totalConcurrentShards
    /\ \A s \in 1..laidOut - 1 :
          shardBase[s + 1] = shardBase[s] + Scenarios[s].concurrency
    /\ InProduceLogs /\ idx \in ScenarioIds =>
          \/ concurrentShardBase = shardBase[idx]
          \/ \A s \in Generating : s >= idx => Scenarios[s].concurrency = 0
    /\ \A w \in Workers : Live(w) => workerShard[w] = shardBase[w[1]] + w[2]

IInv ==
    /\ TypeOK /\ LayoutInv /\ BaseInv /\ OwnerInv /\ CountInv /\ LifeInv
    /\ StreamInv
    /\ SequentialFirst => TotalInv
    /\ SilentLast => TrackInv
=============================================================================
