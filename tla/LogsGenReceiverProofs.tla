------------------------ MODULE LogsGenReceiverProofs ------------------------
(***************************************************************************)
(* Proofs about LogsGenReceiver, for every list of scenarios, every volume *)
(* and every window.  First why it implements LogStream: its invariant     *)
(* StreamInv is inductive, and with it every step maps to a step of        *)
(* LogStream or to a stutter.  Before that, the lemmas about scenarios,    *)
(* workers and the instances they share out, which all the proofs use.     *)
(* Then the types of the state and its safety invariants.                  *)
(***************************************************************************)
EXTENDS LogsGenReceiver, FoldLemmas, TLAPS

(***************************************************************************)
(* What the assumption on Scenarios says of one scenario.                  *)
(***************************************************************************)
LEMMA ScenarioType ==
    /\ Len(Scenarios) \in Nat
    /\ \A s \in ScenarioIds : /\ Scenarios[s].scale \in Nat
                              /\ Scenarios[s].concurrency \in Nat
                              /\ Scenarios[s].logsPerInterval \in Nat
<1> DEFINE ScenarioRecord == [scale: Nat, concurrency: Nat, logsPerInterval: Nat]
<1>1. Scenarios \in Seq(ScenarioRecord)
  BY ScenariosAssumption
<1>2. Len(Scenarios) \in Nat /\ \A s \in 1..Len(Scenarios) : Scenarios[s] \in ScenarioRecord
  <2> HIDE DEF ScenarioRecord
  <2> QED
    BY <1>1
<1> QED
  BY <1>2 DEF ScenarioIds

(***************************************************************************)
(* A worker is a scenario and a number below its concurrency.              *)
(***************************************************************************)
LEMMA WorkerType ==
    /\ \A w \in Workers : /\ w = <<w[1], w[2]>>
                          /\ w[1] \in ScenarioIds
                          /\ w[2] \in Nat
                          /\ w[2] < Scenarios[w[1]].concurrency
    /\ \A s \in ScenarioIds, i \in Nat :
          i < Scenarios[s].concurrency => <<s, i>> \in Workers
<1>1. ASSUME NEW w \in Workers
      PROVE  /\ w = <<w[1], w[2]>>
             /\ w[1] \in ScenarioIds
             /\ w[2] \in Nat
             /\ w[2] < Scenarios[w[1]].concurrency
  <2>1. PICK s \in ScenarioIds : w \in {s} \X (0..Scenarios[s].concurrency - 1)
    BY DEF Workers
  <2>2. /\ w = <<w[1], w[2]>>
        /\ w[1] = s
        /\ w[2] \in 0..Scenarios[s].concurrency - 1
    BY <2>1
  <2> QED
    BY <2>2, ScenarioType
<1>2. ASSUME NEW s \in ScenarioIds, NEW i \in Nat, i < Scenarios[s].concurrency
      PROVE  <<s, i>> \in Workers
  <2>1. i \in 0..Scenarios[s].concurrency - 1
    BY <1>2, ScenarioType
  <2> QED
    BY <2>1 DEF Workers
<1> QED
  BY <1>1, <1>2

-----------------------------------------------------------------------------
(***************************************************************************)
(* A product divided by a factor, and the shares of a whole.               *)
(***************************************************************************)
LEMMA DivideProduct ==
    ASSUME NEW q \in Nat, NEW c \in Nat \ {0}
    PROVE  (c * q) \div c = q
<1> DEFINE a == c * q
           d == a \div c
           r == a % c
<1>1. a \in Nat
  OBVIOUS
<1>2. /\ d \in Int /\ r \in 0..c - 1
      /\ a = c * d + r
  <2> HIDE DEF a
  <2> QED
    BY <1>1
<1> HIDE DEF d, r
<1>3. c * (q - d) = r
  BY <1>2
<1>4. q - d \in Int
  BY <1>2
<1>5. CASE q - d >= 1
  BY <1>2, <1>3, <1>4, <1>5
<1>6. CASE q - d <= -1
  BY <1>2, <1>3, <1>4, <1>6
<1> QED
  BY <1>2, <1>4, <1>5, <1>6 DEF d

(***************************************************************************)
(* Different multiples of a share are a share apart.                       *)
(***************************************************************************)
LEMMA MultiplesApart ==
    ASSUME NEW a \in Nat, NEW b \in Nat, NEW k \in Nat, a < b
    PROVE  a * k + k <= b * k
<1>1. b * k = a * k + (b - a) * k
  OBVIOUS
<1>2. (b - a) * k = k + (b - a - 1) * k
  OBVIOUS
<1>3. (b - a - 1) * k \in Nat
  <2>1. b - a - 1 \in Nat
    OBVIOUS
  <2> QED
    BY <2>1
<1>4. a * k \in Nat
  OBVIOUS
<1> QED
  BY <1>1, <1>2, <1>3, <1>4

(***************************************************************************)
(* The workers of a scenario have equal shares that make up the whole.     *)
(***************************************************************************)
LEMMA EqualShares ==
    ASSUME NEW s \in ScenarioIds, Scenarios[s].concurrency > 0
    PROVE  /\ Share(s) \in Nat
           /\ Scenarios[s].scale = Scenarios[s].concurrency * Share(s)
<1> DEFINE m == Scenarios[s].scale
           c == Scenarios[s].concurrency
<1>1. m \in Nat /\ c \in Nat /\ c > 0
  BY ScenarioType
<1>2. m % c = 0
  BY ScenariosAssumption DEF ScenarioIds
<1> HIDE DEF m, c
<1>3. m \div c \in Nat /\ m = c * (m \div c)
  BY <1>1, <1>2
<1> QED
  BY <1>3 DEF m, c, Share

LEMMA Stride ==
    ASSUME NEW w \in Workers, NEW j \in Nat
    PROVE  InstanceAt(w, j) = j + w[2] * Share(w[1])
<1> DEFINE k == Share(w[1])
           c == Scenarios[w[1]].concurrency
           i == w[2]
<1>1. w[1] \in ScenarioIds /\ i \in Nat /\ i < c /\ c \in Nat
  BY WorkerType, ScenarioType
<1>2. k \in Nat /\ Scenarios[w[1]].scale = c * k
  BY <1>1, EqualShares
<1> HIDE DEF k, c, i
<1>3. i * (c * k) = c * (i * k) /\ i * k \in Nat
  BY <1>1, <1>2
<1>4. (c * (i * k)) \div c = i * k
  BY <1>1, <1>3, DivideProduct
<1>5. (i * Scenarios[w[1]].scale) \div c = i * k
  BY <1>2, <1>3, <1>4
<1> QED
  BY <1>5 DEF InstanceAt, k, c, i

(***************************************************************************)
(* What a worker appends.                                                  *)
(***************************************************************************)
LEMMA InstancesOfWorker ==
    ASSUME NEW w \in Workers, NEW x
    PROVE  x \in WorkerInstances(w) <=>
               /\ x \in InstancesOf(w[1])
               /\ \E j \in 0..Share(w[1]) - 1 :
                     x = <<w[1], j + w[2] * Share(w[1])>>
<1>1. \A j \in 0..Share(w[1]) - 1 : InstanceAt(w, j) = j + w[2] * Share(w[1])
  <2>1. ASSUME NEW j \in 0..Share(w[1]) - 1 PROVE j \in Nat
    OBVIOUS
  <2> QED
    BY <2>1, Stride
<1> QED
  BY <1>1 DEF WorkerInstances

(***************************************************************************)
(* No instance is in the shares of two workers.                            *)
(***************************************************************************)
LEMMA SharesDisjoint ==
    ASSUME NEW v \in Workers, NEW w \in Workers, v # w
    PROVE  WorkerInstances(v) \cap WorkerInstances(w) = {}
<1> SUFFICES ASSUME NEW x \in WorkerInstances(v) \cap WorkerInstances(w)
             PROVE  FALSE
  OBVIOUS
<1> DEFINE k == Share(w[1])
           a == v[2]
           b == w[2]
<1>1. PICK i \in 0..Share(v[1]) - 1 : x = <<v[1], i + v[2] * Share(v[1])>>
  BY InstancesOfWorker
<1>2. PICK j \in 0..k - 1 : x = <<w[1], j + b * k>>
  BY InstancesOfWorker
<1>3. v[1] = w[1] /\ i \in 0..k - 1 /\ i + a * k = j + b * k
  BY <1>1, <1>2
<1>4. /\ w[1] \in ScenarioIds /\ a \in Nat /\ b \in Nat
      /\ Scenarios[w[1]].concurrency \in Nat /\ b < Scenarios[w[1]].concurrency
  BY WorkerType, ScenarioType
<1>5. k \in Nat
  BY <1>4, EqualShares
<1>6. a # b
  BY <1>3, WorkerType
<1> HIDE DEF k, a, b
<1>7. a * k \in Nat /\ b * k \in Nat
  BY <1>4, <1>5
<1>8. CASE a < b
  <2>1. a * k + k <= b * k
    BY <1>4, <1>5, <1>8, MultiplesApart
  <2> QED
    BY <1>2, <1>3, <1>5, <1>7, <2>1
<1>9. CASE b < a
  <2>1. b * k + k <= a * k
    BY <1>4, <1>5, <1>9, MultiplesApart
  <2> QED
    BY <1>2, <1>3, <1>5, <1>7, <2>1
<1> QED
  BY <1>4, <1>6, <1>8, <1>9

(***************************************************************************)
(* Every instance of a concurrent scenario is in the share of a worker.    *)
(***************************************************************************)
LEMMA SharesCover ==
    ASSUME NEW s \in ScenarioIds, Scenarios[s].concurrency > 0,
           NEW x \in InstancesOf(s)
    PROVE  \E w \in Workers : w[1] = s /\ x \in WorkerInstances(w)
<1> DEFINE k == Share(s)
           c == Scenarios[s].concurrency
           i == x[2]
           q == i \div k
           r == i % k
<1>1. /\ c \in Nat /\ k \in Nat
      /\ Scenarios[s].scale = c * k
      /\ Scenarios[s].scale \in Nat
  BY ScenarioType, EqualShares
<1>2. x = <<s, i>> /\ i \in Nat /\ i < Scenarios[s].scale
  BY <1>1 DEF InstancesOf
<1> HIDE DEF k, c, i
<1>3. k > 0
  <2>1. i < c * k
    BY <1>1, <1>2
  <2>2. CASE k = 0
    <3>1. c * k = 0
      BY <1>1, <2>2
    <3> QED
      BY <1>2, <2>1, <3>1
  <2> QED
    BY <1>1, <2>2
<1>4. q \in Nat /\ r \in 0..k - 1 /\ i = q * k + r
  <2>1. i = k * q + r /\ q \in Nat /\ r \in 0..k - 1
    BY <1>1, <1>2, <1>3
  <2> HIDE DEF q, r
  <2>2. k * q = q * k
    BY <1>1, <2>1
  <2> QED
    BY <2>1, <2>2
<1> HIDE DEF q, r
<1>5. q < c
  <2> SUFFICES ASSUME c <= q PROVE FALSE
    BY <1>1, <1>4
  <2>1. c * k <= q * k
    <3>1. CASE c = q
      BY <1>1, <1>4, <3>1
    <3>2. CASE c < q
      <4>1. c * k + k <= q * k
        BY <1>1, <1>4, <3>2, MultiplesApart
      <4>2. c * k \in Nat /\ q * k \in Nat
        BY <1>1, <1>4
      <4> QED
        BY <1>1, <4>1, <4>2
    <3> QED
      BY <1>1, <1>4, <3>1, <3>2
  <2>2. c * k \in Nat /\ q * k \in Nat /\ i < c * k
    BY <1>1, <1>2, <1>4
  <2> QED
    BY <1>2, <1>4, <2>1, <2>2
<1> DEFINE w == <<s, q>>
<1>6. w \in Workers /\ w[1] = s /\ w[2] = q
  BY <1>4, <1>5, WorkerType DEF c
<1>7. x = <<s, r + q * k>>
  <2>1. q * k \in Nat /\ i = r + q * k
    BY <1>1, <1>4
  <2> QED
    BY <1>2, <2>1
<1> HIDE DEF w
<1>8. x \in WorkerInstances(w)
  BY <1>4, <1>6, <1>7, InstancesOfWorker DEF k
<1> QED
  BY <1>6, <1>8

-----------------------------------------------------------------------------
USE DEF vars, layoutVars, hostVars, produceVars, workerVars, outputVars,
        genUnchanged, produceUnchanged, workerUnchanged

(***************************************************************************)
(* The window, and what the generator has been asked to do.                *)
(***************************************************************************)
LEMMA WindowNext ==
    TypeOK /\ LifeInv /\ OwnerInv /\ WindowInv /\ [Next]_vars => WindowInv'
<1> SUFFICES ASSUME TypeOK, LifeInv, OwnerInv, WindowInv, [Next]_vars
             PROVE  WindowInv'
  OBVIOUS
<1> USE DEF WindowInv, LifeInv
<1>1. CASE LayOutShards \/ Constructed \/ CancelStartContext
              \/ ShutdownCollect \/ Tick \/ UNCHANGED vars
  BY <1>1 DEF LayOutShards, Constructed, CancelStartContext, ShutdownCollect, Tick
<1>8. CASE ShutdownCancel
  <2>1. /\ life \in {"created", "running"} /\ life' = "stopping"
        /\ life = "running" => ctxCancelled' = TRUE
        /\ UNCHANGED <<gen, currentTime, reported>>
    BY <1>8 DEF ShutdownCancel
  <2> QED
    BY <2>1
<1>2. CASE Start
  BY <1>2 DEF Start
<1>3. CASE LoopCancelled \/ BeginInterval \/ ReportFatal \/ CloseDone
  BY <1>3 DEF LoopCancelled, BeginInterval, ReportFatal, CloseDone
<1>4. CASE WindowEnd \/ SleepBeforeExit
  BY <1>4, WindowAssumption
     DEF WindowEnd, SleepBeforeExit, TypeOK, GeneratorTypeOK
<1>5. CASE SkipScenario \/ EnterScenario \/ AppendInstance \/ ReadTotal
              \/ WriteTotal \/ ConsumeSequential \/ SpawnWorker \/ AllSpawned
              \/ AwaitWorkers
  BY <1>5
     DEF SkipScenario, EnterScenario, AppendInstance, ReadTotal, WriteTotal,
         ConsumeSequential, SpawnWorker, AllSpawned, AwaitWorkers
<1>6. CASE Advance
  BY <1>6 DEF Advance
<1>7. ASSUME NEW w \in Workers, Worker(w)
      PROVE  WindowInv'
  BY <1>7 DEF Worker, WorkerAppend, WorkerCount, WorkerConsume
<1> QED
  BY <1>1, <1>2, <1>3, <1>4, <1>5, <1>6, <1>7, <1>8 DEF Next, Generator, Terminated

(***************************************************************************)
(* Only scenarios that generate logs get as far as a batch or a worker.    *)
(***************************************************************************)
LEMMA ScenarioNext ==
    TypeOK /\ LifeInv /\ OwnerInv /\ ScenarioInv /\ [Next]_vars => ScenarioInv'
<1> SUFFICES ASSUME TypeOK, LifeInv, OwnerInv, ScenarioInv, [Next]_vars
             PROVE  ScenarioInv'
  OBVIOUS
<1> USE DEF ScenarioInv, Live, Scn
<1>1. CASE EnterScenario
  <2>1. idx \in ScenarioIds /\ idx \in Generating
    BY <1>1, ScenarioType
       DEF EnterScenario, ScenarioIds, Generating, TypeOK, GeneratorTypeOK
  <2>2. Scenarios[idx].concurrency \in Nat
    BY <2>1, ScenarioType
  <2> QED
    BY <1>1, <2>1, <2>2 DEF EnterScenario
<1>2. CASE SpawnWorker
  <2> DEFINE w0 == <<idx, nextWorker>>
  <2>1. /\ gen = "spawn"
        /\ worker' = [worker EXCEPT ![w0] = "append"]
        /\ UNCHANGED <<gen, idx>>
    BY <1>2 DEF SpawnWorker
  <2>2. \A w \in Workers : worker'[w] # worker[w] => w = w0
    BY <2>1 DEF TypeOK, WorkerTypeOK
  <2>3. w0[1] \in Generating
    BY <2>1
  <2> HIDE DEF w0
  <2>4. \A w \in Workers : Live(w)' => w[1] \in Generating
    BY <2>2, <2>3
  <2> QED
    BY <2>1, <2>4
<1>3. CASE AwaitWorkers
  BY <1>3, ScenarioType DEF AwaitWorkers, TypeOK, GeneratorTypeOK
<1>4. ASSUME NEW w \in Workers, Worker(w)
      PROVE  ScenarioInv'
  <2>1. UNCHANGED <<gen, idx>> /\ \A v \in Workers : Live(v)' => Live(v)
    BY <1>4
       DEF Worker, WorkerAppend, WorkerCount, WorkerConsume, TypeOK, WorkerTypeOK
  <2> QED
    BY <2>1
<1>5. CASE /\ UNCHANGED worker
           /\ gen' \notin {"append", "write", "consume", "spawn", "tick"}
  BY <1>5
<1>6. CASE /\ UNCHANGED <<worker, idx>>
           /\ gen' = gen \/ (gen \in {"append", "write"} /\ gen' \in {"write", "consume"})
  BY <1>6
<1> QED
  <2>1. CASE Start \/ LoopCancelled \/ BeginInterval \/ WindowEnd
                \/ SleepBeforeExit \/ ReportFatal \/ CloseDone \/ SkipScenario
                \/ ConsumeSequential \/ AllSpawned \/ Advance
    BY <1>5, <2>1
       DEF Start, LoopCancelled, BeginInterval, WindowEnd, SleepBeforeExit,
           ReportFatal, CloseDone, SkipScenario, ConsumeSequential, AllSpawned,
           Advance
  <2>2. CASE LayOutShards \/ Constructed \/ CancelStartContext
                \/ ShutdownCancel \/ ShutdownCollect \/ AppendInstance
                \/ ReadTotal \/ WriteTotal \/ Tick \/ UNCHANGED vars
    BY <1>6, <2>2
       DEF LayOutShards, Constructed, CancelStartContext, ShutdownCancel,
           ShutdownCollect, AppendInstance, ReadTotal, WriteTotal, Tick
  <2> QED
    BY <1>1, <1>2, <1>3, <1>4, <2>1, <2>2 DEF Next, Generator, Terminated

-----------------------------------------------------------------------------
(***************************************************************************)
(* The instances of two scenarios are distinct, and a worker's are those   *)
(* of its scenario.                                                        *)
(***************************************************************************)
LEMMA ScenariosDisjoint ==
    /\ \A s, t \in ScenarioIds : s # t => InstancesOf(s) \cap InstancesOf(t) = {}
    /\ \A w \in Workers : WorkerInstances(w) \subseteq InstancesOf(w[1])
  BY DEF InstancesOf, WorkerInstances

(***************************************************************************)
(* A batch of others leaves it as it was whether instances are delivered.  *)
(***************************************************************************)
LEMMA OthersDelivered ==
    ASSUME NEW instances, NEW others, NEW all \in BOOLEAN,
           instances \cap others = {},
           AllOrNone(instances, all),
           delivered' = delivered \cup others
    PROVE  IF all THEN instances \subseteq delivered'
                  ELSE instances \cap delivered' = {}
<1>1. CASE all
  BY <1>1 DEF AllOrNone
<1>2. CASE ~all
  BY <1>2 DEF AllOrNone
<1> QED
  BY <1>1, <1>2

(***************************************************************************)
(* A scenario is delivered when produceLogs has passed it and its workers  *)
(* are done, and not before.                                               *)
(***************************************************************************)
LEMMA DeliveredNext ==
    /\ TypeOK /\ LifeInv /\ BaseInv /\ OwnerInv
    /\ ScenarioInv /\ DeliveredInv /\ [Next]_vars
    => DeliveredInv'
<1> SUFFICES ASSUME TypeOK, LifeInv, BaseInv, OwnerInv, ScenarioInv,
                    DeliveredInv, [Next]_vars
             PROVE  DeliveredInv'
  OBVIOUS
<1> DEFINE SequentialPart ==
               \A s \in Generating :
                  Scenarios[s].concurrency = 0 =>
                      IF s < idx' THEN InstancesOf(s) \subseteq delivered'
                                  ELSE InstancesOf(s) \cap delivered' = {}
           Done(w) == Spawned(w) /\ ~Live(w)
           WorkerPart ==
               \A w \in Workers :
                  w[1] \in Generating =>
                      IF Done(w)' THEN WorkerInstances(w) \subseteq delivered'
                                  ELSE WorkerInstances(w) \cap delivered' = {}
<1>a. ASSUME delivered' \subseteq InstancesGenerating,
             ~InInterval' => delivered' = {},
             InInterval' => SequentialPart /\ WorkerPart
      PROVE  DeliveredInv'
  BY <1>a DEF DeliveredInv, AllOrNone
<1>b. \A s \in Generating : s \in ScenarioIds /\ s \in Nat
  BY ScenarioType DEF Generating, ScenarioIds
<1>c. idx \in Nat /\ nextWorker \in Nat
  BY ScenarioType DEF TypeOK, GeneratorTypeOK
<1>d. \A w \in Workers : /\ w[1] \in ScenarioIds /\ w[1] \in Nat
                         /\ w[2] \in Nat
                         /\ Scenarios[w[1]].concurrency \in Nat
                         /\ w[2] < Scenarios[w[1]].concurrency
  BY WorkerType, ScenarioType DEF ScenarioIds
<1>e. ASSUME InInterval
      PROVE  /\ \A s \in Generating :
                   Scenarios[s].concurrency = 0 => AllOrNone(InstancesOf(s), s < idx)
             /\ \A w \in Workers :
                   w[1] \in Generating => AllOrNone(WorkerInstances(w), Done(w))
  BY <1>e DEF DeliveredInv
<1>f. delivered \subseteq InstancesGenerating /\ (~InInterval => delivered = {})
  BY DEF DeliveredInv
<1> HIDE DEF Done
<1>1. ASSUME UNCHANGED delivered,
             InInterval' => InInterval,
             ~InInterval' => ~InInterval,
             \A s \in Generating :
                Scenarios[s].concurrency = 0 => (s < idx' <=> s < idx),
             \A w \in Workers : w[1] \in Generating => (Done(w)' <=> Done(w))
      PROVE  DeliveredInv'
  <2>1. ASSUME InInterval' PROVE SequentialPart
    BY <1>1, <1>e, <2>1 DEF AllOrNone
  <2>2. ASSUME InInterval' PROVE WorkerPart
    BY <1>1, <1>e, <2>2 DEF AllOrNone
  <2> HIDE DEF SequentialPart, WorkerPart
  <2> QED
    BY <1>1, <1>a, <1>f, <2>1, <2>2
<1>2. ASSUME ~InInterval', delivered' = {}
      PROVE  DeliveredInv'
  BY <1>a, <1>2
<1>3. CASE BeginInterval
  <2>1. /\ idx' = 1 /\ gen' = "scenario" /\ delivered' = delivered /\ gen = "loop"
    BY <1>3 DEF BeginInterval
  <2>2. InInterval' /\ delivered' = {}
    BY <1>f, <2>1 DEF InInterval, InProduceLogs
  <2>3. \A w \in Workers : ~Done(w)'
    BY <1>d, <2>1 DEF Done, Spawned, ScenarioIds
  <2>4. \A s \in Generating : ~(s < idx')
    BY <1>b, <2>1 DEF ScenarioIds
  <2>5. SequentialPart
    BY <2>2, <2>4
  <2>6. WorkerPart
    BY <2>2, <2>3
  <2> QED
    BY <1>a, <2>2, <2>5, <2>6
<1>4. CASE SkipScenario
  <2>1. /\ gen = "scenario" /\ gen' = gen /\ idx' = idx + 1
        /\ idx \notin Generating
        /\ UNCHANGED <<delivered, worker>>
    BY <1>4 DEF SkipScenario, Generating, Scn
  <2>2. \A s \in Generating : s < idx' <=> s < idx
    BY <1>b, <1>c, <2>1
  <2>3. \A w \in Workers : w[1] \in Generating => (Done(w)' <=> Done(w))
    BY <2>1, <2>2 DEF Done, Spawned, Live
  <2> QED
    BY <1>1, <2>1, <2>2, <2>3 DEF InInterval, InProduceLogs
<1>5. CASE EnterScenario
  <2>1. /\ gen = "scenario" /\ gen' \in {"append", "spawn"} /\ nextWorker' = 0
        /\ UNCHANGED <<delivered, worker, idx>>
    BY <1>5 DEF EnterScenario
  <2>2. \A w \in Workers : Done(w)' <=> Done(w)
    BY <1>d, <2>1 DEF Done, Spawned, Live
  <2> QED
    BY <1>1, <2>1, <2>2 DEF InInterval, InProduceLogs
<1>6. CASE ConsumeSequential
  <2>1. /\ gen = "consume" /\ gen' = "scenario" /\ idx' = idx + 1
        /\ delivered' = delivered \cup InstancesOf(idx)
        /\ UNCHANGED worker
    BY <1>6 DEF ConsumeSequential
  <2>2. /\ InInterval /\ InInterval'
        /\ idx \in Generating /\ Scenarios[idx].concurrency = 0
    BY <2>1 DEF InInterval, InProduceLogs, ScenarioInv, Scn
  <2>3. delivered' \subseteq InstancesGenerating
    BY <1>f, <2>1, <2>2 DEF InstancesGenerating
  <2>4. SequentialPart
    <3> SUFFICES ASSUME NEW s \in Generating, Scenarios[s].concurrency = 0
                 PROVE  IF s < idx' THEN InstancesOf(s) \subseteq delivered'
                                    ELSE InstancesOf(s) \cap delivered' = {}
      OBVIOUS
    <3>1. CASE s = idx
      BY <1>c, <2>1, <3>1
    <3>2. CASE s # idx
      <4>1. InstancesOf(s) \cap InstancesOf(idx) = {}
        BY <1>b, <2>2, <3>2, ScenariosDisjoint
      <4>2. s < idx' <=> s < idx
        BY <1>b, <1>c, <2>1, <3>2
      <4>3. AllOrNone(InstancesOf(s), s < idx)
        BY <1>e, <2>2
      <4>4. (s < idx) \in BOOLEAN
        BY <1>b, <1>c
      <4>5. IF s < idx THEN InstancesOf(s) \subseteq delivered'
                       ELSE InstancesOf(s) \cap delivered' = {}
        BY <2>1, <4>1, <4>3, <4>4, OthersDelivered
      <4> QED
        BY <4>2, <4>5
    <3> QED
      BY <3>1, <3>2
  <2>5. WorkerPart
    <3> SUFFICES ASSUME NEW w \in Workers, w[1] \in Generating
                 PROVE  IF Done(w)' THEN WorkerInstances(w) \subseteq delivered'
                                    ELSE WorkerInstances(w) \cap delivered' = {}
      OBVIOUS
    <3>1. w[1] # idx
      BY <1>d, <2>2
    <3>2. WorkerInstances(w) \cap InstancesOf(idx) = {}
      BY <1>b, <1>d, <2>2, <3>1, ScenariosDisjoint
    <3>3. Done(w)' <=> Done(w)
      BY <1>c, <1>d, <2>1, <3>1 DEF Done, Spawned, Live
    <3>4. AllOrNone(WorkerInstances(w), Done(w)) /\ Done(w) \in BOOLEAN
      BY <1>e, <2>2 DEF Done
    <3>5. IF Done(w) THEN WorkerInstances(w) \subseteq delivered'
                     ELSE WorkerInstances(w) \cap delivered' = {}
      BY <2>1, <3>2, <3>4, OthersDelivered
    <3> QED
      BY <3>3, <3>5
  <2> QED
    BY <1>a, <2>2, <2>3, <2>4, <2>5
<1>7. CASE SpawnWorker
  <2> DEFINE w0 == <<idx, nextWorker>>
  <2>1. /\ gen = "spawn" /\ gen' = gen /\ nextWorker' = nextWorker + 1
        /\ nextWorker < Scn.concurrency
        /\ worker' = [worker EXCEPT ![w0] = "append"]
        /\ UNCHANGED <<delivered, idx>>
    BY <1>7 DEF SpawnWorker
  <2>2. w0 \in Workers
    BY <1>c, <2>1, WorkerType DEF Scn, TypeOK, GeneratorTypeOK
  <2>3. ASSUME NEW w \in Workers PROVE Done(w)' <=> Done(w)
    <3>1. CASE w = w0
      <4>1. Live(w)'
        BY <2>1, <2>2, <3>1 DEF Live, TypeOK, WorkerTypeOK
      <4>2. ~Spawned(w)
        BY <1>c, <3>1 DEF Spawned
      <4> QED
        BY <4>1, <4>2 DEF Done
    <3>2. CASE w # w0
      <4>1. Live(w)' <=> Live(w)
        BY <2>1, <2>2, <3>2 DEF Live, TypeOK, WorkerTypeOK
      <4>2. w[1] # idx \/ w[2] # nextWorker
        BY <3>2, WorkerType
      <4>3. Spawned(w)' <=> Spawned(w)
        BY <1>c, <1>d, <2>1, <4>2 DEF Spawned
      <4> QED
        BY <4>1, <4>3 DEF Done
    <3> QED
      BY <3>1, <3>2
  <2> QED
    BY <1>1, <2>1, <2>3 DEF InInterval, InProduceLogs
<1>8. CASE AllSpawned
  <2>1. /\ gen = "spawn" /\ gen' = "scenario" /\ idx' = idx + 1
        /\ nextWorker = Scenarios[idx].concurrency
        /\ UNCHANGED <<delivered, worker, nextWorker>>
    BY <1>8 DEF AllSpawned, Scn
  <2>2. Scenarios[idx].concurrency > 0 /\ idx \in Generating
    BY <2>1 DEF ScenarioInv, Scn
  <2>3. \A s \in Generating :
           Scenarios[s].concurrency = 0 => (s < idx' <=> s < idx)
    <3> SUFFICES ASSUME NEW s \in Generating, Scenarios[s].concurrency = 0
                 PROVE  s < idx' <=> s < idx
      OBVIOUS
    <3>1. s # idx
      BY <2>2
    <3> QED
      BY <1>b, <1>c, <2>1, <3>1
  <2>4. ASSUME NEW w \in Workers PROVE Spawned(w)' <=> Spawned(w)
    <3>1. CASE w[1] = idx
      BY <1>c, <1>d, <2>1, <3>1 DEF Spawned
    <3>2. CASE w[1] # idx
      BY <1>c, <1>d, <2>1, <3>2 DEF Spawned
    <3> QED
      BY <3>1, <3>2
  <2>5. \A w \in Workers : Done(w)' <=> Done(w)
    BY <2>1, <2>4 DEF Done, Live
  <2> QED
    BY <1>1, <2>1, <2>3, <2>5 DEF InInterval, InProduceLogs
<1>9. ASSUME NEW w \in Workers, WorkerConsume(w)
      PROVE  DeliveredInv'
  <2>1. /\ Live(w)
        /\ worker' = [worker EXCEPT ![w] = "off"]
        /\ delivered' = delivered \cup WorkerInstances(w)
        /\ UNCHANGED <<gen, idx, nextWorker>>
    BY <1>9 DEF WorkerConsume, Live
  <2>2. /\ Spawned(w) /\ InInterval /\ InInterval'
        /\ w[1] \in Generating /\ Scenarios[w[1]].concurrency # 0
    BY <1>d, <2>1 DEF OwnerInv, InInterval, InProduceLogs, ScenarioInv
  <2>3. delivered' \subseteq InstancesGenerating
    BY <1>f, <2>1, <2>2, ScenariosDisjoint DEF InstancesGenerating
  <2>4. SequentialPart
    <3> SUFFICES ASSUME NEW s \in Generating, Scenarios[s].concurrency = 0
                 PROVE  IF s < idx' THEN InstancesOf(s) \subseteq delivered'
                                    ELSE InstancesOf(s) \cap delivered' = {}
      OBVIOUS
    <3>1. s # w[1]
      BY <2>2
    <3>2. InstancesOf(s) \cap WorkerInstances(w) = {}
      BY <1>b, <1>d, <3>1, ScenariosDisjoint
    <3>3. AllOrNone(InstancesOf(s), s < idx)
      BY <1>e, <2>2
    <3>4. (s < idx) \in BOOLEAN
      BY <1>b, <1>c
    <3>5. IF s < idx THEN InstancesOf(s) \subseteq delivered'
                     ELSE InstancesOf(s) \cap delivered' = {}
      BY <2>1, <3>2, <3>3, <3>4, OthersDelivered
    <3> QED
      BY <2>1, <3>5
  <2>5. WorkerPart
    <3> SUFFICES ASSUME NEW v \in Workers, v[1] \in Generating
                 PROVE  IF Done(v)' THEN WorkerInstances(v) \subseteq delivered'
                                    ELSE WorkerInstances(v) \cap delivered' = {}
      OBVIOUS
    <3>1. CASE v = w
      <4>1. Done(v)'
        BY <2>1, <2>2, <3>1 DEF Done, Spawned, Live, TypeOK, WorkerTypeOK
      <4> QED
        BY <2>1, <3>1, <4>1
    <3>2. CASE v # w
      <4>1. WorkerInstances(v) \cap WorkerInstances(w) = {}
        BY <3>2, SharesDisjoint
      <4>2. Done(v)' <=> Done(v)
        BY <2>1, <3>2 DEF Done, Spawned, Live, TypeOK, WorkerTypeOK
      <4>3. AllOrNone(WorkerInstances(v), Done(v)) /\ Done(v) \in BOOLEAN
        BY <1>e, <2>2 DEF Done
      <4>4. IF Done(v) THEN WorkerInstances(v) \subseteq delivered'
                       ELSE WorkerInstances(v) \cap delivered' = {}
        BY <2>1, <4>1, <4>3, OthersDelivered
      <4> QED
        BY <4>2, <4>4
    <3> QED
      BY <3>1, <3>2
  <2> QED
    BY <1>a, <2>2, <2>3, <2>4, <2>5
<1>10. ASSUME NEW w \in Workers, WorkerAppend(w) \/ WorkerCount(w)
       PROVE  DeliveredInv'
  <2>1. /\ \A v \in Workers : Live(v)' <=> Live(v)
        /\ UNCHANGED <<gen, idx, nextWorker, delivered>>
    BY <1>10 DEF WorkerAppend, WorkerCount, Live, TypeOK, WorkerTypeOK
  <2>2. \A v \in Workers : Done(v)' <=> Done(v)
    BY <2>1 DEF Done, Spawned
  <2> QED
    BY <1>1, <2>1, <2>2 DEF InInterval, InProduceLogs
<1>11. CASE /\ UNCHANGED <<delivered, worker, idx, nextWorker>>
            /\ InInterval' <=> InInterval
            /\ gen' = "spawn" <=> gen = "spawn"
  <2>1. \A w \in Workers : Done(w)' <=> Done(w)
    BY <1>11 DEF Done, Spawned, Live
  <2> QED
    BY <1>1, <1>11, <2>1
<1> QED
  <2>1. CASE Start \/ LoopCancelled \/ WindowEnd \/ SleepBeforeExit
                \/ ReportFatal \/ CloseDone \/ Advance
    <3>1. ~InInterval' /\ (delivered' = {} \/ (~InInterval /\ UNCHANGED delivered))
      BY <2>1
         DEF Start, LoopCancelled, WindowEnd, SleepBeforeExit, ReportFatal,
             CloseDone, Advance, InInterval, InProduceLogs, LifeInv
    <3> QED
      BY <1>2, <1>f, <3>1
  <2>2. CASE LayOutShards \/ Constructed \/ CancelStartContext
                \/ ShutdownCancel \/ ShutdownCollect \/ AppendInstance
                \/ ReadTotal \/ WriteTotal \/ AwaitWorkers \/ Tick
                \/ UNCHANGED vars
    BY <1>11, <2>2
       DEF LayOutShards, Constructed, CancelStartContext, ShutdownCancel,
           ShutdownCollect, AppendInstance, ReadTotal, WriteTotal,
           AwaitWorkers, Tick, InInterval, InProduceLogs
  <2> QED
    BY <1>3, <1>4, <1>5, <1>6, <1>7, <1>8, <1>9, <1>10, <2>1, <2>2
       DEF Next, Generator, Worker, Terminated

-----------------------------------------------------------------------------
LEMMA StreamInvInit == Init => StreamInv
<1> SUFFICES ASSUME Init PROVE StreamInv
  OBVIOUS
<1>1. DeliveredInv
  BY DEF Init, DeliveredInv, InInterval, InProduceLogs
<1>2. ScenarioInv /\ WindowInv
  BY DEF Init, ScenarioInv, WindowInv, Live
<1> QED
  BY <1>1, <1>2 DEF StreamInv

LEMMA StreamInvNext ==
    /\ TypeOK /\ LifeInv /\ BaseInv /\ OwnerInv /\ StreamInv /\ [Next]_vars
    => StreamInv'
  BY WindowNext, ScenarioNext, DeliveredNext DEF StreamInv

(***************************************************************************)
(* When produceLogs has returned, every instance was delivered.            *)
(***************************************************************************)
LEMMA AllDelivered ==
    ASSUME TypeOK, OwnerInv, StreamInv, gen = "tick"
    PROVE  delivered = InstancesGenerating
<1> USE DEF StreamInv
<1>1. delivered \subseteq InstancesGenerating
  BY DEF DeliveredInv
<1>2. idx \in Nat /\ idx > Len(Scenarios) /\ Len(Scenarios) \in Nat
  BY ScenarioType DEF ScenarioInv, TypeOK, GeneratorTypeOK
<1>3. ASSUME NEW s \in Generating, NEW x \in InstancesOf(s)
      PROVE  x \in delivered
  <2>1. s \in ScenarioIds /\ s < idx /\ Scenarios[s].concurrency \in Nat
    BY <1>2, ScenarioType DEF Generating, ScenarioIds
  <2>2. CASE Scenarios[s].concurrency = 0
    BY <1>3, <2>1, <2>2 DEF DeliveredInv, InInterval, AllOrNone
  <2>3. CASE Scenarios[s].concurrency > 0
    <3>1. PICK w \in Workers : w[1] = s /\ x \in WorkerInstances(w)
      BY <1>3, <2>1, <2>3, SharesCover
    <3>2. Spawned(w) /\ ~Live(w)
      BY <2>1, <3>1 DEF Spawned, OwnerInv, InProduceLogs
    <3>3. AllOrNone(WorkerInstances(w), Spawned(w) /\ ~Live(w))
      BY <3>1 DEF DeliveredInv, InInterval
    <3> QED
      BY <3>1, <3>2, <3>3 DEF AllOrNone
  <2> QED
    BY <2>1, <2>2, <2>3
<1> QED
  BY <1>1, <1>3 DEF InstancesGenerating

LEMMA StreamInit == Init => Stream!Init
  BY DEF Init, Stream!Init, StreamPhase, AskedToStop, InInterval, InProduceLogs

(***************************************************************************)
(* Every step of the receiver is a step of the stream it implements, or    *)
(* nothing the consumer sees.                                              *)
(***************************************************************************)
LEMMA StreamStep ==
    TypeOK /\ LifeInv /\ OwnerInv /\ StreamInv /\ [Next]_vars
        => [Stream!Next]_(Stream!streamVars)
<1> SUFFICES ASSUME TypeOK, LifeInv, OwnerInv, StreamInv, [Next]_vars
             PROVE  Stream!Next \/ UNCHANGED Stream!streamVars
  OBVIOUS
<1> USE DEF StreamInv
<1>a. /\ ctxCancelled \in BOOLEAN /\ reported \in BOOLEAN
      /\ life = "stopped" => gen \in {"off", "finished"}
  BY DEF TypeOK, HostTypeOK, LifeInv
<1>b. ASSUME UNCHANGED <<StreamPhase, AskedToStop, currentTime, InInterval,
                         delivered, reported>>
      PROVE  UNCHANGED Stream!streamVars
  BY <1>b DEF Stream!streamVars
<1>1. CASE Start
  <2>1. /\ StreamPhase = "idle" /\ StreamPhase' = "open"
        /\ ~AskedToStop /\ AskedToStop' = AskedToStop
        /\ ~InInterval /\ InInterval' = InInterval
        /\ UNCHANGED <<currentTime, delivered, reported>>
    BY <1>1, <1>a DEF Start, StreamPhase, AskedToStop, InInterval, InProduceLogs,
                LifeInv, WindowInv
  <2> QED
    BY <2>1 DEF Stream!Next, Stream!Open
<1>2. CASE CancelStartContext \/ ShutdownCancel
  <2>1. /\ StreamPhase' = StreamPhase /\ InInterval' = InInterval
        /\ AskedToStop' = TRUE
        /\ UNCHANGED <<currentTime, delivered, reported>>
    BY <1>2 DEF CancelStartContext, ShutdownCancel, StreamPhase, AskedToStop,
                InInterval, InProduceLogs
  <2>2. CASE AskedToStop
    <3>1. AskedToStop' = AskedToStop
      BY <1>a, <2>1, <2>2 DEF AskedToStop
    <3> QED
      BY <1>b, <2>1, <3>1
  <2>3. CASE ~AskedToStop
    BY <2>1, <2>3 DEF Stream!Next, Stream!AskToStop
  <2> QED
    BY <2>2, <2>3
<1>3. CASE BeginInterval
  <2>1. /\ gen = "loop" /\ gen' = "scenario" /\ ~ctxCancelled /\ currentTime < EndTime
        /\ UNCHANGED <<life, ctxCancelled, currentTime, delivered, reported>>
    BY <1>3 DEF BeginInterval
  <2>2. life \notin {"stopping", "stopped"}
    BY <1>a, <2>1 DEF WindowInv
  <2>3. /\ StreamPhase = "open" /\ StreamPhase' = StreamPhase
        /\ ~AskedToStop /\ AskedToStop' = AskedToStop
        /\ ~InInterval /\ InInterval' = TRUE
    BY <2>1, <2>2 DEF StreamPhase, AskedToStop, InInterval, InProduceLogs
  <2> QED
    BY <2>1, <2>3 DEF Stream!Next, Stream!BeginInterval
<1>4. CASE ConsumeSequential
  <2>1. /\ gen = "consume" /\ gen' = "scenario"
        /\ delivered' = delivered \cup InstancesOf(idx)
        /\ UNCHANGED <<life, ctxCancelled, currentTime, reported>>
    BY <1>4 DEF ConsumeSequential
  <2>2. /\ StreamPhase' = StreamPhase /\ AskedToStop' = AskedToStop
        /\ InInterval /\ InInterval' = InInterval
    BY <2>1 DEF StreamPhase, AskedToStop, InInterval, InProduceLogs
  <2>3. idx \in Generating /\ Scenarios[idx].concurrency = 0
    BY <2>1 DEF ScenarioInv, Scn
  <2>4. ~(idx < idx)
    BY ScenarioType DEF TypeOK, GeneratorTypeOK
  <2>5. InstancesOf(idx) \cap delivered = {}
    BY <2>2, <2>3, <2>4 DEF DeliveredInv, AllOrNone
  <2>6. InstancesOf(idx) \in SUBSET InstancesGenerating
    BY <2>3 DEF InstancesGenerating
  <2>7. Stream!Deliver(InstancesOf(idx))
    BY <2>1, <2>2, <2>5 DEF Stream!Deliver
  <2> QED
    BY <2>6, <2>7 DEF Stream!Next
<1>5. ASSUME NEW w \in Workers, WorkerConsume(w)
      PROVE  Stream!Next
  <2>1. /\ Live(w)
        /\ delivered' = delivered \cup WorkerInstances(w)
        /\ UNCHANGED <<life, ctxCancelled, gen, currentTime, reported>>
    BY <1>5 DEF WorkerConsume, Live
  <2>2. /\ StreamPhase' = StreamPhase /\ AskedToStop' = AskedToStop
        /\ InInterval /\ InInterval' = InInterval
        /\ w[1] \in Generating
    BY <2>1 DEF StreamPhase, AskedToStop, InInterval, InProduceLogs, OwnerInv,
                ScenarioInv
  <2>3. WorkerInstances(w) \cap delivered = {}
    BY <2>1, <2>2 DEF DeliveredInv, AllOrNone
  <2>4. WorkerInstances(w) \in SUBSET InstancesGenerating
    BY <2>2, ScenariosDisjoint DEF InstancesGenerating
  <2>5. Stream!Deliver(WorkerInstances(w))
    BY <2>1, <2>2, <2>3 DEF Stream!Deliver
  <2> QED
    BY <2>4, <2>5 DEF Stream!Next
<1>6. CASE Advance
  <2>1. /\ gen = "tick" /\ gen' = "loop" /\ delivered' = {}
        /\ currentTime' = currentTime + Interval
        /\ UNCHANGED <<life, ctxCancelled, reported>>
    BY <1>6 DEF Advance
  <2>2. /\ StreamPhase' = StreamPhase /\ AskedToStop' = AskedToStop
        /\ InInterval /\ InInterval' = FALSE
    BY <2>1 DEF StreamPhase, AskedToStop, InInterval, InProduceLogs
  <2>3. delivered = InstancesGenerating
    BY <2>1, AllDelivered
  <2> QED
    BY <2>1, <2>2, <2>3 DEF Stream!Next, Stream!EndInterval
<1>7. CASE ReportFatal
  <2>1. /\ gen = "report" /\ gen' = "closing" /\ reported' = TRUE
        /\ UNCHANGED <<life, ctxCancelled, currentTime, delivered>>
    BY <1>7 DEF ReportFatal
  <2>2. /\ StreamPhase = "open" /\ StreamPhase' = StreamPhase
        /\ AskedToStop' = AskedToStop
        /\ ~InInterval /\ InInterval' = InInterval
    BY <1>a, <2>1 DEF StreamPhase, AskedToStop, InInterval, InProduceLogs
  <2>3. ~reported /\ ExitAfterEnd /\ currentTime >= EndTime
    BY <2>1 DEF WindowInv
  <2> QED
    BY <2>1, <2>2, <2>3 DEF Stream!Next, Stream!TellEnd
<1>8. CASE ShutdownCollect
  <2>1. /\ life = "stopping" /\ life' = "stopped" /\ gen \in {"off", "finished"}
        /\ UNCHANGED <<gen, ctxCancelled, currentTime, delivered, reported>>
    BY <1>8 DEF ShutdownCollect, LifeInv
  <2>2. /\ StreamPhase # "closed" /\ StreamPhase' = "closed"
        /\ AskedToStop /\ AskedToStop' = AskedToStop
        /\ ~InInterval /\ InInterval' = InInterval
    BY <1>a, <2>1 DEF StreamPhase, AskedToStop, InInterval, InProduceLogs
  <2> QED
    BY <2>1, <2>2 DEF Stream!Next, Stream!Close
<1>9. CASE LayOutShards \/ Constructed
  <2>1. /\ life = "constructing" /\ life' \in {"constructing", "created"}
        /\ UNCHANGED <<ctxCancelled, gen, currentTime, delivered, reported>>
    BY <1>9 DEF LayOutShards, Constructed
  <2> QED
    BY <1>b, <2>1 DEF StreamPhase, AskedToStop, InInterval, InProduceLogs
<1>10. CASE /\ UNCHANGED <<life, ctxCancelled, currentTime, delivered, reported>>
            /\ InInterval' = InInterval
            /\ gen' = "off" <=> gen = "off"
  <2>1. StreamPhase' = StreamPhase /\ AskedToStop' = AskedToStop
    BY <1>10 DEF StreamPhase, AskedToStop
  <2> QED
    BY <1>b, <1>10, <2>1
<1> QED
  <2>1. CASE LoopCancelled \/ WindowEnd \/ SleepBeforeExit \/ CloseDone
                \/ Tick \/ UNCHANGED vars
    BY <1>10, <2>1
       DEF LoopCancelled, WindowEnd, SleepBeforeExit, CloseDone, Tick,
           InInterval, InProduceLogs
  <2>2. CASE SkipScenario \/ EnterScenario \/ AppendInstance \/ ReadTotal
                \/ WriteTotal \/ SpawnWorker \/ AllSpawned \/ AwaitWorkers
    BY <1>10, <2>2
       DEF SkipScenario, EnterScenario, AppendInstance, ReadTotal, WriteTotal,
           SpawnWorker, AllSpawned, AwaitWorkers, InInterval, InProduceLogs
  <2>3. ASSUME NEW w \in Workers, WorkerAppend(w) \/ WorkerCount(w)
        PROVE  Stream!Next \/ UNCHANGED Stream!streamVars
    <3>1. UNCHANGED <<life, ctxCancelled, gen, currentTime, delivered, reported>>
      BY <2>3 DEF WorkerAppend, WorkerCount
    <3> QED
      BY <1>10, <3>1 DEF InInterval, InProduceLogs
  <2> QED
    BY <1>1, <1>2, <1>3, <1>4, <1>5, <1>6, <1>7, <1>8, <1>9, <2>1, <2>2, <2>3
       DEF Next, Generator, Worker, Terminated
-----------------------------------------------------------------------------
USE DEF FirstFreeShard, Spawned

(***************************************************************************)
(* An index in range is not changed by the wrap-around of Shard.           *)
(***************************************************************************)
LEMMA ShardInRange ==
    ASSUME totalConcurrentShards \in Nat, NEW i \in Nat,
           i <= totalConcurrentShards
    PROVE  Shard(i) = i
  BY DEF Shard, NumShards

(***************************************************************************)
(* Adding to one count leaves a function of counts.                        *)
(***************************************************************************)
LEMMA AddToCount ==
    ASSUME NEW D, NEW f \in [D -> Nat], NEW k, NEW n \in Nat
    PROVE  [f EXCEPT ![k] = @ + n] \in [D -> Nat]
<1> DEFINE g == [f EXCEPT ![k] = @ + n]
<1>1. g = [i \in D |-> IF i = k THEN f[k] + n ELSE f[i]]
  OBVIOUS
<1>2. ASSUME NEW i \in D PROVE (IF i = k THEN f[k] + n ELSE f[i]) \in Nat
  <2>1. CASE i = k
    BY <2>1
  <2>2. CASE i # k
    BY <2>2
  <2> QED
    BY <2>1, <2>2
<1> QED
  BY <1>1, <1>2
-----------------------------------------------------------------------------
(***************************************************************************)
(* Type correctness.                                                       *)
(***************************************************************************)
LEMMA TypeInit == Init => TypeOK
<1> SUFFICES ASSUME Init PROVE TypeOK
  OBVIOUS
<1> USE DEF Init, ShardIds
<1>1. HostTypeOK
  <2>1. summary \in [stats : {<<>>} \cup [ShardIds -> Nat], logs : Nat]
    OBVIOUS
  <2>2. laidOut \in 0..Len(Scenarios) /\ shardBase \in [ScenarioIds -> Nat]
    BY ScenarioType
  <2> QED
    BY <2>1, <2>2 DEF HostTypeOK
<1>2. GeneratorTypeOK
  <2>1. idx \in 1..Len(Scenarios) + 1 /\ currentTime \in Int
    BY ScenarioType, WindowAssumption
  <2> QED
    BY <2>1 DEF GeneratorTypeOK
<1>3. WorkerTypeOK
  BY DEF WorkerTypeOK
<1>4. OutputTypeOK
  BY DEF OutputTypeOK
<1> QED
  BY <1>1, <1>2, <1>3, <1>4 DEF TypeOK

LEMMA HostTypeNext == TypeOK /\ [Next]_vars => HostTypeOK'
<1> SUFFICES ASSUME TypeOK, [Next]_vars PROVE HostTypeOK'
  OBVIOUS
<1> USE DEF TypeOK, HostTypeOK, ShardIds
<1>1. CASE LayOutShards
  BY <1>1, ScenarioType DEF LayOutShards, ScenarioIds
<1>2. CASE Constructed \/ Start \/ CancelStartContext \/ ShutdownCancel
  BY <1>2 DEF Constructed, Start, CancelStartContext, ShutdownCancel
<1>3. CASE ShutdownCollect
  BY <1>3 DEF ShutdownCollect, OutputTypeOK
<1>4. CASE ReportFatal \/ CloseDone
  BY <1>4 DEF ReportFatal, CloseDone
<1>5. CASE UNCHANGED <<hostVars, layoutVars, ctxCancelled, doneClosed>>
  BY <1>5
<1> QED
  BY <1>1, <1>2, <1>3, <1>4, <1>5
     DEF Next, Generator, Worker, Terminated, LoopCancelled, BeginInterval,
         WindowEnd, SleepBeforeExit, SkipScenario, EnterScenario,
         AppendInstance, ReadTotal, WriteTotal, ConsumeSequential, SpawnWorker,
         AllSpawned, AwaitWorkers, Advance, Tick, WorkerAppend, WorkerCount,
         WorkerConsume

LEMMA GeneratorTypeNext == TypeOK /\ [Next]_vars => GeneratorTypeOK'
<1> SUFFICES ASSUME TypeOK, [Next]_vars PROVE GeneratorTypeOK'
  OBVIOUS
<1> USE DEF TypeOK, GeneratorTypeOK
<1>1. CASE Start \/ LoopCancelled \/ WindowEnd \/ SleepBeforeExit \/ ReportFatal \/ CloseDone
  BY <1>1, WindowAssumption
     DEF Start, LoopCancelled, WindowEnd, SleepBeforeExit, ReportFatal, CloseDone
<1>2. CASE BeginInterval
  BY <1>2, ScenarioType DEF BeginInterval
<1>3. CASE SkipScenario
  BY <1>3, ScenarioType DEF SkipScenario
<1>13. CASE EnterScenario
  BY <1>13, ScenarioType DEF EnterScenario, ScenarioIds
<1>4. CASE AppendInstance
  BY <1>4, VolumesAssumption DEF AppendInstance
<1>5. CASE ReadTotal \/ WriteTotal
  BY <1>5 DEF ReadTotal, WriteTotal
<1>6. CASE ConsumeSequential
  BY <1>6, ScenarioType DEF ConsumeSequential, ScenarioIds
<1>7. CASE SpawnWorker
  BY <1>7 DEF SpawnWorker
<1>8. CASE AllSpawned
  BY <1>8, ScenarioType DEF AllSpawned, Scn, ScenarioIds
<1>9. CASE AwaitWorkers \/ Tick
  BY <1>9 DEF AwaitWorkers, Tick
<1>12. CASE Advance
  <2>1. currentTime' \in Int
    BY <1>12, WindowAssumption DEF Advance
  <2> QED
    BY <1>12, <2>1 DEF Advance
<1>10. ASSUME NEW w \in Workers, WorkerCount(w)
       PROVE  GeneratorTypeOK'
  BY <1>10 DEF WorkerCount, WorkerTypeOK
<1>11. CASE UNCHANGED <<gen, currentTime, produceVars, tick>>
  BY <1>11
<1> QED
  BY <1>1, <1>2, <1>3, <1>4, <1>5, <1>6, <1>7, <1>8, <1>9, <1>10, <1>11, <1>12, <1>13
     DEF Next, Generator, Worker, Terminated, LayOutShards, Constructed,
         CancelStartContext, ShutdownCancel, ShutdownCollect, WorkerAppend,
         WorkerConsume

LEMMA WorkerTypeNext == TypeOK /\ [Next]_vars => WorkerTypeOK'
<1> SUFFICES ASSUME TypeOK, [Next]_vars PROVE WorkerTypeOK'
  OBVIOUS
<1> USE DEF TypeOK, WorkerTypeOK
<1>1. CASE SpawnWorker
  <2>1. Shard(concurrentShardBase + nextWorker) \in Nat
    BY DEF Shard, NumShards, HostTypeOK, GeneratorTypeOK
  <2> QED
    BY <1>1, <2>1 DEF SpawnWorker
<1>2. ASSUME NEW w \in Workers, WorkerAppend(w)
      PROVE  WorkerTypeOK'
  <2>1. PICK n \in Nat : workerBatch' = [workerBatch EXCEPT ![w] = @ + n]
    BY <1>2, VolumesAssumption DEF WorkerAppend
  <2> QED
    BY <1>2, <2>1 DEF WorkerAppend
<1>3. ASSUME NEW w \in Workers, WorkerCount(w) \/ WorkerConsume(w)
      PROVE  WorkerTypeOK'
  BY <1>3 DEF WorkerCount, WorkerConsume
<1>4. CASE UNCHANGED workerVars
  BY <1>4
<1> QED
  BY <1>1, <1>2, <1>3, <1>4
     DEF Next, Generator, Worker, Terminated, LayOutShards, Constructed, Start,
         CancelStartContext, ShutdownCancel, ShutdownCollect, LoopCancelled,
         BeginInterval, WindowEnd, SleepBeforeExit, ReportFatal, CloseDone,
         SkipScenario, EnterScenario, AppendInstance, ReadTotal, WriteTotal,
         ConsumeSequential, AllSpawned, AwaitWorkers, Advance, Tick

LEMMA OutputTypeNext == TypeOK /\ [Next]_vars => OutputTypeOK'
<1> SUFFICES ASSUME TypeOK, [Next]_vars PROVE OutputTypeOK'
  OBVIOUS
<1> USE DEF TypeOK, OutputTypeOK
<1>1. CASE LayOutShards
  BY <1>1, ScenarioType DEF LayOutShards, HostTypeOK, ScenarioIds, ShardIds
<1>2. CASE AppendInstance
  <2>1. PICK n \in Nat : shards' = [shards EXCEPT ![Shard(0)] = @ + n]
    BY <1>2, VolumesAssumption DEF AppendInstance
  <2> QED
    BY <1>2, <2>1, AddToCount DEF AppendInstance, ShardIds
<1>3. CASE ConsumeSequential
  <2>1. sunk' \in [ShardIds' -> Nat]
    BY <1>3, AddToCount DEF ConsumeSequential, GeneratorTypeOK, ShardIds
  <2>2. delivered' \subseteq UNION {InstancesOf(s) : s \in ScenarioIds}
    BY <1>3 DEF ConsumeSequential, GeneratorTypeOK
  <2> QED
    BY <1>3, <2>1, <2>2 DEF ConsumeSequential
<1>4. CASE AwaitWorkers
  BY <1>4 DEF AwaitWorkers, GeneratorTypeOK, ShardIds
<1>5. CASE Advance
  BY <1>5 DEF Advance, ShardIds
<1>6. ASSUME NEW w \in Workers, WorkerAppend(w)
      PROVE  OutputTypeOK'
  <2>1. PICK n \in Nat : shards' = [shards EXCEPT ![workerShard[w]] = @ + n]
    BY <1>6, VolumesAssumption DEF WorkerAppend
  <2> QED
    BY <1>6, <2>1, AddToCount DEF WorkerAppend, ShardIds
<1>7. ASSUME NEW w \in Workers, WorkerConsume(w)
      PROVE  OutputTypeOK'
  <2>1. sunk' \in [ShardIds' -> Nat]
    BY <1>7, AddToCount DEF WorkerConsume, WorkerTypeOK, ShardIds
  <2>2. delivered' \subseteq UNION {InstancesOf(s) : s \in ScenarioIds}
    <3>1. WorkerInstances(w) \subseteq InstancesOf(w[1]) /\ w[1] \in ScenarioIds
      BY WorkerType DEF WorkerInstances
    <3> QED
      BY <1>7, <3>1 DEF WorkerConsume
  <2> QED
    BY <1>7, <2>1, <2>2 DEF WorkerConsume
<1>8. CASE UNCHANGED <<logCount, outputVars, totalConcurrentShards>>
  BY <1>8 DEF ShardIds
<1> QED
  BY <1>1, <1>2, <1>3, <1>4, <1>5, <1>6, <1>7, <1>8
     DEF Next, Generator, Worker, Terminated, Constructed, Start,
         CancelStartContext, ShutdownCancel, ShutdownCollect, LoopCancelled,
         BeginInterval, WindowEnd, SleepBeforeExit, ReportFatal, CloseDone,
         SkipScenario, EnterScenario, ReadTotal, WriteTotal, SpawnWorker,
         AllSpawned, Tick, WorkerCount

LEMMA TypeNext == TypeOK /\ [Next]_vars => TypeOK'
  BY HostTypeNext, GeneratorTypeNext, WorkerTypeNext, OutputTypeNext DEF TypeOK

(***************************************************************************)
(* Every variable keeps its type, whatever the scenarios and the window.   *)
(***************************************************************************)
THEOREM TypeCorrect == Spec => []TypeOK
  BY TypeInit, TypeNext, PTL DEF Spec
-----------------------------------------------------------------------------
(***************************************************************************)
(* The inductive invariant, part by part.                                  *)
(***************************************************************************)
LEMMA InvInit == Init => IInv
<1> SUFFICES ASSUME Init PROVE IInv
  OBVIOUS
<1>1. TypeOK
  BY TypeInit
<1>2. LayoutInv /\ BaseInv /\ LifeInv
  BY DEF Init, LayoutInv, BaseInv, LifeInv, InProduceLogs
<1>3. OwnerInv /\ CountInv
  BY DEF Init, OwnerInv, CountInv, Live, OwnBatch, ShardIds
<1>4. StreamInv
  BY StreamInvInit
<1>5. TotalInv
  <2>1. Counted = [k \in ShardIds |-> 0]
    BY DEF Init, Counted, ShardIds
  <2>2. SumFunction(Counted) = 0
    <3>1. IsFiniteSet(ShardIds)
      <4>1. ShardIds = {0}
        BY DEF Init, ShardIds
      <4> QED
        BY <4>1, FS_Singleton
    <3> QED
      BY <2>1, <3>1, SumZero
  <2> QED
    BY <2>2 DEF Init, TotalInv, InProduceLogs
<1>6. TrackInv
  BY DEF Init, TrackInv, InProduceLogs, Live
<1> QED
  BY <1>1, <1>2, <1>3, <1>4, <1>5, <1>6 DEF IInv

(***************************************************************************)
(* The layout of the shards is extended at its end and never changed.      *)
(***************************************************************************)
LEMMA LayoutNext == TypeOK /\ LayoutInv /\ [Next]_vars => LayoutInv'
<1> SUFFICES ASSUME TypeOK, LayoutInv, [Next]_vars PROVE LayoutInv'
  OBVIOUS
<1> USE DEF LayoutInv
<1>1. CASE LayOutShards
  <2> DEFINE s0 == laidOut + 1
  <2>1. s0 \in ScenarioIds /\ Scenarios[s0].concurrency \in Nat
    BY <1>1, ScenarioType DEF LayOutShards, TypeOK, HostTypeOK, ScenarioIds
  <2>2. /\ laidOut' = s0
        /\ shardBase' = [shardBase EXCEPT ![s0] = 1 + totalConcurrentShards]
        /\ totalConcurrentShards' =
               totalConcurrentShards + Scenarios[s0].concurrency
        /\ life' = life /\ life = "constructing"
    BY <1>1 DEF LayOutShards
  <2>3. /\ laidOut \in Nat
        /\ totalConcurrentShards \in Nat
        /\ shardBase \in [ScenarioIds -> Nat]
        /\ laidOut < Len(Scenarios)
    BY <1>1, ScenarioType DEF LayOutShards, TypeOK, HostTypeOK
  <2>4. /\ shardBase'[s0] = 1 + totalConcurrentShards
        /\ \A s \in 1..laidOut : /\ s \in ScenarioIds
                                 /\ shardBase'[s] = shardBase[s]
                                 /\ shardBase[s] \in Nat
                                 /\ Scenarios[s].concurrency \in Nat
    <3>1. \A s \in 1..laidOut : s \in ScenarioIds /\ s # s0
      BY <2>3, ScenarioType DEF ScenarioIds
    <3> HIDE DEF s0
    <3> QED
      BY <2>1, <2>2, <2>3, <3>1, ScenarioType
  <2>5. \A s \in 1..s0 : s \in 1..laidOut \/ s = s0
    BY <2>3
  <2> HIDE DEF s0
  <2>6. \A s \in 1..laidOut' :
          /\ 1 <= shardBase'[s]
          /\ shardBase'[s] + Scenarios[s].concurrency
                <= 1 + totalConcurrentShards'
    <3>1. ASSUME NEW s \in 1..laidOut
          PROVE  /\ 1 <= shardBase'[s]
                 /\ shardBase'[s] + Scenarios[s].concurrency
                        <= 1 + totalConcurrentShards'
      <4>1. /\ 1 <= shardBase[s]
            /\ shardBase[s] + Scenarios[s].concurrency
                   <= 1 + totalConcurrentShards
        OBVIOUS
      <4>2. /\ totalConcurrentShards' \in Nat
            /\ totalConcurrentShards <= totalConcurrentShards'
        BY <2>1, <2>2, <2>3
      <4>3. /\ shardBase'[s] = shardBase[s]
            /\ shardBase[s] \in Nat
            /\ Scenarios[s].concurrency \in Nat
        BY <2>4
      <4>4. totalConcurrentShards \in Nat
        BY <2>3
      <4> HIDE DEF LayoutInv
      <4> QED
        BY ONLY <4>1, <4>2, <4>3, <4>4
    <3>2. /\ 1 <= shardBase'[s0]
          /\ shardBase'[s0] + Scenarios[s0].concurrency
                 <= 1 + totalConcurrentShards'
      BY <2>1, <2>2, <2>3, <2>4
    <3> QED
      BY <2>2, <2>5, <3>1, <3>2
  <2>7. ASSUME NEW s \in 1..laidOut', NEW t \in 1..laidOut', s < t
        PROVE  shardBase'[s] + Scenarios[s].concurrency <= shardBase'[t]
    <3>1. s \in 1..laidOut
      BY <2>2, <2>3, <2>7 DEF s0
    <3>2. CASE t = s0
      BY <2>4, <3>1, <3>2
    <3>3. CASE t \in 1..laidOut
      BY <2>4, <2>7, <3>1, <3>3
    <3> QED
      BY <2>2, <2>5, <3>2, <3>3
  <2> QED
    BY <2>2, <2>6, <2>7
<1>2. CASE UNCHANGED layoutVars
  <2>1. life' # "constructing" => laidOut' = Len(Scenarios)
    BY <1>2 DEF Next, Generator, Worker, Terminated, LayOutShards, Constructed,
         Start, CancelStartContext, ShutdownCancel, ShutdownCollect,
         LoopCancelled, BeginInterval, WindowEnd, SleepBeforeExit, ReportFatal,
         CloseDone, SkipScenario, EnterScenario, AppendInstance, ReadTotal,
         WriteTotal, ConsumeSequential, SpawnWorker, AllSpawned, AwaitWorkers,
         Advance, Tick, WorkerAppend, WorkerCount, WorkerConsume
  <2> QED
    BY <1>2, <2>1
<1> QED
  BY <1>1, <1>2
     DEF Next, Generator, Worker, Terminated, Constructed, Start,
         CancelStartContext, ShutdownCancel, ShutdownCollect, LoopCancelled,
         BeginInterval, WindowEnd, SleepBeforeExit, ReportFatal, CloseDone,
         SkipScenario, EnterScenario, AppendInstance, ReadTotal, WriteTotal,
         ConsumeSequential, SpawnWorker, AllSpawned, AwaitWorkers, Advance,
         Tick, WorkerAppend, WorkerCount, WorkerConsume

(***************************************************************************)
(* Once the generator runs, every scenario has its shards.                 *)
(***************************************************************************)
LEMMA AllLaidOut ==
    ASSUME TypeOK, LayoutInv, LifeInv, gen # "off"
    PROVE  \A s \in ScenarioIds :
              /\ shardBase[s] \in Nat
              /\ 1 <= shardBase[s]
              /\ shardBase[s] + Scenarios[s].concurrency
                    <= 1 + totalConcurrentShards
              /\ \A t \in ScenarioIds :
                    s < t => shardBase[s] + Scenarios[s].concurrency
                                <= shardBase[t]
<1>1. laidOut = Len(Scenarios)
  BY DEF LayoutInv, LifeInv
<1> QED
  BY <1>1 DEF LayoutInv, ScenarioIds, TypeOK, HostTypeOK

(***************************************************************************)
(* produceLogs stays within the layout.                                    *)
(***************************************************************************)
LEMMA BaseNext ==
    TypeOK /\ LayoutInv /\ LifeInv /\ BaseInv /\ [Next]_vars => BaseInv'
<1> SUFFICES ASSUME TypeOK, LayoutInv, LifeInv, BaseInv, [Next]_vars
             PROVE  BaseInv'
  OBVIOUS
<1> USE DEF BaseInv, InProduceLogs
<1>1. CASE BeginInterval
  <2>1. \A s \in ScenarioIds : 1 <= shardBase[s]
    BY <1>1, AllLaidOut DEF BeginInterval
  <2> QED
    BY <1>1, <2>1
       DEF BeginInterval, ScenarioIds, TypeOK, HostTypeOK
<1>2. CASE SkipScenario
  BY <1>2, ScenarioType DEF SkipScenario, TypeOK, GeneratorTypeOK
<1>3. CASE EnterScenario
  BY <1>3, ScenarioType DEF EnterScenario, Scn, ScenarioIds, TypeOK, GeneratorTypeOK
<1>4. CASE ConsumeSequential
  BY <1>4, ScenarioType DEF ConsumeSequential, TypeOK, GeneratorTypeOK
<1>5. CASE SpawnWorker
  BY <1>5, ScenarioType DEF SpawnWorker, Scn, TypeOK, GeneratorTypeOK
<1>6. CASE AllSpawned
  <2>1. /\ idx \in ScenarioIds
        /\ concurrentShardBase \in Nat
        /\ Scn.concurrency \in Nat
        /\ totalConcurrentShards \in Nat
    BY <1>6, ScenarioType
       DEF AllSpawned, TypeOK, GeneratorTypeOK, HostTypeOK, Scn
  <2>2. concurrentShardBase <= shardBase[idx]
    BY <1>6, <2>1 DEF AllSpawned, ScenarioIds
  <2>3. /\ shardBase[idx] \in Nat
        /\ shardBase[idx] + Scn.concurrency <= 1 + totalConcurrentShards
        /\ \A t \in ScenarioIds :
              idx < t => /\ shardBase[t] \in Nat
                         /\ shardBase[idx] + Scn.concurrency <= shardBase[t]
    BY <1>6, <2>1, AllLaidOut DEF AllSpawned, Scn
  <2>4. \A t \in idx + 1..Len(Scenarios) : t \in ScenarioIds /\ idx < t
    BY <2>1, ScenarioType DEF ScenarioIds
  <2> QED
    BY <1>6, <2>1, <2>2, <2>3, <2>4 DEF AllSpawned
<1>7. CASE gen' \notin {"scenario", "append", "write", "consume", "spawn"}
  BY <1>7
<1>8. CASE /\ UNCHANGED <<idx, concurrentShardBase, nextWorker, layoutVars>>
           /\ InProduceLogs
           /\ gen' = "spawn" => gen = "spawn"
  BY <1>8 DEF Scn
<1> QED
  <2>1. CASE LayOutShards \/ Constructed \/ Start
    BY <1>7, <2>1 DEF LayOutShards, Constructed, Start, LifeInv
  <2> QED
    BY <1>1, <1>2, <1>3, <1>4, <1>5, <1>6, <1>7, <1>8, <2>1
       DEF Next, Generator, Worker, Terminated, CancelStartContext,
           ShutdownCancel, ShutdownCollect, LoopCancelled, WindowEnd,
           SleepBeforeExit, ReportFatal, CloseDone, AppendInstance, ReadTotal,
           WriteTotal, AwaitWorkers, Advance, Tick, WorkerAppend, WorkerCount,
           WorkerConsume

(***************************************************************************)
(* The shard produceLogs gives out next is at most one beyond the last, so *)
(* the one it gives out now does not wrap around.                          *)
(***************************************************************************)
LEMMA NextShardBound ==
    ASSUME TypeOK, LayoutInv, LifeInv, BaseInv, InProduceLogs
    PROVE  /\ NextShard \in Nat
           /\ NextShard <= 1 + totalConcurrentShards
           /\ gen = "spawn" /\ nextWorker < Scn.concurrency =>
                 NextShard <= totalConcurrentShards
<1>1. /\ concurrentShardBase \in Nat
      /\ nextWorker \in Nat
      /\ totalConcurrentShards \in Nat
      /\ concurrentShardBase <= 1 + totalConcurrentShards
  BY DEF TypeOK, GeneratorTypeOK, HostTypeOK, BaseInv
<1>2. CASE gen = "spawn"
  <2>1. idx \in ScenarioIds /\ Scn.concurrency \in Nat
    BY <1>2, ScenarioType DEF TypeOK, GeneratorTypeOK, Scn
  <2>2. concurrentShardBase <= shardBase[idx]
    BY <1>2, <2>1, ScenarioType DEF BaseInv, ScenarioIds, InProduceLogs
  <2>3. /\ shardBase[idx] \in Nat
        /\ shardBase[idx] + Scn.concurrency <= 1 + totalConcurrentShards
    BY <1>2, <2>1, AllLaidOut DEF Scn
  <2>4. nextWorker <= Scn.concurrency
    BY <1>2 DEF BaseInv, InProduceLogs
  <2> QED
    BY <1>1, <1>2, <2>1, <2>2, <2>3, <2>4 DEF NextShard
<1>3. CASE gen # "spawn"
  BY <1>1, <1>3 DEF NextShard
<1> QED
  BY <1>2, <1>3

(***************************************************************************)
(* Workers that run at the same time hold distinct shards.                 *)
(***************************************************************************)
LEMMA OwnerNext ==
    TypeOK /\ LayoutInv /\ LifeInv /\ BaseInv /\ OwnerInv /\ [Next]_vars
        => OwnerInv'
<1> SUFFICES ASSUME TypeOK, LayoutInv, LifeInv, BaseInv, OwnerInv, [Next]_vars
             PROVE  OwnerInv'
  OBVIOUS
<1> USE DEF OwnerInv, Live, InProduceLogs, NextShard
<1>1. CASE SkipScenario \/ ConsumeSequential
  BY <1>1, WorkerType, SMTT(30) DEF SkipScenario, ConsumeSequential, TypeOK, GeneratorTypeOK, ScenarioIds
<1>2. CASE EnterScenario
  BY <1>2 DEF EnterScenario, TypeOK, GeneratorTypeOK
<1>3. CASE SpawnWorker
  <2> DEFINE w0 == <<idx, nextWorker>>
  <2>1. /\ gen = "spawn" /\ gen' = "spawn" /\ idx' = idx
        /\ concurrentShardBase' = concurrentShardBase
        /\ nextWorker' = nextWorker + 1
        /\ nextWorker < Scn.concurrency
        /\ worker' = [worker EXCEPT ![w0] = "append"]
        /\ workerShard' =
              [workerShard EXCEPT ![w0] = Shard(concurrentShardBase + nextWorker)]
    BY <1>3 DEF SpawnWorker
  <2>2. /\ nextWorker \in Nat
        /\ concurrentShardBase \in Nat
        /\ 1 <= concurrentShardBase
        /\ idx \in ScenarioIds
    BY <2>1 DEF TypeOK, GeneratorTypeOK, BaseInv
  <2>3. w0 \in Workers /\ w0[1] = idx /\ w0[2] = nextWorker
    BY <2>1, <2>2, WorkerType DEF Scn
  <2>4. Shard(concurrentShardBase + nextWorker) = concurrentShardBase + nextWorker
    BY <2>1, <2>2, NextShardBound, ShardInRange DEF TypeOK, HostTypeOK
  <2>5. \A w \in Workers : w # w0 =>
           worker'[w] = worker[w] /\ workerShard'[w] = workerShard[w]
    BY <2>1, <2>3 DEF TypeOK, WorkerTypeOK
  <2>6. workerShard'[w0] = concurrentShardBase + nextWorker
    BY <2>1, <2>3, <2>4 DEF TypeOK, WorkerTypeOK
  <2>7. \A w \in Workers : w # w0 /\ Live(w) =>
           /\ workerShard[w] \in Nat
           /\ w[1] < idx \/ (w[1] = idx /\ w[2] < nextWorker)
           /\ 1 <= workerShard[w]
           /\ workerShard[w] < concurrentShardBase + nextWorker
    BY <2>1 DEF TypeOK, WorkerTypeOK
  <2> HIDE DEF w0
  <2>8. ASSUME NEW w \in Workers, Live(w)'
        PROVE  /\ w[1] < idx \/ (w[1] = idx /\ w[2] < nextWorker')
               /\ 1 <= workerShard'[w]
               /\ workerShard'[w] < concurrentShardBase + nextWorker'
    <3>1. CASE w = w0
      BY <2>1, <2>2, <2>3, <2>6, <3>1
    <3>2. CASE w # w0
      <4>1. w[2] \in Nat
        BY WorkerType
      <4> QED
        BY <2>1, <2>2, <2>5, <2>7, <2>8, <3>2, <4>1
    <3> QED
      BY <3>1, <3>2
  <2>9. ASSUME NEW w \in Workers, NEW v \in Workers, Live(w)', Live(v)', v # w
        PROVE  workerShard'[v] # workerShard'[w]
    <3>1. CASE w = w0
      BY <2>2, <2>5, <2>6, <2>7, <2>9, <3>1
    <3>2. CASE v = w0
      BY <2>2, <2>5, <2>6, <2>7, <2>9, <3>2
    <3>3. CASE v # w0 /\ w # w0
      BY <2>5, <2>9, <3>3
    <3> QED
      BY <3>1, <3>2, <3>3
  <2> QED
    BY <2>1, <2>8, <2>9
<1>4. CASE AllSpawned
  <2>1. Scn.concurrency \in Nat
    BY <1>4, ScenarioType DEF AllSpawned, TypeOK, GeneratorTypeOK, Scn
  <2>2. /\ gen = "spawn" /\ gen' = "scenario"
        /\ nextWorker = Scn.concurrency
        /\ concurrentShardBase' = concurrentShardBase + nextWorker
        /\ idx' = idx + 1
        /\ UNCHANGED <<worker, workerShard>>
    BY <1>4 DEF AllSpawned
  <2>3. idx \in Nat
    BY <2>2, ScenarioType DEF TypeOK, GeneratorTypeOK, ScenarioIds
  <2>4. ASSUME NEW w \in Workers, Live(w)
        PROVE  w[1] < idx' /\ workerShard[w] < concurrentShardBase'
    <3>1. w[1] < idx \/ w[1] = idx
      BY <2>4
    <3>2. w[1] \in Nat
      BY WorkerType, ScenarioType DEF ScenarioIds
    <3> QED
      BY <2>2, <2>3, <2>4, <3>1, <3>2
  <2> QED
    BY <2>2, <2>4
<1>5. ASSUME NEW w \in Workers, WorkerCount(w) \/ WorkerConsume(w)
      PROVE  OwnerInv'
  BY <1>5
     DEF WorkerCount, WorkerConsume, workerUnchanged, TypeOK, WorkerTypeOK
<1>6. CASE (\A w \in Workers : worker[w] = "off") /\ UNCHANGED worker
  BY <1>6
<1>7. CASE /\ UNCHANGED <<worker, workerShard, idx, concurrentShardBase, nextWorker>>
           /\ InProduceLogs <=> InProduceLogs'
           /\ gen = "spawn" <=> gen' = "spawn"
  BY <1>7
<1> QED
  <2>1. CASE BeginInterval \/ LoopCancelled \/ WindowEnd \/ SleepBeforeExit
                \/ ReportFatal \/ CloseDone \/ Start \/ Advance \/ AwaitWorkers
    <3>1. ~InProduceLogs \/ (\A w \in Workers : worker[w] = "off")
      BY <2>1 DEF BeginInterval, LoopCancelled, WindowEnd, SleepBeforeExit,
                  ReportFatal, CloseDone, Start, Advance, AwaitWorkers, LifeInv
    <3>2. UNCHANGED worker
      BY <2>1 DEF BeginInterval, LoopCancelled, WindowEnd, SleepBeforeExit,
                  ReportFatal, CloseDone, Start, Advance, AwaitWorkers
    <3> QED
      BY <1>6, <3>1, <3>2
  <2>2. CASE LayOutShards \/ Constructed \/ CancelStartContext
                \/ ShutdownCancel \/ ShutdownCollect \/ AppendInstance
                \/ ReadTotal \/ WriteTotal \/ Tick \/ UNCHANGED vars
    BY <1>7, <2>2
       DEF LayOutShards, Constructed, CancelStartContext, ShutdownCancel,
           ShutdownCollect, AppendInstance, ReadTotal, WriteTotal, Tick
  <2>3. ASSUME NEW w \in Workers, WorkerAppend(w)
        PROVE  OwnerInv'
    BY <1>7, <2>3 DEF WorkerAppend
  <2> QED
    BY <1>1, <1>2, <1>3, <1>4, <1>5, <2>1, <2>2, <2>3
       DEF Next, Generator, Worker, Terminated

(***************************************************************************)
(* A worker's shard exists and is not the generator's.                     *)
(***************************************************************************)
LEMMA WorkerShardRange ==
    ASSUME TypeOK, LayoutInv, LifeInv, BaseInv, OwnerInv,
           NEW w \in Workers, Live(w)
    PROVE  workerShard[w] \in ShardIds \ {0}
<1>1. InProduceLogs /\ 1 <= workerShard[w] /\ workerShard[w] < NextShard
  BY DEF OwnerInv
<1>2. NextShard \in Nat /\ NextShard <= 1 + totalConcurrentShards
  BY <1>1, NextShardBound
<1>3. workerShard[w] \in Nat /\ totalConcurrentShards \in Nat
  BY DEF TypeOK, WorkerTypeOK, HostTypeOK
<1> QED
  BY <1>1, <1>2, <1>3 DEF ShardIds

(***************************************************************************)
(* A shard and what was consumed of it differ by its owner's batch.        *)
(***************************************************************************)
LEMMA CountNext ==
    TypeOK /\ LayoutInv /\ LifeInv /\ BaseInv /\ OwnerInv /\ CountInv /\ [Next]_vars
        => CountInv'
<1> SUFFICES ASSUME TypeOK, LayoutInv, LifeInv, BaseInv, OwnerInv, CountInv,
                    [Next]_vars
             PROVE  CountInv'
  OBVIOUS
<1> USE DEF CountInv
<1>a. /\ totalConcurrentShards \in Nat
      /\ shards \in [ShardIds -> Nat]
      /\ sunk \in [ShardIds -> Nat]
      /\ batch \in Nat
      /\ workerShard \in [Workers -> Nat]
      /\ workerBatch \in [Workers -> Nat]
      /\ 0 \in ShardIds
      /\ \A w \in Workers : Live(w) => workerShard[w] \in ShardIds \ {0}
  <2>1. \A w \in Workers : Live(w) => workerShard[w] \in ShardIds \ {0}
    BY WorkerShardRange
  <2>2. totalConcurrentShards \in Nat /\ 0 \in ShardIds
    BY DEF TypeOK, HostTypeOK, ShardIds
  <2> QED
    BY <2>1, <2>2 DEF TypeOK, GeneratorTypeOK, OutputTypeOK, WorkerTypeOK
<1>1. CASE LayOutShards
  <2>1. /\ shards' = [k \in ShardIds' |-> 0]
        /\ sunk' = [k \in ShardIds' |-> 0]
        /\ UNCHANGED <<worker, gen>>
    BY <1>1 DEF LayOutShards, ShardIds
  <2>2. ~OwnBatch' /\ \A w \in Workers : ~Live(w)'
    BY <1>1, <2>1 DEF LayOutShards, LifeInv, OwnBatch, OwnerInv, Live, InProduceLogs
  <2>3. 0 \in ShardIds'
    BY <1>1, HostTypeNext DEF ShardIds, HostTypeOK
  <2> QED
    BY <2>1, <2>2, <2>3
<1>2. CASE EnterScenario
  <2>1. ~OwnBatch /\ batch' = 0
    BY <1>2 DEF EnterScenario, OwnBatch
  <2>2. UNCHANGED <<workerVars, shards, sunk, ShardIds>>
    BY <1>2 DEF EnterScenario, ShardIds
  <2> QED
    BY <1>a, <2>1, <2>2 DEF Live
<1>3. CASE AppendInstance
  <2>1. PICK n \in Nat : /\ batch' = batch + n
                         /\ shards' = [shards EXCEPT ![Shard(0)] = @ + n]
    BY <1>3, VolumesAssumption DEF AppendInstance
  <2>2. Shard(0) = 0
    BY <1>a, ShardInRange
  <2>3. OwnBatch /\ OwnBatch' /\ UNCHANGED <<workerVars, sunk, ShardIds>>
    BY <1>3 DEF AppendInstance, OwnBatch, ShardIds
  <2>4. shards'[0] = shards[0] + n /\ \A k \in ShardIds \ {0} : shards'[k] = shards[k]
    BY <1>a, <2>1, <2>2
  <2>5. shards'[0] = sunk'[0] + batch'
    BY <1>a, <2>1, <2>3, <2>4
  <2> QED
    BY <1>a, <2>3, <2>4, <2>5 DEF Live
<1>4. CASE ConsumeSequential
  <2>1. sunk' = [sunk EXCEPT ![0] = @ + batch]
    <3>1. Shard(0) = 0
      BY <1>a, ShardInRange
    <3> QED
      BY <1>4, <3>1 DEF ConsumeSequential
  <2>2. OwnBatch /\ ~OwnBatch' /\ UNCHANGED <<workerVars, shards, ShardIds>>
    BY <1>4 DEF ConsumeSequential, OwnBatch, ShardIds
  <2>3. sunk'[0] = sunk[0] + batch /\ \A k \in ShardIds \ {0} : sunk'[k] = sunk[k]
    BY <1>a, <2>1
  <2> QED
    BY <1>a, <2>2, <2>3 DEF Live
<1>5. CASE SpawnWorker
  <2> DEFINE w0 == <<idx, nextWorker>>
             s0 == concurrentShardBase + nextWorker
  <2>1. /\ gen = "spawn" /\ nextWorker < Scn.concurrency
        /\ ~OwnBatch /\ ~OwnBatch'
        /\ worker' = [worker EXCEPT ![w0] = "append"]
        /\ workerShard' = [workerShard EXCEPT ![w0] = Shard(s0)]
        /\ workerBatch' = [workerBatch EXCEPT ![w0] = 0]
        /\ UNCHANGED <<shards, sunk, ShardIds>>
    BY <1>5 DEF SpawnWorker, OwnBatch, ShardIds
  <2>2. /\ nextWorker \in Nat
        /\ concurrentShardBase \in Nat
        /\ 1 <= concurrentShardBase
        /\ idx \in ScenarioIds
        /\ InProduceLogs
    BY <2>1 DEF TypeOK, GeneratorTypeOK, BaseInv, InProduceLogs
  <2>3. w0 \in Workers /\ w0[1] = idx /\ w0[2] = nextWorker
    BY <2>1, <2>2, WorkerType DEF Scn
  <2>4. NextShard = s0
    BY <2>1 DEF NextShard
  <2>5. s0 <= totalConcurrentShards
    BY <2>1, <2>2, <2>4, NextShardBound
  <2>6. Shard(s0) = s0 /\ s0 \in ShardIds \ {0}
    BY <1>a, <2>2, <2>5, ShardInRange DEF ShardIds
  <2>7. ~Live(w0)
    BY <2>2, <2>3, ScenarioType DEF OwnerInv, ScenarioIds
  <2>8. \A w \in Workers : w # w0 =>
           /\ worker'[w] = worker[w]
           /\ workerShard'[w] = workerShard[w]
           /\ workerBatch'[w] = workerBatch[w]
    BY <2>1, <2>3 DEF TypeOK, WorkerTypeOK
  <2>9. workerShard'[w0] = s0 /\ workerBatch'[w0] = 0 /\ worker'[w0] = "append"
    BY <2>1, <2>3, <2>6 DEF TypeOK, WorkerTypeOK
  <2>10. \A w \in Workers : Live(w) => workerShard[w] # s0
    BY <1>a, <2>2, <2>4 DEF OwnerInv
  <2> HIDE DEF w0, s0
  <2>11. shards[s0] = sunk[s0] /\ sunk[s0] \in Nat
    BY <1>a, <2>6, <2>10
  <2>12. ASSUME NEW w \in Workers, Live(w)'
         PROVE  shards'[workerShard'[w]] = sunk'[workerShard'[w]] + workerBatch'[w]
    <3>1. CASE w = w0
      BY <2>1, <2>9, <2>11, <3>1
    <3>2. CASE w # w0
      BY <2>1, <2>8, <2>12, <3>2 DEF Live
    <3> QED
      BY <3>1, <3>2
  <2>13. ASSUME NEW k \in ShardIds \ {0},
                \A w \in Workers : Live(w)' => workerShard'[w] # k
         PROVE  shards'[k] = sunk'[k]
    <3>1. \A w \in Workers : Live(w) => workerShard[w] # k
      BY <2>7, <2>8, <2>13 DEF Live
    <3> QED
      BY <2>1, <3>1
  <2> QED
    BY <2>1, <2>12, <2>13
<1>6. ASSUME NEW w \in Workers, WorkerAppend(w)
      PROVE  CountInv'
  <2> DEFINE k0 == workerShard[w]
  <2>1. PICK n \in Nat :
             /\ workerBatch' = [workerBatch EXCEPT ![w] = @ + n]
             /\ shards' = [shards EXCEPT ![k0] = @ + n]
    BY <1>6, VolumesAssumption DEF WorkerAppend
  <2>2. /\ Live(w)
        /\ UNCHANGED <<worker, workerShard, sunk, batch, gen, ShardIds>>
    BY <1>6 DEF WorkerAppend, Live, ShardIds
  <2>3. k0 \in ShardIds \ {0}
    BY <1>a, <2>2
  <2>4. /\ shards'[k0] = shards[k0] + n
        /\ \A k \in ShardIds \ {k0} : shards'[k] = shards[k]
    BY <1>a, <2>1, <2>3
  <2>5. /\ workerBatch'[w] = workerBatch[w] + n
        /\ \A v \in Workers \ {w} : workerBatch'[v] = workerBatch[v]
    BY <1>a, <2>1
  <2>6. \A v \in Workers \ {w} : Live(v) => workerShard[v] # k0
    BY <2>2 DEF OwnerInv
  <2> HIDE DEF k0
  <2>7. shards'[0] = sunk'[0] + (IF OwnBatch THEN batch ELSE 0)'
    BY <1>a, <2>2, <2>3, <2>4 DEF OwnBatch
  <2>8. ASSUME NEW v \in Workers, Live(v)'
        PROVE  shards'[workerShard'[v]] = sunk'[workerShard'[v]] + workerBatch'[v]
    <3>1. Live(v)
      BY <2>2, <2>8 DEF Live
    <3>2. CASE v = w
      <4>1. shards[k0] = sunk[k0] + workerBatch[w]
        BY <2>2 DEF k0
      <4>2. shards[k0] \in Nat /\ sunk[k0] \in Nat /\ workerBatch[w] \in Nat
        BY <1>a, <2>3
      <4>3. shards'[k0] = sunk[k0] + workerBatch'[w]
        BY <2>4, <2>5, <4>1, <4>2
      <4> QED
        BY <2>2, <3>2, <4>3 DEF k0
    <3>3. CASE v # w
      BY <1>a, <2>2, <2>4, <2>5, <2>6, <3>1, <3>3
    <3> QED
      BY <3>2, <3>3
  <2>9. ASSUME NEW k \in ShardIds \ {0},
               \A v \in Workers : Live(v)' => workerShard'[v] # k
        PROVE  shards'[k] = sunk'[k]
    <3>1. k # k0 /\ \A v \in Workers : Live(v) => workerShard[v] # k
      BY <2>2, <2>9 DEF Live, k0
    <3> QED
      BY <2>2, <2>4, <3>1
  <2> QED
    BY <2>2, <2>7, <2>8, <2>9
<1>7. ASSUME NEW w \in Workers, WorkerConsume(w)
      PROVE  CountInv'
  <2> DEFINE k0 == workerShard[w]
  <2>1. /\ worker' = [worker EXCEPT ![w] = "off"]
        /\ workerBatch' = [workerBatch EXCEPT ![w] = 0]
        /\ sunk' = [sunk EXCEPT ![k0] = @ + workerBatch[w]]
    BY <1>7 DEF WorkerConsume
  <2>2. /\ Live(w)
        /\ UNCHANGED <<workerShard, shards, batch, gen, ShardIds>>
    BY <1>7 DEF WorkerConsume, Live, ShardIds
  <2>3. k0 \in ShardIds \ {0}
    BY <1>a, <2>2
  <2>4. /\ sunk'[k0] = sunk[k0] + workerBatch[w]
        /\ \A k \in ShardIds \ {k0} : sunk'[k] = sunk[k]
    BY <1>a, <2>1, <2>3
  <2>5. /\ ~Live(w)'
        /\ \A v \in Workers \ {w} : /\ workerBatch'[v] = workerBatch[v]
                                    /\ Live(v)' <=> Live(v)
    BY <1>a, <2>1 DEF Live, TypeOK, WorkerTypeOK
  <2>6. \A v \in Workers \ {w} : Live(v) => workerShard[v] # k0
    BY <2>2 DEF OwnerInv
  <2>7. shards[k0] = sunk'[k0]
    BY <2>2, <2>4
  <2> HIDE DEF k0
  <2>8. shards'[0] = sunk'[0] + (IF OwnBatch THEN batch ELSE 0)'
    BY <1>a, <2>2, <2>3, <2>4 DEF OwnBatch
  <2>9. ASSUME NEW v \in Workers, Live(v)'
        PROVE  shards'[workerShard'[v]] = sunk'[workerShard'[v]] + workerBatch'[v]
    <3>1. v # w /\ Live(v)
      BY <2>5, <2>9
    <3> QED
      BY <1>a, <2>2, <2>4, <2>5, <2>6, <3>1
  <2>10. ASSUME NEW k \in ShardIds \ {0},
                \A v \in Workers : Live(v)' => workerShard'[v] # k
         PROVE  shards'[k] = sunk'[k]
    <3>1. CASE k = k0
      BY <2>2, <2>7, <3>1
    <3>2. CASE k # k0
      <4>1. \A v \in Workers : Live(v) => workerShard[v] # k
        BY <2>2, <2>5, <2>10, <3>2 DEF k0
      <4> QED
        BY <2>2, <2>4, <3>2, <4>1
    <3> QED
      BY <3>1, <3>2
  <2> QED
    BY <2>2, <2>8, <2>9, <2>10
<1>8. ASSUME NEW w \in Workers, WorkerCount(w)
      PROVE  CountInv'
  <2>1. /\ \A v \in Workers : Live(v)' <=> Live(v)
        /\ UNCHANGED <<workerShard, workerBatch, shards, sunk, batch, gen, ShardIds>>
    BY <1>8 DEF WorkerCount, Live, ShardIds, TypeOK, WorkerTypeOK
  <2> QED
    BY <2>1 DEF OwnBatch
<1>9. CASE /\ UNCHANGED <<worker, workerShard, workerBatch, shards, sunk, batch,
                          totalConcurrentShards>>
           /\ OwnBatch <=> OwnBatch'
  <2>1. UNCHANGED ShardIds
    BY <1>9 DEF ShardIds
  <2> QED
    BY <1>9, <2>1 DEF Live
<1> QED
  <2>1. CASE Constructed \/ Start \/ CancelStartContext \/ ShutdownCancel
                \/ ShutdownCollect \/ LoopCancelled \/ BeginInterval \/ WindowEnd
                \/ SleepBeforeExit \/ ReportFatal \/ CloseDone
    BY <1>9, <2>1
       DEF Constructed, Start, CancelStartContext, ShutdownCancel,
           ShutdownCollect, LoopCancelled, BeginInterval, WindowEnd,
           SleepBeforeExit, ReportFatal, CloseDone, OwnBatch, LifeInv
  <2>2. CASE SkipScenario \/ ReadTotal \/ WriteTotal \/ AllSpawned
                \/ AwaitWorkers \/ Advance \/ Tick \/ UNCHANGED vars
    BY <1>9, <2>2
       DEF SkipScenario, ReadTotal, WriteTotal, AllSpawned, AwaitWorkers,
           Advance, Tick, OwnBatch
  <2> QED
    BY <1>1, <1>2, <1>3, <1>4, <1>5, <1>6, <1>7, <1>8, <2>1, <2>2
       DEF Next, Generator, Worker, Terminated

(***************************************************************************)
(* The generator runs between Start and the closing of done, and what      *)
(* Shutdown read is not changed any more.                                  *)
(***************************************************************************)
LEMMA LifeNext ==
    TypeOK /\ LifeInv /\ OwnerInv /\ [Next]_vars => LifeInv'
<1> SUFFICES ASSUME TypeOK, LifeInv, OwnerInv, [Next]_vars PROVE LifeInv'
  OBVIOUS
<1> USE DEF LifeInv
<1>1. CASE LayOutShards \/ Constructed \/ Start \/ CancelStartContext
              \/ ShutdownCancel \/ ShutdownCollect
  BY <1>1 DEF LayOutShards, Constructed, Start, CancelStartContext,
              ShutdownCancel, ShutdownCollect
<1>2. CASE Generator
  <2>1. gen \notin {"off", "finished"} /\ life \notin {"constructing", "created", "stopped"}
    BY <1>2
       DEF Generator, LoopCancelled, BeginInterval, WindowEnd, SleepBeforeExit,
           ReportFatal, CloseDone, SkipScenario, EnterScenario, AppendInstance,
           ReadTotal, WriteTotal, ConsumeSequential, SpawnWorker, AllSpawned,
           AwaitWorkers, Advance
  <2>2. CASE CloseDone
    BY <2>1, <2>2 DEF CloseDone
  <2>3. CASE UNCHANGED <<life, doneClosed>> /\ gen' \notin {"off", "finished"}
    BY <2>1, <2>3
  <2> QED
    BY <1>2, <2>1, <2>2, <2>3
       DEF Generator, LoopCancelled, BeginInterval, WindowEnd, SleepBeforeExit,
           ReportFatal, SkipScenario, EnterScenario, AppendInstance, ReadTotal,
           WriteTotal, ConsumeSequential, SpawnWorker, AllSpawned,
           AwaitWorkers, Advance
<1>3. ASSUME NEW w \in Workers, Worker(w)
      PROVE  LifeInv'
  <2>1. gen \notin {"off", "finished"} /\ life # "stopped"
    BY <1>3
       DEF Worker, WorkerAppend, WorkerCount, WorkerConsume, OwnerInv, Live,
           InProduceLogs
  <2> QED
    BY <1>3, <2>1 DEF Worker, WorkerAppend, WorkerCount, WorkerConsume
<1>4. CASE Tick \/ UNCHANGED vars
  BY <1>4 DEF Tick
<1> QED
  BY <1>1, <1>2, <1>3, <1>4 DEF Next, Terminated

(***************************************************************************)
(* The shards the constructor laid out for a scenario, seen from the next. *)
(***************************************************************************)
LEMMA NextBase ==
    ASSUME TypeOK, TrackInv, NEW s \in 1..laidOut - 1
    PROVE  /\ s \in ScenarioIds /\ s + 1 \in ScenarioIds
           /\ shardBase[s + 1] = shardBase[s] + Scenarios[s].concurrency
  BY ScenarioType DEF TypeOK, HostTypeOK, TrackInv, ScenarioIds

(***************************************************************************)
(* Which shards track cardinality, and which the workers have.             *)
(***************************************************************************)
LEMMA TrackNext ==
    SilentLast /\ TypeOK /\ LayoutInv /\ LifeInv /\ BaseInv /\ OwnerInv
        /\ ScenarioInv /\ TrackInv /\ [Next]_vars
    => TrackInv'
<1> SUFFICES ASSUME SilentLast, TypeOK, LayoutInv, LifeInv, BaseInv, OwnerInv,
                    ScenarioInv, TrackInv, [Next]_vars
             PROVE  TrackInv'
  OBVIOUS
<1> DEFINE Rest == \A s \in Generating : s >= idx => Scenarios[s].concurrency = 0
           AtBase == InProduceLogs /\ idx \in ScenarioIds =>
                        concurrentShardBase = shardBase[idx] \/ Rest
           Layout ==
              /\ cardinalityShards =
                    {0} \cup {shardBase[s] : s \in {t \in 1..laidOut : Scenarios[t].concurrency > 0}}
              /\ laidOut = 0 => totalConcurrentShards = 0
              /\ laidOut > 0 =>
                    /\ shardBase[1] = 1
                    /\ shardBase[laidOut] + Scenarios[laidOut].concurrency
                          = 1 + totalConcurrentShards
              /\ \A s \in 1..laidOut - 1 :
                    shardBase[s + 1] = shardBase[s] + Scenarios[s].concurrency
           Held == \A w \in Workers : Live(w) => workerShard[w] = shardBase[w[1]] + w[2]
<1>a. TrackInv <=> Layout /\ AtBase /\ Held
  BY DEF TrackInv
<1>b. TrackInv' <=> Layout' /\ AtBase' /\ Held'
  BY DEF TrackInv
<1>c. /\ laidOut \in 0..Len(Scenarios)
      /\ totalConcurrentShards \in Nat
      /\ shardBase \in [ScenarioIds -> Nat]
      /\ idx \in 1..Len(Scenarios) + 1
      /\ concurrentShardBase \in Nat
      /\ Len(Scenarios) \in Nat
  BY ScenarioType DEF TypeOK, HostTypeOK, GeneratorTypeOK
<1>1. CASE LayOutShards
  <2> DEFINE s0 == laidOut + 1
             c0 == Scenarios[s0].concurrency
  <2>1. /\ s0 \in ScenarioIds /\ c0 \in Nat
        /\ laidOut' = s0
        /\ shardBase' = [shardBase EXCEPT ![s0] = 1 + totalConcurrentShards]
        /\ totalConcurrentShards' = totalConcurrentShards + c0
        /\ cardinalityShards' = cardinalityShards \cup
               (IF c0 > 0 THEN {1 + totalConcurrentShards} ELSE {})
        /\ UNCHANGED <<gen, worker>>
    BY <1>1, <1>c, ScenarioType DEF LayOutShards, ScenarioIds
  <2>2. /\ shardBase'[s0] = 1 + totalConcurrentShards
        /\ \A s \in 1..laidOut : s \in ScenarioIds /\ shardBase'[s] = shardBase[s]
    <3>1. \A s \in 1..laidOut : s \in ScenarioIds /\ s # s0
      BY <1>c DEF ScenarioIds
    <3> HIDE DEF s0, c0
    <3> QED
      BY <1>c, <2>1, <3>1
  <2>3. ~InProduceLogs' /\ \A w \in Workers : ~Live(w)'
    BY <1>1, <2>1 DEF LayOutShards, LifeInv, OwnerInv, InProduceLogs, Live
  <2>4. cardinalityShards' =
          {0} \cup {shardBase'[s] : s \in {t \in 1..s0 : Scenarios[t].concurrency > 0}}
    <3>1. 1..s0 = 1..laidOut \cup {s0}
      BY <1>c
    <3> HIDE DEF s0
    <3> DEFINE first(S) == {shardBase'[s] : s \in {t \in S : Scenarios[t].concurrency > 0}}
    <3>2. cardinalityShards = {0} \cup first(1..laidOut)
      BY <1>a, <2>2
    <3>3. first(1..s0) = first(1..laidOut) \cup first({s0})
      BY <3>1
    <3>4. first({s0}) = IF c0 > 0 THEN {1 + totalConcurrentShards} ELSE {}
      BY <2>2
    <3> HIDE DEF first
    <3>5. cardinalityShards' = {0} \cup first(1..s0)
      BY <2>1, <3>2, <3>3, <3>4
    <3> QED
      BY <3>5 DEF first
  <2>5. shardBase'[1] = 1
    <3>1. CASE laidOut = 0
      BY <1>a, <2>2, <3>1
    <3>2. CASE laidOut > 0
      <4>1. 1 \in 1..laidOut
        BY <1>c, <3>2
      <4> QED
        BY <1>a, <2>2, <3>2, <4>1
    <3> QED
      BY <1>c, <3>1, <3>2
  <2>6. shardBase'[s0] + c0 = 1 + totalConcurrentShards'
    <3>1. c0 \in Nat /\ totalConcurrentShards' = totalConcurrentShards + c0
      BY <2>1
    <3> HIDE DEF s0, c0
    <3> QED
      BY <1>c, <2>2, <3>1
  <2>7. ASSUME NEW s \in 1..laidOut
        PROVE  shardBase'[s + 1] = shardBase'[s] + Scenarios[s].concurrency
    <3>1. CASE s = laidOut
      BY <1>a, <1>c, <2>2, <3>1
    <3>2. CASE s # laidOut
      <4>1. s \in 1..laidOut - 1 /\ s + 1 \in 1..laidOut
        BY <1>c, <3>2
      <4> QED
        BY <1>a, <2>2, <4>1
    <3> QED
      BY <3>1, <3>2
  <2>8. laidOut' - 1 = laidOut /\ laidOut' > 0
    BY <1>c, <2>1
  <2>9. Layout'
    BY <2>1, <2>4, <2>5, <2>6, <2>7, <2>8
  <2> QED
    BY <1>b, <2>3, <2>9
<1>2. CASE BeginInterval
  <2>1. /\ UNCHANGED <<layoutVars, worker, workerShard>>
        /\ idx' = 1 /\ concurrentShardBase' = 1
        /\ gen = "loop"
    BY <1>2 DEF BeginInterval
  <2>2. 1 \in ScenarioIds => shardBase[1] = 1
    BY <1>a, <1>c, <2>1 DEF LayoutInv, LifeInv, ScenarioIds
  <2> QED
    BY <1>a, <1>b, <2>1, <2>2 DEF Live
<1>3. ASSUME UNCHANGED <<layoutVars, worker, workerShard>>,
             gen' = "scenario", InProduceLogs, idx' = idx + 1, idx \in ScenarioIds,
             concurrentShardBase' = concurrentShardBase + Scn.concurrency
                 \/ (UNCHANGED concurrentShardBase /\ idx \notin Generating)
      PROVE  TrackInv'
  <2>1. laidOut = Len(Scenarios)
    BY <1>3 DEF LayoutInv, LifeInv, InProduceLogs
  <2>2. ASSUME idx' \in ScenarioIds PROVE concurrentShardBase' = shardBase[idx'] \/ Rest'
    <3>1. idx \in 1..laidOut - 1
      BY <1>3, <1>c, <2>1, <2>2 DEF ScenarioIds
    <3>2. shardBase[idx'] = shardBase[idx] + Scn.concurrency
      BY <1>3, <3>1, NextBase DEF Scn
    <3>3. \A s \in Generating : s \in Nat
      BY DEF Generating, ScenarioIds
    <3>4. CASE Rest
      BY <1>3, <1>c, <3>3, <3>4
    <3>5. CASE concurrentShardBase = shardBase[idx] /\ concurrentShardBase' = concurrentShardBase + Scn.concurrency
      BY <3>2, <3>5
    <3>6. CASE concurrentShardBase = shardBase[idx] /\ UNCHANGED concurrentShardBase /\ idx \notin Generating
      <4>1. Scn.concurrency \in Nat
        BY <1>3, ScenarioType DEF Scn
      <4>2. CASE Scn.concurrency = 0
        BY <1>3, <1>c, <3>2, <3>6, <4>2
      <4>3. CASE Scn.concurrency > 0
        <5>1. ASSUME NEW s \in Generating, s >= idx'
              PROVE  Scenarios[s].concurrency = 0
          <6>1. idx < s /\ Scenarios[s].concurrency \in Nat
            BY <1>3, <1>c, <3>3, <5>1, ScenarioType DEF Generating
          <6> QED
            BY <1>3, <3>6, <4>3, <6>1 DEF SilentLast, Scn
        <5> QED
          BY <5>1
      <4> QED
        BY <4>1, <4>2, <4>3
    <3> QED
      BY <1>3, <1>a, <2>2, <3>4, <3>5, <3>6
  <2> QED
    BY <1>3, <1>a, <1>b, <2>2 DEF Live
<1>4. CASE SkipScenario
  <2>1. /\ UNCHANGED <<layoutVars, worker, workerShard, concurrentShardBase>>
        /\ gen' = "scenario" /\ InProduceLogs /\ idx' = idx + 1
        /\ idx \in ScenarioIds /\ idx \notin Generating
    BY <1>4, <1>c DEF SkipScenario, InProduceLogs, ScenarioIds, Generating, Scn
  <2> QED
    BY <1>3, <2>1
<1>5. CASE ConsumeSequential
  <2>1. /\ UNCHANGED <<layoutVars, worker, workerShard, concurrentShardBase>>
        /\ gen' = "scenario" /\ InProduceLogs /\ idx' = idx + 1
        /\ idx \in ScenarioIds /\ Scn.concurrency = 0
    BY <1>5 DEF ConsumeSequential, InProduceLogs, ScenarioInv, Generating
  <2>2. concurrentShardBase' = concurrentShardBase + Scn.concurrency
    BY <1>c, <2>1
  <2> QED
    BY <1>3, <2>1, <2>2
<1>6. CASE AllSpawned
  <2>1. /\ UNCHANGED <<layoutVars, worker, workerShard>>
        /\ gen' = "scenario" /\ InProduceLogs /\ idx' = idx + 1
        /\ idx \in ScenarioIds
        /\ concurrentShardBase' = concurrentShardBase + Scn.concurrency
    BY <1>6 DEF AllSpawned, InProduceLogs, ScenarioInv, Generating
  <2> QED
    BY <1>3, <2>1
<1>7. CASE SpawnWorker
  <2> DEFINE w0 == <<idx, nextWorker>>
             s0 == concurrentShardBase + nextWorker
  <2>1. /\ UNCHANGED <<layoutVars, gen, idx, concurrentShardBase>>
        /\ gen = "spawn" /\ nextWorker < Scn.concurrency
        /\ worker' = [worker EXCEPT ![w0] = "append"]
        /\ workerShard' = [workerShard EXCEPT ![w0] = Shard(s0)]
    BY <1>7 DEF SpawnWorker
  <2>2. nextWorker \in Nat /\ idx \in Generating /\ idx \in ScenarioIds /\ Scn.concurrency > 0
    BY <2>1 DEF TypeOK, GeneratorTypeOK, ScenarioInv, Generating
  <2>3. w0 \in Workers /\ w0[1] = idx /\ w0[2] = nextWorker
    BY <2>1, <2>2, WorkerType DEF Scn
  <2>4. Shard(s0) = s0
    <3>1. s0 = NextShard /\ s0 <= totalConcurrentShards
      BY <2>1, <2>2, NextShardBound DEF NextShard, InProduceLogs
    <3> QED
      BY <1>c, <2>2, <3>1, ShardInRange
  <2>5. concurrentShardBase = shardBase[idx]
    <3>1. Scn.concurrency # 0 /\ idx >= idx
      BY <1>c, <2>2, ScenarioType DEF Scn
    <3>2. ~Rest
      BY <2>2, <3>1 DEF Scn
    <3> QED
      BY <1>a, <2>1, <2>2, <3>2 DEF InProduceLogs
  <2>6. \A w \in Workers : w # w0 => worker'[w] = worker[w] /\ workerShard'[w] = workerShard[w]
    BY <2>1, <2>3 DEF TypeOK, WorkerTypeOK
  <2>7. workerShard'[w0] = s0
    BY <2>1, <2>3, <2>4 DEF TypeOK, WorkerTypeOK
  <2>8. Held'
    <3> SUFFICES ASSUME NEW w \in Workers, Live(w)'
                 PROVE  workerShard'[w] = shardBase'[w[1]] + w[2]
      OBVIOUS
    <3>1. CASE w = w0
      BY <2>1, <2>3, <2>5, <2>7, <3>1
    <3>2. CASE w # w0
      BY <1>a, <2>1, <2>6, <3>2 DEF Live
    <3> QED
      BY <3>1, <3>2
  <2>9. Layout' /\ AtBase'
    BY <1>a, <2>1 DEF InProduceLogs
  <2> QED
    BY <1>b, <2>8, <2>9
<1>8. ASSUME UNCHANGED <<layoutVars, idx, concurrentShardBase, workerShard>>,
             InProduceLogs' => InProduceLogs,
             \A w \in Workers : Live(w)' => Live(w)
      PROVE  TrackInv'
  BY <1>8, <1>a, <1>b
<1>9. ASSUME NEW w \in Workers, Worker(w)
      PROVE  TrackInv'
  <2>1. /\ UNCHANGED <<layoutVars, idx, concurrentShardBase, workerShard, gen>>
        /\ \A v \in Workers : Live(v)' => Live(v)
    BY <1>9 DEF Worker, WorkerAppend, WorkerCount, WorkerConsume, Live, TypeOK, WorkerTypeOK
  <2> QED
    BY <1>8, <2>1 DEF InProduceLogs
<1>10. CASE EnterScenario \/ AppendInstance \/ ReadTotal \/ WriteTotal
  <2>1. /\ UNCHANGED <<layoutVars, idx, concurrentShardBase, worker, workerShard>>
        /\ InProduceLogs
    BY <1>10 DEF EnterScenario, AppendInstance, ReadTotal, WriteTotal, InProduceLogs
  <2> QED
    BY <1>8, <2>1 DEF Live
<1>11. CASE \/ Constructed \/ Start \/ CancelStartContext \/ ShutdownCancel
            \/ ShutdownCollect \/ LoopCancelled \/ WindowEnd \/ SleepBeforeExit
            \/ ReportFatal \/ CloseDone \/ AwaitWorkers \/ Advance \/ Tick
            \/ UNCHANGED vars
  <2>1. /\ UNCHANGED <<layoutVars, idx, concurrentShardBase, worker, workerShard>>
        /\ InProduceLogs' => InProduceLogs
    BY <1>11
       DEF Constructed, Start, CancelStartContext, ShutdownCancel,
           ShutdownCollect, LoopCancelled, WindowEnd, SleepBeforeExit,
           ReportFatal, CloseDone, AwaitWorkers, Advance, Tick, InProduceLogs
  <2> QED
    BY <1>8, <2>1 DEF Live
<1> QED
  BY <1>1, <1>2, <1>4, <1>5, <1>6, <1>7, <1>9, <1>10, <1>11
     DEF Next, Generator, Terminated

(***************************************************************************)
(* When the generator has a batch of its own, no worker is left of the     *)
(* scenarios before.                                                       *)
(***************************************************************************)
LEMMA NoWorkersBefore ==
    ASSUME SequentialFirst, TypeOK, OwnerInv, ScenarioInv, OwnBatch
    PROVE  \A w \in Workers : ~Live(w)
<1> SUFFICES ASSUME NEW w \in Workers, Live(w) PROVE FALSE
  OBVIOUS
<1>1. gen # "spawn" /\ idx \in Generating /\ Scn.concurrency = 0
  BY DEF OwnBatch, ScenarioInv
<1>2. w[1] < idx /\ w[1] \in Generating
  BY <1>1 DEF OwnerInv, ScenarioInv
<1>3. Scenarios[w[1]].concurrency > 0
  BY WorkerType, ScenarioType
<1> QED
  BY <1>1, <1>2, <1>3 DEF SequentialFirst, Scn

(***************************************************************************)
(* What has been counted, shard by shard, is a function of counts, and     *)
(* changing it at one shard changes its sum by as much.                    *)
(***************************************************************************)
LEMMA CountedType ==
    TypeOK => /\ IsFiniteSet(ShardIds)
              /\ Counted \in [ShardIds -> Int]
              /\ \A k \in ShardIds :
                    Counted[k] = IF Counting(k) THEN shards[k] ELSE sunk[k]
<1> SUFFICES ASSUME TypeOK
             PROVE  /\ IsFiniteSet(ShardIds)
                    /\ Counted \in [ShardIds -> Int]
                    /\ \A k \in ShardIds :
                          Counted[k] = IF Counting(k) THEN shards[k] ELSE sunk[k]
  OBVIOUS
<1>1. IsFiniteSet(ShardIds)
  BY FS_Interval DEF ShardIds, TypeOK, HostTypeOK
<1> DEFINE count(k) == IF Counting(k) THEN shards[k] ELSE sunk[k]
<1>2. \A k \in ShardIds : count(k) \in Int
  BY DEF TypeOK, OutputTypeOK
<1>3. Counted = [k \in ShardIds |-> count(k)]
  BY DEF Counted
<1> HIDE DEF count
<1>4. Counted \in [ShardIds -> Int] /\ \A k \in ShardIds : Counted[k] = count(k)
  BY <1>2, <1>3
<1> QED
  BY <1>1, <1>4 DEF count

LEMMA CountedNext ==
    ASSUME TypeOK, TypeOK', UNCHANGED totalConcurrentShards,
           NEW k \in ShardIds, NEW n \in Int,
           Counted'[k] = Counted[k] + n,
           \A i \in ShardIds : i # k => Counted'[i] = Counted[i]
    PROVE  SumFunction(Counted)' = SumFunction(Counted) + n
<1>1. IsFiniteSet(ShardIds) /\ Counted \in [ShardIds -> Int]
  BY CountedType
<1>2. Counted' \in [ShardIds -> Int]
  <2> DEFINE count(i) == IF Counting(i)' THEN shards'[i] ELSE sunk'[i]
  <2>1. \A i \in ShardIds' : count(i) \in Int
    BY DEF TypeOK, OutputTypeOK
  <2>2. Counted' = [i \in ShardIds' |-> count(i)]
    BY DEF Counted
  <2>3. ShardIds' = ShardIds
    BY DEF ShardIds
  <2> HIDE DEF count
  <2> QED
    BY <2>1, <2>2, <2>3
<1>3. SumFunction(Counted') = SumFunction(Counted) + n
  BY <1>1, <1>2, SumUpdate
<1> QED
  BY <1>3

(***************************************************************************)
(* What has been added to the totals is what has been counted in shards.   *)
(***************************************************************************)
LEMMA TotalNext ==
    SequentialFirst /\ TypeOK /\ LayoutInv /\ LifeInv /\ BaseInv /\ OwnerInv
        /\ CountInv /\ ScenarioInv /\ TotalInv /\ [Next]_vars
    => TotalInv'
<1> SUFFICES ASSUME SequentialFirst, TypeOK, LayoutInv, LifeInv, BaseInv,
                    OwnerInv, CountInv, ScenarioInv, TotalInv, [Next]_vars
             PROVE  TotalInv'
  OBVIOUS
<1> DEFINE total == logCount + (IF InProduceLogs THEN totalLogs ELSE 0)
           Flow == /\ life = "constructing" => logCount = 0
                   /\ life = "stopped" => summary.logs = logCount
                   /\ gen = "write" => readTotal = totalLogs
<1>a. /\ Flow /\ total = SumFunction(Counted)
      /\ Flow' /\ total' = SumFunction(Counted)' => TotalInv'
  BY DEF TotalInv
<1>b. TypeOK'
  BY TypeNext
<1>c. /\ totalConcurrentShards \in Nat
      /\ 0 \in ShardIds
      /\ logCount \in Nat /\ totalLogs \in Nat /\ batch \in Nat
      /\ shards \in [ShardIds -> Nat] /\ sunk \in [ShardIds -> Nat]
      /\ workerShard \in [Workers -> Nat]
      /\ workerBatch \in [Workers -> Nat]
  <2>1. totalConcurrentShards \in Nat /\ 0 \in ShardIds
    BY DEF TypeOK, HostTypeOK, ShardIds
  <2> QED
    BY <2>1 DEF TypeOK, GeneratorTypeOK, WorkerTypeOK, OutputTypeOK
<1>d. /\ \A k \in ShardIds : Counted[k] = IF Counting(k) THEN shards[k] ELSE sunk[k]
      /\ Counted \in [ShardIds -> Int]
  BY CountedType
<1>e. \A k \in ShardIds' : Counted'[k] = IF Counting(k)' THEN shards'[k] ELSE sunk'[k]
  BY DEF Counted
<1>f. ASSUME UNCHANGED totalConcurrentShards PROVE ShardIds' = ShardIds
  BY <1>f DEF ShardIds
<1>g. ASSUME UNCHANGED totalConcurrentShards,
             \A k \in ShardIds : Counted'[k] = Counted[k],
             total' = total, Flow'
      PROVE  TotalInv'
  <2>1. SumFunction(Counted)' = SumFunction(Counted) + 0
    <3>1. Counted'[0] = Counted[0] + 0
      BY <1>c, <1>d, <1>g
    <3> QED
      BY <1>b, <1>c, <1>g, <3>1, CountedNext
  <2>2. total \in Int
    BY <1>c
  <2> HIDE DEF total, Flow
  <2> QED
    BY <1>a, <1>g, <2>1, <2>2
<1>h. ASSUME UNCHANGED totalConcurrentShards, NEW k \in ShardIds, NEW n \in Nat,
             Counted'[k] = Counted[k] + n,
             \A i \in ShardIds : i # k => Counted'[i] = Counted[i],
             total' = total + n, Flow'
      PROVE  TotalInv'
  <2>1. SumFunction(Counted)' = SumFunction(Counted) + n
    BY <1>b, <1>h, CountedNext
  <2> HIDE DEF total, Flow
  <2> QED
    BY <1>a, <1>h, <2>1
<1>i. ASSUME UNCHANGED <<totalConcurrentShards, shards, sunk, worker, workerShard>>,
             gen = "consume" <=> gen' = "consume",
             total' = total, Flow'
      PROVE  TotalInv'
  <2>1. \A k : Counting(k)' <=> Counting(k)
    BY <1>i DEF Counting
  <2>2. \A k \in ShardIds : Counted'[k] = Counted[k]
    BY <1>d, <1>e, <1>f, <1>i, <2>1
  <2> HIDE DEF total, Flow
  <2> QED
    BY <1>g, <1>i, <2>2
<1>j. ASSUME OwnBatch
      PROVE  \A w \in Workers : ~Live(w)
  BY <1>j, NoWorkersBefore
<1>1. CASE LayOutShards
  <2>1. /\ shards' = [k \in ShardIds' |-> 0]
        /\ sunk' = [k \in ShardIds' |-> 0]
        /\ logCount = 0 /\ life' = "constructing"
        /\ gen' = "off" /\ UNCHANGED <<logCount, worker>>
    BY <1>1, <1>a DEF LayOutShards, ShardIds, LifeInv
  <2>2. Counted' = [k \in ShardIds' |-> 0]
    BY <2>1 DEF Counted
  <2>3. IsFiniteSet(ShardIds')
    BY <1>b, FS_Interval DEF ShardIds, TypeOK, HostTypeOK
  <2>4. SumFunction(Counted)' = 0
    BY <2>2, <2>3, SumZero
  <2> QED
    BY <1>a, <2>1, <2>4 DEF InProduceLogs
<1>2. CASE BeginInterval
  <2>1. /\ UNCHANGED <<totalConcurrentShards, shards, sunk, worker, workerShard,
                       logCount, life, summary, readTotal>>
        /\ gen = "loop" /\ gen' = "scenario" /\ totalLogs' = 0
    BY <1>2 DEF BeginInterval
  <2>2. total' = total /\ Flow'
    BY <1>a, <2>1 DEF InProduceLogs
  <2> HIDE DEF total, Flow
  <2> QED
    BY <1>i, <2>1, <2>2
<1>3. CASE AwaitWorkers
  <2>1. /\ UNCHANGED <<totalConcurrentShards, shards, sunk, worker, workerShard,
                       life, summary, readTotal>>
        /\ gen = "scenario" /\ gen' = "tick" /\ logCount' = logCount + totalLogs
    BY <1>3 DEF AwaitWorkers
  <2>2. life \notin {"stopped", "constructing"}
    BY <2>1 DEF LifeInv
  <2>3. total' = total /\ Flow'
    BY <1>a, <1>c, <2>1, <2>2 DEF InProduceLogs
  <2> HIDE DEF total, Flow
  <2> QED
    BY <1>i, <2>1, <2>3
<1>4. CASE AppendInstance
  <2>1. /\ UNCHANGED <<totalConcurrentShards, sunk, worker, workerShard, gen,
                       logCount, totalLogs, life, summary, readTotal>>
        /\ gen = "append"
    BY <1>4 DEF AppendInstance
  <2>2. \A w \in Workers : ~Live(w)
    BY <1>j, <2>1 DEF OwnBatch
  <2>3. \A k : ~Counting(k) /\ ~Counting(k)'
    BY <2>1, <2>2 DEF Counting, Live
  <2>4. \A k \in ShardIds : Counted'[k] = Counted[k]
    BY <1>d, <1>e, <1>f, <2>1, <2>3
  <2>5. total' = total /\ Flow'
    BY <1>a, <2>1 DEF InProduceLogs
  <2> HIDE DEF total, Flow
  <2> QED
    BY <1>g, <2>1, <2>4, <2>5
<1>5. CASE WriteTotal
  <2>1. /\ UNCHANGED <<totalConcurrentShards, shards, sunk, worker, workerShard,
                       logCount, life, summary, readTotal>>
        /\ gen = "write" /\ gen' = "consume" /\ totalLogs' = readTotal + batch
    BY <1>5 DEF WriteTotal
  <2>2. \A w \in Workers : ~Live(w)
    BY <1>j, <2>1 DEF OwnBatch
  <2>3. \A k : ~Counting(k) /\ (Counting(k)' <=> k = 0)
    BY <2>1, <2>2 DEF Counting, Live
  <2>4. shards[0] = sunk[0] + batch
    BY <2>1 DEF CountInv, OwnBatch
  <2>5. /\ Counted'[0] = Counted[0] + batch
        /\ \A k \in ShardIds : k # 0 => Counted'[k] = Counted[k]
    BY <1>c, <1>d, <1>e, <1>f, <2>1, <2>3, <2>4
  <2>6. total' = total + batch /\ Flow'
    BY <1>a, <1>c, <2>1 DEF InProduceLogs
  <2> HIDE DEF total, Flow
  <2> QED
    BY <1>c, <1>h, <2>1, <2>5, <2>6
<1>6. CASE ConsumeSequential
  <2>1. /\ UNCHANGED <<totalConcurrentShards, shards, worker, workerShard,
                       logCount, totalLogs, life, summary, readTotal>>
        /\ gen = "consume" /\ gen' = "scenario"
        /\ sunk' = [sunk EXCEPT ![0] = @ + batch]
    <3>1. Shard(0) = 0
      BY <1>c, ShardInRange
    <3> QED
      BY <1>6, <3>1 DEF ConsumeSequential
  <2>2. \A w \in Workers : ~Live(w)
    BY <1>j, <2>1 DEF OwnBatch
  <2>3. \A k : ~Counting(k)' /\ (Counting(k) <=> k = 0)
    BY <2>1, <2>2 DEF Counting, Live
  <2>4. sunk'[0] = shards[0] /\ \A k \in ShardIds \ {0} : sunk'[k] = sunk[k]
    BY <1>c, <2>1 DEF CountInv, OwnBatch
  <2>5. \A k \in ShardIds : Counted'[k] = Counted[k]
    BY <1>d, <1>e, <1>f, <2>1, <2>3, <2>4
  <2>6. total' = total /\ Flow'
    BY <1>a, <2>1 DEF InProduceLogs
  <2> HIDE DEF total, Flow
  <2> QED
    BY <1>g, <2>1, <2>5, <2>6
<1>7. CASE SpawnWorker
  <2> DEFINE w0 == <<idx, nextWorker>>
  <2>1. /\ UNCHANGED <<totalConcurrentShards, shards, sunk, gen, logCount,
                       totalLogs, life, summary, readTotal>>
        /\ gen = "spawn" /\ nextWorker < Scn.concurrency
        /\ worker' = [worker EXCEPT ![w0] = "append"]
        /\ \E s : workerShard' = [workerShard EXCEPT ![w0] = s]
    BY <1>7 DEF SpawnWorker
  <2>2. nextWorker \in Nat /\ idx \in ScenarioIds
    BY <2>1 DEF TypeOK, GeneratorTypeOK
  <2>3. w0 \in Workers /\ w0[1] = idx /\ w0[2] = nextWorker
    BY <2>1, <2>2, WorkerType DEF Scn
  <2>4. ~Live(w0)
    BY <2>2, <2>3, ScenarioType DEF OwnerInv, ScenarioIds
  <2>5. /\ worker'[w0] = "append"
        /\ \A w \in Workers : w # w0 => worker'[w] = worker[w] /\ workerShard'[w] = workerShard[w]
    BY <2>1, <2>3 DEF TypeOK, WorkerTypeOK
  <2> HIDE DEF w0
  <2>6. \A k : Counting(k)' <=> Counting(k)
    BY <2>1, <2>4, <2>5 DEF Counting, Live
  <2>7. \A k \in ShardIds : Counted'[k] = Counted[k]
    BY <1>d, <1>e, <1>f, <2>1, <2>6
  <2>8. total' = total /\ Flow'
    BY <1>a, <2>1 DEF InProduceLogs
  <2> HIDE DEF total, Flow
  <2> QED
    BY <1>g, <2>1, <2>7, <2>8
<1>8. ASSUME NEW w \in Workers, Worker(w)
      PROVE  TotalInv'
  <2>0. PICK k0 : k0 = workerShard[w]
    OBVIOUS
  <2>1. /\ UNCHANGED <<totalConcurrentShards, gen, logCount, life, summary,
                       readTotal, workerShard>>
        /\ Live(w)
    BY <1>8 DEF Worker, WorkerAppend, WorkerCount, WorkerConsume, Live
  <2>2. k0 \in ShardIds \ {0}
    BY <2>0, <2>1, WorkerShardRange
  <2>3. InProduceLogs /\ \A v \in Workers : Live(v) /\ v # w => workerShard[v] # k0
    BY <2>0, <2>1 DEF OwnerInv
  <2>4. shards[k0] = sunk[k0] + workerBatch[w]
    BY <2>0, <2>1 DEF CountInv
  <2>5. gen # "write"
    BY <1>j, <2>1 DEF OwnBatch
  <2>6. Counting(k0) <=> worker[w] = "consume"
    BY <2>0, <2>2, <2>3 DEF Counting, Live
  <2>7. ASSUME \A v \in Workers : v # w => worker'[v] = worker[v]
        PROVE  /\ \A k : k # k0 => (Counting(k)' <=> Counting(k))
               /\ Counting(k0)' <=> worker'[w] = "consume"
    <3>1. \A k : k # k0 => (Counting(k)' <=> Counting(k))
      BY <2>0, <2>1, <2>7 DEF Counting
    <3>2. Counting(k0)' <=> worker'[w] = "consume"
      BY <2>0, <2>1, <2>2, <2>3, <2>7 DEF Counting, Live
    <3> QED
      BY <3>1, <3>2
  <2>8. CASE WorkerAppend(w)
    <3>1. PICK n : shards' = [shards EXCEPT ![k0] = @ + n]
      BY <2>0, <2>8 DEF WorkerAppend
    <3>2. UNCHANGED <<worker, sunk, totalLogs>> /\ worker[w] = "append"
      BY <2>8 DEF WorkerAppend
    <3>3. \A k \in ShardIds : k # k0 => shards'[k] = shards[k]
      BY <1>c, <3>1
    <3>6. ~Counting(k0) /\ \A k : Counting(k)' <=> Counting(k)
      BY <2>1, <2>6, <3>2 DEF Counting
    <3>4. \A k \in ShardIds : Counted'[k] = Counted[k]
      <4> SUFFICES ASSUME NEW k \in ShardIds PROVE Counted'[k] = Counted[k]
        OBVIOUS
      <4>1. /\ Counted[k] = IF Counting(k) THEN shards[k] ELSE sunk[k]
            /\ Counted'[k] = IF Counting(k)' THEN shards'[k] ELSE sunk'[k]
        BY <1>d, <1>e, <1>f, <2>1
      <4> QED
        BY <3>2, <3>3, <3>6, <4>1
    <3>5. total' = total /\ Flow'
      BY <1>a, <2>1, <3>2 DEF InProduceLogs
    <3> HIDE DEF total, Flow
    <3> QED
      BY <1>g, <2>1, <3>4, <3>5
  <2>9. CASE WorkerCount(w)
    <3>1. /\ UNCHANGED <<shards, sunk>> /\ worker[w] = "append"
          /\ totalLogs' = totalLogs + workerBatch[w]
          /\ worker' = [worker EXCEPT ![w] = "consume"]
      BY <2>0, <2>9 DEF WorkerCount
    <3>2. worker'[w] = "consume" /\ \A v \in Workers : v # w => worker'[v] = worker[v]
      BY <3>1 DEF TypeOK, WorkerTypeOK
    <3>3. workerBatch[w] \in Nat
      BY <1>c
    <3>6. /\ ~Counting(k0) /\ Counting(k0)'
          /\ \A k : k # k0 => (Counting(k)' <=> Counting(k))
      BY <2>6, <2>7, <3>1, <3>2
    <3>7. \A k \in ShardIds :
             /\ Counted[k] = IF Counting(k) THEN shards[k] ELSE sunk[k]
             /\ Counted'[k] = IF Counting(k)' THEN shards'[k] ELSE sunk'[k]
      BY <1>d, <1>e, <1>f, <2>1
    <3>4. /\ Counted'[k0] = Counted[k0] + workerBatch[w]
          /\ \A k \in ShardIds : k # k0 => Counted'[k] = Counted[k]
      <4>1. shards' = shards /\ sunk' = sunk
        BY <3>1
      <4>2. Counted'[k0] = shards[k0] /\ Counted[k0] = sunk[k0]
        BY <2>2, <3>6, <3>7, <4>1
      <4>3. \A k \in ShardIds : k # k0 => Counted'[k] = Counted[k]
        BY <3>6, <3>7, <4>1
      <4> QED
        BY <2>4, <4>2, <4>3
    <3>5. total' = total + workerBatch[w] /\ Flow'
      BY <1>a, <1>c, <2>1, <2>3, <2>5, <3>1, <3>3 DEF InProduceLogs
    <3> HIDE DEF total, Flow
    <3> QED
      BY <1>h, <2>1, <2>2, <3>3, <3>4, <3>5
  <2>10. CASE WorkerConsume(w)
    <3>1. /\ UNCHANGED <<shards, totalLogs>> /\ worker[w] = "consume"
          /\ sunk' = [sunk EXCEPT ![k0] = @ + workerBatch[w]]
          /\ worker' = [worker EXCEPT ![w] = "off"]
      BY <2>0, <2>10 DEF WorkerConsume
    <3>2. worker'[w] = "off" /\ \A v \in Workers : v # w => worker'[v] = worker[v]
      BY <3>1 DEF TypeOK, WorkerTypeOK
    <3>3. sunk'[k0] = shards[k0] /\ \A k \in ShardIds : k # k0 => sunk'[k] = sunk[k]
      BY <1>c, <2>2, <2>4, <3>1
    <3>4. \A k \in ShardIds : Counted'[k] = Counted[k]
      BY <1>d, <1>e, <1>f, <2>1, <2>6, <2>7, <3>1, <3>2, <3>3
    <3>5. total' = total /\ Flow'
      BY <1>a, <2>1, <3>1 DEF InProduceLogs
    <3> HIDE DEF total, Flow
    <3> QED
      BY <1>g, <2>1, <3>4, <3>5
  <2> QED
    BY <1>8, <2>8, <2>9, <2>10 DEF Worker
<1>9. CASE ShutdownCollect
  <2>1. /\ UNCHANGED <<totalConcurrentShards, shards, sunk, worker, workerShard,
                       gen, logCount, totalLogs, readTotal>>
        /\ life' = "stopped" /\ summary'.logs = logCount
    BY <1>9 DEF ShutdownCollect
  <2>2. total' = total /\ Flow'
    BY <1>a, <2>1 DEF InProduceLogs
  <2> HIDE DEF total, Flow
  <2> QED
    BY <1>i, <2>1, <2>2
<1>10. CASE \/ Constructed \/ Start \/ CancelStartContext \/ ShutdownCancel
            \/ LoopCancelled \/ WindowEnd \/ SleepBeforeExit \/ ReportFatal
            \/ CloseDone \/ Advance
  <2>1. /\ UNCHANGED <<totalConcurrentShards, shards, sunk, worker, workerShard,
                       logCount, totalLogs, readTotal, summary>>
        /\ InProduceLogs' = InProduceLogs
        /\ gen' = gen \/ (gen' \notin {"write", "consume"} /\ gen # "consume")
        /\ life' = life \/ life' \in {"created", "running", "stopping"}
    <3>1. CASE Constructed \/ Start \/ CancelStartContext \/ ShutdownCancel
      BY <1>10, <3>1
         DEF Constructed, Start, CancelStartContext, ShutdownCancel,
             InProduceLogs, LifeInv
    <3>2. CASE LoopCancelled \/ SleepBeforeExit \/ ReportFatal \/ CloseDone
      BY <3>2
         DEF LoopCancelled, SleepBeforeExit, ReportFatal, CloseDone, InProduceLogs
    <3>3. CASE WindowEnd
      <4>1. gen = "loop" /\ gen' \in {"sleep", "report", "closing"}
        BY <3>3 DEF WindowEnd
      <4> QED
        BY <3>3, <4>1 DEF WindowEnd, InProduceLogs
    <3>4. CASE Advance
      BY <3>4 DEF Advance, InProduceLogs
    <3> QED
      BY <1>10, <3>1, <3>2, <3>3, <3>4
  <2>2. total' = total /\ Flow'
    BY <1>a, <2>1
  <2> HIDE DEF total, Flow
  <2> QED
    BY <1>i, <2>1, <2>2
<1>11. CASE SkipScenario \/ EnterScenario \/ ReadTotal \/ AllSpawned \/ Tick
              \/ UNCHANGED vars
  <2>1. /\ UNCHANGED <<totalConcurrentShards, shards, sunk, worker, workerShard,
                       logCount, totalLogs, summary, life>>
        /\ InProduceLogs' = InProduceLogs
        /\ gen' = "consume" <=> gen = "consume"
        /\ gen' = "write" => readTotal' = totalLogs \/ UNCHANGED <<gen, readTotal>>
    BY <1>11
       DEF SkipScenario, EnterScenario, ReadTotal, AllSpawned, Tick, InProduceLogs
  <2>2. total' = total /\ Flow'
    BY <1>a, <2>1
  <2> HIDE DEF total, Flow
  <2> QED
    BY <1>i, <2>1, <2>2
<1> QED
  BY <1>1, <1>2, <1>3, <1>4, <1>5, <1>6, <1>7, <1>8, <1>9, <1>10, <1>11
     DEF Next, Generator, Terminated

LEMMA InvNext == IInv /\ [Next]_vars => IInv'
  BY TypeNext, LayoutNext, BaseNext, OwnerNext, CountNext, LifeNext,
     StreamInvNext, TotalNext, TrackNext
     DEF IInv, StreamInv

(***************************************************************************)
(* The inductive invariant holds of every receiver.                        *)
(***************************************************************************)
THEOREM Invariance == Spec => []IInv
  BY InvInit, InvNext, PTL DEF Spec

-----------------------------------------------------------------------------
(***************************************************************************)
(* Whatever the scenarios, no statistics shard is ever held by two         *)
(* goroutines at a time: the claim logstats.go makes of its shards.        *)
(***************************************************************************)
THEOREM ShardExclusiveCorrect == Spec => []ShardExclusive
<1>1. IInv => ShardExclusive
  BY DEF IInv, TypeOK, WorkerTypeOK, OwnerInv, ShardExclusive
<1> QED
  BY <1>1, Invariance, PTL

(***************************************************************************)
(* Whatever the scenarios, the statistics Shutdown merges hold exactly the *)
(* records that were consumed, and nothing is consumed afterwards.         *)
(***************************************************************************)
THEOREM SummaryCompleteCorrect == Spec => []SummaryComplete
<1>1. IInv => SummaryComplete
  <2> SUFFICES ASSUME IInv, life = "stopped" PROVE summary.stats = sunk
    BY DEF SummaryComplete
  <2>1. gen \in {"off", "finished"} /\ summary.stats = shards
    BY DEF IInv, LifeInv
  <2>2. ~OwnBatch /\ \A w \in Workers : ~Live(w)
    BY <2>1 DEF IInv, OwnBatch, OwnerInv, InProduceLogs
  <2>3. shards \in [ShardIds -> Nat] /\ sunk \in [ShardIds -> Nat]
    BY DEF IInv, TypeOK, OutputTypeOK
  <2>4. \A k \in ShardIds : shards[k] = sunk[k]
    BY <2>2, <2>3 DEF IInv, CountInv, TypeOK, HostTypeOK, ShardIds
  <2> QED
    BY <2>1, <2>3, <2>4
<1> QED
  BY <1>1, Invariance, PTL

(***************************************************************************)
(* When Shutdown has returned neither the generator nor a worker runs.     *)
(***************************************************************************)
THEOREM NoGoroutineOutlivesCorrect == Spec => []NoGoroutineOutlives
<1>1. IInv => NoGoroutineOutlives
  BY DEF IInv, LifeInv, OwnerInv, InProduceLogs, NoGoroutineOutlives
<1> QED
  BY <1>1, Invariance, PTL

(***************************************************************************)
(* If no scenario that the generator produces itself comes after one with  *)
(* workers, the number of logs Shutdown reports is the number of records   *)
(* in the statistics it prints, whatever the interleaving.                 *)
(***************************************************************************)
THEOREM LogCountExactCorrect ==
    ASSUME SequentialFirst
    PROVE  Spec => []LogCountExact
<1>1. IInv => LogCountExact
  <2> SUFFICES ASSUME IInv, life = "stopped", summary.stats # <<>>
               PROVE  summary.logs = SumFunction(summary.stats)
    BY DEF LogCountExact
  <2>1. TypeOK /\ TotalInv
    BY DEF IInv
  <2>2. gen \in {"off", "finished"} /\ summary.stats = shards
    BY DEF IInv, LifeInv
  <2>3. \A w \in Workers : ~Live(w)
    BY <2>2 DEF IInv, OwnerInv, InProduceLogs
  <2>4. \A k : ~Counting(k)
    BY <2>2, <2>3 DEF Counting, Live
  <2>5. sunk = shards
    <3>1. shards \in [ShardIds -> Nat] /\ sunk \in [ShardIds -> Nat]
      BY <2>1 DEF TypeOK, OutputTypeOK
    <3>2. \A k \in ShardIds : shards[k] = sunk[k]
      <4>1. ~OwnBatch /\ CountInv
        BY <2>2 DEF IInv, OwnBatch
      <4>2. sunk[0] \in Nat
        BY <2>1, <3>1 DEF TypeOK, HostTypeOK, ShardIds
      <4>3. shards[0] = sunk[0]
        BY <4>1, <4>2 DEF CountInv
      <4> QED
        BY <2>3, <4>1, <4>3 DEF CountInv
    <3> QED
      BY <3>1, <3>2
  <2>6. Counted = shards
    <3>1. Counted = [k \in ShardIds |-> sunk[k]]
      BY <2>4 DEF Counted
    <3> QED
      BY <2>1, <2>5, <3>1 DEF TypeOK, OutputTypeOK
  <2>7. logCount \in Nat /\ ~InProduceLogs
    BY <2>1, <2>2 DEF TypeOK, OutputTypeOK, InProduceLogs
  <2>8. logCount + 0 = SumFunction(Counted) /\ summary.logs = logCount
    BY <2>1, <2>7 DEF TotalInv
  <2> QED
    BY <2>2, <2>6, <2>7, <2>8
<1> QED
  BY <1>1, Invariance, PTL

(***************************************************************************)
(* If every concurrent scenario that generates no logs comes after those   *)
(* that do, the first worker of a scenario, and no other, has a shard that *)
(* tracks field cardinality.                                               *)
(***************************************************************************)
THEOREM CardinalityTrackedOnceCorrect ==
    ASSUME SilentLast
    PROVE  Spec => []CardinalityTrackedOnce
<1>1. IInv => CardinalityTrackedOnce
  <2> SUFFICES ASSUME IInv, NEW w \in Workers, Live(w)
               PROVE  workerShard[w] \in cardinalityShards <=> w[2] = 0
    BY DEF CardinalityTrackedOnce
  <2> DEFINE s == w[1]
             first == {shardBase[t] : t \in {u \in 1..laidOut : Scenarios[u].concurrency > 0}}
  <2>1. /\ TypeOK /\ LayoutInv
        /\ cardinalityShards = {0} \cup first
        /\ workerShard[w] = shardBase[s] + w[2]
    BY DEF IInv, TrackInv
  <2>2. /\ s \in ScenarioIds /\ w[2] \in Nat
        /\ w[2] < Scenarios[s].concurrency
    BY WorkerType
  <2>3. laidOut = Len(Scenarios) /\ ScenarioIds = 1..laidOut
    BY DEF IInv, OwnerInv, InProduceLogs, LifeInv, LayoutInv, ScenarioIds
  <2>4. \A t \in ScenarioIds : /\ shardBase[t] \in Nat /\ 1 <= shardBase[t]
                               /\ Scenarios[t].concurrency \in Nat
                               /\ t \in Int
    BY <2>1, <2>3, ScenarioType DEF TypeOK, HostTypeOK, LayoutInv, ScenarioIds
  <2>5. ASSUME w[2] = 0 PROVE workerShard[w] \in cardinalityShards
    <3>1. s \in {u \in 1..laidOut : Scenarios[u].concurrency > 0}
      BY <2>2, <2>3, <2>4
    <3>2. workerShard[w] = shardBase[s]
      BY <2>1, <2>2, <2>4, <2>5
    <3> QED
      BY <2>1, <3>1, <3>2
  <2>6. ASSUME workerShard[w] \in cardinalityShards PROVE w[2] = 0
    <3>1. workerShard[w] # 0
      BY <2>1, <2>2, <2>4
    <3>2. PICK t \in ScenarioIds : /\ Scenarios[t].concurrency > 0
                                   /\ workerShard[w] = shardBase[t]
      BY <2>1, <2>3, <2>6, <3>1
    <3>3. CASE t < s
      <4>1. shardBase[t] + Scenarios[t].concurrency <= shardBase[s]
        BY <2>1, <2>2, <2>3, <3>3 DEF LayoutInv
      <4> QED
        BY <2>1, <2>2, <2>4, <3>2, <4>1
    <3>4. CASE s < t
      <4>1. shardBase[s] + Scenarios[s].concurrency <= shardBase[t]
        BY <2>1, <2>2, <2>3, <3>4 DEF LayoutInv
      <4> QED
        BY <2>1, <2>2, <2>4, <3>2, <4>1
    <3>5. CASE s = t
      BY <2>1, <2>2, <2>4, <3>2, <3>5
    <3> QED
      BY <2>2, <2>4, <3>3, <3>4, <3>5
  <2> QED
    BY <2>5, <2>6
<1> QED
  BY <1>1, Invariance, PTL

(***************************************************************************)
(* Whatever the scenarios and the window, the receiver implements          *)
(* LogStream: every instance once per interval, intervals whole and in     *)
(* order, none begun after a stop request, the end told only of a window   *)
(* that was replayed.                                                      *)
(***************************************************************************)
THEOREM StreamCorrect == Spec => StreamSpec
<1>1. IInv /\ [Next]_vars => [Stream!Next]_(Stream!streamVars)
  BY StreamStep DEF IInv
<1> QED
  BY <1>1, StreamInit, Invariance, PTL DEF Spec, StreamSpec, Stream!Spec
=============================================================================
