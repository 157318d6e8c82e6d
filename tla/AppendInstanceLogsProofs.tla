----------------------- MODULE AppendInstanceLogsProofs -----------------------
(***************************************************************************)
(* Proofs about AppendInstanceLogs, for every profile, every set of        *)
(* goroutines and resources, every needle and every jitter.                *)
(***************************************************************************)
EXTENDS AppendInstanceLogs, FoldLemmas

Window == CurrentTime..CurrentTime + Interval - 1

(***************************************************************************)
(* The cap, for every jitter and not only for those that were drawn.       *)
(***************************************************************************)
LEMMA JitterCapped == \A jitter \in Jitters : Jittered(jitter) \in Window
<1> SUFFICES ASSUME NEW jitter \in Jitters PROVE Jittered(jitter) \in Window
  OBVIOUS
<1>1. jitter \in Nat /\ Interval \in Nat \ {0} /\ CurrentTime \in Nat
  BY AppendAssumption
<1> QED
  BY <1>1 DEF Jittered, Window

(***************************************************************************)
(* The record a goroutine makes, and those of its batch, have their time   *)
(* in the interval; the batch is a sequence.                               *)
(***************************************************************************)
InWindow(r) == "time" \in DOMAIN r /\ r.time \in Window
IsBatch(b) == b \in Seq({b[i] : i \in DOMAIN b})
TimeInv ==
    /\ lr = [g \in Goroutines |-> lr[g]]
    /\ batch = [g \in Goroutines |-> batch[g]]
    /\ \A g \in Goroutines :
          /\ InWindow(lr[g])
          /\ IsBatch(batch[g])
          /\ \A i \in DOMAIN batch[g] : InWindow(batch[g][i])

(***************************************************************************)
(* Append adds its argument and keeps the rest.                            *)
(***************************************************************************)
LEMMA AppendToBatch ==
    ASSUME NEW b, IsBatch(b), NEW x
    PROVE  /\ IsBatch(Append(b, x))
           /\ \A i \in DOMAIN Append(b, x) :
                 Append(b, x)[i] = x \/ (i \in DOMAIN b /\ Append(b, x)[i] = b[i])
<1> DEFINE S == {b[i] : i \in DOMAIN b} \cup {x}
           c == Append(b, x)
<1>1. b \in Seq(S) /\ x \in S
  BY DEF IsBatch
<1> HIDE DEF S
<1>2. /\ c \in Seq(S)
      /\ Len(c) = Len(b) + 1
      /\ DOMAIN c = 1..Len(b) + 1 /\ DOMAIN b = 1..Len(b) /\ Len(b) \in Nat
      /\ \A i \in 1..Len(b) : c[i] = b[i]
      /\ c[Len(b) + 1] = x
  BY <1>1
<1> HIDE DEF c
<1>3. IsBatch(c)
  <2>1. /\ Len(c) \in Nat /\ DOMAIN c = 1..Len(c) /\ c = [i \in 1..Len(c) |-> c[i]]
    BY <1>2
  <2> QED
    BY <2>1 DEF IsBatch
<1> QED
  BY <1>2, <1>3 DEF c

(***************************************************************************)
(* Every step of every goroutine keeps the times in the interval.          *)
(***************************************************************************)
LEMMA TimeInit == Init => TimeInv
<1> SUFFICES ASSUME Init PROVE TimeInv
  OBVIOUS
<1>1. InWindow(NoRecord)
  <2>1. CurrentTime \in Nat /\ Interval \in Nat \ {0}
    BY AppendAssumption
  <2> QED
    BY <2>1 DEF Window, InWindow, NoRecord
<1>2. \A g \in Goroutines : lr[g] = NoRecord /\ batch[g] = <<>>
  BY DEF Init
<1>3. IsBatch(<<>>)
  BY DEF IsBatch
<1>4. /\ lr = [g \in Goroutines |-> lr[g]]
      /\ batch = [g \in Goroutines |-> batch[g]]
  BY DEF Init
<1> QED
  BY <1>1, <1>2, <1>3, <1>4 DEF TimeInv

LEMMA TimeNext == TimeInv /\ [Next]_vars => TimeInv'
<1> SUFFICES ASSUME TimeInv, [Next]_vars PROVE TimeInv'
  OBVIOUS
<1> USE DEF TimeInv
<1>1. ASSUME NEW g \in Goroutines, Generate(g) PROVE TimeInv'
  <2>1. PICK jitter \in Jitters, n \in Rolls :
             \E t \in TemplatesFor(Profile, PickSeverity(Profile.weights, n)) :
             \E o \in Generated(Profile, t, reusableAttrs[g]) :
                lr' = [lr EXCEPT ![g] =
                          [source |-> t, needle |-> 0,
                           severity |-> Profile.messages[t].severity,
                           attrs |-> Present(o.attrs),
                           resource |-> Instances[g][instance[g]],
                           time |-> Jittered(jitter), draws |-> o.draws + 3]]
    BY <1>1, ZenonT(60) DEF Generate
  <2>2. PICK t, o :
             lr' = [lr EXCEPT ![g] =
                       [source |-> t, needle |-> 0,
                        severity |-> Profile.messages[t].severity,
                        attrs |-> Present(o.attrs),
                        resource |-> Instances[g][instance[g]],
                        time |-> Jittered(jitter), draws |-> o.draws + 3]]
    BY <2>1
  <2> DEFINE r == [source |-> t, needle |-> 0,
                   severity |-> Profile.messages[t].severity,
                   attrs |-> Present(o.attrs),
                   resource |-> Instances[g][instance[g]],
                   time |-> Jittered(jitter), draws |-> o.draws + 3]
  <2>3. InWindow(r)
    BY JitterCapped DEF InWindow
  <2>4. lr' = [lr EXCEPT ![g] = r]
    BY <2>2
  <2> HIDE DEF r
  <2>5. UNCHANGED batch
    BY <1>1 DEF Generate
  <2> QED
    BY <2>3, <2>4, <2>5
<1>2. ASSUME NEW g \in Goroutines, RollNeedle(g) PROVE TimeInv'
  <2> DEFINE rolled == [lr[g] EXCEPT !.draws = @ + 1]
  <2>1. InWindow(rolled)
    BY DEF InWindow
  <2> HIDE DEF rolled
  <2>2. InWindow(Replacing(rolled, nextNeedle[g]))
    BY <2>1 DEF InWindow, Replacing
  <2>3. \/ lr' = [lr EXCEPT ![g] = rolled]
        \/ lr' = [lr EXCEPT ![g] = Replacing(rolled, nextNeedle[g])]
    BY <1>2 DEF RollNeedle, rolled
  <2>4. UNCHANGED batch
    BY <1>2 DEF RollNeedle
  <2> QED
    BY <2>1, <2>2, <2>3, <2>4
<1>3. ASSUME NEW g \in Goroutines, FinishRecord(g) PROVE TimeInv'
  <2> DEFINE r == [lr[g] EXCEPT !.draws = @ + TraceDraws]
  <2>1. InWindow(r)
    BY DEF InWindow
  <2>2. batch' = [batch EXCEPT ![g] = Append(batch[g], r)] /\ UNCHANGED lr
    BY <1>3 DEF FinishRecord
  <2> HIDE DEF r
  <2>3. /\ IsBatch(Append(batch[g], r))
        /\ \A i \in DOMAIN Append(batch[g], r) : InWindow(Append(batch[g], r)[i])
    BY <2>1, AppendToBatch
  <2>4. batch'[g] = Append(batch[g], r) /\ \A h \in Goroutines \ {g} : batch'[h] = batch[h]
    BY <2>2
  <2>5. batch' = [h \in Goroutines |-> batch'[h]]
    BY <2>2
  <2> QED
    BY <2>2, <2>3, <2>4, <2>5
<1>4. ASSUME NEW g \in Goroutines, Consume(g) PROVE TimeInv'
  BY <1>4 DEF Consume
<1>5. CASE UNCHANGED vars
  BY <1>5 DEF vars
<1> QED
  BY <1>1, <1>2, <1>3, <1>4, <1>5 DEF Next, Terminated

(***************************************************************************)
(* Whatever the jitter, the needles and the profile, no record is moved to *)
(* the next interval or before its own.                                    *)
(***************************************************************************)
THEOREM WithinIntervalCorrect == Spec => []WithinInterval
<1>1. TimeInv => WithinInterval
  BY DEF TimeInv, InWindow, WithinInterval, AllMade, Made, The, Window
<1> QED
  BY <1>1, TimeInit, TimeNext, PTL DEF Spec
-----------------------------------------------------------------------------
(***************************************************************************)
(* The needle counters.  Finished(n) and InTheMaking(n) are what           *)
(* NeedleCountsExact counts; a record carries no needle before one hits.   *)
(***************************************************************************)
Finished(n) == {r \in AllMade : Carries(The(r).attrs, n)}
InTheMaking(n) == {g \in Goroutines : pc[g] = "needles" /\ Carries(lr[g].attrs, n)}

NeedleInv ==
    /\ pc = [g \in Goroutines |-> pc[g]]
    /\ lr = [g \in Goroutines |-> lr[g]]
    /\ batch = [g \in Goroutines |-> batch[g]]
    /\ replaced = [g \in Goroutines |-> replaced[g]]
    /\ nextNeedle \in [Goroutines -> Nat \ {0}]
    /\ needleOccurrences \in [NeedleNames -> Nat]
    /\ IsFiniteSet(AllMade)
    /\ \A g \in Goroutines :
          /\ {"attrs", "draws"} \subseteq DOMAIN lr[g]
          /\ IsBatch(batch[g])
          /\ pc[g] = "needles" /\ ~replaced[g] => "needle.name" \notin DOMAIN lr[g].attrs
    /\ \A n \in NeedleNames :
          needleOccurrences[n] = Cardinality(Finished(n)) + Cardinality(InTheMaking(n))

(***************************************************************************)
(* The templates a record may come from are templates of the profile.      *)
(***************************************************************************)
LEMMA TemplatesExist ==
    ASSUME NEW sev, NEW t \in TemplatesFor(Profile, sev)
    PROVE  t \in DOMAIN Profile.messages
  BY DEF TemplatesFor, Bucket

(***************************************************************************)
(* What a needle that hits makes of the record's attributes.               *)
(***************************************************************************)
LEMMA ReplacedAttrs ==
    ASSUME NEW record, "attrs" \in DOMAIN record, NEW i \in DOMAIN Needles, NEW n
    PROVE  LET q == Replacing(record, i) IN
           /\ DOMAIN q = DOMAIN record
           /\ Carries(q.attrs, n) <=> n = Needles[i].name
<1> DEFINE q == Replacing(record, i)
           old == Put(record.attrs, "needle.name", Needles[i].name)
<1>1. DOMAIN q = DOMAIN record /\ q.attrs = PutAll(old, Needles[i].attrs)
  BY DEF Replacing
<1>2. "needle.name" \in DOMAIN old /\ old["needle.name"] = Needles[i].name
  BY DEF Put, PutAll
<1>3. "needle.name" \notin DOMAIN Needles[i].attrs
  BY NeedleNameAssumption
<1> HIDE DEF old
<1>4. "needle.name" \in DOMAIN q.attrs /\ q.attrs["needle.name"] = Needles[i].name
  BY <1>1, <1>2, <1>3 DEF PutAll
<1> QED
  BY <1>1, <1>4 DEF Carries

(***************************************************************************)
(* Append has one index more, with the new element.                        *)
(***************************************************************************)
LEMMA AppendIndex ==
    ASSUME NEW b, IsBatch(b), NEW x
    PROVE  \E k : /\ k \notin DOMAIN b
                  /\ DOMAIN Append(b, x) = DOMAIN b \cup {k}
                  /\ Append(b, x)[k] = x
                  /\ \A i \in DOMAIN b : Append(b, x)[i] = b[i]
<1> DEFINE S == {b[i] : i \in DOMAIN b} \cup {x}
           c == Append(b, x)
<1>1. b \in Seq(S) /\ x \in S
  BY DEF IsBatch
<1> HIDE DEF S
<1>2. /\ DOMAIN c = 1..Len(b) + 1 /\ DOMAIN b = 1..Len(b) /\ Len(b) \in Nat
      /\ \A i \in 1..Len(b) : c[i] = b[i]
      /\ c[Len(b) + 1] = x
  BY <1>1
<1> HIDE DEF c
<1>3. Len(b) + 1 \notin DOMAIN b /\ DOMAIN c = DOMAIN b \cup {Len(b) + 1}
  BY <1>2
<1> QED
  BY <1>2, <1>3 DEF c

LEMMA MadeRecords ==
    \A r : r \in AllMade <=> \E g \in Goroutines : \E i \in DOMAIN batch[g] : r = <<g, i>>
  BY DEF AllMade, Made

LEMMA CountsFinite ==
    ASSUME IsFiniteSet(AllMade), NEW n
    PROVE  /\ IsFiniteSet(Finished(n)) /\ Cardinality(Finished(n)) \in Nat
           /\ IsFiniteSet(InTheMaking(n)) /\ Cardinality(InTheMaking(n)) \in Nat
<1>1. Finished(n) \in SUBSET AllMade /\ InTheMaking(n) \in SUBSET Goroutines
  BY DEF Finished, InTheMaking
<1>2. IsFiniteSet(Goroutines)
  BY NeedleNameAssumption
<1>3. IsFiniteSet(Finished(n)) /\ IsFiniteSet(InTheMaking(n))
  BY <1>1, <1>2, FS_Subset
<1> QED
  BY <1>3, FS_CardinalityType

LEMMA NeedleInit == Init => NeedleInv
<1> SUFFICES ASSUME Init PROVE NeedleInv
  OBVIOUS
<1>1. \A g \in Goroutines :
         /\ lr[g] = NoRecord /\ batch[g] = <<>> /\ pc[g] # "needles"
         /\ nextNeedle[g] = 1
  BY DEF Init
<1>2. AllMade = {}
  BY <1>1 DEF AllMade, Made
<1>3. \A n : Finished(n) = {} /\ InTheMaking(n) = {}
  BY <1>1, <1>2 DEF Finished, InTheMaking
<1>4. IsFiniteSet(AllMade) /\ Cardinality({}) = 0
  BY <1>2, FS_EmptySet
<1>5. /\ needleOccurrences \in [NeedleNames -> Nat]
      /\ \A n \in NeedleNames : needleOccurrences[n] = 0
  BY DEF Init
<1>6. \A n \in NeedleNames :
         needleOccurrences[n] = Cardinality(Finished(n)) + Cardinality(InTheMaking(n))
  <2> SUFFICES ASSUME NEW n \in NeedleNames
               PROVE  needleOccurrences[n] = Cardinality(Finished(n)) + Cardinality(InTheMaking(n))
    OBVIOUS
  <2>1. Cardinality(Finished(n)) = 0 /\ Cardinality(InTheMaking(n)) = 0
    BY <1>3, <1>4
  <2> QED
    BY <1>5, <2>1
<1>7. \A g \in Goroutines : {"attrs", "draws"} \subseteq DOMAIN lr[g]
  BY <1>1 DEF NoRecord
<1>8. \A g \in Goroutines : IsBatch(batch[g])
  <2>1. IsBatch(<<>>)
    BY DEF IsBatch
  <2> QED
    BY <1>1, <2>1
<1>9. /\ pc = [g \in Goroutines |-> pc[g]] /\ lr = [g \in Goroutines |-> lr[g]]
      /\ batch = [g \in Goroutines |-> batch[g]]
      /\ replaced = [g \in Goroutines |-> replaced[g]]
      /\ nextNeedle \in [Goroutines -> Nat \ {0}]
  BY DEF Init
<1> QED
  BY <1>1, <1>4, <1>5, <1>6, <1>7, <1>8, <1>9 DEF NeedleInv

(***************************************************************************)
(* A new record has no needle yet.                                         *)
(***************************************************************************)
LEMMA GeneratedUnnamed ==
    ASSUME NEW sev, NEW t \in TemplatesFor(Profile, sev), NEW buffer,
           NEW o \in Generated(Profile, t, buffer)
    PROVE  "needle.name" \notin DOMAIN Present(o.attrs)
<1>1. t \in DOMAIN Profile.messages
  BY TemplatesExist
<1>2. o \in Generated(Profile, t, NoAttrs)
  BY DEF Generated, Cleared
<1> QED
  BY <1>1, <1>2, NeedleNameAssumption DEF Present

(***************************************************************************)
(* While the batches stay as they are, so does what they carry.            *)
(***************************************************************************)
LEMMA BatchesUnchanged ==
    ASSUME UNCHANGED batch
    PROVE  AllMade' = AllMade /\ \A n : Finished(n)' = Finished(n)
<1>1. AllMade' = AllMade
  BY DEF AllMade, Made
<1> QED
  BY <1>1 DEF Finished, The

LEMMA NeedleGenerate ==
    ASSUME NeedleInv, NEW g \in Goroutines, Generate(g)
    PROVE  NeedleInv'
<1>1. PICK jitter \in Jitters, n \in Rolls :
           \E t \in TemplatesFor(Profile, PickSeverity(Profile.weights, n)) :
           \E o \in Generated(Profile, t, reusableAttrs[g]) :
              lr' = [lr EXCEPT ![g] =
                        [source |-> t, needle |-> 0,
                         severity |-> Profile.messages[t].severity,
                         attrs |-> Present(o.attrs),
                         resource |-> Instances[g][instance[g]],
                         time |-> Jittered(jitter), draws |-> o.draws + 3]]
  BY DEF Generate
<1>2. PICK t \in TemplatesFor(Profile, PickSeverity(Profile.weights, n)) :
           \E o \in Generated(Profile, t, reusableAttrs[g]) :
              lr' = [lr EXCEPT ![g] =
                        [source |-> t, needle |-> 0,
                         severity |-> Profile.messages[t].severity,
                         attrs |-> Present(o.attrs),
                         resource |-> Instances[g][instance[g]],
                         time |-> Jittered(jitter), draws |-> o.draws + 3]]
  BY <1>1
<1>3. PICK o \in Generated(Profile, t, reusableAttrs[g]) :
              lr' = [lr EXCEPT ![g] =
                        [source |-> t, needle |-> 0,
                         severity |-> Profile.messages[t].severity,
                         attrs |-> Present(o.attrs),
                         resource |-> Instances[g][instance[g]],
                         time |-> Jittered(jitter), draws |-> o.draws + 3]]
  BY <1>2
<1> USE DEF NeedleInv
<1>4. "needle.name" \notin DOMAIN Present(o.attrs)
  BY GeneratedUnnamed
<1>5. /\ lr' = [h \in Goroutines |-> lr'[h]]
      /\ lr'[g].attrs = Present(o.attrs)
      /\ {"attrs", "draws"} \subseteq DOMAIN lr'[g]
      /\ \A h \in Goroutines \ {g} : lr'[h] = lr[h]
  BY <1>3
<1>6. "needle.name" \notin DOMAIN lr'[g].attrs
  BY <1>4, <1>5
<1>7. /\ pc[g] = "generate" /\ pc' = [pc EXCEPT ![g] = "needles"]
      /\ nextNeedle' = [nextNeedle EXCEPT ![g] = 1]
      /\ replaced' = [replaced EXCEPT ![g] = FALSE]
      /\ UNCHANGED <<batch, needleOccurrences>>
  BY DEF Generate
<1>8. \A m : InTheMaking(m)' = InTheMaking(m)
  BY <1>5, <1>6, <1>7 DEF InTheMaking, Carries
<1>9. AllMade' = AllMade /\ \A m : Finished(m)' = Finished(m)
  BY <1>7, BatchesUnchanged
<1>10. \A m \in NeedleNames :
          needleOccurrences'[m] = Cardinality(Finished(m)') + Cardinality(InTheMaking(m)')
  BY <1>7, <1>8, <1>9
<1>11. /\ pc' = [h \in Goroutines |-> pc'[h]]
       /\ batch' = [h \in Goroutines |-> batch'[h]]
       /\ replaced' = [h \in Goroutines |-> replaced'[h]]
       /\ needleOccurrences' \in [NeedleNames -> Nat]
       /\ IsFiniteSet(AllMade')
  BY <1>7, <1>9
<1>12. nextNeedle' \in [Goroutines -> Nat \ {0}]
  <2>1. 1 \in Nat \ {0}
    OBVIOUS
  <2> QED
    BY <1>7, <2>1
<1>13. \A h \in Goroutines :
          /\ {"attrs", "draws"} \subseteq DOMAIN lr'[h]
          /\ IsBatch(batch'[h])
          /\ pc'[h] = "needles" /\ ~replaced'[h] => "needle.name" \notin DOMAIN lr'[h].attrs
  BY <1>5, <1>6, <1>7
<1> QED
  BY <1>5, <1>10, <1>11, <1>12, <1>13

(***************************************************************************)
(* The first needle that hits is counted, and the record carries its name  *)
(* from then on; a roll that misses, and one after a hit, leaves both.     *)
(***************************************************************************)
LEMMA NeedleRoll ==
    ASSUME NeedleInv, NEW g \in Goroutines, RollNeedle(g)
    PROVE  NeedleInv'
<1> DEFINE i == nextNeedle[g]
           rolled == [lr[g] EXCEPT !.draws = @ + 1]
<1>1. /\ pc[g] = "needles" /\ i <= Len(Needles)
      /\ \/ /\ Hits(g, i)
            /\ lr' = [lr EXCEPT ![g] = Replacing(rolled, i)]
            /\ replaced' = [replaced EXCEPT ![g] = TRUE]
            /\ needleOccurrences' = [needleOccurrences EXCEPT ![Needles[i].name] = @ + 1]
         \/ /\ lr' = [lr EXCEPT ![g] = rolled]
            /\ UNCHANGED <<replaced, needleOccurrences>>
      /\ nextNeedle' = [nextNeedle EXCEPT ![g] = i + 1]
      /\ UNCHANGED <<pc, batch>>
  BY DEF RollNeedle, NextNeedle
<1> USE DEF NeedleInv
<1>2. i \in DOMAIN Needles
  <2>1. Needles \in Seq({Needles[j] : j \in DOMAIN Needles})
    BY AppendAssumption
  <2>2. DOMAIN Needles = 1..Len(Needles) /\ Len(Needles) \in Nat
    BY <2>1
  <2> QED
    BY <1>1, <2>2
<1>3. /\ DOMAIN rolled = DOMAIN lr[g] /\ rolled.attrs = lr[g].attrs
  OBVIOUS
<1> HIDE DEF rolled
<1>4. AllMade' = AllMade /\ \A n : Finished(n)' = Finished(n)
  BY <1>1, BatchesUnchanged
<1>5. nextNeedle' \in [Goroutines -> Nat \ {0}]
  <2>1. i \in Nat \ {0}
    OBVIOUS
  <2>2. i + 1 \in Nat \ {0}
    BY <2>1
  <2> HIDE DEF i
  <2> QED
    BY <1>1, <2>2
<1>6. CASE /\ Hits(g, i)
           /\ lr' = [lr EXCEPT ![g] = Replacing(rolled, i)]
           /\ replaced' = [replaced EXCEPT ![g] = TRUE]
           /\ needleOccurrences' = [needleOccurrences EXCEPT ![Needles[i].name] = @ + 1]
  <2> DEFINE q == Replacing(rolled, i)
  <2>1. PICK name \in NeedleNames : name = Needles[i].name
    BY <1>2 DEF NeedleNames
  <2>2. DOMAIN q = DOMAIN lr[g] /\ \A n : Carries(q.attrs, n) <=> n = name
    <3>1. "attrs" \in DOMAIN rolled
      BY <1>3
    <3>2. DOMAIN q = DOMAIN rolled /\ \A n : Carries(q.attrs, n) <=> n = Needles[i].name
      BY <1>2, <3>1, ReplacedAttrs
    <3> QED
      BY <1>3, <2>1, <3>2
  <2>3. \A n : ~Carries(lr[g].attrs, n)
    BY <1>1, <1>6 DEF Hits, Carries
  <2> HIDE DEF q
  <2>4. /\ lr' = [h \in Goroutines |-> lr'[h]]
        /\ lr'[g] = q
        /\ \A h \in Goroutines \ {g} : lr'[h] = lr[h]
    BY <1>6 DEF q
  <2>5. replaced' = [h \in Goroutines |-> replaced'[h]]
        /\ replaced'[g] /\ \A h \in Goroutines \ {g} : replaced'[h] = replaced[h]
    BY <1>6
  <2>6. /\ needleOccurrences' \in [NeedleNames -> Nat]
        /\ needleOccurrences'[name] = needleOccurrences[name] + 1
        /\ \A n \in NeedleNames \ {name} : needleOccurrences'[n] = needleOccurrences[n]
    BY <1>6, <2>1
  <2>7. /\ g \notin InTheMaking(name)
        /\ InTheMaking(name)' = InTheMaking(name) \cup {g}
    BY <1>1, <2>2, <2>3, <2>4 DEF InTheMaking
  <2>8. \A n : n # name => InTheMaking(n)' = InTheMaking(n)
    BY <1>1, <2>2, <2>3, <2>4 DEF InTheMaking
  <2>9. ASSUME NEW n \in NeedleNames
        PROVE  needleOccurrences'[n] = Cardinality(Finished(n)') + Cardinality(InTheMaking(n)')
    <3>1. needleOccurrences[n] = Cardinality(Finished(n)) + Cardinality(InTheMaking(n))
      OBVIOUS
    <3>2. /\ Finished(n)' = Finished(n)
          /\ IsFiniteSet(InTheMaking(n))
          /\ Cardinality(InTheMaking(n)) \in Nat /\ Cardinality(Finished(n)) \in Nat
      BY <1>4, CountsFinite
    <3>3. CASE n = name
      <4>1. Cardinality(InTheMaking(n)') = Cardinality(InTheMaking(n)) + 1
        BY <2>7, <3>2, <3>3, FS_AddElement, SMTT(30)
      <4> QED
        BY <2>6, <3>1, <3>2, <3>3, <4>1
    <3>4. CASE n # name
      BY <2>6, <2>8, <3>1, <3>2, <3>4
    <3> QED
      BY <3>3, <3>4
  <2>10. \A h \in Goroutines :
            /\ {"attrs", "draws"} \subseteq DOMAIN lr'[h]
            /\ IsBatch(batch'[h])
            /\ pc'[h] = "needles" /\ ~replaced'[h] => "needle.name" \notin DOMAIN lr'[h].attrs
    BY <1>1, <2>2, <2>4, <2>5
  <2>11. /\ pc' = [h \in Goroutines |-> pc'[h]]
         /\ batch' = [h \in Goroutines |-> batch'[h]]
         /\ IsFiniteSet(AllMade')
    BY <1>1, <1>4
  <2> QED
    BY <1>5, <2>4, <2>5, <2>6, <2>9, <2>10, <2>11
<1>7. CASE /\ lr' = [lr EXCEPT ![g] = rolled]
           /\ UNCHANGED <<replaced, needleOccurrences>>
  <2>1. /\ lr' = [h \in Goroutines |-> lr'[h]]
        /\ \A h \in Goroutines :
              DOMAIN lr'[h] = DOMAIN lr[h] /\ lr'[h].attrs = lr[h].attrs
    BY <1>3, <1>7
  <2>2. \A n : InTheMaking(n)' = InTheMaking(n)
    BY <1>1, <2>1 DEF InTheMaking
  <2>3. \A n \in NeedleNames :
           needleOccurrences'[n] = Cardinality(Finished(n)') + Cardinality(InTheMaking(n)')
    BY <1>4, <1>7, <2>2
  <2>4. \A h \in Goroutines :
           /\ {"attrs", "draws"} \subseteq DOMAIN lr'[h]
           /\ IsBatch(batch'[h])
           /\ pc'[h] = "needles" /\ ~replaced'[h] => "needle.name" \notin DOMAIN lr'[h].attrs
    BY <1>1, <1>7, <2>1
  <2>5. /\ pc' = [h \in Goroutines |-> pc'[h]]
        /\ batch' = [h \in Goroutines |-> batch'[h]]
        /\ replaced' = [h \in Goroutines |-> replaced'[h]]
        /\ needleOccurrences' \in [NeedleNames -> Nat]
        /\ IsFiniteSet(AllMade')
    BY <1>1, <1>4, <1>7
  <2> QED
    BY <1>5, <2>1, <2>3, <2>4, <2>5
<1> QED
  BY <1>1, <1>6, <1>7

(***************************************************************************)
(* The record leaves the making and is one of the batch, with its name.    *)
(***************************************************************************)
LEMMA NeedleFinish ==
    ASSUME NeedleInv, NEW g \in Goroutines, FinishRecord(g)
    PROVE  NeedleInv'
<1> DEFINE q == [lr[g] EXCEPT !.draws = @ + TraceDraws]
<1>1. /\ pc[g] = "needles"
      /\ batch' = [batch EXCEPT ![g] = Append(batch[g], q)]
      /\ UNCHANGED <<lr, nextNeedle, replaced, needleOccurrences>>
  BY DEF FinishRecord
<1>2. \E next : pc' = [pc EXCEPT ![g] = IF next > Len(Instances[g])
                                       THEN "consume" ELSE "generate"]
  BY DEF FinishRecord
<1> USE DEF NeedleInv
<1>3. q.attrs = lr[g].attrs
  OBVIOUS
<1> HIDE DEF q
<1>4. /\ pc' = [h \in Goroutines |-> pc'[h]]
      /\ pc'[g] # "needles"
      /\ \A h \in Goroutines \ {g} : pc'[h] = pc[h]
  BY <1>2
<1>5. PICK k : /\ k \notin DOMAIN batch[g]
               /\ DOMAIN Append(batch[g], q) = DOMAIN batch[g] \cup {k}
               /\ Append(batch[g], q)[k] = q
               /\ \A i \in DOMAIN batch[g] : Append(batch[g], q)[i] = batch[g][i]
  BY AppendIndex
<1>6. /\ batch' = [h \in Goroutines |-> batch'[h]]
      /\ batch'[g] = Append(batch[g], q)
      /\ \A h \in Goroutines \ {g} : batch'[h] = batch[h]
  BY <1>1
<1>7. /\ <<g, k>> \notin AllMade
      /\ \A r : r \in AllMade' <=> r \in AllMade \/ r = <<g, k>>
  <2>1. <<g, k>> \notin AllMade
    BY <1>5, MadeRecords
  <2>2. \A r : r \in AllMade' <=> \E h \in Goroutines : \E i \in DOMAIN batch'[h] : r = <<h, i>>
    BY DEF AllMade, Made
  <2>3. \A h \in Goroutines : \A i :
           i \in DOMAIN batch'[h] <=> i \in DOMAIN batch[h] \/ (h = g /\ i = k)
    BY <1>5, <1>6
  <2> QED
    BY <2>1, <2>2, <2>3, MadeRecords
<1>8. AllMade' = AllMade \cup {<<g, k>>} /\ IsFiniteSet(AllMade')
  <2>1. AllMade' = AllMade \cup {<<g, k>>}
    BY <1>7
  <2> QED
    BY <2>1, FS_AddElement
<1>9. The(<<g, k>>)' = q /\ \A r \in AllMade : The(r)' = The(r)
  <2>1. The(<<g, k>>)' = q
    BY <1>5, <1>6 DEF The
  <2>2. ASSUME NEW h \in Goroutines, NEW i \in DOMAIN batch[h]
        PROVE  batch'[h][i] = batch[h][i]
    BY <1>5, <1>6
  <2> QED
    BY <2>1, <2>2, MadeRecords DEF The
<1>10. ASSUME NEW n \in NeedleNames
       PROVE  needleOccurrences'[n] = Cardinality(Finished(n)') + Cardinality(InTheMaking(n)')
  <2>1. needleOccurrences'[n] = Cardinality(Finished(n)) + Cardinality(InTheMaking(n))
    BY <1>1
  <2>2. /\ IsFiniteSet(Finished(n)) /\ Cardinality(Finished(n)) \in Nat
        /\ IsFiniteSet(InTheMaking(n)) /\ Cardinality(InTheMaking(n)) \in Nat
    BY CountsFinite
  <2>3. InTheMaking(n)' = InTheMaking(n) \ {g}
    BY <1>1, <1>4 DEF InTheMaking
  <2>4. g \in InTheMaking(n) <=> Carries(lr[g].attrs, n)
    BY <1>1 DEF InTheMaking
  <2>5. <<g, k>> \notin Finished(n)
    BY <1>7 DEF Finished
  <2>6. CASE Carries(lr[g].attrs, n)
    <3>1. Finished(n)' = Finished(n) \cup {<<g, k>>}
      BY <1>3, <1>8, <1>9, <2>6 DEF Finished
    <3>2. Cardinality(Finished(n)') = Cardinality(Finished(n)) + 1
      BY <2>2, <2>5, <3>1, FS_AddElement
    <3>3. Cardinality(InTheMaking(n)') = Cardinality(InTheMaking(n)) - 1
      BY <2>2, <2>3, <2>4, <2>6, FS_RemoveElement
    <3> QED
      BY <2>1, <2>2, <3>2, <3>3
  <2>7. CASE ~Carries(lr[g].attrs, n)
    <3>1. Finished(n)' = Finished(n)
      BY <1>3, <1>7, <1>8, <1>9, <2>7 DEF Finished
    <3>2. InTheMaking(n)' = InTheMaking(n)
      BY <2>3, <2>4, <2>7
    <3> QED
      BY <2>1, <3>1, <3>2
  <2> QED
    BY <2>6, <2>7
<1>11. \A h \in Goroutines :
          /\ {"attrs", "draws"} \subseteq DOMAIN lr'[h]
          /\ pc'[h] = "needles" /\ ~replaced'[h] => "needle.name" \notin DOMAIN lr'[h].attrs
  BY <1>1, <1>4
<1>12. \A h \in Goroutines : IsBatch(batch'[h])
  <2>1. IsBatch(batch[g])
    OBVIOUS
  <2>2. IsBatch(Append(batch[g], q))
    BY <2>1, AppendToBatch
  <2> QED
    BY <1>6, <2>2
<1>13. /\ lr' = [h \in Goroutines |-> lr'[h]]
       /\ replaced' = [h \in Goroutines |-> replaced'[h]]
       /\ nextNeedle' \in [Goroutines -> Nat \ {0}]
       /\ needleOccurrences' \in [NeedleNames -> Nat]
  BY <1>1
<1> QED
  BY <1>4, <1>6, <1>8, <1>10, <1>11, <1>12, <1>13

(***************************************************************************)
(* Handing over a batch changes nothing that is counted.                   *)
(***************************************************************************)
LEMMA NeedleConsume ==
    ASSUME NeedleInv, NEW g \in Goroutines, Consume(g)
    PROVE  NeedleInv'
<1>1. /\ pc[g] = "consume" /\ pc' = [pc EXCEPT ![g] = "done"]
      /\ UNCHANGED <<lr, nextNeedle, replaced, needleOccurrences, batch>>
  BY DEF Consume
<1> USE DEF NeedleInv
<1>2. /\ pc' = [h \in Goroutines |-> pc'[h]]
      /\ pc'[g] = "done"
      /\ \A h \in Goroutines \ {g} : pc'[h] = pc[h]
  BY <1>1
<1>3. \A n : InTheMaking(n)' = InTheMaking(n)
  BY <1>1, <1>2 DEF InTheMaking
<1>4. AllMade' = AllMade /\ \A n : Finished(n)' = Finished(n)
  BY <1>1, BatchesUnchanged
<1> QED
  BY <1>1, <1>2, <1>3, <1>4

LEMMA NeedleNext == NeedleInv /\ [Next]_vars => NeedleInv'
<1> SUFFICES ASSUME NeedleInv, [Next]_vars PROVE NeedleInv'
  OBVIOUS
<1>1. CASE UNCHANGED vars
  <2>1. UNCHANGED <<pc, lr, nextNeedle, replaced, needleOccurrences, batch>>
    BY <1>1 DEF vars
  <2>2. AllMade' = AllMade /\ \A n : Finished(n)' = Finished(n)
    BY <2>1, BatchesUnchanged
  <2>3. \A n : InTheMaking(n)' = InTheMaking(n)
    BY <2>1 DEF InTheMaking
  <2> QED
    BY <2>1, <2>2, <2>3 DEF NeedleInv
<1>2. CASE Next
  BY <1>1, <1>2, NeedleGenerate, NeedleRoll, NeedleFinish, NeedleConsume
     DEF Next, Terminated
<1> QED
  BY <1>1, <1>2

(***************************************************************************)
(* However the goroutines interleave, the counter of a needle is the       *)
(* number of records that carry its name.                                  *)
(***************************************************************************)
THEOREM NeedleCountsExactCorrect == Spec => []NeedleCountsExact
<1>1. NeedleInv => NeedleCountsExact
  BY DEF NeedleInv, NeedleCountsExact, NumWhere, Finished, InTheMaking
<1> QED
  BY <1>1, NeedleInit, NeedleNext, PTL DEF Spec
-----------------------------------------------------------------------------
(***************************************************************************)
(* The shape of the state: every goroutine has its own of everything, a    *)
(* record has its fields and a batch is a sequence.                        *)
(***************************************************************************)
RecordFields == {"source", "needle", "severity", "attrs", "resource", "time", "draws"}

ShapeInv ==
    /\ pc = [g \in Goroutines |-> pc[g]]
    /\ instance = [g \in Goroutines |-> instance[g]]
    /\ made = [g \in Goroutines |-> made[g]]
    /\ lr = [g \in Goroutines |-> lr[g]]
    /\ nextNeedle = [g \in Goroutines |-> nextNeedle[g]]
    /\ stats = [g \in Goroutines |-> stats[g]]
    /\ batch = [g \in Goroutines |-> batch[g]]
    /\ delivered = [g \in Goroutines |-> delivered[g]]
    /\ \A g \in Goroutines : DOMAIN lr[g] = RecordFields /\ IsBatch(batch[g])

LEMMA ShapeInit == Init => ShapeInv
<1> SUFFICES ASSUME Init PROVE ShapeInv
  OBVIOUS
<1>1. DOMAIN NoRecord = RecordFields /\ IsBatch(<<>>)
  BY DEF NoRecord, RecordFields, IsBatch
<1> QED
  BY <1>1 DEF Init, ShapeInv

(***************************************************************************)
(* What each step does, goroutine by goroutine.  Generate makes a record   *)
(* from a template of the profile.                                         *)
(***************************************************************************)
LEMMA GenerateStep ==
    ASSUME ShapeInv, NEW g \in Goroutines, Generate(g)
    PROVE  /\ pc[g] = "generate"
           /\ \E t \in DOMAIN Profile.messages : \E o \in Generated(Profile, t, NoAttrs) :
                 /\ lr'[g].source = t /\ lr'[g].needle = 0
                 /\ lr'[g].severity = Profile.messages[t].severity
                 /\ lr'[g].attrs = Present(o.attrs)
                 /\ lr'[g].resource = Instances[g][instance[g]]
                 /\ lr'[g].draws = o.draws + 3
           /\ DOMAIN lr'[g] = RecordFields
           /\ lr' = [h \in Goroutines |-> lr'[h]]
           /\ \A h \in Goroutines \ {g} : lr'[h] = lr[h]
           /\ nextNeedle' = [nextNeedle EXCEPT ![g] = 1]
           /\ replaced' = [replaced EXCEPT ![g] = FALSE]
           /\ pc' = [pc EXCEPT ![g] = "needles"]
           /\ UNCHANGED <<instance, made, stats, needleOccurrences, batch, delivered>>
<1> DEFINE Rec(t, o, jitter) ==
              [source |-> t, needle |-> 0, severity |-> Profile.messages[t].severity,
               attrs |-> Present(o.attrs), resource |-> Instances[g][instance[g]],
               time |-> Jittered(jitter), draws |-> o.draws + 3]
<1>1. PICK jitter \in Jitters, n \in Rolls :
           \E t \in TemplatesFor(Profile, PickSeverity(Profile.weights, n)) :
           \E o \in Generated(Profile, t, reusableAttrs[g]) :
              lr' = [lr EXCEPT ![g] = Rec(t, o, jitter)]
  BY DEF Generate
<1>2. PICK t \in TemplatesFor(Profile, PickSeverity(Profile.weights, n)) :
           \E o \in Generated(Profile, t, reusableAttrs[g]) :
              lr' = [lr EXCEPT ![g] = Rec(t, o, jitter)]
  BY <1>1
<1>3. PICK o \in Generated(Profile, t, reusableAttrs[g]) :
              lr' = [lr EXCEPT ![g] = Rec(t, o, jitter)]
  BY <1>2
<1>4. t \in DOMAIN Profile.messages /\ o \in Generated(Profile, t, NoAttrs)
  BY TemplatesExist DEF Generated, Cleared
<1> DEFINE r == Rec(t, o, jitter)
<1>5. /\ r.source = t /\ r.needle = 0 /\ r.severity = Profile.messages[t].severity
      /\ r.attrs = Present(o.attrs) /\ r.resource = Instances[g][instance[g]]
      /\ r.draws = o.draws + 3 /\ DOMAIN r = RecordFields
  BY DEF RecordFields
<1>6. lr' = [lr EXCEPT ![g] = r]
  BY <1>3
<1> HIDE DEF r
<1>7. /\ lr'[g] = r /\ lr' = [h \in Goroutines |-> lr'[h]]
      /\ \A h \in Goroutines \ {g} : lr'[h] = lr[h]
  BY <1>6 DEF ShapeInv
<1>8. \E t2 \in DOMAIN Profile.messages : \E o2 \in Generated(Profile, t2, NoAttrs) :
                 /\ lr'[g].source = t2 /\ lr'[g].needle = 0
                 /\ lr'[g].severity = Profile.messages[t2].severity
                 /\ lr'[g].attrs = Present(o2.attrs)
                 /\ lr'[g].resource = Instances[g][instance[g]]
                 /\ lr'[g].draws = o2.draws + 3
  BY <1>4, <1>5, <1>7
<1> QED
  BY <1>5, <1>7, <1>8 DEF Generate

(***************************************************************************)
(* A roll for a needle replaces the record or leaves all but its draws.    *)
(***************************************************************************)
LEMMA NeedleExists ==
    ASSUME NEW i \in Nat \ {0}, i <= Len(Needles)
    PROVE  i \in DOMAIN Needles
<1>1. Needles \in Seq({Needles[j] : j \in DOMAIN Needles})
  BY AppendAssumption
<1>2. DOMAIN Needles = 1..Len(Needles) /\ Len(Needles) \in Nat
  BY <1>1
<1> QED
  BY <1>2

LEMMA RollStep ==
    ASSUME ShapeInv, NEW g \in Goroutines, RollNeedle(g)
    PROVE  /\ pc[g] = "needles" /\ nextNeedle[g] <= Len(Needles)
           /\ \/ /\ ~replaced[g]
                 /\ lr'[g].needle = nextNeedle[g]
                 /\ lr'[g].severity = ParseSeverity(Needles[nextNeedle[g]].severity)
                 /\ lr'[g].attrs = PutAll(Put(lr[g].attrs, "needle.name",
                                              Needles[nextNeedle[g]].name),
                                          Needles[nextNeedle[g]].attrs)
                 /\ replaced' = [replaced EXCEPT ![g] = TRUE]
                 /\ needleOccurrences' =
                       [needleOccurrences EXCEPT ![Needles[nextNeedle[g]].name] = @ + 1]
              \/ /\ lr'[g].needle = lr[g].needle
                 /\ lr'[g].severity = lr[g].severity
                 /\ lr'[g].attrs = lr[g].attrs
                 /\ UNCHANGED <<replaced, needleOccurrences>>
           /\ lr'[g].source = lr[g].source /\ lr'[g].resource = lr[g].resource
           /\ lr'[g].draws = lr[g].draws + 1
           /\ DOMAIN lr'[g] = RecordFields
           /\ lr' = [h \in Goroutines |-> lr'[h]]
           /\ \A h \in Goroutines \ {g} : lr'[h] = lr[h]
           /\ nextNeedle' = [nextNeedle EXCEPT ![g] = nextNeedle[g] + 1]
           /\ UNCHANGED <<pc, instance, made, reusableAttrs, stats, batch, delivered>>
<1> DEFINE i == nextNeedle[g]
           rolled == [lr[g] EXCEPT !.draws = @ + 1]
           hit == Replacing(rolled, i)
<1>1. /\ pc[g] = "needles" /\ i <= Len(Needles)
      /\ \/ /\ Hits(g, i)
            /\ lr' = [lr EXCEPT ![g] = hit]
            /\ replaced' = [replaced EXCEPT ![g] = TRUE]
            /\ needleOccurrences' = [needleOccurrences EXCEPT ![Needles[i].name] = @ + 1]
         \/ /\ lr' = [lr EXCEPT ![g] = rolled]
            /\ UNCHANGED <<replaced, needleOccurrences>>
      /\ nextNeedle' = [nextNeedle EXCEPT ![g] = i + 1]
      /\ UNCHANGED <<pc, instance, made, reusableAttrs, stats, batch, delivered>>
  BY DEF RollNeedle, NextNeedle
<1>2. DOMAIN lr[g] = RecordFields
  BY DEF ShapeInv
<1>3. /\ DOMAIN rolled = RecordFields
      /\ rolled.draws = lr[g].draws + 1
      /\ rolled.source = lr[g].source /\ rolled.resource = lr[g].resource
      /\ rolled.needle = lr[g].needle /\ rolled.severity = lr[g].severity
      /\ rolled.attrs = lr[g].attrs
  BY <1>2 DEF RecordFields
<1> HIDE DEF rolled
<1>4. /\ DOMAIN hit = RecordFields
      /\ hit.draws = rolled.draws
      /\ hit.source = rolled.source /\ hit.resource = rolled.resource
      /\ hit.needle = i /\ hit.severity = ParseSeverity(Needles[i].severity)
      /\ hit.attrs = PutAll(Put(rolled.attrs, "needle.name", Needles[i].name),
                            Needles[i].attrs)
  BY <1>3 DEF Replacing, RecordFields
<1> HIDE DEF hit
<1>5. PICK r : /\ lr' = [lr EXCEPT ![g] = r]
               /\ r = rolled \/ r = hit
  BY <1>1
<1>6. /\ lr'[g] = r /\ lr' = [h \in Goroutines |-> lr'[h]]
      /\ \A h \in Goroutines \ {g} : lr'[h] = lr[h]
  BY <1>5 DEF ShapeInv
<1>7. /\ lr'[g].source = lr[g].source /\ lr'[g].resource = lr[g].resource
      /\ lr'[g].draws = lr[g].draws + 1
      /\ DOMAIN lr'[g] = RecordFields
  BY <1>3, <1>4, <1>5, <1>6
<1>8. \/ /\ ~replaced[g] /\ lr'[g] = hit
         /\ replaced' = [replaced EXCEPT ![g] = TRUE]
         /\ needleOccurrences' = [needleOccurrences EXCEPT ![Needles[i].name] = @ + 1]
      \/ /\ lr'[g] = rolled
         /\ UNCHANGED <<replaced, needleOccurrences>>
  BY <1>1 DEF ShapeInv, Hits
<1>9. /\ hit.needle = i /\ hit.severity = ParseSeverity(Needles[i].severity)
      /\ hit.attrs = PutAll(Put(lr[g].attrs, "needle.name", Needles[i].name),
                            Needles[i].attrs)
  BY <1>3, <1>4
<1> QED
  BY <1>1, <1>3, <1>6, <1>7, <1>8, <1>9

(***************************************************************************)
(* FinishRecord appends the record to its goroutine's batch.               *)
(***************************************************************************)
LEMMA FinishStep ==
    ASSUME ShapeInv, NEW g \in Goroutines, FinishRecord(g)
    PROVE  /\ pc[g] = "needles" /\ nextNeedle[g] > Len(Needles)
           /\ stats' = [stats EXCEPT ![g] = Counted(g)]
           /\ \E k : /\ k \notin DOMAIN batch[g] /\ <<g, k>> \notin AllMade
                    /\ DOMAIN batch'[g] = DOMAIN batch[g] \cup {k}
                    /\ \A i \in DOMAIN batch[g] : batch'[g][i] = batch[g][i]
                    /\ batch'[g][k] = The(<<g, k>>)'
                    /\ AllMade' = AllMade \cup {<<g, k>>}
                    /\ \A r \in AllMade : The(r)' = The(r)
                    /\ The(<<g, k>>)' = [lr[g] EXCEPT !.draws = @ + TraceDraws]
           /\ batch' = [h \in Goroutines |-> batch'[h]]
           /\ IsBatch(batch'[g])
           /\ \A h \in Goroutines \ {g} : batch'[h] = batch[h]
           /\ UNCHANGED <<reusableAttrs, lr, nextNeedle, replaced, needleOccurrences,
                          delivered>>
<1> DEFINE q == [lr[g] EXCEPT !.draws = @ + TraceDraws]
<1>1. /\ pc[g] = "needles" /\ nextNeedle[g] > Len(Needles)
      /\ batch' = [batch EXCEPT ![g] = Append(batch[g], q)]
      /\ stats' = [stats EXCEPT ![g] = Counted(g)]
      /\ UNCHANGED <<reusableAttrs, lr, nextNeedle, replaced, needleOccurrences, delivered>>
  BY DEF FinishRecord
<1>2. IsBatch(batch[g]) /\ batch = [h \in Goroutines |-> batch[h]]
  BY DEF ShapeInv
<1> HIDE DEF q
<1>3. PICK k : /\ k \notin DOMAIN batch[g]
               /\ DOMAIN Append(batch[g], q) = DOMAIN batch[g] \cup {k}
               /\ Append(batch[g], q)[k] = q
               /\ \A i \in DOMAIN batch[g] : Append(batch[g], q)[i] = batch[g][i]
  BY <1>2, AppendIndex
<1>4. /\ batch' = [h \in Goroutines |-> batch'[h]]
      /\ batch'[g] = Append(batch[g], q)
      /\ \A h \in Goroutines \ {g} : batch'[h] = batch[h]
  BY <1>1, <1>2
<1>5. /\ <<g, k>> \notin AllMade
      /\ \A r : r \in AllMade' <=> r \in AllMade \/ r = <<g, k>>
  <2>1. <<g, k>> \notin AllMade
    BY <1>3, MadeRecords
  <2>2. \A r : r \in AllMade' <=> \E h \in Goroutines : \E i \in DOMAIN batch'[h] : r = <<h, i>>
    BY DEF AllMade, Made
  <2>3. \A h \in Goroutines : \A i :
           i \in DOMAIN batch'[h] <=> i \in DOMAIN batch[h] \/ (h = g /\ i = k)
    BY <1>3, <1>4
  <2> QED
    BY <2>1, <2>2, <2>3, MadeRecords
<1>6. AllMade' = AllMade \cup {<<g, k>>}
  BY <1>5
<1>7. The(<<g, k>>)' = q /\ \A r \in AllMade : The(r)' = The(r)
  <2>1. The(<<g, k>>)' = q
    BY <1>3, <1>4 DEF The
  <2>2. ASSUME NEW h \in Goroutines, NEW i \in DOMAIN batch[h]
        PROVE  batch'[h][i] = batch[h][i]
    BY <1>3, <1>4
  <2> QED
    BY <2>1, <2>2, MadeRecords DEF The
<1>8. IsBatch(batch'[g])
  BY <1>2, <1>4, AppendToBatch
<1>9. \E k2 : /\ k2 \notin DOMAIN batch[g] /\ <<g, k2>> \notin AllMade
              /\ DOMAIN batch'[g] = DOMAIN batch[g] \cup {k2}
              /\ \A i \in DOMAIN batch[g] : batch'[g][i] = batch[g][i]
              /\ batch'[g][k2] = The(<<g, k2>>)'
              /\ AllMade' = AllMade \cup {<<g, k2>>}
              /\ \A r \in AllMade : The(r)' = The(r)
              /\ The(<<g, k2>>)' = q
  BY <1>3, <1>4, <1>5, <1>6, <1>7
<1> QED
  BY <1>1, <1>4, <1>8, <1>9 DEF q

(***************************************************************************)
(* The same, of the batch alone.                                           *)
(***************************************************************************)
LEMMA FinishBatch ==
    ASSUME ShapeInv, NEW g \in Goroutines, FinishRecord(g)
    PROVE  \E k : /\ k \notin DOMAIN batch[g]
                  /\ DOMAIN batch'[g] = DOMAIN batch[g] \cup {k}
                  /\ \A i \in DOMAIN batch[g] : batch'[g][i] = batch[g][i]
                  /\ batch'[g][k] = [lr[g] EXCEPT !.draws = @ + TraceDraws]
<1> DEFINE q == [lr[g] EXCEPT !.draws = @ + TraceDraws]
<1>1. batch' = [batch EXCEPT ![g] = Append(batch[g], q)]
  BY DEF FinishRecord
<1>2. IsBatch(batch[g]) /\ batch = [h \in Goroutines |-> batch[h]]
  BY DEF ShapeInv
<1> HIDE DEF q
<1>3. batch'[g] = Append(batch[g], q)
  BY <1>1, <1>2
<1>4. \E k : /\ k \notin DOMAIN batch[g]
             /\ DOMAIN batch'[g] = DOMAIN batch[g] \cup {k}
             /\ \A i \in DOMAIN batch[g] : batch'[g][i] = batch[g][i]
             /\ batch'[g][k] = q
  BY <1>2, <1>3, AppendIndex
<1> QED
  BY <1>4 DEF q

LEMMA ShapeNext == ShapeInv /\ [Next]_vars => ShapeInv'
<1> SUFFICES ASSUME ShapeInv, [Next]_vars PROVE ShapeInv'
  OBVIOUS
<1>1. ASSUME NEW g \in Goroutines, Generate(g) PROVE ShapeInv'
  BY <1>1, GenerateStep DEF ShapeInv
<1>2. ASSUME NEW g \in Goroutines, RollNeedle(g) PROVE ShapeInv'
  BY <1>2, RollStep DEF ShapeInv
<1>3. ASSUME NEW g \in Goroutines, FinishRecord(g) PROVE ShapeInv'
  <2>1. PICK m, next, p :
           /\ made' = [made EXCEPT ![g] = m]
           /\ instance' = [instance EXCEPT ![g] = next]
           /\ pc' = [pc EXCEPT ![g] = p]
    BY <1>3 DEF FinishRecord
  <2> QED
    BY <1>3, <2>1, FinishStep DEF ShapeInv
<1>4. ASSUME NEW g \in Goroutines, Consume(g) PROVE ShapeInv'
  BY <1>4 DEF Consume, ShapeInv
<1>5. CASE UNCHANGED vars
  BY <1>5 DEF vars, ShapeInv
<1> QED
  BY <1>1, <1>2, <1>3, <1>4, <1>5 DEF Next, Terminated
-----------------------------------------------------------------------------
(***************************************************************************)
(* Types.                                                                  *)
(***************************************************************************)
LEMMA Lengths ==
    /\ DOMAIN Needles = 1..Len(Needles) /\ Len(Needles) \in Nat
    /\ \A g \in Goroutines : Len(Instances[g]) \in Nat /\ (Instances[g] # <<>> => Len(Instances[g]) >= 1)
<1>1. Needles \in Seq({Needles[j] : j \in DOMAIN Needles})
  BY AppendAssumption
<1>2. ASSUME NEW g \in Goroutines
      PROVE  Len(Instances[g]) \in Nat /\ (Instances[g] # <<>> => Len(Instances[g]) >= 1)
  <2>1. Instances[g] \in Seq({Instances[g][i] : i \in DOMAIN Instances[g]})
    BY AppendAssumption
  <2> QED
    BY <2>1
<1> QED
  BY <1>1, <1>2

LEMMA TypeInit == Init => TypeOK
<1> SUFFICES ASSUME Init PROVE TypeOK
  OBVIOUS
<1>1. LogsPerInstance \in Nat \ {0}
  BY AppendAssumption
<1>2. NoRecord.severity = "INFO" /\ NoRecord.source = 0 /\ NoRecord.needle = 0
  BY DEF NoRecord
<1>3. "INFO" \in SeverityTexts
  BY DEF SeverityTexts, Severities
<1>4. /\ pc = [g \in Goroutines |-> IF Instances[g] = <<>> THEN "consume" ELSE "generate"]
      /\ replaced = [g \in Goroutines |-> FALSE]
      /\ needleOccurrences = [n \in NeedleNames |-> 0]
      /\ \A g \in Goroutines : /\ instance[g] = 1 /\ made[g] = 0 /\ lr[g] = NoRecord
                                /\ nextNeedle[g] = 1
  BY DEF Init
<1>5. pc \in [Goroutines -> {"generate", "needles", "consume", "done"}]
  BY <1>4
<1>6. ASSUME NEW g \in Goroutines
      PROVE  /\ instance[g] \in 1..Len(Instances[g]) + 1
             /\ pc[g] \in {"generate", "needles"} => instance[g] <= Len(Instances[g])
             /\ made[g] \in 0..LogsPerInstance - 1
             /\ nextNeedle[g] \in 1..Len(Needles) + 1
  BY <1>1, <1>4, Lengths
<1> QED
  BY <1>2, <1>3, <1>4, <1>5, <1>6 DEF TypeOK

LEMMA TypeNext == ShapeInv /\ TypeOK /\ [Next]_vars => TypeOK'
<1> SUFFICES ASSUME ShapeInv, TypeOK, [Next]_vars PROVE TypeOK'
  OBVIOUS
<1> DEFINE Typed(g) ==
              /\ instance[g] \in 1..Len(Instances[g]) + 1
              /\ pc[g] \in {"generate", "needles"} => instance[g] <= Len(Instances[g])
              /\ made[g] \in 0..LogsPerInstance - 1
              /\ lr[g].severity \in SeverityTexts
              /\ lr[g].source \in {0} \cup DOMAIN Profile.messages
              /\ lr[g].needle \in {0} \cup DOMAIN Needles
              /\ nextNeedle[g] \in 1..Len(Needles) + 1
<1>1. ASSUME NEW g \in Goroutines, Generate(g) PROVE TypeOK'
  <2>1. PICK t \in DOMAIN Profile.messages :
             /\ lr'[g].source = t /\ lr'[g].needle = 0
             /\ lr'[g].severity = Profile.messages[t].severity
    BY <1>1, GenerateStep
  <2>2. Profile.messages[t].severity \in SeverityTexts
    BY TemplateAssumption
  <2>3. /\ pc[g] = "generate"
        /\ pc' = [pc EXCEPT ![g] = "needles"] /\ nextNeedle' = [nextNeedle EXCEPT ![g] = 1]
        /\ replaced' = [replaced EXCEPT ![g] = FALSE]
        /\ \A h \in Goroutines \ {g} : lr'[h] = lr[h]
        /\ UNCHANGED <<instance, made, needleOccurrences>>
    BY <1>1, GenerateStep
  <2>4. Typed(g)'
    BY <2>1, <2>2, <2>3, Lengths DEF TypeOK, ShapeInv
  <2>5. ASSUME NEW h \in Goroutines \ {g} PROVE Typed(h)'
    BY <2>3 DEF TypeOK, ShapeInv
  <2>6. /\ pc' \in [Goroutines -> {"generate", "needles", "consume", "done"}]
        /\ replaced' \in [Goroutines -> BOOLEAN]
        /\ needleOccurrences' \in [NeedleNames -> Nat]
    BY <2>3 DEF TypeOK
  <2> QED
    BY <2>4, <2>5, <2>6 DEF TypeOK
<1>2. ASSUME NEW g \in Goroutines, RollNeedle(g) PROVE TypeOK'
  <2> DEFINE i == nextNeedle[g]
  <2>1. /\ i \in Nat \ {0} /\ i <= Len(Needles) /\ i \in DOMAIN Needles
        /\ i + 1 \in 1..Len(Needles) + 1
    BY <1>2, RollStep, NeedleExists, Lengths DEF TypeOK
  <2>2. ParseSeverity(Needles[i].severity) \in SeverityTexts
    BY DEF ParseSeverity, SeverityTexts, Severities
  <2>3. Needles[i].name \in NeedleNames
    BY <2>1 DEF NeedleNames
  <2>4. /\ nextNeedle' = [nextNeedle EXCEPT ![g] = i + 1]
        /\ \A h \in Goroutines \ {g} : lr'[h] = lr[h]
        /\ UNCHANGED <<pc, instance, made>>
        /\ lr'[g].source = lr[g].source
        /\ lr'[g].needle \in {i, lr[g].needle}
        /\ lr'[g].severity \in {ParseSeverity(Needles[i].severity), lr[g].severity}
        /\ replaced' \in {replaced, [replaced EXCEPT ![g] = TRUE]}
        /\ needleOccurrences' \in
              {needleOccurrences, [needleOccurrences EXCEPT ![Needles[i].name] = @ + 1]}
    BY <1>2, RollStep
  <2> HIDE DEF i
  <2>5. Typed(g)'
    BY <2>1, <2>2, <2>4 DEF TypeOK, ShapeInv
  <2>6. ASSUME NEW h \in Goroutines \ {g} PROVE Typed(h)'
    BY <2>4 DEF TypeOK, ShapeInv
  <2>7. pc' \in [Goroutines -> {"generate", "needles", "consume", "done"}]
    BY <2>4 DEF TypeOK
  <2>8. replaced' \in [Goroutines -> BOOLEAN]
    BY <2>4 DEF TypeOK
  <2>9. needleOccurrences' \in [NeedleNames -> Nat]
    BY <2>3, <2>4 DEF TypeOK
  <2> QED
    BY <2>5, <2>6, <2>7, <2>8, <2>9 DEF TypeOK
<1>3. ASSUME NEW g \in Goroutines, FinishRecord(g) PROVE TypeOK'
  <2>1. PICK next \in Nat, m \in Nat :
           /\ next = instance[g] + (IF made[g] + 1 = LogsPerInstance THEN 1 ELSE 0)
           /\ m = IF made[g] + 1 = LogsPerInstance THEN 0 ELSE made[g] + 1
    <3>1. instance[g] \in Nat /\ made[g] \in Nat
      BY DEF TypeOK
    <3> QED
      BY <3>1
  <2>2. /\ made' = [made EXCEPT ![g] = m]
        /\ instance' = [instance EXCEPT ![g] = next]
        /\ pc' = [pc EXCEPT ![g] = IF next > Len(Instances[g]) THEN "consume" ELSE "generate"]
    BY <1>3, <2>1 DEF FinishRecord
  <2>3. /\ pc[g] = "needles" /\ UNCHANGED <<lr, nextNeedle, replaced, needleOccurrences>>
    BY <1>3, FinishStep
  <2>4. /\ instance[g] \in 1..Len(Instances[g]) /\ made[g] \in 0..LogsPerInstance - 1
        /\ LogsPerInstance \in Nat
    <3>1. /\ instance[g] \in 1..Len(Instances[g]) + 1 /\ instance[g] <= Len(Instances[g])
          /\ made[g] \in 0..LogsPerInstance - 1
      BY <2>3 DEF TypeOK
    <3>2. Len(Instances[g]) \in Nat
      BY Lengths
    <3>3. LogsPerInstance \in Nat
      BY AppendAssumption
    <3> QED
      BY <3>1, <3>2, <3>3
  <2>5. /\ next \in 1..Len(Instances[g]) + 1 /\ m \in 0..LogsPerInstance - 1
        /\ Len(Instances[g]) \in Nat
    BY <2>1, <2>4, Lengths
  <2>6. Typed(g)'
    BY <2>2, <2>3, <2>5 DEF TypeOK, ShapeInv
  <2>7. ASSUME NEW h \in Goroutines \ {g} PROVE Typed(h)'
    BY <2>2, <2>3 DEF TypeOK, ShapeInv
  <2>8. pc' \in [Goroutines -> {"generate", "needles", "consume", "done"}]
    BY <2>2 DEF TypeOK
  <2> QED
    BY <2>3, <2>6, <2>7, <2>8 DEF TypeOK
<1>4. ASSUME NEW g \in Goroutines, Consume(g) PROVE TypeOK'
  <2>1. /\ pc' = [pc EXCEPT ![g] = "done"]
        /\ UNCHANGED <<instance, made, lr, nextNeedle, replaced, needleOccurrences>>
    BY <1>4 DEF Consume
  <2>2. \A h \in Goroutines : pc'[h] \in {"generate", "needles"} => pc[h] = pc'[h]
    BY <2>1 DEF TypeOK
  <2>3. pc' \in [Goroutines -> {"generate", "needles", "consume", "done"}]
    BY <2>1 DEF TypeOK
  <2> QED
    BY <2>1, <2>2, <2>3 DEF TypeOK
<1>5. CASE UNCHANGED vars
  BY <1>5 DEF vars, TypeOK
<1> QED
  BY <1>1, <1>2, <1>3, <1>4, <1>5 DEF Next, Terminated

(***************************************************************************)
(* Type correctness: in particular no goroutine goes on past its last      *)
(* instance, and every record has one of the six severities.               *)
(***************************************************************************)
THEOREM AppendTypeCorrect == Spec => []TypeOK
  BY ShapeInit, ShapeNext, TypeInit, TypeNext, PTL DEF Spec
-----------------------------------------------------------------------------
(***************************************************************************)
(* The values a shard remembers of a field whose values were V: all of     *)
(* them below the cap, and as many as the cap at it.                       *)
(***************************************************************************)
StatsFields == {"total", "bySeverity", "byLabel", "cardinality", "cappedFields",
                "trackCardinality"}

Remembers(st, k, V) ==
    /\ Seen(st, k) \subseteq V
    /\ IsFiniteSet(Seen(st, k))
    /\ Cardinality(Seen(st, k)) <= MaxFieldCardinality
    /\ Cardinality(Seen(st, k)) < MaxFieldCardinality => Seen(st, k) = V
    /\ k \in st.cappedFields => Cardinality(Seen(st, k)) = MaxFieldCardinality

ValueOf(attrs, k) == IF k \in DOMAIN attrs THEN {attrs[k]} ELSE {}

(***************************************************************************)
(* addCardinality remembers the value of a field, unless the field is      *)
(* full.                                                                   *)
(***************************************************************************)
LEMMA AddRemembers ==
    ASSUME NEW st, DOMAIN st = StatsFields, NEW attrs, NEW k, NEW V, Remembers(st, k, V),
           NEW added, added = AddCardinality(st, attrs)
    PROVE  /\ DOMAIN added = StatsFields
           /\ added.trackCardinality = st.trackCardinality
           /\ Remembers(added, k, V \cup ValueOf(attrs, k))
<1> DEFINE card == [j \in DOMAIN st.cardinality \cup DOMAIN attrs |->
                       IF j \in DOMAIN attrs /\ ~Full(st, j)
                       THEN Seen(st, j) \cup {attrs[j]}
                       ELSE Seen(st, j)]
           capped == st.cappedFields \cup {j \in DOMAIN attrs : Full(st, j)}
<1>1. /\ DOMAIN added = StatsFields
      /\ added.trackCardinality = st.trackCardinality
      /\ added.cardinality = card /\ added.cappedFields = capped
  BY DEF AddCardinality, StatsFields
<1>2. Seen(added, k) = IF k \in DOMAIN attrs /\ ~Full(st, k)
                       THEN Seen(st, k) \cup {attrs[k]}
                       ELSE Seen(st, k)
  BY <1>1 DEF Seen
<1>3. k \in added.cappedFields <=> k \in st.cappedFields \/ (k \in DOMAIN attrs /\ Full(st, k))
  BY <1>1
<1> HIDE DEF card, capped
<1>4. MaxFieldCardinality \in Nat \ {0}
  BY MaxFieldCardinalityAssumption
<1>5. IsFiniteSet(Seen(st, k)) /\ Cardinality(Seen(st, k)) \in Nat
  BY FS_CardinalityType DEF Remembers
<1>6. Full(st, k) <=> Cardinality(Seen(st, k)) = MaxFieldCardinality
  BY <1>4, <1>5 DEF Full, Remembers
<1>7. CASE k \notin DOMAIN attrs
  <2>1. V \cup ValueOf(attrs, k) = V
    BY <1>7 DEF ValueOf
  <2>2. Seen(added, k) = Seen(st, k) /\ (k \in added.cappedFields <=> k \in st.cappedFields)
    BY <1>2, <1>3, <1>7
  <2>3. Remembers(added, k, V)
    BY <2>2 DEF Remembers
  <2> QED
    BY <1>1, <2>1, <2>3
<1>8. CASE k \in DOMAIN attrs /\ Full(st, k)
  <2>1. Seen(added, k) = Seen(st, k)
    BY <1>2, <1>8
  <2>2. Cardinality(Seen(added, k)) = MaxFieldCardinality
    BY <1>6, <1>8, <2>1
  <2> QED
    <3>1. Seen(added, k) \subseteq V \cup ValueOf(attrs, k) /\ IsFiniteSet(Seen(added, k))
      BY <2>1 DEF Remembers
    <3>2. /\ Cardinality(Seen(added, k)) <= MaxFieldCardinality
          /\ ~(Cardinality(Seen(added, k)) < MaxFieldCardinality)
      BY <1>4, <2>2
    <3> QED
      BY <1>1, <2>2, <3>1, <3>2 DEF Remembers
<1>9. CASE k \in DOMAIN attrs /\ ~Full(st, k)
  <2>1. Seen(st, k) = V /\ Cardinality(Seen(st, k)) < MaxFieldCardinality
    BY <1>4, <1>5, <1>6, <1>9 DEF Remembers
  <2>2. Seen(added, k) = V \cup {attrs[k]} /\ ValueOf(attrs, k) = {attrs[k]}
    BY <1>2, <1>9, <2>1 DEF ValueOf
  <2>3. /\ IsFiniteSet(V \cup {attrs[k]})
        /\ Cardinality(V \cup {attrs[k]}) \in {Cardinality(V), Cardinality(V) + 1}
    BY <1>5, <2>1, FS_AddElement
  <2>4. Cardinality(V \cup {attrs[k]}) <= MaxFieldCardinality
    BY <1>4, <1>5, <2>1, <2>3
  <2>5. k \notin added.cappedFields
    BY <1>3, <1>6, <1>9, <2>1 DEF Full
  <2> QED
    <3>1. Seen(added, k) = V \cup ValueOf(attrs, k)
      BY <2>2
    <3>2. IsFiniteSet(Seen(added, k)) /\ Cardinality(Seen(added, k)) <= MaxFieldCardinality
      BY <2>2, <2>3, <2>4
    <3> QED
      BY <1>1, <2>5, <3>1, <3>2 DEF Remembers
<1> QED
  BY <1>1, <1>7, <1>8, <1>9

(***************************************************************************)
(* What Record adds to a shard: to the counters always, to the values only *)
(* when it tracks them.                                                    *)
(***************************************************************************)
CountedIn(st, sev, resource) ==
    [st EXCEPT
        !.total = @ + 1,
        !.bySeverity = @ (+) SetToBag({sev}),
        !.byLabel = [l \in Labels |->
            IF l \in DOMAIN resource
            THEN @[l] (+) SetToBag({resource[l]})
            ELSE @[l]]]

(***************************************************************************)
(* What Record does to a shard, count by count.                            *)
(***************************************************************************)
LEMMA RecordIs ==
    ASSUME NEW st, DOMAIN st = StatsFields, NEW sev, NEW resource, NEW attrs
    PROVE  LET counted == CountedIn(st, sev, resource) IN
           /\ Record(st, sev, resource, attrs) =
                 IF st.trackCardinality
                 THEN AddCardinality(AddCardinality(counted, resource), attrs)
                 ELSE counted
           /\ DOMAIN counted = StatsFields
           /\ counted.trackCardinality = st.trackCardinality
           /\ counted.cardinality = st.cardinality /\ counted.cappedFields = st.cappedFields
  BY DEF Record, CountedIn, StatsFields

(***************************************************************************)
(* addCardinality leaves the counts alone.                                 *)
(***************************************************************************)
LEMMA AddKeeps ==
    ASSUME NEW st, DOMAIN st = StatsFields, NEW attrs, NEW added, added = AddCardinality(st, attrs)
    PROVE  /\ DOMAIN added = StatsFields
           /\ added.trackCardinality = st.trackCardinality
           /\ added.total = st.total
           /\ added.bySeverity = st.bySeverity /\ added.byLabel = st.byLabel
  BY DEF AddCardinality, StatsFields

(***************************************************************************)
(* Record with its cardinality counts what it should and keeps the fields  *)
(* of a shard.                                                             *)
(***************************************************************************)
LEMMA RecordKeeps ==
    ASSUME NEW st, DOMAIN st = StatsFields, NEW sev, NEW resource, NEW attrs,
           NEW r, r = Record(st, sev, resource, attrs)
    PROVE  /\ DOMAIN r = StatsFields
           /\ r.trackCardinality = st.trackCardinality
           /\ r.total = CountedIn(st, sev, resource).total
           /\ r.bySeverity = CountedIn(st, sev, resource).bySeverity
           /\ r.byLabel = CountedIn(st, sev, resource).byLabel
           /\ ~st.trackCardinality => r.cardinality = st.cardinality
<1>1. PICK counted, first, second :
         /\ counted = CountedIn(st, sev, resource)
         /\ first = AddCardinality(counted, resource)
         /\ second = AddCardinality(first, attrs)
  OBVIOUS
<1>2. /\ r = IF st.trackCardinality THEN second ELSE counted
      /\ DOMAIN counted = StatsFields
      /\ counted.trackCardinality = st.trackCardinality
      /\ counted.cardinality = st.cardinality
  BY <1>1, RecordIs
<1>3. /\ DOMAIN first = StatsFields
      /\ first.trackCardinality = counted.trackCardinality
      /\ first.total = counted.total
      /\ first.bySeverity = counted.bySeverity /\ first.byLabel = counted.byLabel
  BY <1>1, <1>2, AddKeeps
<1>4. /\ DOMAIN second = StatsFields
      /\ second.trackCardinality = first.trackCardinality
      /\ second.total = first.total
      /\ second.bySeverity = first.bySeverity /\ second.byLabel = first.byLabel
  BY <1>1, <1>3, AddKeeps
<1>5. CASE st.trackCardinality
  BY <1>1, <1>2, <1>3, <1>4, <1>5
<1>6. CASE ~st.trackCardinality
  BY <1>1, <1>2, <1>6
<1> QED
  BY <1>5, <1>6

(***************************************************************************)
(* Record remembers the values of the attributes and of the resource.      *)
(***************************************************************************)
LEMMA RecordRemembers ==
    ASSUME NEW st, DOMAIN st = StatsFields, st.trackCardinality,
           NEW sev, NEW resource, NEW attrs,
           NEW r, r = Record(st, sev, resource, attrs),
           NEW k, NEW V, Remembers(st, k, V)
    PROVE  Remembers(r, k, (V \cup ValueOf(resource, k)) \cup ValueOf(attrs, k))
<1>1. PICK counted, first :
         /\ counted = CountedIn(st, sev, resource)
         /\ first = AddCardinality(counted, resource)
  OBVIOUS
<1>2. /\ r = AddCardinality(first, attrs)
      /\ DOMAIN counted = StatsFields
      /\ counted.cardinality = st.cardinality /\ counted.cappedFields = st.cappedFields
  BY <1>1, RecordIs
<1>3. Remembers(counted, k, V)
  BY <1>2 DEF Remembers, Seen
<1>4. DOMAIN first = StatsFields /\ Remembers(first, k, V \cup ValueOf(resource, k))
  BY <1>1, <1>2, <1>3, AddRemembers
<1>5. PICK W : W = V \cup ValueOf(resource, k)
  OBVIOUS
<1>6. Remembers(r, k, W \cup ValueOf(attrs, k))
  BY <1>2, <1>4, <1>5, AddRemembers
<1> QED
  BY <1>5, <1>6

(***************************************************************************)
(* Every shard has remembered what it should of the records in its         *)
(* goroutine's batch, for every field.                                     *)
(***************************************************************************)
CardinalityInv ==
    \A g \in Goroutines :
        /\ DOMAIN stats[g] = StatsFields
        /\ stats[g].trackCardinality = (g \in Tracking)
        /\ g \in Tracking => \A k : /\ IsFiniteSet(ValuesOf(g, k))
                                    /\ Remembers(stats[g], k, ValuesOf(g, k))
        /\ g \notin Tracking => stats[g].cardinality = [k \in {} |-> {}]

LEMMA CardinalityInit == Init => CardinalityInv
<1> SUFFICES ASSUME Init, NEW g \in Goroutines
             PROVE  /\ DOMAIN stats[g] = StatsFields
                    /\ stats[g].trackCardinality = (g \in Tracking)
                    /\ g \in Tracking => \A k : /\ IsFiniteSet(ValuesOf(g, k))
                                                /\ Remembers(stats[g], k, ValuesOf(g, k))
                    /\ g \notin Tracking => stats[g].cardinality = [k \in {} |-> {}]
  BY DEF CardinalityInv
<1>1. stats[g] = NewLogStats(g \in Tracking) /\ batch[g] = <<>>
  BY DEF Init
<1>2. /\ DOMAIN stats[g] = StatsFields
      /\ stats[g].trackCardinality = (g \in Tracking)
      /\ stats[g].cardinality = [k \in {} |-> {}] /\ stats[g].cappedFields = {}
  BY <1>1 DEF NewLogStats, StatsFields
<1>3. ASSUME NEW k PROVE ValuesOf(g, k) = {} /\ Seen(stats[g], k) = {}
  BY <1>1, <1>2 DEF ValuesOf, Seen
<1>4. IsFiniteSet({}) /\ Cardinality({}) = 0 /\ MaxFieldCardinality \in Nat \ {0}
  BY FS_EmptySet, MaxFieldCardinalityAssumption
<1>5. ASSUME NEW k PROVE IsFiniteSet(ValuesOf(g, k)) /\ Remembers(stats[g], k, ValuesOf(g, k))
  <2>1. ValuesOf(g, k) = {} /\ Seen(stats[g], k) = {}
    BY <1>3
  <2>2. Cardinality(Seen(stats[g], k)) = 0 /\ IsFiniteSet(Seen(stats[g], k))
    BY <1>4, <2>1
  <2>3. Cardinality(Seen(stats[g], k)) <= MaxFieldCardinality
    BY <1>4, <2>2
  <2>4. k \notin stats[g].cappedFields
    BY <1>2
  <2> QED
    BY <2>1, <2>2, <2>3, <2>4 DEF Remembers
<1> QED
  BY <1>2, <1>5

LEMMA CardinalityNext == ShapeInv /\ CardinalityInv /\ [Next]_vars => CardinalityInv'
<1> SUFFICES ASSUME ShapeInv, CardinalityInv, [Next]_vars PROVE CardinalityInv'
  OBVIOUS
<1>1. ASSUME UNCHANGED <<stats, batch>> PROVE CardinalityInv'
  <2>1. \A g, k : ValuesOf(g, k)' = ValuesOf(g, k)
    BY <1>1 DEF ValuesOf
  <2>2. \A g \in Goroutines : stats'[g] = stats[g]
    BY <1>1
  <2> QED
    BY <2>1, <2>2 DEF CardinalityInv
<1>2. ASSUME NEW g \in Goroutines, FinishRecord(g) PROVE CardinalityInv'
  <2> DEFINE q == [lr[g] EXCEPT !.draws = @ + TraceDraws]
  <2>1. PICK k0 : /\ DOMAIN batch'[g] = DOMAIN batch[g] \cup {k0}
                  /\ \A i \in DOMAIN batch[g] : batch'[g][i] = batch[g][i]
                  /\ batch'[g][k0] = q
    BY <1>2, FinishBatch
  <2>2. /\ batch'[g][k0].attrs = lr[g].attrs /\ batch'[g][k0].resource = lr[g].resource
        /\ stats' = [stats EXCEPT ![g] = Counted(g)]
        /\ \A h \in Goroutines \ {g} : batch'[h] = batch[h]
    BY <1>2, <2>1, FinishStep DEF ShapeInv, RecordFields
  <2>3. ASSUME NEW k
        PROVE  ValuesOf(g, k)' = (ValuesOf(g, k) \cup ValueOf(lr[g].resource, k))
                                    \cup ValueOf(lr[g].attrs, k)
    <3>1. \A v : v \in ValuesOf(g, k)' <=>
             \/ \E i \in DOMAIN batch'[g] : k \in DOMAIN batch'[g][i].attrs
                                            /\ v = batch'[g][i].attrs[k]
             \/ \E i \in DOMAIN batch'[g] : k \in DOMAIN batch'[g][i].resource
                                            /\ v = batch'[g][i].resource[k]
      BY DEF ValuesOf
    <3>2. \A v : v \in ValuesOf(g, k) <=>
             \/ \E i \in DOMAIN batch[g] : k \in DOMAIN batch[g][i].attrs
                                           /\ v = batch[g][i].attrs[k]
             \/ \E i \in DOMAIN batch[g] : k \in DOMAIN batch[g][i].resource
                                           /\ v = batch[g][i].resource[k]
      BY DEF ValuesOf
    <3>3. \A v : /\ v \in ValueOf(lr[g].attrs, k) <=>
                       k \in DOMAIN batch'[g][k0].attrs /\ v = batch'[g][k0].attrs[k]
                 /\ v \in ValueOf(lr[g].resource, k) <=>
                       k \in DOMAIN batch'[g][k0].resource /\ v = batch'[g][k0].resource[k]
      BY <2>2 DEF ValueOf
    <3>4. \A v : v \in ValuesOf(g, k)' <=>
             \/ v \in ValuesOf(g, k)
             \/ v \in ValueOf(lr[g].attrs, k)
             \/ v \in ValueOf(lr[g].resource, k)
      <4>1. PICK old, new : old = batch[g] /\ new = batch'[g]
        OBVIOUS
      <4>2. /\ DOMAIN new = DOMAIN old \cup {k0}
            /\ \A i \in DOMAIN old : new[i] = old[i]
        BY <2>1, <4>1
      <4> QED
        BY <3>1, <3>2, <3>3, <4>1, <4>2
    <3> QED
      BY <3>4
  <2>4. /\ stats'[g] = Record(stats[g], lr[g].severity, lr[g].resource, lr[g].attrs)
        /\ \A h \in Goroutines \ {g} : stats'[h] = stats[h]
    BY <2>2 DEF ShapeInv, Counted
  <2>5. DOMAIN stats[g] = StatsFields
    BY DEF CardinalityInv
  <2>6. /\ DOMAIN stats'[g] = StatsFields
        /\ stats'[g].trackCardinality = stats[g].trackCardinality
        /\ ~stats[g].trackCardinality => stats'[g].cardinality = stats[g].cardinality
    <3>1. PICK st, sev, resource, attrs :
             /\ st = stats[g] /\ sev = lr[g].severity
             /\ resource = lr[g].resource /\ attrs = lr[g].attrs
      OBVIOUS
    <3>2. DOMAIN st = StatsFields /\ stats'[g] = Record(st, sev, resource, attrs)
      BY <2>4, <2>5, <3>1
    <3>3. DOMAIN stats'[g] = StatsFields /\ stats'[g].trackCardinality = st.trackCardinality
      BY <3>2, RecordKeeps
    <3>4. ~st.trackCardinality => stats'[g].cardinality = st.cardinality
      BY <3>2, RecordKeeps
    <3> QED
      BY <3>1, <3>3, <3>4
  <2>7. ASSUME g \in Tracking, NEW k
        PROVE  IsFiniteSet(ValuesOf(g, k)') /\ Remembers(stats'[g], k, ValuesOf(g, k)')
    <3>1. IsFiniteSet(ValuesOf(g, k)) /\ Remembers(stats[g], k, ValuesOf(g, k))
      BY <2>7 DEF CardinalityInv
    <3>2. stats[g].trackCardinality
      BY <2>7 DEF CardinalityInv
    <3>3. Remembers(stats'[g], k, (ValuesOf(g, k) \cup ValueOf(lr[g].resource, k))
                                     \cup ValueOf(lr[g].attrs, k))
      <4>1. PICK st, sev, resource, attrs, V :
               /\ st = stats[g] /\ sev = lr[g].severity
               /\ resource = lr[g].resource /\ attrs = lr[g].attrs
               /\ V = ValuesOf(g, k)
        OBVIOUS
      <4>2. /\ DOMAIN st = StatsFields /\ stats'[g] = Record(st, sev, resource, attrs)
            /\ st.trackCardinality /\ Remembers(st, k, V)
        BY <2>4, <2>5, <3>1, <3>2, <4>1
      <4>3. Remembers(stats'[g], k,
                      (V \cup ValueOf(resource, k)) \cup ValueOf(attrs, k))
        BY <4>2, RecordRemembers
      <4> QED
        BY <4>1, <4>3
    <3>4. \A a : IsFiniteSet(ValueOf(a, k))
      BY FS_EmptySet, FS_Singleton DEF ValueOf
    <3>5. IsFiniteSet(ValuesOf(g, k)')
      BY <2>3, <3>1, <3>4, FS_Union
    <3> QED
      BY <2>3, <3>3, <3>5
  <2>8. ASSUME NEW h \in Goroutines, NEW k, h # g
        PROVE  stats'[h] = stats[h] /\ ValuesOf(h, k)' = ValuesOf(h, k)
    BY <2>2, <2>4, <2>8 DEF ValuesOf
  <2>9. ASSUME NEW h \in Goroutines
        PROVE  /\ DOMAIN stats'[h] = StatsFields
               /\ stats'[h].trackCardinality = (h \in Tracking)
               /\ h \in Tracking => \A k : /\ IsFiniteSet(ValuesOf(h, k)')
                                           /\ Remembers(stats'[h], k, ValuesOf(h, k)')
               /\ h \notin Tracking => stats'[h].cardinality = [k \in {} |-> {}]
    <3>1. CASE h = g
      <4>1. stats[g].trackCardinality = (g \in Tracking)
        BY DEF CardinalityInv
      <4>2. g \notin Tracking => ~stats[g].trackCardinality
        BY <4>1
      <4>3. g \notin Tracking => stats[g].cardinality = [k \in {} |-> {}]
        BY DEF CardinalityInv
      <4> QED
        BY <2>6, <2>7, <3>1, <4>1, <4>2, <4>3
    <3>2. CASE h # g
      BY <2>8, <3>2 DEF CardinalityInv
    <3> QED
      BY <3>1, <3>2
  <2> QED
    BY <2>9 DEF CardinalityInv
<1>3. ASSUME NEW g \in Goroutines, Generate(g) \/ RollNeedle(g) \/ Consume(g)
      PROVE  UNCHANGED <<stats, batch>>
  BY <1>3 DEF Generate, RollNeedle, Consume
<1>4. CASE UNCHANGED vars
  BY <1>1, <1>4 DEF vars
<1> QED
  BY <1>1, <1>2, <1>3, <1>4 DEF Next, Terminated

(***************************************************************************)
(* Whatever the cap, a shard reports of a field as many values as its      *)
(* records had, up to the cap, and only values they had.                   *)
(***************************************************************************)
THEOREM FieldCardinalityExactCorrect == Spec => []FieldCardinalityExact
<1>1. CardinalityInv => FieldCardinalityExact
  <2> SUFFICES ASSUME CardinalityInv, NEW g \in Goroutines, g \in Tracking, NEW k
               PROVE  /\ Seen(stats[g], k) \subseteq ValuesOf(g, k)
                      /\ Cardinality(Seen(stats[g], k)) =
                            IF Cardinality(ValuesOf(g, k)) < MaxFieldCardinality
                            THEN Cardinality(ValuesOf(g, k))
                            ELSE MaxFieldCardinality
    BY DEF CardinalityInv, FieldCardinalityExact
  <2>1. IsFiniteSet(ValuesOf(g, k)) /\ Remembers(stats[g], k, ValuesOf(g, k))
    BY DEF CardinalityInv
  <2>2. PICK n \in Nat, m \in Nat : /\ n = Cardinality(Seen(stats[g], k))
                                    /\ m = Cardinality(ValuesOf(g, k))
    BY <2>1, FS_CardinalityType DEF Remembers
  <2>3. n <= m
    BY <2>1, <2>2, FS_Subset DEF Remembers
  <2>4. MaxFieldCardinality \in Nat
    BY MaxFieldCardinalityAssumption
  <2>5. n <= MaxFieldCardinality /\ (n < MaxFieldCardinality => n = m)
    BY <2>1, <2>2 DEF Remembers
  <2>6. n = IF m < MaxFieldCardinality THEN m ELSE MaxFieldCardinality
    BY <2>2, <2>3, <2>4, <2>5
  <2> QED
    BY <2>1, <2>2, <2>6 DEF Remembers
<1> QED
  BY <1>1, ShapeInit, ShapeNext, CardinalityInit, CardinalityNext, PTL DEF Spec
-----------------------------------------------------------------------------
(***************************************************************************)
(* Counters are bags: adding a copy, and merging the counters of shards.   *)
(***************************************************************************)
IsCounter(b) == b \in [DOMAIN b -> Nat]

(***************************************************************************)
(* A count of one more element.                                            *)
(***************************************************************************)
LEMMA CounterAdds ==
    ASSUME NEW b, IsCounter(b), NEW x, NEW c, c = b (+) SetToBag({x})
    PROVE  /\ IsCounter(c)
           /\ CopiesOf(x, c) = CopiesOf(x, b) + 1
           /\ \A y : CopiesOf(y, b) \in Nat /\ (y # x => CopiesOf(y, c) = CopiesOf(y, b))
<1>1. PICK one : one = SetToBag({x}) /\ DOMAIN one = {x} /\ one[x] = 1
  BY DEF SetToBag
<1>2. /\ DOMAIN c = DOMAIN b \cup {x}
      /\ c = [e \in DOMAIN b \cup {x} |-> (IF e \in DOMAIN b THEN b[e] ELSE 0)
                                          + (IF e \in {x} THEN one[e] ELSE 0)]
  BY <1>1 DEF (+)
<1>3. \A e \in DOMAIN c : c[e] = CopiesOf(e, b) + (IF e = x THEN 1 ELSE 0)
  BY <1>1, <1>2 DEF CopiesOf
<1>4. \A e : CopiesOf(e, b) \in Nat
  BY DEF CopiesOf, IsCounter
<1>5. ASSUME NEW e \in DOMAIN c PROVE c[e] \in Nat
  <2>1. PICK n, m : n = CopiesOf(e, b) /\ m = IF e = x THEN 1 ELSE 0
    OBVIOUS
  <2>2. c[e] = n + m /\ n \in Nat /\ m \in Nat
    BY <1>3, <1>4, <2>1
  <2> QED
    BY <2>2
<1>6. c = [e \in DOMAIN c |-> c[e]]
  BY <1>2
<1>7. IsCounter(c)
  BY <1>5, <1>6 DEF IsCounter
<1>8. CopiesOf(x, c) = CopiesOf(x, b) + 1
  BY <1>2, <1>3 DEF CopiesOf
<1>9. ASSUME NEW y, y # x PROVE CopiesOf(y, c) = CopiesOf(y, b)
  <2>1. CASE y \in DOMAIN b
    <3>1. c[y] = CopiesOf(y, b) + 0
      BY <1>2, <1>3, <1>9, <2>1
    <3> QED
      BY <1>2, <1>4, <2>1, <3>1 DEF CopiesOf
  <2>2. CASE y \notin DOMAIN b
    BY <1>2, <1>9, <2>2 DEF CopiesOf
  <2> QED
    BY <2>1, <2>2
<1> QED
  BY <1>4, <1>7, <1>8, <1>9

(***************************************************************************)
(* Two counters merged have the copies of both.                            *)
(***************************************************************************)
LEMMA MergedCopies ==
    ASSUME NEW b, NEW c, IsCounter(b), IsCounter(c), NEW e
    PROVE  /\ IsCounter(b (+) c)
           /\ CopiesOf(e, b (+) c) = CopiesOf(e, b) + CopiesOf(e, c)
<1>1. PICK d : /\ d = b (+) c
               /\ d = [x \in DOMAIN b \cup DOMAIN c |->
                         (IF x \in DOMAIN b THEN b[x] ELSE 0)
                         + (IF x \in DOMAIN c THEN c[x] ELSE 0)]
  BY DEF (+)
<1>2. \A x : CopiesOf(x, b) \in Nat /\ CopiesOf(x, c) \in Nat
  BY DEF CopiesOf, IsCounter
<1>3. /\ DOMAIN d = DOMAIN b \cup DOMAIN c /\ d = [x \in DOMAIN d |-> d[x]]
      /\ \A x \in DOMAIN d : d[x] = CopiesOf(x, b) + CopiesOf(x, c)
  BY <1>1 DEF CopiesOf
<1>4. \A x \in DOMAIN d : d[x] \in Nat
  BY <1>2, <1>3
<1>5. IsCounter(d)
  BY <1>3, <1>4 DEF IsCounter
<1>6. CopiesOf(e, d) = CopiesOf(e, b) + CopiesOf(e, c)
  <2>1. CASE e \in DOMAIN d
    BY <1>3, <2>1 DEF CopiesOf
  <2>2. CASE e \notin DOMAIN d
    BY <1>3, <2>2 DEF CopiesOf
  <2> QED
    BY <2>1, <2>2
<1> QED
  BY <1>1, <1>5, <1>6

(***************************************************************************)
(* The merge of the counters of S, one after the other, and the copies it  *)
(* has of a value: as many as all of them together.                        *)
(***************************************************************************)
Merges(it, bag, S) ==
    /\ it[{}] = EmptyBag
    /\ \A s \in SUBSET S : s # {} => it[s] = bag[Pick(s)] (+) it[s \ {Pick(s)}]

(***************************************************************************)
(* The counter of the merged shards is computed by taking them one by one. *)
(***************************************************************************)
LEMMA MergesExists ==
    ASSUME NEW S, IsFiniteSet(S), NEW bag, \A i \in S : IsCounter(bag[i])
    PROVE  \E it : it = [s \in SUBSET S |-> it[s]] /\ Merges(it, bag, S)
<1> DEFINE U == UNION {DOMAIN bag[i] : i \in S}
           V == UNION {[D -> Nat] : D \in SUBSET U}
           pick == [s \in SUBSET S |-> Pick(s)]
           op == [xv \in S \X V |-> bag[xv[1]] (+) xv[2]]
<1>1. \A s \in SUBSET S : s # {} => pick[s] \in s
  BY PickIn
<1>2. \A b : b \in V <=> IsCounter(b) /\ DOMAIN b \subseteq U
  BY DEF IsCounter
<1>3. \A b, c : DOMAIN (b (+) c) = DOMAIN b \cup DOMAIN c
  BY DEF (+)
<1>4. ASSUME NEW x \in S, NEW v \in V PROVE bag[x] (+) v \in V
  <2>1. IsCounter(bag[x]) /\ IsCounter(v) /\ DOMAIN bag[x] \subseteq U /\ DOMAIN v \subseteq U
    BY <1>2
  <2>2. IsCounter(bag[x] (+) v)
    <3>1. PICK b : b = bag[x]
      OBVIOUS
    <3> QED
      BY <2>1, <3>1, MergedCopies
  <2> QED
    BY <1>2, <1>3, <2>1, <2>2
<1>5. EmptyBag \in V
  <2>1. DOMAIN EmptyBag = {} /\ EmptyBag = [e \in {} |-> 1]
    BY DEF EmptyBag, SetToBag
  <2>2. IsCounter(EmptyBag)
    BY <2>1 DEF IsCounter
  <2> QED
    BY <1>2, <2>1, <2>2
<1> HIDE DEF V
<1>6. op \in [S \X V -> V]
  <2> DEFINE val(xv) == bag[xv[1]] (+) xv[2]
  <2>1. \A xv \in S \X V : val(xv) \in V
    BY <1>4
  <2> HIDE DEF val
  <2>2. [xv \in S \X V |-> val(xv)] \in [S \X V -> V]
    BY <2>1
  <2> QED
    BY <2>2 DEF val
<1>7. \A x \in S, v \in V : op[<<x, v>>] = bag[x] (+) v
  OBVIOUS
<1>8. \A s \in SUBSET S : pick[s] = Pick(s)
  OBVIOUS
<1> HIDE DEF pick, op
<1>9. PICK it \in [SUBSET S -> V] : Recurs(it, S, EmptyBag, pick, op)
  BY <1>1, <1>5, <1>6, RecursionExists
<1>10. ASSUME NEW s \in SUBSET S, s # {}
       PROVE  it[s] = bag[Pick(s)] (+) it[s \ {Pick(s)}]
  <2>1. Pick(s) \in S /\ it[s \ {Pick(s)}] \in V
    BY <1>10, PickIn
  <2> QED
    BY <1>7, <1>8, <1>9, <1>10, <2>1 DEF Recurs
<1>11. it = [s \in SUBSET S |-> it[s]] /\ it[{}] = EmptyBag
  BY <1>9 DEF Recurs
<1> QED
  BY <1>10, <1>11 DEF Merges

(***************************************************************************)
(* The merge of all shards has the copies of each.                         *)
(***************************************************************************)
LEMMA MergeCounts ==
    ASSUME NEW S, IsFiniteSet(S), NEW bag, \A i \in S : IsCounter(bag[i]),
           NEW it, Merges(it, bag, S), NEW e,
           NEW n \in [S -> Int], \A i \in S : n[i] = CopiesOf(e, bag[i])
    PROVE  CopiesOf(e, it[S]) = SumFunction(n)
<1>1. PICK F : Adds(F, n, S) /\ SumFunction(n) = F[S]
  BY SumAdds
<1> DEFINE T == {s \in SUBSET S : IsCounter(it[s]) /\ CopiesOf(e, it[s]) = F[s]}
<1>2. {} \in T
  <2>1. it[{}] = EmptyBag /\ F[{}] = 0
    BY <1>1 DEF Merges, Adds
  <2>2. DOMAIN EmptyBag = {} /\ EmptyBag = [x \in {} |-> 1]
    BY DEF EmptyBag, SetToBag
  <2>3. IsCounter(EmptyBag) /\ CopiesOf(e, EmptyBag) = 0
    BY <2>2 DEF IsCounter, CopiesOf
  <2> QED
    BY <2>1, <2>3
<1>3. ASSUME NEW s \in SUBSET S, s # {}, s \ {Pick(s)} \in T
      PROVE  s \in T
  <2>1. PICK x, r, b, c : x = Pick(s) /\ r = s \ {x} /\ b = bag[x] /\ c = it[r]
    OBVIOUS
  <2>2. x \in S /\ IsCounter(b) /\ IsCounter(c) /\ CopiesOf(e, c) = F[r]
    BY <1>3, <2>1, PickIn
  <2>3. it[s] = b (+) c
    BY <1>3, <2>1 DEF Merges
  <2>4. IsCounter(it[s]) /\ CopiesOf(e, it[s]) = CopiesOf(e, b) + CopiesOf(e, c)
    BY <2>2, <2>3, MergedCopies
  <2>5. F[s] = n[x] + F[r]
    BY <1>1, <1>3, <2>1 DEF Adds
  <2>6. n[x] = CopiesOf(e, b)
    BY <2>1, <2>2
  <2> QED
    BY <2>2, <2>4, <2>5, <2>6
<1>4. SUBSET S \subseteq T
  <2> HIDE DEF T
  <2> QED
    BY <1>2, <1>3, PickInduction
<1>5. S \in T
  BY <1>4
<1> QED
  BY <1>1, <1>5

(***************************************************************************)
(* Every shard counts its goroutine's batch: all records, those of each    *)
(* severity, those with each value of each label.                          *)
(***************************************************************************)
WithSeverity(g, sev) == {i \in DOMAIN batch[g] : batch[g][i].severity = sev}
WithLabel(g, l, v) ==
    {i \in DOMAIN batch[g] : l \in DOMAIN batch[g][i].resource /\ batch[g][i].resource[l] = v}

SummaryInv ==
    \A g \in Goroutines :
        /\ pc[g] = "done" => delivered[g] = batch[g]
        /\ IsFiniteSet(DOMAIN batch[g]) /\ DOMAIN stats[g] = StatsFields
        /\ stats[g].total = Cardinality(DOMAIN batch[g])
        /\ IsCounter(stats[g].bySeverity)
        /\ \A sev : CopiesOf(sev, stats[g].bySeverity) = Cardinality(WithSeverity(g, sev))
        /\ \A l \in Labels :
              /\ IsCounter(stats[g].byLabel[l])
              /\ \A v : CopiesOf(v, stats[g].byLabel[l]) = Cardinality(WithLabel(g, l, v))

LEMMA SummaryInit == Init => SummaryInv
<1> SUFFICES ASSUME Init, NEW g \in Goroutines
             PROVE  /\ pc[g] # "done"
                    /\ IsFiniteSet(DOMAIN batch[g]) /\ DOMAIN stats[g] = StatsFields
                    /\ stats[g].total = Cardinality(DOMAIN batch[g])
                    /\ IsCounter(stats[g].bySeverity)
                    /\ \A sev : CopiesOf(sev, stats[g].bySeverity)
                                   = Cardinality(WithSeverity(g, sev))
                    /\ \A l \in Labels :
                          /\ IsCounter(stats[g].byLabel[l])
                          /\ \A v : CopiesOf(v, stats[g].byLabel[l])
                                       = Cardinality(WithLabel(g, l, v))
  BY DEF SummaryInv
<1>1. stats[g] = NewLogStats(g \in Tracking) /\ batch[g] = <<>> /\ pc[g] # "done"
  BY DEF Init
<1>2. /\ DOMAIN stats[g] = StatsFields /\ stats[g].total = 0
      /\ stats[g].bySeverity = EmptyBag
      /\ \A l \in Labels : stats[g].byLabel[l] = EmptyBag
  BY <1>1 DEF NewLogStats, StatsFields
<1>3. DOMAIN batch[g] = {}
  BY <1>1
<1>4. DOMAIN EmptyBag = {} /\ EmptyBag = [x \in {} |-> 1]
  BY DEF EmptyBag, SetToBag
<1>5. IsCounter(EmptyBag) /\ \A e : CopiesOf(e, EmptyBag) = 0
  BY <1>4 DEF IsCounter, CopiesOf
<1>6. /\ \A sev : WithSeverity(g, sev) = {}
      /\ \A l, v : WithLabel(g, l, v) = {}
  BY <1>3 DEF WithSeverity, WithLabel
<1> QED
  BY <1>1, <1>2, <1>3, <1>5, <1>6, FS_EmptySet

(***************************************************************************)
(* A record more: the index k0 is in those of its severity and its labels, *)
(* and in no other.                                                        *)
(***************************************************************************)
LEMMA SummaryNext == ShapeInv /\ SummaryInv /\ [Next]_vars => SummaryInv'
<1> SUFFICES ASSUME ShapeInv, SummaryInv, [Next]_vars PROVE SummaryInv'
  OBVIOUS
<1>1. ASSUME UNCHANGED <<stats, batch>>,
             \A g \in Goroutines : pc'[g] = "done" => delivered'[g] = batch[g]
      PROVE  SummaryInv'
  <2>1. /\ \A g, sev : WithSeverity(g, sev)' = WithSeverity(g, sev)
        /\ \A g, l, v : WithLabel(g, l, v)' = WithLabel(g, l, v)
    BY <1>1 DEF WithSeverity, WithLabel
  <2>2. \A g \in Goroutines : stats'[g] = stats[g] /\ batch'[g] = batch[g]
    BY <1>1
  <2> QED
    BY <1>1, <2>1, <2>2 DEF SummaryInv
<1>2. ASSUME NEW g \in Goroutines, FinishRecord(g) PROVE SummaryInv'
  <2> DEFINE q == [lr[g] EXCEPT !.draws = @ + TraceDraws]
  <2>1. PICK k0 : /\ k0 \notin DOMAIN batch[g]
                  /\ DOMAIN batch'[g] = DOMAIN batch[g] \cup {k0}
                  /\ \A i \in DOMAIN batch[g] : batch'[g][i] = batch[g][i]
                  /\ batch'[g][k0] = q
    BY <1>2, FinishBatch
  <2>2. /\ batch'[g][k0].severity = lr[g].severity
        /\ batch'[g][k0].resource = lr[g].resource
    BY <2>1 DEF ShapeInv, RecordFields
  <2> HIDE DEF q
  <2>3. /\ pc[g] = "needles" /\ stats' = [stats EXCEPT ![g] = Counted(g)]
        /\ \A h \in Goroutines \ {g} : batch'[h] = batch[h]
        /\ UNCHANGED delivered
    BY <1>2, FinishStep
  <2>4. PICK p : p # "done" /\ pc' = [pc EXCEPT ![g] = p]
    BY <1>2 DEF FinishRecord
  <2>5. PICK st, sev0, res, attrs, r :
           /\ st = stats[g] /\ sev0 = lr[g].severity
           /\ res = lr[g].resource /\ attrs = lr[g].attrs
           /\ r = stats'[g]
    OBVIOUS
  <2>6. r = Record(st, sev0, res, attrs) /\ \A h \in Goroutines \ {g} : stats'[h] = stats[h]
    BY <2>3, <2>5 DEF ShapeInv, Counted
  <2>7. /\ DOMAIN st = StatsFields
        /\ IsFiniteSet(DOMAIN batch[g])
        /\ st.total = Cardinality(DOMAIN batch[g])
        /\ IsCounter(st.bySeverity)
        /\ \A sev : CopiesOf(sev, st.bySeverity) = Cardinality(WithSeverity(g, sev))
        /\ \A l \in Labels :
              /\ IsCounter(st.byLabel[l])
              /\ \A v : CopiesOf(v, st.byLabel[l]) = Cardinality(WithLabel(g, l, v))
    BY <2>5 DEF SummaryInv
  <2>8. /\ DOMAIN r = StatsFields
        /\ r.total = CountedIn(st, sev0, res).total
        /\ r.bySeverity = CountedIn(st, sev0, res).bySeverity
        /\ r.byLabel = CountedIn(st, sev0, res).byLabel
    BY <2>6, <2>7, RecordKeeps
  <2>9. /\ r.total = st.total + 1
        /\ r.bySeverity = st.bySeverity (+) SetToBag({sev0})
        /\ \A l \in Labels : r.byLabel[l] = IF l \in DOMAIN res
                                            THEN st.byLabel[l] (+) SetToBag({res[l]})
                                            ELSE st.byLabel[l]
    BY <2>7, <2>8 DEF CountedIn, StatsFields
  <2>10. /\ IsFiniteSet(DOMAIN batch'[g])
         /\ r.total = Cardinality(DOMAIN batch'[g])
    BY <2>1, <2>7, <2>9, FS_AddElement
  <2>11. ASSUME NEW D, D \subseteq DOMAIN batch[g]
         PROVE  /\ IsFiniteSet(D) /\ Cardinality(D) \in Nat
                /\ Cardinality(D \cup {k0}) = Cardinality(D) + 1
    <3>1. IsFiniteSet(D)
      BY <2>7, <2>11, FS_Subset
    <3> QED
      BY <2>1, <2>11, <3>1, FS_AddElement, FS_CardinalityType
  <2>12. ASSUME NEW sev
         PROVE  CopiesOf(sev, r.bySeverity) = Cardinality(WithSeverity(g, sev)')
    <3>1. \A i : i \in WithSeverity(g, sev)' <=>
                    i \in DOMAIN batch'[g] /\ batch'[g][i].severity = sev
      BY DEF WithSeverity
    <3>2. \A i : i \in WithSeverity(g, sev) <=>
                    i \in DOMAIN batch[g] /\ batch[g][i].severity = sev
      BY DEF WithSeverity
    <3>3. WithSeverity(g, sev) \subseteq DOMAIN batch[g]
      BY <3>2
    <3>4. CASE sev = sev0
      <4>1. WithSeverity(g, sev)' = WithSeverity(g, sev) \cup {k0}
        BY <2>1, <2>2, <2>5, <3>1, <3>2, <3>4
      <4>2. CopiesOf(sev, r.bySeverity) = CopiesOf(sev, st.bySeverity) + 1
        BY <2>7, <2>9, <3>4, CounterAdds
      <4> QED
        BY <2>7, <2>11, <3>3, <4>1, <4>2
    <3>5. CASE sev # sev0
      <4>1. WithSeverity(g, sev)' = WithSeverity(g, sev)
        <5>1. \A i : i \in WithSeverity(g, sev)' <=> i \in WithSeverity(g, sev)
          BY <2>1, <2>2, <2>5, <3>1, <3>2, <3>5
        <5> QED
          BY <5>1
      <4>2. CopiesOf(sev, r.bySeverity) = CopiesOf(sev, st.bySeverity)
        <5>1. PICK b, c : b = st.bySeverity /\ c = r.bySeverity
          OBVIOUS
        <5>2. c = b (+) SetToBag({sev0}) /\ IsCounter(b)
          BY <2>7, <2>9, <5>1
        <5> QED
          BY <3>5, <5>1, <5>2, CounterAdds
      <4> QED
        BY <2>7, <4>1, <4>2
    <3> QED
      BY <3>4, <3>5
  <2>13. IsCounter(r.bySeverity)
    BY <2>7, <2>9, CounterAdds
  <2>14. ASSUME NEW l \in Labels
         PROVE  /\ IsCounter(r.byLabel[l])
                /\ \A v : CopiesOf(v, r.byLabel[l]) = Cardinality(WithLabel(g, l, v)')
    <3>1. \A v, i : i \in WithLabel(g, l, v)' <=>
                    /\ i \in DOMAIN batch'[g] /\ l \in DOMAIN batch'[g][i].resource
                    /\ batch'[g][i].resource[l] = v
      BY DEF WithLabel
    <3>2. \A v, i : i \in WithLabel(g, l, v) <=>
                    /\ i \in DOMAIN batch[g] /\ l \in DOMAIN batch[g][i].resource
                    /\ batch[g][i].resource[l] = v
      BY DEF WithLabel
    <3>3. \A v : WithLabel(g, l, v) \subseteq DOMAIN batch[g]
      BY <3>2
    <3>4. CASE l \notin DOMAIN res
      <4>1. ASSUME NEW v PROVE WithLabel(g, l, v)' = WithLabel(g, l, v)
        <5>1. \A i : i \in WithLabel(g, l, v)' <=> i \in WithLabel(g, l, v)
          BY <2>1, <2>2, <2>5, <3>1, <3>2, <3>4
        <5> QED
          BY <5>1
      <4>2. r.byLabel[l] = st.byLabel[l]
        BY <2>9, <3>4
      <4> QED
        BY <2>7, <4>1, <4>2
    <3>5. CASE l \in DOMAIN res
      <4>1. PICK v0, b, c : v0 = res[l] /\ b = st.byLabel[l] /\ c = r.byLabel[l]
        OBVIOUS
      <4>2. c = b (+) SetToBag({v0}) /\ IsCounter(b)
        BY <2>7, <2>9, <3>5, <4>1
      <4>3. /\ IsCounter(c) /\ CopiesOf(v0, c) = CopiesOf(v0, b) + 1
            /\ \A y : y # v0 => CopiesOf(y, c) = CopiesOf(y, b)
        BY <4>2, CounterAdds
      <4>4. ASSUME NEW v PROVE CopiesOf(v, c) = Cardinality(WithLabel(g, l, v)')
        <5>1. CASE v = v0
          <6>1. WithLabel(g, l, v)' = WithLabel(g, l, v) \cup {k0}
            BY <2>1, <2>2, <2>5, <3>1, <3>2, <3>5, <4>1, <5>1
          <6> QED
            BY <2>7, <2>11, <3>3, <4>1, <4>3, <5>1, <6>1
        <5>2. CASE v # v0
          <6>1. \A i : i \in WithLabel(g, l, v)' <=> i \in WithLabel(g, l, v)
            BY <2>1, <2>2, <2>5, <3>1, <3>2, <3>5, <4>1, <5>2
          <6>2. WithLabel(g, l, v)' = WithLabel(g, l, v)
            BY <6>1
          <6> QED
            BY <2>7, <4>1, <4>3, <5>2, <6>2
        <5> QED
          BY <5>1, <5>2
      <4> QED
        BY <4>1, <4>3, <4>4
    <3> QED
      BY <3>4, <3>5
  <2>15. ASSUME NEW h \in Goroutines \ {g}
         PROVE  /\ stats'[h] = stats[h] /\ batch'[h] = batch[h]
                /\ \A sev : WithSeverity(h, sev)' = WithSeverity(h, sev)
                /\ \A l, v : WithLabel(h, l, v)' = WithLabel(h, l, v)
    BY <2>3, <2>6 DEF WithSeverity, WithLabel
  <2>16. \A h \in Goroutines : pc'[h] = "done" => delivered'[h] = batch'[h]
    BY <2>3, <2>4 DEF ShapeInv, SummaryInv
  <2>17. ASSUME NEW h \in Goroutines, h # g
         PROVE  /\ IsFiniteSet(DOMAIN batch'[h]) /\ DOMAIN stats'[h] = StatsFields
                /\ stats'[h].total = Cardinality(DOMAIN batch'[h])
                /\ IsCounter(stats'[h].bySeverity)
                /\ \A sev : CopiesOf(sev, stats'[h].bySeverity)
                               = Cardinality(WithSeverity(h, sev)')
                /\ \A l \in Labels :
                      /\ IsCounter(stats'[h].byLabel[l])
                      /\ \A v : CopiesOf(v, stats'[h].byLabel[l])
                                   = Cardinality(WithLabel(h, l, v)')
    BY <2>15, <2>17 DEF SummaryInv
  <2>18. /\ IsFiniteSet(DOMAIN batch'[g]) /\ DOMAIN stats'[g] = StatsFields
         /\ stats'[g].total = Cardinality(DOMAIN batch'[g])
         /\ IsCounter(stats'[g].bySeverity)
         /\ \A sev : CopiesOf(sev, stats'[g].bySeverity)
                        = Cardinality(WithSeverity(g, sev)')
         /\ \A l \in Labels :
               /\ IsCounter(stats'[g].byLabel[l])
               /\ \A v : CopiesOf(v, stats'[g].byLabel[l])
                            = Cardinality(WithLabel(g, l, v)')
    BY <2>5, <2>8, <2>10, <2>12, <2>13, <2>14
  <2> QED
    BY <2>16, <2>17, <2>18 DEF SummaryInv
<1>3. ASSUME NEW g \in Goroutines, Generate(g) \/ RollNeedle(g)
      PROVE  SummaryInv'
  <2>1. /\ UNCHANGED <<stats, batch, delivered>>
        /\ pc' = pc \/ pc' = [pc EXCEPT ![g] = "needles"]
    BY <1>3 DEF Generate, RollNeedle
  <2>2. \A h \in Goroutines : pc'[h] = "done" => pc[h] = "done"
    BY <2>1 DEF ShapeInv
  <2>3. \A h \in Goroutines : pc'[h] = "done" => delivered'[h] = batch[h]
    BY <2>1, <2>2 DEF SummaryInv
  <2> QED
    BY <1>1, <2>1, <2>3
<1>4. ASSUME NEW g \in Goroutines, Consume(g) PROVE SummaryInv'
  <2>1. /\ UNCHANGED <<stats, batch>>
        /\ delivered' = [delivered EXCEPT ![g] = batch[g]]
        /\ pc' = [pc EXCEPT ![g] = "done"]
    BY <1>4 DEF Consume
  <2>2. \A h \in Goroutines : pc'[h] = "done" => delivered'[h] = batch[h]
    BY <2>1 DEF ShapeInv, SummaryInv
  <2> QED
    BY <1>1, <2>1, <2>2
<1>5. CASE UNCHANGED vars
  <2>1. UNCHANGED <<stats, batch, pc, delivered>>
    BY <1>5 DEF vars
  <2>2. \A h \in Goroutines : pc'[h] = "done" => delivered'[h] = batch[h]
    BY <2>1 DEF SummaryInv
  <2> QED
    BY <1>1, <2>1, <2>2
<1> QED
  BY <1>2, <1>3, <1>4, <1>5 DEF Next, Terminated

(***************************************************************************)
(* The records that fulfil a condition, counted over all batches: as many  *)
(* as the goroutines have, one after the other.                            *)
(***************************************************************************)
LEMMA Regrouped ==
    ASSUME NEW D, \A g \in Goroutines : D[g] \subseteq DOMAIN batch[g],
           NEW P, \A r \in AllMade : r \in P <=> r[2] \in D[r[1]], P \subseteq AllMade
    PROVE  P = Group(D, Goroutines)
<1>1. \A r : r \in Group(D, Goroutines) <=>
                \E g \in Goroutines : \E i \in D[g] : r = <<g, i>>
  BY DEF Group
<1>2. ASSUME NEW g \in Goroutines, NEW i \in DOMAIN batch[g]
      PROVE  <<g, i>> \in P <=> i \in D[g]
  <2>1. PICK r : r = <<g, i>>
    OBVIOUS
  <2>2. r[1] = g /\ r[2] = i /\ r \in AllMade
    BY <2>1, MadeRecords
  <2> QED
    BY <2>1, <2>2
<1>3. ASSUME NEW r PROVE r \in P <=> r \in Group(D, Goroutines)
  <2>1. ASSUME r \in P PROVE r \in Group(D, Goroutines)
    <3>1. PICK g \in Goroutines : \E i \in DOMAIN batch[g] : r = <<g, i>>
      BY <2>1, MadeRecords
    <3>2. PICK i \in DOMAIN batch[g] : r = <<g, i>>
      BY <3>1
    <3> QED
      BY <1>1, <1>2, <2>1, <3>2
  <2>2. ASSUME r \in Group(D, Goroutines) PROVE r \in P
    BY <1>1, <1>2, <2>2
  <2> QED
    BY <2>1, <2>2
<1> QED
  BY <1>3

(***************************************************************************)
(* Merging the counters bag[g] of the goroutines gives as many copies of e *)
(* as there are records in P, when each counts those of its own.           *)
(***************************************************************************)
CountEach(bag, e, D, P) ==
    /\ \A g \in Goroutines : /\ IsCounter(bag[g])
                             /\ D[g] \subseteq DOMAIN batch[g]
                             /\ IsFiniteSet(D[g])
                             /\ CopiesOf(e, bag[g]) = Cardinality(D[g])
    /\ \A r \in AllMade : r \in P <=> r[2] \in D[r[1]]
    /\ P \subseteq AllMade

(***************************************************************************)
(* When every shard counts its own records, the merge counts all of them.  *)
(***************************************************************************)
LEMMA MergedCounter ==
    ASSUME NEW bag, NEW it, Merges(it, bag, Goroutines),
           NEW e, NEW D, NEW P, CountEach(bag, e, D, P)
    PROVE  CopiesOf(e, it[Goroutines]) = Cardinality(P)
<1> USE DEF CountEach
<1> DEFINE n == [g \in Goroutines |-> Cardinality(D[g])]
<1>1. n \in [Goroutines -> Int] /\ \A g \in Goroutines : n[g] = Cardinality(D[g])
  <2> DEFINE val(g) == Cardinality(D[g])
  <2>1. \A g \in Goroutines : val(g) \in Int
    BY FS_CardinalityType
  <2> HIDE DEF val
  <2>2. [g \in Goroutines |-> val(g)] \in [Goroutines -> Int]
    BY <2>1
  <2>3. n = [g \in Goroutines |-> val(g)]
    BY DEF val
  <2> QED
    BY <2>2, <2>3 DEF val
<1> HIDE DEF n
<1>2. IsFiniteSet(Goroutines)
  BY NeedleNameAssumption
<1>3. CopiesOf(e, it[Goroutines]) = SumFunction(n)
  <2>1. PICK S, m : S = Goroutines /\ m = n
    OBVIOUS
  <2>2. IsFiniteSet(S) /\ m \in [S -> Int] /\ Merges(it, bag, S)
    BY <1>1, <1>2, <2>1
  <2>3. \A i \in S : IsCounter(bag[i])
    BY <2>1
  <2>4. \A i \in S : m[i] = CopiesOf(e, bag[i])
    BY <1>1, <2>1
  <2>5. CopiesOf(e, it[S]) = SumFunction(m)
    <3> HIDE DEF CountEach
    <3> QED
      BY <2>2, <2>3, <2>4, MergeCounts
  <2> QED
    BY <2>1, <2>5
<1>4. Cardinality(Group(D, Goroutines)) = SumFunction(n)
  BY <1>1, <1>2, GroupCounted
<1>5. P = Group(D, Goroutines)
  BY Regrouped
<1> QED
  BY <1>3, <1>4, <1>5

(***************************************************************************)
(* What the fold over the shards returns.                                  *)
(***************************************************************************)
LEMMA MergeSeverities ==
    ASSUME SummaryInv, stats = [g \in Goroutines |-> stats[g]]
    PROVE  \E it, bag : /\ Merges(it, bag, Goroutines)
                        /\ \A g \in Goroutines : bag[g] = stats[g].bySeverity
                        /\ Merge(stats).bySeverity = it[Goroutines]
<1> DEFINE bag == [g \in Goroutines |-> stats[g].bySeverity]
           Def(it) == [s \in SUBSET Goroutines |->
                         IF s = {} THEN EmptyBag
                         ELSE stats[Pick(s)].bySeverity (+) it[s \ {Pick(s)}]]
<1>1. \A g \in Goroutines : bag[g] = stats[g].bySeverity /\ IsCounter(bag[g])
  BY DEF SummaryInv
<1> HIDE DEF bag
<1>2. IsFiniteSet(Goroutines)
  BY NeedleNameAssumption
<1>3. \E it : it = Def(it)
  <2>1. PICK it : it = [s \in SUBSET Goroutines |-> it[s]] /\ Merges(it, bag, Goroutines)
    BY <1>1, <1>2, MergesExists
  <2>2. ASSUME NEW s \in SUBSET Goroutines
        PROVE  it[s] = IF s = {} THEN EmptyBag
                       ELSE stats[Pick(s)].bySeverity (+) it[s \ {Pick(s)}]
    BY <1>1, <2>1, PickIn DEF Merges
  <2>3. it = Def(it)
    BY <2>1, <2>2
  <2> QED
    BY <2>3
<1> DEFINE iter == CHOOSE it : it = Def(it)
<1>4. iter = Def(iter)
  <2> HIDE DEF Def
  <2> QED
    BY <1>3
<1>5. DOMAIN stats = Goroutines
  OBVIOUS
<1>6. FoldFunction(LAMBDA s, b : s.bySeverity (+) b, EmptyBag, stats) = iter[Goroutines]
  BY <1>5 DEF FoldFunction, FoldFunctionOnSet, MapThenFoldSet, Pick
<1>7. Merge(stats).bySeverity = iter[Goroutines]
  BY <1>6 DEF Merge, NewLogStats
<1> HIDE DEF iter
<1>8. Merges(iter, bag, Goroutines)
  <2>1. iter[{}] = EmptyBag
    BY <1>4
  <2>2. \A s \in SUBSET Goroutines : s # {} =>
           iter[s] = stats[Pick(s)].bySeverity (+) iter[s \ {Pick(s)}]
    BY <1>4
  <2> HIDE DEF Def
  <2> QED
    BY <1>1, <2>1, <2>2, PickIn DEF Merges
<1> QED
  BY <1>1, <1>7, <1>8

(***************************************************************************)
(* The merge of the counters of a resource label, and of the totals.       *)
(***************************************************************************)
LEMMA MergeLabels ==
    ASSUME SummaryInv, stats = [g \in Goroutines |-> stats[g]], NEW l \in Labels
    PROVE  \E it, bag : /\ Merges(it, bag, Goroutines)
                        /\ \A g \in Goroutines : bag[g] = stats[g].byLabel[l]
                        /\ Merge(stats).byLabel[l] = it[Goroutines]
<1> DEFINE bag == [g \in Goroutines |-> stats[g].byLabel[l]]
           Def(it) == [s \in SUBSET Goroutines |->
                         IF s = {} THEN EmptyBag
                         ELSE stats[Pick(s)].byLabel[l] (+) it[s \ {Pick(s)}]]
<1>1. \A g \in Goroutines : bag[g] = stats[g].byLabel[l] /\ IsCounter(bag[g])
  BY DEF SummaryInv
<1> HIDE DEF bag
<1>2. IsFiniteSet(Goroutines)
  BY NeedleNameAssumption
<1>3. \E it : it = Def(it)
  <2>1. PICK it : it = [s \in SUBSET Goroutines |-> it[s]] /\ Merges(it, bag, Goroutines)
    BY <1>1, <1>2, MergesExists
  <2>2. ASSUME NEW s \in SUBSET Goroutines
        PROVE  it[s] = IF s = {} THEN EmptyBag
                       ELSE stats[Pick(s)].byLabel[l] (+) it[s \ {Pick(s)}]
    BY <1>1, <2>1, PickIn DEF Merges
  <2>3. it = Def(it)
    BY <2>1, <2>2
  <2> QED
    BY <2>3
<1> DEFINE iter == CHOOSE it : it = Def(it)
<1>4. iter = Def(iter)
  <2> HIDE DEF Def
  <2> QED
    BY <1>3
<1>5. DOMAIN stats = Goroutines
  OBVIOUS
<1>6. FoldFunction(LAMBDA s, b : s.byLabel[l] (+) b, EmptyBag, stats) = iter[Goroutines]
  BY <1>5 DEF FoldFunction, FoldFunctionOnSet, MapThenFoldSet, Pick
<1>7. Merge(stats).byLabel[l] =
         FoldFunction(LAMBDA s, b : s.byLabel[l] (+) b, EmptyBag, stats)
  BY DEF Merge, NewLogStats
<1> HIDE DEF iter
<1>8. Merges(iter, bag, Goroutines)
  <2>1. iter[{}] = EmptyBag
    BY <1>4
  <2>2. \A s \in SUBSET Goroutines : s # {} =>
           iter[s] = stats[Pick(s)].byLabel[l] (+) iter[s \ {Pick(s)}]
    BY <1>4
  <2> HIDE DEF Def
  <2> QED
    BY <1>1, <2>1, <2>2, PickIn DEF Merges
<1> QED
  BY <1>1, <1>6, <1>7, <1>8

LEMMA MergeTotals ==
    ASSUME SummaryInv, stats = [g \in Goroutines |-> stats[g]]
    PROVE  Merge(stats).total = Cardinality(AllMade)
<1> DEFINE n == [g \in DOMAIN stats |-> stats[g].total]
           D == [g \in Goroutines |-> DOMAIN batch[g]]
<1>1. IsFiniteSet(Goroutines) /\ DOMAIN stats = Goroutines
  BY NeedleNameAssumption
<1>2. \A g \in Goroutines : /\ D[g] = DOMAIN batch[g] /\ IsFiniteSet(D[g])
                            /\ n[g] = Cardinality(D[g]) /\ n[g] \in Int
  BY <1>1, FS_CardinalityType DEF SummaryInv
<1>3. n \in [Goroutines -> Int]
  <2> DEFINE val(g) == stats[g].total
  <2>1. \A g \in Goroutines : val(g) \in Int
    BY <1>1, <1>2
  <2> HIDE DEF val
  <2>2. [g \in Goroutines |-> val(g)] \in [Goroutines -> Int]
    BY <2>1
  <2> QED
    BY <1>1, <2>2 DEF val
<1>4. Merge(stats).total = SumFunction(n)
  BY DEF Merge, NewLogStats
<1> HIDE DEF n, D
<1>5. Cardinality(Group(D, Goroutines)) = SumFunction(n)
  BY <1>1, <1>2, <1>3, GroupCounted
<1>6. AllMade = Group(D, Goroutines)
  <2>1. \A r \in AllMade : r[2] \in D[r[1]]
    BY <1>2, MadeRecords
  <2>2. PICK P : P = AllMade
    OBVIOUS
  <2>3. (\A r \in AllMade : r \in P <=> r[2] \in D[r[1]]) /\ P \subseteq AllMade
    BY <2>1, <2>2
  <2>4. P = Group(D, Goroutines)
    BY <1>2, <2>3, Regrouped
  <2> QED
    BY <2>2, <2>4
<1> QED
  BY <1>4, <1>5, <1>6

(***************************************************************************)
(* When all goroutines are done, the invariant is what the summary says.   *)
(***************************************************************************)
LEMMA SummaryOfDone ==
    ASSUME ShapeInv, SummaryInv, Done
    PROVE  SummaryDescribesDelivered
<1> DEFINE merged == Merge(stats)
<1>1. delivered = batch
  BY DEF ShapeInv, SummaryInv, Done
<1>2. stats = [g \in Goroutines |-> stats[g]]
  BY DEF ShapeInv
<1>3. merged.total = Cardinality(AllMade)
  BY <1>2, MergeTotals
<1>4. ASSUME NEW D, NEW g \in Goroutines, D \subseteq DOMAIN batch[g]
      PROVE  IsFiniteSet(D)
  BY <1>4, FS_Subset DEF SummaryInv
<1>5. ASSUME NEW sev
      PROVE  CopiesOf(sev, merged.bySeverity) =
                Cardinality({r \in AllMade : The(r).severity = sev})
  <2> DEFINE D == [g \in Goroutines |-> WithSeverity(g, sev)]
             P == {r \in AllMade : The(r).severity = sev}
  <2>1. PICK it, bag : /\ Merges(it, bag, Goroutines)
                       /\ \A g \in Goroutines : bag[g] = stats[g].bySeverity
                       /\ merged.bySeverity = it[Goroutines]
    BY <1>2, MergeSeverities
  <2>2. \A g \in Goroutines : IsCounter(bag[g])
    BY <2>1 DEF SummaryInv
  <2>3. ASSUME NEW g \in Goroutines
        PROVE  /\ D[g] \subseteq DOMAIN batch[g] /\ IsFiniteSet(D[g])
               /\ CopiesOf(sev, bag[g]) = Cardinality(D[g])
    <3>1. D[g] = WithSeverity(g, sev)
      OBVIOUS
    <3>2. WithSeverity(g, sev) \subseteq DOMAIN batch[g]
      BY DEF WithSeverity
    <3>3. CopiesOf(sev, bag[g]) = Cardinality(WithSeverity(g, sev))
      BY <2>1 DEF SummaryInv
    <3> QED
      BY <1>4, <3>1, <3>2, <3>3
  <2>4. ASSUME NEW r \in AllMade PROVE r \in P <=> r[2] \in D[r[1]]
    <3>1. PICK g \in Goroutines : \E i \in DOMAIN batch[g] : r = <<g, i>>
      BY MadeRecords
    <3>2. PICK i \in DOMAIN batch[g] : r = <<g, i>>
      BY <3>1
    <3>3. r[1] = g /\ r[2] = i
      BY <3>2
    <3> QED
      BY <3>3 DEF The, WithSeverity
  <2>5. P \subseteq AllMade
    OBVIOUS
  <2> HIDE DEF D, P
  <2>6. CopiesOf(sev, it[Goroutines]) = Cardinality(P)
    <3>1. CountEach(bag, sev, D, P)
      BY <2>2, <2>3, <2>4, <2>5 DEF CountEach
    <3> QED
      BY <2>1, <3>1, MergedCounter
  <2> QED
    BY <2>1, <2>6 DEF P
<1>6. ASSUME NEW l \in Labels, NEW v
      PROVE  CopiesOf(v, merged.byLabel[l]) =
                Cardinality({r \in AllMade : l \in DOMAIN The(r).resource
                                             /\ The(r).resource[l] = v})
  <2> DEFINE D == [g \in Goroutines |-> WithLabel(g, l, v)]
             P == {r \in AllMade : l \in DOMAIN The(r).resource
                                   /\ The(r).resource[l] = v}
  <2>1. PICK it, bag : /\ Merges(it, bag, Goroutines)
                       /\ \A g \in Goroutines : bag[g] = stats[g].byLabel[l]
                       /\ merged.byLabel[l] = it[Goroutines]
    BY <1>2, MergeLabels
  <2>2. \A g \in Goroutines : IsCounter(bag[g])
    BY <2>1 DEF SummaryInv
  <2>3. ASSUME NEW g \in Goroutines
        PROVE  /\ D[g] \subseteq DOMAIN batch[g] /\ IsFiniteSet(D[g])
               /\ CopiesOf(v, bag[g]) = Cardinality(D[g])
    <3>1. D[g] = WithLabel(g, l, v)
      OBVIOUS
    <3>2. WithLabel(g, l, v) \subseteq DOMAIN batch[g]
      BY DEF WithLabel
    <3>3. CopiesOf(v, bag[g]) = Cardinality(WithLabel(g, l, v))
      BY <2>1 DEF SummaryInv
    <3> QED
      BY <1>4, <3>1, <3>2, <3>3
  <2>4. ASSUME NEW r \in AllMade PROVE r \in P <=> r[2] \in D[r[1]]
    <3>1. PICK g \in Goroutines : \E i \in DOMAIN batch[g] : r = <<g, i>>
      BY MadeRecords
    <3>2. PICK i \in DOMAIN batch[g] : r = <<g, i>>
      BY <3>1
    <3>3. r[1] = g /\ r[2] = i
      BY <3>2
    <3> QED
      BY <3>3 DEF The, WithLabel
  <2>5. P \subseteq AllMade
    OBVIOUS
  <2> HIDE DEF D, P
  <2>6. CopiesOf(v, it[Goroutines]) = Cardinality(P)
    <3>1. CountEach(bag, v, D, P)
      BY <2>2, <2>3, <2>4, <2>5 DEF CountEach
    <3> QED
      BY <2>1, <3>1, MergedCounter
  <2> QED
    BY <2>1, <2>6 DEF P
<1> HIDE DEF merged
<1> QED
  BY <1>1, <1>3, <1>5, <1>6 DEF SummaryDescribesDelivered, NumWhere, merged

(***************************************************************************)
(* Whatever the needles replaced and however the goroutines interleaved,   *)
(* the summary printed at shutdown counts the records as they were         *)
(* delivered: in total, by severity and by each label.                     *)
(***************************************************************************)
THEOREM SummaryDescribesDeliveredCorrect == Spec => []SummaryDescribesDelivered
<1>1. ShapeInv /\ SummaryInv => SummaryDescribesDelivered
  BY SummaryOfDone DEF SummaryDescribesDelivered
<1> QED
  BY <1>1, ShapeInit, ShapeNext, SummaryInit, SummaryNext, PTL DEF Spec
-----------------------------------------------------------------------------
(***************************************************************************)
(* What generation makes of a template.                                    *)
(*                                                                         *)
(* Outcomes with keys in K and values in W, and the two steps on them.     *)
(***************************************************************************)
AttrsIn(K, W) == UNION {[D -> W] : D \in SUBSET K}
Outcomes(K, W) == [attrs : AttrsIn(K, W), draws : Nat]
ProviderIn(p, K, W) == p.key \in K /\ p.values \subseteq W
ProvidersIn(list, K, W) ==
    /\ list \in Seq({list[i] : i \in DOMAIN list})
    /\ \A i \in DOMAIN list : ProviderIn(list[i], K, W)
WithAttrs(start, list) == FoldLeft(WithAttr, start, list)
WithRares(start, list) == FoldLeft(WithRare, start, list)

(***************************************************************************)
(* Attributes with keys in K and values in W.                              *)
(***************************************************************************)
LEMMA AttrsInIs ==
    ASSUME NEW K, NEW W, NEW a
    PROVE  a \in AttrsIn(K, W) <=> /\ a = [k \in DOMAIN a |-> a[k]]
                                   /\ DOMAIN a \subseteq K
                                   /\ \A k \in DOMAIN a : a[k] \in W
  BY DEF AttrsIn

(***************************************************************************)
(* PutAll and Put keep keys and values in K and W.                         *)
(***************************************************************************)
LEMMA PutAllIn ==
    ASSUME NEW K, NEW W, NEW a \in AttrsIn(K, W), NEW more \in AttrsIn(K, W)
    PROVE  PutAll(a, more) \in AttrsIn(K, W)
<1>1. PICK b : b = PutAll(a, more)
  OBVIOUS
<1>2. /\ DOMAIN b = DOMAIN a \cup DOMAIN more
      /\ \A k \in DOMAIN b : b[k] = IF k \in DOMAIN more THEN more[k] ELSE a[k]
      /\ b = [k \in DOMAIN b |-> b[k]]
  BY <1>1 DEF PutAll
<1>3. /\ DOMAIN a \subseteq K /\ \A k \in DOMAIN a : a[k] \in W
      /\ DOMAIN more \subseteq K /\ \A k \in DOMAIN more : more[k] \in W
  BY AttrsInIs
<1>4. DOMAIN b \subseteq K /\ \A k \in DOMAIN b : b[k] \in W
  BY <1>2, <1>3
<1> QED
  BY <1>1, <1>2, <1>4, AttrsInIs

LEMMA PutIn ==
    ASSUME NEW K, NEW W, NEW a \in AttrsIn(K, W), NEW key \in K, NEW v \in W
    PROVE  Put(a, key, v) \in AttrsIn(K, W)
<1>1. PICK one : one = [k \in {key} |-> v]
  OBVIOUS
<1>2. one \in AttrsIn(K, W) /\ DOMAIN one = {key}
  BY <1>1, AttrsInIs
<1>3. PutAll(a, one) \in AttrsIn(K, W)
  BY <1>2, PutAllIn
<1>4. Put(a, key, v) = PutAll(a, one)
  BY <1>1 DEF Put
<1> QED
  BY <1>3, <1>4

(***************************************************************************)
(* An outcome of WithAttr: a key that is set is skipped, another takes a   *)
(* draw.                                                                   *)
(***************************************************************************)
MadeFrom(p, ag, o) ==
    /\ DOMAIN p.attrs \subseteq DOMAIN o.attrs
    /\ DOMAIN o.attrs \subseteq DOMAIN p.attrs \cup {ag.key}
    /\ o.draws = IF ag.key \in DOMAIN p.attrs THEN p.draws ELSE p.draws + 1

LEMMA WithAttrIs ==
    ASSUME NEW K, NEW W, NEW S \in SUBSET Outcomes(K, W), NEW ag,
           ProviderIn(ag, K, W), NEW o \in WithAttr(S, ag)
    PROVE  o \in Outcomes(K, W) /\ \E p \in S : MadeFrom(p, ag, o)
<1> USE DEF MadeFrom
<1>1. PICK p \in S : o \in IF ag.key \in DOMAIN p.attrs
                           THEN {p}
                           ELSE {[attrs |-> IF v = Nil THEN p.attrs ELSE Put(p.attrs, ag.key, v),
                                  draws |-> p.draws + 1] : v \in ag.values}
  BY DEF WithAttr
<1>2. p \in Outcomes(K, W) /\ p.attrs \in AttrsIn(K, W) /\ p.draws \in Nat
  BY DEF Outcomes
<1>3. CASE ag.key \in DOMAIN p.attrs
  <2>1. o = p
    BY <1>1, <1>3
  <2> QED
    BY <1>2, <1>3, <2>1
<1>4. CASE ag.key \notin DOMAIN p.attrs
  <2>1. PICK v \in ag.values :
               o = [attrs |-> IF v = Nil THEN p.attrs ELSE Put(p.attrs, ag.key, v),
                    draws |-> p.draws + 1]
    BY <1>1, <1>4
  <2>2. PICK a : a = IF v = Nil THEN p.attrs ELSE Put(p.attrs, ag.key, v)
    OBVIOUS
  <2>3. o = [attrs |-> a, draws |-> p.draws + 1] /\ o.attrs = a /\ o.draws = p.draws + 1
    BY <2>1, <2>2
  <2>4. PICK key : key = ag.key /\ key \in K /\ v \in W
    BY DEF ProviderIn
  <2>5. /\ Put(p.attrs, key, v) \in AttrsIn(K, W)
        /\ DOMAIN Put(p.attrs, key, v) = DOMAIN p.attrs \cup {key}
    <3>1. PICK b : b = p.attrs /\ b \in AttrsIn(K, W)
      BY <1>2
    <3>2. Put(b, key, v) \in AttrsIn(K, W)
      BY <2>4, <3>1, PutIn
    <3>3. DOMAIN Put(b, key, v) = DOMAIN b \cup {key}
      BY DEF Put, PutAll
    <3> QED
      BY <3>1, <3>2, <3>3
  <2>6. /\ a \in AttrsIn(K, W) /\ DOMAIN p.attrs \subseteq DOMAIN a
        /\ DOMAIN a \subseteq DOMAIN p.attrs \cup {ag.key}
    BY <1>2, <2>2, <2>4, <2>5
  <2>7. o \in Outcomes(K, W)
    BY <1>2, <2>3, <2>6 DEF Outcomes
  <2> QED
    BY <1>4, <2>3, <2>6, <2>7
<1> QED
  BY <1>3, <1>4

(***************************************************************************)
(* An outcome of WithRare: two draws in any case.                          *)
(***************************************************************************)
LEMMA WithRareIs ==
    ASSUME NEW K, NEW W, NEW S \in SUBSET Outcomes(K, W), NEW ra,
           ProviderIn(ra, K, W), NEW o \in WithRare(S, ra)
    PROVE  /\ o \in Outcomes(K, W)
           /\ \E p \in S : o.draws = p.draws + 2
<1>1. PICK p \in S : o \in {[p EXCEPT !.draws = @ + 2]} \cup
                          {[attrs |-> Put(p.attrs, ra.key, v), draws |-> p.draws + 2] :
                              v \in ra.values}
  BY DEF WithRare
<1>2. p \in Outcomes(K, W) /\ p.attrs \in AttrsIn(K, W) /\ p.draws \in Nat
  BY DEF Outcomes
<1>3. CASE o = [p EXCEPT !.draws = @ + 2]
  <2>1. o \in Outcomes(K, W) /\ o.draws = p.draws + 2
    BY <1>2, <1>3 DEF Outcomes
  <2> QED
    BY <2>1
<1>4. ASSUME NEW v \in ra.values,
             o = [attrs |-> Put(p.attrs, ra.key, v), draws |-> p.draws + 2]
      PROVE  o \in Outcomes(K, W) /\ o.draws = p.draws + 2
  <2>1. PICK key, a : key = ra.key /\ key \in K /\ v \in W /\ a = Put(p.attrs, key, v)
    BY DEF ProviderIn
  <2>2. a \in AttrsIn(K, W)
    BY <1>2, <2>1, PutIn
  <2>3. o = [attrs |-> a, draws |-> p.draws + 2]
    BY <1>4, <2>1
  <2> QED
    BY <1>2, <2>2, <2>3 DEF Outcomes
<1> QED
  BY <1>1, <1>3, <1>4

(***************************************************************************)
(* The fold of the attributes.                                             *)
(***************************************************************************)
WithAttrFolds(it, start, list) ==
    /\ it[{}] = start
    /\ \A s \in SUBSET DOMAIN list : s # {} =>
          it[s] = WithAttr(it[s \ {Max(s)}], list[Max(s)])
    /\ WithAttrs(start, list) = it[DOMAIN list]

(***************************************************************************)
(* FoldLeft with WithAttr takes the attributes one by one.                 *)
(***************************************************************************)
LEMMA WithAttrFold ==
    ASSUME NEW K, NEW W, NEW list, ProvidersIn(list, K, W),
           NEW start \in SUBSET Outcomes(K, W)
    PROVE  \E it : WithAttrFolds(it, start, list)
<1> DEFINE n == Len(list)
           V == SUBSET Outcomes(K, W)
           op == [iv \in (1..n) \X V |-> WithAttr(iv[2], list[iv[1]])]
           Def(it) == [s \in SUBSET DOMAIN list |->
                         IF s = {} THEN start
                         ELSE WithAttr(it[s \ {Max(s)}], list[Max(s)])]
<1>1. n \in Nat /\ DOMAIN list = 1..n
  BY DEF ProvidersIn
<1>2. \A i \in 1..n, v \in V : WithAttr(v, list[i]) \in V
  <2> SUFFICES ASSUME NEW i \in 1..n, NEW v \in V, NEW o \in WithAttr(v, list[i])
               PROVE  o \in Outcomes(K, W)
    OBVIOUS
  <2>1. PICK ag : ag = list[i] /\ ProviderIn(ag, K, W)
    BY <1>1 DEF ProvidersIn
  <2> QED
    BY <2>1, WithAttrIs
<1>3. op \in [(1..n) \X V -> V]
  <2> DEFINE val(iv) == WithAttr(iv[2], list[iv[1]])
  <2>1. \A iv \in (1..n) \X V : val(iv) \in V
    BY <1>2
  <2> HIDE DEF val, V
  <2>2. [iv \in (1..n) \X V |-> val(iv)] \in [(1..n) \X V -> V]
    BY <2>1
  <2> QED
    BY <2>2 DEF val
<1>4. \A i \in 1..n, v \in V : op[<<i, v>>] = WithAttr(v, list[i])
  OBVIOUS
<1> HIDE DEF n, V, op
<1>5. PICK it \in [SUBSET (1..n) -> V] : Folds(it, n, start, op)
  <2>1. start \in V
    BY DEF V
  <2> QED
    BY <1>1, <1>3, <2>1, FoldExists
<1>6. ASSUME NEW s \in SUBSET (1..n), s # {}
      PROVE  it[s] = WithAttr(it[s \ {Max(s)}], list[Max(s)])
  <2>1. Max(s) \in 1..n /\ it[s \ {Max(s)}] \in V
    BY <1>1, <1>6, MaxIn
  <2>2. it[s] = op[<<Max(s), it[s \ {Max(s)}]>>]
    BY <1>5, <1>6 DEF Folds
  <2> QED
    BY <1>4, <2>1, <2>2
<1>7. it = Def(it)
  <2>1. it = [s \in SUBSET DOMAIN list |-> it[s]] /\ it[{}] = start
    BY <1>1, <1>5 DEF Folds
  <2>2. \A s \in SUBSET DOMAIN list :
           it[s] = IF s = {} THEN start ELSE WithAttr(it[s \ {Max(s)}], list[Max(s)])
    BY <1>1, <1>6, <2>1
  <2> QED
    BY <2>1, <2>2
<1> DEFINE iter == CHOOSE g : g = Def(g)
<1>8. iter = Def(iter)
  <2> HIDE DEF Def
  <2> QED
    BY <1>7
<1>9. WithAttrs(start, list) = iter[DOMAIN list]
  BY DEF WithAttrs, FoldLeft, MapThenFoldSet
<1> HIDE DEF iter
<1>10. /\ iter[{}] = start
       /\ \A s \in SUBSET DOMAIN list : s # {} =>
             iter[s] = WithAttr(iter[s \ {Max(s)}], list[Max(s)])
  BY <1>8
<1> QED
  BY <1>9, <1>10 DEF WithAttrFolds

(***************************************************************************)
(* The fold of the rare attributes.                                        *)
(***************************************************************************)
WithRareFolds(it, start, list) ==
    /\ it[{}] = start
    /\ \A s \in SUBSET DOMAIN list : s # {} =>
          it[s] = WithRare(it[s \ {Max(s)}], list[Max(s)])
    /\ WithRares(start, list) = it[DOMAIN list]

(***************************************************************************)
(* FoldLeft with WithRare takes the rare attributes one by one.            *)
(***************************************************************************)
LEMMA WithRareFold ==
    ASSUME NEW K, NEW W, NEW list, ProvidersIn(list, K, W),
           NEW start \in SUBSET Outcomes(K, W)
    PROVE  \E it : WithRareFolds(it, start, list)
<1> DEFINE n == Len(list)
           V == SUBSET Outcomes(K, W)
           op == [iv \in (1..n) \X V |-> WithRare(iv[2], list[iv[1]])]
           Def(it) == [s \in SUBSET DOMAIN list |->
                         IF s = {} THEN start
                         ELSE WithRare(it[s \ {Max(s)}], list[Max(s)])]
<1>1. n \in Nat /\ DOMAIN list = 1..n
  BY DEF ProvidersIn
<1>2. \A i \in 1..n, v \in V : WithRare(v, list[i]) \in V
  <2> SUFFICES ASSUME NEW i \in 1..n, NEW v \in V, NEW o \in WithRare(v, list[i])
               PROVE  o \in Outcomes(K, W)
    OBVIOUS
  <2>1. PICK ag : ag = list[i] /\ ProviderIn(ag, K, W)
    BY <1>1 DEF ProvidersIn
  <2> QED
    BY <2>1, WithRareIs
<1>3. op \in [(1..n) \X V -> V]
  <2> DEFINE val(iv) == WithRare(iv[2], list[iv[1]])
  <2>1. \A iv \in (1..n) \X V : val(iv) \in V
    BY <1>2
  <2> HIDE DEF val, V
  <2>2. [iv \in (1..n) \X V |-> val(iv)] \in [(1..n) \X V -> V]
    BY <2>1
  <2> QED
    BY <2>2 DEF val
<1>4. \A i \in 1..n, v \in V : op[<<i, v>>] = WithRare(v, list[i])
  OBVIOUS
<1> HIDE DEF n, V, op
<1>5. PICK it \in [SUBSET (1..n) -> V] : Folds(it, n, start, op)
  <2>1. start \in V
    BY DEF V
  <2> QED
    BY <1>1, <1>3, <2>1, FoldExists
<1>6. ASSUME NEW s \in SUBSET (1..n), s # {}
      PROVE  it[s] = WithRare(it[s \ {Max(s)}], list[Max(s)])
  <2>1. Max(s) \in 1..n /\ it[s \ {Max(s)}] \in V
    BY <1>1, <1>6, MaxIn
  <2>2. it[s] = op[<<Max(s), it[s \ {Max(s)}]>>]
    BY <1>5, <1>6 DEF Folds
  <2> QED
    BY <1>4, <2>1, <2>2
<1>7. it = Def(it)
  <2>1. it = [s \in SUBSET DOMAIN list |-> it[s]] /\ it[{}] = start
    BY <1>1, <1>5 DEF Folds
  <2>2. \A s \in SUBSET DOMAIN list :
           it[s] = IF s = {} THEN start ELSE WithRare(it[s \ {Max(s)}], list[Max(s)])
    BY <1>1, <1>6, <2>1
  <2> QED
    BY <2>1, <2>2
<1> DEFINE iter == CHOOSE g : g = Def(g)
<1>8. iter = Def(iter)
  <2> HIDE DEF Def
  <2> QED
    BY <1>7
<1>9. WithRares(start, list) = iter[DOMAIN list]
  BY DEF WithRares, FoldLeft, MapThenFoldSet
<1> HIDE DEF iter
<1>10. /\ iter[{}] = start
       /\ \A s \in SUBSET DOMAIN list : s # {} =>
             iter[s] = WithRare(iter[s \ {Max(s)}], list[Max(s)])
  BY <1>8
<1> QED
  BY <1>9, <1>10 DEF WithRareFolds

(***************************************************************************)
(* Whatever comes out has its keys and values from the template; and when  *)
(* no two attributes share a key, all outcomes took as many draws.         *)
(***************************************************************************)
Alike(S, d) == \A o \in S : o.draws = d
DistinctKeys(list) ==
    \A i, j \in DOMAIN list : list[i].key = list[j].key => i = j

(***************************************************************************)
(* The greatest of some indices of a list is one of them.                  *)
(***************************************************************************)
LEMMA MaxOf ==
    ASSUME NEW K, NEW W, NEW list, ProvidersIn(list, K, W),
           NEW s \in SUBSET DOMAIN list, s # {}
    PROVE  Max(s) \in s
<1>1. Len(list) \in Nat /\ DOMAIN list = 1..Len(list)
  BY DEF ProvidersIn
<1> QED
  BY <1>1, MaxIn

(***************************************************************************)
(* The attributes lead to outcomes with keys in K and values in W.         *)
(***************************************************************************)
LEMMA AttrsOutcomes ==
    ASSUME NEW K, NEW W, NEW list, ProvidersIn(list, K, W),
           NEW start \in SUBSET Outcomes(K, W)
    PROVE  WithAttrs(start, list) \subseteq Outcomes(K, W)
<1>0. PICK it : WithAttrFolds(it, start, list)
  BY WithAttrFold
<1>1. /\ it[{}] = start
      /\ \A s \in SUBSET DOMAIN list : s # {} =>
            it[s] = WithAttr(it[s \ {Max(s)}], list[Max(s)])
      /\ WithAttrs(start, list) = it[DOMAIN list]
  BY <1>0 DEF WithAttrFolds
<1> DEFINE T == {s \in SUBSET DOMAIN list : it[s] \subseteq Outcomes(K, W)}
<1>2. {} \in T
  BY <1>1
<1>3. ASSUME NEW s \in SUBSET DOMAIN list, s # {}, \A x \in s : s \ {x} \in T
      PROVE  s \in T
  <2>1. Max(s) \in s
    BY <1>3, MaxOf
  <2>2. PICK ag, S : ag = list[Max(s)] /\ S = it[s \ {Max(s)}]
    OBVIOUS
  <2>3. S \in SUBSET Outcomes(K, W) /\ ProviderIn(ag, K, W)
    BY <1>3, <2>1, <2>2 DEF ProvidersIn
  <2>4. \A o \in WithAttr(S, ag) : o \in Outcomes(K, W)
    BY <2>3, WithAttrIs
  <2> QED
    BY <1>1, <1>3, <2>2, <2>4
<1>4. SUBSET DOMAIN list \subseteq T
  <2>1. Len(list) \in Nat /\ DOMAIN list = 1..Len(list)
    BY DEF ProvidersIn
  <2>2. PICK S : S = DOMAIN list /\ IsFiniteSet(S)
    BY <2>1, FS_Interval
  <2> HIDE DEF T
  <2>3. \A s \in SUBSET S : s # {} /\ (\A x \in s : s \ {x} \in T) => s \in T
    BY <1>3, <2>2
  <2>4. SUBSET S \subseteq T
    BY <1>2, <2>2, <2>3, SubsetInduction
  <2> QED
    BY <2>2, <2>4
<1>5. DOMAIN list \in T
  BY <1>4
<1> QED
  BY <1>1, <1>5

(***************************************************************************)
(* With distinct keys the attribute at hand is set already, if at all,     *)
(* since the start, in all outcomes alike: all take a draw for it or none  *)
(* does.                                                                   *)
(***************************************************************************)
LEMMA AttrsDraws ==
    ASSUME NEW K, NEW W, NEW list, ProvidersIn(list, K, W),
           NEW start \in SUBSET Outcomes(K, W),
           DistinctKeys(list),
           NEW d0 \in Nat, Alike(start, d0),
           NEW keys, \A o \in start : DOMAIN o.attrs = keys
    PROVE  \E d \in Nat : Alike(WithAttrs(start, list), d)
<1>0. PICK it : WithAttrFolds(it, start, list)
  BY WithAttrFold
<1>1. /\ it[{}] = start
      /\ \A s \in SUBSET DOMAIN list : s # {} =>
            it[s] = WithAttr(it[s \ {Max(s)}], list[Max(s)])
      /\ WithAttrs(start, list) = it[DOMAIN list]
  BY <1>0 DEF WithAttrFolds
<1> DEFINE Ok(s) == /\ it[s] \subseteq Outcomes(K, W)
                    /\ \E d \in Nat : Alike(it[s], d)
                    /\ \A o \in it[s] :
                          /\ keys \subseteq DOMAIN o.attrs
                          /\ DOMAIN o.attrs \subseteq keys \cup {list[i].key : i \in s}
           T == {s \in SUBSET DOMAIN list : Ok(s)}
<1>2. {} \in T
  BY <1>1
<1>3. ASSUME NEW s \in SUBSET DOMAIN list, s # {}, \A x \in s : s \ {x} \in T
      PROVE  s \in T
  <2>1. PICK m, r, ag, S : m = Max(s) /\ r = s \ {m} /\ ag = list[m] /\ S = it[r]
    OBVIOUS
  <2>2. m \in s
    BY <1>3, <2>1, MaxOf
  <2>3. Ok(r)
    BY <1>3, <2>1, <2>2
  <2>4. S \in SUBSET Outcomes(K, W) /\ ProviderIn(ag, K, W)
    BY <2>1, <2>2, <2>3 DEF ProvidersIn
  <2>5. PICK d \in Nat : Alike(S, d)
    BY <2>1, <2>3
  <2>6. it[s] = WithAttr(S, ag)
    BY <1>1, <1>3, <2>1
  <2>7. ag.key \notin {list[i].key : i \in r}
    BY <2>1, <2>2 DEF DistinctKeys
  <2>8. ASSUME NEW p \in S
        PROVE  /\ ag.key \in DOMAIN p.attrs <=> ag.key \in keys
               /\ keys \subseteq DOMAIN p.attrs
               /\ DOMAIN p.attrs \subseteq keys \cup {list[i].key : i \in r}
               /\ p.draws = d
    BY <2>1, <2>3, <2>5, <2>7 DEF Alike
  <2> DEFINE e == IF ag.key \in keys THEN d ELSE d + 1
  <2>9. ASSUME NEW o \in it[s]
        PROVE  /\ o \in Outcomes(K, W) /\ o.draws = e
               /\ keys \subseteq DOMAIN o.attrs
               /\ DOMAIN o.attrs \subseteq keys \cup {list[i].key : i \in s}
    <3>1. o \in Outcomes(K, W) /\ \E p \in S : MadeFrom(p, ag, o)
      BY <2>4, <2>6, <2>9, WithAttrIs
    <3>2. PICK p \in S :
                /\ DOMAIN p.attrs \subseteq DOMAIN o.attrs
                /\ DOMAIN o.attrs \subseteq DOMAIN p.attrs \cup {ag.key}
                /\ o.draws = IF ag.key \in DOMAIN p.attrs THEN p.draws ELSE p.draws + 1
      BY <3>1 DEF MadeFrom
    <3>3. o.draws = e
      BY <2>8, <3>2
    <3>4. {list[i].key : i \in r} \cup {ag.key} \subseteq {list[i].key : i \in s}
      BY <2>1, <2>2
    <3> QED
      BY <2>8, <3>1, <3>2, <3>3, <3>4
  <2>10. e \in Nat
    OBVIOUS
  <2>11. Alike(it[s], e)
    BY <2>9 DEF Alike
  <2> HIDE DEF e
  <2>12. Ok(s)
    BY <2>9, <2>10, <2>11
  <2> QED
    BY <2>12
<1>4. SUBSET DOMAIN list \subseteq T
  <2>1. Len(list) \in Nat /\ DOMAIN list = 1..Len(list)
    BY DEF ProvidersIn
  <2>2. PICK S : S = DOMAIN list /\ IsFiniteSet(S)
    BY <2>1, FS_Interval
  <2> HIDE DEF T
  <2>3. \A s \in SUBSET S : s # {} /\ (\A x \in s : s \ {x} \in T) => s \in T
    BY <1>3, <2>2
  <2>4. SUBSET S \subseteq T
    BY <1>2, <2>2, <2>3, SubsetInduction
  <2> QED
    BY <2>2, <2>4
<1>5. DOMAIN list \in T
  BY <1>4
<1> QED
  BY <1>1, <1>5

(***************************************************************************)
(* The rare attributes take two draws each, whatever comes out.            *)
(***************************************************************************)
LEMMA RaresOutcomes ==
    ASSUME NEW K, NEW W, NEW list, ProvidersIn(list, K, W),
           NEW start \in SUBSET Outcomes(K, W)
    PROVE  /\ WithRares(start, list) \subseteq Outcomes(K, W)
           /\ (\E d \in Nat : Alike(start, d)) =>
                 \E d \in Nat : Alike(WithRares(start, list), d)
<1>0. PICK it : WithRareFolds(it, start, list)
  BY WithRareFold
<1>1. /\ it[{}] = start
      /\ \A s \in SUBSET DOMAIN list : s # {} =>
            it[s] = WithRare(it[s \ {Max(s)}], list[Max(s)])
      /\ WithRares(start, list) = it[DOMAIN list]
  BY <1>0 DEF WithRareFolds
<1> DEFINE Same(S) == \E d \in Nat : Alike(S, d)
           T == {s \in SUBSET DOMAIN list : /\ it[s] \subseteq Outcomes(K, W)
                                            /\ Same(start) => Same(it[s])}
<1>2. {} \in T
  BY <1>1
<1>3. ASSUME NEW s \in SUBSET DOMAIN list, s # {}, \A x \in s : s \ {x} \in T
      PROVE  s \in T
  <2>1. Max(s) \in s
    BY <1>3, MaxOf
  <2>2. PICK ra, S : ra = list[Max(s)] /\ S = it[s \ {Max(s)}]
    OBVIOUS
  <2>3. S \in SUBSET Outcomes(K, W) /\ ProviderIn(ra, K, W)
    BY <1>3, <2>1, <2>2 DEF ProvidersIn
  <2>4. \A o \in WithRare(S, ra) : o \in Outcomes(K, W) /\ \E p \in S : o.draws = p.draws + 2
    BY <2>3, WithRareIs
  <2>5. it[s] = WithRare(S, ra)
    BY <1>1, <1>3, <2>2
  <2>6. ASSUME Same(start) PROVE Same(it[s])
    <3>1. Same(S)
      BY <1>3, <2>1, <2>2, <2>6
    <3>2. PICK d \in Nat : Alike(S, d)
      BY <3>1
    <3>3. \A o \in it[s] : o.draws = d + 2
      BY <2>4, <2>5, <3>2 DEF Alike
    <3>4. d + 2 \in Nat /\ Alike(it[s], d + 2)
      BY <3>3 DEF Alike
    <3> QED
      BY <3>4
  <2> QED
    BY <2>4, <2>5, <2>6
<1>4. SUBSET DOMAIN list \subseteq T
  <2>1. Len(list) \in Nat /\ DOMAIN list = 1..Len(list)
    BY DEF ProvidersIn
  <2>2. PICK S : S = DOMAIN list /\ IsFiniteSet(S)
    BY <2>1, FS_Interval
  <2> HIDE DEF T
  <2>3. \A s \in SUBSET S : s # {} /\ (\A x \in s : s \ {x} \in T) => s \in T
    BY <1>3, <2>2
  <2>4. SUBSET S \subseteq T
    BY <1>2, <2>2, <2>3, SubsetInduction
  <2> QED
    BY <2>2, <2>4
<1>5. DOMAIN list \in T
  BY <1>4
<1> QED
  BY <1>1, <1>5

(***************************************************************************)
(* The arguments of a template are as many as it has generators.           *)
(***************************************************************************)
ArgsWith(args, gen) == {Append(a, v) : a \in args, v \in gen}

(***************************************************************************)
(* One generator more is one argument more.                                *)
(***************************************************************************)
LEMMA ArgsWithIs ==
    ASSUME NEW G, NEW S \in SUBSET Seq(G), NEW gen \in SUBSET G,
           NEW b \in ArgsWith(S, gen)
    PROVE  b \in Seq(G) /\ \E a \in S : Len(b) = Len(a) + 1
<1>1. PICK a \in S, v \in gen : b = Append(a, v)
  BY DEF ArgsWith
<1>2. a \in Seq(G) /\ v \in G
  OBVIOUS
<1>3. b \in Seq(G) /\ Len(b) = Len(a) + 1
  BY <1>1, <1>2
<1> QED
  BY <1>3

ArgFolds(it, tmpl) ==
    /\ it[{}] = {<<>>}
    /\ \A s \in SUBSET DOMAIN tmpl.args : s # {} =>
          it[s] = ArgsWith(it[s \ {Max(s)}], tmpl.args[Max(s)])
    /\ ArgValues(tmpl) = it[DOMAIN tmpl.args]

(***************************************************************************)
(* FoldLeft over the generators takes them one by one.                     *)
(***************************************************************************)
LEMMA ArgFold ==
    ASSUME NEW tmpl, tmpl.args \in Seq({tmpl.args[i] : i \in DOMAIN tmpl.args})
    PROVE  \E it : ArgFolds(it, tmpl)
<1> DEFINE list == tmpl.args
           n == Len(list)
           G == UNION {list[i] : i \in DOMAIN list}
           V == SUBSET Seq(G)
           op == [iv \in (1..n) \X V |-> ArgsWith(iv[2], list[iv[1]])]
           Def(it) == [s \in SUBSET DOMAIN list |->
                         IF s = {} THEN {<<>>}
                         ELSE ArgsWith(it[s \ {Max(s)}], list[Max(s)])]
<1>1. n \in Nat /\ DOMAIN list = 1..n
  OBVIOUS
<1>2. \A i \in 1..n, v \in V : ArgsWith(v, list[i]) \in V
  <2> SUFFICES ASSUME NEW i \in 1..n, NEW v \in V, NEW b \in ArgsWith(v, list[i])
               PROVE  b \in Seq(G)
    OBVIOUS
  <2>1. PICK gen : gen = list[i] /\ gen \in SUBSET G
    BY <1>1
  <2> HIDE DEF G
  <2> QED
    BY <2>1, ArgsWithIs
<1>3. op \in [(1..n) \X V -> V]
  <2> DEFINE val(iv) == ArgsWith(iv[2], list[iv[1]])
  <2>1. \A iv \in (1..n) \X V : val(iv) \in V
    BY <1>2
  <2> HIDE DEF val, V
  <2>2. [iv \in (1..n) \X V |-> val(iv)] \in [(1..n) \X V -> V]
    BY <2>1
  <2> QED
    BY <2>2 DEF val
<1>4. \A i \in 1..n, v \in V : op[<<i, v>>] = ArgsWith(v, list[i])
  OBVIOUS
<1>0. {<<>>} \in V
  OBVIOUS
<1> HIDE DEF n, V, op
<1>5. PICK it \in [SUBSET (1..n) -> V] : Folds(it, n, {<<>>}, op)
  BY <1>0, <1>1, <1>3, FoldExists
<1>6. ASSUME NEW s \in SUBSET (1..n), s # {}
      PROVE  it[s] = ArgsWith(it[s \ {Max(s)}], list[Max(s)])
  <2>1. Max(s) \in 1..n /\ it[s \ {Max(s)}] \in V
    BY <1>1, <1>6, MaxIn
  <2>2. it[s] = op[<<Max(s), it[s \ {Max(s)}]>>]
    BY <1>5, <1>6 DEF Folds
  <2> QED
    BY <1>4, <2>1, <2>2
<1>7. it = Def(it)
  <2>1. it = [s \in SUBSET DOMAIN list |-> it[s]] /\ it[{}] = {<<>>}
    BY <1>1, <1>5 DEF Folds
  <2>2. \A s \in SUBSET DOMAIN list :
           it[s] = IF s = {} THEN {<<>>} ELSE ArgsWith(it[s \ {Max(s)}], list[Max(s)])
    BY <1>1, <1>6, <2>1
  <2> QED
    BY <2>1, <2>2
<1> DEFINE iter == CHOOSE g : g = Def(g)
<1>8. iter = Def(iter)
  <2> HIDE DEF Def
  <2> QED
    BY <1>7
<1>9. ArgValues(tmpl) = iter[DOMAIN list]
  BY DEF ArgValues, FoldLeft, MapThenFoldSet, ArgsWith
<1> HIDE DEF iter
<1>10. /\ iter[{}] = {<<>>}
       /\ \A s \in SUBSET DOMAIN list : s # {} =>
             iter[s] = ArgsWith(iter[s \ {Max(s)}], list[Max(s)])
  BY <1>8
<1> QED
  BY <1>9, <1>10 DEF ArgFolds

(***************************************************************************)
(* By induction over the generators.                                       *)
(***************************************************************************)
LEMMA ArgValuesLength ==
    ASSUME NEW tmpl, tmpl.args \in Seq({tmpl.args[i] : i \in DOMAIN tmpl.args})
    PROVE  \A args \in ArgValues(tmpl) : DOMAIN args = 1..Len(tmpl.args)
<1> DEFINE list == tmpl.args
           G == UNION {list[i] : i \in DOMAIN list}
<1>0. PICK it : ArgFolds(it, tmpl)
  BY ArgFold
<1>1. /\ it[{}] = {<<>>}
      /\ \A s \in SUBSET DOMAIN list : s # {} =>
            it[s] = ArgsWith(it[s \ {Max(s)}], list[Max(s)])
      /\ ArgValues(tmpl) = it[DOMAIN list]
  BY <1>0 DEF ArgFolds
<1>2. Len(list) \in Nat /\ DOMAIN list = 1..Len(list)
  OBVIOUS
<1>3. PICK D : D = DOMAIN list /\ IsFiniteSet(D) /\ Cardinality(D) = Len(list)
  <2>1. PICK D, n : D = 1..n /\ n = Len(list)
    OBVIOUS
  <2>2. n \in Nat /\ 1 \in Int /\ n \in Int
    BY <1>2, <2>1
  <2>3. IsFiniteSet(D) /\ Cardinality(D) = IF 1 > n THEN 0 ELSE n - 1 + 1
    BY <2>1, <2>2, FS_Interval
  <2>4. Cardinality(D) = n
    BY <2>2, <2>3
  <2> QED
    BY <1>2, <2>1, <2>3, <2>4
<1>4. \A i \in D : list[i] \in SUBSET G
  BY <1>3
<1> HIDE DEF list, G
<1> DEFINE Ok(s) == /\ it[s] \subseteq Seq(G)
                    /\ \A a \in it[s] : Len(a) = Cardinality(s)
           T == {s \in SUBSET D : Ok(s)}
<1>5. {} \in T
  <2>1. <<>> \in Seq(G) /\ Len(<<>>) = 0 /\ Cardinality({}) = 0
    BY FS_EmptySet
  <2>2. \A a \in it[{}] : a \in Seq(G) /\ Len(a) = Cardinality({})
    BY <1>1, <2>1
  <2> QED
    BY <2>2
<1>6. ASSUME NEW s \in SUBSET D, s # {}, \A x \in s : s \ {x} \in T
      PROVE  s \in T
  <2>1. PICK m, r, gen, S : m = Max(s) /\ r = s \ {m} /\ gen = list[m] /\ S = it[r]
    OBVIOUS
  <2>2. m \in s
    BY <1>2, <1>3, <1>6, <2>1, MaxIn
  <2>3. Ok(r) /\ gen \in SUBSET G
    BY <1>4, <1>6, <2>1, <2>2
  <2>4. it[s] = ArgsWith(S, gen)
    BY <1>1, <1>3, <1>6, <2>1
  <2>5. IsFiniteSet(s) /\ Cardinality(s) = Cardinality(r) + 1
    <3>1. IsFiniteSet(s) /\ IsFiniteSet(r)
      BY <1>3, <2>1, FS_Subset
    <3>2. Cardinality(r) = Cardinality(s) - 1 /\ Cardinality(s) \in Nat
      BY <2>1, <2>2, <3>1, FS_RemoveElement, FS_CardinalityType
    <3> QED
      BY <3>1, <3>2
  <2>6. ASSUME NEW b \in it[s] PROVE b \in Seq(G) /\ Len(b) = Cardinality(s)
    <3>0. S \in SUBSET Seq(G) /\ b \in ArgsWith(S, gen)
      BY <2>1, <2>3, <2>4, <2>6
    <3>1. b \in Seq(G) /\ \E a \in S : Len(b) = Len(a) + 1
      <4>1. PICK a \in S, v \in gen : b = Append(a, v)
        BY <3>0 DEF ArgsWith
      <4>2. a \in Seq(G) /\ v \in G
        BY <2>3, <3>0
      <4>3. b \in Seq(G) /\ Len(b) = Len(a) + 1
        BY <4>1, <4>2
      <4> QED
        BY <4>3
    <3> QED
      BY <2>1, <2>3, <2>5, <3>1
  <2> QED
    BY <2>6
<1>7. SUBSET D \subseteq T
  <2> HIDE DEF T
  <2> QED
    BY <1>3, <1>5, <1>6, SubsetInduction
<1>8. D \in T
  BY <1>7
<1>9. \A a \in it[D] : a \in Seq(G) /\ Len(a) = Len(list)
  BY <1>3, <1>8
<1>10. \A a \in ArgValues(tmpl) : DOMAIN a = 1..Len(list)
  BY <1>1, <1>3, <1>9
<1> QED
  BY <1>10 DEF list

(***************************************************************************)
(* All that a template can make.                                           *)
(***************************************************************************)
Start(t) ==
    LET tmpl == Profile.messages[t] IN
    {[attrs |-> FromArgs(Profile, tmpl, NoAttrs, args), draws |-> Len(tmpl.args)] :
        args \in ArgValues(tmpl)}
OwnKeys(t) ==
    LET tmpl == Profile.messages[t] IN
    DOMAIN tmpl.fromArg
    \cup {tmpl.attrs[i].key : i \in DOMAIN tmpl.attrs}
    \cup {tmpl.rare[i].key : i \in DOMAIN tmpl.rare}
OwnValues(t) ==
    LET tmpl == Profile.messages[t] IN
    (UNION {{o.attrs[k] : k \in DOMAIN o.attrs} : o \in Start(t)})
    \cup (UNION {tmpl.attrs[i].values : i \in DOMAIN tmpl.attrs})
    \cup (UNION {tmpl.rare[i].values : i \in DOMAIN tmpl.rare})

(***************************************************************************)
(* The attributes and rare attributes of a template, and what its          *)
(* arguments alone lead to: the same keys and draws, whatever the          *)
(* arguments are.                                                          *)
(***************************************************************************)
LEMMA Prepared ==
    ASSUME NEW t \in DOMAIN Profile.messages
    PROVE  /\ ProvidersIn(Profile.messages[t].attrs, OwnKeys(t), OwnValues(t))
           /\ ProvidersIn(Profile.messages[t].rare, OwnKeys(t), OwnValues(t))
           /\ Start(t) \in SUBSET Outcomes(OwnKeys(t), OwnValues(t))
           /\ Len(Profile.messages[t].args) \in Nat
           /\ Alike(Start(t), Len(Profile.messages[t].args))
           /\ \E keys : \A o \in Start(t) : DOMAIN o.attrs = keys
<1>1. PICK tmpl : tmpl = Profile.messages[t]
  OBVIOUS
<1>2. /\ tmpl.args \in Seq({tmpl.args[i] : i \in DOMAIN tmpl.args})
      /\ tmpl.attrs \in Seq({tmpl.attrs[i] : i \in DOMAIN tmpl.attrs})
      /\ tmpl.rare \in Seq({tmpl.rare[i] : i \in DOMAIN tmpl.rare})
  BY <1>1, TemplateAssumption
<1>3. Len(tmpl.args) \in Nat
  BY <1>2
<1>0. PICK K, W : K = OwnKeys(t) /\ W = OwnValues(t)
  OBVIOUS
<1>14. /\ DOMAIN tmpl.fromArg \subseteq K
       /\ \A i \in DOMAIN tmpl.attrs : tmpl.attrs[i].key \in K
       /\ \A i \in DOMAIN tmpl.rare : tmpl.rare[i].key \in K
  BY <1>0, <1>1 DEF OwnKeys
<1>15. /\ \A o \in Start(t) : \A k \in DOMAIN o.attrs : o.attrs[k] \in W
       /\ \A i \in DOMAIN tmpl.attrs : tmpl.attrs[i].values \subseteq W
       /\ \A i \in DOMAIN tmpl.rare : tmpl.rare[i].values \subseteq W
  <2>1. PICK St : St = Start(t)
    OBVIOUS
  <2>2. W = (UNION {{o.attrs[k] : k \in DOMAIN o.attrs} : o \in St})
            \cup (UNION {tmpl.attrs[i].values : i \in DOMAIN tmpl.attrs})
            \cup (UNION {tmpl.rare[i].values : i \in DOMAIN tmpl.rare})
    BY <1>0, <1>1, <2>1 DEF OwnValues
  <2>3. ASSUME NEW o \in St, NEW k \in DOMAIN o.attrs PROVE o.attrs[k] \in W
    <3>1. o.attrs[k] \in {o.attrs[k2] : k2 \in DOMAIN o.attrs}
      OBVIOUS
    <3> QED
      BY <2>2, <3>1
  <2>4. ASSUME NEW i \in DOMAIN tmpl.attrs PROVE tmpl.attrs[i].values \subseteq W
    BY <2>2
  <2>5. ASSUME NEW i \in DOMAIN tmpl.rare PROVE tmpl.rare[i].values \subseteq W
    BY <2>2
  <2> QED
    BY <2>1, <2>3, <2>4, <2>5
<1>4. ProvidersIn(tmpl.attrs, K, W)
  BY <1>2, <1>14, <1>15 DEF ProvidersIn, ProviderIn
<1>5. ProvidersIn(tmpl.rare, K, W)
  BY <1>2, <1>14, <1>15 DEF ProvidersIn, ProviderIn
<1> DEFINE keys == {k \in DOMAIN tmpl.fromArg : tmpl.fromArg[k] \in 1..Len(tmpl.args)}
<1>6. ASSUME NEW o \in Start(t)
      PROVE  /\ o = [attrs |-> o.attrs, draws |-> o.draws]
             /\ o.attrs = [k \in DOMAIN o.attrs |-> o.attrs[k]]
             /\ DOMAIN o.attrs = keys
             /\ o.draws = Len(tmpl.args)
  <2>1. PICK args \in ArgValues(tmpl) :
             o = [attrs |-> FromArgs(Profile, tmpl, NoAttrs, args), draws |-> Len(tmpl.args)]
    BY <1>1, <1>6 DEF Start
  <2>2. DOMAIN args = 1..Len(tmpl.args)
    BY <1>2, <2>1, ArgValuesLength
  <2>3. PICK a : a = FromArgs(Profile, tmpl, NoAttrs, args)
    OBVIOUS
  <2>4. a = [k \in DOMAIN a |-> a[k]] /\ DOMAIN a = keys
    BY <2>2, <2>3 DEF FromArgs, PutAll, NoAttrs
  <2> QED
    BY <2>1, <2>3, <2>4
<1>7. ASSUME NEW o \in Start(t) PROVE o \in Outcomes(K, W)
  <2>1. PICK a : a = o.attrs
    OBVIOUS
  <2>2. a = [k \in DOMAIN a |-> a[k]] /\ DOMAIN a = keys
    BY <1>6, <2>1
  <2>3. keys \subseteq K
    BY <1>14
  <2>4. \A k \in DOMAIN a : a[k] \in W
    BY <1>15, <2>1
  <2>5. a \in AttrsIn(K, W)
    BY <2>2, <2>3, <2>4, AttrsInIs
  <2>6. o = [attrs |-> a, draws |-> Len(tmpl.args)]
    BY <1>6, <2>1
  <2> QED
    BY <1>3, <2>5, <2>6 DEF Outcomes
<1>8. Alike(Start(t), Len(tmpl.args)) /\ \A o \in Start(t) : DOMAIN o.attrs = keys
  BY <1>6 DEF Alike
<1> QED
  BY <1>0, <1>1, <1>3, <1>4, <1>5, <1>7, <1>8

(***************************************************************************)
(* The long tail adds the keys of a slot, and a draw.                      *)
(***************************************************************************)
Attributed(t) ==
    WithRares(WithAttrs(Start(t), Profile.messages[t].attrs), Profile.messages[t].rare)

(***************************************************************************)
(* Generation in its parts.                                                *)
(***************************************************************************)
LEMMA GeneratedIs ==
    ASSUME NEW t \in DOMAIN Profile.messages
    PROVE  Generated(Profile, t, NoAttrs) = EmitLongTail(Profile.longTail, Attributed(t))
  BY DEF Generated, Cleared, Attributed, Start, WithAttrs, WithRares

(***************************************************************************)
(* An outcome is one without a long tail, or has a slot added to it.       *)
(***************************************************************************)
LEMMA LongTailIs ==
    ASSUME NEW t \in DOMAIN Profile.messages, NEW o \in Generated(Profile, t, NoAttrs)
    PROVE  \/ Profile.longTail = {} /\ o \in Attributed(t)
           \/ \E slot \in Profile.longTail, p \in Attributed(t) :
                 /\ DOMAIN o.attrs = DOMAIN p.attrs \cup DOMAIN slot
                 /\ o.draws = p.draws + 1
<1>1. PICK S : S = Attributed(t) /\ o \in EmitLongTail(Profile.longTail, S)
  BY GeneratedIs
<1>2. CASE Profile.longTail = {}
  BY <1>1, <1>2 DEF EmitLongTail
<1>3. CASE Profile.longTail # {}
  <2>1. PICK slot \in Profile.longTail, p \in S :
             o = [attrs |-> PutAll(p.attrs, slot), draws |-> p.draws + 1]
    BY <1>1, <1>3 DEF EmitLongTail
  <2>2. DOMAIN PutAll(p.attrs, slot) = DOMAIN p.attrs \cup DOMAIN slot
    BY DEF PutAll
  <2>3. DOMAIN o.attrs = DOMAIN p.attrs \cup DOMAIN slot /\ o.draws = p.draws + 1
    BY <2>1, <2>2
  <2> QED
    BY <1>1, <2>3
<1> QED
  BY <1>2, <1>3

(***************************************************************************)
(* Before the long tail, the keys are those of the template.               *)
(***************************************************************************)
LEMMA AttributedIs ==
    ASSUME NEW t \in DOMAIN Profile.messages
    PROVE  Attributed(t) \subseteq Outcomes(OwnKeys(t), OwnValues(t))
<1>1. PICK K, W, attrs, rare, S :
         /\ K = OwnKeys(t) /\ W = OwnValues(t) /\ S = Start(t)
         /\ attrs = Profile.messages[t].attrs /\ rare = Profile.messages[t].rare
  OBVIOUS
<1>2. ProvidersIn(attrs, K, W) /\ ProvidersIn(rare, K, W) /\ S \in SUBSET Outcomes(K, W)
  BY <1>1, Prepared
<1>3. PICK S2 : S2 = WithAttrs(S, attrs) /\ S2 \in SUBSET Outcomes(K, W)
  BY <1>2, AttrsOutcomes
<1>4. WithRares(S2, rare) \subseteq Outcomes(K, W)
  BY <1>2, <1>3, RaresOutcomes
<1> QED
  BY <1>1, <1>3, <1>4 DEF Attributed

(***************************************************************************)
(* A template makes attributes under its own keys and those of the long    *)
(* tail.                                                                   *)
(***************************************************************************)
LEMMA GeneratedKeys ==
    ASSUME NEW t \in DOMAIN Profile.messages, NEW o \in Generated(Profile, t, NoAttrs)
    PROVE  DOMAIN o.attrs \subseteq TemplateKeys(t) /\ o.draws \in Nat
<1>1. PICK K, W : K = OwnKeys(t) /\ W = OwnValues(t)
  OBVIOUS
<1>2. ASSUME NEW p \in Attributed(t)
      PROVE  DOMAIN p.attrs \subseteq K /\ p.draws \in Nat
  <2>1. p \in Outcomes(K, W)
    BY <1>1, AttributedIs
  <2>2. p.attrs \in AttrsIn(K, W) /\ p.draws \in Nat
    BY <2>1 DEF Outcomes
  <2> QED
    BY <2>2, AttrsInIs
<1>3. K \subseteq TemplateKeys(t)
      /\ \A slot \in Profile.longTail : DOMAIN slot \subseteq TemplateKeys(t)
  BY <1>1 DEF OwnKeys, TemplateKeys
<1>4. CASE Profile.longTail = {} /\ o \in Attributed(t)
  BY <1>2, <1>3, <1>4
<1>5. ASSUME NEW slot \in Profile.longTail, NEW p \in Attributed(t),
             DOMAIN o.attrs = DOMAIN p.attrs \cup DOMAIN slot,
             o.draws = p.draws + 1
      PROVE  DOMAIN o.attrs \subseteq TemplateKeys(t) /\ o.draws \in Nat
  BY <1>2, <1>3, <1>5
<1> QED
  BY <1>4, <1>5, LongTailIs

(***************************************************************************)
(* When no two of its attributes share a key, all that it makes takes the  *)
(* same number of draws.                                                   *)
(***************************************************************************)
LEMMA GeneratedDraws ==
    ASSUME NEW t \in DOMAIN Profile.messages, DistinctKeys(Profile.messages[t].attrs)
    PROVE  \E d \in Nat : Alike(Generated(Profile, t, NoAttrs), d)
<1>1. PICK K, W, attrs, rare, S, d0 :
         /\ K = OwnKeys(t) /\ W = OwnValues(t) /\ S = Start(t)
         /\ attrs = Profile.messages[t].attrs /\ rare = Profile.messages[t].rare
         /\ d0 = Len(Profile.messages[t].args)
  OBVIOUS
<1>2. /\ ProvidersIn(attrs, K, W) /\ ProvidersIn(rare, K, W) /\ S \in SUBSET Outcomes(K, W)
      /\ DistinctKeys(attrs) /\ d0 \in Nat /\ Alike(S, d0)
  BY <1>1, Prepared
<1>3. PICK keys : \A o \in S : DOMAIN o.attrs = keys
  BY <1>1, Prepared
<1>4. PICK S2 : S2 = WithAttrs(S, attrs)
  OBVIOUS
<1>5. S2 \in SUBSET Outcomes(K, W)
  BY <1>2, <1>4, AttrsOutcomes
<1>6. \E d \in Nat : Alike(S2, d)
  BY <1>2, <1>3, <1>4, AttrsDraws
<1>7. \E d \in Nat : Alike(WithRares(S2, rare), d)
  BY <1>2, <1>5, <1>6, RaresOutcomes
<1>8. PICK d \in Nat : Alike(Attributed(t), d)
  BY <1>1, <1>4, <1>7 DEF Attributed
<1>9. CASE Profile.longTail = {}
  <2>1. Alike(Generated(Profile, t, NoAttrs), d)
    BY <1>8, <1>9, LongTailIs DEF Alike
  <2> QED
    BY <2>1
<1>10. CASE Profile.longTail # {}
  <2>1. \A o \in Generated(Profile, t, NoAttrs) : o.draws = d + 1
    BY <1>8, <1>10, LongTailIs DEF Alike
  <2>2. d + 1 \in Nat /\ Alike(Generated(Profile, t, NoAttrs), d + 1)
    BY <2>1 DEF Alike
  <2> QED
    BY <2>2
<1> QED
  BY <1>9, <1>10
-----------------------------------------------------------------------------
(***************************************************************************)
(* Own attributes.  While its needles are rolled, and when it is finished, *)
(* a record has the keys of its template and of the needle that replaced   *)
(* it; until one has, the record carries no needle.                        *)
(***************************************************************************)
Owns(r) == DOMAIN r.attrs \subseteq TemplateKeys(r.source) \cup NeedleKeys(r.needle)

OwnInv ==
    \A g \in Goroutines :
        /\ pc[g] = "needles" => Owns(lr[g]) /\ (~replaced[g] => lr[g].needle = 0)
        /\ \A i \in DOMAIN batch[g] : Owns(batch[g][i])

LEMMA OwnInit == Init => OwnInv
<1> SUFFICES ASSUME Init PROVE OwnInv
  OBVIOUS
<1>1. \A g \in Goroutines : pc[g] # "needles" /\ batch[g] = <<>>
  BY DEF Init
<1> QED
  BY <1>1 DEF OwnInv

(***************************************************************************)
(* A goroutine's step that leaves its batch alone keeps the invariant when *)
(* its record does, if it is at the needles.                               *)
(***************************************************************************)
LEMMA OwnKept ==
    ASSUME OwnInv, NEW g \in Goroutines,
           \A h \in Goroutines \ {g} :
               /\ pc'[h] = pc[h] /\ lr'[h] = lr[h] /\ replaced'[h] = replaced[h]
               /\ batch'[h] = batch[h],
           \A i \in DOMAIN batch'[g] : Owns(batch'[g][i]),
           pc'[g] = "needles" => Owns(lr'[g]) /\ (~replaced'[g] => lr'[g].needle = 0)
    PROVE  OwnInv'
<1>1. ASSUME NEW h \in Goroutines, h # g
      PROVE  /\ pc'[h] = "needles" => Owns(lr'[h]) /\ (~replaced'[h] => lr'[h].needle = 0)
             /\ \A i \in DOMAIN batch'[h] : Owns(batch'[h][i])
  BY <1>1 DEF OwnInv
<1>2. ASSUME NEW h \in Goroutines
      PROVE  /\ pc'[h] = "needles" => Owns(lr'[h]) /\ (~replaced'[h] => lr'[h].needle = 0)
             /\ \A i \in DOMAIN batch'[h] : Owns(batch'[h][i])
  BY <1>1
<1> QED
  BY <1>2 DEF OwnInv, Owns

LEMMA OwnNext == ShapeInv /\ TypeOK /\ OwnInv /\ [Next]_vars => OwnInv'
<1> SUFFICES ASSUME ShapeInv, TypeOK, OwnInv, [Next]_vars PROVE OwnInv'
  OBVIOUS
<1>0. pc = [g \in Goroutines |-> pc[g]] /\ replaced = [g \in Goroutines |-> replaced[g]]
  BY DEF ShapeInv, TypeOK
<1>1. ASSUME NEW g \in Goroutines, Generate(g) PROVE OwnInv'
  <2>0. PICK t \in DOMAIN Profile.messages : \E o \in Generated(Profile, t, NoAttrs) :
             lr'[g].source = t /\ lr'[g].needle = 0 /\ lr'[g].attrs = Present(o.attrs)
    BY <1>1, GenerateStep
  <2>1. PICK o \in Generated(Profile, t, NoAttrs) :
             lr'[g].source = t /\ lr'[g].needle = 0 /\ lr'[g].attrs = Present(o.attrs)
    BY <2>0
  <2>2. DOMAIN o.attrs \subseteq TemplateKeys(t)
    BY GeneratedKeys
  <2>3. DOMAIN Present(o.attrs) \subseteq DOMAIN o.attrs
    BY DEF Present
  <2>4. Owns(lr'[g]) /\ lr'[g].needle = 0
    BY <2>1, <2>2, <2>3 DEF Owns
  <2>5. /\ batch' = batch
        /\ \A h \in Goroutines \ {g} :
              pc'[h] = pc[h] /\ lr'[h] = lr[h] /\ replaced'[h] = replaced[h]
    BY <1>0, <1>1, GenerateStep
  <2>6. \A i \in DOMAIN batch'[g] : Owns(batch'[g][i])
    BY <2>5 DEF OwnInv
  <2> QED
    BY <2>4, <2>5, <2>6, OwnKept
<1>2. ASSUME NEW g \in Goroutines, RollNeedle(g) PROVE OwnInv'
  <2>1. /\ pc[g] = "needles" /\ lr'[g].source = lr[g].source
        /\ \A h \in Goroutines \ {g} : lr'[h] = lr[h]
        /\ UNCHANGED <<pc, batch>>
    BY <1>2, RollStep
  <2>2. Owns(lr[g]) /\ (~replaced[g] => lr[g].needle = 0)
    BY <2>1 DEF OwnInv
  <2>3. CASE /\ ~replaced[g]
             /\ lr'[g].needle = nextNeedle[g]
             /\ lr'[g].attrs = PutAll(Put(lr[g].attrs, "needle.name",
                                          Needles[nextNeedle[g]].name),
                                      Needles[nextNeedle[g]].attrs)
             /\ replaced' = [replaced EXCEPT ![g] = TRUE]
    <3>1. nextNeedle[g] # 0
      BY DEF TypeOK
    <3>2. DOMAIN lr'[g].attrs = DOMAIN lr[g].attrs \cup {"needle.name"}
                                \cup DOMAIN Needles[nextNeedle[g]].attrs
      BY <2>3 DEF PutAll, Put
    <3>3. DOMAIN lr[g].attrs \subseteq TemplateKeys(lr[g].source)
      BY <2>2, <2>3 DEF Owns, NeedleKeys
    <3>4. NeedleKeys(lr'[g].needle) = {"needle.name"} \cup DOMAIN Needles[nextNeedle[g]].attrs
      BY <2>3, <3>1 DEF NeedleKeys
    <3>5. Owns(lr'[g])
      BY <2>1, <3>2, <3>3, <3>4 DEF Owns
    <3>6. replaced'[g] /\ \A h \in Goroutines \ {g} : replaced'[h] = replaced[h]
      BY <1>0, <2>3
    <3>7. \A i \in DOMAIN batch'[g] : Owns(batch'[g][i])
      BY <2>1 DEF OwnInv
    <3> QED
      BY <2>1, <3>5, <3>6, <3>7, OwnKept
  <2>4. CASE /\ lr'[g].needle = lr[g].needle /\ lr'[g].attrs = lr[g].attrs
             /\ UNCHANGED replaced
    <3>1. Owns(lr'[g]) /\ (~replaced'[g] => lr'[g].needle = 0)
      BY <2>1, <2>2, <2>4 DEF Owns
    <3>2. \A i \in DOMAIN batch'[g] : Owns(batch'[g][i])
      BY <2>1 DEF OwnInv
    <3> QED
      BY <2>1, <2>4, <3>1, <3>2, OwnKept
  <2> QED
    BY <1>2, <2>3, <2>4, RollStep
<1>3. ASSUME NEW g \in Goroutines, FinishRecord(g) PROVE OwnInv'
  <2>1. PICK k : /\ DOMAIN batch'[g] = DOMAIN batch[g] \cup {k}
                 /\ \A i \in DOMAIN batch[g] : batch'[g][i] = batch[g][i]
                 /\ batch'[g][k] = [lr[g] EXCEPT !.draws = @ + TraceDraws]
    BY <1>3, FinishBatch
  <2>2. /\ pc[g] = "needles"
        /\ \A h \in Goroutines \ {g} : batch'[h] = batch[h]
        /\ UNCHANGED <<lr, replaced>>
    BY <1>3, FinishStep
  <2>3. PICK next : pc' = [pc EXCEPT ![g] = IF next > Len(Instances[g])
                                            THEN "consume" ELSE "generate"]
    BY <1>3 DEF FinishRecord
  <2>4. pc'[g] # "needles" /\ \A h \in Goroutines \ {g} : pc'[h] = pc[h]
    BY <1>0, <2>3
  <2>5. Owns(batch'[g][k])
    <3>1. DOMAIN lr[g] = RecordFields /\ Owns(lr[g])
      BY <2>2 DEF ShapeInv, OwnInv
    <3>2. PICK r : r = batch'[g][k]
      OBVIOUS
    <3>3. r.source = lr[g].source /\ r.needle = lr[g].needle /\ r.attrs = lr[g].attrs
      BY <2>1, <3>1, <3>2 DEF RecordFields
    <3> QED
      BY <3>1, <3>2, <3>3 DEF Owns
  <2>6. \A i \in DOMAIN batch'[g] : Owns(batch'[g][i])
    BY <2>1, <2>5 DEF OwnInv
  <2> QED
    BY <2>2, <2>4, <2>6, OwnKept
<1>4. ASSUME NEW g \in Goroutines, Consume(g) PROVE OwnInv'
  <2>1. /\ pc'[g] # "needles" /\ UNCHANGED <<lr, replaced, batch>>
        /\ \A h \in Goroutines \ {g} : pc'[h] = pc[h]
    BY <1>0, <1>4 DEF Consume
  <2>2. \A i \in DOMAIN batch'[g] : Owns(batch'[g][i])
    BY <2>1 DEF OwnInv
  <2> QED
    BY <2>1, <2>2, OwnKept
<1>5. CASE UNCHANGED vars
  BY <1>5 DEF vars, OwnInv, Owns
<1> QED
  BY <1>1, <1>2, <1>3, <1>4, <1>5 DEF Next, Terminated

(***************************************************************************)
(* The buffer of attributes is cleared before each record and a needle     *)
(* replaces at most once (loggen.go, GenerateFromPreparedInto; receiver.go,*)
(* appendInstanceLogs): no record has an attribute of another one.         *)
(***************************************************************************)
THEOREM OwnAttributesOnlyCorrect == Spec => []OwnAttributesOnly
<1>1. OwnInv => OwnAttributesOnly
  <2> SUFFICES ASSUME OwnInv, NEW r \in AllMade PROVE Owns(The(r))
    BY DEF OwnAttributesOnly, Owns
  <2>1. PICK g \in Goroutines : \E i \in DOMAIN batch[g] : r = <<g, i>>
    BY DEF AllMade, Made
  <2> QED
    BY <2>1 DEF OwnInv, The
<1>2. Spec => []TypeOK
  BY AppendTypeCorrect
<1> QED
  BY <1>1, <1>2, ShapeInit, ShapeNext, OwnInit, OwnNext, PTL DEF Spec
-----------------------------------------------------------------------------
(***************************************************************************)
(* Draws.  A record took those of its template, three for jitter, severity *)
(* and template, and one for each needle rolled so far; the trace context  *)
(* takes the last two.                                                     *)
(***************************************************************************)
DrawsOf(t) == CHOOSE d \in Nat : Alike(Generated(Profile, t, NoAttrs), d)
Drawn(r, more) ==
    /\ r.source \in DOMAIN Profile.messages
    /\ r.draws = DrawsOf(r.source) + 3 + more

DrawsInv ==
    \A g \in Goroutines :
        /\ pc[g] = "needles" => Drawn(lr[g], nextNeedle[g] - 1)
        /\ \A i \in DOMAIN batch[g] : Drawn(batch[g][i], Len(Needles) + TraceDraws)

(***************************************************************************)
(* No template has two attributes of the same key: their second would be   *)
(* drawn or skipped depending on the first.  The built-in profiles have    *)
(* none (AppProfiles!KeySetOnce).                                          *)
(***************************************************************************)
KeysOnce == \A t \in DOMAIN Profile.messages : DistinctKeys(Profile.messages[t].attrs)

LEMMA DrawsInit == Init => DrawsInv
<1> SUFFICES ASSUME Init PROVE DrawsInv
  OBVIOUS
<1>1. \A g \in Goroutines : pc[g] # "needles" /\ batch[g] = <<>>
  BY DEF Init
<1> QED
  BY <1>1 DEF DrawsInv

(***************************************************************************)
(* A step that keeps the invariant of one goroutine, and what the others   *)
(* have, keeps it.                                                         *)
(***************************************************************************)
LEMMA DrawsKept ==
    ASSUME DrawsInv, NEW g \in Goroutines,
           \A h \in Goroutines \ {g} :
               /\ pc'[h] = pc[h] /\ lr'[h] = lr[h] /\ nextNeedle'[h] = nextNeedle[h]
               /\ batch'[h] = batch[h],
           \A i \in DOMAIN batch'[g] : Drawn(batch'[g][i], Len(Needles) + TraceDraws),
           pc'[g] = "needles" => Drawn(lr'[g], nextNeedle'[g] - 1)
    PROVE  DrawsInv'
<1>1. ASSUME NEW h \in Goroutines, h # g
      PROVE  /\ pc'[h] = "needles" => Drawn(lr'[h], nextNeedle'[h] - 1)
             /\ \A i \in DOMAIN batch'[h] : Drawn(batch'[h][i], Len(Needles) + TraceDraws)
  BY <1>1 DEF DrawsInv
<1>2. ASSUME NEW h \in Goroutines
      PROVE  /\ pc'[h] = "needles" => Drawn(lr'[h], nextNeedle'[h] - 1)
             /\ \A i \in DOMAIN batch'[h] : Drawn(batch'[h][i], Len(Needles) + TraceDraws)
  BY <1>1
<1> QED
  BY <1>2 DEF DrawsInv, Drawn

LEMMA DrawsNext ==
    KeysOnce /\ ShapeInv /\ TypeOK /\ DrawsInv /\ [Next]_vars => DrawsInv'
<1> SUFFICES ASSUME KeysOnce, ShapeInv, TypeOK, DrawsInv, [Next]_vars PROVE DrawsInv'
  OBVIOUS
<1>0. /\ pc = [g \in Goroutines |-> pc[g]]
      /\ nextNeedle = [g \in Goroutines |-> nextNeedle[g]]
      /\ \A g \in Goroutines : nextNeedle[g] \in 1..Len(Needles) + 1
      /\ Len(Needles) \in Nat
  BY Lengths DEF ShapeInv, TypeOK
<1>9. \A t \in DOMAIN Profile.messages :
         DrawsOf(t) \in Nat /\ Alike(Generated(Profile, t, NoAttrs), DrawsOf(t))
  BY GeneratedDraws DEF KeysOnce, DrawsOf
<1>1. ASSUME NEW g \in Goroutines, Generate(g) PROVE DrawsInv'
  <2>0. PICK t \in DOMAIN Profile.messages : \E o \in Generated(Profile, t, NoAttrs) :
             lr'[g].source = t /\ lr'[g].draws = o.draws + 3
    BY <1>1, GenerateStep
  <2>1. PICK o \in Generated(Profile, t, NoAttrs) :
             lr'[g].source = t /\ lr'[g].draws = o.draws + 3
    BY <2>0
  <2>2. o.draws = DrawsOf(t) /\ DrawsOf(t) \in Nat
    BY <1>9 DEF Alike
  <2>3. /\ batch' = batch /\ nextNeedle'[g] = 1
        /\ \A h \in Goroutines \ {g} :
              pc'[h] = pc[h] /\ lr'[h] = lr[h] /\ nextNeedle'[h] = nextNeedle[h]
    BY <1>0, <1>1, GenerateStep
  <2>4. Drawn(lr'[g], nextNeedle'[g] - 1)
    BY <2>1, <2>2, <2>3 DEF Drawn
  <2>5. \A i \in DOMAIN batch'[g] : Drawn(batch'[g][i], Len(Needles) + TraceDraws)
    BY <2>3 DEF DrawsInv
  <2> QED
    BY <2>3, <2>4, <2>5, DrawsKept
<1>2. ASSUME NEW g \in Goroutines, RollNeedle(g) PROVE DrawsInv'
  <2>1. /\ pc[g] = "needles" /\ lr'[g].source = lr[g].source
        /\ lr'[g].draws = lr[g].draws + 1
        /\ \A h \in Goroutines \ {g} : lr'[h] = lr[h]
        /\ nextNeedle' = [nextNeedle EXCEPT ![g] = nextNeedle[g] + 1]
        /\ UNCHANGED <<pc, batch>>
    BY <1>2, RollStep
  <2>2. Drawn(lr[g], nextNeedle[g] - 1)
    BY <2>1 DEF DrawsInv
  <2>3. /\ nextNeedle'[g] = nextNeedle[g] + 1
        /\ \A h \in Goroutines \ {g} : nextNeedle'[h] = nextNeedle[h]
    BY <1>0, <2>1
  <2>4. PICK d \in Nat, n \in Nat : d = DrawsOf(lr[g].source) /\ n = nextNeedle[g]
    BY <1>0, <1>9, <2>2 DEF Drawn
  <2>5. lr'[g].draws = d + 3 + (n + 1 - 1)
    BY <2>1, <2>2, <2>4 DEF Drawn
  <2>6. Drawn(lr'[g], nextNeedle'[g] - 1)
    BY <2>1, <2>2, <2>3, <2>4, <2>5 DEF Drawn
  <2>7. \A i \in DOMAIN batch'[g] : Drawn(batch'[g][i], Len(Needles) + TraceDraws)
    BY <2>1 DEF DrawsInv
  <2> QED
    BY <2>1, <2>3, <2>6, <2>7, DrawsKept
<1>3. ASSUME NEW g \in Goroutines, FinishRecord(g) PROVE DrawsInv'
  <2>1. PICK k : /\ DOMAIN batch'[g] = DOMAIN batch[g] \cup {k}
                 /\ \A i \in DOMAIN batch[g] : batch'[g][i] = batch[g][i]
                 /\ batch'[g][k] = [lr[g] EXCEPT !.draws = @ + TraceDraws]
    BY <1>3, FinishBatch
  <2>2. /\ pc[g] = "needles" /\ nextNeedle[g] > Len(Needles)
        /\ \A h \in Goroutines \ {g} : batch'[h] = batch[h]
        /\ UNCHANGED <<lr, nextNeedle>>
    BY <1>3, FinishStep
  <2>3. PICK next : pc' = [pc EXCEPT ![g] = IF next > Len(Instances[g])
                                            THEN "consume" ELSE "generate"]
    BY <1>3 DEF FinishRecord
  <2>4. pc'[g] # "needles" /\ \A h \in Goroutines \ {g} : pc'[h] = pc[h]
    BY <1>0, <2>3
  <2>5. Drawn(batch'[g][k], Len(Needles) + TraceDraws)
    <3>1. DOMAIN lr[g] = RecordFields /\ Drawn(lr[g], nextNeedle[g] - 1)
      BY <2>2 DEF ShapeInv, DrawsInv
    <3>2. PICK r, c : r = batch'[g][k] /\ c = TraceDraws
      OBVIOUS
    <3>3. r.source = lr[g].source /\ r.draws = lr[g].draws + c
      BY <2>1, <3>1, <3>2 DEF RecordFields
    <3>4. nextNeedle[g] - 1 = Len(Needles) /\ Len(Needles) \in Nat
      BY <1>0, <2>2
    <3>5. c \in Nat
      BY <3>2 DEF TraceDraws
    <3>6. PICK d \in Nat : d = DrawsOf(lr[g].source)
      BY <1>9, <3>1 DEF Drawn
    <3>7. lr[g].draws = d + 3 + Len(Needles)
      BY <3>1, <3>4, <3>6 DEF Drawn
    <3>8. r.draws = d + 3 + (Len(Needles) + c)
      BY <3>3, <3>4, <3>5, <3>7
    <3> QED
      BY <3>1, <3>2, <3>3, <3>6, <3>8 DEF Drawn
  <2>6. \A i \in DOMAIN batch'[g] : Drawn(batch'[g][i], Len(Needles) + TraceDraws)
    BY <2>1, <2>5 DEF DrawsInv
  <2> QED
    BY <2>2, <2>4, <2>6, DrawsKept
<1>4. ASSUME NEW g \in Goroutines, Consume(g) PROVE DrawsInv'
  <2>1. /\ pc'[g] # "needles" /\ UNCHANGED <<lr, nextNeedle, batch>>
        /\ \A h \in Goroutines \ {g} : pc'[h] = pc[h]
    BY <1>0, <1>4 DEF Consume
  <2>2. \A i \in DOMAIN batch'[g] : Drawn(batch'[g][i], Len(Needles) + TraceDraws)
    BY <2>1 DEF DrawsInv
  <2> QED
    BY <2>1, <2>2, DrawsKept
<1>5. CASE UNCHANGED vars
  BY <1>5 DEF vars, DrawsInv, Drawn
<1> QED
  BY <1>1, <1>2, <1>3, <1>4, <1>5 DEF Next, Terminated

(***************************************************************************)
(* The generators and the rolls are invoked in any case (loggen.go,        *)
(* GenerateFromPreparedInto; receiver.go, the loop over the needles): how  *)
(* far a record advances the random stream depends on its template only.   *)
(***************************************************************************)
THEOREM DrawsByTemplateCorrect ==
    ASSUME KeysOnce
    PROVE  Spec => []DrawsByTemplate
<1>1. DrawsInv => DrawsByTemplate
  <2> SUFFICES ASSUME DrawsInv, NEW q \in AllMade, NEW r \in AllMade,
                      The(q).source = The(r).source
               PROVE  The(q).draws = The(r).draws
    BY DEF DrawsByTemplate
  <2>1. \A s \in AllMade : Drawn(The(s), Len(Needles) + TraceDraws)
    BY DEF AllMade, Made, DrawsInv, The
  <2> QED
    BY <2>1 DEF Drawn
<1>2. Spec => []TypeOK
  BY AppendTypeCorrect
<1>3. ShapeInv /\ TypeOK /\ DrawsInv /\ [Next]_vars => DrawsInv'
  BY DrawsNext
<1> QED
  BY <1>1, <1>2, <1>3, ShapeInit, ShapeNext, DrawsInit, PTL DEF Spec
=============================================================================
