-------------------------- MODULE TracePoolsProofs --------------------------
(***************************************************************************)
(* The texts of TracePools for every range of targets from 200 bytes on,   *)
(* and for all the lengths and numbers of frames that may be drawn.        *)
(***************************************************************************)
EXTENDS TracePools, TLAPS

(***************************************************************************)
(* What the proofs need of a text t, built by b: lengths are numbers, a    *)
(* head, or a unit with its comma beyond the target, leaves room for the   *)
(* tail in the reserve, only a crash report has a filler, and a head does  *)
(* not reach the comma's threshold but a unit takes it past.               *)
(***************************************************************************)
Numbers(t) ==
    /\ t.tail \in Nat /\ t.grow \in Nat /\ t.commaAbove \in Nat
    /\ t.head \subseteq Nat /\ t.unit \subseteq Nat
    /\ t.frames \subseteq Nat /\ t.filler \subseteq Nat

Fits(t) ==
    /\ \A n \in t.head : n + t.tail <= 200 + t.grow
    /\ \A m \in t.unit : m + t.tail <= t.grow
    /\ \A n \in t.filler : n <= t.grow

Separates(t) ==
    t.array =>
        /\ \A n \in t.head : n <= t.commaAbove
        /\ \A n \in t.head : \A m \in t.unit : n + m > t.commaAbove

Stops(t, b) ==
    /\ \A f \in t.frames : f >= 8
    /\ t.filler # {} => b = "RedisCrashReport"
    /\ t.frames # {} /\ t.filler = {} =>
          b \in {"GoStackTrace", "JavaStackTrace", "WrappedError"}

Sound(t, b) == Numbers(t) /\ Fits(t) /\ Separates(t) /\ Stops(t, b)

(***************************************************************************)
(* When a text of each form is sound.                                      *)
(***************************************************************************)
LEMMA PlainSound ==
    ASSUME NEW b, NEW head \in SUBSET Nat, NEW unit \in SUBSET Nat, NEW grow \in Nat,
           \A n \in head : n <= 200 + grow,
           \A m \in unit : m <= grow
    PROVE  Sound(Plain(head, unit, grow), b)
<1>. DEFINE t == Plain(head, unit, grow)
<1>1. /\ t.head = head /\ t.unit = unit /\ t.grow = grow /\ t.frames = {}
      /\ t.tail = 0 /\ t.filler = {} /\ t.array = FALSE /\ t.commaAbove = 0
  BY DEF Plain
<1>. HIDE DEF t
<1>2. Numbers(t) BY <1>1 DEF Numbers
<1>3. Fits(t)
  <2>1. \A n \in head : n + 0 <= 200 + grow
    OBVIOUS
  <2>2. \A m \in unit : m + 0 <= grow
    OBVIOUS
  <2>. QED BY <1>1, <2>1, <2>2 DEF Fits
<1>4. Separates(t) BY <1>1 DEF Separates
<1>5. Stops(t, b) BY <1>1 DEF Stops
<1>. QED BY <1>2, <1>3, <1>4, <1>5 DEF Sound, t

LEMMA TraceSound ==
    ASSUME NEW b \in {"GoStackTrace", "JavaStackTrace", "WrappedError"},
           NEW head \in SUBSET Nat, NEW unit \in SUBSET Nat,
           NEW frames \in SUBSET Nat, NEW grow \in Nat,
           \A n \in head : n <= 200 + grow,
           \A m \in unit : m <= grow,
           \A f \in frames : f >= 8
    PROVE  Sound(Trace(head, unit, frames, grow), b)
<1>. DEFINE t == Trace(head, unit, frames, grow)
<1>1. /\ t.head = head /\ t.unit = unit /\ t.grow = grow /\ t.frames = frames
      /\ t.tail = 0 /\ t.filler = {} /\ t.array = FALSE /\ t.commaAbove = 0
  BY DEF Trace, Plain
<1>. HIDE DEF t
<1>2. Numbers(t) BY <1>1 DEF Numbers
<1>3. Fits(t)
  <2>1. \A n \in head : n + 0 <= 200 + grow
    OBVIOUS
  <2>2. \A m \in unit : m + 0 <= grow
    OBVIOUS
  <2>. QED BY <1>1, <2>1, <2>2 DEF Fits
<1>4. Separates(t) BY <1>1 DEF Separates
<1>5. Stops(t, b) BY <1>1 DEF Stops
<1>. QED BY <1>2, <1>3, <1>4, <1>5 DEF Sound, t

LEMMA ArraySound ==
    ASSUME NEW b, NEW head \in SUBSET Nat, NEW unit \in SUBSET Nat,
           NEW tail \in Nat, NEW above \in Nat, NEW grow \in Nat,
           \A n \in head : n + tail <= 200 + grow /\ n <= above,
           \A m \in unit : m + tail <= grow,
           \A n \in head : \A m \in unit : n + m > above
    PROVE  Sound(JSONArray(head, unit, tail, above, grow), b)
<1>. DEFINE t == JSONArray(head, unit, tail, above, grow)
<1>1. /\ t.head = head /\ t.unit = unit /\ t.grow = grow /\ t.frames = {}
      /\ t.tail = tail /\ t.filler = {} /\ t.array = TRUE /\ t.commaAbove = above
  BY DEF JSONArray, Plain
<1>. HIDE DEF t
<1>2. Numbers(t) BY <1>1 DEF Numbers
<1>3. Fits(t) BY <1>1 DEF Fits
<1>4. Separates(t) BY <1>1 DEF Separates
<1>5. Stops(t, b) BY <1>1 DEF Stops
<1>. QED BY <1>2, <1>3, <1>4, <1>5 DEF Sound, t

(***************************************************************************)
(* Every text of the table is sound.                                       *)
(***************************************************************************)
LEMMA TableSound ==
    ASSUME NEW b \in Builders
    PROVE  Sound(Text(b), b)
<1>1. CASE b = "GoStackTrace"
  <2>1. Sound(Trace(23..25, 44..119, 8..87, 512), b)
    BY <1>1, TraceSound
  <2>. QED BY <1>1, <2>1 DEF Text, GoStackTrace
<1>2. CASE b = "JavaStackTrace"
  <2>1. Sound(Trace(26..41, 48..87, 10..89, 512), b)
    BY <1>2, TraceSound
  <2>. QED BY <1>2, <2>1 DEF Text, JavaStackTrace
<1>3. CASE b = "MySQLCrashTrace"
  <2>1. Sound(Plain(483..522, {84}, 512), b)
    BY <1>3, PlainSound
  <2>. QED BY <1>3, <2>1 DEF Text, MySQLCrashTrace
<1>4. CASE b = "NginxErrorDetails"
  <2>1. Sound(Plain({0}, 106..124, 512), b)
    BY <1>4, PlainSound
  <2>. QED BY <1>4, <2>1 DEF Text, NginxErrorDetails
<1>5. CASE b = "LargeJSONPayload"
  <2>1. Sound(JSONArray({10}, 47..51, 2, 20, 256), b)
    BY <1>5, ArraySound
  <2>. QED BY <1>5, <2>1 DEF Text, LargeJSONPayload
<1>6. CASE b = "SQLExplainPlan"
  <2>1. /\ Text(b).head = 324..328 /\ Text(b).unit = 97..104
        /\ Text(b).frames = {} /\ Text(b).filler = {}
        /\ Text(b).tail = 94 /\ Text(b).grow = 256
        /\ Text(b).array = FALSE /\ Text(b).commaAbove = 0
    BY <1>6 DEF Text, SQLExplainPlan, Plain
  <2>2. Numbers(Text(b)) BY <2>1 DEF Numbers
  <2>3. Fits(Text(b)) BY <2>1 DEF Fits
  <2>4. Separates(Text(b)) /\ Stops(Text(b), b) BY <1>6, <2>1 DEF Separates, Stops
  <2>. QED BY <2>2, <2>3, <2>4 DEF Sound
<1>7. CASE b = "RedisSlowlogOutput"
  <2>1. Sound(Plain({0}, 93..111, 256), b)
    BY <1>7, PlainSound
  <2>. QED BY <1>7, <2>1 DEF Text, RedisSlowlogOutput
<1>8. CASE b = "RedisCrashReport"
  <2>1. /\ Text(b).head = 194..214 /\ Text(b).unit = 49..57
        /\ Text(b).frames = 15..39 /\ Text(b).filler = 14..22
        /\ Text(b).tail = 62 /\ Text(b).grow = 512
        /\ Text(b).array = FALSE /\ Text(b).commaAbove = 0
    BY <1>8, ZenonT(60) DEF Text, RedisCrashReport, Plain, Trace
  <2>2. Numbers(Text(b)) BY <2>1 DEF Numbers
  <2>3. Fits(Text(b)) BY <2>1 DEF Fits
  <2>4. Separates(Text(b)) /\ Stops(Text(b), b) BY <1>8, <2>1 DEF Separates, Stops
  <2>. QED BY <2>2, <2>3, <2>4 DEF Sound
<1>9. CASE b = "JSONError"
  <2>1. Sound(JSONArray(193..289, 109..169, 16, 300, 512), b)
    BY <1>9, ArraySound
  <2>. QED BY <1>9, <2>1 DEF Text, JSONError
<1>10. CASE b = "ErrorCascade"
  <2>1. Sound(Plain({0}, 74..103, 512), b)
    BY <1>10, PlainSound
  <2>. QED BY <1>10, <2>1 DEF Text, ErrorCascade
<1>11. CASE b = "WrappedError"
  <2>1. Sound(Trace(110..126, 44..119, 8..87, 512), b)
    BY <1>11, TraceSound
  <2>. QED BY <1>11, <2>1 DEF Text, WrappedError
<1>. QED
  BY <1>1, <1>2, <1>3, <1>4, <1>5, <1>6, <1>7, <1>8, <1>9, <1>10, <1>11
  DEF Builders, ErrorMessages, OtherTexts
-----------------------------------------------------------------------------
(***************************************************************************)
(* The lengths drawn are those of the table.                               *)
(***************************************************************************)
LEMMA Drawn ==
    ASSUME NEW b \in Builders
    PROVE  /\ Lengths[b].head \subseteq Text(b).head
           /\ Lengths[b].unit \subseteq Text(b).unit
           /\ Lengths[b].frames \subseteq Text(b).frames
           /\ Lengths[b].filler \subseteq Text(b).filler
BY LengthsAssumption

LEMMA InitIInv == Init => IInv
<1>. SUFFICES ASSUME Init PROVE IInv
  OBVIOUS
<1>. DEFINE t == Text(builder)
<1>1. PICK call \in Calls : /\ builder \in BuildersOf(call)
                           /\ target \in call.minBytes..call.maxBytes
  BY DEF Init
<1>2. builder \in Builders
  BY <1>1, CallsAssumption DEF BuildersOf, Builders, OtherTexts, ErrorMessages
<1>3. target \in Nat /\ target >= 200
  BY <1>1, CallsAssumption
<1>4. Sound(t, builder) /\ len \in t.head
  BY <1>2, TableSound, Drawn DEF Init
<1>. HIDE DEF t
<1>5. /\ len \in Nat /\ t.tail \in Nat /\ t.grow \in Nat
      /\ len + t.tail <= 200 + t.grow
  BY <1>4 DEF Sound, Numbers, Fits
<1>6. TypeOK
  BY <1>2, <1>3, <1>5 DEF Init, TypeOK
<1>7. len + t.tail <= target + t.grow /\ len <= target + t.grow
  BY <1>3, <1>5
<1>. QED
  BY <1>4, <1>5, <1>6, <1>7
  DEF Init, IInv, t, ThresholdTellsFirst, RoomForTail, CommasSeparate, TargetReached,
      WithinReserve

LEMMA NextIInv == IInv /\ [Next]_vars => IInv'
<1>. SUFFICES ASSUME IInv, [Next]_vars PROVE IInv'
  OBVIOUS
<1>. DEFINE t == Text(builder)
<1>1. Sound(t, builder)
  BY TableSound DEF IInv, TypeOK
<1>2. /\ t.tail \in Nat /\ t.grow \in Nat /\ t.commaAbove \in Nat
      /\ builder \in Builders /\ target \in Nat /\ len \in Nat
      /\ units \in Nat /\ commas \in Nat
  BY <1>1 DEF Sound, Numbers, IInv, TypeOK
<1>3. CASE WriteUnit
  <2>1. PICK n \in Lengths[builder].unit : len' = len + Comma(builder, len) + n
    BY <1>3 DEF WriteUnit
  <2>. DEFINE comma == Comma(builder, len)
  <2>2. /\ phase = "body" /\ phase' = "body" /\ len < target
        /\ builder' = builder /\ target' = target
        /\ units' = units + 1 /\ commas' = commas + comma
    BY <1>3 DEF WriteUnit
  <2>3. n \in t.unit
    BY <1>2, <2>1, Drawn
  <2>4. n \in Nat /\ n + t.tail <= t.grow
    BY <1>1, <2>3 DEF Sound, Numbers, Fits
  <2>5. t.array /\ units = 0 => len \in t.head /\ len + n > t.commaAbove /\ len <= t.commaAbove
    BY <1>1, <2>2, <2>3 DEF IInv, ThresholdTellsFirst, Sound, Separates
  <2>6. t.array /\ units > 0 => len > t.commaAbove
    BY DEF IInv, ThresholdTellsFirst
  <2>7. comma = IF t.array /\ units > 0 THEN 1 ELSE 0
    BY <1>2, <2>5, <2>6 DEF Comma
  <2>. HIDE DEF t, comma
  <2>8. /\ len' = len + comma + n /\ len' \in Nat
        /\ units' \in Nat /\ commas' \in Nat /\ units' > 0
    BY <1>2, <2>1, <2>2, <2>4, <2>7 DEF comma
  <2>9. TypeOK'
    BY <1>2, <2>2, <2>8 DEF TypeOK
  <2>10. len' + t.tail <= target + t.grow /\ len' <= target + t.grow
    BY <1>2, <2>2, <2>4, <2>7, <2>8
  <2>11. t.array => len' > t.commaAbove
    BY <1>2, <2>4, <2>5, <2>6, <2>7, <2>8
  <2>12. t.array => commas' = units' - 1
    <3>1. t.array => commas = IF units = 0 THEN 0 ELSE units - 1
      BY DEF IInv, CommasSeparate, t
    <3>. QED BY <1>2, <2>2, <2>7, <3>1
  <2>. QED
    BY <2>2, <2>8, <2>9, <2>10, <2>11, <2>12
    DEF IInv, ThresholdTellsFirst, RoomForTail, CommasSeparate, TargetReached,
        WithinReserve, t
<1>4. CASE WriteTail
  <2>1. /\ phase = "body" /\ len' = len + t.tail
        /\ phase' = IF t.filler = {} THEN "done" ELSE "filler"
        /\ len >= target \/ units \in Lengths[builder].frames
        /\ builder' = builder /\ target' = target /\ units' = units /\ commas' = commas
    BY <1>4 DEF WriteTail, AfterTail
  <2>2. len' \in Nat /\ len' >= len /\ len' <= target + t.grow
    <3>1. len + t.tail <= target + t.grow
      BY <2>1 DEF IInv, RoomForTail
    <3>. HIDE DEF t
    <3>. QED BY <1>2, <2>1, <3>1
  <2>3. phase' = "done" /\ len' < target =>
          /\ builder \in {"GoStackTrace", "JavaStackTrace", "WrappedError"}
          /\ units >= 8
    <3>. SUFFICES ASSUME phase' = "done", len' < target
                  PROVE  /\ builder \in {"GoStackTrace", "JavaStackTrace", "WrappedError"}
                         /\ units >= 8
      OBVIOUS
    <3>1. ~(len >= target)
      BY <1>2, <2>2
    <3>2. units \in t.frames
      BY <1>2, <2>1, <3>1, Drawn
    <3>3. t.filler = {}
      BY <2>1
    <3>. QED BY <1>1, <3>2, <3>3 DEF Sound, Stops
  <2>4. phase' = "filler" => builder = "RedisCrashReport"
    BY <1>1, <2>1 DEF Sound, Stops
  <2>5. t.array /\ units > 0 => len' > t.commaAbove
    <3>1. t.array /\ units > 0 => len > t.commaAbove
      BY DEF IInv, ThresholdTellsFirst
    <3>. QED BY <1>2, <2>2, <3>1
  <2>6. phase' \in {"done", "filler"}
    BY <2>1
  <2>7. TypeOK'
    BY <1>2, <2>1, <2>2, <2>6 DEF TypeOK
  <2>. QED
    BY <2>1, <2>2, <2>3, <2>4, <2>5, <2>6, <2>7
    DEF IInv, ThresholdTellsFirst, RoomForTail, CommasSeparate, TargetReached,
        WithinReserve
<1>5. CASE WriteFiller
  <2>1. PICK n \in Lengths[builder].filler : len' = len + n
    BY <1>5 DEF WriteFiller
  <2>2. /\ phase = "filler" /\ phase' = "filler" /\ len < target
        /\ builder' = builder /\ target' = target /\ units' = units /\ commas' = commas
    BY <1>5 DEF WriteFiller, FillerMissing
  <2>3. n \in Nat /\ n <= t.grow
    BY <1>1, <1>2, <2>1, Drawn DEF Sound, Numbers, Fits
  <2>4. len' \in Nat /\ len' >= len /\ len' <= target + t.grow
    BY <1>2, <2>1, <2>2, <2>3
  <2>5. t.array /\ units > 0 => len' > t.commaAbove
    <3>1. t.array /\ units > 0 => len > t.commaAbove
      BY DEF IInv, ThresholdTellsFirst
    <3>. QED BY <1>2, <2>4, <3>1
  <2>6. TypeOK'
    BY <1>2, <2>2, <2>4 DEF TypeOK
  <2>. QED
    BY <2>2, <2>4, <2>5, <2>6
    DEF IInv, ThresholdTellsFirst, RoomForTail, CommasSeparate, TargetReached,
        WithinReserve
<1>6. CASE EndFiller
  BY <1>2, <1>6
  DEF EndFiller, IInv, TypeOK, ThresholdTellsFirst, RoomForTail, CommasSeparate,
      TargetReached, WithinReserve
<1>7. CASE Built \/ UNCHANGED vars
  BY <1>7
  DEF Built, vars, IInv, TypeOK, ThresholdTellsFirst, RoomForTail, CommasSeparate,
      TargetReached, WithinReserve
<1>. QED BY <1>3, <1>4, <1>5, <1>6, <1>7 DEF Next

(***************************************************************************)
(* Whatever targets from 200 bytes on the profiles ask for and whatever is *)
(* drawn, the inductive invariant holds.                                   *)
(***************************************************************************)
THEOREM InvariantHolds == Spec => []IInv
<1>. QED BY InitIInv, NextIInv, PTL DEF Spec

(***************************************************************************)
(* Every JSON text has its commas where they belong (buildLargeJSONPayload,*)
(* buildLargeErrorMessage), for every target.                              *)
(***************************************************************************)
THEOREM CommasSeparateCorrect == Spec => []CommasSeparate
<1>1. IInv => CommasSeparate
  BY DEF IInv
<1>. QED BY <1>1, InvariantHolds, PTL

(***************************************************************************)
(* No text outgrows its reserve, for every target.                         *)
(***************************************************************************)
THEOREM WithinReserveCorrect == Spec => []WithinReserve
<1>1. IInv => WithinReserve
  BY DEF IInv
<1>. QED BY <1>1, InvariantHolds, PTL

(***************************************************************************)
(* Only stack traces that have all their frames fall short of the target,  *)
(* for every target.                                                       *)
(***************************************************************************)
THEOREM TargetReachedCorrect == Spec => []TargetReached
<1>1. IInv => TargetReached
  BY DEF IInv
<1>. QED BY <1>1, InvariantHolds, PTL
=============================================================================
