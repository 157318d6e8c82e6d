----------------------------- MODULE TracePools -----------------------------
(***************************************************************************)
(* The large texts that profiles put into records: stack traces, crash     *)
(* reports, JSON bodies (src/logsgenreceiver/internal/loggen/traces.go)    *)
(* and large error messages (crosscutting.go).  The constructor builds     *)
(* pools of them, each text with a target length of its own, by writing    *)
(* pieces of varying length to a buffer until the target is reached.       *)
(*                                                                         *)
(* A behaviour builds one text of a pool.  Only lengths matter, in bytes,  *)
(* and the commas of the two texts that hold a JSON array, which are       *)
(* written when the buffer has outgrown a number fixed in the code.        *)
(***************************************************************************)
EXTENDS Integers

CONSTANTS
    Calls,    \* the pools: [text, minBytes, maxBytes]
    Lengths   \* Lengths[b][piece]: the lengths (numbers of frames) drawn

(***************************************************************************)
(* How each text is built: a head, then units while the target is not      *)
(* reached -- stack traces draw a number of frames they stop at -- then a  *)
(* tail, then, in a Redis crash report, filler up to the target.  grow is  *)
(* what the buffer reserves beyond the target.                             *)
(***************************************************************************)
Plain(head, unit, grow) ==
    [head |-> head, unit |-> unit, frames |-> {}, tail |-> 0, filler |-> {},
     array |-> FALSE, commaAbove |-> 0, grow |-> grow]
Trace(head, unit, frames, grow) == [Plain(head, unit, grow) EXCEPT !.frames = frames]
JSONArray(head, unit, tail, commaAbove, grow) ==
    [Plain(head, unit, grow) EXCEPT
        !.tail = tail, !.array = TRUE, !.commaAbove = commaAbove]

GoStackTrace == Trace(23..25, 44..119, 8..87, 512)
JavaStackTrace == Trace(26..41, 48..87, 10..89, 512)
MySQLCrashTrace == Plain(483..522, {84}, 512)
NginxErrorDetails == Plain({0}, 106..124, 512)
LargeJSONPayload == JSONArray({10}, 47..51, 2, 20, 256)
SQLExplainPlan == [Plain(324..328, 97..104, 256) EXCEPT !.tail = 94]
RedisSlowlogOutput == Plain({0}, 93..111, 256)
RedisCrashReport ==
    [Trace(194..214, 49..57, 15..39, 512) EXCEPT !.tail = 62, !.filler = 14..22]

JSONErrorShortReserve ==  \* bug: b.Grow(targetLen + 128)
    JSONArray(193..289, 109..169, 16, 300, 128)
JSONError == JSONArray(193..289, 109..169, 16, 300, 512)
ErrorCascade == Plain({0}, 74..103, 512)
WrappedError == Trace(110..126, 44..119, 8..87, 512)

Text(b) ==
    CASE b = "GoStackTrace"       -> GoStackTrace
      [] b = "JavaStackTrace"     -> JavaStackTrace
      [] b = "MySQLCrashTrace"    -> MySQLCrashTrace
      [] b = "NginxErrorDetails"  -> NginxErrorDetails
      [] b = "LargeJSONPayload"   -> LargeJSONPayload
      [] b = "SQLExplainPlan"     -> SQLExplainPlan
      [] b = "RedisSlowlogOutput" -> RedisSlowlogOutput
      [] b = "RedisCrashReport"   -> RedisCrashReport
      [] b = "JSONError"          -> JSONError
      [] b = "ErrorCascade"       -> ErrorCascade
      [] b = "WrappedError"       -> WrappedError

(***************************************************************************)
(* A large error message is one of three; the others are as they are       *)
(* called.  A wrapped error is a line and a Go stack trace for what is     *)
(* left of the target.                                                     *)
(***************************************************************************)
ErrorMessages == {"JSONError", "ErrorCascade", "WrappedError"}
OtherTexts ==
    {"GoStackTrace", "JavaStackTrace", "MySQLCrashTrace", "NginxErrorDetails",
     "LargeJSONPayload", "SQLExplainPlan", "RedisSlowlogOutput", "RedisCrashReport"}
Builders == ErrorMessages \cup OtherTexts

BuildersOf(call) ==
    IF call.text = "LargeErrorMessage" THEN ErrorMessages ELSE {call.text}

Pieces == {"head", "unit", "frames", "filler"}

(***************************************************************************)
(* No profile asks for a text of less than 200 bytes.                      *)
(***************************************************************************)
ASSUME CallsAssumption ==
    \A call \in Calls :
        /\ call.text \in OtherTexts \cup {"LargeErrorMessage"}
        /\ call.minBytes \in Nat /\ call.maxBytes \in Nat
        /\ 200 <= call.minBytes /\ call.minBytes <= call.maxBytes

ASSUME LengthsAssumption ==
    \A b \in Builders :
        /\ Lengths[b].head \subseteq Text(b).head
        /\ Lengths[b].unit \subseteq Text(b).unit
        /\ Lengths[b].frames \subseteq Text(b).frames
        /\ Lengths[b].filler \subseteq Text(b).filler

VARIABLES
    builder,  \* which text is built
    target,   \* its target length
    len,      \* bytes in the buffer
    units,    \* units written
    commas,   \* commas written between units
    phase     \* "body", "filler" or "done"

vars == <<builder, target, len, units, commas, phase>>

TypeOK ==
    /\ builder \in Builders
    /\ target \in Nat /\ len \in Nat /\ units \in Nat /\ commas \in Nat
    /\ phase \in {"body", "filler", "done"}

Init ==
    /\ \E call \in Calls :
          /\ builder \in BuildersOf(call)
          /\ target \in call.minBytes..call.maxBytes
    /\ len \in Lengths[builder].head
    /\ units = 0 /\ commas = 0
    /\ phase = "body"
-----------------------------------------------------------------------------
CommaAtThreshold(b, n) ==  \* bug: the threshold of the other array
    IF Text(b).array /\ n > LargeJSONPayload.commaAbove THEN 1 ELSE 0
Comma(b, n) == IF Text(b).array /\ n > Text(b).commaAbove THEN 1 ELSE 0

(***************************************************************************)
(* The number of frames is drawn before the loop; here it is left open     *)
(* until the loop stops at it.                                             *)
(***************************************************************************)
MoreFrames ==
    \/ Text(builder).frames = {}
    \/ \E f \in Lengths[builder].frames : units < f

WriteUnit ==
    /\ phase = "body" /\ len < target
    /\ MoreFrames
    /\ \E n \in Lengths[builder].unit :
          len' = len + Comma(builder, len) + n
    /\ commas' = commas + Comma(builder, len)
    /\ units' = units + 1
    /\ UNCHANGED <<builder, target, phase>>

AfterTailDone == "done"  \* bug: a crash report ends with its last line
AfterTail == IF Text(builder).filler = {} THEN "done" ELSE "filler"

WriteTail ==
    /\ phase = "body"
    /\ len >= target \/ units \in Lengths[builder].frames
    /\ len' = len + Text(builder).tail
    /\ phase' = AfterTail
    /\ UNCHANGED <<builder, target, units, commas>>

FillerMissing == len < target

WriteFiller ==
    /\ phase = "filler" /\ FillerMissing
    /\ \E n \in Lengths[builder].filler : len' = len + n
    /\ UNCHANGED <<builder, target, units, commas, phase>>

EndFiller ==
    /\ phase = "filler" /\ len >= target
    /\ phase' = "done"
    /\ UNCHANGED <<builder, target, len, units, commas>>

Built == phase = "done" /\ UNCHANGED vars

Next == WriteUnit \/ WriteTail \/ WriteFiller \/ EndFiller \/ Built

Spec == Init /\ [][Next]_vars
-----------------------------------------------------------------------------
(***************************************************************************)
(* In a JSON array there is one comma between any two elements and none    *)
(* before the first: the lengths that decide about commas (20 and 300)     *)
(* tell the first element from the others, however short or long the       *)
(* texts around it are.                                                    *)
(***************************************************************************)
CommasSeparate ==
    Text(builder).array => commas = IF units = 0 THEN 0 ELSE units - 1

(***************************************************************************)
(* A text is only shorter than its target if it is a stack trace that has  *)
(* all its frames, at least 8; a crash report always reaches it.           *)
(***************************************************************************)
TargetReached ==
    phase = "done" /\ len < target =>
        /\ builder \in {"GoStackTrace", "JavaStackTrace", "WrappedError"}
        /\ units >= 8

(***************************************************************************)
(* No text outgrows the buffer reserved for it (b.Grow), head, tail and    *)
(* the unit that exceeds the target included: none is copied while it is   *)
(* built.                                                                  *)
(***************************************************************************)
WithinReserve == len <= target + Text(builder).grow

(***************************************************************************)
(* The inductive invariant: an array that holds a unit has outgrown the    *)
(* comma's threshold, one that does not is just its head, only a crash     *)
(* report is filled up, and until the tail is written there is room for it.*)
(***************************************************************************)
ThresholdTellsFirst ==
    Text(builder).array =>
        /\ phase = "body" /\ units = 0 => len \in Text(builder).head
        /\ units > 0 => len > Text(builder).commaAbove

RoomForTail ==
    phase = "body" => len + Text(builder).tail <= target + Text(builder).grow

IInv ==
    /\ TypeOK
    /\ phase = "filler" => builder = "RedisCrashReport"
    /\ ThresholdTellsFirst
    /\ RoomForTail
    /\ CommasSeparate /\ TargetReached /\ WithinReserve
=============================================================================
