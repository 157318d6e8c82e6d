------------------------------ MODULE LogStream ------------------------------
(***************************************************************************)
(* What the logs generator receiver promises the collector it runs in: the *)
(* time window is replayed interval by interval; in every interval each    *)
(* instance that generates logs is handed to the next consumer exactly     *)
(* once; an interval begins only when the one before it is complete; and   *)
(* once the receiver is asked to stop, the interval in progress is still   *)
(* delivered whole but no other begins, and only then is it closed.        *)
(* LogsGenReceiver implements this specification.                          *)
(***************************************************************************)
EXTENDS Integers

CONSTANTS
    Instances,      \* the instances that generate logs
    StartTime,      \* start of the window
    EndTime,        \* end of the window
    Interval,       \* length of an interval
    ExitAfterEnd    \* whether the collector is to be told of the end

VARIABLES
    phase,      \* "idle", "open" or "closed"
    asked,      \* has the receiver been asked to stop?
    now,        \* start of the interval in progress, or of the next one
    inInterval, \* is an interval in progress?
    delivered,  \* instances delivered in the interval in progress
    told        \* has the collector been told that the window has ended?

streamVars == <<phase, asked, now, inInterval, delivered, told>>

Init ==
    /\ phase = "idle"
    /\ asked = FALSE
    /\ now = StartTime
    /\ inInterval = FALSE
    /\ delivered = {}
    /\ told = FALSE

Open ==
    /\ phase = "idle"
    /\ ~asked
    /\ phase' = "open"
    /\ UNCHANGED <<asked, now, inInterval, delivered, told>>

BeginInterval ==
    /\ phase = "open"
    /\ ~asked
    /\ ~inInterval
    /\ now < EndTime
    /\ inInterval' = TRUE
    /\ UNCHANGED <<phase, asked, now, delivered, told>>

(***************************************************************************)
(* A batch: instances that were not delivered in this interval yet.        *)
(***************************************************************************)
Deliver(batch) ==
    /\ inInterval
    /\ batch \cap delivered = {}
    /\ delivered' = delivered \cup batch
    /\ UNCHANGED <<phase, asked, now, inInterval, told>>

EndInterval ==
    /\ inInterval
    /\ delivered = Instances
    /\ inInterval' = FALSE
    /\ delivered' = {}
    /\ now' = now + Interval
    /\ UNCHANGED <<phase, asked, told>>

AskToStop ==
    /\ ~asked
    /\ asked' = TRUE
    /\ UNCHANGED <<phase, now, inInterval, delivered, told>>

TellEnd ==
    /\ ExitAfterEnd
    /\ phase = "open"
    /\ ~inInterval
    /\ now >= EndTime
    /\ ~told
    /\ told' = TRUE
    /\ UNCHANGED <<phase, asked, now, inInterval, delivered>>

Close ==
    /\ phase # "closed"
    /\ asked
    /\ ~inInterval
    /\ phase' = "closed"
    /\ UNCHANGED <<asked, now, inInterval, delivered, told>>

Next ==
    \/ Open
    \/ BeginInterval
    \/ \E batch \in SUBSET Instances : Deliver(batch)
    \/ EndInterval
    \/ AskToStop
    \/ TellEnd
    \/ Close

Spec == Init /\ [][Next]_streamVars
=============================================================================
