------------------------- MODULE ResourceTemplates -------------------------
(***************************************************************************)
(* How the constructor renders the resources of a scenario, one for each   *)
(* instance (src/logsgenreceiver/internal/logstmpl): it looks for a        *)
(* template file with one of three extensions, executes it, and decodes    *)
(* what it wrote.  {{range loop from to}} in a template starts a goroutine *)
(* that sends the numbers on an unbuffered channel; the engine receives    *)
(* one for each pass through the range.                                    *)
(*                                                                         *)
(* A template is a sequence of nodes:                                      *)
(*   [op |-> "emit"]   writes the numbers of the ranges around it,         *)
(*   [op |-> "call"]   calls a function, which may fail,                   *)
(*   [op |-> "break"]  may leave the innermost range (if ... break),       *)
(*   [op |-> "range", from, to, end] and [op |-> "end", head], which name  *)
(*                     each other's positions,                             *)
(* together with what its output decodes to: "logs", "no logs" (without a  *)
(* resource) or "garbage".                                                 *)
(***************************************************************************)
EXTENDS Integers, SequencesExt

CONSTANTS
    Scale,      \* instances of the scenario
    FileSets,   \* for each extension: [file |-> "missing" or "malformed"] or
                \* [file |-> "template", nodes, decodes]
    MaxLoops    \* bound: goroutines of one constructor

ASSUME TemplatesAssumption == Scale \in Nat /\ MaxLoops \in Nat

Extensions == 1..3  \* .json, .yaml, .yml

(***************************************************************************)
(* What text/template has parsed: every range has its end, and ranges are  *)
(* one in the other or one after the other.                                *)
(***************************************************************************)
Ranges(nodes) == {k \in 1..Len(nodes) : nodes[k].op = "range"}
WellNested(nodes) ==
    /\ DOMAIN nodes = 1..Len(nodes)
    /\ \A k \in 1..Len(nodes) :
          nodes[k].op \in {"emit", "call", "break", "range", "end"}
    /\ \A k \in Ranges(nodes) :
          /\ nodes[k].from \in Int /\ nodes[k].to \in Int
          /\ nodes[k].end \in k + 1..Len(nodes)
          /\ nodes[nodes[k].end].op = "end" /\ nodes[nodes[k].end].head = k
    /\ \A k \in 1..Len(nodes) : nodes[k].op = "end" =>
          nodes[k].head \in Ranges(nodes) /\ nodes[nodes[k].head].end = k
    /\ \A j, k \in Ranges(nodes) :
          j < k /\ k < nodes[j].end => nodes[k].end < nodes[j].end

ASSUME FilesAssumption ==
    \A set \in FileSets : \A e \in Extensions :
        set[e].file = "template" => Len(set[e].nodes) \in Nat /\ WellNested(set[e].nodes)

VARIABLES
    files,      \* the files there are
    phase,      \* "search", "execute", "decode", "created", "failed", "panicked"
    ext,        \* the extension to be tried, or in use
    resources,  \* resources rendered so far
    at,         \* the engine: the node it is at
    ranges,     \* open ranges, innermost last: [channel, value]
    output,     \* what the template has written
    senders     \* the goroutines of loop: [next, last, closed]

vars == <<files, phase, ext, resources, at, ranges, output, senders>>

Returned == {"created", "failed", "panicked"}
Channels == DOMAIN senders
Program == files[ext].nodes
Node == Program[at]

Init ==
    /\ files \in FileSets
    /\ phase = IF Scale = 0 THEN "created" ELSE "search"
    /\ ext = 1
    /\ resources = 0
    /\ at = 1
    /\ ranges = <<>>
    /\ output = <<>>
    /\ senders = <<>>
-----------------------------------------------------------------------------
(***************************************************************************)
(* A file that is missing or cannot be parsed is passed over.              *)
(***************************************************************************)
TryNext ==
    /\ phase = "search" /\ ext <= 3
    /\ files[ext].file # "template"
    /\ ext' = ext + 1
    /\ UNCHANGED <<files, phase, resources, at, ranges, output, senders>>

NoFileFound ==
    /\ phase = "search" /\ ext = 4
    /\ phase' = "failed"
    /\ UNCHANGED <<files, ext, resources, at, ranges, output, senders>>

Found ==
    /\ phase = "search" /\ ext <= 3
    /\ files[ext].file = "template"
    /\ phase' = "execute"
    /\ at' = 1 /\ output' = <<>>
    /\ UNCHANGED <<files, ext, resources, ranges, senders>>
-----------------------------------------------------------------------------
(***************************************************************************)
(* The engine.                                                             *)
(***************************************************************************)
Executes(op) == phase = "execute" /\ at <= Len(Program) /\ Node.op = op

Emit ==
    /\ Executes("emit")
    /\ output' = Append(output, [i \in DOMAIN ranges |-> ranges[i].value])
    /\ at' = at + 1
    /\ UNCHANGED <<files, phase, ext, resources, ranges, senders>>

Call ==
    /\ Executes("call")
    /\ at' = at + 1
    /\ UNCHANGED <<files, phase, ext, resources, ranges, output, senders>>

(***************************************************************************)
(* An error ends the execution, and with it the constructor; the ranges    *)
(* that are open are left as they are, and nobody reads their channels.    *)
(***************************************************************************)
CallFails ==
    /\ Executes("call")
    /\ phase' = "failed" /\ ranges' = <<>>
    /\ UNCHANGED <<files, ext, resources, at, output, senders>>

Break ==
    /\ Executes("break")
    /\ \/ at' = at + 1 /\ UNCHANGED ranges
       \/ at' = Node.end + 1 /\ ranges' = Front(ranges)
    /\ UNCHANGED <<files, phase, ext, resources, output, senders>>

(***************************************************************************)
(* loop: a goroutine and its channel.  The engine then waits at the end of *)
(* the range, where it receives.                                           *)
(***************************************************************************)
SenderExclusive(from, to) ==  \* bug: i < to
    [next |-> from, last |-> to - 1, closed |-> FALSE]
Sender(from, to) == [next |-> from, last |-> to, closed |-> FALSE]

OpenRange ==
    /\ Executes("range") /\ Len(senders) < MaxLoops
    /\ senders' = Append(senders, Sender(Node.from, Node.to))
    /\ ranges' = Append(ranges, [channel |-> Len(senders) + 1, value |-> 0])
    /\ at' = Node.end
    /\ UNCHANGED <<files, phase, ext, resources, output>>

Receive ==
    /\ Executes("end")
    /\ LET c == Last(ranges).channel
       IN  /\ senders[c].next <= senders[c].last
           /\ ranges' = [ranges EXCEPT ![Len(ranges)].value = senders[c].next]
           /\ senders' = [senders EXCEPT ![c].next = @ + 1]
    /\ at' = Node.head + 1
    /\ UNCHANGED <<files, phase, ext, resources, output>>

ChannelClosed ==
    /\ Executes("end")
    /\ senders[Last(ranges).channel].closed
    /\ ranges' = Front(ranges)
    /\ at' = at + 1
    /\ UNCHANGED <<files, phase, ext, resources, output, senders>>

(***************************************************************************)
(* The goroutine, when it has sent all its numbers.                        *)
(***************************************************************************)
NeverClose(c) == FALSE /\ UNCHANGED vars  \* bug: no close(ch)
Close(c) ==
    /\ senders[c].next > senders[c].last /\ ~senders[c].closed
    /\ senders' = [senders EXCEPT ![c].closed = TRUE]
    /\ UNCHANGED <<files, phase, ext, resources, at, ranges, output>>
-----------------------------------------------------------------------------
ExecutionEnds ==
    /\ phase = "execute" /\ at > Len(Program)
    /\ phase' = "decode"
    /\ UNCHANGED <<files, ext, resources, at, ranges, output, senders>>

(***************************************************************************)
(* RenderLogResource takes the first resource of the logs, if there is     *)
(* none At(0) panics; GetLogResources goes on to the next instance.        *)
(***************************************************************************)
Decoded ==
    /\ phase = "decode" /\ files[ext].decodes = "logs"
    /\ resources' = resources + 1
    /\ phase' = IF resources' = Scale THEN "created" ELSE "search"
    /\ ext' = 1
    /\ UNCHANGED <<files, at, ranges, output, senders>>

NotDecoded ==
    /\ phase = "decode" /\ files[ext].decodes # "logs"
    /\ phase' = IF files[ext].decodes = "no logs" THEN "panicked" ELSE "failed"
    /\ UNCHANGED <<files, ext, resources, at, ranges, output, senders>>

Done == phase \in Returned /\ UNCHANGED vars

Constructor ==
    \/ TryNext \/ NoFileFound \/ Found
    \/ Emit \/ Call \/ CallFails \/ Break \/ OpenRange \/ Receive \/ ChannelClosed
    \/ ExecutionEnds \/ Decoded \/ NotDecoded

Next == Constructor \/ (\E c \in Channels : Close(c)) \/ Done

(***************************************************************************)
(* The scheduler runs every goroutine that can take a step.                *)
(***************************************************************************)
Spec == Init /\ [][Next]_vars
FairSpec ==
    /\ Spec
    /\ WF_vars(Constructor)
    /\ \A c \in 1..MaxLoops : WF_vars(c \in Channels /\ Close(c))
-----------------------------------------------------------------------------
(***************************************************************************)
(* What a template should write.  A pass through a range, with the values  *)
(* vals of the ranges around it, writes what the nodes of its body write;  *)
(* after n passes a range has written that for its first n numbers.        *)
(***************************************************************************)
Passes(range) == IF range.from <= range.to THEN range.to - range.from + 1 ELSE 0
Repeated(body, vals, range) ==
    LET after[n \in 0..Passes(range)] ==
            IF n = 0
            THEN <<>>
            ELSE after[n - 1] \o body[Append(vals, range.from + n - 1)]
    IN  after

(***************************************************************************)
(* What the nodes before node k write, back to the head of the innermost   *)
(* range around k or to the beginning of the template.                     *)
(***************************************************************************)
Before(nodes) ==
    LET before[k \in 1..Len(nodes) + 1] ==
            [vals \in Seq(Int) |->
                IF k = 1
                THEN <<>>
                ELSE CASE nodes[k - 1].op = "range" -> <<>>
                       [] nodes[k - 1].op = "emit" -> Append(before[k - 1][vals], vals)
                       [] nodes[k - 1].op = "end" ->
                            LET head == nodes[k - 1].head IN
                            before[head][vals] \o
                                Repeated(before[k - 1], vals, nodes[head])[Passes(nodes[head])]
                       [] OTHER -> before[k - 1][vals]]
    IN  before
Written(nodes) == Before(nodes)[Len(nodes) + 1][<<>>]

(***************************************************************************)
(* A template whose ranges get their numbers from goroutines writes what   *)
(* it would if they counted, both ends included, and when it has ended no  *)
(* goroutine waits for a reader -- unless the template breaks out of a     *)
(* range, or fails (RenderLogsTemplate, loop).                             *)
(***************************************************************************)
Breaks(nodes) == \E k \in DOMAIN nodes : nodes[k].op = "break"
RangesCount ==
    phase = "decode" /\ ~Breaks(Program) =>
        /\ output = Written(Program)
        /\ ranges = <<>>
        /\ \A c \in Channels : senders[c].next > senders[c].last

(***************************************************************************)
(* The constructor comes to an end, with a goroutine behind every range of *)
(* every template it executes, and whether they fail or not: the engine    *)
(* never waits for a number that is not sent (RenderLogsTemplate).         *)
(***************************************************************************)
ConstructorReturns == <>(phase \in Returned)
=============================================================================
