------------------------ MODULE MCResourceTemplates ------------------------
(***************************************************************************)
(* ResourceTemplates for TLC: templates with ranges after one another, in  *)
(* one another and empty, with a break in a range, with a call that may    *)
(* fail in a range, and the ways a file may be of no use.                  *)
(***************************************************************************)
EXTENDS ResourceTemplates

Op(op) == [op |-> op]
RangeOf(from, to, end) == [op |-> "range", from |-> from, to |-> to, end |-> end]
EndOf(head) == [op |-> "end", head |-> head]
BreakTo(end) == [op |-> "break", end |-> end]
Tmpl(nodes, decodes) == [file |-> "template", nodes |-> nodes, decodes |-> decodes]

Missing == [file |-> "missing"]
Malformed == [file |-> "malformed"]
Plain == Tmpl(<<Op("emit")>>, "logs")
Nested == Tmpl(<<RangeOf(0, 1, 6), Op("emit"), RangeOf(1, 2, 5), Op("emit"), EndOf(3),
                 EndOf(1), Op("emit")>>, "logs")
InTurn == Tmpl(<<RangeOf(1, 3, 3), Op("emit"), EndOf(1),
                 RangeOf(1, 0, 6), Op("emit"), EndOf(4)>>, "logs")
Leaving == Tmpl(<<RangeOf(1, 2, 4), BreakTo(4), Op("emit"), EndOf(1)>>, "logs")
Calling == Tmpl(<<RangeOf(1, 2, 4), Op("call"), Op("emit"), EndOf(1)>>, "logs")
NoLogs == Tmpl(<<Op("emit")>>, "no logs")
Garbage == Tmpl(<<Op("emit")>>, "garbage")

MCFileSets ==
    {<<Missing, t, Missing>> : t \in {Plain, Nested, InTurn, Leaving, Calling, NoLogs, Garbage}}
    \cup {<<Malformed, Missing, Nested>>, <<InTurn, Garbage, Missing>>,
          <<Missing, Malformed, Missing>>}
=============================================================================
