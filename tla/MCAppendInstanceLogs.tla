------------------------ MODULE MCAppendInstanceLogs ------------------------
(***************************************************************************)
(* A small profile, needles and resources for AppendInstanceLogs.          *)
(***************************************************************************)
EXTENDS AppendInstanceLogs

CONSTANTS g1, g2

LOCAL INSTANCE TLC

Plain(letters) == [letters |-> letters, spaces |-> FALSE]

\* An INFO template with an attribute from a URL argument, an optional one and
\* one whose key is taken already; a WARN template with a rare attribute that
\* replaces its own; none for the ERROR records that its weights ask for; and a
\* long tail.
WebProfile ==
    [weights |-> <<0, 0, 50, 99, 100, 100>>,
     messages |->
        <<[severity |-> "INFO", args |-> <<{"/a/1"}>>, fromArg |-> "url" :> 1,
           attrs |-> <<[key |-> "user", values |-> {Nil, "u"}],
                       [key |-> "url", values |-> {"unused"}]>>,
           rare |-> <<>>],
          [severity |-> "WARN", args |-> <<>>, fromArg |-> [k \in {} |-> 0],
           attrs |-> <<[key |-> "status", values |-> {"500"}]>>,
           rare |-> <<[key |-> "status", values |-> {"503"}]>>]>>,
     routes |-> "/a/1" :> "/a/{id}",
     longTail |-> {NoAttrs, "zone" :> "z"},
     trace |-> TRUE]

TwoNeedles ==
    <<[name |-> "n1", severity |-> Plain("FATAL"), rate |-> "sometimes",
       attrs |-> "status" :> "504"],
      [name |-> "n2", severity |-> Plain(""), rate |-> "sometimes",
       attrs |-> "cause" :> "c"]>>

Pod(app, node) == "service.name" :> app @@ "k8s.node.name" :> node
TwoPodsAndOne == g1 :> <<Pod("web", "a"), Pod("web", "b")>> @@ g2 :> <<Pod("api", "a")>>
=============================================================================
