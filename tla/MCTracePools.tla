---------------------------- MODULE MCTracePools ----------------------------
(***************************************************************************)
(* The pools of the application profiles for TracePools: of each range of  *)
(* targets the smallest and the largest, of each range of lengths the      *)
(* shortest and the longest.  The largest error messages, up to 80000      *)
(* bytes, are cut to 4000: beyond that, units only repeat.                 *)
(***************************************************************************)
EXTENDS TracePools

LOCAL INSTANCE FiniteSetsExt

Bytes ==
    [GoStackTrace |-> {800, 2500, 8500},
     JavaStackTrace |-> {220, 1500, 2000, 8500},
     MySQLCrashTrace |-> {500, 5000},
     NginxErrorDetails |-> {1500, 8000},
     LargeJSONPayload |-> {800, 3000},
     SQLExplainPlan |-> {600, 2500},
     RedisSlowlogOutput |-> {600, 2500},
     RedisCrashReport |-> {1500, 2500, 8500},
     LargeErrorMessage |-> {200, 2000, 4000}]

ProfilePools ==
    UNION {{[text |-> t, minBytes |-> n, maxBytes |-> n] : n \in Bytes[t]} :
              t \in DOMAIN Bytes}

Ends(S) == IF S = {} THEN {} ELSE {Min(S), Max(S)}

ShortestAndLongest ==
    [b \in Builders |-> [p \in Pieces |-> Ends(Text(b)[p])]]
=============================================================================
