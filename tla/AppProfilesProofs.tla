------------------------- MODULE AppProfilesProofs -------------------------
(***************************************************************************)
(* What holds of the records of the application profiles, for every list   *)
(* of networks, host number, weights and roll.  Three things are at the    *)
(* bottom of it: what the tables of templates are like, template by        *)
(* template (Tables); what is left of a template that is cut down to the   *)
(* watched key (CutIs, Apart); and what the steps of LogGen make of that   *)
(* (GeneratedIs).                                                          *)
(***************************************************************************)
EXTENDS AppProfiles, FoldLemmas, TLAPS

(***************************************************************************)
(* Lists of words: placeholders, kinds of arguments, keys.                 *)
(***************************************************************************)
TableKeys ==
    {"net.peer.ip", "net.peer.port", "http.url", "http.status_code",
     "http.response.body.size", "user_agent.original", "db.name", "db.sql.table", "db.user",
     "rpc.service", "rpc.method", "messaging.destination.name",
     "http.method", "http.flavor", "http.request.body.size", "db.system",
     "db.operation.name", "telemetry.sdk.language", "rpc.system", "messaging.system"}
Vocabulary ==
    {S, D, X, Q} \cup ArgKinds \cup TableKeys
    \cup ToSet(InfoAttrs) \cup ToSet(InfoRare) \cup ToSet(HealthAttrs) \cup ToSet(DebugAttrs)
    \cup ToSet(FailureAttrs) \cup ToSet(FatalAttrs) \cup {"resolution_type"}
Words == Seq(Vocabulary)

(***************************************************************************)
(* Placeholders, kinds of arguments and keys of tables are words.          *)
(***************************************************************************)
LEMMA Spelled ==
    /\ {S, D, X, Q} \subseteq Vocabulary /\ ArgKinds \subseteq Vocabulary
    /\ TableKeys \subseteq Vocabulary
  BY DEF Vocabulary

(***************************************************************************)
(* The words in a list, by their indices.                                  *)
(***************************************************************************)
LEMMA WordSet == \A w \in Words : ToSet(w) = {w[i] : i \in 1..Len(w)}
<1> SUFFICES ASSUME NEW w \in Words PROVE ToSet(w) = {w[i] : i \in 1..Len(w)}
  OBVIOUS
<1>1. DOMAIN w = 1..Len(w)
  BY DEF Words
<1> QED
  BY <1>1 DEF ToSet

(***************************************************************************)
(* Length, domain and elements of two lists put together.                  *)
(***************************************************************************)
LEMMA WordsJoined ==
    ASSUME NEW s \in Words, NEW t \in Words
    PROVE  /\ s \o t \in Words
           /\ Len(s) \in Nat /\ Len(t) \in Nat /\ Len(s \o t) = Len(s) + Len(t)
           /\ DOMAIN s = 1..Len(s)
           /\ \A i \in 1..Len(s) : (s \o t)[i] = s[i]
           /\ \A i \in 1..Len(t) : (s \o t)[Len(s) + i] = t[i]
           /\ \A i \in 1..Len(s \o t) :
                 \/ i \in 1..Len(s) /\ (s \o t)[i] = s[i]
                 \/ i - Len(s) \in 1..Len(t) /\ (s \o t)[i] = t[i - Len(s)]
  BY DEF Words

(***************************************************************************)
(* Placeholders that take their arguments, in a part of a body.            *)
(***************************************************************************)
Matches(format, args) ==
    /\ format \in Words /\ args \in Words /\ Len(format) = Len(args)
    /\ \A j \in 1..Len(format) : /\ args[j] \in ArgKinds
                                 /\ format[j] \in {D, X} => args[j] \in Numbers

(***************************************************************************)
(* Two parts of a body that match their arguments match them together.     *)
(***************************************************************************)
LEMMA MatchesJoined ==
    ASSUME NEW f, NEW a, NEW g, NEW b, Matches(f, a), Matches(g, b)
    PROVE  Matches(f \o g, a \o b)
<1>1. /\ f \in Words /\ a \in Words /\ g \in Words /\ b \in Words
      /\ Len(f) = Len(a) /\ Len(g) = Len(b)
  BY DEF Matches
<1>2. PICK h, c : h = f \o g /\ c = a \o b
  OBVIOUS
<1>3. h \in Words /\ c \in Words /\ Len(h) = Len(c) /\ Len(h) = Len(f) + Len(g)
  <2>1. h \in Words /\ Len(h) = Len(f) + Len(g)
    BY <1>1, <1>2, WordsJoined
  <2>2. c \in Words /\ Len(c) = Len(a) + Len(b)
    BY <1>1, <1>2, WordsJoined
  <2> QED
    BY <1>1, <2>1, <2>2
<1>4. ASSUME NEW j \in 1..Len(h)
      PROVE  c[j] \in ArgKinds /\ (h[j] \in {D, X} => c[j] \in Numbers)
  <2>1. \/ j \in 1..Len(f) /\ h[j] = f[j]
        \/ j - Len(f) \in 1..Len(g) /\ h[j] = g[j - Len(f)]
    BY <1>1, <1>2, WordsJoined, ZenonT(60)
  <2>2. CASE j \in 1..Len(f) /\ h[j] = f[j]
    <3>1. c[j] = a[j]
      BY <1>1, <1>2, <2>2, WordsJoined
    <3> QED
      BY <1>4, <2>2, <3>1 DEF Matches
  <2>3. CASE j - Len(f) \in 1..Len(g) /\ h[j] = g[j - Len(f)]
    <3>0. j - Len(f) \in 1..Len(b)
      BY <1>1, <2>3
    <3>1. c[Len(a) + (j - Len(f))] = b[j - Len(f)]
      BY <1>1, <1>2, <3>0, WordsJoined
    <3>2. Len(a) + (j - Len(f)) = j
      BY <1>1, WordsJoined
    <3> QED
      BY <1>4, <2>3, <3>1, <3>2 DEF Matches
  <2> QED
    BY <2>1, <2>2, <2>3
<1> QED
  BY <1>2, <1>3, <1>4 DEF Matches

(***************************************************************************)
(* Keys of which none comes twice.                                         *)
(***************************************************************************)
Distinct(list) ==
    list \in Words /\ \A i, j \in 1..Len(list) : list[i] = list[j] => i = j

(***************************************************************************)
(* Lists of keys without a common one have each key once together.         *)
(***************************************************************************)
LEMMA DistinctJoined ==
    ASSUME NEW s, NEW t, Distinct(s), Distinct(t), ToSet(s) \cap ToSet(t) = {}
    PROVE  Distinct(s \o t) /\ ToSet(s \o t) = ToSet(s) \cup ToSet(t)
<1>1. s \in Words /\ t \in Words
  BY DEF Distinct
<1>2. PICK u : u = s \o t
  OBVIOUS
<1>3. /\ u \in Words /\ Len(s) \in Nat /\ Len(t) \in Nat /\ Len(u) = Len(s) + Len(t)
      /\ \A i \in 1..Len(s) : u[i] = s[i]
      /\ \A i \in 1..Len(t) : u[Len(s) + i] = t[i]
      /\ \A i \in 1..Len(u) :
            \/ i \in 1..Len(s) /\ u[i] = s[i]
            \/ i - Len(s) \in 1..Len(t) /\ u[i] = t[i - Len(s)]
  BY <1>1, <1>2, WordsJoined, ZenonT(60)
<1>4. /\ ToSet(s) = {s[i] : i \in 1..Len(s)} /\ ToSet(t) = {t[i] : i \in 1..Len(t)}
      /\ ToSet(u) = {u[i] : i \in 1..Len(u)}
  BY <1>1, <1>3, WordSet
<1>5. ToSet(u) = ToSet(s) \cup ToSet(t)
  <2>1. \A i \in 1..Len(t) : Len(s) + i \in 1..Len(u)
    BY <1>3
  <2>2. \A i \in 1..Len(s) : i \in 1..Len(u)
    BY <1>3
  <2>3. ToSet(s) \cup ToSet(t) \subseteq ToSet(u)
    BY <1>3, <1>4, <2>1, <2>2
  <2>4. ASSUME NEW x \in ToSet(u) PROVE x \in ToSet(s) \cup ToSet(t)
    <3>1. PICK i \in 1..Len(u) : x = u[i]
      BY <1>4
    <3> QED
      BY <1>3, <1>4, <3>1
  <2> QED
    BY <2>3, <2>4
<1>6. ASSUME NEW i \in 1..Len(u), NEW j \in 1..Len(u), u[i] = u[j] PROVE i = j
  <2>1. CASE i \in 1..Len(s) /\ u[i] = s[i] /\ j \in 1..Len(s) /\ u[j] = s[j]
    BY <1>6, <2>1 DEF Distinct
  <2>2. CASE i - Len(s) \in 1..Len(t) /\ u[i] = t[i - Len(s)] /\ j - Len(s) \in 1..Len(t)
          /\ u[j] = t[j - Len(s)]
    <3>1. i - Len(s) = j - Len(s)
      BY <1>6, <2>2 DEF Distinct
    <3> QED
      BY <1>3, <3>1
  <2>3. ASSUME NEW k \in 1..Len(s), NEW l \in 1..Len(t) PROVE s[k] # t[l]
    BY <1>4
  <2> QED
    BY <1>3, <1>6, <2>1, <2>2, <2>3
<1> QED
  BY <1>2, <1>3, <1>5, <1>6 DEF Distinct

(***************************************************************************)
(* The attributes taken from arguments take what their keys name, but for  *)
(* the keys in K; shift arguments come before those of the list.           *)
(***************************************************************************)
Points(args, fromArg, shift, K) ==
    \A k \in DOMAIN fromArg :
        /\ fromArg[k] \in Nat
        /\ fromArg[k] - shift + 1 \in 1..Len(args)
        /\ k \in K \/ args[fromArg[k] - shift + 1] \in Kinds(k)

(***************************************************************************)
(* Arguments that come first shift the indices of the others.              *)
(***************************************************************************)
LEMMA PointsJoined ==
    ASSUME NEW p \in Words, NEW args \in Words, NEW fromArg, NEW K,
           Points(args, fromArg, Len(p), K)
    PROVE  Points(p \o args, fromArg, 0, K)
<1> SUFFICES ASSUME NEW k \in DOMAIN fromArg
             PROVE  /\ fromArg[k] \in Nat
                    /\ fromArg[k] - 0 + 1 \in 1..Len(p \o args)
                    /\ k \in K \/ (p \o args)[fromArg[k] - 0 + 1] \in Kinds(k)
  BY DEF Points
<1>1. PICK i : /\ i = fromArg[k] - Len(p) + 1 /\ i \in 1..Len(args)
               /\ k \in K \/ args[i] \in Kinds(k)
               /\ fromArg[k] \in Nat
  BY DEF Points
<1>2. /\ Len(p) \in Nat /\ Len(args) \in Nat /\ Len(p \o args) = Len(p) + Len(args)
      /\ (p \o args)[Len(p) + i] = args[i]
  BY <1>1, WordsJoined
<1>3. Len(p) + i = fromArg[k] - 0 + 1
  BY <1>1, <1>2
<1> QED
  BY <1>1, <1>2, <1>3

(***************************************************************************)
(* Nothing in the body is what one of the keys names.                      *)
(***************************************************************************)
Silent(args, keys) == \A k \in keys : \A j \in 1..Len(args) : args[j] \notin Kinds(k)

(***************************************************************************)
(* What is in neither part of the arguments is not in both together.       *)
(***************************************************************************)
LEMMA SilentJoined ==
    ASSUME NEW p \in Words, NEW args \in Words, NEW keys,
           Silent(p, keys), Silent(args, keys)
    PROVE  Silent(p \o args, keys)
<1>1. ASSUME NEW k \in keys, NEW j \in 1..Len(p \o args) PROVE (p \o args)[j] \notin Kinds(k)
  <2>1. \/ j \in 1..Len(p) /\ (p \o args)[j] = p[j]
        \/ j - Len(p) \in 1..Len(args) /\ (p \o args)[j] = args[j - Len(p)]
    BY WordsJoined
  <2> QED
    BY <2>1 DEF Silent
<1> QED
  BY <1>1 DEF Silent

KindKeys ==
    {"net.peer.ip", "net.peer.port", "http.url", "http.status_code",
     "http.response.body.size", "user_agent.original", "db.name", "db.sql.table", "db.user",
     "rpc.service", "rpc.method", "messaging.destination.name"}

(***************************************************************************)
(* A body says nothing about keys that name nothing in it.                 *)
(***************************************************************************)
LEMMA SilentKeys ==
    ASSUME NEW args, NEW keys, keys \cap KindKeys = {}
    PROVE  Silent(args, keys)
<1>1. \A k \in keys : Kinds(k) = {}
  BY DEF Kinds, KindKeys
<1> QED
  BY <1>1 DEF Silent

(***************************************************************************)
(* The keys of the tables are none of the long tail's or the error         *)
(* message's.                                                              *)
(***************************************************************************)
SystemKeys == LongTailKeys \cup ToSet(ErrorMessageAttrs)

(***************************************************************************)
(* The keys of the templates are none of the long tail or of               *)
(* error.message.                                                          *)
(***************************************************************************)
LEMMA TableKeysOwn == TableKeys \cap SystemKeys = {}
  BY DEF TableKeys, KindKeys, SystemKeys, LongTailKeys, ErrorMessageAttrs, ToSet

(***************************************************************************)
(* What the proofs need of a template; K are the keys of attributes that   *)
(* do not agree with its body.                                             *)
(***************************************************************************)
Sound(m, K) ==
    /\ m.format \in Words /\ m.args \in Words
    /\ Len(m.format) <= Len(m.args) /\ Len(m.args) <= MaxArgs
    /\ \A j \in 1..Len(m.args) : m.args[j] \in ArgKinds
    /\ Distinct(m.attrs) /\ Distinct(m.rare)
    /\ ToSet(m.attrs) \cap ToSet(m.rare) = {}
    /\ DOMAIN m.fromArg \cap (ToSet(m.attrs) \cup ToSet(m.rare)) = {}
    /\ (DOMAIN m.fromArg \cup ToSet(m.attrs) \cup ToSet(m.rare)) \cap SystemKeys = {}
    /\ Points(m.args, m.fromArg, 0, K)
    /\ Silent(m.args, (ToSet(m.attrs) \cup ToSet(m.rare)) \ K)
Good(m, K) == Sound(m, K) /\ Matches(m.format, m.args)

(***************************************************************************)
(* The empty list is a list of words, of which none comes twice.           *)
(***************************************************************************)
LEMMA NoWords == <<>> \in Words /\ Len(<<>>) = 0 /\ Distinct(<<>>) /\ ToSet(<<>>) = {}
  BY DEF Words, Distinct, ToSet

(***************************************************************************)
(* A template made by Msg is sound when its parts are.                     *)
(***************************************************************************)
LEMMA MsgSound ==
    ASSUME NEW sev, NEW f \in Words, NEW a \in Words, NEW from, NEW at, NEW K,
           Len(f) <= Len(a), Len(a) <= MaxArgs, \A j \in 1..Len(a) : a[j] \in ArgKinds,
           Distinct(at),
           DOMAIN from \cap ToSet(at) = {},
           DOMAIN from \cup ToSet(at) \subseteq TableKeys,
           Points(a, from, 0, K), Silent(a, ToSet(at) \ K)
    PROVE  Sound(Msg(sev, f, a, from, at), K)
<1>1. PICK m : m = Msg(sev, f, a, from, at)
  OBVIOUS
<1>2. m.format = f /\ m.args = a /\ m.fromArg = from /\ m.attrs = at /\ m.rare = <<>>
  BY <1>1 DEF Msg
<1>3. DOMAIN from \cap SystemKeys = {} /\ ToSet(at) \cap SystemKeys = {}
  BY TableKeysOwn
<1>4. Sound(m, K)
  BY <1>2, <1>3, NoWords DEF Sound
<1> QED
  BY <1>1, <1>4

(***************************************************************************)
(* The same with a prefix p of the body with arguments q, and attributes r *)
(* before those of the template.                                           *)
(***************************************************************************)
Prefix(p, q, r) ==
    /\ Matches(p, q) /\ Distinct(r) /\ ToSet(r) \subseteq TableKeys \ KindKeys

(***************************************************************************)
(* A template whose body begins with p, with the arguments q, and whose    *)
(* attributes begin with r, is good when the rest is.                      *)
(***************************************************************************)
LEMMA PrefixedGood ==
    ASSUME NEW p, NEW q, NEW r, Prefix(p, q, r),
           NEW sev, NEW f, NEW a, Matches(f, a), Len(q) + Len(a) <= MaxArgs,
           NEW from, NEW at, NEW K, DOMAIN from \subseteq KindKeys,
           Points(q \o a, from, 0, K),
           Distinct(at), ToSet(at) \subseteq TableKeys \ (DOMAIN from \cup ToSet(r)),
           Silent(q, ToSet(at) \ K), Silent(a, ToSet(at) \ K)
    PROVE  Good(Msg(sev, p \o f, q \o a, from, r \o at), K)
<1>1. PICK g, b, u : g = p \o f /\ b = q \o a /\ u = r \o at
  OBVIOUS
<1>2. /\ p \in Words /\ q \in Words /\ f \in Words /\ a \in Words
      /\ Matches(p, q) /\ Distinct(r) /\ ToSet(r) \subseteq TableKeys \ KindKeys
  BY DEF Matches, Prefix
<1>3. Matches(g, b) /\ g \in Words /\ b \in Words /\ Len(g) = Len(b)
  <2>1. Matches(g, b)
    BY <1>1, <1>2, MatchesJoined
  <2> QED
    BY <2>1 DEF Matches
<1>4. Len(b) = Len(q) + Len(a) /\ Len(b) \in Nat
  BY <1>1, <1>2, WordsJoined
<1>5. Distinct(u) /\ ToSet(u) = ToSet(r) \cup ToSet(at)
  <2>1. ToSet(r) \cap ToSet(at) = {}
    OBVIOUS
  <2> QED
    BY <1>1, <1>2, <2>1, DistinctJoined
<1>6. Points(b, from, 0, K)
  BY <1>1
<1>7. Silent(b, ToSet(u) \ K)
  <2>1. Silent(b, ToSet(at) \ K)
    BY <1>1, <1>2, SilentJoined
  <2>2. Silent(b, ToSet(r))
    <3>1. ToSet(r) \cap KindKeys = {}
      BY <1>2
    <3> QED
      BY <3>1, SilentKeys
  <2> QED
    BY <1>5, <2>1, <2>2 DEF Silent
<1>8. DOMAIN from \cap ToSet(u) = {} /\ DOMAIN from \cup ToSet(u) \subseteq TableKeys
  <2>1. KindKeys \subseteq TableKeys
    BY DEF TableKeys, KindKeys
  <2> QED
    BY <1>2, <1>5, <2>1
<1>9. Sound(Msg(sev, g, b, from, u), K)
  <2>1. /\ Len(g) <= Len(b) /\ Len(b) <= MaxArgs
        /\ \A j \in 1..Len(b) : b[j] \in ArgKinds
    BY <1>3, <1>4 DEF Matches
  <2> QED
    BY <1>3, <1>5, <1>6, <1>7, <1>8, <2>1, MsgSound
<1>10. Matches(Msg(sev, g, b, from, u).format, Msg(sev, g, b, from, u).args)
  BY <1>3 DEF Msg
<1> QED
  BY <1>1, <1>9, <1>10 DEF Good

(***************************************************************************)
(* A template that takes no attribute from an argument, and whose own      *)
(* attributes name nothing a body prints, is good.                         *)
(***************************************************************************)
LEMMA PlainGood ==
    ASSUME NEW p, NEW q, Matches(p, q), NEW f, NEW a, Matches(f, a),
           Len(q) + Len(a) <= MaxArgs,
           NEW sev, NEW at, Distinct(at), ToSet(at) \subseteq TableKeys \ KindKeys
    PROVE  Good(Msg(sev, p \o f, q \o a, None, at), {})
<1>1. PICK g, b : g = p \o f /\ b = q \o a
  OBVIOUS
<1>2. p \in Words /\ q \in Words /\ f \in Words /\ a \in Words
  BY DEF Matches
<1>3. Matches(g, b) /\ g \in Words /\ b \in Words /\ Len(g) = Len(b)
  <2>1. Matches(g, b)
    BY <1>1, MatchesJoined
  <2> QED
    BY <2>1 DEF Matches
<1>4. Len(b) = Len(q) + Len(a) /\ Len(b) \in Nat
  BY <1>1, <1>2, WordsJoined
<1>5. Points(b, None, 0, {}) /\ DOMAIN None = {}
  BY DEF Points, None
<1>6. Silent(b, ToSet(at) \ {})
  BY SilentKeys
<1>7. Sound(Msg(sev, g, b, None, at), {})
  <2>1. /\ Len(g) <= Len(b) /\ Len(b) <= MaxArgs
        /\ \A j \in 1..Len(b) : b[j] \in ArgKinds
    BY <1>3, <1>4 DEF Matches
  <2>2. DOMAIN None \cap ToSet(at) = {} /\ DOMAIN None \cup ToSet(at) \subseteq TableKeys
    BY <1>5
  <2> QED
    BY <1>3, <1>5, <1>6, <2>1, <2>2, MsgSound
<1>8. Matches(Msg(sev, g, b, None, at).format, Msg(sev, g, b, None, at).args)
  BY <1>3 DEF Msg
<1> QED
  BY <1>1, <1>7, <1>8 DEF Good

(***************************************************************************)
(* Text and numbers are no key's.                                          *)
(***************************************************************************)
LEMMA TextSilent == \A k : "text" \notin Kinds(k) /\ "int" \notin Kinds(k)
  BY DEF Kinds

(***************************************************************************)
(* mysql.                                                                  *)
(***************************************************************************)
LEMMA MySQLPrefix ==
    /\ Prefix(<<S, D, S>>, <<"text", "int", "text">>, <<"db.system">>)
    /\ <<"text", "int", "text">> \in Words /\ Len(<<"text", "int", "text">>) = 3
    /\ \A keys : Silent(<<"text", "int", "text">>, keys)
    /\ ToSet(<<"db.system">>) = {"db.system"}
<1>1. Matches(<<S, D, S>>, <<"text", "int", "text">>)
  BY Spelled DEF Matches, ArgKinds, S, D, X, Numbers, Words
<1>2. Distinct(<<"db.system">>) /\ ToSet(<<"db.system">>) = {"db.system"}
  BY Spelled DEF TableKeys, Distinct, Words, ToSet
<1>3. "db.system" \in TableKeys \ KindKeys
  BY DEF TableKeys, KindKeys
<1>4. \A keys : Silent(<<"text", "int", "text">>, keys)
  BY TextSilent DEF Silent
<1>5. <<"text", "int", "text">> \in Words /\ Len(<<"text", "int", "text">>) = 3
  BY Spelled DEF ArgKinds, Words
<1>6. ToSet(<<"db.system">>) \subseteq TableKeys \ KindKeys
  BY <1>2, <1>3
<1> QED
  BY <1>1, <1>2, <1>4, <1>5, <1>6 DEF Prefix

(***************************************************************************)
(* A template of mysql: its body begins with time, thread and host, its    *)
(* attributes with db.system.                                              *)
(***************************************************************************)
LEMMA MySQLLineGood ==
    ASSUME NEW sev, NEW f, NEW a, Matches(f, a), Len(a) <= 13,
           NEW from, NEW at, NEW K, DOMAIN from \subseteq KindKeys, Points(a, from, 3, K),
           Distinct(at), ToSet(at) \subseteq TableKeys \ (DOMAIN from \cup {"db.system"}),
           Silent(a, ToSet(at) \ K)
    PROVE  Good(MySQLLine(sev, f, a, from, at), K)
<1>1. PICK p, q, r : p = <<S, D, S>> /\ q = <<"text", "int", "text">> /\ r = <<"db.system">>
  OBVIOUS
<1>2. /\ Prefix(p, q, r) /\ q \in Words /\ Len(q) = 3 /\ \A keys : Silent(q, keys)
      /\ ToSet(r) = {"db.system"}
  BY <1>1, MySQLPrefix
<1>3. a \in Words /\ Len(a) \in Nat /\ Len(q) + Len(a) <= MaxArgs
  <2>1. a \in Words
    BY DEF Matches
  <2>2. Len(a) \in Nat
    BY <2>1, WordsJoined
  <2> QED
    BY <1>2, <2>1, <2>2 DEF MaxArgs
<1>4. Points(q \o a, from, 0, K)
  BY <1>2, <1>3, PointsJoined
<1>5. Good(Msg(sev, p \o f, q \o a, from, r \o at), K)
  <2>1. Silent(q, ToSet(at) \ K)
    BY <1>2
  <2>2. ToSet(at) \subseteq TableKeys \ (DOMAIN from \cup ToSet(r))
    BY <1>2
  <2> QED
    BY <1>2, <1>3, <1>4, <2>1, <2>2, PrefixedGood
<1> QED
  BY <1>1, <1>5 DEF MySQLLine

(***************************************************************************)
(* A template that takes no attribute from an argument takes none from a   *)
(* wrong one.                                                              *)
(***************************************************************************)
LEMMA NothingPointed == \A args, shift, K : Points(args, None, shift, K) /\ DOMAIN None = {}
  BY DEF Points, None

(***************************************************************************)
(* A template of mysql without attributes of its own.                      *)
(***************************************************************************)
LEMMA MySQLNoteGood ==
    ASSUME NEW sev, NEW f, NEW a, Matches(f, a), Len(a) <= 13
    PROVE  Good(MySQLNote(sev, f, a), {})
<1>1. Points(a, None, 3, {}) /\ DOMAIN None = {}
  BY NothingPointed
<1>2. Distinct(<<>>) /\ ToSet(<<>>) = {}
  BY NoWords
<1>3. Silent(a, ToSet(<<>>) \ {})
  BY <1>2, SilentKeys
<1>4. DOMAIN None \subseteq KindKeys
        /\ ToSet(<<>>) \subseteq TableKeys \ (DOMAIN None \cup {"db.system"})
  BY <1>1, <1>2
<1>5. Good(MySQLLine(sev, f, a, None, <<>>), {})
  BY <1>1, <1>2, <1>3, <1>4, MySQLLineGood
<1> QED
  BY <1>5 DEF MySQLNote

Short(f, a) == Matches(f, a) /\ Len(a) \in 0..8

(***************************************************************************)
(* The bodies of the tables after their common beginnings: each            *)
(* placeholder takes an argument that it can print.                        *)
(***************************************************************************)
LEMMA Bodies ==
    /\ Short(<<S, D, D, S>>, <<"route", "status", "bytes", "agent">>)
    /\ Short(<<S, D, D, S, S>>, <<"url", "status", "bytes", "text", "agent">>)
    /\ Short(<<>>, <<>>)
    /\ Short(<<S, S, S>>, <<"text", "text", "agent">>)
    /\ Short(<<D, D, S>>, <<"int", "bytes", "agent">>)
    /\ Short(<<S, D, D, S>>, <<"url", "status", "bytes", "agent">>)
    /\ Short(<<S, D, D, S>>, <<"text", "status", "bytes", "agent">>)
    /\ Short(<<S>>, <<"text">>)
    /\ Short(<<S, S, S, S, D, S>>, Upstream)
    /\ Short(<<S, S, S>>, <<"text", "ip", "text">>)
    /\ Short(<<S, S>>, <<"ip", "text">>)
    /\ Short(<<S, S, S>>, <<"ip", "text", "url">>)
    /\ Short(<<S, S, S, S, D, S, S>>, Append(Upstream, "text"))
    /\ Short(<<S, S, S>>, <<"ip", "text", "text">>)
    /\ Short(<<D>>, <<"port">>)
    /\ Short(<<S, S>>, <<"text", "text">>)
    /\ Short(<<D, S>>, <<"port", "text">>)
    /\ Short(<<D, S, S, S>>, <<"int", "db", "user", "ip">>)
    /\ Short(<<D, D>>, <<"int", "int">>)
    /\ Short(<<S, S>>, <<"db", "table">>)
    /\ Short(<<S, S, S>>, <<"db", "table", "text">>)
    /\ Short(<<D, D, S, S, S>>, <<"int", "int", "db", "table", "text">>)
    /\ Short(<<D>>, <<"int">>)
    /\ Short(<<D, S>>, <<"int", "text">>)
    /\ Short(<<D, D, D>>, <<"int", "int", "int">>)
    /\ Short(<<S, D>>, <<"ip", "port">>)
    /\ Short(<<S, D, S, D>>, <<"ip", "port", "text", "port">>)
    /\ Short(<<X, S>>, <<"int", "text">>)
    /\ Short(<<S, S, D, D, S>>, <<"text", "url", "status", "int", "text">>)
    /\ Short(<<S, S>>, <<"text", "db">>)
    /\ Short(<<S, S, D>>, <<"text", "queue", "int">>)
    /\ Short(<<S, S, S>>, <<"text", "url", "text">>)
    /\ Short(<<S, S, S, S>>, <<"text", "url", "agent", "text">>)
    /\ Short(<<S, S, Q, S>>, <<"text", "url", "text", "text">>)
    /\ Short(<<S, Q, S>>, <<"url", "text", "text">>)
    /\ Short(<<S, S, D>>, <<"text", "url", "int">>)
    /\ Short(<<S, S, S, S>>, <<"text", "url", "text", "text">>)
    /\ Short(<<S, S, D>>, <<"table", "text", "int">>)
    /\ Short(<<S, S, S>>, <<"text", "text", "text">>)
    /\ Short(<<S, S, S>>, <<"table", "text", "text">>)
    /\ Short(<<S, S, S>>, <<"service", "text", "text">>)
    /\ Short(<<S, D, D, D>>, <<"text", "int", "int", "int">>)
    /\ Short(<<S, D, D>>, <<"text", "int", "int">>)
    /\ Short(<<D, S, S>>, <<"int", "text", "text">>)
    /\ Short(<<S, D>>, <<"text", "int">>)
    /\ Short(<<S, S>>, <<"service", "method">>)
    /\ Short(<<S, D, S>>, <<"text", "int", "text">>)
<1>1. Short(<<S, D, D, S>>, <<"route", "status", "bytes", "agent">>)
  BY Spelled DEF Short, Matches, ArgKinds, S, D, X, Q, Numbers, Words
<1>2. Short(<<S, D, D, S, S>>, <<"url", "status", "bytes", "text", "agent">>)
  BY Spelled DEF Short, Matches, ArgKinds, S, D, X, Q, Numbers, Words
<1>3. Short(<<>>, <<>>)
  BY Spelled DEF Short, Matches, ArgKinds, S, D, X, Q, Numbers, Words
<1>4. Short(<<S, S, S>>, <<"text", "text", "agent">>)
  BY Spelled DEF Short, Matches, ArgKinds, S, D, X, Q, Numbers, Words
<1>5. Short(<<D, D, S>>, <<"int", "bytes", "agent">>)
  BY Spelled DEF Short, Matches, ArgKinds, S, D, X, Q, Numbers, Words
<1>6. Short(<<S, D, D, S>>, <<"url", "status", "bytes", "agent">>)
  BY Spelled DEF Short, Matches, ArgKinds, S, D, X, Q, Numbers, Words
<1>7. Short(<<S, D, D, S>>, <<"text", "status", "bytes", "agent">>)
  BY Spelled DEF Short, Matches, ArgKinds, S, D, X, Q, Numbers, Words
<1>8. Short(<<S>>, <<"text">>)
  BY Spelled DEF Short, Matches, ArgKinds, S, D, X, Q, Numbers, Words
<1>9. Short(<<S, S, S, S, D, S>>, Upstream)
  BY Spelled DEF Short, Matches, ArgKinds, S, D, X, Q, Numbers, Words, Upstream
<1>10. Short(<<S, S, S>>, <<"text", "ip", "text">>)
  BY Spelled DEF Short, Matches, ArgKinds, S, D, X, Q, Numbers, Words
<1>11. Short(<<S, S>>, <<"ip", "text">>)
  BY Spelled DEF Short, Matches, ArgKinds, S, D, X, Q, Numbers, Words
<1>12. Short(<<S, S, S>>, <<"ip", "text", "url">>)
  BY Spelled DEF Short, Matches, ArgKinds, S, D, X, Q, Numbers, Words
<1>13. Short(<<S, S, S, S, D, S, S>>, Append(Upstream, "text"))
  BY Spelled DEF Short, Matches, ArgKinds, S, D, X, Q, Numbers, Words, Upstream
<1>14. Short(<<S, S, S>>, <<"ip", "text", "text">>)
  BY Spelled DEF Short, Matches, ArgKinds, S, D, X, Q, Numbers, Words
<1>15. Short(<<D>>, <<"port">>)
  BY Spelled DEF Short, Matches, ArgKinds, S, D, X, Q, Numbers, Words
<1>16. Short(<<S, S>>, <<"text", "text">>)
  BY Spelled DEF Short, Matches, ArgKinds, S, D, X, Q, Numbers, Words
<1>17. Short(<<D, S>>, <<"port", "text">>)
  BY Spelled DEF Short, Matches, ArgKinds, S, D, X, Q, Numbers, Words
<1>18. Short(<<D, S, S, S>>, <<"int", "db", "user", "ip">>)
  BY Spelled DEF Short, Matches, ArgKinds, S, D, X, Q, Numbers, Words
<1>19. Short(<<D, D>>, <<"int", "int">>)
  BY Spelled DEF Short, Matches, ArgKinds, S, D, X, Q, Numbers, Words
<1>20. Short(<<S, S>>, <<"db", "table">>)
  BY Spelled DEF Short, Matches, ArgKinds, S, D, X, Q, Numbers, Words
<1>21. Short(<<S, S, S>>, <<"db", "table", "text">>)
  BY Spelled DEF Short, Matches, ArgKinds, S, D, X, Q, Numbers, Words
<1>22. Short(<<D, D, S, S, S>>, <<"int", "int", "db", "table", "text">>)
  BY Spelled DEF Short, Matches, ArgKinds, S, D, X, Q, Numbers, Words
<1>23. Short(<<D>>, <<"int">>)
  BY Spelled DEF Short, Matches, ArgKinds, S, D, X, Q, Numbers, Words
<1>24. Short(<<D, S>>, <<"int", "text">>)
  BY Spelled DEF Short, Matches, ArgKinds, S, D, X, Q, Numbers, Words
<1>25. Short(<<D, D, D>>, <<"int", "int", "int">>)
  BY Spelled DEF Short, Matches, ArgKinds, S, D, X, Q, Numbers, Words
<1>26. Short(<<S, D>>, <<"ip", "port">>)
  BY Spelled DEF Short, Matches, ArgKinds, S, D, X, Q, Numbers, Words
<1>27. Short(<<S, D, S, D>>, <<"ip", "port", "text", "port">>)
  BY Spelled DEF Short, Matches, ArgKinds, S, D, X, Q, Numbers, Words
<1>28. Short(<<X, S>>, <<"int", "text">>)
  BY Spelled DEF Short, Matches, ArgKinds, S, D, X, Q, Numbers, Words
<1>29. Short(<<S, S, D, D, S>>, <<"text", "url", "status", "int", "text">>)
  BY Spelled DEF Short, Matches, ArgKinds, S, D, X, Q, Numbers, Words
<1>30. Short(<<S, S>>, <<"text", "db">>)
  BY Spelled DEF Short, Matches, ArgKinds, S, D, X, Q, Numbers, Words
<1>31. Short(<<S, S, D>>, <<"text", "queue", "int">>)
  BY Spelled DEF Short, Matches, ArgKinds, S, D, X, Q, Numbers, Words
<1>32. Short(<<S, S, S>>, <<"text", "url", "text">>)
  BY Spelled DEF Short, Matches, ArgKinds, S, D, X, Q, Numbers, Words
<1>33. Short(<<S, S, S, S>>, <<"text", "url", "agent", "text">>)
  BY Spelled DEF Short, Matches, ArgKinds, S, D, X, Q, Numbers, Words
<1>34. Short(<<S, S, Q, S>>, <<"text", "url", "text", "text">>)
  BY Spelled DEF Short, Matches, ArgKinds, S, D, X, Q, Numbers, Words
<1>35. Short(<<S, Q, S>>, <<"url", "text", "text">>)
  BY Spelled DEF Short, Matches, ArgKinds, S, D, X, Q, Numbers, Words
<1>36. Short(<<S, S, D>>, <<"text", "url", "int">>)
  BY Spelled DEF Short, Matches, ArgKinds, S, D, X, Q, Numbers, Words
<1>37. Short(<<S, S, S, S>>, <<"text", "url", "text", "text">>)
  BY Spelled DEF Short, Matches, ArgKinds, S, D, X, Q, Numbers, Words
<1>38. Short(<<S, S, D>>, <<"table", "text", "int">>)
  BY Spelled DEF Short, Matches, ArgKinds, S, D, X, Q, Numbers, Words
<1>39. Short(<<S, S, S>>, <<"text", "text", "text">>)
  BY Spelled DEF Short, Matches, ArgKinds, S, D, X, Q, Numbers, Words
<1>40. Short(<<S, S, S>>, <<"table", "text", "text">>)
  BY Spelled DEF Short, Matches, ArgKinds, S, D, X, Q, Numbers, Words
<1>41. Short(<<S, S, S>>, <<"service", "text", "text">>)
  BY Spelled DEF Short, Matches, ArgKinds, S, D, X, Q, Numbers, Words
<1>42. Short(<<S, D, D, D>>, <<"text", "int", "int", "int">>)
  BY Spelled DEF Short, Matches, ArgKinds, S, D, X, Q, Numbers, Words
<1>43. Short(<<S, D, D>>, <<"text", "int", "int">>)
  BY Spelled DEF Short, Matches, ArgKinds, S, D, X, Q, Numbers, Words
<1>44. Short(<<D, S, S>>, <<"int", "text", "text">>)
  BY Spelled DEF Short, Matches, ArgKinds, S, D, X, Q, Numbers, Words
<1>45. Short(<<S, D>>, <<"text", "int">>)
  BY Spelled DEF Short, Matches, ArgKinds, S, D, X, Q, Numbers, Words
<1>46. Short(<<S, S>>, <<"service", "method">>)
  BY Spelled DEF Short, Matches, ArgKinds, S, D, X, Q, Numbers, Words
<1>47. Short(<<S, D, S>>, <<"text", "int", "text">>)
  BY Spelled DEF Short, Matches, ArgKinds, S, D, X, Q, Numbers, Words
<1> QED
  BY <1>1, <1>2, <1>3, <1>4, <1>5, <1>6, <1>7, <1>8, <1>9, <1>10, <1>11, <1>12, <1>13,
     <1>14, <1>15, <1>16, <1>17, <1>18, <1>19, <1>20, <1>21, <1>22, <1>23, <1>24, <1>25,
     <1>26, <1>27, <1>28, <1>29, <1>30, <1>31, <1>32, <1>33, <1>34, <1>35, <1>36, <1>37,
     <1>38, <1>39, <1>40, <1>41, <1>42, <1>43, <1>44, <1>45, <1>46, <1>47

(***************************************************************************)
(* Two short parts of a body are no longer than the longest body.          *)
(***************************************************************************)
LEMMA ShortLengths ==
    ASSUME NEW p, NEW q, NEW f, NEW a, Short(p, q), Short(f, a)
    PROVE  /\ Matches(p, q) /\ Matches(f, a) /\ Len(q) + Len(a) <= MaxArgs
           /\ q \in Words /\ a \in Words /\ Len(q) \in 0..8 /\ Len(a) \in 0..8
<1>1. Matches(p, q) /\ Matches(f, a) /\ Len(q) \in 0..8 /\ Len(a) \in 0..8
  BY DEF Short
<1>2. Len(q) + Len(a) <= MaxArgs
  <2>1. PICK m \in 0..8, n \in 0..8 : m = Len(q) /\ n = Len(a)
    BY <1>1
  <2>2. m + n <= 16
    OBVIOUS
  <2> QED
    BY <2>1, <2>2, Zenon DEF MaxArgs
<1> QED
  BY <1>1, <1>2 DEF Matches

(***************************************************************************)
(* A template of the error log of nginx.                                   *)
(***************************************************************************)
LEMMA NginxLineGood ==
    ASSUME NEW sev, NEW f, NEW a, Short(f, a) PROVE Good(NginxLine(sev, f, a), {})
<1>1. PICK p, q : p = <<S, D, D, D>> /\ q = <<"text", "int", "int", "int">>
  OBVIOUS
<1>2. Short(p, q)
  BY <1>1, Bodies
<1>3. Matches(p, q) /\ Matches(f, a) /\ Len(q) + Len(a) <= MaxArgs
  BY <1>2, ShortLengths
<1>4. Distinct(<<>>) /\ ToSet(<<>>) \subseteq TableKeys \ KindKeys
  BY NoWords
<1>5. Good(Msg(sev, p \o f, q \o a, None, <<>>), {})
  BY <1>3, <1>4, PlainGood
<1> QED
  BY <1>1, <1>5 DEF NginxLine

(***************************************************************************)
(* A template of nginx that has no connection.                             *)
(***************************************************************************)
LEMMA NginxEmergGood ==
    ASSUME NEW f, NEW a, Short(f, a) PROVE Good(NginxEmerg(f, a), {})
<1>1. PICK p, q : p = <<S, D, D>> /\ q = <<"text", "int", "int">>
  OBVIOUS
<1>2. Short(p, q)
  BY <1>1, Bodies
<1>3. Matches(p, q) /\ Matches(f, a) /\ Len(q) + Len(a) <= MaxArgs
  BY <1>2, ShortLengths
<1>4. Distinct(<<>>) /\ ToSet(<<>>) \subseteq TableKeys \ KindKeys
  BY NoWords
<1>5. Good(Msg("FATAL", p \o f, q \o a, None, <<>>), {})
  BY <1>3, <1>4, PlainGood
<1> QED
  BY <1>1, <1>5 DEF NginxEmerg

(***************************************************************************)
(* A template of redis: its body begins with process and time, its         *)
(* attributes with db.system.                                              *)
(***************************************************************************)
LEMMA RedisLineGood ==
    ASSUME NEW sev, NEW f, NEW a, Short(f, a), NEW at, NEW K,
           Distinct(at), ToSet(at) \subseteq TableKeys \ {"db.system"},
           Silent(a, ToSet(at) \ K)
    PROVE  Good(RedisLine(sev, f, a, at), K)
<1>1. PICK p, q, r : p = <<D, S, S>> /\ q = <<"int", "text", "text">> /\ r = <<"db.system">>
  OBVIOUS
<1>2. Short(p, q) /\ Matches(p, q) /\ q \in Words
  BY <1>1, Bodies DEF Short, Matches
<1>3. Prefix(p, q, r) /\ ToSet(r) = {"db.system"}
  BY <1>1, <1>2, MySQLPrefix DEF Prefix
<1>4. Matches(f, a) /\ Len(q) + Len(a) <= MaxArgs /\ q \in Words
  BY <1>2, ShortLengths
<1>5. Points(q \o a, None, 0, K) /\ DOMAIN None = {}
  BY NothingPointed
<1>6. \A keys : Silent(q, keys)
  BY <1>1, TextSilent DEF Silent
<1>7. DOMAIN None \subseteq KindKeys
        /\ ToSet(at) \subseteq TableKeys \ (DOMAIN None \cup ToSet(r))
  BY <1>3, <1>5
<1>8. Good(Msg(sev, p \o f, q \o a, None, r \o at), K)
  <2>1. Silent(q, ToSet(at) \ K)
    BY <1>6
  <2> QED
    BY <1>3, <1>4, <1>5, <1>7, <2>1, PrefixedGood
<1> QED
  BY <1>1, <1>8 DEF RedisLine

(***************************************************************************)
(* A template of redis without attributes of its own.                      *)
(***************************************************************************)
LEMMA RedisNoteGood ==
    ASSUME NEW sev, NEW f, NEW a, Short(f, a) PROVE Good(RedisNote(sev, f, a), {})
<1>1. Distinct(<<>>) /\ ToSet(<<>>) = {}
  BY NoWords
<1>2. Silent(a, ToSet(<<>>) \ {})
  BY <1>1, SilentKeys
<1>3. ToSet(<<>>) \subseteq TableKeys \ {"db.system"}
  BY <1>1
<1>4. Good(RedisLine(sev, f, a, <<>>), {})
  BY <1>1, <1>2, <1>3, RedisLineGood
<1> QED
  BY <1>4 DEF RedisNote

(***************************************************************************)
(* Lists of one key.                                                       *)
(***************************************************************************)
LEMMA OneKey ==
    ASSUME NEW k \in TableKeys PROVE Distinct(<<k>>) /\ ToSet(<<k>>) = {k}
<1>1. <<k>> \in Words /\ Len(<<k>>) = 1
  BY Spelled DEF Words
<1> QED
  BY <1>1 DEF Distinct, ToSet

(***************************************************************************)
(* goapp.                                                                  *)
(***************************************************************************)
LEMMA GoAppTextGood ==
    ASSUME NEW sev, NEW f, NEW a, Matches(f, a), Len(a) \in 0..8
    PROVE  Good(GoAppText(sev, f, a), {})
<1>1. Matches(<<>>, <<>>) /\ Len(<<>>) = 0
  BY NoWords DEF Matches
<1>2. "telemetry.sdk.language" \in TableKeys \ KindKeys
  BY DEF TableKeys, KindKeys
<1>3. PICK at : at = <<"telemetry.sdk.language">> /\ Distinct(at)
        /\ ToSet(at) \subseteq TableKeys \ KindKeys
  BY <1>2, OneKey
<1>4. Len(<<>>) + Len(a) <= MaxArgs
  <2>1. PICK n \in 0..8 : n = Len(a)
    OBVIOUS
  <2>2. 0 + n <= 16
    OBVIOUS
  <2> QED
    BY <1>1, <2>1, <2>2, Zenon DEF MaxArgs
<1>5. <<>> \o f = f /\ <<>> \o a = a
  BY DEF Matches, Words
<1>6. Good(Msg(sev, <<>> \o f, <<>> \o a, None, at), {})
  BY <1>1, <1>3, <1>4, PlainGood
<1> QED
  BY <1>3, <1>5, <1>6 DEF GoAppText

(***************************************************************************)
(* A template of goapp with the time and the line number.                  *)
(***************************************************************************)
LEMMA GoAppLineGood ==
    ASSUME NEW sev, NEW f, NEW a, Short(f, a) PROVE Good(GoAppLine(sev, f, a), {})
<1>1. PICK p, q : p = <<S, D>> /\ q = <<"text", "int">>
  OBVIOUS
<1>2. Short(p, q)
  BY <1>1, Bodies
<1>3. Matches(p, q) /\ Matches(f, a) /\ Len(q) + Len(a) <= MaxArgs
  BY <1>2, ShortLengths
<1>4. "telemetry.sdk.language" \in TableKeys \ KindKeys
  BY DEF TableKeys, KindKeys
<1>5. PICK at : at = <<"telemetry.sdk.language">> /\ Distinct(at)
        /\ ToSet(at) \subseteq TableKeys \ KindKeys
  BY <1>4, OneKey
<1>6. Good(Msg(sev, p \o f, q \o a, None, at), {})
  BY <1>3, <1>5, PlainGood
<1> QED
  BY <1>1, <1>5, <1>6 DEF GoAppLine, GoAppText

(***************************************************************************)
(* A template of goapp with an attribute more and some taken from          *)
(* arguments.                                                              *)
(***************************************************************************)
LEMMA GoAppOfGood ==
    ASSUME NEW sev, NEW f, NEW a, Matches(f, a), Len(a) \in 0..10,
           NEW from, NEW k, DOMAIN from \subseteq KindKeys, Points(a, from, 2, {}),
           k \in TableKeys \ (KindKeys \cup {"telemetry.sdk.language"})
    PROVE  Good(GoAppOf(sev, f, a, from, k), {})
<1>1. PICK p, q, r : p = <<S, D>> /\ q = <<"text", "int">> /\ r = <<"telemetry.sdk.language">>
  OBVIOUS
<1>2. Short(p, q) /\ Matches(p, q) /\ q \in Words /\ Len(q) = 2
  BY <1>1, Bodies DEF Short, Matches
<1>3. Distinct(r) /\ ToSet(r) = {"telemetry.sdk.language"}
        /\ "telemetry.sdk.language" \in TableKeys \ KindKeys
  <2>1. "telemetry.sdk.language" \in TableKeys \ KindKeys
    BY DEF TableKeys, KindKeys
  <2> QED
    BY <1>1, <2>1, OneKey
<1>4. Prefix(p, q, r)
  BY <1>2, <1>3 DEF Prefix
<1>5. PICK at : at = <<k>> /\ Distinct(at) /\ ToSet(at) = {k}
  BY OneKey
<1>6. Len(q) + Len(a) <= MaxArgs /\ a \in Words
  <2>1. PICK n \in 0..10 : n = Len(a)
    OBVIOUS
  <2>2. 2 + n <= 16
    OBVIOUS
  <2>3. Len(q) + Len(a) <= MaxArgs
    BY <1>2, <2>1, <2>2, Zenon DEF MaxArgs
  <2> QED
    BY <2>3 DEF Matches
<1>7. Points(q \o a, from, 0, {})
  BY <1>2, <1>6, PointsJoined
<1>8. Silent(q, ToSet(at) \ {}) /\ Silent(a, ToSet(at) \ {})
  <2>1. (ToSet(at) \ {}) \cap KindKeys = {}
    BY <1>5
  <2> QED
    BY <2>1, SilentKeys
<1>9. ToSet(at) \subseteq TableKeys \ (DOMAIN from \cup ToSet(r))
  BY <1>3, <1>5
<1>10. Good(Msg(sev, p \o f, q \o a, from, r \o at), {})
  BY <1>4, <1>5, <1>6, <1>7, <1>8, <1>9, PrefixedGood
<1>11. Append(r, k) = r \o at
  BY <1>1, <1>5
<1> QED
  <2>1. GoAppLine(sev, f, a) = Msg(sev, p \o f, q \o a, None, r)
    BY <1>1 DEF GoAppLine, GoAppText
  <2>2. GoAppOf(sev, f, a, from, k) = Msg(sev, p \o f, q \o a, from, Append(r, k))
    <3>0. Msg(sev, p \o f, q \o a, None, r).attrs = r
      BY DEF Msg
    <3>1. PICK m : m = Msg(sev, p \o f, q \o a, None, r) /\ m.attrs = r
      BY <3>0
    <3>2. GoAppOf(sev, f, a, from, k) = [[m EXCEPT !.fromArg = from] EXCEPT !.attrs = Append(r,
            k)]
      BY <2>1, <3>1 DEF GoAppOf, Msg
    <3> QED
      BY <3>1, <3>2 DEF Msg
  <2> QED
    BY <1>10, <1>11, <2>2

(***************************************************************************)
(* A template of goapp about an RPC.                                       *)
(***************************************************************************)
LEMMA GrpcGood ==
    ASSUME NEW sev, NEW f, NEW a, Short(f, a) PROVE Good(Grpc(sev, f, a), {})
<1>1. PICK p, q : p = <<S, S>> /\ q = <<"service", "method">>
  OBVIOUS
<1>2. Short(p, q)
  BY <1>1, Bodies
<1>3. Matches(p, q) /\ Matches(f, a) /\ q \in Words /\ a \in Words /\ Len(q) = 2
        /\ Len(a) \in 0..8
  BY <1>1, <1>2 DEF Short, Matches
<1>4. Matches(p \o f, q \o a) /\ Len(q \o a) \in 0..10
  <2>1. Matches(p \o f, q \o a)
    BY <1>3, MatchesJoined
  <2>2. Len(q \o a) = Len(q) + Len(a)
    BY <1>3, WordsJoined
  <2>3. PICK n \in 0..8 : n = Len(a)
    BY <1>3
  <2>4. 2 + n \in 0..10
    OBVIOUS
  <2> QED
    BY <1>3, <2>1, <2>2, <2>3, <2>4, Zenon
<1>5. /\ DOMAIN Rpc = {"rpc.service", "rpc.method"}
      /\ Rpc["rpc.service"] = 2 /\ Rpc["rpc.method"] = 3
  BY DEF Rpc, Service, From, ++
<1>6. Points(q \o a, Rpc, 2, {})
  <2>1. Len(q \o a) >= 2 /\ (q \o a)[1] = "service" /\ (q \o a)[2] = "method"
          /\ Len(q \o a) \in Nat
    <3>1. Len(q \o a) = Len(q) + Len(a) /\ \A i \in 1..Len(q) : (q \o a)[i] = q[i]
      BY <1>3, WordsJoined
    <3>2. PICK n \in 0..8 : n = Len(a)
      BY <1>3
    <3>3. 2 + n >= 2 /\ 2 + n \in Nat
      OBVIOUS
    <3>4. Len(q \o a) >= 2 /\ Len(q \o a) \in Nat
      BY <1>3, <3>1, <3>2, <3>3, Zenon
    <3>5. (q \o a)[1] = q[1] /\ (q \o a)[2] = q[2]
      BY <1>3, <3>1
    <3>6. q[1] = "service" /\ q[2] = "method"
      BY <1>1
    <3> QED
      BY <3>4, <3>5, <3>6
  <2>2. PICK n : n = Len(q \o a) /\ n \in Nat /\ n >= 2
    BY <2>1
  <2>3. 2 - 2 + 1 \in 1..n /\ 3 - 2 + 1 \in 1..n /\ 2 - 2 + 1 = 1 /\ 3 - 2 + 1 = 2
        /\ 2 \in Nat /\ 3 \in Nat
    BY <2>2
  <2>4. (q \o a)[2 - 2 + 1] \in Kinds("rpc.service")
          /\ (q \o a)[3 - 2 + 1] \in Kinds("rpc.method")
    BY <2>1, <2>3 DEF Kinds
  <2>5. ASSUME NEW k \in DOMAIN Rpc
        PROVE  /\ Rpc[k] \in Nat /\ Rpc[k] - 2 + 1 \in 1..Len(q \o a)
               /\ (q \o a)[Rpc[k] - 2 + 1] \in Kinds(k)
    <3>1. CASE k = "rpc.service"
      <4>1. Rpc[k] = 2
        BY <1>5, <3>1
      <4> QED
        BY <2>2, <2>3, <2>4, <3>1, <4>1, Zenon
    <3>2. CASE k = "rpc.method"
      <4>1. Rpc[k] = 3
        BY <1>5, <3>2
      <4> QED
        BY <2>2, <2>3, <2>4, <3>2, <4>1, Zenon
    <3> QED
      BY <1>5, <3>1, <3>2
  <2> QED
    BY <2>5 DEF Points
<1>7. /\ DOMAIN Rpc \subseteq KindKeys
      /\ "rpc.system" \in TableKeys \ (KindKeys \cup {"telemetry.sdk.language"})
  BY <1>5 DEF KindKeys, TableKeys
<1>8. Good(GoAppOf(sev, p \o f, q \o a, Rpc, "rpc.system"), {})
  BY <1>4, <1>6, <1>7, GoAppOfGood
<1> QED
  BY <1>1, <1>8 DEF Grpc

(***************************************************************************)
(* A template of the access log of nginx: its body begins with client and  *)
(* time, its attributes with http.method.                                  *)
(***************************************************************************)
LEMMA AccessGood ==
    ASSUME NEW f, NEW a, Short(f, a),
           NEW from, DOMAIN from \subseteq KindKeys \ {"net.peer.ip"}, Points(a, from, 2, {}),
           NEW at, Distinct(at),
           ToSet(at) \subseteq TableKeys \ (DOMAIN from \cup {"http.method", "net.peer.ip"}),
           Silent(a, ToSet(at))
    PROVE  Good(Access(f, a, from, at), {})
<1>1. PICK p, q, r : p = <<S, S>> /\ q = <<"ip", "text">> /\ r = <<"http.method">>
  OBVIOUS
<1>2. Matches(p, q) /\ q \in Words /\ Len(q) = 2 /\ q[1] = "ip" /\ q[2] = "text"
  <2>1. Matches(p, q)
    BY <1>1, Spelled DEF Matches, ArgKinds, S, D, X, Q, Numbers, Words
  <2> QED
    BY <1>1, <2>1 DEF Matches
<1>3. Prefix(p, q, r) /\ ToSet(r) = {"http.method"}
  <2>1. "http.method" \in TableKeys \ KindKeys
    BY DEF TableKeys, KindKeys
  <2>2. Distinct(r) /\ ToSet(r) = {"http.method"}
    BY <1>1, <2>1, OneKey
  <2> QED
    BY <1>2, <2>1, <2>2 DEF Prefix
<1>4. Matches(f, a) /\ a \in Words /\ Len(q) + Len(a) <= MaxArgs
  <2>1. PICK n \in 0..8 : n = Len(a)
    BY DEF Short
  <2>2. 2 + n <= 16
    OBVIOUS
  <2>3. Len(q) + Len(a) <= MaxArgs
    BY <1>2, <2>1, <2>2, Zenon DEF MaxArgs
  <2> QED
    BY <2>3 DEF Short, Matches
<1>5. Points(q \o a, from, 0, {})
  BY <1>2, <1>4, PointsJoined
<1>6. /\ DOMAIN (Peer ++ from) = {"net.peer.ip"} \cup DOMAIN from
      /\ (Peer ++ from)["net.peer.ip"] = 0
      /\ \A k \in DOMAIN from : (Peer ++ from)[k] = from[k]
  BY DEF ++, Peer, From
<1>7. Points(q \o a, Peer ++ from, 0, {})
  <2>1. PICK g : g = Peer ++ from
    OBVIOUS
  <2>2. 1 \in 1..Len(q \o a) /\ (q \o a)[1] \in Kinds("net.peer.ip")
    <3>1. /\ Len(q \o a) = Len(q) + Len(a) /\ Len(a) \in Nat
          /\ \A i \in 1..Len(q) : (q \o a)[i] = q[i]
      BY <1>2, <1>4, WordsJoined
    <3>2. (q \o a)[1] = "ip"
      BY <1>2, <3>1
    <3>3. PICK n \in Nat : n = Len(a)
      BY <3>1
    <3>4. 1 \in 1..2 + n
      OBVIOUS
    <3>5. 1 \in 1..Len(q \o a)
      BY <1>2, <3>1, <3>3, <3>4, Zenon
    <3> QED
      BY <3>2, <3>5 DEF Kinds
  <2>3. 0 - 0 + 1 = 1 /\ 0 \in Nat
    OBVIOUS
  <2>4. ASSUME NEW k \in DOMAIN g
        PROVE  /\ g[k] \in Nat /\ g[k] - 0 + 1 \in 1..Len(q \o a)
               /\ (q \o a)[g[k] - 0 + 1] \in Kinds(k)
    <3>1. CASE k = "net.peer.ip"
      <4>1. g[k] = 0
        BY <1>6, <2>1, <3>1
      <4> QED
        BY <2>2, <2>3, <3>1, <4>1, Zenon
    <3>2. CASE k \in DOMAIN from
      <4>1. g[k] = from[k]
        BY <1>6, <2>1, <3>2
      <4> QED
        BY <1>5, <3>2, <4>1 DEF Points
    <3> QED
      BY <1>6, <2>1, <3>1, <3>2
  <2> QED
    BY <2>1, <2>4 DEF Points
<1>8. Silent(q, ToSet(at) \ {}) /\ Silent(a, ToSet(at) \ {})
  <2>1. ASSUME NEW k \in ToSet(at) PROVE "ip" \notin Kinds(k) /\ "text" \notin Kinds(k)
    <3>1. k # "net.peer.ip"
      OBVIOUS
    <3> QED
      BY <3>1 DEF Kinds
  <2>2. ToSet(at) \ {} = ToSet(at)
    OBVIOUS
  <2> QED
    BY <1>2, <2>1, <2>2 DEF Silent
<1>9. DOMAIN (Peer ++ from) \subseteq KindKeys
  <2>1. "net.peer.ip" \in KindKeys
    BY DEF KindKeys
  <2> QED
    BY <1>6, <2>1
<1>10. ToSet(at) \subseteq TableKeys \ (DOMAIN (Peer ++ from) \cup ToSet(r))
  BY <1>3, <1>6
<1>11. Good(Msg("INFO", p \o f, q \o a, Peer ++ from, r \o at), {})
  BY <1>2, <1>3, <1>4, <1>7, <1>8, <1>9, <1>10, PrefixedGood
<1> QED
  BY <1>1, <1>11 DEF Access

(***************************************************************************)
(* The first template of the access log.                                   *)
(***************************************************************************)
LEMMA Access1Good == Good(NginxAccessLogs[1], {})
<1>1. PICK f, a, at : f = <<S, D, D, S>> /\ a = <<"route", "status", "bytes", "agent">>
        /\ at = <<"http.flavor">>
  OBVIOUS
<1>2. Short(f, a)
  BY <1>1, Bodies
<1>3. PICK from : from = Url(2) ++ Result(3, 4) ++ Agent(5)
  OBVIOUS
<1>4. DOMAIN from \subseteq KindKeys \ {"net.peer.ip"}
  BY <1>3 DEF ++, From, Url, Result, Agent, None, KindKeys
<1>5. Points(a, from, 2, {})
  BY <1>1, <1>3 DEF Points, ++, From, Url, Result, Agent, None, Kinds
<1>6. Distinct(at)
  BY <1>1, Spelled DEF Distinct, Words, TableKeys
<1>7. ToSet(at) = {"http.flavor"}
  BY <1>1 DEF ToSet
<1>8. ToSet(at) \subseteq TableKeys \ (DOMAIN from \cup {"http.method", "net.peer.ip"})
  BY <1>3, <1>7 DEF ++, From, Url, Result, Agent, None, TableKeys
<1>9. Silent(a, ToSet(at))
  BY <1>1, <1>7 DEF Silent, Kinds
<1>10. Good(Access(f, a, from, at), {})
  BY <1>2, <1>4, <1>5, <1>6, <1>8, <1>9, AccessGood
<1> QED
  BY <1>1, <1>3, <1>10 DEF NginxAccessLogs

(***************************************************************************)
(* The second template of the access log.                                  *)
(***************************************************************************)
LEMMA Access2Good == Good(NginxAccessLogs[2], {})
<1>1. PICK f, a, at : f = <<S, D, D, S, S>>
        /\ a = <<"url", "status", "bytes", "text", "agent">> /\ at = <<"http.request.body.size">>
  OBVIOUS
<1>2. Short(f, a)
  BY <1>1, Bodies
<1>3. PICK from : from = Url(2) ++ Result(3, 4) ++ Agent(6)
  OBVIOUS
<1>4. DOMAIN from \subseteq KindKeys \ {"net.peer.ip"}
  BY <1>3 DEF ++, From, Url, Result, Agent, None, KindKeys
<1>5. Points(a, from, 2, {})
  BY <1>1, <1>3 DEF Points, ++, From, Url, Result, Agent, None, Kinds
<1>6. Distinct(at)
  BY <1>1, Spelled DEF Distinct, Words, TableKeys
<1>7. ToSet(at) = {"http.request.body.size"}
  BY <1>1 DEF ToSet
<1>8. ToSet(at) \subseteq TableKeys \ (DOMAIN from \cup {"http.method", "net.peer.ip"})
  BY <1>3, <1>7 DEF ++, From, Url, Result, Agent, None, TableKeys
<1>9. Silent(a, ToSet(at))
  BY <1>1, <1>7 DEF Silent, Kinds
<1>10. Good(Access(f, a, from, at), {})
  BY <1>2, <1>4, <1>5, <1>6, <1>8, <1>9, AccessGood
<1> QED
  BY <1>1, <1>3, <1>10 DEF NginxAccessLogs

(***************************************************************************)
(* The third template of the access log.                                   *)
(***************************************************************************)
LEMMA Access3Good == Good(NginxAccessLogs[3], {})
<1>1. PICK f, a, at : f = <<>> /\ a = <<>> /\ at = <<"http.status_code", "http.url">>
  OBVIOUS
<1>2. Short(f, a)
  BY <1>1, Bodies
<1>3. PICK from : from = None
  OBVIOUS
<1>4. DOMAIN from \subseteq KindKeys \ {"net.peer.ip"}
  BY <1>3 DEF ++, From, Url, Result, Agent, None, KindKeys
<1>5. Points(a, from, 2, {})
  BY <1>1, <1>3 DEF Points, ++, From, Url, Result, Agent, None, Kinds
<1>6. Distinct(at)
  BY <1>1, Spelled DEF Distinct, Words, TableKeys
<1>7. ToSet(at) = {"http.status_code", "http.url"}
  BY <1>1 DEF ToSet
<1>8. ToSet(at) \subseteq TableKeys \ (DOMAIN from \cup {"http.method", "net.peer.ip"})
  BY <1>3, <1>7 DEF ++, From, Url, Result, Agent, None, TableKeys
<1>9. Silent(a, ToSet(at))
  BY <1>1, <1>7 DEF Silent, Kinds
<1>10. Good(Access(f, a, from, at), {})
  BY <1>2, <1>4, <1>5, <1>6, <1>8, <1>9, AccessGood
<1> QED
  BY <1>1, <1>3, <1>10 DEF NginxAccessLogs

(***************************************************************************)
(* The fourth template of the access log.                                  *)
(***************************************************************************)
LEMMA Access4Good == Good(NginxAccessLogs[4], {})
<1>1. PICK f, a, at : f = <<S, S, S>> /\ a = <<"text", "text", "agent">>
        /\ at = <<"http.status_code", "http.url", "http.flavor">>
  OBVIOUS
<1>2. Short(f, a)
  BY <1>1, Bodies
<1>3. PICK from : from = Agent(4)
  OBVIOUS
<1>4. DOMAIN from \subseteq KindKeys \ {"net.peer.ip"}
  BY <1>3 DEF ++, From, Url, Result, Agent, None, KindKeys
<1>5. Points(a, from, 2, {})
  BY <1>1, <1>3 DEF Points, ++, From, Url, Result, Agent, None, Kinds
<1>6. Distinct(at)
  BY <1>1, Spelled DEF Distinct, Words, TableKeys
<1>7. ToSet(at) = {"http.status_code", "http.url", "http.flavor"}
  BY <1>1 DEF ToSet
<1>8. ToSet(at) \subseteq TableKeys \ (DOMAIN from \cup {"http.method", "net.peer.ip"})
  BY <1>3, <1>7 DEF ++, From, Url, Result, Agent, None, TableKeys
<1>9. Silent(a, ToSet(at))
  BY <1>1, <1>7 DEF Silent, Kinds
<1>10. Good(Access(f, a, from, at), {})
  BY <1>2, <1>4, <1>5, <1>6, <1>8, <1>9, AccessGood
<1> QED
  BY <1>1, <1>3, <1>10 DEF NginxAccessLogs

(***************************************************************************)
(* The fifth template of the access log.                                   *)
(***************************************************************************)
LEMMA Access5Good == Good(NginxAccessLogs[5], {})
<1>1. PICK f, a, at : f = <<D, D, S>> /\ a = <<"int", "bytes", "agent">>
        /\ at = <<"http.status_code", "http.url", "http.flavor">>
  OBVIOUS
<1>2. Short(f, a)
  BY <1>1, Bodies
<1>3. PICK from : from = From("http.response.body.size", 3) ++ Agent(4)
  OBVIOUS
<1>4. DOMAIN from \subseteq KindKeys \ {"net.peer.ip"}
  BY <1>3 DEF ++, From, Url, Result, Agent, None, KindKeys
<1>5. Points(a, from, 2, {})
  BY <1>1, <1>3 DEF Points, ++, From, Url, Result, Agent, None, Kinds
<1>6. Distinct(at)
  BY <1>1, Spelled DEF Distinct, Words, TableKeys
<1>7. ToSet(at) = {"http.status_code", "http.url", "http.flavor"}
  BY <1>1 DEF ToSet
<1>8. ToSet(at) \subseteq TableKeys \ (DOMAIN from \cup {"http.method", "net.peer.ip"})
  BY <1>3, <1>7 DEF ++, From, Url, Result, Agent, None, TableKeys
<1>9. Silent(a, ToSet(at))
  BY <1>1, <1>7 DEF Silent, Kinds
<1>10. Good(Access(f, a, from, at), {})
  BY <1>2, <1>4, <1>5, <1>6, <1>8, <1>9, AccessGood
<1> QED
  BY <1>1, <1>3, <1>10 DEF NginxAccessLogs

(***************************************************************************)
(* The sixth template of the access log.                                   *)
(***************************************************************************)
LEMMA Access6Good == Good(NginxAccessLogs[6], {})
<1>1. PICK f, a, at : f = <<S, D, D, S>> /\ a = <<"url", "status", "bytes", "agent">> /\ at = <<>>
  OBVIOUS
<1>2. Short(f, a)
  BY <1>1, Bodies
<1>3. PICK from : from = Url(2) ++ Result(3, 4) ++ Agent(5)
  OBVIOUS
<1>4. DOMAIN from \subseteq KindKeys \ {"net.peer.ip"}
  BY <1>3 DEF ++, From, Url, Result, Agent, None, KindKeys
<1>5. Points(a, from, 2, {})
  BY <1>1, <1>3 DEF Points, ++, From, Url, Result, Agent, None, Kinds
<1>6. Distinct(at)
  BY <1>1, Spelled DEF Distinct, Words, TableKeys
<1>7. ToSet(at) = {}
  BY <1>1 DEF ToSet
<1>8. ToSet(at) \subseteq TableKeys \ (DOMAIN from \cup {"http.method", "net.peer.ip"})
  BY <1>3, <1>7 DEF ++, From, Url, Result, Agent, None, TableKeys
<1>9. Silent(a, ToSet(at))
  BY <1>1, <1>7 DEF Silent, Kinds
<1>10. Good(Access(f, a, from, at), {})
  BY <1>2, <1>4, <1>5, <1>6, <1>8, <1>9, AccessGood
<1> QED
  BY <1>1, <1>3, <1>10 DEF NginxAccessLogs

(***************************************************************************)
(* The seventh template of the access log.                                 *)
(***************************************************************************)
LEMMA Access7Good == Good(NginxAccessLogs[7], {})
<1>1. PICK f, a, at : f = <<S, D, D, S>> /\ a = <<"text", "status", "bytes", "agent">>
        /\ at = <<"http.url">>
  OBVIOUS
<1>2. Short(f, a)
  BY <1>1, Bodies
<1>3. PICK from : from = Result(3, 4) ++ Agent(5)
  OBVIOUS
<1>4. DOMAIN from \subseteq KindKeys \ {"net.peer.ip"}
  BY <1>3 DEF ++, From, Url, Result, Agent, None, KindKeys
<1>5. Points(a, from, 2, {})
  BY <1>1, <1>3 DEF Points, ++, From, Url, Result, Agent, None, Kinds
<1>6. Distinct(at)
  BY <1>1, Spelled DEF Distinct, Words, TableKeys
<1>7. ToSet(at) = {"http.url"}
  BY <1>1 DEF ToSet
<1>8. ToSet(at) \subseteq TableKeys \ (DOMAIN from \cup {"http.method", "net.peer.ip"})
  BY <1>3, <1>7 DEF ++, From, Url, Result, Agent, None, TableKeys
<1>9. Silent(a, ToSet(at))
  BY <1>1, <1>7 DEF Silent, Kinds
<1>10. Good(Access(f, a, from, at), {})
  BY <1>2, <1>4, <1>5, <1>6, <1>8, <1>9, AccessGood
<1> QED
  BY <1>1, <1>3, <1>10 DEF NginxAccessLogs

Listed(list, n) == n \in Nat /\ Len(list) = n /\ \A V : ToSet(list) \subseteq V => list \in Seq(V)
Joined(u, a, b, c, k, l, m) ==
    /\ DOMAIN u = 1..k + l + m
    /\ \A i \in 1..k : u[i] = a[i]
    /\ \A i \in 1..l : u[k + i] = b[i]
    /\ \A i \in 1..m : u[k + l + i] = c[i]

(***************************************************************************)
(* Three tables put together hold their templates one after the other.     *)
(***************************************************************************)
LEMMA TablesJoined ==
    ASSUME NEW a, NEW b, NEW c, NEW k, NEW l, NEW m, Listed(a, k), Listed(b, l), Listed(c, m)
    PROVE  Joined(a \o b \o c, a, b, c, k, l, m)
<1>0. PICK V : /\ a \in Seq(V) /\ b \in Seq(V) /\ c \in Seq(V)
               /\ Len(a) = k /\ Len(b) = l /\ Len(c) = m
  <2>1. PICK V : V = (ToSet(a) \cup ToSet(b)) \cup ToSet(c)
    OBVIOUS
  <2>2. ToSet(a) \subseteq V /\ ToSet(b) \subseteq V /\ ToSet(c) \subseteq V
    BY <2>1
  <2>3. a \in Seq(V) /\ b \in Seq(V) /\ c \in Seq(V)
    BY <2>2 DEF Listed
  <2> QED
    BY <2>3 DEF Listed
<1>a. PICK u, v : u = a \o b /\ v = u \o c
  OBVIOUS
<1>1. u \in Seq(V) /\ v \in Seq(V) /\ k \in Nat /\ l \in Nat /\ m \in Nat
  BY <1>0, <1>a
<1>2. Len(u) = k + l /\ Len(v) = k + l + m
  <2>1. a \in Seq(V) /\ b \in Seq(V) /\ c \in Seq(V)
    BY <1>0
  <2>2. Len(u) = Len(a) + Len(b)
    BY <1>a, <2>1
  <2>3. Len(v) = Len(u) + Len(c)
    BY <1>1, <1>a, <2>1
  <2> QED
    BY <1>0, <2>2, <2>3, Zenon
<1>3. \A i \in 1..k : u[i] = a[i]
  BY <1>0, <1>a
<1>4. \A i \in 1..l : u[k + i] = b[i]
  BY <1>0, <1>a
<1>5. \A i \in 1..k + l : v[i] = u[i]
  BY <1>0, <1>1, <1>2, <1>a
<1>6. \A i \in 1..m : v[k + l + i] = c[i]
  BY <1>0, <1>1, <1>2, <1>a
<1>7. DOMAIN v = 1..k + l + m
  BY <1>1, <1>2
<1>8. \A i \in 1..k : v[i] = a[i]
  <2>1. \A i \in 1..k : i \in 1..k + l
    BY <1>1
  <2> QED
    BY <1>3, <1>5, <2>1
<1>9. \A i \in 1..l : v[k + i] = b[i]
  <2>1. \A i \in 1..l : k + i \in 1..k + l
    BY <1>1
  <2> QED
    BY <1>4, <1>5, <2>1
<1> QED
  BY <1>6, <1>7, <1>8, <1>9, <1>a DEF Joined

(***************************************************************************)
(* A short body fits behind the three arguments mysql begins with.         *)
(***************************************************************************)
LEMMA ShortEnough == \A f, a : Short(f, a) => Matches(f, a) /\ Len(a) <= 13
<1> SUFFICES ASSUME NEW f, NEW a, Short(f, a) PROVE Matches(f, a) /\ Len(a) <= 13
  OBVIOUS
<1>1. PICK n \in 0..8 : n = Len(a)
  BY DEF Short
<1>2. n <= 13
  OBVIOUS
<1>3. Len(a) <= 13
  BY <1>1, <1>2, Zenon
<1> QED
  BY <1>3 DEF Short

(***************************************************************************)
(* The debug templates of nginx, one by one.                               *)
(***************************************************************************)
LEMMA NginxDebugLogsGood ==
    /\ Listed(NginxDebugLogs, 2)
    /\ Good(NginxDebugLogs[1], {})
    /\ Good(NginxDebugLogs[2], {})
<1>1. Good(NginxLine("DEBUG", <<>>, <<>>), {})
  BY Bodies, NginxLineGood
<1>2. Good(NginxLine("DEBUG", <<S>>, <<"text">>), {})
  BY Bodies, NginxLineGood
<1>3. Listed(NginxDebugLogs, 2)
  <2>1. Len(NginxDebugLogs) = 2
    BY DEF NginxDebugLogs
  <2>2. ASSUME NEW V, ToSet(NginxDebugLogs) \subseteq V PROVE NginxDebugLogs \in Seq(V)
    <3>1. \A i \in 1..2 : NginxDebugLogs[i] \in V
      BY <2>2 DEF NginxDebugLogs, ToSet
    <3> QED
      BY <3>1 DEF NginxDebugLogs
  <2> QED
    BY <2>1, <2>2 DEF Listed
<1> QED
  BY <1>1, <1>2, <1>3 DEF NginxDebugLogs

(***************************************************************************)
(* The warning and error templates of nginx, one by one.                   *)
(***************************************************************************)
LEMMA NginxWarnLogsGood ==
    /\ Listed(NginxWarnLogs, 14)
    /\ Good(NginxWarnLogs[1], {})
    /\ Good(NginxWarnLogs[2], {})
    /\ Good(NginxWarnLogs[3], {})
    /\ Good(NginxWarnLogs[4], {})
    /\ Good(NginxWarnLogs[5], {})
    /\ Good(NginxWarnLogs[6], {})
    /\ Good(NginxWarnLogs[7], {})
    /\ Good(NginxWarnLogs[8], {})
    /\ Good(NginxWarnLogs[9], {})
    /\ Good(NginxWarnLogs[10], {})
    /\ Good(NginxWarnLogs[11], {})
    /\ Good(NginxWarnLogs[12], {})
    /\ Good(NginxWarnLogs[13], {})
    /\ Good(NginxWarnLogs[14], {})
<1>1. Good(NginxLine("WARN", <<S, S, S, S, D, S>>, Upstream), {})
  BY Bodies, NginxLineGood
<1>2. Good(NginxLine("WARN", <<S, S, S>>, <<"text", "ip", "text">>), {})
  BY Bodies, NginxLineGood
<1>3. Good(NginxLine("WARN", <<S, S>>, <<"ip", "text">>), {})
  BY Bodies, NginxLineGood
<1>4. Good(NginxLine("ERROR", <<S, S, S, S, D, S>>, Upstream), {})
  BY Bodies, NginxLineGood
<1>5. Good(NginxLine("ERROR", <<S, S, S>>, <<"ip", "text", "url">>), {})
  BY Bodies, NginxLineGood
<1>6. Good(NginxLine("ERROR", <<S, S>>, <<"ip", "text">>), {})
  BY Bodies, NginxLineGood
<1>7. Good(NginxLine("ERROR", <<S, S, S, S, D, S, S>>, Append(Upstream, "text")), {})
  BY Bodies, NginxLineGood
<1>8. Good(NginxLine("ERROR", <<S, S, S>>, <<"ip", "text", "text">>), {})
  BY Bodies, NginxLineGood
<1>9. Good(NginxLine("ERROR", <<S, S, S>>, <<"ip", "text", "text">>), {})
  BY Bodies, NginxLineGood
<1>10. Good(NginxEmerg(<<S>>, <<"text">>), {})
  BY Bodies, NginxEmergGood
<1>11. Good(NginxEmerg(<<D>>, <<"port">>), {})
  BY Bodies, NginxEmergGood
<1>12. Good(NginxEmerg(<<S, S>>, <<"text", "text">>), {})
  BY Bodies, NginxEmergGood
<1>13. Good(NginxEmerg(<<D, S>>, <<"port", "text">>), {})
  BY Bodies, NginxEmergGood
<1>14. Good(NginxEmerg(<<S>>, <<"text">>), {})
  BY Bodies, NginxEmergGood
<1>15. Listed(NginxWarnLogs, 14)
  <2>1. Len(NginxWarnLogs) = 14
    BY DEF NginxWarnLogs
  <2>2. ASSUME NEW V, ToSet(NginxWarnLogs) \subseteq V PROVE NginxWarnLogs \in Seq(V)
    <3>1. \A i \in 1..14 : NginxWarnLogs[i] \in V
      BY <2>2 DEF NginxWarnLogs, ToSet
    <3> QED
      BY <3>1 DEF NginxWarnLogs
  <2> QED
    BY <2>1, <2>2 DEF Listed
<1> QED
  BY <1>1, <1>2, <1>3, <1>4, <1>5, <1>6, <1>7, <1>8, <1>9, <1>10, <1>11, <1>12, <1>13,
     <1>14, <1>15 DEF NginxWarnLogs

(***************************************************************************)
(* The info templates of mysql, one by one.                                *)
(***************************************************************************)
LEMMA MySQLInfoLogsGood ==
    /\ Listed(MySQLInfoLogs, 5)
    /\ Good(MySQLInfoLogs[1], {})
    /\ Good(MySQLInfoLogs[2], {})
    /\ Good(MySQLInfoLogs[3], {})
    /\ Good(MySQLInfoLogs[4], {"db.user"})
    /\ Good(MySQLInfoLogs[5], {})
<1>1. Good(MySQLNote("INFO", <<S>>, <<"text">>), {})
  BY Bodies, ShortEnough, MySQLNoteGood
<1>2. Good(MySQLNote("INFO", <<S>>, <<"text">>), {})
  BY Bodies, ShortEnough, MySQLNoteGood
<1>3. Good(MySQLNote("INFO", <<S>>, <<"text">>), {})
  BY Bodies, ShortEnough, MySQLNoteGood
<1>4. Good(Aborted("INFO"), {"db.user"})
  <2>1. PICK f, a, from, at : f = <<D, S, S, S>> /\ a = <<"int", "db", "user", "ip">>
          /\ from = DbName(4) /\ at = <<"db.user">>
    OBVIOUS
  <2>2. Short(f, a)
    BY <2>1, Bodies
  <2>3. Matches(f, a) /\ Len(a) <= 13
    BY <2>2, ShortEnough
  <2>4. DOMAIN from \subseteq {"db.name", "db.sql.table"}
    BY <2>1 DEF Table, DbName, From, ++
  <2>5. Points(a, from, 3, {"db.user"})
    BY <2>1 DEF Points, Table, DbName, From, ++, Kinds
  <2>6. "db.user" \in TableKeys \ {"db.name", "db.sql.table", "db.system"}
          /\ {"db.name", "db.sql.table"} \subseteq KindKeys
    BY DEF TableKeys, KindKeys
  <2>7. Distinct(at) /\ ToSet(at) = {"db.user"}
    BY <2>1, <2>6, OneKey DEF Operation
  <2>8. ToSet(at) \subseteq TableKeys \ (DOMAIN from \cup {"db.system"})
          /\ DOMAIN from \subseteq KindKeys
    BY <2>4, <2>6, <2>7
  <2>9. Silent(a, ToSet(at) \ {"db.user"})
    BY <2>7 DEF Silent
  <2>10. Good(MySQLLine("INFO", f, a, from, at), {"db.user"})
    BY <2>3, <2>5, <2>7, <2>8, <2>9, MySQLLineGood
  <2> QED
    BY <2>1, <2>10 DEF Aborted
<1>5. Good(MySQLNote("INFO", <<>>, <<>>), {})
  BY Bodies, ShortEnough, MySQLNoteGood
<1>6. Listed(MySQLInfoLogs, 5)
  <2>1. Len(MySQLInfoLogs) = 5
    BY DEF MySQLInfoLogs
  <2>2. ASSUME NEW V, ToSet(MySQLInfoLogs) \subseteq V PROVE MySQLInfoLogs \in Seq(V)
    <3>1. \A i \in 1..5 : MySQLInfoLogs[i] \in V
      BY <2>2 DEF MySQLInfoLogs, ToSet
    <3> QED
      BY <3>1 DEF MySQLInfoLogs
  <2> QED
    BY <2>1, <2>2 DEF Listed
<1> QED
  BY <1>1, <1>2, <1>3, <1>4, <1>5, <1>6 DEF MySQLInfoLogs

(***************************************************************************)
(* The debug templates of mysql, one by one.                               *)
(***************************************************************************)
LEMMA MySQLDebugLogsGood ==
    /\ Listed(MySQLDebugLogs, 3)
    /\ Good(MySQLDebugLogs[1], {})
    /\ Good(MySQLDebugLogs[2], {})
    /\ Good(MySQLDebugLogs[3], {})
<1>1. Good(MySQLNote("DEBUG", <<D, D>>, <<"int", "int">>), {})
  BY Bodies, ShortEnough, MySQLNoteGood
<1>2. Good(MySQLLine("DEBUG", <<S, S>>, <<"db", "table">>, Table(3, 4), Operation), {})
  <2>1. PICK f, a, from, at : f = <<S, S>> /\ a = <<"db", "table">> /\ from = Table(3, 4)
          /\ at = Operation
    OBVIOUS
  <2>2. Short(f, a)
    BY <2>1, Bodies
  <2>3. Matches(f, a) /\ Len(a) <= 13
    BY <2>2, ShortEnough
  <2>4. DOMAIN from \subseteq {"db.name", "db.sql.table"}
    BY <2>1 DEF Table, DbName, From, ++
  <2>5. Points(a, from, 3, {})
    BY <2>1 DEF Points, Table, DbName, From, ++, Kinds
  <2>6. "db.operation.name" \in TableKeys \ {"db.name", "db.sql.table", "db.system"}
          /\ {"db.name", "db.sql.table"} \subseteq KindKeys
    BY DEF TableKeys, KindKeys
  <2>7. Distinct(at) /\ ToSet(at) = {"db.operation.name"}
    BY <2>1, <2>6, OneKey DEF Operation
  <2>8. ToSet(at) \subseteq TableKeys \ (DOMAIN from \cup {"db.system"})
          /\ DOMAIN from \subseteq KindKeys
    BY <2>4, <2>6, <2>7
  <2>9. Silent(a, ToSet(at) \ {})
    <3>1. (ToSet(at) \ {}) \cap KindKeys = {}
      BY <2>7 DEF KindKeys
    <3> QED
      BY <3>1, SilentKeys
  <2>10. Good(MySQLLine("DEBUG", f, a, from, at), {})
    BY <2>3, <2>5, <2>7, <2>8, <2>9, MySQLLineGood
  <2> QED
    BY <2>1, <2>10 DEF Aborted
<1>3. Good(MySQLLine("DEBUG", <<S, S, S>>, <<"db", "table", "text">>, Table(3, 4), Operation), {})
  <2>1. PICK f, a, from, at : f = <<S, S, S>> /\ a = <<"db", "table", "text">>
          /\ from = Table(3, 4) /\ at = Operation
    OBVIOUS
  <2>2. Short(f, a)
    BY <2>1, Bodies
  <2>3. Matches(f, a) /\ Len(a) <= 13
    BY <2>2, ShortEnough
  <2>4. DOMAIN from \subseteq {"db.name", "db.sql.table"}
    BY <2>1 DEF Table, DbName, From, ++
  <2>5. Points(a, from, 3, {})
    BY <2>1 DEF Points, Table, DbName, From, ++, Kinds
  <2>6. "db.operation.name" \in TableKeys \ {"db.name", "db.sql.table", "db.system"}
          /\ {"db.name", "db.sql.table"} \subseteq KindKeys
    BY DEF TableKeys, KindKeys
  <2>7. Distinct(at) /\ ToSet(at) = {"db.operation.name"}
    BY <2>1, <2>6, OneKey DEF Operation
  <2>8. ToSet(at) \subseteq TableKeys \ (DOMAIN from \cup {"db.system"})
          /\ DOMAIN from \subseteq KindKeys
    BY <2>4, <2>6, <2>7
  <2>9. Silent(a, ToSet(at) \ {})
    <3>1. (ToSet(at) \ {}) \cap KindKeys = {}
      BY <2>7 DEF KindKeys
    <3> QED
      BY <3>1, SilentKeys
  <2>10. Good(MySQLLine("DEBUG", f, a, from, at), {})
    BY <2>3, <2>5, <2>7, <2>8, <2>9, MySQLLineGood
  <2> QED
    BY <2>1, <2>10 DEF Aborted
<1>4. Listed(MySQLDebugLogs, 3)
  <2>1. Len(MySQLDebugLogs) = 3
    BY DEF MySQLDebugLogs
  <2>2. ASSUME NEW V, ToSet(MySQLDebugLogs) \subseteq V PROVE MySQLDebugLogs \in Seq(V)
    <3>1. \A i \in 1..3 : MySQLDebugLogs[i] \in V
      BY <2>2 DEF MySQLDebugLogs, ToSet
    <3> QED
      BY <3>1 DEF MySQLDebugLogs
  <2> QED
    BY <2>1, <2>2 DEF Listed
<1> QED
  BY <1>1, <1>2, <1>3, <1>4 DEF MySQLDebugLogs

(***************************************************************************)
(* The warning and error templates of mysql, one by one.                   *)
(***************************************************************************)
LEMMA MySQLWarnLogsGood ==
    /\ Listed(MySQLWarnLogs, 14)
    /\ Good(MySQLWarnLogs[1], {"db.user"})
    /\ Good(MySQLWarnLogs[2], {})
    /\ Good(MySQLWarnLogs[3], {"db.name", "db.sql.table"})
    /\ Good(MySQLWarnLogs[4], {})
    /\ Good(MySQLWarnLogs[5], {})
    /\ Good(MySQLWarnLogs[6], {})
    /\ Good(MySQLWarnLogs[7], {})
    /\ Good(MySQLWarnLogs[8], {})
    /\ Good(MySQLWarnLogs[9], {})
    /\ Good(MySQLWarnLogs[10], {})
    /\ Good(MySQLWarnLogs[11], {})
    /\ Good(MySQLWarnLogs[12], {})
    /\ Good(MySQLWarnLogs[13], {})
    /\ Good(MySQLWarnLogs[14], {})
<1>1. Good(Aborted("WARN"), {"db.user"})
  <2>1. PICK f, a, from, at : f = <<D, S, S, S>> /\ a = <<"int", "db", "user", "ip">>
          /\ from = DbName(4) /\ at = <<"db.user">>
    OBVIOUS
  <2>2. Short(f, a)
    BY <2>1, Bodies
  <2>3. Matches(f, a) /\ Len(a) <= 13
    BY <2>2, ShortEnough
  <2>4. DOMAIN from \subseteq {"db.name", "db.sql.table"}
    BY <2>1 DEF Table, DbName, From, ++
  <2>5. Points(a, from, 3, {"db.user"})
    BY <2>1 DEF Points, Table, DbName, From, ++, Kinds
  <2>6. "db.user" \in TableKeys \ {"db.name", "db.sql.table", "db.system"}
          /\ {"db.name", "db.sql.table"} \subseteq KindKeys
    BY DEF TableKeys, KindKeys
  <2>7. Distinct(at) /\ ToSet(at) = {"db.user"}
    BY <2>1, <2>6, OneKey DEF Operation
  <2>8. ToSet(at) \subseteq TableKeys \ (DOMAIN from \cup {"db.system"})
          /\ DOMAIN from \subseteq KindKeys
    BY <2>4, <2>6, <2>7
  <2>9. Silent(a, ToSet(at) \ {"db.user"})
    BY <2>7 DEF Silent
  <2>10. Good(MySQLLine("WARN", f, a, from, at), {"db.user"})
    BY <2>3, <2>5, <2>7, <2>8, <2>9, MySQLLineGood
  <2> QED
    BY <2>1, <2>10 DEF Aborted
<1>2. Good(MySQLNote("WARN", <<D, D>>, <<"int", "int">>), {})
  BY Bodies, ShortEnough, MySQLNoteGood
<1>3. Good(MySQLLine("WARN", <<D, D, S, S, S>>, <<"int", "int", "db", "table", "text">>,
        Table(6, 7), Operation), {"db.name", "db.sql.table"})
  <2>1. PICK f, a, from, at : f = <<D, D, S, S, S>>
          /\ a = <<"int", "int", "db", "table", "text">> /\ from = Table(6, 7) /\ at = Operation
    OBVIOUS
  <2>2. Short(f, a)
    BY <2>1, Bodies
  <2>3. Matches(f, a) /\ Len(a) <= 13
    BY <2>2, ShortEnough
  <2>4. DOMAIN from \subseteq {"db.name", "db.sql.table"}
    BY <2>1 DEF Table, DbName, From, ++
  <2>5. Points(a, from, 3, {"db.name", "db.sql.table"})
    BY <2>1 DEF Points, Table, DbName, From, ++, Kinds
  <2>6. "db.operation.name" \in TableKeys \ {"db.name", "db.sql.table", "db.system"}
          /\ {"db.name", "db.sql.table"} \subseteq KindKeys
    BY DEF TableKeys, KindKeys
  <2>7. Distinct(at) /\ ToSet(at) = {"db.operation.name"}
    BY <2>1, <2>6, OneKey DEF Operation
  <2>8. ToSet(at) \subseteq TableKeys \ (DOMAIN from \cup {"db.system"})
          /\ DOMAIN from \subseteq KindKeys
    BY <2>4, <2>6, <2>7
  <2>9. Silent(a, ToSet(at) \ {"db.name", "db.sql.table"})
    <3>1. (ToSet(at) \ {"db.name", "db.sql.table"}) \cap KindKeys = {}
      BY <2>7 DEF KindKeys
    <3> QED
      BY <3>1, SilentKeys
  <2>10. Good(MySQLLine("WARN", f, a, from, at), {"db.name", "db.sql.table"})
    BY <2>3, <2>5, <2>7, <2>8, <2>9, MySQLLineGood
  <2> QED
    BY <2>1, <2>10 DEF Aborted
<1>4. Good(MySQLNote("ERROR", <<>>, <<>>), {})
  BY Bodies, ShortEnough, MySQLNoteGood
<1>5. Good(MySQLNote("ERROR", <<>>, <<>>), {})
  BY Bodies, ShortEnough, MySQLNoteGood
<1>6. Good(MySQLNote("ERROR", <<D>>, <<"int">>), {})
  BY Bodies, ShortEnough, MySQLNoteGood
<1>7. Good(MySQLLine("ERROR", <<S, S>>, <<"db", "table">>, Table(3, 4), Operation), {})
  <2>1. PICK f, a, from, at : f = <<S, S>> /\ a = <<"db", "table">> /\ from = Table(3, 4)
          /\ at = Operation
    OBVIOUS
  <2>2. Short(f, a)
    BY <2>1, Bodies
  <2>3. Matches(f, a) /\ Len(a) <= 13
    BY <2>2, ShortEnough
  <2>4. DOMAIN from \subseteq {"db.name", "db.sql.table"}
    BY <2>1 DEF Table, DbName, From, ++
  <2>5. Points(a, from, 3, {})
    BY <2>1 DEF Points, Table, DbName, From, ++, Kinds
  <2>6. "db.operation.name" \in TableKeys \ {"db.name", "db.sql.table", "db.system"}
          /\ {"db.name", "db.sql.table"} \subseteq KindKeys
    BY DEF TableKeys, KindKeys
  <2>7. Distinct(at) /\ ToSet(at) = {"db.operation.name"}
    BY <2>1, <2>6, OneKey DEF Operation
  <2>8. ToSet(at) \subseteq TableKeys \ (DOMAIN from \cup {"db.system"})
          /\ DOMAIN from \subseteq KindKeys
    BY <2>4, <2>6, <2>7
  <2>9. Silent(a, ToSet(at) \ {})
    <3>1. (ToSet(at) \ {}) \cap KindKeys = {}
      BY <2>7 DEF KindKeys
    <3> QED
      BY <3>1, SilentKeys
  <2>10. Good(MySQLLine("ERROR", f, a, from, at), {})
    BY <2>3, <2>5, <2>7, <2>8, <2>9, MySQLLineGood
  <2> QED
    BY <2>1, <2>10 DEF Aborted
<1>8. Good(MySQLNote("ERROR", <<S>>, <<"text">>), {})
  BY Bodies, ShortEnough, MySQLNoteGood
<1>9. Good(MySQLNote("ERROR", <<S>>, <<"text">>), {})
  BY Bodies, ShortEnough, MySQLNoteGood
<1>10. Good(MySQLNote("FATAL", <<>>, <<>>), {})
  BY Bodies, ShortEnough, MySQLNoteGood
<1>11. Good(MySQLNote("FATAL", <<>>, <<>>), {})
  BY Bodies, ShortEnough, MySQLNoteGood
<1>12. Good(MySQLNote("FATAL", <<S>>, <<"text">>), {})
  BY Bodies, ShortEnough, MySQLNoteGood
<1>13. Good(MySQLNote("FATAL", <<S>>, <<"text">>), {})
  BY Bodies, ShortEnough, MySQLNoteGood
<1>14. Good(MySQLNote("FATAL", <<D, S>>, <<"int", "text">>), {})
  BY Bodies, ShortEnough, MySQLNoteGood
<1>15. Listed(MySQLWarnLogs, 14)
  <2>1. Len(MySQLWarnLogs) = 14
    BY DEF MySQLWarnLogs
  <2>2. ASSUME NEW V, ToSet(MySQLWarnLogs) \subseteq V PROVE MySQLWarnLogs \in Seq(V)
    <3>1. \A i \in 1..14 : MySQLWarnLogs[i] \in V
      BY <2>2 DEF MySQLWarnLogs, ToSet
    <3> QED
      BY <3>1 DEF MySQLWarnLogs
  <2> QED
    BY <2>1, <2>2 DEF Listed
<1> QED
  BY <1>1, <1>2, <1>3, <1>4, <1>5, <1>6, <1>7, <1>8, <1>9, <1>10, <1>11, <1>12, <1>13,
     <1>14, <1>15 DEF MySQLWarnLogs

(***************************************************************************)
(* The info templates of redis, one by one.                                *)
(***************************************************************************)
LEMMA RedisInfoLogsGood ==
    /\ Listed(RedisInfoLogs, 8)
    /\ Good(RedisInfoLogs[1], {})
    /\ Good(RedisInfoLogs[2], {})
    /\ Good(RedisInfoLogs[3], {})
    /\ Good(RedisInfoLogs[4], {})
    /\ Good(RedisInfoLogs[5], {})
    /\ Good(RedisInfoLogs[6], {})
    /\ Good(RedisInfoLogs[7], {})
    /\ Good(RedisInfoLogs[8], {"net.peer.port"})
<1>1. Good(RedisNote("INFO", <<>>, <<>>), {})
  BY Bodies, RedisNoteGood
<1>2. Good(RedisNote("INFO", <<S>>, <<"text">>), {})
  BY Bodies, RedisNoteGood
<1>3. Good(RedisNote("INFO", <<>>, <<>>), {})
  BY Bodies, RedisNoteGood
<1>4. Good(RedisNote("INFO", <<D>>, <<"int">>), {})
  BY Bodies, RedisNoteGood
<1>5. Good(RedisNote("INFO", <<D, D, D>>, <<"int", "int", "int">>), {})
  BY Bodies, RedisNoteGood
<1>6. Good(RedisNote("INFO", <<D>>, <<"int">>), {})
  BY Bodies, RedisNoteGood
<1>7. Good(RedisNote("INFO", <<>>, <<>>), {})
  BY Bodies, RedisNoteGood
<1>8. Good(RedisLine("INFO", <<S, D>>, <<"ip", "port">>, <<"net.peer.port">>), {"net.peer.port"})
  <2>1. PICK a, at : a = <<"ip", "port">> /\ at = <<"net.peer.port">>
    OBVIOUS
  <2>2. Short(<<S, D>>, a)
    BY <2>1, Bodies
  <2>3. "net.peer.port" \in TableKeys \ {"db.system"}
    BY DEF TableKeys
  <2>4. Distinct(at) /\ ToSet(at) = {"net.peer.port"}
    BY <2>1, <2>3, OneKey DEF Operation
  <2>5. Silent(a, ToSet(at) \ {"net.peer.port"})
    BY <2>4 DEF Silent
  <2>6. Good(RedisLine("INFO", <<S, D>>, a, at), {"net.peer.port"})
    BY <2>2, <2>3, <2>4, <2>5, RedisLineGood
  <2> QED
    BY <2>1, <2>6
<1>9. Listed(RedisInfoLogs, 8)
  <2>1. Len(RedisInfoLogs) = 8
    BY DEF RedisInfoLogs
  <2>2. ASSUME NEW V, ToSet(RedisInfoLogs) \subseteq V PROVE RedisInfoLogs \in Seq(V)
    <3>1. \A i \in 1..8 : RedisInfoLogs[i] \in V
      BY <2>2 DEF RedisInfoLogs, ToSet
    <3> QED
      BY <3>1 DEF RedisInfoLogs
  <2> QED
    BY <2>1, <2>2 DEF Listed
<1> QED
  BY <1>1, <1>2, <1>3, <1>4, <1>5, <1>6, <1>7, <1>8, <1>9 DEF RedisInfoLogs

(***************************************************************************)
(* The debug templates of redis, one by one.                               *)
(***************************************************************************)
LEMMA RedisDebugLogsGood ==
    /\ Listed(RedisDebugLogs, 3)
    /\ Good(RedisDebugLogs[1], {"net.peer.port"})
    /\ Good(RedisDebugLogs[2], {})
    /\ Good(RedisDebugLogs[3], {})
<1>1. Good(RedisLine("DEBUG", <<S, D, S, D>>, <<"ip", "port", "text", "port">>,
        <<"net.peer.port">>), {"net.peer.port"})
  <2>1. PICK a, at : a = <<"ip", "port", "text", "port">> /\ at = <<"net.peer.port">>
    OBVIOUS
  <2>2. Short(<<S, D, S, D>>, a)
    BY <2>1, Bodies
  <2>3. "net.peer.port" \in TableKeys \ {"db.system"}
    BY DEF TableKeys
  <2>4. Distinct(at) /\ ToSet(at) = {"net.peer.port"}
    BY <2>1, <2>3, OneKey DEF Operation
  <2>5. Silent(a, ToSet(at) \ {"net.peer.port"})
    BY <2>4 DEF Silent
  <2>6. Good(RedisLine("DEBUG", <<S, D, S, D>>, a, at), {"net.peer.port"})
    BY <2>2, <2>3, <2>4, <2>5, RedisLineGood
  <2> QED
    BY <2>1, <2>6
<1>2. Good(RedisNote("DEBUG", <<D>>, <<"int">>), {})
  BY Bodies, RedisNoteGood
<1>3. Good(RedisLine("DEBUG", <<S>>, <<"text">>, Operation), {})
  <2>1. PICK a, at : a = <<"text">> /\ at = Operation
    OBVIOUS
  <2>2. Short(<<S>>, a)
    BY <2>1, Bodies
  <2>3. "db.operation.name" \in TableKeys \ {"db.system"}
    BY DEF TableKeys
  <2>4. Distinct(at) /\ ToSet(at) = {"db.operation.name"}
    BY <2>1, <2>3, OneKey DEF Operation
  <2>5. Silent(a, ToSet(at) \ {})
    <3>1. (ToSet(at) \ {}) \cap KindKeys = {}
      BY <2>4 DEF KindKeys
    <3> QED
      BY <3>1, SilentKeys
  <2>6. Good(RedisLine("DEBUG", <<S>>, a, at), {})
    BY <2>2, <2>3, <2>4, <2>5, RedisLineGood
  <2> QED
    BY <2>1, <2>6
<1>4. Listed(RedisDebugLogs, 3)
  <2>1. Len(RedisDebugLogs) = 3
    BY DEF RedisDebugLogs
  <2>2. ASSUME NEW V, ToSet(RedisDebugLogs) \subseteq V PROVE RedisDebugLogs \in Seq(V)
    <3>1. \A i \in 1..3 : RedisDebugLogs[i] \in V
      BY <2>2 DEF RedisDebugLogs, ToSet
    <3> QED
      BY <3>1 DEF RedisDebugLogs
  <2> QED
    BY <2>1, <2>2 DEF Listed
<1> QED
  BY <1>1, <1>2, <1>3, <1>4 DEF RedisDebugLogs

(***************************************************************************)
(* The warning and error templates of redis, one by one.                   *)
(***************************************************************************)
LEMMA RedisWarnLogsGood ==
    /\ Listed(RedisWarnLogs, 14)
    /\ Good(RedisWarnLogs[1], {})
    /\ Good(RedisWarnLogs[2], {})
    /\ Good(RedisWarnLogs[3], {})
    /\ Good(RedisWarnLogs[4], {})
    /\ Good(RedisWarnLogs[5], {})
    /\ Good(RedisWarnLogs[6], {})
    /\ Good(RedisWarnLogs[7], {})
    /\ Good(RedisWarnLogs[8], {})
    /\ Good(RedisWarnLogs[9], {})
    /\ Good(RedisWarnLogs[10], {})
    /\ Good(RedisWarnLogs[11], {})
    /\ Good(RedisWarnLogs[12], {})
    /\ Good(RedisWarnLogs[13], {})
    /\ Good(RedisWarnLogs[14], {})
<1>1. Good(RedisNote("WARN", <<D, D>>, <<"int", "int">>), {})
  BY Bodies, RedisNoteGood
<1>2. Good(RedisNote("WARN", <<>>, <<>>), {})
  BY Bodies, RedisNoteGood
<1>3. Good(RedisNote("WARN", <<D, S>>, <<"int", "text">>), {})
  BY Bodies, RedisNoteGood
<1>4. Good(RedisNote("ERROR", <<S>>, <<"text">>), {})
  BY Bodies, RedisNoteGood
<1>5. Good(RedisNote("ERROR", <<S>>, <<"text">>), {})
  BY Bodies, RedisNoteGood
<1>6. Good(RedisNote("ERROR", <<>>, <<>>), {})
  BY Bodies, RedisNoteGood
<1>7. Good(RedisNote("ERROR", <<>>, <<>>), {})
  BY Bodies, RedisNoteGood
<1>8. Good(RedisNote("ERROR", <<S, S>>, <<"text", "text">>), {})
  BY Bodies, RedisNoteGood
<1>9. Good(RedisNote("ERROR", <<S>>, <<"text">>), {})
  BY Bodies, RedisNoteGood
<1>10. Good(RedisNote("FATAL", <<S>>, <<"text">>), {})
  BY Bodies, RedisNoteGood
<1>11. Good(RedisNote("FATAL", <<>>, <<>>), {})
  BY Bodies, RedisNoteGood
<1>12. Good(RedisNote("FATAL", <<S, S>>, <<"text", "text">>), {})
  BY Bodies, RedisNoteGood
<1>13. Good(RedisNote("FATAL", <<S>>, <<"text">>), {})
  BY Bodies, RedisNoteGood
<1>14. Good(RedisNote("FATAL", <<X, S>>, <<"int", "text">>), {})
  BY Bodies, RedisNoteGood
<1>15. Listed(RedisWarnLogs, 14)
  <2>1. Len(RedisWarnLogs) = 14
    BY DEF RedisWarnLogs
  <2>2. ASSUME NEW V, ToSet(RedisWarnLogs) \subseteq V PROVE RedisWarnLogs \in Seq(V)
    <3>1. \A i \in 1..14 : RedisWarnLogs[i] \in V
      BY <2>2 DEF RedisWarnLogs, ToSet
    <3> QED
      BY <3>1 DEF RedisWarnLogs
  <2> QED
    BY <2>1, <2>2 DEF Listed
<1> QED
  BY <1>1, <1>2, <1>3, <1>4, <1>5, <1>6, <1>7, <1>8, <1>9, <1>10, <1>11, <1>12, <1>13,
     <1>14, <1>15 DEF RedisWarnLogs

(***************************************************************************)
(* The info templates of goapp, one by one.                                *)
(***************************************************************************)
LEMMA GoAppInfoLogsGood ==
    /\ Listed(GoAppInfoLogs, 6)
    /\ Good(GoAppInfoLogs[1], {})
    /\ Good(GoAppInfoLogs[2], {})
    /\ Good(GoAppInfoLogs[3], {})
    /\ Good(GoAppInfoLogs[4], {})
    /\ Good(GoAppInfoLogs[5], {})
    /\ Good(GoAppInfoLogs[6], {})
<1>1. Good(GoAppText("INFO", <<>>, <<>>), {})
  <2>1. Short(<<>>, <<>>)
    BY Bodies
  <2> QED
    BY <2>1, GoAppTextGood DEF Short
<1>2. Good(GoAppLine("INFO", <<S, S, D, D, S>>, <<"text", "url", "status", "int", "text">>), {})
  BY Bodies, GoAppLineGood
<1>3. Good(GoAppLine("INFO", <<S, S>>, <<"text", "db">>), {})
  BY Bodies, GoAppLineGood
<1>4. Good(Grpc("INFO", <<D>>, <<"int">>), {})
  BY Bodies, GrpcGood
<1>5. Good(GoAppOf("INFO", <<S, S, D>>, <<"text", "queue", "int">>,
        From("messaging.destination.name", 3), "messaging.system"), {})
  <2>1. PICK f, a, from : f = <<S, S, D>> /\ a = <<"text", "queue", "int">>
          /\ from = From("messaging.destination.name", 3)
    OBVIOUS
  <2>2. Short(f, a)
    BY <2>1, Bodies
  <2>3. Matches(f, a) /\ Len(a) \in 0..10
    BY <2>1, <2>2 DEF Short
  <2>4. DOMAIN from \subseteq KindKeys
    BY <2>1 DEF Service, From, None, KindKeys
  <2>5. Points(a, from, 2, {})
    BY <2>1 DEF Points, Service, From, None, Kinds
  <2>6. "messaging.system" \in TableKeys \ (KindKeys \cup {"telemetry.sdk.language"})
    BY DEF TableKeys, KindKeys
  <2>7. Good(GoAppOf("INFO", f, a, from, "messaging.system"), {})
    BY <2>3, <2>4, <2>5, <2>6, GoAppOfGood
  <2> QED
    BY <2>1, <2>7
<1>6. Good(GoAppLine("INFO", <<S, S, S>>, <<"text", "url", "text">>), {})
  BY Bodies, GoAppLineGood
<1>7. Listed(GoAppInfoLogs, 6)
  <2>1. Len(GoAppInfoLogs) = 6
    BY DEF GoAppInfoLogs
  <2>2. ASSUME NEW V, ToSet(GoAppInfoLogs) \subseteq V PROVE GoAppInfoLogs \in Seq(V)
    <3>1. \A i \in 1..6 : GoAppInfoLogs[i] \in V
      BY <2>2 DEF GoAppInfoLogs, ToSet
    <3> QED
      BY <3>1 DEF GoAppInfoLogs
  <2> QED
    BY <2>1, <2>2 DEF Listed
<1> QED
  BY <1>1, <1>2, <1>3, <1>4, <1>5, <1>6, <1>7 DEF GoAppInfoLogs

(***************************************************************************)
(* The debug templates of goapp, one by one.                               *)
(***************************************************************************)
LEMMA GoAppDebugLogsGood ==
    /\ Listed(GoAppDebugLogs, 4)
    /\ Good(GoAppDebugLogs[1], {})
    /\ Sound(GoAppDebugLogs[2], {})
    /\ Good(GoAppDebugLogs[3], {})
    /\ Good(GoAppDebugLogs[4], {})
<1>1. Good(GoAppLine("DEBUG", <<S, S, S, S>>, <<"text", "url", "agent", "text">>), {})
  BY Bodies, GoAppLineGood
<1>2. Sound(GoAppLine("DEBUG", <<S, D>>, <<"table", "text", "int">>), {})
  <2>1. PICK f, a, at : /\ f = <<S, D>> \o <<S, D>>
          /\ a = <<"text", "int">> \o <<"table", "text", "int">>
                        /\ at = <<"telemetry.sdk.language">>
    OBVIOUS
  <2>2. /\ <<S, D>> \in Words /\ <<"text", "int">> \in Words
          /\ <<"table", "text", "int">> \in Words
        /\ Len(<<S, D>>) = 2 /\ Len(<<"text", "int">>) = 2 /\ Len(<<"table", "text", "int">>) = 3
    BY Spelled DEF Words, ArgKinds
  <2>3. f \in Words /\ a \in Words /\ Len(f) = 4 /\ Len(a) = 5
    BY <2>1, <2>2, WordsJoined
  <2>4. \A j \in 1..5 : a[j] \in ArgKinds
    <3>1. {"text", "int", "table"} \subseteq ArgKinds
      BY DEF ArgKinds
    <3>2. PICK q, b : q = <<"text", "int">> /\ b = <<"table", "text", "int">>
      OBVIOUS
    <3>3. /\ q \in Words /\ b \in Words /\ Len(q) = 2 /\ Len(b) = 3
          /\ (\A i \in 1..2 : q[i] \in ArgKinds) /\ \A i \in 1..3 : b[i] \in ArgKinds
      BY <2>2, <3>1, <3>2
    <3>4. \A j \in 1..Len(q \o b) : \/ j \in 1..Len(q) /\ (q \o b)[j] = q[j]
                                    \/ j - Len(q) \in 1..Len(b) /\ (q \o b)[j] = b[j - Len(q)]
      BY <3>3, WordsJoined
    <3>5. a = q \o b
      BY <2>1, <3>2
    <3> QED
      BY <2>3, <3>3, <3>4, <3>5
  <2>5. "telemetry.sdk.language" \in TableKeys \ KindKeys
    BY DEF TableKeys, KindKeys
  <2>6. Distinct(at) /\ ToSet(at) = {"telemetry.sdk.language"}
    BY <2>1, <2>5, OneKey
  <2>7. Points(a, None, 0, {}) /\ DOMAIN None = {}
    BY NothingPointed
  <2>8. Silent(a, ToSet(at) \ {})
    <3>1. (ToSet(at) \ {}) \cap KindKeys = {}
      BY <2>5, <2>6
    <3> QED
      BY <3>1, SilentKeys
  <2>9. Len(f) <= Len(a) /\ Len(a) <= MaxArgs
    BY <2>3 DEF MaxArgs
  <2>10. DOMAIN None \cap ToSet(at) = {} /\ DOMAIN None \cup ToSet(at) \subseteq TableKeys
    BY <2>5, <2>6, <2>7
  <2>11. Sound(Msg("DEBUG", f, a, None, at), {})
    BY <2>3, <2>4, <2>6, <2>7, <2>8, <2>9, <2>10, MsgSound
  <2> QED
    BY <2>1, <2>11 DEF GoAppLine, GoAppText
<1>3. Good(GoAppLine("DEBUG", <<S, S, Q, S>>, <<"text", "url", "text", "text">>), {})
  BY Bodies, GoAppLineGood
<1>4. Good(GoAppLine("DEBUG", <<S, Q, S>>, <<"url", "text", "text">>), {})
  BY Bodies, GoAppLineGood
<1>5. Listed(GoAppDebugLogs, 4)
  <2>1. Len(GoAppDebugLogs) = 4
    BY DEF GoAppDebugLogs
  <2>2. ASSUME NEW V, ToSet(GoAppDebugLogs) \subseteq V PROVE GoAppDebugLogs \in Seq(V)
    <3>1. \A i \in 1..4 : GoAppDebugLogs[i] \in V
      BY <2>2 DEF GoAppDebugLogs, ToSet
    <3> QED
      BY <3>1 DEF GoAppDebugLogs
  <2> QED
    BY <2>1, <2>2 DEF Listed
<1> QED
  BY <1>1, <1>2, <1>3, <1>4, <1>5 DEF GoAppDebugLogs

(***************************************************************************)
(* The warning and error templates of goapp, one by one.                   *)
(***************************************************************************)
LEMMA GoAppWarnLogsGood ==
    /\ Listed(GoAppWarnLogs, 17)
    /\ Good(GoAppWarnLogs[1], {})
    /\ Good(GoAppWarnLogs[2], {})
    /\ Good(GoAppWarnLogs[3], {})
    /\ Good(GoAppWarnLogs[4], {})
    /\ Good(GoAppWarnLogs[5], {})
    /\ Good(GoAppWarnLogs[6], {})
    /\ Good(GoAppWarnLogs[7], {})
    /\ Good(GoAppWarnLogs[8], {})
    /\ Good(GoAppWarnLogs[9], {})
    /\ Good(GoAppWarnLogs[10], {})
    /\ Good(GoAppWarnLogs[11], {})
    /\ Good(GoAppWarnLogs[12], {})
    /\ Good(GoAppWarnLogs[13], {})
    /\ Good(GoAppWarnLogs[14], {})
    /\ Good(GoAppWarnLogs[15], {})
    /\ Good(GoAppWarnLogs[16], {})
    /\ Good(GoAppWarnLogs[17], {})
<1>1. Good(GoAppLine("WARN", <<S, S, D>>, <<"text", "url", "int">>), {})
  BY Bodies, GoAppLineGood
<1>2. Good(GoAppLine("WARN", <<S>>, <<"text">>), {})
  BY Bodies, GoAppLineGood
<1>3. Good(Grpc("WARN", <<>>, <<>>), {})
  BY Bodies, GrpcGood
<1>4. Good(GoAppLine("ERROR", <<S, S, S, S>>, <<"text", "url", "text", "text">>), {})
  BY Bodies, GoAppLineGood
<1>5. Good(GoAppLine("ERROR", <<S, S, D>>, <<"table", "text", "int">>), {})
  BY Bodies, GoAppLineGood
<1>6. Good(Grpc("ERROR", <<S>>, <<"text">>), {})
  BY Bodies, GrpcGood
<1>7. Good(GoAppLine("ERROR", <<S, S>>, <<"text", "text">>), {})
  BY Bodies, GoAppLineGood
<1>8. Good(GoAppLine("ERROR", <<S, S, S>>, <<"text", "text", "text">>), {})
  BY Bodies, GoAppLineGood
<1>9. Good(GoAppLine("ERROR", <<S, S, S>>, <<"table", "text", "text">>), {})
  BY Bodies, GoAppLineGood
<1>10. Good(Grpc("ERROR", <<S, S>>, <<"text", "text">>), {})
  BY Bodies, GrpcGood
<1>11. Good(GoAppText("FATAL", <<S>>, <<"text">>), {})
  <2>1. Short(<<S>>, <<"text">>)
    BY Bodies
  <2> QED
    BY <2>1, GoAppTextGood DEF Short
<1>12. Good(GoAppLine("FATAL", <<S>>, <<"text">>), {})
  BY Bodies, GoAppLineGood
<1>13. Good(GoAppLine("FATAL", <<S, S>>, <<"text", "text">>), {})
  BY Bodies, GoAppLineGood
<1>14. Good(GoAppLine("FATAL", <<S>>, <<"text">>), {})
  BY Bodies, GoAppLineGood
<1>15. Good(GoAppLine("FATAL", <<S, S, S>>, <<"text", "text", "text">>), {})
  BY Bodies, GoAppLineGood
<1>16. Good(GoAppOf("FATAL", <<S, S, S>>, <<"text", "text", "text">>, None,
        "messaging.system"), {})
  <2>1. PICK f, a, from : f = <<S, S, S>> /\ a = <<"text", "text", "text">> /\ from = None
    OBVIOUS
  <2>2. Short(f, a)
    BY <2>1, Bodies
  <2>3. Matches(f, a) /\ Len(a) \in 0..10
    BY <2>1, <2>2 DEF Short
  <2>4. DOMAIN from \subseteq KindKeys
    BY <2>1 DEF Service, From, None, KindKeys
  <2>5. Points(a, from, 2, {})
    BY <2>1 DEF Points, Service, From, None, Kinds
  <2>6. "messaging.system" \in TableKeys \ (KindKeys \cup {"telemetry.sdk.language"})
    BY DEF TableKeys, KindKeys
  <2>7. Good(GoAppOf("FATAL", f, a, from, "messaging.system"), {})
    BY <2>3, <2>4, <2>5, <2>6, GoAppOfGood
  <2> QED
    BY <2>1, <2>7
<1>17. Good(GoAppOf("FATAL", <<S, S, S>>, <<"service", "text", "text">>, Service,
        "rpc.system"), {})
  <2>1. PICK f, a, from : f = <<S, S, S>> /\ a = <<"service", "text", "text">> /\ from = Service
    OBVIOUS
  <2>2. Short(f, a)
    BY <2>1, Bodies
  <2>3. Matches(f, a) /\ Len(a) \in 0..10
    BY <2>1, <2>2 DEF Short
  <2>4. DOMAIN from \subseteq KindKeys
    BY <2>1 DEF Service, From, None, KindKeys
  <2>5. Points(a, from, 2, {})
    BY <2>1 DEF Points, Service, From, None, Kinds
  <2>6. "rpc.system" \in TableKeys \ (KindKeys \cup {"telemetry.sdk.language"})
    BY DEF TableKeys, KindKeys
  <2>7. Good(GoAppOf("FATAL", f, a, from, "rpc.system"), {})
    BY <2>3, <2>4, <2>5, <2>6, GoAppOfGood
  <2> QED
    BY <2>1, <2>7
<1>18. Listed(GoAppWarnLogs, 17)
  <2>1. Len(GoAppWarnLogs) = 17
    BY DEF GoAppWarnLogs
  <2>2. ASSUME NEW V, ToSet(GoAppWarnLogs) \subseteq V PROVE GoAppWarnLogs \in Seq(V)
    <3>1. \A i \in 1..17 : GoAppWarnLogs[i] \in V
      BY <2>2 DEF GoAppWarnLogs, ToSet
    <3> QED
      BY <3>1 DEF GoAppWarnLogs
  <2> QED
    BY <2>1, <2>2 DEF Listed
<1> QED
  BY <1>1, <1>2, <1>3, <1>4, <1>5, <1>6, <1>7, <1>8, <1>9, <1>10, <1>11, <1>12, <1>13,
     <1>14, <1>15, <1>16, <1>17, <1>18 DEF GoAppWarnLogs

Exempt(a, t) ==
    CASE a = "mysql" /\ t \in {4, 9} -> {"db.user"}
      [] a = "mysql" /\ t = 11       -> {"db.name", "db.sql.table"}
      [] a = "redis" /\ t \in {8, 9} -> {"net.peer.port"}
      [] OTHER                       -> {}
ServedSeverities == {"DEBUG", "INFO", "WARN", "ERROR", "FATAL"}
Tabled(a, n) ==
    /\ DOMAIN Messages(a) = 1..n
    /\ \A t \in 1..n : /\ Sound(Messages(a)[t], Exempt(a, t))
                       /\ (a = "goapp"
                               /\ t = 8) \/ Matches(Messages(a)[t].format, Messages(a)[t].args)
    /\ a = "generic" \/ \A s \in ServedSeverities : \E t \in 1..n : Messages(a)[t].severity = s

(***************************************************************************)
(* The access log of nginx is a list of seven templates.                   *)
(***************************************************************************)
LEMMA NginxAccessLogsListed == Listed(NginxAccessLogs, 7)
<1>1. Len(NginxAccessLogs) = 7
  BY DEF NginxAccessLogs
<1>2. ASSUME NEW V, ToSet(NginxAccessLogs) \subseteq V PROVE NginxAccessLogs \in Seq(V)
  <2>1. \A i \in 1..7 : NginxAccessLogs[i] \in V
    BY <1>2 DEF NginxAccessLogs, ToSet
  <2> QED
    BY <2>1 DEF NginxAccessLogs
<1> QED
  BY <1>1, <1>2 DEF Listed

(***************************************************************************)
(* The templates of nginx in the order of the profile.                     *)
(***************************************************************************)
LEMMA NginxTabled == Tabled("nginx", 23)
<1>1. Listed(NginxAccessLogs, 7) /\ Listed(NginxDebugLogs, 2) /\ Listed(NginxWarnLogs, 14)
  BY NginxAccessLogsListed, NginxDebugLogsGood, NginxWarnLogsGood
<1>3. PICK u : u = NginxMessages /\ Messages("nginx") = u
  BY DEF Messages
<1>4. /\ DOMAIN u = 1..23
      /\ \A i \in 1..7 : u[i] = NginxAccessLogs[i]
      /\ \A i \in 1..2 : u[7 + i] = NginxDebugLogs[i]
      /\ \A i \in 1..14 : u[9 + i] = NginxWarnLogs[i]
  <2>1. u = NginxAccessLogs \o NginxDebugLogs \o NginxWarnLogs
    BY <1>3 DEF NginxMessages
  <2>2. Joined(u, NginxAccessLogs, NginxDebugLogs, NginxWarnLogs, 7, 2, 14)
    BY <1>1, <2>1, TablesJoined
  <2>3. 7 + 2 + 14 = 23 /\ 7 + 2 = 9
    OBVIOUS
  <2> QED
    BY <2>2, <2>3, Zenon DEF Joined
<1>5. ASSUME NEW i \in 1..7
      PROVE  Good(NginxAccessLogs[i], Exempt("nginx", 0 + i))
  <2>1. \A t \in 1..23 : Exempt("nginx", t) = {}
    BY DEF Exempt
  <2>2. Good(NginxAccessLogs[i], {})
    BY Access1Good, Access2Good, Access3Good, Access4Good, Access5Good, Access6Good, Access7Good
  <2>3. Exempt("nginx", 0 + i) = {}
    BY <2>1
  <2> QED
    BY <2>2, <2>3
<1>6. ASSUME NEW i \in 1..2
      PROVE  Good(NginxDebugLogs[i], Exempt("nginx", 7 + i))
  <2>1. \A t \in 1..23 : Exempt("nginx", t) = {}
    BY DEF Exempt
  <2>2. Good(NginxDebugLogs[i], {})
    BY NginxDebugLogsGood
  <2>3. Exempt("nginx", 7 + i) = {}
    BY <2>1
  <2> QED
    BY <2>2, <2>3
<1>7. ASSUME NEW i \in 1..14
      PROVE  Good(NginxWarnLogs[i], Exempt("nginx", 9 + i))
  <2>1. \A t \in 1..23 : Exempt("nginx", t) = {}
    BY DEF Exempt
  <2>2. Good(NginxWarnLogs[i], {})
    BY NginxWarnLogsGood
  <2>3. Exempt("nginx", 9 + i) = {}
    BY <2>1
  <2> QED
    BY <2>2, <2>3
<1>8. ASSUME NEW t \in 1..23
      PROVE  /\ Sound(u[t], Exempt("nginx", t))
             /\ Matches(u[t].format, u[t].args)
  <2>1. CASE t - 0 \in 1..7
    <3>1. PICK i \in 1..7 : t = 0 + i
      BY <2>1
    <3> QED
      BY <1>4, <1>5, <3>1 DEF Good
  <2>2. CASE t - 7 \in 1..2
    <3>1. PICK i \in 1..2 : t = 7 + i
      BY <2>2
    <3> QED
      BY <1>4, <1>6, <3>1 DEF Good
  <2>3. CASE t - 9 \in 1..14
    <3>1. PICK i \in 1..14 : t = 9 + i
      BY <2>3
    <3> QED
      BY <1>4, <1>7, <3>1 DEF Good
  <2> QED
    BY <2>1, <2>2, <2>3
<1>9. \A s \in ServedSeverities : \E t \in 1..23 : u[t].severity = s
  <2>1. 1 \in 1..23 /\ u[1].severity = "INFO"
    <3>1. 1 \in 1..7 /\ 0 + 1 = 1
      OBVIOUS
    <3>2. u[1] = NginxAccessLogs[1]
      BY <1>4, <3>1
    <3> QED
      BY <3>2 DEF NginxAccessLogs, Msg, Access, NginxLine, NginxEmerg
  <2>2. 8 \in 1..23 /\ u[8].severity = "DEBUG"
    <3>1. 1 \in 1..2 /\ 7 + 1 = 8
      OBVIOUS
    <3>2. u[8] = NginxDebugLogs[1]
      BY <1>4, <3>1
    <3> QED
      BY <3>2 DEF NginxDebugLogs, Msg, Access, NginxLine, NginxEmerg
  <2>3. 10 \in 1..23 /\ u[10].severity = "WARN"
    <3>1. 1 \in 1..14 /\ 9 + 1 = 10
      OBVIOUS
    <3>2. u[10] = NginxWarnLogs[1]
      BY <1>4, <3>1
    <3> QED
      BY <3>2 DEF NginxWarnLogs, Msg, Access, NginxLine, NginxEmerg
  <2>4. 13 \in 1..23 /\ u[13].severity = "ERROR"
    <3>1. 4 \in 1..14 /\ 9 + 4 = 13
      OBVIOUS
    <3>2. u[13] = NginxWarnLogs[4]
      BY <1>4, <3>1
    <3> QED
      BY <3>2 DEF NginxWarnLogs, Msg, Access, NginxLine, NginxEmerg
  <2>5. 19 \in 1..23 /\ u[19].severity = "FATAL"
    <3>1. 10 \in 1..14 /\ 9 + 10 = 19
      OBVIOUS
    <3>2. u[19] = NginxWarnLogs[10]
      BY <1>4, <3>1
    <3> QED
      BY <3>2 DEF NginxWarnLogs, Msg, Access, NginxLine, NginxEmerg
  <2> QED
    BY <2>1, <2>2, <2>3, <2>4, <2>5 DEF ServedSeverities
<1> QED
  BY <1>3, <1>4, <1>8, <1>9 DEF Tabled

(***************************************************************************)
(* The templates of mysql in the order of the profile.                     *)
(***************************************************************************)
LEMMA MySQLTabled == Tabled("mysql", 22)
<1>1. Listed(MySQLInfoLogs, 5) /\ Listed(MySQLDebugLogs, 3) /\ Listed(MySQLWarnLogs, 14)
  BY MySQLInfoLogsGood, MySQLDebugLogsGood, MySQLWarnLogsGood
<1>3. PICK u : u = MySQLMessages /\ Messages("mysql") = u
  BY DEF Messages
<1>4. /\ DOMAIN u = 1..22
      /\ \A i \in 1..5 : u[i] = MySQLInfoLogs[i]
      /\ \A i \in 1..3 : u[5 + i] = MySQLDebugLogs[i]
      /\ \A i \in 1..14 : u[8 + i] = MySQLWarnLogs[i]
  <2>1. u = MySQLInfoLogs \o MySQLDebugLogs \o MySQLWarnLogs
    BY <1>3 DEF MySQLMessages
  <2>2. Joined(u, MySQLInfoLogs, MySQLDebugLogs, MySQLWarnLogs, 5, 3, 14)
    BY <1>1, <2>1, TablesJoined
  <2>3. 5 + 3 + 14 = 22 /\ 5 + 3 = 8
    OBVIOUS
  <2> QED
    BY <2>2, <2>3, Zenon DEF Joined
<1>5. ASSUME NEW i \in 1..5
      PROVE  Good(MySQLInfoLogs[i], Exempt("mysql", 0 + i))
  <2>1. \A t \in 1..22 : t \notin {4, 9, 11} => Exempt("mysql", t) = {}
    BY DEF Exempt
  <2>2. CASE i = 4
    <3>1. Good(MySQLInfoLogs[4], {"db.user"})
      BY MySQLInfoLogsGood
    <3>2. Exempt("mysql", 0 + 4) = {"db.user"}
      BY DEF Exempt
    <3> QED
      BY <2>2, <3>1, <3>2
  <2>3. CASE i # 4
    <3>1. Good(MySQLInfoLogs[i], {})
      BY <2>3, MySQLInfoLogsGood
    <3>2. Exempt("mysql", 0 + i) = {}
      BY <2>1, <2>3
    <3> QED
      BY <3>1, <3>2
  <2> QED
    BY <2>2, <2>3
<1>6. ASSUME NEW i \in 1..3
      PROVE  Good(MySQLDebugLogs[i], Exempt("mysql", 5 + i))
  <2>1. \A t \in 1..22 : t \notin {4, 9, 11} => Exempt("mysql", t) = {}
    BY DEF Exempt
  <2>2. Good(MySQLDebugLogs[i], {})
    BY MySQLDebugLogsGood
  <2>3. Exempt("mysql", 5 + i) = {}
    BY <2>1
  <2> QED
    BY <2>2, <2>3
<1>7. ASSUME NEW i \in 1..14
      PROVE  Good(MySQLWarnLogs[i], Exempt("mysql", 8 + i))
  <2>1. \A t \in 1..22 : t \notin {4, 9, 11} => Exempt("mysql", t) = {}
    BY DEF Exempt
  <2>2. CASE i = 1
    <3>1. Good(MySQLWarnLogs[1], {"db.user"})
      BY MySQLWarnLogsGood
    <3>2. Exempt("mysql", 8 + 1) = {"db.user"}
      BY DEF Exempt
    <3> QED
      BY <2>2, <3>1, <3>2
  <2>3. CASE i = 3
    <3>1. Good(MySQLWarnLogs[3], {"db.name", "db.sql.table"})
      BY MySQLWarnLogsGood
    <3>2. Exempt("mysql", 8 + 3) = {"db.name", "db.sql.table"}
      BY DEF Exempt
    <3> QED
      BY <2>3, <3>1, <3>2
  <2>4. CASE i # 1 /\ i # 3
    <3>1. Good(MySQLWarnLogs[i], {})
      BY <2>4, MySQLWarnLogsGood
    <3>2. Exempt("mysql", 8 + i) = {}
      BY <2>1, <2>4
    <3> QED
      BY <3>1, <3>2
  <2> QED
    BY <2>2, <2>3, <2>4
<1>8. ASSUME NEW t \in 1..22
      PROVE  /\ Sound(u[t], Exempt("mysql", t))
             /\ Matches(u[t].format, u[t].args)
  <2>1. CASE t - 0 \in 1..5
    <3>1. PICK i \in 1..5 : t = 0 + i
      BY <2>1
    <3> QED
      BY <1>4, <1>5, <3>1 DEF Good
  <2>2. CASE t - 5 \in 1..3
    <3>1. PICK i \in 1..3 : t = 5 + i
      BY <2>2
    <3> QED
      BY <1>4, <1>6, <3>1 DEF Good
  <2>3. CASE t - 8 \in 1..14
    <3>1. PICK i \in 1..14 : t = 8 + i
      BY <2>3
    <3> QED
      BY <1>4, <1>7, <3>1 DEF Good
  <2> QED
    BY <2>1, <2>2, <2>3
<1>9. \A s \in ServedSeverities : \E t \in 1..22 : u[t].severity = s
  <2>1. 1 \in 1..22 /\ u[1].severity = "INFO"
    <3>1. 1 \in 1..5 /\ 0 + 1 = 1
      OBVIOUS
    <3>2. u[1] = MySQLInfoLogs[1]
      BY <1>4, <3>1
    <3> QED
      BY <3>2 DEF MySQLInfoLogs, Msg, Aborted, MySQLNote, MySQLLine
  <2>2. 6 \in 1..22 /\ u[6].severity = "DEBUG"
    <3>1. 1 \in 1..3 /\ 5 + 1 = 6
      OBVIOUS
    <3>2. u[6] = MySQLDebugLogs[1]
      BY <1>4, <3>1
    <3> QED
      BY <3>2 DEF MySQLDebugLogs, Msg, Aborted, MySQLNote, MySQLLine
  <2>3. 9 \in 1..22 /\ u[9].severity = "WARN"
    <3>1. 1 \in 1..14 /\ 8 + 1 = 9
      OBVIOUS
    <3>2. u[9] = MySQLWarnLogs[1]
      BY <1>4, <3>1
    <3> QED
      BY <3>2 DEF MySQLWarnLogs, Msg, Aborted, MySQLNote, MySQLLine
  <2>4. 12 \in 1..22 /\ u[12].severity = "ERROR"
    <3>1. 4 \in 1..14 /\ 8 + 4 = 12
      OBVIOUS
    <3>2. u[12] = MySQLWarnLogs[4]
      BY <1>4, <3>1
    <3> QED
      BY <3>2 DEF MySQLWarnLogs, Msg, Aborted, MySQLNote, MySQLLine
  <2>5. 18 \in 1..22 /\ u[18].severity = "FATAL"
    <3>1. 10 \in 1..14 /\ 8 + 10 = 18
      OBVIOUS
    <3>2. u[18] = MySQLWarnLogs[10]
      BY <1>4, <3>1
    <3> QED
      BY <3>2 DEF MySQLWarnLogs, Msg, Aborted, MySQLNote, MySQLLine
  <2> QED
    BY <2>1, <2>2, <2>3, <2>4, <2>5 DEF ServedSeverities
<1> QED
  BY <1>3, <1>4, <1>8, <1>9 DEF Tabled

(***************************************************************************)
(* The templates of redis in the order of the profile.                     *)
(***************************************************************************)
LEMMA RedisTabled == Tabled("redis", 25)
<1>1. Listed(RedisInfoLogs, 8) /\ Listed(RedisDebugLogs, 3) /\ Listed(RedisWarnLogs, 14)
  BY RedisInfoLogsGood, RedisDebugLogsGood, RedisWarnLogsGood
<1>3. PICK u : u = RedisMessages /\ Messages("redis") = u
  BY DEF Messages
<1>4. /\ DOMAIN u = 1..25
      /\ \A i \in 1..8 : u[i] = RedisInfoLogs[i]
      /\ \A i \in 1..3 : u[8 + i] = RedisDebugLogs[i]
      /\ \A i \in 1..14 : u[11 + i] = RedisWarnLogs[i]
  <2>1. u = RedisInfoLogs \o RedisDebugLogs \o RedisWarnLogs
    BY <1>3 DEF RedisMessages
  <2>2. Joined(u, RedisInfoLogs, RedisDebugLogs, RedisWarnLogs, 8, 3, 14)
    BY <1>1, <2>1, TablesJoined
  <2>3. 8 + 3 + 14 = 25 /\ 8 + 3 = 11
    OBVIOUS
  <2> QED
    BY <2>2, <2>3, Zenon DEF Joined
<1>5. ASSUME NEW i \in 1..8
      PROVE  Good(RedisInfoLogs[i], Exempt("redis", 0 + i))
  <2>1. \A t \in 1..25 : t \notin {8, 9} => Exempt("redis", t) = {}
    BY DEF Exempt
  <2>2. CASE i = 8
    <3>1. Good(RedisInfoLogs[8], {"net.peer.port"})
      BY RedisInfoLogsGood
    <3>2. Exempt("redis", 0 + 8) = {"net.peer.port"}
      BY DEF Exempt
    <3> QED
      BY <2>2, <3>1, <3>2
  <2>3. CASE i # 8
    <3>1. Good(RedisInfoLogs[i], {})
      BY <2>3, RedisInfoLogsGood
    <3>2. Exempt("redis", 0 + i) = {}
      BY <2>1, <2>3
    <3> QED
      BY <3>1, <3>2
  <2> QED
    BY <2>2, <2>3
<1>6. ASSUME NEW i \in 1..3
      PROVE  Good(RedisDebugLogs[i], Exempt("redis", 8 + i))
  <2>1. \A t \in 1..25 : t \notin {8, 9} => Exempt("redis", t) = {}
    BY DEF Exempt
  <2>2. CASE i = 1
    <3>1. Good(RedisDebugLogs[1], {"net.peer.port"})
      BY RedisDebugLogsGood
    <3>2. Exempt("redis", 8 + 1) = {"net.peer.port"}
      BY DEF Exempt
    <3> QED
      BY <2>2, <3>1, <3>2
  <2>3. CASE i # 1
    <3>1. Good(RedisDebugLogs[i], {})
      BY <2>3, RedisDebugLogsGood
    <3>2. Exempt("redis", 8 + i) = {}
      BY <2>1, <2>3
    <3> QED
      BY <3>1, <3>2
  <2> QED
    BY <2>2, <2>3
<1>7. ASSUME NEW i \in 1..14
      PROVE  Good(RedisWarnLogs[i], Exempt("redis", 11 + i))
  <2>1. \A t \in 1..25 : t \notin {8, 9} => Exempt("redis", t) = {}
    BY DEF Exempt
  <2>2. Good(RedisWarnLogs[i], {})
    BY RedisWarnLogsGood
  <2>3. Exempt("redis", 11 + i) = {}
    BY <2>1
  <2> QED
    BY <2>2, <2>3
<1>8. ASSUME NEW t \in 1..25
      PROVE  /\ Sound(u[t], Exempt("redis", t))
             /\ Matches(u[t].format, u[t].args)
  <2>1. CASE t - 0 \in 1..8
    <3>1. PICK i \in 1..8 : t = 0 + i
      BY <2>1
    <3> QED
      BY <1>4, <1>5, <3>1 DEF Good
  <2>2. CASE t - 8 \in 1..3
    <3>1. PICK i \in 1..3 : t = 8 + i
      BY <2>2
    <3> QED
      BY <1>4, <1>6, <3>1 DEF Good
  <2>3. CASE t - 11 \in 1..14
    <3>1. PICK i \in 1..14 : t = 11 + i
      BY <2>3
    <3> QED
      BY <1>4, <1>7, <3>1 DEF Good
  <2> QED
    BY <2>1, <2>2, <2>3
<1>9. \A s \in ServedSeverities : \E t \in 1..25 : u[t].severity = s
  <2>1. 1 \in 1..25 /\ u[1].severity = "INFO"
    <3>1. 1 \in 1..8 /\ 0 + 1 = 1
      OBVIOUS
    <3>2. u[1] = RedisInfoLogs[1]
      BY <1>4, <3>1
    <3> QED
      BY <3>2 DEF RedisInfoLogs, Msg, RedisNote, RedisLine
  <2>2. 9 \in 1..25 /\ u[9].severity = "DEBUG"
    <3>1. 1 \in 1..3 /\ 8 + 1 = 9
      OBVIOUS
    <3>2. u[9] = RedisDebugLogs[1]
      BY <1>4, <3>1
    <3> QED
      BY <3>2 DEF RedisDebugLogs, Msg, RedisNote, RedisLine
  <2>3. 12 \in 1..25 /\ u[12].severity = "WARN"
    <3>1. 1 \in 1..14 /\ 11 + 1 = 12
      OBVIOUS
    <3>2. u[12] = RedisWarnLogs[1]
      BY <1>4, <3>1
    <3> QED
      BY <3>2 DEF RedisWarnLogs, Msg, RedisNote, RedisLine
  <2>4. 15 \in 1..25 /\ u[15].severity = "ERROR"
    <3>1. 4 \in 1..14 /\ 11 + 4 = 15
      OBVIOUS
    <3>2. u[15] = RedisWarnLogs[4]
      BY <1>4, <3>1
    <3> QED
      BY <3>2 DEF RedisWarnLogs, Msg, RedisNote, RedisLine
  <2>5. 21 \in 1..25 /\ u[21].severity = "FATAL"
    <3>1. 10 \in 1..14 /\ 11 + 10 = 21
      OBVIOUS
    <3>2. u[21] = RedisWarnLogs[10]
      BY <1>4, <3>1
    <3> QED
      BY <3>2 DEF RedisWarnLogs, Msg, RedisNote, RedisLine
  <2> QED
    BY <2>1, <2>2, <2>3, <2>4, <2>5 DEF ServedSeverities
<1> QED
  BY <1>3, <1>4, <1>8, <1>9 DEF Tabled

(***************************************************************************)
(* The templates of goapp in the order of the profile.                     *)
(***************************************************************************)
LEMMA GoAppTabled == Tabled("goapp", 27)
<1>1. Listed(GoAppInfoLogs, 6) /\ Listed(GoAppDebugLogs, 4) /\ Listed(GoAppWarnLogs, 17)
  BY GoAppInfoLogsGood, GoAppDebugLogsGood, GoAppWarnLogsGood
<1>3. PICK u : u = GoAppMessages /\ Messages("goapp") = u
  BY DEF Messages
<1>4. /\ DOMAIN u = 1..27
      /\ \A i \in 1..6 : u[i] = GoAppInfoLogs[i]
      /\ \A i \in 1..4 : u[6 + i] = GoAppDebugLogs[i]
      /\ \A i \in 1..17 : u[10 + i] = GoAppWarnLogs[i]
  <2>1. u = GoAppInfoLogs \o GoAppDebugLogs \o GoAppWarnLogs
    BY <1>3 DEF GoAppMessages
  <2>2. Joined(u, GoAppInfoLogs, GoAppDebugLogs, GoAppWarnLogs, 6, 4, 17)
    BY <1>1, <2>1, TablesJoined
  <2>3. 6 + 4 + 17 = 27 /\ 6 + 4 = 10
    OBVIOUS
  <2> QED
    BY <2>2, <2>3, Zenon DEF Joined
<1>5. ASSUME NEW i \in 1..6
      PROVE  Good(GoAppInfoLogs[i], Exempt("goapp", 0 + i))
  <2>1. \A t \in 1..27 : Exempt("goapp", t) = {}
    BY DEF Exempt
  <2>2. Good(GoAppInfoLogs[i], {})
    BY GoAppInfoLogsGood
  <2>3. Exempt("goapp", 0 + i) = {}
    BY <2>1
  <2> QED
    BY <2>2, <2>3
<1>6. ASSUME NEW i \in 1..4
      PROVE  /\ Sound(GoAppDebugLogs[i], Exempt("goapp", 6 + i))
             /\ (i = 2 \/ Matches(GoAppDebugLogs[i].format, GoAppDebugLogs[i].args))
  <2>1. \A t \in 1..27 : Exempt("goapp", t) = {}
    BY DEF Exempt
  <2>2. Sound(GoAppDebugLogs[i], {})
          /\ (i = 2 \/ Matches(GoAppDebugLogs[i].format, GoAppDebugLogs[i].args))
    BY GoAppDebugLogsGood DEF Good
  <2>3. Exempt("goapp", 6 + i) = {}
    BY <2>1
  <2> QED
    BY <2>2, <2>3
<1>7. ASSUME NEW i \in 1..17
      PROVE  Good(GoAppWarnLogs[i], Exempt("goapp", 10 + i))
  <2>1. \A t \in 1..27 : Exempt("goapp", t) = {}
    BY DEF Exempt
  <2>2. Good(GoAppWarnLogs[i], {})
    BY GoAppWarnLogsGood
  <2>3. Exempt("goapp", 10 + i) = {}
    BY <2>1
  <2> QED
    BY <2>2, <2>3
<1>8. ASSUME NEW t \in 1..27
      PROVE  /\ Sound(u[t], Exempt("goapp", t))
             /\ t = 8 \/ Matches(u[t].format, u[t].args)
  <2>1. CASE t - 0 \in 1..6
    <3>1. PICK i \in 1..6 : t = 0 + i
      BY <2>1
    <3> QED
      BY <1>4, <1>5, <3>1 DEF Good
  <2>2. CASE t - 6 \in 1..4
    <3>1. PICK i \in 1..4 : t = 6 + i
      BY <2>2
    <3> QED
      BY <1>4, <1>6, <3>1 DEF Good
  <2>3. CASE t - 10 \in 1..17
    <3>1. PICK i \in 1..17 : t = 10 + i
      BY <2>3
    <3> QED
      BY <1>4, <1>7, <3>1 DEF Good
  <2> QED
    BY <2>1, <2>2, <2>3
<1>9. \A s \in ServedSeverities : \E t \in 1..27 : u[t].severity = s
  <2>1. 1 \in 1..27 /\ u[1].severity = "INFO"
    <3>1. 1 \in 1..6 /\ 0 + 1 = 1
      OBVIOUS
    <3>2. u[1] = GoAppInfoLogs[1]
      BY <1>4, <3>1
    <3> QED
      BY <3>2 DEF GoAppInfoLogs, Msg, GoAppText, GoAppLine
  <2>2. 7 \in 1..27 /\ u[7].severity = "DEBUG"
    <3>1. 1 \in 1..4 /\ 6 + 1 = 7
      OBVIOUS
    <3>2. u[7] = GoAppDebugLogs[1]
      BY <1>4, <3>1
    <3> QED
      BY <3>2 DEF GoAppDebugLogs, Msg, GoAppText, GoAppLine
  <2>3. 11 \in 1..27 /\ u[11].severity = "WARN"
    <3>1. 1 \in 1..17 /\ 10 + 1 = 11
      OBVIOUS
    <3>2. u[11] = GoAppWarnLogs[1]
      BY <1>4, <3>1
    <3> QED
      BY <3>2 DEF GoAppWarnLogs, Msg, GoAppText, GoAppLine
  <2>4. 14 \in 1..27 /\ u[14].severity = "ERROR"
    <3>1. 4 \in 1..17 /\ 10 + 4 = 14
      OBVIOUS
    <3>2. u[14] = GoAppWarnLogs[4]
      BY <1>4, <3>1
    <3> QED
      BY <3>2 DEF GoAppWarnLogs, Msg, GoAppText, GoAppLine
  <2>5. 21 \in 1..27 /\ u[21].severity = "FATAL"
    <3>1. 11 \in 1..17 /\ 10 + 11 = 21
      OBVIOUS
    <3>2. u[21] = GoAppWarnLogs[11]
      BY <1>4, <3>1
    <3> QED
      BY <3>2 DEF GoAppWarnLogs, Msg, GoAppText, GoAppLine
  <2> QED
    BY <2>1, <2>2, <2>3, <2>4, <2>5 DEF ServedSeverities
<1> QED
  BY <1>3, <1>4, <1>8, <1>9 DEF Tabled

(***************************************************************************)
(* A template of proxy, which has no body, is good when its keys come      *)
(* once.                                                                   *)
(***************************************************************************)
LEMMA EventSound ==
    ASSUME NEW sev, NEW at, NEW ra, Distinct(at), Distinct(ra), ToSet(at) \cap ToSet(ra) = {},
           (ToSet(at) \cup ToSet(ra)) \cap SystemKeys = {}
    PROVE  /\ Good(Event(sev, at, ra), {}) /\ Event(sev, at, ra).severity = sev
<1>1. PICK m : m = Event(sev, at, ra)
  OBVIOUS
<1>2. m.format = <<>> /\ m.args = <<>> /\ m.fromArg = None /\ m.attrs = at /\ m.rare = ra
        /\ m.severity = sev
  BY <1>1 DEF Event, Msg
<1>3. Points(<<>>, None, 0, {}) /\ DOMAIN None = {}
  BY NothingPointed
<1>4. Len(<<>>) <= Len(<<>>) /\ Len(<<>>) <= MaxArgs
        /\ \A j \in 1..Len(<<>>) : <<>>[j] \in ArgKinds
  BY DEF MaxArgs
<1>5. \A keys : Silent(<<>>, keys)
  BY DEF Silent
<1>6. Sound(m, {})
  BY <1>2, <1>3, <1>4, <1>5, NoWords DEF Sound
<1>7. Matches(<<>>, <<>>)
  BY NoWords DEF Matches
<1> QED
  BY <1>1, <1>2, <1>6, <1>7 DEF Good

(***************************************************************************)
(* The keys of the events of proxy come once, and none is of the long tail *)
(* or of error.message.                                                    *)
(***************************************************************************)
LEMMA EventKeys ==
    /\ Distinct(InfoAttrs) /\ ToSet(InfoAttrs) \cap SystemKeys = {}
    /\ Distinct(InfoRare) /\ ToSet(InfoRare) \cap SystemKeys = {}
    /\ Distinct(HealthAttrs) /\ ToSet(HealthAttrs) \cap SystemKeys = {}
    /\ Distinct(DebugAttrs) /\ ToSet(DebugAttrs) \cap SystemKeys = {}
    /\ Distinct(FailureAttrs) /\ ToSet(FailureAttrs) \cap SystemKeys = {}
    /\ Distinct(FatalAttrs) /\ ToSet(FatalAttrs) \cap SystemKeys = {}
    /\ ToSet(InfoAttrs) \cap ToSet(InfoRare) = {}
    /\ Distinct(Append(FailureAttrs, "resolution_type"))
    /\ ToSet(Append(FailureAttrs, "resolution_type")) \cap SystemKeys = {}
<1>1. Distinct(InfoAttrs) /\ ToSet(InfoAttrs) \cap SystemKeys = {}
  <2>1. InfoAttrs \in Words
    <3>1. ToSet(InfoAttrs) \subseteq Vocabulary
      BY DEF Vocabulary
    <3> QED
      BY <3>1 DEF InfoAttrs, ToSet, Words
  <2>2. \A i, j \in 1..Len(InfoAttrs) : InfoAttrs[i] = InfoAttrs[j] => i = j
    BY DEF InfoAttrs
  <2>3. ToSet(InfoAttrs) \cap SystemKeys = {}
    BY DEF InfoAttrs, ToSet, SystemKeys, LongTailKeys, ErrorMessageAttrs
  <2> QED
    BY <2>1, <2>2, <2>3 DEF Distinct
<1>2. Distinct(InfoRare) /\ ToSet(InfoRare) \cap SystemKeys = {}
  <2>1. InfoRare \in Words
    <3>1. ToSet(InfoRare) \subseteq Vocabulary
      BY DEF Vocabulary
    <3> QED
      BY <3>1 DEF InfoRare, ToSet, Words
  <2>2. \A i, j \in 1..Len(InfoRare) : InfoRare[i] = InfoRare[j] => i = j
    BY DEF InfoRare
  <2>3. ToSet(InfoRare) \cap SystemKeys = {}
    BY DEF InfoRare, ToSet, SystemKeys, LongTailKeys, ErrorMessageAttrs
  <2> QED
    BY <2>1, <2>2, <2>3 DEF Distinct
<1>3. Distinct(HealthAttrs) /\ ToSet(HealthAttrs) \cap SystemKeys = {}
  <2>1. HealthAttrs \in Words
    <3>1. ToSet(HealthAttrs) \subseteq Vocabulary
      BY DEF Vocabulary
    <3> QED
      BY <3>1 DEF HealthAttrs, ToSet, Words
  <2>2. \A i, j \in 1..Len(HealthAttrs) : HealthAttrs[i] = HealthAttrs[j] => i = j
    BY DEF HealthAttrs
  <2>3. ToSet(HealthAttrs) \cap SystemKeys = {}
    BY DEF HealthAttrs, ToSet, SystemKeys, LongTailKeys, ErrorMessageAttrs
  <2> QED
    BY <2>1, <2>2, <2>3 DEF Distinct
<1>4. Distinct(DebugAttrs) /\ ToSet(DebugAttrs) \cap SystemKeys = {}
  <2>1. DebugAttrs \in Words
    <3>1. ToSet(DebugAttrs) \subseteq Vocabulary
      BY DEF Vocabulary
    <3> QED
      BY <3>1 DEF DebugAttrs, ToSet, Words
  <2>2. \A i, j \in 1..Len(DebugAttrs) : DebugAttrs[i] = DebugAttrs[j] => i = j
    BY DEF DebugAttrs
  <2>3. ToSet(DebugAttrs) \cap SystemKeys = {}
    BY DEF DebugAttrs, ToSet, SystemKeys, LongTailKeys, ErrorMessageAttrs
  <2> QED
    BY <2>1, <2>2, <2>3 DEF Distinct
<1>5. Distinct(FailureAttrs) /\ ToSet(FailureAttrs) \cap SystemKeys = {}
  <2>1. FailureAttrs \in Words
    <3>1. ToSet(FailureAttrs) \subseteq Vocabulary
      BY DEF Vocabulary
    <3> QED
      BY <3>1 DEF FailureAttrs, ToSet, Words
  <2>2. \A i, j \in 1..Len(FailureAttrs) : FailureAttrs[i] = FailureAttrs[j] => i = j
    BY DEF FailureAttrs
  <2>3. ToSet(FailureAttrs) \cap SystemKeys = {}
    BY DEF FailureAttrs, ToSet, SystemKeys, LongTailKeys, ErrorMessageAttrs
  <2> QED
    BY <2>1, <2>2, <2>3 DEF Distinct
<1>6. Distinct(FatalAttrs) /\ ToSet(FatalAttrs) \cap SystemKeys = {}
  <2>1. FatalAttrs \in Words
    <3>1. ToSet(FatalAttrs) \subseteq Vocabulary
      BY DEF Vocabulary
    <3> QED
      BY <3>1 DEF FatalAttrs, ToSet, Words
  <2>2. \A i, j \in 1..Len(FatalAttrs) : FatalAttrs[i] = FatalAttrs[j] => i = j
    BY DEF FatalAttrs
  <2>3. ToSet(FatalAttrs) \cap SystemKeys = {}
    BY DEF FatalAttrs, ToSet, SystemKeys, LongTailKeys, ErrorMessageAttrs
  <2> QED
    BY <2>1, <2>2, <2>3 DEF Distinct
<1>7. ToSet(InfoAttrs) \cap ToSet(InfoRare) = {}
  BY DEF InfoAttrs, InfoRare, ToSet
<1>8. PICK r : r = <<"resolution_type">>
  OBVIOUS
<1>9. r \in Words /\ Len(r) = 1 /\ Distinct(r) /\ ToSet(r) = {"resolution_type"}
  <2>1. "resolution_type" \in Vocabulary
    BY DEF Vocabulary
  <2> QED
    BY <1>8, <2>1 DEF Words, Distinct, ToSet
<1>10. ToSet(FailureAttrs) \cap ToSet(r) = {} /\ ToSet(r) \cap SystemKeys = {}
  BY <1>9 DEF FailureAttrs, ToSet, SystemKeys, LongTailKeys, ErrorMessageAttrs
<1>11. Distinct(FailureAttrs \o r) /\ ToSet(FailureAttrs \o r) = ToSet(FailureAttrs) \cup ToSet(r)
  BY <1>5, <1>9, <1>10, DistinctJoined
<1>12. Append(FailureAttrs, "resolution_type") = FailureAttrs \o r
  <2>1. FailureAttrs \in Words
    BY <1>5 DEF Distinct
  <2> QED
    BY <1>8, <2>1 DEF Words
<1> QED
  BY <1>1, <1>2, <1>3, <1>4, <1>5, <1>6, <1>7, <1>10, <1>11, <1>12

(***************************************************************************)
(* The templates of proxy in the order of the profile.                     *)
(***************************************************************************)
LEMMA ProxyTabled == Tabled("proxy", 7)
<1>1. PICK u : u = ProxyMessages /\ Messages("proxy") = u
  BY DEF Messages
<1>2. Distinct(<<>>) /\ ToSet(<<>>) = {}
  BY NoWords
<1>3. \A s \in ServedSeverities : /\ Good(Event(s, InfoAttrs, InfoRare), {})
        /\ Event(s, InfoAttrs, InfoRare).severity = s
  BY EventKeys, EventSound
<1>4. \A s \in ServedSeverities : /\ Good(Event(s, HealthAttrs, <<>>), {})
        /\ Event(s, HealthAttrs, <<>>).severity = s
  BY <1>2, EventKeys, EventSound
<1>5. \A s \in ServedSeverities : /\ Good(Event(s, DebugAttrs, <<>>), {})
        /\ Event(s, DebugAttrs, <<>>).severity = s
  BY <1>2, EventKeys, EventSound
<1>6. \A s \in ServedSeverities : /\ Good(Event(s, FailureAttrs, <<>>), {})
        /\ Event(s, FailureAttrs, <<>>).severity = s
  BY <1>2, EventKeys, EventSound
<1>7. /\ Good(Event("ERROR", Append(FailureAttrs, "resolution_type"), <<>>), {})
      /\ Event("ERROR", Append(FailureAttrs, "resolution_type"), <<>>).severity = "ERROR"
  BY <1>2, EventKeys, EventSound
<1>8. \A s \in ServedSeverities : /\ Good(Event(s, FatalAttrs, <<>>), {})
        /\ Event(s, FatalAttrs, <<>>).severity = s
  BY <1>2, EventKeys, EventSound
<1>9. /\ DOMAIN u = 1..7 /\ u[1] = Event("INFO", InfoAttrs, InfoRare) /\ u[2] = u[1]
      /\ u[3] = Event("INFO", HealthAttrs, <<>>) /\ u[4] = Event("DEBUG", DebugAttrs, <<>>)
      /\ u[5] = Event("WARN", FailureAttrs, <<>>)
      /\ u[6] = Event("ERROR", Append(FailureAttrs, "resolution_type"), <<>>)
      /\ u[7] = Event("FATAL", FatalAttrs, <<>>)
  BY <1>1 DEF ProxyMessages
<1>10. /\ Good(u[1], {}) /\ Good(u[2], {}) /\ Good(u[3], {}) /\ Good(u[4], {})
       /\ Good(u[5], {}) /\ Good(u[6], {}) /\ Good(u[7], {})
  BY <1>3, <1>4, <1>5, <1>6, <1>7, <1>8, <1>9 DEF ServedSeverities
<1>11. /\ u[1].severity = "INFO" /\ u[4].severity = "DEBUG" /\ u[5].severity = "WARN"
       /\ u[6].severity = "ERROR" /\ u[7].severity = "FATAL"
  BY <1>3, <1>5, <1>6, <1>7, <1>8, <1>9 DEF ServedSeverities
<1>12. \A t \in 1..7 : Exempt("proxy", t) = {}
  BY DEF Exempt
<1>13. \A t \in 1..7 : Good(u[t], Exempt("proxy", t))
  <2>1. \A t \in 1..7 : Good(u[t], {})
    BY <1>10
  <2> QED
    BY <1>12, <2>1
<1>14. \A s \in ServedSeverities : \E t \in 1..7 : u[t].severity = s
  BY <1>11 DEF ServedSeverities
<1> QED
  BY <1>1, <1>9, <1>13, <1>14 DEF Tabled, Good

(***************************************************************************)
(* The templates of generic in the order of the profile.                   *)
(***************************************************************************)
LEMMA GenericTabled == Tabled("generic", 1)
<1>1. PICK f, a : f = <<S, S>> /\ a = <<"text", "text">>
  OBVIOUS
<1>2. Short(f, a) /\ Matches(f, a) /\ f \in Words /\ a \in Words /\ Len(f) = 2 /\ Len(a) = 2
  BY <1>1, Bodies DEF Short, Matches
<1>3. Points(a, None, 0, {}) /\ DOMAIN None = {}
  BY NothingPointed
<1>4. Silent(a, ToSet(<<>>) \ {}) /\ Distinct(<<>>) /\ ToSet(<<>>) = {}
  BY NoWords DEF Silent
<1>5. Len(f) <= Len(a) /\ Len(a) <= MaxArgs /\ \A j \in 1..Len(a) : a[j] \in ArgKinds
  BY <1>2 DEF MaxArgs, Matches
<1>6. Sound(Msg("INFO", f, a, None, <<>>), {})
  BY <1>2, <1>3, <1>4, <1>5, MsgSound
<1>7. PICK u : u = GenericMessages /\ Messages("generic") = u
  BY DEF Messages
<1>8. DOMAIN u = 1..1 /\ u[1] = Msg("INFO", f, a, None, <<>>)
  BY <1>1, <1>7 DEF GenericMessages
<1>9. u[1].format = f /\ u[1].args = a
  BY <1>8 DEF Msg
<1>10. Exempt("generic", 1) = {}
  BY DEF Exempt
<1>11. \A t \in 1..1 : Sound(u[t], Exempt("generic", t)) /\ Matches(u[t].format, u[t].args)
  <2>1. \A t \in 1..1 : t = 1
    OBVIOUS
  <2> QED
    BY <1>2, <1>6, <1>8, <1>9, <1>10, <2>1
<1> QED
  BY <1>7, <1>8, <1>11 DEF Tabled

(***************************************************************************)
(* The templates of every profile: all of them are sound, all but one      *)
(* match their arguments, and there is one for each severity the weights   *)
(* may draw, but in the generic profile.                                   *)
(***************************************************************************)
LEMMA Tables ==
    ASSUME NEW a \in Apps
    PROVE  /\ \E n \in Nat \ {0} : DOMAIN Messages(a) = 1..n
           /\ \A t \in DOMAIN Messages(a) :
                 /\ Sound(Messages(a)[t], Exempt(a, t))
                 /\ (a = "goapp" /\ t = 8) \/ Matches(Messages(a)[t].format, Messages(a)[t].args)
           /\ a = "generic"
              \/ \A s \in ServedSeverities : \E t \in DOMAIN Messages(a) : Messages(a)[t].severity = s
<1>1. PICK n \in {23, 22, 25, 27, 7, 1} : Tabled(a, n)
  BY AppsAssumption, NginxTabled, MySQLTabled, RedisTabled, GoAppTabled, ProxyTabled,
          GenericTabled
<1> QED
  BY <1>1 DEF Tabled

-----------------------------------------------------------------------------
(***************************************************************************)
(* pickSeverityFromWeights draws one of the six severities, whatever the   *)
(* weights and the roll.                                                   *)
(***************************************************************************)
LEMMA SeverityPicked == ASSUME NEW weights, NEW n PROVE PickSeverity(weights, n) \in SeverityTexts
<1>1. SeverityTexts = {"TRACE", "DEBUG", "INFO", "WARN", "ERROR", "FATAL"}
  BY DEF SeverityTexts, Severities
<1>2. PICK above : above = {i \in 1..6 : n < weights[i]}
  OBVIOUS
<1>3. ASSUME above # {} PROVE Min(above) \in 1..6
  <2>1. PICK m \in above : \A x \in above : m <= x
    <3>1. above \subseteq 1..6
      BY <1>2
    <3>2. 1 \in above \/ 2 \in above \/ 3 \in above \/ 4 \in above \/ 5 \in above \/ 6 \in above
      <4>1. PICK x \in above : TRUE
        BY <1>3
      <4>2. x = 1 \/ x = 2 \/ x = 3 \/ x = 4 \/ x = 5 \/ x = 6
        BY <3>1
      <4> QED
        BY <4>1, <4>2
    <3> QED
      BY <3>1, <3>2
  <2>2. Min(above) \in above
    BY <2>1 DEF Min
  <2> QED
    BY <1>2, <2>2
<1>4. ASSUME NEW i \in 1..6 PROVE Severities[i] \in SeverityTexts
  BY <1>1 DEF Severities
<1>5. PickSeverity(weights, n) = IF above = {} THEN "INFO" ELSE Severities[Min(above)]
  BY <1>2 DEF PickSeverity
<1> QED
  BY <1>1, <1>3, <1>4, <1>5

(***************************************************************************)
(* TRACE is the only severity for which a profile has no templates.        *)
(***************************************************************************)
LEMMA SeverityNames == \A s \in SeverityTexts : s = "TRACE" \/ s \in ServedSeverities
  BY DEF SeverityTexts, Severities, ServedSeverities

(***************************************************************************)
(* The templates of a severity, in terms of the tables.                    *)
(***************************************************************************)
LEMMA ProfileIs ==
    ASSUME app \in Apps
    PROVE  /\ Profile = AppProfile(app)
           /\ Profile.messages = [t \in DOMAIN Messages(app) |-> Template(app, Messages(app)[t])]
           /\ Profile.routes = [v \in (1..MaxArgs) \X {"route"} |-> RouteOf(v)]
           /\ Profile.longTail = IF LongTail(app) = {} THEN {}
                                 ELSE {NoAttrs} \cup {Put(NoAttrs, k, Own) : k \in LongTail(app)}
           /\ \A t \in DOMAIN Messages(app) :
                 Profile.messages[t].severity = Messages(app)[t].severity
<1>1. Profile = AppProfile(app)
  BY DEF Profile, Profiles
<1>2. /\ AppProfile(app).messages = [t \in DOMAIN Messages(app) |-> Template(app,
        Messages(app)[t])]
      /\ AppProfile(app).routes = [v \in (1..MaxArgs) \X {"route"} |-> RouteOf(v)]
      /\ AppProfile(app).longTail = IF LongTail(app) = {} THEN {}
                                 ELSE {NoAttrs} \cup {Put(NoAttrs, k, Own) : k \in LongTail(app)}
  BY DEF AppProfile
<1>3. \A m : Template(app, m).severity = m.severity
  BY DEF Template
<1> QED
  BY <1>1, <1>2, <1>3

(***************************************************************************)
(* A template drawn for a severity has it, if the profile has any that do. *)
(***************************************************************************)
LEMMA TemplatePicked ==
    ASSUME app \in Apps, NEW sev \in SeverityTexts, NEW t \in TemplatesFor(Profile, sev)
    PROVE  /\ t \in DOMAIN Messages(app)
           /\ sev # "TRACE" /\ app # "generic" => Messages(app)[t].severity = sev
<1>1. /\ DOMAIN Profile.messages = DOMAIN Messages(app)
      /\ \A u \in DOMAIN Messages(app) :
            Profile.messages[u].severity = Messages(app)[u].severity
  BY ProfileIs
<1>2. t \in DOMAIN Messages(app)
  BY <1>1 DEF TemplatesFor, Bucket
<1>3. ASSUME sev # "TRACE", app # "generic" PROVE Messages(app)[t].severity = sev
  <2>1. \E u \in DOMAIN Messages(app) : Messages(app)[u].severity = sev
    BY <1>3, SeverityNames, Tables
  <2>2. Bucket(Profile, sev) # {}
    BY <1>1, <2>1 DEF Bucket
  <2>3. t \in Bucket(Profile, sev)
    BY <2>2 DEF TemplatesFor
  <2> QED
    BY <1>1, <2>3 DEF Bucket
<1> QED
  BY <1>2, <1>3

(***************************************************************************)
(* Template and body.                                                      *)
(***************************************************************************)
Chosen == phase \in {"template", "formatted", "emitted"}
Formatted == phase \in {"formatted", "emitted"}
BodyOf(a, t) == SprintfSimple(Messages(a)[t].format, Messages(a)[t].args)

TemplateInv ==
    /\ app \in Apps
    /\ phase \in {"configured", "ready", "template", "formatted", "emitted"}
    /\ severity \in SeverityTexts
    /\ tmpl \in {0} \cup DOMAIN Messages(app)
    /\ Chosen => /\ tmpl \in DOMAIN Messages(app)
                 /\ severity # "TRACE" /\ app # "generic" =>
                       Messages(app)[tmpl].severity = severity
    /\ Formatted => body = BodyOf(app, tmpl)

(***************************************************************************)
(* Before the first record there is nothing to say of template and body.   *)
(***************************************************************************)
LEMMA TemplateInit == Init => TemplateInv
<1>1. "INFO" \in SeverityTexts
  BY DEF SeverityTexts, Severities
<1> QED
  BY <1>1 DEF Init, TemplateInv, Chosen, Formatted

(***************************************************************************)
(* Template and body stay what the steps made them until the next record.  *)
(***************************************************************************)
LEMMA TemplateNext == TemplateInv /\ [Next]_vars => TemplateInv'
<1> SUFFICES ASSUME TemplateInv, [Next]_vars PROVE TemplateInv'
  OBVIOUS
<1> USE DEF TemplateInv, Chosen, Formatted
<1>1. CASE BuildPool
  BY <1>1 DEF BuildPool
<1>2. CASE BuildWithoutPool
  BY <1>2 DEF BuildWithoutPool
<1>3. CASE PickTemplate
  <2>1. PICK n \in Rolls : /\ severity' = PickSeverity(Profile.weights, n)
                           /\ tmpl' \in TemplatesFor(Profile, PickSeverity(Profile.weights, n))
    BY <1>3 DEF PickTemplate
  <2>2. severity' \in SeverityTexts /\ tmpl' \in TemplatesFor(Profile, severity')
    BY <2>1, SeverityPicked
  <2>3. /\ tmpl' \in DOMAIN Messages(app)
        /\ severity' # "TRACE" /\ app # "generic" => Messages(app)[tmpl'].severity = severity'
    BY <2>2, TemplatePicked
  <2>4. phase' = "template" /\ app' = app
    BY <1>3 DEF PickTemplate
  <2> QED
    BY <2>2, <2>3, <2>4
<1>4. CASE FormatBody
  BY <1>4 DEF FormatBody, BodyOf
<1>5. CASE FillAttributes
  <2>1. UNCHANGED <<app, cidrs, watch, address, body, severity, tmpl>>
          /\ phase = "formatted" /\ phase' = "emitted"
    BY <1>5 DEF FillAttributes
  <2> QED
    BY <2>1
<1>6. CASE UNCHANGED vars
  BY <1>6 DEF vars
<1> QED
  BY <1>1, <1>2, <1>3, <1>4, <1>5, <1>6 DEF Next

(***************************************************************************)
(* For all weights and rolls: a record has the severity that was drawn,    *)
(* except for TRACE and in the generic profile (the fallbacks of           *)
(* GenerateFromPreparedInto are not taken).                                *)
(***************************************************************************)
THEOREM SeverityServedCorrect == Spec => []SeverityServed
<1>1. TemplateInv => SeverityServed
  BY DEF TemplateInv, SeverityServed, Emitted, Chosen
<1> QED
  BY <1>1, TemplateInit, TemplateNext, PTL DEF Spec

(***************************************************************************)
(* The body of a template: its arguments in order, as many as there are    *)
(* placeholders.                                                           *)
(***************************************************************************)
LEMMA BodyIs ==
    ASSUME NEW a \in Apps, NEW t \in DOMAIN Messages(a)
    PROVE  /\ Messages(a)[t].format \in Words /\ Messages(a)[t].args \in Words
           /\ Len(Messages(a)[t].format) <= Len(Messages(a)[t].args)
           /\ Len(Messages(a)[t].format) \in Nat /\ Len(Messages(a)[t].args) \in Nat
           /\ DOMAIN BodyOf(a, t) = 1..Len(Messages(a)[t].format)
           /\ Len(BodyOf(a, t)) = Len(Messages(a)[t].format)
           /\ \A j \in 1..Len(Messages(a)[t].format) :
                 BodyOf(a, t)[j] = <<j, Messages(a)[t].args[j]>>
<1>1. PICK m, f, b : m = Messages(a)[t] /\ f = m.format /\ b = m.args
  OBVIOUS
<1>2. f \in Words /\ b \in Words /\ Len(f) <= Len(b)
  <2>1. Sound(m, Exempt(a, t))
    BY <1>1, Tables
  <2> QED
    BY <1>1, <2>1 DEF Sound
<1>3. DOMAIN f = 1..Len(f) /\ DOMAIN b = 1..Len(b) /\ Len(f) \in Nat /\ Len(b) \in Nat
  BY <1>2, WordsJoined
<1>4. PICK s : s = SprintfSimple(f, b)
  OBVIOUS
<1>5. s = [j \in 1..Len(f) |-> IF j \in 1..Len(b) THEN <<j, b[j]>> ELSE IndexOutOfRange]
  BY <1>3, <1>4 DEF SprintfSimple
<1>6. \A j \in 1..Len(f) : s[j] = <<j, b[j]>>
  BY <1>2, <1>3, <1>5
<1>7. DOMAIN s = 1..Len(f) /\ Len(s) = Len(f)
  BY <1>3, <1>5
<1> QED
  BY <1>1, <1>2, <1>3, <1>4, <1>6, <1>7 DEF BodyOf

(***************************************************************************)
(* For every profile: sprintfSimple never runs out of arguments, prints    *)
(* all of them, and a number where a placeholder prints one, in every      *)
(* template but one.                                                       *)
(***************************************************************************)
THEOREM PlaceholdersFitCorrect == Spec => []PlaceholdersFit
<1>1. TemplateInv => PlaceholdersFit
  <2> SUFFICES ASSUME TemplateInv, phase \in {"formatted", "emitted"}
               PROVE  /\ IndexOutOfRange \notin ToSet(body)
                      /\ ~ShiftedByEscape =>
                            /\ Len(body) = Len(Messages(app)[tmpl].args)
                            /\ \A j \in DOMAIN body :
                                  Messages(app)[tmpl].format[j] \in {D,
                                          X} => body[j][2] \in Numbers
    BY DEF PlaceholdersFit
  <2>1. app \in Apps /\ tmpl \in DOMAIN Messages(app) /\ body = BodyOf(app, tmpl)
    BY DEF TemplateInv, Chosen, Formatted
  <2>2. PICK f, b : f = Messages(app)[tmpl].format /\ b = Messages(app)[tmpl].args
    OBVIOUS
  <2>3. /\ Len(f) \in Nat /\ DOMAIN body = 1..Len(f) /\ Len(body) = Len(f)
        /\ \A j \in 1..Len(f) : body[j] = <<j, b[j]>>
    BY <2>1, <2>2, BodyIs
  <2>4. IndexOutOfRange \notin ToSet(body)
    <3>1. \A j \in 1..Len(f) : body[j][1] = j /\ j # 0
      BY <2>3
    <3>2. IndexOutOfRange[1] = 0
      BY DEF IndexOutOfRange
    <3> QED
      BY <2>3, <3>1, <3>2 DEF ToSet
  <2>5. ASSUME ~ShiftedByEscape
        PROVE  /\ Len(f) = Len(b)
               /\ \A j \in 1..Len(f) : f[j] \in {D, X} => b[j] \in Numbers
    <3>1. Matches(f, b)
      BY <2>1, <2>2, <2>5, Tables DEF ShiftedByEscape
    <3> QED
      BY <3>1 DEF Matches
  <2>6. \A j \in 1..Len(f) : body[j][2] = b[j]
    BY <2>3
  <2> QED
    BY <2>2, <2>3, <2>4, <2>5, <2>6
<1> QED
  BY <1>1, TemplateInit, TemplateNext, PTL DEF Spec

-----------------------------------------------------------------------------
(***************************************************************************)
(* The generators of one key.                                              *)
(***************************************************************************)
Keeping(key, kept, g) == IF g.key = key THEN Append(kept, g) ELSE kept
OnlyFolds(it, key, list) ==
    /\ it[{}] = <<>>
    /\ \A s \in SUBSET DOMAIN list : s # {} =>
          it[s] = Keeping(key, it[s \ {Max(s)}], list[Max(s)])
    /\ Only(key, list) = it[DOMAIN list]

(***************************************************************************)
(* Cutting a list down to a key takes its generators one by one.           *)
(***************************************************************************)
LEMMA OnlyFold ==
    ASSUME NEW n \in Nat, NEW list, DOMAIN list = 1..n, NEW key
    PROVE  \E it : OnlyFolds(it, key, list)
<1> DEFINE E == {list[i] : i \in 1..n}
           V == Seq(E)
           op == [iv \in (1..n) \X V |-> Keeping(key, iv[2], list[iv[1]])]
           Def(it) == [s \in SUBSET DOMAIN list |->
                         IF s = {} THEN <<>>
                         ELSE Keeping(key, it[s \ {Max(s)}], list[Max(s)])]
<1>2. \A i \in 1..n, v \in V : Keeping(key, v, list[i]) \in V
  <2> SUFFICES ASSUME NEW i \in 1..n, NEW v \in V PROVE Keeping(key, v, list[i]) \in V
    OBVIOUS
  <2>1. PICK g : g = list[i] /\ g \in E
    OBVIOUS
  <2> HIDE DEF E
  <2> QED
    BY <2>1 DEF Keeping
<1>3. op \in [(1..n) \X V -> V]
  <2> DEFINE val(iv) == Keeping(key, iv[2], list[iv[1]])
  <2>1. \A iv \in (1..n) \X V : val(iv) \in V
    BY <1>2
  <2> HIDE DEF val, V
  <2>2. [iv \in (1..n) \X V |-> val(iv)] \in [(1..n) \X V -> V]
    BY <2>1
  <2> QED
    BY <2>2 DEF val
<1>4. \A i \in 1..n, v \in V : op[<<i, v>>] = Keeping(key, v, list[i])
  OBVIOUS
<1>0. <<>> \in V
  OBVIOUS
<1> HIDE DEF V, op
<1>5. PICK it \in [SUBSET (1..n) -> V] : Folds(it, n, <<>>, op)
  BY <1>0, <1>3, FoldExists
<1>6. ASSUME NEW s \in SUBSET (1..n), s # {}
      PROVE  it[s] = Keeping(key, it[s \ {Max(s)}], list[Max(s)])
  <2>1. Max(s) \in 1..n /\ it[s \ {Max(s)}] \in V
    BY <1>6, MaxIn
  <2>2. it[s] = op[<<Max(s), it[s \ {Max(s)}]>>]
    BY <1>5, <1>6 DEF Folds
  <2> QED
    BY <1>4, <2>1, <2>2
<1>7. it = Def(it)
  <2>1. it = [s \in SUBSET DOMAIN list |-> it[s]] /\ it[{}] = <<>>
    BY <1>5 DEF Folds
  <2>2. \A s \in SUBSET DOMAIN list :
           it[s] = IF s = {} THEN <<>> ELSE Keeping(key, it[s \ {Max(s)}], list[Max(s)])
    BY <1>6, <2>1
  <2> QED
    BY <2>1, <2>2
<1> DEFINE iter == CHOOSE g : g = Def(g)
<1>8. iter = Def(iter)
  <2> HIDE DEF Def
  <2> QED
    BY <1>7
<1>9. Only(key, list) = iter[DOMAIN list]
  BY DEF Only, FoldLeft, MapThenFoldSet, Keeping
<1> HIDE DEF iter
<1>10. /\ iter[{}] = <<>>
       /\ \A s \in SUBSET DOMAIN list : s # {} =>
             iter[s] = Keeping(key, iter[s \ {Max(s)}], list[Max(s)])
  BY <1>8
<1> QED
  BY <1>9, <1>10 DEF OnlyFolds

OneOf(seq, key, list, n) ==
    /\ seq \in Seq({list[i] : i \in 1..n})
    /\ \A j \in 1..Len(seq) : \E i \in 1..n : seq[j] = list[i] /\ list[i].key = key
    /\ Len(seq) \in {0, 1}

(***************************************************************************)
(* Cut down to a key that comes once, a list has at most one generator.    *)
(***************************************************************************)
LEMMA OnlyOne ==
    ASSUME NEW n \in Nat, NEW list, DOMAIN list = 1..n, NEW key,
           \A i, j \in 1..n : list[i].key = list[j].key => i = j
    PROVE  OneOf(Only(key, list), key, list, n)
<1>0. PICK it : OnlyFolds(it, key, list)
  BY OnlyFold
<1>1. /\ it[{}] = <<>>
      /\ \A s \in SUBSET (1..n) : s # {} =>
            it[s] = Keeping(key, it[s \ {Max(s)}], list[Max(s)])
      /\ Only(key, list) = it[1..n]
  BY <1>0 DEF OnlyFolds
<1> DEFINE T == {s \in SUBSET (1..n) : /\ OneOf(it[s], key, list, n)
                                       /\ (\A i \in s : list[i].key # key) => it[s] = <<>>}
<1>2. {} \in T
  <2>1. OneOf(<<>>, key, list, n)
    BY DEF OneOf
  <2> QED
    BY <1>1, <2>1
<1>3. ASSUME NEW s \in SUBSET (1..n), s # {}, \A x \in s : s \ {x} \in T
      PROVE  s \in T
  <2>1. PICK m, r : m = Max(s) /\ r = s \ {m} /\ m \in s
    BY <1>3, MaxIn
  <2>2. /\ r \in T /\ OneOf(it[r], key, list, n)
        /\ (\A i \in r : list[i].key # key) => it[r] = <<>>
    BY <1>3, <2>1
  <2>3. it[s] = Keeping(key, it[r], list[m])
    BY <1>1, <1>3, <2>1
  <2>4. CASE list[m].key = key
    <3>1. \A i \in r : list[i].key # key
      BY <2>1, <2>4
    <3>2. it[s] = <<list[m]>>
      <4>1. it[r] = <<>>
        BY <2>2, <3>1
      <4> QED
        BY <2>3, <2>4, <4>1 DEF Keeping
    <3>3. OneOf(<<list[m]>>, key, list, n)
      BY <2>1, <2>4 DEF OneOf
    <3> QED
      BY <2>1, <2>4, <3>2, <3>3
  <2>5. CASE list[m].key # key
    <3>1. it[s] = it[r]
      BY <2>3, <2>5 DEF Keeping
    <3> QED
      BY <2>1, <2>2, <2>5, <3>1
  <2> QED
    BY <2>4, <2>5
<1>4. PICK all : all = 1..n /\ IsFiniteSet(all)
  BY FS_Interval
<1>5. SUBSET all \subseteq T
  <2> HIDE DEF T
  <2>1. \A s \in SUBSET all : s # {} /\ (\A x \in s : s \ {x} \in T) => s \in T
    BY <1>3, <1>4
  <2> QED
    BY <1>2, <1>4, <2>1, SubsetInduction
<1>6. 1..n \in T
  BY <1>4, <1>5
<1> QED
  BY <1>1, <1>6

(***************************************************************************)
(* A list of generators with keys that come once.                          *)
(***************************************************************************)
Keyed(list, n, keys, values) ==
    /\ n \in Nat /\ DOMAIN list = 1..n
    /\ \A i \in 1..n : list[i].key \in keys /\ list[i].values \subseteq values
    /\ \A i, j \in 1..n : list[i].key = list[j].key => i = j

GeneratorsOf(at, values) == [i \in DOMAIN at |-> [key |-> at[i], values |-> values]]

(***************************************************************************)
(* The generators of keys that come once.                                  *)
(***************************************************************************)
LEMMA KeyedGiven ==
    ASSUME NEW at, NEW n \in Nat, DOMAIN at = 1..n, NEW values,
           \A i, j \in 1..n : at[i] = at[j] => i = j
    PROVE  /\ Keyed(GeneratorsOf(at, values), n, ToSet(at), values)
           /\ GeneratorsOf(at, values) \in Seq(ToSet(GeneratorsOf(at, values)))
           /\ Len(GeneratorsOf(at, values)) = n
<1>1. PICK x : x = GeneratorsOf(at, values)
  OBVIOUS
<1>2. /\ x = [i \in 1..n |-> [key |-> at[i], values |-> values]]
      /\ DOMAIN x = 1..n /\ \A i \in 1..n : x[i].key = at[i] /\ x[i].values = values
  BY <1>1 DEF GeneratorsOf
<1>3. x \in Seq(ToSet(x)) /\ Len(x) = n
  <2>0. PICK V : V = ToSet(x)
    OBVIOUS
  <2>1. V = ToSet(x) /\ \A i \in 1..n : x[i] \in V
    BY <1>2, <2>0 DEF ToSet
  <2>2. x \in [1..n -> V]
    <3>1. x = [i \in 1..n |-> x[i]]
      BY <1>2
    <3> QED
      BY <2>1, <3>1
  <2>3. x \in Seq(V) /\ Len(x) = n
    BY <2>2
  <2> QED
    BY <2>1, <2>3
<1>4. Keyed(x, n, ToSet(at), values)
  BY <1>2 DEF Keyed, ToSet
<1> QED
  BY <1>1, <1>3, <1>4

(***************************************************************************)
(* Two lists of generators without a common key.                           *)
(***************************************************************************)
LEMMA KeyedJoined ==
    ASSUME NEW x, NEW m, NEW K, NEW y, NEW n, NEW L, NEW values,
           Keyed(x, m, K, values), Keyed(y, n, L, values), K \cap L = {},
           x \in Seq(ToSet(x)), y \in Seq(ToSet(y)), Len(x) = m, Len(y) = n
    PROVE  Keyed(x \o y, m + n, K \cup L, values)
<1>1. PICK V : V = ToSet(x) \cup ToSet(y)
  OBVIOUS
<1>2. x \in Seq(V) /\ y \in Seq(V) /\ m \in Nat /\ n \in Nat
  <2>1. ToSet(x) \subseteq V /\ ToSet(y) \subseteq V
    BY <1>1
  <2> QED
    BY <2>1 DEF Keyed
<1>3. PICK u : u = x \o y
  OBVIOUS
<1>4. u \in Seq(V)
  BY <1>2, <1>3
<1>5. Len(u) = m + n
  <2>1. Len(x \o y) = Len(x) + Len(y)
    BY <1>2
  <2> QED
    BY <1>3, <2>1, Zenon
<1>6. \A i \in 1..m : u[i] = x[i]
  BY <1>2, <1>3
<1>7. \A i \in 1..n : u[m + i] = y[i]
  BY <1>2, <1>3
<1>8. DOMAIN u = 1..m + n /\ m + n \in Nat
  BY <1>2, <1>4, <1>5
<1>9. ASSUME NEW i \in 1..m + n
      PROVE  (i \in 1..m /\ u[i] = x[i]) \/ (i - m \in 1..n /\ u[i] = y[i - m])
  <2>1. CASE i \in 1..m
    BY <1>6, <2>1
  <2>2. CASE i \notin 1..m
    <3>1. i - m \in 1..n /\ m + (i - m) = i
      BY <1>2, <2>2
    <3> QED
      BY <1>7, <3>1
  <2> QED
    BY <2>1, <2>2
<1>10. \A i \in 1..m + n : u[i].key \in K \cup L /\ u[i].values \subseteq values
  BY <1>9 DEF Keyed
<1>11. ASSUME NEW i \in 1..m + n, NEW j \in 1..m + n, u[i].key = u[j].key
       PROVE  i = j
  <2>1. CASE i \in 1..m /\ u[i] = x[i] /\ j \in 1..m /\ u[j] = x[j]
    BY <1>11, <2>1 DEF Keyed
  <2>2. CASE i - m \in 1..n /\ u[i] = y[i - m] /\ j - m \in 1..n /\ u[j] = y[j - m]
    <3>1. i - m = j - m
      BY <1>11, <2>2 DEF Keyed
    <3> QED
      BY <1>2, <3>1
  <2>3. ASSUME NEW k \in 1..m, NEW l \in 1..n PROVE x[k].key # y[l].key
    BY DEF Keyed
  <2> QED
    BY <1>9, <1>11, <2>1, <2>2, <2>3
<1> QED
  BY <1>3, <1>8, <1>10, <1>11 DEF Keyed

CrossKeys(a) == ToSet(CrossCutting(a))

(***************************************************************************)
(* The keys of the long tail and of error.message are apart from each      *)
(* other and come once.                                                    *)
(***************************************************************************)
LEMMA CrossOwn ==
    ASSUME NEW a
    PROVE  /\ \E n \in Nat : /\ DOMAIN CrossCutting(a) = 1..n
                             /\ \A i, j \in 1..n : CrossCutting(a)[i] = CrossCutting(a)[j] => i = j
           /\ CrossKeys(a) \subseteq SystemKeys /\ LongTail(a) \subseteq SystemKeys
           /\ CrossKeys(a) \cap LongTail(a) = {}
<1>1. CASE a = "generic"
  <2>1. CrossCutting(a) = <<>> /\ LongTail(a) = {}
    BY <1>1 DEF CrossCutting, LongTail
  <2> QED
    BY <2>1, NoWords DEF CrossKeys
<1>2. CASE a # "generic"
  <2>1. CrossCutting(a) = ErrorMessageAttrs /\ LongTail(a) = LongTailKeys
    BY <1>2 DEF CrossCutting, LongTail
  <2>2. /\ DOMAIN ErrorMessageAttrs = 1..2
        /\ \A i, j \in 1..2 : ErrorMessageAttrs[i] = ErrorMessageAttrs[j] => i = j
    BY DEF ErrorMessageAttrs
  <2>3. ToSet(ErrorMessageAttrs) \cap LongTailKeys = {}
    BY DEF ErrorMessageAttrs, LongTailKeys, ToSet
  <2>4. ToSet(ErrorMessageAttrs) \subseteq SystemKeys /\ LongTailKeys \subseteq SystemKeys
    BY DEF SystemKeys
  <2>5. 2 \in Nat
    OBVIOUS
  <2> QED
    BY <2>1, <2>2, <2>3, <2>4, <2>5 DEF CrossKeys
<1> QED
  BY <1>1, <1>2

(***************************************************************************)
(* The attributes of every template, those of error.message included, and  *)
(* its rare attributes have a generator per key.                           *)
(***************************************************************************)
LEMMA TemplateLists ==
    ASSUME NEW a \in Apps, NEW t \in DOMAIN Messages(a)
    PROVE  /\ \E n : Keyed(Template(a, Messages(a)[t]).attrs, n,
                           ToSet(Messages(a)[t].attrs) \cup CrossKeys(a), {Own, Nil})
           /\ \E n : Keyed(Template(a, Messages(a)[t]).rare, n, ToSet(Messages(a)[t].rare), {Own})
<1>1. PICK m, at, ra, cc : /\ m = Messages(a)[t] /\ at = m.attrs /\ ra = m.rare
                           /\ cc = CrossCutting(a)
  OBVIOUS
<1>2. Sound(m, Exempt(a, t))
  BY <1>1, Tables
<1>3. Distinct(at) /\ Distinct(ra) /\ ToSet(at) \cap SystemKeys = {}
  BY <1>1, <1>2 DEF Sound
<1>4. /\ DOMAIN at = 1..Len(at) /\ Len(at) \in Nat
      /\ \A i, j \in 1..Len(at) : at[i] = at[j] => i = j
  BY <1>3, WordsJoined DEF Distinct
<1>5. /\ DOMAIN ra = 1..Len(ra) /\ Len(ra) \in Nat
      /\ \A i, j \in 1..Len(ra) : ra[i] = ra[j] => i = j
  BY <1>3, WordsJoined DEF Distinct
<1>6. PICK k \in Nat : /\ DOMAIN cc = 1..k /\ \A i, j \in 1..k : cc[i] = cc[j] => i = j
  BY <1>1, CrossOwn
<1>7. /\ Template(a, m).attrs = GeneratorsOf(at, {Own}) \o GeneratorsOf(cc, {Own, Nil})
      /\ Template(a, m).rare = GeneratorsOf(ra, {Own})
  BY <1>1 DEF Template, GeneratorsOf
<1>8. Keyed(Template(a, m).rare, Len(ra), ToSet(ra), {Own})
  BY <1>5, <1>7, KeyedGiven
<1>9. PICK x, y : x = GeneratorsOf(at, {Own}) /\ y = GeneratorsOf(cc, {Own, Nil})
  OBVIOUS
<1>10. Keyed(x, Len(at), ToSet(at), {Own}) /\ x \in Seq(ToSet(x)) /\ Len(x) = Len(at)
  BY <1>4, <1>9, KeyedGiven
<1>11. Keyed(x, Len(at), ToSet(at), {Own, Nil})
  BY <1>10 DEF Keyed
<1>12. Keyed(y, k, ToSet(cc), {Own, Nil}) /\ y \in Seq(ToSet(y)) /\ Len(y) = k
  BY <1>6, <1>9, KeyedGiven
<1>13. ToSet(at) \cap ToSet(cc) = {}
  <2>1. ToSet(cc) \subseteq SystemKeys
    BY <1>1, CrossOwn DEF CrossKeys
  <2> QED
    BY <1>3, <2>1
<1>14. Keyed(x \o y, Len(at) + k, ToSet(at) \cup ToSet(cc), {Own, Nil})
  BY <1>10, <1>11, <1>12, <1>13, KeyedJoined
<1> QED
  BY <1>1, <1>7, <1>8, <1>9, <1>14 DEF CrossKeys

(***************************************************************************)
(* The profile that is cut down to the watched key.                        *)
(***************************************************************************)
CutDown(p, a, t, w) ==
    LET m == Messages(a)[t] tm == p.messages[t] IN
    /\ tm.args = [i \in DOMAIN m.args |-> {<<i, m.args[i]>>}]
    /\ tm.fromArg = [k \in DOMAIN m.fromArg \cap {w} |-> m.fromArg[k] + 1]
    /\ tm.attrs = Only(w, Template(a, m).attrs)
    /\ tm.rare = Only(w, Template(a, m).rare)
    /\ p.routes = [v \in (1..MaxArgs) \X {"route"} |-> RouteOf(v)]
    /\ p.longTail = {slot \in (IF LongTail(a) = {} THEN {}
                               ELSE {NoAttrs} \cup {Put(NoAttrs, k, Own) : k \in LongTail(a)}) :
                        DOMAIN slot \subseteq {w}}

(***************************************************************************)
(* What is left of a profile that is cut down to the watched key.          *)
(***************************************************************************)
LEMMA CutIs ==
    ASSUME app \in Apps, NEW t \in DOMAIN Messages(app)
    PROVE  CutDown(CutTo(Profile, t, watch), app, t, watch)
<1>1. PICK m, tm, P : m = Messages(app)[t] /\ tm = Template(app, m) /\ P = AppProfile(app)
  OBVIOUS
<1>2. /\ Profile = P
        /\ P.messages = [u \in DOMAIN Messages(app) |-> Template(app, Messages(app)[u])]
      /\ P.routes = [v \in (1..MaxArgs) \X {"route"} |-> RouteOf(v)]
      /\ P.longTail = IF LongTail(app) = {} THEN {}
                      ELSE {NoAttrs} \cup {Put(NoAttrs, k, Own) : k \in LongTail(app)}
  BY <1>1, ProfileIs
<1>3. P.messages[t] = tm /\ t \in DOMAIN P.messages
  BY <1>1, <1>2
<1>4. /\ tm.args = [i \in DOMAIN m.args |-> {<<i, m.args[i]>>}]
      /\ tm.fromArg = [k \in DOMAIN m.fromArg |-> m.fromArg[k] + 1]
  BY <1>1 DEF Template
<1>5. PICK kept : kept = [tm EXCEPT
            !.fromArg = [k \in DOMAIN tm.fromArg \cap {watch} |-> tm.fromArg[k]],
            !.attrs = Only(watch, @), !.rare = Only(watch, @)]
  OBVIOUS
<1>6. DOMAIN tm = {"severity", "args", "fromArg", "attrs", "rare"}
  BY <1>1 DEF Template
<1>7. /\ kept.args = tm.args /\ kept.attrs = Only(watch, tm.attrs)
        /\ kept.rare = Only(watch, tm.rare)
      /\ kept.fromArg = [k \in DOMAIN tm.fromArg \cap {watch} |-> tm.fromArg[k]]
  BY <1>5, <1>6
<1>8. kept.fromArg = [k \in DOMAIN m.fromArg \cap {watch} |-> m.fromArg[k] + 1]
  BY <1>4, <1>7
<1>9. PICK C : C = CutTo(Profile, t, watch)
  OBVIOUS
<1>10. C = [P EXCEPT !.messages[t] = kept,
        !.longTail = {slot \in @ : DOMAIN slot \subseteq {watch}}]
  BY <1>2, <1>3, <1>5, <1>9 DEF CutTo
<1>11. DOMAIN P = {"messages", "routes", "longTail", "weights", "trace"}
  BY <1>1 DEF AppProfile
<1>12. /\ C.messages = [P.messages EXCEPT ![t] = kept] /\ C.routes = P.routes
       /\ C.longTail = {slot \in P.longTail : DOMAIN slot \subseteq {watch}}
  BY <1>10, <1>11
<1>13. C.messages[t] = kept
  BY <1>3, <1>12
<1> QED
  BY <1>1, <1>2, <1>4, <1>7, <1>8, <1>9, <1>12, <1>13 DEF CutDown

OneGenerator(list, key, keys, values) ==
    /\ Len(list) \in {0, 1} /\ DOMAIN list = 1..Len(list)
    /\ \A j \in 1..Len(list) : /\ list[j].key = key /\ key \in keys
                               /\ list[j].values \subseteq values

(***************************************************************************)
(* A list cut down to a key has at most one generator, and only if the key *)
(* is one of the list.                                                     *)
(***************************************************************************)
LEMMA OnlyKeyed ==
    ASSUME NEW list, NEW keys, NEW values, NEW key, \E n : Keyed(list, n, keys, values)
    PROVE  OneGenerator(Only(key, list), key, keys, values)
<1>1. PICK n : Keyed(list, n, keys, values)
  OBVIOUS
<1>2. OneOf(Only(key, list), key, list, n)
  BY <1>1, OnlyOne DEF Keyed
<1>3. PICK x : x = Only(key, list)
  OBVIOUS
<1>4. DOMAIN x = 1..Len(x)
  BY <1>2, <1>3 DEF OneOf
<1>5. ASSUME NEW j \in 1..Len(x)
      PROVE  x[j].key = key /\ key \in keys /\ x[j].values \subseteq values
  <2>1. PICK i \in 1..n : x[j] = list[i] /\ list[i].key = key
    BY <1>2, <1>3 DEF OneOf
  <2> QED
    BY <1>1, <2>1 DEF Keyed
<1>6. Len(x) \in {0, 1}
  BY <1>2, <1>3 DEF OneOf
<1> QED
  BY <1>3, <1>4, <1>5, <1>6 DEF OneGenerator

AttrKeys(a, t) == ToSet(Messages(a)[t].attrs) \cup CrossKeys(a)
RareKeys(a, t) == ToSet(Messages(a)[t].rare)

(***************************************************************************)
(* The four sources of a key have none in common.                          *)
(***************************************************************************)
LEMMA Apart ==
    ASSUME NEW a \in Apps, NEW t \in DOMAIN Messages(a)
    PROVE  /\ DOMAIN Messages(a)[t].fromArg \cap AttrKeys(a, t) = {}
           /\ DOMAIN Messages(a)[t].fromArg \cap RareKeys(a, t) = {}
           /\ DOMAIN Messages(a)[t].fromArg \cap LongTail(a) = {}
           /\ AttrKeys(a, t) \cap RareKeys(a, t) = {}
           /\ AttrKeys(a, t) \cap LongTail(a) = {}
           /\ RareKeys(a, t) \cap LongTail(a) = {}
<1>1. PICK m : m = Messages(a)[t]
  OBVIOUS
<1>2. Sound(m, Exempt(a, t))
  BY <1>1, Tables
<1>3. /\ ToSet(m.attrs) \cap ToSet(m.rare) = {}
      /\ DOMAIN m.fromArg \cap (ToSet(m.attrs) \cup ToSet(m.rare)) = {}
      /\ (DOMAIN m.fromArg \cup ToSet(m.attrs) \cup ToSet(m.rare)) \cap SystemKeys = {}
  BY <1>2 DEF Sound
<1>4. /\ CrossKeys(a) \subseteq SystemKeys /\ LongTail(a) \subseteq SystemKeys
      /\ CrossKeys(a) \cap LongTail(a) = {}
  BY CrossOwn
<1> QED
  BY <1>1, <1>3, <1>4 DEF AttrKeys, RareKeys

(***************************************************************************)
(* What is left of the template.                                           *)
(***************************************************************************)
LEMMA CutLists ==
    ASSUME app \in Apps, NEW t \in DOMAIN Messages(app), NEW tm,
           tm = CutTo(Profile, t, watch).messages[t]
    PROVE  /\ DOMAIN tm.fromArg = DOMAIN Messages(app)[t].fromArg \cap {watch}
           /\ OneGenerator(tm.attrs, watch, AttrKeys(app, t), {Own, Nil})
           /\ OneGenerator(tm.rare, watch, RareKeys(app, t), {Own})
<1>1. CutDown(CutTo(Profile, t, watch), app, t, watch)
  BY CutIs
<1>2. /\ tm.fromArg = [k \in DOMAIN Messages(app)[t].fromArg \cap {watch} |-> Messages(app)[t].fromArg[k] + 1]
      /\ tm.attrs = Only(watch, Template(app, Messages(app)[t]).attrs)
      /\ tm.rare = Only(watch, Template(app, Messages(app)[t]).rare)
  BY <1>1 DEF CutDown
<1>3. PICK al, rl : /\ al = Template(app, Messages(app)[t]).attrs
                    /\ rl = Template(app, Messages(app)[t]).rare
  OBVIOUS
<1>4. /\ \E n : Keyed(al, n, AttrKeys(app, t), {Own, Nil})
      /\ \E n : Keyed(rl, n, RareKeys(app, t), {Own})
  BY <1>3, TemplateLists DEF AttrKeys, RareKeys
<1>5. /\ OneGenerator(Only(watch, al), watch, AttrKeys(app, t), {Own, Nil})
      /\ OneGenerator(Only(watch, rl), watch, RareKeys(app, t), {Own})
  BY <1>4, OnlyKeyed
<1> QED
  BY <1>2, <1>3, <1>5

(***************************************************************************)
(* At most one of the four sources has the watched key.                    *)
(***************************************************************************)
LEMMA OneProvider ==
    ASSUME app \in Apps, tmpl \in DOMAIN Messages(app)
    PROVE  Providers.fromArg + Providers.attrs + Providers.rare + Providers.longTail <= 1
<1>1. PICK tm : tm = CutTo(Profile, tmpl, watch).messages[tmpl]
  OBVIOUS
<1>2. /\ DOMAIN tm.fromArg = DOMAIN Messages(app)[tmpl].fromArg \cap {watch}
      /\ OneGenerator(tm.attrs, watch, AttrKeys(app, tmpl), {Own, Nil})
      /\ OneGenerator(tm.rare, watch, RareKeys(app, tmpl), {Own})
  BY <1>1, CutLists
<1>3. PICK p, q, r, s :
        /\ p = (IF DOMAIN tm.fromArg = {} THEN 0 ELSE 1) /\ q = Len(tm.attrs)
        /\ r = Len(tm.rare) /\ s = (IF watch \in LongTail(app) THEN 1 ELSE 0)
  OBVIOUS
<1>4. /\ Providers.fromArg = p /\ Providers.attrs = q /\ Providers.rare = r
      /\ Providers.longTail = s
  BY <1>1, <1>3 DEF Providers
<1>5. (p = 0 \/ p = 1) /\ (p = 1 => watch \in DOMAIN Messages(app)[tmpl].fromArg)
  BY <1>2, <1>3
<1>6. (q = 0 \/ q = 1) /\ (q = 1 => watch \in AttrKeys(app, tmpl))
  <2>1. q \in {0, 1}
    BY <1>2, <1>3 DEF OneGenerator
  <2>2. q = 1 => 1 \in 1..Len(tm.attrs)
    BY <1>3
  <2> QED
    BY <1>2, <2>1, <2>2 DEF OneGenerator
<1>7. (r = 0 \/ r = 1) /\ (r = 1 => watch \in RareKeys(app, tmpl))
  <2>1. r \in {0, 1}
    BY <1>2, <1>3 DEF OneGenerator
  <2>2. r = 1 => 1 \in 1..Len(tm.rare)
    BY <1>3
  <2> QED
    BY <1>2, <2>1, <2>2 DEF OneGenerator
<1>8. (s = 0 \/ s = 1) /\ (s = 1 => watch \in LongTail(app))
  BY <1>3
<1>9. /\ ~(p = 1 /\ q = 1) /\ ~(p = 1 /\ r = 1) /\ ~(p = 1 /\ s = 1)
      /\ ~(q = 1 /\ r = 1) /\ ~(q = 1 /\ s = 1) /\ ~(r = 1 /\ s = 1)
  BY <1>5, <1>6, <1>7, <1>8, Apart
<1>10. p + q + r + s <= 1
  BY <1>5, <1>6, <1>7, <1>8, <1>9
<1> QED
  BY <1>4, <1>10

(***************************************************************************)
(* For every profile, template and key: at most one of the arguments, the  *)
(* attributes, the rare attributes and the long tail sets the key, so none *)
(* is skipped as already set, and none silently replaced.                  *)
(***************************************************************************)
THEOREM KeySetOnceCorrect == Spec => []KeySetOnce
<1>1. TemplateInv => KeySetOnce
  BY OneProvider DEF TemplateInv, KeySetOnce, Emitted, Chosen
<1> QED
  BY <1>1, TemplateInit, TemplateNext, PTL DEF Spec

-----------------------------------------------------------------------------
(***************************************************************************)
(* FoldLeft with WithAttr stays in the set of outcomes that WithAttr stays in.     *)
(***************************************************************************)
WithAttrFolds(it, start, list) ==
    /\ it[{}] = start
    /\ \A s \in SUBSET DOMAIN list : s # {} =>
          it[s] = WithAttr(it[s \ {Max(s)}], list[Max(s)])
    /\ FoldLeft(WithAttr, start, list) = it[DOMAIN list]

(***************************************************************************)
(* FoldLeft with WithAttr takes the generators one by one.                 *)
(***************************************************************************)
LEMMA WithAttrFold ==
    ASSUME NEW n \in Nat, NEW list, DOMAIN list = 1..n, NEW U, NEW start \in SUBSET U,
           \A i \in 1..n : \A v \in SUBSET U : WithAttr(v, list[i]) \in SUBSET U
    PROVE  \E it : WithAttrFolds(it, start, list)
<1> DEFINE V == SUBSET U
           op == [iv \in (1..n) \X V |-> WithAttr(iv[2], list[iv[1]])]
           Def(it) == [s \in SUBSET DOMAIN list |->
                         IF s = {} THEN start
                         ELSE WithAttr(it[s \ {Max(s)}], list[Max(s)])]
<1>3. op \in [(1..n) \X V -> V]
  <2> DEFINE val(iv) == WithAttr(iv[2], list[iv[1]])
  <2>1. \A iv \in (1..n) \X V : val(iv) \in V
    OBVIOUS
  <2> HIDE DEF val, V
  <2>2. [iv \in (1..n) \X V |-> val(iv)] \in [(1..n) \X V -> V]
    BY <2>1
  <2> QED
    BY <2>2 DEF val
<1>4. \A i \in 1..n, v \in V : op[<<i, v>>] = WithAttr(v, list[i])
  OBVIOUS
<1>0. start \in V
  OBVIOUS
<1> HIDE DEF V, op
<1>5. PICK it \in [SUBSET (1..n) -> V] : Folds(it, n, start, op)
  BY <1>0, <1>3, FoldExists
<1>6. ASSUME NEW s \in SUBSET (1..n), s # {}
      PROVE  it[s] = WithAttr(it[s \ {Max(s)}], list[Max(s)])
  <2>1. Max(s) \in 1..n /\ it[s \ {Max(s)}] \in V
    BY <1>6, MaxIn
  <2>2. it[s] = op[<<Max(s), it[s \ {Max(s)}]>>]
    BY <1>5, <1>6 DEF Folds
  <2> QED
    BY <1>4, <2>1, <2>2
<1>7. it = Def(it)
  <2>1. it = [s \in SUBSET DOMAIN list |-> it[s]] /\ it[{}] = start
    BY <1>5 DEF Folds
  <2>2. \A s \in SUBSET DOMAIN list :
           it[s] = IF s = {} THEN start ELSE WithAttr(it[s \ {Max(s)}], list[Max(s)])
    BY <1>6, <2>1
  <2> QED
    BY <2>1, <2>2
<1> DEFINE iter == CHOOSE g : g = Def(g)
<1>8. iter = Def(iter)
  <2> HIDE DEF Def
  <2> QED
    BY <1>7
<1>9. FoldLeft(WithAttr, start, list) = iter[DOMAIN list]
  BY DEF FoldLeft, MapThenFoldSet
<1> HIDE DEF iter
<1>10. /\ iter[{}] = start
       /\ \A s \in SUBSET DOMAIN list : s # {} =>
             iter[s] = WithAttr(iter[s \ {Max(s)}], list[Max(s)])
  BY <1>8
<1> QED
  BY <1>9, <1>10 DEF WithAttrFolds

(***************************************************************************)
(* By induction over the generators.                                       *)
(***************************************************************************)
LEMMA WithAttrTyped ==
    ASSUME NEW n \in Nat, NEW list, DOMAIN list = 1..n, NEW U, NEW start \in SUBSET U,
           \A i \in 1..n : \A v \in SUBSET U : WithAttr(v, list[i]) \in SUBSET U
    PROVE  FoldLeft(WithAttr, start, list) \in SUBSET U
<1>1. PICK it : WithAttrFolds(it, start, list)
  BY WithAttrFold
<1>2. PICK V : V = SUBSET U
  OBVIOUS
<1>3. it[{}] \in V
  BY <1>1, <1>2 DEF WithAttrFolds
<1>4. ASSUME NEW s \in SUBSET (1..n), s # {}, Max(s) \in s, it[s \ {Max(s)}] \in V
      PROVE  it[s] \in V
  <2>1. it[s] = WithAttr(it[s \ {Max(s)}], list[Max(s)])
    BY <1>1, <1>4 DEF WithAttrFolds
  <2>2. Max(s) \in 1..n
    BY <1>4
  <2> QED
    BY <1>2, <1>4, <2>1, <2>2
<1>5. it[1..n] \in V
  BY <1>3, <1>4, FoldTyped
<1> QED
  BY <1>1, <1>2, <1>5 DEF WithAttrFolds

(***************************************************************************)
(* FoldLeft with WithRare stays in the set of outcomes that WithRare stays in.     *)
(***************************************************************************)
WithRareFolds(it, start, list) ==
    /\ it[{}] = start
    /\ \A s \in SUBSET DOMAIN list : s # {} =>
          it[s] = WithRare(it[s \ {Max(s)}], list[Max(s)])
    /\ FoldLeft(WithRare, start, list) = it[DOMAIN list]

(***************************************************************************)
(* FoldLeft with WithRare takes the generators one by one.                 *)
(***************************************************************************)
LEMMA WithRareFold ==
    ASSUME NEW n \in Nat, NEW list, DOMAIN list = 1..n, NEW U, NEW start \in SUBSET U,
           \A i \in 1..n : \A v \in SUBSET U : WithRare(v, list[i]) \in SUBSET U
    PROVE  \E it : WithRareFolds(it, start, list)
<1> DEFINE V == SUBSET U
           op == [iv \in (1..n) \X V |-> WithRare(iv[2], list[iv[1]])]
           Def(it) == [s \in SUBSET DOMAIN list |->
                         IF s = {} THEN start
                         ELSE WithRare(it[s \ {Max(s)}], list[Max(s)])]
<1>3. op \in [(1..n) \X V -> V]
  <2> DEFINE val(iv) == WithRare(iv[2], list[iv[1]])
  <2>1. \A iv \in (1..n) \X V : val(iv) \in V
    OBVIOUS
  <2> HIDE DEF val, V
  <2>2. [iv \in (1..n) \X V |-> val(iv)] \in [(1..n) \X V -> V]
    BY <2>1
  <2> QED
    BY <2>2 DEF val
<1>4. \A i \in 1..n, v \in V : op[<<i, v>>] = WithRare(v, list[i])
  OBVIOUS
<1>0. start \in V
  OBVIOUS
<1> HIDE DEF V, op
<1>5. PICK it \in [SUBSET (1..n) -> V] : Folds(it, n, start, op)
  BY <1>0, <1>3, FoldExists
<1>6. ASSUME NEW s \in SUBSET (1..n), s # {}
      PROVE  it[s] = WithRare(it[s \ {Max(s)}], list[Max(s)])
  <2>1. Max(s) \in 1..n /\ it[s \ {Max(s)}] \in V
    BY <1>6, MaxIn
  <2>2. it[s] = op[<<Max(s), it[s \ {Max(s)}]>>]
    BY <1>5, <1>6 DEF Folds
  <2> QED
    BY <1>4, <2>1, <2>2
<1>7. it = Def(it)
  <2>1. it = [s \in SUBSET DOMAIN list |-> it[s]] /\ it[{}] = start
    BY <1>5 DEF Folds
  <2>2. \A s \in SUBSET DOMAIN list :
           it[s] = IF s = {} THEN start ELSE WithRare(it[s \ {Max(s)}], list[Max(s)])
    BY <1>6, <2>1
  <2> QED
    BY <2>1, <2>2
<1> DEFINE iter == CHOOSE g : g = Def(g)
<1>8. iter = Def(iter)
  <2> HIDE DEF Def
  <2> QED
    BY <1>7
<1>9. FoldLeft(WithRare, start, list) = iter[DOMAIN list]
  BY DEF FoldLeft, MapThenFoldSet
<1> HIDE DEF iter
<1>10. /\ iter[{}] = start
       /\ \A s \in SUBSET DOMAIN list : s # {} =>
             iter[s] = WithRare(iter[s \ {Max(s)}], list[Max(s)])
  BY <1>8
<1> QED
  BY <1>9, <1>10 DEF WithRareFolds

(***************************************************************************)
(* By induction over the generators.                                       *)
(***************************************************************************)
LEMMA WithRareTyped ==
    ASSUME NEW n \in Nat, NEW list, DOMAIN list = 1..n, NEW U, NEW start \in SUBSET U,
           \A i \in 1..n : \A v \in SUBSET U : WithRare(v, list[i]) \in SUBSET U
    PROVE  FoldLeft(WithRare, start, list) \in SUBSET U
<1>1. PICK it : WithRareFolds(it, start, list)
  BY WithRareFold
<1>2. PICK V : V = SUBSET U
  OBVIOUS
<1>3. it[{}] \in V
  BY <1>1, <1>2 DEF WithRareFolds
<1>4. ASSUME NEW s \in SUBSET (1..n), s # {}, Max(s) \in s, it[s \ {Max(s)}] \in V
      PROVE  it[s] \in V
  <2>1. it[s] = WithRare(it[s \ {Max(s)}], list[Max(s)])
    BY <1>1, <1>4 DEF WithRareFolds
  <2>2. Max(s) \in 1..n
    BY <1>4
  <2> QED
    BY <1>2, <1>4, <2>1, <2>2
<1>5. it[1..n] \in V
  BY <1>3, <1>4, FoldTyped
<1> QED
  BY <1>1, <1>2, <1>5 DEF WithRareFolds

(***************************************************************************)
(* The arguments of a template whose generators make one value each.       *)
(***************************************************************************)
ArgsWith(args, gen) == {Append(a, v) : a \in args, v \in gen}
ArgFolds(it, tm) ==
    /\ it[{}] = {<<>>}
    /\ \A s \in SUBSET DOMAIN tm.args : s # {} =>
          it[s] = ArgsWith(it[s \ {Max(s)}], tm.args[Max(s)])
    /\ ArgValues(tm) = it[DOMAIN tm.args]

(***************************************************************************)
(* FoldLeft over the generators of the arguments takes them one by one.    *)
(***************************************************************************)
LEMMA ArgFold ==
    ASSUME NEW tm, NEW n \in Nat, DOMAIN tm.args = 1..n,
           NEW G, \A i \in 1..n : tm.args[i] \subseteq G
    PROVE  \E it : ArgFolds(it, tm)
<1> DEFINE list == tm.args
           V == SUBSET Seq(G)
           op == [iv \in (1..n) \X V |-> ArgsWith(iv[2], list[iv[1]])]
           Def(it) == [s \in SUBSET DOMAIN list |->
                         IF s = {} THEN {<<>>}
                         ELSE ArgsWith(it[s \ {Max(s)}], list[Max(s)])]
<1>2. \A i \in 1..n, v \in V : ArgsWith(v, list[i]) \in V
  <2> SUFFICES ASSUME NEW i \in 1..n, NEW v \in V, NEW b \in ArgsWith(v, list[i])
               PROVE  b \in Seq(G)
    OBVIOUS
  <2>1. PICK a \in v, x \in list[i] : b = Append(a, x)
    BY DEF ArgsWith
  <2>2. a \in Seq(G) /\ x \in G
    OBVIOUS
  <2>3. Append(a, x) \in Seq(G)
    BY <2>2
  <2> QED
    BY <2>1, <2>3
<1>3. op \in [(1..n) \X V -> V]
  <2> DEFINE val(iv) == ArgsWith(iv[2], list[iv[1]])
  <2>1. \A iv \in (1..n) \X V : val(iv) \in V
    BY <1>2
  <2> HIDE DEF val, V
  <2>2. [iv \in (1..n) \X V |-> val(iv)] \in [(1..n) \X V -> V]
    BY <2>1
  <2> QED
    BY <2>2 DEF val
<1>4. \A i \in 1..n, v \in V : op[<<i, v>>] = ArgsWith(v, list[i])
  OBVIOUS
<1>0. {<<>>} \in V
  OBVIOUS
<1> HIDE DEF V, op
<1>5. PICK it \in [SUBSET (1..n) -> V] : Folds(it, n, {<<>>}, op)
  BY <1>0, <1>3, FoldExists
<1>6. ASSUME NEW s \in SUBSET (1..n), s # {}
      PROVE  it[s] = ArgsWith(it[s \ {Max(s)}], list[Max(s)])
  <2>1. Max(s) \in 1..n /\ it[s \ {Max(s)}] \in V
    BY <1>6, MaxIn
  <2>2. it[s] = op[<<Max(s), it[s \ {Max(s)}]>>]
    BY <1>5, <1>6 DEF Folds
  <2> QED
    BY <1>4, <2>1, <2>2
<1>7. it = Def(it)
  <2>1. it = [s \in SUBSET DOMAIN list |-> it[s]] /\ it[{}] = {<<>>}
    BY <1>5 DEF Folds
  <2>2. \A s \in SUBSET DOMAIN list :
           it[s] = IF s = {} THEN {<<>>} ELSE ArgsWith(it[s \ {Max(s)}], list[Max(s)])
    BY <1>6, <2>1
  <2> QED
    BY <2>1, <2>2
<1> DEFINE iter == CHOOSE g : g = Def(g)
<1>8. iter = Def(iter)
  <2> HIDE DEF Def
  <2> QED
    BY <1>7
<1>9. ArgValues(tm) = iter[DOMAIN list]
  BY DEF ArgValues, FoldLeft, MapThenFoldSet, ArgsWith
<1> HIDE DEF iter
<1>10. /\ iter[{}] = {<<>>}
       /\ \A s \in SUBSET DOMAIN list : s # {} =>
             iter[s] = ArgsWith(iter[s \ {Max(s)}], list[Max(s)])
  BY <1>8
<1> QED
  BY <1>9, <1>10 DEF ArgFolds

(***************************************************************************)
(* By induction over the generators.                                       *)
(***************************************************************************)
FirstArgs(a, k, vals, G) == a \in Seq(G) /\ Len(a) = k /\ \A i \in 1..k : a[i] = vals[i]

(***************************************************************************)
(* One generator more is one argument more.                                *)
(***************************************************************************)
LEMMA OneMore ==
    ASSUME NEW G, NEW k \in Nat, NEW vals, NEW a, FirstArgs(a, k, vals, G), NEW x \in G,
           x = vals[k + 1]
    PROVE  FirstArgs(Append(a, x), k + 1, vals, G)
<1>1. a \in Seq(G) /\ Len(a) = k
  BY DEF FirstArgs
<1>2. PICK b : b = Append(a, x)
  OBVIOUS
<1>3. b \in Seq(G) /\ Len(b) = Len(a) + 1
  BY <1>1, <1>2
<1>4. Len(b) = k + 1
  BY <1>1, <1>3
<1>5. ASSUME NEW i \in 1..k + 1 PROVE b[i] = vals[i]
  <2>1. CASE i \in 1..k
    <3>1. b[i] = a[i]
      BY <1>1, <1>2, <2>1
    <3> QED
      BY <2>1, <3>1 DEF FirstArgs
  <2>2. CASE i = k + 1
    <3>1. b[k + 1] = x
      BY <1>1, <1>2
    <3> QED
      BY <2>2, <3>1
  <2> QED
    BY <2>1, <2>2
<1> QED
  BY <1>2, <1>3, <1>4, <1>5 DEF FirstArgs

(***************************************************************************)
(* The arguments are those that the generators make, in their order.       *)
(***************************************************************************)
LEMMA ArgsAre ==
    ASSUME NEW tm, NEW n \in Nat, DOMAIN tm.args = 1..n,
           NEW vals, \A i \in 1..n : tm.args[i] = {vals[i]}
    PROVE  \A a \in ArgValues(tm) : DOMAIN a = 1..n /\ \A i \in 1..n : a[i] = vals[i]
<1>1. PICK G : G = {vals[i] : i \in 1..n}
  OBVIOUS
<1>2. \A i \in 1..n : tm.args[i] \subseteq G
  BY <1>1
<1>3. PICK it : ArgFolds(it, tm)
  BY <1>2, ArgFold
<1> DEFINE T == {k \in 0..n : \A a \in it[1..k] : FirstArgs(a, k, vals, G)}
<1>4. 0 \in T
  <2>1. 1..0 = {} /\ it[{}] = {<<>>}
    BY <1>3 DEF ArgFolds
  <2>2. FirstArgs(<<>>, 0, vals, G)
    BY DEF FirstArgs
  <2>3. it[1..0] = {<<>>}
    BY <2>1, Zenon
  <2>4. \A a \in it[1..0] : FirstArgs(a, 0, vals, G)
    BY <2>2, <2>3, Zenon
  <2>5. 0 \in 0..n
    OBVIOUS
  <2> QED
    BY <2>4, <2>5, Zenon
<1>5. ASSUME NEW k \in 0..n - 1, k \in T PROVE k + 1 \in T
  <2>1. k + 1 \in 1..n /\ k + 1 \in 0..n /\ k \in Nat
    OBVIOUS
  <2>2. PICK s : s = 1..k + 1 /\ s \in SUBSET (1..n) /\ s # {} /\ k + 1 \in s
    BY <2>1
  <2>3. Max(s) = k + 1
    <3>1. Max(s) \in s /\ \A y \in s : Max(s) >= y
      BY <2>2, MaxIn
    <3>2. PICK g : g = Max(s) /\ g \in 1..k + 1 /\ g >= k + 1
      BY <2>2, <3>1
    <3>3. g = k + 1
      BY <2>1, <3>2
    <3> QED
      BY <3>2, <3>3
  <2>4. s \ {k + 1} = 1..k
    BY <2>1, <2>2
  <2>5. it[s] = ArgsWith(it[1..k], tm.args[k + 1])
    <3>1. it[s] = ArgsWith(it[s \ {Max(s)}], tm.args[Max(s)])
      BY <1>3, <2>2 DEF ArgFolds
    <3> QED
      BY <2>3, <2>4, <3>1
  <2>6. ASSUME NEW b \in it[s] PROVE FirstArgs(b, k + 1, vals, G)
    <3>1. PICK a \in it[1..k], x \in tm.args[k + 1] : b = Append(a, x)
      BY <2>5 DEF ArgsWith
    <3>2. FirstArgs(a, k, vals, G)
      BY <1>5
    <3>3. x = vals[k + 1] /\ x \in G
      BY <1>2, <2>1
    <3>4. FirstArgs(Append(a, x), k + 1, vals, G)
      BY <2>1, <3>2, <3>3, OneMore
    <3> QED
      BY <3>1, <3>4
  <2> QED
    BY <2>1, <2>2, <2>6
<1>6. n \in T
  <2>1. 0 \in Int /\ n \in Int /\ 0 <= n
    OBVIOUS
  <2> HIDE DEF T
  <2>2. \A k \in 0..n - 1 : k \in T => k + 1 \in T
    BY <1>5
  <2> QED
    BY <1>4, <2>1, <2>2, IntervalInduction
<1>7. ArgValues(tm) = it[1..n]
  BY <1>3 DEF ArgFolds
<1>8. ASSUME NEW a \in ArgValues(tm) PROVE DOMAIN a = 1..n /\ \A i \in 1..n : a[i] = vals[i]
  <2>1. FirstArgs(a, n, vals, G)
    BY <1>6, <1>7
  <2> QED
    BY <2>1 DEF FirstArgs
<1> QED
  BY <1>8

(***************************************************************************)
(* What the watched key may hold.                                          *)
(***************************************************************************)
Fixed(key, v) == [k \in {key} |-> v]
ValueOf(i, kind) == IF kind = "route" THEN RouteOf(<<i, kind>>) ELSE <<i, kind>>
Taken(a, t, w) ==
    LET i == Messages(a)[t].fromArg[w] + 1
    IN  ValueOf(i, Messages(a)[t].args[i])
Values(a, t, w) ==
    IF w \in DOMAIN Messages(a)[t].fromArg
    THEN {Fixed(w, Taken(a, t, w))}
    ELSE {NoAttrs} \cup {Fixed(w, Own) : x \in {w} \cap (AttrKeys(a, t) \cup RareKeys(a,
            t) \cup LongTail(a))}
Made(A) == {[attrs |-> x, draws |-> d] : x \in A, d \in Nat}

(***************************************************************************)
(* Setting the watched key, with nothing there before and with a value     *)
(* there.                                                                  *)
(***************************************************************************)
LEMMA PutFixed ==
    ASSUME NEW w, NEW v
    PROVE  /\ Put(NoAttrs, w, v) = Fixed(w, v)
           /\ \A u : Put(Fixed(w, u), w, v) = Fixed(w, v)
           /\ DOMAIN NoAttrs = {} /\ \A u : DOMAIN Fixed(w, u) = {w}
           /\ PutAll(NoAttrs, NoAttrs) = NoAttrs
           /\ \A u : PutAll(Fixed(w, u), NoAttrs) = Fixed(w, u)
           /\ \A x : PutAll(x, Fixed(w, v)) = Put(x, w, v)
<1>1. DOMAIN NoAttrs = {} /\ \A u : DOMAIN Fixed(w, u) = {w} /\ Fixed(w, u)[w] = u
  BY DEF NoAttrs, Fixed
<1>2. Put(NoAttrs, w, v) = Fixed(w, v)
  <2>1. Put(NoAttrs, w, v) = [k \in {} \cup {w} |-> IF k \in {w} THEN Fixed(w,
          v)[k] ELSE NoAttrs[k]]
    BY <1>1 DEF Put, PutAll, Fixed
  <2>2. {} \cup {w} = {w}
    OBVIOUS
  <2> QED
    BY <2>1, <2>2 DEF Fixed
<1>3. ASSUME NEW u PROVE Put(Fixed(w, u), w, v) = Fixed(w, v)
  <2>1. Put(Fixed(w, u), w, v) = [k \in {w} \cup {w} |-> IF k \in {w} THEN Fixed(w,
          v)[k] ELSE Fixed(w, u)[k]]
    BY <1>1 DEF Put, PutAll, Fixed
  <2>2. {w} \cup {w} = {w}
    OBVIOUS
  <2> QED
    BY <2>1, <2>2 DEF Fixed
<1>4. PutAll(NoAttrs, NoAttrs) = NoAttrs
  BY DEF NoAttrs, PutAll
<1>5. ASSUME NEW u PROVE PutAll(Fixed(w, u), NoAttrs) = Fixed(w, u)
  <2>1. PutAll(Fixed(w, u),
          NoAttrs) = [k \in {w} \cup {} |-> IF k \in {} THEN NoAttrs[k] ELSE Fixed(w, u)[k]]
    BY <1>1 DEF PutAll
  <2>2. {w} \cup {} = {w}
    OBVIOUS
  <2> QED
    BY <2>1, <2>2 DEF Fixed
<1>6. \A x : PutAll(x, Fixed(w, v)) = Put(x, w, v)
  BY DEF Put, Fixed
<1> QED
  BY <1>1, <1>2, <1>3, <1>4, <1>5, <1>6

(***************************************************************************)
(* The steps of LogGen with generators of the watched key.                 *)
(***************************************************************************)
Holding(w) == {NoAttrs, Fixed(w, Own)}

(***************************************************************************)
(* The parts of an outcome.                                                *)
(***************************************************************************)
LEMMA MadeIs ==
    ASSUME NEW A, NEW o \in Made(A)
    PROVE  o.attrs \in A /\ o.draws \in Nat /\ o = [attrs |-> o.attrs, draws |-> o.draws]
  BY DEF Made

(***************************************************************************)
(* WithAttr with a generator of the watched key leaves nothing there or    *)
(* its value.                                                              *)
(***************************************************************************)
LEMMA AttrStep ==
    ASSUME NEW w, NEW v \in SUBSET Made(Holding(w)), NEW ag, ag.key = w,
            ag.values \subseteq {Own, Nil}
    PROVE  WithAttr(v, ag) \in SUBSET Made(Holding(w))
<1> SUFFICES ASSUME NEW o \in WithAttr(v, ag) PROVE o \in Made(Holding(w))
  OBVIOUS
<1>1. PICK p \in v : o \in IF ag.key \in DOMAIN p.attrs
                           THEN {p}
                           ELSE {[attrs |-> IF x = Nil THEN p.attrs ELSE Put(p.attrs, ag.key, x),
                                  draws |-> p.draws + 1] : x \in ag.values}
  BY DEF WithAttr
<1>2. p.attrs \in Holding(w) /\ p.draws \in Nat
  BY MadeIs
<1>3. CASE w \in DOMAIN p.attrs
  BY <1>1, <1>3
<1>4. CASE w \notin DOMAIN p.attrs
  <2>1. PICK x \in ag.values :
            o = [attrs |-> IF x = Nil THEN p.attrs ELSE Put(p.attrs, w, x), draws |-> p.draws + 1]
    BY <1>1, <1>4
  <2>2. p.attrs = NoAttrs
    <3>1. w \in DOMAIN Fixed(w, Own)
      BY DEF Fixed
    <3>2. p.attrs # Fixed(w, Own)
      BY <1>4, <3>1, Zenon
    <3> QED
      BY <1>2, <3>2 DEF Holding
  <2>3. PICK a, d : a = (IF x = Nil THEN p.attrs ELSE Put(p.attrs, w, x)) /\ d = p.draws + 1
    OBVIOUS
  <2>4. a \in Holding(w)
    <3>1. CASE x = Nil
      BY <2>2, <2>3, <3>1 DEF Holding
    <3>2. CASE x # Nil
      <4>1. x = Own
        BY <3>2
      <4>2. a = Put(NoAttrs, w, Own)
        BY <2>2, <2>3, <3>2, <4>1
      <4> QED
        BY <4>2, PutFixed DEF Holding
    <3> QED
      BY <3>1, <3>2
  <2>5. d \in Nat /\ o = [attrs |-> a, draws |-> d]
    BY <1>2, <2>1, <2>3
  <2> QED
    BY <2>4, <2>5 DEF Made
<1> QED
  BY <1>3, <1>4

(***************************************************************************)
(* WithRare with a generator of the watched key leaves nothing there or    *)
(* its value.                                                              *)
(***************************************************************************)
LEMMA RareStep ==
    ASSUME NEW w, NEW v \in SUBSET Made(Holding(w)), NEW ra, ra.key = w, ra.values \subseteq {Own}
    PROVE  WithRare(v, ra) \in SUBSET Made(Holding(w))
<1> SUFFICES ASSUME NEW o \in WithRare(v, ra) PROVE o \in Made(Holding(w))
  OBVIOUS
<1>1. PICK p \in v : o \in {[p EXCEPT !.draws = @ + 2]} \cup
                          {[attrs |-> Put(p.attrs, ra.key, x), draws |-> p.draws + 2] :
                              x \in ra.values}
  BY DEF WithRare
<1>2. /\ p.attrs \in Holding(w) /\ p.draws \in Nat
      /\ p = [attrs |-> p.attrs, draws |-> p.draws]
  BY MadeIs
<1>3. CASE o = [p EXCEPT !.draws = @ + 2]
  <2>1. PICK a, d : a = p.attrs /\ d = p.draws + 2
    OBVIOUS
  <2>2. o = [attrs |-> a, draws |-> d]
    BY <1>2, <1>3, <2>1
  <2> QED
    BY <1>2, <2>1, <2>2 DEF Made
<1>4. ASSUME NEW x \in ra.values,
             o = [attrs |-> Put(p.attrs, ra.key, x), draws |-> p.draws + 2]
      PROVE  o \in Made(Holding(w))
  <2>1. PICK a, d : a = Put(p.attrs, w, Own) /\ d = p.draws + 2
    OBVIOUS
  <2>2. x = Own
    OBVIOUS
  <2>3. o = [attrs |-> a, draws |-> d]
    BY <1>4, <2>1, <2>2
  <2>4. a = Fixed(w, Own)
    <3>1. CASE p.attrs = NoAttrs
      BY <2>1, <3>1, PutFixed
    <3>2. CASE p.attrs = Fixed(w, Own)
      <4>1. Put(Fixed(w, Own), w, Own) = Fixed(w, Own)
        BY PutFixed
      <4> QED
        BY <2>1, <3>2, <4>1, Zenon
    <3> QED
      BY <1>2, <3>1, <3>2 DEF Holding
  <2>5. d \in Nat /\ a \in Holding(w)
    BY <1>2, <2>1, <2>4 DEF Holding
  <2> QED
    BY <2>3, <2>5 DEF Made
<1> QED
  BY <1>1, <1>3, <1>4

SlotsOf(keys, w) ==
    {slot \in {NoAttrs} \cup {Put(NoAttrs, k, Own) : k \in keys} : DOMAIN slot \subseteq {w}}

(***************************************************************************)
(* A slot of the long tail sets the watched key or nothing.                *)
(***************************************************************************)
LEMMA SlotIs ==
    ASSUME NEW keys, NEW w, NEW slot \in SlotsOf(keys, w)
    PROVE  slot = NoAttrs \/ (w \in keys /\ slot = Fixed(w, Own))
<1>1. CASE slot = NoAttrs
  BY <1>1
<1>2. ASSUME NEW k \in keys, slot = Put(NoAttrs, k, Own) PROVE w \in keys /\ slot = Fixed(w, Own)
  <2>1. slot = Fixed(k, Own) /\ DOMAIN slot = {k}
    BY <1>2, PutFixed
  <2>2. DOMAIN slot \subseteq {w}
    BY DEF SlotsOf
  <2>3. k = w
    BY <2>1, <2>2
  <2> QED
    BY <2>1, <2>3
<1> QED
  BY <1>1, <1>2 DEF SlotsOf

(***************************************************************************)
(* The attributes, the rare attributes and the long tail change nothing    *)
(* when none of them has the watched key.                                  *)
(***************************************************************************)
LEMMA StepsStay ==
    ASSUME NEW w, NEW A, \A x \in A : PutAll(x, NoAttrs) = x,
           NEW start \in SUBSET Made(A),
           NEW al, NEW rl, NEW keysA, NEW keysR, NEW keysL,
           OneGenerator(al, w, keysA, {Own, Nil}), OneGenerator(rl, w, keysR, {Own}),
           NEW tail \in SUBSET SlotsOf(keysL, w),
           w \in keysA \cup keysR \cup keysL => A = Holding(w)
    PROVE  EmitLongTail(tail, FoldLeft(WithRare, FoldLeft(WithAttr, start, al),
            rl)) \subseteq Made(A)
<1>1. PICK U : U = Made(A)
  OBVIOUS
<1>2. PICK f : f = FoldLeft(WithAttr, start, al)
  OBVIOUS
<1>3. f \in SUBSET U
  <2>1. PICK n \in Nat : DOMAIN al = 1..n
    BY DEF OneGenerator
  <2>2. ASSUME NEW i \in 1..n, NEW v \in SUBSET U PROVE WithAttr(v, al[i]) \in SUBSET U
    <3>1. PICK ag : ag = al[i]
      OBVIOUS
    <3>2. ag.key = w /\ w \in keysA /\ ag.values \subseteq {Own, Nil}
      BY <2>1, <2>2, <3>1 DEF OneGenerator
    <3>3. U = Made(Holding(w))
      BY <1>1, <3>2
    <3>4. WithAttr(v, ag) \in SUBSET Made(Holding(w))
      BY <3>2, <3>3, AttrStep
    <3> QED
      BY <3>1, <3>3, <3>4
  <2>3. start \in SUBSET U
    BY <1>1
  <2>4. FoldLeft(WithAttr, start, al) \in SUBSET U
    BY <2>1, <2>2, <2>3, WithAttrTyped
  <2> QED
    BY <1>2, <2>4
<1>4. PICK g : g = FoldLeft(WithRare, f, rl)
  OBVIOUS
<1>5. g \in SUBSET U
  <2>1. PICK n \in Nat : DOMAIN rl = 1..n
    BY DEF OneGenerator
  <2>2. ASSUME NEW i \in 1..n, NEW v \in SUBSET U PROVE WithRare(v, rl[i]) \in SUBSET U
    <3>1. PICK ag : ag = rl[i]
      OBVIOUS
    <3>2. ag.key = w /\ w \in keysR /\ ag.values \subseteq {Own}
      BY <2>1, <2>2, <3>1 DEF OneGenerator
    <3>3. U = Made(Holding(w))
      BY <1>1, <3>2
    <3>4. WithRare(v, ag) \in SUBSET Made(Holding(w))
      BY <3>2, <3>3, RareStep
    <3> QED
      BY <3>1, <3>3, <3>4
  <2>3. FoldLeft(WithRare, f, rl) \in SUBSET U
    BY <1>3, <2>1, <2>2, WithRareTyped
  <2> QED
    BY <1>4, <2>3
<1>6. ASSUME NEW o \in EmitLongTail(tail, g) PROVE o \in Made(A)
  <2>1. CASE tail = {}
    BY <1>1, <1>5, <2>1 DEF EmitLongTail
  <2>2. CASE tail # {}
    <3>1. PICK slot \in tail, p \in g : o = [attrs |-> PutAll(p.attrs, slot),
            draws |-> p.draws + 1]
      BY <2>2 DEF EmitLongTail
    <3>2. p \in Made(A)
      BY <1>1, <1>5
    <3>3. p.attrs \in A /\ p.draws \in Nat
      BY <3>2, MadeIs
    <3>4. PICK a, d, b : a = PutAll(p.attrs, slot) /\ d = p.draws + 1 /\ b = p.attrs
      OBVIOUS
    <3>5. slot = NoAttrs \/ (w \in keysL /\ slot = Fixed(w, Own))
      <4>1. slot \in SlotsOf(keysL, w)
        OBVIOUS
      <4> QED
        BY <4>1, SlotIs
    <3>6. a \in A
      <4>1. CASE slot = NoAttrs
        <5>1. a = b
          BY <3>3, <3>4, <4>1
        <5> QED
          BY <3>3, <3>4, <5>1
      <4>2. CASE w \in keysL /\ slot = Fixed(w, Own)
        <5>1. A = Holding(w) /\ b \in Holding(w)
          BY <3>3, <3>4, <4>2
        <5>2. a = Put(b, w, Own)
          <6>1. PutAll(b, Fixed(w, Own)) = Put(b, w, Own)
            BY DEF Put, Fixed
          <6> QED
            BY <3>4, <4>2, <6>1
        <5>3. Put(NoAttrs, w, Own) = Fixed(w, Own) /\ Put(Fixed(w, Own), w, Own) = Fixed(w, Own)
          BY PutFixed
        <5>4. a = Fixed(w, Own)
          BY <5>1, <5>2, <5>3, Zenon DEF Holding
        <5> QED
          BY <5>1, <5>4 DEF Holding
      <4> QED
        BY <3>5, <4>1, <4>2
    <3>7. o = [attrs |-> a, draws |-> d] /\ d \in Nat
      BY <3>1, <3>3, <3>4
    <3> QED
      BY <3>6, <3>7 DEF Made
  <2> QED
    BY <2>1, <2>2
<1> QED
  BY <1>2, <1>4, <1>6

(***************************************************************************)
(* What is taken from the arguments.                                       *)
(***************************************************************************)
LEMMA FirstIs ==
    ASSUME app \in Apps, NEW t \in DOMAIN Messages(app), NEW C, NEW tm, NEW m,
           C = CutTo(Profile, t, watch), tm = C.messages[t], m = Messages(app)[t],
           NEW args \in ArgValues(tm)
    PROVE  FromArgs(C, tm, NoAttrs, args) =
              IF watch \in DOMAIN m.fromArg THEN Fixed(watch, Taken(app, t, watch)) ELSE NoAttrs
<1>1. CutDown(C, app, t, watch)
  BY CutIs
<1>2. /\ tm.args = [i \in DOMAIN m.args |-> {<<i, m.args[i]>>}]
      /\ tm.fromArg = [k \in DOMAIN m.fromArg \cap {watch} |-> m.fromArg[k] + 1]
      /\ C.routes = [v \in (1..MaxArgs) \X {"route"} |-> RouteOf(v)]
  BY <1>1 DEF CutDown
<1>3. Sound(m, Exempt(app, t))
  BY Tables
<1>4. m.args \in Words /\ Len(m.args) <= MaxArgs /\ Points(m.args, m.fromArg, 0, Exempt(app, t))
  BY <1>3 DEF Sound
<1>5. PICK n \in Nat : n = Len(m.args) /\ DOMAIN m.args = 1..n /\ n <= MaxArgs
  BY <1>4, WordsJoined
<1>6. DOMAIN args = 1..n /\ \A i \in 1..n : args[i] = <<i, m.args[i]>>
  <2>1. PICK vals : vals = [i \in 1..n |-> <<i, m.args[i]>>]
    OBVIOUS
  <2>2. DOMAIN tm.args = 1..n /\ \A i \in 1..n : tm.args[i] = {vals[i]}
    BY <1>2, <1>5, <2>1
  <2>3. \A a \in ArgValues(tm) : DOMAIN a = 1..n /\ \A i \in 1..n : a[i] = vals[i]
    <3>1. DOMAIN tm.args = 1..n
      BY <2>2
    <3>2. \A i \in 1..n : tm.args[i] = {vals[i]}
      BY <2>2
    <3> HIDE <2>1, <2>2
    <3> QED
      BY <3>1, <3>2, ArgsAre
  <2> QED
    BY <2>1, <2>3
<1>7. CASE watch \in DOMAIN m.fromArg
  <2>1. PICK i : i = m.fromArg[watch] + 1
    OBVIOUS
  <2>2. i \in 1..n
    <3>1. m.fromArg[watch] \in Nat /\ m.fromArg[watch] - 0 + 1 \in 1..Len(m.args)
      BY <1>4, <1>7 DEF Points
    <3> QED
      BY <1>5, <2>1, <3>1
  <2>3. DOMAIN tm.fromArg = {watch} /\ tm.fromArg[watch] = i
    BY <1>2, <1>7, <2>1
  <2>4. {k \in DOMAIN tm.fromArg : tm.fromArg[k] \in DOMAIN args} = {watch}
    BY <1>6, <2>2, <2>3
  <2>5. ArgAttr(C, args[i]) = ValueOf(i, m.args[i])
    <3>1. args[i] = <<i, m.args[i]>> /\ i \in 1..MaxArgs
      BY <1>5, <1>6, <2>2 DEF MaxArgs
    <3>2. PICK v : v = <<i, m.args[i]>>
      OBVIOUS
    <3>3. v \in DOMAIN C.routes <=> m.args[i] = "route"
      BY <1>2, <3>1, <3>2
    <3>4. m.args[i] = "route" => C.routes[v] = RouteOf(v)
      BY <1>2, <3>1, <3>2
    <3>5. ArgAttr(C, v) = IF m.args[i] = "route" THEN RouteOf(v) ELSE v
      BY <3>3, <3>4 DEF ArgAttr
    <3> QED
      BY <3>1, <3>2, <3>5 DEF ValueOf
  <2>6. PICK x : x = Taken(app, t, watch)
    OBVIOUS
  <2>7. x = ArgAttr(C, args[i])
    BY <2>1, <2>5, <2>6 DEF Taken
  <2>8. [k \in {k \in DOMAIN tm.fromArg : tm.fromArg[k] \in DOMAIN args} |->
               ArgAttr(C, args[tm.fromArg[k]])] = Fixed(watch, x)
    BY <2>3, <2>4, <2>7 DEF Fixed
  <2>9. FromArgs(C, tm, NoAttrs, args) = PutAll(NoAttrs, Fixed(watch, x))
    BY <2>8 DEF FromArgs
  <2>10. PutAll(NoAttrs, Fixed(watch, x)) = Put(NoAttrs, watch, x)
    BY DEF Put, Fixed
  <2>11. Put(NoAttrs, watch, x) = Fixed(watch, x)
    BY PutFixed
  <2> QED
    BY <1>7, <2>6, <2>9, <2>10, <2>11, Zenon
<1>8. CASE watch \notin DOMAIN m.fromArg
  <2>1. DOMAIN tm.fromArg = {}
    BY <1>2, <1>8
  <2>2. PICK x : x = [k \in {k \in DOMAIN tm.fromArg : tm.fromArg[k] \in DOMAIN args} |->
               ArgAttr(C, args[tm.fromArg[k]])]
    OBVIOUS
  <2>3. x = [k \in {} |-> Nil]
    BY <2>1, <2>2
  <2>4. FromArgs(C, tm, NoAttrs, args) = PutAll(NoAttrs, x)
    BY <2>2 DEF FromArgs
  <2>5. x = NoAttrs
    BY <2>3 DEF NoAttrs
  <2>6. PutAll(NoAttrs, NoAttrs) = NoAttrs
    BY PutFixed
  <2> QED
    BY <1>8, <2>4, <2>5, <2>6, Zenon
<1> QED
  BY <1>7, <1>8

(***************************************************************************)
(* What GenerateFromPreparedInto leaves under the watched key: what was    *)
(* taken from an argument, or the value of one generator, or nothing.      *)
(***************************************************************************)
LEMMA GeneratedIs ==
    ASSUME app \in Apps, NEW t \in DOMAIN Messages(app),
           NEW o \in Generated(CutTo(Profile, t, watch), t, attrsOut)
    PROVE  o.attrs \in Values(app, t, watch)
<1>1. PICK C : C = CutTo(Profile, t, watch)
  OBVIOUS
<1>2. PICK tm, m : tm = C.messages[t] /\ m = Messages(app)[t]
  OBVIOUS
<1>3. PICK A, U : A = Values(app, t, watch) /\ U = Made(A)
  OBVIOUS
<1>4. PICK start : start = {[attrs |-> FromArgs(C, tm, NoAttrs, args),
                             draws |-> Len(tm.args)] : args \in ArgValues(tm)}
  OBVIOUS
<1>5. CutDown(C, app, t, watch)
  BY <1>1, CutIs
<1>6. Len(tm.args) \in Nat
  <2>1. Sound(m, Exempt(app, t))
    BY <1>2, Tables
  <2>2. m.args \in Words
    BY <2>1 DEF Sound
  <2>3. DOMAIN m.args = 1..Len(m.args) /\ Len(m.args) \in Nat
    BY <2>2, WordsJoined
  <2>4. tm.args = [i \in 1..Len(m.args) |-> {<<i, m.args[i]>>}]
    BY <1>2, <1>5, <2>3 DEF CutDown
  <2> QED
    BY <2>3, <2>4
<1>7. start \in SUBSET Made(A)
  <2> SUFFICES ASSUME NEW p \in start PROVE p \in Made(A)
    OBVIOUS
  <2>1. PICK args \in ArgValues(tm) :
            p = [attrs |-> FromArgs(C, tm, NoAttrs, args), draws |-> Len(tm.args)]
    BY <1>4
  <2>2. FromArgs(C, tm, NoAttrs, args) =
              IF watch \in DOMAIN m.fromArg THEN Fixed(watch, Taken(app, t, watch)) ELSE NoAttrs
    BY <1>1, <1>2, <2>1, FirstIs
  <2>3. FromArgs(C, tm, NoAttrs, args) \in A
    BY <1>2, <1>3, <2>2 DEF Values
  <2> QED
    BY <1>6, <2>1, <2>3 DEF Made
<1>8. \A x \in A : PutAll(x, NoAttrs) = x
  <2> SUFFICES ASSUME NEW x \in A PROVE PutAll(x, NoAttrs) = x
    OBVIOUS
  <2>1. x = NoAttrs \/ \E u : x = Fixed(watch, u)
    BY <1>3 DEF Values
  <2>2. /\ PutAll(NoAttrs, NoAttrs) = NoAttrs
        /\ \A u : PutAll(Fixed(watch, u), NoAttrs) = Fixed(watch, u)
    BY PutFixed
  <2> QED
    BY <2>1, <2>2, Zenon
<1>9. PICK keysA, keysR, keysL :
         /\ keysA = AttrKeys(app, t) /\ keysR = RareKeys(app, t) /\ keysL = LongTail(app)
  OBVIOUS
<1>10. OneGenerator(tm.attrs, watch, keysA, {Own, Nil})
        /\ OneGenerator(tm.rare, watch, keysR, {Own})
  BY <1>1, <1>2, <1>9, CutLists
<1>11. C.longTail \in SUBSET SlotsOf(keysL, watch)
  <2>1. C.longTail = {slot \in (IF keysL = {} THEN {}
                               ELSE {NoAttrs} \cup {Put(NoAttrs, k, Own) : k \in keysL}) :
                        DOMAIN slot \subseteq {watch}}
    BY <1>5, <1>9 DEF CutDown
  <2> QED
    BY <2>1 DEF SlotsOf
<1>12. ASSUME watch \in keysA \cup keysR \cup keysL PROVE A = Holding(watch)
  <2>1. watch \notin DOMAIN m.fromArg
    BY <1>2, <1>9, <1>12, Apart
  <2>2. A = {NoAttrs} \cup {Fixed(watch, Own) : x \in {watch} \cap (keysA \cup keysR \cup keysL)}
    BY <1>2, <1>3, <1>9, <2>1 DEF Values
  <2>3. {watch} \cap (keysA \cup keysR \cup keysL) = {watch}
    BY <1>12
  <2> QED
    BY <2>2, <2>3 DEF Holding
<1>13. PICK al, rl, tail : al = tm.attrs /\ rl = tm.rare /\ tail = C.longTail
  OBVIOUS
<1>14. Generated(C, t, attrsOut) = EmitLongTail(tail, FoldLeft(WithRare, FoldLeft(WithAttr,
        start, al), rl))
  BY <1>2, <1>4, <1>13 DEF Generated, Cleared
<1>15. EmitLongTail(tail, FoldLeft(WithRare, FoldLeft(WithAttr, start, al), rl)) \subseteq Made(A)
  BY <1>7, <1>8, <1>10, <1>11, <1>12, <1>13, StepsStay
<1>16. o \in Made(A)
  BY <1>1, <1>14, <1>15
<1> QED
  BY <1>3, <1>16, MadeIs

-----------------------------------------------------------------------------
(***************************************************************************)
(* The numbers of addresses a network may have.                            *)
(***************************************************************************)
LEMMA SizePositive == \A n \in 0..32 : 2^n \in Nat \ {0}
<1> SUFFICES ASSUME NEW n \in 0..32 PROVE 2^n \in Nat \ {0}
  OBVIOUS
<1>1. /\ 2^0 \in Nat \ {0} /\ 2^1 \in Nat \ {0} /\ 2^2 \in Nat \ {0}
      /\ 2^3 \in Nat \ {0} /\ 2^4 \in Nat \ {0} /\ 2^5 \in Nat \ {0}
      /\ 2^6 \in Nat \ {0} /\ 2^7 \in Nat \ {0} /\ 2^8 \in Nat \ {0}
      /\ 2^9 \in Nat \ {0} /\ 2^10 \in Nat \ {0}
  OBVIOUS
<1>2. /\ 2^11 \in Nat \ {0} /\ 2^12 \in Nat \ {0} /\ 2^13 \in Nat \ {0}
      /\ 2^14 \in Nat \ {0} /\ 2^15 \in Nat \ {0} /\ 2^16 \in Nat \ {0}
      /\ 2^17 \in Nat \ {0} /\ 2^18 \in Nat \ {0} /\ 2^19 \in Nat \ {0}
      /\ 2^20 \in Nat \ {0} /\ 2^21 \in Nat \ {0}
  OBVIOUS
<1>3. /\ 2^22 \in Nat \ {0} /\ 2^23 \in Nat \ {0} /\ 2^24 \in Nat \ {0}
      /\ 2^25 \in Nat \ {0} /\ 2^26 \in Nat \ {0} /\ 2^27 \in Nat \ {0}
      /\ 2^28 \in Nat \ {0} /\ 2^29 \in Nat \ {0} /\ 2^30 \in Nat \ {0}
      /\ 2^31 \in Nat \ {0} /\ 2^32 \in Nat \ {0}
  OBVIOUS
<1>4. \/ n \in {0, 1, 2, 3, 4, 5, 6, 7, 8, 9, 10}
      \/ n \in {11, 12, 13, 14, 15, 16, 17, 18, 19, 20, 21}
      \/ n \in {22, 23, 24, 25, 26, 27, 28, 29, 30, 31, 32}
  OBVIOUS
<1>5. CASE n \in {0, 1, 2, 3, 4, 5, 6, 7, 8, 9, 10}
  BY <1>1, <1>5, Zenon
<1>6. CASE n \in {11, 12, 13, 14, 15, 16, 17, 18, 19, 20, 21}
  BY <1>2, <1>6, Zenon
<1>7. CASE n \in {22, 23, 24, 25, 26, 27, 28, 29, 30, 31, 32}
  BY <1>3, <1>7, Zenon
<1> QED
  BY <1>4, <1>5, <1>6, <1>7

(***************************************************************************)
(* A multiple of m and a rest below m divide into what they were made of.  *)
(***************************************************************************)
LEMMA DivideSum ==
    ASSUME NEW m \in Nat \ {0}, NEW q \in Nat, NEW h \in 0..m - 1
    PROVE  (m * q + h) \div m = q /\ (m * q + h) % m = h
<1> DEFINE a == m * q + h
           d == a \div m
           r == a % m
<1>1. a \in Nat
  OBVIOUS
<1>2. d \in Int /\ r \in 0..m - 1 /\ a = m * d + r
  <2> HIDE DEF a
  <2> QED
    BY <1>1
<1> HIDE DEF d, r
<1>3. m * (q - d) = r - h
  BY <1>2
<1>4. q - d \in Int /\ r - h \in Int /\ r - h < m /\ r - h > -m
  BY <1>2
<1>5. CASE q - d >= 1
  BY <1>3, <1>4, <1>5
<1>6. CASE q - d <= -1
  BY <1>3, <1>4, <1>6
<1>7. q = d
  BY <1>2, <1>4, <1>5, <1>6
<1>8. r = h
  BY <1>2, <1>3, <1>7
<1> QED
  BY <1>7, <1>8 DEF d, r

(***************************************************************************)
(* Whatever the host number, the address made from it lies in the network, *)
(* also when the network is given by an address in the middle of it.       *)
(***************************************************************************)
LEMMA AddressInNetwork ==
    ASSUME NEW cidr, cidr.address \in Nat, cidr.prefix \in 0..32 \cup 96..128,
           NEW host \in Nat, host \in 1..HostMax(cidr)
    PROVE  Base(cidr) + host \in Nat /\ InNetwork(Base(cidr) + host, cidr)
<1> DEFINE m == 2^HostBits(cidr)
           q == cidr.address \div m
<1>1. m \in Nat \ {0}
  <2>1. HostBits(cidr) \in 0..32
    BY DEF HostBits
  <2> QED
    BY <2>1, SizePositive
<1>2. Base(cidr) = cidr.address - (cidr.address % m) /\ HostMax(cidr) = m - 1
  <2>1. HostMax(cidr) # 0
    OBVIOUS
  <2> QED
    BY <2>1 DEF Base, HostMax
<1>3. InNetwork(Base(cidr) + host, cidr)
         <=> (Base(cidr) + host) \div m = q /\ (Base(cidr) + host) % m # 0
  BY DEF InNetwork
<1> HIDE DEF m
<1>4. q \in Nat /\ cidr.address % m \in 0..m - 1 /\ cidr.address = m * q + (cidr.address % m)
  <2>1. PICK a \in Nat : a = cidr.address
    OBVIOUS
  <2>2. a \div m \in Nat /\ a % m \in 0..m - 1 /\ a = m * (a \div m) + (a % m)
    BY <1>1
  <2> QED
    BY <2>1, <2>2
<1> HIDE DEF q
<1>5. m * q \in Nat /\ Base(cidr) = m * q
  BY <1>1, <1>2, <1>4
<1>6. host \in 0..m - 1 /\ host # 0
  BY <1>1, <1>2
<1>7. (m * q + host) \div m = q /\ (m * q + host) % m = host
  BY <1>1, <1>4, <1>6, DivideSum
<1> QED
  BY <1>1, <1>3, <1>4, <1>5, <1>6, <1>7

(***************************************************************************)
(* Building a pool.                                                        *)
(***************************************************************************)
LEMMA PoolConfigured ==
    ASSUME cidrs \in ConfiguredCIDRs, BuildPool
    PROVE  address' \in Nat /\ AddressesConfigured'
<1>1. PICK range \in Ranges(PoolCIDRs(app, cidrs)) : \E host \in HostNumbers :
          host \in 1..range.hostMax /\ address' = Address(range, host)
  BY DEF BuildPool
<1>2. PICK host \in HostNumbers :
          host \in 1..range.hostMax /\ address' = Address(range, host)
  BY <1>1
<1>3. host \in Nat /\ cidrs' = cidrs /\ app' = app
  BY HostNumbersAssumption DEF BuildPool
<1> DEFINE list == PoolCIDRs(app, cidrs)
<1>4. PICK c : /\ c \in (IF IPv4(list) = {} THEN {NetworkTen} ELSE IPv4(list))
               /\ range = [base |-> Base(c), hostMax |-> HostMax(c)]
  BY DEF Ranges
<1>5. address' = Base(c) + host /\ host \in 1..HostMax(c)
  BY <1>2, <1>4 DEF Address
<1>6. /\ NetworkTen.address \in Nat /\ NetworkTen.prefix \in 0..32
      /\ SharedAddressSpace.address \in Nat /\ SharedAddressSpace.prefix \in 0..32
      /\ NetworkTen.family = 4 /\ SharedAddressSpace.family = 4
  <2>1. 2^24 = 16777216 /\ 2^16 = 65536
    OBVIOUS
  <2> QED
    BY <2>1 DEF NetworkTen, SharedAddressSpace
<1>7. ASSUME c.address \in Nat, c.prefix \in 0..32 \cup 96..128
      PROVE  address' \in Nat /\ InNetwork(address', c)
  BY <1>3, <1>5, <1>7, AddressInNetwork
<1>8. CASE cidrs = <<>>
  <2>1. ToSet(list) \subseteq {NetworkTen, SharedAddressSpace}
        /\ (app # "proxy" => ToSet(list) = {NetworkTen})
    BY <1>8 DEF PoolCIDRs, ToSet
  <2>2. c = NetworkTen \/ (app = "proxy" /\ c = SharedAddressSpace)
    BY <1>4, <2>1 DEF IPv4
  <2>3. address' \in Nat /\ InNetwork(address', c)
    BY <1>6, <1>7, <2>2
  <2>4. ~ \E i \in DOMAIN cidrs : cidrs[i].family = 4
    BY <1>8
  <2> QED
    BY <1>3, <1>8, <2>2, <2>3, <2>4 DEF AddressesConfigured
<1>9. CASE cidrs # <<>>
  <2>1. list = cidrs
    BY <1>9 DEF PoolCIDRs
  <2>2. CASE \E i \in DOMAIN cidrs : cidrs[i].family = 4
    <3>1. c \in IPv4(cidrs)
      BY <1>4, <2>1, <2>2 DEF IPv4, ToSet
    <3>2. PICK i \in DOMAIN cidrs : c = cidrs[i] /\ cidrs[i].family = 4
      BY <3>1 DEF IPv4, ToSet
    <3>3. address' \in Nat /\ InNetwork(address', cidrs[i])
      BY <1>7, <3>2, NetworksAssumption
    <3> QED
      BY <1>3, <2>2, <3>2, <3>3 DEF AddressesConfigured
  <2>3. CASE ~ \E i \in DOMAIN cidrs : cidrs[i].family = 4
    <3>1. c = NetworkTen
      BY <1>4, <2>1, <2>3 DEF IPv4, ToSet
    <3>2. address' \in Nat /\ InNetwork(address', NetworkTen)
      BY <1>6, <1>7, <3>1
    <3> QED
      BY <1>3, <2>3, <3>2 DEF AddressesConfigured
  <2> QED
    BY <2>2, <2>3
<1> QED
  BY <1>8, <1>9

(***************************************************************************)
(* The networks are those that were configured, and no other step touches  *)
(* the address.                                                            *)
(***************************************************************************)
PoolInv == cidrs \in ConfiguredCIDRs /\ address \in Nat \cup {Nil} /\ AddressesConfigured

(***************************************************************************)
(* No step but the construction of the pool touches the address.           *)
(***************************************************************************)
LEMMA PoolNext == PoolInv /\ [Next]_vars => PoolInv'
<1> SUFFICES ASSUME PoolInv, [Next]_vars PROVE PoolInv'
  OBVIOUS
<1> USE DEF PoolInv
<1>1. CASE BuildPool
  BY <1>1, PoolConfigured DEF BuildPool
<1>2. CASE UNCHANGED <<address, app, cidrs>>
  BY <1>2 DEF AddressesConfigured
<1>3. CASE BuildWithoutPool \/ PickTemplate \/ FormatBody \/ FillAttributes \/ UNCHANGED vars
  <2>1. UNCHANGED <<address, app, cidrs>>
    BY <1>3 DEF BuildWithoutPool, PickTemplate, FormatBody, FillAttributes, vars
  <2> QED
    BY <1>2, <2>1
<1> QED
  BY <1>1, <1>3 DEF Next

(***************************************************************************)
(* For every list of networks and every host number drawn, a client        *)
(* address lies in a configured network, or in the networks of the profile *)
(* when none can be used, and is not the address of the network itself     *)
(* (buildIPPool).                                                          *)
(***************************************************************************)
THEOREM AddressesConfiguredCorrect == Spec => []AddressesConfigured
<1>1. Init => PoolInv
  BY DEF Init, PoolInv, AddressesConfigured
<1>2. PoolInv => AddressesConfigured
  BY DEF PoolInv
<1> QED
  BY <1>1, <1>2, PoolNext, PTL DEF Spec

(***************************************************************************)
(* No value is nil.                                                        *)
(***************************************************************************)
LEMMA SomeValue ==
    ASSUME NEW a \in Apps, NEW t \in DOMAIN Messages(a), NEW w, NEW x \in Values(a, t, w)
    PROVE  x = NoAttrs \/ \E v : v # Nil /\ x = Fixed(w, v)
<1>0. PICK R : R = ArgKinds \cup {"own", "route template"}
  OBVIOUS
<1>1. Own # Nil
  <2>0. "own" \in R
    BY <1>0, Zenon
  <2>1. 0 \in 0..MaxArgs
    BY DEF MaxArgs
  <2>2. <<0, "own">> \in (0..MaxArgs) \X R
    BY <2>0, <2>1
  <2> QED
    BY <1>0, <2>2, NilAssumption DEF Own
<1>2. ASSUME w \in DOMAIN Messages(a)[t].fromArg PROVE Taken(a, t, w) # Nil
  <2>1. PICK m, i : m = Messages(a)[t] /\ i = m.fromArg[w] + 1
    OBVIOUS
  <2>2. Sound(m, Exempt(a, t))
    BY <2>1, Tables
  <2>3. /\ i \in 1..Len(m.args) /\ m.args \in Words /\ Len(m.args) <= MaxArgs
        /\ \A j \in 1..Len(m.args) : m.args[j] \in ArgKinds
    <3>1. m.fromArg[w] \in Nat /\ m.fromArg[w] - 0 + 1 \in 1..Len(m.args)
      BY <1>2, <2>1, <2>2 DEF Sound, Points
    <3> QED
      BY <2>1, <2>2, <3>1 DEF Sound
  <2>4. i \in 0..MaxArgs
    <3>1. Len(m.args) \in Nat
      BY <2>3, WordsJoined
    <3> QED
      BY <2>3, <3>1 DEF MaxArgs
  <2>5. PICK kind \in ArgKinds : kind = m.args[i]
    BY <2>3
  <2>6. Taken(a, t, w) = IF kind = "route" THEN <<i, "route template">> ELSE <<i, kind>>
    BY <2>1, <2>5 DEF Taken, ValueOf, RouteOf
  <2>7. kind \in R /\ "route template" \in R
    BY <1>0
  <2>8. Taken(a, t, w) \in (0..MaxArgs) \X R
    <3>1. PICK last \in R : Taken(a, t, w) = <<i, last>>
      BY <2>6, <2>7, Zenon
    <3> QED
      BY <2>4, <3>1
  <2> QED
    BY <1>0, <2>8, NilAssumption
<1> QED
  BY <1>1, <1>2 DEF Values

(***************************************************************************)
(* Attributes and body.                                                    *)
(***************************************************************************)
LEMMA QueryTakesNothing == Messages("goapp")[8].fromArg = None
<1>1. PICK u : u = GoAppMessages /\ Messages("goapp") = u
  BY DEF Messages
<1>2. Listed(GoAppInfoLogs, 6) /\ Listed(GoAppDebugLogs, 4) /\ Listed(GoAppWarnLogs, 17)
  BY GoAppInfoLogsGood, GoAppDebugLogsGood, GoAppWarnLogsGood
<1>3. u = GoAppInfoLogs \o GoAppDebugLogs \o GoAppWarnLogs
  BY <1>1 DEF GoAppMessages
<1>4. Joined(u, GoAppInfoLogs, GoAppDebugLogs, GoAppWarnLogs, 6, 4, 17)
  BY <1>2, <1>3, TablesJoined
<1>5. u[6 + 2] = GoAppDebugLogs[2]
  <2>1. 2 \in 1..4
    OBVIOUS
  <2> QED
    BY <1>4, <2>1, Zenon DEF Joined
<1>6. 6 + 2 = 8
  OBVIOUS
<1>7. GoAppDebugLogs[2] = GoAppLine("DEBUG", <<S, D>>, <<"table", "text", "int">>)
  BY DEF GoAppDebugLogs
<1>8. \A sev, f, a : GoAppLine(sev, f, a).fromArg = None
  BY DEF GoAppLine, GoAppText, Msg
<1>9. Messages("goapp")[8] = GoAppDebugLogs[2]
  BY <1>1, <1>5, <1>6, Zenon
<1> QED
  BY <1>7, <1>8, <1>9, Zenon

(***************************************************************************)
(* Neither error.message nor a key of the long tail names something a body *)
(* prints.                                                                 *)
(***************************************************************************)
LEMMA SystemKeysSilent == SystemKeys \cap KindKeys = {}
  BY DEF SystemKeys, KindKeys, LongTailKeys, ErrorMessageAttrs, ToSet

(***************************************************************************)
(* The watched attribute and the body of one record.                       *)
(***************************************************************************)
LEMMA Agreement ==
    ASSUME app \in Apps, tmpl \in DOMAIN Messages(app), body = BodyOf(app, tmpl),
           attrsOut \in Values(app, tmpl, watch), ~SlowQuery, ~GeneratedAnew
    PROVE  /\ watch \in DOMAIN attrsOut /\ Printed # {} => attrsOut[watch] \in Printed
           /\ watch \in DOMAIN Messages(app)[tmpl].fromArg => watch \in DOMAIN attrsOut
<1>1. PICK m, K : m = Messages(app)[tmpl] /\ K = Exempt(app, tmpl)
  OBVIOUS
<1>2. watch \notin K
  BY <1>1 DEF Exempt, SlowQuery, GeneratedAnew
<1>3. Sound(m, K)
  BY <1>1, Tables
<1>4. /\ m.args \in Words /\ Len(m.args) \in Nat
      /\ DOMAIN body = 1..Len(m.format) /\ Len(m.format) \in Nat /\ Len(m.format) <= Len(m.args)
      /\ \A j \in 1..Len(m.format) : body[j] = <<j, m.args[j]>>
  BY <1>1, BodyIs
<1>5. CASE watch \in DOMAIN m.fromArg
  <2>1. attrsOut = Fixed(watch, Taken(app, tmpl, watch))
    BY <1>1, <1>5 DEF Values
  <2>2. PICK i : i = m.fromArg[watch] + 1
    OBVIOUS
  <2>3. i \in 1..Len(m.args) /\ m.args[i] \in Kinds(watch)
    <3>1. /\ m.fromArg[watch] \in Nat /\ m.fromArg[watch] - 0 + 1 \in 1..Len(m.args)
          /\ m.args[m.fromArg[watch] - 0 + 1] \in Kinds(watch)
      BY <1>2, <1>3, <1>5 DEF Sound, Points
    <3>2. m.fromArg[watch] - 0 + 1 = i
      BY <2>2, <3>1
    <3> QED
      BY <3>1, <3>2
  <2>4. Len(m.format) = Len(m.args)
    <3>1. ~(app = "goapp" /\ tmpl = 8)
      <4>1. DOMAIN None = {}
        BY DEF None
      <4> QED
        BY <1>1, <1>5, <4>1, QueryTakesNothing
    <3>2. Matches(m.format, m.args)
      BY <1>1, <3>1, Tables
    <3> QED
      BY <3>2 DEF Matches
  <2>5. PICK v : v = <<i, m.args[i]>>
    OBVIOUS
  <2>6. v \in ToSet(body) /\ v[2] = m.args[i]
    BY <1>4, <2>3, <2>4, <2>5 DEF ToSet
  <2>7. (IF v[2] = "route" THEN RouteOf(v) ELSE v) \in Printed
    BY <2>3, <2>6 DEF Printed
  <2>8. Taken(app, tmpl, watch) = IF v[2] = "route" THEN RouteOf(v) ELSE v
    BY <1>1, <2>2, <2>5, <2>6 DEF Taken, ValueOf
  <2>9. watch \in DOMAIN attrsOut /\ attrsOut[watch] = Taken(app, tmpl, watch)
    BY <2>1 DEF Fixed
  <2> QED
    BY <2>7, <2>8, <2>9
<1>6. CASE watch \notin DOMAIN m.fromArg
  <2>1. ASSUME watch \in DOMAIN attrsOut PROVE Printed = {}
    <3>1. watch \in AttrKeys(app, tmpl) \cup RareKeys(app, tmpl) \cup LongTail(app)
      <4>1. attrsOut \in {NoAttrs} \cup {Fixed(watch, Own) : x \in {watch} \cap
                  (AttrKeys(app, tmpl) \cup RareKeys(app, tmpl) \cup LongTail(app))}
        BY <1>1, <1>6 DEF Values
      <4>2. attrsOut # NoAttrs
        BY <2>1 DEF NoAttrs
      <4> QED
        BY <4>1, <4>2
    <3>2. \/ watch \in (ToSet(m.attrs) \cup ToSet(m.rare)) \ K
          \/ watch \in SystemKeys
      BY <1>1, <1>2, <3>1, CrossOwn DEF AttrKeys, RareKeys
    <3>3. \A j \in 1..Len(m.args) : m.args[j] \notin Kinds(watch)
      <4>1. CASE watch \in (ToSet(m.attrs) \cup ToSet(m.rare)) \ K
        <5>1. Silent(m.args, (ToSet(m.attrs) \cup ToSet(m.rare)) \ K)
          BY <1>3 DEF Sound
        <5> QED
          BY <4>1, <5>1 DEF Silent
      <4>2. CASE watch \in SystemKeys
        <5>1. Silent(m.args, SystemKeys)
          BY SystemKeysSilent, SilentKeys
        <5> QED
          BY <4>2, <5>1 DEF Silent
      <4> QED
        BY <3>2, <4>1, <4>2
    <3>4. \A j \in 1..Len(m.format) : body[j][2] \notin Kinds(watch)
      BY <1>4, <3>3
    <3> QED
      BY <1>4, <3>4 DEF Printed, ToSet
  <2> QED
    BY <1>1, <1>6, <2>1
<1> QED
  BY <1>5, <1>6

(***************************************************************************)
(* The map of attributes.                                                  *)
(***************************************************************************)
Held == attrsOut = NoAttrs \/ \E v : v # Nil /\ attrsOut = Fixed(watch, v)

AttrsInv ==
    /\ TemplateInv /\ PoolInv /\ Held
    /\ Emitted => attrsOut \in Values(app, tmpl, watch)

(***************************************************************************)
(* The reusable map is empty at first.                                     *)
(***************************************************************************)
LEMMA AttrsInit == Init => AttrsInv
<1>1. Init => PoolInv
  BY DEF Init, PoolInv, AddressesConfigured
<1>2. Init => Held /\ ~Emitted
  BY DEF Init, Held, Emitted
<1> QED
  BY <1>1, <1>2, TemplateInit DEF AttrsInv

(***************************************************************************)
(* Only FillAttributes writes the map, from nothing: it clears it first.   *)
(***************************************************************************)
LEMMA AttrsNext == AttrsInv /\ [Next]_vars => AttrsInv'
<1> SUFFICES ASSUME AttrsInv, [Next]_vars PROVE AttrsInv'
  OBVIOUS
<1>1. TemplateInv' /\ PoolInv'
  BY TemplateNext, PoolNext DEF AttrsInv
<1>2. CASE UNCHANGED <<attrsOut, watch>> /\ phase' # "emitted"
  BY <1>1, <1>2 DEF AttrsInv, Held, Emitted
<1>3. CASE BuildPool \/ BuildWithoutPool \/ PickTemplate \/ FormatBody
  <2>1. UNCHANGED <<attrsOut, watch>> /\ phase' # "emitted"
    BY <1>3 DEF BuildPool, BuildWithoutPool, PickTemplate, FormatBody
  <2> QED
    BY <1>2, <2>1
<1>4. CASE FillAttributes
  <2>1. phase = "formatted" /\ UNCHANGED <<app, watch, tmpl>>
    BY <1>4 DEF FillAttributes
  <2>2. PICK o \in Generated(CutTo(Profile, tmpl, watch), tmpl, attrsOut) : attrsOut' = o.attrs
    BY <1>4 DEF FillAttributes
  <2>3. app \in Apps /\ tmpl \in DOMAIN Messages(app)
    BY <2>1 DEF AttrsInv, TemplateInv, Chosen
  <2>4. o.attrs \in Values(app, tmpl, watch)
    BY <2>3, GeneratedIs
  <2>5. attrsOut' \in Values(app, tmpl, watch)
    BY <2>2, <2>4
  <2>6. attrsOut' = NoAttrs \/ \E v : v # Nil /\ attrsOut' = Fixed(watch, v)
    BY <2>3, <2>5, SomeValue
  <2>7. Held' /\ (attrsOut \in Values(app, tmpl, watch))'
    BY <2>1, <2>5, <2>6 DEF Held
  <2> QED
    BY <1>1, <2>7 DEF AttrsInv
<1>5. CASE UNCHANGED vars
  <2>1. UNCHANGED <<attrsOut, watch, app, tmpl, phase>>
    BY <1>5 DEF vars
  <2> QED
    BY <1>1, <2>1 DEF AttrsInv, Held, Emitted
<1> QED
  BY <1>3, <1>4, <1>5 DEF Next

(***************************************************************************)
(* For every profile, key, draw and order of records: an attribute whose   *)
(* key names something the body prints holds what the body prints, or the  *)
(* route of the path, and none that is taken from an argument is missing,  *)
(* outside the templates that generate it anew.                            *)
(***************************************************************************)
THEOREM AttributesAgreeCorrect == Spec => []AttributesAgree
<1>1. AttrsInv => AttributesAgree
  <2> SUFFICES ASSUME AttrsInv, Emitted, ~SlowQuery, ~GeneratedAnew
               PROVE  /\ watch \in DOMAIN attrsOut /\ Printed # {} => attrsOut[watch] \in Printed
                      /\ watch \in DOMAIN Messages(app)[tmpl].fromArg => watch \in DOMAIN attrsOut
    BY DEF AttributesAgree
  <2>1. /\ app \in Apps /\ tmpl \in DOMAIN Messages(app) /\ body = BodyOf(app, tmpl)
        /\ attrsOut \in Values(app, tmpl, watch)
    BY DEF AttrsInv, TemplateInv, Chosen, Formatted, Emitted
  <2> QED
    BY <2>1, Agreement
<1> QED
  BY <1>1, AttrsInit, AttrsNext, PTL DEF Spec

(***************************************************************************)
(* For every profile, network, weight and roll: the variables stay in      *)
(* their types; the map has no nil, and no key but those of its template.  *)
(***************************************************************************)
THEOREM TypeCorrect == Spec => []TypeOK
<1>1. AttrsInv => TypeOK
  <2> SUFFICES ASSUME AttrsInv PROVE TypeOK
    OBVIOUS
  <2>1. /\ app \in Apps /\ severity \in SeverityTexts
        /\ phase \in {"configured", "ready", "template", "formatted", "emitted"}
        /\ tmpl \in {0} \cup DOMAIN Messages(app)
        /\ cidrs \in ConfiguredCIDRs /\ address \in Nat \cup {Nil}
    BY DEF AttrsInv, TemplateInv, PoolInv
  <2>2. ASSUME phase \in {"template", "formatted", "emitted"} PROVE tmpl > 0
    <3>1. tmpl \in DOMAIN Messages(app)
      BY <2>2 DEF AttrsInv, TemplateInv, Chosen
    <3>2. PICK n \in Nat \ {0} : DOMAIN Messages(app) = 1..n
      BY <2>1, Tables
    <3> QED
      BY <3>1, <3>2
  <2>3. DOMAIN attrsOut \subseteq {watch} /\ \A k \in DOMAIN attrsOut : attrsOut[k] # Nil
    <3>1. CASE attrsOut = NoAttrs
      BY <3>1 DEF NoAttrs
    <3>2. ASSUME NEW v, v # Nil, attrsOut = Fixed(watch, v)
          PROVE  DOMAIN attrsOut \subseteq {watch} /\ \A k \in DOMAIN attrsOut : attrsOut[k] # Nil
      BY <3>2 DEF Fixed
    <3> QED
      BY <3>1, <3>2 DEF AttrsInv, Held
  <2> QED
    BY <2>1, <2>2, <2>3 DEF TypeOK
<1> QED
  BY <1>1, AttrsInit, AttrsNext, PTL DEF Spec
=============================================================================
