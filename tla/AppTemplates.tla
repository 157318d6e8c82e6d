---------------------------- MODULE AppTemplates ----------------------------
(***************************************************************************)
(* The message templates of the application profiles, as the tables in     *)
(* src/logsgenreceiver/internal/loggen hold them.  A template is           *)
(*   format  : the placeholders of its format string, in order (%% is a    *)
(*             character, not a placeholder),                              *)
(*   args    : what each of its generators makes,                          *)
(*   fromArg : attribute key -> index of an argument, counted from 0,      *)
(*   attrs   : the keys of the attributes that have a generator of their   *)
(*             own, and rare: of those that are seldom present.            *)
(* Only what an argument is matters here: see ArgKinds.                    *)
(***************************************************************************)
EXTENDS Naturals, Sequences

(***************************************************************************)
(* "url" is a path and "route" one made from a route template, "method" of *)
(* an RPC; all other strings are "text".                                   *)
(***************************************************************************)
ArgKinds == {"ip", "url", "route", "status", "bytes", "agent", "port", "db", "table",
             "user", "service", "method", "queue", "int", "text"}

S == "%s"
D == "%d"
X == "%x"
Q == "%q"
None == [k \in {} |-> 0]
From(key, i) == [k \in {key} |-> i]
f ++ g == [k \in DOMAIN f \cup DOMAIN g |-> IF k \in DOMAIN f THEN f[k] ELSE g[k]]

Msg(severity, format, args, fromArg, attrs) ==
    [severity |-> severity, format |-> format, args |-> args,
     fromArg |-> fromArg, attrs |-> attrs, rare |-> <<>>]
-----------------------------------------------------------------------------
(***************************************************************************)
(* nginx.  An access log begins with the client and the time; the other    *)
(* formats with the time and the numbers of process, thread, connection.   *)
(***************************************************************************)
Peer == From("net.peer.ip", 0)
Url(i) == From("http.url", i)
Agent(i) == From("user_agent.original", i)
Result(i, j) == From("http.status_code", i) ++ From("http.response.body.size", j)

Access(format, args, fromArg, attrs) ==
    Msg("INFO", <<S, S>> \o format, <<"ip", "text">> \o args,
        Peer ++ fromArg, <<"http.method">> \o attrs)

NginxAccessLogs == <<
    Access(<<S, D, D, S>>, <<"route", "status", "bytes", "agent">>,
        Url(2) ++ Result(3, 4) ++ Agent(5), <<"http.flavor">>),
    Access(<<S, D, D, S, S>>, <<"url", "status", "bytes", "text", "agent">>,
        Url(2) ++ Result(3, 4) ++ Agent(6), <<"http.request.body.size">>),
    Access(<<>>, <<>>, None, <<"http.status_code", "http.url">>),
    Access(<<S, S, S>>, <<"text", "text", "agent">>,
        Agent(4), <<"http.status_code", "http.url", "http.flavor">>),
    Access(<<D, D, S>>, <<"int", "bytes", "agent">>,
        From("http.response.body.size", 3) ++ Agent(4),
        <<"http.status_code", "http.url", "http.flavor">>),
    Access(<<S, D, D, S>>, <<"url", "status", "bytes", "agent">>,
        Url(2) ++ Result(3, 4) ++ Agent(5), <<>>),
    Access(<<S, D, D, S>>, <<"text", "status", "bytes", "agent">>,
        Result(3, 4) ++ Agent(5), <<"http.url">>) >>

NginxLineNoConn(severity, format, args) ==  \* bug: %d for a connection, no argument
    Msg(severity, <<S, D, D, D>> \o format, <<"text", "int", "int">> \o args, None, <<>>)
NginxLine(severity, format, args) ==
    Msg(severity, <<S, D, D, D>> \o format, <<"text", "int", "int", "int">> \o args, None, <<>>)
NginxEmerg(format, args) ==
    Msg("FATAL", <<S, D, D>> \o format, <<"text", "int", "int">> \o args, None, <<>>)

NginxDebugLogs == <<NginxLine("DEBUG", <<>>, <<>>), NginxLine("DEBUG", <<S>>, <<"text">>)>>

Upstream == <<"ip", "text", "url", "ip", "port", "url">>

NginxWarnLogs == <<
    NginxLine("WARN", <<S, S, S, S, D, S>>, Upstream),
    NginxLine("WARN", <<S, S, S>>, <<"text", "ip", "text">>),
    NginxLine("WARN", <<S, S>>, <<"ip", "text">>),
    NginxLine("ERROR", <<S, S, S, S, D, S>>, Upstream),
    NginxLine("ERROR", <<S, S, S>>, <<"ip", "text", "url">>),
    NginxLine("ERROR", <<S, S>>, <<"ip", "text">>),
    NginxLine("ERROR", <<S, S, S, S, D, S, S>>, Append(Upstream, "text")),
    NginxLine("ERROR", <<S, S, S>>, <<"ip", "text", "text">>),
    NginxLine("ERROR", <<S, S, S>>, <<"ip", "text", "text">>),
    NginxEmerg(<<S>>, <<"text">>),
    NginxEmerg(<<D>>, <<"port">>),
    NginxEmerg(<<S, S>>, <<"text", "text">>),
    NginxEmerg(<<D, S>>, <<"port", "text">>),
    NginxEmerg(<<S>>, <<"text">>) >>

NginxMessages == NginxAccessLogs \o NginxDebugLogs \o NginxWarnLogs
-----------------------------------------------------------------------------
(***************************************************************************)
(* mysql.  Every format begins with the time, a thread and a code.         *)
(***************************************************************************)
MySQLLine(severity, format, args, fromArg, attrs) ==
    Msg(severity, <<S, D, S>> \o format, <<"text", "int", "text">> \o args,
        fromArg, <<"db.system">> \o attrs)
MySQLNote(severity, format, args) == MySQLLine(severity, format, args, None, <<>>)

DbName(i) == From("db.name", i)
Table(i, j) == DbName(i) ++ From("db.sql.table", j)
OperationAsSystem == <<"db.system">>  \* bug: a key the template has already
Operation == <<"db.operation.name">>
Aborted(severity) ==
    MySQLLine(severity, <<D, S, S, S>>, <<"int", "db", "user", "ip">>, DbName(4), <<"db.user">>)

MySQLInfoLogs == <<
    MySQLNote("INFO", <<S>>, <<"text">>),
    MySQLNote("INFO", <<S>>, <<"text">>),
    MySQLNote("INFO", <<S>>, <<"text">>),
    Aborted("INFO"),
    MySQLNote("INFO", <<>>, <<>>) >>

MySQLDebugLogs == <<
    MySQLNote("DEBUG", <<D, D>>, <<"int", "int">>),
    MySQLLine("DEBUG", <<S, S>>, <<"db", "table">>, Table(3, 4), Operation),
    MySQLLine("DEBUG", <<S, S, S>>, <<"db", "table", "text">>, Table(3, 4), Operation) >>

MySQLWarnLogs == <<
    Aborted("WARN"),
    MySQLNote("WARN", <<D, D>>, <<"int", "int">>),
    MySQLLine("WARN", <<D, D, S, S, S>>, <<"int", "int", "db", "table", "text">>,
        Table(6, 7), Operation),
    MySQLNote("ERROR", <<>>, <<>>),
    MySQLNote("ERROR", <<>>, <<>>),
    MySQLNote("ERROR", <<D>>, <<"int">>),
    MySQLLine("ERROR", <<S, S>>, <<"db", "table">>, Table(3, 4), Operation),
    MySQLNote("ERROR", <<S>>, <<"text">>),
    MySQLNote("ERROR", <<S>>, <<"text">>),
    MySQLNote("FATAL", <<>>, <<>>),
    MySQLNote("FATAL", <<>>, <<>>),
    MySQLNote("FATAL", <<S>>, <<"text">>),
    MySQLNote("FATAL", <<S>>, <<"text">>),
    MySQLNote("FATAL", <<D, S>>, <<"int", "text">>) >>

MySQLMessages == MySQLInfoLogs \o MySQLDebugLogs \o MySQLWarnLogs
-----------------------------------------------------------------------------
(***************************************************************************)
(* redis.  Every format begins with a process, a role and the time.        *)
(***************************************************************************)
RedisLine(severity, format, args, attrs) ==
    Msg(severity, <<D, S, S>> \o format, <<"int", "text", "text">> \o args,
        None, <<"db.system">> \o attrs)
RedisNote(severity, format, args) == RedisLine(severity, format, args, <<>>)

RedisInfoLogs == <<
    RedisNote("INFO", <<>>, <<>>),
    RedisNote("INFO", <<S>>, <<"text">>),
    RedisNote("INFO", <<>>, <<>>),
    RedisNote("INFO", <<D>>, <<"int">>),
    RedisNote("INFO", <<D, D, D>>, <<"int", "int", "int">>),
    RedisNote("INFO", <<D>>, <<"int">>),
    RedisNote("INFO", <<>>, <<>>),
    RedisLine("INFO", <<S, D>>, <<"ip", "port">>, <<"net.peer.port">>) >>

RedisDebugLogs == <<
    RedisLine("DEBUG", <<S, D, S, D>>, <<"ip", "port", "text", "port">>, <<"net.peer.port">>),
    RedisNote("DEBUG", <<D>>, <<"int">>),
    RedisLine("DEBUG", <<S>>, <<"text">>, Operation) >>

RedisWarnLogs == <<
    RedisNote("WARN", <<D, D>>, <<"int", "int">>),
    RedisNote("WARN", <<>>, <<>>),
    RedisNote("WARN", <<D, S>>, <<"int", "text">>),
    RedisNote("ERROR", <<S>>, <<"text">>),
    RedisNote("ERROR", <<S>>, <<"text">>),
    RedisNote("ERROR", <<>>, <<>>),
    RedisNote("ERROR", <<>>, <<>>),
    RedisNote("ERROR", <<S, S>>, <<"text", "text">>),
    RedisNote("ERROR", <<S>>, <<"text">>),
    RedisNote("FATAL", <<S>>, <<"text">>),
    RedisNote("FATAL", <<>>, <<>>),
    RedisNote("FATAL", <<S, S>>, <<"text", "text">>),
    RedisNote("FATAL", <<S>>, <<"text">>),
    RedisNote("FATAL", <<X, S>>, <<"int", "text">>) >>

RedisMessages == RedisInfoLogs \o RedisDebugLogs \o RedisWarnLogs
-----------------------------------------------------------------------------
(***************************************************************************)
(* goapp.  All formats but two begin with the time and a line number.      *)
(***************************************************************************)
GoAppText(severity, format, args) ==
    Msg(severity, format, args, None, <<"telemetry.sdk.language">>)
GoAppLine(severity, format, args) ==
    GoAppText(severity, <<S, D>> \o format, <<"text", "int">> \o args)
GoAppOf(severity, format, args, fromArg, system) ==
    [GoAppLine(severity, format, args) EXCEPT !.fromArg = fromArg, !.attrs = Append(@, system)]

Service == From("rpc.service", 2)
Rpc == Service ++ From("rpc.method", 3)
Grpc(severity, format, args) ==
    GoAppOf(severity, <<S, S>> \o format, <<"service", "method">> \o args, Rpc, "rpc.system")

GoAppInfoLogs == <<
    GoAppText("INFO", <<>>, <<>>),
    GoAppLine("INFO", <<S, S, D, D, S>>, <<"text", "url", "status", "int", "text">>),
    GoAppLine("INFO", <<S, S>>, <<"text", "db">>),
    Grpc("INFO", <<D>>, <<"int">>),
    GoAppOf("INFO", <<S, S, D>>, <<"text", "queue", "int">>,
        From("messaging.destination.name", 3), "messaging.system"),
    GoAppLine("INFO", <<S, S, S>>, <<"text", "url", "text">>) >>

GoAppDebugLogs == <<
    GoAppLine("DEBUG", <<S, S, S, S>>, <<"text", "url", "agent", "text">>),
    GoAppLine("DEBUG", <<S, D>>, <<"table", "text", "int">>),
    GoAppLine("DEBUG", <<S, S, Q, S>>, <<"text", "url", "text", "text">>),
    GoAppLine("DEBUG", <<S, Q, S>>, <<"url", "text", "text">>) >>

GoAppWarnLogs == <<
    GoAppLine("WARN", <<S, S, D>>, <<"text", "url", "int">>),
    GoAppLine("WARN", <<S>>, <<"text">>),
    Grpc("WARN", <<>>, <<>>),
    GoAppLine("ERROR", <<S, S, S, S>>, <<"text", "url", "text", "text">>),
    GoAppLine("ERROR", <<S, S, D>>, <<"table", "text", "int">>),
    Grpc("ERROR", <<S>>, <<"text">>),
    GoAppLine("ERROR", <<S, S>>, <<"text", "text">>),
    GoAppLine("ERROR", <<S, S, S>>, <<"text", "text", "text">>),
    GoAppLine("ERROR", <<S, S, S>>, <<"table", "text", "text">>),
    Grpc("ERROR", <<S, S>>, <<"text", "text">>),
    GoAppText("FATAL", <<S>>, <<"text">>),
    GoAppLine("FATAL", <<S>>, <<"text">>),
    GoAppLine("FATAL", <<S, S>>, <<"text", "text">>),
    GoAppLine("FATAL", <<S>>, <<"text">>),
    GoAppLine("FATAL", <<S, S, S>>, <<"text", "text", "text">>),
    GoAppOf("FATAL", <<S, S, S>>, <<"text", "text", "text">>, None, "messaging.system"),
    GoAppOf("FATAL", <<S, S, S>>, <<"service", "text", "text">>, Service, "rpc.system") >>

GoAppMessages == GoAppInfoLogs \o GoAppDebugLogs \o GoAppWarnLogs
-----------------------------------------------------------------------------
(***************************************************************************)
(* proxy.  Its records have no body.                                       *)
(***************************************************************************)
Event(severity, attrs, rare) == [Msg(severity, <<>>, <<>>, None, attrs) EXCEPT !.rare = rare]

InfoAttrs ==
    <<"request_id", "request_method", "request_path", "status_code", "action",
      "response_time", "proxy_internal_time_us", "request_length", "response_length",
      "client_ip", "request_host", "handling_pod", "handling_zone">>
InfoRare ==
    <<"user_agent.original", "serverless.project.type", "tls_version", "tls_cipher",
      "request_source", "request_proto", "client_meta", "handling_project",
      "request_port", "auth_user">>
HealthAttrs ==
    <<"request_id", "connection_id", "request_method", "request_path", "status_code",
      "action", "response_time", "proxy_internal_time_us", "client_ip",
      "user_agent.original", "request_port", "status_reason">>
DebugAttrs ==
    <<"request_id", "connection_id", "request_method", "request_path", "action",
      "routing_decision", "backend_response_time", "handling_pod", "handling_node",
      "handling_zone", "handling_namespace", "handling_server", "handling_port",
      "backend_proto", "client_ip">>
FailureAttrs ==
    <<"request_id", "connection_id", "backend_connection_id", "request_method",
      "request_path", "status_code", "action", "application_type", "response_time",
      "backend_response_time", "proxy_internal_time_us", "request_length",
      "response_length", "route_connection_concurrency", "route_request_concurrency",
      "client_ip", "request_host", "handling_pod", "handling_node", "handling_zone",
      "handling_application", "routing_decision", "organization_id",
      "user_agent.original", "status_reason">>
FatalAttrs == <<"handling_pod", "handling_node", "handling_zone", "status_reason">>

ProxyMessagesNoFatal == <<  \* bug: no template for a severity
    Event("INFO", InfoAttrs, InfoRare), Event("INFO", InfoAttrs, InfoRare),
    Event("INFO", HealthAttrs, <<>>), Event("DEBUG", DebugAttrs, <<>>),
    Event("WARN", FailureAttrs, <<>>),
    Event("ERROR", Append(FailureAttrs, "resolution_type"), <<>>) >>
ProxyMessages == <<
    Event("INFO", InfoAttrs, InfoRare), Event("INFO", InfoAttrs, InfoRare),
    Event("INFO", HealthAttrs, <<>>), Event("DEBUG", DebugAttrs, <<>>),
    Event("WARN", FailureAttrs, <<>>),
    Event("ERROR", Append(FailureAttrs, "resolution_type"), <<>>),
    Event("FATAL", FatalAttrs, <<>>) >>
-----------------------------------------------------------------------------
(***************************************************************************)
(* The profile of a path without one of its own.                           *)
(***************************************************************************)
GenericMessages == <<Msg("INFO", <<S, S>>, <<"text", "text">>, None, <<>>)>>

(***************************************************************************)
(* The fields of the long tail.                                            *)
(***************************************************************************)
LongTailKeys == {
    "config.file.path", "config.file.hash", "config.reload.count",
    "config.reload.last_status", "config.environment", "config.feature_flags",
    "config.max_connections", "config.worker_threads", "config.tls.enabled",
    "config.tls.cert_expiry_days", "config.log_level", "config.memory_limit_mb",
    "config.cpu_limit_millicores",
    "process.runtime.jvm.gc.count", "process.runtime.jvm.gc.pause_ms",
    "process.runtime.jvm.heap_used_mb", "process.runtime.jvm.threads.count",
    "process.runtime.go.goroutines", "process.runtime.go.mem.heap_alloc_mb",
    "process.runtime.go.gc.pause_ns", "process.cpu_seconds_total",
    "process.memory_rss_mb", "process.open_fds", "process.uptime_seconds",
    "k8s.pod.restart_count", "k8s.container.ready", "k8s.pod.phase", "k8s.pod.qos_class",
    "k8s.node.condition.ready", "k8s.node.condition.memory_pressure",
    "k8s.node.condition.disk_pressure", "k8s.deployment.revision",
    "k8s.hpa.current_replicas", "k8s.hpa.desired_replicas",
    "net.sock.peer.addr", "net.sock.host.addr", "net.sock.host.port",
    "net.host.connection.type", "dns.lookup_duration_ms", "net.protocol.name",
    "net.protocol.version", "tls.client.server_name", "tls.client.certificate.serial",
    "cloud.account.id", "cloud.availability_zone", "cloud.machine.type", "cloud.region",
    "host.cpu.utilization", "host.disk.io.read_bytes", "host.disk.io.write_bytes",
    "host.network.io.receive_bytes", "host.network.io.transmit_bytes",
    "session.id", "enduser.id", "enduser.role", "enduser.scope", "thread.id",
    "thread.name", "code.function", "code.namespace", "code.filepath", "code.lineno" }

(***************************************************************************)
(* ErrorMessageAttrs: two optional attributes of every template.           *)
(***************************************************************************)
ErrorMessageAttrs == <<"error.message", "log.origin.stack_trace">>
=============================================================================
