------------------------------ MODULE Configuration -------------------------
(***************************************************************************)
(* Configuration files in two parts: the JSON loader (Jl), then the        *)
(* translation of version 1 objects (Ct).                                  *)
(***************************************************************************)

(* common/json/json_loader.cc: fields are built from the events a reader    *)
(* raises while it reads a document, with a stack of the containers that    *)
(* are open; the same document as YAML is converted node by node; what was  *)
(* loaded is turned into a document again to be checked against a schema.   *)
(* Fields are shared pointers: a field is its number among those created.   *)
EXTENDS Integers, Sequences, SequencesExt, FiniteSets

CONSTANTS JlKeys,     \* names of members
          JlScalars   \* scalars: [t, v]; an integer past JlMaxInt is one an int64_t cannot hold

ASSUME JlConstants == \A s \in JlScalars : s.t \in {"null", "boolean", "integer", "double", "string"}

VARIABLE jl

JlMaxInt == 7

\* Documents as text has them: members keep their order and their duplicates.
jlArrays(elements) == {[t |-> "array", v |-> s] : s \in SeqOf(elements, 2)}
jlObjects(elements) == {[t |-> "object", v |-> s] : s \in SeqOf(JlKeys \X elements, 2)}
JlInner ==
    JlScalars \cup {[t |-> "array", v |-> s] : s \in SeqOf(JlScalars, 1)}
              \cup {[t |-> "object", v |-> s] : s \in SeqOf(JlKeys \X JlScalars, 1)}
JlDocuments == JlScalars \cup jlArrays(JlInner) \cup jlObjects(JlInner)

\* What rapidjson's reader raises for a document.
RECURSIVE jlEvents(_)
jlEvents(d) ==
    CASE d.t = "array" ->
            <<[e |-> "StartArray"]>> \o FlattenSeq([i \in DOMAIN d.v |-> jlEvents(d.v[i])]) \o <<[e |-> "EndArray"]>>
      [] d.t = "object" ->
            <<[e |-> "StartObject"]>>
            \o FlattenSeq([i \in DOMAIN d.v |-> <<[e |-> "Key", key |-> d.v[i][1]]>> \o jlEvents(d.v[i][2])])
            \o <<[e |-> "EndObject"]>>
      [] OTHER -> <<[e |-> "Value", value |-> d]>>

JlStates == {"Root", "KeyOrEndObject", "ValueOrStartObjectArray", "ArrayValueOrEndArray", "Finished"}

jlFirst(d) ==
    [document |-> d, events |-> jlEvents(d), state |-> "Root", stack |-> << >>, key |-> "",
     fields |-> << >>, result |-> "reading"]

JlInit == \E d \in JlDocuments : jl = jlFirst(d)

\* Field::insert() and append(): a later member of a name replaces an earlier one.
jlInsert(fields, to, key, ref) ==
    [fields EXCEPT ![to].v = [k \in DOMAIN @ \cup {key} |-> IF k = key THEN ref ELSE @[k]]]
jlAppend(fields, to, ref) == [fields EXCEPT ![to].v = Append(@, ref)]

jlTop(p) == Last(p.stack)

\* Where a new field goes is a matter of the state.
jlPlace(p, field) ==
    LET fields == Append(p.fields, field)
        ref == Len(fields)
    IN CASE p.state = "ValueOrStartObjectArray" -> jlInsert(fields, jlTop(p), p.key, ref)
         [] p.state = "ArrayValueOrEndArray" -> jlAppend(fields, jlTop(p), ref)
         [] OTHER -> fields

jlStart(p, type, next) ==
    IF p.state \notin {"Root", "ValueOrStartObjectArray", "ArrayValueOrEndArray"} THEN [p EXCEPT !.result = "NOT_REACHED"]
    ELSE [p EXCEPT !.fields = jlPlace(p, [t |-> type, v |-> << >>]), !.stack = Append(@, Len(p.fields) + 1), !.state = next]

jlStartObject(p) == jlStart(p, "object", "KeyOrEndObject")
jlStartArray(p) == jlStart(p, "array", "ArrayValueOrEndArray")

\* Mutant: the end of a container leaves its parent an object.
jlEndInObject(p, expected) ==
    IF p.state # expected THEN [p EXCEPT !.result = "NOT_REACHED"]
    ELSE LET rest == Front(p.stack)
         IN [p EXCEPT !.stack = rest, !.state = IF rest = << >> THEN "Finished" ELSE "KeyOrEndObject"]

\* A container ends: what is expected next is a matter of the one around it.
jlEnd(p, expected) ==
    IF p.state # expected THEN [p EXCEPT !.result = "NOT_REACHED"]
    ELSE LET rest == Front(p.stack)
         IN [p EXCEPT !.stack = rest,
                      !.state = IF rest = << >> THEN "Finished"
                                ELSE IF p.fields[Last(rest)].t = "object" THEN "KeyOrEndObject" ELSE "ArrayValueOrEndArray"]

jlEndObject(p) == jlEnd(p, "KeyOrEndObject")
jlEndArray(p) == jlEnd(p, "ArrayValueOrEndArray")

jlKey(p, key) ==
    IF p.state # "KeyOrEndObject" THEN [p EXCEPT !.result = "NOT_REACHED"]
    ELSE [p EXCEPT !.key = key, !.state = "ValueOrStartObjectArray"]

jlTooLarge(value) == value.t = "integer" /\ value.v > JlMaxInt


\* handleValueEvent(), and Uint64(): false, and an exception, end the reading.
jlHandleValue(p, value) ==
    IF jlTooLarge(value) \/ p.state \notin {"ValueOrStartObjectArray", "ArrayValueOrEndArray"} THEN [p EXCEPT !.result = "refused"]
    ELSE [p EXCEPT !.fields = jlPlace(p, value),
                   !.state = IF @ = "ValueOrStartObjectArray" THEN "KeyOrEndObject" ELSE @]

\* One event of loadFromString().
JlEvent ==
    /\ jl.result = "reading" /\ jl.events # << >>
    /\ LET e == Head(jl.events)
           p == [jl EXCEPT !.events = Tail(@)]
       IN jl' = CASE e.e = "StartObject" -> jlStartObject(p)
                  [] e.e = "StartArray" -> jlStartArray(p)
                  [] e.e = "EndObject" -> jlEndObject(p)
                  [] e.e = "EndArray" -> jlEndArray(p)
                  [] e.e = "Key" -> jlKey(p, e.key)
                  [] e.e = "Value" -> jlHandleValue(p, e.value)

JlLoaded ==
    /\ jl.result = "reading" /\ jl.events = << >>
    /\ jl' = [jl EXCEPT !.result = "loaded"]

JlNext == JlEvent \/ JlLoaded

JlSpec == JlInit /\ [][JlNext]_jl

\* parseYamlNode(), for the same text: JSON's strings are quoted, and a number
\* that is too large for an integer is a double.
RECURSIVE jlParseYamlNode(_)
jlParseYamlNode(d) ==
    CASE d.t = "array" -> [t |-> "array", v |-> [i \in DOMAIN d.v |-> jlParseYamlNode(d.v[i])]]
      [] d.t = "object" ->
            [t |-> "object",
             v |-> FoldLeft(LAMBDA m, kv : [k \in DOMAIN m \cup {kv[1]} |-> IF k = kv[1] THEN jlParseYamlNode(kv[2]) ELSE m[k]],
                            << >>, d.v)]
      [] jlTooLarge(d) -> [t |-> "double", v |-> d.v]
      [] OTHER -> d

\* buildRapidJsonDocument(): the value of a field, from its fields.
RECURSIVE jlBuild(_, _)
jlBuild(fields, ref) ==
    LET f == fields[ref]
    IN IF f.t \in {"array", "object"} THEN [t |-> f.t, v |-> [k \in DOMAIN f.v |-> jlBuild(fields, f.v[k])]] ELSE f

\* The get... functions, with and without a default: a member that is missing,
\* one that has another type, and a field that is no object are refused.
jlGet(fields, ref, name, type, default) ==
    IF fields[ref].t # "object" THEN "throws"
    ELSE LET members == fields[ref].v
         IN IF name \notin DOMAIN members THEN IF default THEN "default" ELSE "throws"
            ELSE LET member == fields[members[name]]
                 IN IF \/ member.t # (IF type = "strings" THEN "array" ELSE type)
                       \/ type = "strings" /\ \E i \in DOMAIN member.v : fields[member.v[i]].t # "string"
                    THEN "throws" ELSE <<jlBuild(fields, members[name])>>

jlHasObject(fields, ref, name) == name \in DOMAIN fields[ref].v
jlEmpty(fields, ref) == fields[ref].v = << >>

(***************************************************************************)
(* Properties                                                              *)
(***************************************************************************)
JlTypes == {"array", "strings", "object", "boolean", "integer", "double", "string"}
jlIsContainer(d) == d.t \in {"array", "object"}
RECURSIVE jlScalars(_)
jlScalars(d) ==
    CASE d.t = "array" -> UNION {jlScalars(d.v[i]) : i \in DOMAIN d.v}
      [] d.t = "object" -> UNION {jlScalars(d.v[i][2]) : i \in DOMAIN d.v}
      [] OTHER -> {d}
jlLoadable(d) == jlIsContainer(d) /\ \A s \in jlScalars(d) : ~jlTooLarge(s)

\* What a get... function should find: the last member of the name in the text.
jlMembers(d, name) == SelectSeq(d.v, LAMBDA kv : kv[1] = name)
jlExpected(d, name, type, default) ==
    LET members == IF d.t = "object" THEN jlMembers(d, name) ELSE << >>
        fits(v) == IF type = "strings" THEN v.t = "array" /\ \A i \in DOMAIN v.v : v.v[i].t = "string" ELSE v.t = type
    IN IF d.t # "object" THEN "throws"
       ELSE IF members = << >> THEN IF default THEN "default" ELSE "throws"
       ELSE IF fits(Last(members)[2]) THEN <<jlParseYamlNode(Last(members)[2])>> ELSE "throws"

\* A document is loaded exactly when its root is a container and an int64_t
\* holds its integers, whatever is nested in whatever: no event finds the
\* handler in a state it does not expect, every container is closed at the end,
\* the fields are those the same text has as YAML, and a reader of a member
\* finds the last of its name or is refused, for every type it may ask for.
JlSound ==
    /\ jl.result # "NOT_REACHED" /\ jl.state \in JlStates
    /\ jl.result = "refused" => ~jlLoadable(jl.document)
    /\ jl.result = "loaded" =>
        /\ jlLoadable(jl.document) /\ jl.state = "Finished" /\ jl.stack = << >>
        /\ jlBuild(jl.fields, 1) = jlParseYamlNode(jl.document)
        /\ jlEmpty(jl.fields, 1) = (jl.document.v = << >>)
        /\ \A name \in JlKeys :
            /\ jl.document.t = "object" => jlHasObject(jl.fields, 1, name) = (jlMembers(jl.document, name) # << >>)
            /\ \A type \in JlTypes, default \in BOOLEAN :
                jlGet(jl.fields, 1, name, type, default) = jlExpected(jl.document, name, type, default)

\* Departure: validateSchema() builds a document again from whatever was loaded,
\* and NOT_REACHED is what it says of a field that is no container; the YAML
\* loader lets such a root through, an empty file among them.
JlSchemaAnswers == jlIsContainer(jlParseYamlNode(jl.document))

-----------------------------------------------------------------------------
(* Version 1 configuration: every JSON object is checked against a schema  *)
(* (common/json/config_schemas.cc) and then translated key by key          *)
(* (common/config/*_json.cc, or the filter's own constructor) through the  *)
(* accessors of common/json/json_loader.cc.  Schemas and translators are   *)
(* separate texts about the same keys.                                     *)
(*                                                                         *)
(* Types of a key in a schema: string, int, bool, object, strings (an      *)
(* array of strings), objects (an array of objects) and array (items not   *)
(* looked at).  A translator also reads validated: an array each item of   *)
(* which it validates against a schema of its own before anything else.    *)

VARIABLE ct

\* A schema: required keys, and the keys of each type; FALSE for closed leaves
\* other keys unrefused (no additionalProperties, or properties put on an array).
ctKeys(byType) == UNION {{<<k, t>> : k \in byType[t]} : t \in DOMAIN byType}
ctSchema(required, byType) == [closed |-> TRUE, required |-> required, has |-> ctKeys(byType)]
ctOpen(byType) == [closed |-> FALSE, required |-> {}, has |-> ctKeys(byType)]

\* A translator: keys read without a default, and all keys read.
ctReads(must, byType) == [must |-> must, reads |-> ctKeys(byType)]
CtNone == [string |-> {}]

(***************************************************************************)
(* Schemas                                                                 *)
(***************************************************************************)
CtTlsKeys == [string |-> {"cert_chain_file", "private_key_file", "alpn_protocols", "ca_cert_file",
                          "verify_certificate_hash", "cipher_suites", "ecdh_curves"},
              strings |-> {"verify_subject_alt_name"}]

CtListenerSchema ==
    [listener |-> ctSchema({"address", "filters"},
        [string |-> {"name", "address"}, objects |-> {"filters"}, object |-> {"ssl_context"},
         bool |-> {"bind_to_port", "use_proxy_proto", "use_original_dst"},
         int |-> {"per_connection_buffer_limit_bytes"}]),
     listener_ssl |-> ctSchema({"cert_chain_file", "private_key_file"},
        [string |-> CtTlsKeys.string \cup {"alt_alpn_protocols"}, bool |-> {"require_client_certificate"},
         strings |-> CtTlsKeys.strings \cup {"session_ticket_key_paths"}]),
     network_filter |-> ctSchema({"name", "config"}, [string |-> {"type", "name"}, object |-> {"config"}])]

CtClientSslSchema ==
    [client_ssl |-> ctSchema({"auth_api_cluster", "stat_prefix"},
        [string |-> {"auth_api_cluster", "stat_prefix"}, strings |-> {"ip_white_list"},
         int |-> {"refresh_delay_ms"}])]

CtRdsSchema ==
    [rds |-> ctSchema({"cluster", "route_config_name"},
        [string |-> {"cluster", "route_config_name", "api_type"}, int |-> {"refresh_delay_ms"}])]

CtAccessLogFilterSchema ==
    [comparison_filter |-> ctSchema({"type", "op", "value"}, [string |-> {"type", "op", "runtime_key"}, int |-> {"value"}]),
     empty_filter |-> ctSchema({"type"}, [string |-> {"type"}]),
     runtime_filter |-> ctSchema({"type", "key"}, [string |-> {"type", "key"}]),
     logical_filter |-> ctSchema({"type", "filters"}, [string |-> {"type"}, objects |-> {"filters"}])]

CtHttpConnSchema ==
    [http_conn |-> ctSchema({"codec_type", "stat_prefix", "filters"},
        [string |-> {"codec_type", "stat_prefix", "server_name", "forward_client_cert"},
         object |-> {"rds", "route_config", "tracing", "http1_settings", "http2_settings"},
         array |-> {"filters"}, objects |-> {"access_log"},
         strings |-> {"set_current_client_cert_details"},
         bool |-> {"add_user_agent", "use_remote_address", "generate_request_id"},
         int |-> {"idle_timeout_s", "drain_timeout_ms"}]),
     access_log |-> ctSchema({"path"}, [string |-> {"path", "format"}, object |-> {"filter"}]),
     tracing |-> ctSchema({"operation_name"},
        [string |-> {"operation_name"}, strings |-> {"request_headers_for_tags"}]),
     http_filter |-> ctOpen(CtNone),
     http1_settings |-> ctOpen([bool |-> {"allow_absolute_url", "allow_connect"}]),
     http2_settings |-> ctOpen([int |-> {"hpack_table_size", "max_concurrent_streams",
        "initial_stream_window_size", "initial_connection_window_size"}])]

CtNetworkFilterSchemas ==
    [mongo |-> ctSchema({"stat_prefix"}, [string |-> {"stat_prefix", "access_log"}, object |-> {"fault"}]),
     mongo_delay |-> ctSchema({"percent", "duration_ms"}, [int |-> {"percent", "duration_ms"}]),
     net_ratelimit |-> ctSchema({"stat_prefix", "descriptors", "domain"},
        [string |-> {"stat_prefix", "domain"}, objects |-> {"descriptors"}, int |-> {"timeout_ms"}]),
     redis |-> ctSchema({"cluster_name", "stat_prefix", "conn_pool"},
        [string |-> {"cluster_name", "stat_prefix"}, object |-> {"conn_pool"}]),
     redis_pool |-> ctSchema({"op_timeout_ms"}, [int |-> {"op_timeout_ms"}])]

CtTcpProxySchema ==
    [tcp_proxy |-> ctSchema({"stat_prefix", "route_config"}, [string |-> {"stat_prefix"}, object |-> {"route_config"}]),
     tcp_routes |-> ctSchema({}, [objects |-> {"routes"}]),
     tcp_route |-> ctSchema({"cluster"},
        [string |-> {"cluster", "source_ports", "destination_ports"},
         strings |-> {"source_ip_list", "destination_ip_list"}])]

CtHeaderValue == ctSchema({"key", "value"}, [string |-> {"key", "value"}])

CtRouteConfigSchema ==
    [route_config |-> ctSchema({"virtual_hosts"},
        [bool |-> {"validate_clusters"}, array |-> {"virtual_hosts"},
         strings |-> {"internal_only_headers", "response_headers_to_remove"},
         objects |-> {"response_headers_to_add", "request_headers_to_add"}]),
     header_value |-> CtHeaderValue]

CtCorsKeys == [strings |-> {"allow_origin"}, bool |-> {"allow_credentials"},
               string |-> {"allow_methods", "allow_headers", "expose_headers", "max_age"}]

CtVirtualHostSchema ==
    [virtual_host |-> ctSchema({"name", "domains", "routes"},
        [string |-> {"name", "require_ssl"}, strings |-> {"domains"}, object |-> {"cors"},
         array |-> {"routes", "rate_limits", "virtual_clusters"}, objects |-> {"request_headers_to_add"}]),
     virtual_cluster |-> ctOpen(CtNone),
     vh_cors |-> ctSchema({}, CtCorsKeys)]

CtRouteSchema ==
    [route |-> ctSchema({},
        [string |-> {"prefix", "path", "regex", "cluster", "cluster_header", "host_redirect",
                     "path_redirect", "prefix_rewrite", "host_rewrite", "priority"},
         bool |-> {"auto_host_rewrite", "use_websocket", "case_sensitive", "include_vh_rate_limits"},
         int |-> {"timeout_ms"}, array |-> {"rate_limits"},
         objects |-> {"headers", "request_headers_to_add"},
         object |-> {"weighted_clusters", "runtime", "retry_policy", "shadow", "hash_policy",
                     "opaque_config", "decorator", "cors"}]),
     weighted_clusters |-> ctSchema({}, [objects |-> {"clusters"}, string |-> {"runtime_key_prefix"}]),
     weighted_cluster |-> ctSchema({"name", "weight"}, [string |-> {"name"}, int |-> {"weight"}]),
     runtime_uint32 |-> ctSchema({"key", "default"}, [string |-> {"key"}, int |-> {"default"}]),
     retry_policy |-> ctSchema({"retry_on"}, [int |-> {"per_try_timeout_ms", "num_retries"}, string |-> {"retry_on"}]),
     shadow |-> ctSchema({"cluster"}, [string |-> {"cluster", "runtime_key"}]),
     hash_policy |-> ctSchema({"header_name"}, [string |-> {"header_name"}]),
     decorator |-> ctSchema({"operation"}, [string |-> {"operation"}]),
     route_cors |-> ctSchema({}, [CtCorsKeys EXCEPT !.bool = @ \cup {"enabled"}])]

CtHeaderDataSchema ==
    [header_matcher |-> ctSchema({"name"}, [string |-> {"name", "value"}, bool |-> {"regex"}])]

\* header_value_match has its required and additionalProperties inside properties.
CtRateLimitSchema ==
    [rate_limit |-> ctSchema({"actions"}, [int |-> {"stage"}, string |-> {"disable_key"}, objects |-> {"actions"}]),
     empty_action |-> ctSchema({"type"}, [string |-> {"type"}]),
     request_headers |-> ctSchema({"type", "header_name", "descriptor_key"},
        [string |-> {"type", "header_name", "descriptor_key"}]),
     generic_key |-> ctSchema({"type", "descriptor_value"}, [string |-> {"type", "descriptor_value"}]),
     header_value_match |-> ctOpen(
        [string |-> {"type", "descriptor_value"}, bool |-> {"expect_match"}, objects |-> {"headers"}])]

CtFaultSchema ==
    [fault |-> ctSchema({}, [object |-> {"abort", "delay"}, string |-> {"upstream_cluster"},
                             strings |-> {"downstream_nodes"}, objects |-> {"headers"}]),
     fault_abort |-> ctSchema({"abort_percent", "http_status"}, [int |-> {"abort_percent", "http_status"}]),
     fault_delay |-> ctSchema({"type", "fixed_delay_percent", "fixed_duration_ms"},
        [string |-> {"type"}, int |-> {"fixed_delay_percent", "fixed_duration_ms"}])]

CtHttpFilterSchemas ==
    [buffer |-> ctSchema({"max_request_bytes", "max_request_time_s"}, [int |-> {"max_request_bytes", "max_request_time_s"}]),
     transcoder |-> ctSchema({"proto_descriptor", "services"},
        [string |-> {"proto_descriptor"}, strings |-> {"services"}, object |-> {"print_options"}]),
     print_options |-> ctSchema({}, [bool |-> {"add_whitespace", "always_print_primitive_fields",
        "always_print_enums_as_ints", "preserve_proto_field_names"}]),
     ip_tagging |-> ctSchema({}, [string |-> {"request_type"}, objects |-> {"ip_tags"}]),
     health_check_filter |-> ctSchema({"pass_through_mode", "endpoint"},
        [bool |-> {"pass_through_mode"}, string |-> {"endpoint"}, int |-> {"cache_time_ms"}]),
     http_ratelimit |-> ctSchema({"domain"}, [string |-> {"domain", "request_type"}, int |-> {"stage", "timeout_ms"}]),
     router |-> ctSchema({}, [bool |-> {"dynamic_stats", "start_child_span"}])]

CtClusterManagerSchema ==
    [cluster_manager |-> ctSchema({"clusters"},
        [objects |-> {"clusters"}, object |-> {"sds", "cds", "outlier_detection"}, string |-> {"local_cluster_name"}]),
     sds_config |-> ctSchema({"cluster", "refresh_delay_ms"}, [object |-> {"cluster"}, int |-> {"refresh_delay_ms"}]),
     cds_config |-> ctSchema({"cluster"}, [object |-> {"cluster"}, int |-> {"refresh_delay_ms"}]),
     outlier_log |-> ctSchema({}, [string |-> {"event_log_path"}])]

CtLdsSchema ==
    [lds |-> ctSchema({"listeners"}, [objects |-> {"listeners"}]),
     lds_config |-> ctSchema({"cluster"}, [string |-> {"cluster"}, int |-> {"refresh_delay_ms"}])]

CtWatchdogKeys == {"watchdog_miss_timeout_ms", "watchdog_megamiss_timeout_ms",
                   "watchdog_kill_timeout_ms", "watchdog_multikill_timeout_ms"}

CtTopLevelSchema ==
    [top |-> ctSchema({"listeners", "admin", "cluster_manager"},
        [objects |-> {"listeners"}, object |-> {"lds", "admin", "cluster_manager", "tracing", "rate_limit_service", "runtime"},
         string |-> {"flags_path", "statsd_udp_ip_address", "statsd_tcp_cluster_name"},
         int |-> CtWatchdogKeys \cup {"stats_flush_interval_ms"}]),
     driver |-> ctSchema({"type", "config"}, [string |-> {"type"}, object |-> {"config"}]),
     rate_limit_service |-> ctSchema({"type", "config"}, [string |-> {"type"}, object |-> {"config"}]),
     admin |-> ctSchema({"access_log_path", "address"}, [string |-> {"access_log_path", "profile_path", "address"}]),
     runtime |-> ctSchema({"symlink_root", "subdirectory"}, [string |-> {"symlink_root", "subdirectory", "override_subdirectory"}])]

CtHealthCheckSchema ==
    [health_check |-> ctSchema({"type", "timeout_ms", "interval_ms", "unhealthy_threshold", "healthy_threshold"},
        [string |-> {"type", "path", "service_name"}, objects |-> {"send", "receive"},
         int |-> {"timeout_ms", "interval_ms", "unhealthy_threshold", "healthy_threshold", "interval_jitter_ms"}]),
     health_check_bytes |-> ctSchema({}, [string |-> {"binary"}])]

CtThresholdKeys == [int |-> {"max_connections", "max_pending_requests", "max_requests", "max_retries"}]

CtOutlierKeys == [int |-> {"consecutive_5xx", "success_rate_minimum_hosts", "success_rate_request_volume",
    "success_rate_stdev_factor", "interval_ms", "base_ejection_time_ms", "max_ejection_percent",
    "enforcing_consecutive_5xx", "enforcing_success_rate"}]

CtClusterSchema ==
    [cluster |-> ctSchema({"name", "type", "connect_timeout_ms", "lb_type"},
        [string |-> {"name", "type", "lb_type", "service_name", "features", "dns_lookup_family"},
         int |-> {"connect_timeout_ms", "per_connection_buffer_limit_bytes", "max_requests_per_connection",
                  "dns_refresh_rate_ms", "cleanup_interval_ms"},
         object |-> {"health_check", "circuit_breakers", "ssl_context", "http2_settings", "outlier_detection"},
         objects |-> {"hosts"}, strings |-> {"dns_resolvers"}]),
     breakers |-> ctSchema({}, [object |-> {"default", "high"}]),
     thresholds |-> ctSchema({}, CtThresholdKeys),
     cluster_ssl |-> ctSchema({}, [CtTlsKeys EXCEPT !.string = @ \cup {"sni"}]),
     outlier_detection |-> ctSchema({}, CtOutlierKeys)]

CtDiscoverySchemas ==
    [cds |-> ctSchema({"clusters"}, [objects |-> {"clusters"}]),
     sds |-> [ctOpen([objects |-> {"hosts"}]) EXCEPT !.required = {"hosts"}],
     sds_host |-> [ctOpen([string |-> {"ip_address"}, int |-> {"port"}, object |-> {"tags"}])
                      EXCEPT !.required = {"ip_address", "port"}],
     sds_tags |-> ctOpen([string |-> {"az"}, bool |-> {"canary"}, int |-> {"load_balancing_weight"}])]

(***************************************************************************)
(* Translators                                                             *)
(***************************************************************************)
CtListenerReads ==
    [listener |-> ctReads({"address"},
        [string |-> {"name", "address"}, objects |-> {"filters"}, object |-> {"ssl_context"},
         bool |-> {"use_proxy_proto", "use_original_dst", "bind_to_port"},
         int |-> {"per_connection_buffer_limit_bytes"}]),
     network_filter |-> ctReads({"name", "config"}, [string |-> {"name", "type"}, object |-> {"config"}])]

CtTlsReads ==
    [listener_ssl |-> ctReads({},
        [string |-> CtTlsKeys.string \cup {"alt_alpn_protocols"}, bool |-> {"require_client_certificate"},
         strings |-> CtTlsKeys.strings \cup {"session_ticket_key_paths"}]),
     cluster_ssl |-> ctReads({},
        [string |-> CtTlsKeys.string \cup {"alt_alpn_protocols", "sni"}, strings |-> CtTlsKeys.strings])]

CtAccessLogReads ==
    [comparison_filter |-> ctReads({"type", "op", "value"}, [string |-> {"type", "op", "runtime_key"}, int |-> {"value"}]),
     empty_filter |-> ctReads({"type"}, [string |-> {"type"}]),
     runtime_filter |-> ctReads({"type", "key"}, [string |-> {"type", "key"}]),
     logical_filter |-> ctReads({"type", "filters"}, [string |-> {"type"}, objects |-> {"filters"}]),
     access_log |-> ctReads({}, [string |-> {"path", "format"}, object |-> {"filter"}])]

CtHttpConnReads ==
    [http_conn |-> ctReads({"codec_type"},
        [string |-> {"codec_type", "stat_prefix", "server_name", "forward_client_cert"},
         object |-> {"rds", "route_config", "tracing", "http1_settings", "http2_settings"},
         objects |-> {"filters", "access_log"}, strings |-> {"set_current_client_cert_details"},
         bool |-> {"add_user_agent", "use_remote_address", "generate_request_id"},
         int |-> {"idle_timeout_s", "drain_timeout_ms"}]),
     tracing |-> ctReads({"operation_name"},
        [string |-> {"operation_name"}, strings |-> {"request_headers_for_tags"}]),
     http_filter |-> ctReads({"name", "config"}, [string |-> {"name", "type"}, object |-> {"config"}])]

\* Mutant: the window of a connection is forgotten.
CtProtocolReadsShort ==
    [http1_settings |-> ctReads({}, [bool |-> {"allow_absolute_url"}]),
     http2_settings |-> ctReads({}, [int |-> {"hpack_table_size", "max_concurrent_streams", "initial_stream_window_size"}])]

CtProtocolReads ==
    [http1_settings |-> ctReads({}, [bool |-> {"allow_absolute_url"}]),
     http2_settings |-> ctReads({}, [int |-> {"hpack_table_size", "max_concurrent_streams",
        "initial_stream_window_size", "initial_connection_window_size"}])]

CtMongoFaultReads ==
    [mongo |-> ctReads({}, [string |-> {"stat_prefix", "access_log"}, object |-> {"fault"}]),
     mongo_delay |-> ctReads({"percent"}, [int |-> {"percent", "duration_ms"}]),
     fault |-> ctReads({}, [object |-> {"abort", "delay"}, string |-> {"upstream_cluster"},
                            strings |-> {"downstream_nodes"}, validated |-> {"headers"}]),
     fault_abort |-> ctReads({"abort_percent", "http_status"}, [int |-> {"abort_percent", "http_status"}]),
     fault_delay |-> ctReads({"fixed_delay_percent"}, [int |-> {"fixed_delay_percent", "fixed_duration_ms"}])]

\* The constructors of filters that read their configuration themselves.
CtClientSslReads ==
    [client_ssl |-> ctReads({"auth_api_cluster", "stat_prefix"},
        [string |-> {"auth_api_cluster", "stat_prefix"}, strings |-> {"ip_white_list"}, int |-> {"refresh_delay_ms"}])]
CtNetRateLimitReads ==
    [net_ratelimit |-> ctReads({"domain", "stat_prefix", "descriptors"},
        [string |-> {"domain", "stat_prefix"}, objects |-> {"descriptors"}, int |-> {"timeout_ms"}])]
CtTcpProxyReads ==
    [tcp_proxy |-> ctReads({"stat_prefix", "route_config"}, [string |-> {"stat_prefix"}, object |-> {"route_config"}]),
     tcp_routes |-> ctReads({"routes"}, [objects |-> {"routes"}]),
     tcp_route |-> ctReads({"cluster"},
        [string |-> {"cluster", "source_ports", "destination_ports"},
         strings |-> {"source_ip_list", "destination_ip_list"}])]
CtRedisReads ==
    [redis |-> ctReads({"cluster_name", "stat_prefix", "conn_pool"},
        [string |-> {"cluster_name", "stat_prefix"}, object |-> {"conn_pool"}]),
     redis_pool |-> ctReads({"op_timeout_ms"}, [int |-> {"op_timeout_ms"}])]
\* Mutant: a duration is read in another unit than the schema's.
CtBufferReadsMillis ==
    [buffer |-> ctReads({"max_request_bytes", "max_request_time_ms"}, [int |-> {"max_request_bytes", "max_request_time_ms"}])]

CtBufferReads ==
    [buffer |-> ctReads({"max_request_bytes", "max_request_time_s"}, [int |-> {"max_request_bytes", "max_request_time_s"}])]
CtTranscoderReads ==
    [transcoder |-> ctReads({"proto_descriptor", "services"},
        [string |-> {"proto_descriptor"}, strings |-> {"services"}, object |-> {"print_options"}]),
     print_options |-> ctReads({}, [bool |-> {"add_whitespace", "always_print_primitive_fields",
        "always_print_enums_as_ints", "preserve_proto_field_names"}])]
CtIpTaggingReads == [ip_tagging |-> ctReads({}, [string |-> {"request_type"}])]
CtHealthCheckFilterReads ==
    [health_check_filter |-> ctReads({"pass_through_mode", "endpoint"},
        [bool |-> {"pass_through_mode"}, string |-> {"endpoint"}, int |-> {"cache_time_ms"}])]
CtHttpRateLimitReads ==
    [http_ratelimit |-> ctReads({"domain"}, [string |-> {"domain", "request_type"}, int |-> {"stage", "timeout_ms"}])]
CtRouterReads == [router |-> ctReads({}, [bool |-> {"dynamic_stats", "start_child_span"}])]

CtRouteConfigReads ==
    [route_config |-> ctReads({},
        [bool |-> {"validate_clusters"}, validated |-> {"virtual_hosts"},
         strings |-> {"internal_only_headers", "response_headers_to_remove"},
         objects |-> {"response_headers_to_add", "request_headers_to_add"}]),
     header_value |-> ctReads({"key", "value"}, [string |-> {"key", "value"}])]

CtCorsReads == ctReads({}, [CtCorsKeys EXCEPT !.bool = @ \cup {"enabled"}])

CtVirtualHostReads ==
    [virtual_host |-> ctReads({},
        [string |-> {"name", "require_ssl"}, strings |-> {"domains"}, object |-> {"cors"},
         validated |-> {"routes", "rate_limits"}, objects |-> {"virtual_clusters", "request_headers_to_add"}]),
     virtual_cluster |-> ctReads({}, [string |-> {"name", "pattern", "method"}]),
     vh_cors |-> CtCorsReads, route_cors |-> CtCorsReads]

\* translateRoute: what is read of any route, of a redirect and of a cluster route.
CtTargets == {"cluster", "cluster_header", "weighted_clusters"}
CtRedirects == {"host_redirect", "path_redirect"}

CtRouteReads(keys) ==
    LET any == [string |-> {"prefix", "path", "regex"}, bool |-> {"case_sensitive"}, validated |-> {"headers"},
                object |-> {"runtime", "opaque_config", "decorator"}]
        redirect == [string |-> CtRedirects, bool |-> {"use_websocket"}]
        target == [string |-> {"cluster", "cluster_header", "prefix_rewrite", "host_rewrite", "priority"},
                   bool |-> {"auto_host_rewrite", "use_websocket", "include_vh_rate_limits"}, int |-> {"timeout_ms"},
                   object |-> {"weighted_clusters", "retry_policy", "shadow", "hash_policy", "cors"},
                   objects |-> {"request_headers_to_add"}, validated |-> {"rate_limits"}]
    IN [must |-> {}, reads |-> ctKeys(any) \cup (IF keys \cap CtRedirects # {} THEN ctKeys(redirect) ELSE {})
                                           \cup (IF keys \cap CtTargets # {} THEN ctKeys(target) ELSE {})]

CtRoutePartReads ==
    [weighted_clusters |-> ctReads({"clusters"}, [objects |-> {"clusters"}, string |-> {"runtime_key_prefix"}]),
     weighted_cluster |-> ctReads({}, [string |-> {"name"}, int |-> {"weight"}]),
     runtime_uint32 |-> ctReads({"key", "default"}, [string |-> {"key"}, int |-> {"default"}]),
     retry_policy |-> ctReads({}, [int |-> {"per_try_timeout_ms", "num_retries"}, string |-> {"retry_on"}]),
     shadow |-> ctReads({}, [string |-> {"cluster", "runtime_key"}]),
     hash_policy |-> ctReads({"header_name"}, [string |-> {"header_name"}]),
     decorator |-> ctReads({}, [string |-> {"operation"}])]

CtHeaderMatcherReads == [header_matcher |-> ctReads({}, [string |-> {"name", "value"}, bool |-> {"regex"}])]

CtRateLimitReads ==
    [rate_limit |-> ctReads({"actions"}, [int |-> {"stage"}, string |-> {"disable_key"}, objects |-> {"actions"}]),
     empty_action |-> ctReads({"type"}, [string |-> {"type"}]),
     request_headers |-> ctReads({"type"}, [string |-> {"type", "header_name", "descriptor_key"}]),
     generic_key |-> ctReads({"type"}, [string |-> {"type", "descriptor_value"}]),
     header_value_match |-> ctReads({"type", "headers"},
        [string |-> {"type", "descriptor_value"}, bool |-> {"expect_match"}, validated |-> {"headers"}])]

CtClusterManagerReads ==
    [cluster_manager |-> ctReads({"clusters"},
        [objects |-> {"clusters"}, object |-> {"sds", "cds", "outlier_detection"}, string |-> {"local_cluster_name"}]),
     outlier_log |-> ctReads({}, [string |-> {"event_log_path"}])]

\* translateEdsConfig, translateCdsConfig, translateRdsConfig, translateLdsConfig.
CtApiConfigReads ==
    [sds_config |-> ctReads({"cluster"}, [object |-> {"cluster"}, int |-> {"refresh_delay_ms"}, string |-> {"api_type"}]),
     cds_config |-> ctReads({"cluster"}, [object |-> {"cluster"}, int |-> {"refresh_delay_ms"}, string |-> {"api_type"}]),
     rds |-> ctReads({"cluster"}, [string |-> {"cluster", "route_config_name", "api_type"}, int |-> {"refresh_delay_ms"}]),
     lds_config |-> ctReads({"cluster"}, [string |-> {"cluster", "api_type"}, int |-> {"refresh_delay_ms"}])]

\* JSON_UTIL_SET_DURATION(json, message, f) reads the key f_ms.
CtBootstrapReads ==
    [top |-> ctReads({"listeners", "admin", "cluster_manager"},
        [objects |-> {"listeners"}, object |-> {"lds", "admin", "cluster_manager", "tracing", "rate_limit_service", "runtime"},
         string |-> {"flags_path", "statsd_udp_ip_address", "statsd_tcp_cluster_name"},
         int |-> {"stats_flush_interval_ms", "miss_timeout_ms", "megamiss_timeout_ms", "kill_timeout_ms", "multikill_timeout_ms"}]),
     driver |-> ctReads({"type", "config"}, [string |-> {"type"}, object |-> {"config"}]),
     rate_limit_service |-> ctReads({"type", "config"}, [string |-> {"type"}, object |-> {"config"}]),
     admin |-> ctReads({"address"}, [string |-> {"access_log_path", "profile_path", "address"}]),
     runtime |-> ctReads({}, [string |-> {"symlink_root", "subdirectory", "override_subdirectory"}])]

CtHealthCheckReads(tag) ==
    LET any == [int |-> {"timeout_ms", "interval_ms", "interval_jitter_ms", "unhealthy_threshold", "healthy_threshold"},
                string |-> {"type"}]
    IN CASE tag = "http" -> ctReads({"type", "path"}, [any EXCEPT !.string = @ \cup {"path", "service_name"}])
         [] tag = "tcp" -> [must |-> {"type", "send", "receive"}, reads |-> ctKeys(any) \cup ctKeys([objects |-> {"send", "receive"}])]
         [] OTHER -> ctReads({"type"}, any)

CtClusterPartReads ==
    [health_check_bytes |-> ctReads({"binary"}, [string |-> {"binary"}]),
     breakers |-> ctReads({}, [object |-> {"default", "high"}]),
     thresholds |-> ctReads({}, CtThresholdKeys),
     outlier_detection |-> ctReads({}, CtOutlierKeys)]

CtClusterReads(tag) ==
    LET any == [string |-> {"name", "type", "lb_type", "features", "dns_lookup_family"},
                int |-> {"cleanup_interval_ms", "connect_timeout_ms", "per_connection_buffer_limit_bytes",
                         "max_requests_per_connection", "dns_refresh_rate_ms"},
                object |-> {"health_check", "circuit_breakers", "ssl_context", "http2_settings", "outlier_detection"},
                strings |-> {"dns_resolvers"}]
        of == CASE tag \in {"static", "strict_dns", "logical_dns", "original_dst"} -> [objects |-> {"hosts"}]
                [] OTHER -> [string |-> {"service_name"}]
    IN [must |-> {"name", "type", "lb_type"} \cup (IF tag \in {"static", "strict_dns", "logical_dns"} THEN {"hosts"} ELSE {}),
        reads |-> ctKeys(any) \cup ctKeys(of)]

CtDiscoveryReads ==
    [cds |-> ctReads({"clusters"}, [objects |-> {"clusters"}]),
     lds |-> ctReads({"listeners"}, [objects |-> {"listeners"}])]
CtSdsReads ==
    [sds |-> ctReads({"hosts"}, [objects |-> {"hosts"}]),
     sds_host |-> ctReads({"ip_address", "port"}, [string |-> {"ip_address"}, int |-> {"port"}, object |-> {"tags"}]),
     sds_tags |-> ctReads({}, [string |-> {"az"}, bool |-> {"canary"}, int |-> {"load_balancing_weight"}])]

(***************************************************************************)
(* Loading an object                                                       *)
(***************************************************************************)
ctJoin(tables) ==
    [kind \in UNION {DOMAIN t : t \in tables} |-> (CHOOSE t \in tables : kind \in DOMAIN t)[kind]]

CtSchemas == ctJoin({CtListenerSchema, CtClientSslSchema, CtRdsSchema, CtAccessLogFilterSchema, CtHttpConnSchema,
    CtNetworkFilterSchemas, CtTcpProxySchema, CtRouteConfigSchema, CtVirtualHostSchema, CtRouteSchema,
    CtHeaderDataSchema, CtRateLimitSchema, CtFaultSchema, CtHttpFilterSchemas, CtClusterManagerSchema, CtLdsSchema,
    CtTopLevelSchema, CtHealthCheckSchema, CtClusterSchema, CtDiscoverySchemas})

CtFixedReads == ctJoin({CtListenerReads, CtTlsReads, CtAccessLogReads, CtHttpConnReads, CtProtocolReads,
    CtMongoFaultReads, CtClientSslReads, CtNetRateLimitReads, CtTcpProxyReads, CtRedisReads, CtBufferReads,
    CtTranscoderReads, CtIpTaggingReads, CtHealthCheckFilterReads, CtHttpRateLimitReads, CtRouterReads,
    CtRouteConfigReads, CtVirtualHostReads, CtRoutePartReads, CtHeaderMatcherReads, CtRateLimitReads,
    CtClusterManagerReads, CtApiConfigReads, CtBootstrapReads, CtClusterPartReads, CtDiscoveryReads, CtSdsReads})

\* The values of the key that decides what else is read.
CtTags(kind) ==
    CASE kind = "cluster" -> {"static", "strict_dns", "logical_dns", "sds", "original_dst"}
      [] kind = "health_check" -> {"http", "redis", "tcp"}
      [] kind = "health_check_filter" -> {"passes through", "answers"}
      [] OTHER -> {"-"}

CtReader(kind, tag, keys) ==
    CASE kind = "cluster" -> CtClusterReads(tag)
      [] kind = "health_check" -> CtHealthCheckReads(tag)
      [] kind = "route" -> CtRouteReads(keys)
      [] OTHER -> CtFixedReads[kind]

ctNames(pairs) == {p[1] : p \in pairs}
ctType(pairs, k) == (CHOOSE p \in pairs : p[1] = k)[2]

\* Mutant: required keys are not asked for.
ctAcceptsPartial(kind, keys) == CtSchemas[kind].closed => keys \subseteq ctNames(CtSchemas[kind].has)

\* Field::validateSchema.
ctAccepts(kind, keys) ==
    LET s == CtSchemas[kind] IN
    s.required \subseteq keys /\ (s.closed => keys \subseteq ctNames(s.has))

\* What an accessor makes of a value: given is the type the schema let through,
\* scalar that an array it did not look into has an item that is no object.
\* buildRapidJsonDocument has no case for a scalar.
ctGet(given, wanted, scalar) ==
    CASE given = wanted \/ (given = "objects" /\ wanted = "validated") -> "ok"
      [] given = "array" /\ wanted \in {"objects", "validated"} /\ ~scalar -> "ok"
      [] given = "array" /\ wanted = "validated" /\ scalar -> "aborts"
      [] OTHER -> "throws"

\* The translators' own conditions.
ctThrows(kind, tag, keys) ==
    \/ kind = "http_conn" /\ {"rds", "route_config"} \subseteq keys
    \/ kind = "cluster" /\ tag = "original_dst" /\ "hosts" \in keys
    \/ kind = "health_check_filter" /\ tag = "answers" /\ "cache_time_ms" \in keys
    \/ /\ kind = "route"
       /\ \/ Cardinality(keys \cap {"prefix", "path", "regex"}) # 1
          \/ keys \cap CtRedirects # {} /\ "use_websocket" \in keys
          \/ keys \cap CtRedirects # {} /\ keys \cap CtTargets # {}
          \/ Cardinality(keys \cap CtTargets) > 1
          \/ keys \cap CtTargets # {} /\ {"host_rewrite", "auto_host_rewrite"} \subseteq keys

ctTranslate(kind, tag, keys, scalar) ==
    LET r == CtReader(kind, tag, keys)
        has == CtSchemas[kind].has
        given(k) == IF k \in ctNames(has) THEN ctType(has, k) ELSE ctType(r.reads, k)
        got == {ctGet(given(k), ctType(r.reads, k), scalar) : k \in keys \cap ctNames(r.reads)}
    IN IF ~(r.must \subseteq keys) \/ "throws" \in got \/ ctThrows(kind, tag, keys) THEN "threw"
       ELSE IF "aborts" \in got THEN "aborted" ELSE "translated"

CtInit == ct = [at |-> "none"]

\* An object is written: the keys required (perhaps one missing) and up to two
\* others; arrays the schema does not look into may hold anything.
CtWrite(kind) ==
    LET s == CtSchemas[kind]
        others == (ctNames(s.has) \cup {"unknown"}) \ s.required
    IN /\ ct.at = "none"
       /\ \E tag \in CtTags(kind), missing \in {{}} \cup {{k} : k \in s.required},
             extra \in {{}} \cup {{a, b} : a, b \in others},
             scalar \in {FALSE} \cup {t = "array" : t \in {p[2] : p \in s.has}} :
          ct' = [at |-> "written", kind |-> kind, tag |-> tag, keys |-> (s.required \ missing) \cup extra, scalar |-> scalar]

CtLoad ==
    /\ ct.at = "written"
    /\ ct' = [ct EXCEPT !.at = IF ctAccepts(ct.kind, ct.keys)
                               THEN ctTranslate(ct.kind, ct.tag, ct.keys, ct.scalar) ELSE "refused"]

CtNext == (\E kind \in DOMAIN CtSchemas : CtWrite(kind)) \/ CtLoad

CtSpec == CtInit /\ [][CtNext]_ct

(***************************************************************************)
(* Properties                                                              *)
(***************************************************************************)
\* Keys that are there and not read: those that another key of the object makes
\* meaningless (the documentation of clusters, health checks and routes).
ctMeaningless ==
    CASE ct.kind = "cluster" -> IF ct.tag = "sds" THEN {"hosts"} ELSE {"service_name"}
      [] ct.kind = "health_check" -> {"path", "service_name", "send", "receive"}
      [] ct.kind = "route" -> IF ct.keys \cap CtTargets = {} THEN ct.keys ELSE {}
      [] OTHER -> {}

ctIgnored ==
    IF ct.at # "translated" THEN {}
    ELSE LET read == ctNames(CtReader(ct.kind, ct.tag, ct.keys).reads)
         IN {k \in ct.keys : k \in ctNames(CtSchemas[ct.kind].has) /\ k \notin read} \ ctMeaningless

\* Keys a translator asks for that its schema refuses.
ctUnreachable(kind) ==
    IF ~CtSchemas[kind].closed THEN {}
    ELSE UNION {ctNames(CtReader(kind, tag, ct.keys).reads) : tag \in CtTags(kind)} \ ctNames(CtSchemas[kind].has)

\* The keys known to be ignored, and the keys known to be out of reach.
CtIgnoredKeys == CtWatchdogKeys \cup {"allow_connect", "ip_tags", "type"}
CtUnreachableKeys == {"miss_timeout_ms", "megamiss_timeout_ms", "kill_timeout_ms", "multikill_timeout_ms",
                      "api_type", "alt_alpn_protocols", "enabled"}

\* An object with every key its schema requires, and those its type needs, is
\* translated: schema and translator agree on what is required and on types.
ctAgree ==
    ct.at = "threw" =>
        \/ ct.scalar
        \/ ~(CtReader(ct.kind, ct.tag, ct.keys).must \subseteq ct.keys) /\
              ct.kind \in {"cluster", "health_check", "health_check_bytes", "header_value_match", "weighted_clusters", "tcp_routes", "http_filter"}
        \/ ctThrows(ct.kind, ct.tag, ct.keys)

\* Schema and translator agree: what is accepted is read, what is read is
\* accepted, what is required is enough; and bad input is refused, not fatal, as
\* long as arrays hold what they should.
CtSound ==
    /\ ctIgnored \subseteq CtIgnoredKeys
    /\ ct.at \in {"translated", "threw"} => ctUnreachable(ct.kind) \subseteq CtUnreachableKeys
    /\ ctAgree
    /\ ct.at = "aborted" => ct.scalar

\* overview.rst: watchdog_miss_timeout_ms is "The time in milliseconds after which
\* Envoy counts a nonresponsive thread": translateBootstrap reads miss_timeout_ms.
CtWatchdogHeard == ctIgnored \cap CtWatchdogKeys = {}

\* Whatever a schema accepts has an effect.
CtNothingIgnored == ctIgnored = {}

\* A configuration that is wrong is refused, never fatal.
CtNeverAborts == ct.at # "aborted"

\* A route that was accepted goes somewhere (clusterEntry asserts that it does).
CtRouteActs ==
    ct.at = "translated" /\ ct.kind = "route" => ct.keys \cap (CtTargets \cup CtRedirects) # {}
=============================================================================
