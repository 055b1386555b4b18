------------------------------ MODULE Startup ------------------------------
(***************************************************************************)
(* From the configuration file to serving workers, in both forms of the     *)
(* program: main() of the daemon (mdt_dialout_collector.cc) and             *)
(* start_grpc_dialout_collector() of the library                            *)
(* (bridge/grpc_collector_bridge.cc), which load the same five sections     *)
(* and then create the threads.  The file is opened anew for every section, *)
(* so the environment may edit it, or remove a file it names, in between.   *)
(*                                                                         *)
(* External: libconfig, the file system, spdlog's registry of loggers       *)
(* (which throws when a name is registered twice), gRPC's bind and          *)
(* librdkafka's rd_kafka_new().                                             *)
(***************************************************************************)
EXTENDS Config, Sequences

CONSTANTS
    Order,         \* the vendors in the order of the LoadThreads() calls
    Hosts,         \* "daemon", "library"
    Configs,       \* the files an operator may write
    Rewrites,      \* the files it may be replaced with while it is being read
    Paths,         \* the paths that exist at first
    Ifaces,        \* interfaces SO_BINDTODEVICE accepts
    FreeSockets,   \* addresses gRPC can bind
    Brokers,       \* broker lists librdkafka accepts
    Number,        \* std::stoi(), a function; it throws outside its domain
    MaxStarts,     \* bound: calls of start_grpc_dialout_collector()
    MaxEdits       \* bound: edits of the file and removals of a path

ASSUME OrderAssumption ==
    /\ Order \in Seq(Vendors)
    /\ \A i, j \in DOMAIN Order : Order[i] = Order[j] => i = j
ASSUME HostsAssumption == Hosts \subseteq {"daemon", "library"}
ASSUME FilesAssumption == Rewrites \subseteq Configs
ASSUME NumberAssumption == \A s \in DOMAIN Number : Number[s] \in Int
ASSUME BoundsAssumption == MaxStarts \in Nat /\ MaxEdits \in Nat

VARIABLES
    host,       \* which of the two programs this is
    file,       \* the configuration file now
    existing,   \* the paths that exist now
    pc,         \* the thread that starts the collector
    params,     \* the five global maps of parameters
    loggers,    \* names registered with spdlog
    todo,       \* vendors LoadThreads() has yet to be called for
    threads,    \* worker threads created, per vendor
    serving,    \* of these, the ones that reached RunFsm()
    options,    \* Options structures the host holds
    fault,      \* why the process died, "none" while it lives
    starts, edits

vars == <<host, file, existing, pc, params, loggers, todo, threads, serving, options,
          fault, starts, edits>>

MAX_WORKERS == 5

Sections == {"logs", "main", "data_manipulation", "kafka", "zmq"}

\* What getopt() found, and argc.
CommandLines ==
    {a \in [f : BOOLEAN, V : BOOLEAN, unknown : BOOLEAN, argc : 1..4] :
        a.argc > Cardinality({x \in {"f", "V", "unknown"} : a[x]}) /\ (a.argc = 1 => ~a.f /\ ~a.V)}

TypeOK ==
    /\ host \in Hosts
    /\ file \in Configs \cup {Unreadable} /\ existing \in SUBSET Paths
    /\ pc \in {"idle", "arguments", "logs", "main", "data_manipulation", "kafka", "zmq", "pid",
               "labels", "sockets", "threads", "started", "failed", "exited", "died"}
    /\ DOMAIN params = Sections
    /\ loggers \subseteq {"multi-logger-boot", "multi-logger"}
    /\ threads \in [Vendors -> Nat] /\ serving \in [Vendors -> Nat]
    /\ \A v \in Vendors : serving[v] <= threads[v]
    /\ options \in {"none", "held", "freed"}
    /\ (fault = "none") <=> (pc # "died")

Init ==
    /\ host \in Hosts
    /\ file \in Configs \cup {Unreadable}
    /\ existing = Paths
    /\ pc = IF host = "daemon" THEN "arguments" ELSE "idle"
    /\ params = [s \in Sections |-> NoParams]
    /\ loggers = {}
    /\ todo = <<>>
    /\ threads = [v \in Vendors |-> 0]
    /\ serving = [v \in Vendors |-> 0]
    /\ options = "none"
    /\ fault = "none"
    /\ starts = 0 /\ edits = 0

Alive == pc \notin {"exited", "died"}

Dies(why) == pc' = "died" /\ fault' = why

-----------------------------------------------------------------------------
(* Loading the sections.                                                   *)

\* LogsHandler's constructor: register_logger() throws on a second time.
BootLogger ==
    IF "multi-logger-boot" \in loggers
    THEN Dies("logger_exists") /\ UNCHANGED loggers
    ELSE /\ loggers' = loggers \cup {"multi-logger-boot"}
         /\ pc' = "logs"
         /\ UNCHANGED fault

\* main(): -V alone prints the version, -f or nothing starts the daemon.
ParseArguments ==
    /\ pc = "arguments"
    /\ \E args \in CommandLines :
          IF args.unknown \/ args.V \/ args.argc > 3
          THEN pc' = "exited" /\ UNCHANGED <<loggers, fault>>
          ELSE BootLogger
    /\ UNCHANGED <<host, file, existing, params, todo, threads, serving, options, starts, edits>>

start_grpc_dialout_collector ==
    /\ host = "library"
    /\ pc \in {"idle", "failed", "started"}
    /\ starts < MaxStarts
    /\ starts' = starts + 1
    /\ BootLogger
    /\ UNCHANGED <<host, file, existing, params, todo, threads, serving, options, edits>>

\* A section that does not load: std::exit() in the daemon; in the library
\* start_grpc_dialout_collector() logs with multi-logger and returns.
LoadFails ==
    CASE host = "daemon" -> pc' = "exited" /\ UNCHANGED fault
      [] host = "library" /\ "multi-logger" \in loggers -> pc' = "failed" /\ UNCHANGED fault
      [] host = "library" /\ "multi-logger" \notin loggers -> Dies("null_logger")

\* One section: read the file, look the keys up, and only then replace the map.
LoadSection(s, next, m) ==
    /\ pc = s
    /\ IF file = Unreadable \/ m = Failed
       THEN LoadFails /\ UNCHANGED params
       ELSE /\ params' = [params EXCEPT ![s] = m]
            /\ pc' = next
            /\ UNCHANGED fault
    /\ UNCHANGED <<host, file, existing, todo, threads, serving, options, starts, edits>>

\* Mutant: set_spdlog_sinks() is left for later.
LoadLogs_NoSinks ==
    /\ LoadSection("logs", "main", lookup_logs_parameters(file))
    /\ UNCHANGED loggers

\* set_spdlog_sinks() follows; its logger is new, as the boot logger was.
LoadLogs ==
    /\ LoadSection("logs", "main", lookup_logs_parameters(file))
    /\ loggers' = IF pc' = "main" THEN loggers \cup {"multi-logger"} ELSE loggers

LoadMain ==
    /\ LoadSection("main", "data_manipulation", lookup_main_parameters(file, existing))
    /\ UNCHANGED loggers

LoadDataManipulation ==
    /\ LoadSection("data_manipulation", "kafka",
                   lookup_data_manipulation_parameters(file, existing))
    /\ UNCHANGED loggers

LoadKafka ==
    /\ LoadSection("kafka", "zmq", lookup_kafka_parameters(file, params["main"]))
    /\ UNCHANGED loggers

\* The last section comes from an argument and not from the file.
LoadZmq ==
    /\ pc = "zmq"
    /\ params' = [params EXCEPT !["zmq"] =
                     lookup_zmq_parameters(IF host = "daemon" THEN "" ELSE "ipc:///tmp/grpc.sock",
                                           params["main"])]
    /\ pc' = IF host = "daemon" THEN "pid" ELSE "sockets"
    /\ UNCHANGED <<host, file, existing, loggers, todo, threads, serving, options, fault,
                   starts, edits>>

LoadStep ==
    ParseArguments \/ LoadLogs \/ LoadMain \/ LoadDataManipulation \/ LoadKafka \/ LoadZmq

-----------------------------------------------------------------------------
(* What main() does between the configuration and the threads.             *)

\* DumpCorePid(): opening the PID file fails when the folder went away, or
\* cannot be written.
DumpCorePid ==
    /\ pc = "pid"
    /\ \/ pc' = "labels" /\ params["main"]["core_pid_folder"] \in existing
       \/ pc' = "exited"
    /\ UNCHANGED <<host, file, existing, params, loggers, todo, threads, serving, options,
                   fault, starts, edits>>

\* The label file of the encoder that is on; its parsing is LabelMap's.
LabelKey(on) ==
    IF on = "enable_label_encode_as_map" THEN "label_map_csv_path" ELSE "label_map_ptm_path"

LoadLabelMaps ==
    /\ pc = "labels"
    /\ LET dm   == params["data_manipulation"]
           keys == {LabelKey(on) : on \in {x \in {"enable_label_encode_as_map",
                                                  "enable_label_encode_as_map_ptm"} : dm[x] = "true"}}
       IN  IF keys \subseteq DOMAIN dm
           THEN /\ \/ pc' = "sockets" /\ {dm[k] : k \in keys} \subseteq existing
                   \/ pc' = "exited" /\ keys # {}
                /\ UNCHANGED fault
           ELSE Dies("missing_key")
    /\ UNCHANGED <<host, file, existing, params, loggers, todo, threads, serving, options,
                   starts, edits>>

Socket(v) == params["main"][VendorKeys[v].socket]

\* No socket at all: the daemon ends, the library returns without workers.
CheckSockets ==
    /\ pc = "sockets"
    /\ IF \A v \in Vendors : Socket(v) = ""
       THEN pc' = (IF host = "daemon" THEN "exited" ELSE "failed") /\ UNCHANGED todo
       ELSE pc' = "threads" /\ todo' = Order
    /\ UNCHANGED <<host, file, existing, params, loggers, threads, serving, options, fault,
                   starts, edits>>

-----------------------------------------------------------------------------
(* LoadThreads(), once per vendor.                                         *)

Setting(v, field) == params["main"][VendorKeys[v][field]]

\* Mutant: the upper bound is off by one.
NumbersValid_SixWorkers(v) ==
    /\ Setting(v, "replies") \in DOMAIN Number /\ Number[Setting(v, "replies")] \in 0..1000
    /\ Setting(v, "workers") \in DOMAIN Number /\ Number[Setting(v, "workers")] \in 1..6

\* std::stoi() of both, then the ranges.
NumbersValid(v) ==
    /\ Setting(v, "replies") \in DOMAIN Number /\ Number[Setting(v, "replies")] \in 0..1000
    /\ Setting(v, "workers") \in DOMAIN Number /\ Number[Setting(v, "workers")] \in 1..5

\* What LoadThreads() leaves alone.
LoadThreadsFrame == <<host, file, existing, params, loggers, serving, options, fault, starts, edits>>

\* Mutant: a vendor without a socket ends the daemon, as bad numbers do.
SkipVendor_Exits(v) ==
    /\ Socket(v) = ""
    /\ IF host = "daemon" THEN pc' = "exited" /\ UNCHANGED todo
                          ELSE todo' = Tail(todo) /\ UNCHANGED pc
    /\ UNCHANGED <<LoadThreadsFrame, threads>>

SkipVendor(v) ==
    /\ Socket(v) = ""
    /\ todo' = Tail(todo)
    /\ UNCHANGED <<LoadThreadsFrame, threads, pc>>

\* Bad numbers end the daemon; the library skips the vendor.
RefuseNumbers(v) ==
    /\ Socket(v) # "" /\ ~NumbersValid(v)
    /\ IF host = "daemon" THEN pc' = "exited" /\ UNCHANGED todo
                          ELSE todo' = Tail(todo) /\ UNCHANGED pc
    /\ UNCHANGED <<LoadThreadsFrame, threads>>

\* In the library pthread_create() may fail for some workers, which are left out.
CreateWorkers(v) ==
    /\ Socket(v) # "" /\ NumbersValid(v)
    /\ LET n == Number[Setting(v, "workers")] IN
       \E created \in (IF host = "daemon" THEN {n} ELSE 0..n) :
           threads' = [threads EXCEPT ![v] = created]
    /\ todo' = Tail(todo)
    /\ UNCHANGED <<LoadThreadsFrame, pc>>

LoadThreads ==
    /\ pc = "threads"
    /\ todo # <<>>
    /\ LET v == Head(todo) IN SkipVendor(v) \/ RefuseNumbers(v) \/ CreateWorkers(v)

ThreadsLoaded ==
    /\ pc = "threads"
    /\ todo = <<>>
    /\ pc' = "started"
    /\ UNCHANGED <<host, file, existing, params, loggers, todo, threads, serving, options,
                   fault, starts, edits>>

-----------------------------------------------------------------------------
(* A worker thread, from XBind() to RunFsm().                               *)

\* The keys KafkaDelivery() and VendorPlumbing() read, whatever the delivery.
KafkaKeys ==
    {"topic", "bootstrap_servers", "enable_idempotence", "client_id", "security_protocol",
     "ssl_key_location", "ssl_key_password", "ssl_certificate_location", "ssl_ca_location",
     "enable_ssl_certificate_verification", "log_level"}

\* The keys VendorPlumbing() reads, and CiscoFsmCtrl().
DataKeys(v) ==
    {"enable_label_encode_as_map", "enable_label_encode_as_map_ptm"}
        \cup (IF v = "cisco" THEN {"enable_cisco_gpbkv2json", "enable_cisco_message_to_json_string"}
                            ELSE {})

KeysThere(v) ==
    /\ KafkaKeys \subseteq DOMAIN params["kafka"]
    /\ DataKeys(v) \subseteq DOMAIN params["data_manipulation"]
    /\ "zmq_uri" \in DOMAIN params["zmq"]
    /\ {"writer_id", "iface", "so_bindtodevice_check", "enable_tls", "data_delivery_method",
        VendorKeys[v].replies} \subseteq DOMAIN params["main"]

\* make_server_credentials() -> slurp() of the key and the certificate.
CredentialsLoad ==
    params["main"]["enable_tls"] = "true" =>
        {params["main"]["tls_key_path"], params["main"]["tls_cert_path"]} \subseteq existing

\* bindtodevice_socket_mutator(), which BuildAndStart() calls for the socket.
DeviceBinds ==
    params["main"]["so_bindtodevice_check"] = "true" => params["main"]["iface"] \in Ifaces

LogLevelValid(l) == l \in DOMAIN Number /\ Number[l] \in 0..7

\* KafkaProducer's constructor: the log level is a number from 0 to 7, the
\* SSL files can be read, a broker can be added.
ProducerBuilds ==
    params["main"]["data_delivery_method"] = "kafka" =>
        LET k == params["kafka"]
        IN  /\ LogLevelValid(k["log_level"])
            /\ k["bootstrap_servers"] \in Brokers
            /\ k["security_protocol"] = "ssl" =>
                 {k["ssl_key_location"], k["ssl_certificate_location"], k["ssl_ca_location"]}
                    \subseteq existing

\* In the order of XBind() and XFsmCtrl(); each of the failures is std::abort(),
\* an uncaught exception in the thread, or a server that is a null pointer.
WorkerStarts(v) ==
    /\ Alive
    /\ serving[v] < threads[v]
    /\ LET ok == KeysThere(v) /\ CredentialsLoad /\ DeviceBinds /\ Socket(v) \in FreeSockets
                 /\ ProducerBuilds
       IN  IF ok
           THEN serving' = [serving EXCEPT ![v] = @ + 1] /\ UNCHANGED <<pc, fault>>
           ELSE /\ Dies(CASE ~KeysThere(v)              -> "missing_key"
                          [] KeysThere(v) /\ ~CredentialsLoad -> "credentials"
                          [] KeysThere(v) /\ CredentialsLoad /\ (~DeviceBinds \/ Socket(v) \notin FreeSockets)
                                                        -> "bind"
                          [] OTHER                      -> "producer")
                /\ UNCHANGED serving
    /\ UNCHANGED <<host, file, existing, params, loggers, todo, threads, options, starts, edits>>

-----------------------------------------------------------------------------
(* The host's access to the parameters, and the environment.               *)

\* InitOptions() reads these with at(): workers and replies of every vendor,
\* the logging section, and four keys of the data manipulation.
OptionKeys(s) ==
    CASE s = "main" -> {"writer_id", "iface"} \cup
                       UNION {{VendorKeys[v].socket, VendorKeys[v].workers,
                               VendorKeys[v].replies} : v \in Vendors}
      [] s = "logs" -> {"syslog", "syslog_facility", "syslog_ident", "console_log", "spdlog_level"}
      [] s = "data_manipulation" -> {"enable_cisco_gpbkv2json", "enable_cisco_message_to_json_string",
                                     "enable_label_encode_as_map", "enable_label_encode_as_map_ptm"}

OptionSections == {"logs", "main", "data_manipulation"}

\* The host may call it at any time: before start, after one that failed, or
\* from another thread next to a start, which may be replacing one of the maps
\* (the read is then undefined: it may end the process).
InitOptions ==
    /\ host = "library" /\ Alive
    /\ \/ /\ \A s \in OptionSections : OptionKeys(s) \subseteq DOMAIN params[s]
          /\ options' = "held"
          /\ UNCHANGED <<pc, fault>>
       \/ /\ \E s \in OptionSections : ~(OptionKeys(s) \subseteq DOMAIN params[s])
          /\ Dies("options_key")
          /\ UNCHANGED options
       \/ /\ pc \in OptionSections
          /\ Dies("options_race")
          /\ UNCHANGED options
    /\ UNCHANGED <<host, file, existing, params, loggers, todo, threads, serving, starts, edits>>

FreeOptions ==
    /\ host = "library" /\ Alive /\ options = "held"
    /\ options' = "freed"
    /\ UNCHANGED <<host, file, existing, pc, params, loggers, todo, threads, serving, fault,
                   starts, edits>>

\* Edits after the last section was read change nothing and are left out.
EditFile ==
    /\ pc \in {"main", "data_manipulation", "kafka"}
    /\ edits < MaxEdits
    /\ file' \in (Rewrites \cup {Unreadable}) \ {file}
    /\ edits' = edits + 1
    /\ UNCHANGED <<host, existing, pc, params, loggers, todo, threads, serving, options, fault,
                   starts>>

RemovePath ==
    /\ Alive /\ edits < MaxEdits
    /\ \E p \in existing : existing' = existing \ {p}
    /\ edits' = edits + 1
    /\ UNCHANGED <<host, file, pc, params, loggers, todo, threads, serving, options, fault,
                   starts>>

StartStep ==
    \/ LoadStep \/ DumpCorePid \/ LoadLabelMaps \/ CheckSockets \/ LoadThreads \/ ThreadsLoaded

WorkerStep == \E v \in Vendors : WorkerStarts(v)

Next ==
    \/ start_grpc_dialout_collector
    \/ StartStep
    \/ WorkerStep
    \/ InitOptions \/ FreeOptions
    \/ EditFile \/ RemovePath

Spec == Init /\ [][Next]_vars
-----------------------------------------------------------------------------
(* Properties.                                                             *)

\* "Downstream code unconditionally reads these keys, so they must always
\* exist": no at() of a worker, or of the label loading, throws, whichever
\* versions of the file the sections were read from.
KeysAlwaysThere == fault # "missing_key"

\* slurp() cannot open a TLS file only when the file went away after
\* lookup_main_parameters() had found it.
CredentialsChecked == fault = "credentials" => existing # Paths

\* A worker serves in Kafka mode only with the topic and the brokers that one
\* file set, never with the dummies of the ZeroMQ mode, even if the delivery
\* method was edited between the reads of the two sections.
RealDelivery ==
    (\E v \in Vendors : serving[v] > 0) /\ params["main"]["data_delivery_method"] = "kafka" =>
        \E f \in Configs : \A k \in {"topic", "bootstrap_servers"} :
            Has(f, k) /\ f[k] # "" /\ params["kafka"][k] = f[k]

\* Threads are created for the vendors with a socket, as many as configured
\* (fewer only in the library), and never more than the arrays of
\* start_grpc_dialout_collector() hold; and the state is of its type.
WorkersAsConfigured ==
    /\ TypeOK
    /\ \A v \in Vendors :
           threads[v] > 0 =>
               /\ Socket(v) # ""
               /\ threads[v] <= MAX_WORKERS
               /\ host = "daemon" => threads[v] = Number[Setting(v, "workers")]

\* The daemon calls std::exit() or returns from main() while workers run, and
\* so destroys the maps and loggers under them, in one case only: the numbers
\* of a later vendor are refused.
ExitUnderWorkers ==
    pc = "exited" /\ (\E v \in Vendors : threads[v] > 0) =>
        \E v \in Vendors : threads[v] = 0 /\ Socket(v) # "" /\ ~NumbersValid(v)

\* Before a worker exists, the library takes the host process down only when
\* the logging section does not load, or when start is called a second time;
\* and the host's own InitOptions() does so only when it is called before the
\* three sections it reads are loaded (no start yet, one still under way, or one
\* that failed), or when some vendor has no socket.
HostDeathsKnown ==
    pc = "died" /\ (fault \in {"options_key", "options_race"} \/ \A v \in Vendors : threads[v] = 0) =>
        \/ fault = "null_logger" /\ params["logs"] = NoParams
        \/ fault = "logger_exists" /\ starts > 1
        \/ fault = "options_key" /\ (\E s \in OptionSections : params[s] = NoParams)
        \/ fault = "options_key" /\ \E v \in Vendors : Socket(v) = ""
        \/ fault = "options_race" /\ params["data_manipulation"] = NoParams

\* The changelog's promise for library mode: a configuration that does not
\* validate never crashes the host (InitOptions() is a call of its own).
HostSurvives ==
    host = "library" /\ starts = 1 /\ params["zmq"] = NoParams =>
        pc # "died" \/ fault \in {"options_key", "options_race"}
=============================================================================
