--------------------------- MODULE Startup_proofs ---------------------------
(***************************************************************************)
(* Proofs about Startup, for any configuration files, any edits of them     *)
(* while they are read, and any paths that go away: no key is missing when  *)
(* it is read, the workers are those configured, and the known deaths are   *)
(* the only ones.                                                           *)
(***************************************************************************)
EXTENDS Startup, SequenceTheorems, TLAPS

-----------------------------------------------------------------------------
(* What a section that was loaded is known to hold.                        *)

\* params["main"]: the keys that are always there, those of every vendor with a
\* socket, and TLS files that existed.
MainShape(m) ==
    /\ {"writer_id", "core_pid_folder", "iface", "so_bindtodevice_check", "enable_tls",
        "tls_cert_path", "tls_key_path", "data_delivery_method"} \subseteq DOMAIN m
    /\ \A v \in Vendors : VendorKeys[v].socket \in DOMAIN m
    /\ \A v \in Vendors : m[VendorKeys[v].socket] # "" =>
           {VendorKeys[v].replies, VendorKeys[v].workers} \subseteq DOMAIN m
    /\ m["enable_tls"] = "true" => {m["tls_key_path"], m["tls_cert_path"]} \subseteq Paths

\* params["logs"]: what InitOptions() reads.
LogsShape(l) == OptionKeys("logs") \subseteq DOMAIN l

\* params["data_manipulation"]: a path for the label encoder that is on.
DataShape(d) ==
    /\ OptionKeys("data_manipulation") \subseteq DOMAIN d
    /\ d["enable_label_encode_as_map"] = "true" => "label_map_csv_path" \in DOMAIN d
    /\ d["enable_label_encode_as_map_ptm"] = "true" => "label_map_ptm_path" \in DOMAIN d

\* params["kafka"], next to the delivery method of params["main"].
KafkaShape(k, m) ==
    /\ KafkaKeys \subseteq DOMAIN k
    /\ m["data_delivery_method"] = "kafka" =>
           \E f \in Configs : \A key \in {"topic", "bootstrap_servers"} :
               Has(f, key) /\ f[key] # "" /\ k[key] = f[key]

Complete ==
    /\ MainShape(params["main"])
    /\ DataShape(params["data_manipulation"])
    /\ KafkaShape(params["kafka"], params["main"])
    /\ "zmq_uri" \in DOMAIN params["zmq"]

-----------------------------------------------------------------------------
(* The inductive invariant.                                                *)

\* The two loggers are registered once, and the host with the start.
LoggersInv ==
    /\ pc \in {"idle", "arguments"} => loggers = {}
    /\ pc \in {"idle", "arguments", "logs"} => params["logs"] = NoParams
    /\ pc \notin {"idle", "arguments", "exited", "died"} => "multi-logger-boot" \in loggers
    /\ pc \notin {"idle", "arguments", "logs", "exited", "died"} => "multi-logger" \in loggers
    /\ starts \in Nat
    /\ host = "library" /\ loggers # {} => starts >= 1
    /\ pc = "arguments" => host = "daemon"

\* The sections loaded by where the start is.
SectionsInv ==
    /\ pc \notin {"idle", "arguments", "logs", "main", "failed", "exited", "died"} =>
           MainShape(params["main"])
    /\ pc \in {"kafka", "zmq", "pid", "labels", "sockets", "threads", "started"} =>
           DataShape(params["data_manipulation"])
    /\ pc \in {"zmq", "pid", "labels", "sockets", "threads", "started"} =>
           KafkaShape(params["kafka"], params["main"])
    /\ pc \in {"pid", "labels", "sockets", "threads", "started"} =>
           "zmq_uri" \in DOMAIN params["zmq"]

\* What InitOptions() reads, wherever the start is, or was when it failed.
LoadedInv ==
    /\ params["logs"] = NoParams \/ LogsShape(params["logs"])
    /\ params["main"] = NoParams \/ MainShape(params["main"])
    /\ params["data_manipulation"] = NoParams \/ DataShape(params["data_manipulation"])
    /\ pc \in {"idle", "arguments", "logs", "main", "data_manipulation"} =>
           params["data_manipulation"] = NoParams

\* The workers of the vendors that LoadThreads() has been called for.
ThreadsInv ==
    /\ pc \notin {"threads", "started", "exited", "died"} => \A v \in Vendors : threads[v] = 0
    /\ \A v \in Vendors : threads[v] > 0 => Complete
    /\ pc = "threads" =>
           /\ todo \in Seq(Vendors)
           /\ \A i, j \in 1..Len(todo) : todo[i] = todo[j] => i = j
           /\ \A i \in 1..Len(todo) : threads[todo[i]] = 0

IInv ==
    /\ LoggersInv
    /\ SectionsInv
    /\ LoadedInv
    /\ ThreadsInv
    /\ WorkersAsConfigured
    /\ KeysAlwaysThere
    /\ CredentialsChecked
    /\ ExitUnderWorkers
    /\ HostDeathsKnown

-----------------------------------------------------------------------------
(* The lookup functions.                                                   *)

\* A section that loaded is what was looked up, every load having succeeded.
LEMMA SectionTaken ==
    ASSUME NEW m, Section(m) # Failed
    PROVE  Section(m) = m /\ \A k \in DOMAIN m : m[k] # Invalid
  BY DEF Section

Fields == {"socket", "replies", "workers"}

\* The vendors' keys are different from each other, and from the other keys.
LEMMA KeysDiffer ==
    /\ \A v \in Vendors, x \in Fields : VendorKeys[v][x] \notin
          {"writer_id", "core_pid_folder", "iface", "so_bindtodevice_check", "enable_tls",
           "tls_cert_path", "tls_key_path", "data_delivery_method"}
    /\ \A v, u \in Vendors, x, y \in Fields : VendorKeys[v][x] = VendorKeys[u][y] => v = u /\ x = y
  BY VendorsAssumption DEF VendorKeys, Fields

\* An entry is what was loaded for its vendor and field.
LEMMA EntriesLoaded ==
    ASSUME NEW f, NEW pairs \in SUBSET (Vendors \X Fields)
    PROVE  /\ DOMAIN VendorEntries(f, pairs) = {VendorKeys[p[1]][p[2]] : p \in pairs}
           /\ \A p \in pairs : /\ VendorKeys[p[1]][p[2]] \in DOMAIN VendorEntries(f, pairs)
                               /\ VendorEntries(f, pairs)[VendorKeys[p[1]][p[2]]]
                                     = LoadVendorKey(f, p[1], p[2])
<1> DEFINE key(p)  == VendorKeys[p[1]][p[2]]
           pair(k) == CHOOSE q \in pairs : key(q) = k
<1>1. VendorEntries(f, pairs) =
         [k \in {key(p) : p \in pairs} |-> LoadVendorKey(f, pair(k)[1], pair(k)[2])]
  BY DEF VendorEntries
<1>2. ASSUME NEW p \in pairs PROVE pair(key(p)) = p
  <2>1. pair(key(p)) \in pairs /\ key(pair(key(p))) = key(p)
    OBVIOUS
  <2>2. \A q \in pairs : q[1] \in Vendors /\ q[2] \in Fields /\ q = <<q[1], q[2]>>
    OBVIOUS
  <2> HIDE DEF pair
  <2> QED
    BY <2>1, <2>2, KeysDiffer
<1> HIDE DEF pair
<1> QED
  BY <1>1, <1>2

\* A path that was accepted exists.
LEMMA TlsPathExists ==
    ASSUME NEW f, NEW key, NEW paths, TlsPath(f, key, TRUE, paths) # Invalid
    PROVE  TlsPath(f, key, TRUE, paths) \in paths
  BY DEF TlsPath

\* lookup_main_parameters(): the keys that others read are in the map.
LEMMA MainLooksUp ==
    ASSUME NEW f, NEW paths \in SUBSET Paths, lookup_main_parameters(f, paths) # Failed
    PROVE  MainShape(lookup_main_parameters(f, paths))
<1> DEFINE tls     == LoadOptionalEnum(f, "enable_tls", "false", Bool)
           enabled == {v \in Vendors : LoadSocket(f, v) # ""}
           fixed   ==
             [writer_id       |-> LoadOptional(f, "writer_id", "mdt-dialout-collector"),
              core_pid_folder |-> LoadOptionalPath(f, "core_pid_folder", "/var/run/", paths),
              iface           |-> LoadMandatory(f, "iface"),
              so_bindtodevice_check |-> LoadOptionalEnum(f, "so_bindtodevice_check", "true", Bool),
              enable_tls      |-> tls,
              tls_cert_path   |-> TlsPath(f, "tls_cert_path", tls = "true", paths),
              tls_key_path    |-> TlsPath(f, "tls_key_path", tls = "true", paths),
              data_delivery_method |->
                  LoadOptionalEnum(f, "data_delivery_method", "kafka", {"kafka", "zmq"})]
           pairs   == (Vendors \X {"socket"}) \cup (enabled \X {"replies", "workers"})
           entries == VendorEntries(f, pairs)
           m       == fixed ++ entries
           fixedKeys == {"writer_id", "core_pid_folder", "iface", "so_bindtodevice_check",
                         "enable_tls", "tls_cert_path", "tls_key_path", "data_delivery_method"}
<1>1. lookup_main_parameters(f, paths) = Section(m)
  BY DEF lookup_main_parameters
<1>2. lookup_main_parameters(f, paths) = m /\ \A k \in DOMAIN m : m[k] # Invalid
  BY <1>1, SectionTaken
<1>3. /\ DOMAIN fixed = fixedKeys /\ fixed["enable_tls"] = tls
      /\ fixed["tls_key_path"] = TlsPath(f, "tls_key_path", tls = "true", paths)
      /\ fixed["tls_cert_path"] = TlsPath(f, "tls_cert_path", tls = "true", paths)
  OBVIOUS
<1>4. /\ \A v \in Vendors : /\ VendorKeys[v].socket \in DOMAIN entries
                            /\ entries[VendorKeys[v].socket] = LoadSocket(f, v)
      /\ \A v \in enabled : {VendorKeys[v].replies, VendorKeys[v].workers} \subseteq DOMAIN entries
  <2>1. pairs \in SUBSET (Vendors \X Fields)
    BY DEF Fields
  <2>2. ASSUME NEW v \in Vendors
        PROVE  /\ VendorKeys[v].socket \in DOMAIN entries
               /\ entries[VendorKeys[v].socket] = LoadSocket(f, v)
    <3>1. <<v, "socket">> \in pairs
      OBVIOUS
    <3> HIDE DEF pairs
    <3>2. /\ VendorKeys[v]["socket"] \in DOMAIN entries
          /\ entries[VendorKeys[v]["socket"]] = LoadVendorKey(f, v, "socket")
      BY <2>1, <3>1, EntriesLoaded
    <3> QED
      BY <3>2 DEF LoadVendorKey
  <2>3. ASSUME NEW v \in enabled
        PROVE  {VendorKeys[v].replies, VendorKeys[v].workers} \subseteq DOMAIN entries
    <3>1. <<v, "replies">> \in pairs /\ <<v, "workers">> \in pairs
      OBVIOUS
    <3> HIDE DEF pairs, enabled
    <3>2. VendorKeys[v]["replies"] \in DOMAIN entries /\ VendorKeys[v]["workers"] \in DOMAIN entries
      BY <2>1, <3>1, EntriesLoaded
    <3> QED
      BY <3>2
  <2> QED
    BY <2>2, <2>3
<1> HIDE DEF tls, fixed, pairs, entries
<1>5. /\ DOMAIN m = DOMAIN fixed \cup DOMAIN entries
      /\ \A k \in DOMAIN fixed : m[k] = fixed[k]
      /\ \A k \in DOMAIN entries \ DOMAIN fixed : m[k] = entries[k]
  BY DEF ++
<1>6. \A k \in fixedKeys : k \in DOMAIN m /\ m[k] = fixed[k]
  BY <1>3, <1>5
<1>7. \A v \in Vendors : m[VendorKeys[v].socket] = LoadSocket(f, v)
  BY <1>3, <1>4, <1>5, KeysDiffer DEF Fields
<1>10. fixedKeys \subseteq DOMAIN m /\ \A v \in Vendors : VendorKeys[v].socket \in DOMAIN m
  BY <1>4, <1>5, <1>6
<1> HIDE DEF m
<1>8. ASSUME m["enable_tls"] = "true" PROVE {m["tls_key_path"], m["tls_cert_path"]} \subseteq Paths
  <2>1. (tls = "true") = TRUE
    BY <1>3, <1>6, <1>8
  <2>2. /\ m["tls_key_path"] = TlsPath(f, "tls_key_path", TRUE, paths)
        /\ m["tls_cert_path"] = TlsPath(f, "tls_cert_path", TRUE, paths)
    BY <1>3, <1>6, <2>1
  <2>3. m["tls_key_path"] # Invalid /\ m["tls_cert_path"] # Invalid
    BY <1>2, <1>6
  <2> QED
    BY <2>2, <2>3, TlsPathExists
<1>9. ASSUME NEW v \in Vendors, m[VendorKeys[v].socket] # ""
      PROVE  {VendorKeys[v].replies, VendorKeys[v].workers} \subseteq DOMAIN m
  <2>1. v \in enabled
    BY <1>7, <1>9
  <2> HIDE DEF enabled
  <2> QED
    BY <1>4, <1>5, <2>1
<1> QED
  BY <1>2, <1>8, <1>9, <1>10 DEF MainShape

\* lookup_logs_parameters(): its keys are always set.
LEMMA LogsLookUp ==
    ASSUME NEW f, lookup_logs_parameters(f) # Failed
    PROVE  LogsShape(lookup_logs_parameters(f))
<1> DEFINE syslog == LoadOptional(f, "syslog", "false")
           on     == syslog = "true"
           l == [syslog          |-> syslog,
                 syslog_facility |-> IF on THEN LoadOptionalEnum(f, "syslog_facility", "LOG_USER", Facilities)
                                           ELSE "NONE",
                 syslog_ident    |-> IF on THEN LoadOptional(f, "syslog_ident", "mdt-dialout-collector")
                                           ELSE "NONE",
                 console_log     |-> LoadOptional(f, "console_log", "true"),
                 spdlog_level    |-> LoadOptionalEnum(f, "spdlog_level", "info",
                                         {"debug", "info", "warn", "error", "off"})]
<1>1. lookup_logs_parameters(f) = Section(l)
  BY DEF lookup_logs_parameters
<1>2. lookup_logs_parameters(f) = l
  BY <1>1, SectionTaken
<1>3. DOMAIN l = {"syslog", "syslog_facility", "syslog_ident", "console_log", "spdlog_level"}
  OBVIOUS
<1> HIDE DEF l
<1> QED
  BY <1>2, <1>3 DEF LogsShape, OptionKeys

\* lookup_data_manipulation_parameters(): an encoder that is on has its file.
LEMMA DataLooksUp ==
    ASSUME NEW f, NEW paths, lookup_data_manipulation_parameters(f, paths) # Failed
    PROVE  DataShape(lookup_data_manipulation_parameters(f, paths))
<1> DEFINE msg == LoadOptional(f, "enable_cisco_message_to_json_string", "false")
           kv  == LoadOptional(f, "enable_cisco_gpbkv2json", "true")
           csv == LoadOptional(f, "enable_label_encode_as_map", "false")
           ptm == LoadOptional(f, "enable_label_encode_as_map_ptm", "false")
           fixed == [enable_cisco_message_to_json_string |-> msg,
                     enable_cisco_gpbkv2json             |-> kv,
                     enable_label_encode_as_map          |-> csv,
                     enable_label_encode_as_map_ptm      |-> ptm]
           csvPath == LabelPath(f, csv = "true", "label_map_csv_path",
                        "/opt/mdt_dialout_collector/csv/label_map.csv", paths)
           ptmPath == LabelPath(f, ptm = "true", "label_map_ptm_path",
                        "/opt/mdt_dialout_collector/ptm/label_map.ptm", paths)
           d == fixed ++ csvPath ++ ptmPath
<1>1. lookup_data_manipulation_parameters(f, paths) = Section(d)
  BY DEF lookup_data_manipulation_parameters
<1>2. lookup_data_manipulation_parameters(f, paths) = d
  BY <1>1, SectionTaken
<1>3. /\ OptionKeys("data_manipulation") \subseteq DOMAIN fixed
      /\ {"enable_label_encode_as_map", "enable_label_encode_as_map_ptm"} \subseteq DOMAIN fixed
      /\ fixed["enable_label_encode_as_map"] = csv
      /\ fixed["enable_label_encode_as_map_ptm"] = ptm
  BY DEF OptionKeys
<1>4. /\ csv = "true" => "label_map_csv_path" \in DOMAIN csvPath
      /\ ptm = "true" => "label_map_ptm_path" \in DOMAIN ptmPath
  BY DEF LabelPath
<1> HIDE DEF csv, ptm, fixed, csvPath, ptmPath
<1>5. /\ DOMAIN d = DOMAIN fixed \cup DOMAIN csvPath \cup DOMAIN ptmPath
      /\ \A k \in DOMAIN fixed : d[k] = fixed[k]
  BY DEF ++
<1> HIDE DEF d
<1>6. /\ d["enable_label_encode_as_map"] = csv
      /\ d["enable_label_encode_as_map_ptm"] = ptm
  BY <1>3, <1>5
<1> QED
  BY <1>2, <1>3, <1>4, <1>5, <1>6 DEF DataShape

\* A mandatory key that loaded is set in the file, and not to "".
LEMMA MandatoryIsSet ==
    ASSUME NEW f, NEW key, LoadMandatory(f, key) # Invalid
    PROVE  Has(f, key) /\ f[key] # "" /\ LoadMandatory(f, key) = f[key]
  BY DEF LoadMandatory, ReadStringSetting

\* lookup_kafka_parameters(): every key that a worker reads is in the map, with
\* SSL or without, and with Kafka the topic and the brokers are the file's.
LEMMA KafkaLooksUp ==
    ASSUME NEW f \in Configs, NEW main, lookup_kafka_parameters(f, main) # Failed
    PROVE  KafkaShape(lookup_kafka_parameters(f, main), main)
<1> DEFINE mode == main["data_delivery_method"] = "kafka"
           protocol == LoadKafkaOnly(f, "security_protocol", mode, "dummy_security_protocol")
           topic == LoadKafkaOnly(f, "topic", mode, "dummy_topic")
           brokers == LoadKafkaOnly(f, "bootstrap_servers", mode, "dummy_servers")
           fixed == [topic              |-> topic,
                     bootstrap_servers  |-> brokers,
                     enable_idempotence |-> LoadOptionalEnum(f, "enable_idempotence", "true", Bool),
                     client_id          |-> LoadOptional(f, "client_id", "mdt-dialout-collector"),
                     log_level          |-> LoadOptional(f, "log_level", "6"),
                     security_protocol  |-> protocol]
           ssl == IF protocol = "ssl" THEN SslKeys(f) ELSE NoSslKeys
           k == fixed ++ ssl
<1>1. lookup_kafka_parameters(f, main) = Section(k)
  BY DEF lookup_kafka_parameters, KafkaSection
<1>2. lookup_kafka_parameters(f, main) = k /\ \A key \in DOMAIN k : k[key] # Invalid
  BY <1>1, SectionTaken
<1>3. /\ DOMAIN fixed = {"topic", "bootstrap_servers", "enable_idempotence", "client_id",
                         "log_level", "security_protocol"}
      /\ fixed["topic"] = topic /\ fixed["bootstrap_servers"] = brokers
  OBVIOUS
<1>4. DOMAIN ssl = {"ssl_key_location", "ssl_certificate_location", "ssl_ca_location",
                    "ssl_key_password", "enable_ssl_certificate_verification"}
  BY DEF SslKeys, NoSslKeys
<1>5. mode => topic = LoadMandatory(f, "topic") /\ brokers = LoadMandatory(f, "bootstrap_servers")
  BY DEF LoadKafkaOnly
<1> HIDE DEF topic, brokers, fixed, ssl
<1>6. /\ DOMAIN k = DOMAIN fixed \cup DOMAIN ssl
      /\ \A key \in DOMAIN fixed : k[key] = fixed[key]
  BY DEF ++
<1> HIDE DEF k
<1>7. KafkaKeys \subseteq DOMAIN k
  BY <1>3, <1>4, <1>6 DEF KafkaKeys
<1>8. /\ k["topic"] = topic /\ topic # Invalid
      /\ k["bootstrap_servers"] = brokers /\ brokers # Invalid
  BY <1>2, <1>3, <1>6
<1>9. ASSUME mode
      PROVE  \A key \in {"topic", "bootstrap_servers"} : Has(f, key) /\ f[key] # "" /\ k[key] = f[key]
  BY <1>5, <1>8, <1>9, MandatoryIsSet
<1> QED
  BY <1>2, <1>7, <1>9 DEF KafkaShape

-----------------------------------------------------------------------------
(* Up to the threads.                                                      *)

\* Nothing is loaded.
LEMMA InitIInv == Init => IInv
<1> SUFFICES ASSUME Init PROVE IInv
  OBVIOUS
<1> USE DEF Init
<1>1. host \in {"daemon", "library"} /\ (pc = "arguments" \/ pc = "idle")
  BY HostsAssumption
<1>2. TypeOK
  BY <1>1 DEF TypeOK
<1>3. LoggersInv /\ SectionsInv /\ LoadedInv
  <2>1. \A s \in Sections : params[s] = NoParams
    OBVIOUS
  <2> QED
    BY <1>1, <2>1 DEF LoggersInv, SectionsInv, LoadedInv, Sections
<1>4. ThreadsInv
  BY <1>1 DEF ThreadsInv
<1>5. WorkersAsConfigured
  BY <1>2 DEF WorkersAsConfigured
<1>6. KeysAlwaysThere /\ CredentialsChecked /\ ExitUnderWorkers /\ HostDeathsKnown
  BY <1>1 DEF KeysAlwaysThere, CredentialsChecked, ExitUnderWorkers, HostDeathsKnown
<1> QED
  BY <1>3, <1>4, <1>5, <1>6 DEF IInv

\* What is loaded stays while the parameters do.
LEMMA LoadedKept ==
    ASSUME IInv, UNCHANGED params,
           pc' \in {"idle", "arguments", "logs", "main", "data_manipulation"} =>
               pc \in {"idle", "arguments", "logs", "main", "data_manipulation"}
    PROVE  LoadedInv'
  BY DEF IInv, LoadedInv, MainShape, LogsShape, DataShape

\* A step that leaves the daemon or the library without workers.
LEMMA WithoutWorkers ==
    ASSUME TypeOK', LoggersInv', SectionsInv', LoadedInv', \A v \in Vendors : threads'[v] = 0,
           pc' # "threads", fault' \notin {"missing_key", "credentials"}, HostDeathsKnown'
    PROVE  IInv'
<1>0. \A v \in Vendors : ~(threads'[v] > 0)
  OBVIOUS
<1>1. ThreadsInv'
  BY <1>0 DEF ThreadsInv
<1>2. WorkersAsConfigured'
  BY <1>0, Zenon DEF WorkersAsConfigured
<1>3. KeysAlwaysThere' /\ CredentialsChecked'
  BY DEF KeysAlwaysThere, CredentialsChecked
<1>4. ExitUnderWorkers'
  BY <1>0, Zenon DEF ExitUnderWorkers
<1> QED
  BY <1>1, <1>2, <1>3, <1>4 DEF IInv

\* LogsHandler's constructor: it throws only when start is called again.
LEMMA BootIInv == IInv /\ (ParseArguments \/ start_grpc_dialout_collector) => IInv'
<1> SUFFICES ASSUME IInv, ParseArguments \/ start_grpc_dialout_collector PROVE IInv'
  OBVIOUS
<1>1. TypeOK /\ host \in {"daemon", "library"} /\ pc \in {"arguments", "idle", "failed", "started"}
  BY HostsAssumption DEF IInv, WorkersAsConfigured, TypeOK, ParseArguments, start_grpc_dialout_collector
<1>2. /\ UNCHANGED <<host, file, existing, params, todo, threads, serving, options, edits>>
      /\ fault = "none"
  BY <1>1 DEF TypeOK, ParseArguments, start_grpc_dialout_collector
<1>3. CASE pc' = "exited" /\ UNCHANGED <<loggers, fault, starts>> /\ pc = "arguments"
  <2>1. TypeOK' /\ LoggersInv' /\ SectionsInv'
    BY <1>1, <1>2, <1>3 DEF TypeOK, IInv, LoggersInv, SectionsInv
  <2>2. \A v \in Vendors : threads'[v] = 0
    BY <1>2, <1>3 DEF IInv, ThreadsInv
  <2>3. HostDeathsKnown'
    BY <1>3 DEF HostDeathsKnown
  <2>4. LoadedInv'
    BY <1>2, <1>3, LoadedKept
  <2> QED
    BY <1>2, <1>3, <2>1, <2>2, <2>3, <2>4, WithoutWorkers
<1>4. CASE /\ "multi-logger-boot" \notin loggers /\ loggers' = loggers \cup {"multi-logger-boot"}
           /\ pc' = "logs" /\ UNCHANGED fault
           /\ starts' \in {starts, starts + 1} /\ (host = "library" => starts' = starts + 1)
  <2>1. pc \in {"arguments", "idle"} /\ loggers = {} /\ starts \in Nat
    BY <1>1, <1>4 DEF IInv, LoggersInv
  <2>2. TypeOK' /\ SectionsInv'
    BY <1>1, <1>2, <1>4 DEF TypeOK, SectionsInv
  <2>3. LoggersInv'
    BY <1>1, <1>2, <1>4, <2>1 DEF IInv, LoggersInv
  <2>4. \A v \in Vendors : threads'[v] = 0
    BY <1>2, <2>1 DEF IInv, ThreadsInv
  <2>5. HostDeathsKnown'
    BY <1>4 DEF HostDeathsKnown
  <2>6. LoadedInv'
    BY <1>2, <1>4, <2>1, LoadedKept
  <2> QED
    BY <1>2, <1>4, <2>2, <2>3, <2>4, <2>5, <2>6, WithoutWorkers
<1>5. CASE /\ "multi-logger-boot" \in loggers /\ pc' = "died" /\ fault' = "logger_exists"
           /\ UNCHANGED loggers /\ host = "library" /\ starts' = starts + 1
  <2>1. starts \in Nat /\ starts' > 1
    BY <1>1, <1>5 DEF IInv, LoggersInv
  <2>2. TypeOK' /\ SectionsInv' /\ LoggersInv'
    BY <1>1, <1>2, <1>5, <2>1 DEF TypeOK, SectionsInv, IInv, LoggersInv
  <2>3. ThreadsInv'
    BY <1>2, <1>5 DEF IInv, ThreadsInv, Complete
  <2>4. WorkersAsConfigured'
    BY <1>2, <2>2 DEF IInv, WorkersAsConfigured, Socket, Setting
  <2>5. HostDeathsKnown' /\ KeysAlwaysThere' /\ CredentialsChecked' /\ ExitUnderWorkers'
    BY <1>5, <2>1 DEF HostDeathsKnown, KeysAlwaysThere, CredentialsChecked, ExitUnderWorkers
  <2>6. LoadedInv'
    BY <1>2, <1>5, LoadedKept
  <2> QED
    BY <2>2, <2>3, <2>4, <2>5, <2>6 DEF IInv
<1>6. CASE ParseArguments
  <2>1. /\ pc = "arguments" /\ host = "daemon" /\ starts' = starts
        /\ \/ pc' = "exited" /\ UNCHANGED <<loggers, fault>>
           \/ BootLogger
    BY <1>6 DEF ParseArguments, IInv, LoggersInv
  <2>2. "multi-logger-boot" \notin loggers
    BY <2>1 DEF IInv, LoggersInv
  <2> QED
    BY <1>3, <1>4, <2>1, <2>2 DEF BootLogger, Dies
<1>7. CASE start_grpc_dialout_collector
  BY <1>4, <1>5, <1>7 DEF start_grpc_dialout_collector, BootLogger, Dies
<1> QED
  BY <1>6, <1>7

\* A section that does not load: without the second logger the host dies of it.
LEMMA LoadFailsIInv ==
    ASSUME IInv, pc \in {"logs", "main", "data_manipulation", "kafka"}, LoadFails,
           UNCHANGED <<host, file, existing, params, loggers, todo, threads, serving, options,
                       starts, edits>>
    PROVE  IInv'
<1>1. TypeOK /\ host \in {"daemon", "library"} /\ fault = "none"
  BY HostsAssumption DEF IInv, WorkersAsConfigured, TypeOK
<1>2. \/ pc' = "exited" /\ fault' = fault
      \/ pc' = "failed" /\ fault' = fault /\ "multi-logger" \in loggers
      \/ pc' = "died" /\ fault' = "null_logger" /\ "multi-logger" \notin loggers
  BY <1>1 DEF LoadFails, Dies
<1>3. TypeOK'
  BY <1>1, <1>2 DEF TypeOK
<1>4. LoggersInv'
  BY <1>2 DEF IInv, LoggersInv
<1>5. SectionsInv'
  BY <1>2 DEF SectionsInv
<1>6. \A v \in Vendors : threads'[v] = 0
  BY DEF IInv, ThreadsInv
<1>7. fault' = "null_logger" => params'["logs"] = NoParams
  BY <1>1, <1>2 DEF IInv, LoggersInv
<1>8. HostDeathsKnown'
  BY <1>1, <1>2, <1>7 DEF HostDeathsKnown
<1>9. LoadedInv'
  BY <1>2, LoadedKept
<1> QED
  BY <1>1, <1>2, <1>3, <1>4, <1>5, <1>6, <1>8, <1>9, WithoutWorkers

\* What a section that loads leaves: params are those before, but for one.
LEMMA SectionReplaced ==
    ASSUME TypeOK, NEW s \in Sections, NEW m, params' = [params EXCEPT ![s] = m]
    PROVE  /\ DOMAIN params' = Sections /\ params'[s] = m
           /\ \A x \in Sections \ {s} : params'[x] = params[x]
  BY DEF TypeOK

\* The logging section, and set_spdlog_sinks().
LEMMA LoadLogsIInv == IInv /\ LoadLogs => IInv'
<1> SUFFICES ASSUME IInv, LoadLogs PROVE IInv'
  OBVIOUS
<1> DEFINE m == lookup_logs_parameters(file)
<1>0. m # Failed => LogsShape(m)
  BY LogsLookUp
<1> HIDE DEF m
<1>1. /\ pc = "logs"
      /\ IF file = Unreadable \/ m = Failed
         THEN LoadFails /\ UNCHANGED params
         ELSE params' = [params EXCEPT !["logs"] = m] /\ pc' = "main" /\ UNCHANGED fault
      /\ loggers' = IF pc' = "main" THEN loggers \cup {"multi-logger"} ELSE loggers
      /\ UNCHANGED <<host, file, existing, todo, threads, serving, options, starts, edits>>
  BY DEF LoadLogs, LoadSection, m
<1>2. TypeOK /\ fault = "none"
  BY <1>1 DEF IInv, WorkersAsConfigured, TypeOK
<1>3. CASE LoadFails /\ UNCHANGED params
  <2>1. pc' # "main"
    BY <1>3, HostsAssumption, <1>2 DEF LoadFails, Dies, TypeOK
  <2> QED
    BY <1>1, <1>3, <2>1, LoadFailsIInv
<1>4. CASE params' = [params EXCEPT !["logs"] = m] /\ pc' = "main" /\ UNCHANGED fault /\ m # Failed
  <2>1. DOMAIN params' = Sections
    BY <1>4, <1>2 DEF TypeOK
  <2>2. TypeOK'
    BY <1>1, <1>2, <1>4, <2>1 DEF TypeOK
  <2>3. LoggersInv'
    BY <1>1, <1>4 DEF IInv, LoggersInv
  <2>4. SectionsInv'
    BY <1>4 DEF SectionsInv
  <2>5. \A v \in Vendors : threads'[v] = 0
    BY <1>1 DEF IInv, ThreadsInv
  <2>6. HostDeathsKnown'
    BY <1>4 DEF HostDeathsKnown
  <2>7. LoadedInv'
    <3>1. /\ params'["logs"] = m /\ params'["main"] = params["main"]
          /\ params'["data_manipulation"] = params["data_manipulation"]
      BY <1>2, <1>4, SectionReplaced DEF Sections
    <3> QED
      BY <1>0, <1>1, <1>4, <3>1 DEF IInv, LoadedInv
  <2> QED
    BY <1>2, <1>4, <2>2, <2>3, <2>4, <2>5, <2>6, <2>7, WithoutWorkers
<1> QED
  BY <1>1, <1>3, <1>4

\* The other sections: one that loads is as its lookup function leaves it.
LEMMA LoadNextIInv ==
    ASSUME IInv, NEW s \in {"main", "data_manipulation", "kafka"},
           NEW next \in {"data_manipulation", "kafka", "zmq"}, NEW m,
           LoadSection(s, next, m), UNCHANGED loggers,
           /\ file # Unreadable /\ m # Failed
           /\ params' = [params EXCEPT ![s] = m] /\ pc' = next
           => SectionsInv' /\ LoadedInv'
    PROVE  IInv'
<1>1. /\ pc = s
      /\ IF file = Unreadable \/ m = Failed
         THEN LoadFails /\ UNCHANGED params
         ELSE params' = [params EXCEPT ![s] = m] /\ pc' = next /\ UNCHANGED fault
      /\ UNCHANGED <<host, file, existing, todo, threads, serving, options, starts, edits>>
  BY DEF LoadSection
<1>2. TypeOK /\ fault = "none"
  BY <1>1 DEF IInv, WorkersAsConfigured, TypeOK
<1>3. CASE LoadFails /\ UNCHANGED params
  BY <1>1, <1>3, LoadFailsIInv
<1>4. CASE /\ file # Unreadable /\ m # Failed
           /\ params' = [params EXCEPT ![s] = m] /\ pc' = next /\ UNCHANGED fault
  <2>1. DOMAIN params' = Sections
    BY <1>4, <1>2 DEF TypeOK
  <2>2. TypeOK'
    BY <1>1, <1>2, <1>4, <2>1 DEF TypeOK
  <2>3. LoggersInv'
    BY <1>1, <1>4 DEF IInv, LoggersInv
  <2>4. \A v \in Vendors : threads'[v] = 0
    BY <1>1 DEF IInv, ThreadsInv
  <2>5. HostDeathsKnown'
    BY <1>4 DEF HostDeathsKnown
  <2> QED
    BY <1>2, <1>4, <2>2, <2>3, <2>4, <2>5, WithoutWorkers
<1> QED
  BY <1>1, <1>3, <1>4

\* The file that is read, where there is one.
LEMMA ReadsAFile ==
    ASSUME IInv
    PROVE  TypeOK /\ (file # Unreadable => file \in Configs) /\ existing \in SUBSET Paths
  BY DEF IInv, WorkersAsConfigured, TypeOK

\* lookup_main_parameters(), lookup_data_manipulation_parameters() and
\* lookup_kafka_parameters(), each of the file as it is by then.
LEMMA LoadSectionsIInv == IInv /\ (LoadMain \/ LoadDataManipulation \/ LoadKafka) => IInv'
<1> SUFFICES ASSUME IInv, LoadMain \/ LoadDataManipulation \/ LoadKafka PROVE IInv'
  OBVIOUS
<1>1. TypeOK /\ (file # Unreadable => file \in Configs) /\ existing \in SUBSET Paths
  BY ReadsAFile
<1>2. CASE LoadMain
  <2> DEFINE m == lookup_main_parameters(file, existing)
  <2>1. m # Failed => MainShape(m)
    BY <1>1, MainLooksUp
  <2> HIDE DEF m
  <2>3. LoadSection("main", "data_manipulation", m) /\ UNCHANGED loggers
    BY <1>2 DEF LoadMain, m
  <2>2. ASSUME file # Unreadable, m # Failed, params' = [params EXCEPT !["main"] = m],
               pc' = "data_manipulation"
        PROVE  SectionsInv' /\ LoadedInv'
    <3>1. /\ params'["main"] = m /\ params'["logs"] = params["logs"]
          /\ params'["data_manipulation"] = params["data_manipulation"]
      BY <1>1, <2>2, SectionReplaced DEF Sections
    <3>2. SectionsInv'
      BY <2>1, <2>2, <3>1 DEF SectionsInv
    <3>3. LoadedInv'
      BY <2>1, <2>2, <2>3, <3>1 DEF IInv, LoadedInv, LoadSection
    <3> QED
      BY <3>2, <3>3
  <2> QED
    BY <2>2, <2>3, LoadNextIInv
<1>3. CASE LoadDataManipulation
  <2> DEFINE m == lookup_data_manipulation_parameters(file, existing)
  <2>1. m # Failed => DataShape(m)
    BY DataLooksUp
  <2> HIDE DEF m
  <2>2. LoadSection("data_manipulation", "kafka", m) /\ UNCHANGED loggers
    BY <1>3 DEF LoadDataManipulation, m
  <2>3. ASSUME file # Unreadable, m # Failed, pc' = "kafka",
               params' = [params EXCEPT !["data_manipulation"] = m]
        PROVE  SectionsInv' /\ LoadedInv'
    <3>1. /\ params'["data_manipulation"] = m /\ params'["main"] = params["main"]
          /\ params'["logs"] = params["logs"]
      BY <1>1, <2>3, SectionReplaced DEF Sections
    <3>2. MainShape(params["main"])
      BY <2>2 DEF LoadSection, IInv, SectionsInv
    <3>3. SectionsInv'
      BY <2>1, <2>3, <3>1, <3>2 DEF SectionsInv
    <3>4. LoadedInv'
      BY <2>1, <2>3, <3>1 DEF IInv, LoadedInv
    <3> QED
      BY <3>3, <3>4
  <2> QED
    BY <2>2, <2>3, LoadNextIInv
<1>4. CASE LoadKafka
  <2> DEFINE m == lookup_kafka_parameters(file, params["main"])
  <2>1. file # Unreadable /\ m # Failed => KafkaShape(m, params["main"])
    BY <1>1, KafkaLooksUp
  <2> HIDE DEF m
  <2>2. LoadSection("kafka", "zmq", m) /\ UNCHANGED loggers
    BY <1>4 DEF LoadKafka, m
  <2>3. ASSUME file # Unreadable, m # Failed, params' = [params EXCEPT !["kafka"] = m], pc' = "zmq"
        PROVE  SectionsInv' /\ LoadedInv'
    <3>1. /\ params'["kafka"] = m /\ params'["main"] = params["main"]
          /\ params'["data_manipulation"] = params["data_manipulation"]
          /\ params'["logs"] = params["logs"]
      BY <1>1, <2>3, SectionReplaced DEF Sections
    <3>2. MainShape(params["main"]) /\ DataShape(params["data_manipulation"])
      BY <2>2 DEF LoadSection, IInv, SectionsInv
    <3>3. SectionsInv'
      BY <2>1, <2>3, <3>1, <3>2 DEF SectionsInv
    <3>4. LoadedInv'
      BY <2>3, <3>1 DEF IInv, LoadedInv
    <3> QED
      BY <3>3, <3>4
  <2> QED
    BY <2>2, <2>3, LoadNextIInv
<1> QED
  BY <1>2, <1>3, <1>4

\* The last section, and what main() does before the threads.
LEMMA BeforeThreadsIInv == IInv /\ (LoadZmq \/ DumpCorePid \/ LoadLabelMaps) => IInv'
<1> SUFFICES ASSUME IInv, LoadZmq \/ DumpCorePid \/ LoadLabelMaps PROVE IInv'
  OBVIOUS
<1>1. TypeOK /\ pc \in {"zmq", "pid", "labels"} /\ fault = "none"
  BY DEF IInv, WorkersAsConfigured, TypeOK, LoadZmq, DumpCorePid, LoadLabelMaps
<1>2. /\ MainShape(params["main"]) /\ DataShape(params["data_manipulation"])
      /\ KafkaShape(params["kafka"], params["main"])
      /\ pc # "zmq" => "zmq_uri" \in DOMAIN params["zmq"]
      /\ \A v \in Vendors : threads[v] = 0
  BY <1>1 DEF IInv, SectionsInv, ThreadsInv
<1>3. ASSUME pc' \in {"pid", "labels", "sockets", "exited"}, TypeOK', SectionsInv', fault' = "none",
             \A s \in OptionSections : params'[s] = params[s],
             UNCHANGED <<host, loggers, threads, starts>>
      PROVE  IInv'
  <2>1. LoggersInv'
    BY <1>1, <1>3 DEF IInv, LoggersInv
  <2>2. HostDeathsKnown'
    BY <1>3 DEF HostDeathsKnown
  <2>3. \A v \in Vendors : threads'[v] = 0
    BY <1>2, <1>3
  <2>4. LoadedInv'
    BY <1>3 DEF IInv, LoadedInv, OptionSections
  <2> QED
    BY <1>3, <2>1, <2>2, <2>3, <2>4, WithoutWorkers
<1>4. CASE LoadZmq
  <2> DEFINE m == lookup_zmq_parameters(IF host = "daemon" THEN "" ELSE "ipc:///tmp/grpc.sock",
                                        params["main"])
  <2>1. "zmq_uri" \in DOMAIN m
    BY DEF lookup_zmq_parameters
  <2> HIDE DEF m
  <2>2. /\ params' = [params EXCEPT !["zmq"] = m] /\ pc' \in {"pid", "sockets"}
        /\ UNCHANGED <<host, file, existing, loggers, todo, threads, serving, options, fault,
                       starts, edits>>
    BY <1>4 DEF LoadZmq, m
  <2>3. /\ DOMAIN params' = Sections /\ params'["zmq"] = m
        /\ params'["main"] = params["main"] /\ params'["kafka"] = params["kafka"]
        /\ params'["data_manipulation"] = params["data_manipulation"]
        /\ params'["logs"] = params["logs"]
    BY <1>1, <2>2, SectionReplaced DEF Sections
  <2>4. TypeOK'
    BY <1>1, <2>2, <2>3 DEF TypeOK
  <2>5. SectionsInv'
    BY <1>2, <2>1, <2>2, <2>3 DEF SectionsInv
  <2> QED
    BY <1>1, <1>3, <2>2, <2>3, <2>4, <2>5 DEF OptionSections
<1>5. CASE DumpCorePid
  <2>1. /\ pc = "pid" /\ pc' \in {"labels", "exited"}
        /\ UNCHANGED <<host, file, existing, params, loggers, todo, threads, serving, options,
                       fault, starts, edits>>
    BY <1>5 DEF DumpCorePid
  <2>2. TypeOK' /\ SectionsInv'
    BY <1>1, <1>2, <2>1 DEF TypeOK, SectionsInv
  <2> QED
    BY <1>1, <1>3, <2>1, <2>2
<1>6. CASE LoadLabelMaps
  <2> DEFINE dm   == params["data_manipulation"]
             keys == {LabelKey(on) : on \in {x \in {"enable_label_encode_as_map",
                                                    "enable_label_encode_as_map_ptm"} : dm[x] = "true"}}
  <2>1. keys \subseteq DOMAIN dm
    BY <1>2 DEF DataShape, LabelKey
  <2>2. /\ pc = "labels" /\ pc' \in {"sockets", "exited"}
        /\ UNCHANGED <<host, file, existing, params, loggers, todo, threads, serving, options,
                       fault, starts, edits>>
    BY <1>6, <2>1 DEF LoadLabelMaps
  <2>3. TypeOK' /\ SectionsInv'
    BY <1>1, <1>2, <2>2 DEF TypeOK, SectionsInv
  <2> QED
    BY <1>1, <1>3, <2>2, <2>3
<1> QED
  BY <1>4, <1>5, <1>6

-----------------------------------------------------------------------------
(* The threads.                                                            *)

\* What depends on the parameters stays while they do.
LEMMA ParamsKept ==
    ASSUME UNCHANGED params
    PROVE  /\ Complete => Complete'
           /\ \A v \in Vendors : /\ Socket(v)' = Socket(v)
                                 /\ Setting(v, "workers")' = Setting(v, "workers")
                                 /\ ~NumbersValid(v) => ~NumbersValid(v)'
  BY ZenonT(30) DEF Complete, MainShape, KafkaShape, Socket, Setting, NumbersValid

\* A step after the sections are loaded that creates no thread.
LEMMA ThreadsKept ==
    ASSUME IInv, UNCHANGED <<host, params, loggers, threads, starts>>, TypeOK',
           pc \in {"threads", "started"},
           pc' \in {"started", "died"} \/ (pc' = "threads" /\ pc = "threads"),
           pc' = "threads" => todo' = todo
    PROVE  /\ LoggersInv' /\ SectionsInv' /\ LoadedInv' /\ ThreadsInv'
           /\ WorkersAsConfigured' /\ ExitUnderWorkers'
<1>1. LoggersInv'
  BY DEF IInv, LoggersInv
<1>2. SectionsInv'
  BY DEF IInv, SectionsInv, MainShape, DataShape, KafkaShape
<1>3. ThreadsInv'
  BY ParamsKept DEF IInv, ThreadsInv
<1>4. WorkersAsConfigured'
  BY ParamsKept DEF IInv, WorkersAsConfigured
<1>5. ExitUnderWorkers'
  BY DEF ExitUnderWorkers
<1>6. LoadedInv'
  BY LoadedKept
<1> QED
  BY <1>1, <1>2, <1>3, <1>4, <1>5, <1>6

\* All sections are loaded when threads are created.
LEMMA LoadedByThen ==
    ASSUME IInv, pc \in {"sockets", "threads", "started"}
    PROVE  Complete /\ TypeOK /\ fault = "none" /\ host \in {"daemon", "library"}
  BY HostsAssumption DEF IInv, SectionsInv, Complete, WorkersAsConfigured, TypeOK

\* Without any socket there is no worker, and with one LoadThreads() is called
\* for every vendor.
LEMMA CheckSocketsIInv == IInv /\ CheckSockets => IInv'
<1> SUFFICES ASSUME IInv, CheckSockets PROVE IInv'
  OBVIOUS
<1>1. /\ pc = "sockets"
      /\ \/ pc' \in {"exited", "failed"} /\ UNCHANGED todo
         \/ pc' = "threads" /\ todo' = Order
      /\ UNCHANGED <<host, file, existing, params, loggers, threads, serving, options, fault,
                     starts, edits>>
  BY DEF CheckSockets
<1>2. Complete /\ TypeOK /\ fault = "none" /\ \A v \in Vendors : threads[v] = 0
  BY <1>1, LoadedByThen DEF IInv, ThreadsInv
<1>3. TypeOK'
  BY <1>1, <1>2 DEF TypeOK
<1>4. LoggersInv'
  BY <1>1 DEF IInv, LoggersInv
<1>5. SectionsInv'
  BY <1>1, <1>2 DEF SectionsInv, Complete
<1>6. HostDeathsKnown'
  BY <1>1 DEF HostDeathsKnown
<1>7. \A v \in Vendors : threads'[v] = 0 /\ ~(threads'[v] > 0)
  BY <1>1, <1>2
<1>10. LoadedInv'
  BY <1>1, LoadedKept
<1>8. CASE pc' # "threads"
  BY <1>1, <1>2, <1>3, <1>4, <1>5, <1>6, <1>7, <1>8, <1>10, WithoutWorkers
<1>9. CASE pc' = "threads" /\ todo' = Order
  <2>1. /\ Order \in Seq(Vendors) /\ DOMAIN Order = 1..Len(Order)
        /\ \A i, j \in 1..Len(Order) : Order[i] = Order[j] => i = j
        /\ \A i \in 1..Len(Order) : Order[i] \in Vendors
    BY OrderAssumption, LenProperties, ElementOfSeq
  <2>2. ThreadsInv'
    BY <1>7, <1>9, <2>1 DEF ThreadsInv
  <2>3. WorkersAsConfigured'
    BY <1>3, <1>7, Zenon DEF WorkersAsConfigured
  <2>4. KeysAlwaysThere' /\ CredentialsChecked' /\ ExitUnderWorkers'
    BY <1>1, <1>2, <1>9 DEF KeysAlwaysThere, CredentialsChecked, ExitUnderWorkers
  <2> QED
    BY <1>4, <1>5, <1>6, <1>10, <2>2, <2>3, <2>4 DEF IInv
<1> QED
  BY <1>1, <1>8, <1>9

\* One call of LoadThreads(): the vendor is done with, one way or another.
LEMMA LoadThreadsIInv == IInv /\ LoadThreads => IInv'
<1> SUFFICES ASSUME IInv, LoadThreads PROVE IInv'
  OBVIOUS
<1>0. pc = "threads" /\ todo # <<>> /\ Head(todo) \in Vendors
  BY HeadTailProperties DEF LoadThreads, IInv, ThreadsInv
<1> SUFFICES ASSUME NEW w \in Vendors, w = Head(todo)
             PROVE  IInv'
  BY <1>0
<1>1. /\ pc = "threads" /\ todo # <<>>
      /\ SkipVendor(w) \/ RefuseNumbers(w) \/ CreateWorkers(w)
  BY DEF LoadThreads
<1>2. Complete /\ TypeOK /\ fault = "none" /\ host \in {"daemon", "library"}
  BY <1>1, LoadedByThen
<1>3. /\ todo \in Seq(Vendors)
      /\ \A i, j \in 1..Len(todo) : todo[i] = todo[j] => i = j
      /\ \A i \in 1..Len(todo) : threads[todo[i]] = 0
  BY <1>1 DEF IInv, ThreadsInv
<1>4. /\ Len(todo) \in Nat /\ Len(todo) > 0 /\ w = todo[1]
      /\ Tail(todo) \in Seq(Vendors) /\ Len(Tail(todo)) = Len(todo) - 1
      /\ \A i \in 1..(Len(todo) - 1) : Tail(todo)[i] = todo[i + 1]
      /\ \A i \in 1..Len(todo) : todo[i] \in Vendors
  BY <1>1, <1>3, HeadTailProperties, LenProperties, EmptySeq, ElementOfSeq
<1>5. threads[w] = 0
  BY <1>3, <1>4
<1> DEFINE rest == Tail(todo)
           n == Len(Tail(todo))
<1>6. /\ rest \in Seq(Vendors) /\ n \in Nat /\ Len(rest) = n
      /\ \A i, j \in 1..n : rest[i] = rest[j] => i = j
      /\ \A i \in 1..n : rest[i] \in Vendors /\ rest[i] # w /\ threads[rest[i]] = 0
  <2>1. \A i \in 1..n : i + 1 \in 1..Len(todo) /\ rest[i] = todo[i + 1] /\ i + 1 # 1
    BY <1>4
  <2>2. \A i \in 1..n : rest[i] \in Vendors /\ rest[i] # w /\ threads[rest[i]] = 0
    BY <1>3, <1>4, <2>1
  <2>3. \A i, j \in 1..n : rest[i] = rest[j] => i = j
    BY <1>3, <2>1
  <2> QED
    BY <1>4, <2>2, <2>3
<1> HIDE DEF rest, n
<1>7. UNCHANGED LoadThreadsFrame
  BY <1>1 DEF SkipVendor, RefuseNumbers, CreateWorkers
<1>8. UNCHANGED <<host, file, existing, params, loggers, serving, options, fault, starts, edits>>
  BY <1>7 DEF LoadThreadsFrame
<1>9. KeysAlwaysThere' /\ CredentialsChecked'
  BY <1>2, <1>8 DEF KeysAlwaysThere, CredentialsChecked
<1>15. pc' \in {pc, "exited"} => LoadedInv'
  BY <1>1, <1>8, LoadedKept
<1>10. CASE pc' = "exited" /\ UNCHANGED <<todo, threads>> /\ Socket(w) # "" /\ ~NumbersValid(w)
  <2>1. TypeOK'
    BY <1>2, <1>8, <1>10 DEF TypeOK
  <2>2. LoggersInv' /\ SectionsInv'
    BY <1>8, <1>10 DEF IInv, LoggersInv, SectionsInv
  <2>3. ThreadsInv'
    BY <1>8, <1>10, ParamsKept DEF IInv, ThreadsInv
  <2>4. WorkersAsConfigured'
    BY <1>8, <1>10, <2>1, ParamsKept DEF IInv, WorkersAsConfigured
  <2>5. threads'[w] = 0 /\ Socket(w)' # "" /\ ~NumbersValid(w)'
    BY <1>4, <1>5, <1>8, <1>10, ParamsKept
  <2>6. ExitUnderWorkers'
    BY <1>4, <2>5, Zenon DEF ExitUnderWorkers
  <2>7. HostDeathsKnown'
    BY <1>10 DEF HostDeathsKnown
  <2> QED
    BY <1>9, <1>10, <1>15, <2>2, <2>3, <2>4, <2>6, <2>7 DEF IInv
<1>11. ASSUME todo' = rest, UNCHANGED pc, threads' \in [Vendors -> Nat],
              threads'[w] > 0 => /\ Socket(w) # "" /\ threads'[w] <= 5
                                 /\ host = "daemon" => threads'[w] = Number[Setting(w, "workers")],
              \A u \in Vendors \ {w} : threads'[u] = threads[u]
       PROVE  IInv'
  <2>1. TypeOK'
    <3>1. serving[w] = 0
      BY <1>2, <1>4, <1>5 DEF TypeOK
    <3>2. \A u \in Vendors : serving'[u] <= threads'[u]
      <4>1. serving'[w] = 0 /\ threads'[w] \in Nat
        BY <1>8, <1>11, <3>1
      <4>3. serving'[w] <= threads'[w]
        BY <4>1
      <4>2. \A u \in Vendors \ {w} : serving'[u] <= threads'[u]
        BY <1>2, <1>8, <1>11 DEF TypeOK
      <4> QED
        BY <4>2, <4>3
    <3> QED
      BY <1>1, <1>2, <1>8, <1>11, <3>2 DEF TypeOK
  <2>2. LoggersInv' /\ SectionsInv'
    <3>1. LoggersInv'
      BY <1>8, <1>11 DEF IInv, LoggersInv
    <3>2. SectionsInv'
      BY <1>8, <1>11 DEF IInv, SectionsInv, MainShape, DataShape, KafkaShape
    <3> QED
      BY <3>1, <3>2
  <2>3. Complete'
    BY <1>2, <1>8, ParamsKept
  <2>4. ThreadsInv'
    BY <1>1, <1>6, <1>11, <2>3 DEF ThreadsInv
  <2>5. \A u \in Vendors : threads'[u] > 0 =>
           /\ Socket(u)' # ""
           /\ threads'[u] <= MAX_WORKERS
           /\ host' = "daemon" => threads'[u] = Number[Setting(u, "workers")']
    <3>1. Socket(w)' = Socket(w) /\ Setting(w, "workers")' = Setting(w, "workers") /\ host' = host
      BY <1>4, <1>8, ParamsKept
    <3>2. \A u \in Vendors \ {w} : threads'[u] > 0 =>
             /\ Socket(u)' # ""
             /\ threads'[u] <= MAX_WORKERS
             /\ host' = "daemon" => threads'[u] = Number[Setting(u, "workers")']
      BY <1>8, <1>11, ParamsKept DEF IInv, WorkersAsConfigured
    <3> QED
      BY <1>11, <3>1, <3>2 DEF MAX_WORKERS
  <2>6. WorkersAsConfigured'
    BY <2>1, <2>5 DEF WorkersAsConfigured
  <2>7. ExitUnderWorkers' /\ HostDeathsKnown'
    BY <1>1, <1>11 DEF ExitUnderWorkers, HostDeathsKnown
  <2> QED
    BY <1>9, <1>11, <1>15, <2>2, <2>4, <2>6, <2>7 DEF IInv
<1>12. CASE SkipVendor(w)
  <2>1. todo' = rest /\ UNCHANGED <<pc, threads>>
    BY <1>12 DEF SkipVendor, rest
  <2>2. threads' \in [Vendors -> Nat] /\ ~(threads'[w] > 0)
    BY <1>2, <1>5, <2>1 DEF TypeOK
  <2> QED
    BY <1>11, <2>1, <2>2
<1>13. CASE RefuseNumbers(w)
  <2>1. /\ Socket(w) # "" /\ ~NumbersValid(w) /\ UNCHANGED threads
        /\ \/ pc' = "exited" /\ UNCHANGED todo
           \/ todo' = rest /\ UNCHANGED pc
    BY <1>13 DEF RefuseNumbers, rest
  <2>2. threads' = threads
    BY <2>1
  <2>3. threads' \in [Vendors -> Nat] /\ ~(threads'[w] > 0)
    BY <1>2, <1>5, <2>2 DEF TypeOK
  <2> QED
    BY <1>10, <1>11, <2>1, <2>3
<1>14. CASE CreateWorkers(w)
  <2> DEFINE asked == Number[Setting(w, "workers")]
  <2>1. /\ Socket(w) # "" /\ asked \in 1..5
        /\ todo' = rest /\ UNCHANGED pc
        /\ \E created \in (IF host = "daemon" THEN {asked} ELSE 0..asked) :
              threads' = [threads EXCEPT ![w] = created]
    BY <1>14 DEF CreateWorkers, NumbersValid, rest
  <2>2. PICK made \in (IF host = "daemon" THEN {asked} ELSE 0..asked) :
              threads' = [threads EXCEPT ![w] = made]
    BY <2>1
  <2> HIDE DEF asked
  <2>5. asked \in 1..5
    BY <2>1
  <2>3. made \in Nat /\ made <= 5 /\ (host = "daemon" => made = asked)
    <3>1. CASE host = "daemon"
      BY <2>5, <3>1
    <3>2. CASE host # "daemon"
      <4>1. made \in 0..asked
        BY <3>2
      <4> QED
        BY <2>5, <3>2, <4>1
    <3> QED
      BY <3>1, <3>2
  <2>4. /\ threads' \in [Vendors -> Nat] /\ threads'[w] = made
        /\ \A u \in Vendors \ {w} : threads'[u] = threads[u]
    BY <1>2, <1>4, <2>2, <2>3 DEF TypeOK
  <2> QED
    BY <1>11, <2>1, <2>3, <2>4 DEF asked
<1> QED
  BY <1>1, <1>12, <1>13, <1>14

\* The last vendor is done with.
LEMMA StartedIInv == IInv /\ ThreadsLoaded => IInv'
<1> SUFFICES ASSUME IInv, ThreadsLoaded PROVE IInv'
  OBVIOUS
<1>1. /\ pc = "threads" /\ pc' = "started"
      /\ UNCHANGED <<host, file, existing, params, loggers, todo, threads, serving, options,
                     fault, starts, edits>>
  BY DEF ThreadsLoaded
<1>2. TypeOK /\ fault = "none"
  BY <1>1, LoadedByThen
<1>3. TypeOK'
  BY <1>1, <1>2 DEF TypeOK
<1>4. /\ LoggersInv' /\ SectionsInv' /\ LoadedInv' /\ ThreadsInv'
      /\ WorkersAsConfigured' /\ ExitUnderWorkers'
  BY <1>1, <1>3, ThreadsKept
<1>5. KeysAlwaysThere' /\ CredentialsChecked' /\ HostDeathsKnown'
  BY <1>1, <1>2 DEF KeysAlwaysThere, CredentialsChecked, HostDeathsKnown
<1> QED
  BY <1>4, <1>5 DEF IInv

\* Wherever the start is, InitOptions() finds its keys when the three sections
\* are loaded and every vendor has a socket.
LEMMA OptionsFound ==
    ASSUME IInv, \A s \in OptionSections : params[s] # NoParams,
           \A v \in Vendors : Socket(v) # ""
    PROVE  \A s \in OptionSections : OptionKeys(s) \subseteq DOMAIN params[s]
<1>1. /\ LogsShape(params["logs"]) /\ MainShape(params["main"])
      /\ DataShape(params["data_manipulation"])
  BY DEF IInv, LoadedInv, OptionSections
<1>2. OptionKeys("main") \subseteq DOMAIN params["main"]
  <2>1. \A v \in Vendors : {VendorKeys[v].socket, VendorKeys[v].workers, VendorKeys[v].replies}
                               \subseteq DOMAIN params["main"]
    BY <1>1 DEF MainShape, Socket
  <2>2. {"writer_id", "iface"} \subseteq DOMAIN params["main"]
    BY <1>1 DEF MainShape
  <2>3. OptionKeys("main") = {"writer_id", "iface"} \cup
            UNION {{VendorKeys[v].socket, VendorKeys[v].workers,
                    VendorKeys[v].replies} : v \in Vendors}
    BY DEF OptionKeys
  <2>4. ASSUME NEW k \in OptionKeys("main") PROVE k \in DOMAIN params["main"]
    <3>1. \/ k \in {"writer_id", "iface"}
          \/ \E v \in Vendors : k \in {VendorKeys[v].socket, VendorKeys[v].workers,
                                        VendorKeys[v].replies}
      BY <2>3, <2>4, Zenon
    <3> QED
      BY <2>1, <2>2, <3>1, Zenon
  <2> QED
    BY <2>4
<1> QED
  BY <1>1, <1>2 DEF LogsShape, DataShape, OptionSections

\* A call of the host's own, in any state of the start: it changes nothing but
\* what the host holds, or ends the process.
LEMMA HostReadsIInv == IInv /\ (InitOptions \/ FreeOptions) => IInv'
<1> SUFFICES ASSUME IInv, InitOptions \/ FreeOptions PROVE IInv'
  OBVIOUS
<1>1. /\ UNCHANGED <<host, file, existing, params, loggers, todo, threads, serving, starts, edits>>
      /\ Alive
  BY DEF InitOptions, FreeOptions
<1>2. TypeOK /\ fault = "none"
  BY <1>1 DEF IInv, WorkersAsConfigured, TypeOK, Alive
<1>3. /\ options' \in {"none", "held", "freed"}
      /\ \/ pc' = pc /\ fault' = "none"
         \/ /\ pc' = "died" /\ fault' = "options_key"
            /\ ~(\A s \in OptionSections : OptionKeys(s) \subseteq DOMAIN params[s])
         \/ pc' = "died" /\ fault' = "options_race" /\ pc \in OptionSections
  BY <1>2 DEF InitOptions, FreeOptions, Dies, TypeOK
<1>4. TypeOK'
  BY <1>1, <1>2, <1>3 DEF TypeOK
<1>5. LoggersInv'
  BY <1>1, <1>3 DEF IInv, LoggersInv
<1>6. SectionsInv'
  BY <1>1, <1>3 DEF IInv, SectionsInv, MainShape, DataShape, KafkaShape
<1>7. LoadedInv'
  BY <1>1, <1>3, LoadedKept
<1>8. ThreadsInv'
  BY <1>1, <1>3, ParamsKept DEF IInv, ThreadsInv
<1>9. WorkersAsConfigured'
  BY <1>1, <1>4, ParamsKept DEF IInv, WorkersAsConfigured
<1>10. KeysAlwaysThere' /\ CredentialsChecked'
  BY <1>3 DEF KeysAlwaysThere, CredentialsChecked
<1>11. ExitUnderWorkers'
  <2>1. pc' # "exited"
    BY <1>1, <1>3 DEF Alive
  <2> QED
    BY <2>1 DEF ExitUnderWorkers
<1>12. HostDeathsKnown'
  <2>1. CASE pc' = pc
    BY <1>1, <2>1 DEF Alive, HostDeathsKnown
  <2>2. CASE fault' = "options_race" /\ pc \in OptionSections
    BY <1>1, <2>2 DEF IInv, LoadedInv, HostDeathsKnown, OptionSections
  <2>3. CASE /\ fault' = "options_key"
             /\ ~(\A s \in OptionSections : OptionKeys(s) \subseteq DOMAIN params[s])
    <3>1. (\E s \in OptionSections : params[s] = NoParams) \/ \E v \in Vendors : Socket(v) = ""
      BY <2>3, OptionsFound
    <3>2. /\ \A s \in OptionSections : params'[s] = params[s]
          /\ \A v \in Vendors : Socket(v)' = Socket(v)
      BY <1>1, ParamsKept
    <3> QED
      BY <2>3, <3>1, <3>2 DEF HostDeathsKnown
  <2> QED
    BY <1>3, <2>1, <2>2, <2>3
<1> QED
  BY <1>5, <1>6, <1>7, <1>8, <1>9, <1>10, <1>11, <1>12 DEF IInv

\* A worker: every key it reads is there, and its TLS files unless they went away.
LEMMA WorkerStartsIInv ==
    ASSUME IInv, NEW w \in Vendors, WorkerStarts(w)
    PROVE  IInv'
<1>1. /\ Alive /\ serving[w] < threads[w]
      /\ UNCHANGED <<host, file, existing, params, loggers, todo, threads, options, starts, edits>>
  BY DEF WorkerStarts
<1>2. TypeOK
  BY DEF IInv, WorkersAsConfigured
<1>3. threads[w] > 0
  BY <1>1, <1>2 DEF TypeOK
<1>4. pc \in {"threads", "started"}
  BY <1>1, <1>3 DEF IInv, ThreadsInv, Alive
<1>5. Complete /\ fault = "none" /\ Socket(w) # ""
  BY <1>3, <1>4, LoadedByThen DEF IInv, WorkersAsConfigured
<1>6. KeysThere(w)
  BY <1>5 DEF KeysThere, DataKeys, OptionKeys, Complete, MainShape, DataShape, KafkaShape, Socket
<1>7. \/ serving' = [serving EXCEPT ![w] = @ + 1] /\ pc' = pc /\ fault' = "none"
      \/ /\ pc' = "died" /\ fault' \in {"credentials", "bind", "producer"} /\ UNCHANGED serving
         /\ fault' = "credentials" => ~CredentialsLoad
  BY <1>5, <1>6 DEF WorkerStarts, Dies
<1>8. ASSUME serving' = [serving EXCEPT ![w] = @ + 1]
      PROVE  serving' \in [Vendors -> Nat] /\ \A u \in Vendors : serving'[u] <= threads[u]
  <2>1. serving[w] \in Nat /\ threads[w] \in Nat
    BY <1>2 DEF TypeOK
  <2>2. serving'[w] = serving[w] + 1 /\ \A u \in Vendors \ {w} : serving'[u] = serving[u]
    BY <1>2, <1>8 DEF TypeOK
  <2>3. serving'[w] <= threads[w]
    BY <1>1, <2>1, <2>2
  <2> QED
    BY <1>2, <1>8, <2>1, <2>2, <2>3 DEF TypeOK
<1>9. TypeOK'
  BY <1>1, <1>2, <1>4, <1>7, <1>8 DEF TypeOK
<1>10. /\ LoggersInv' /\ SectionsInv' /\ LoadedInv' /\ ThreadsInv'
       /\ WorkersAsConfigured' /\ ExitUnderWorkers'
  BY <1>1, <1>4, <1>7, <1>9, ThreadsKept
<1>11. KeysAlwaysThere'
  BY <1>7 DEF KeysAlwaysThere
<1>12. CredentialsChecked'
  <2>1. ~CredentialsLoad => existing # Paths
    BY <1>5 DEF CredentialsLoad, Complete, MainShape
  <2> QED
    BY <1>1, <1>7, <2>1 DEF CredentialsChecked
<1>13. HostDeathsKnown'
  <2>1. threads'[w] # 0
    BY <1>1, <1>3
  <2>2. fault' \notin {"options_key", "options_race"}
    BY <1>7
  <2> QED
    BY <2>1, <2>2, Zenon DEF HostDeathsKnown
<1> QED
  BY <1>10, <1>11, <1>12, <1>13 DEF IInv

\* The file is edited, or a path removed: the parameters are those loaded.
LEMMA EnvironmentIInv == IInv /\ (EditFile \/ RemovePath \/ UNCHANGED vars) => IInv'
<1> SUFFICES ASSUME IInv, EditFile \/ RemovePath \/ UNCHANGED vars PROVE IInv'
  OBVIOUS
<1>1. UNCHANGED <<host, pc, params, loggers, todo, threads, serving, options, fault, starts>>
  BY DEF EditFile, RemovePath, vars
<1>2. TypeOK
  BY DEF IInv, WorkersAsConfigured
<1>3. /\ file' \in Configs \cup {Unreadable} /\ existing' \in SUBSET Paths
      /\ fault = "credentials" => existing' = existing
  BY <1>2, FilesAssumption DEF TypeOK, EditFile, RemovePath, Alive, vars
<1>4. TypeOK'
  BY <1>1, <1>2, <1>3 DEF TypeOK
<1>5. LoggersInv'
  BY <1>1 DEF IInv, LoggersInv
<1>6. SectionsInv'
  BY <1>1 DEF IInv, SectionsInv, MainShape, DataShape, KafkaShape
<1>7. ThreadsInv'
  BY <1>1, ParamsKept DEF IInv, ThreadsInv
<1>8. WorkersAsConfigured'
  BY <1>1, <1>4, ParamsKept DEF IInv, WorkersAsConfigured
<1>9. KeysAlwaysThere' /\ CredentialsChecked'
  BY <1>1, <1>3 DEF IInv, KeysAlwaysThere, CredentialsChecked
<1>10. ExitUnderWorkers'
  BY <1>1, ParamsKept DEF IInv, ExitUnderWorkers
<1>11. HostDeathsKnown'
  BY <1>1, ParamsKept DEF IInv, HostDeathsKnown
<1>12. LoadedInv'
  BY <1>1, LoadedKept
<1> QED
  BY <1>5, <1>6, <1>7, <1>8, <1>9, <1>10, <1>11, <1>12 DEF IInv

-----------------------------------------------------------------------------
(* The theorems.                                                           *)

\* Every step keeps the inductive invariant.
LEMMA NextIInv == IInv /\ [Next]_vars => IInv'
<1> SUFFICES ASSUME IInv, Next \/ UNCHANGED vars PROVE IInv'
  OBVIOUS
<1>1. CASE start_grpc_dialout_collector
  BY <1>1, BootIInv
<1>2. CASE StartStep
  BY <1>2, BootIInv, LoadLogsIInv, LoadSectionsIInv, BeforeThreadsIInv, CheckSocketsIInv,
     LoadThreadsIInv, StartedIInv DEF StartStep, LoadStep
<1>3. CASE WorkerStep
  BY <1>3, WorkerStartsIInv DEF WorkerStep
<1>4. CASE InitOptions \/ FreeOptions
  BY <1>4, HostReadsIInv
<1>5. CASE EditFile \/ RemovePath \/ UNCHANGED vars
  BY <1>5, EnvironmentIInv
<1> QED
  BY <1>1, <1>2, <1>3, <1>4, <1>5 DEF Next

\* The inductive invariant holds in every state of a start: the sections that
\* were loaded have the keys that are read later, and the types are kept.
THEOREM Invariant == Spec => []IInv
  BY InitIInv, NextIInv, PTL DEF Spec

\* No at() of LoadLabelMaps() or of a worker throws, whatever the files say and
\* however they are edited between the sections.
THEOREM NoKeyIsMissing == Spec => []KeysAlwaysThere
<1>1. IInv => KeysAlwaysThere
  BY DEF IInv
<1> QED
  BY <1>1, Invariant, PTL

\* slurp() fails only on a TLS file that went away after it was checked.
THEOREM TlsFilesWereThere == Spec => []CredentialsChecked
<1>1. IInv => CredentialsChecked
  BY DEF IInv
<1> QED
  BY <1>1, Invariant, PTL

\* A worker that delivers to Kafka has a topic and brokers that one file set.
THEOREM NoDummyDelivery == Spec => []RealDelivery
<1>1. IInv => RealDelivery
  <2> SUFFICES ASSUME IInv, NEW w \in Vendors, serving[w] > 0 PROVE RealDelivery
    BY DEF RealDelivery
  <2>1. serving[w] \in Nat /\ threads[w] \in Nat /\ serving[w] <= threads[w]
    BY DEF IInv, WorkersAsConfigured, TypeOK
  <2>2. threads[w] > 0
    BY <2>1
  <2>3. KafkaShape(params["kafka"], params["main"])
    BY <2>2 DEF IInv, ThreadsInv, Complete
  <2> QED
    BY <2>3 DEF RealDelivery, KafkaShape
<1> QED
  BY <1>1, Invariant, PTL

\* Threads are created for the vendors with a socket, as many as configured,
\* and within the arrays of start_grpc_dialout_collector().
THEOREM ThreadsAsConfigured == Spec => []WorkersAsConfigured
<1>1. IInv => WorkersAsConfigured
  BY DEF IInv
<1> QED
  BY <1>1, Invariant, PTL

\* The daemon exits under its workers only for the numbers of a later vendor.
THEOREM ExitsUnderWorkersKnown == Spec => []ExitUnderWorkers
<1>1. IInv => ExitUnderWorkers
  BY DEF IInv
<1> QED
  BY <1>1, Invariant, PTL

\* Before a worker exists start takes the host down for two known reasons only,
\* and InitOptions(), called at any time, only when a section it reads is not
\* loaded, or is being loaded, or some vendor has no socket.
THEOREM DeathsKnown == Spec => []HostDeathsKnown
<1>1. IInv => HostDeathsKnown
  BY DEF IInv
<1> QED
  BY <1>1, Invariant, PTL
=============================================================================
