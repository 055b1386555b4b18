------------------------------- MODULE Config -------------------------------
(***************************************************************************)
(* The configuration sections (utils/cfg_handler.cc): what each lookup      *)
(* function makes of the file it reads.  A file is a function from the keys *)
(* it sets to their values; a value of another type than string is          *)
(* Mistyped.  A section is a function from keys to strings, as the maps     *)
(* main_cfg_parameters and its siblings are.                                *)
(***************************************************************************)
EXTENDS Integers, FiniteSets

CONSTANT Vendors    \* the vendors that can be configured

ASSUME VendorsAssumption == Vendors \subseteq {"cisco", "juniper", "nokia", "huawei"}

Mistyped == "<not a string>"
Invalid  == "<invalid>"                 \* what a load that returns false yields

Unreadable == [unreadable |-> "true"]   \* a file that is missing or does not parse
Failed     == [failed |-> "true"]       \* a section whose lookup returned false
NoParams   == [k \in {} |-> ""]         \* a section that was never loaded

Has(f, key) == key \in DOMAIN f

\* The entries of both, those of f where both have the key.
f ++ g == [k \in DOMAIN f \cup DOMAIN g |-> IF k \in DOMAIN f THEN f[k] ELSE g[k]]

\* The keys of lookup_main_parameters()'s table of vendors.
VendorKeys ==
    [cisco   |-> [socket |-> "socket_cisco", socket_legacy |-> "ipv4_socket_cisco",
                  replies |-> "replies_cisco", workers |-> "cisco_workers"],
     juniper |-> [socket |-> "socket_juniper", socket_legacy |-> "ipv4_socket_juniper",
                  replies |-> "replies_juniper", workers |-> "juniper_workers"],
     nokia   |-> [socket |-> "socket_nokia", socket_legacy |-> "ipv4_socket_nokia",
                  replies |-> "replies_nokia", workers |-> "nokia_workers"],
     huawei  |-> [socket |-> "socket_huawei", socket_legacy |-> "ipv4_socket_huawei",
                  replies |-> "replies_huawei", workers |-> "huawei_workers"]]

-----------------------------------------------------------------------------
(* The five ways to load a key of file f.                                  *)

\* ReadStringSetting(): "" when the key is absent, an error on another type.
ReadStringSetting(f, key) ==
    CASE ~Has(f, key)         -> ""
      [] Has(f, key) /\ f[key] = Mistyped -> Invalid
      [] OTHER                -> f[key]

LoadOptional(f, key, default) ==
    CASE ~Has(f, key)                                   -> default
      [] Has(f, key) /\ ReadStringSetting(f, key) = ""  -> Invalid
      [] OTHER                                          -> ReadStringSetting(f, key)

LoadOptionalEnum(f, key, default, allowed) ==
    CASE ~Has(f, key)                                        -> default
      [] Has(f, key) /\ ReadStringSetting(f, key) \in allowed -> f[key]
      [] OTHER                                               -> Invalid

LoadMandatory(f, key) ==
    IF ReadStringSetting(f, key) = "" THEN Invalid ELSE ReadStringSetting(f, key)

\* The path chosen, the default included, must exist.
LoadOptionalPath(f, key, default, existing) ==
    LET chosen == IF Has(f, key) THEN ReadStringSetting(f, key) ELSE default
    IN  IF chosen \in existing THEN chosen ELSE Invalid

\* A section is taken only when every load of it succeeded.
Section(m) == IF \E k \in DOMAIN m : m[k] = Invalid THEN Failed ELSE m

-----------------------------------------------------------------------------
(* The sections.                                                           *)

Bool == {"true", "false"}

Facilities ==
    {"LOG_DAEMON", "LOG_USER", "LOG_LOCAL0", "LOG_LOCAL1", "LOG_LOCAL2", "LOG_LOCAL3",
     "LOG_LOCAL4", "LOG_LOCAL5", "LOG_LOCAL6", "LOG_LOCAL7"}

lookup_logs_parameters(f) ==
    LET syslog == LoadOptional(f, "syslog", "false")
        on     == syslog = "true"
    IN  Section(
          [syslog          |-> syslog,
           syslog_facility |-> IF on THEN LoadOptionalEnum(f, "syslog_facility", "LOG_USER", Facilities)
                                     ELSE "NONE",
           syslog_ident    |-> IF on THEN LoadOptional(f, "syslog_ident", "mdt-dialout-collector")
                                     ELSE "NONE",
           console_log     |-> LoadOptional(f, "console_log", "true"),
           spdlog_level    |-> LoadOptionalEnum(f, "spdlog_level", "info",
                                   {"debug", "info", "warn", "error", "off"})])

\* Mutant: the two TLS files are not looked for when the section is loaded.
TlsPath_Unchecked(f, key, on, existing) ==
    IF ~on THEN "" ELSE IF Has(f, key) THEN ReadStringSetting(f, key) ELSE Invalid

\* tls_cert_path and tls_key_path: mandatory, and existing, with enable_tls.
TlsPath(f, key, on, existing) ==
    CASE ~on -> ""
      [] on /\ Has(f, key) /\ ReadStringSetting(f, key) \in existing -> ReadStringSetting(f, key)
      [] OTHER -> Invalid

\* socket_<vendor>, or its deprecated alias, which may be empty; "" disables
\* the vendor.
LoadSocket(f, v) ==
    LET keys == VendorKeys[v]
    IN  IF Has(f, keys.socket) THEN LoadOptional(f, keys.socket, "")
        ELSE ReadStringSetting(f, keys.socket_legacy)

\* A vendor's replies and workers have a default.
LoadVendorKey(f, v, field) ==
    CASE field = "socket"  -> LoadSocket(f, v)
      [] field = "replies" -> LoadOptional(f, VendorKeys[v].replies, "0")
      [] field = "workers" -> LoadOptional(f, VendorKeys[v].workers, "1")

\* One entry per vendor and field of pairs, under that vendor's key.
VendorEntries(f, pairs) ==
    [k \in {VendorKeys[p[1]][p[2]] : p \in pairs} |->
        LET p == CHOOSE q \in pairs : VendorKeys[q[1]][q[2]] = k
        IN  LoadVendorKey(f, p[1], p[2])]

lookup_main_parameters(f, existing) ==
    LET tls     == LoadOptionalEnum(f, "enable_tls", "false", Bool)
        enabled == {v \in Vendors : LoadSocket(f, v) # ""}
    IN  Section(
          [writer_id       |-> LoadOptional(f, "writer_id", "mdt-dialout-collector"),
           core_pid_folder |-> LoadOptionalPath(f, "core_pid_folder", "/var/run/", existing),
           iface           |-> LoadMandatory(f, "iface"),
           so_bindtodevice_check |-> LoadOptionalEnum(f, "so_bindtodevice_check", "true", Bool),
           enable_tls      |-> tls,
           tls_cert_path   |-> TlsPath(f, "tls_cert_path", tls = "true", existing),
           tls_key_path    |-> TlsPath(f, "tls_key_path", tls = "true", existing),
           data_delivery_method |->
               LoadOptionalEnum(f, "data_delivery_method", "kafka", {"kafka", "zmq"})]
          ++ VendorEntries(f, (Vendors \X {"socket"}) \cup (enabled \X {"replies", "workers"})))

\* The path of a label file is loaded only when its encoder is on.
LabelPath(f, on, key, default, existing) ==
    IF on THEN [k \in {key} |-> LoadOptionalPath(f, key, default, existing)] ELSE NoParams

\* The two Cisco paths must differ, as strings; the two label encoders must
\* not both be "true".
lookup_data_manipulation_parameters(f, existing) ==
    LET msg == LoadOptional(f, "enable_cisco_message_to_json_string", "false")
        kv  == LoadOptional(f, "enable_cisco_gpbkv2json", "true")
        csv == LoadOptional(f, "enable_label_encode_as_map", "false")
        ptm == LoadOptional(f, "enable_label_encode_as_map_ptm", "false")
    IN  IF msg = kv \/ (csv = "true" /\ ptm = "true")
        THEN Failed
        ELSE Section(
               [enable_cisco_message_to_json_string |-> msg,
                enable_cisco_gpbkv2json             |-> kv,
                enable_label_encode_as_map          |-> csv,
                enable_label_encode_as_map_ptm      |-> ptm]
               ++ LabelPath(f, csv = "true", "label_map_csv_path",
                     "/opt/mdt_dialout_collector/csv/label_map.csv", existing)
               ++ LabelPath(f, ptm = "true", "label_map_ptm_path",
                     "/opt/mdt_dialout_collector/ptm/label_map.ptm", existing))

\* A key that is mandatory with Kafka, and has a dummy value without.
LoadKafkaOnly(f, key, kafka_mode, dummy) ==
    IF Has(f, key) \/ kafka_mode THEN LoadMandatory(f, key) ELSE dummy

SslKeys(f) ==
    [ssl_key_location         |-> LoadMandatory(f, "ssl_key_location"),
     ssl_certificate_location |-> LoadMandatory(f, "ssl_certificate_location"),
     ssl_ca_location          |-> LoadMandatory(f, "ssl_ca_location"),
     ssl_key_password         |-> LoadOptional(f, "ssl_key_password", "NULL"),
     enable_ssl_certificate_verification |->
         LoadOptional(f, "enable_ssl_certificate_verification", "true")]

\* Mutant: the password has no default without SSL.
NoSslKeys_NoPassword ==
    [ssl_key_location |-> "NULL", ssl_certificate_location |-> "NULL",
     ssl_ca_location |-> "NULL", enable_ssl_certificate_verification |-> "false"]

NoSslKeys ==
    [ssl_key_location |-> "NULL", ssl_certificate_location |-> "NULL",
     ssl_ca_location |-> "NULL", ssl_key_password |-> "NULL",
     enable_ssl_certificate_verification |-> "false"]

KafkaSection(f, kafka_mode) ==
    LET protocol == LoadKafkaOnly(f, "security_protocol", kafka_mode, "dummy_security_protocol")
    IN  IF protocol \notin {"ssl", "plaintext", "dummy_security_protocol"}
        THEN Failed
        ELSE Section(
               [topic              |-> LoadKafkaOnly(f, "topic", kafka_mode, "dummy_topic"),
                bootstrap_servers  |-> LoadKafkaOnly(f, "bootstrap_servers", kafka_mode, "dummy_servers"),
                enable_idempotence |-> LoadOptionalEnum(f, "enable_idempotence", "true", Bool),
                client_id          |-> LoadOptional(f, "client_id", "mdt-dialout-collector"),
                log_level          |-> LoadOptional(f, "log_level", "6"),
                security_protocol  |-> protocol]
               ++ (IF protocol = "ssl" THEN SslKeys(f) ELSE NoSslKeys))

\* Mutant: the delivery method is read again, from the file.
lookup_kafka_parameters_Rereads(f, main) ==
    KafkaSection(f, ~Has(f, "data_delivery_method") \/ f["data_delivery_method"] = "kafka")

\* The delivery method is the one lookup_main_parameters() stored.
lookup_kafka_parameters(f, main) ==
    KafkaSection(f, main["data_delivery_method"] = "kafka")

lookup_zmq_parameters(uri, main) ==
    [zmq_uri |-> CASE main["data_delivery_method"] # "zmq" -> "ipc:///tmp/dummy.sock"
                   [] main["data_delivery_method"] = "zmq" ->
                        IF uri = "" THEN "ipc:///tmp/grpc.sock" ELSE uri]
=============================================================================
