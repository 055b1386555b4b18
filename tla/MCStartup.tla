----------------------------- MODULE MCStartup -----------------------------
(* The instance of Startup for TLC: three good files, and every file that    *)
(* differs from one of them in one key.                                     *)
EXTENDS Startup, TLC

MCVendors == {"cisco", "huawei"}
MCOrder == <<"cisco", "huawei">>
MCNumber == ("-1" :> -1) @@ ("0" :> 0) @@ ("1" :> 1) @@ ("2x" :> 2) @@ ("5" :> 5) @@ ("6" :> 6)
            @@ ("7" :> 7) @@ ("8" :> 8) @@ ("1000" :> 1000) @@ ("1001" :> 1001)

MCPaths == {"/run", "/cert", "/key", "/labels"}

KafkaFile ==
    [iface |-> "eth0", core_pid_folder |-> "/run", socket_cisco |-> "a:1", topic |-> "t",
     bootstrap_servers |-> "b:9", security_protocol |-> "plaintext"]

TlsFile ==
    [iface |-> "eth0", core_pid_folder |-> "/run", ipv4_socket_cisco |-> "a:1",
     socket_huawei |-> "a:2", cisco_workers |-> "2x", enable_tls |-> "true",
     tls_cert_path |-> "/cert", tls_key_path |-> "/key", topic |-> "t",
     bootstrap_servers |-> "b:9", security_protocol |-> "ssl", ssl_key_location |-> "/key",
     ssl_certificate_location |-> "/cert", ssl_ca_location |-> "/cert"]

ZmqFile ==
    [iface |-> "eth0", core_pid_folder |-> "/run", socket_cisco |-> "a:1",
     socket_huawei |-> "a:2", data_delivery_method |-> "zmq"]

Good == {KafkaFile, TlsFile, ZmqFile}

\* One changed value, of the kinds the code can tell apart.
Changes ==
    {"syslog" :> "", "syslog" :> "true", "spdlog_level" :> "loud", "console_log" :> Mistyped,
     "writer_id" :> "", "core_pid_folder" :> "/gone", "iface" :> "eth9",
     "so_bindtodevice_check" :> "false", "enable_tls" :> "yes", "enable_tls" :> "true",
     "tls_cert_path" :> "/gone", "tls_key_path" :> Mistyped, "socket_cisco" :> "",
     "socket_cisco" :> "used:1", "ipv4_socket_huawei" :> "", "ipv4_socket_huawei" :> "a:3",
     "ipv4_socket_huawei" :> Mistyped, "replies_cisco" :> "1000", "replies_cisco" :> "1001",
     "cisco_workers" :> "5", "cisco_workers" :> "6", "huawei_workers" :> "0",
     "huawei_workers" :> "many", "data_delivery_method" :> "zmq",
     "data_delivery_method" :> "kafka", "data_delivery_method" :> "amqp",
     "enable_cisco_gpbkv2json" :> "yes", "enable_cisco_gpbkv2json" :> "false",
     "enable_label_encode_as_map" :> "true",
     "topic" :> "", "log_level" :> "7", "log_level" :> "8", "log_level" :> "info",
     "security_protocol" :> "sasl", "security_protocol" :> "dummy_security_protocol",
     "security_protocol" :> "ssl", "enable_idempotence" :> "maybe",
     "bootstrap_servers" :> ":", "ssl_ca_location" :> "/gone"}

Labels == ("enable_label_encode_as_map_ptm" :> "true") @@ ("label_map_ptm_path" :> "/labels")

Without(f, k) == [x \in DOMAIN f \ {k} |-> f[x]]

MCConfigs ==
    Good \cup {Labels @@ f : f \in Good}
         \cup {c @@ f : c \in Changes, f \in Good}
         \cup UNION {{Without(f, k) : k \in DOMAIN f} : f \in Good}
=============================================================================
