---------------------------- MODULE MCKafkaPath ----------------------------
(* The instance of KafkaPath for TLC: the four vendors, one worker each.    *)
EXTENDS KafkaPath, TLC

AllVendors == {"Cisco", "Juniper", "Nokia", "Huawei"}
=============================================================================
