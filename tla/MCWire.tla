--------------------------------- MODULE MCWire ---------------------------------
(* The bounds of the run about messages and the image. Bounds that meet in one       *)
(* structure differ, so that one taken for another shows.                            *)
EXTENDS Wire

MCLimits ==
  [max_name_length |-> 2, max_metadata_bytes |-> 3, max_string_bytes |-> 4,
   max_record_depth |-> 2, max_record_fields |-> 2, max_condition_children |-> 2,
   max_condition_nodes |-> 2, max_feature_set_entries |-> 3, max_architecture_set_entries |-> 2,
   max_native_identifiers |-> 2, max_query_results |-> 2, max_comparison_entries |-> 2,
   max_snapshot_records |-> 2, max_quirks |-> 2, max_compatibility_facts |-> 2,
   max_publishers |-> 2, max_devices |-> 2, max_evidence_history |-> 2,
   max_persistence_bytes |-> 320]

================================================================================
