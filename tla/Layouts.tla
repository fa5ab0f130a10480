-------------------------------- MODULE Layouts --------------------------------
(* What each write_ and read_ function of codec.cpp, protocol.cpp and               *)
(* persistence.cpp writes and reads, field by field. The two layouts of a structure *)
(* are two functions of the code, and nothing there ties one to the other.          *)
EXTENDS Codec

CONSTANTS
  kSelectors,   \* ids per selector list of a quirk (1024 in the code)
  kRanges,      \* ranges per selector list of a quirk (64 in the code)
  kImageSchemas,\* schemas in an image (16 for each of max_families in the code)
  kImageBoots   \* watermarks and fenced boots in an image (64 for each of max_publishers)

--------------------------------------------------------------------------------
(* Identities, environment and provenance. *)

WritePublisherIdentity == Struct(<< <<"id", Id>>, <<"boot", Gen>>, <<"epoch", Gen>> >>)
ReadPublisherIdentity == Struct(<< <<"id", Id>>, <<"boot", Gen>>, <<"epoch", Gen>> >>)

\* Facts in the order of their keys; keys are folded to lower case when they are set, so
\* setting them again while reading changes nothing.
WriteEnvironment ==
  Many(limits.max_query_results, Struct(<< <<"key", Name>>, <<"value", Metadata>> >>))
ReadEnvironment ==
  Many(limits.max_query_results, Struct(<< <<"key", Name>>, <<"value", Metadata>> >>))

WriteEvidenceSource ==
  Struct(<< <<"source_class", Enum(16)>>, <<"provenance", Enum(8)>>,
            <<"publisher", WritePublisherIdentity>>, <<"adapter", Metadata>>,
            <<"native_reference", Metadata>>, <<"observation_sequence", U64>>,
            <<"observed_at_utc", Metadata>>, <<"evidence_generation", Gen>>,
            <<"platform_generation", U64>> >>)
ReadEvidenceSource ==
  Struct(<< <<"source_class", Enum(16)>>, <<"provenance", Enum(8)>>,
            <<"publisher", ReadPublisherIdentity>>, <<"adapter", Metadata>>,
            <<"native_reference", Metadata>>, <<"observation_sequence", U64>>,
            <<"observed_at_utc", Metadata>>, <<"evidence_generation", Gen>>,
            <<"platform_generation", U64>> >>)

NativeIdentifiers ==
  Many(limits.max_native_identifiers, Struct(<< <<"key", Name>>, <<"value", Metadata>> >>))

WriteHardwareIdentity ==
  Struct(<< <<"vendor", Id>>, <<"product", Id>>, <<"family", Id>>, <<"model", Id>>,
            <<"revision", Id>>, <<"architecture", Id>>, <<"hardware_class", Enum(22)>>,
            <<"native_identifiers", NativeIdentifiers>> >>)
ReadHardwareIdentity ==
  Struct(<< <<"vendor", Id>>, <<"product", Id>>, <<"family", Id>>, <<"model", Id>>,
            <<"revision", Id>>, <<"architecture", Id>>, <<"hardware_class", Enum(22)>>,
            <<"native_identifiers", NativeIdentifiers>> >>)

WritePlatformIdentity ==
  Struct(<< <<"id", Id>>, <<"display_name", Name>>, <<"vendor", Name>>, <<"model", Name>>,
            <<"architecture", Id>>, <<"native_identifiers", NativeIdentifiers>> >>)
ReadPlatformIdentity ==
  Struct(<< <<"id", Id>>, <<"display_name", Name>>, <<"vendor", Name>>, <<"model", Name>>,
            <<"architecture", Id>>, <<"native_identifiers", NativeIdentifiers>> >>)

WriteDeviceIdentity ==
  Struct(<< <<"id", Id>>, <<"incarnation", Id>>, <<"hardware", WriteHardwareIdentity>>,
            <<"platform", Id>>, <<"serial_number", Maybe(Metadata)>>,
            <<"instance_locator", Maybe(Metadata)>>, <<"display_name", Name>> >>)
ReadDeviceIdentity ==
  Struct(<< <<"id", Id>>, <<"incarnation", Id>>, <<"hardware", ReadHardwareIdentity>>,
            <<"platform", Id>>, <<"serial_number", Maybe(Metadata)>>,
            <<"instance_locator", Maybe(Metadata)>>, <<"display_name", Name>> >>)

WriteSoftwareState ==
  Struct(<< <<"firmware_id", Id>>, <<"firmware_version", Name>>, <<"firmware_build", Name>>,
            <<"firmware_generation", Gen>>, <<"driver_id", Id>>, <<"driver_version", Name>>,
            <<"driver_generation", Gen>>, <<"runtime_id", Id>>, <<"runtime_version", Name>>,
            <<"runtime_generation", Gen>> >>)
\* A reader that takes the build of the firmware for its version.
ReadSoftwareStateCrossed ==
  Struct(<< <<"firmware_id", Id>>, <<"firmware_build", Name>>, <<"firmware_version", Name>>,
            <<"firmware_generation", Gen>>, <<"driver_id", Id>>, <<"driver_version", Name>>,
            <<"driver_generation", Gen>>, <<"runtime_id", Id>>, <<"runtime_version", Name>>,
            <<"runtime_generation", Gen>> >>)
ReadSoftwareState ==
  Struct(<< <<"firmware_id", Id>>, <<"firmware_version", Name>>, <<"firmware_build", Name>>,
            <<"firmware_generation", Gen>>, <<"driver_id", Id>>, <<"driver_version", Name>>,
            <<"driver_generation", Gen>>, <<"runtime_id", Id>>, <<"runtime_version", Name>>,
            <<"runtime_generation", Gen>> >>)

WriteDeviceRegistration ==
  Struct(<< <<"identity", WriteDeviceIdentity>>, <<"software", WriteSoftwareState>>,
            <<"platform", WritePlatformIdentity>>, <<"device_boot_observed", Flag>>,
            <<"observation_sequence", U64>>, <<"observed_at_utc", Metadata>> >>)
ReadDeviceRegistration ==
  Struct(<< <<"identity", ReadDeviceIdentity>>, <<"software", ReadSoftwareState>>,
            <<"platform", ReadPlatformIdentity>>, <<"device_boot_observed", Flag>>,
            <<"observation_sequence", U64>>, <<"observed_at_utc", Metadata>> >>)

--------------------------------------------------------------------------------
(* Knowledge: schemas, evidence, quirks, compatibility facts. *)

WriteCapabilitySchema ==
  Struct(<< <<"id", Id>>, <<"capability", Id>>, <<"domain", Enum(9)>>,
            <<"value_kind", Enum(14)>>, <<"canonical_name", Name>>, <<"unit", Metadata>> >>)
ReadCapabilitySchema ==
  Struct(<< <<"id", Id>>, <<"capability", Id>>, <<"domain", Enum(9)>>,
            <<"value_kind", Enum(14)>>, <<"canonical_name", Name>>, <<"unit", Metadata>> >>)

WriteCapabilityRecord ==
  Struct(<< <<"device", Id>>, <<"device_generation", Gen>>, <<"device_boot", Gen>>,
            <<"capability", Id>>, <<"schema", Id>>, <<"capability_generation", Gen>>,
            <<"support", Enum(8)>>, <<"value", Value(1)>>, <<"precision", Enum(6)>>,
            <<"source", WriteEvidenceSource>>, <<"conditions", Condition(1)>>,
            <<"firmware_generation", Gen>>, <<"driver_generation", Gen>>,
            <<"runtime_generation", Gen>>, <<"platform_generation", Gen>>,
            <<"driver_id", Id>>, <<"firmware_id", Id>>, <<"runtime_id", Id>>,
            <<"withdrawn", Flag>> >>)
ReadCapabilityRecord ==
  Struct(<< <<"device", Id>>, <<"device_generation", Gen>>, <<"device_boot", Gen>>,
            <<"capability", Id>>, <<"schema", Id>>, <<"capability_generation", Gen>>,
            <<"support", Enum(8)>>, <<"value", Value(1)>>, <<"precision", Enum(6)>>,
            <<"source", ReadEvidenceSource>>, <<"conditions", Condition(1)>>,
            <<"firmware_generation", Gen>>, <<"driver_generation", Gen>>,
            <<"runtime_generation", Gen>>, <<"platform_generation", Gen>>,
            <<"driver_id", Id>>, <<"firmware_id", Id>>, <<"runtime_id", Id>>,
            <<"withdrawn", Flag>> >>)

Selectors == Many(kSelectors, Id)
WriteRanges == Many(kRanges, WriteVersionRange)
ReadRanges == Many(kRanges, ReadVersionRange)
RevisionRanges == Many(kRanges, Struct(<< <<"minimum", Metadata>>, <<"maximum", Metadata>> >>))

WriteQuirkRecord ==
  Struct(<< <<"id", Id>>, <<"quirk_generation", Gen>>, <<"title", Name>>,
            <<"description", Metadata>>, <<"category", Enum(10)>>, <<"severity", Enum(4)>>,
            <<"mitigation", Enum(9)>>, <<"vendors", Selectors>>, <<"families", Selectors>>,
            <<"models", Selectors>>, <<"devices", Selectors>>, <<"revisions", Selectors>>,
            <<"architectures", Selectors>>, <<"revision_ranges", RevisionRanges>>,
            <<"driver_ranges", WriteRanges>>, <<"firmware_ranges", WriteRanges>>,
            <<"runtime_ranges", WriteRanges>>, <<"platform_conditions", Condition(1)>>,
            <<"impacted_capabilities", Selectors>>, <<"source", WriteEvidenceSource>>,
            <<"withdrawn", Flag>> >>)
ReadQuirkRecord ==
  Struct(<< <<"id", Id>>, <<"quirk_generation", Gen>>, <<"title", Name>>,
            <<"description", Metadata>>, <<"category", Enum(10)>>, <<"severity", Enum(4)>>,
            <<"mitigation", Enum(9)>>, <<"vendors", Selectors>>, <<"families", Selectors>>,
            <<"models", Selectors>>, <<"devices", Selectors>>, <<"revisions", Selectors>>,
            <<"architectures", Selectors>>, <<"revision_ranges", RevisionRanges>>,
            <<"driver_ranges", ReadRanges>>, <<"firmware_ranges", ReadRanges>>,
            <<"runtime_ranges", ReadRanges>>, <<"platform_conditions", Condition(1)>>,
            <<"impacted_capabilities", Selectors>>, <<"source", ReadEvidenceSource>>,
            <<"withdrawn", Flag>> >>)

WriteHardwareReference ==
  Struct(<< <<"kind", Enum(8)>>, <<"token", Str(kMaxTokenLength)>>, <<"version", Version>> >>)
ReadHardwareReference ==
  Struct(<< <<"kind", Enum(8)>>, <<"token", Str(kMaxTokenLength)>>, <<"version", Version>> >>)

WriteCompatibilityFact ==
  Struct(<< <<"id", Id>>, <<"compatibility_generation", Gen>>, <<"kind", Enum(12)>>,
            <<"lhs", WriteHardwareReference>>, <<"rhs", WriteHardwareReference>>,
            <<"outcome", Enum(5)>>, <<"conditions", Condition(1)>>,
            <<"version_window", WriteVersionRange>>, <<"reason", Metadata>>,
            <<"source", WriteEvidenceSource>>, <<"withdrawn", Flag>> >>)
ReadCompatibilityFact ==
  Struct(<< <<"id", Id>>, <<"compatibility_generation", Gen>>, <<"kind", Enum(12)>>,
            <<"lhs", ReadHardwareReference>>, <<"rhs", ReadHardwareReference>>,
            <<"outcome", Enum(5)>>, <<"conditions", Condition(1)>>,
            <<"version_window", ReadVersionRange>>, <<"reason", Metadata>>,
            <<"source", ReadEvidenceSource>>, <<"withdrawn", Flag>> >>)

--------------------------------------------------------------------------------
(* Answers: subjects, publishers, evidence, resolutions, comparisons, snapshots. *)

WriteSubjectSnapshot ==
  Struct(<< <<"identity", WriteDeviceIdentity>>, <<"software", WriteSoftwareState>>,
            <<"generation", Gen>>, <<"boot", Gen>>, <<"platform_generation", Gen>>,
            <<"classification", Enum(3)>>, <<"capability_count", U64>>,
            <<"current_count", U64>>, <<"unknown_count", U64>>, <<"unsupported_count", U64>>,
            <<"stale_count", U64>>, <<"applicable_quirk_count", U64>> >>)
ReadSubjectSnapshot ==
  Struct(<< <<"identity", ReadDeviceIdentity>>, <<"software", ReadSoftwareState>>,
            <<"generation", Gen>>, <<"boot", Gen>>, <<"platform_generation", Gen>>,
            <<"classification", Enum(3)>>, <<"capability_count", U64>>,
            <<"current_count", U64>>, <<"unknown_count", U64>>, <<"unsupported_count", U64>>,
            <<"stale_count", U64>>, <<"applicable_quirk_count", U64>> >>)

WritePublisherRecord ==
  Struct(<< <<"identity", WritePublisherIdentity>>, <<"state", Enum(3)>>,
            <<"adapter", Metadata>>, <<"last_sequence", U64>>,
            <<"max_evidence_generation", Gen>>, <<"accepted", U64>>, <<"rejected", U64>>,
            <<"reason", Metadata>>, <<"registered_at_utc", Metadata>>, <<"boot_history", U64>> >>)
ReadPublisherRecord ==
  Struct(<< <<"identity", ReadPublisherIdentity>>, <<"state", Enum(3)>>,
            <<"adapter", Metadata>>, <<"last_sequence", U64>>,
            <<"max_evidence_generation", Gen>>, <<"accepted", U64>>, <<"rejected", U64>>,
            <<"reason", Metadata>>, <<"registered_at_utc", Metadata>>, <<"boot_history", U64>> >>)

WriteEvidenceView ==
  Struct(<< <<"capability_generation", Gen>>, <<"support", Enum(8)>>, <<"value", Value(1)>>,
            <<"precision", Enum(6)>>, <<"source", WriteEvidenceSource>>, <<"staleness", U32>>,
            <<"winner", Flag>>, <<"withdrawn", Flag>> >>)
ReadEvidenceView ==
  Struct(<< <<"capability_generation", Gen>>, <<"support", Enum(8)>>, <<"value", Value(1)>>,
            <<"precision", Enum(6)>>, <<"source", ReadEvidenceSource>>, <<"staleness", U32>>,
            <<"winner", Flag>>, <<"withdrawn", Flag>> >>)

WriteQuirkApplication ==
  Struct(<< <<"id", Id>>, <<"quirk_generation", Gen>>, <<"severity", Enum(4)>>,
            <<"mitigation", Enum(9)>>, <<"result", Enum(2)>>, <<"reason", Metadata>>,
            <<"title", Name>> >>)
\* A reader that takes any result of an application.
ReadQuirkApplicationOpen ==
  Struct(<< <<"id", Id>>, <<"quirk_generation", Gen>>, <<"severity", Enum(4)>>,
            <<"mitigation", Enum(9)>>, <<"result", U16>>, <<"reason", Metadata>>,
            <<"title", Name>> >>)
ReadQuirkApplication ==
  Struct(<< <<"id", Id>>, <<"quirk_generation", Gen>>, <<"severity", Enum(4)>>,
            <<"mitigation", Enum(9)>>, <<"result", Enum(2)>>, <<"reason", Metadata>>,
            <<"title", Name>> >>)

WriteConditionEvaluation ==
  Struct(<< <<"outcome", Enum(3)>>,
            <<"evidence", Many(limits.max_condition_nodes,
                               Struct(<< <<"expression", Metadata>>, <<"outcome", Enum(3)>>,
                                         <<"detail", Metadata>> >>))>> >>)
ReadConditionEvaluation ==
  Struct(<< <<"outcome", Enum(3)>>,
            <<"evidence", Many(limits.max_condition_nodes,
                               Struct(<< <<"expression", Metadata>>, <<"outcome", Enum(3)>>,
                                         <<"detail", Metadata>> >>))>> >>)

WriteResolvedCapability ==
  Struct(<< <<"device", Id>>, <<"device_generation", Gen>>, <<"device_boot", Gen>>,
            <<"capability", Id>>, <<"schema", Id>>, <<"capability_generation", Gen>>,
            <<"declared_support", Enum(8)>>, <<"effective_support", Enum(8)>>,
            <<"value", Value(1)>>, <<"precision", Enum(6)>>, <<"truth", Enum(3)>>,
            <<"contradiction", Enum(5)>>, <<"staleness", U32>>, <<"conditions", Condition(1)>>,
            <<"condition_evaluation", WriteConditionEvaluation>>,
            <<"quirks", Many(limits.max_query_results, WriteQuirkApplication)>>,
            <<"evidence", Many(limits.max_query_results, WriteEvidenceView)>>,
            <<"firmware_generation", Gen>>, <<"driver_generation", Gen>>,
            <<"runtime_generation", Gen>>, <<"current", Flag>>, <<"known", Flag>>,
            <<"explanation", LongText>> >>)
ReadResolvedCapability ==
  Struct(<< <<"device", Id>>, <<"device_generation", Gen>>, <<"device_boot", Gen>>,
            <<"capability", Id>>, <<"schema", Id>>, <<"capability_generation", Gen>>,
            <<"declared_support", Enum(8)>>, <<"effective_support", Enum(8)>>,
            <<"value", Value(1)>>, <<"precision", Enum(6)>>, <<"truth", Enum(3)>>,
            <<"contradiction", Enum(5)>>, <<"staleness", U32>>, <<"conditions", Condition(1)>>,
            <<"condition_evaluation", ReadConditionEvaluation>>,
            <<"quirks", Many(limits.max_query_results, ReadQuirkApplication)>>,
            <<"evidence", Many(limits.max_query_results, ReadEvidenceView)>>,
            <<"firmware_generation", Gen>>, <<"driver_generation", Gen>>,
            <<"runtime_generation", Gen>>, <<"current", Flag>>, <<"known", Flag>>,
            <<"explanation", LongText>> >>)

Differences ==
  Many(limits.max_comparison_entries,
       Struct(<< <<"capability", Id>>, <<"kind", Enum(15)>>, <<"left_effective", Enum(8)>>,
                 <<"right_effective", Enum(8)>>, <<"detail", Metadata>> >>))

WriteDeviceComparison ==
  Struct(<< <<"left", Id>>, <<"right", Id>>, <<"left_generation", Gen>>,
            <<"right_generation", Gen>>, <<"left_software", Name>>, <<"right_software", Name>>,
            <<"differences", Differences>>,
            <<"equivalent", Many(limits.max_comparison_entries, Id)>>,
            <<"explanation", LongText>> >>)
ReadDeviceComparison ==
  Struct(<< <<"left", Id>>, <<"right", Id>>, <<"left_generation", Gen>>,
            <<"right_generation", Gen>>, <<"left_software", Name>>, <<"right_software", Name>>,
            <<"differences", Differences>>,
            <<"equivalent", Many(limits.max_comparison_entries, Id)>>,
            <<"explanation", LongText>> >>)

WriteRegistrySnapshot ==
  Struct(<< <<"generation", Gen>>, <<"epoch", Gen>>, <<"state_revision", U64>>,
            <<"created_at_utc", Metadata>>,
            <<"subjects", Many(limits.max_snapshot_records, WriteSubjectSnapshot)>>,
            <<"capabilities", Many(limits.max_snapshot_records, WriteResolvedCapability)>>,
            <<"quirks", Many(limits.max_quirks, WriteQuirkRecord)>>,
            <<"compatibility", Many(limits.max_compatibility_facts, WriteCompatibilityFact)>>,
            <<"publishers", Many(limits.max_publishers, WritePublisherRecord)>>,
            <<"real_statements", U64>>, <<"synthetic_statements", U64>>,
            <<"unsupported_statements", U64>>, <<"unknown_statements", U64>>,
            <<"stale_evidence_records", U64>>, <<"canonical_digest", U64>> >>)
ReadRegistrySnapshot ==
  Struct(<< <<"generation", Gen>>, <<"epoch", Gen>>, <<"state_revision", U64>>,
            <<"created_at_utc", Metadata>>,
            <<"subjects", Many(limits.max_snapshot_records, ReadSubjectSnapshot)>>,
            <<"capabilities", Many(limits.max_snapshot_records, ReadResolvedCapability)>>,
            <<"quirks", Many(limits.max_quirks, ReadQuirkRecord)>>,
            <<"compatibility", Many(limits.max_compatibility_facts, ReadCompatibilityFact)>>,
            <<"publishers", Many(limits.max_publishers, ReadPublisherRecord)>>,
            <<"real_statements", U64>>, <<"synthetic_statements", U64>>,
            <<"unsupported_statements", U64>>, <<"unknown_statements", U64>>,
            <<"stale_evidence_records", U64>>, <<"canonical_digest", U64>> >>)

--------------------------------------------------------------------------------
(* Publications and queries. *)

WritePublication ==
  Struct(<< <<"kind", Enum(10)>>, <<"publisher", WritePublisherIdentity>>, <<"sequence", U64>>,
            <<"evidence_generation", Gen>>, <<"device", WriteDeviceRegistration>>,
            <<"capability", WriteCapabilityRecord>>, <<"quirk", WriteQuirkRecord>>,
            <<"compatibility", WriteCompatibilityFact>>, <<"schema", WriteCapabilitySchema>>,
            <<"reason", Metadata>>, <<"issued_at_utc", Metadata>> >>)
ReadPublication ==
  Struct(<< <<"kind", Enum(10)>>, <<"publisher", ReadPublisherIdentity>>, <<"sequence", U64>>,
            <<"evidence_generation", Gen>>, <<"device", ReadDeviceRegistration>>,
            <<"capability", ReadCapabilityRecord>>, <<"quirk", ReadQuirkRecord>>,
            <<"compatibility", ReadCompatibilityFact>>, <<"schema", ReadCapabilitySchema>>,
            <<"reason", Metadata>>, <<"issued_at_utc", Metadata>> >>)

WriteCapabilityQuery ==
  Struct(<< <<"device", Id>>, <<"device_generation", Gen>>, <<"capability", Id>>,
            <<"environment", WriteEnvironment>>, <<"include_evidence", Flag>> >>)
ReadCapabilityQuery ==
  Struct(<< <<"device", Id>>, <<"device_generation", Gen>>, <<"capability", Id>>,
            <<"environment", ReadEnvironment>>, <<"include_evidence", Flag>> >>)

WriteDeviceCapabilityQuery ==
  Struct(<< <<"device", Id>>, <<"device_generation", Gen>>, <<"environment", WriteEnvironment>>,
            <<"capability_prefix", Name>>, <<"domain", Maybe(Enum(9))>>,
            <<"declared_filter", Maybe(Enum(8))>>, <<"effective_filter", Maybe(Enum(8))>>,
            <<"truth_filter", Maybe(Enum(3))>>, <<"only_conditional", Flag>>,
            <<"only_unknown", Flag>>, <<"only_unsupported", Flag>>, <<"only_stale", Flag>>,
            <<"only_current", Flag>>, <<"max_results", U64>> >>)
ReadDeviceCapabilityQuery ==
  Struct(<< <<"device", Id>>, <<"device_generation", Gen>>, <<"environment", ReadEnvironment>>,
            <<"capability_prefix", Name>>, <<"domain", Maybe(Enum(9))>>,
            <<"declared_filter", Maybe(Enum(8))>>, <<"effective_filter", Maybe(Enum(8))>>,
            <<"truth_filter", Maybe(Enum(3))>>, <<"only_conditional", Flag>>,
            <<"only_unknown", Flag>>, <<"only_unsupported", Flag>>, <<"only_stale", Flag>>,
            <<"only_current", Flag>>, <<"max_results", U64>> >>)

WriteFleetQuery ==
  Struct(<< <<"capability", Id>>, <<"environment", WriteEnvironment>>,
            <<"effective_filter", Maybe(Enum(8))>>, <<"truth_filter", Maybe(Enum(3))>>,
            <<"hardware_class", Maybe(Enum(22))>>, <<"only_current", Flag>>,
            <<"max_results", U64>> >>)
ReadFleetQuery ==
  Struct(<< <<"capability", Id>>, <<"environment", ReadEnvironment>>,
            <<"effective_filter", Maybe(Enum(8))>>, <<"truth_filter", Maybe(Enum(3))>>,
            <<"hardware_class", Maybe(Enum(22))>>, <<"only_current", Flag>>,
            <<"max_results", U64>> >>)

WriteStaleQuery ==
  Struct(<< <<"device", Id>>, <<"device_generation", Gen>>, <<"environment", WriteEnvironment>>,
            <<"max_results", U64>> >>)
ReadStaleQuery ==
  Struct(<< <<"device", Id>>, <<"device_generation", Gen>>, <<"environment", ReadEnvironment>>,
            <<"max_results", U64>> >>)

WriteQuirkQuery ==
  Struct(<< <<"device", Maybe(Id)>>, <<"environment", WriteEnvironment>>,
            <<"capability", Maybe(Id)>>, <<"only_applicable", Flag>>, <<"max_results", U64>> >>)
ReadQuirkQuery ==
  Struct(<< <<"device", Maybe(Id)>>, <<"environment", ReadEnvironment>>,
            <<"capability", Maybe(Id)>>, <<"only_applicable", Flag>>, <<"max_results", U64>> >>)

WriteCompatibilityQuery ==
  Struct(<< <<"reference", Maybe(WriteHardwareReference)>>, <<"kind", Maybe(Enum(12))>>,
            <<"include_withdrawn", Flag>>, <<"max_results", U64>> >>)
ReadCompatibilityQuery ==
  Struct(<< <<"reference", Maybe(ReadHardwareReference)>>, <<"kind", Maybe(Enum(12))>>,
            <<"include_withdrawn", Flag>>, <<"max_results", U64>> >>)

WriteComparisonRequest ==
  Struct(<< <<"left", Id>>, <<"right", Id>>, <<"left_generation", Gen>>,
            <<"right_generation", Gen>>, <<"environment", WriteEnvironment>> >>)
ReadComparisonRequest ==
  Struct(<< <<"left", Id>>, <<"right", Id>>, <<"left_generation", Gen>>,
            <<"right_generation", Gen>>, <<"environment", ReadEnvironment>> >>)

WritePublisherQuery == Struct(<< <<"state", Maybe(Enum(3))>>, <<"max_results", U64>> >>)
ReadPublisherQuery == Struct(<< <<"state", Maybe(Enum(3))>>, <<"max_results", U64>> >>)

--------------------------------------------------------------------------------
(* Messages. Query kinds: capability, device capabilities, fleet, stale capabilities, *)
(* quirks, quirk records, compatibility, compare, devices, publishers, snapshot,      *)
(* explain.                                                                           *)

Unused == Fixed(8, 0)

WriteQueryRequest ==
  Choice(<<WriteCapabilityQuery, WriteDeviceCapabilityQuery, WriteFleetQuery, WriteStaleQuery,
           WriteQuirkQuery, Unused, WriteCompatibilityQuery, WriteComparisonRequest, Id,
           WritePublisherQuery, Unused, WriteCapabilityQuery>>)
ReadQueryRequest ==
  Choice(<<ReadCapabilityQuery, ReadDeviceCapabilityQuery, ReadFleetQuery, ReadStaleQuery,
           ReadQuirkQuery, U64, ReadCompatibilityQuery, ReadComparisonRequest, Id,
           ReadPublisherQuery, U64, ReadCapabilityQuery>>)

WriteQueryResponse ==
  LET resolved == Many(limits.max_query_results, WriteResolvedCapability)
  IN  Struct(<< <<"code", Enum(30)>>, <<"message", LongText>>,
                <<"answer",
                  Choice(<<WriteResolvedCapability, resolved, resolved, resolved,
                           Many(limits.max_query_results, WriteQuirkApplication),
                           Many(limits.max_quirks, WriteQuirkRecord),
                           Many(limits.max_compatibility_facts, WriteCompatibilityFact),
                           WriteDeviceComparison,
                           Many(limits.max_devices, WriteSubjectSnapshot),
                           Many(limits.max_publishers, WritePublisherRecord),
                           WriteRegistrySnapshot, WriteResolvedCapability>>)>>,
                <<"text", LongText>> >>)
ReadQueryResponse ==
  LET resolved == Many(limits.max_query_results, ReadResolvedCapability)
  IN  Struct(<< <<"code", Enum(30)>>, <<"message", LongText>>,
                <<"answer",
                  Choice(<<ReadResolvedCapability, resolved, resolved, resolved,
                           Many(limits.max_query_results, ReadQuirkApplication),
                           Many(limits.max_quirks, ReadQuirkRecord),
                           Many(limits.max_compatibility_facts, ReadCompatibilityFact),
                           ReadDeviceComparison,
                           Many(limits.max_devices, ReadSubjectSnapshot),
                           Many(limits.max_publishers, ReadPublisherRecord),
                           ReadRegistrySnapshot, ReadResolvedCapability>>)>>,
                <<"text", LongText>> >>)

WriteHello ==
  Struct(<< <<"protocol_version", U32>>, <<"agent", Metadata>>, <<"role", Metadata>>,
            <<"nonce", U64>> >>)
ReadHello ==
  Struct(<< <<"protocol_version", U32>>, <<"agent", Metadata>>, <<"role", Metadata>>,
            <<"nonce", U64>> >>)

WriteWelcome ==
  Struct(<< <<"protocol_version", U32>>, <<"epoch", U64>>, <<"coordinator_name", Metadata>> >>)
ReadWelcome ==
  Struct(<< <<"protocol_version", U32>>, <<"epoch", U64>>, <<"coordinator_name", Metadata>> >>)

WriteRegisterPublisher ==
  Struct(<< <<"identity", WritePublisherIdentity>>, <<"adapter", Metadata>>, <<"agent", Metadata>> >>)
ReadRegisterPublisher ==
  Struct(<< <<"identity", ReadPublisherIdentity>>, <<"adapter", Metadata>>, <<"agent", Metadata>> >>)

WritePublisherAccepted ==
  Struct(<< <<"code", Enum(18)>>, <<"epoch", U64>>, <<"identity", WritePublisherIdentity>>,
            <<"detail", Metadata>> >>)
ReadPublisherAccepted ==
  Struct(<< <<"code", Enum(18)>>, <<"epoch", U64>>, <<"identity", ReadPublisherIdentity>>,
            <<"detail", Metadata>> >>)

WritePublicationAccepted ==
  Struct(<< <<"code", Enum(18)>>, <<"detail", Metadata>>, <<"device_generation", U64>>,
            <<"device_boot", U64>> >>)
ReadPublicationAccepted ==
  Struct(<< <<"code", Enum(18)>>, <<"detail", Metadata>>, <<"device_generation", U64>>,
            <<"device_boot", U64>> >>)

WriteFencePublisher == Struct(<< <<"publisher", Id>>, <<"reason", Metadata>> >>)
ReadFencePublisher == Struct(<< <<"publisher", Id>>, <<"reason", Metadata>> >>)
WriteFenceAccepted == Struct(<< <<"code", Enum(18)>>, <<"detail", Metadata>> >>)
ReadFenceAccepted == Struct(<< <<"code", Enum(18)>>, <<"detail", Metadata>> >>)
WriteShutdown == Struct(<< <<"reason", Metadata>> >>)
ReadShutdown == Struct(<< <<"reason", Metadata>> >>)
WriteErrorMessage == Struct(<< <<"code", Enum(30)>>, <<"message", LongText>> >>)
ReadErrorMessage == Struct(<< <<"code", Enum(30)>>, <<"message", LongText>> >>)
WriteHeartbeat == Struct(<< <<"sequence", U64>>, <<"identity", WritePublisherIdentity>> >>)
ReadHeartbeat == Struct(<< <<"sequence", U64>>, <<"identity", ReadPublisherIdentity>> >>)

--------------------------------------------------------------------------------
(* The durable image. *)

\* A watermark is written behind a publisher identity without an epoch.
WritePublisherWatermark ==
  Struct(<< <<"publisher", Id>>, <<"boot", Gen>>, <<"no_epoch", Unused>>,
            <<"max_sequence", U64>>, <<"max_evidence_generation", U64>>, <<"state", Enum(3)>>,
            <<"adapter", Metadata>>, <<"reason", Metadata>>, <<"accepted", U64>>,
            <<"rejected", U64>>, <<"registered_at_utc", Metadata>> >>)
ReadPublisherWatermark ==
  Struct(<< <<"publisher", Id>>, <<"boot", Gen>>, <<"no_epoch", U64>>,
            <<"max_sequence", U64>>, <<"max_evidence_generation", U64>>, <<"state", Enum(3)>>,
            <<"adapter", Metadata>>, <<"reason", Metadata>>, <<"accepted", U64>>,
            <<"rejected", U64>>, <<"registered_at_utc", Metadata>> >>)

WriteDurableState ==
  Struct(<< <<"format_version", Fixed(4, 1)>>, <<"epoch", U64>>, <<"snapshot_generation", U64>>,
            <<"state_revision", U64>>, <<"created_at_utc", Metadata>>, <<"producer", Metadata>>,
            <<"platforms", Many(limits.max_devices, WritePlatformIdentity)>>,
            <<"subjects", Many(limits.max_devices, WriteSubjectSnapshot)>>,
            <<"schemas", Many(kImageSchemas, WriteCapabilitySchema)>>,
            <<"capability_history", Many(limits.max_evidence_history, WriteCapabilityRecord)>>,
            <<"quirks", Many(limits.max_quirks, WriteQuirkRecord)>>,
            <<"compatibility", Many(limits.max_compatibility_facts, WriteCompatibilityFact)>>,
            <<"publisher_watermarks", Many(kImageBoots, WritePublisherWatermark)>>,
            <<"fenced_boots", Many(kImageBoots, WritePublisherWatermark)>>,
            <<"canonical_digest", U64>> >>)
ReadDurableState ==
  Struct(<< <<"format_version", Fixed(4, 1)>>, <<"epoch", U64>>, <<"snapshot_generation", U64>>,
            <<"state_revision", U64>>, <<"created_at_utc", Metadata>>, <<"producer", Metadata>>,
            <<"platforms", Many(limits.max_devices, ReadPlatformIdentity)>>,
            <<"subjects", Many(limits.max_devices, ReadSubjectSnapshot)>>,
            <<"schemas", Many(kImageSchemas, ReadCapabilitySchema)>>,
            <<"capability_history", Many(limits.max_evidence_history, ReadCapabilityRecord)>>,
            <<"quirks", Many(limits.max_quirks, ReadQuirkRecord)>>,
            <<"compatibility", Many(limits.max_compatibility_facts, ReadCompatibilityFact)>>,
            <<"publisher_watermarks", Many(kImageBoots, ReadPublisherWatermark)>>,
            <<"fenced_boots", Many(kImageBoots, ReadPublisherWatermark)>>,
            <<"canonical_digest", U64>> >>)

================================================================================
