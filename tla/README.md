# A TLA+ verification project for the Hardware Capability Registry

The Hardware Capability Registry keeps canonical knowledge of what hardware can
do: which device supports which capability, according to whom, as of when, and
whether that is still current. This directory holds TLA+ models of it, their TLC
configurations, and theorems checked by TLAPS. `PROJECT.json` lists components,
runs, mutants, the correspondence of definitions to source lines, findings,
hazards and theorems. Line numbers below are of `src/src/registry.cpp` unless
another file is named.

## 1. The system

| Component | State | Operations | What makes it correct |
|---|---|---|---|
| Publishers (`register_publisher`, `fence_publisher`, `retire_publisher_boot`, admission in `apply_locked`) | per publisher: state, registered boot, fenced boots, a watermark per boot, fingerprints per sequence; the coordinator epoch | register (first, fresh, re-affirm), fence, retire, apply | an identity that lost authority never regains it; nothing is applied twice; an acknowledgement is true; a duplicate is judged by what was applied |
| Devices (`apply_device_locked`) | identity, generation and boot, platform generation, software and generation per axis; families, platforms | register, refresh | a generation number names one thing; generations only grow; one adapter does not erase what another knows |
| Evidence (`apply_capability_locked`, `evict_if_needed_locked`) | keys with a generation and a vector of records; a global arrival order; a serial counter | store, repeat, refuse, withdraw, evict | current evidence is never evicted; a capability generation names one claim; withdrawal retracts; what makes stale evidence current again |
| Resolution (`resolve_locked`, `classify_truth`, `compare_devices`) | none (recomputed by each query) | query one, many, stale; summary; compare | answers come from current evidence only; weaker sources never override; synthetic is not real; a comparison has no sides |
| Quirks, compatibility facts, schemas | tables with generations and withdrawal | publish, withdraw, register; evaluate applicability | three-valued applicability that learning settles; withdrawals last; references resolve |
| Durable image (`export_durable_state`, `import_durable_state`, `FileStateStore`) | one file | save (temporary file, rename), load | a restart restores knowledge and no liveness; the image is old or new, never half; what is saved loads |
| Bytes (`codec.cpp`, `protocol.cpp`, `persistence.cpp`) | the decoder's buffer | encode, frame, feed, decode | what is read is what was written; damage, foreign and truncated input is refused; legal frames complete |
| Coordinator (`coordinator.cpp`) | sessions (connection, decoder, registered publisher and boot), shutdown token | accept, read, dispatch, drop, start, shut down | a closed connection retires its boot before any evidence is interpreted; every session is eventually served |
| Clients (`publisher.cpp`, `client.cpp`), transport | identity, sequence, decoder | connect, publish, heartbeat, query | sequences increase; a retry is recognised |
| Discovery and adapters | none that persists | enumerate, reconcile, publish | partial failure of one adapter leaves the others' results |

Interaction. Adapters and clients send publications. The coordinator is one
thread that multiplexes sessions: each turn accepts at most one connection,
reads every ready session, retires the dead ones, then dispatches the frames of
the others. Dispatch calls the registry, whose public operations run under one
lock, so an operation of the registry is atomic. The evidence depends on devices
(records are stamped with, and compared to, the device's generations) and on
publishers (live evidence is current only while its publisher boot has
authority). The durable image is written at the end of `run()` and, with
`persist_on_mutation`, once at the end of `start()`.

What is hard: frames that are late, cut, damaged, duplicated or replayed over
reconnects and restarts; crashes between an epoch advance and a save, or in the
middle of one; adapters that see different parts of one device; bounds that are
hit in the middle of a publication; staleness that is recomputed from state that
may move back; an import that rebuilds tables by other rules than publication
built them. The hazards of `PROJECT.json` list them at their lines.

## 2. Modules

| Module | Models |
|---|---|
| `Authority` | abstract specification: identities (publisher, boot, epoch) are granted authority once, at most one per publisher is live, and any may be revoked |
| `PublisherAuthority` | publishers, admission, and the coordinator's start, shutdown and crash with the publisher part of the image |
| `PublisherAuthorityProofs` | theorems about it, including that it implements `Authority` |
| `DeviceRegistry` | devices: `RegisterDevice`, `RefreshDevice` and the operators they share |
| `DeviceRegistryProofs` | lemmas about a device report, for every module that composes the device registry |
| `DeviceHistory` | the device registry alone with the history of what its generations named |
| `Provenance` | the tables of source authority, provenance, durability and precision |
| `EvidenceStore` | evidence, composed with `DeviceRegistry` and `Authority`, and which of it a query may answer from |
| `EvidenceAnswers` | what queries, summaries and comparisons answer, as operators over `EvidenceStore` |
| `EvidenceProofs` | theorems about evidence and answers, over `DeviceRegistryProofs` |
| `Recovery` | devices and evidence in the image, the file store and restarts, around `EvidenceStore` |
| `RecoveryProofs` | theorems about it, over `EvidenceProofs` |
| `Knowledge` | schemas, quirks and compatibility facts over `DeviceRegistry`, and what a restart makes of them |
| `KnowledgeProofs` | theorems about it, over `DeviceRegistryProofs` |
| `Conditions` | software versions, version ranges, condition trees and their evaluation |
| `Applicability` | which quirks apply to a device, over `DeviceHistory` and `Conditions` |
| `ApplicabilityProofs` | theorems about devices, conditions, quirks and versions, over `DeviceRegistryProofs` |
| `Codec` | a writer and a reader that interpret layouts over cells of a given width |
| `Layouts` | one layout per writer and one per reader of `codec.cpp`, `protocol.cpp` and `persistence.cpp` |
| `Framing` | frames on a connection, whatever their payloads: encoding, delivery in pieces, the decoder, damage |
| `FramingProofs` | theorems about it |
| `Wire` | what frames carry: every message encoded, framed and decoded, over `Framing` and `Layouts`; the image file |
| `Coordinator` | the event loop with its sessions, composed with its clients and a registry reduced to who holds authority |
| `CoordinatorProofs` | theorems about the loop's sessions and authority |
| `MC...` | reports, sources, claims, quirks, clients and limits for the runs |

`RECURSIVE` operators occur only in `Codec` and `Wire` (and are reached by `Layouts`), which
no proof module reaches. Elsewhere recursion is a recursive function.

### PublisherAuthority

`pstate`, `boot`, `fenced_boots`, `publisher_fenced`, `max_sequence`,
`max_evidence_generation` and `sequence_fingerprints` are the fields of
`PublisherStateInternal` that some check reads, as functions of the publisher;
`publisher_fenced` is the set of the publishers whose flag is set. A watermark
that does not exist is 0. `RegisterFirst`, `RegisterFresh` and `Reaffirm` are the
three accepting branches of `register_publisher_locked`; the others change
nothing. `AdmissionCode` is the cascade of early returns of `apply_locked` in
its order; `Apply` is an admitted publication that its handler accepts. A
rejecting handler changes only counters. `Apply` takes any message of the type,
at any time: that is a network that delays, duplicates, reorders and replays
without limit. `Start` loads, advances the epoch, resets liveness and perhaps
saves; `Shutdown` retires, closes and saves; `Crash` loses the process, and also
stands for a final save that fails. `ledger`, `granted` and `barred` are history:
what was accepted, which identities held authority, who was fenced. A publication has
a `body`, which `fingerprint_publication` mixes, and a `rest`, which it does not;
`FingerprintCap` is the 4096 of the map.

### DeviceRegistry and DeviceHistory

A report carries an incarnation, a family, a platform, the platform descriptor
sent with it, a software identity or `None` per axis, and whether it says that
the device booted. The axes are handled by three copies of the same lines in the
code and by one operator here, `Advanced`. The code's comparison of the
incarnation with the stored one, which is never updated, is kept as it is.
`WithinBound` is the model's bound on counters.

### EvidenceStore and EvidenceAnswers

A record is stamped with the device's generations, its sender's identity and its
source. `superseded` is the flag that the code stores in `persistent`;
`SupersededIn` is what eviction recomputes from slots and serials: that the two
agree is part of `NewestOfSlotKept`. `Evict` is the three loops of
`evict_if_needed_locked`: `Trimmed` per key, `Take` for one turn of the loop over the order
of arrival and `Turns` for all of them, and the cut of the order. A handler is one action, evictions before
and after the insertion included. `RefuseEvidence` and `RefuseSkippedGeneration`
are the two rejections that come after the key was touched; earlier rejections
change nothing. `Authority!Next` stands for everything that gives and takes
authority. Records that share authority and precision are told apart by their
position, as the code's strict comparisons over the vector do. Staleness has the
clause structure of `compute_staleness_locked`; `Reasons` are the flags it raises.

Queries change nothing and are operators. `Resolve` is `resolve_locked`: no
knowledge, no current evidence, or an answer from the `Winner`. The environment
enters as a parameter: the outcome of the conditions and the quirks that apply.
`ClassifyTruth` is a set, because the sort of the evidence views is not total:
each member is a result that some order of equal views gives. `Subject` is the
summary of `build_subject_locked`, `Compare` the comparison of one capability.

### Recovery

`Export` writes the history in any order that `std::sort` may leave it in with
the comparator of the code (`Histories`: the orderings of all records that keep it). `Acceptable` is what import checks before it changes
anything, `Commit` what it assigns. The save is three steps: the temporary file is
opened, written, renamed; each may fail, and a crash may come between any two. A
crash loses the process and keeps what was written. Publisher watermarks are
`PublisherAuthority`'s, quirks and facts `Knowledge`'s; here an identity of an
earlier process is simply never live again, which is what `Authority` promises and
`AuthorityImplemented` proves.

### Knowledge, Conditions, Applicability

`Verdict` is the cascade that quirks and facts share; `QuirkFace` and `FactFace` are what
of a record is compared when a generation is published again. `KnowledgeLoads`
are import's checks on the whole image, against families that import collects from
the devices. `Conditions` has texts as sequences of characters, because digits,
separators and case decide how versions and settings compare; `Scan` is the loop of
`SoftwareVersion::parse`, one character a turn. A condition tree is the sequence of its
nodes, the root first and children behind their parent; what `validate_condition`
checks of it are properties of that sequence, and `Outcomes` evaluates it. `Applicability` evaluates each quirk's
selectors in the code's order, with the identity that every report replaces and the
facts that callers of queries set. `Gathered` is the walk over the table that stops when the
answer is full, `Sorted` the sort of what it gathered.

### Codec, Layouts, Framing, Wire

A structure is described by a layout, written once from the code of its writer and
once from the code of its reader (`WriteX`, `ReadX`): the two lists of fields, widths,
bounds, presence flags and enumerations are translated separately, so an order or a
bound in which they differ shows. A cell is a width and a value; a text is its
length. A text longer than its bound is clamped and noted; a list is clamped and not
noted, as in the code. `Wire` takes of every message type a plain message and each
single variation of it: other numbers, texts and lists that are empty, at their bound
and past it, the last enumerator, every kind of value, conditions and records up to
and past the depth that is read, unknown enumerators, a field less, a field more.
That is a superset of what validation lets a program send. The image file is cut or
damaged. Checksums and digests are ideal: two different payloads never have the same.

`Framing` carries frames of any payload. `Turn` is one turn of the loop of
`FrameDecoder::feed`, `Parsed` all of them, `Feed` the bound that is tested before; a
refusal discards what the same read had completed. `Deliver` is a read of either
reader: `read_session` takes every frame and refuses a batch that is too large,
`receive_frame` keeps the first frame. The stream is cut anywhere, broken off anywhere, and any
cell of it that a check covers may change its value, any number of times. Each action of
`Wire` that touches the connection is a conjunction with the action of `Framing`, and the
others leave it alone, so the theorems about `Framing` hold of the messages of `Wire`.

### Coordinator

`loop` is the place in `run()`: at the top, in `select`, reading the ready
sessions one by one, retiring the dead, interpreting frames, stopped. Clients send
and die between any two steps. `Select` accepts one connection or refuses it at
the limit and fixes the set of sessions read in this turn; `ReadSession` is
`read_session` with its four ways to declare a session dead (nothing to read or a
failing read, a malformed frame, too many frames, each discarding what was read);
`RetireDead` is `drop_session` of all dead sessions before any frame is
interpreted; one action per message type follows, and `Answered` is what
`dispatch_frames` does after each: a failed send drops the session, a requested
shutdown leaves the rest of its batch. Sessions are read and served in any order
(the code's order is that of socket handles). `Stop` is the ordered shutdown.
The clients of this code wait for every answer; the model also has publishers that
pipeline, which the limit on a batch is there for. Sends do not block: the clients
read their answers.

## 3. Runs

All runs have `CHECK_DEADLOCK FALSE`: every counter is bounded in the guards, so
a behaviour may stop when its bounds are used up, and an idle registry may stop.

Passing:

* **Publishers**: two publishers competing for one place, two boots, two sequences, two
  contents, room for one fingerprint, and up to three epochs: two processes, with crashes at any point
  and a save at every start. Two boots are enough for a boot to be replaced, for an old one to be
  replayed and for a fresh one to meet what the old one left in the map; two sequences for
  one behind, at and ahead of the watermark and for the map to evict; two processes for what a
  restart forgets. Checks that only authority admits, that acknowledgements are true, that a
  duplicate is never judged by what another boot sent under its sequence, that nothing is
  replayed over restarts and that the registry implements `Authority`. Evidence generations that
  regress and a third process are left to the theorems, which hold for any of them.
* **Devices**: one device, two software identities on three axes, reports that
  identify nothing, one axis or all, generations up to 2; fourteen quirks over every
  selector and condition shape, six of which validation or a withdrawal keeps out;
  four facts that callers come to know. Checks that an axis generation names one
  software identity, that learning settles which quirks apply, that the most severe
  quirk decides, and that a device's version is ordered against others as the numbers
  they are printed from (numbers around a digit boundary and around the largest
  component, one of the device's own among those beyond it).
* **Evidence**: one publisher over two boots, a live and a curated source, a claim
  gated on the driver against one of no support, withdrawals; a history of three
  records, two per key, three stores, three capability generations, so that both bounds evict and refuse, while the
  driver changes and the device reboots.
* **Answers**: two devices, a live, a curated and a synthetic source of which the
  synthetic one names the same interface and claims the best precision; two stores,
  two device generations, every generation pinned; the devices are symmetric. Checks what an answer may be taken
  from, that listings partition, that the past is not usable, that a comparison mirrors
  and that a weaker source never overrides.
* **Recovery**: one publisher over two boots, a live and a curated source, one claim gated
  on the driver and its withdrawal, a driver update with a reboot; three stores, with
  shutdowns, failing saves, crashes and restarts at any point. Checks the file, that what
  was saved loads, and what a restart does to live and to stale evidence and to capability
  generations (a withdrawal opens one as a contradicting claim does).
* **Knowledge**: one device that is reported with and without its platform, one family,
  two quirk ids at room for one, one fact, two generations, two contents in each of the
  compared and the uncompared fields, schemas beside the catalog; restarts at any point.
* **Wire**: thirteen message types and the image, limits between 2 and 4 that differ
  where they meet in one structure; streams of up to 30 cells are cut at every place,
  longer ones in the header, in the payload and not at all; a second and a third message
  are pipelined behind the short ones, over a batch limit of two, and one cell is damaged.
  `ReadAsWritten` says that what the writers write within the depth that is read is read, and
  equal to what was given them where texts and lists are within their bounds; what becomes of
  longer lists is listed below. `StrictDecoding` tries a foreign ordinal at every
  enumeration; staleness flags are not one, since the readers cast them unchecked.
* **EventLoop**: two places and three connections: a busy publisher that pipelines
  up to three publications over a batch limit of two, a client that after its HELLO
  registers as the same publisher or as one there is no room for, queries, fences, stops
  the coordinator or sends garbage, and one that only connects. That is enough for a
  predecessor to die before, while and after its successor registers, for a batch of two
  and one too large, and for a refusal at the connection limit. Safety: authority has
  exactly one open session and lasts as long as it. Liveness, under weak fairness of the
  loop's steps: every request is answered or its session ends, a dead publisher's boot is
  retired, and a shutdown that does not fall into an idle `select` is carried out. The
  fairness is that the loop's thread runs: its steps never wait for anything but `select`,
  whose guard is that a socket is readable. Nothing is assumed of clients or of the
  threads that request shutdown.

Violations. Each states what a document or a comment says and shows a behaviour
of the code that differs; `findings` quotes both.

| Run | Shows |
|---|---|
| SyntheticTruth | once its synthetic evidence is stale or withdrawn, a device of which nothing else is known is classified REAL (521) |
| RestartRevives | a curated claim superseded through another reference is current again after a restart, because import builds another slot than publication (2651 and 1453) |
| KnowledgeLost | a device changes its family; a fact about the first family makes the next start refuse the whole image (2715) |
| RuntimeRevives | evidence that an update of its runtime made stale is current again once another runtime reports the device (363) |

`KnowledgeSurvivesRestart` also appears in a passing run, on devices that keep their
family: the finding isolates that cause. *RuntimeRevives* shows the only way in which stale
evidence becomes current again (`StaleUnlessOtherRuntime`, section 4).

### Causes without a run

The passing runs leave out these causes. The models show those of the first list when
the property that is named is checked, with the constants changed where that is stated.

* `PersistAtStart = FALSE`, the default setting (coordinator.hpp 22), with crashes: a crash before the first save lets the successor reuse epoch and boots
  (coordinator.cpp 442), and old frames are applied again; `NoReplay` fails, although
  `durable_state.hpp:33` says that they "are rejected forever".
* A restart forgets `publisher_fenced` (2724), and a publisher "permanently fenced" (917;
  client.hpp 51: "permanently removes authority") registers again: `FencedForever` fails in
  *Publishers*. Its earlier identities stay without authority.
* The fingerprint map is shared by the boots of a publisher and erases its smallest sequence at
  its limit (1165), which may be a fresh boot's own. A conflicting duplicate is then acknowledged,
  against `src/README.md:303-304`: `ConflictingDuplicateRefused` fails in *Publishers*.
* `Rests` with two elements: a duplicate that differs only in fields that
  `fingerprint_publication` (175) does not mix (precision, severity, outcome) is acknowledged as
  identical; `ConflictingDuplicateRefused` fails with any limit.
* A publication with the default sequence 0 is answered "already accepted" (1095) by a boot that
  has published nothing (1091): `AlreadyAccepted` fails. The clients number from 1.
* Two incarnations: a refresh compares with the stored incarnation and never assigns it
  (1232), so going back to the first opens no generation, against `hardware.hpp:91`.
* One counter serves all runtimes of a device (1296), so two that alternate
  invalidate each other's evidence.
* Two publishers, `OneSource`, `TwoClaims` and a history of three: eviction drops the order entry of a
  record that is the newest of its slot (810); superseded later, it is never evicted, and
  evidence is refused although room could be made (`src/README.md:585`);
  `RefusedOnlyWhenNothingEvictable` fails.
* Reports from two platforms: the repetition test (1460) does not compare the
  platform generation, so the same observation is dropped as identical while the record
  stays stale; `RepeatedEvidenceIsCurrent` fails.
* A durable claim of an earlier boot is not retracted by the next boot's withdrawal, since
  the slot (1453) contains the boot; `WithdrawalRetracts` excludes that case.
* A publication refused for its generation or by backpressure has created its key,
  and may have raised the key's generation (1434, 1484); only its evidence is refused.
* Two boots and a curated source that also reports, under the same reference, with
  synthetic provenance: the durable record of the first boot and the synthetic one of the
  second both carry the winner mark (595), and the sort of the views decides which truth
  class the answer gets; `TruthFromWinner` fails.
* `current_winner_record` (844) breaks a tie in authority by publisher id,
  `resolve_locked` (475) by precision first, so the claim a publication joins need not
  be the one a query answers. Several views may carry the winner mark (595).
* Two answers that are both stale compare as `StalenessDiffers`, a device with itself
  included.
* More families than `MaxFamilies` through refreshes, which do not look at the bound:
  `KnowledgeLoads` fails, and the image is refused.
* A withdrawn quirk or fact published again in the same generation is answered as
  idempotent and stays withdrawn; its uncompared fields are not compared (1517).
* An unknown vendor, family or model makes a quirk not apply (quirk.cpp 264-278), although
  `src/README.md:206-207` promises `unknown`: `UnknownIsNotGuessed` fails in *Devices*. A feature
  gate that nobody named counts as closed. `LearningSettles` excludes families, models and gates.
* `MaxResults` below the number of quirks: gathering stops before sorting (633), so the most
  severe may be left out, although it "decides" (`src/README.md:210`); `MostSevereAlwaysDecides`
  fails with `MaxResults = 1`. `MostSevereDecides` is stated for answers that are not full.
* A setting or gate is looked up as the condition spells it while `set` stores lower case
  (condition.cpp 389, 405): one with an upper-case letter is never found.
* Revisions with digits compare as versions and others as texts (quirk.cpp 18-25), which is
  not transitive.
* A legal frame whose predecessor is in the same read: the buffer bound is tested before
  parsing (protocol.cpp 112), so two frames within the limit may be refused together;
  `LegalFramesComplete` allows a refusal when two frames are under way. A
  refused frame discards the good ones completed in the same read (coordinator.cpp 374), and
  a client keeps the first of several.
* Lists past their bounds (more than 1024 selectors, 64 ranges, `max_families * 16` schemas,
  `max_publishers * 64` boots) are cut and `truncated()` is not set (codec.cpp 48, 105, 191, 434,
  671), although protocol.cpp 197-199 says that the registry "never receives silently shortened
  data": `NeverShortened` fails in *Wire*. The encoders of requests cut texts without a trace too:
  only publications, answers and images test `truncated()`.
* Staleness flags are read as any number and cast (codec.cpp 914, 1051): bits that no flag
  names are not refused, and `StrictDecoding` does not try them.
* Conditions in a predicate value, and records, nested as deep as validation admits are
  written and then refused by the reader (codec.cpp 118, 237): such an image is saved and does
  not load.
* Damage to the type or the correlation of a frame is not covered by its checksum.
* A peer that registers two publishers on one connection: the session forgets the
  first (coordinator.cpp 160); `AuthorityHasSession` fails. No client of this code does so.
* A shutdown requested while the loop is in an idle `select` is noticed at the next
  activity only (coordinator.cpp 506); `ShutdownServed` excludes that case.

Read in the code and in no model: schema registrations come before the publisher checks
(1013); a numeric range's width is tested by a subtraction that may overflow (value.cpp 381);
`save` does not sync, so a power failure may leave the renamed file short (`Wire` shows only
that such a file is refused); a client that reconnects keeps its decoder (publisher.cpp 63); a
local sink numbers and applies under two locks, so two threads may arrive out of order
(discovery.cpp 38); an error of `select` or `accept` ends `run()` without the ordered shutdown
(coordinator.cpp 507).

Only the event loop owes steps; the registry's modules are passive stores, and no
liveness is stated for them.

## 4. Theorems

They hold for every value of the constants that satisfies the named assumptions of the
modules (sets of naturals, limits that are positive, valid sources). Where a theorem has
a further hypothesis, the property fails without it, and section 3 names the cause.

`PublisherAuthorityProofs` (any publishers, any limits, any messages):

* `TypeCorrect`: type correctness.
* `OnlyAuthorityAdmits`: `AdmittedHoldsAuthority`. `apply_locked` never reads
  `record.state`. The invariant that makes this safe is `AuthorityInv`: a boot is
  assigned exactly to known publishers, a publisher that is not Registered has its
  registered boot fenced, and fenced boots are at most the registered one.
* `AcknowledgementsAreTrue`: `AcknowledgedWasApplied`, from `WatermarkApplied`: what a
  process remembers as the last publication of a boot, that process has applied.
* `DuplicatesJudgedByApplied`: `DuplicatesComparedWithApplied`, for every limit of the map and
  every set of fields the fingerprint leaves out. `DuplicateInv` says that the fingerprint under
  the registered boot's last sequence is that of what was applied there, or was evicted, although
  successive boots share the map, and that boots still to be assigned have published nothing.
* `NeverReplayed`: `NoReplay`, assuming `SavedBeforeUse`: the coordinator saves at
  start or never dies without its shutdown. `RestartInv` relates three histories of
  different length: the image is never behind the last epoch that was used, every accepted
  publication is at or below the watermark of its boot while its epoch lasts, and every
  granted identity of the present epoch has a boot at most the registered one.
* `AuthorityImplemented`: the specification implements `Authority`, under the same
  hypothesis, with `live` mapped to the identities that `publisher_is_authoritative`
  accepts and `spent` to the grants. One step per action: registrations map to
  `Grant` or a stutter, fences, retirements, shutdowns and crashes to `Revoke` or a
  stutter.

`CoordinatorProofs` (any clients, publishers, limits and batches):

* `CoordinatorTypeCorrect`: type correctness. `ControlInv` adds what a turn of the loop
  holds between its steps (`TurnInv`) and that a frame under way was sent in the stage its
  sender is still in (`PendingInv`): without the second, a client could register twice on one
  connection.
* `AuthorityNeedsSession`, `AuthorityIsNotStolen`: `AuthorityHasSession` and
  `AuthorityLastsWithSession`, from `SessionInv`, which relates the owner of each session, the
  boots of the registry and who is live over every order in which sessions are read, dropped
  and served.

`ApplicabilityProofs` (any devices, software identities, reports, quirks, facts and version
texts), over `DeviceRegistryProofs`, which holds what a report does to types, generations and
tables:

* `DeviceTypeCorrect`: type correctness; it needs that boot and generation of a
  device are equal, since only one of them is bounded.
* `AxisGenerationsAreNames`: `AxisGenerationNamesOneSoftware`, from `NamedIsBehind`:
  whatever was named is at most the present generation of its axis, and at it only
  the present software.
* `ApplicabilityImplementsHistory`: devices with identities and facts implement the device
  registry alone, so both theorems above hold of them.
* `QuirksStaySettled`: `LearningSettles`, an action property. The outcome of a node of a
  condition tree is a function of the outcomes of nodes behind it, so what every leaf keeps and
  every connective passes on, a tree of any shape keeps; then the selectors in their order. The
  exceptions are those the property names (families, models, feature gates).
* `MostSevereFirst`: `MostSevereDecides`. `quirk_precedes` is a strict total order, sorting by rank
  lists every quirk that was gathered once, and a walk that stops short has filled the answer.
* `VersionsCompareAsNumbers`: `VersionsOrderAsNumbers`, for lists of any numbers whose text is
  within the bound of a version.
  Scanning the text printed from a list gives its numbers back, each clipped to the largest the
  type holds and as many as are kept: by induction over the characters of a number (its value so
  far is that of the digits read, until it is clipped) and over the numbers of a list.

`EvidenceProofs` (any devices, publishers, sources, claims and limits):

* The eviction loop is a recursive function over the order. `TurnsExist` proves that it is
  what its definition says, and `EvictRemains` what the loop keeps, by induction over a set of
  naturals (`SetInduction`, from the library's well-foundedness of `<`): eviction only removes
  records, and only ones with a newer record in their slot.
* `GenerationsNameClaims`: `GenerationNamesOneClaim`, from `StoreInv`: no generation is beyond
  its key's counter, serials are not given twice, a publisher has one live identity, and each
  record was stamped under generations its device once had. That a publication joins the
  generation of a record and not of none needs that a winner exists (`JoinWinner`).
* `NewestRecordsAreKept` and `WithdrawalsRetract`: `NewestOfSlotKept` and
  `WithdrawalRetracts`, from `SlotInv`: each slot has one head, which is retained, and a record
  is superseded exactly when it is not the head; an identity that was followed by another of
  its publisher has lost its authority.
* `StaleIsFinalButForRuntimes`: `StaleUnlessOtherRuntime`, an action property, for any reports.
  Every step only ages (`Ageing`): generations grow, authority that is lost stays lost, marks are
  not taken back. So every reason to be stale survives a step (`ReasonStays`), except the
  runtime's, which survives while the device names the same runtime. No run checks this property;
  its counterpart without the exception is the violation of *RuntimeRevives*.
* `RepetitionsAreCurrent`: `RepeatedEvidenceIsCurrent`, assuming `OnePlatform`: reports name one
  platform.

  About answers:

* `ListedExactlyOnce`, `PastNeverUsable`, `ComparisonsMirror`: `CurrentOrStale`,
  `PastIsNotUsable` and `ComparisonMirrors`. They hold in every state of the types: they relate
  the answers of one state to each other, for every device, pinned generation and environment.
* `TruthIsTheWinners`: `TruthFromWinner`, assuming `ReferencesKeepKind`: a class and reference is
  not used with a durable provenance and with a synthetic or unknown one. The winner exists
  although newer evidence generations are preferred without bound (`EvidenceBounded`), marked views that
  are met first have its rank, ranks name classes, and two live-bound candidates of one
  publisher and class are one record.
* `StrongerAnswersStand`: `WeakerNeverOverrides`. The winner is the head of its slot, so neither
  the new record's mark nor the evictions around it touch it, and no other record becomes a
  candidate.

`RecoveryProofs` (any number of saves, failures, crashes and restarts):

* `FileHoldsLastSave`: `FileIsLastSave`.
* `GenerationsOutliveRestarts`: `GenerationNamesOneClaim` over restarts.
* `LivenessIsNotRestored`: `LiveEvidenceEndsWithProcess`.
* `WrittenImagesLoad`: `ImagesLoad`, assuming `FamiliesFit`: there is room for all families,
  since refreshes do not look at the limit.
* `StalenessSurvivesRestart`: `RestartKeepsDeviceStaleness`.

  `RecoveryInv` has `StoreInv`, that the tables are within the limits import checks
  (`WithinLimits`), that identities of earlier processes are never live, and that every image
  being written or in the file is one that a state of that kind exports (`SoundImage`). `SlotInv`
  is not part of it: import builds other slots, which is the finding of *RestartRevives*.

`KnowledgeProofs` (any quirks, facts, schemas and reports):

* `KnowledgeTypeCorrect`: type correctness.
* `GenerationsAreKept`: `GenerationsKeepTheirContent`.
* `NoDanglingFacts`: `ListedFactsResolve`, from `FactsResolve`.
* `ImageLoadsIfFamiliesStay`: `KnowledgeSurvivesRestart` in every behaviour that satisfies
  `DevicesKeepFamily`, the action property that no report moves a registered device to another
  family. *KnowledgeLost* is the behaviour without it. `ImageInv` has the limits, the resolved
  references, and that the families are those that devices name.

`FramingProofs` (any messages whose type is known and whose payload is a sequence of integers,
any limits, any number of frames under way):

* `FramesArriveIntact`: `DeliveredIntact`.
* `LegalFramesAreCompleted`: `LegalFramesComplete`.

  `FramingInv` says that there is a wire W: all that was ever sent, end to end, with the damage that was
  done to it. On W every frame still has its type, some length, and a checksum that fits its
  own payload or nothing; without damage it is what `encode_frame` wrote. What is under way is a
  piece of W, and what the decoder keeps is the piece before it that starts exactly where the
  first frame not yet taken starts. `TurnLaid` is the heart of it: a frame that passes the
  decoder's checks at such a place is the one that was sent, also when its length was damaged, since only
  its own payload fits the checksum; so the next place is again the start of a frame.
  `ParsedFinds` carries that along the loop, by induction from the end of the buffer. On an intact wire
  the loop stops only where a frame is incomplete (`TurnIntact`), and a buffer within one frame of legal
  size is within the bound (`FeedFinds`). The assumption that checksums are ideal is
  part of the model (`crc32`); a CRC of 32 bits misses some damage. A session that may take no frame at
  all (`max_pending_publications` of 0, which nothing in the code refuses) is excluded by assumption.

The recursive functions of the models (`Turns`, `Starts`, `Parsed`, the evaluation of conditions, the
scan of a version) are shown to be what their definitions say by induction over sets of
naturals (`SetInduction`), which needs no theorem with an operator as a parameter.

The inductive invariants also hold as invariants of the run of their component; `FramingInv`
quantifies over wires and is out of TLC's reach, so there the two properties alone are checked.

Only model-checked: the liveness of the event loop (`RequestsServed`, `DeathRetires`,
`ShutdownServed`), because the prover does not treat fairness and `ENABLED`; and
`ReadAsWritten`, `StrictDecoding` and `ImageIntact` of *Wire*, which rest on the recursive
operators that interpret layouts: the prover has no SMT backend in a module that reaches one, and
the induction would be over the structure of layouts and values. The properties of the violation
runs are no theorems; section 3 lists them.

## 5. Not modelled

* Adapters: reads of the operating system and of vendor libraries. Their outputs are the
  reports, sources and claims of the models.
* Discovery: it fills publications in from an adapter's findings.
* Rendering and the command line: formatting and argument parsing.
* Validation and comparison of values and units, schema migration, and the hash behind the
  canonical digests.
* Hardware models and architectures as references of compatibility facts: their tables behave
  as that of the families, without a limit.
* Explanations, snapshots and the cut of long listings in answers.
* Sends that block, errors of `select` and `accept`, the clients' sequence numbers and
  reconnecting.
* Timestamps, names, reasons and statistics. `observation_sequence` is left out of sources:
  no publisher in this code sets it on capability evidence.

## 6. Plan

1. Proofs: a writer and reader of layouts as recursive functions over a well-founded order of
   layouts, so that a reader that mirrors its writer can be shown to read what was written.
2. Coordinator: errors of `select` and `accept`, bounded socket buffers with sends that
   block, clients that number, retry and reconnect.
3. Validation of values at the boundaries of their types, schema migration, discovery.
