--------------------------------- MODULE Recovery ---------------------------------
(***************************************************************************)
(* Restarts: what the registry writes at shutdown (export_durable_state),  *)
(* how the file store replaces its file (FileStateStore), and what the     *)
(* next process makes of it (import_durable_state), with failures of the   *)
(* file system and a crash of the process between any two steps.           *)
(*                                                                         *)
(* Composition.  Between a start and a shutdown the registry is that of    *)
(* EvidenceStore.  Publisher watermarks and fenced boots of the image are  *)
(* the matter of PublisherAuthority, its quirks and facts of Knowledge;    *)
(* what matters here is that an identity of an earlier process is never    *)
(* live again, which is Authority.                                         *)
(*                                                                         *)
(* Abstractions.  A file holds a whole image or a partial one, which       *)
(* decode_durable_state refuses by its length, checksum and digest.  A     *)
(* crash loses the process and nothing that was written: a power failure,  *)
(* against which save() does nothing (no fsync), is not modelled.          *)
(***************************************************************************)
EXTENDS EvidenceAnswers

CONSTANT NoFile    \* model value: there is no file of that name

VARIABLES
  phase,           \* "up", "writing", "written" while the process runs, or "down"
  file,            \* the image at path_, or NoFile
  temporary,       \* [whole, image] at path_ + ".tmp", or NoFile
  saved            \* history: the image of the last save that succeeded

recoveryVars == <<phase, file, temporary, saved>>
allVars == <<vars, recoveryVars>>

--------------------------------------------------------------------------------
(* Export.                                                                 *)

AllRecords == UNION {{[key |-> k, record |-> r] : r \in records[k]} : k \in keys}

\* Mutant of Ordered: the publisher is compared before the generation.
OrderedByPublisher(e, f) ==
  e.key = f.key => e.record.identity.pub <= f.record.identity.pub

\* The comparator of capability_history, for records of one key (the records of a key
\* stand together).  No publisher sets observation_sequence.
Ordered(e, f) ==
  e.key = f.key =>
    \/ e.record.gen < f.record.gen
    \/ e.record.gen = f.record.gen /\ e.record.identity.pub <= f.record.identity.pub

\* Every order std::sort may leave the history in.  The file has neither the serial nor
\* the slot nor the superseded flag of a record: import sets them anew.
Histories ==
  {h \in [1 .. Cardinality(AllRecords) -> AllRecords] :
     /\ \A m, n \in DOMAIN h : m < n => h[m] # h[n] /\ Ordered(h[m], h[n])
     /\ \A l, m, n \in DOMAIN h : l < m /\ m < n /\ h[l].key = h[n].key => h[m].key = h[l].key}

Export(history) ==
  [registered |-> registered, incarnation |-> incarnation, family |-> family,
   platform |-> platform, generation |-> generation, device_boot |-> device_boot,
   platform_generation |-> platform_generation, software |-> software,
   axis_generation |-> axis_generation, platforms |-> platforms, history |-> history]

\* A registry without state.
Empty ==
  [registered |-> {}, incarnation |-> [d \in Devices |-> None],
   family |-> [d \in Devices |-> None], platform |-> [d \in Devices |-> None],
   generation |-> [d \in Devices |-> 0], device_boot |-> [d \in Devices |-> 0],
   platform_generation |-> [d \in Devices |-> 0],
   software |-> [d \in Devices |-> [a \in Axes |-> None]],
   axis_generation |-> [d \in Devices |-> [a \in Axes |-> 0]], platforms |-> {},
   history |-> <<>>]

--------------------------------------------------------------------------------
(* Import.                                                                 *)

StagedFamilies(image) == {image.family[d] : d \in image.registered} \ {None}

\* The checks import makes before it changes anything.
Acceptable(image) ==
  LET h == image.history IN
  /\ Cardinality(image.registered) <= MaxDevices
  /\ Len(h) <= MaxHistory
  /\ Cardinality(StagedFamilies(image)) <= MaxFamilies
  /\ \A n \in DOMAIN h :
       /\ SourceValid(h[n].record.source)
       /\ h[n].key[1] \in image.registered
       /\ h[n].record.device_generation <= image.generation[h[n].key[1]]
       /\ \A m \in 1 .. n - 1 : h[m].key = h[n].key => h[m].record.gen <= h[n].record.gen

\* The slot import gives a record: unlike the slot of a publication it has the native
\* reference and the precision in it.
ImportSlot(r) ==
  <<r.identity.pub, r.identity.boot, r.source.class, r.source.reference, r.source.precision>>

\* Mutant of Restored: the withdrawn mark is not read back.
RestoredAsserting(h, n) ==
  [h[n].record EXCEPT !.serial = n + 1, !.slot = ImportSlot(h[n].record), !.withdrawn = FALSE,
                      !.superseded = FALSE]

\* A record as import stores it: ++next_serial, where a publication uses next_serial++.
Restored(h, n) ==
  [h[n].record EXCEPT !.serial = n + 1, !.slot = ImportSlot(h[n].record),
     !.superseded = \E m \in n + 1 .. Len(h) :
       /\ h[m].key = h[n].key
       /\ ImportSlot(h[m].record) = ImportSlot(h[n].record)]

Positions(h, k) == {n \in DOMAIN h : h[n].key = k}

\* Mutant of ImportedGeneration: the first record of the key decides.
GenerationOfFirst(h, k) ==
  LET at == Positions(h, k)
  IN IF at = {} THEN 0 ELSE h[CHOOSE n \in at : \A m \in at : m >= n].record.gen

\* The generation of a key is that of the last record read for it.
ImportedGeneration(h, k) ==
  LET at == Positions(h, k)
  IN IF at = {} THEN 0 ELSE h[CHOOSE n \in at : \A m \in at : m <= n].record.gen

\* The commit of import_durable_state, into a registry that has no state yet.
Commit(image) ==
  LET h == image.history
  IN /\ registered' = image.registered
     /\ incarnation' = image.incarnation
     /\ family' = image.family
     /\ platform' = image.platform
     /\ generation' = image.generation
     /\ device_boot' = image.device_boot
     /\ platform_generation' = image.platform_generation
     /\ software' = image.software
     /\ axis_generation' = image.axis_generation
     /\ families' = StagedFamilies(image)
     /\ platforms' = image.platforms
     /\ live' = {}
     /\ keys' = {h[n].key : n \in DOMAIN h}
     /\ key_generation' = [k \in Key |-> ImportedGeneration(h, k)]
     /\ records' = [k \in Key |-> {Restored(h, n) : n \in Positions(h, k)}]
     /\ global_order' = [n \in DOMAIN h |-> [key |-> h[n].key, serial |-> n + 1]]
     /\ next_serial' = Len(h) + 1
     /\ heads' = {[key |-> h[n].key, slot |-> ImportSlot(h[n].record), serial |-> n + 1]
                    : n \in {m \in DOMAIN h : ~Restored(h, m).superseded}}
     /\ UNCHANGED spent

--------------------------------------------------------------------------------
(* The process and its file.                                               *)

\* The ordered shutdown of run(): every session's boot is retired, the state exported,
\* and save() opens the temporary file.
Shutdown ==
  /\ phase = "up"
  /\ phase' = "writing"
  /\ live' = {}
  /\ \E h \in Histories : temporary' = [whole |-> FALSE, image |-> Export(h)]
  /\ UNCHANGED <<deviceVars, spent, evidenceVars, file, saved>>

\* fwrite, fflush and fclose succeed.
Write ==
  /\ phase = "writing"
  /\ phase' = "written"
  /\ temporary' = [temporary EXCEPT !.whole = TRUE]
  /\ UNCHANGED <<vars, file, saved>>

\* The process ends and its memory with it.
Halt ==
  /\ phase' = "down"
  /\ Commit(Empty)

\* The rename, which replaces the file in one step; run() then returns.
Replace ==
  /\ phase = "written"
  /\ file' = temporary.image
  /\ saved' = temporary.image
  /\ temporary' = NoFile
  /\ Halt

\* Mutant of SaveFails: the unfinished file is moved into place.
SaveFailsInPlace ==
  /\ phase \in {"writing", "written"}
  /\ temporary' = NoFile
  /\ file' = temporary.image
  /\ Halt
  /\ UNCHANGED saved

\* The write or the rename fails: the temporary file is removed and run() reports it.
SaveFails ==
  /\ phase \in {"writing", "written"}
  /\ temporary' = NoFile
  /\ Halt
  /\ UNCHANGED <<file, saved>>

\* The process dies.  A temporary file it leaves behind is never read, and truncated by
\* the next save: it is forgotten here.
Crash ==
  /\ phase # "down"
  /\ temporary' = NoFile
  /\ Halt
  /\ UNCHANGED <<file, saved>>

\* load() finds no file, or reads, verifies and decodes one that import accepts.
Loads == file # NoFile => Acceptable(file)

\* start(): an existing file must load and be accepted, a missing one means no state.
\* reset_publisher_liveness changes nothing that import has not.
Start ==
  /\ phase = "down"
  /\ Loads
  /\ phase' = "up"
  /\ Commit(IF file = NoFile THEN Empty ELSE file)
  /\ UNCHANGED <<file, temporary, saved>>

RegistryStep ==
  /\ phase = "up"
  /\ Next
  /\ UNCHANGED recoveryVars

RecoveryInit == Init /\ phase = "up" /\ file = NoFile /\ temporary = NoFile /\ saved = NoFile

RecoveryNext ==
  RegistryStep \/ Shutdown \/ Write \/ Replace \/ SaveFails \/ Crash \/ Start

RecoverySpec == RecoveryInit /\ [][RecoveryNext]_allVars

--------------------------------------------------------------------------------
(* Properties.                                                             *)

Restarted(r) == Len(r.slot) = 5

\* The file always holds the image of the last save that succeeded, at whatever step of
\* whichever later save the process died (FileStateStore::save).
FileIsLastSave == file = saved

\* The registry never writes an image that it would refuse to start from: whatever was
\* published, the order of the exported history and the bounds it keeps pass every
\* check of import_durable_state.
ImagesLoad == file # NoFile => Acceptable(file)

\* Evidence that depends on a live process is not current again after a restart, under
\* whatever boot its publisher returns ("process liveness is never restored").
LiveEvidenceEndsWithProcess ==
  \A k \in Key : \A r \in records[k] : Restarted(r) /\ LiveBound(r) => r \notin Candidates(k)

\* A restart brings no withdrawn assertion back as current evidence of its own, and
\* what was stale because its device moved on stays stale (build_subject_locked saves
\* every generation that compute_staleness_locked compares).
RestartKeepsDeviceStaleness ==
  [][phase = "down" /\ phase' = "up" /\ file # NoFile =>
       \A n \in DOMAIN file.history :
         LET old == file.history[n].record
             d == file.history[n].key[1]
             moved == \/ old.withdrawn
                      \/ old.device_generation # file.generation[d]
                      \/ \E a \in old.claim.gates \ {"runtime"} :
                           old.axes[a] \notin {0, file.axis_generation[d][a]}
         IN moved => \A r \in Candidates(file.history[n].key)' : r.serial # n + 1]_allVars

\* Durable knowledge means the same after a restart: a record that was superseded or
\* withdrawn by its publisher is not current again.
DurableTruthSurvivesRestart ==
  [][phase = "down" /\ phase' = "up" /\ file # NoFile =>
       \A n \in DOMAIN file.history :
         file.history[n].record.superseded =>
           \A r \in Candidates(file.history[n].key)' : r.serial # n + 1]_allVars

================================================================================
