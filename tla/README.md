# c2blue55: a TLA+ verification project

c2blue55 is a host and DNS command-and-control detector written in Go. This
directory holds TLA+ modules translated from its source, TLC configurations
that check them on small instances, and TLAPS proofs of what matters most for
every value of the constants. `PROJECT.json` lists the components, the runs,
the source lines each definition models (`map`), the mutated definitions that
show each property to be sensitive to the code (`mutants`), the hazards and the
theorems. A small helper that translates lines of the definition using it has no
entry of its own in `map`.

    tlc -workers 2 -config MCArenaPool.cfg MCArenaPool     # one run
    tlapm ArenaPoolProofs.tla                              # one proof module

Contents: 1 the system; 2 modules and code; 3 runs; 4 properties by hazard;
5 fairness and deadlock; 6 proofs; 7 disagreements met while modelling;
8 abstractions; 9 not modelled, and the plan.

## 1. The system

Probes observe a host. Observations go through lock-free rings to a polling
consumer that applies rules and correlates them per process. Events are judged
by a cascade of layers, from reflexes to small models, over knowledge disks
that can be replaced while it runs. What neither ontology nor codebook settles
is a gray zone, rationed by token buckets. In parallel a DNS pipeline judges
packets against a reputation table and a temporal tracker, and hands the
suspect ones to an asynchronous arbitrator. Arbitrated incidents can be promoted
into the codebook; server events are sealed in daily chained slices; and a
kinetic engine follows the resource use of processes, whose sockets it has to
attribute. Around this core stand a live DNS service that keeps evidence of what it
answered, a DNS laboratory with its log shipper, a file scanner, and a guard
between an MCP client and its server.

| Component (source) | State | Operations | Hard because |
|---|---|---|---|
| Payload arena (`internal/engine/arena_pool.go`) | pages under sequence locks, a deposit counter, the descriptor in an event | `StorePayload`, `ResolvePayload` | writers lap readers and each other; checksums collide; descriptors of an earlier process |
| Rings and context (`c2blue55.go`, `ring_buffer_gen.go`, `context.go`, `rules.go`, `correlator.go`) | four SPSC rings, a direct-mapped tracker | `InjectObservation`, `PollBatch`, `Start`, `Stop` | slots are plain memory; the ring wraps; processes alias an entry; time goes back |
| Ontology and provenance (`ontology_table.go`) | a rule table over a 20-bit key | `DeriveCascadeContext`, `PackOntoKey`, `EvaluateOntology` | several signs at once; packed fields |
| Cascade and forensic proof (`inference_cascade.go`, `forensic_proof.go`) | mounted disks, signed proofs | `EvaluateEventCtx`, `MountFloppy`, `SignForensicProof`, `ReplayForensicProof` | a disk is replaced during an evaluation, before the signature or the replay |
| Gray zone (`grayzone.go`) | a global and hashed per-source buckets | `DecideWithSource` | refill, exchange and ownership are separate atomics |
| Quarantine and codebook (`feedback_quarantine.go`, `codebook.go`) | the chamber, a file written in place, the active book | `EnqueueIncident`, `ValidateAgainstSealedHoldout`, `PromoteAndReload`, `LoadAtomicCodebook` | a crash or an error in the middle of the file |
| Disks and DNS delta (`floppy_engine.go`, `dns_delta.go`, `cmd/c2forge/dns_delta.go`) | files, temporary files, proofs | `SaveFloppyFile`, `LoadFloppyMmap`, `RecompileDNSTunnelDelta` | power loss between write, sync and rename; damaged media |
| Reputation (`compact_reputation.go`, `syncer.go`) | an immutable table behind a pointer | `Match`, `SyncOnce`, `StartPeriodic` | sources fail, change and are cancelled in the middle of a pass |
| Temporal tracker (`temporal_tracker.go`) | a probed table of slots with ring, Bloom filter and jitter | `RecordQuery` | full table, eviction, clocks that go back |
| DNS pipeline (`pipeline.go`) | queue, worker, audit writer, counters | `EvaluatePacket`, `StartArbitratorWorker`, `Close` | closing while all the others run; full queues; a model that never answers |
| Oracle silo (`server_oracle_silo.go`) | a reservoir, one file a day chained by seals, a flock | `IngestSnapshot`, `SealDay`, `VerifyOracleChain` | several processes, late days, failures between two writes |
| Socket attribution and collector (`internal/cinetique/attribution_socket_linux.go`) | a tuple cache, an inode cache, counters per process | `ResoudreTupleIPv4/6`, `ResoudreInodeSocket`, `DetecterEcouteDNSClairLocale`, `Enregistrer...`, `RecolterEtPurger` | processes fork, end and have their pid reused between two system calls |
| Kinetic engine (`profil_welford.go`, `quotients_episode.go`, `arbitre_slm.go`) | profiles in 4-way sets, an arbitration queue, a model behind a gate | `ObserverEpisode`, `appliquerVetoPhysique`, `Soumettre`, `Fermer` | a drift over many episodes; two `Fermer` against submitters, callbacks and direct calls |
| DNS messages and captures (`dns.go`, `dns_message.go`, `dns_pcap.go`, `dns_pcap_msg.go`) | none: functions of a message or a file | `ParseDNSQuery`, `ParseDNSMessage`, `decompresserNomDNS`, `ReadPCAPDNS...` | four decoders with different rules on pointers and limits |
| DNS trackers (`soa_negative.go`, `aaaa_iid.go`, `renouvellement_rdata.go`, `dns_episode_p1p2.go`, `dns_episode_p3.go`, `dns_rollup_p4.go`, `nonldh_guard.go`, `drift_guard.go`) | hashed tables of a few ways, windows of prints | `ObserveResponse`, `ObserveExchange`, `ObserveParentApex`, `Observe`, `CheckUpdate` | keys that share a bucket; expiry; eviction |
| DNS streams and sessions (`pipeline_dns_msg.go`, `dns_forensic_ttd.go`, `record_session.go`) | counters per apex, a capture and a journal | `EvaluateDNSMessageWithReason`, `ObserveAndClassify18`, `RecordDNSMessage`, `ComputeStreamTTD` | two files written side by side; slots that apexes share |
| DNS agent (`dns_agent.go`) | two disks built from labelled files | `EvaluateDNSView`, `BuildDNSFloppiesColdSplit`, `EvaluateDNSColdSplit`, `DiscoverRedhostPatterns` | what is scored must not have been learned |
| Live DNS service (`internal/dnslive`) | runs, sources, event window, two evidence files each, a sticky journal error | `Start`, datagrams, registrations, finishes, evidence, `Close` | all of them at once, with failing files |
| DNS laboratory (`cmd/dnslab-auth`, `cmd/c2dnslab-emit`, `internal/dnslab`) | rate buckets, an hourly journal, a batch under way, a reservation, a manifest | `serveDNS`, `shipper.run`, `BuildResponse`, `execute`, `WriteRunManifest` | lost replies, retries, a rival writer, crashes, clocks that go back |
| Kernel probes (`internal/probes`) | a UID table, a ring, the openers that wait, a shared packet ring | `HandleBlock`, `Poll`, decoders, the filter program | pids share slots; openers wait for an answer; the kernel writes while `Poll` reads |
| Event routers (`router.go`, `corpus_router.go`) | one ring per subsystem or corpus | `Dispatch...`, `RunWorkers` | head and tail move between two reads; stop |
| LSM receiver (`lsm_receiver.go`) | counts, the silo | `Handle`, `Consume`, `Snapshot` | cut and foreign records; several circumstances at once |
| File scanner (`cmd/c2scanner/main.go`) | a walk, windows, channels, a done flag | `runScan` | the end of a producer against two reads of its consumer |
| MCP guard (`cmd/c2blue-mcp-guard`, `internal/engine/grammar.go`) | two goroutines, pipes, a child, a lock on the output | `FilterLine`, `RunRelay`, the grammars | two readers of one line; every end races with the others |
| Kinetic sensor and benches (`capteur_proc_linux.go`, `chaine_complete_linux.go`, `invariance_hybride_linux.go`) | snapshots, a pinned thread, sockets, profiles | `LireInstantaneProcessus`, the three benches | a process moves while its files are read; every call may fail |

Interactions. The cascade takes its context from the ontology (`Cascade` EXTENDS
`Ontology`) and long payloads from the arena. Arbitration verdicts reach the
quarantine. The pipeline reads the reputation table through an atomic pointer
(`Pipeline` has a `Reload` step) and asks the temporal tracker. The kinetic
profile takes its network counters from the collector, which takes its keys from
the resolver; the profile's diagnostic goes through the veto (`KineticProfile`),
which the queue's worker applies. `DnsStream` asks the trackers through marks on a
message; the scanner uses the rings of `ProbeContext` as its channel, seen here as a
bounded queue; the guard uses the tool grammars of the engine; the benches use the
sensor, the collector and the profile.

What makes each correct: what is read back is what was deposited; a reflex is
never softened; a bucket never gives more than its burst and its refill; a
crash leaves a whole file; a table never unblocks because a source failed;
`Close` loses nothing in silence; a chain of seals is whole; an answer belongs to
the process that was asked about; no model verdict stands against the facts.

## 2. Modules and code

State and actions keep the source's names. One action is one access to shared
memory where the code is lock-free (arena, rings, buckets), one critical section
where it holds a mutex, and one system call where another process, a crash or the
kernel can come in between. Variables marked *history* in the modules record the
past for properties and are read by no guard.

| Module | Models | One action is |
|---|---|---|
| `ArenaPool` | `StorePayload`/`ResolvePayload`; sequence lock, words, CRC, epoch | one atomic access |
| `ProbeContext` | producer, single and batch consumer, rules, correlator | one atomic access or one slot copy |
| `ObservationFifo` | abstract: four bounded queues that refuse when full | one injection, one removal |
| `Ontology`, `Provenance` | derivation, packing, rule table; the path from a probe to a verdict | one decision |
| `Cascade` | L0, L1a, centroid, head; mounts; proofs and replays | one layer (one load of the disk pointer) |
| `GrayZone` | both buckets, refill, slot ownership | one atomic access |
| `Promotion` | chamber, holdout, save block by block, reload, crash | one critical section, one block |
| `FloppyStore` | save, load, delta, proof, power loss, damage | one system call |
| `Reputation` | compilation, matching, synchronisation | one fetch, one swap |
| `TemporalTracker` | `RecordQuery` | one call (mutex) |
| `Pipeline` | callers, worker, audit writer, `Close` | one critical section or channel operation |
| `OracleSilo` | ingestion, sampling, seal, relink, archive, verification | one file operation |
| `SocketAttribution` | both caches, dump, walk of `/proc`, listening check | one system call |
| `NetCollector` | counters, recycling, harvest | one call (mutex) |
| `KineticProfile` | the six veto rules; quotients, robust reference, orientation, update | one episode |
| `KineticQueue` | queue, worker, gate, reconfiguration, both `Fermer` | one lock or channel operation |
| `DnsWire` | the decoders of names and records, both capture readers | one element of a message, one record |
| `DnsTrackers` | one bucket of every tracker, the drift guard | one observation (mutex or single caller) |
| `DnsStream` | the classifier of a stream, the message pipeline, the recorded session, times to detection | one message; one write of a session |
| `DnsAgent` | the view on two disks, the cold split, its metrics, discovery | one line, one name, one view |
| `DnsLive` | UDP goroutine, HTTP handlers, evidence, `Close` | one critical section of `mu` |
| `DnsLab` | server, limiter, journal, shipper, responses, campaigns | one system call or request |
| `KernelProbes` | process connector, fanotify, packet ring and filter, mappings of a process | one message, one answer, one frame |
| `EventRouter` | both routers, their rings and workers | one access to head, tail or a slot |
| `LsmReceiver` | records, snapshots, the consuming loop | one record |
| `Scanner` | walk, producers, consumers, report | one read, one channel operation |
| `McpGuard` | validation and scan of a line, grammars, relay, child, signals | one read, half a write, one select |
| `ProcSensor` | snapshots, episodes, streams, parsers, topology | one file read |
| `KineticBench` | the three benches as scripts with deferred releases | one call |
| `ArenaPoolProofs`, `ProbeContextProofs`, `VerdictProofs`, `PipelineProofs`, `KineticProofs`, `DnsServiceProofs` | theorems (section 6) | |

`MC*` modules give instances. `MCVerdicts`, `MCPipeline`, `MCStores`, `MCTables`,
`MCKinetic`, `MCDnsServices`, `MCDnsMessages` and `MCHosts` put components that share
no state side by side: a behaviour chooses one of them (`store`, `part`) and leaves the
others untouched, so the states add up instead of multiplying. The components that
theorems are about are extended, so that the property a run checks and the property a
theorem states are one definition, and the assumption on the constants is an `ASSUME`
of the component. The others are instantiated (`Loss!AlertSurvives`, `Every!PidHeld`,
...) and state their assumption as a definition (`RouterAssumption`,
`TrackersAssumption`, ...) that the MC module asserts with `ASSUME`. TLC evaluates both.

Refinement: `ProbeContext` implements `ObservationFifo` (`ImplementsFifo`): a
ring's queue is the slots between Tail and Head, and every other atomic access
is a stutter. The mapping is at the end of `ProbeContext`.

## 3. Runs

Ten runs pass and two show a disagreement. States are distinct states.

| Run | Checks | Instance and why it is enough | States |
|---|---|---|---|
| `arena` | `ReadExact` `PageExclusive` `LossNeedsLap`; `StoreCompletes` | 2 writers and a reader on one page, 3 stores: laps happen at once; every checksum collides, so only the sequence lock and the epoch protect; short, NUL, exactly inline and over-long payloads; descriptors of another process | 555 K |
| `context` | `PollSound` `NoSlotRace`; `ImplementsFifo` | rings of 2 so that they wrap and fill, a tracker of 1 entry so that processes alias, a batch of 4; up to 3 injections over all channels (`MaxBroad`) or 5 on one (`MaxInject`), the second so that a ring goes round more than twice | 649 K |
| `verdicts` | `CertificationEarned` `HostileRefused` `Unsoftened` `ReplayReproduces` `AgentSound` | three parts, below | 1.36 M |
| `pipeline` | `TableSound`; `PipelineSound` `TableKept` `PipelineSettles` | *pipeline*: 2 callers, queues of 1 so that they fill, 2 calls, failing writes, a table replaced by one that disagrees; *reputation*: 2 synchronisers, 2 sources, 3 changes or outages, a shared hosting root and a vendor with a blocked host; deadlock checked | 234 K |
| `stores` | `DisksGenuine`; `BookSound` `SiloTrue` `HistoryTrue` `CollectorExact` | nine instances, below | 1.49 M |
| `tables` | `BucketsHold` `CallersAnswered` | four instances, below | 1.14 M |
| `kinetic` | `ProfileSound` `QueueSound` `VetoPhysical` `VetoStable`; `ClosersReturn` | *profile*: a set of 2 ways with rings of 3; measures that leak, stall, sleep, talk or starve over 5 episodes (`MaxLong`: two to prime, then a drift of `SeuilPas` = 3), or rivals for the ways over 6; *queue*: a queue of 1, 2 dossiers, a resubmitting callback; among a direct caller, a reconfiguration and two closers of each kind at most 3 take part in one behaviour (`MaxActive`) | 111 K |
| `dns_services` | `LabAccounted` `ResponsesSound` `CampaignAlone` `EvidenceExact`; `ServicesSettle` | six parts, below | 423 K |
| `dns_messages` | `TrackersTrue` `StreamTrue`; `WireExact` | three parts, below | 1.39 M |
| `hosts` | `ProbesTrue` `InspectionComplete` `MeasuresTrue`; `HostsProgress` | seventeen parts, below | 223 K |
| `silo_relink` | `RelinkWhole` (`ChainWhole`) is violated | one silo, one event on each of four days, one failing write | |
| `packet_ring` | `AvailableDrained` is violated | a packet ring of 2 frames, a loop that calls `Poll` for ever | |

`verdicts`: *provenance*, every provenance over 2 pids (kernel or not), 2 uids, 6
executables and all flags, with every event; *cascade*, distances 0, 12, 13, 24, 25
and 129, both sides of each radius, where an envelope either sweeps one disk or mounts
up to three disks that disagree at every stage, all of one family and radius, around
an evaluation, its proof and its replay; *agent*, the views that the two disks judge
differently, names of up to a few labels, labelled files whose families and parents
meet on both sides of the split.

`stores`: *book*, two promoters that take turns (`Turns`), three of four incidents
(clean, striking a benign reference, not hostile, striking a threat) for a chamber of
two, genuine, altered, empty, absent and unsealed holdouts, one crash, records in
blocks of 2, a book one entry past `MaxEntries`; *forge*, a forger and a reader with
one power loss and one alteration; *delta*, two differential runs one after the other
with a power loss; *rival*, two runs of a forger and a differential run that overlap;
*chain*, one silo over three days, filled late, past its limit, with damage and
verifications; *loss*, two silos on one directory with a slice of an older version,
a failure and a damage; *collector*, three processes for two entries with counters
that saturate at 3; *clock*, one domain over every sequence of up to six times, on
both sides of the inactivity of 3, with a window of 4 that goes round; *rivals*,
three domains for two slots over four queries.

`tables`: *every*, each kind of request to the resolver with three kernel changes
between any two system calls, and arrays of one match for sockets that are up to two
(`MaxMatches` for 8); *inode*, the inode cache over four changes, one dump that fails;
*once*, a kernel that gives no pid twice, on a host with more sockets than the table of
a dump has places (`Crowded`); *grayzone*, 2 goroutines and 2 sources on one slot at the
instants 3, 4, 5 and 7: a refill needs more than a second (3 to 5), a slot is lost
after more than three (3 to 7, and not 4 to 7); two decisions that overlap in every
way (`MaxConcurrent`), or four that follow one another (`MaxDecisions`), which is what
it takes for a slot to be claimed, spent, left and claimed again, or for a refill to
be granted twice.

`dns_services`: *server*, 2 packets of senders whose hashes share a rate bucket, a
clock that moves both ways over a change of hour, one failing write, the signal at any
step; *shipper*, 3 lines for a queue of 2, two faults among refused and lost replies,
another origin that writes to the log, a signal; *campaign*, two clients for one
reservation, a pace of 2 over 3 ticks, a frozen clock, one crash or failure, a tool that
does not start, ends, or waits for its SIGTERM or its SIGKILL; *response*,
every question over names up to the longest, with labels that hold a '.' octet, cut
questions, wrong classes and opcodes, apexes short and long, and zones whose records fit or not; *live*, 2 datagrams of an address and 3
requests of one handler with one fault, beside evidence that an earlier service left;
*dual*, senders of two IP families and a window of one event.

`dns_messages`: *wire*, every packet of up to four bytes over label lengths, letters in
both cases, the '.' octet and pointers to the name, into it and past it, longer tails after one and
three labels, and one capture record of every kind under every link type; *trackers*,
three keys in a bucket of two ways over 5 observations and a window of one tick, with prints enough for each verdict of the non-LDH guard;
*stream*, three messages of any kind, or five of one kind, of apexes that share one of two
slots, and two messages of a recorded session with one failing write.

`hosts`: *connector*, three pids on two slots of the UID table and a ring of 2, forks,
exits and a pid given again; *files*, two openers, a handler whose reads and one of whose
answers may fail, a ring of 2; *ring* and *filter*,
a packet ring of 2 frames over four arrivals, and every frame that a field of the
filter tells apart; *memory*, the mappings and the image of a process; *scan*, one worker
over five files (signatures on both sides of a window, a file that grows, one too short,
two that fail); *pair*, two workers with `-normalize` and `-min-entropy`, over a comment
and a window of zeros; *router*, 2 rings of 2 slots with a feed that
overflows one, through the channel or through fanouts, one or two workers, a stop at
any step; *lsm*, every hook and circumstance, and streams with a cut, foreign, undated
or unknown record; *line*, over three hundred envelopes and calls, repeated and
differently cased keys, every prefix of a whole line and every line with one token
missing; *relay*, three sessions with a child that stalls, closes its output, ends or
fails, a client that stops reading, and a signal; *episode*, *pressure*, *stream*, *parsing* and
*topology* for the sensor, with two slices of work and one change of the process or of
the clock, or one failing call; *bench*, the three benches with one failing call or a cancellation.

The properties of a run are conjunctions of facts of one kind; the parts are defined
separately in the components' modules:

* `PollSound` = `VerdictSound` (`TypeOK`, `VerdictConsistent`, `NoFalseCorrelation`), `PollServesAll`
* `Unsoftened` = `TypeOK`, `ReflexesPrevail`, `ThreatNeverPasses`; `ReplayReproduces` with `OneDisk`
* `TableSound` = `TableTypeOK`, `BlockWins`; `TableKept` = `FailureKeepsBlocks`, `NeverOlder`
* `PipelineSound` = `Handover` (`TypeOK`, `NoPanic`, `Conserved`), `EvidenceTrue` (`AuditComplete`,
  `LateIsInsufficient`, `CaseComplete`), `TablesMet`; `PipelineSettles` =
  `CloseSettles` (`CloseReturns`, `Settled`), `Refreshes`
* `BookSound` = `ActiveWhole`, `NoPoison`, `PromotedKept`; `DisksGenuine` = `PublishedWhole`,
  `LoadedGenuine`, `ProofDescribes`; `SiloTrue` = `ChainWhole`, `VerifyTrue`,
  `AlertSurvives`, `PriorityKept`, `ObservedDistinct`, `NothingDestroyed`; `HistoryTrue` =
  `AnswerFromRun`, `NeverOvercounts`, `OneSlot`, `LossCounted`; `CollectorExact` = `Saturates`,
  `HarvestExact`, `ActiveKept`
* `BucketsHold` = `BucketLaw` (`BucketTypeOK`, `RateLaw`), `ActiveSlotKept`; `CallersAnswered` =
  `PidHeld`, `CandidateWins`, `TupleOnce`, `NoMiss`, `InodeExact`, `AttributionTrue`,
  `DecisionsComplete`
* `ProfileSound` = `DriftExact`, `QuietUnderNoise`, `HeldAreRecent`; `QueueSound` = `QueueExact`
  (`NoSendOnClosed`, `ExactAfterClose`), `EngineAlone`
* `LabAccounted` = `LinesAccounted`, `AnswersJournaled`; `EvidenceExact` = `NumbersExact`,
  `SentIsJournaled`, `ManifestTrue`, `CloseHonest`; `ServicesSettle` = `LabSettles`, `CloseReturns`
* `WireExact` = `DecodersAgree`, `PartsWhole`, `ReadersAgree`, `DecodingEnds`; `TrackersTrue` =
  `AlertsTrue`, `TablesWhole`; `StreamTrue` = `VerdictBacked`, `SessionOrdered`, `DetectionExact`
* `ProbesTrue` = `RingExact`, `ElevationTrue`, `InspectionExact`, `PacketsOnce`, `RouterExact`,
  `LsmAccounted`; `InspectionComplete` = `ScanComplete`, `LinesSound`, `RelaySound`; `MeasuresTrue`
  = `SensorSound` (`EpisodeMeasures`, `AbstentionGrounded`, `StreamWhole`, `ParseExact`, `PairSound`),
  `BenchHonest`; `HostsProgress`: openers are answered, scans and benches end,
  rings are drained until a stop, workers return after it, a guard exits.

The bounds are named in the modules (`MaxStores`, `MaxSeq`, `MaxInject`, ...) and
limit how often an environment action (a call, a tick, a failure, a kernel change)
begins; an operation that has begun is never cut short, except by the
envelopes, which restrict which inputs meet and keep every step of an operation
they admit.

## 4. Properties by hazard

`PROJECT.json` lists forty hazards at their lines. The main groups:

* **Lock-free reading.** A reader of the arena may see half of a payload, the
  payload of the next lap, or a page whose checksum agrees by chance:
  `ReadExact`, `PageExclusive`, `LossNeedsLap`. A ring slot may be written while
  it is copied, or copied before it is published: `NoSlotRace`, `ImplementsFifo`,
  `ProbesTrue` for the rings of probes and routers.
* **Aliasing and time.** Two processes share a tracker entry or a UID slot, two sources a
  bucket, two domains or clients a slot, two tasks a pid: `PollSound`, `ProbesTrue`,
  `BucketsHold`, `HistoryTrue`, `TrackersTrue`, `CallersAnswered`, `MeasuresTrue`.
* **A value replaced in use.** A disk, a reputation table or a base is replaced
  between two reads: `ReplayReproduces`, `PipelineSound`, `TableKept`, `DisksGenuine`.
* **Crash and failure between two steps.** `BookSound`, `DisksGenuine`, `SiloTrue`,
  `CampaignAlone`, `EvidenceExact`, `StreamTrue`.
* **Lost replies and retries.** `LabAccounted`.
* **Shutdown.** `PipelineSound`, `PipelineSettles`, `QueueSound`, `ClosersReturn`,
  `EvidenceExact`, `ServicesSettle`, `InspectionComplete`, `HostsProgress`.
* **Limits.** Full queues and tables, saturating counters, sampling, 512 octets:
  `CollectorExact`, `HistoryTrue`, `SiloTrue`, `BucketsHold`, `PollSound`, `ResponsesSound`.
* **Two readers of one text.** `WireExact` for four DNS decoders and two capture
  readers, `InspectionComplete` for the guard's scanner and its JSON decoder.
* **Decision tables.** Several signs at once: `CertificationEarned`,
  `HostileRefused`, `Unsoftened`, `AgentSound`, `TableSound`, `ProfileSound`,
  `VetoPhysical`, `VetoStable`.

These properties carry the exception that the code needs, measured by a history
variable, so that they still forbid everything else: `RateLaw` adds the
escalations granted while another goroutine held, in a refill, a count it had
already loaded (`raced`); `ActiveSlotKept` speaks of claims during which nobody else
wrote the slot (`alone`); `ProofDescribes` speaks of differential runs during which nobody
else replaced a published file (`alone`); `ReplayReproduces` asks for the
radius of the disk that was sealed (`radius`); `CandidateWins` and `NoMiss` ask that every
dump of the call succeeded and had room (`whole`), and the first that the exact matches
fit their array; `ElevationTrue` lets an elevation be flagged from the UID of a dead process
with the same pid (`dead`), and be missed where pids share a slot (`shared`); `EpisodeMeasures` lets a
process be replaced after its second `stat` was read; `AbstentionGrounded` lets a pressure
be invented or missed where one of its two readings failed; `LeavesNothing` excuses a bench
whose affinity the kernel refused to give back (`stuck`). See section 7.

## 5. Fairness and deadlock

* Arena, gray zone: weak fairness of every goroutine's next step. The Go
  scheduler is preemptive, and the arena's acquisition loop calls
  `runtime.Gosched`. Beginning a call is never fair.
* Reputation: `StartPeriodic` calls `SyncOnce` at each tick and a pass goes on by
  itself (weak); the goroutine waiting for `syncMu` gets it eventually (strong:
  Go's mutex enters starvation mode after a millisecond). Sources owe
  nothing; `Refreshes` speaks of behaviours in which outages end.
* Pipeline: callers under way, worker, writer and `Close` run (weak). The
  arbitrator may never answer, unless its context is cancelled: its interface
  takes a context. `Close` cancels it.
* Kinetic queue: an inference ends; whoever waits on the gate gets it (strong: a Go
  channel serves its waiting senders in order). A caller's context need not end.
* Live service: a goroutine that can run does (weak, for the UDP goroutine, each handler
  and `Close`). Clients owe nothing; `Shutdown` is bounded by its context.
* Laboratory: every step of the server, the shipper and a campaign goes on (weak); the
  signal that `Stop` waits for is taken although ticks are ready too (strong: a
  `select` chooses among ready cases at random). The log owes nothing: a request ends
  with an error at the timeout of its client.
* Decoders and benches are sequential programs (weak).
* Scanner and routers: every goroutine runs (weak); both spin with `runtime.Gosched`.
* Probes: the loop of the probe reads the next event (weak); for `packet_ring`, `Poll` is
  called for ever (weak). The kernel and the openers owe nothing.
* Guard: reads and the main goroutine (weak); whoever waits for the lock on the output
  gets it (strong, as above). The child owes nothing, neither to read nor to end: timers and the
  kill bound it. A client that stops reading is excluded from `HostsProgress` (section 7).

Deadlock is checked for the pipeline and its reputation table, where every stop is an error or an
explicit final step. The other runs bound the number of calls, after which
nothing is left to do, and say `CHECK_DEADLOCK FALSE`; for them being stuck in
the middle of an operation is excluded by `StoreCompletes`, `CallersAnswered`,
`ClosersReturn`, `ServicesSettle`, `WireExact` and `HostsProgress`.

## 6. Proofs

All theorems hold for every value of the constants that satisfies the named
assumptions: the sizes that the runs fix (two writers, rings of two slots, two
calls) are arbitrary here. Each invariant below was checked by TLC on the instance of
its run before it was proved. A proof has one lemma per action that says what the
action changes (its *effect*), and one per part of the invariant that this can disturb.

| Theorem | States | Run |
|---|---|---|
| `TypeCorrect`, `WritersExclude`, `ResolveExact`, `LossTakesLap` | `TypeOK`, `PageExclusive`, `ReadExact`, `LossNeedsLap` of `ArenaPool` | `arena` |
| `SlotsNeverRace`, `PollsAreSound`, `RingsImplementFifo` | `NoSlotRace`, `PollSound`, `ImplementsFifo` of `ProbeContext` | `context` |
| `CertificationIsEarned`, `HostileIsRefused`, `KeyIsFaithful` | `CertificationEarned`, `HostileRefused`, packing of `Provenance` | `verdicts` |
| `VerdictsUnsoftened`, `ProofsReplay` | `Unsoftened`, `ReplayReproduces` of `Cascade` | `verdicts` |
| `BucketsAreLawful` | `BucketsHold` of `GrayZone` (an invariant and an action property) | `tables` |
| `DisksAreGenuine` | `DisksGenuine` of `FloppyStore` | `stores` |
| `PipelineIsSound` | `PipelineSound` of `Pipeline` (safety and one action property) | `pipeline` |
| `TableIsSound`, `TableIsKept` | `TableSound`, `TableKept` of `Reputation` (an invariant, two action properties) | `pipeline` |
| `BookIsSound` | `BookSound` of `Promotion` (an invariant and an action property), under `Turns` | `stores` |
| `HistoryIsTrue` | `HistoryTrue` of `TemporalTracker` (safety and one action property) | `stores` |
| `VetoIsPhysical`, `VetoIsStable` | `VetoPhysical`, `VetoStable` of `KineticProfile` | `kinetic` |
| `QueueIsSound` | `QueueSound` of `KineticQueue` | `kinetic` |
| `CollectorIsExact` | `CollectorExact` of `NetCollector` (an invariant, two action properties) | `stores` |
| `LabIsAccounted`, `CampaignsRunAlone` | `LabAccounted`, `CampaignAlone` of `DnsLab` | `dns_services` |
| `EvidenceIsExact` | `EvidenceExact` of `DnsLive` | `dns_services` |

**Arena** (`ArenaPoolProofs`, from `ArenaAssumption`): any checksum function,
collisions included. `ReadExact` is not inductive: the reader's
copy is correct only because of what the page's writer has done and will do. The
invariant is `ArenaInv` = `TypeOK`, `PageExclusive` (seq is odd exactly while one
writer holds the page), `WriterInv` (what a writer has already written at
each program counter), `RestInv` (a page at rest holds the deposit its epoch and
length name), `CopyInv` (while seq has not moved since the reader's first load,
the words copied are the page's) and `ReadExact`. `CopyInv` is what makes
the last comparison of seq conclusive.

`LossTakesLap` is the converse: a refusal is never spurious. `LapInv` says that a
sealed event's page answers every check as the event expects, or another slot of that
page has been allocated since (`SealedInv`); the writers at work hold different slots
(`HolderInv`), so that a page whose slot is sealed can only be touched by a writer of
another slot; the checksum is on the page before the epoch is (`CrcInv`); and a
reader in the middle of its checks either still has the page's seq or has been lapped
(`OwnInv`). "Lapped" only grows, because slots are allocated and never given back.

**Rings and polls** (`ProbeContextProofs`, from `ContextAssumption` and
`ObservationAssumption`). The invariant is `IInv`: the distance of Head and Tail is
at most the size (`RingInv`); the producer's slot is free and its copy of Head current
(`ProdInv`); the slots between Tail and Head hold observations of their channel
(`ContentsInv`); the consumer's Tail is current, and what it copied is what
the ring holds (`ConsInv`). Numbers less than `Size` apart have different slots
(`ModDistinct`), which is why the two sides never meet. `PollsAreSound` adds
`ServeInv` (a channel that held something when the poll began is served or still holds
it, and the first round passes every channel once), `SettledInv` (the verdict bit
agrees with the vetoes) and `TrackerInv` (each subsystem of a tracker entry has a
hostile observation of that process in the window): `NoFalseCorrelation` alone is not inductive,
since it speaks of the past of an entry that the current step only reads.

`RingsImplementFifo` is the refinement, step by step. The queue of a ring is the slots
between Tail and Head. `InjectHead` is the abstract enqueue, an injection that finds
the ring full is the abstract refusal, `ReadTail` and `BatchTail` are the abstract
take, `EvalRules` and `BatchReturn` end the abstract poll, and every other access
is a stutter; in particular the producer's store into the slot, which is outside the
queue until Head moves.

**Provenance** (`VerdictProofs`). `PackUnpack`: the four fields of the 20-bit key
do not overlap, so unpacking gives back what was packed (`KeyIsFaithful`). From
`DecisionInv` (a verdict is that of the table for the current process and event)
follow `CertificationIsEarned` and `HostileIsRefused`, for every set of
provenances.

**Cascade and proofs** (`VerdictProofs`, from `CascadeAssumption`: the disks, events and
contexts have the shape the code gives them). `CascadeInv` says of the
evaluation under way what each layer it has passed answered, under the one disk it
loaded (`JobInv`): `Unsoftened` speaks of the end of an evaluation only, when
the intermediate answers are gone. Of a proof it says that one sealed while the slot still held
the disk of the evaluation seals that disk (`ProofsInv`). An evaluation sees a disk through
what its checksum covers and its radius, so a disk that has both again gives
the same verdict (`ProofsReplay`).

**Gray zone** (`VerdictProofs`, from `GrayZoneAssumption`: bursts fit a 32-bit word and
rates are positive, as the defaults of `NewGrayZoneDecider` make them; the clock does
not go back). `RateLaw` is not inductive, because a refill is won (the exchange of
`lastRefill`), loaded and stored in three steps. `Pending` holds the seconds of the refills that
are won and not yet loaded, and `RateInv` is: escalations, plus the tokens in the bucket (or in the
hands of a refill about to store them), plus the rate times the pending seconds, are at most the
burst, the rate times the whole seconds up to `lastRefill`, and `raced`. `HoldInv` says what each goroutine knows of the bucket it is working
on; a claimer whom nobody disturbed still sees the `lastRefill` it tested, which
gives `ActiveSlotKept`.

**Disks** (`VerdictProofs`, from `FloppyStoreAssumption`: a radius is not 0 on a disk that is saved,
as in the disks of the forge). `DisksInv` is: every file that is named, loaded or remembered
exists (`DiskTypeInv`); the seal of a file is that of a composed disk, damaged
or not (`SealInv`); a path names only files that were written in full and synced, now and since
the power came back (`PublishedInv`); what each run has in its hands at each system call
(`RunInv`) and that nobody shares a temporary file (`TmpInv`); what a reader has verified
(`LoadInv`); and that a run which nobody disturbed still sees the files it opened
(`QuietInv`). Files are only added and the image of a file never changes, except by damage, which does
not change its seal: this is why a loaded disk stays genuine although the path is replaced.

**Pipeline** (`PipelineProofs`, from `PipelineAssumption`). `PipeInv` has a part per
thing that could go wrong: who may still be at work after each step of `Close`
(`LifeInv`: callers are out before the queue is closed, the worker is gone before the
audit is); where an incident is, exactly one of queue, worker, delivered and abandoned,
while the number of a call under way is nowhere yet (`FlowInv`); what the worker knows
of its case (`CaseInv`: one taken after the cancellation never reaches the veto);
where the record of a decision is (`AuditInv`: waiting, written, or lost with the error
raised); which tables a call under way has met (`MetInv`). `TablesMet` is an action property and
follows from `MetInv` before the step in which the call returns. `Handover`, that no
incident is lost or doubled, is not inductive: an incident that is queued must be known not to be
in the queue already, which holds because the number of a call is new and
is in no other place while the call is under way.

**Reputation** (`PipelineProofs`, from `ReputationAssumption`: a domain is a sequence
of labels, each source has a class and a kind, and a default entry is well formed). `BlockPrevails`:
of the entries that cover a name `Match` returns the one of highest rank, which no other
class than a block reaches, so a block is the answer whatever else covers the name. `SyncInv` says that the mutex is held from the
first fetch of a pass to its end, that what is known of a source is never more recent than the
clock, and that every source of a pass is still to fetch, has failed, or was
read at least as recently as the table in service holds it. The last part is what the action
properties need: the table that a pass replaces is the one it began with.

**Temporal tracker** (`PipelineProofs`, from `TrackerAssumption`: the table, the probes and the window are not
empty, a subdomain sets a bit at least). A history variable keeps all queries of a domain
since it got its slot, `RunStart` where its current run begins (after a silence
longer than `Inactivity`). `TrackerInv` relates the slot to it: the query j before the
last is at the place j before the head of the ring, the count is that of the run up to the window,
the filter is the union of the bits of the subdomains of the run, and `unique` is at most
their number (a subdomain is counted only when it sets a new bit); a domain has one
slot, on its path (`OneSlot`). From this `AnswerFromRun` (an answer is about
the last queries of the current run of that domain and of no other) and
`NeverOvercounts`. That the slot evicted was the least recently seen of the
path is `LossCounted`.

**Codebook** (`PipelineProofs`, from `PromotionAssumption`: an incident has not the number of an
entry of the first book, and the arguments of a validation name a holdout or none). The
theorem is `BookSpec /\ []Turns => BookSound`: two promoters are never both between the
merge and the reload, as `PromoteAndReload` takes no lock and relies on its callers
(section 7); the chamber, the validations and the approved lists are shared freely.
`ActiveWhole` is not inductive: `BookInv` says that the file is
always the *beginning* of the file of a book that some promoter composed (`FileInv`), and that
a promoter at work knows of which book, and how far it has written or read it
(`PromoterInv`). Since the header is in the first block, a beginning that loads is the whole
book (`LoadsWhole`): a crash or an error between two blocks leaves a file that is refused.
`LearntInv` carries the approval of an incident through the approved lists and the books
to the active one; `SelectedMembers` proves, from a least counterexample, what the loop over the
chamber keeps.

**Kinetic veto** (`KineticProofs`, from `SeuilPas >= 3`). `Founded`: each orientation of
the table has the facts that justify it. `VetoIsPhysical`: whatever a model
proposes for an escalated episode, the verdict kept is physically possible.
`VetoIsStable`: the six rules, applied in order, accept each verdict they impose.
`SeuilPas >= 3` is needed because the veto compares with the literal 3
(`arbitre_slm.go:151`) while the table compares with the configured threshold,
5 by default; below 3 the two would disagree.

**Arbitration queue** (`KineticProofs`, from `QueueAssumption`: the roles of goroutines are
disjoint, the queue has a place). Dossiers are numbered in the order of the queue, and
`AccountInv` is: the first ones have an outcome, the worker holds the next, the
others wait in the queue; accepted dossiers are those numbered, less the one whose sender is between
the send and the count. `LockInv`: readers and writer of `muSoumission` exclude each
other, so nobody is between the send and the count when the queue is closed, and whoever
gets the lock afterwards finds `fermee` set: a send never panics. `GateInv`: the gate is held by exactly who is inside, and the model is
unmapped by somebody who holds it.

**Collector** (`KineticProofs`, from `CollectorAssumption`). Histories keep what is owed to each
process since its last harvest or recycling, and when it was last recorded.
`CollectorInv`: an entry holds exactly what is owed to its process and its last access
(`EntryInv`), a process has one entry (`OneEntry`), and nothing is owed to one without
an entry (`NothingOwed`). `Placed` says what `acquerirEmplacementVerrouille` promises: the entry of the
process, a free one, or the one used the longest ago, emptied.

**DNS laboratory** (`DnsServiceProofs`, from `DnsLabAssumption`: rate, burst, interval and
duration are positive because `NewRateLimiter` (`ratelimit.go:18`) and the validation
of a campaign (`campaign.go:64`) refuse others, the remaining limits are constants of
the code, and the clients are finitely many). `LabInv` has, besides types:
`JournalInv` (the lines on disk, counted and in hand, along one turn of the server);
`RateInv` (answers given plus tokens left are at most the burst plus the rate times
the time up to the bucket's *stamp*: the stamp and not the clock, because the clock goes
back and the stamp does not); `Stretches` (identifiers only grow, so what is
stored, in the batch and in the queue are three stretches that follow one another);
`ShipInv` (`Account`: the counters add up at every step, also with the shipper gone;
`Receipts`: lines counted as shipped are among those stored *outside* the batch, because a
line stored whose receipt was lost is still in the batch and is not counted twice);
`PitInv` (the log is one chain); `EmitInv` (one reservation, given back on every
path; the date of question n is at least n intervals after the start, however long
the process sleeps; the staging file is whole before it is renamed).

**Live DNS service** (`DnsServiceProofs`, from `DnsLiveAssumption`: the window of events has a
place). All is under one mutex, so the proof is about a function of the state of
the service: each critical section takes a sound state (`ServiceInv`: numbers, window
and the two files of every source agree) to a sound one that `Follows` it. `Follows` is what
the histories need: a source closed without error never changes again, numbers are not taken
back, and after a failure the journal gives no number, so that a file has at most one event too
many. What was sent (`SentInv`), served (`ServedInv`) and seen by clients (`ClientInv`) then stays
true, and a `Close` that met no error leaves nobody who could move (`CloserInv`).

Where an argument needs a least element (the earliest source of an entry, the entry
used the longest ago), `NatMinimum` and `LeastNumber` give it from the well-founded order of the
natural numbers. The one induction over data, `SelectedMembers`, is an argument of this kind.

Only model-checked, and why:

* liveness under fairness and ENABLED: `StoreCompletes`, `ClosersReturn`, `ServicesSettle`,
  `HostsProgress`, `PipelineSettles`, `DecisionsComplete` (in `CallersAnswered`);
* what a fold or a recursive function computes: `ResponsesSound` (length of a wire name),
  `WireExact`, `TrackersTrue`, `ProfileSound` (medians), `RouterExact` (sums over rings), and
  `McpGuard`, which has RECURSIVE operators. Of the tracker's jitter, that it is a percentage
  takes the inequality of Cauchy and Schwarz over a sequence; `MCStores` has TLC evaluate it on
  every sequence of the instance;
* `SiloTrue`, `AgentSound`, `StreamTrue`, `CallersAnswered`, `ProbesTrue`, `InspectionComplete`
  and `MeasuresTrue`: they are stated over several instances with bounds of their own, and
  some parts hold only for the instance (one silo, section 7).

## 7. Disagreements met while modelling

Two are kept as runs; most others were found with TLC on variants of the same
modules, a few by reading the code for the model, and explain the exceptions and the bounds of section 3.

* `server_oracle_silo.go:481` (run `silo_relink`): after a write that fails
  between two later days, sealing again with the same entries finds the first
  later day coherent and stops; the next keeps a seal that no longer exists.
  The comment at 454 says such a slice "est réécrite". Hence `MaxFailures = 0` in *chain*.
* `server_oracle_silo.go:517`: the seal remembered in memory is used although the
  flock was released since and another process may have sealed that day again
  (271 says the two serialise). Hence one silo in *chain*.
* `server_oracle_silo.go:521`: a file of an older version just before gives a null
  seal, while the verification skips it. Hence no legacy day in *chain*.
* `server_oracle_silo.go:345`: events discarded by the reservoir are counted again
  when met again (`server_oracle.go:128` says distinct). Hence the "while none
  was discarded" of `ObservedDistinct`.
* `grayzone.go:102`: the refill loads and stores tokens in two steps, so tokens
  spent in between come back. Hence `raced` in `RateLaw`.
* `grayzone.go:147`: `lastRefill` is tested before the owner is exchanged, so a
  slot in use can change hands (145 says inactive ones only). Hence `alone`.
* `forensic_proof.go:204`: parity compares the family and the CRC of the body,
  which leaves out `BlockRadius`; a disk of another radius passes and the replay
  diverges (193). Hence `radius` in `ReplayReproduces`.
* `feedback_quarantine.go:221`: `Current()` is read before the save without a lock,
  so two promotions that overlap can lose one's entries and mix two books in the
  file (215 says atomically). Only a test calls it, once. Hence `Turns`.
* `cmd/c2forge/dns_delta.go:63`: the base is opened three times; replaced in
  between, a proof pairs the counts of one disk with the hash of another. Hence
  `alone` in `ProofDescribes`.
* `pipeline.go:272`: `EvaluatePacket` loads the reputation pointer twice, so the name
  and its parent may be judged by two tables. Hence `TablesMet`, which asks that each
  look rests on a table in service during the call.
* `probe_linux.go:101` (run `packet_ring`): `Poll` starts again at frame 0 and breaks at the
  first frame that the kernel owns, while the kernel goes round; a frame behind an
  empty one waits. The comment at 93 says that `Poll` drains what is available.
* `pipeline.go:350`: on a closed pipeline the veto returns before it fills the
  summary that 344 promises. Hence the exception for late cases in `CaseComplete`.
* `attribution_socket_linux.go:324` and `:714`: a cached tuple is revalidated by the
  link of its descriptor but not by the start time, and a fresh answer reads the
  start time once, after the descriptors; a pid reused in between answers for
  another process (39). Hence `PidHeld`, which speaks of the pid, in *every*, and
  `AttributionTrue` in *once*.
* `attribution_socket_linux.go:549`: a failed dump ends the request, without the
  IPv6 fallback; its sequence number is not checked (`inet_diag.go:143`), so what it left in
  the socket is read by the next dump. A table of 1024 sockets, and arrays of 8
  matches, silently leave the others out (554-579): a candidate that holds the ninth exact
  match is not found. Hence `whole` and `MaxMatches` in `CandidateWins` and `NoMiss`.
* `internal/dnslive`: a sender of another IP family than the listener's sets the sticky
  journal error and stops all journaling, and what is dropped afterwards is counted
  nowhere; a failed copy or sync leaves an event in the files without a number in memory
  and the manifest of its run is still served (hence the "but for a last one" of
  `ManifestTrue`); `Close` before `Start` uses `closeOnce` up; evidence names are
  exclusive, so a restart on the same directory with the same run stops the journal.
* `cmd/dnslab-auth/shipper.go`: lines enqueued after the shipper saw the signal are counted neither as
  shipped nor as dropped (the model counts them apart, `late`); a lost reply stores
  a batch twice, and a dropped batch may be stored.
* `internal/dnslab/response.go:97`: the apex test and the offset of the SOA's owner (251, 321)
  are computed on the dotted name, where an octet '.' inside a label looks like
  a separator: such a name passes the test without lying under the apex, and the pointer falls inside
  a label. Hence `plain` in `ResponseSound`; without such an octet the pointer is the apex.
* `internal/dnslab/campaign.go:222`: a crash between the staging file and the rename leaves
  a file that refuses the same run for ever, as it is created exclusively.
* `record_session.go:207`: a failed journal write leaves a frame without a line, and the index
  of every later line is one short (31 says atomic). Hence "while no write failed" in
  `SessionOrdered`. After `Close` the trackers are still moved before the write fails.
* `dns_forensic_ttd.go:66`: counters said to be circular saturate, never expire, and are
  common to all clients.
* `dns_rollup_p4.go`: a client that hashes to a slot in use takes it and the history
  of the other is gone. `renouvellement_rdata.go`: past 16 records duplicates count again.
* `dns_pcap_msg.go:166`: the IPv4 total length and the fragment offset are ignored by one of
  the two capture readers; hence `ReadersAgree` in one direction only.
* `internal/probes/inspect.go:86`: `isJITRegion` compares prefixes of 8, 9 and 10 bytes with
  names of 9, 10 and 11 and never matches. `cnproc.go:237`: an exit leaves the UID of its
  process in the slot, so the next process with that pid is flagged when its first UID
  event names root, without having been seen unprivileged. `fanotify.go:174`: an
  answer that cannot be written leaves its opener waiting until the probe is closed.
* `internal/probes`: an overrun of the netlink socket ends `ProcProbe.Run`; the filter refuses
  frames (VLAN, IPv6) that the decoders handle.
* `capteur_proc_linux.go:298`: a pid replaced between two files of the last snapshot, after
  its `stat`, gives a mixed episode when the counters of the new process are larger (the only
  exception of `EpisodeMeasures`); a thread that exits
  during an episode makes the sum go back and the episode is refused. Callers
  discard the error of `LirePressionPSI`, so that a pressure unread at the start is
  taken for none and all of the later total for the episode's; when the two instants do not
  follow each other (the clock may be set back, or the last pressure was not read)
  `quotients_episode.go:389` falls back on the average of ten seconds, older than the episode.
* `chaine_complete_linux.go:223`, `:666`, `invariance_hybride_linux.go:128`: the error of
  the call that gives the affinity back is discarded. Hence `stuck` in `LeavesNothing`.
* `cmd/c2scanner/main.go:626`: with `-normalize` or `-min-entropy` a signature inside a comment,
  or only in windows of low entropy, is not reported. Hence `Pruned` in `ScanComplete`.
* `dns_agent.go:518`: the two disks are saved one after the other, so a failure leaves a new
  one beside an old one; above 2 000 tunnel entries the identifiers run into those of DGA;
  labels other than 0 and 1 are not learned but scored as benign.
* `router.go:215`: events still in a ring when stop is closed are neither handled nor counted.
  `corpus_router.go:84`: an unknown corpus is refused without a count.
* `lsm_receiver.go:325`: a record is counted as received before the silo may refuse it.
* `cmd/c2blue-mcp-guard/main.go`: a client that stops reading blocks a write under the lock,
  and the guard then survives a signal (the context only kills the child); a child that
  stops reading with a full pipe keeps the guard from seeing the end of its input.

## 8. Abstractions

* **Arena**: counters stay below the wrap of `seq` (2^32) and of the epoch (2^42
  deposits); a checksum is an arbitrary function.
* **Cascade**: a disk is what its searches answer (keyword, distance, probe, class);
  feature extraction and vector search are not computed.
* **Gray zone**: reading the clock is merged with the first load; hashing a source to a slot is a
  function.
* **Promotion**: blocks have the granularity of records; an entry is a number.
* **Disks**: a disk is its centroids, radius and key; system calls are atomic. That the temporary
  files of a run are removed is not stated: the error of `os.Remove` is discarded.
* **Reputation**: parsing a list gives a set of entries; the hash index is a set.
* **Pipeline**: a packet is its traits; what the tracker answers is free; the
  empty `LogPath` (no audit) is left out.
* **Silo**: a seal is the slice itself (no collisions), without the start time;
  load, merge and write of one file are one step under the flock.
* **Attribution**: a dump is a snapshot of the kernel's tables, cut where a table or an array is
  full; one set of the tuple cache; the filter on the UID is left out.
* **Collector**: one counter of each kind is kept (incoming bytes, resolutions and
  connections elsewhere are treated alike); the last suspect port, DNS code and
  listening flag are left out.
* **Kinetic**: one of 64 sets; Welford moments (read by no decision) and 128-bit
  saturation are left out; absorbed traffic is given; the model's verdict is a
  free choice; callbacks that call `Fermer` are not modelled.
* **Messages**: offsets and lengths are kept and limits scaled down (`MaxName` for 253);
  a frame of a capture is its fields. Entropies, ratios and scores are thresholds met
  or not (marks of a message); hashes are keys that may share a bucket.
* **Agent**: a vector is its distances to the disks; a label is a number.
* **Live service**: everything under `mu` is one step; a datagram is what the service does with
  it, an event its number. **Laboratory**: the log is an external chain whose hash is a rank.
* **Probes**: the kernel is external; a process, path or frame is the fields looked at.
  `NewFileProbe` and the marking of protected paths are not modelled, nor are `HandleExec`,
  `DetectReverseShell`, `DetectDaemonEgress` and `EmitAlert`, which no program calls.
* **Scanner**: a file is its length, line ends and signatures; a window matches when
  it holds a signature; the channel of the engine is a bounded queue.
* **Guard**: a line is its tokens with the tree that `encoding/json` reads; a message is
  written in two halves, which is enough to see two writers mix. A grandchild that holds
  the pipe after the child has ended is not modelled, here and for the tools of a campaign (`runner.go:176`: in the model `Wait`
  returns once the group is killed).
* **Sensor**: one counter of each kind stands for its family. **Benches**: measured values
  are free, bytes are counted in units of 2048, and loops are shorter (`MinCalm`,
  `MaxPrime`, `Drift`, `Datagrams`).
* **Routers**: `Gosched` is a stutter; subsystems are two instead of four, corpora two instead of six.

## 9. Not modelled, and the plan

Modelled first were the lock-free core (arena, rings), the decision path
(ontology, cascade, gray zone), what survives a crash (codebook, disks, silo),
the pipeline with its tables, and the kinetic engine; then the services and the
message path of DNS, and what observes a host. What could follow:

1. the pages of the arena web server and the arbitrators of `c2agent`, as clients of
   `Pipeline`, if they come to keep state of their own;
2. the form arbiter (`arbitre_formulaire.go`) as a second instance of the gate of
   `KineticQueue`;
3. the baseline loader and the slice format of `server_oracle.go`, as the abstract
   slice that `OracleSilo` refines;
4. `DeltaCatalog` (`delta_catalog.go`, `delta_compile.go`), with `FloppyStore`.

Proofs to add, in order of value: `RingExact` and `ElevationTrue` of `KernelProbes`; `PidHeld` of
`SocketAttribution`; `AlertSurvives` of `OracleSilo`; `RelaySound` of `McpGuard`, once its
grammars are apart from the relay. Each takes an invariant over the history
that its property mentions, like those of section 6.

Left out for good: evaluations, corpora and motifs (batch computations whose state
does not outlive a call), the generators of the DNS laboratory, the other forge
commands, decoders and statistics of encrypted and ICMP flows, log lines and pyramids
of the oracle (functions of one input), the thermal log, pages and texts, and
numerical code on bit vectors (`rabitq512.go`, the entropy probe,
`syntax_filter.go`, feature extraction), whose results the models take as data.
