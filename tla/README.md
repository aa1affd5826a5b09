# anyNS: models, checks and proofs

anyNS resolves decentralized names (HNS, ENS, Namecoin, ...) behind a PowerDNS
recursor and watches the DNS traffic that passes through it. This directory
holds TLA+ models of its core logic, the TLC configurations that check them on
small instances, and TLAPS proofs of what matters most. Every definition is
translated from the Go (or Lua) source; `PROJECT.json` maps each one to its
lines.

Run a model with `tlc -config X.cfg M` and a proof module with `tlapm M.tla`.

## 1. Inventory

| Part | State | Operations | Hard behaviour | What makes it correct |
|---|---|---|---|---|
| **Plugin router** `internal/plugins/router.go` | route table, plugin flags, TTL cache per plugin | Resolve, SetPluginEnabled, FlushCache, CacheStats | the backend is called between two acquisitions of the lock; flush, disable and reload happen meanwhile | no answer leaks between views; none is older than TTL, flush or reload allow |
| **Resolve handler** `cmd/anyns-plugin-runtime/main.go` | none of its own | POST /api/v1/resolve, reload | two security decisions around one resolution, one log event, at most one honeypot delivery | every exit logs what it replies; refusals survive |
| **Security analyzer** `internal/security/analyzer.go` | three sliding windows per client | AnalyzeQuery, AnalyzeResponse | window boundaries; the windows are shared by all requests of a client | no window ever admits its threshold |
| **Recursor hook** `configs/pdns-recursor/recursor.lua` | none | preresolve | which runtime replies override ICANN recursion | routed names stay with the runtime, the others with ICANN |
| **Plugins** `internal/plugins/{hns,wave1}` | fixture records, backend settings | Resolve | one HTTP, DNS or JSON-RPC exchange per name, CCIP-Read redirections | only an answer to the question asked is accepted |
| **Honeypot client** `internal/honeypot/client.go` | failed queue in memory and as a JSONL file | DeliverOrQueue, Drain, replay worker, reload, restart | deliveries happen outside the lock between two passes over the queue | nothing is lost, repeated or kept beyond its attempts |
| **DNS log** `internal/dnslog` | ring of the last events, JSONL file | Append, ListFiltered(Page), Summary | paging while the ring moves | pages neither repeat nor skip |
| **Certificate manager** `internal/certificates/manager.go` | jobs in memory and in one state file, PEM files | Start, Renew, Revoke, SetIssuer, Close, restart | one worker at a time, several writes per transition, any of them may fail, crash between any two | bounded attempts, no job lost, files and status agree |
| **Private CA** `internal/certificates/private_ca.go` | root key and certificate files, metadata, CRL | Issue, Import, rotate, disable | two files per root, issuer swapped under running jobs | the pair fits; a disabled root signs nothing |
| **ACME issuer** `acme.go`, `powerdns_provider.go` | TXT challenge records | Issue, Present, Cleanup | read-modify-write of a remote RRset | challenges survive until checked, and are removed |
| **PowerDNS client** `internal/powerdns/client.go` | none; the zone lives in PowerDNS | create zone, patch RRsets, update SOA | serial read-modify-write, create then roll back | serials grow, a failed creation leaves nothing |
| **Admin API / control plane** `internal/adminapi`, `internal/controlplane` | current configuration, management keys | configuration PUT, reload, proxy to the runtime | the file, the admin process and the runtime may diverge | the three agree again after a success |
| **Management keys** `cmd/anyns-management-key`, `controlplane.go` | keys with scopes, validity and revocation | issue, rotate, revoke, list | overlap rule for successors is coded twice | a rotation leaves no gap; a revoked key opens nothing |
| **Log forwarder** `cmd/anyns-log-forwarder` | a DNS log and a honeypot client | POST /dns-events, drain | batch accepted with 202 whatever happens to the delivery | what is accepted is delivered or queued |
| **Config, names, metrics, UI, source-policy** | | | formatting and validation | |

How they interact: the recursor's Lua hook posts every query to the runtime.
The resolve handler asks the analyzer, the router and the analyzer again, writes
one DNS log event and, for one kind of finding, hands it to the honeypot client.
The router calls a plugin, the plugin a remote backend. The admin process has an
`App` of its own and reaches the runtime through the control plane's proxy; both
replace the four components of their `App` when the configuration is reloaded.
Certificate jobs run in the admin process only; they write PEM and state files
and reach PowerDNS for DNS-01 challenges.

| Process | Submits batches | Replay worker | Drain request | Reload |
|---|---|---|---|---|
| plugin runtime | yes | yes | no endpoint | yes |
| log forwarder | yes | yes | yes | no |
| admin API | no | yes | yes | yes |

## 2. The modules

    SecurityAnalyzer <- ResolvePipeline <- MCResolvePipeline, ResolvePipelineProofs
    PluginRegistry   <- MCPluginRegistry, PluginRegistryProofs
    CertManager      <- MCCertManager, CertManagerProofs
    FailedQueue      <- MCFailedQueue, FailedQueueProofs
    NameServices, EnsLookup, HnsExchange <- Lookups <- MCLookups, LookupsProofs
                           LookupPromise <- Lookups   (refined by it)
    Zones            <- MCZones, ZonesProofs
    PrivateCA        <- MCPrivateCA, PrivateCAProofs
    ControlPlane     <- MCControlPlane, ControlPlaneProofs

`NameServices` is extended by `EnsLookup` and `HnsExchange`, and both by
`Lookups`. Every MC module only gives the constants values. Variables marked *History* are
read by the properties alone.

### PluginRegistry: the router and its cache

`Registry.Resolve` takes the lock three times and calls the backend between the
last two, so a call is the steps `Begin` (match), `CheckEnabled`, `Hit` or
`Miss` (getCached), `BackendAnswers` or `BackendFails`, `Store` (setCached),
`Finish`. `pc[w]`, `req[w]`, `sent[w]` and `ans[w]` are the locals of goroutine
`w`. `SetPluginEnabled`, `FlushCache` and `ReloadFromConfig` interleave between
any two steps. A reload builds a new registry and swaps the pointer, so `enabled`
and `cache` are indexed by generation and `gen[w]` is the one a call started
with. The route rules (`RouteMatchesName`, `Admits`, `RanksBefore`, `BestRoute`)
and the cache key are operators on the request, spelled as clients spell it:
`Canon` and `CanonName` are what lower-casing and trimming do to the spellings
of an instance. Time is an integer clock; an entry is fresh up to and including
its expiry, as `time.After` has it.

### SecurityAnalyzer and ResolvePipeline: one query from hook to reply

`SecurityAnalyzer` has the three windows of `analyzer.go` as ages of what they
hold (`queryAges`, `subdomainAge`, `nxAges`; counts above a threshold are not
told apart) and the rules in their order of precedence. The lexical rules
(entropy, label length, record types) are the attribute `shape` of a query and
the list rules the attribute `lists`.

`ResolvePipeline` extends it with handlers. `Refuse` and `Admit` are the handler
up to the first decision, `Resolve` is Registry.Resolve, AnalyzeResponse, the
event and the choice of the reply, `Deliver` is deliverIfNeeded, `WriteReply`
hands the reply to the hook, which applies it (`Applied`) if it has not left
(`GiveUp`). `Reload` replaces the analyzer. `Tick` advances time; no handler may
stay in a step longer than the code's time limits (`Limit`). The router is
`Results(q)`, all that Registry.Resolve may return.

### CertManager: certificate jobs

`jobs` is the manager's map, `disk` what state.json says, `chain` and `key`
which certificate the two PEM files of a job hold, `work` who holds the slot.
The goroutine of a job is `Acquire`, `Attempt`, `Call`, `Finalize` or
`AttemptFails` or `IssuerReturns`, `WriteChain`, `WriteKey`, `Succeed`, `Fail`,
`Wake`. `Start`, `Renew` and `Revoke` are split where the code releases its lock
(`RenewCheck`, `RenewStart`; `RevokeCheck`, `RevokeRead`, `RevokeAsk`,
`RevokeMark`). Every write may fail; `Update` ignores that as the code does.
`Crash` may come between any two steps and `Load` continues as NewManager does.

### FailedQueue: failed deliveries

`entries[g]` is the queue in memory of the g-th client the process built (a
reload builds one), `file` the JSONL file they share. `Submit`,
`DeliverAtOnce`, `Enqueue` are DeliverOrQueue; `StartDrain`, `DeliverNext`,
`Expire`, `Replace` are Drain, which holds the lock only in the first and the
last. A write may fail at once or half-way (`Appends`, `Rewrites`), leaving a
line that cannot be read (`cut`). `QueueOf` says which client a drain works on:
the worker's is the one of the start of the process. `upset` records which
disturbances a behaviour has had, so that the properties can say under which
conditions they hold: `overlap` (two drains of one queue), `crowd` (an entry
pushed out of a full queue during a drain), `write` (a write failed), `reload`,
`crash`.

### Lookups: what is behind the router

`NameServices` has the resolvers of the two plugins, one operator each: which
replies deny a name, which are failures, which bodies count as empty (`Judge`),
and which record types the fields of a service become (the mappers).
`EnsLookup` is the sequence of contract calls for an ENS name with EIP-3668
gateways: `ccipRead` and `fetchCCIPResponse` with their depth and their list of
gateways; `HnsExchange` is what the DNS exchange accepts as its reply and when
it goes from UDP to TCP. `Lookups` puts the router's cache in front (`Hit`,
`Ask`, `Conclude`, `Expire`) and the world behind: the records of the name
change (`Change`), a service replies what it holds or fails (`HonestReplies`,
`Faults`), datagrams are late, duplicated, truncated, foreign or lost (`wire`).

`LookupPromise` is the abstract specification: a client is told, type by type,
what was true of some version of the name not older than the call or than the
cached entry, or that there is no such name when there was none, or that the
lookup failed. `Lookups!Promise` is the refinement mapping and `Fulfils ==
Promise!Spec` the property. An answer in which a failed contract call is passed
over (`unsure`) is mapped to the failure it is; that it looks like an answer is
in section 6.

### Zones: zones, SOA and ACME challenges at PowerDNS

The client keeps no state, so the state is PowerDNS' (`store`) and where each
request (`req`) and the issuance (`issuer`) stands between two calls. A call is
answered, refused, or applied with its answer lost (`Outcomes`). Creation is
`CreatePost`, `CreateInit`, `CreateUndo`; the SOA `SoaRead`, `SoaWrite`;
deletion, RRsets and DNSSEC keys are one call each. `challengeRRSet`, `Present`,
`Validated`, `Cleanup` are the issuer's, over the list of authorizations.
`blame` records what the properties except: `fault` (a call lost or refused
where nothing can make up for it, or a crash), `overlap` (two requests at one
zone), `hand` (a SOA replaced through the RRset endpoint), `race` (a user's
change between the issuer's read and write), `moved` (a zone came or went during
an issuance).

### PrivateCA: the root, its files and its issuer

`keyFile`, `certFile` name the root each file belongs to, `issuer` the root in
memory, `call[c]` is a request or the start of the process between two file
operations, `leaf[j]` a certificate on its way from the manager's `CallIssuer`
over `CheckDisabled` to `Issue`. Rotation and import are `WriteKey`,
`WriteCert`, `LoadKey`, `LoadCert`, `Install`; recording a backup is
`CompareBackup`, `RecordBackup`; a CRL is `CollectRevoked` and the load of the
root that signs it. `Crash` starts the process again, which makes a root when
there is none. CertManager has the other half: what an issuer that is replaced
means for the jobs.

### ControlPlane: the configuration file, the keys and their readers

`file` is the configuration as far as two sections tell, an edited one and the
management keys; `conf[p]` what admin API and runtime have loaded. A PUT is
`PutRead`, `PutWrite`, then `LoadRead` and `Install` in its own process and in
the runtime; the tool is `CliStart` (with the guard at the status endpoint),
`CliRead`, `CliGuard`, `CliTruncate`, `CliWrite` and the reloads it was given.
The three codings of a key's state are operators of their own
(`managementKeyActive`, `managementKeyStatus`, `localKeyStatus`), and so are the
two of the successor rule. Every request names a key and is admitted by the copy
of the process it reaches.

## 3. The runs

| Run | Instance | Distinct states | Question |
|---|---|---|---|
| `registry_cache` | 2 goroutines, 1 plugin, 2 requests that differ in view and spelling, TTL 0 and 1, clock to 3, no reload | 840 000 | Isolation of cached answers and the three bounds on their age |
| `registry_reload` | 2 goroutines, 2 plugins, 3 requests, 2 configurations, clock fixed | 140 000 | Disabled plugins and reloads |
| `pipeline` | 2 queries of one client in flight, windows of 2 with thresholds 2 and 3, all time limits 1 | 570 000 | Log, refusals, rebinding and both window bounds |
| `cert_jobs` | 2 keys, 2 domains, 2 callers, 2 attempts, failing saves, crashes without bound | 1 170 000 | Attempts, lost jobs, files, revocations, final states |
| `cert_liveness` | 2 keys, 2 issuers, fair goroutines | 660 000 | Every job ends; no attempt uses a replaced issuer |
| `queue_replay` | the log forwarder: 3 batches, room for 2, worker and 1 drain request, 1 fault | 3 400 000 | Nothing is lost, repeated or tried too often |
| `queue_reload` | the runtime: 3 batches, room for 2, worker, 1 reload, 1 fault, fair worker | 690 000 | No batch twice; the worker empties its queue |
| `lookups` | each of 18 services, 3 question types, 5 fields of which a name has up to 2, 1 change of the name, depth 2, 2 gateways, 2 late datagrams | 620 000 | Lookups implements LookupPromise; every call ends |
| `zones` | 2 requests at one zone; and an issuance of 2 challenges with 1 user at a zone and its child; serials to 3 | 650 000 | Creation with undo, serials, other TXT records, challenges cleaned up |
| `private_ca` | 2 requests, 1 certificate, 3 roots, failing writes, crashes without bound | 9 300 000 | One root in files and issuer; CRL, disabling, backups |
| `control_plane` | 1 PUT of 3 edits, the tool, 1 key and 1 to come, clock to 1, 3 operations | 920 000 | File, processes and keys |
| `cert_revocation` | 1 key, 1 caller | violation | see 6 |

What the bounds leave in: two goroutines are enough for every race between two
passes through a lock, since no property relates three callers; a clock of three
lets an entry be stored, expire and be fetched again with a backend call of one
unit before and after; two attempts give a first, a last and no further one;
three batches in a queue for two let one be pushed out while another is being
delivered, and let one arrive in the middle of a drain; with one fault every
write and every instant of a crash is tried once, and each fault leaves a state
(a file that is shorter, longer or unreadable) that a second one could only
leave again. In `lookups` one change gives a version before and one after every
step, depth 2 a lookup that is answered by another lookup and one that is cut
off, and two datagrams a late one beside the one waited for. In `zones` two
challenges share the RRset of a name and its wildcard, and a serial of 3 is its
last one (2^32 - 1 in the code); the two scenes are apart because requests at
one zone and an issuance meet only in the TXT records and in the coming and
going of zones. In `private_ca` three roots are an old one, its successor and
the one that overtakes it; a second certificate adds nothing to what relates one
certificate to the root (the run has also been made with two certificates and
two roots: 4 000 000 states). In `control_plane` three operations are a write
under a read and one after both, and the clock passes the one instant at which a
key ends; two keys make it 2 570 000 states without another kind of step. The clock, the reloads and the faults are bounded by constants named
in the guards (`MaxTime`, `MaxGen`, `MaxReloads`, `MaxFaults`, `MaxRoots`, `MaxSerial`,
`MaxKeys`, `MaxOps`, `MaxChanges`, `MaxLate`, ...); the proofs hold for any value
of those they speak of. Deadlock is switched off where the system may really
stop: a bounded clock ran out, every request was answered, a process cannot
start because its file is unreadable.

Every property of a passing run has a mutant in `PROJECT.json`: a plausible slip
in one mapped definition that breaks it.

## 4. Fairness

`CertManager!FairSpec` is weak fairness of each job's goroutine (`Run(k)`): the
Go scheduler runs it, the issuer's call has a time limit (`request_timeout`),
and the work slot is a channel that passes senders on in the order they came, so
a waiting goroutine whose turn it is stays enabled. Nothing is assumed of
callers, rotations or the crash.

`FailedQueue!FairSpec` is weak fairness of the steps of a drain under way (every
post has the HTTP client's time limit, the rest is memory and one file) and of
the worker's `StartDrain` (its ticker goes on while its queue is not empty). No
fairness of submissions, of drain requests, of reloads or of a restart, and no
assumption that the honeypot ever accepts.

`Lookups!Spec` is weak fairness of `Step`, the step that answers, fails or
advances the resolution under way (every HTTP request, dial and read has a
deadline), and of `Expire` (an entry expires with its TTL). Nothing is assumed of
services, gateways, datagrams or the owner of the name: `CallsEnd` does not rest
on anybody's reply.

## 5. What is proved

`tlapm` checks the eight proof modules with no step left open. The assumptions
are those on the constants (`TimingAssumption`, `NoneAssumption`,
`MaxAttemptsAssumption`, `NoneIsNoJob`, `QueueAssumption`, `QueriesAssumption`,
`TimeoutAssumption`, `PolicyAssumption`, `ZonesAssumption`,
`PrivateCAAssumption`, `ControlPlaneAssumption`, `LookupsAssumption`,
`ServicesAssumption`, and what the proof modules say
of `None`); there is no bound on goroutines, requests, routes, keys, batches,
zones, roots, certificates, changes of a name, gateways, datagrams, the clock,
reloads, crashes or faults. Each module
proves `TypeCorrect`, also where no run lists `TypeOK` because TLC has nothing to
add to the proof.

**PluginRegistryProofs**: `TypeCorrect`, `Isolation` (AnswerIsolation),
`BoundedAge` (AgeBound), `NoAnswerFromDisabled` (DisableFence),
`NothingOlderThanFlush` (FlushFence), `NoAnswerAcrossReload` (ReloadFence). All
follow from one inductive invariant `IInv`. The properties speak of a request
that is answered, but are true because of what lies in the cache, so `IInv` adds
`CacheOK` (an entry sits under the key of its own request, in the registry that
computed it, and its age is bounded by its expiry and the last flush) and
`InFlightOK` (a call on its way to the backend began after the flush it will be
measured against or carries data no older than one call).

**CertManagerProofs**: `TypeCorrect`, `BoundedAttempts`, `JobsAreKept`,
`CertificateFiles`, `MarkedIsRevoked`, `NoStaleIssuer`, the action property
`EndIsFinal` (TerminalStays), and the safe half of `JobsEnd`: `JobsAreAttended`
(a job under way in memory has a goroutine) and `JobsGetNearer` (every step of
that goroutine lowers `JobRank`, a natural number, the goroutine ends only with
its job issued or failed, and while the process runs nothing else touches the
two). What is left to liveness is that a goroutine is scheduled, that the
issuer's calls return, and that the slot is handed on. By `SlotOK` only a
goroutine past the queue, whose rank is falling, holds the slot. `IInv` describes, for each key, what memory, state
file, PEM files and goroutine may say together (`KeyOK`: `Truthful` for the two
records of a job, `Kept`, `Progress` for the position of its goroutine), what a
request under way has read (`CallerOK`), and the slot (`SlotOK`). It is needed
because `FilesMatch` is about a status that is written after both files, at a
later step of a goroutine that may have lost its process in between.

**FailedQueueProofs**: `TypeCorrect`, `EachBatchOnce` (NoDuplicates),
`NothingIsLost` (NothingLost), `AttemptsAreBounded` (AttemptBound) and the action
property `AcceptedIsFinal` (AcceptedOnce). Drain identifies what it took by
position, so all of them need to know what is in front of the queue while a drain
is out. `Orderly` says, as long as no drains overlapped: queue, file and what a
drain holds have no batch twice, and what the drain holds is disjoint from what
lies behind the part it took (`Apart`). `Careful` says, as long as there were
only crashes: the file's newest lines are the queue, and every batch in the part
a drain took is accepted, given up or in its hand. `Counted` says, as long as
nothing but full queues and failed writes disturbed: the attempts written in an
entry are the posts of its batch, which was not accepted, in the hand of a drain
and behind what it took; in front of that, where delivered entries still lie,
nothing is claimed. `Replace` then puts back exactly what is missing. The lemmas
on `SubSeq`, `\o` and `Held` come first.

**ResolvePipelineProofs**: `TypeCorrect`, `EventsTellTheReply`
(AuditMatchesReply), `RefusalsHold` (RefusedNamesStayRefused),
`PrivateAnswersAreKeptBack` (RebindingShield), `NamesGoWhereTheyBelong`
(RightResolver), `QueriesAreLimited` (QueryRateBound), `NXDomainsAreLimited`
(NXDomainBound). The invariant says of each handler what it may hold at
its step (`HandlersOK` with `AtRest`, `AtWork`, `Concluded`, `Waiting`): between
the two decisions a query none of the earlier rules refuses, after them the
event, the reply and the findings that go together. The lemmas about the ordered
rule lists (`FirstApplies`, `QueryFindings`, `ResponseFindings`) say which rule
decided. The two bounds count: the window the analyzer counts in is the finite
set of the events in it (`Within`), so that the library's theorems on the
cardinality of finite sets apply. `CInv` says that what is counted covers, age
by age (`Covered`), every query that was let through (every NXDOMAIN that was
returned), so the number let through is at most the number counted at the last
decision, and that was below the threshold.

**LookupsProofs**: `TypeCorrect`, `LookupsKeepThePromise` (Fulfils: `Lookups`
implements `LookupPromise`) and `ResolutionsGetShorter`, the safe half of
`CallsEnd`. For the refinement `Inv` carries what the last step of a call will
need: of a lookup of contracts (`LookupOK`, `Underway`) that every type already
asked for is settled, one of the versions since the call began having had it or
not as the lookup says, unless a call was lost; of the datagrams under way
(`WireOK`) that whichever of them the exchange would accept is honest; of the
cached entry (`HeldOK`) that it is an honest answer since its call began. What
was honest stays so when the name changes again (`StillHonest`), which is why
a client may be told old news and never a mixture nobody held. `HttpJudged`
says of the sixteen HTTP resolvers, one after the other, that an honest reply
gives a true result and a fault a failure; the exception it names is Solana's
"method not found" (section 6). Each action then is a step of the promise, told
(`Telling`), changed (`Changing`) or a quiet one (`Quiet`). The bound on the
length of a resolution is a natural number, `CallRank`, that every step lowers:
the record calls left, each with the offchain lookups its depth still allows,
and the gateways not tried.

**ZonesProofs**: `TypeCorrect`, `OtherRecordsAreKept` (OthersKept),
`NoChallengeIsLeft` (NothingLeftBehind), `AnswersAreTrue` (ZonesAsAnswered),
`SerialsNeverShrink` (SerialsGrow). All the state is at PowerDNS, so the
invariants (`OInv`, `NInv`, `AInv`, `SInv` over the types `TInv`) relate it to
what a request or the issuer holds between two of its calls, unless `blame` has
a reason: the values the issuer will write back include those of the users; a
challenge lies only in the zone selected for the authorization under way; a zone
that is being made belongs to one request; a serial about to be written is not
behind the zone's.

**PrivateCAProofs**: `TypeCorrect`, `BackupIsHonest` (BackupHonest),
`DisabledIsKept` (DisabledHolds), `FilesAreOneRoot` (OneRoot), `CRLIsComplete`
(RevocationsPublished), from `TInv`, `BInv`, `DInv`, `RInv` and
`VInv`: a backup is recorded only of a root that was seen; a certificate that
is past the check was let through while the root was enabled; a swap that is
alone knows which files it has replaced (`FilesAt`), as does the start of the
process (`BootFiles`); and certificates issued since the last swap are of the
root in the file.

**ControlPlaneProofs**: `TypeCorrect`, `LoadedIsForce` (LoadedIsInForce),
`RulesCorrect` (RulesAgree), `WritesStay` (WritesKept), `RevokedIsClosed`
(RevokedStaysClosed), `RotationLeavesNoGap` (NoGap). `FInv` says what a load that
has read the file may still install; `KInv`, as long as no writers overlapped,
that the file and the copy each writer works on carry every key issued, revoked
and rotated so far; `CInv`, as long as nothing is to blame, that
the copies of the processes have what they loaded shut, the rest open, and the
two keys of a rotation with the same scopes. `NoGap` then is arithmetic on two validity intervals.

Only model-checked: the liveness properties `JobsEnd`, `WorkerEmptiesItsQueue`
and `CallsEnd`, because fairness and ENABLED are out of the prover's reach; of
`JobsEnd` and `CallsEnd` the safe halves are proved (`JobsAreAttended`,
`JobsGetNearer`, `ResolutionsGetShorter`).
(`RevocationDurable` is the property of the run that expects its violation.)

## 6. Where code and documents disagree

One disagreement is a run with an expected violation; `PROJECT.json` quotes the
document:

- `cert_revocation`: a revocation whose save failed is reported as done when it
  is asked for again, and a restart forgets it.

The others have a property and a configuration of their own, which TLC refutes,
and are run by hand (`tlc -config X.cfg M`):

| Configuration | Property | What happens |
|---|---|---|
| `MCPipelineTimeout.cfg` | `RoutedNeverFallsBack` | The hook waits 3 s by default (`recursor.lua:5`), exactly as long as the runtime's request may take, and a delivery to the honeypot comes on top: a slow backend sends a routed name to ICANN recursion, which `IMPLEMENTATION_STATUS.md:397` excludes. |
| `MCPipelineICANN.cfg` | `UnroutedGoesToICANN` | The router's own NXDOMAIN for names without a route counts towards the NXDOMAIN flood rule (`analyzer.go:247`), which then refuses ordinary ICANN names (`docs/01-总体架构需求.md:103`). |
| `MCQueueOverlap.cfg` | `OnlyExhaustedAreDropped` | Two overlapping drains remove a batch neither of them tried (`client.go:382`; `IMPLEMENTATION_STATUS.md:89` promises to drop exhausted ones only). |
| `MCQueueRetry.cfg` | `QueuedIsRetried` | After a reload of the runtime no worker drains the queue in which failed batches are put (`cmd/anyns-plugin-runtime/main.go:40`; `IMPLEMENTATION_STATUS.md:93`). |
| `MCZonesSerial.cfg` | `SerialRollbackRefused` | Two overlapping updates of a SOA may leave the older serial (`powerdns/client.go:360`), though one that is not greater is refused. |
| `MCControlPlaneFinal.cfg` | `RevocationIsFinal` | A PUT that had read the file before a key was revoked writes the key back as it was, and the processes load it. |

Behaviour the models have that no document promises otherwise: a batch that is
pushed out of a full queue during a drain; a renewal created while a revocation
completes; an ENS record whose call failed is missing from an answer without an
error (`plugin.go:469`, `NoFailureIsAnswered`); the "method not found" of a
Solana endpoint is taken for NXDOMAIN; an empty list in a PUT is saved but
replaced by the defaults at the load (`config.go:357`, the edit `"empty"`); a
first start that dies between a root's key and its certificate leaves a process
without certificates until the files are put in order by hand.

## 7. What is not modelled

Parsing, encoding, cryptography and formatting (of names, ABI and DNS messages,
PEM, records); validation, of which the models assume that it turned away what
it does; fixtures of the plugins; OCSP and trust instructions; client addresses,
roles and the legacy key of the management API; environment overrides of the
configuration; the TLSA endpoint, which is one more RRset change; the flush of
the recursor's cache; the read-only endpoints, metrics and the user interface;
the source-policy lint, which changes nothing. Of the honeypot client the
counters and signing; of the analyzer the lexical measures; of the log forwarder
its own DNS log and its authentication; of the DNS log all but what the resolve
handler appends. What happens when several processes share one queue file: the
compose file gives each its own volume.

## 8. Plan

In the order of the importance of what they add:

1. `DnsLog`: ring, file and paging against an abstract log.
2. Refinements: `PluginRegistry` implements a resolver of bounded staleness
   without a cache; `FailedQueue` without disturbances implements a bag of
   pending deliveries.
3. The log forwarder's batches and its own log, composed with `FailedQueue` and
   `DnsLog`.

The instances stay small enough that the whole project checks in minutes;
questions on one module are put to one run where its state space allows.
