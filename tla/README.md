# A verification of the Metamorph node

Metamorph is a Bitcoin SV node written in Go as a set of services. This
directory holds TLA+ models of its stateful parts, the TLC configurations that
check them on small instances, and proofs, checked by TLAPS, of the properties
that hold for every instance. `PROJECT.json` relates every definition to the
lines it models. Paths below are relative to `src/`.

## 1. Inventory

| component | state | operations | runs beside |
|---|---|---|---|
| Ledger (`services/ledger/server.go`) | map of outputs, tip hash, height, one RWMutex | `GetOutputs`, `ApplyBlock`, `Health` | any number of gRPC calls |
| UTXO bootstrap (`services/bootstrap/utxo_sync.go`) | table in ScyllaDB, progress, channel of heights | `StartBootstrap`, `Stop`, `GetSyncProgress` | a feeder and 8 workers |
| Event bus (`services/events/publisher.go`) | channel of 1000, subscribers by topic | `Publish`, `Subscribe`, `Close` | publishers, a dispatcher, a goroutine per call of a handler |
| Conductor (`cmd/conductor`, `services/conductor`) | none of its own | subscribes, publishes | the bus |
| Network manager (`services/sentinel/network_manager.go`) | two maps of peers under a mutex, a context | `ConnectToNetwork`, `Stop`, `GetNetworkStatus` | discoverers, a handler per connection, a maintenance tick, a health tick |
| Demo peers (`services/sentinel/bitcoin_protocol.go`, `server.go`) | map of peers under no lock | `Start`, `Stop`, handshake messages | a goroutine per connection, a management tick |
| Miner server and Stratum client (`services/miner/server.go`, `stratum_client.go`) | the client, its connection and flags, the mode | `Start`, `SetMiningConfiguration`, `Stop` | connection attempts, a reader per connection, two tickers |
| Mining service (`services/miner/mining_service.go`, run by `cmd/mining-demo`) | template and counters under an RWMutex, workers, a context | `Start`, `Stop`, `GetMiningStatus` | workers, a template ticker, a progress ticker, the demo's goroutines |
| Verifier (`services/verifier/server.go`, `bitcoin_validation.go`) | cache of outputs, a counter, a context | `Start`, `Stop`, `ValidateTransaction` | three goroutines with a ticker each |
| Enhanced UTXO store (Go in `k8s-utxo-simple.yaml`) | rows in PostgreSQL, cache in Redis | `GetUTXO`, `InsertUTXO`, `MarkSpent`, `GetStats` | replicas, HTTP requests |
| Engine (`services/engine`) | none between calls | `Execute` | gRPC calls |
| Telemetry (`services/telemetry`) | metrics, alerts | record, trigger, resolve | collectors |
| Node (`cmd/metamorph`) | the services | `Start`, `Stop` | all of them |

How they interact: the programs under `cmd/` build the services and start them
on one event bus; services know one another only by the events they publish and
by gRPC. Of these programs the node, the demo and the UTXO store do not compile
at this commit (section 6). The ledger is written by `ApplyBlock` and read by
`GetOutputs`; nothing under `src/` calls either, so its client is modelled from
the contract (`proto/ledger.proto`, `overview.md`). The bootstrap writes to
ScyllaDB and takes blocks from a peer, both external. The sentinel owns either
the network manager (live mode) or the demo peers.

What is hard, by component:

* Ledger: one response is read under three locks; a retry or a late copy of a
  block; correctness needs a response to be explainable by versions of the
  store, in order.
* Bootstrap: blocks are processed out of order by workers that upsert rows; the table and the
  snapshot may be of other heights than the call; calls fail half way; the context is cancelled; nil must mean something, and
  every goroutine must end.
* Event bus: a full channel, a close with events inside, consumers that do not
  run; an accepted event must reach each subscriber exactly once.
* Network manager: discoverers, handlers, the cleanup and `Stop` all change the
  table, by address; nothing may leak, the limit must hold, events must tell
  what the table says.
* Demo peers: the same without a lock, where a map write is a data race.
* Miner server: a dial in flight meets a change of the configuration or `Stop`.
* Mining service: workers write the shared template under a read lock; shares are
  counted outside it; a solution is counted after `Stop`; `Stop` waits for a lock
  that others take again and again.
* Verifier: lengths in several forms, limits, and bytes that end in any field; sums
  that wrap; an output named twice; a rate that is reported and never measured.

`PROJECT.json` lists every hazard at its line with the properties that would
catch it, or why none does.

## 2. Modules

| module | models | built on |
|---|---|---|
| `LedgerData` | requests, store states and the functions of them that the handlers compute | |
| `LedgerSpec` | what the service promises: versions, and answers that are taken from them in order | `LedgerData` |
| `Ledger` | the two handlers, one action per critical section; implements `LedgerSpec` | `LedgerData` |
| `LedgerFeed` | `Ledger` with a client that sends a chain over a network that loses, repeats and delays | `Ledger` |
| `LedgerProofs` | theorems about `Ledger` and `LedgerFeed` | `LedgerFeed` |
| `Bootstrap`, `BootstrapProofs` | one call of `StartBootstrap`, its feeder and its workers, and theorems about them | |
| `EventBus`, `EventBusProofs` | the in-memory publisher, and theorems about it | |
| `NetworkManager`, `NetworkManagerProofs` | live peers, and theorems about them | |
| `BitcoinProtocol`, `BitcoinProtocolProofs` | demo peers, with the sentinel's `Start`, tick and `Stop`, and theorems about them | |
| `MinerServer`, `MinerServerProofs` | connection attempts, readers, configuration and `Stop`, and theorems about them | |
| `Merkle` | the Merkle root of a template, and a tree it is compared with | |
| `MiningService`, `MiningServiceProofs` | the mining service in its program, and theorems about it | `Merkle` |
| `Transactions` | a transaction from its bytes, and the writing of one for reference | |
| `Validator` | the rules of `ValidateTransaction` | `Transactions` |
| `Verifier`, `VerifierProofs` | calls of the validator, the verifier's goroutines, and theorems about them | `Validator` |

A module `MC<name>` gives a module's constants their small values.

### Correspondence to the code

**Ledger.** `utxos`, `tipHash` and `height` are the fields of
`InMemoryUTXOStore`; the tuple of them is `store`. `ApplyBlock` is one action, as the
handler holds the write lock throughout. `GetOutputs` is three, `ReadOutputs`,
`ReadTip` and `ReadHeight`: each takes and leaves the read lock. `versions` is
history, and is what `LedgerSpec` speaks of. Hashes, scripts and ids are model
values; a malformed id is one of them, as the handler tells only its length.
The client of `LedgerFeed` knows its acknowledgements and nothing else: it goes on to
the next block when the one it is on was acknowledged, and copies it has sent may still be
under way. `highest` and `late` are history: the highest block applied, and the blocks that
were applied after a higher one.

**Bootstrap.** `main` is the goroutine of `StartBootstrap`, `feeder` and
`worker` those of `syncBlocks`. A worker executes one CQL statement per step
(`Write`), the granularity at which the others can see its block. A snapshot is
inserted batch by batch. `MaxFaults` bounds the external calls that fail; a
statement or a batch that fails may have been applied. Heights are `uint64`, so the
subtraction that decides whether to load a snapshot is taken modulo `Wrap`.
The code does not compare the height it is given with what the table holds, so the two are
independent (`Starts`): the table is empty, or what a sync up to some height, `origin`, has
left. Nor need the snapshot be of the height that was asked for (`SnapshotHeights`); the sync
goes on from the snapshot's own height, and processes that block again.

**EventBus.** `Publish` is one select: accept, refuse, or panic on a closed
channel. `Dispatch` is one turn of `processEvents`, `Handle` the goroutine it
starts. An event is its place in the order of creation. A panic ends the
process; so no property says anything after it.

**NetworkManager.** `connectToPeer` holds the mutex while it dials, so the lock
is a variable, from `BeginConnect` to `DialSucceeds` or `DialFails`; every
other critical section is one action guarded by the lock being free. A handler
goes through check, read and exit, and may be silent for the five minutes after which its
peer is stale: `Cleanup` drops any set of peers. `announced` counts connected events minus
disconnected events, and `stalled` holds the addresses at which the cleanup has dropped a
peer; both are history.

**BitcoinProtocol.** A goroutine goes from dial through store, version and read
to leave and delete, the last two being the close and the map deletion of
`disconnectPeer`. Two goroutines at a map write at once may end the process
(`MapRace`). The manager starts rounds while the map looks low.

**MinerServer.** `attempt[k]` is a goroutine in `connectToPool`, for `Start` or
for a change of the configuration; it reads the server's client when it runs.
`reader[k]` is the goroutine its `Connect` starts. `SetPool`, `SetSolo` and
`Stop` hold the server's lock and are one step each. An id of a message is a
pair of a Go type and a number, because comparing values of two types is what
the code does with it. `late` is history.

**MiningService.** `pc[w]` is where a worker is in `runMiningWorker` and the
functions it calls, `manager` and `monitor` are the two tickers' goroutines,
`server`, `reporter` and `main` those of the demo program. A section under the write lock
(`HandleBlockSolution`, `ManagerTick`, `StopWorkers`) is one action that waits until no
reader holds the lock (`WriteLockFree`). `getCurrentBlockTemplate` holds only the read lock
while it creates a missing template, so it is read, create, store and read back, and
workers may be in it together. A worker's share (`CountShare`) is counted after and outside
the section that counts its block. Time is in seconds, as a template's timestamp is.
SHA-256 is injective (`NodeHash` is the pair); the hash of a header is the constant
`HeaderHash`, which says only for which headers a solution exists: at these targets it
hardly ever does, and the model does not count on that. `managed` is history. Every worker
tries the same nonces of the same template, and finds the same solution again; the model
does too, and no text of the repository says otherwise.

**Transactions, Validator.** The number of values of a byte, the widths of the fields and the
limits are constants: the code's are in the comments, and the small ones of `MCVerifier`
reach every boundary. `Capacity`, the number of values of some bytes, is a recursive function, so
that the theorems cover the code's widths as well. A reader of bytes is a record; a failed read ends everything after it.
`Total` adds as an `int64` does, modulo its width. `ValidateTransaction` keeps the order of
the rules and the error codes. It does not mark outputs as spent: nobody does.

**Verifier.** `goroutine[g]` says where each of the three is. The validator shares nothing with
the server but the map it is given, so a behaviour has one call of it or a server. The cache
is filled after `Start`, by a goroutine that a tick of another may precede, with a random hash
and script for each output. The samples spend a random hash, which is in the cache or not.
The metrics event carries the count and a success rate, which is a field of the server that
nothing changes: `SuccessRate`, in tenths of a percent.

## 3. Runs

| run | question | bounds |
|---|---|---|
| `MCLedgerFeed` | does the server implement `LedgerSpec`, whatever arrives during a call? Where can the store differ from the chain, and when is the height of a response a bound of its outputs? | 2 readers; queries of two, no and too many outputs; a chain of 3 blocks that create, spend and create again; 2 copies of a request, 4 applied |
| `MCLedgerFeedLate` | is the store always the chain up to some block? **No** | as above |
| `MCBootstrap` | which outputs can be wrong, how far progress is from a watermark, what nil means, does everything end? | 2 workers, 7 heights, 3 pairs of a start and a table, snapshots of 2 heights, 2 faults, channel of 4 |
| `MCBootstrapRace` | is a range from genesis, once completed, the exact set of unspent outputs? **No** | 2 workers |
| `MCEventBus` | is an accepted event with each subscriber exactly once, does it arrive, do publishers get out? | 2 publishers, topics, handlers and events, channel of 1 |
| `MCNetworkManager` | limit, leaks, service of peers and events; whose address is it, does `Stop` lead to rest? | 2 addresses, 2 discoverers, limit 1, 2 connections |
| `MCBitcoinProtocol` | which connections the map can lose, and what becomes of entries and of failed connections | 2 addresses, 3 connections |
| `MCMinerServer` | which connections can be left open, does `Start` return, what do readers do after `Stop`? | 2 clients, hence 2 attempts |
| `MCMinerServerAuthorize` | is a client that the pool accepted authorized? **No** | 1 client |
| `MCMiningService` | what may a progress and a stopped event say, whose template is kept, do the program and its goroutines end? | 2 workers, 2 nonces, 2 seconds, 3 blocks |
| `MCVerifier` | is a transaction read as it was written, are fees right, do the goroutines end? | bytes of 0..7, some 9500 calls; 2 hashes, 2 samples |
| `MCVerifierFees` | does a valid transaction make no more than it spends? **No** | as above |

Why the bounds are enough. The properties are about what two goroutines do to
one another, or one to an entry another owns; each instance has two of every
kind of actor that can meet, and a resource for which they compete: a small
channel, a table of one with two addresses, an address that is dialled
twice. A third block, and in `MCBitcoinProtocol` a third connection, is there so that a
successor's successor exists. In `MCLedgerFeed` one copy may be held back while its sibling
and the next block are applied, so four applications show every order of three blocks and a
late one. `MCBootstrap` has seven heights because a feeder stands still only
behind a full channel of four and two blocks in the hands of failed workers. Its margin is
larger than its chain, so that the subtraction wraps and a snapshot is asked for at height 2;
the snapshot is that of height 2 or of an earlier block, one whole block is missing from
the table or two are, and two faults let a snapshot fail half way and a block as well.
`MinerServer` needs two clients for a dial that outlives its client, for two
attempts that find the same client, and for a reader that finds none; without
either of the first two exceptions `OpenIsReachable` fails already there.
`MCMiningService` has two workers that meet in the creation of a template, two seconds so
that one of their templates is older, and a third block so that the second worker's
solution after `Stop` is not the last of the bound. In `MCVerifier` a field is one byte, a
value two; scripts have every length up to one too many, each in every form of a length
that fits it; some transactions are cut by up to twelve bytes or padded; five inputs
and outputs are the limit, six are one too many; four outputs of ten are more than a value
of two bytes holds, and three are not.

Deadlock is checked where the model does not end (`MCLedgerFeed`, `MCMiningService`,
whose process has a step for being over); elsewhere the system stops: a call returns, a process panics, a bound is used
up.

### What the passing runs say

* A response of `GetOutputs` need not be one version of the ledger, but it is
  three reads in order: `ImplementsLedgerSpec`. So the height it names is no lower
  than that of its outputs: `HeightBoundsOutputs`.
* A resent block does no harm as long as no copy of it comes after a higher block. One that
  does harms no outpoint but those that it creates or spends, and the tip and height
  (`WrongOnlyByLateBlocks`). The handler does not look at `prev_tip_hash`, and no client can
  know that no copy is left: what then goes wrong is `MCLedgerFeedLate`.
* Once the range is processed, an output is missing only if its block lies between what the
  table held before and the height of the call, and no snapshot was loaded. One that is left
  unspent by mistake was created and spent by two different blocks of the range, or was spent
  by a block that the sync leaves out and the row is older than (`OnlyRacesAndGapsAreWrong`).
  So a snapshot that fails half way, one of another height, and the block that is processed
  twice do no more than this; and the caller has to know what the table holds.
  Below the reported height fewer blocks are missing
  than there are workers (`ProgressIsNearWatermark`). Without a cancellation nil
  means that all were processed (`NilMeansSynced`); a cancelled sync logs completion and
  returns nil as well. The call returns, and its
  goroutines end unless all workers died and left the feeder at a full channel.
* The bus loses and duplicates nothing it accepted, and publishers do not wait
  for consumers: `AcceptedIsHandled` assumes that consumers run, `ProducersNeverBlock`
  does not.
* The network manager keeps its limit, its two maps, its connections, its
  handlers and its events in step, also when a handler is replaced at its own
  address. A handler disconnects the peer of another only where the cleanup has dropped a
  silent one before (`HandlerOwnsItsPeer`); that it does so there is what the code does, and the
  peer that loses its place is announced, closed and dialled again. After `Stop` it comes to rest (`StopQuiesces`); not yet when `Stop` returns,
  as a discoverer that is dialling connects its peer afterwards.
* Of the demo peers, an entry of the map never outlives its connection, and a
  connection drops out of the map only when its address was dialled again.
* The miner leaves a connection open in two races only, and `Start` returns whatever
  the pool says. Its fallback to solo mining may undo a configuration that was set while
  it waited; that is in the model, and no property is about it.
* The workers' race for the first template may put an older one over a newer one, but
  never over one of the manager (`TemplateNeverGoesBack`): who creates one holds a read
  lock, the manager needs the other. A progress event shows all workers or none, and
  shares that are behind the blocks by no more than the workers (`ProgressIsConsistent`).
  The total of the stopped event is exceeded by at most one block a worker (`AfterStop`).
  `Stop` and the demo end, though the lock is taken again and again. The Merkle root is that
  of the tree for up to nine transactions.
* The parser reads what was written in any form of its lengths, and nothing that is cut or
  over a limit (`ReadsWhatWasWritten`). Fees are exact while the two totals fit in an `int64`
  (`FeesAreExact`); beyond that they wrap, which takes some 4400 outputs of the largest value.
  Scripts are matched, not run, so validity says nothing of signatures.

### Disagreements

`MCLedgerFeedLate`: a copy of a block that arrives after its successor is applied, and brings
back what was spent since; "at-least-once delivery + idempotent consumers" (`overview.md:59`)
is kept only for copies that arrive in order. `MCBootstrapRace`: an insert that comes after the
spend of its output marks it unspent again. `MCMinerServerAuthorize`: ids of answers are
compared as ints and are float64, so a pool never authorizes the miner, and `Start` always
falls back to solo mining. `MCVerifierFees`: outputs whose total wraps are not found to exceed
the inputs, and the transaction is valid. The lines and the texts they disagree with are in
`PROJECT.json`.

Four more are seen in the code at once, or follow from a theorem, and have no run:

* Every sample transaction of the verifier fails (`SamplesNeverValid`, for all hashes), while
  `success_rate` is 98.5, "Expected success rate for valid transactions"
  (`services/verifier/server.go:60`), logged and published beside the number of just these
  samples (`:278-283`). `ReportMetrics` has the field.
* The difficulty of a network is used as the target that a hash must not exceed
  (`mining_service.go:356`), so that testnet, 1 where mainnet has 1000000, is the harder
  one; the comment says "Testnet has lower difficulty for easier mining" (`:148-154`).
* A failed snapshot is logged as "falling back to full sync" (`utxo_sync.go:130`); the sync that
  follows starts at the caller's height all the same. What is missing then is what
  `OnlyRacesAndGapsAreWrong` allows for.
* A cancelled bootstrap returns nil and logs completion (`NilMeansSynced` excludes it).

## 4. Fairness

Weak fairness of a goroutine says that the Go scheduler runs it when it can run.
Calls that have a timeout or that answer with an error are steps that are taken
in the end: dials, reads with a deadline, CQL statements. Nothing is assumed of
peers, pools and publishers' owners: they need not send, cancel, stop or close.
`EventBus` assumes fairness of `Publish` alone; consumers' fairness is a premise of
the one property that needs it. Strong fairness is used in `NetworkManager` and
`BitcoinProtocol` for a waiter of a mutex (`sync.RWMutex` does not starve a waiting
writer) and for `ctx.Done()` in a loop that polls it. `MiningService` assumes it for the same
two reasons: of `HandleBlockSolution` and `StopWorkers`, which wait for the write lock, and of
`MonitorEnds`, a case of a select that its ticker may win for a while. An interrupt, the
passing of time and the exit of the process are not assumed. `Verifier` needs weak fairness only:
once the context is cancelled, the case that ends a goroutine stays ready.

## 5. Proofs

All of these hold for every value of the constants that satisfies the modules' named
assumptions: finite sets of addresses and workers, naturals as bounds, well-formed
queries, blocks and address lists. Of a byte, `TransactionsAssumption` says that it has an even
number of values, at least four; of a width, that it is not zero. Three say something of outside
data as well: `VerifierAssumption` (a call's transaction is one whose fields fit their types, with
lengths that an integer of the widest form can tell; the validator is handed outputs of no
negative value), `ChainAssumption` (`LedgerFeed`: the client's blocks are ones `ApplyBlock` accepts, each at
the height of its place), and `ChainIsValid` (`Bootstrap`: an output is created once, spent
at most once, and not before it is created, also within a block), which is a hypothesis of
the one theorem that needs it, and which TLC evaluates for the run's chain.

Every safety property of a passing run is a theorem. Each module states an inductive invariant, whose parts were checked by TLC
first; what a part is there for is said below.

* `LedgerProofs`. `ApplyIsIdempotent`, of every store state and valid block.
  `TypeCorrect` and `LedgerImplementsSpec` rest on the inductive invariant `IInv`:
  types; the store is the last version (`StoreIsLast`); and what a call has read so far
  is explained by versions since it began, in order. The last part is what
  makes the third read of a call match an answer of the specification, and it is
  kept by `ApplyBlock` because versions are only appended. The refinement proof maps
  `ApplyBlock` to `Install`, the first read to `Begin`, the second to a stutter, the
  third to `Return`. Nothing is assumed of the blocks: forks and stale blocks are
  included, which the run's client does not send.
  Then the same server with the client of `LedgerFeed`. Its steps are steps of the server or
  leave it alone, which gives `FeedImplementsSpec`. `FeedInv` says where the client is: the
  highest block applied is its own or the one before, and copies in the network are of no
  later block (`ChainPosition`). `OnlyLateBlocksHarm` needs no more, since `WrongOnlyByLateBlocks`
  is then inductive: a block sets the outpoints it touches, whatever the store was, and leaves the
  others (`BlockSetsWhatItTouches`); so one in order makes the next state of the chain but
  for what a late one has touched, and one that is applied again at its own height changes
  nothing else. While none has come late, all that
  readers have read are states of the chain (`ReadersAreOnChain`), and
  `HeightIsAnUpperBound` follows. The chain's states are a recursive function
  (`ChainState`): that it satisfies its equation is proved by induction over heights, from
  the least element of a set of naturals (`LeastNumber`).
* `BootstrapProofs`. `TypeCorrect`, by parts; then `RangeInv`: heights below some `lo` have been
  taken, those from `lo` to some `hi` are in the channel in order, and the feeder sends `hi`
  next (`ChannelAt`); a taken height is done, or a worker is at it or has given it up
  (`TakenAt`), and no two workers are at one (`HeightsAreOwned`). `NilIsSynced`: a nil means
  that no worker failed and the channel was drained (`EndsAreMeant`). `ProgressIsNearlyExact`:
  the missing heights below the reported one belong to different workers, and one worker has
  none of them (`OneIsAhead`). `OnlyRacesAndGaps` assumes nothing of the table before the call but
  that a sync up to some height has left it, and nothing of the snapshot but that its rows
  are the outputs of its height. It rests on `TableInv`, which speaks of
  statements, the granularity at which workers meet: a statement that no statement of another
  block or of a later transaction undoes shows in the table once it is executed
  (`LastingRowsAreThere`), every unspent row comes from the table at the start, the snapshot or
  the range, a row of the first two that no block spends stays (`RowsAreExplained`), and a
  snapshot that is loaded is the one the sync starts from (`SnapshotInv`). An output that is
  missing is then one that neither of the two nor a block of the range has brought
  (`MissingIsInGap`), and one that is wrongly there has a spender that was raced or left out
  (`WrongIsRacedOrInGap`).
* `EventBusProofs`. `EachHandlerOnce` and `TypeCorrect` from `BusInv`: the channel holds
  accepted events only, each once (`BufferIsAccepted`), and an event that is being published is
  neither accepted nor published by another (`PublishedOnce`). So the dispatcher's turn moves
  an event from one place to another, and `Publish` can only bring a new one.
* `NetworkManagerProofs`. `PeersAreBounded`, `NothingLeaks`, `EveryPeerServed`,
  `EventsTellTheTable`, `HandlersOwnTheirPeers` and `TypeCorrect`. None is inductive alone. The
  lock's holder is the one discoverer that dials (`LockIsDialer`); while it dials, the room and
  the free address that it checked before are still there (`WhileDialing`), since every
  other writer of the table needs the lock; a connection that does not exist yet
  has no handler (`NotYetHandled`); and the table's entries lead where they say to
  handlers that live (`TableOK`). The proof has a lemma per action, and one about
  `Disconnect`, which handler, cleanup and `Stop` share. A handler's address is its own
  because an address is dialled only when it is free, and where the cleanup has dropped nobody
  only its owner or `Stop` frees it; that `Stop` cancels before it disconnects is `CancelFirst`.
* `BitcoinProtocolProofs`. `EntriesEnd`, `OnlyReconnectingLoses` and `TypeCorrect` from their
  conjunction, which is inductive. A step changes one connection and at most the entry of its
  address (`PcMoves`), so an entry that points elsewhere is of a connection to the same
  address, and that one has been stored.
* `MinerServerProofs`. `OpenStaysReachable` and `TypeCorrect` from `Inv`: the server's client is the
  last one made, and all others were disconnected (`CurrentIsLast`); an attempt has a client
  from its first step on (`AttemptsHaveClients`), and a connection or a reader only once it has
  dialled (`DialledOnly`). With these, what a new client or `Stop` disconnects is the
  one connection that the replaced client had.
* `MiningServiceProofs`. `TemplateIsMonotone` rests on `TemplateInv`: once the manager has
  replaced the template, there is one, it is no newer than the clock, and no worker is
  at `create`. The manager's step makes that true because it waits for the readers, and no
  worker gets there again because the template is not missing. `StopIsNearlyFinal` rests on
  `StopInv`: after `Stop`, the blocks that are counted and the workers that are still in a
  round are together no more than the reported blocks and the workers; a worker that begins
  no round any more, since the context is cancelled, leaves the round when it counts its block.
  `ProgressShowsOneState` and `TypeCorrect` rest on `ProgressInv`: the blocks are the shares and the
  workers between their block and their share (`SharesAreBlocks`); while the monitor reads,
  either all workers are enabled or none, because Start is over and `Stop` needs the lock
  (`PhaseInv`); and what it has read of some workers is at most their shares now, and less by at
  most one share a worker, less those still on their way (`TallyInv`): that a worker on its way
  counts a share, or that the monitor reads one more, keeps the sum, and no block is
  counted under a read lock. Sums of shares are counted as sets of pairs (`Shared`).
* `VerifierProofs`. A call holds what `ValidateTransaction` gave for it (`CallIsAnswered`), so its
  properties are lemmas about operators, and most of the module is those. `LeastNumber` stands
  for induction: the numbers of which something holds are all (`InductiveSet`). With it a fold
  over a finite set has a function that satisfies its equation (`FoldExists`), from
  which follow what `Capacity`, `Unsigned`, `Total`, `SigOps`, the reading of a list and
  `FlattenSeq` compute, one step at a time (`CapacityStep`, `UnsignedByBytes`, `TotalInOrder`,
  `CountInOrder`, `ItemsInOrder`, `FlattenInOrder`).
  `ParserReadsBack`: a number is read back from its little endian bytes (`ReadUnsignedBack`, and
  `ReadSignedBack` in two's complement), by division. `Reader` says of a reader where in the bytes
  it is and what it has got, if it has not failed; and each operation of the parser, on bytes
  that begin as the written ones do, takes it past them if they are there and no limit is
  passed, and fails otherwise (`ReadVarIntOf`, `ReadScriptOf`, `ReadInputOf`, `ReadListOf`,
  `ParseOf`). The same lemmas so cover the whole bytes, the padded and the cut ones.
  `FeesOfValidAreExact`: a sum that wraps at every step is the wrapped sum (`WrapOfSum`,
  `TotalIsSum`), in whatever order a set is added up (`SumTakesAny`); and as fees are not
  negative, nor is what is spent, the difference of two totals that fit does not wrap.
  `SamplesNeverValid` from `CacheIsLocked`, every cached output asks for a signature
  (`ScriptIsP2PKH`), and from the parser's reading the sample back, its empty script with it
  (`SampleFails`). `TypeCorrect` from what a result can be (`ResultType`).

Only model-checked: every liveness property (fairness and `ENABLED` are beyond the prover), and
the Merkle root against its tree, which is a recursive operator. The library's induction
theorems take a predicate as a parameter and cannot be used; `LedgerProofs` and `VerifierProofs`
do without them, from the least element of a set of naturals.

## 6. Not modelled

Three programs do not compile at this commit, so they have no behaviour to model: the
enhanced UTXO store (Go inside `k8s-utxo-simple.yaml`, which takes the address of a map
element), the node (`cmd/metamorph`, which calls constructors that do not exist) and the
demo (`cmd/demo`, with unused imports). The services they would start are modelled.
The engine is a placeholder that answers from the lengths of two scripts and keeps no
state; telemetry is a map of simulated metrics and a list of alerts under a lock each,
with one store or search a call.
The portal answers with constants. The generated code, the Python and shell
tooling, and the services that only documents describe (architect, chronicler,
archivist, governor) have nothing to model here. Logging, wording and the
encodings of network messages are left out. `GetNetworkStatus`, `GetPoolStatus`,
`GetMiningStatus` and the performance reports only read. Stratum shares are submitted by
nobody, so jobs and difficulty, which only the status shows, are left out.

## 7. Plan

In the order of importance; the first eight steps are done.

1. Ledger with its specification, its client and proofs.
2. Bootstrap.
3. Event bus.
4. Network manager and proofs.
5. Demo peers and sentinel.
6. Miner server and Stratum client.
7. Mining service, its program, the Merkle root, and proofs.
8. Verifier: parser, rules, server, and proofs.
9. Node, once it compiles: start and shutdown with the bus and the ticking services;
   `Sentinel` composed of its two modes.
10. The engine, once it runs scripts.

No safety property of a passing run is without a theorem; those of new modules are to be
proved with them.
