# TLA+ specifications of the PixRail payment switch

This directory models the parts of the switch that are hard to test: concurrent
request handlers, workers and relays over a shared store, with leases, retries,
crashes and an unreliable SPI and broker. TLC checks small instances of the models;
TLAPS proves their safety properties for instances of any size.

## The system and its parts

A client creates a Pix transfer with an idempotency key (`CreateTransfer`), through
an HTTP route that needs an API key with the role `tenant`. The request passes two
rate limits, the DICT lookup and the fraud score, which accepts it, blocks it or asks
for a manual review. A reviewer decides the latter (`RecordReview`). A worker claims
accepted transfers under a lease, submits them to the SPI and records the message id
(`SubmitToSPI`, called in batches by `SubmitPendingSPI`). The provider's signed
callback settles or rejects the transfer (`RecordSettlement`). Every change of a
transfer is stored together with its outbox events and its audit record; relays claim
outbox records under leases and publish them. Migrators bring the database to the
schema of a release before its processes start.

| Part | Code | Module | Status |
| --- | --- | --- | --- |
| transfer aggregate | `internal/rail` | `Rail`, `TransferLifecycle` | modelled |
| use cases | `internal/switcher` | `Switch`, `TransferEvents` | modelled |
| worker process | `cmd/pixrail-worker`, `SubmitPendingSPI` | `SPIWorker` | modelled |
| memory store | `internal/store` | `TransferStore`, `StoreContract`, `OutboxRelay` | modelled |
| PostgreSQL store | `internal/postgres/store.go`, `db/migrations` | `PostgresStore`, `OutboxRelay` | mutations and outbox |
| migrations | `internal/postgres/migrations.go`, `cmd/pixrail-migrate` | `Migrations` | modelled |
| outbox relay | `internal/messaging/relay.go`, `internal/events` | `OutboxRelay` | modelled |
| HTTP API, API process | `internal/api`, `cmd/pixrail-api`, `internal/app` | `Api` | modelled |
| configuration | `internal/config` | `Config` | what the models read |
| DICT resolver, fraud engine, request rules | `internal/dict`, `internal/fraud`, `internal/rail` | `Intake` | modelled |
| rate limiters | `internal/ratelimit` | `RateLimit` | modelled |
| SPI adapter | `internal/spi` | inside `TransferStore`, `Switch` | modelled |
| event and cache codecs | `internal/codec` | `Codec` | the binary ones |
| metrics | `internal/observability` | inside `Api` | the events counter |
| messaging topology | `internal/messaging/topology.go` | - | not modelled |

`PROJECT.json` lists every component, the lines each definition models, the runs,
the mutations, the hazards and the theorems.

## The modules

`Rail` has the aggregate's transitions. A Go method returning `(Transfer, error)`
is a guard (`CanClaimSPISubmission`) and a result (`ClaimSPISubmission`).

`TransferEvents` has the events and audit actions each use case writes.

`TransferStore` has the memory store's maps as variables and one operator pair per
method: when it succeeds, and what it then writes. Each method holds the mutex
throughout, so each is atomic.

`Switch` has one handler process per use case (`client`, `worker`, `reviewer`,
`provider`). Every store call and the SPI call is an action of its own, and handlers
interleave between any two. Each handler can end at any step (`...Abort`): a crash, a
cancelled context, a store error, and for a create also a rate limit or a DICT or
fraud failure. `SubmitFailed` may leave the message with the SPI. The provider may
send any callback at any time. `spiReceived`, `replies` and `acks` record what the
outside has seen.

`TransferLifecycle` is the abstract specification of the switch: the transfer state
machine, each transition one step with its events and audit record. `StoreContract`,
and with it `Switch` and `PostgresStore`, implements it with `status` mapped to the
rows' statuses.

`SPIWorker` puts the worker process on top of `Switch`: batches of the oldest
pending transfers, a conflict skipping a transfer, any other error ending the batch.
`older` holds, for each transfer, those with an earlier `CreatedAt`; a batch is a set
that is gone through in that order.
Providers are left out of its next-state relation: callbacks concern transfers that
are no longer accepted.

`StoreContract` is what the switch needs from a store: every mutation one step, and the
invariants that these steps keep whoever makes them. `Switch` extends it.
`PostgresStore` has the transactions of the PostgreSQL store, with row locks, unique
keys, uncommitted rows and a sequence that is drawn before the commit, and implements
the contract. The idempotency index is mapped to the unique constraint on the rows,
the callback map to the table of processed callbacks. Time may pass between a
decision and its commit, so the contract lets a lease be partly or wholly used up when
it becomes visible. What is assumed of PostgreSQL is listed at the head of the module.

`OutboxRelay` has the outbox records and the relays' `Drain`, one action per store
call and per publish, over either store. With PostgreSQL a number may appear after a
higher one or never, `skip locked` leaves out any rows, a batch comes in any order,
and the relay's clock and the database's differ by up to `MaxSkew`. With `MaxSkew`
above 0 every behaviour of the memory store is also one with PostgreSQL.

`Migrations` has several migrators of several releases, one action per statement of
`ApplyMigrations`: the query, whose every error leads on to the migration's SQL, the
SQL, the insert that waits for a pending key, and the commit, whose answer may be lost.

`Config` has what `Load` makes of an environment, `Intake` what `CreateTransfer` makes
of a payload: validation, fingerprint, DICT profile, score and decision. `Api` puts
them and the HTTP routes on top of `Switch`. A request is a handler of `Switch` that
holds the secret of its API key; each action is one of `Switch`, restricted to what the
route lets through, with the response it may end in. The process starts with an
environment, drains on a signal, crashes and starts again. `Switch` leaves open which
decision a payload gets and whom a handler works for; `Api` settles both.

`Codec` has the encoders and decoders of MsgPack, CBOR and the Protobuf wire format,
byte by byte but for the inside of texts, and the checks of the participant cache. It is
a state machine: `Marshal` appends one item a step (a field, or one of the fraud rules
behind their number), the store may then lose the end of the bytes, in the middle of a
text too, or gain a byte, and an `Unmarshal` of the same or of another codec or type reads
one item a step. `marks` records where each item began.

`RateLimit` has the four limiters for one key behind one `Allow` action.

The `MC...` modules give instances: symmetry sets, environments, payloads, releases and
values to encode. Operators introduced as deliberately wrong are used by no
specification: `PROJECT.json` names which one, put in place of the real operator, makes
which property fail.

### Abstractions

- Instants are kept as the time left to them, 0 once past: every guard in the code
  only asks whether an instant is still ahead. `Tick` takes one unit off each, in the
  store and in every handler's locals. There is one clock, but in `OutboxRelay`.
- A request payload and its fingerprint are one value; a callback is its own hash.
- Random ids and tokens are any value not in use.
- The memory store's keys join tenant and key with a colon. Tenant ids hold none
  (they come from `PIXRAIL_API_KEYS`, split at colons), so the pair stands for it.
- The strings of the API are model values: a text is its trimmed body and whether
  white space surrounds it, a signature the secret it was made with and its age.
  sha256 and HMAC are taken for injective.
- The SPI message id is a function of the transfer, as in the simulator.
- Timestamps, reasons, scores and attempts that no guard reads are left out. The
  relay's attempt count is kept as the delay it leads to.

## What the runs check

| Run | Instance | Shows | States |
| --- | --- | --- | --- |
| `api` | 2 clients, worker, reviewer, provider, 2 tenants, 1 key, 2 transfers, 3 API keys, 5 payloads | `RepliesAgree`, `IndexMatchesRows`, `ClientFacts`, `TenantScoped`, `RoleGates`, `CallerFacts`, `CreatedMeansInserted`, `EventsCounted`, `RiskPolicy`, `RiskFacts` | about 175,000 |
| `workers` | 2 workers, 2 clients, provider, 2 transfers, lease of 2 | `SubmissionSafety`, `LeaseExclusive`, `ClaimOnlyWhileAccepted`, `WorkerFacts` | 133,237 |
| `settle` | 2 reviewers, 2 providers, worker, 2 tenants, 2 transfers | `SettlementAgrees`, `CallbackFacts`, `OutboxMatchesStatus`, `ImplementsLifecycle` | 321,024 |
| `worker_batch` | 1 worker, 2 transfers, one of which the SPI may refuse for ever, batches of 2 | `AcceptedIsSubmitted` | 12,261 |
| `worker_replicas` | 2 workers, 1 transfer, lease of 2 | `AcceptedIsSubmitted` | 5,216 |
| `relay` | 2 relays, 2 records, batches of 2, PostgreSQL, clocks up to 1 apart | `PublishedWasDelivered`, `BatchExclusive`, `PublishedIsFinal`, `EventuallyPublished`, `RelayFacts` | 59,940 |
| `migrations` | 4 migrators of 3 releases, 3 versions, one edited file | `AppliedOnce`, `InVersionOrder`, `MigratorFacts`, `EventuallyMigrated` | 17,172 |
| `postgres` | 2 sessions, 2 transfers, 4 event batches | `ImplementsContract`, `DecidedRowIsCurrent`, `DecisionStands`, `LocksAndRowsAgree`, `OneCallbackPerMessage`, `SequenceFollowsCommits` | 643,437 |
| `rate_limit` | every configuration up to 3, times 0 to 7 | `RollingLimit`, `RefusedOnlyWhenUsedUp` | 478,604 |
| `codec` | texts and integers at every boundary of the formats, cut at every place or extended by a byte | `RoundTrip`, `DamageNoticed`, `CutEventIsPrefix` | 298,316 |

The bounds are the smallest at which the hazards occur. Two handlers of a kind race;
two transfers, tenants or records can be confused; a lease of 1 expires at any point
of a handler, a lease of 2 can also be partly used. Tokens can be reused once nobody
holds them, so a small pool stands for an endless supply; a relay's claim overwrites
the tokens of the records it takes, so two tokens are enough for two relays.
`MaxSequence = 4` lets a transfer go
through review, submission and settlement while another one's transactions draw
numbers in between. Seven units of time hold two full periods of every limiter. The
payloads of `api` are one of 10,000 BRL and its equal but for white space, one above the
limit, one that is blocked and one with a failed lookup. The first scores 65, which is
review, with one tenant and 64, which is acceptance, with the other. `Api.cfg`
leaves the last response out of the fingerprint (`VIEW`): no step reads it, and the
properties about it are on steps. In `codec` a cut goes through any place, and through a
text so that it loses 1, 3 or 224 bytes, which leaves lengths on both sides of a change
of form.

Two runs are expected to fail, and each shows where a document promises more than
the code does:

| Run | Document | What the code does |
| --- | --- | --- |
| `callback_evidence` | `docs/events/README.md:25`: duplicate callbacks "must append evidence" | a replayed or refused callback writes nothing |
| `relay_ordering` | `docs/events/README.md:22`: "payer-local ordering" | the loop continues after a failed publish |

### Fairness

Liveness needs assumptions on what is around the code. They differ by component.

*The worker* (`WorkerFairness`). Its loop runs at every tick of its interval and its
calls return: the SPI call has a deadline of 10s. Somebody runs a crashed process again;
`compose.yaml` does not. Crashes, failures and slow calls never have to stop, but they do
not hit every try of a transfer that is tried again and again. The SPI is split: it may
refuse the transfers of the constant `Refused` for ever, and accepts each of the others
some day. `AcceptedIsSubmitted` then has two parts. Without more, a transfer is submitted
unless an older one is refused: that one heads every batch, and its error ends the batch
before the younger one's turn (`service.go:329`). Such starvation is a behaviour of the
model: the second part fails in `worker_batch` when its premise is dropped. The premise is
`ShortInterval`, a worker interval below the retry delay of 1s (`service.go:267`): then
some batch starts while the refused transfer is put off, and the younger one gets through.
With the default interval of 1s it is close: the delay is counted from the end of the SPI
call, so the next tick usually comes just before it is over. Two refused transfers
can take turns in holding up the rest, so the second part is about at most one.

*The relay* (`HostDrains`, `BrokerAccepts`). No process of the repository calls `Drain`;
only tests do, and `docs/architecture/c4-container.md` has the relay as a milestone.
`Drain` sets no deadline on `Publish` either. So `LiveSpec` assumes nothing of the relays
but that time passes, and `EventuallyPublished` is an implication. If a host calls `Drain`
again and again, ends every call, and some claim is stored in time and meets no locked
row, and if the broker takes every record some day, then every record is published: the
protocol of claims, marks and back-off leaves none behind. What needs no such premise
is `WaitsBounded`: nothing keeps an unpublished record from the next claim for longer
than one lease or the longest back-off, give or take the skew.

*The migrators* (`Fairness` of `Migrations`). A stopped migrator is started again, which
is up to an operator: `compose.yaml` starts one, once. Failures of the database end some
day, since one more could always end a one-shot process; lost races and checksum conflicts
are no failures and may go on.

## What is proved

Constants are arbitrary, under the named assumptions `NoneAssumption` (the empty
string is no id), `TimingAssumption` and `RelayAssumption` (positive durations and
limits, which the constructors ensure), `PostgresAssumption` (both, for that store), and
those named below.

The type invariants are proved only, as are a few facts said to be so below. The other
properties named here are also checked by the runs above.

### The store contract and its two stores

`StoreContract_proofs` is about any store that makes steps of the contract only
(`StoreSpec`). One lemma per method says what the method leaves of the rows, the index,
the callbacks and the outbox (`InsertEffect` to `AgeEffect`); the theorems rest on these.

- **StoreTyped**, **IndexPromised**, **OutboxPromised**, **ClaimsPromised**: these
  invariants are inductive given the types, with one step per method.
- **CallbacksPromised**: a stored callback is the one that settled its transfer. It needs
  that no step but a settlement finishes a row, and that none changes a finished one.
- **MessagesPromised**, **SettlementsPromised**: a settled row has its own callback. The
  second needs the first: the finished row has a message id, under which the callback
  was stored, and no later callback takes a place that is taken.
- **LifecyclePromised**: the contract implements `TransferLifecycle`; initial states map
  to initial states and every method to one transition or a stutter.

Both stores make such steps. `Switch_proofs` proves it of the memory store as the handlers
use it (**MemoryStoreImplements**), for which a worker's lease must be known to be at
most `ClaimTTL`; `PostgresStore_proofs` proves it of the transactions (**Implements**). So
every promise holds of both: **IndexCorrect**, **OutboxCorrect**, **ClaimsCorrect**,
**LifecycleImplemented** in both modules, **CallbacksCorrect** in the first,
**MessagesCorrect** and **SettlementsCorrect** (`SettledByCallback`) in the second, where
the instance `Promises` carries the contract's theorems over to the committed tables.
`MessageMatchesStatus` is proved only, and so is that PostgreSQL keeps the promises;
`postgres` checks the refinement they come from.

### The handlers

`Switch_proofs` has, beside these and **TypeCorrect**, what depends on the handlers'
steps between their store calls.

- **WorkersCorrect**: `WorkerFacts` is the strengthening. `LeaseExclusive` alone is
  not inductive: it needs that a live lease in a worker's hands equals the row's, in
  token and in time left (so that both run out together), and that tokens are not
  shared. **LeasesExclusive** and **SubmissionsSafe** follow.
- **ClientsCorrect**: between its decision and its insert a create holds an id nobody
  else has, and a refused insert leaves a winner to be found; hence **RepliesCorrect**.
- **SettlementsCorrect**: what was acknowledged to the provider is what settled the
  transfer, from the contract's callback facts.

`Processes_proofs` is about the two processes on top of the switch. Of the worker it proves
**WorkersImplementSwitch**: the batches of any number of worker processes only make steps
of `Switch`. This needs **BatchesCorrect** (`BatchFacts`: what is
left of a batch are rows of the store): a submission is started with the tenant of the row
that the batch names, and only a stored row has one. **OrderCorrect** says that racing or
abandoned creates leave the transfers strictly ordered by `CreatedAt`. **WorkersSafe** is
the safety of the switch carried over. `BatchFacts` and `OrderFacts` are proved only.

### The other components

`OutboxRelay_proofs` proves **TypeCorrect** and **RelaysCorrect** (`RelayFacts` is
inductive: a live batch's records carry the relay's token and its expiry, and a relay
about to mark a record has delivered it), and from it **NothingLost**,
**BatchesExclusive** and **PublishedFinal**, for both stores and any skew. **WaitsEnd**
(`WaitsBounded`, proved only) adds that no delay passes its limit; it needs the bound on a
relay's own delay as well, since a failed publish computes it before the mark stores it.

`Migrations_proofs` assumes of the releases that their files are sorted and that a
release keeps the versions of those before it (`ReleaseAssumption`, `ReleasesGrow`).
**MigratorsCorrect** is inductive with the types: what a migrator has passed is recorded
with its own checksum, and only one is between a version's insert and its commit. From
it follow **RowsTellTheTruth** (`AppliedOnce`) and **VersionsInOrder**.

Of the API process `Processes_proofs` assumes a production configuration that `Load` accepts,
which excludes the memory store (`EnvironmentAssumption`), disjoint handlers, and payloads
whose fingerprints are in `Hashes`.

- **ApiTypeCorrect**, and **ImplementsSwitch**: every step of the API process, starts and
  crashes included, is a step of `Switch` or a stutter. So every theorem on `Switch`
  holds of the API process: **ApiKeepsPromises**.
- **CallersCorrect**: `CallerFacts` is inductive. From it follow **RolesGate** and
  **TenantsApart**, with the rows' tenants never changing.
- **RisksCorrect**: a row's status goes back to the decision on its own hash, for which
  a client's pending decision must be the one of its request. With **SubmissionsSafe** it
  gives **RiskPolicyHolds**.
- **CreatedOnce**: 201 is answered only with the insert.
- **CountsCorrect**: a response counts the events its own step appended, by the effects
  of the store methods on the outbox; a step that appends none counts none.

`PostgresStore_proofs` has one inductive invariant, `IInv`: `TypeOK`,
`DecidedRowIsCurrent`, `DecisionStands`, `LocksAndRowsAgree`, `OneCallbackPerMessage` and
`SequenceFollowsCommits` together, because they lean on one another. That a decided row is still
the committed one needs the lock, that a written decision stands until its commit needs
the row, the pending unique keys and the absence of a second callback, and the order of
the sequence numbers needs that the numbers of an open transaction are above all those
committed for its transfer. The conjuncts are **TypeCorrect**, **DecisionsCurrent**,
**DecisionsCorrect**, **RowsCorrect**, **CallbackOnce** and **NumbersFollowCommits**.
**Implements** is the refinement: a commit is the contract's method on the committed
state before it, because the decision still stands; every other step changes nothing the
contract sees, or is the passing of time.

`RateLimit_proofs` is about every configuration, call pattern and length of time. The
inductive invariant `LimiterInv` relates a limiter's entry to the calls it admitted. The
token, fixed and leaky limiters keep an account (`Metered`): what any window admitted and
what is still available come to at most one burst and the shares of its periods, and what
was admitted since the entry's instant and what is available come to at least one share.
Refilling, resetting and taking keep the account, one lemma each. The sliding window's log
is the end of the sequence of admitted calls, and what it has dropped lies before the
cutoff (`Log`). From it follow
**TypeCorrect**, **LimitsKept** (`RollingLimit`) and **RefusalsJustified**
(`RefusedOnlyWhenUsedUp`).

`Codec_proofs` is about any events and profiles whose texts and numbers of rules are below
65,536 (MsgPack writes both in 16 bits), integers of any 64 bits, any loss at the end and
any extra byte (`CodecAssumption`).

- Of each codec, lemmas say that an item that is there is read back and that one whose end
  is lost is refused (`CBORItem`, `MsgPackItem`, `ProtoText`, `ProtoInt`): the change of
  forms at 24, 32, 128, 2^8, 2^16 and 2^32, the sign of integers, the groups of seven bits
  of a varint.
- **StoreLayout** is the inductive invariant `Inv`. For some bytes w, those that were
  written, the items lie in w one behind the other (`Layout`), the store holds w, w cut
  short or w and a byte (`Became`), and a decoder stands at the place of an item with
  exactly those before it in hand (`ReaderAt`), or belongs to another codec or type and has
  nothing to read. The steps of the decoders carry the induction over the items, so that
  none over sequences is needed. Protobuf leaves out defaults, so several items may share
  a place; the decoder is then at the last of them.
- From it follow **ValuesRestored** (`RoundTrip`), **DamageDetected** (`DamageNoticed`) and
  **CutEventsArePrefixes** (`CutEventIsPrefix`).

Only model-checked: all liveness (`AcceptedIsSubmitted`, `EventuallyPublished`,
`EventuallyMigrated`), which the prover does not handle.

## Not modelled

Messaging topology is static data. Metrics other than the events counter, tracing,
logging, health endpoints and the profiling server change no state that a use case
reads. In `Config`, addresses and the tracing exporter are left out; in the PostgreSQL
store, the connection pool, row scanning and the audit list. The JSON codec is a call of
`encoding/json`. Rate limits are per key and independent of each other, so
`RateLimit` has one key, and `Api` lets any create be refused. Texts of 65,536 bytes
and more, whose length the MsgPack codec writes in 16 bits, are outside `RoundTrip`: no
document bounds them and no event of the switch has one.

## Plan

1. `Switch` over `StoreContract` instead of the memory store, so that the theorems on its
   handlers, too, hold of leases that are partly used when they become visible.
2. The outbox as a composition: events of `Switch` flowing into `OutboxRelay`.
3. Two clocks for the leases of transfers, as `OutboxRelay` has for those of records.
