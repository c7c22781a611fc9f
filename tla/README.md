# TLA+ verification of the 0-stor client and server code

This directory holds TLA+ models of the 0-stor sources under `src/`,
the TLC configurations that check them, and TLAPS proofs about them.
`PROJECT.json` lists every component, run, mutant, mapped definition
(with the source lines it translates), finding, hazard and theorem.

## 1. Inventory

The system is a client-side object store (see `spec.md`). A user value goes
through a pipeline of stages (chunker, compressor, encryptor, hasher) into a
chunk storage (random, replication, distribution), which stores fragments
on the shards of a cluster through one GRPC data client per shard. Of that
system, the repository's `src/` holds:

| Component | Source | State | Operations |
|---|---|---|---|
| GRPC data client | `client/datastor/grpc/client.go` | one connection, the namespace label, a per-call context constructor (fresh JWT per call) | NewClient; SetObject, GetObject, DeleteObject, GetObjectStatus, ExistObject; GetNamespace (label check); Set/Get/Append/DeleteFrom/Delete reference list, GetReferenceCount; ListObjectKeyIterator; Close |
| Key-listing stream | `client.go` 198-283 | server stream, errgroup context, a producer goroutine, a one-slot output channel, a closer goroutine | open, loop check, Recv (key, EOF, error), send result, send error, close, caller read, caller cancel |
| Error mapping | `client.go` 385-433 | none | toErr, toContextErr, convertStatus |
| Pipeline configuration | `client/config/pipe.go` | a pipe: type and config | setConfigType, validate, CreateBlockReader, CreateBlockWriter |
| lz4 stage | `client/lib/compress/lz4_wrapper.go` | none | WriteBlock (compress, forward), ReadBlock (not modelled) |
| zstordb command | `cmd/zstordb/commands/root.go` | flags, database, server, listener | start-up, profiling set-up, serve until error or SIGINT |
| REST namespaces, reservation | `store/rest/namespaces_if.go`, `store/librairies/reservation/Reservation.go` | none (route table, record type) | none |
| Tests | `*_test.go` | | a write/check/read/delete cycle for chunk storages, test clusters |

The shard cluster, the chunk storages, the pipeline itself and the server's
handlers are described by `spec.md` but their code is not under `src/`.

**Interactions.** Chunk storages call the data client of each shard they
use (fan-out, concurrently); the data client talks GRPC to a zstordb server;
the key-listing stream is three concurrent actors sharing a channel and a
context: the producer goroutine, the closer goroutine and the caller.

**What is hard.** The key-listing stream is real concurrency: Go's `select`
picks at random among ready cases, the caller may cancel at any moment,
Recv may return a key, EOF, a transport error or a Canceled status, and the
channel must be closed exactly once, after the producer returned. In the
storage layer (from the spec) the hard parts are fan-out writes that fail
part-way, shards lost or corrupted between write, check, read and repair,
and repair racing further loss.

**Correctness, per component.**
- Key-listing stream: results arrive in server order, and an error result
  comes last. A cancel stops the stream, with at most one more result. A
  stream always ends with the channel closed.
- Data client: every call takes effect atomically on the shard. It returns
  what the contract of spec 4.1 gives for the state it met, or one of these
  errors: token, closing, permission or transport. GetNamespace never
  returns a namespace of another label. ExistObject reports corruption as
  an error. GetObject never returns empty data.
- Pipeline configuration: a pipe that passed validate and setConfigType
  can be asked for a reader or a writer without crashing the process.
- zstordb start-up: every configuration either starts the server or
  returns an error, and never panics. A Serve error or a SIGINT ends it.

## 2. Modules

| Module | Models | Checked by | Proved in |
|---|---|---|---|
| `ListKeys` | the key-listing stream | `MCListKeys` (3 runs) | `ListKeysProofs` |
| `ShardContract` | what a shard client promises (abstract) | the `ContractSpec` property | `ShardClientProofs` |
| `ShardClient` | the data client's object, status, namespace and reference-list calls, with concurrent callers, a shard and a lossy network | `MCShardClient` (2 runs) | `ShardClientProofs` |
| `ServerBoot` | `rootFunc` of zstordb | `ServerBoot` (2 runs) | `ServerBootProofs` |
| `Pipe` | one configuration pipe | `MCPipe` (1 run) | `PipeProofs` |

## 3. The key-listing stream (`ListKeys.tla`)

`Client.ListObjectKeyIterator` (`client.go` 198-283). Variables:

| Variable | Code |
|---|---|
| `call` | the synchronous part: `idle`, `failed` (context constructor or `ListObjectKeys` error), `open` |
| `srv`, `srvEnd`, `pos` | the server's stream: its responses (`NoKey` is an empty key), its end (EOF or transport error), how many the producer received |
| `ctxDone` | the errgroup context: done on the caller's cancel, when the producer returns an error, and after `group.Wait` |
| `cancelled`, `cancelAt` | the caller's cancel, and how many results had been sent when it happened |
| `pc`, `res` | the producer goroutine's place in its loop and the result it holds |
| `ch`, `closed` | the one-slot output channel and whether it is closed |
| `recvd` | what the caller has read |

Actions: `Open` (lines 205-219), `LoopCheck` (224-229, the `select` with
`default`), `RecvKey`/`RecvEOF`/`RecvError` (231-255: once the context is
done, Recv may still return a buffered response or the Canceled status; the
model allows both), `SendResult` (257-266, either ready case of the select),
`SendError` (244-248), `Close` (270-280), and the caller's `Receive` and
`Cancel`. `ToContextErr` translates `toContextErr` literally, including its
early return.

Fairness: weak fairness on `Open`, on the producer's own steps (the loop
check and the two sends) and on the closer: the call runs to its end and
the Go runtime schedules runnable goroutines. `stream.Recv` is different:
it returns when the shard answers, and the stream's context has no
deadline, so `Recv` is only fair once the context is done (GRPC then
aborts the stream). The caller gets no fairness: it may stop reading at any
time. `ReadingCallerSeesClose` therefore states its hypotheses in its
antecedent: the caller keeps reading (`WF_vars(Receive)`) and the shard
keeps answering (`WF_vars(ServerRecv)`).

### Runs

- `listkeys` (pass): two keys and an empty key, streams of 0 to 3 responses
  ending in EOF or a transport error (80 initial states, 5,842 states).
  Three responses let a cancel fall between a buffered result, an in-flight
  one and one still on the server. Checks `TypeOK`,
  `DeliveredInOrder` (the caller reads the server's stream in order, an
  error result only last), `AtMostOneSentAfterCancel`,
  `CancelLeadsToClose` (a cancel ends the stream even if the caller stops
  reading and the shard never answers) and `ReadingCallerSeesClose` (a
  caller that keeps reading sees the channel closed if the shard answers).
- `listkeys_cancel_quiet` (violation of `DrainsWithoutDelivery`): spec 4.6
  lets a cancelled stream deliver only the message in flight, and 5 and S5
  say nothing more is delivered. The property states it: once the caller
  has cancelled and the producer holds no result (top of the loop, in
  Recv, or returned), the count of results put into the channel never grows.
  TLC's trace: the caller cancels while the producer waits in Recv with
  nothing in flight; the cancel makes Recv return the Canceled status, and
  the error path's select (line 245) sends it as a new error result.
- `listkeys_cancel_err` (violation of `CancelErrorIsContextErr`):
  `toContextErr` returns early for every non-nil error, so the switch that
  should turn a Canceled status into `ctx.Err()` never runs.

Each property of the passing run has a mutant (PROJECT.json) that TLC
finds: a send ignoring the full buffer, a producer not returning after an
error result, the loop's ctx check missing, a send without the
`ctx.Done()` case, EOF continuing the loop.

### Proofs (`ListKeysProofs.tla`)

- `TypeCorrect`: `Spec => []TypeOK`, from `TypeInit` and `TypeStep`, with
  lemmas `StreamsAreSeqs` and `ResultOfType`.
- `CancelBound`: `Spec => []AtMostOneSentAfterCancel`.
- `StreamOrder`: `Spec => []DeliveredInOrder`.

The two safety invariants are not inductive alone. `IInv` adds: a call that
has not opened has no closed channel and no cancel; the channel is closed
only once the producer has returned; a cancel has made the
context done; and once one result has been sent after a cancel, the
producer is at the top of its loop or has returned. The last fact is what
bounds the extra sends: from the loop a done context leads straight to
return. `IInv` was checked by TLC on the `listkeys` instance before being
proved (`IInvInit`, `IInvStep`).

`DeliveredInOrder` is not inductive either: a step sees only the channel
and the producer's position. `OrderInv` ties them together, over
`All == recvd \o ch`: at the top of the loop or in Recv the producer has
put in one result per key received (`Len(All) = pos`), all of them
non-error results of the first `pos` keys (`GoodPrefix(pos)`); while it
holds a result to send, one fewer, and the result is that of key `pos`;
while it holds an error, the error is not a key's result; once returned,
`All` is delivered in order. `Started` (a call not yet opened has no
producer) is needed for `Open`. Lemmas: `ReceiveKeepsAll` (a read moves
the one buffered result and leaves `All` as it was: the buffer has one
slot), `SendAppends`, `PrefixDelivered`. `OrderInv` was checked by TLC on
the `listkeys` instance (5,842 states) before being proved (`OrderInit`,
`OrderStep`, one case per action).

Only model-checked: the two liveness properties (TLAPS does not handle
liveness under fairness).

## 4. The shard data client (`ShardContract.tla`, `ShardClient.tla`)

### The contract

`ShardContract` is the abstract specification: the shard's objects
(`store`: absent, ok or corrupted, with a payload) and reference lists
(`refs`, kept as sets), the client's connection, the label it is bound to,
and for each caller the call it has pending and the last result it got.
`Create` is `NewClient`; `Invoke` starts a call; `Reject` fails one before
it reaches the shard (token fetch, closed connection); `Complete` applies it
atomically and returns `Answer` (the result spec 4.1 gives for the object,
reference list and label it met), or fails it with permission denied (no
effect) or in transport (with or without effect); `Close`; `Corrupt` is the
shard's disk corrupting a stored object.

### The client

`ShardClient` translates `client.go` 40-433 (without the key-listing stream). Variables:

| Variable | Code |
|---|---|
| `conn`, `jwt`, `label` | `Client.conn` (none, ready, failed, closed), whether a JWT getter was given, `Client.label` |
| `srvLabel`, `store`, `refs` | the shard: its namespace label, objects and reference lists |
| `rpc`, `resp` | per caller: the request on the wire, and the protobuf response or RPC status it got |
| `result` | per caller: what the method returned, converted |

Actions: `NewClient` (lines 40-93), `Invoke` (the method's
`contextConstructor` - a fresh JWT per call, which may fail - then the RPC,
which fails at once on a closed connection), `ServerHandle` (the shard
denies permission, or applies the request and answers with
`ServerAnswer`; the answer may be lost), `LoseRequest` (lost before the
shard saw it), `Return` (the method converts the response with `Convert`:
`toErr` with its `expectedErrorMapping`, `convertStatus`, and each method's
own checks - empty data, a corrupted ExistObject, the label of
GetNamespace), `Close` and `Corrupt`. Several callers share one client.

### Refinement

`ShardClient` implements `ShardContract` under the mapping: a call is
pending in the contract while it has no response (`AbsPending`); once the
shard or the network answered, the contract's result is what the client's
conversion code makes of the answer (`AbsResult`), so `ServerHandle` and
`LoseRequest` are the contract's `Complete` and `Return` is a stutter.
The `shard_client` run checks `ContractSpec` (the contract's `Spec` under
the mapping) as a TLC property; `ShardClientProofs` proves it.

### Runs

- `shard_client` (pass, 134,990 states): one caller, one key, one payload
  and the empty one, one reference, two labels, all twelve calls. Checks
  `TypeOK` and `ContractSpec`. One caller suffices for the refinement:
  each step touches one caller's slots, and two callers (2.5M states) add
  only interleavings of independent calls on the same contract state.
  Mutants: GetObject without its empty-data check, ExistObject without its
  corruption check, Return not consuming the response.
- `shard_client_hang` (violation of `CallsReturn`): every call's context is
  `context.Background()` (lines 96, 377-379); with no fairness for a shard
  that stops answering on an open connection, a call never returns, while
  spec 5 promises timeouts. Fairness: weak on `Return` (the caller's
  goroutine runs) and on `LoseRequest` once the connection is closed
  (`conn.Close` fails the RPCs in flight) - nothing else bounds an RPC.

### Proofs (`ShardClientProofs.tla`)

- `TypeCorrect`: `Spec => []TypeOK`. Lemmas `ConvertType`,
  `ServerAnswerType` and `EffectType` give the types of a converted
  result, a shard answer and an effect.
- `ImplementsContract`: `Spec => ContractSpec`. `RefInit` maps the initial
  state; `RefStep` shows that every step is a contract step or a stutter,
  one case per action. The core is `ConvertAnswer`: converting the shard's
  protobuf answer with the client's code gives exactly the contract's
  `Answer`, per operation (`StatusConversion`, `ToErrMapped`,
  `ExistSwitch`). `SameContract` identifies the operators of the two
  instances of `ShardContract`. The step needs the inductive invariant
  `IInv == TypeOK /\ (no call in flight while the client is not created or
  failed)`: `NewClient` changes `label`, which `AbsResult` reads, and only
  because no call is then in flight is that step a contract `Create`. `IInv`
  was checked by TLC on the `shard_client` instance before being proved.

## 5. The zstordb command (`ServerBoot.tla`)

`rootFunc` (`root.go` 47-164) as a program counter through open database,
create server (deferring `Close`), start the profiling goroutine, profile
set-up (`os.Stat`, `MkdirAll`, deferring the profile's `Stop`), listen, and
the final `select`; the Serve goroutine, the profiling goroutine and SIGINT
are actors of their own. `ReturnWith` and `PanicMain` run the deferred calls
in reverse order; a panic of the profiling goroutine runs none. Fairness:
weak on each step of the main goroutine and on Serve's send (the runtime
schedules runnable goroutines); none for signals and failures, which come
from outside.

- `server_boot` (pass, 224 states, all flag combinations): `TypeOK` and
  `ShutdownEnds` (a Serve error or a buffered SIGINT ends the process even
  if the other never comes; `sigChan` has capacity 1, so a second SIGINT is
  dropped, not queued). Mutants: every SIGINT queued breaks `TypeOK`, a
  select waiting on `errChan` only breaks `ShutdownEnds`.
- `server_boot_panic` (violation of `StartupNeverPanics`): a missing
  profile directory is created and then `stat.IsDir()` is called on the
  nil `FileInfo` of the failed stat (`root.go:93`).
- `ServerBootProofs` proves `BootTypeCorrect` (`Spec => []TypeOK`: neither
  one-slot channel overflows); `TypeOK` is inductive on its own. Lemma
  `ReturnEffect` gives what `ReturnWith` and `PanicMain` leave.

## 6. The pipe (`Pipe.tla`)

`Pipe` (`client/config/pipe.go`) as the pipe's type (`ptype`) and the
dynamic type of `p.Config` (`config`: the parser's map, or a Config type),
plus whether the last `validate` and `setConfigType` succeeded, where the
process panicked, and the reader and writer built. The loader that calls
these methods is not in `src/`, so the model lets them be called in any
order. `Pipe` is an exported struct, so a program may also build one with a
Config of any type: the initial `config` is the map or any Config type.

The three switches of `pipe.go` are three tables, each taken from its own
lines: `SetConfigCases` (72-117: the Config each case unmarshals into),
`ReaderCases` (31-43) and `WriterCases` (48-60: the Config each case
type-asserts). `setConfigType` fails on marshal or unmarshal errors
(leaving `p.Config` unchanged) and panics on a type not in its table;
`Build`, shared by `CreateBlockReader` and `CreateBlockWriter`, returns an
error for a type not in its table, panics when `p.Config` is not the
asserted Config, or calls the constructor, which may fail. `ValidPipes`
is modelled from the comment at `pipe.go:22-23` (the `validPipes` map is
not under `src/`).

- `pipe` (pass, 224 states): types are the six of `validPipes`, the empty
  string, a capitalised type, a codec name and an unknown word, with every
  initial Config. `PanicOnlyOnMisuse`: setConfigType never panics on a pipe
  validate accepted, and the Create methods never panic once setConfigType
  returned nil. It holds only because the three tables agree: the mutants
  drop the hash case from `SetConfigCases` or make its compress case store
  an `encrypt.Config`, and TLC finds the panic. A failed marshal that
  leaves `p.Config` nil breaks `TypeOK`.
- `PipeProofs` proves `PipeTypeCorrect` (`Spec => []TypeOK`) and
  `NoPanicWhenValidated` (`Spec => []PanicOnlyOnMisuse`) from one inductive
  invariant: `validate` accepted only a type of `validPipes`, and after
  `setConfigType` returned nil `p.Config` holds `SetConfigCases[ptype]`.
  The lemmas `SwitchCovers`, `ReaderAgrees` and `WriterAgrees` state what
  the proof needs of the tables: setConfigType's switch lists every valid
  type, and for every case of a Create method it stores the Config that
  case asserts.

Note what the model shows about chunker, hash and replication pipes: they
validate and get a typed Config, but CreateBlockReader/Writer return an
"invalid type" error for them; building stops there, without a panic.

## 7. What is proved, what is only model-checked

Proved by TLAPS for every value of the constants (assumptions: the bounds
are naturals and the assumptions named in `ListKeys`, `ShardClient` and `Pipe`):
the type invariants of all four components; every safety invariant of the
passing runs (`CancelBound`, `StreamOrder`, `NoPanicWhenValidated`); the
refinement of `ShardContract` by `ShardClient`. Each safety theorem rests
on an inductive invariant first checked by TLC as an invariant of the run.

Only model-checked: the liveness properties (`CancelLeadsToClose`,
`ReadingCallerSeesClose`, `ShutdownEnds`, `CallsReturn`) - TLAPS does not
reason about fairness and ENABLED. The properties of the violation runs
are counterexamples, not theorems.

## 8. Not modelled

- The shard cluster and the chunk storages (random, replication,
  distribution): spec.md describes them but their code is not under
  `src/`; the data client is modelled on its own.
- The other pipeline stages and codecs (chunker, encryption, hashing,
  Reed-Solomon): not under `src/`.
- The lz4 wrapper (`lz4_wrapper.go`): `WriteBlock` and `ReadBlock` are one
  synchronous call each into the lz4 library, with no state of their own;
  what they compute is the codec, which TLC cannot run.
- The REST namespace route table and the reservation record: declarations
  with no behaviour.
- Test helpers and benchmarks.
- Inside `rootFunc`: the database and GRPC server internals; their failures
  are nondeterministic outcomes of the steps that call them.
