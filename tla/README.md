# Verification of the Nudge collector

TLA+ specifications, model-checking runs and machine-checked proofs for the
code of this repository: the OpenTelemetry Collector distributions and the
exporters and data model written for them. Paths are relative to the
repository; `nudge.go` is `distributions/exporter/nudgehttpexporter/nudge.go`.

## 1. Inventory

| part | state | operations | talks to |
|---|---|---|---|
| **traces push** of nudgehttpexporter (`pushTraces`, `SendTransactions`, `export`) | `Rawdata` (the packet being filled), `Transactions` (the buffer), `Transaction`, `Cmpt`, the global counters `metricsInterne` | push a batch, move due transactions, marshal, post | called by the queue consumers and retried by the retry sender of the collector; posts to the Nudge server |
| **conversion** (`TracesExportRequest2Rawdata`) | the transaction of each trace | fold a span | reads pdata, writes the buffer and the packet's dictionaries |
| **answers** (`export` from `client.Do` on, `readResponseBody`, partial-success handlers) | none | classify an answer as done, retryable, permanent, throttled | the retry sender |
| **metrics, logs, profiles push** | a `NudgeExporter` of their own | post a packet without data (the conversions are empty) | Nudge server |
| **resource information** (rest of `CreateRawdata`) | dictionaries of the packet | read CPU, memory, disks | the host |
| **debug page** (`start`, `WWW/`) | none, reads `metricsInterne` | render | an HTTP server of its own |
| **configuration, factory** | the configuration | defaults, URL composition, pipeline options | the collector |
| **nudgedebugexporter** | none | format telemetry as text | the logger |
| **pdata: maps and slices** (`pcommon/map.go`, the generated `*slice.go`, `internal/state.go`) | entries; arrays of pointers to elements, longer than the slice; a read-only or mutable state | get, put, remove, append, move, filter, sort, copy, mark read-only | both exporters |
| **pdata: messages** (`internal/data/protogen`, the generated wrappers, the hand-written `json.go`) | the fields of 57 messages | `Size`, `Marshal`, `Unmarshal`, JSON reader, `CopyTo`, migration of deprecated fields | both exporters, receivers |
| **pdata: generators** (`internal/cmd/pdatagen`) | none | write the wrappers at development time | - |
| **cmd/goreleaser** | none | a distribution to a release configuration | release workflow |
| **distributions, scripts, images, installers, workflows** | none | data and packaging | - |

Hard behaviours, most of them in the traces push: one object is read and
written by every consumer; a batch is retried whole after parts of it went
out; `export` forgets the packet before it knows what becomes of it; a
transaction may wait across pushes and packets for its root span; its timeout
is looked at only when some push comes; errors leave the loop over the
applications at different places; a server may never answer. What makes each
part correct:

* traces push: transactions go to their own application; nothing converted is
  lost, nothing is delivered twice, packets are numbered in order, identifiers
  resolve in the packet that carries them, pushes end, waiting ones leave by
  timeout, the process survives every batch;
* conversion: totals, extremes, window, status and errors of a transaction say
  what its spans say, whatever the order in which these arrive;
* answers: a batch is retried exactly when the protocol says so;
* maps and slices: a map keeps one value for a key, an element belongs to one
  place of one slice, shared data is not changed, a copy equals its source;
* messages: the size announced is the size written, what was marshalled is read
  back whatever an honest sender of another version makes of the form, damage is
  refused, reading ends, deprecated fields are kept.

`PROJECT.json` lists the components, and the hazards each at its line with the
properties that cover it.

## 2. Plan

1. Traces push with one consumer, the abstract `Delivery` it implements,
   conversion, their runs and proofs: `NudgeSpan`, `NudgeExporter`, `Delivery`,
   `NudgeTransaction`. Done.
2. Several consumers that share one `NudgeExporter`: `NudgeConcurrent`. Done:
   not even the numbers of packets survive a second consumer.
3. Answers of the server, which give step 1 its outcomes: `NudgeAnswer`. Done.
4. Maps and slices of pdata, the abstract `PdataContract` they implement, their
   proofs: `PdataMap`, `PdataSlices`. Done.
5. Messages of pdata: `WireFormat`, `Codec` and the tables of the messages.
   Done.
6. The condition on the batches under which the push keeps the promises it
   does not keep in general, and its proof: `CompleteBatches`,
   `NudgeTrafficProofs`. Done.
7. That what was marshalled is read back, in both encodings, proved for the
   tables of any messages: `CodecReadProofs`. Done.
8. Open: map, array and bytes values of a `Map`, which are behind a pointer of
   their own.

Not planned: generators, text formatting, release configuration, packaging.

## 3. Modules

### NudgeSpan

No variables. A span is a record of the facts the conversion branches on: which
families of attributes it has, kind, root or not, status, `http.status_code`,
exceptions, user agent, times. An attribute that is there with an empty or zero
value is not the same as one that is missing (`Nil`): an empty application id
(`NoApp`) overwrites the one the transaction had, and status Ok with the code 0
is a failed call. `holes` is what it lacks that the code reads
unchecked; `ConversionPanics` says which of these holes end the process.

| definition | code |
|---|---|
| `IsEntry`, `IsHttpCall`, `IsSqlCall` | the three branches, nudge.go:976, 1351, 1474 |
| `HttpFails`, `SqlFails`, `ErrorsOf` | 1124-1196, 1409, 1506 |
| `SpanApp` | 927-946 |
| `EndsTrace` | 1331-1338, 1352-1360, 1475-1480 |
| `StartAfter`, `InstrumentAfter` | 1064-1072, 1311-1329 |

The root test inside the HTTP call branch (1352) is never true, because a root
span with an http attribute is an entry span; `EndsTrace` keeps the disjunct, as
the code keeps the test. The second comparison of an entry span with 400 reads a
key that `SemanticAttributesX` does not have (`SemanticAttributesNEW.go`), so
an entry span reports exception events only.

### NudgeExporter

The traces pipeline with one queue consumer.

| variable | code |
|---|---|
| `queue`, `pc`, `batch`, `pos`, `retries` | the consumer, where it is in `pushTraces`, the retry sender |
| `transactions` | `NudgeExporter.Transactions`, by uuid |
| `rawdata`, `cmpt` | `NudgeExporter.Rawdata`, `Cmpt` |
| `pending`, `app`, `sent`, `request`, `counter`, `err` | the locals of the loop over the applications |
| `metrics` | `metricsInterne.NCmpt_Traces` |
| `posted`, `done`, `panicked` | history: requests made, batches acknowledged, the panic that ended the process |

| action | code |
|---|---|
| `PushTraces(b)` | pushTraces is called with a batch; `CreateRawdata` when there is no packet (394-400) |
| `ConvertSpan` | one turn of the conversion loop: find or add the transaction, fold the span (882-) |
| `CollectApplications` | `application_ids` (406-415) |
| `SendTransactions(a)` | 2494-2552 |
| `MarshalAndCount` | encoding and counters (416-469) |
| `Export` | the first half of `export` (2027-2052) |
| `HttpResponse(o)` | what comes back from `client.Do` (2054-) |
| `Return`, `Retry`, `GiveUp` | the end of `pushTraces`, and the retry sender, external |
| `Tick` | the clock |

The code walks applications in the order of the buffer, the model in any order.
A span stands for its data: a transaction keeps the sequence of spans folded
into it, `found` counts `ErrorsX` and `errors` counts `Errors`. The user agent
dictionary is a sequence, whose identifiers count from 0 as in the code. What
`export` returns is reduced to five outcomes: `ok`, `unreadable` (2xx, body
cannot be read), `lost` (no answer, whether or not the server took the packet),
`retryable`, `permanent`. `posted` records for each request the application it
was made for, the application whose URL it went to, and whether the server took
it.

### Delivery

What the traces push promises for spans, without transactions, packets and
retries: a span that was taken is held until a request carries it (`Post`), and
only the spans of `Droppable` may be given up (`Drop`). `NudgeExporter`
implements it under the mapping at `Promise`: taken are the spans of the batches
converted so far, held are those of the buffer, the packet and the request,
tried are those of all requests made, whatever became of them; droppable are
the spans of a trace some span of which has an application whose URL
`http.NewRequest` refuses. `Delivery` does not say that a request succeeds:
that is `NothingLost`.

### NudgeTransaction

The fold of the spans of one trace in arrival order: window, status, errors,
correlation counter, the HTTP and SQL layers with their details. `spans` keeps
what was folded, and the properties compare running values with it. Both
modules use the definitions of `NudgeSpan`; `NudgeExporter` leaves out what does
not steer a transaction, `NudgeTransaction` what has to do with other
transactions.

### NudgeAnswer

`Answer` is what comes back from `client.Do`: status code, how much of the body
can be read, what its Content-Type claims and whether that is true. `Outcome`
is the class of what `export` returns for it (2079-2127): 2xx with a body that
cannot be read or parsed is an error without a class, which the retry sender
retries; 429, 502, 503 and 504 are retryable; all else is permanent. The runs of
`NudgeExporter` take their outcomes from it, by `CleanOutcome` and `AnyOutcome`
of `MCNudgeExporter`, to which they add the request that gets no answer.

### NudgeConcurrent

`pushTraces` once more, for several consumers with one set of shared fields
(`rawdata`, `transactions`, `transaction`, `cmpt`) and locals of their own. A
transaction is an address, because the field `Transaction`, the buffer and the
packet point to the same one. A step ends where a consumer goes back to a shared
field after other work: `PushTraces` / `CreateRawdata` (398), `FindTransaction` /
`FoldSpan` (901), `SendTransactions`, `Marshal`, `Count`, `Export` (2029). What
two simultaneous writes of one slice, or the reading of `len` and of the array
at different moments, may lose is left out, and so are time, retries and
answers: every behaviour of the module is one of the program, and the program
has more.

### PdataMap, PdataSlices, PdataContract, Selections

`PdataMap` has the methods of a `pcommon.Map` as operators on the sequence of
its entries. `PdataSlices` is the generated slice of pointers, of which there
are twenty: `generated_spanslice.go` stands for them.

| variable | code |
|---|---|
| `back[s]` | the array under `*es.orig`, spare entries included; `Nil` is 0 |
| `len[s]` | `len(*es.orig)` |
| `cell` | the heap: the attributes of each element |
| `readOnly` | slices whose `State` is `StateReadOnly` |
| `state` | `running`; `panicked` after a panic; `broken` after a copy that wrote two elements to one place |

Each method is an action. `AssertMutable` is the panic of any writing method on
shared data, and the others have its success as their guard (`Writable`).
`RemoveIf` and `Sort` take a function in the code; here they ask for a key,
which is what tells elements apart. `CopyTo` has the three ways of the code: a
new array, the array that is there, and the nil pointer in the array that is
there. `append` is modelled by what it does: it fills spare entries, or
allocates an array of double the length, rounded up to a size the allocator has
(`Grown`). Go makes no promise of that size, and no property is about it.
`AsRaw` takes the last of several entries with a key, `Get` the first. Elements nothing points to
are empty again (`Collected`), so that their names can be used anew.

`PdataContract` says the same without arrays, pointers and memory: each slice is
a sequence of functions from keys to values. Its steps are what the methods do;
it relates states, not calls, so a step that changes nothing may have any name.
`fresh` are slices without an array. `Unsafe` is the one copy the contract gives
up on: to a slice that is shorter than the source and has had elements before.
`Selections` has the filter and the stable sort both modules use.

### WireFormat, Codec, the tables

Each message of the protocol is, in the generated code, a struct and six
functions that go through its fields. `TraceWire`, `MetricsWire`, `LogsWire`,
`ProfilesWire`, `CommonWire` and `CollectorWire` have one table for each of
these, with a row per field and the tags, wire types and names that stand in
the code:

| table | code |
|---|---|
| `Span` | the struct and its tags, trace.pb.go |
| `Span_Unmarshal` | the cases of the switch of `Unmarshal` |
| `Span_MarshalToSizedBuffer`, `Span_Size` | the blocks of these, in their order |
| `Span_unmarshalJsoniter` | the cases of the reader in `json.go` |
| `Span_CopyTo` | the calls of `CopyTo` of the wrapper, with the getter and setter each composes |

`WireFormat` says what a row means: `Set`, `Merge`, `Add`, `Pack`, `Choose` are
the five ways a case of `Unmarshal` stores, `Put*` and `Add*` the ways of
writing and of counting, `ReadOne`, `ReadEach`, `ReadArm` those of the JSON
readers, `Copy` and `CopyIf` those of `CopyTo`. Writers, readers and sizes are
independent tables because they are independent code: nothing in the model makes
them agree. A message on the wire is a sequence of items (number, wire type,
payload, length); the number of bytes of each is computed as `sov` and the tag
constants do. A value is a small number, an embedded message a sequence of
numbers: the interior of a message is another message of the tables.

`Codec` is the state machine: a message is built (`SetField`), marshalled to
protobuf or JSON or copied to a destination that is new or full
(`ChooseDestination`, `CopyMessage`), changed by a sender of another version or damaged by
the transport (`Transport`), read item by item (`ReadItem`, `ReadMember`,
`EndOfInput`), and delivered by one of the callers of `Unmarshal`, of which some
migrate deprecated fields (`Deliver`). A copy takes an embedded message as a
whole; what its own `CopyTo` leaves in a destination that is reused is said once,
by the table of that message. `MCCodec` puts the 57 messages together.

`MCNudgeExporter`, `MCNudgeTransaction`, `MCNudgeConcurrent`, `MCPdataSlices` and
`MCCodec` hold the instances of the runs, the modules named `...Proofs`
the proofs, and `Sums` what these need to know of sums.

## 4. Runs

| run | checks | what it shows |
|---|---|---|
| OneApp | TypeOK, PacketIdsIncrease, NothingLost, DeliveredOnce, ErrorsReportedOnce, AgentsResolve, MetricsMatchRequests, NoPanic | one application, nothing waits, retries: the push keeps its promises |
| TwoApps | Routing, KeptUntilTimeout, PushReturns, DeliversSpans | two applications, one with a bad URL, waiting, all outcomes |
| TraceFold | TypeOK, LayerTotals, LayerExtremes, StatusExplained, KoReportsError, ArrivalOrderIrrelevant | the sums of a transaction over all traces of three spans |
| Slices | TypeOK, NoAliases, OneValuePerKey, SharedDataUntouched, KeepsContract | two slices under every sequence of calls |
| Wire | TypeOK, SizeMatches, RoundTrip, DamageRejected, HonestAccepted, DeprecatedKept, JsonRoundTrip, CopyOverrides, NothingInvented, DecodingEnds | every message, every pair of fields, what a sender or the transport may do to it |
| TwoConsumers | PacketIdsDistinct, violated | two packets with one number |
| MixedBatch | NoPanic, violated | nil packet for the second application of a push |
| StaleAgent | AgentsResolve, violated | user agent of a dictionary that is gone |
| QuietTraffic | TimeoutSends, violated | no push, no timeout |
| SilentServer | PushReturns, violated | no answer, no end |
| GraphqlCalls | CountMatchesCalls, violated | one GraphQL call, two details |
| AcceptedCall | SuccessIsNoError, violated | 202 with status Ok counts as an error |

The violated properties are quoted from a comment, a document or a shipped
configuration of the repository; `PROJECT.json` "findings" has the quotations.

### What the passing runs do not say

* **OneApp** does not wait for root spans and has one application. Both matter:
  with two applications complete in one push, or a first push whose
  transactions all wait (`tsNudge[0]`, nudge.go:450), the process panics; with
  waiting, agents become stale, and `SendTransactions` copies `ErrorsX` into
  `Errors` at every scan (2506-2509), so a waiting transaction reports its
  errors more than once. `ErrorsReportedOnce`, `AgentsResolve` and `NoPanic`
  are properties of traffic whose batches complete their traces; section 5 says
  under which condition each is proved.
* `DeliveredOnce` is checked with the outcomes `ok`, `retryable`, `permanent`. A
  lost or unreadable answer makes the retry sender send again what the server
  took: at-least-once delivery.
* `DeliversSpans` exempts traces of an application whose URL `http.NewRequest`
  refuses: `export` forgets the packet first (2029), and they are lost.
* `KeptUntilTimeout` exempts transactions without a start time. `GetStartTime`
  gives 0 for these, so they are older than any timeout and leave with the next
  push, although nudge.go:2492 says they stay.
* `MetricsMatchRequests` states what the counters do: the first request of an
  application is in none of `ntraces`, `success` and `error`, because the
  counter is created with the request and `metricInterne` stays nil; `value`
  counts that packet all the same.
* `LayerExtremes` says `Min` is a lower bound. It starts from 0 and is the
  least time only if some time is negative or 0.
* The default configuration has no encoding (`factory.go`, createDefaultConfig),
  although README.md:42 of the exporter documents `proto`: every push then ends
  in the error "invalid encoding". The runs set `proto`.

* **Slices**: `CopyTo` "copies all elements from the current slice overriding the
  destination" (generated_spanslice.go:141). To a slice with spare entries it
  does not: an entry that was never used is nil, and the copy panics; one that
  `RemoveIf` left behind may point to an element that is still there, and two
  elements are written to one place. A caller can tell by the lengths only, so
  the contract excludes each copy to a shorter slice that has been in use. The
  same is true of a `Map` whose values are maps, arrays or bytes
  (`Map.Remove`, then `Map.CopyTo` to it); the module does not have these.
* **Wire**: `JsonRoundTrip` exempts the fields of `MCJsonForgets`, which the
  readers lose: `EventName` of a log record and `ZeroThreshold` of an exponential
  histogram point have no case, `OriginalPayload` of a profile is read as text
  although it is written in base64, the deprecated fields have no case.
  "CopyTo copies all properties from the current struct overriding the
  destination" (generated_histogramdatapoint.go:182, and so the other messages),
  but an optional field or an arm of a oneof that the source has not set is
  skipped (193-203), and a deprecated field is not copied at all. `CopyOverrides`
  says what does happen: such a field keeps exactly the value the destination
  had, which is not what the comment promises, and every other field, the set
  arms included, gets the value of the source. Only `AnyValue` has a oneof that is
  copied absent or not (value.go:359-361, `MCCopiedWhole`). `DeprecatedKept` is about
  the ways of receiving that call the migration; the `ProtoUnmarshaler` of the
  three packages (ptrace/pb.go:39, pmetric/pb.go:55, plog/pb.go:41) and
  `pmetricotlp.ExportRequest.UnmarshalProto` (request.go:48) do not, although
  internal/otlp/traces.go:11 says that every unmarshaler must.
* **TwoConsumers**: one more run of `NudgeConcurrent` would show panics
  (`SendTransactions` on a packet another consumer has just forgotten), but no
  line of the repository promises that there are none.

### Bounds

`MCNudgeExporter`: three traces, two applications, two user agents, three or
four batches of one to three spans, each taken once in any order.
One or two retries: the second retry of OneApp meets a packet that was created
by the first. The clock runs for three values, enough for a transaction to be
younger than, as old as and older than the timeout of 1. Each hazard needs at
most two pushes, two packets and two applications, so a further trace or batch
adds no new kind of step. The batches of OneApp are the traffic the theorems of
`NudgeTrafficProofs` assume: the assumption `OneAppTraffic` of `MCNudgeExporter`
has TLC evaluate the hypotheses, and so shows that they can be met. `MCNudgeTransaction`: ten kinds of span, one or more
of each branch, failing and not, one ending before it starts; traces of at most
`MaxSpans = 3`: two spans that interact and one that comes between them.
`CHECK_DEADLOCK FALSE` is set because the collector really stops: batches are
used up, and a panic ends the process. No symmetry is used there.

`MCNudgeConcurrent`: two consumers, one batch of one complete trace each, one
application. Two is what it takes, and the counterexample is found within these.

`MCPdataSlices`: two slices, three elements in memory, two keys, one value,
arrays of up to two entries by `EnsureCapacity` (`append` may allocate four).
Two elements in one slice and one in another are what an alias, a removal in
front of another element and a copy to a longer or shorter slice take. One value
is enough because only keys decide where a value goes; a value of another key
would show. Slices and keys are interchangeable, so symmetry is sound; the
properties are safety properties. The program stops only by a panic.

`MCCodec`: all messages; up to `MaxFields = 2` fields set, which is every pair
of fields that could disturb each other, each with values of one and two bytes
and negative ones where the encoding depends on it; reordering with both,
the other changes with at most `MaxFaulty = 1` field set, since they
concern one item, one change to a message. A message that was delivered, copied
or refused is done.

### Fairness

`Fairness` asks that the consumer runs (`WF` of `PushStep`) and time passes.
Goroutines are scheduled and the retry sender wakes up after its back-off.
Nothing asks that a batch is pushed: receivers may be silent. `ServerAnswers`,
which `PushReturns` needs in TwoApps, is an assumption about the server and the
transport, and run SilentServer is the same property without it: the code has
no timeout of its own there.

`Codec` asks that a decoder that has begun goes on (`WF` of its three steps): it
is a loop without waiting. Nothing asks that a message is built or sent.

## 5. Proofs

For every value of the constants under `SpanAssumption`, `ExporterAssumption`,
`NilAssumption` and `TransactionAssumption` (identifiers are distinct from Nil,
batches are sequences of spans, times are naturals):

* `NudgeExporterProofs!TypeCorrect`: `Spec => []TypeOK`. `TypeOK` is inductive as
  it stands, with four parts (control, buffer, packet, history) and one lemma
  per action; it includes that a packet exists whenever a push converts,
  marshals or exports.
* `RoutingCorrect`: `Spec => []Routing`. `Routing` alone is not inductive: it
  says nothing of the packet that is being filled. `PacketInv` adds that the
  packet is empty between the turns of the loop, holds exactly what was sent
  for the application of the turn while it is marshalled, and that this
  belongs to that application. With an encoding that is neither proto nor json
  the packet does keep leftovers, but then nothing is ever posted: the
  invariant splits on `Encodable`.
* `PacketIdsCorrect`: `Spec => []PacketIdsIncrease`, by `IdInv`: the counter is
  not below the ids posted, strictly above them while there is a packet, and
  the request being sent carries the counter's value. This is what makes the
  pointer `Id = &Cmpt` harmless with one consumer.
* `NudgeConcurrentProofs!OneConsumerNumbers`: the other side of run TwoConsumers.
  Where `Consumers` has one element, and Nil is not a set of addresses,
  `Spec => []PacketIdsDistinct`. Its invariant is the one two consumers break: a
  packet that exists has a number no request has, and from its marshalling to its
  request it exists and keeps that number.
* `TimeoutKept`: `Spec => []KeptUntilTimeout`, by `SentInv`: what
  `SendTransactions` moved without a root span was overdue at that moment, the
  clock only moves on, and by `PacketInv` a request carries just that.
* `DeliveryCorrect`: `Spec => DeliversSpans`, the refinement
  of `Delivery`, with one lemma per kind of step. `ConvertSpan` is a `Take`, an
  answer is a `Post`, an export with a refused URL is a `Drop`, the rest
  stutters. `DeliveryInv` is needed because of what a step must know: a
  transaction's spans have its trace and its application is that of one of them
  (so a `Drop` loses only droppable spans), no transaction is marked to be
  discarded (so `SendTransactions` removes from the buffer exactly what it
  moves), and the request is a copy of the packet at export and the only copy
  when the answer comes. `PacketInv` says whose transactions the packet holds.
  `SpansAccounted` is the invariant of `Delivery`, carried over.
* `MetricsCorrect`: `Spec => []MetricsMatchRequests`, where the encoding is proto
  or json. `value` counts transactions, so the property has a sum over all
  requests of an application. `CountInv` says what the counters are at each
  point between `MarshalAndCount` and the answer (`Counted`), because `value`
  runs ahead of the requests and `ntraces` behind; `FiniteInv` that the packets
  are finite, without which their sizes are no numbers.
* `NudgeTrafficProofs`: five properties do not hold for all batches (see "What
  the passing runs do not say"), and run OneApp shows them for some. The theorems
  say for which: those of `CompleteBatches`, where each batch completes the traces
  it brings. It has a span that ends the trace, or the trace never names an
  application. So it is without waitEndService when each batch has an entry span
  for its traces, and with waitEndService behind a processor that groups spans by
  trace. The encoding is proto or json throughout.
  - `LossCorrect` (`NothingLost`): for any applications and any outcomes.
  - `AgentsCorrect` (`AgentsResolve`) and `ErrorsCorrect` (`ErrorsReportedOnce`),
    likewise.
  - `OnceCorrect` (`DeliveredOnce`): if, besides, no span is handed over twice
    (`SpansDistinct`) and every request is answered with a code, a 2xx with a
    readable body (`DefiniteOutcomes`).
  - `NoPanicCorrect` (`NoPanic`): if, besides, the spans name one application at
    most (`OneApplication`) and have what the conversion reads unchecked
    (`WholeSpans`). Run MixedBatch shows that the former cannot be dropped.

  All rest on `CompleteInv`: when the conversion is over, every transaction of an
  application is marked to be sent and its application is in the list, so that
  between pushes the buffer holds anonymous transactions only. From it follows
  what each theorem adds: a span of the batch is with the server, in the buffer,
  or in the packet of the turn (`LossInv`); the packet that is open when a
  transaction leaves is the one that was open when it began (`AgentsInv`); a
  transaction is scanned once (`ErrorsInv`); a batch that may still be posted was
  not accepted, since an accepted request leaves a push nothing to do but return
  (`NotYet`, `FromThisBatch`); the loop has one turn, on a packet that is there
  (`TurnInv`).
* `NudgeTransactionProofs!TypeCorrect` and `KoCorrect`
  (`Spec => []KoReportsError`, inductive with `TypeOK`; the lemma `SpanErrors`
  says that what a span adds to the layers it adds to the transaction).
  `ExtremesCorrect` and `StatusCorrect` (`LayerExtremes`, `StatusExplained`) are
  inductive with `TypeOK` as well; the status needs a case each for a span that
  resets it, spoils it, or leaves it.
* `TotalsCorrect`: `Spec => []LayerTotals`, for traces of any length. `Totals` has
  the sums in the form of `Sums`, where adding a span adds a term.
* `OrderCorrect`: `Spec => []ArrivalOrderIrrelevant`. The property folds the spans
  in every order. The proof folds every set of places (`IsFolds`) and shows that
  the results are alike whichever span of a set comes last: two spans may be
  exchanged, because what they change is a sum, a greatest, a least, or a mark.
  `Ordered` says that the transaction is alike to the fold of all places, and an
  order of the spans is a way through the sets. The status is not in it, nor could
  it be (nudge.go:1202).

For every value of the constants under the assumptions of `PdataSlices` (the
bounds are naturals) and of `Codec`. The latter are bounds, and what two functions
of a message, written or generated separately, have to agree on. TLC evaluates
each on the tables of the 57 messages in run Wire:

| assumption | what the tables have to agree on |
|---|---|
| `FormatAssumption` | a case of `Unmarshal` has the number the struct declares for the field it fills |
| `WritesAssumption` | each block of `MarshalToSizedBuffer` is for a field of the struct, in a way of its declaration |
| `SizesAssumption` | for each of these blocks there is one of `Size` that counts the same |
| `ReadsAssumption` | no number has two cases; each field, or arm of a oneof, is declared once and written by one block, and the case with its tag undoes what it does; none is for number 2047, which stands for a field of a newer sender |
| `JsonAssumption` | of the readers that exist, no name has two cases, and both names of a field have one that reads its type, unless the field is in `JsonForgets` |
| `MigrationAssumption` | a field and its deprecated form are two lists or embedded messages |
| `CopiesAssumption` | `CopyTo` copies every field to itself: a plain one whatever it holds, each arm of an optional field or a oneof if the source has it (or all of it, in `CopiedWhole`), a deprecated one not at all |

The theorems:

* `PdataSlicesProofs!PutStrOverrides`, `RemoveDrops`: on a map with distinct keys,
  `PutStr` and `Remove` keep the keys distinct and are override and removal on
  the function the map stands for. What makes `Remove` worth a proof is that it
  moves the last entry into the hole, which may be the last entry itself.
* `PdataSlicesProofs!ElementsOwned`: `Spec => []NoAliases`. `NoAliases` says
  nothing of the spare entries, which `AppendEmpty`, `MoveAndAppendTo` and
  `CopyTo` turn into elements, so it is not inductive. `Memory` is: arrays have
  their type, no two arrays share a pointer, spare entries included
  (`Ownership`), and memory nothing points to is empty (`Clean`). One array may
  hold a pointer twice, behind its end: that is what `RemoveIf` leaves, and what
  `CopyTo` breaks on. `KeysUnique` follows from the type of the cells in the
  same invariant, `SharedStays` (`Spec => SharedDataUntouched`) from ownership: each
  action writes to the elements of slices it has asserted to be mutable.
  `TypeCorrect` (`Spec => []TypeOK`) adds that the arrays keep their type also
  after an inexact copy and a panic, where `Memory` is lost.
* `PdataSlicesProofs!ContractKept`: `Spec => KeepsContract`, the refinement of
  `PdataContract`. With `Memory`, each action is shown to do its abstract step
  (one lemma `...Keeps` for each); `WrongWhereAllowed` shows that a copy to a
  fresh slice, or to one that is as long as the source, never meets a nil or a
  pointer twice. The map lemmas carry the steps on attributes.
* `CodecProofs!NoFieldInvented`: `Spec => []NothingInvented`. The invariant
  `Fills` adds to the property that a decoder starts with an empty message at the
  first item, and that it never adds a field the message does not declare.

* `CodecProofs!TypeCorrect`: `Spec => []TypeOK`. `Typed` adds that each field has
  a value of the kind one of its declarations asks for, and that what is on the
  wire before anything happens to it is a sequence of items, or of members.
* `SizeCorrect`: `Spec => []SizeMatches`, for messages with any number of fields
  set to the values of `Samples`; the lemma it rests on also has lists of any
  length. `SizesAssumption` is what two
  functions written separately have to agree on: for each row of
  `MarshalToSizedBuffer` one of `Size` under the same condition, that counts the
  tag in its number of bytes and the value in its encoding. The proof shows that
  this is enough: row by row, `Size` counts what `Marshal` writes (`Sov`, packed
  lists, lists of messages), and a sum does not depend on the order of its terms,
  since the arms of a oneof stand in another order (`Sums!SumsPermute`).
* `DamageCorrect`: `Spec => []DamageRejected`. `Ahead` says that after a cut or
  other damage the item that will be refused is one of those not yet read, so
  that the decoder meets it before it can end.
* `CopyCorrect`: `Spec => CopyOverrides`, a property of the steps `CopyMessage`: what
  a field of the destination is afterwards, for whatever it was before. It follows
  from `CopiesAssumption` (which field has which rows), the kind of the values in
  `Typed` (a oneof holds one of its arms, so one row at most applies) and
  `HasCopy` (only a message with a `CopyTo` is copied).

* `CodecReadProofs!RoundTripCorrect` (`Spec => []RoundTrip`), `JsonCorrect`
  (`JsonRoundTrip`), `AcceptedCorrect` (`HonestAccepted`) and `DeprecatedCorrect`
  (`DeprecatedKept`): reading gives back what was written, for any tables, any
  number of fields set, and whichever one change a sender of another version
  makes. None of these properties is inductive: they speak of the end of
  reading, and what matters is still on the wire. `ReadBack` says so for every
  step: the items still ahead are accepted, and would make of what each field
  holds now the value the sender had in it (`AheadYields`); once none is ahead,
  that is `RoundTrip`. `DeprecatedKept` follows because what is migrated is the
  message that was sent.

  The proof follows one field (`FieldReader`), because a decoder fills fields
  independently. `Read` folds the items of a wire into the value of a field;
  lemmas say what it does to a concatenation (`ReadConcat`), to items that do not
  concern the field (`ReadSkips`) and to those that append to it (`ReadAppends`).
  Then, in this order:
  - what a block of `MarshalToSizedBuffer` writes, the case of its number turns
    back into the value (`BlockReads`, from `DecodeEncode`: varints, zigzag,
    fixed, lists, packed lists, arms, embedded messages), and no other block
    concerns the field (`OneRowWrites`, `BlockNoneFor`). So the whole wire yields
    the message (`MarshalHonest`); `JsonHonest` is the same for the members of a
    JSON object, under both sets of names;
  - each change of form keeps what the wire yields: `UnknownKeeps`,
    `ReorderedKeeps` (two neighbours of different numbers concern different
    fields, or are arms of one oneof, of which only one is written: `Lone`),
    `UnpackedKeeps`, `PartsKeep`, `TwiceKeeps`. `PatchedYields` is what they have
    in common: a piece of the wire is replaced by one that does the same to
    each field;
  - one turn of the loop is one step of the fold (`FillsField`, `ReadHead`).

  `JsonForgets` is a constant, so `JsonCorrect` is not about those fields; a field
  that is missing from it without a case in the reader breaks `JsonAssumption`,
  and run Wire with it.

`Sums` has what the proofs need of sums and of induction. The induction theorems
of the library take an operator as parameter, which the provers cannot
instantiate; `Induction` says of a *set* that contains 0 and with each number
its successor that it is `Nat`, which follows from the well-foundedness of finite
sets under inclusion, and a step of a proof defines the set it wants. `LayerTotals`,
`ArrivalOrderIrrelevant`, `MetricsMatchRequests`, `Total`, `FlattenSeq` and `Read`
are therefore recursive functions, of which `RecursiveSums` and its like show
that they exist.

The invariants were checked with TLC before they were proved, on the instances
of the runs, except those TLC cannot evaluate: they have sums over all naturals
(`CountInv`, `Totals`), functions of all sets of places (`Ordered`), or say that a
value is a sequence over some set (`Typed`).

In `ReadBack`, the wire is a sequence over some set of honest items (`Honest`); TLC
checked it on the instance of run Wire with every item honest in place of that.

Only model-checked are the liveness properties: `PushReturns` and `DecodingEnds`,
with those the violation runs refute. They rest on fairness and on what is
enabled, which is out of the prover's reach. Every invariant and action property
of a passing run is proved.

## 6. Not modelled

* Several consumers: the outcomes of a race on a Go slice or map, and on the
  counters of the debug page. They are those of the memory model of the
  language; `NudgeConcurrent` stops at the order of steps.
* The conversion: headers, extended codes, SQL text and messages of a
  transaction (data no property tells apart).
* The file written by `recordCollecte`; resource information; the debug page.
* The push of the other signals: the conversions are empty, the rest is `export`
  with an empty buffer.
* Text in pdata: the characters of numbers and strings in JSON, base64, the
  parser itself (jsoniter) and the writer (jsonpb), which are libraries; what a
  field's text stands for is modelled. `rawdata.pb.go` is encoded by reflection
  in the protobuf library: no code of its own to translate.
* Map, array and bytes values of a `Map`, slices of primitive values.
* Generators, goreleaser configuration, manifests, scripts, installers: pure
  functions and data without state, for the reasons `PROJECT.json` gives.
