# A verification project for zizq-rust

This directory holds TLA+ specifications of the Rust client of the Zizq job
queue (`zizq/src`), the TLC configurations that check them on small instances,
and proofs of their main properties that TLAPS checks for every value of the
constants. Line numbers refer to the sources in this repository; a file named
without its directory is in `zizq/src`.

The crate is a client: the server that stores the jobs is not part of the
repository. The server, the network and user code (the jobs' handlers) are
modelled as *external*, each as nondeterministic as the client's use of it
leaves it. `PROJECT.json` maps each definition to the lines it models, and
marks the external ones.

- [The system](#the-system)
- [The modules and the code](#the-modules-and-the-code)
- [The runs](#the-runs)
- [Fairness](#fairness)
- [The proofs](#the-proofs)
- [Where code and documentation disagree](#where-code-and-documentation-disagree)
- [What is not modelled](#what-is-not-modelled)
- [Plan](#plan)

## The system

### Inventory

| component | source | state it keeps | operations | what makes it correct |
|---|---|---|---|---|
| Worker | `worker.rs` 239-402, 605-707 | a take stream, a `JoinSet` of handler tasks, an mpsc channel of finished job ids, the ack processor's batch, the backoffs | connect, pull, spawn, reap, ack in bulk, report a failure, retry, reconnect, drain, give up at the deadline | no verdict is lost or invented, the limits hold, `run()` returns |
| WorkerBuilder | `worker.rs` 433-600 | optional client, handler and prefetch, concurrency | setters in any order, `build` | a worker that was built can run, and has the sizes its caller asked for |
| Client transport | `client.rs` | base URL, wire format, an HTTP client | send, read, check the status, decode | every answer becomes the right result or error |
| Error classification | `error.rs` | none | `is_client_error`, `is_server_error`, `is_transport`, `is_retryable` | no loop takes a permanent error for a transient one, or the reverse |
| Take stream | `take.rs` | a byte buffer, a decoder, `finished` | `poll_next`, two framings, `finalize` | independent of how the network cuts the bytes |
| Paginated streams | `list_jobs.rs`, `list_errors.rs` | a cursor, one page of records | `poll_next`, fetch the next page | complete and in order while the server's data changes |
| Job filters, bulk operations | `job_filter.rs`, `range_filter.rs`, `count_jobs.rs`, `delete_jobs.rs`, `patch_jobs.rs`, `budget_jobs.rs` | optional lists and ranges | setters, count, delete, patch, bind or unbind a budget | exactly the jobs that were named are affected |
| Job patches | `job_patch.rs` | a keep / clear / set field for each attribute | setters, serialisation | what was not touched stays as it is |
| Payload paths and hash keys | `hashable.rs`, `jq_path.rs`, `unique_key.rs` | none | remove or pick paths, canonical form, hash | two payloads share a key exactly if they agree where they should |
| Enqueue builders | `enqueue.rs`, `bulk_enqueue.rs`, `job.rs`, `batch.rs` | optional overrides | setters, `into_request`, `push` | an override wins, else the `JobKind`'s default |
| Router | `router.rs` | a map from job type to handler | `route`, `handle` | a job reaches the handler of its type, and anything else is an `Err` |
| Failure reports | `failure.rs` | an error's fields | setters, send | the job is retried, delayed or killed as the last call about it said |
| Cron schedules | `cron.rs` | a schedule and its entries | create, replace, pause, resume, delete | a tick enqueues what the entry's builder meant; what was not set is left as it is |
| Budgets | `budget.rs` | a strategy or a patch of one | setters, bind, unbind, wire forms | an update changes what its setters said, a binding the budget it names |
| Resources, formats, timestamps, jq expressions, crate surface | `resources.rs`, `format.rs`, `timestamp.rs`, `jq_expr.rs`, `lib.rs` | none | conversions | what is read back is what was written |
| Derive macro | `zizq-derive/src` | none | parse attributes, emit `JobKind` impls | every attribute has its effect, in any order, or the struct does not compile |

### How the parts interact

`Worker::run` is where everything meets. It is one future that the caller
polls, and it starts other tasks on the runtime:

```
                        shutdown future
                              |
 server --/jobs/take--> dispatch_loop --spawn--> handle_job (one task per job,
    ^                     | sessions,              in the JoinSet `inflight`)
    |                     | backoff                 | Ok: id         | Err
    |                     v                         v                v
    |                   drain, with deadline    mpsc channel   report_failure,
    |                                           (prefetch * 2)  with backoff
    |                                               v                |
    +------ /jobs/success, in bulk, with backoff -- ack_processor    |
    +------ /jobs/{id}/failure --------------------------------------+
```

- `dispatch_loop` opens a take stream (`Client::take`, decoded by `TakeStream`)
  and runs `dispatch_session` on it until the stream ends, then sleeps and
  connects again. The `JoinSet` outlives the session, so tasks of several
  connections can be alive at once.
- The handler's verdict decides the way back: an id in the channel, or a failure
  report sent by the task itself. Both are retried until the server answers;
  what counts as an answer is `client.rs`'s and `error.rs`'s business.
- `run` closes the stream only after the acks have landed, because the server
  gives the jobs of a closed connection to another worker.

### What is hard about it

- *Interleaving.* The dispatch loop, each handler task, the ack processor, the
  server and the shutdown future take steps in any order. A job can be delivered
  again, even to the same worker, while a task of its earlier delivery still
  runs; the requests name jobs, not leases.
- *Delivery.* A request, or only its answer, may be lost, and a request whose
  caller has given up may arrive long after. Retries therefore meet jobs that are
  settled, or leased anew.
- *Order at the end.* Stop pulling, join the handlers, drop the last sender, wait
  for the ack processor, close the stream: in this order, and within a deadline
  that may interrupt it anywhere.
- *Limits.* Concurrency counts tasks of all sessions; the ack channel is bounded,
  so that handlers' tasks can block on it while they hold their slots.
- *Cuts.* The network cuts the take body anywhere; the server's data changes
  between two pages.
- *Builders.* Setters come in any order and any number; an empty list, an unset
  field and a cleared field are three things that one query string or JSON body
  must keep apart.

The hazards at their lines are in `PROJECT.json`, each with the properties that
would catch it going wrong, or a note that says why there is none (yet).

## The modules and the code

Definitions keep the names of the source. A definition whose name begins with
`M_` is a *faulty variant* of the one that follows it: what a plausible bug would
make of that code. No specification uses them. Each property is checked to be
violated when the variant listed for it in `PROJECT.json` takes the place of the
original, so that no property holds whatever the code does.

### `AtLeastOnce`: what worker and server promise

Two variables: the status of each job at the server and the verdicts handlers
have reached on it. Jobs are delivered, may come back, and are completed (failed)
only when a handler has returned `Ok` (`Err`) for them. No worker, lease, channel
or request is in sight.

### `ZizqWorker`: the worker of `worker.rs`, with its server and network

A *delivery* is one job sent once on one connection; a job that comes back is a new
delivery. `task[d]` follows delivery `d` through these phases:

```
unsent -> wire -> running --Ok---> sending ------------> finished -> reaped
            |        |---Err--> nacking -> nacked ------> finished
            v        |             ^  \      |
          lost       |             |   v     v
                     |             +- backoff
                     +---panic-----------------------> finished
```

`aborted` is where the shutdown timeout or the death of the process leaves a task.

| variable | in the code |
|---|---|
| `task` (the held phases) | the tasks in `JoinSet inflight`; a finished one holds its place until `join_next` reaps it |
| `task` (`wire`) | jobs sent but not yet yielded by the stream |
| `pc` | where `run` awaits: `connect` (`take().await`), `select` and `polled` (the biased selects of `dispatch_session`), `sleep`, `drain` (`join_next`), `flush` (`ack_processor.await`) |
| `ackq`, `batch`, `ackpc` | the mpsc channel, the ids being acknowledged and the await point of `ack_processor` |
| `shutdown`, `timedOut` | the caller's future has resolved; the deadline fired |
| `stream`, `connId` | the take stream; which connection it is |
| `status`, `lease` | the server's view |
| `stray` | requests given up on which may still arrive |
| `settled`, `rejected`, `late` | history |

The actions are the code's steps between two awaits: `ConnectOk`,
`ConnectFails`, `ConnectRefused`, `Wake` for `dispatch_loop`; `SelectShutdown`,
`Reap`, `PollStream`, `Spawn`, `SessionEnds` for `dispatch_session`; `HandlerOk`,
`HandlerErr`, `HandlerPanics`, `SendAck`, `Nack...` for `handle_job`; `Ack...` for
`ack_processor`; `DrainReap`, `DrainJoined`, `Drained`, `DrainTimesOut`,
`TaskCancelled` for the end of `run`. The server's steps (`Server...`,
`StreamCut`, `StrayArrives`) and the end of the process (`Crash`, `ProcessExits`)
are external. Details worth knowing:

- `select!` is biased: shutdown is polled first, but it may resolve after that
  poll and before the stream is polled. `PollStream` and `Spawn` are two steps for
  that reason.
- Tasks are reaped only at capacity (line 377) and in the drain.
- Dropping the drain future at the deadline detaches the ack processor: its actions
  are not guarded by `pc`.
- `abort_all` takes effect at a task's next await: a handler that was being polled
  may still reach a verdict after `run()` has returned, but no more than that
  (`TaskScheduled`).
- Every fault (a lost call, a cut, a panic, a crash, an expired lease, ...) spends
  one of `MaxFaults`, and is possible only if its kind is in `FaultKinds`.
  What a server does of itself is no fault: it takes back the jobs of a dead
  connection, and answers 4xx to a report on a job that is no longer in flight.

`ZizqWorkerInvariants` adds the inductive invariant, `MCZizqWorker` the symmetry.

### `ClientCalls` and `RetryLoops`: which answer ends which loop

`ClientCalls` translates `client.rs`'s helpers (the order in which they read the
body and look at the status included) and `error.rs`'s predicates into operators
on answers. `RetryLoops` is each of the three loops that call the server until it
answers: `dispatch_loop`, the failure report and the bulk acknowledgement, with their
real backoffs. `ZizqWorker` has only "lost", "rejected" and "answered", and no
durations; `RetryLoops` says which answers those are and how long a sleep is.

### `PageStream`: `ListJobsBuilder::stream`, `ListErrorsBuilder::stream`

The cursor is the builder's URL, a path of the server's, or done; its ghost field
`ahead` is the set of ids such a request is about. The server adds, removes and
changes records between pages, lists at most `Limit` per page, and may link to an
empty last page. The filters are unset, set, or an empty list, which the server
would read as unset. The list of errors has no such filters: it is the instance
with `filter = "none"`.

### `TakeStream`: `take.rs`

Byte for byte: both decoders, `poll_next` and `finalize`. What a record looks like is the
constant `Content`. `Send` is a frame of the server's: a job, a record that is none, a
heartbeat, or a line of blanks; with LF or CR LF in NDJSON. `ConnectionEnds` cuts the body
after any byte, cleanly or not. `SkipHeartbeat`, `YieldJob`, `YieldDecodeError`, `Feed`,
`BodyBreaks` and `BodyEnds` are the ways through the loop of `poll_next`; `Feed` takes a
chunk of any size. The reference, `AsPromised`, is about the frames that arrived whole and
about the ending, and mentions neither the buffer nor the decoder. `MCTakeStream` gives the
records.

### `WorkerBuilder`

The setters in any order and number, then `build`. Its results meet the
assumptions `ZizqWorker` makes on its constants.

### `JobFilters` and `BulkJobs`: operations on every job a filter selects

`JobFilters` is the builders' shared filter: five lists, three ranges and an
expression, each set or not, the query they become (`AppendTo`) and what a server
selects by a query (`Selects`, external). A list that was set and is empty cannot
be written in a query, hence `MatchesNothing`. The caller's instants are nanoseconds;
`ToMsEpoch` truncates them to the server's milliseconds as `timestamp.rs` does, so that a
range that begins within a millisecond takes in the jobs of all of it. `BulkJobs` is one
builder of any of the nine operations, count, list, delete, patch and the five of
`budget_jobs.rs`: its filters are set in any order and again (`FilterBy...`), and awaiting
it is one of `MissingPatch`, `ShortCircuit`, `Request` and `FailedRequest`. The last is
the `?` after `send().await`: the caller gets an error, and the server has done what was
asked for or has not. `named` records what the caller's filters mean, as sets of ids and
without a query.

What the server does to the jobs it selects (`MayChange`, `Changed`, `Blocked`, external)
is taken from what the sources and `docs/src/budgets.md:444-455` say of it: a patch leaves
jobs that have ended alone (`client.rs:1078`), a change of bindings is for queued jobs, and
those in flight that it would have changed are reported as blocked (`client.rs:920`,
`budget.rs:511`).

### `Patches`: `JobPatch`, `RetentionPatch`, `BudgetPatch`

A field is kept, cleared or set. `patch` and `nested` are the struct under
construction; a nested patch is given whole (`SetRetention`, `SetStrategy`) or
written into (`SetInStrategy`: `duration`, `burst`, `clear_burst`). `SendPatch` is
the serialisation, which skips what is kept, and the server's merge, `SendFails` the call
that ends in an error whether or not the server has merged. `meant` records the last call
about each field.

The server drops the stored period and burst of a budget that a patch makes
`while_in_flight` (`Dropped`) and refuses a patch that sets either alongside (`Refused`), as
`budget.rs:456` and `tests/budgets.rs:344` have it. That it refuses them as well for a
budget that already counts the jobs in flight, and accepts a null, is our reading. A patch
that is to be refused is within the setters' reach: `budget_patch` is the run that shows it.

### `PayloadKeys` and `BatchFolds`: which jobs are the same

`PayloadKeys` has `hashable.rs`'s and `jq_path.rs`'s functions on JSON documents, the
canonical form of `unique_key.rs` token by token, and the server that turns a job
away while another of its key is within its scope. A document is laid flat: a function
from the positions in it, each the steps that lead there, to the nodes (`IsDocument`).
The code's walks, which go down a tree one step at a time, become statements about
positions: a walk hits if its path is one (`Walk`), a removal takes the positions under
the path away and moves the elements behind it up (`MovedUp`), `set_path` opens or
finds a container at every prefix of the path and fills an array up to it with nulls.
The reference, `Agree`, compares payloads place by place and knows nothing of removal
or order. `BatchFolds` adds the
batch attribute: the key the derive emits for it, `when` and `fold` of `batch.rs`
evaluated by the server, and workers that take a batch away. jq's expressions work on the
same documents: `Entries` is what is at the path, `Fold` puts the merged list back with
`SetPath`, and null at either side adds nothing. A payload of such a kind has a list at the
path, or null, or no such field (`IsBatchable`). The two hashes are taken
to be injective, and so is the writing of a string token. `FoldKeepsEverything` is about
the jobs that were folded, `OpenBatchesDiffer` about those that were not: were the list part
of the key, no jobs with different lists would ever fold, and nothing would be lost either.

### `Endpoints`: which request each call becomes

The requests of `client.rs` that name something: method, path template, accepted
statuses, the URL on the configured base (`Url`, each segment escaped), what
a server does at that path, and `ClientCalls`' reading of its answer. A call may be
lost before or after the server acted. The reference, `AsDocumented`, says what each
call means for the object it names and mentions no path. Names may be the words of a path:
a job `success`, a group `entries`. What tells `POST /jobs/success` from a report on one
job is then only the length of the path, in `ReportsMany` and `Reports`.

### `KindDerive`: the derive macro

Attributes are fields, with fields inside, in any order and spread over any number of
`#[zizq(...)]`. `Parse` and its parts are `attrs.rs`, `Emit...` the code that `lib.rs`
generates, on the same attributes that `PayloadKeys` and `BatchFolds` have as constants.
A string that names a path is the steps that come of it, or `Malformed`. `Collect` says in
closed form what each of the loops over fields does: it fails on a field that is unknown, bad
or whose place is taken, and keeps one value for each place. The budgets are kept at the
positions of their attributes. Parentheses that are missing (`Bare`) or empty (`Nothing`)
are inputs like any other: `syn` refuses both where `parse_nested_meta` is called, so that
`key` and `key()` within `batch(...)` do not compile, while a bare `unique` is a default of
its own, and `dedup`, `sorted` and `while_in_flight` must be bare. Not among the inputs are
a literal where a group is expected and a `prefix` that is no `LitBool`.

### `EnqueueRequests`: builders, bulk requests, cron groups

`EnqueueBuilder`'s setters over a `JobKind`'s defaults and `into_request`; then one of
three ways to the server: alone, collected in a `BulkEnqueueBuilder`, or as the template
of an entry in a cron group, which `Tick` enqueues later and which can be paused,
replaced and resumed meanwhile. `said` records the setters in order, and `MeantJob`
reads the job off them.

### `Router`: from a typed payload to a typed handler

Payload types are given by their form (a unit struct, an empty tuple struct, an empty
struct, or one with data; by itself, in a newtype or in a field), because that is what
decides how the two wire formats write them. `Route` keys handlers by name; `Handle` is
`Router::handle`'s four outcomes with the failure report the worker makes of an `Err`.

### `MCClient`: the client's parts together

The parts of the client that have no tasks of their own, from `WorkerBuilder` to
`Router`, are checked in one run: `part` says which of them the program at hand uses, and
the variables of the others stay as they are. The state space is thus the sum of the
parts' and not their product.

## The runs

| run | states | what it shows |
|---|---|---|
| `worker_safety` | 2.9 M | two jobs, three deliveries, two task slots, two faults: calls lost, streams cut, reports refused, handlers that panic, leases that expire, a crash and restart. All safety properties and the refinement |
| `worker_live` | 72 k | one job, three deliveries, a prefetch of one, two faults: calls lost, streams cut, a retry by the server, a crash and restart. Every verdict is reported, every job settles, `run()` returns once told to; the inductive invariant holds |
| `worker_stop` | 175 k | `reconnect(false)`, handlers that may hang or panic, a server that may be away: the end of the stream or the shutdown ends `run()`, and not before what was done is reported |
| `worker_deadline` | | violated: see below |
| `builder_prefetch` | | violated: see below |
| `retry_loops` | 1.2 k | no retry is given up on a transient error, sleeps double from 500 ms to 30 s and start over after a connection, reports end |
| `retry_policy` | | violated: see below |
| `page_stream` | 14.5 k | nothing missed, nothing twice, nothing unwanted, in order, and the stream ends |
| `take_stream` | 240 k | up to three frames, sent while the client reads, both formats, every cut and every chunking |
| `client` | 1.2 M | the twelve properties of `MCClient`'s parts, see below |
| `budget_patch` | | violated: see below |
| `payload_except` | | violated: see below |

What `client` shows, by part:

| property | question |
|---|---|
| `FitToRun`, `ExplicitPrefetchKept` | does a built worker run, with the prefetch that was asked for? |
| `OnlyMeantJobs` | does an operation on many jobs hit the jobs meant by all its filters, and none if one is an empty list, and change, count and report as blocked those of them that it should? |
| `PatchDoesAsMeant` | does an update change what its setters touched last, nested patches included, and is it refused exactly if it asks for the impossible? |
| `DuplicatesAgree` | is a job turned away exactly if another agrees with it where the attribute says it must? |
| `FoldKeepsEverything` | does a folded job hold every entry, within the limit, and only of jobs that agree elsewhere? |
| `OpenBatchesDiffer` | is every job folded that could be: do those that still take entries differ where the attribute says that it counts? |
| `OnlyNamedObject` | does a call act on the object it names and on no other, and is its result true? |
| `AttributesHonoured` | does a struct compile exactly if its attributes are right, and does each one count? |
| `EnqueuedAsAsked` | is every job created, at once or by cron, what its builder's calls and its kind say? |
| `HandlerGetsPayload` | does the handler registered for a job get the very value that was enqueued? |

### The bounds, and why they are enough

- *Two jobs, three deliveries*: one job delivered again while its first task still
  runs, next to another job; a batch of two ids, one of which a later lease has
  overtaken. Proofs cover larger numbers for everything that is a safety property.
- *Concurrency 2, prefetch 1* in `worker_safety`: the second slot can be filled only
  by a task of another session, which is the case the capacity check must get right.
- *Faults*: two are enough for a lost answer and a lost connection, the pair behind
  every hazard in the list. Liveness needs the bound: with infinitely many faults
  nothing gets through.
- `worker_live` has one slot and a prefetch of one: the channel holds `prefetch * 2 = 2`
  ids, which three deliveries of one job fill while the ack processor waits for the network.
- `MaxDeliveries` bounds the server, not the worker; `JobsSettle` and
  `VerdictReported` are checked where the faults are too few to use it up.
- `retry_loops` uses the code's own constants; the statuses are one on each side
  of every boundary in `error.rs` and in the two status lists of `client.rs`.
- `page_stream`: three records on pages of two is the smallest listing with a full
  page, a partial one and a change between them. `Descending` is fixed in the run and
  free in the proofs.
- `take_stream`: three frames give a job before, between and after a heartbeat or a
  record that is no job. Records have one or two bytes, so that each can be cut within, and
  the binary ones look like line ends and like headers.
- `client` has one bound for each part:
  - `BulkTable`: twelve jobs, a typical one, for each axis one that only a filter on it
    leaves out, so that no filter can be forgotten unnoticed, and jobs of every status, bound
    to the budget at hand and to another; `MaxFilters` = 2 axes, since what goes wrong
    between filters goes wrong between two. Ranges of instants end at the first and the last
    nanosecond of a millisecond and within one. `MsLimit` stands for 2^64: any number beyond
    the instants in use behaves alike.
  - `MaxPatchCalls` = 3: set, overwritten by a nested patch, written into again; each for
    settings that are the defaults, or all one of two values, with any type of strategy.
  - Keys: 25 payloads and 13 attributes, with paths that are nested, missing, within one
    another, of an array's elements and past its end; two jobs, since a key is compared
    with one other.
  - `MaxBatched` = 3 with limits of 2 to 4: a batch can fill, overflow and be sealed.
  - `MaxEndpointCalls` = 1: a call depends on the server's state only through the objects
    that exist, and they all do. One of the names has a "/" that would lead to an entry of
    another group, one is a word of a path; the bases have a path with and without a slash
    at the end.
  - `MaxAttributes` = 2 attributes of some 180, right and wrong in one way each.
  - `MaxEnqueueCalls` = 3: default, override, override again; for budgets, the first,
    one more and a replacement.
  - `MaxRoutes` = 2 for one name, `MaxTyped` = 1 job with a value of any of eight types,
    in both formats, or written by another client.
- Deadlock is checked in all runs of `ZizqWorker` and `RetryLoops` (`Exited` is the
  only place the former may stay). The streams end, and a program may stop using the
  client, so there it is off.

## Fairness

- `Fairness` of `ZizqWorker`: tokio polls every task that can make progress, timers
  fire, and reqwest's timeouts end each call, hence weak fairness of the dispatch
  loop, of each task, of the ack processor and of the drain, its deadline
  included. `tokio::sync::mpsc` hands out its permits in order, hence strong fairness
  of `SendAck`. The server sends ready jobs and takes those of a dead connection back.
  Nothing is asked of faults, of the shutdown future or of the end of the process.
- Handlers are fair only in `FairHandlerSpec`, which `worker_live` uses. `worker_stop` does
  without, as handlers may hang: the shutdown's deadline then ends `run()`, and
  `StreamEndReturns` allows for the handler it waits for.
- `RetryLoops`: calls and sleeps end, and a session notices the shutdown.
  `ReportEnds` also supposes that the server is, from some time on, healthy.
- The parts of `MCClient` have safety properties only: nothing in them happens but by
  the caller's doing.
- `PageStream`, `TakeStream`: the caller goes on polling, and a body that has not
  ended goes on. Both are pull-based and do nothing otherwise.

## The proofs

| module | theorem | says, for every value of the constants |
|---|---|---|
| `ZizqWorkerProofs` | `TypeCorrect` | the type invariant |
| | `Refinement` | `ZizqWorker` implements `AtLeastOnce`, with lost, late and repeated requests, crashes and restarts |
| | `Inductive` | `IInv` |
| | `VerdictsHeld` | until it is answered, a verdict is held by a task, the channel or the batch |
| | `CleanlyShutDown` | a drain that ends in time leaves no verdict unanswered |
| | `IntakeStops` | at most one handler starts after the shutdown |
| | `ConcurrencyBounded` | all sessions' tasks together stay within `concurrency` |
| `RetryLoopsProofs` | `TypeCorrect`, `TransientsRetried`, `SleepsDouble` | any statuses and any backoffs |
| `PageStreamProofs` | `TypeCorrect`, `Complete`, `Sound`, `Ordered` | any ids, page size and order |
| `TakeStreamProofs` | `TypesKept`, `StreamAsPromised`, `NothingIsHeldBack` | any jobs and records of any length, any number of frames, any chunks and any ending |
| `BuilderProofs` | `BuilderTypes`, `BuiltFitToRun`, `ExplicitWins` | `WorkerBuilder`: any numbers |
| | `JobsAsAsked` | `EnqueueRequests`: any kinds, values and calls in any order: the jobs meant, by all three ways |
| | `AttributesTakeEffect` | `KindDerive`: any attributes in any order, parentheses missing or empty included: compiles exactly by the grammar, and all count |
| | `PatchesDoAsMeant` | `Patches`: any values, any stored settings and any order of setters: exactly the settings meant, or refused exactly if they cannot be |
| | `RoutesRight` | `Router`: any kinds, routes and jobs: the handler registered last gets the value enqueued |
| | `BulkJobsDoAsMeant` | `BulkJobs`: any jobs, lists, ranges to the nanosecond and setters in any order: exactly the jobs meant are changed, counted or reported as blocked, or the call fails |
| `EndpointsProofs` | `CallsReachTheirObject` | any base URL and any names: the object named and no other, or nothing, and a true result |
| `PayloadKeysProofs` | `KeysTell` | any payloads of any depth, any paths and scopes: a duplicate exactly if the payloads agree where they must |
| `BatchFoldsProofs` | `FoldsKeep` | any payloads, paths, limits and keys, any number of folds: every entry is kept, and nothing is folded that differs elsewhere |
| | `OpenOnesDiffer` | the same: what is not folded differs |

They rest on the named assumptions of the modules: `BoundsAssumption` and `WorkerAssumption`
(the bounds are numbers, the concurrency and the prefetch are not 0), `StatusesAssumption`
(three digits), `BackoffAssumption` (0 < initial <= maximum), `PayloadsAssumption` (payloads
are documents), `KeySpecsAssumption` (the forms the unique attribute can have),
`BatchPayloadsAssumption` and `BatchSpecsAssumption` (the same of a batch), `PageAssumption`
(ids are finitely many numbers), `SizesAssumption`, `MsAssumption` and `BulkAssumption` (a
job's numbers are numbers, a filter's ranges of instants lie between 1970 and the last
millisecond that 64 bits hold), `PatchAssumption` (a value that is given is not the
default), `PayloadKindsAssumption`, `DefaultsAssumption` (a kind's default is an `Option`),
`ContentAssumption` (a record is not empty, fits the header of a frame, and is not another
job's; JSON is on one line that is not blank and does not end in a carriage return),
`MaxFramesAssumption`, `NamesAssumption` and `BasesAssumption` (no name is `.` or `..`; a
URL's path has a segment, as the url crate sees to), `AttributesAssumption` (a group of
fields, however many, where the macro reads one, and a `LitBool` where it reads that). TLC
evaluates each of them in the runs.

### The argument for the worker

None of the properties is inductive. The invariant `IInv` of
`ZizqWorkerInvariants` adds what each relies on:

- `ProvenanceInv`: whatever is on its way to the server as an ack was `Ok`, as a nack
  `Err`: in a task, in the channel, in the batch, or in a request whose caller gave up.
  This alone carries the refinement: a job is settled only by `ServerAcks`,
  `ServerFails` and `StrayArrives`, and all three find the verdict in `Verdicts`.
  `DeliveryInv` says that deliveries are numbered in order and have no verdict before
  a handler runs, so that a new delivery adds none, and that verdicts are never taken
  back.
- `AnsweredInv`, with `LeaseInv`: once the server has answered for a delivery (whether
  or not the answer has been read) it holds no lease of it. A new lease always has a
  new number.
- `DrainInv`, with `BatchInv`: the ack processor is done only with every sender gone,
  the channel and the batch empty; `run()` leaves in time only after that.
  Together with `NoVerdictForgotten` this is `CleanShutdown`.
- `LateInv`: after a late start the loop can only go to the drain, since both selects
  look at the shutdown first.
- `CapacityInv`: when the stream is polled there is room for one more task. The proof
  counts: only `Spawn` adds to the tasks held, by one, and finished tasks keep their
  place.

The proofs are by action, one lemma per conjunct of `IInv`; lemmas named `...At` say
what a helper does to one delivery or job, so that no other proof expands it.

For `PageStream` the invariant cuts the listing into what was yielded, the rest of the
page, and what the cursor leads to, in that order: what has always matched lies in one
of the three. For `RetryLoops` it ties the variable `backoff` to the last sleep at each
place of the loop.

For `BulkJobs` the invariant `BulkIInv` says that until the reply the table is the
server's and that each axis, by itself, selects the ids in `named` (`FiltersMean`): all of
them if no filter is set on it. Lemmas follow an axis to the server and back:
`EncodedRange` for a range that is written out and read again, `SelectsMeant` for the
whole query, `NothingMeant` for the empty list that no query can say. What the operation
then does is the same function of the same ids, whichever way they were found.

For `Patches` the invariant `PatchIInv` says that every field, nested ones included, is what
`meant` says of it, a nested patch being kept exactly if nothing in it was touched, but for
one thing: a switch to `while_in_flight` means no period and no burst, and the patch keeps
silent about them (`Meaning`). That comes to the same, as the server drops them
(`Drops`, `NotTimed`), unless a later call sets one, and then it is refused.
`MergedWire` and `AllMergedSays` carry the invariant over the serialisation and the merge,
`PatchedAsMeant` over the server's verdict.

For `Router` the invariant `RouterIInv` says that the table has for each name the last
registration of it (`RoutesAreLast`) and that a job of a kind holds what was written of its
value (`HoldsItsValue`). `ReadsBack` goes through the forms of a payload type and both
formats: what is written is read back as itself, or the type is the one exception.

For `TakeStream` the body is what the invariant `IInv` is about. `Framed`: it is the frames
one after another, each in one of its framings, ending where `ends` says. `Window`: the
buffer is the part of it between what the decoder has taken and what was read. `Between`:
the decoder stands at the end of a frame, having yielded exactly the jobs before. The lemmas
follow one frame through a decoder: a line feed is found where the line ends and nowhere
sooner (`LineFeedFound`, `NoLineFeed`), a header's four bytes give the length back
(`HeaderBytes`), and so a decoder at the start of a frame takes that frame if it is there
whole (`DecodedFrame`) and waits if it is not (`DecodedNothing`). `NothingHeldBack` follows
from the first of the two. `KeepsSend` is the step in which the server's end of the body grows
under the client's; the end of the body (`KeepsBodyEnds`) is the case in which a part of a
frame must become an error.

For `EnqueueRequests` the builder in hand is a function of the calls in `said`
(`BuildingAsMeant`): for a field the last call about it, for the budgets what the last
`budgets` or `clear_budgets` left and each `budget` after it, in order. `PlacesFound` makes
"the last" and "the n-th" exist, which takes finiteness and counting (`NthIs`, `NthAdded`).
`RequestMeans` is `into_request` against the meaning; `CollectedAsMeant` and
`TemplatesAsMeant` keep that while a request waits in a bulk builder or a cron group.
`SentOnce` says that a job is only there if something sent it.

For `Endpoints` the invariant is short: the base is one of the URLs, and the server holds only
objects of the forms it has (`IsObject`), so nothing lies below an entry, a binding or a
budget. `PathKept` says that the server sees the request's path, whatever the base. The rest
goes by the length of a path: what leads to which object (`Targets`), what each method does
there (`Served...`), what the documentation promises (`...Documented`), and that they are the
same (`...Means`). No case asks what a name is, but that of `POST` to two segments, where
"budgets" and "jobs" tell them apart (`NotMany`).

For `KindDerive` the invariant `DeriveIInv` says no more than that the outcome is the derive's
of what is written; the work is in the grammar. `Collected` tells when the fields of a group
are accepted (`Accepted`) and what is then kept, whatever the group; one lemma per attribute
(`BackoffParsed` to `BatchParsed`) meets the documented form of it, `AttributeRead` and
`AttributesParsed` put them together, and `AttributeEmitted` follows each value into the kind.
No lemma takes an induction, as groups nest to a fixed depth and a list is judged by pairs of
its fields.

For `PayloadKeys` the invariant `KeyIInv` says that every job's key is that of its payload
and that the last verdict compared two keys; the work is in `KeysAgree`, that two
documents have the same key exactly if they agree. It has three parts.

- The text determines the document (`SameText`). `WriteCanonical` is defined from the
  innermost positions outwards; `Fixpoint` says that there is such a function, by an
  induction over the length of positions. `DecodeList` reads a list back, part by part in
  the order of the steps: no part starts with what closes a list (`ListStarts`), so two
  texts that are equal are of the same steps. `DecodeAll` goes from there over the whole
  document. What comes out is `SameSeen`: the same positions and, at each, the same kind
  of node and scalar. The order of an object's fields does not count.
- What `except` leaves (`ExceptAgrees`). `RemoveSeen` tells, for each position of the
  copy, which one of the payload it shows (`Origin`); by `Undisturbed` a removal leaves
  what a later path is about where it was, unless it shifts it. This is where `TellsApart`
  is needed.
- What `only` copies (`OnlyAgrees`). After any number of paths the copy is `IsCopy` of
  those that hit: what is at or below them, the containers on the way, and nulls before
  the elements of arrays. `PutIs` follows one `set_path` into it. It finds no misfit, since
  all its paths are positions of one payload (`NoMisfit`), and the order of the paths does
  not show in the outcome.

Inductions are over sets and functions, stated without operator parameters (`Induct`,
`Stepwise`, `Fixpoint`).

For `BatchFolds` the property is not inductive: it says nothing of a job that nothing was
folded into yet, and the next fold starts from there. `BatchIInv` has, of every batch, that
all payloads folded into it have its key, that it differs from the first of them only in the
list (`AgreeOutside`), that it is that first one while there is no other, and the list
itself. From the key, `KeysAgree` tells where the payloads agree (`SameKeySameContext`).
A fold is followed in three steps. `PutPlaced`: what `SetPath` builds is a document, has
the merged list at the path and the rest of the payload elsewhere; the path leads to a
list, to null or to a missing field, so no hop opens more than that field. `EntriesThere`:
the entries read back are those put there. `MergeThem`: sorting rearranges and orders
(`SortedIs`, for which an order must exist, `Orders`), and dropping duplicates keeps the
set (`UniqueIs`), for what was merged before as well as for what is new: a list that is
already sorted or without duplicates is merged again with each job.

`OpenBatchesDiffer` follows from another invariant, `OpenIInv`: the key of a job is that of
the first payload in it, and jobs that still take entries have different keys. It holds
because a payload whose key some such job has either is folded into it or seals it. The step
from keys back to payloads is `SameContextAgrees`, which is where the list must be excluded
from the key, together with `AgreeOutside`, as the payload now in the job is no longer the
first one.

### Only model-checked

Liveness (`ShutdownReturns`, `VerdictReported`, `JobsSettle`, `StreamEndReturns`,
`ReportEnds`, `ShutdownLeaves`, `StreamEnds`, `Ends`) is out of the prover's reach.
Every invariant and every action property of a passing run is a theorem.

## Where code and documentation disagree

- `worker_deadline`: at the shutdown timeout `run()` detaches the ack processor
  instead of stopping it (`worker.rs:261`), so it goes on to post the acks it holds;
  the documentation of `shutdown_timeout` says that "pending acks not yet sent are
  dropped" (`worker.rs:570`). The job is then completed, which is what one would
  wish, but by a task the caller believes is gone.
- `retry_policy`: the policy beside `is_retryable` is that transient means transport or
  5xx "and nothing else" (`error.rs:246`). The two report loops retry on everything
  but a 4xx (`worker.rs:642`, `worker.rs:686`), a body that does not decode and a 3xx
  included.
- `builder_prefetch`: `prefetch` is documented to default to the configured concurrency
  (`worker.rs:543`), but the first call of `concurrency()` fixes it (`worker.rs:522`):
  `concurrency(1).concurrency(8)` yields a prefetch of 1 and a worker that never runs
  more than one job.
- `budget_patch`: a `StrategyPatch` is documented to be built through the setters "so that
  the combinations the server rejects cannot be assembled" (`budget.rs:411`), and the server
  rejects a duration or a burst "alongside a switch to `while_in_flight`" (`budget.rs:456`,
  `tests/budgets.rs:344`). `duration()` and `burst()` write into whatever strategy is there
  (`budget.rs:473`, `budget.rs:480`), so
  `.strategy(BudgetStrategy::WhileInFlight).duration(d)` assembles one.
- `payload_except`: `payload_except` is documented to return "a copy with each of `paths`
  removed" (`hashable.rs:25`). It removes them one after another (`hashable.rs:42`), and an
  array closes up after each: `except = [".a[0]", ".a[1]"]` removes the first element and
  the third. Two jobs that differ only in the second are then no duplicates, and two that
  differ in the third are. Listed from the back the paths do what they say;
  `DuplicatesAgree` holds for every attribute in which no removal shifts a later path
  (`TellsApart`).

Met on the way, and not worth a run:

- `docs/src/workers.md:199` gives a shutdown timeout of 30 s, `worker.rs:42` has 60 s.
- `docs/src/batched-jobs.md:294` says that the batch data "is always excluded from the key
  regardless", and `zizq-derive/src/attrs.rs:202-207` says the same; but `key(only = [...])`
  with a path that holds the batch's takes it in (`zizq-derive/src/lib.rs:426`), and then no
  two jobs with different entries are folded. `OpenBatchesDiffer` leaves these attributes out
  (`KeyedByEntries`).

## What is not modelled

- `resources.rs`: data types and their decoding. Its methods on `Job` and `JobPage` call
  operations that are modelled.
- `jq_expr.rs`: builds strings whose meaning is the server's; an expression is the set of
  ids it is true of. `jq_path::parse`, from a string to steps: a path is its steps, or
  malformed.
- `ClientBuilder`: TLS, proxies, timeouts and pools are reqwest's. The content type strings
  of `format.rs`, the wire form of a budget policy and the backtrace's text are conversions
  without a decision in them.
- `WorkerBuilder::queues` and `shutdown_timeout`, which only replace a field, and
  `TakeBuilder`, which collects two parameters.
- Balances and debits of budgets, the meaning of a cron expression, the retry schedule of a
  failed job and the expiry of leases by time are the server's.

Some inputs are excluded, each in a named assumption or in the property's own words:

- A name `.` or `..` (`NamesAssumption`): the url crate drops such a segment.
- A comma within a name in a filter's list, which the query joins with commas
  (`job_filter.rs:112`): a list is a set of names. Which names a server admits is not said
  in the repository.
- An instant before 1970 in a filter (`BulkAssumption`): `to_ms_epoch` truncates it towards
  zero and wraps, in `ToMsEpoch` as in the code.
- `prefetch(0)` (`FitToRun`, and the assumptions of `ZizqWorker`): the channel of acks would
  then have no capacity, which tokio does not admit; no text says what is meant by it.
- A batch key by `only` whose paths overlap the batch's (`KeyedByEntries` in
  `OpenBatchesDiffer`).
- Records without end: the ids of `PageStream` are finitely many, so that a listing to which
  the server keeps adding ends all the same.
- A unit struct inside another payload type, enqueued as MessagePack (`UnitInside` in
  `HandlerGetsPayload`): the shim of `enqueue.rs` is for a payload that is one itself, and
  the handler is then given a `PayloadDeserializeError`.
- Attributes in which the removal of one path shifts a later one (`TellsApart` in
  `DuplicatesAgree`, and in `FoldKeepsEverything` for what payloads must agree on;
  `payload_except` is the run without the exception).
- Entries of a list that are not scalars where `dedup` or `sorted` puts them in order
  (`IsBatchable`), and two jobs without a list where it does (`CanFold`): jq orders any
  values, and refuses to sort null; what the server does then is its own.

## Plan

What remains, in this order:

1. A job the client cannot decode, as a fault of `ZizqWorker`'s server: it ends the stream
   (`take.rs:191`), is taken back when the client reconnects and is sent again. With
   `reconnect(true)` the worker makes no progress on it, and none but what fits between
   two connections on the others.
2. `Client::get_page` joined with `PageStream`: a page's links are resolved with
   `Url::join`, which replaces the path that `url()` keeps of the base (`client.rs:1408`).
3. `jq_path::parse`, and the writing of paths back to strings, on bounded strings.
4. The backoff loops as a refinement of the retry steps of `ZizqWorker`.
5. The remaining setters of `WorkerBuilder`.
