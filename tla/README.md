# TLA+ models of tasq

These are formal models of the concurrency core of tasq. The sources are
`src/tasq/remote/client.py` (the Tasq clients and the client pool) and
`src/tasq/actor.py` (the mailbox actor). TLC model-checks the models on small
instances, and TLAPS proves the client's and the pool's main invariants for
every instance.

## The system and its parts

| Part | Source | Module | Status |
|---|---|---|---|
| Tasq Client: `BaseTasqClient` and its ZMQ, Redis and RabbitMQ subclasses | client.py 41-484 | `TasqClient`, refining `ClientSpec` | modelled |
| Job / Future data model | job.py (outside src/), client.py 28-38 | records in `TasqClient` | partly |
| Client Pool: `TasqClientPool` | client.py 487-570 | `ClientPool` | partly |
| Router: `RoundRobinRouter` | outside src/ | `ClientPool.Route`, from spec 4.3 | partly |
| Mailbox Actor: `Actor` and `Result` | actor.py 16-80 | `Actor` | modelled |
| Actor System, Client Worker, Broker Connection | outside src/ | none | not modelled |

How the parts interact:

- A caller thread calls `schedule`.
  - While the client is disconnected, `schedule` buffers the job at the left of the `_pending` deque.
  - While it is connected, `schedule` stores a new future in `_results` under the name argument and sends the job.
- `connect` sets the connected flag, starts the `_gatherer` thread, and then replays the deque from its right end through `schedule`.
- The gathering thread loops on `recv`. For each job result it completes `_results[result.name]`.
- `schedule_blocking` checks the connected flag, calls `schedule`, and waits on the future it gets back.
- `with client:` connects on entry. On exit, `__exit__` spins on `pending_results()`, a dict comprehension over `_results`, until no future is pending, and then closes the client.
- The pool builds one ZMQ client per endpoint.
  - `map` schedules directly on the clients.
  - `schedule` goes through the router of an actor system of client workers.
- An actor's thread receives from a `queue.Queue` mailbox until it gets the `ActorExit` sentinel put by `close`. Its `_bootstrap` then sets the `_terminated` Event that `join` waits on.

## Modules

### `TasqClient` (client.py)

Constants:

- `Threads`: the caller threads.
- `Names`: the name arguments. The model value `NoName` stands for "no name given" and is in `Names` only when a run wants unnamed jobs.
- `Transport`: one of `"zmq"`, `"redis"` or `"amqp"`.
- `MaxJobs`: the number of jobs built.
- `MaxErrors`: the number of transient ZMQ receive errors.
- `FreshNames`: whether a real name may be passed only once.

| Variable | Code |
|---|---|
| `is_connected`, `closed` | `_is_connected`; `close()` has been called |
| `gatherer` | the `_gatherer` Thread: `"new"`, `"alive"` or `"dead"` |
| `pending` | `_pending`; index 1 is the left end |
| `results` | `_results`, from a key to an index into `fut` |
| `fut` | the futures created, each with its job and its value: 0 while not done, else the index of the send whose result completed it |
| `sent` | the jobs passed to `_client.send`, in order |
| `gathered` | the sends whose result has been received |
| `last` | the `job_result` variable of the ZMQ gathering loop (0 = unbound) |
| `errors` | the number of receive errors so far |
| `submitted` | a history of the jobs built by callers |
| `pc`, `waiting` | each caller thread's place and the future it waits on |
| `snap` | per thread, the keys of `_results` when its running `pending_results()` scan began |

Abstractions:

- A job is a record: its uuid, its correlation name (the name given, else the uuid) and the call that built it.
- The broker and the remote side are abstracted. Every send is answered by one result carrying the job's name, in any order (`GatherResults(i)`).

Actions and the code they model (lines in PROJECT.json):

| Action | Code |
|---|---|
| `Schedule` | `schedule`. Its body, `SendOrBuffer`, is also what the drain loop runs. |
| `Connect` | `connect` up to the drain loop. `StartRaises` is the `Thread.start()` of the transport: ZMQ guards it with `is_alive()`, Redis and AMQP do not. |
| `Drain` | one iteration of `while self._pending: job = self._pending.pop(); self.schedule(..., name=job.job_id)` |
| `Disconnect`, `Close` | `disconnect`, `close` |
| `ScheduleBlocking`, `ScheduleBlockingSend` | the check and the send of `schedule_blocking`: two steps, because another thread may run in between |
| `ResultReturns`, `ResultTimeout` | `future.result(timeout)` |
| `GatherResults` | one pass of a gathering loop with a result in hand |
| `GatherRecvError` | the ZMQ `except` branch, which falls through with a stale or unbound `job_result` |
| `SetResult` | `self._results[job_result.name].set_result(job_result)` with its `KeyError` handler. A second `set_result` on a done future raises `InvalidStateError`, which nothing catches, and the thread dies. |
| `ExitEnter` | `__exit__`'s first call of `pending_results()`: the scan of `_results.items()` begins |
| `ExitScan` | the scan ends. If another thread added a key meanwhile, the comprehension raises `RuntimeError`, which escapes `__exit__` without `close()`. If futures are pending, the loop scans again. Otherwise `close()` runs. `PendingResults` is the comprehension's result. |

The refinement. `ClientSpec` is what a client promises its callers (spec 3,
4.4 and 8), with no threads or transports:

- a FIFO `queue` of buffered job numbers;
- a set `flight` of jobs sent and not completed;
- a set `done` of jobs completed with their own result;
- the number `njobs` of jobs submitted.

Its actions are `Buffer`, `SendNow` (only when nothing waits), `Release` (the
oldest waiting job) and `Complete`. `TasqClient` maps onto it:

- `QueueBar` is the deque read from right to left.
- `FlightBar` is the jobs of the futures not yet done.
- `DoneBar` is the jobs of the futures completed by their own job's send.
- `njobs` is the length of the history.

`ImplementsClientSpec == Abstract!Spec` is checked as a temporal property in
`client_zmq`. A `Schedule` maps to `Buffer` or `SendNow`, a `Drain` iteration
to `Release`, a `GatherResults` to `Complete`, and every other step to a
stutter. It holds only for one caller thread: with two, `fifo_race` shows a
`SendNow` while jobs wait.

### `Actor` (actor.py)

Constants:

- `Senders`: threads calling `send`.
- `Waiters`: threads calling `join`.
- `ActorExit`: the sentinel.
- `MaxSends`, `MaxCloses`, `MaxStarts`: the bounds.
- `Readers`: threads calling `Result.result`; `MaxSets`: the calls of `set_result`.

Variables:

- `mailbox`: the queue.
- `loops`: one record per started thread. Its state is `"recv"`, `"busy"` with the message it holds, or `"exited"`.
- `terminated`: the Event.
- `joined`: per waiter.
- Histories: `enq` of everything put, and `handled` of everything handled.
- The `Result`: `rval` (`_result`, 0 for `None`), `revent` (`_event`), `rsetter` (whether a `set_result` call is between its two lines), `rsets` (calls so far), and per reader `rd` (its place, whether `wait` returned True, the value it read).

Actions:

| Action | Code |
|---|---|
| `Send` | `send` |
| `Close` | `close`, which is `send(ActorExit)` |
| `Start` | `start`: a new Thread on every call |
| `Recv` | `recv` together with `_bootstrap`'s `except ActorExit` and `finally: self._terminated.set()` |
| `Handle` | the package actors' loop body after `recv`. `Actor.run` is `pass`, so this is modelled from spec 4.1 and marked spec_modelled. |
| `Join` | `join` |
| `ResultSetResult` | `set_result`: `self._result = value`, then `self._event.set()`, as two steps. The v-th call stores v. |
| `ResultWait`, `ResultRead` | `result(timeout)`: `self._event.wait(timeout)`, which returns False if the reader's timeout expires first, then `return self._result` |

The actor's and the Result's actions interleave freely: nothing in actor.py
links them.

### `ClientPool` (client.py, `TasqClientPool`)

- A client is reduced to its connected flag; `TasqClient` models a client.
- `MapStep` is one iteration of `map`'s loop, translated as written: `idx` is never advanced.
- `Route` is `pool.schedule`: it stores the routed future. The router's dispatch-then-advance of its cursor lives outside src/ and is taken from spec 4.3 as one atomic step. So no property is stated about where routes go: it would hold by that definition, whatever client.py does.
- `Shutdown` closes the clients.

## Runs

Every cfg sets `CHECK_DEADLOCK FALSE`:

- For the client, `close()` is the client's last call, so nothing is enabled after it.
- For the actor and the pool, every caller operation is bounded, so a run ends when the bounds are used up.

`MCTasqClient` adds a symmetry set of the real names. Only `client_threads` uses it, because it checks invariants alone.

`FuturesResolve` needs every job named: an unnamed job is never completed (`unnamed_lost`). So the liveness run uses named jobs, and `client_threads` covers unnamed ones for the safety properties.

The actor run starts the actor once, as spec 4.1 asks of callers. The model allows more starts (`MaxStarts`). With two starts, TLC finds `PerSenderFifo` and `HandledBeforeExit` violated: the two consumer threads reorder a sender's messages, and the Event is set while the other consumer still holds an earlier message. PROJECT.json lists this as a hazard.

Passing runs:

| Run | Instance | Checks |
|---|---|---|
| `client_zmq` | 1 thread; ZMQ; every job named from {a, b, c}; 3 jobs | TypeOK, FifoRelease, FutureIntegrity, NoStrandedPending, GathererSurvives; liveness FuturesResolve, ConnectReturns, ExitReturns; refinement ImplementsClientSpec |
| `client_threads` | 2 threads; names {a, b, NoName}, so unnamed jobs too | FutureIntegrity, GathererSurvives under every interleaving of two callers with the gatherer and a with-block exit |
| `actor` | 2 senders × 2 messages, 2 closes, 1 start, 2 joiners; a Result set twice, 2 readers (429k states) | TypeOK, PerSenderFifo, HandledBeforeExit, ResultReadSeesSet; liveness ClosedTerminates |
| `pool` | 3 clients, 2 schedulers, 6 map items, 9 routes | TypeOK |

Violation runs. Each checks one property that the spec states and that the code breaks; PROJECT.json `findings` has the details.

| Run | What breaks |
|---|---|
| `fifo_race` | FIFO release, when a second thread schedules during connect's drain |
| `blocking_buffers` | `schedule_blocking` buffers after a concurrent disconnect |
| `redis_reconnect` | a reconnect on Redis raises in `Thread.start()` and strands the deque |
| `zmq_recv_error` | a ZMQ receive error kills the gathering thread (unbound or stale `job_result`) |
| `unnamed_lost` | an unnamed job's future is keyed by `''` and never completed |
| `connect_livelock` | connect's drain loop spins forever after a concurrent disconnect |
| `exit_race` | another thread's `schedule` during `__exit__`'s scan raises `RuntimeError` in `pending_results()`, and the client is never closed |
| `map_round_robin` | `TasqClientPool.map` sends everything to client 0 |

Why the bounds are enough:

- Three jobs let a buffered job, a replayed job and a job sent directly coexist. They also let a result arrive before, between or after them.
- Two threads let every pair of caller operations interleave with the gatherer and the drain loop.
- Each bug above shows up at these bounds.
- Two messages per sender are the least that can show reordering. Two closes show that a duplicate sentinel is harmless.
- Two `set_result` calls and two readers let a reader wait, time out or read between the two lines of either call, and before or after the overwrite.

A reused name (`FreshNames` FALSE with a real name) gives two results for one
key: the second `set_result` on the done future kills the gathering thread.
`client_zmq` and `client_threads` pass fresh names; TLC finds GathererSurvives
violated as soon as names repeat, and PROJECT.json lists the hazard at
client.py:276.

Every passing property has a mutant in PROJECT.json: a plausible bug in the modelled code that TLC shows breaks the property. Examples:

- popleft instead of pop in the drain;
- completing the newest future instead of the keyed one;
- `Thread.start()` without the `is_alive()` check;
- a LIFO mailbox;
- a sentinel that jumps the queue;
- `__exit__` that stops waiting while futures are pending;
- a disconnected `schedule` that buffers at the right end of the deque (it breaks the refinement);
- a Result whose Event is set before the value.

## Fairness

| Model | Weakly fair | Why |
|---|---|---|
| `TasqClient` | `GatherResults` | The gathering thread is a daemon that loops for the client's lifetime. |
| `TasqClient` | `Drain(t)` for each thread | A thread inside connect keeps running its loop. |
| `TasqClient` | `ExitScan(t)` for each thread | A thread inside `__exit__` keeps running its `while` loop. |
| `Actor` | each started thread's `Recv`/`Handle` | An OS thread that can run is eventually scheduled. |

Caller operations (schedule, connect, close, send, start, join) are never fair, because callers may stop calling.

## What is proved

TLAPS checks every proof from nothing, for all values of the constants under
`ConstantsAssumption` (client), `PoolAssumption` (pool) or `ActorAssumption`
(actor), and the hypotheses each theorem names.

### TasqClientProofs

- **`TypeCorrect`**: `Spec => []TypeOK`.
  - The proof splits TypeOK into the two Boolean flags and the rest, because the SMT backend fails on the two kinds together. It has one step per action.
  - It rests on lemmas about the shared body `SendOrBuffer`, about `MakeJob`, and about `SetResult`.
- **`FutureIntegrityHolds`**: `ASSUME FreshNames PROVE Spec => []FutureIntegrity`.
  - **What it says:** a future is only ever completed with the result of its own job's send, for any number of threads and jobs, provided callers never reuse a name. With a reused name the second result kills the gathering thread (see "Runs").
  - **Why an inductive invariant is needed:** FutureIntegrity is not inductive. Whether `SetResult` completes the right future depends on which future the map points to and on the names of earlier jobs.
  - **The inductive invariant `IInv`** adds the following to TypeOK. TLC checked it on the `client_threads` instance before it was proved.
    - `SubmittedIds`: a job's uuid is its position in the history.
    - `UuidNames`: a numeric name is the job's own uuid.
    - `NamesUnique`.
    - `JobsKnown`: every sent, buffered or future-owning job is the job a caller built.
    - `KeyOwner`: the future under a real name belongs to the job of that name.
    - `ValSent`.
  - **The argument:**
    1. `SetResult(i)` looks up `sent[i].name`.
    2. Its future's job has that name (KeyOwner).
    3. Names are unique, so that job and `sent[i]` are the same job (JobsKnown, NamesUnique).
    4. `Schedule`, `ScheduleBlockingSend` and `Drain` preserve the invariant through the lemmas `SubmitKeeps` (a fresh uuid and a fresh name) and `DrainKeeps` (the replayed job keeps its own name).
    5. The gathering actions preserve it through `SetResultKeeps`.

### TasqClientFifo

- **`FifoReleaseOneThread`**: `ASSUME NEW t0, Threads = {t0} PROVE Spec => []FifoRelease`, for every transport, name set and bound.
  - **Why only one thread:** with two, FifoRelease fails (`fifo_race`).
  - **Why an inductive invariant is needed:** the drain loop sends the right end of the deque. So the proof needs to know that this is the oldest buffered job, and that it is newer than every job already sent. Neither is true in every state: on Redis or AMQP, a reconnect's `start()` raises before the drain. After that, a connected `schedule` sends past jobs that stay buffered.
  - **The inductive invariant `FInv`** (in TasqClient; TLC checked it on one-thread instances of all three transports before it was proved) is TypeOK and:
    - `PendingDesc`: the deque is ordered newest-left.
    - `UidsBuilt`: every sent or buffered job was built.
    - `StrandedForGood`: if a buffered job is older than some send, `start()` raises on every later connect and no drain runs.
    - `BufferedMeansRaised`: connected, outside the drain, with jobs buffered, only when `start()` raises.
    - `DrainConnected`.
  - **The argument:** a start() that raises keeps raising (`StartRaisesKept`: the thread never returns to "new" and a dead thread stays dead). So the stranded state is absorbing. Elsewhere:
    - `Connect` enters the drain only when nothing buffered is older than a send.
    - `Drain` sends the oldest buffered job (`DrainFifo`).
    - `schedule` sends a job newer than everything (`NewestJob`, `SubmitFifo`).

### ClientPoolProofs

- **`PoolTypeCorrect`**: `Spec => []TypeOK` for the pool.

### TasqClientGatherer

- **`GathererSurvivesHolds`**: `ASSUME FreshNames, Transport = "zmq" => MaxErrors = 0 PROVE Spec => []GathererSurvives`, for any number of threads and jobs.
  - **The hypotheses:** names are never reused, and on zmq no transient recv error happens. Without either, TLC finds the gatherer dead while the client is open: with repeated names (see "Runs"), and in the `zmq_recv_error` run.
  - **Why an inductive invariant is needed:** the thread dies when `set_result` finds its future already done. So the proof must show two things. First, the future under a result's name was completed, if at all, by that same send. Second, each send is answered once.
  - **The inductive invariant `GInv`** is `IInv` (above) and:
    - `UidsBuilt`;
    - `SendsUnique`: no job is sent twice;
    - `PendingFresh`: the deque holds distinct jobs, none of them sent;
    - `DoneGathered`: a done future's value is a send whose answer was already received.
  - **The argument:** the lemma `AnswerFindsOpenFuture` combines KeyOwner, NamesUnique, FutureIntegrity, SendsUnique and DoneGathered. It shows that an answer not yet received finds its future not done. Every other action keeps the parts through per-action lemmas.
- **`NoStrandedPendingZmq`**: `ASSUME Threads = {t0}, Transport = "zmq", FreshNames, MaxErrors = 0 PROVE Spec => []NoStrandedPending`. This is the `client_zmq` instance's setting, for every bound.
  - **The invariant used:** `FInv /\ GInv /\ ClosedDisconnected`.
  - **The argument:**
    1. `BufferedMeansRaised` says a connected client with buffered jobs outside the drain exists only when `start()` raised. On zmq, that means the gatherer is dead.
    2. A connected client is not closed (`ClosedDisconnected`).
    3. GathererSurvives then rules that state out.
  - **What stays with TLC:** on Redis and AMQP the property fails (`redis_reconnect`).

### ActorProofs

- **`ActorTypeCorrect`**: `Spec => []TypeOK` for the actor and its `Result`.
- **`ResultReadSeesSetHolds`**: `Spec => []ResultReadSeesSet`.
  - **The strengthening:** a stored value is never reset to 0 (None), the Event is set only after the value was stored, and a reader woke only on a set Event.
- **`PerSenderFifoOnce`** and **`HandledBeforeExitOnce`**: `ASSUME MaxStarts <= 1 PROVE Spec => []P`, for every number of senders, waiters, sends and closes.
  - **Why one start:** `start()` has no guard against a second call. Two run loops then share the queue. With `MaxStarts = 2`, TLC finds both properties violated (see the hazard at actor.py:44).
  - **The inductive invariant `SInv`** is TypeOK, "a busy loop holds a message", and:
    - `MailboxIsTail`: the mailbox is the untaken suffix of the history `enq` of everything put. `Taken` is the number of messages taken.
    - `TakenHandled`: each taken message is handled or held by a busy loop.
    - `FirstExitWitness`: a first sentinel exists once one was put. This spares the proof the least-number principle.
    - `TerminatedParts`:
      - at most `MaxStarts` loops;
      - `terminated` implies a sentinel was taken and every loop has exited;
      - `joined` implies `terminated`.
    - The order parts: the mailbox, the held messages and `handled` are each ordered per sender, `handled` precedes the held message and the mailbox, and no message is numbered past its sender's send count.
  - **The argument:** one lemma per action keeps the queue parts, and one keeps the order parts (`PutTail` and `GetTail` relate `mailbox` and `enq`). For HandledBeforeExit:
    1. The first sentinel's index is at most the taken sentinel's index (`FirstExitIsFirst`).
    2. So every message before it was taken.
    3. Each of those is handled, because no loop is busy once terminated.

### Left to TLC

- **Liveness:** FuturesResolve, ConnectReturns, ExitReturns and ClosedTerminates. TLAPS does not check liveness under fairness or ENABLED.
- **The refinement ImplementsClientSpec:** its proof needs a step mapping of every action on top of `FInv`. It is not done yet.
- **Beyond the proofs' hypotheses:** NoStrandedPending on Redis and AMQP, and with several threads. These are the settings where TLC finds it violated or where it is only checked.
- **The actor's properties with more than one `start()`,** where they fail.

## Not modelled, and why

- Wire I/O, serialisation, signing and `from_url` parsing: they do not change the client's state.
- Logging.
- The Broker Connection and the Actor System, which are outside src/.
- The pool's client workers: what a worker does with a routed job is not in src/.

## Plan for later sittings

1. A `Router`/`ActorSystem` module from the spec, composed with `Actor`, for the pool's schedule path and for `shutdown` waiting on every actor.
2. A TLAPS proof of the refinement step mapping for one thread, on top of `FInv`.
3. Proofs of the actor's Result reader under timeouts, and of the pool's map step.
