# LiteStore in TLA+

A model of LiteStore, an in-memory key-value server in Python: clients send
one-line commands over TCP, a router sends each to one of several worker
processes by the hash of its key, and a worker keeps its keys in a dictionary
with a timing wheel for expirations and an append-only file (AOF) for recovery.

Paths are those of the repository under `src/`: the package is `src/src/`, its
documentation `src/README.md` and `src/docs/`.

## 1. Inventory

| Component | State | Operations | Interacts with | What makes it correct |
|---|---|---|---|---|
| `TimingWheel` (timing_wheel.py) | origin, slots, entries per key, last scanned tick | schedule, cancel, pop_due; `_rebase_origin` | called by the store, with readings of `time.time()` | no timer lost, duplicated, early, or late by more than a revolution, for any timestamps |
| `MemoryStore` (store.py, commands.py) | values, deadlines, the wheel | one per command; each first runs an expiration cycle | worker loop, replay, snapshot | three structures agree; a key vanishes never early and soon after its deadline |
| `AofPersistence` (persistence.py) | file, next sequence number, appends since fsync | append_request, replay, close, sequence discovery | worker process; in single mode the runtime | order kept, answered writes found again, loss bounded by the fsync policy |
| `WorkerProcess` (process_worker.py) | a store and an AOF shard | replay, then requests and control messages from a queue | pool, by two queues | logged before answered; recovery restores memory |
| `WorkerPool` (worker_pool.py) | process and two queues per worker | start_all, execute, shutdown_all | connections, the event loop's thread pool | each client gets its response; shutdown drains and ends |
| `LiteStoreRuntime` (server.py, main.py) | workers or pool, the log of single mode, connections, tasks | start, close, `_handle_client`, `_dispatch_request`, `_replay_persistence`, metrics refresh | everything | the whole answers like one map, also after a restart (all but MGET, KEYS and FLUSHALL do); orderly start and end |
| `StoreWorker` (worker.py) | a store, whether it runs | execute (without any wait), start, stop | single mode | one command at a time |
| Router (router.py) | none | route_key, route_request | runtime, replay | one owner per key |
| `TopKTracker`, `CountMinSketch` (countmin.py) | table, heap, counts | record (increment, estimate, update / admit / replace), top_k | metrics | never underestimates, no hot key missed, bounded heap |
| Metrics (metrics.py) | counters, histogram, memory by prefix | observe_command, render | runtime | the page adds up |
| Protocol (protocol.py) | none | parse, serialise | runtime | a client reads back what it stored |

The hard behaviours: threads and processes that share queues (pool), a clock
that moves between the readings of one command or is set back (wheel, store),
deaths between execution, log and answer, and lines cut short (AOF), the end of
the program while requests are under way (pool), appends that fail and a
number of workers that changes between two starts (runtime), a heap with stale
entries and keys that collide (hot keys). `PROJECT.json` lists them as
hazards, each at its line with the properties that cover it.

## 2. The modules

| Module | What it is |
|---|---|
| `Dicts` | Python dictionaries as functions |
| `WheelOps` | the methods of `TimingWheel` as operators on a wheel, and what they maintain (`WheelOK`, `ScanBehind`, `OneRevolution`) |
| `TimingWheel`, `MCTimingWheel` | a wheel whose caller schedules, cancels and pops in any order |
| `StoreOps` | the methods of `MemoryStore` as operators on a store, over `WheelOps` |
| `MemoryStore`, `MCMemoryStore` | one store, its clock, and every command of `commands.py` |
| `ExpiringMap` | the abstract specification of a store: a map, with no wheel |
| `CommandOps`, `Responses` | `execute_command` and the responses it builds, `_is_write`, `apply_replay_request` |
| `AofOps` | the file: which records a reader finds, the next number, when to fsync |
| `WorkerProcess`, `MCWorkerProcess` | one worker and its shard, dying and recovering, over `CommandOps` and `AofOps` |
| `WorkerPool`, `MCWorkerPool` | connections, thread pool, queues, workers, `close()` |
| `ProtocolOps` | parsing and serialisation, on words, and how a client reads an answer |
| `RouterOps` | routing by the hash of a key |
| `LiteStore`, `MCLiteStore` | the whole server in either mode, from a client's line to the files and back, over all the operators above |
| `KeyValueMap` | the abstract specification of the server: one map as the documentation has it, and what of it is durable |
| `TopKOps` | the methods of `CountMinSketch` and `TopKTracker` as operators |
| `Metrics`, `MCMetrics` | the metrics collector with its tracker |
| `StoreLemmas` | what the methods of the wheel and of the store, the commands and the replay do, method by method: the lemmas the proofs share |
| `TimingWheelProofs`, `MemoryStoreProofs`, `WorkerProcessProofs`, `WorkerPoolProofs`, `LiteStoreProofs`, `MetricsProofs` | theorems about the machine each is named after |
| `LiteStoreRefinement` | in which part `LiteStore` implements `KeyValueMap`, and when as a whole |

Components are operators on values where one method calls another within a
single step (the store calls the wheel, the worker calls the store), and
machines where things interleave. No module the proofs reach has a recursive
operator: what the code does in a loop is a closed form (`Hit`), a fold of the
community modules, or a step. `map` in `PROJECT.json` gives the lines each
definition stands for. Definitions marked "Mutated ..." are plausible mistakes;
no action uses them, they serve to show that each property can fail.

### How the state corresponds

* **Wheel.** `origin`, `buckets`, `entries`, `last` are `_origin_timestamp`,
  `_buckets`, `_entries_by_key`, `_last_processed_tick`. Time is an integer,
  `TickLen` units to a tick, so that deadlines fall inside ticks as floats do.
  Rounding of floats is not modelled. The loop of `pop_due` is given in closed
  form: key `k` is looked at if a tick of its slot, not before its own tick, is
  scanned (`Hit`). The order of the returned list (sorted by deadline) is left
  out: the store treats its members independently.
* **Store.** `data`, `expiresAt`, `wheel`. A command is one step, as nothing
  else runs in its process; `later` is the second reading of the clock in
  EXPIRE and TTL and between the two keys of an MGET.
* **Worker and file.** `file` is a sequence of pieces, one per append: a whole
  line, the text of one without its newline ("bare") or a part of one ("torn").
  The next piece continues a line that has no newline. `synced` counts the
  pieces an fsync has covered. A death of the process (`ProcessCrash`) keeps
  what was handed to the system and may or may not include the append in
  progress; an `OSError` of the append, which ends the worker, has the same
  outcomes. A death of the host (`PowerLoss`) may also drop any end of the file
  that no fsync covered. `MayTear` allows parts of lines. `memory[n + 1]` is what clients last saw when the
  file had `n` pieces.
* **Pool.** One step is what a coroutine does between two awaits. `jobs` and
  `running` are the queue and the threads of the default executor, where
  `response_queue.get` blocks. A request is the n-th of a connection, which
  sends the next one when it has its answer (`_handle_client`). What a request
  does is left to the other modules. `Close` covers `close()` up to the
  shutdown messages; it may come while clients wait, as `Server.wait_closed`
  returns with open connections on Python 3.11 (newer versions wait for them).
  `shutdown_all` blocks the event loop until all workers are joined or
  terminated (`Join`, `Terminate`), so no client is answered meanwhile.

* **Server.** A line of a client is the sequence of its words, upper case in
  the verb; the value of a SET is the sequence of the rest, as `split(maxsplit=2)`
  keeps it. `exchange` is the last line and the lines of its answer. `mode` is
  `_use_multiprocessing`: with "single" all workers are objects of one process
  and share one log (`files[0]`), with "multi" each has its own. A request is
  one step: in single mode there is no await between routing and logging, and
  in multi mode the steps in between are those of `WorkerPool` and
  `WorkerProcess`. `buffer` is what Python's file object holds back after an
  append that failed; the next append or `close()` writes it. `hash` is any
  function. A stop and the death of the server are one action: the second
  writes nothing of `buffer`. Records are whole (`WorkerProcess` has torn ones)
  and keys have no lifetimes (`MemoryStore` and `WorkerProcess` have them; the
  argument 0 or less of EXPIRE, which deletes, is here), so that expiration
  cycles change nothing.
* **Metrics.** `tracker` is `_table`, `_heap` and `_tracked`; the heap is a set
  of entries, as no entry is ever in it twice. `accesses` and `observed` are
  what really happened. A report holds the lock from beginning to end and is
  one step; so would a scrape be, whose page is a function of the state
  (`Cumulative`, `TopK`).

## 3. The runs

| Run | Checks | Shows |
|---|---|---|
| `wheel` | `TypeOK`, `WheelIndexed`, `WithinOneRevolution`, `StallsEnd` | a clock that moves forward, and one set to any time between two calls: timers stay in the slot of their tick, through moves of the origin after scans too; forward, none is passed by a revolution; and when the clock was set back, the scan a revolution past the last one leaves nothing overdue |
| `store_promise` | `TypeOK`, `TimersMatchDeadlines`, `ImplementsExpiringMap`, `EventuallyExpired` | values, deadlines and timers agree; refinement of `ExpiringMap` with a lag of one revolution, replies included; the cycle alone takes every key with a reachable deadline away in the end, unless it gets another |
| `store_one_tick` | `ExpiredWithinOneTick` | **violated**: a key lingers for a revolution |
| `pool` | `TypeOK`, `OneGetterPerRequest`, `ResponsesStayInPartition`, `ExecutedInOrder`, `StopsWhenDrained`, `OwnWorkerMatches`, `EveryWaitEnds` | nothing lost, duplicated or reordered within a worker, through a death and `close()`; a client alone on a worker gets its own responses; every wait ends unless a worker dies |
| `pool_mixup` | `ResponseMatchesRequest` | **violated**: two threads on one queue swap responses |
| `pool_dead_worker` | `LiveWorkersAnswer` | **violated**: a dead worker's getters use up the threads |
| `pool_exit` | `WaitingThreadsEnd` | **violated**: after `close()` a getter of a dead worker never ends |
| `aof_recovery` | `TypeOK`, `RecoversMemory`, `KeepsLiveKeys`, `SequencesIncrease`, `LossBounded` | SET, DEL and EXPIRE, torn lines, slow replays, two deaths, three policies: what comes back, what may be missing or live longer, what it may cost, and numbers that increase although some are used again |
| `aof_torn_loss` | `AnsweredWritesReadable` | **violated**: a record appended to a torn line is lost |
| `litestore` | `TypeOK`, `KeysStayHome`, `SequencesOrdered`, `ImplementsMapInPart` | the whole server refines one map, but for what MGET and KEYS leave out and FLUSHALL spares: no restart, with whatever number of workers, and no failed append loses, revives or misplaces what clients were told; what GET answers is what SET was given, word by word |
| `litestore_one_map` | `ImplementsKeyValueMap` | **violated**: MGET, KEYS, FLUSHALL, and a restart of multi mode with another number of workers, are not those of one map |
| `metrics` | `TypeOK`, `NeverUnderestimates`, `HeapMatchesTracked`, `HeapBounded`, `HotKeysReported`, `HistogramExact` | the hot-key tracker under every hash function, through evictions, re-admissions and compactions; the histogram agrees with what was observed |

`findings` in `PROJECT.json` quotes what the repository says where a run is
violated. The counterexamples in words:

* `store_one_tick`: a cycle runs in the same tick as a deadline, before it. The
  wheel takes the key from its slot, finds it is not due, and puts it back in
  the slot just scanned.
* `pool_mixup`: two clients send to one worker and two threads wait; the second
  thread takes the first response. A client can so get a response before its own
  request was executed.
* `aof_torn_loss`: a line is cut short; the process starts again, skips it, and
  appends its next record to it. The record was fsynced and answered. The reader
  of the next start sees one malformed line.
* `litestore_one_map`: there are several disagreements, and TLC stops at one.
  As configured it is the shortest: in multi mode MGET answers `*0` whatever
  it is asked, since `WorkerResponse` has no field for the values. (A test,
  `tests/test_integration_server.py:87`, expects MGET to be refused as unknown;
  it never is.) The constant `Verbs` shows the others:
  with {SET, GET, KEYS} two workers, a SET to the second, and a KEYS, which asks
  the first only and does not name the key; with {SET, GET, FLUSHALL} a SET and
  a FLUSHALL after which the log still has the key, so that a restart brings it
  back (and, with `Counts = {2}` and TLC's `-continue`, a FLUSHALL answered
  `:0` that leaves the key of the second worker alone); with {SET, GET} a SET in
  multi mode, a stop, and a start with two workers instead of one, where the
  key is asked of a worker whose shard does not have it.

In a slow replay a key can be lost: every record reads the clock anew, so with
SET, EXPIRE 1, EXPIRE 3, and more than a second between the replay of the two
EXPIREs, the key is gone before the second. `RecoversMemory` allows exactly
that, a missing key whose last record is an EXPIRE and one of whose lifetimes
the replay outlasted, and nothing else. With a single thread (`ThreadCount` 1)
`ResponseMatchesRequest` holds.

`KeyValueMap` is the map of the documentation: MGET has a value for each key,
KEYS all names, FLUSHALL deletes all keys, durably. `ImplementsKeyValueMap` says
the server is that map, and it is not. `ImplementsMapInPart` says what is left:
every step is one of the map's (`Keyed`), or one of `Partly`, that is, an MGET or
KEYS that answers for the keys of the first worker alone (`FirstKeys`), or with
`*0` in multi mode, or a FLUSHALL that takes the keys of the first worker, says
how many they were, and leaves what is durable as it was. None of them may be
wrong about a key, and whatever a FLUSHALL spared, GET must show. Both grant
that a refused write (PERSISTENCE_ERROR) has been made in memory and may become
durable later or never. `SequencesOrdered` grants single mode that a failed append
leaves its number to the next record, so that two records in the file may share one.

The value "-1" (`NullWord`) is among the values a client may set. Its bulk
string `$-1` is also the line for a missing value, and nothing in the code
refuses it; the protocol has no other line for either. The map's answers are
what a client can tell from the lines, and `Heard` says the least that is lost:
this one value is heard as a missing one, and no other is. In multi mode the
number of workers stays in `litestore` (`Resizable`): with another one, keys are
routed to workers that do not have them, `KeysStayHome` fails with the first
such restart, and `litestore_one_map` shows what clients see of it.

### Bounds

* Wheel: two keys, since keys interact only through slots and one deadline
  order; two or three slots and two units per tick, so that a deadline may be at
  the start or within a tick, and slots are met again after few ticks.
  `MaxTime` 18 is three revolutions of a clock that moves forward ("forward" in
  `Clocks`; the origin still moves back, when a deadline was the first timestamp
  seen). A clock that may be set to any time ("any") goes through one revolution
  and a half (`MaxAnyTime` 9): it falls behind the last scan and the origin, comes
  back, and passes the last scan by a revolution, with timers set in between.
* Store: two keys. The clock goes a whole revolution beyond a lifetime, which
  is when the abstract map insists. `Drift` bounds the time one command takes.
  The clock moves forward; a clock set back is covered by the theorems.
* Pool: two workers and two threads are enough for jobs of one worker to
  displace those of the other; two clients with two requests each wait on one
  worker or on two; one death, one `close()`.
* Worker: the wheel has one slot and time units are seconds, as the wheel is
  covered above. Files of three pieces and two deaths let a number be used
  again and `every_n` with n = 2 reach its bound in two lives of a process. The
  clock moves by one unit, a whole lifetime of the shortest kind: it can end
  before a recovery and during one, between two records of a file.
* Server: two keys and one or two workers give every routing: together, apart,
  and moved by a restart. Two records let a failed append be followed by a
  success or by another failure, with a restart at any point. Values of one and two
  words tell whether the rest of the line survives, and "-1" is one of them. The run has a `VIEW` that
  leaves out `exchange`: no step depends on it, and every step's answer is
  compared by the refinement when the step is taken.
* Metrics: two of three keys are tracked, so that there is always one to evict
  and re-admit; two rows of two columns collide in one row, both or none; eight
  records take the heap beyond 3K entries and a key through eviction and
  re-admission over a stale entry. Two bounds and two durations, one beyond the
  last bound. `FewUnusual` lets at most two commands be without a key: they
  change no part of the tracker, and two of them take the histogram through
  every order of what they add.

Symmetry is used for keys and values in runs without liveness, for rows and
columns in `metrics`, and for clients in `pool_mixup`. `CHECK_DEADLOCK FALSE`
is set for the pool (after `Exit`, or when every connection has sent its
requests, nothing more need happen) and for `metrics` (at the bound on
observations). The other models
never stop: a worker that is down may start again, and one that serves may be
stopped, whatever the bounds.

### Fairness

* `MemoryStore!FairSpec`: weak fairness of the clock and of the cycle. The
  worker's loop calls `process_expirations` at least every 0.1 s or so whether
  requests come or not (process_worker.py:60-78).
* `WorkerPool!FairSpec`: weak fairness of each thread that waits on a queue
  (once a response is there it stays until some thread of that worker has it, and one
  getter exists for each), of the executor's start of jobs, of each worker's
  loop, of joining and of the exit. Nothing obliges a client to send, the
  operator to close, or a process to die; `Terminate` is not fair either.

## 4. What is proved

TLAPS checks these for every value of the constants that satisfies the named
assumptions:

* `WheelAssumption` (positive tick length and slot count), `SecondAssumption`,
  `ClockAssumption`, `StoreAssumption`: numbers are numbers, and `None` is no
  value;
* `WorkerAssumption`: as the store's, for the constants of the worker; `Ops`
  names commands of `commands.py`. `PendingAssumption`: "no write pending" is
  not itself a command;
* `PoolAssumption`: at least one worker and one thread;
* `NumbersAssumption`, `LiteStoreAssumption`: there is a number of workers to
  choose, each positive; the integers a client writes as an argument of EXPIRE
  are 0 or less, as lifetimes are left to the other modules; `None` is no key and
  no code of an error;
* `ValuesAssumption`: `None` is no value, and no name that KEYS answers with;
* `TopKAssumption` (keys numbered by their rank, at least one tracked key, row
  and column);
* `MetricsAssumption`: finitely many names of commands, bounds and durations (a
  float has finitely many values).

The bounds (`MaxRecords`, `MaxCrashes`, `MaxRequests`, ...) are constants like
the others: the theorems hold for all of their values.

### Wheel and store

* `TimingWheelProofs!TypeCorrect`, `NoTimerMisfiled`: `[]TypeOK`, `[]WheelIndexed`
  under any clock. The inductive invariant is their conjunction,
  `WheelOK`: that an entry is in the slot of its stored tick (`Indexed`) is
  kept by `cancel` only if slots hold nothing else, and by `_rebase_origin`
  and `pop_due` only if the stored tick is that of the deadline under the origin
  in force (`TicksFresh`), which in turn needs that the origin is set before
  anything is scanned or stored (`ScanAnchored`). One lemma per method
  (`AnchorOK`, `CancelOK`, `RebaseOK`, `ScheduleOK`, `ScanOK`, `PopDueOK`).
* `TimingWheelProofs!NoTimerLaterThanOneRevolution`: `[]WithinOneRevolution`,
  which is about a forward clock, by induction with `WheelOK`. A tick further back than a revolution would have been
  met by the scan in its slot, at a tick not before its own
  (`UnscannedOneRevolution`), so that the entry would be gone or due later.
* `TimingWheelProofs!EveryStallEnds`: `StallsEnd` under any clock, from
  `WheelOK` alone. Whatever was filed behind the scan while the clock was back,
  among any `BucketCount` ticks on end one is in its slot (`SlotMetAgain`), and
  a scan of a revolution has that many.
* `MemoryStoreProofs!TypeCorrect`, `TimersAlwaysMatch`: `[]TypeOK` and
  `[]TimersMatchDeadlines` for any clock. The inductive invariant `StoreOK` adds the type and `WheelOK`
  of the store's wheel: that a popped or cancelled timer is the only one of its key
  rests on it. One lemma per method, each citing those of the wheel.
* `MemoryStoreProofs!KeepsPromise`: with a forward clock the store implements
  `ExpiringMap`, a map whose keys vanish at their deadlines or at most a
  revolution later. The invariant is `Timed`: `StoreOK`, and what the wheel
  promises under a forward clock, stated for the store. The initial states map
  to initial states; each command, and each stutter, is taken through the cycle
  that runs before it (which keys it may take, and which it must) and the
  change the command then makes.

### Worker and file

* `WorkerProcessProofs!TypeCorrect`.
* `NumbersIncrease`: `[]SequencesIncrease`. The file alone is not enough: a
  number is chosen before the record is written, and a torn line hides its
  number from discovery. The invariant says that numbers rise over the whole
  lines (`Ordered`) and that the counter of a live process continues them
  (`Continued`).
* `LossesBounded`: what a death may cost, as an action property. The invariant
  `Owed` bounds the answered writes that no fsync has covered, by policy: none
  with "always", and with "every_n" the appends counted since the last fsync,
  plus n - 1 for each life before, as a new process counts from 0.
* `RecoveryIsFaithful`, `LifetimesAreKept`: `[]RecoversMemory` and
  `[]KeepsLiveKeys`, both on the hypothesis that FLUSHALL is not among the
  commands. The first needs it, as FLUSHALL is not logged (`litestore_one_map` with {SET, GET,
  FLUSHALL}); the second
  has it from the invariant they share. Every other command is covered, whether
  logged or not.
  The invariant `Recalled` compares stores with files, key by key, without
  replaying anything: `Records` are the pieces that name a key, and
  `ReflectsKey` says what they leave of it: the value of the last SET that no
  DEL and no EXPIRE of 0 or less has followed (`Lives`), a deadline exactly if
  the last record is an EXPIRE, and how late it can be. What clients had seen
  when the file ended at some piece reflects the file up to there (`Remembers`).
  The store reflects the file together with the write in progress
  (`Coming`), from which both outcomes of a death follow. During a replay the
  store reflects the pieces before the cursor, and `RebuiltKey` adds what only
  a replay has: a value that is missing was outrun by a lifetime in the file
  (`Outrun`), and a deadline is counted from the beginning of the replay at
  least. Both theorems then compare two stores that reflect the same file.
  That each command and each replayed record makes one of a few changes to
  each key (`SameOrExpired`, `Absent`, `Applied`) is in `StoreLemmas`
  (`ExecuteEffect`, `ReplayEffect`, `UnloggedEffect`).

### Pool

* `WorkerPoolProofs!TypeCorrect`, `WorkersKeepOrder`, `StoppedWorkersAreDrained`,
  `ResponsesStayHome`, `GettersMatchRequests`: `[]TypeOK`, `[]ExecutedInOrder`,
  `[]StopsWhenDrained`, `[]ResponsesStayInPartition`, `[]OneGetterPerRequest`,
  for any numbers of connections, requests, workers, threads and deaths. The
  inductive invariant `IInv` has three parts above the types. `FlowOK`: what
  was sent to a worker is what it executed, what it is at, and its queue, around
  the place of the shutdown message. `Placed`: no request is at two places, from
  the connection that sends it (`Sending`) over the executor's queue and threads
  (`Waiting`) and the response queue (`Responding`) to the client (`Answered`);
  each of the four rests on the one before. `Counted`: while the server serves,
  the jobs that wait for a worker, queued or in a thread, are as many as its open
  requests and responses, or, once it is dead, no fewer than its responses; this
  is where a job that is started twice, or a response put twice, would show.
* `OwnResponsesAlone`: `[]OwnWorkerMatches`, what is left of
  `ResponseMatchesRequest` (run `pool_mixup`). `execute` trusts that what it
  takes is its own response; where no other client has used the worker it may.
  On top of `IInv`: a job is for the request its connection waits for
  (`Outstanding`), and of a worker with one user every request but that one has
  its response given (`AllGiven`). What is in a response queue has not been given
  (`Answered`), so it can only be the response to the request that waits
  (`OwnTake`). Once it is given the connection has no job left, as no request
  has two (`Waiting`, `Sending`), and may go on.

### Server

* `LiteStoreProofs!TypeCorrect`, from a client's line through parsing, routing,
  execution, serialisation, logs and restarts.
* `NumbersRise`: `[]SequencesOrdered`, on disk and in the buffer, inductive
  together with the types: it says already that the next number of each log
  continues it, strictly in multi mode and weakly in single mode, where a failed
  append leaves its record in the buffer and its number to the next.
* `KeysAreHome`: `[]KeysStayHome`, on the hypothesis that the number of workers
  of multi mode stays (`"multi" \notin Resizable`); otherwise it is false after
  the first restart that changes it. The stores alone are not inductive: a restart
  fills them from the logs, so that `LogsRouted` is needed: each log of multi
  mode, and what is left of it to replay, has only keys of its worker. In single
  mode the replay routes every record again, and nothing is needed of the log.
* `LiteStoreRefinement!ServerIsOneMapInPart`: `Spec => ImplementsMapInPart`, on
  the same hypothesis; and how the rest comes apart:
  `KeyCommandsAreOneMap`: `Spec => ImplementsKeyValueMap`, nothing granted, if no
  client sends MGET, KEYS or FLUSHALL (`Verbs`), in both modes and with any numbers
  of workers; `OneWorkerIsOneMap`: the same with MGET and KEYS, without FLUSHALL,
  for one worker in single mode. The three share the invariant (`Whole`) and its
  step (`StepWhole`). The mapping says what clients see of a key (`SeenAt`): what
  the store of its worker has, or, before that worker has replayed its log, what
  the log says of it last (`Recovered`). The argument has four parts.
  * Logs and writes. What a log says of a key is what the writes in it leave
    (`RecoveredIs`); what is appended to it has the same effect on the durable
    map as on the abstract one (`RecoveredConcat`, `DurableGrows`), whether it
    is one record, all that was held back with it, or the part of that which an
    append that failed, or `close()`, still wrote (`AppendPersists`,
    `FailPersists`, `StopMaps`).
  * Replays. The invariant `Replaying`: while something of a log is left, what
    is left is its end, and the stores have of the keys of that log what its
    beginning says of them. One record more keeps it (`ReplayStep`); the last
    one makes store and log agree, so that no client can tell when a replay
    ends (`ReplayMaps`), and no restart changes what is seen.
  * Requests. A request changes the store of one worker and the log of that
    worker (`Served`, `SeenAfter`); each command is then one lemma (`SetMaps`
    to `FlushMaps`), and lines that do not parse are another (`RefuseMaps`).
    `LineForms` takes every line apart, and `KeyedMaps` and `WholeMaps` put the
    commands about one key and those about all together. `KeysStayHome` is needed
    for MGET, KEYS and FLUSHALL, which look at a whole store: what it holds is part
    of the one map, that of the keys of the first worker (`FirstStore`).
  * Answers. What is serialised reads as what was to be said (`ReadSimple` to
    `ReadArray`), a value as what is heard of it (`HeardLine`).

### Hot keys

* `MetricsProofs!TypeCorrect`, `NeverUnderestimated`, `HeapAlwaysMatches`,
  `HeapAlwaysBounded`, `HotKeysAlwaysReported`: `[]TypeOK` and the four
  invariants of `metrics` about hot keys, for any keys, K, sketch and hash
  function. The
  inductive invariant `SoundTracker` is all of them at once, with the estimates
  taken apart into counters (`SketchOK`, `NotAhead`): a heap entry is never
  above any counter of its key, so that an increment of the key makes its next
  count exceed every old entry, and no stale entry can look current. A record
  is proved in two halves: after the increment everything holds but for the key
  recorded (`Ready`, `IncrementReady`), and each of the four outcomes
  (`UpdateSound`, `AdmitSound`, `ReplaceSound`, `IgnoreSound`) makes it hold for
  that one too; three of them by one lemma (`Settled`). That `_peek_min` finds
  the true minimum is `PeekMinExists` and `PeekMinLeast`.

### The page

* `MetricsProofs!HistogramAlwaysExact`: `[]HistogramExact`, for any finite sets
  of commands, bounds and durations. It is inductive with the types. One
  observation adds one to one bucket, the least that is long enough
  (`LeastBound`), hence one to each cumulative count from the duration on and to
  no other (`CumulativeStep`); the same of what was observed (`ObservedStep`).
  The sums are those of the library, defined by recursion over a set. As its
  induction theorems cannot be used, the lemmas on sums (`SumExists` to
  `SumZero`) take a smallest set that fails (`SmallestSet`) instead: the
  recursion has a solution, and one only, any element of the set may come first,
  and one more at one element is one more in all (`SumBump`).

Model-checked only: liveness (`EventuallyExpired`, `EveryWaitEnds`), out of the
prover's reach.

Not proved because not true: the properties of the runs that expect a
violation.

## 5. What is not modelled, and the plan

Not modelled:

* the listeners, HTTP, the command line, the names of connections and requests,
  and the configuration and declarations of types.py, errors.py, interfaces.py,
  config.py: no behaviour of their own;
* of the protocol, upper and lower case, kinds of white space, decoding, and the
  messages of errors (their codes are kept);
* of the metrics, the sum of latencies, the memory by prefix with the task that
  refreshes it, and the text of the page. In multiprocess mode the task does
  nothing, and the gauge stays empty;
* a change of mode between two runs, which reads other files;
* requests to a stopped `StoreWorker`, which raise a RuntimeError in the task
  of their connection;
* the snapshot control message has no sender, `force_fsync` no caller;
* the benchmarks in `scripts/` and the deployment files are not part of the
  program.

Next:

1. `ResponseMatchesRequest` for clients of which no two wait for one worker at a
   time, as a theorem: `OwnResponsesAlone` is about workers with one user.
