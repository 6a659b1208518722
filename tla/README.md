# parcagpu in TLA+

parcagpu is a library that CUDA loads into a process (`CUDA_INJECTION64_PATH`). It
subscribes to CUPTI, watches kernel launches, kernel records, loaded modules and,
if asked to, PC samples, and announces them through USDT probes. A consumer (the
BPF programs and the Go program under `test/bpf`, or `parcagpu.bt`) attaches to the
probes and may come and go while the process runs. `deploy/webhook` is a Kubernetes
admission webhook that mounts the library into pods.

The modules here model the parts of the library that threads share: what is
announced, in which order, how often, whether sampling that was switched on is
switched off again, what becomes of the samples, and how the profiler comes and goes
with its process. Paths below are paths of the repository without the leading
`src/` of the checkout: `src/cupti.cpp` is the file `PROJECT.json` calls
`src/src/cupti.cpp`.

| module | what it is |
|---|---|
| `GraphCorrelationMap` | the data structure of `correlation_filter.h/.cpp` as operators |
| `GraphQuiet` | abstract specification: what the map promises about a graph launch |
| `GraphTracker` | the map under concurrent launches and buffers; implements `GraphQuiet` |
| `Correlation` | launches, rate limiter, filter, map, buffers and batches together; implements `GraphTracker` |
| `PCSampling` | sampling windows, contexts, two mutexes, the out-of-memory reset |
| `CubinReplay` | how consumers, early and late, learn which cubins are loaded |
| `ContextMetadata` | setting up a context; the stall reason table and GPU configurations for consumers |
| `SampleDrain` | how PC samples leave CUPTI, from the record to the batch |
| `SamplingWindows` | abstract specification of sampling windows; `PCSampling` and `SampleDrain` implement it |
| `TokenBucket` | the two rate limiters of a thread |
| `RateController` | the lock-free controller of the sampling probability |
| `EnvConfig` | the environment variables: what is used, what is reported |
| `Profiler` | injection, initialisation, launches and exit |
| `SetupProofs` | the theorems and proofs about `Profiler` and `ContextMetadata` |
| `*Proofs` | the other ones: the theorems and proofs about the module of the same name |
| `MC*` | what TLC needs to instantiate the module of the same name |

Lines of code that a definition stands for are listed in `PROJECT.json` under `map`.
Definitions with a comment that begins with `Fault:` are not part of any
specification. Each is a definition with a plausible mistake in it, used to see that
the properties notice it (`mutants` in `PROJECT.json`).

## 1. Inventory

### Correlation filter and graph correlation map (`correlation_filter.h/.cpp`)

* State: a set of correlation ids of launches (`CorrelationFilter`); a map from the
  correlation id of a graph launch to two slots, a "seen" flag and the cycle of the
  insertion, and `current_cycle_` (`GraphCorrelationMap`). One mutex each, held for
  one member function at a time.
* Operations: `insert`, `check_and_remove`; `insert`, `cycle_start`,
  `check_and_mark_seen`, `cycle_end`.
* Hard: the calls of one buffer are separate critical sections, so buffers
  interleave; cycle numbers are `uint32_t` and slots alternate with their parity.
* Correct when: a graph launch is not forgotten while a buffer could still bring
  kernels of it, and not kept for ever.

### Callback handler and activity buffers (`cupti.cpp`, class `CuptiProfiler`)

* State: `outstandingEvents` (plain `size_t`), `g_bufferCycle` (atomic), and per
  thread `runtimeEnterCorrelationId`, the sampling window `g_pcSamplingState` and the
  token buckets.
* Operations: API ENTER and EXIT of runtime and driver calls, resource callbacks
  (contexts, modules), `allocBuffer`, `completeBuffer`.
* Interaction: ENTER and EXIT run in the application's threads, `completeBuffer` in
  whichever thread CUPTI chooses; they meet in the filter and in the map. Semaphores
  of the USDT probes tell whether a consumer is attached; the handler reads them
  again in each callback.
* Hard: the GPU may finish a kernel and its record may be processed while the
  launching thread is between probe and insertion; runtime calls make driver calls
  with the same correlation id; the consumer attaches in between.
* Correct when: kernels are reported after their launch and only then, a launch is
  announced once, records are passed on before their buffer is freed.

### Token buckets (`token_bucket.h`)

* State: tokens, rate, time of the last refill; two buckets per thread.
* Operations: `setRate`, `refill`, `tryAcquire`.
* Correct when: the rate is a bound over every interval, and a launch after a long
  enough pause is admitted.

### PC sampling rate controller (`cupti.cpp`, `PCRateController`)

* State: five atomics. Operations: `controllerMaybeUpdate`, `recordPCSamples`.
* Hard: no lock; threads overtake each other between two accesses; unsigned
  differences wrap.
* Correct when: an update counts the samples since the one before it, updates are a period
  apart.

### PC sampling (`pc_sampling.cpp/.h`, class `PCSampling`)

* State: `contextInitialized`, `contextFailed`, `contextIdToConfigureData`,
  `initializedContextIds`, `samplingActive`, `samplingContext`, two mutexes; the
  stall reason map; `loadedCubins`, `loadedConfigs` and the previous semaphore counts
  for replaying metadata.
* Operations: `initialize`, `finalize`, `start`, `stop`, `collectData`,
  `collectAllData` (never called), `loadModule`, `unloadModule`, `emitMetadata`.
* Hard: `collectData` may find CUPTI out of memory and reset the context from inside
  a callback, with or without `pcSamplingMutex` held; several threads may do so at
  once; metadata is replayed to consumers that attach late.
* Correct when: nothing deadlocks, the maps say of a context what CUPTI would, and
  kernels are not left serialised; every record is emitted once and none stays in
  CUPTI after a window; a consumer that stays learns of cubins, stall reasons and GPUs.

### Profiler life cycle (`cupti.cpp`: `InitializeInjection`, `init_debug`, `initialize`, `cleanup`)

* State: `initialized`, `pcSamplingEnabled`, `subscriber`, the globals `init_debug` sets,
  the atexit handlers and the singleton's destructor; in CUPTI the subscription, the
  callbacks enabled, the activity recorded.
* Operations: injection, the steps of `initialize`, exit, the steps of `cleanup`.
* Hard: every CUPTI call may throw half way; injection may be repeated; kernels are
  launched until the very end.
* Correct when: exit undoes what was set up, the last launches get their kernels, as far as
  their handlers are not overtaken, nobody uses a rate before it was read.

### Environment (`env_config.cpp`, and the readers of the variables)

* No state. `validateEnvVars` reports; `init_debug`, `getGPUSamplingFrequency`,
  `pcHardwareBufferMB` and `isSupported` use.
* Correct when: the two agree on which values are wrong.

### Other parts

* Observer, BPF (`test/bpf/activity_parser.bpf.c`, `ebpf/`): probe events into a ring
  buffer, which may be full.
* Observer, Go (`test/bpf/main.go`): cubin store, uprobe attachment, metrics.
* Admission webhook (`deploy/webhook/main.go`): a JSON patch for each pod.
* Webhook certificates, probe definitions, tests and mocks, build and deployment
  files: no state or protocol of their own.

The hazards of these parts, each at its line and with the properties that would
catch it, are in `PROJECT.json`.

## 2. The modules and the code

### GraphCorrelationMap, GraphTracker, GraphQuiet

`GraphCorrelationMap` has one operator for each member function, from the old map to
the new one; a map is a function whose domain is the set of tracked ids. Ages and
cycles are taken modulo `CycleMod` (2^32 in the code) and `MaxAge` is 100 in the code.

`GraphTracker` puts them in motion. `Insert` is the EXIT of a graph launch.
`FetchCycle`, `CycleStart`, `KernelRecord` and `CycleEnd` are the steps of
`completeBuffer` that touch the map or the counter: `g_bufferCycle.fetch_add` and
`cycle_start` are two steps, because nothing holds them together. An id is used by one
launch (CUPTI numbers calls), which then has up to `MaxKernels` records still to come;
records come in any buffer, in any order, or not at all: `Lost` is a kernel that ended when
`allocBuffer` had given CUPTI no buffer. `begun` is a history variable: buffers that
began since the insertion, counted up to `MaxAge + 1`.

`GraphQuiet` says what this amounts to when buffers come one after the other: a launch
is remembered until two whole consecutive buffers brought nothing of it, and a launch
that never had a kernel until more than `MaxAge` buffers have begun. No slots, no
parities, no wrapping. The refinement mapping in `GraphTracker` reads `quiet` off the
slot of `current_cycle`, `quietBefore` off the other slot, and `waited` off the wrapped
age. The very first buffer is number 0, the number that insertions before it recorded,
so it does not count as waiting: `started` in `GraphQuiet` and `NotStarted` in the
mapping are there for that.

### Correlation

The path of a launch to the consumer. Each of the application's threads is in a runtime
call, in a driver launch, or in a driver launch under a runtime call, which has the
runtime call's correlation id; a runtime call launches at most once, and the driver
callbacks the code subscribes to are launches only. A call may fail, which is a launch
of no kernels: the handler does not look at the result. EXIT is followed through its
steps: window, consumer, runtime id, limiter, `outstandingEvents++`, probe, insertion,
flush check. `outstandingEvents++` is a load and a store: the variable is a `size_t`
that all threads write, so other threads' writes are lost in between. The limiter is
abstracted to "admitted or not" (its arithmetic is `TokenBucket`), the window to open
or closed (its protocol is `PCSampling`).

Kernels end at any time after their launch, before EXIT too. CUPTI drops a record
only when `allocBuffer` gave it no buffer, which the code does while no consumer is
attached. A buffer is any set of the records that are there; `completeBuffer` is the
steps `FetchCycle` to `ResetOutstanding`, one step per critical section. The order of
the records within a buffer is any order. `filter`, `map` and the counters have the
names they have in the code. `probed` and `executed` are histories of what
the consumer was told, `begun` is the history of `GraphTracker`.

`Correlation` composes with `GraphTracker`, which leaves open who inserts a launch when, and how
many records come. `ImplementsTracker` says that the whole program is one such caller of the map.
In the mapping a graph launch is fresh until it has passed its insertion (`NotInserted`), and the
records to come are those on the GPU, with CUPTI or in a buffer thread's hands (`ToCome`), which
are none before the insertion: a record delivered earlier finds no entry. The steps after the loop over the
records, `SendRest` and `ResetOutstanding`, are not the map's (`TrackerPC`). What is true
of `GraphTracker` is so of the program, through the theorems of section 4.

### PCSampling

Each callback of a thread is a walk through the functions it calls. `Call` begins one;
`thread[t].pc` names the place it has reached, `op` the callback it is in, which
decides where `finalize`, `initialize` and `collectData` return to. A step ends where
a mutex is taken or let go, or where a map that locks itself is read or written.
`start` is one step: it does everything under `pcSamplingMutex`. `stop` is two: it
collects while it still holds the mutex, and the collection may want a reset.

* The program creates each context once, destroys it once, and makes no other call on
  it during the two callbacks. That is the contract of CUDA, not of this code.
* `CuptiStart` may fail; enabling may fail; `ConfigureData::initialize` may throw,
  which the handler catches. `CuptiStop` and disabling may be refused, which `stop` and
  `finalize` ignore: the flag is cleared all the same and CUPTI goes on. CUPTI's own
  state is `enabled` and `collecting`: a stop of a context that is not collecting has no
  effect, and disabling ends a collection. `unstopped` is a history: the contexts that CUPTI
  refused to stop, until they are started again.
* `Probe` is the `try_lock` on `pcSamplingMutex` that guards the reset. When `stop`
  called `collectData` the thread owns the mutex itself; the C++ standard leaves that
  undefined, glibc's mutex answers "busy", and that answer is modelled.
* `samplingContext` is written and never read by the code. It is kept because
  `OneContextSampling` is about why it should be.
* `emitMetadata` and `loadModule` also take `contextMutex`, each alone and for a short
  critical section without another mutex; they are in `CubinReplay`.

### CubinReplay

`loadModule`, `unloadModule` and the cubin part of `emitMetadata`. A thread keeps nothing from one
callback to the next, so a thread of the program that both loads modules and makes API calls is
one of `Callers` and one of `Loaders`.

* `Callers` go through `emitMetadata` one access at a time: read the clock, compare with and store
  `lastRefreshNs`, read the semaphore, exchange `prevCubinSem`, replay. The loop of the replay is
  one step, because it holds `contextMutex` and so does everything else that touches the list.
* `Loaders` go through `loadModule` and `unloadModule`, one step for each locked call of the map
  `cubinCrcToCubinData`: `contain`, `operator[]` (which makes an entry where there is none), `erase`.
  `second++` is a load and a store through the reference `operator[]` returned, outside the map's
  lock; a store to an entry that was erased since is taken to have no effect. `DEBUG_PRINTF`
  is left out.
* A module counts as loaded from the end of its `MODULE_LOADED` callback to the beginning of its
  `MODULE_UNLOAD_STARTING` callback. Before and after, no kernel of it runs.
* Times are ages, relative to now and capped at `Old`, where every comparison has the same answer
  for good: `lastEmittedNs` and `lastRefreshNs` are kept as how long ago they were, `nowNs` as how
  long its thread has held it. A difference in the "wrong" order wraps in the code and is more
  than a period here (`MoreThanAPeriod`).
* `known` is what each consumer was told and not told otherwise; a consumer begins with nothing.
  A consumer that attaches in the middle of a replay is taken to attach after it.
* The stall reason table and the GPU configurations are replayed by the same three lines with
  semaphores and previous counts of their own; they are in `ContextMetadata`.

### ContextMetadata

`initialize` of a context, as far as it leaves something behind, and the two parts of
`emitMetadata` that `CubinReplay` leaves out.

* `InitializeContext` to `AnnounceConfig` is one walk under `contextMutex`: stall reasons, the attributes
  for CUPTI with the sampling buffer among them, `outputData`, the table (free, calloc, fill), the
  GPU configuration. The calls of the first half may throw, and then the context is not tried again.
  A context that is initialised may be set up once more, which is the reset after an
  out-of-memory error; the `finalize` in front of it is one step with it here.
* `EmitStallReasonMap`, `EmitConfigs` and `ReplayConfigs` are the replay. The table is read under no
  lock; what a consumer reads through the pointer is `Readable`: while the table is being rebuilt it
  is memory that was freed, or not filled yet. In the code several threads may be anywhere; the
  finer steps between reading a semaphore and exchanging the count are `CubinReplay`'s subject.
* A consumer takes in the first table it is shown and no other, which is what
  `handle_stall_reason_map` in `test/bpf/activity_parser.bpf.c` does.
* Time passes in whole periods: an entry is `stale` once a period has passed since its last
  announcement. Entries that resets add to `loadedConfigs` for one context are one entry.

### SampleDrain

One context. A drain is the loop of `collectData`, in the EXIT of a thread with a window
(`CollectData`), in `stop`, under `pcSamplingMutex`, or in `finalize`. Its steps are the places where
another drain may get in between: the call of CUPTI, the count for the controller, each
batch, the test at the end of the loop.

* Records are numbered in the order in which CUPTI hands them out; `outputData` holds a run of
  them. `Share` is CUPTI's side of the call: a full buffer, or what there is, and how much remains.
  A record stands for a (PC, stall reason) table of samples; the sum over its stall reasons is one unit.
* An error ends a drain, whatever the error. What follows `CUPTI_ERROR_OUT_OF_MEMORY` is
  in `PCSampling`.
* `counted` and `emitted` say how often each record was told of; `shared` is a history: two drains have
  overlapped; so is `failed`: the last call of CUPTI ended in an error.
* CUPTI may refuse a stop, in `stop` and in `finalize`: then it goes on producing although the flag is
  clear (`unstopped`), until the next start.
* The mutexes are reduced to `pcSamplingMutex` held by `stop`.

### SamplingWindows

What `PCSampling`, without samples, and `SampleDrain`, without contexts and resets, have in common: a
thread opens a window, and sampling may be on from then; who closes a window first while it is on switches it
off and keeps everybody else from opening or closing until its own window is closed. Both implement it,
by mappings in their proof modules. In `PCSampling` a window counts as open once `start` has had
its turn, which in `SampleDrain` is the same step as `st.active = true`. The
guards with which `SampleDrain` takes the flag, the mutex and the windows are thus those that the
whole of `PCSampling` leaves.

### TokenBucket

One thread, two buckets. `Launch(k)` is the limiter part of an EXIT: apply the
configured rates once, refill, take a token or not. Tokens are counted in parts, so
that a tick of the clock is worth a whole number of parts; the doubles of the code are
taken to be exact. The clock is not 0 when the program starts (`CLOCK_MONOTONIC`), which
the code needs because 0 means "never refilled". `since` and `admitted` are a history:
`CountFromNow` begins a count at an arbitrary moment, so that `RateBound` speaks of every
interval and not only of those that begin with the program.

### RateController

One step per access to an atomic, each thread with its locals. Sums and differences are
those of `uint64_t` (`Plus`, `Minus`, modulo `Word`). The probability is a level between
0 and `MaxLevel`; the code multiplies it by a factor it keeps between
`1/kPCControlStepShrink` and `kPCControlStepGrow`, and any such factor is one level here.
The tolerance is the code's quarter. Atomics are taken to be sequentially consistent, those the
code reads with `memory_order_relaxed` too.

The single delta may wrap, when a thread loads the total, is overtaken by another
thread's exchange and then exchanges its older total; the update after that one counts again
what the overtaking thread has counted. Three histories say where this may be: `seen` is the
total up to which samples have been in a delta, `overtaken` has the threads between their load and
their exchange when another one exchanged, and `late` says that the latest exchange was of one of
these. `DeltaIsNewSamples` is about all the other updates.

### EnvConfig and Profiler

`EnvConfig` holds operators only. An environment maps the names that are set to the number
`atof` or `atoi` makes of the text. `Configured` is what `init_debug` and the functions of
`pc_sampling.cpp` use; `Unrecognised` and `Rejected` are what `validateEnvVars` reports. Probabilities
are thousandths.

`Profiler` follows the one thread that is in `InitializeInjection` or in `exit`, one step per
call of CUPTI, each with its failure: a throw out of `initialize`, which `InitializeInjection`
answers with 0; in `cleanup` an error that is logged, or, for the functions of `proton`,
a throw, which the atexit handler catches and the destructor does not. `initialized` is an exchange
in both. `cleanup` is registered once for each call that answered 1; when all handlers have run, and the
destructor if there is an object, the process is `Gone`.

Other threads launch kernels until the destructor is done. `Launch` is the launch with CUPTI's look
at the callbacks that are enabled; from then on the EXIT handler is running, and `ExitHandler` is what it does,
at any later time: copy the rates or not, announce and insert the id or not. In between cleanup may disable the
callbacks, flush and unsubscribe. `exitHandler` says of each thread whether a handler is running, and
whether the record of its kernel is in CUPTI's buffers or was delivered already; `waiting` are announced
launches whose records are in the buffers. A record that is delivered before its id is inserted is filtered,
so that the launch stays without its kernel: `unmatched` is the history of that, and `overtaken` the one of the
threads whose handler was running when CUPTI completed a buffer or when the last launch callbacks were disabled.
Between probe and insertion there is no step here; a record delivered there fares like one delivered before.

Taken for granted: the driver does not call `InitializeInjection` twice at once, and no thread exits
while another is inside it; a forced flush delivers the records of all kernels launched before it, and a callback
that is disabled is not called again. A handler that is still running when the singleton is destroyed is not
modelled. That depends on what CUPTI guarantees after `unsubscribe`, which nothing in the repository says.

## 3. What the runs check

All bounds are constants of the configurations. Runs with "violation" have one property
that a comment, a document or a definition of the repository states and that the code does
not keep (section 5).

| run | question | outcome |
|---|---|---|
| `graph_one` | with one thread in `completeBuffer`, does the map implement `GraphQuiet`, do entries survive two buffers, and do they leave? | holds |
| `correlation` | launches, GPU, buffers and a consumer that comes and goes: order, at most one announcement, at most one match, batches, flushes; is what happens to the graph map what `GraphTracker` says? | holds |
| `pcsampling` | three threads, one context, calls that fail: lock order, maps against CUPTI, the flag against CUPTI and cleared in the end | holds |
| `pcsampling_contexts` | two contexts: is at most one sampled? | violation |
| `sample_drain` | two threads draining one context: each record once, nothing left after a window, drains end | holds |
| `context_metadata` | a context set up and reset while its metadata is replayed: room, whole tables, consumers told | holds |
| `cubin_replay` | two threads replaying, one loading modules of one cubin, a consumer that comes and goes: is it told of every module, do list and counts follow the modules? | holds |
| `cubin_replay_race` | two threads loading modules of one cubin: is every loaded module on the list? | violation |
| `profiler` | failing and repeated injections, an exit among launches and handlers under way: all undone, nothing left to flush, rates and reports | holds |
| `token_bucket` | two rates of more than a launch a second: bound over each interval, no starving | holds |
| `rate_controller` | two threads in the controller: what a delta counts, early updates | holds |
| `rate_controller_period` | one update per period? | violation |

### Bounds

* `graph_one`: `CycleMod = 8`, `MaxAge = 3`, two launches with up to two records each. The
  cycle counter is not bounded, it wraps: behaviours are infinite and each launch can meet
  every position of the counter, so that entries are inserted before and looked at after the
  wrap. `CycleMod` must be even, for the parity to survive the wrap, and larger than
  `MaxAge + 1`; 2^32 and 100 are both. Two launches suffice as entries do not
  influence one another.
  With two threads in `completeBuffer` cycles start out of order; `RemovalAfterTwoBuffers` (section 4)
  is a theorem for any number of threads.
* `correlation`: two application threads, one `completeBuffer`, a plain and a graph id, up
  to two kernels a call, two buffers, `FlushLimit = 1` and `BatchSize = 2`, so that flushes
  and full batches happen with two events; with two buffers the records of a launch come
  in one or in both of them, before or after the insertion. The graph map forgets a launch
  in the third buffer at the earliest: that is a subject of `graph_one`, and the refinement
  `ImplementsTracker` is a theorem for any number of buffers. Application threads are symmetric. Two `completeBuffer`
  threads multiply the states by more than a run can bear; that case is covered by the
  theorems, which hold for any number. `PcSampling` is off: an open window only takes away the
  limiter's choice to say no, so that the behaviours without it include the others.
* `pcsampling`: three threads, because the reset needs one that collects, one that resets
  and one that starts again; a context is created and destroyed, windows open and close without
  bound. One context: with two, `OneContextSampling` and `CollectingMeansActive` fail, which is
  `pcsampling_contexts`, and the state of two contexts is otherwise independent except for the
  two mutexes and the flag; the theorems on locks, maps and windows hold for any number.
* `cubin_replay`: two callers, because it takes two to exchange `prevCubinSem` out of order; one
  loader and two modules of one cubin, so that the count goes to two and back; one consumer, which
  may leave and come back between two reads, so that the semaphore shows no change. `Period = 1`
  and `MaxStall = 1`: a thread may use a `nowNs` that is as old as a period; time itself is not
  bounded. `cubin_replay_race` has two loaders and one caller.
* `sample_drain`: two threads, a buffer of three records, batches of two, four records: buffers that are
  full and one that is not, batches that are full and a rest, and a drain that needs two
  calls. Two threads are enough to overlap.
* `context_metadata`: one context with two stall reasons, set up and reset any number of times,
  two threads, so that one is shown the table while the other builds it, one consumer. Two contexts
  share only the table and the mutex, and a reset goes through the same steps.
* `profiler`: two calls of `InitializeInjection`, so that the second meets what the first left; two threads
  that launch, which are alike; nothing set, one variable at the values at and next to the bounds of
  what is accepted, a name nobody knows, or two variables. A thread launches as often as it likes, one
  call at a time.
* `token_bucket`: eight ticks, a second of three ticks, three eager and one and a half
  graph launches a second: one rate is a whole number of tokens, the other one is not, and
  the bucket is full several times over within the bound.
* `rate_controller`: words of 16, clock to 6, period of 2, two samples: two periods and a
  bit, and every wrap of a difference is visible.

### Fairness and liveness

* `GraphTracker` (`DrainedEntriesLeave`): weak fairness of `FetchCycle`, `CycleStart` and
  `CycleEnd` of each thread. `completeBuffer` is a loop over a finite buffer without waiting
  but for the map's mutex. That there is always another buffer is what the handler's flush
  every 3000 launches provides for a program that goes on launching. The GPU is not assumed to
  be fair: the property is about launches whose records have all come.
* `PCSampling` (`SamplingStops`): strong fairness of a thread's steps, since a step may wait
  for a mutex that others take and release for ever, and strong fairness of `CloseWindow`: a
  thread with an open window launches again, outlasting the interval. The code gives no other way
  to close a window; a thread that ends or never launches again leaves sampling on, and the
  property says nothing of it. A context that is destroyed ends the obligation.

* `CubinReplay` (`EveryConsumerTold`): weak fairness of the steps of each caller, including the
  first: the program goes on making API calls, without which nothing is ever replayed. Weak
  fairness of the steps of a module callback once it has begun, and of time; `MaxStall` keeps time
  from passing a thread that holds a `nowNs`. Modules and consumers may do what they like.
* `ContextMetadata` (`MetadataComes`): the program goes on making API calls, in which it gets
  a mutex that is free again and again: strong fairness of the steps of `emitMetadata`. Weak
  fairness of the steps of `initialize`, which hold the mutex already, and of periods.
* `SampleDrain` (`DrainEnds`): weak fairness of the steps of a drain, a loop without waiting. CUPTI may
  fail at each call, and kernels may go on producing up to the bound.

### Deadlock

TLC checks for deadlock in `graph_one`, `correlation`, `cubin_replay`, `cubin_replay_race` and
`context_metadata`. It is off in the other modules because they may really stop:
`TokenBucket` and `RateController` when their bounded clock is used up, `PCSampling` and
`SampleDrain` when the context is destroyed and no callback is left, `Profiler` when the process
is gone. A deadlock of the mutexes of `PCSampling` is excluded by `LockOrder`, and for any number of threads by the
theorem `WaitsEnd` (section 4); `SamplingStops` fails in a state where threads wait for each other with a window open.

### Properties

* `ImplementsQuiet`, `TwoBuffersBeforeRemoval`, `UnseenLeavesOnlyOld`, `DrainedEntriesLeave`:
  see section 2.
* `ImplementsTracker`: a launch is inserted once, nothing but the map's own operations touches an
  entry, each buffer thread calls them with the cycle it fetched, and a launch has no more records
  after its insertion than were under way then (section 2).
* `CorrelatedBeforeExecuted`: no kernel is reported before its launch was announced.
* `AnnouncedOnce`: a runtime call and the driver call under it are announced once together,
  whoever attaches in between. It rests on the thread-local left by ENTER even when EXIT
  returned early.
* `PlainMatchedOnce`: a plain launch is matched by one record; its id does not come back.
* `BatchesSent`: the batch has room for the next record, and is empty when the loop is over:
  its pointers point into a buffer that is about to be freed.
* `FlushComes`: the counter without a lock may lose increments and resets, but whenever it is
  above the limit some thread is between its increment and its look at the limit.
* `LockOrder`: `contextMutex` before `pcSamplingMutex`, and nobody waits for a mutex it holds.
* `InitializedConsistently`: whenever `contextMutex` is free, an initialised context is
  enabled in CUPTI, has not failed, and is listed exactly once.
* `SomeoneWillStop`: while the flag is set, some thread has a window that it will close. `SamplingStops`: a flag that
  is set is cleared. Both speak of `samplingActive`: what CUPTI does after that is the next property.
* `CollectingMeansActive`: with one context, CUPTI collects only while `samplingActive` is set, or because it
  refused to stop.
  The converse is false: between `stop` and `disable` inside `finalize` another thread may
  start, and `disable` ends the collection under a flag that stays set until that thread stops.
* `ListMatchesModules`: whenever no module callback is under way, the count of each cubin is the
  number of its loaded modules, and it is on the list once if there are any. `LoadedModulesListed`
  is the half a consumer sees, and fails with two loading threads.
* `EveryConsumerTold`: a consumer that stays is told of every module that stays, although detaching
  and attaching between two reads of the semaphore is invisible, and although threads exchange
  `prevCubinSem` in any order. It rests on the periodic refresh, not on the semaphore.
* `RoomForStallReasons`: the buffers of a context that samples have room for the stall reasons of its GPU,
  after a reset too.
* `TableWhole`: a consumer has the whole table, or was shown it at the very moment a context was being
  set up. `MetadataComes`: a consumer that stays has table and configurations in the end,
  although a consumer that attached before there was a table has used up its join.
* `OnceUnlessShared`: when nobody drains, each record handed out was counted once and emitted once, unless
  two drains have overlapped in `outputData`; then records are lost or doubled.
* `WindowDrained`: when sampling is off, CUPTI did stop, nobody drains and no call failed, CUPTI has nothing left, although other
  threads may have taken part of the data, and `finalize` may have ended the sampling.
* `DrainEnds`: a drain ends, whatever CUPTI answers and whatever remainder an earlier call left behind.
* `ExitLeavesNothing`: once the process is gone and CUPTI refused nothing, nothing is subscribed or recorded. For
  an initialisation that failed the destructor does it, as no handler was registered.
* `LastLaunchesReported`: once the process is gone and CUPTI refused nothing, CUPTI has no record of an announced
  launch, and a launch went without its kernel only if its handler was running when a buffer was completed or
  when the callbacks were disabled. It rests on every group of launch callbacks being disabled before the flush.
* `RatesAsConfigured`: no thread copies rates before the environment was read.
* `DefaultsReported`: a variable is reported if and only if the default is used instead of its value, with the
  exceptions that section 5 lists: two variables are not reported when they are 0, and `GRAPH_RATE_LIMIT` always is.
* `RateBound`: in any interval of d ticks no more launches are admitted than a full bucket and
  what d ticks bring. `QuietLaunchAdmitted`: with a rate of one launch a second or more, a launch after a pause
  worth a token is admitted, whatever the other kind of launch did. The run has two such rates; the theorem
  is for any.
* `DeltaIsNewSamples`: an update that no other thread's exchange overtook between its load of the total and its
  own exchange has a delta that does not wrap; if the update before it was not overtaken either, it counts
  all samples that no delta counted yet, and no others. `EarlyOnlyIfOvertaken`: an update that comes before its
  period is over sets the time back.

## 4. What is proved

The theorems hold for every value of the constants that satisfies the named assumptions of the
modules: any number of threads, contexts, launches, kernels, buffers, any even width of the
cycle counter, any rates. The assumptions say that constants have their types, that ids of plain
and of graph launches differ, that `CycleMod` is even and exceeds `MaxAge + 1`, that bounds fit
into a word, that `Nobody` is no thread and `NoId` no id, that the values in an environment are
numbers, and that consumers are finitely many (a semaphore counts them).

* `GraphTrackerProofs`. It begins with lemmas about `GraphCorrelationMap`: arithmetic of the
  wrapping counter (distance to the next cycle, parity of the next cycle) and the types the operators return.
  * `TypeCorrect`.
  * `RemovalAfterTwoBuffers`, for any number of threads. Inductive invariant
    `ClearedMeansBegun`: a slot can be cleared only by a `cycle_start` after the insertion, and
    both slots only by two of them. The property itself is not inductive, because it says
    nothing of an entry that stays.
  * `Refinement`, for one thread in `completeBuffer`: `Spec` implements `GraphQuiet`. It needs
    `OneWorkerInv`: `g_bufferCycle` is one ahead of the cycle in hand, no entry is of a later
    cycle, and the age of an unseen entry has not wrapped, because it leaves first.
  * `UnseenRemovedOnlyOld`, for one thread. `BegunCoversAge`, on top of `OneWorkerInv`: the
    wrapped age of an unseen entry is no more than the buffers that began since its insertion.
* `CorrelationProofs`, all of them for any number of application threads and
  `completeBuffer` threads
  * `TypeCorrect`, `BatchesAreSent`, `FlushIsComing`: inductive as they stand, with the types.
  * `LaunchesAnnouncedOnce`, from `AnnounceInv`: an id is in the hands of one thread, a driver
    call with `nested` has the id its thread's `runtimeEnterCorrelationId` holds, and an id whose
    call has not passed the probe has no announcement.
  * `NoOrphans` and `PlainLaunchesMatchedOnce`, from `MatchInv`, which adds that ids in
    the filter or in the map were announced, and that an id matched is in no thread's
    hands before its insertion.
  * `TrackerImplemented`: `Spec` implements `GraphTracker`. `TrackerStep` goes through the actions:
    `Insert` of a graph id is `Insert` of the map, with as many records to come as are under way;
    `EmitRecord` and `FilterRecord` of a launch that is inserted are `KernelRecord`; `KernelEnds`
    without a record is `Lost`; all that is the filter's, the counter's or a plain launch's leaves the map's side
    alone. It needs the invariants above and `DeliveryInv`: a record is in one place at a time
    (`OnePlace`), or two deliveries would count for one; no record of an id is under way before the launch
    of that id (`NothingBeforeLaunch`), or records would come from nowhere; a buffer thread that is through
    its loop has none left (`TodoDone`).
  * `EntriesSurviveTwoBuffers`, `UnseenLaunchesKept` and `QuietImplemented` take the theorems of
    `GraphTrackerProofs` through that refinement: they are about the callbacks, filter, map and buffers
    together. The last two are for one buffer thread, as the theorems they come from.
* `PCSamplingProofs`, for any number of threads and contexts
  * `TypeCorrect`, `MutexesInOrder`, `SamplingHasAnOwner`, `SetupConsistent`. `MutexInv` says exactly who owns each mutex at each place of the code;
    `WindowInv` ties a thread inside `start` or `stop` to its window; `SetupInv` follows a
    context through the half-done states of `finalize` and `initialize`. That a context is
    never listed twice is part of `TypeCorrect` and comes out of `SetupInv`.
  * `FlagFollowsCollection`, for one context: `CollectingMeansActive`, which has its refused stops. With two it is
    false.
  * `WaitsEnd`, from `MutexInv`: freedom from deadlock. `Awaited` is the owner of the mutex a thread is about to
    take; a thread inside a callback goes on, or the one it waits for does, or the one that this one
    waits for. No thread has returned with a mutex, and no chain is longer than two: a
    thread at `finLock` or `initLock`, one in `finalize` at `finStop`, one that drains in `stop`.
    `StepsWaitForNobody` says that what is called waiting is what keeps a step from being taken.
  * `WindowsImplemented`: `Spec` implements `SamplingWindows`. `MutexInv` and `WindowInv` give the guards of
    `Closes` and `Opens`; `StopsOwnWindow`, that a thread on its way to `stop` has its window open, those of
    `SwitchesOff` and `FindsItOff`; the stop inside `finalize` is `Ends`.
* `TokenBucketProofs`
  * `TypeCorrect`, `AdmissionsBounded`. The inductive invariant `IInv` has `Accounted`: what was
    admitted since the count began, plus what is in the bucket, plus what a refill now would add
    (`Credit`), is within the bound.
  * `PausesRewarded`, for any two rates; the property itself is about those of one launch a second or more.
    `FirstToken` says that a bucket with such a rate that was never asked still has its token.
* `RateControllerProofs`: `TypeCorrect`, `DeltasExact`, `EarlyUpdatesSetTimeBack`; the invariant
  `IInv` has `Waited`: a thread about to exchange the time has waited a period, or read the
  clock before the update it read; `SeenInv`: unless the latest exchange was a late one, `lastCheckTotal` is
  what has been seen; and `Loaded`: what a thread has loaded and not exchanged is at least that, unless it
  has been overtaken.
* `CubinReplayProofs`
  * `TypeCorrect`, for any number of callers, loaders, modules and consumers. `LoaderOK` adds that a loader in a
    callback has a module and counts down from two or more.
  * `ListMatchesUnlessOverlapping`, for any number of loaders: in a behaviour in which callbacks of one and the same
    cubin never overlap (`[]OneAtATime`), map and list agree with what is loaded of each cubin that no
    callback is about (`CubinsMatch`). The inductive invariant `ListInv` says for each
    callback how far it is with its cubin (`UnderWay`), what count and list are of the other ones (`Agrees`), and that
    no cubin is on the list twice (`ListedOnce`). `cubin_replay_race` is about what happens where they do
    overlap; the theorem says that nothing else can go wrong between loading threads.
  * `OneLoaderListMatches`: `ListMatchesModules`. With one loader there is nothing to overlap.
  * `RefreshReachesEveryone`, under `OneAtATime` too: a consumer that has been attached for more than `Period + MaxStall`
    knows the cubins of all loaded modules after any replay (`RefreshReaches`). The history variable `stays`, by
    which `StaysSpec` extends `Spec` (`StaysOnlyWatches`), is how long each consumer has been attached. `StaysInv`: a consumer
    that lacks a cubin on the list has come after it was last announced (`ListKnown`), unless the cubin is about
    to leave the list; the same of an entry announced and not yet on the list (`PushKnown`). So, for one that has been
    there longer than a period, the entry is due. The bound cannot be made smaller: TLC finds the property
    violated with `Period + MaxStall - 1`.
* `SampleDrainProofs`, for any number of threads and records, any sizes of buffer and batch
  * `TypeCorrect`.
  * `WindowIsDrained`. The invariant is `DrainInv`: while data is left in CUPTI and sampling is off, CUPTI having
    stopped, somebody will ask again (`WillAskAgain`): a drain that has not called yet, or one that has and saw a remainder.
  * `OnceUnlessBufferShared`. `OnceInv` says, while drains do not overlap, that there is one at most, and
    for each place of its loop up to which record all were counted and emitted once, and none beyond
    (`TalliedSoFar`, `UpTo`).
  * `DrainsGoOnOnlyForRecords`: why drains end. `Rank` bounds the steps a drain has left as long as CUPTI hands
    nothing out: every step of the drain lowers it, and no step of another thread raises it, although that
    thread may rewrite the remainder both of them test. With `GetDataFails` going on after an error this is false.
  * `WindowsImplemented`: `Spec` implements `SamplingWindows`, from `HolderInv`, that the mutex is held exactly during a drain
    of `stop`. `DrainsKeepWindows` takes `WindowsKept` through that refinement: while sampling is on somebody
    has a window to close, and a closing drain has it off throughout.
* `SetupProofs`, about `Profiler`, for any number of launching threads and injections and any set of environments
  * `TypeCorrect`, with `TypeInv`: a call under way has not registered its handler, and callbacks are
    enabled for a subscriber.
  * `RatesCopiedAsConfigured`, from `RatesInv`: no callback is enabled, no handler runs, and no later place of the
    set-up is reached, before the variables have been read (`ReadFirst`).
  * `DefaultsAreReported`: what some operators of `EnvConfig` use against what others report, variable by
    variable, for any numbers.
  * `ExitUndoesEverything` and `LastLaunchesAreReported`, from `ExitInv`: what is initialised has a
    destructor that will run, also when the set-up failed half way and no handler was registered (`OwnerInv`);
    with no call refused, cleanup has at each place disabled the groups before it, and from the last one on every
    handler still running has been overtaken (`NoMoreLaunches`); so has every one that finds its record delivered
    (`OvertakenInv`); and outside of set-up and cleanup an uninitialised profiler has nothing in CUPTI, no record
    of a launch announced or about to be among it (`NothingLeft`).
* `SetupProofs`, about `ContextMetadata`, for any number of threads, contexts and consumers. The module extends
  both, which is why the definitions of a specification are `MInit`, `MNext`, `MSpec` and `MTypeOK` there.
  * `MetadataTypeCorrect`, `BuffersHaveRoom`, `TablesAreWhole`, from `MetadataInv`: who sets a context up
    holds the mutex, and nobody takes the context for set up meanwhile (`LockInv`); at each place of the
    set-up the buffers made so far are of the size of the GPU (`RoomInv`); the table is freed or zeroed only while
    somebody is there to build it (`BuildInv`).

Only model-checked: `DrainedEntriesLeave`, `SamplingStops`, `EveryConsumerTold`, `MetadataComes` and
`DrainEnds`. They are liveness under fairness, which is out of the prover's reach. What three of them rest on is
proved as safety: that a drain has fewer steps left with each of them (`DrainsGoOnOnlyForRecords`), that no callback is
stuck and sampling has an owner (`WaitsEnd`, `SamplingHasAnOwner`), and that whatever replay comes, a consumer that
has stayed long enough is told of everything (`RefreshReachesEveryone`); that the drain steps,
the owner stops and the replay comes is the fairness. Every invariant, every action
property and every refinement that a passing run checks is stated by a theorem, some of them under a
condition that the run satisfies too: one buffer thread, one context, one loader.
The theorems that no run checks (those on `SamplingWindows`, `WaitsEnd`, `DrainsGoOnOnlyForRecords`,
`ListMatchesUnlessOverlapping` and `RefreshReachesEveryone`) were looked at with TLC on the instances of the runs before they were proved.

No definition is recursive; nothing proved here is about the value of a recursion.

## 5. Where the code and what is said of it differ

* `pcsampling_contexts`: `pc_sampling.h:148` says one context can be sampling at a time. `stop` does not look at
  `samplingContext` (`pc_sampling.cpp:593-598`). A window belongs to a thread, but the context is that of the
  launch that closes it (`cupti.cpp:637-645`). A thread starts sampling on one context and closes its window at a launch
  on another one; `stop` asks CUPTI to stop the latter, which is not collecting, and clears the flag.
  CUPTI goes on with the first context, and the next window starts the second one beside it.
  No call is refused on the way. `finalize` asks in the same way (`pc_sampling.cpp:876-879`), in spite of the comment
  "Stop sampling if it was started on this context".
* `cubin_replay_race`: `pc_sampling.h:157-158` keeps `loadedCubins` "for replaying cubin_loaded probes
  to late-attaching tracers". `loadModule` asks `contain` and counts up in two critical sections; if
  another thread unloads the cubin's last module in between, the count starts again at 1 in an entry
  that nobody announces or lists. The module is loaded, consumers were told it is gone, and no
  replay names it. Two threads that count up at once, or that both find the cubin absent, lose a
  reference with the same effect at the next unload.
* `rate_controller_period`: `cupti.cpp:163` says one thread per period updates. `now` is read
  before `last`, and a thread overtaken in between finds a wrapped difference.

Noticed on the way and not the subject of a run:

* `correlation_filter.cpp:83` calls an entry that goes without kernels "very old". Two threads can
  start their cycles in the order opposite to the one they fetched them in; an entry inserted
  between is ahead of `current_cycle_`, its age wraps, and it goes after two buffers.
  `UnseenLeavesOnlyOld` is violated with two workers, one id, `CycleMod = 8`, `MaxAge = 4`.
* Between `fireCubinUnloaded` and the removal from the list a replay announces a cubin that is gone.
* `loadedCubins` keeps the pointer of the first module of a cubin, also after that module is
  unloaded while others of the same cubin stay; a replay passes it on.
* `test/bpf/main.go` counts `cubin_loaded` events, replays among them, in a gauge of currently
  loaded modules.
* `cupti.cpp:702-704` exempts launches from the limiter while sampling is active because "every kernel
  needs its correlation callback". The EXIT that closes a window has reset `st.active` by then
  (`cupti.cpp:644`), so that the last launch of each window, sampled like the others, may be limited.
* A rate between 0 and 1 is accepted (`env_config.cpp:64-69`, `cupti.cpp:198-200`), but the bucket is cut to the rate
  and never holds the one token a launch takes (`token_bucket.h:43-44`): no launch of the kind is announced, however
  long the pause. `QuietLaunchAdmitted` without its condition on the rate is violated with such a rate.
* `stop` and `finalize` ignore whether CUPTI stopped (`pc_sampling.cpp:597`, `877`; `stopPCSampling` answers
  false, 94-106). After a refused stop the flag is clear, the log says "kernels concurrent", and CUPTI goes on
  collecting with kernels serialised until the next start or `disable`, whose failure is ignored too (116-118). Every
  later `stop` returns at once, because the flag is clear. `CollectingMeansActive` without `unstopped` is
  violated by one refused stop.
* A thread in `controllerMaybeUpdate` that is overtaken between its load of the total and its exchange computes a
  difference of nearly 2^64 samples and cuts the probability by a full step; the next update counts samples a second
  time (`cupti.cpp:167-171`). `DeltaIsNewSamples` is violated without either of its two conditions.
* `cleanup` disables the callbacks and flushes (`cupti.cpp:338-361`), but waits for no handler: one that CUPTI has
  called before may announce its launch after the flush, when the record of its kernel has been delivered and
  filtered. `LastLaunchesReported` is violated if the handlers that run at the disabling are not among
  `overtaken`. The same befalls a handler at any time when CUPTI completes a buffer before the id is inserted.
* `pc_sampling.h:118` has `stop` "drain accumulated data, and emit probes". Drains take no lock of their own
  and share `outputData`: two threads that drain one context at once overwrite each other's records
  before they are emitted, or emit them twice. `EveryRecordOnce`, without the "unless shared", is violated
  with two threads.
* A consumer that is shown the stall reason table while a context is being set up may read freed or empty
  memory, and keeps what it read: it takes a table once. `TableWhole` without `raced` is violated.
* A reset adds another entry for the same device to `loadedConfigs`; all of them are announced.
* With `PARCAGPU_DEBUG`, `processPCSamplingData` looks cubins up with `operator[]`, which makes an entry with
  count 0 for a cubin that is not loaded. When it is loaded, it counts as known and is neither announced
  nor listed.
* The destructor of `ConfigureData` (`pc_sampling.h:63-68`) frees the inner arrays of the first
  `numValidStallReasons` of `DataBufferPCCount` records, and `outputData` not at all: memory is lost at
  every reset.
* `env_config.h:11-12` promises the error probe on invalid values. `PARCAGPU_SAMPLING_FACTOR` and
  `PARCAGPU_PC_SAMPLING_RATE` of 0, and with it any text that is no number, are defaulted without a word
  (`env_config.cpp:75`, `85`; `pc_sampling.cpp:203-206`, `cupti.cpp:215`). For the rate this also contradicts `README.md:37`,
  where 0 means a fixed probability with the controller off: `init_debug` takes only rates above 0, so that 0 leaves
  the default target and the controller on. `nan`, which is not above 0 and not below it, is silently
  defaulted too; the model has no such value.
* `pc_sampling.h:109` says "Enabled by default; set PARCAGPU_SAMPLING_FACTOR=0 to disable"; `isSupported` is off
  by default and does not look at the factor, only at whether `PARCAGPU_PC_SAMPLING_RATE` is set, a negative number
  included. The sampling period is never configured at all
  (`pc_sampling.cpp:422`); the factor is only announced.
* `env_config.cpp` does not know `PARCAGPU_GRAPH_RATE_LIMIT`, which `init_debug` reads: it is
  used, and reported as unrecognised.
* A failed `initialize` leaves `initialized` set; the next `InitializeInjection` reports success.
* A throw in the middle of `cleanup` leaves the rest undone for good: `initialized` is already reset, so that
  the destructor returns at once.
* `correlation_filter.h:38` says an entry goes when all kernels of a graph have arrived. It goes
  after two buffers without one, arrived or not; `GraphQuiet` is what holds.

## 6. What is not modelled, and what comes next

Left out of the parts that are modelled: `collectAllData` (nothing calls it), debug output with its
look-up of source lines, the error probe other than for the environment, handlers still running
when the profiler is destroyed, memory orders weaker than sequential consistency, concurrent calls of `InitializeInjection`, errors of `aligned_alloc`.

Not modelled yet, in the order of the plan:

1. `Observer`: the ring buffer between BPF and the Go program, with loss; the Go side's view
   against `CubinReplay`. The other BPF handlers copy an event each.
2. `Webhook`: `buildPatch` against the meaning of JSON Patch, over small pods. It is a function of one
   request, without a state.
3. A composition like that of `Correlation` and `GraphTracker`: `CubinReplay` with the context callbacks of
   `ContextMetadata`, whose `emitMetadata` it shares. `SampleDrain` and `PCSampling` share the protocol of windows; a reset
   in the middle of a drain, which frees the buffer it is in, is in neither of them as one behaviour.

Not planned: webhook certificates (one-shot, no state), probe declarations, the bpftrace
script, tests and mocks (drivers, not the system), build files, dashboards and manifests.
The code of CUPTI, the driver, the kernel's uprobes and the `proton` library is
outside the repository; what the models assume of it is in section 2.
