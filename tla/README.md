# A verification development for audio.cpp

audio.cpp runs speech and audio models (text to speech, transcription, alignment,
source separation, voice conversion) on ggml. Its command line tool, C API and
HTTP server share one framework. The neural arithmetic is out of a model
checker's reach; the programs around it are not: the server lets many threads
share a few large models under limits on count, memory and waiting time. That is
where the behaviour is hard to test, and where this development begins.

## 1. Inventory

| Part | State | Operations | Interaction | What makes it correct |
|---|---|---|---|---|
| Model residency (`app/server/runtime.cpp`) | which models have a session, use times, memory taken | run, lazy load, evict, unload, idle sweep | one guard per model, `model_load_mutex_`, `models_mutex_` | a running model is never unloaded; limit and headroom hold; least recently used first; everyone is answered |
| `BusyGuard` (`app/server/busy_guard.h`) | timed mutex, atomic timestamp | `acquire`, `try_acquire`, release | held by every run | one run at a time; nobody queues behind an overrun run; policy bounds the wait |
| Model catalog (`handle_model_load`, `handle_model_unload`, `models_json`, `handle_voices`) | `models_`, `model_index_`, configs, derived task and flags | register, reconfigure, unload, list | adds `metadata_mutex` to the locks above | sessions match configs, ids are unique, no circular wait |
| Request handlers | none of their own | speech, transcription, alignment, batch, task, stream | call `run_model` / `run_streaming_model_impl` | see residency |
| Model installer (`model_installer.cpp`) | jobs, the size probe, stop flags | start, stop, status, clean, remove, sizes | a thread per job, one mutex | one active job per package, never without its worker; every job ends; a final status that is true |
| Package manager (`package_manager/manager.cpp`) | files under the models root, partial directories | install, remove, clean, inventory | called by the installer and the CLI | installed packages are whole; shared outputs survive |
| Package listing (`ModelInstaller::package_sizes`, `PackageManager::inventory`) | `size_state`, `size_generation`, the listing | ask, scan, publish, bump | a thread per scan beside the installer's jobs | no row outlives the change that made it false |
| HTTP transport (`http.cpp`) | per-connection buffers, deadlines | read request, stream a body, respond | a detached thread per client | bytes are delivered once, in order, within deadlines; a body that breaks off is never taken for a whole one |
| Streaming (`app/streaming`, `run_streaming_model_impl`) | the session's stream, its sink, a partial frame | start, push, finish | a pull source and a callback, on the socket of the request | a sink lives for one call; no sample is lost; the reply says how it ended |
| Key/value cache of a decoder (`kv_cache.cpp`, VibeVoice `text_decoder.cpp`, `session.cpp`) | rows in slots, valid length, absolute end | append, advance, grow, export, import, clone | one state per stream, one per beam of a search | a result is computed from the steps it should be, whatever laps and copies came before |
| Cache slots, other decoders' caches | entries and ticks | find, put, resize | inside one session | capacity holds, the oldest goes |
| Config, frontends, multipart, base64, memory estimate | none after start-up | parse, route, decode | - | pure functions |
| Workflow, CLI, batch, gguf tool, C API | sequential | - | - | - |
| Framework core, audio DSP, tokenizers, model families | tensors | - | one thread per session | numerics |
| Web UI, tools, vendored code | - | - | - | outside |

`PROJECT.json` lists all of them with their status, and the hazards of the code
with the properties that look after them.

Who runs concurrently: `serve_http` starts a detached thread per connection
(`http.cpp`), each of which runs one request from start to end; the server adds
one thread for idle unload; an installation adds one per job. Nothing is
persisted by the server itself, so it has no recovery to model; the package
store on disk has.

## 2. Modules

| Module | Role |
|---|---|
| `ModelPool` | abstract: a bounded pool of models, each used by one run, none leaving while it runs |
| `ModelResidency` | `ServerState` over the models of the configuration file; implements `ModelPool` |
| `ModelResidency_proofs` | its inductive invariants and theorems |
| `RunGuard` | abstract: a lock with one holder |
| `BusyGuard` | the guard with its clock and timestamp; implements `RunGuard` |
| `BusyGuard_proofs` | theorems about it |
| `ModelCatalog` | the list of models while `--ui-management` changes it |
| `ModelCatalog_proofs` | theorems about it |
| `PackageStore` | abstract: packages that come and go one by one, each with a job of its own |
| `ModelInstaller` | installations, clean-up and removal of packages while the server runs, down to the files; implements `PackageStore` where no two packages are in each other's way |
| `ModelInstaller_proofs` | theorems about it |
| `PackageInventory` | the listing of installed packages, on top of `ModelInstaller`, whose actions it extends |
| `PackageInventory_proofs` | theorems about it |
| `AudioIntake` | abstract: what a live request promises its client |
| `LiveStream` | one live request: socket, chunked body, PCM reader, session, reply; implements `AudioIntake` |
| `LiveStream_proofs` | theorems about it |
| `LiveIntake_proofs` | that it implements `AudioIntake`, for every body, chunking and read |
| `HistoryWindow` | abstract: which steps a result depends on, as the documentation has it |
| `KvRing` | growing and ring caches with all that moves their rows; implements `HistoryWindow` |
| `KvRing_proofs` | theorems about it |
| `MC*` | constants for TLC: models of different size, symmetry, configs |

### ModelResidency

One client is one connection thread; its `pc` is the line it has reached, its
`model` the entry it works on. The variables and the code:

- `session`, `lastUsed`, `busy` are the fields of `LoadedModel`
  (`session != nullptr`, `last_used_ms`, the holder of `busy`); `lastActivity`
  is `last_activity_ms_`; `loadLock` is the holder of `model_load_mutex_`.
- `free` is the memory of the device less the footprint of what is loaded; a
  load subtracts, an unload adds. `Estimate` is what
  `estimate_model_memory_bytes` says, assumed not below the footprint;
  `Estimable` are the models for which the server has an estimate at all (for
  the others `ensure_model_fits_memory` lets the load through).
- `kept`, `untried`, `stamp`, `victim` are the locals of
  `evict_for_model_limit`: the snapshot less what has been unloaded, the
  candidates left, the use times when the sort began, the model being unloaded.
  `sorted` says that these times stood still while it sorted: its comparator reads
  atomics that requests store to, so if one changed, the candidates may be in any
  order. They are single variables and not one per client because the load lock admits one
  eviction at a time; `LoadLockInv` proves it.
- `idlePc`, `idleTodo`, `idleModel`, `idleUnloaded` are the idle thread's.

Each lock operation is a step of its own, and so is everything between two of
them that others can see. `models_mutex_` is held over short loops that take no
other lock, so each such loop is one step. A request goes `RunRequest`,
`AcquireRun` (or `AcquireTimeout`), `Ensure`, then, for a model that is not
resident, `LockLoad`, `EvictSnapshot`, `EvictSort`, `EvictSorted`, `EvictTry`/`EvictUnload`,
`EvictDone` (or `EvictFail`), `FitsMemory` (or `InsufficientMemory`), `Load` (or
`LoadFails`), and ends with `RunEnds` or `RunFails`. `Finish` is what all the
ways to leave have in common: the destructors of the locks. An unload request
visits its ids one by one (`UnloadNext`, `UnloadAcquire`, `UnloadModel`); the
session is looked at before the guard is taken and not again after, as in the
code. The guard appears as its holder only; a timed-out wait may come whenever
the guard is held.

### BusyGuard

`acquire` is `Call`, `ReadSince`, then `FailFast` or `StartWait`, then `Lock` or
`WaitTimesOut`, then `StoreBusySince`; the destructor is `ClearBusySince` and
`Unlock`. Time passes between any two steps. `readAt` records when the caller
looked: it is what `NoPileUp` is about, and nothing reads it.

### ModelCatalog

The handlers by their locks. `modelsLock` is `models_mutex_` where it is held
across a wait (the two listings); where it is held for an instant, a step is
guarded by its being free. `metadata[i]` is the exclusive holder of an entry's
`metadata_mutex`; its shared holders never wait while they hold it, so a shared
lock is a step guarded by the absence of a writer. `config` and `derived` are
kept apart (`derived` stands for the task, mode and option flags) because
`handle_model_load` assigns them one after the other and may throw in between. A
`session` remembers both: weights are loaded for the `config`, but the session is
created for the derived task, which after a failed reconfiguration is the old one.
`Key` projects a config to the fields that handler compares. `fresh` is the
session of an object that is not in `models_` yet. The eviction is one step
here, and its order is left open. `server` is the configuration file and the
flags (which ids are configured, `--ui-management`, the limit); it is chosen from
`Deployments` at the start and no step changes it.

### ModelInstaller

Two kinds of process. A request holds `model_installer_mutex_` (`installerLock`)
to its end; start and stop are one step, clean-up and removal are one step per
file system operation. A worker is the thread that `ModelInstaller::start`
detaches: it runs `PackageManager::install` and takes no part in that mutex.
`job` and `stopped` are `jobs` (behind `State::mutex`, whose critical sections
are steps); `disk`, `staging` and `staged` are the file system, behind no lock.
`downloads` and `moving` are the locals of `install`.

A worker goes `WorkerStart`, `Plan` (or `AlreadyInstalled`), `Download` per file,
`LastCancelCheck`, `ListStaged`, `Move` per file, `Published`, `WriteManifest`
and `Report`. `Throw` is every exception on the way (a stop noticed, the network,
the file system); it leads through the `catch` that removes the staging directory
(`Unwind`) to the one that reports (`ReportFailure`). The `catch` ignores the
error of that removal, so the directory may stay (`staging` is then `"stuck"`);
the job is over all the same, and a later installation draws a new name.
`MoveLosesFile` is the failure of a rename after the old file was removed. A
staging directory is named `.<target>.<random>` with `_` for every `/` of the
target, and `clean_partial` removes whatever begins with `.<target>.`:
`StagingName` is the flattened target cut at its dots, and `Cleaned(p)` are the
packages whose name has that of `p` as a prefix. These are `p`, the packages with the
same directory, those whose directories flatten to the same name (`a/b` and `a_b`),
and those whose directory goes on with a dot (`X.y` for `X`). `CleanStaging`
removes all of them, `CleanThrows` some. A change of the models root leads to an
empty folder.

`PackageStore` is what clients are promised of packages that share nothing. Of the
disk it sees whether a package is whole (`Installed`), of a job whether it is
active, being stopped, or how it ended (`ShownJob`), and of the argument
`overwrite` that it licenses a loss. A package becomes whole only while its own
job is active and is broken only by its own removal or overwriting installation;
a job ends complete only whole, and cancelled exactly when it was stopped. It does
not say that a stopped installation publishes nothing: a test of the repository
does, and `InstallerStopped` shows that the code cannot keep it.
`Move` of the last file is `Arrive`, `MoveLosesFile` is `Break`, a `RemoveFile` is
`Remove`, `CleanErase` and `RemoveDone` are `Forget`; staging, downloads, manifests
and failures on the way are stutters.

### PackageInventory

`GET /v1/ui/models/package-sizes` takes a first listing itself and starts a
thread that asks the remote hosts and lists again. The module extends
`ModelInstaller`; `InstallerStep` is a step of that module together with what it
does to the listing.

- `sizeState` is `size_state`; `shown` is what a request is answered with; `rows`
  is what a scan has read so far, row by row, because workers move files
  meanwhile. `scan[s]` keeps of a scan's generation whether it is still the
  newest, which is all that its two comparisons ask.
- `asker` is the request that is taking the first listing. It holds
  `State::mutex` until its thread has started, so while there is one a worker
  takes only the steps of `FileStep`, those without that mutex.
- `Refresh` is a bump of `size_generation`: an installation reported complete, a
  removal, and a change of the models root (which is a new installer).
- `silent` is a history: since the last listing something ended without a bump
  (a job stopped after its files were moved, one that failed half-way, a removal
  that threw). The code has no word for it; `InventoryCurrent` needs it to say
  for which changes a listing is right.
- `AskThrows` is any failure under the first listing. It leaves `size_state` at
  `running` with nothing listed until the next announced change.

### LiveStream

The body is an immutable sequence of tokens with three cursors: what has reached
the host (`arrived`), what `recv` has taken (`received_bytes_`), what has been
de-framed (`pending_pos_`). A byte of audio is a token with its number, counted
from the first of the body (`Captured`), so that what the session has been given
can be told from what was sent. The rest of `ChunkedSocketStreambuf` is `chunk`,
`published` (the end of the get area) and `taken` (`gptr`); `bytes` is what the
present read of the PCM reader has got and `fed` what the session has been given.

The request's thread is one process, as in the code: `SendHeaders`, `Acquire` or
`Busy`, `StartStream` or `LoadFails`, then reads. `Underflow` goes to
`ReadSize` and `ReadChunk`, either of which may go through the poll (`NeedMore`,
then `Receive`, `PollTimesOut` or `ClosedTooEarly`); `TakeBytes` and `Deliver`
bring it to the session. Only a session whose policy takes audio chunks is fed
(`input`): for one that is fed by text, which the live speech route admits
(`voxcpm2`), `StartStream` goes straight to the end of the stream, the body stays
unread, and the reply still ends with `done`. `ReadTrailer` finds the end, `FinishStream` closes.
Every exception is a step to `unwind`, where the sink is cleared (`Unwind`), and
from there past `Release` to the handler's `catch` (`SendError`). A send goes out
whole, or fails after a part of it (`"torn"`). What the session makes of its
audio is open: it stays silent, emits an event (which is sent to the socket
before the next byte is read) or throws.

The client may send in any pieces, stop sending, stop reading, or vanish, at any
point. `wait` is the time left in a `poll` or a `send`, `now` the time since the
stream buffer was made.

### KvRing

A row of keys and values is the absolute position it was computed for; all
layers are alike. `cache[d]` is a `TransformerKVCache` with its slots, its valid
length and its end, for each decoder state (the one of a stream, or one per beam
of a search); `NoCache`, with no slots, is a state whose `cache_has_state_` is
not set. `pinned` belongs to the weights runtime and `c.pinned` to a cache: the
mask uses the first, the slots the second. `pending[d]` is the length of the
prompt whose rows are still on the host.

`BeginStream` and `BeginSingle` are the two ways a request starts; `Append` is
`cached_step` and `cached_suffix` with all they do: tiering (`RequiredCapacity`),
growth by export and import (`Prepared`), writing the rows (`SetRows`),
attending (`Attended`) and advancing. `Winners` is what a backend may leave when
two rows of one append go to the same slot: it writes rows in parallel, so any
one of them. `Clone` copies a state for a beam taken twice, `DropBeam` and `End`
release. An exception, or an append that a bound refuses, ends the request
(`End`). `seen[d]` is what each row of the last append attended to, which is what
the properties are about.

## 3. Runs

| Run | Instance | What it shows |
|---|---|---|
| `Residency` | 2 clients, 4 models (`m3` of size 2), limit 3, headroom 1 of 4, the memory guard with an estimate for `m3` only, clock to 1 | `TypeOK`, `NeverUnloadedMidRun`, `ResidentBound`, `WaitsEnd`, `HeadroomKept`, `LruRespected`; refinement of `ModelPool` |
| `ResidencyFair` | 2 clients, the idle thread, 2 models of which one is lazy, both estimable, limit 1, headroom 1 of 2 | `NeverUnloadedMidRun`, `WedgeContained`, `EveryRequestAnswered` |
| `Guard` | 3 callers, ceilings 0 and 1, requests absent, 0 and 2, clock to 4 | `TypeOK`, `TimestampMarksRun`, `NoPileUp`, `PolicyKept`; refinement of `RunGuard` |
| `Catalog` | 2 clients on either of two servers: `--ui-management` with 2 ids of which one is configured and no limit, or a fixed list of 2 with limit 1; 3 configs (one rejected, two with equal `Key`) | `TypeOK`, `SessionMatchesConfig`, `RegisteredOnce`, `NoCircularWait`, `RunUndisturbed`, `EveryRequestAnswered` |
| `CatalogDeadlock` | `--ui-management`, both ids configured, limit 1 | `NoCircularWait` fails |
| `Installer` | 2 clients; either 2 packages (one of 2 files, one of 1) whose names have a common beginning and differ before a dot, or the first of them and its listing with 2 scans at a time | `TypeOK`, `WorkerHasJob`, `StagingNotForgotten`, `CompleteIsInstalled`, `EveryJobEnds`, `InventoryTypeOK`, `InventoryCurrent`; refinement of `PackageStore` |
| `InstallerSiblings` | 1 client, 2 precisions of one model with a file each and one shared | `CompleteIsInstalled` fails |
| `InstallerStopped` | 1 client, 1 package of 2 files | `NotPublishedOnceStopped` fails |
| `Live` | 6 bodies (2 chunks; a trailer; too many trailers; too large a chunk; no CRLF; no size), sessions fed by audio and not, frames of 2 bytes, reads of 4, windows of 2, all limits in force | `TypeOK`, `SinkFollowsLock`, `ReplySaysHow`, `DeadlineHolds`, `RequestEnds`; refinement of `AudioIntake` |
| `LivePcm` | frames of 3 bytes, reads of 4 | `FedInOrder` fails |
| `Kv` | 2 decoders, no window or one of 6 or 8 slots, prompts of 1, 3 and 8, chunks of 2 and 3, histories up to 20 | `TypeOK`, `HoldsHistory`, `CausalUntilFull`, `StreamGoesOn`; refinement of `HistoryWindow` |
| `KvNarrow` | the same with a window of 4 slots and a prompt of 3 | `MostRecentSteps` fails |

Bounds, and why they are enough.

- Residency: two clients are a loader and one that runs, unloads or loads
  against it; the load lock admits one eviction, so a third loader only waits.
  Four models and a limit of three give an eviction up to three victims to sort
  while the other client uses them, and let it fail because they are busy. The
  clock needs two values to order two uses; time beyond that changes nothing but
  `lastActivity`. The memory guard has an estimate for the large model only. The
  limit admits more than the memory does: three models with the large one among
  them take all of it, so the headroom depends on the guard and not on the limit.
  The idle thread runs in `ResidencyFair` (beside four models it is too many
  states), where safety of its sweep is checked again.
- Catalog: two clients are the two that meet at an entry; the two servers are the
  ones on which all properties hold, the one of the violation combines what
  they keep apart.
- Installer: two packages are what can be in each other's way; two files are one
  to have and one to miss. `about` in `MCPackageInventory` divides the run: in one
  half nobody lists, in the other nobody asks for the second package, since the
  rows of a listing do not depend on each other; two scans are one to be overtaken
  by the other. Both halves install, stop, clean and remove without a bound.
- Live: a chunk of three bytes is longer than a window and ends inside a frame; a
  read of four is filled from two chunks; `MaxBody`, `MaxChunk`, `Idle` and
  `Total` are each exceeded by some body or delay. `MaxReply` bounds the events
  that a session offers.
- Kv: the tiers of 4, 6, 8 and 9 slots are reached by growth, and a history of 20
  goes more than twice round the larger ring, five times round what a prompt of 3
  leaves of the smaller one. That is just the longest chunk; a prompt of 8 fits
  neither ring and is refused. All windows of `Kv` leave a chunk its room
  (`EveryWindowRoomy`); `KvNarrow` has one that does not. The invariants of `Kv`
  are proved for those too.

The proofs below do not depend on any of these bounds.

### Fairness

`Fairness` of `ModelResidency` asks of each thread that it goes on when it waits
for nothing (weak), and that a `std::mutex` which is released again and again is
got in the end (strong, `LockLoad` and `UnloadAcquire`; glibc's mutexes do not
promise it, the scheduler makes it so in practice). A bounded wait on a guard
either gets it or times out: weak fairness of the two together. Nothing is asked
of an inference: `WedgeContained` is about the ones that never return.
`EveryRequestAnswered` adds `InferenceReturns` as a hypothesis, for an unload
request waits on a guard without a timeout. `ModelCatalog` has the same
assumptions (`TakeLock`, `Proceed`, `Compute`). In `ModelInstaller` every worker
and every request that has begun goes on (weak fairness): none of their steps
waits for another process, and downloads end because the HTTP client has
timeouts; `InventoryFairness` adds the request that takes a first listing, on which
a worker may wait for `State::mutex`. In `LiveStream` the thread goes on when it waits for nobody, the clock
runs, and a wait for the model ends (`BusyGuard`). Nothing is asked of clients:
they need not send, read or hang up, and a send that nobody reads is only given up
when its time is over. `RequestEnds` therefore rests on the server's deadlines
alone.

### What the violations show

- `CatalogDeadlock`. `GET /v1/models` locks `models_mutex_` and then each
  entry's `metadata_mutex`; `POST /v1/models/load` of a registered id locks
  `metadata_mutex` exclusively and, with `max_loaded_models` set, takes
  `models_mutex_` in the eviction. Both stop, and every later request with them.
- `InstallerSiblings`. While one precision of a model is downloading, cleaning
  another precision deletes the staging directory of the first (they share the
  target directory, whose name is all the clean-up looks at). The next file's
  download creates the directory again, what is there is published, and the job
  ends complete without its first file. The same property can fail through a
  removal: `install` skips a sidecar that is in place, and removing the other
  precision deletes it, for the package being installed does not count as
  installed yet.
- `InstallerStopped`. `install` looks at the cancel flag for the last time before
  it moves the staged files; a stop is accepted until the job is over. The package
  is published and the job reported as cancelled, with "completed staging files were
  removed". A test says that a cancelled package is never published to its final path.
- `KvNarrow`. A chunk is written into the ring at once, and nothing compares its
  length with what the prompt leaves of the ring. Rows of one chunk then share a
  slot; the last row is computed without some of the most recent steps. The
  documentation promises these for any window.
- `LivePcm`. The PCM reader rounds every read down to whole frames, full reads
  too. Policies that count samples (512) without regard to channels make a full
  read end inside a frame when there are three channels: audio in the middle is
  lost, and what follows is on the wrong channels.

Seen while modelling, and recorded here or among the hazards without a run:

- After a reconfiguration that failed half-way, the entry has the new config and
  the old derived task. The same request again is taken for "not changed" and
  answered with success, and a run or an identical load then creates a session of
  the new config for the old task; `SessionMatchesConfig` says that only a rejected
  config can lead there. `changed` does not compare the `config` and `weight` ids.
- With `--ui-management` and a limit, a model loaded for a new id holds memory
  before it is in `models_` (`runtime.cpp:1399`); `model_load_mutex_` has been
  released by then, and another load's eviction does not count it, so the limit is
  exceeded.
- The comparator of the eviction's sort reads atomics that change. It is then no
  strict weak order, for which `std::sort` promises nothing; the model takes any
  order, and leaves out an access out of range.
- `acquire_model_run` waits for `metadata_mutex` before `busy_timeout_ms` applies;
  unload requests wait without a bound behind a wedged inference; the idle thread
  decides once and sweeps later.
- `docs/model_manager.md:258-259` says that a stop deletes the staging directory
  before the job is reported; so it does when the directory can be removed, for the
  error is ignored.
- Jobs and removals that end without success do not announce the files they
  changed, so a listing that was complete stays as it was; a listing whose start
  failed stays `running`.
- A live speech request to a model that takes no audio leaves its body unread and
  ends with `done`. The send timeout is one of a `send` call: a client that reads a
  little now and then renews it. The model's client reads or does not.
- The early rows of a chunk that wraps the ring attend to later ones (only the last
  row's result is used); and a search asks for a step more than it needs, so without
  a window it is refused one step early.

## 4. Proofs

All theorems hold for every value of the constants that satisfies the named
assumptions (finitely many models; the estimate is not below the footprint; the
headroom fits the device; thread names distinct; sizes positive). Each is `Spec => []Inv` or a
refinement, from an inductive invariant.

`ModelResidency_proofs`:

- `LockInv`: who holds what at which point (`BusyInv`, `LoadLockInv`,
  `VictimInv`, `RunInv`, `StartupInv`, and the types). `RunInv` alone is not
  inductive: an eviction could unload a running model unless its victim is known
  to be guarded by the evicting thread, and an idle sweep likewise. Gives
  `ResidencyTypes` and `RunningModelStays`.
- `BoundInv`: while a client evicts, the snapshot less its victims covers all
  other residents (sessions end without the load lock but none begins without
  it); once it is granted its place, at most limit - 1 others are resident. This
  is why the stale snapshot is harmless. Gives `ResidencyBounded`.
- `MemoryInv`: the memory a client was promised is still there when it loads,
  since everyone else can only free memory. Gives `HeadroomIsKept`: a model of known
  size leaves the headroom when it is loaded, whatever sizes the others have, known
  or not.
- `LruInv`: use times only grow after the sort has read them, and where none did
  during the sort, the victim is a least element of the candidates left. Gives
  `LruIsRespected`.
- `OwnerInv`: a guard is held only by a client past it, by the eviction that
  unloads its model or by the idle thread that does, and the load lock only by a
  client inside the load sequence: every way out of a request gives back what it
  holds. As the load sequence only tries the guards of its victims, a chain of
  waiting threads has at most two links. Gives `EveryWaitEnds`: the safety half
  of `EveryRequestAnswered`, for any number of clients.
- `PoolStep`: every step is a `Load`, `Unload`, `Begin` or `End` of `ModelPool`
  or leaves it alone. Gives `ServerIsAModelPool`.

`BusyGuard_proofs`: `GuardInv` ties the timestamp to the holder's place and the
value a caller has read to the present one (the same run, or a later one, or
none). Gives `GuardTypes`, `TimestampNeverStale`, `CallersDoNotPileUp`, `PolicyIsKept`,
`GuardIsALock`; `ResolveRespectsPolicy` is about the pure function, for all
integers.

`ModelCatalog_proofs`: `CatalogInv` says which handler may be at which point,
that it works on a registered entry whose guard it holds or on an object of its
own, that only registered entries have sessions, and that the derived task lags
behind the config only where the config was rejected. Gives `SessionsAreCurrent`,
`IdsAreUnique`, `RunsAreUndisturbed`, `CatalogTypes`. One theorem has a
hypothesis about the deployments, and `CatalogDeadlock` shows that it needs it:
`NoDeadlock` assumes that none combines (`NeverBoth`) `--ui-management` with a
limit. `Rank` gives every place where a client waits a number, and whoever it waits
for waits, if at all, at a place of a higher one (`LockInv`, `LocksInv`); a circle
would have no highest.

`ModelInstaller_proofs`: `InstallerInv` adds to `TypeOK` and `WorkerHasJob` that
a request in progress works on a package whose job is not active (`CallInv`: the
check at its start stays true because `start` needs the same mutex) and that
outside the `try` block of `install` a staging directory is gone, or its removal
was tried and failed (`StagingInv`).
Gives `InstallerTypes`, `WorkersHaveJobs`, `StagingIsNotForgotten`.
`CompleteMeansInstalled` assumes that no package's clean-up matches the staging
directory of another, that no two share a file, and that each has one (`Apart`);
`InstallerSiblings` is what happens otherwise. Different target directories would
not do, for `X` and `X.y`, or `a/b` and `a_b`, are matched by one clean-up. `NothingLost` follows the files of a package through the stages
of its installation; only a request for the very package could take one away, and
`CallInv` keeps it from running beside the worker. `InstallerIsPackageStore` is the
refinement, under the same condition: `StopInv` (an active job is `cancelling`
exactly when its flag is set) makes the state that a worker reports the one its
clients are waiting for, `NothingLost` makes a package whole when its job ends
complete, and a file has one owner (`OneIsTouched`), so that a step on it is a step
of one package of the store.

`PackageInventory_proofs`: `InventoryInv` has the types, a scan that is gone has
no rows (`NoRows`), and while everything is quiet the first listing so far, the
rows of the one scan that may publish, and what is shown are all right. A job or
a removal that begins ends the quiet; it comes back with a bump, which outdates
the scans and the listing, or with the next first listing, which starts anew. A lemma shows every step to be one of
`ModelInstaller`, which carries `InstallerInv` over. Gives `InventoryTypes`,
`ListingIsCurrent`.

`LiveStream_proofs`: `LiveInv` is the types with the order of the cursors, where
a wait or an event resumes (`ResumeInv`), and who has model and sink at which
point (`SinkInv`); `ReplyInv` says what has been written at which point. Gives
`LiveTypes`, `SinkNeverOutlives`, `RepliesSayHow`, `DeadlineIsKept`, for every
body, limit and schedule.

`LiveIntake_proofs`: `IntakeInv` says that what the session has, what the present
read has got and what is left of the chunk follow each other without a gap, and
that together they are the audio of all tokens de-framed so far (`BytesInv`, on
top of the cursors of `LiveInv`); that a new chunk is only looked for when the last
is used up, and the trailer only reached when no audio follows (`FrameInv`); and
that a short read is the last (`EndInv`). It needs two lemmas about counting
(audio in two stretches of a body adds up) and two about rounding to frames. A full
`Deliver` gives all of its read, a short one all but the part of a frame at the
end. `Deliver` is then `Give` of `AudioIntake`, `SendDone` is `Accept`, `SendError` is
`Reject`, and every other step a stutter: `LiveIsAudioIntake`, `AudioFedInOrder`.
A session that is not fed audio is given nothing (`InputInv`), and `AudioIntake`
asks nothing of its `done`.
Both have two hypotheses. `WholeReads` (a read is a whole number of frames) is one
the code does not ensure, and `LivePcm` is what happens without it. `Framed` says
that the client announces no more audio than follows and sends none after its
terminating chunk: what it sends otherwise is not its audio by its own account.
It may still announce too little, leave out a CRLF, send other lines, or break
off anywhere; `Live` has such bodies, and TLC checks that its bodies are `Framed`.

`KvRing_proofs`: `RingInv` says of each live cache that it is good: its shape
(valid length and end fit its slots), which slots are filled (`Filled`), and,
as long as no append was longer than the ring has room for, that slot and
position belong together (`Exact`). The lemmas on `%` (`ModApart`, `ModLap`)
say that positions less than a lap apart have different slots, and a lap apart
the same; import after export is then the identity on rows, and an append
replaces exactly the oldest. Gives `RingTypes`, `RingHoldsHistory`,
`RingCausalUntilFull`, `RingStreamGoesOn` and the refinement
`RingIsHistoryWindow`. The refinement is of what the documentation promises without
exception, so it needs a hypothesis that the code does not ensure:
`EveryWindowRoomy`, each window leaves the longest chunk room beside every prompt
that fits it. `KvNarrow` is what happens without.

Model-checked only: the liveness properties (`WedgeContained`,
`EveryRequestAnswered`, `EveryJobEnds`, `RequestEnds`). Fairness and `ENABLED` are
outside the prover. Every other property of a passing run is stated by a theorem; what the
violations refute is proved under the hypothesis that the violation breaks, except
`NotPublishedOnceStopped`, which nothing reasonable would save.

## 5. What is abstracted, and what is left out

- The inference, its inputs and outputs; which exception ends a request.
- `models_` is read without `models_mutex_` in `live_ingest_limits` and in the
  unload handlers; with `--ui-management` that is a data race on the containers.
  `ModelResidency` has a fixed list, so the race does not arise there.
- Batch requests take the guard once per item; each item is a request.
- The deprecated converter branch of `ModelInstaller::start`, the texts and the
  progress of a job, the contents of manifests, directories other than staging.
- A thread that cannot be created, and a process that dies during an
  installation (its staging directory stays until someone cleans up).
- Of a live request: what the handlers reject before the reply has begun, the caps
  on the length of a line and of the trailer, the texts of errors, the audio
  format's own bytes. Other routes' parsing, formatting and wire protocol.
- Of the package listing: sizes, revisions, the text of rows, and that a listing
  of more than 64 KiB is answered as an empty one.
- Of the decoder: the numbers, all layers but one, which beams a search keeps, and
  decoders of other model families, which use the same cache in their own ways.
- The neural models, signal processing, tokenizers, the graph executor and the
  command line programs: sequential numerics over large tensors, with no state
  that a property over small instances could be about. They are most of the
  repository's lines, and `PROJECT.json` lists them one by one.

## 6. Plan

Done, in this order: `ModelResidency`, `BusyGuard`, `ModelCatalog`,
`ModelInstaller`, `LiveStream`, `KvRing`, `PackageInventory`, with the proofs of
section 4. What is left, by what it would add:

1. `CacheSlots`: the keyed caches of sessions and the graph caches, their
   capacity and least-recently-used order.
2. The buffered transcription routes' use of the streaming session, which share
   `run_stream` with the live ones.
3. The decoders of other families over the same cache.
