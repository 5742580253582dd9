# A verification development of the zkLoRA MVP server

The repository serves LoRA inference and proves it afterwards. A server answers
a prompt at once, writes a *witness* of the target module's input and output and
a *proof job*, and a prover worker turns jobs into zero-knowledge proofs later.
Clients poll for the status of their request. Everything that makes this hard is
in what happens between the answer and the proof: several threads and processes
share two append-only files, one JSON file and a cache directory; any write may
fail; processes are killed and started again; and the machine all of it runs on
is itself created, stopped, saved and restored by scripts that may stop half way.

This directory holds TLA+ modules that model that part of the code, TLC
configurations that check them on small instances, and proofs that TLAPS checks
for every instance. `PROJECT.json` lists the runs, maps every definition to the
lines it models, and lists the hazards of the code with the properties that
watch them.

## 1. The system

| Component (source) | State | Operations | Modules |
|---|---|---|---|
| Proof store (`mvp_server/proof/proof_store.py`) | `_records` in memory, a lock, a JSON file and a temporary file | `set_status`, `set_terminal`, `annotate_timestamps`, `get`, `_persist`, `_load` | `ProofStore`, `ProofStatus`, `StatusStore`, `ProofState` |
| Job manifest (`proof_job_manifest.py`) | a file of jobs, a file of claims, both append-only | `append_job`, `claim_next` | `ProofJobManifest`, `JobHandoff`, `ProofState` |
| Server (`api/server.py`) | none of its own | `post_infer`, `get_proof` | `PostInfer`, `ProofStore` |
| Prover worker (`prover_worker.py`) | a bounded queue, a pool of threads | `run`, `run_once`, `main` | `ProverWorker`, `WorkerProcess`, `Loadgen` |
| Server and worker in two processes (`mvp_server/README.md`) | two stores in memory on one store file | the two of the above | `SplitDeployment` |
| zkLoRA adapter (`zklora_adapter.py`) | a setup directory with artifacts and metadata, a lock per directory | `prove`, the choice of a backend | `SetupCache`, `BackendRouting` |
| Model runtime, hook capture (`runtime/`) | the model, two hooks, two captured tensors, a lock | `infer_prefill` | `ModelRuntime` |
| Load generator (`bench/loadgen_prefill_synth.py`) | load threads, a worker thread, stop events | `run_single_point` | `Loadgen` |
| Bounded benchmark (`bench/phase4b_bounded_peft.py`) | a child process, its result | `run_case_direct`, `run_case_bounded`, the confidence in a backend | `BenchCase`, `BackendRouting` |
| Infrastructure scripts (`infra/scripts/`) | a machine, its disks, the snapshots of the cloud project | create, bootstrap, start, stop, add a disk, snapshot and delete, restore | `DevInstance` |
| Witness logger, sampling policy | files of one request; none | `persist`, `should_sample` | choices of `PostInfer` |
| Metrics (`metrics/metrics.py`) | counters, gauges, histograms | `inc`, `set_gauge`, `observe`, `snapshot` | not modelled |
| Schemas, configuration, queue placeholders, CSV summaries | constant, or none | | not modelled |

How they interact: `post_infer` calls `infer_prefill`, then the witness logger,
`append_job`, `set_status("queued")` and `annotate_timestamps`, in that order. A
worker polls `claim_next`, sets `pending`, calls `prove` on a thread and sets
`ready` or `failed`. `get_proof` reads the live record. In the two benchmarks,
server and worker share one process, hence one store object; in the deployment
of the README the worker is a process of its own that loads the store file once.

What is hard, and which property is about it:

* **Crash safety of the store file.** Every call rewrites the whole file.
  `StoreNeverTorn`, `DurableComplete`, `DurableAdvances`, `ReturnedIsDurable`.
* **Memory ahead of the file.** `set_status` mutates first and persists second;
  after a failed write the two disagree. `ImplementsStatusStore`,
  `StoreContract`, `UnenqueuedIsTerminal`.
* **Reads outside the lock.** `get_proof` reads a record three times while the
  worker moves it. `OkMeansTerminal`, `PollsAdvance`.
* **Claiming without a lock.** `claim_next` reads two files and appends to one.
  `NoneSkipped`, `OncePerClaimer`, `ProvedOnce`, `PipelineHandoff`.
* **A bounded queue with sentinels, a join, and threads that may die.**
  `OnePlace`, `UnfinishedIsWork`, `RunEndsOrThreadDies`, `ReturnsProcessed`,
  `AtMostOneLost`; and see finding 1.
* **Order of appends and statuses.** `QueuedHasJob`, `InFlightIsPending`,
  `ProvingIsPending`; and see finding 2.
* **Two stores on one file.** Finding 3.
* **Timeouts.** `ProvingFinishes`, `NoProofInvented`, `CompletedMeansDone`,
  `LeftAreTurnsTaken`, `TrustIsEarned`.
* **A cache that outlives a killed build.** `HitIsWhole`, `RefsMatchProof`,
  `NeverRebuilt`, `LockReleased`.
* **Tensors in shared fields.** `PacketIsOwn`, `ServedByBothHooks`,
  `EveryRequestEnds`.
* **Scripts that fail between two commands, on a machine that boots, stops and
  changes its disk.** `RestoredWorkIsKept`; and see finding 4.

The whole list, each at its line, is under `hazards` in `PROJECT.json`, with
those that no property watches and the reason.

## 2. The modules

```
ProofStatus ─┬─ StatusStore (abstract)
             ├─ ProofStore ── ProofStoreProofs
             └─ ProofState ─┬─ PostInfer ────┬─ BenchCase ── BenchCaseProofs
                            │                ├─ Loadgen ── LoadgenProofs
                            │                └─ SplitDeployment
                            └─ ProverWorker ─┬─ BenchCase
                                             ├─ SplitDeployment
                                             └─ WorkerProcess ── WorkerProcessProofs
BackendRouting ── BenchCase                        JobHandoff (abstract)
ProofJobManifest ── ProofJobManifestProofs         SetupCache ── SetupCacheProofs
ModelRuntime ── ModelRuntimeProofs                 DevInstance ── DevInstanceProofs
```

A module `MC...` gives a module its symmetry set or backlog for TLC.

Two components are modelled twice, at two grains. `ProofStore` and
`ProofJobManifest` have the steps inside a call: the lock, the temporary file,
the two reads and the append of `claim_next`. `ProofState` has one step per
call, and the modules of the callers extend it. What justifies one step per
store call is the store's lock; `ProofStore` is where the readers that do not
take the lock are examined, and both grains are shown to implement the same
abstract store. `ProofState`'s claim is one step in `ProverWorker`, whose
dispatcher is alone in its process (`OneClaimerNoRepetition` of
`ProofJobManifestProofs` is why that loses nothing), and two in `Loadgen`, where
two callers of `run_once` race.

### StatusStore, ProofStore

`StatusStore` is the abstract specification of a store: `status` is what the
process goes by, `durable` what a restart would find. A step is one transition
of one request (which may or may not reach the file at once), the file catching
up with memory as a whole, or memory falling back to the file.

| Variable of `ProofStore` | In the code |
|---|---|
| `records` | `ProofStore._records`: a status and the set of filled in fields per request |
| `lock`, `pc`, `req` | `_lock`, and the step and request of each thread that is inside a call |
| `tmp`, `store` | `<store>.tmp` and the store file: missing, torn, or whole with its records |
| `get`, `answer` | where each client is in `get_proof`, and the last answer it got |
| `up` | the process runs |

`SetStatus` and `SetTerminal` are the check and the assignment of the status;
`Fill` is the rest of the mutation; `OpenTmp`, `Dump` and `Replace` are
`_persist`, one step per call that reaches the file system; `PersistFails` is
any of them raising. `GetUnknown`, `GetRecord`, `ReadCode`, `ReadStatus` and
`ReadFields` are `get_proof`: the lookup under the lock and the reads without
it. `Crash` loses the memory and keeps the two files; `Restart` is `__init__`
with `_load`. A call that `_check_transition` rejects changes nothing and is no
step. A writer may call at any time and for any request, `set_status` with the
statuses it is called with in `src/` (an initial one or `pending`) and
`set_terminal` with `ready` or `failed`: within that, the module says what the
store promises in whatever order its callers come. `ImplementsStatusStore` maps `status` to
memory while the process is up and to the file while it is down; `StoreContract`
says the same of everything that `Loadgen` does.

### ProofJobManifest

`rows` and `claims` are the two files, `torn` says which of them has a line cut
short, `pc`, `seen`, `row` are the locals of each `claim_next`, `handed` is what
it has returned. `AppendJob` is `append_job`; `ReadClaims`, `ReadRows`,
`NothingToClaim`, `AppendClaim`, `Return` are `claim_next`; `ReadRaises`,
`AppendClaimFails` and `Crash` cut it off, `Restart` starts the claimer again.
`JobHandoff` is what the manifest promises to a single claimer: each job at most
once, in order. It is checked and proved where the claimer is single, in
`BenchCase`, and proved of `WorkerProcess` over all its restarts. Racing claimers
may append one job twice; what they keep is proved too: `JobHandoff` with the
repetitions left out (`Taken`).

### PostInfer

One thread per request, whose place in `post_infer` is `post[r]`: sampling
decision, witness, `append_job`, `set_status("queued")`, `annotate_timestamps`,
the except branch with `dropped_overload`, the last annotation, the gauges (which
parse the manifest and may raise for a torn line) and the receipt. Every call
has its error path.

### ProverWorker, WorkerProcess

`main`, `job`, `claimed`, `sentinels`, `failure` are the dispatcher of `run`;
`work_queue` and `unfinished` are the two things `queue.Queue` keeps; `pool`,
`work`, `processed` are the threads. One action per statement that another
thread can see: claim, mark, put, sentinels, join on the one side; get, prove,
`set_terminal`, the except branch, the guard, `task_done` on the other. A thread
whose guard raises is `"dead"`. `WorkerProcess` is `main()`: run over the jobs
a server has left, and again after the process has ended or was killed, with
`status` loaded from `durable`.

### SplitDeployment

`PostInfer` and `ProverWorker` again, each with a store of its own, as instances
of the same modules: the server's statuses are `serverStatus`, the worker's
`workerStatus`, and the store file, the manifest and the claims are shared. The
worker may be started (and started again) at any time and reads the file then, so
that it knows the requests that were posted before its start and no others;
the server has read it once, before the first request. A store call of one
process is one step, and its rename replaces whatever the other has written.

### BenchCase, BackendRouting

`BenchCase` composes `PostInfer` and `ProverWorker` the way
`phase4b_bounded_peft.py` does: the producers are joined before the worker runs,
`max_jobs` is the number of answered requests, a child process holds all of it
and a parent ends it with a timeout and reads the store file. `BackendRouting`
has the routing decision of `ZkLoraAdapter` and the confidence that the benchmark
derives from the decisions of a case; in `BenchCase` each proof is made with a
decision of its own, which its record keeps in `routing`. Whether a runner takes
the keyword `backend` is a free choice for every proof.

### Loadgen

`Loadgen` composes `PostInfer` with two callers of `run_once`, as
`run_single_point` does: here the worker runs *while* requests are posted, and
the main thread drains the manifest when the join of the worker thread has timed
out. Both joins and the drain have a deadline, and then `run_single_point` returns:
`Exit` is the end of the process, which may come in the middle of anything the load
threads and the worker thread do, since they are daemons. It does not come before the
main thread is through with its own `run_once`.

### SetupCache

`dir` is the setup directory (an artifact is the number of the build that made
it, missing, or torn), `meta` the metadata file, `lock` the lock of
`_setup_lock_for_dir`, `used` the artifacts that a thread's proof was made with.
A miss unlinks, builds, checks and writes metadata under the lock; a hit releases
it first. `WriteArtifact` stands for the external prove runner, of which only
this is assumed: it makes the missing artifacts and leaves the others alone.

### ModelRuntime

`infer_lock`, the two tensor fields `x_pre` and `delta_post`, `hook_capture` and
the number of `hooks` attached are shared; a tensor is the request whose forward
pass made it. `AttachRaises` attaches one hook or none and leaves `hook_capture`
set, as the code does.

### DevInstance

One developer runs the scripts of `infra/scripts` one after the other; `pc` is
the command that the script in hand comes to. A machine has a boot disk, known by
its name, and perhaps a data disk; a disk has on it the changes made there
(`work`) and what has been installed (`has`). `vm` and `startup` (where the startup
script is in this boot) are the machine. Each `gcloud` command that changes something
is a step; `Fails` ends a script at any command but its first, as `set -e` does.
What `bootstrap-instance.sh` and the developer do on the machine is `Work`, a change
of a disk. The dev container is left out, since nothing that another step looks at is
in it.

Beside the scripts run the startup script, which a stop may cut short, and the 2am
shutdown (`Night`). There are two startup scripts. That of `create-instance.sh` is
run at every boot: it skips to its end when `nvidia-smi` and `docker` are there, and
otherwise `StartupFails` ends it at any command, before or after the step it is in
has left its mark (`set -e`). That of `restore-from-snapshot.sh` has no `set -e`:
`ArmFails` leaves the cron file as it was, or empty, and the script still reports
that it is done.

`ByHand` is no script of the repository: since `snapshot-and-delete.sh` cannot save a
machine of `create-instance.sh` (see the observations in section 3), the developer
does it once in the console, and only then can `restore-from-snapshot.sh` be reached
at all. It is marked external.

### Abstractions common to all

* Payloads, timestamps, references and error texts are present or absent.
* A crash is the death of a process. Losing what the kernel has not written yet
  (power failure; the code calls no `fsync`) is not modelled.
* A write that fails may leave half a line. A line that lacks only its newline is
  treated as rejected at once, although `json.loads` would still accept it until
  the next append is glued to it.
* `get_proof`'s copy of the record (`asdict`) is two reads, the status and then
  the fields; that it may raise while the dictionary grows is listed as a hazard.
* The threads of one process share one adapter cache lock (`_setup_dir_locks`
  is a class attribute); two worker processes on one cache root are not modelled.

## 3. The runs

| Run | Instance | Question |
|---|---|---|
| `store` | 2 requests, 2 writers, 1 client, failing writes, crashes | Is the file always parsable and complete, is what a call wrote there after it returned, what may a client see, and does all of it implement `StatusStore`? |
| `manifest_race` | 4 jobs, 2 claimers, failures, crashes | What do racing claimers keep of the order and of once-only? |
| `worker_faults` | 4 jobs in the manifest and 1 request without, pool of 2, failures, interrupts, 1 restart | Does `run` end, where can a job be, and can a finished one come back? |
| `worker_guard` | 2 jobs, pool of 1, failures | Does the guard keep `join` from hanging? No: finding 1 |
| `bench_case` | 3 requests, pool of 2, failures, interrupt, timeout, any routing | What does a case leave behind (and how many answered requests without a terminal status), and is what its summary says true? |
| `loadgen_faults` | 2 requests, 2 callers, failures, any timeout, the exit of the process | Is a job proved once, is the store's contract kept when two callers race, and is a proof that was begun finished? |
| `loadgen_race` | 2 requests, no failure, no stop | Is every queued request proved? No: finding 2 |
| `split_deployment` | 1 request, pool of 1, 2 starts, no failure | Does the server get to a terminal status once the worker has? No: finding 3 |
| `setup_cache` | 3 threads, 2 artifacts, 5 builds, failures, kills | Is a hit whole, and does it stay? |
| `model_runtime` | 4 requests, failures anywhere | Does a request get its own tensors, and an answer? |
| `dev_instance` | 2 changes, 2 days, 2 snapshots, any command may fail | Is work on a restored machine or a data disk ever lost? |
| `dev_instance_night` | 1 night, no work, no snapshot | Does a new machine that is ready shut down at night? No: finding 4 |

Bounds, and why they are enough:

* **2 requests** in the store and in `Loadgen`: the requests interact only
  through the file (a rename publishes everybody's records) and the manifest's
  order. One request's fault disturbing another is all there is, and that takes
  two. `bench_case` has 3, since its summary compares requests that were
  answered, have a job, and are proved, and each may be a different one. For
  `worker_faults` there are 4 jobs, since the queue must be full while both
  threads are busy and one more job is in hand.
* **2 writers, 2 claimers, 2 callers, 2 pool threads**: mutual exclusion and
  races between reads and appends take two parties. The cache has 3 threads: one
  that builds, one that proves on a hit without the lock, one that waits.
* **`SlotsPerThread` = 1** instead of the code's 4: `MaxSize` is then 2, so that
  `put` blocks, with jobs and with sentinels, in instances that TLC can finish.
  `split_deployment` has the code's 4.
* **`MaxRestarts` = 1, `MaxStarts` = 2, `MaxBuilds` = 5**: a second restart starts
  from a state of the same kind as the first; five builds allow several failed
  ones before an entry, with threads waiting. The proofs of section 5 remove the
  bounds on restarts and builds.
* **`MaxWork` = 2, `MaxDays` = 2, `MaxSnapshots` = 2**: one change is saved and a
  second made after it, so that an old snapshot does not hold all; one night is
  enough to stop a machine; a second snapshot is needed after a restore, and the
  snapshots of one day have one name, which the script refuses to use twice. For
  finding 4 a machine that is created, stopped and started is enough.
* `Backlog` holds every request but request 0, which was not sampled: the worker
  must leave it alone.
* `MayFail`, `MayCrash`, `MayInterrupt`, `MayStop`, `MaySkip` switch faults on;
  a run with one of them off asks what holds without that fault, and says so.
* Symmetry of requests and of threads is used in runs that check safety only,
  never with liveness.

Deadlock is checked in the runs of `ProofStore` and `ProofJobManifest`, which
never come to an end. It is off where the system stops by itself: a worker whose
`run` has returned, a case with a summary, a load with all requests answered, all
requests served, the bounds on builds and on changes to the machine reached.

### Findings

1. **The guard does not protect `join`** (`worker_guard`). The comment at
   prover_worker.py:154 says what the guard is for. When `set_terminal("ready")`
   changes memory and then fails to persist, both the except branch and the guard
   ask for `ready -> failed`, which the lifecycle rejects; the thread dies and its
   sentinel is never taken.
2. **A job is claimed before it is queued** (`loadgen_race`). `append_job`
   precedes `set_status("queued")`; a worker that claims in between gets a
   ValueError and ends, the request becomes queued and stays so, against
   plans/mvp-server-architecture-rfc.md:265.
3. **The server does not see the worker's statuses** (`split_deployment`).
   mvp_server/README.md runs server and worker in two terminals and polls the
   server; each of them has read the store file once and goes by its own records.
   In the trace the request is answered as queued, then the worker is started, finds
   it in the file, proves it and writes `ready`; the server answers queued for ever,
   with no failure at all. A worker that was started first fares worse: it has no
   record of the request, its `pending` is rejected and the job is not proved, which
   is finding 2 again, without a race.
4. **The night shutdown can be missing for good** (`dev_instance_night`).
   create-instance.sh:111 takes `nvidia-smi` and `docker` for the sign that the
   startup script has run, and writes the cron file after both. If the first boot
   ends in between (a stop, or a command that fails under `set -e`), the next one
   skips to its end, reports `startup-complete`, and the machine runs through every
   night, against lines 20-21, 110 and 235 of the script.

Observations that no run is about:

* `set_terminal` assigns the status before the references, so that for an instant
  an answer `ready` has none.
* A request whose `post_infer` raised after its append has a job too and takes one
  of the turns of `max_jobs`: `completed` then does not mean that all answered
  requests are terminal. `CompletedMeansDone` says when it does, and
  `LeftAreTurnsTaken` how many may be left: no more than such jobs.
* snapshot-and-delete.sh:79 takes a snapshot of a disk `aa-zklora-dev-disk`. Only
  `restore-from-snapshot.sh` makes one of that name: `--boot-disk-device-name` of
  create-instance.sh:176 is what the guest calls its boot disk, whose own name is
  the machine's. A machine of `create-instance.sh` is stopped and then neither saved
  nor deleted. `Snapshot`'s first guard is this.
* start-dev.sh selects an image by `AA_ZKLORA_IMAGE_TAG`, which docker-compose.yml:24
  (`image: aa-zklora-dev:`) does not read.

## 4. Fairness

`FairSpec` of each module states weak fairness of the steps of each thread once
it is in a call: Python threads are scheduled by the operating system, and a
thread that is not blocked goes on, as long as its process lives. A proof attempt (`Prove`, `ProveHit`, the
runner's build) is part of those steps: it ends, with a result or an exception.
That is an assumption on the external runner, without which no proof is ever
ready. Waiting for the cache's lock is a guard of a weakly fair action; no strong
fairness is assumed, and `EveryRequestEnds` needs only that *some* waiting
request gets the inference lock, since there are finitely many. `SplitDeployment`
adds that the worker is started, since there its finding would otherwise be that
nobody starts it. `Loadgen` adds that the load threads go on posting; its threads have fairness only
while the process lives, and `ProvingFinishes` says so: what the drain of the main
thread has begun is finished, what the worker thread has begun is finished or taken
along by the exit of the process, since that thread is a daemon. No fairness
is given to errors, interrupts, crashes, restarts, stops, timeouts, the exit of the
load generator, or to the developer; `ProofStore`, `ProofJobManifest`, `BenchCase` and `DevInstance` have
safety and action properties only and state none.

## 5. The proofs

TLAPS proves the following for every value of the constants. The assumptions are
the `ASSUME`s of the modules: `None` is no request, writer or thread, switches
are Boolean, a pool is finite and not empty, a case has finitely many requests.
Each module of proofs has one inductive invariant, `IInv`, with `InitInv` and
`StepInv`, from which the theorems follow; a few add an invariant of their own to it
(`QueueInv`, `AloneInv`, `InOrder`). `OneClaimerNoRepetition` is about one claimer
and `HolderGetsOut` about finitely many artifacts; each says so in its ASSUME.

**`ProofStoreProofs`.** `TypeCorrect`, `NeverTorn`, `PersistedComplete`,
`OkIsTerminal`, `PersistedAdvances`, `PollsMoveForward`, `ReturnedDurable` and the
refinement `Implementation`. None of these properties is inductive: `Replace`
publishes the temporary file, so one must know what is in it, and `Dump` copies
memory, so one must know that memory is complete. `IInv` adds what a thread knows
inside the lock: it is alone, the file about to be renamed is a whole copy of
memory, and a record lacks fields only while its writer is in `fill`; and what a
reader knows without the lock: what it has read is not ahead of memory, and a
terminal code was read from a terminal record, which stays so. `Implementation`
maps `Assign` to a transition, `Replace` to the file catching up, `Crash` to
memory falling back, and every other step to a stutter. `CallsGiveUpTheLock`: the
lock is taken exactly while a call is in progress, and each step of that call,
one that raises included, leaves it fewer steps (at most four) to its return.

**`ProofJobManifestProofs`.** `TypeCorrect`, `NothingSkipped`, `HandedOnce`. A
claimer decides on what it read earlier. The invariant says why that is sound:
claims only accumulate (`SeenIsClaimed`), so all rows before the one it found are
claimed when it appends (`Found`), and a claimer has seen its own claims
(`HandedIsSeen`), so it is never handed the same job twice. In the step that
appends a claim there are three cases: the row is already claimed by a faster
claimer, it is the next one, or it lies beyond, which `Distinct` excludes.
`Implementation` is the refinement of `JobHandoff`: what has been taken is the
prefix of `rows` that is as long as there are different claims (`Taken`); an
append leaves it, a first claim of a row makes it one longer, a repeated claim is
a stutter. `OneClaimerNoRepetition` adds, for a single claimer, that there are no
repeated claims: what it has claimed is that prefix itself, in order, since it
reads and appends with nobody in between (`AloneInv`).

**`LoadgenProofs`.** `OneProver`, `PendingWhileProving`, and the refinement
`KeepsContract` of `StatusStore`. Nothing in `claim_next` keeps the two callers
of `run_once` apart; the argument is that of two which hold the same job only one
gets past `set_status("pending")`, as the lifecycle has no `pending -> pending`,
and that nobody else moves the status of a request whose job is being proved.
`FileNotAhead` and `FileOnlyForward` say what any program that implements
`StatusStore` may rely on, and `LoadKeepsFile` draws them for `Loadgen`. `ProofEnds`
is what is behind `ProvingFinishes`. It says of a caller that has begun to prove that
the guards of its next step hold (`NextIsOpen`: the process lives, unless the caller is
the worker thread and the process has exited; the store takes the transition it asks
for, or has taken it already), that it is at its end after three steps, and that the
others do not touch it (`ProofGoesOn`). That the drain cannot be cut off is `DrainStep`:
the process exits only when the main thread is out of `run_once`.

**`WorkerProcessProofs`.** `JoinCounts`, `InFlight`, `SinglePlace`,
`FinishedForGood`. A job comes into the worker by a claim of something not yet
claimed, and all that the worker holds is claimed (`HasClaimed`); so a claimed job
is new, and from then on each step moves it from one place to the next (`Apart`).
A job nobody has claimed is still queued, in memory and in the file (`Untouched`),
which also makes a restart sound. That a job whose terminal status is in the file
never comes back follows, since what the worker holds before the proof is pending.
`ClaimsGoOn` is about all the runs of a worker together: a new process reads the
claims of the old one from the file, so over any number of crashes the claims stay
a prefix of the jobs and every step is one of `JobHandoff`'s. `WorkerKeepsContract`
maps the restart to `StatusStore`'s `Lose` and all else to its transitions.

**`BenchCaseProofs`.** All the properties of `bench_case`: `TypeCorrect`,
`QueuedBacked`, `UnenqueuedEnds`, `CountedAreProved`, `TrustEarned`,
`AllProcessed`, `LostAtMostOne`, `CompletedIsDone`, `LeftAreCounted`, and the refinement
`Implementation` of `JobHandoff`. `IInv` has two halves.

*What each knows* (`Core`). `PostInv` says what each place in `post_infer` implies
about manifest and status, and that the status of a request without a job is set
by `post_infer` alone, because the worker only has jobs of the manifest
(`Enlisted`). `InOrder`: the claims are a prefix of the rows, each there once.
`SummaryInv`: what the summary is made of does not change once the child is gone.
`CountedAreProved` rests on the file not being ahead of memory (`ReadyInv`) and the
monotony of cardinality.

*What adds up* (`Counting`). Sentinels on the queue and threads that have taken one
make up what the dispatcher has put (`StopsInv`); claimed jobs are counted as
processed, lost with a dead thread, at work, on the queue or in hand (`JobsInv`);
and `UnfinishedIsWork`. When `join` lets run go on nothing is on the queue or at
work, so all sentinels were taken, each by a thread of its own: none is dead, and
processed equals claimed. `LostInv` follows single jobs: one that was marked is at
least pending, its thread puts it down only in a terminal status (`CallFinishes`:
a store call that raises still leaves a terminal status in memory), and only an
exception in the dispatcher drops one. `CompletedIsDone` puts this together with
`ClaimedInv` (run ended with enough claims) and `ClaimsDistinct`: as many distinct
claims as requests are all the requests. `LeftAreCounted` is the same count when some
requests were not answered: claims there are as many as answers, each claimed job is
terminal (`ClaimedIsTerminal`), so an answer is left over only for a claim that went to
a job without one.

`CaseKeepsContract` is the refinement of `StatusStore`. Two more theorems say what
makes `run` end, without fairness. `NoDeadlock`: as long as no thread has died,
dispatcher and threads never all wait for each other. Suppose no thread has a job
and none waits where there is an item. If the queue is empty, neither `put` nor
`join` blocks (`UnfinishedIsWork`). Otherwise every thread has taken a sentinel; then
by `StopsInv` no sentinel is left on the queue, while behind a sentinel nothing but
sentinels is ever put (`QueueInv`), so the queue is empty after all. `RunWindsDown`:
the work left (`Effort`: jobs not claimed, errands of the dispatcher, items on the
queue, chores of the threads) is a natural number that each step of `run` makes
smaller and that nothing else changes. So a `run` that has all its jobs can be
kept from ending by one thing only, a thread that has died, and that is finding 1.

**`SetupCacheProofs`.** `HitsAreWhole`, `RefsAreOfProof`, `HitsStay`. `IInv` says
that the thread between check and metadata is alone and what the directory looks
like at each of its steps; in particular only what is no entry is deleted
(`UnlinksNoHit`). So an entry is touched by nobody, and the threads that left the
lock may rely on it (`OnHit`). `LockLostByCheckOnly` settles how a lock can be lost
for good: by an exception of the check, which stands before the `try`, and by nothing
else. `HolderGetsOut`: past the check, each step of the holder brings the release
nearer, by a measure that counts artifacts to unlink and to build, and no other
thread changes that measure; it assumes that an adapter has finitely many artifacts.

**`ModelRuntimeProofs`.** `TypeCorrect`, `OwnPacket`, `BothHooks`. The fields may
hold what a failed forward pass left, so the argument is not that they are empty:
a field is filled only through a hook (`Filled`), a module with a post hook has a
pre hook (`PreFirst`), and past an attached hook the field holds the request's own
tensor (`Fresh`), for it is alone inside the lock (`Exclusive`). That is an
equivalence: who has the lock is inside, and who is inside has it. So no failure leaves
it behind, and `NobodyIsStuck` follows: until all requests are done or have raised,
one of them can go on, and none takes more than seven steps.

**`DevInstanceProofs`.** `WorkSurvives`, from an invariant about the disks: a data
disk that is not formatted has nothing on it (`UnformattedIsEmpty`), so formatting it
loses nothing; and at the command that deletes a machine with the restored disk, that
machine has been down since before the snapshot, so nothing on the disk is newer than
what is in it (`RestoredIsSaved`). Nothing is claimed of the boot disk of
`create-instance.sh`, which no script saves.

Model-checked only: the four liveness properties (`RunEndsOrThreadDies`,
`ProvingFinishes`, `LockReleased`, `EveryRequestEnds`), since TLAPS does not reason
about fairness and ENABLED here. What can be said of them without fairness is proved
in `NoDeadlock` and `RunWindsDown` (of a case; `WorkerProcess` has the same
dispatcher and threads), `ProofEnds`, `HolderGetsOut` and `NobodyIsStuck`: somebody
who is not done has a step to take, stated by the guards of the actions and not by
ENABLED, and every step uses up a bounded number of them. What is left to fairness
is that the step is taken. Of `SplitDeployment`, whose only run is that of finding 3,
nothing is proved. No module declares a RECURSIVE operator.

## 6. Not modelled

* Inference itself, hashing, ONNX export, the prove runner, torch and zkLoRA:
  libraries, or pure functions that no property tells apart.
* `ZkLoraAdapter` without a cache root: all threads let the runner fill the same
  directory with no lock. The adapter does nothing of its own there, and what
  comes of it is the runner's doing; listed as a hazard.
* Metrics: plain dictionaries that nothing acts on.
* Two processes on one temporary file: `SplitDeployment` takes a call of the
  store as one step, which is enough for finding 3; listed as a hazard.
* Configuration, schemas, queue placeholders, CSV and markdown summaries, the
  prompt file generator: constant, unused or stateless.
* Of `infra/scripts`, `ssh-instance.sh`, `status.sh` and `sync-workspace.sh`,
  which leave machine, disks and snapshots as they are; and costs, quotas and
  zones, which are reasons for a command to fail.

## 7. Plan

1. Proofs: `NoDeadlock` and `RunWindsDown` for `WorkerProcess`, where `run` is called
   again; the handoff of `Loadgen`, with the repetitions left out; what
   `SplitDeployment` keeps in spite of finding 3, such as terminal statuses of each
   of the two stores.
2. `SplitDeployment` with the steps inside `_persist`, where one process may rename
   what another has half written, and with a server that is started again.
3. Documents against code, where the models show a doubt: the RFC's 202 for a
   request that is accepted and not yet queued; the overload drop described in the
   README; the replay of unfinished jobs described in `plans/mvp-plan.md`.
