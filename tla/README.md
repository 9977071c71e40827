# meept-bench: a TLA+ model of the benchmark runner

meept-bench drives an external agent daemon (*meept*) through suites of tasks.
For every attempt it makes a scratch git worktree, binds it to a daemon session,
submits the prompt, waits for the turn's terminal event while other goroutines
collect the tool trace and push plan-mode tasks along, delivers scheduled
steering turns, checks the worktree, writes a result row, and cleans up.  The
parts that are hard to test are the ones where goroutines share one connection,
where several bench processes share one scratch root, and where the daemon is
slow, silent or gone.  These are modelled here and checked with TLC on small
instances; every safety invariant and action property that a passing run checks is
also proved with TLAPS, for every instance.

Paths below are relative to `src/`.

## 1. Inventory

| Component | State | Operations | Hard part |
|---|---|---|---|
| RPC transport, `internal/daemonclient/daemonclient.go` 30-290 | `Client`: mutex, connection, bufio reader, next id; one reader goroutine per frame | `Call`/`callLocked`, `connect`, `drop`, `Close`, `Fork` | a reader that outlives its call; retries after a lost reply; `mu.Lock` that listens to no ctx |
| Async turn, `daemonclient.go` 420-500, 740-925 | `Subscription` (cursor), `ChatMetrics`, liveness window | `Subscribe`, `Poll`, `Unsubscribe`, `Collect`, `ChatAsync` | events before the ack, parked acknowledgements, other turns' events, stalls, a final drain |
| Plan seal driver, `internal/daemonclient/plan_seal.go` | loop counter; the daemon's draft and task state | `RefineAndSeal`, `findTaskBySession`, `GetDraft`, `SaveDraft`, `SealPlan` | runs beside the turn on the same mutex; `context.Background()` |
| Scratch worktrees, `internal/isolate/isolate.go` | directory, `.bench-owner`, git registration, branch | `Create`, `Teardown`, `parsePID` | kills between two commands; two processes on one name |
| Suite runner, `internal/runner/runner.go` 60-560, 900-1310 | rows, worktrees, transcript | `RunSuite`, `RunTask`, `finishErr`, `teardownUnkeptWorktrees`, pending-write detection, routing checks, cost deltas | order of close/join/unsubscribe; clean-up after a signal |
| Steering turns, `runner.go` 560-890; `daemonclient.go` 290-410 | `TurnEvent`s, `steerTarget`, a forked `Client`, `Chat`'s watcher | `scheduleTurns`, `ids`, `Chat`, `Steer`, `FollowUp`, `waitForTurnRuns` | three delivery paths, each with a timeout that may come after the delivery |
| Diff and gate, `internal/diff`, `scripts/update-baseline.sh`, `.github/workflows/bench.yml` | results files, the baseline branch | `LoadRows`, `best`, `Compare`, `Summarize`; the nightly job; the green check and the force-push | torn lines, two runs in one file, a suite cut short, overlapping jobs, what `run` exits with |
| Scorecard, `internal/scorecard` | per-suite aggregates | `Build`, rendering | float sums in the order of the file, several runs in one file |
| Result rows, `internal/results` | row and transcript types | none | a torn last line |
| Fixtures cache, `internal/fixtures` | recorded tool results | record, replay, key | key collisions |
| Suites, set-up, trusted checkers, `internal/suite` | manifests | load, validate, select, set-up | precedence of defaults |
| Checkers and judge, `internal/checkers` | none | `Run`, single and double judge, lint | what a missing observation or an error counts as |
| LM-eval importer, `internal/suites/lmeval`, `lmevalCmd` | data directory, manifest | `FetchResolved` (download, rows), `Emit` | a dataset that moves, a body that breaks off, an import killed half-way over the data of another |
| Isolation guard, `internal/isolation` | none | refuses to run against a live daemon | path prefixes |
| Command line, probe, version, scripts | flags | | none |

How they interact: `RunSuite` calls `isolate.Create`, then `RunTask`, which opens
one `Client`.  The goroutines of one attempt (RunTask and `ChatAsync`, the seal
driver, the collector) call that client concurrently; scheduled turns and their
watchers call a second client made by `Fork`.  They meet in channels: `done` and
`collected` (RunTask and the collector), `sealCtx` (`ChatAsync` and the driver),
`resolvedConv` (collector to turns), a `WaitGroup` (turns to RunTask), `replies`
(watcher to `Chat`).  Bench processes share the scratch root and its git
repository, and the daemon.

What makes each correct: the transport must give a caller the answer to its own
request or an error; `ChatAsync` must return this turn's terminal event; the
driver must never compile a scaffold and must not leave a parked task; the
trace must be complete when it is read; an attempt's worktree must stand while
it is used and be gone afterwards unless it is kept; a `TurnEvent` must tell
what became of the turn; and with a daemon that answers, RunTask must get to
its checkers; a pass must be earned, and no absent evidence may earn it; a row's
transcript must be of its own run, its cost bounded by what was spent; a scorecard must
not depend on the order of the rows; an imported suite must hold the items it
says it holds.

`PROJECT.json` lists every component with its status and every hazard with its
line.

## 2. Modules

| Module | Models | Composes with |
|---|---|---|
| `RpcPromise` | what a caller of `Client.Call` may rely on: an at-least-once RPC | abstract specification |
| `RpcClient` | the transport: `callLocked`, its reader goroutines, the wire, an external daemon | implements `RpcPromise` (`KeepsPromise`) |
| `RpcClientProofs`, `ChatTurnProofs`, `WorktreesProofs`, `SteeringProofs`, `AttemptProofs`, `ImportProofs`, `GateProofs` | the proofs about the module of that name | extend it and `TLAPS` |
| `Sums` | lemmas: induction over numbers and finite sets, sums, ranks, counting class by class | used by `AttemptProofs`, `ImportProofs` |
| `ChatTurn` | one turn: `ChatAsync`, `RefineAndSeal`, `Collect`, RunTask around them | uses the transport's mutex at the granularity `RpcClient` justifies; implements `TurnPromise` (`KeepsTurnPromise`) |
| `TurnPromise` | what RunTask may rely on: one answer, and a transcript that is whole and at rest | abstract specification |
| `Worktrees` | `Create` and `Teardown` by command, RunSuite's loop and clean-up, several processes | stands alone: shares only `Keep` with the runner |
| `Steering` | `scheduleTurns`, `Chat`, `waitForTurnRuns`, RunTask from the primary reply to the checkers | follows `ChatTurn` in an attempt |
| `Verdict` | operators: the routing evidence and its checks, the verdicts of the checkers and of the double judge | used by `Attempt` |
| `PendingWrites` | operators: `detectPendingWrites` over a trace of interleaved tool events | used by `Attempt` |
| `Scorecard` | operators: `lessAccum`, `Build` | used by `Attempt` |
| `Attempt` | `RunSuite` and `RunTask` from the worktree to the row, with the turn as one step; several runs into one directory; the daemon's counters | extends the three above; `ChatTurn`, `Steering` and `Worktrees` refine its turn and its worktree |
| `Import` | `meept-bench lmeval`: resolve, fetch by download or by rows, emit, manifest; several imports over one data directory | writes what `Attempt` takes as a suite |
| `Gate` | the nightly job from the run of the suite to the pushed baseline, `LoadRows`, `Compare`, `update-baseline.sh` | reads what `RunSuite` appends |
| `MCRpcClient`, `MCWorktrees`, `MCSteering`, `MCGate`, `MCAttempt`, `MCImport` | model values, settings, suites, datasets, symmetry | |

### RpcClient

`pc[c]` is where a `Call` is: before `mu.Lock`, in the retry loop (`attempt`),
in the `select` (`await`), returned.  `mu`, `nextID`, `conn`, `reader` are the
fields of `Client`.  A frame is its JSON-RPC id; `frame[i]` tells how far the
daemon and the reader got with it, `via[i]` the connection it was written to.
The point that a test hardly reaches is `Bind`: the goroutine started at 235
evaluates `c.reader` when it first runs, not when it is started, so it may bind
to a connection that a later call has opened.  `bound[i]` is the connection it
read from.  `Drop` is `drop()`, taken by every exit that leaves a reply unread.
Dial, write, read and hang-up failures are nondeterministic; the daemon may run
a request, and hang up before the reply.  `RpcPromise` sees of all this only
whether a call is pending, returned a result or an error, and which requests
have been run.

### ChatTurn

Three actors, one mutex.  `pc[a]` is an RPC name when the actor is about to send
or has sent that RPC, else a local point; `mu = a` says it has been sent.  What
a call does on an error is by its own ctx (`CtxEnded`), because those differ:
`submit` and `poll` use the turn's ctx, the driver's `list` uses
`context.Background()`, the final drain `context.WithoutCancel`.  `bus` is
`ChatAsync`'s subscription: events of this turn, parked acknowledgements,
progress and foreign terminal events in any order.  `quiet` stands for the
liveness clock (`time.Since(waitStart) >= liveness()`).  `traced` against
`tools` is the collector's progress.  `polls` is `RefineAndSeal`'s counter, 300
in the code.

`TurnPromise` is RunTask's view of all this: the turn begins, uses tools and ends
with a status, RunTask gets one answer (after `ChatAsync` has returned: an error
at any time, a status only if the turn has ended with it), and reads the
transcript once (after `<-collected`), which then holds every tool event from
before the answer unless the collector was broken off, and no longer changes.  An
error says nothing of the turn: it may go on, begin later, or not begin at all.
`Attempt` takes the turn as one step on the strength of this.

### Worktrees

A worktree is four facts that the commands change one at a time: `dir` (and who
made it), `owner` (the pid in `.bench-owner`), `reg` (git's registration),
`branch`.  Each command of `Create` (guard, `RemoveAll`, `prune`, `branch -D`,
`add`, owner file) and `Teardown` (`worktree remove`, `branch -D`) is an action;
a process may be killed between any two and started again under any free pid,
or be cancelled, in which case the deferred clean-up sweeps.  Git is external:
each command fails where git refuses (a registered path, an existing branch, a
branch checked out elsewhere), and for reasons of its own up to a bound, with the
state before it, after it, or half-way.  What the benches are told (their
attempts, `--keep`), whether they see each other, and the bounds are a `setting`,
chosen once from the constant `Settings`, so that one run covers suites with
attempts of their own and two runs of one suite.  `sees` is about the guard's
`kill(pid, 0)`: it takes any error for a dead owner, EPERM as well, so a live owner
that belongs to another user counts as dead (`Owned`).  `hit[b]` are the names for
which a command of b's latest Create or Teardown failed; `NothingLeft` says less
about those.  A setting is `Tame` if its suites have no attempt in common, or if
there are no signals, no failing commands, and the benches see each other: the
settings in which the code protects a tree from other benches.

### Steering

Each turn walks `delay`, `steer`, `followup`, `subscribe`, `chat`, `replies`,
`unsubscribe`, `done`; `ids[t]` are its candidate conversations as `steerTarget`
gave them, `once` the cached resolution.  All calls go over the forked client's
`mu`; the watcher goroutine of a fallback chat polls on it without a pause.
`taken[t]` counts how often the daemon took the message, which is what
`accepted[t]` should reflect.  The collector announces the first lifecycle event with
another conversation id, whosever loop it tells of; so `announced`, and with it
`once` and `ids`, may be `"foreign"`, and a steer or follow-up to that id is taken by
another client's loop (`Queues`).  A poll of `waitForTurnRuns` may fail, which it
passes over.  RunTask (`main`) goes from the primary reply
through the grace window, the join and `waitForTurnRuns`.  Derived, raw and
topic threads are three ids, one of which the daemon's loop of this session runs under.

### Attempt, Verdict, PendingWrites, Scorecard

`pc` is the point RunTask has reached: `create`, `snapshot`, `turn`, `route`,
`check`, `cost`, `row`.  `row` is the result row in the making, `rows` is
results.jsonl, `transcripts` says for each transcript file which attempt of which
run wrote it last.  The file is the sanitized task id with the attempt's number:
`sanitize` maps different ids to one, and `Validate` does not reject a repeated id,
so a task has an `id` and a `slug`, and attempts of two tasks may write one `File`.
`Launch` starts another run (with another `--task` or other tags, from
`Selections`) into the same directory without removing anything, as the code
does.  `log` is the session's dispatch log the daemon answers with: the prompt's
entry, those of scheduled turns, of a dispatch that failed and was repeated, or
none; `Observation` decides what of it is evidence.  `used` is the daemon's
counter, which other clients advance and a rollover resets; `spent`, `own` and
`rolled` are what really happened and appear in properties only.  `faults`
bounds calls that fail, entries and files that are lost.  `Cancel` is the
signal: from then on every call on the suite's ctx fails, while file checks,
the transcript and the row go on.  `work` is the turn's file writes; their tool
events interleave in any order (`Traces`), and `DetectPendingWrites` reads them
as the code does, down to a start event that reads as a completion because the
file's path contains the word "complete" (`misread`).  In `Scorecard` a sum is
its summands by their places in the order, since floats do not add associatively;
`SumOrder` is the stable sort, told by how many rows go before each.

### Import

One import walks `resolve`, `fetch`, then `stream` (one item at a time through
Algorithm R) or `page`, then `emit` (one item at a time), and ends `off`.
`rev` is what `FetchResolved` returns and the manifest records, `src` the
revision the items really come from. `draw` is the generator: what it yields
for the n-th item is fixed by the seed, and `Draws` is the range the code asks
for. `Kept`, which only `SamplingUniform` and `SeedSamples` use, is Algorithm R over the places
of the items instead of the items. `cut` marks a fetch that ended early
without an error. `data` holds the session files by task and number, with
those of earlier imports; `dirty` says that they were touched since the
manifest was written.

### Gate

A job place walks `restore`, `run`, `diff`, `green`, `fetch`, `push`, or stops
in `red`.  `lines` and `torn` are results.jsonl: rows in order, and whether the
last one was cut short; an append after that makes a line that is no JSON.
`ByTask`, `Best`, `Status` and `Regressed` are `Compare` and the part of
`Summarize` that the exit code depends on; `Exit` is what `run` exits with;
`IsGreen` is the shell loop, which does not see an unterminated last line.
Because each of the three checks (exit code, diff, green check) has to stand
alone when a person uses it, `Rerun` and `GoOn` let somebody append to a red
job's file and continue at any of them.  `branch` is the baseline all jobs
share; `seen` is what the script fetched before it pushes.

## 3. Runs

| Run | Instance | Shows |
|---|---|---|
| `rpc_safety` | 2 calls, 3 attempts each, 6 frames, 2 faults | types; the stream never shifts; a result is the call's own; the transport implements the promise; every call returns once every ctx ends |
| `turn_safety` | 1 seal poll, 1 other event, 1 tool event, 1 fault, daemon may wedge | the result is this turn's terminal event; no scaffold is compiled; the trace is complete; RunTask sees what `TurnPromise` allows |
| `turn_live` | 2 seal polls, no faults, daemon answers | the attempt gets past the turn; a parked plan is sealed |
| `turn_wedged` (violation) | daemon may wedge | the ctx does not bound the turn |
| `worktrees_safety` | 2 benches, 3 pids, kills, `Overlap` off; attempts of their own, 2 processes each, cancels, 1 fault; or the same attempt, 3 processes each, no cancels; or the same attempt, 2 processes each, cancels and `--keep`, by one user or by two | `worktree add` is never refused; what a suite alone makes it leaves only if it keeps it or a command of that Teardown failed; no suite removes what it keeps; in a tame setting nobody else's Teardown takes a kept or a live tree |
| `worktrees_overlap` (violation) | the same attempt, 1 process each, `Overlap` on | the owner file does not protect a tree when two Creates overlap |
| `steering_safety` | 1 turn and its watcher, 2 faults, 3 quiet polls, own and foreign lifecycle events | finished events only; delivered once while nothing fails; RunTask reaches its checkers |
| `steering_accepted` (violation) | 1 turn | a message that was never taken is recorded as accepted |
| `gate_safety` | 2 overlapping jobs, symmetric; 2 tasks, 1 attempt, 2 runs each, a verdict that is tolerated and one that is not, 1 fault | no red row is ever published; a baseline covers the suite unless a row was lost or a run interrupted; the workflow's diff gate has nothing to find; nothing replaces a pass unseen after a diff |
| `attempt_safety` | 2 tasks whose ids are sanitized alike, then the first one again; 1 other client's turn, 1 rollover, 1 fault, a signal anywhere; 3 pairs and a triple of parallel writes; 4 pairs of scores | a pass is earned; staged writes are reported; no row of a run has an earlier run's transcript; rows charge no more than was spent, and no less than their own turn; the card does not depend on the order of the rows; every failure is counted once |
| `import_safety` | 4 items in 2 revisions, 8 configurations, 2 imports, 1 fault, pages of at most 3 | a manifest records the revision its items are from; it selects as many items as asked for, without a seed the first ones; its session files are those of its items; the sample is uniform |
| `import_seeded` (violation) | the same | with the rows method a seed draws no sample |

Every property of a passing run has a mutant: a plausible mistake in one mapped
definition (a dropped `drop()`, a final drain left out, `branch -D` before
`worktree remove`, an ended ctx not looked at, ...) under which TLC finds the
property violated.  They are operators beside the definition they change.

### Bounds and why they are enough

* `MaxRetries = 2` is the code's constant.  `MaxFrames = 6` covers three
  attempts of both calls, so ids never run out first.  Two calls suffice for
  the mutex and the late reader: the holder and one successor; the proofs drop
  the bound.
* `SealPolls = 2` (in `turn_live`) lets the driver poll before and after the task
  appears; more polls repeat the same states.  `turn_safety` has one, since its
  properties do not depend on how often the driver looked in vain.  One foreign
  or parked event before the terminal one is what the filter has to tell apart,
  one tool event is what a missing drain loses; one fault reaches every error
  path, a wedge the rest.
* Two processes per bench and one fault per behaviour let a Create meet every
  residue of a kill and of a Teardown that failed half-way.  Three pids for two
  benches allow a pid to be used again.
  The setting with attempts of their own has the failing command; the three with a
  shared attempt have what one bench does to the other's tree, without and with
  signals, and with an owner the guard cannot see.
* One turn and its watcher already contend with RunTask for the forked client's
  mutex, with faults enough for two of the three delivery paths; that turns do not
  disturb each other's message is proved for any number of them
  (`SteeringProofs`).  `QuietPolls` is 3 in the code and here.
* Two tasks tell apart the first row, the last row and a missing row; two runs
  of the suite put two rows of one task into a file; two jobs overlap in every
  order.  With `--attempts 1`, as in the workflow, a task gets its several rows
  from the second run; one lost row or interrupt meets every step of a run.

* In `attempt_safety` one task has an expected agent, a forbidden method, a file
  and a judge, the other a scheduled turn and a script: every kind of evidence
  and of check is there, passing, failing and missing.  Two runs are what it
  takes to leave an old transcript, two rows of one attempt, and a counter that
  does not start at 0; one other turn and one rollover fall at each of the three
  points where the counter matters.  The two tasks have one sanitized name, so the
  second overwrites the transcript of the first within a run.  The eight kinds of write (direct, staged,
  telling, misread) appear in groups whose events interleave in every way; one
  group has three staged writes, more than `MaxPendingWriteDetails` (2 here, 5 in
  the code), so the list is cut.
* In `import_safety` four items exceed both limits and the page; the second
  revision changes an item's sessions, a question and has an item without
  sessions, one question is asked twice: any mix-up of index, hash or revision
  shows.  Rows with a seed are among the configurations.  Two imports put one configuration's files over another's.

`CHECK_DEADLOCK FALSE` is stated for the two runs of `ChatTurn` in which the
daemon may wedge: with a wedged daemon and no deadline the attempt really
stands still.  All other runs check deadlock.

### Fairness

Go runs every runnable goroutine: weak fairness per goroutine.  `sync.Mutex`
hands over in FIFO order once a waiter has starved for a millisecond: strong
fairness on `Lock`, per caller.  A `select` with several ready cases picks one at
random: strong fairness on the cases `ctx.Done()` and `done`.  Timers fire: weak
fairness on windows and (in `RpcClient`) on deadlines.  Nothing is assumed of
the daemon except where a run says "answers": there, an RPC that has been sent
returns, which is part of the actor's own step.  Not assumed: that a turn
finishes, that a hung daemon recovers, that a delay is over.

## 4. Proofs

Every module with a state machine has its theorems in a module of its own.  They
hold for all values of the constants that the module's `ASSUME` admits: any number
of calls, benches, turns, jobs, tasks, attempts, polls, faults and kills, any suite,
any dataset.  TLC checks each proved formula too, on the small instance.

| Module | Theorem | States | Beyond the module's `ASSUME` |
|---|---|---|---|
| `RpcClientProofs` | `TypeCorrect` | `[]TypeOK` | |
| | `StreamStaysAligned` | `[]StreamAligned` | |
| | `ResultIsOwnReply` | `[]OwnReply` | |
| | `ClientKeepsPromise` | `KeepsPromise`: `RpcClient` implements `RpcPromise` | |
| `ChatTurnProofs` | `TypeCorrect` | `[]TypeOK` | |
| | `OwnEvent` | `[]ResultIsTerminalEvent` | |
| | `NeverAScaffold` | `[]NoCompileProblems` | |
| | `NothingMissed` | `[]TraceComplete` | |
| | `TurnKeepsPromise` | `KeepsTurnPromise`: `ChatTurn` implements `TurnPromise` | |
| `WorktreesProofs` | `TypeCorrect` | `[]TypeOK` | |
| | `CreateRepairs` | `[]AddCannotFail` | Creates of one name do not overlap |
| | `UsersAreSafe` | `[]LiveTreeStands` | the same |
| | `KeptTreesStand` | `KeptStays`, an action property | the same |
| | `NothingIsLeft` | `[]NothingLeft` | |
| `SteeringProofs` | `TypeCorrect` | `[]TypeOK` | |
| | `EventsAreFinal` | `[]TurnsRecorded` | |
| | `AtMostOnce` | `[]DeliveredOnce` | |
| `AttemptProofs` | `TypeCorrect` | `[]TypeOK` | |
| | `RowsHaveTranscripts` | `[]TranscriptsMatchRows` | |
| | `ChargedInFull` | `[]CostWhole` | |
| | `NoUnearnedPass` | `[]PassIsEarned` | |
| | `PendingComplete` | `[]StagedReported` | |
| | `NothingChargedTwice` | `[]CostBounded` | |
| | `CardOfAnyOrder` | `[]CardOrderFree` | |
| | `EveryFailureCounted` | `[]TaxonomyComplete` | |
| `ImportProofs` | `TypeCorrect` | `[]TypeOK` | |
| | `AsAskedFor` | `[]Selection` | |
| | `RevisionIsRecorded` | `[]RecordedRevision` | |
| | `DataIsOwn` | `[]DataMatches` | |
| | `SampleIsUniform` | `[]SamplingUniform` | |
| `GateProofs` | `TypeCorrect` | `[]TypeOK` | |
| | `OnlyPassesPublished` | `[]PublishedPasses` | |
| | `WholeIsPublished` | `[]PublishedWhole` | |
| | `GateSeesOnlyGreen` | `[]DiffSeesOnlyGreen` | |
| | `PassesAreKept` | `[]NoSilentRegression` | |

None of the invariants is inductive as it stands.  The strengthenings, and the
step that makes each necessary:

**RpcClient.**  Whether the next frame on the live connection belongs to the
waiting call depends on which call wrote which frame, and on what reader
goroutines may still take.  The inductive invariant `IInv` adds: a call is inside
`callLocked` exactly when it holds the mutex (`MutexHeld`); the live connection is
the newest one and `c.reader` is its reader (`ConnCurrent`); frames exist up to
`nextID`, on connections already dialled, and have an owner (`FramesKnown`,
`CurKnown`); a waiting call's frame is on the live connection (`Waiting`); a
goroutine that has got a frame took it off the stream (`TakenFrames`), and the
goroutine of a waiting call got that call's frame (`OwnFrame`).  `Take` makes
these necessary: a goroutine of an earlier call that bound late may take the
frame the holder waits for, which leaves the stream empty but never puts a
foreign frame on it, and the holder's own goroutine then finds nothing.  The
refinement maps `pc`/`outcome` to `phase` and the frames that ran to `ran`; only
`Invoke`, `Run` and the returns change these, all other actions stutter.

**ChatTurn.**  `Placed` says which control points each actor visits, `Refined`
that a driver on its way to `plan.seal` has a concrete draft, `Drained` that a
collector that ended in time polled once after `done` was closed, and that RunTask
only has the transcript of a collector that has ended.  `Watched` is the
one that takes an argument: the daemon cannot start the turn before it is
subscribed to, so a terminal event cannot get lost, and any terminal event of
this turn on the bus is the one the daemon recorded; parked and foreign events may
stand before and behind it.  The refinement follows step by step: `Submit`,
`ToolEvent`, `Finish` are the daemon's part, `ReturnToRunTask` is the answer (by
`ResultIsTerminalEvent` a status is the one recorded), `JoinCollector` the reading
(by `Drained` nothing is missing); an interrupt or a failed poll breaks the
collector off, every other action is hidden from RunTask.  `TraceComplete` holds
also for a RunTask that does not wait for `<-collected`; the promise does not.

**Worktrees.**  `Named` and `Exclusive`: while Creates of one name do not overlap,
what a Create has cleared stays cleared (`Cleared`), because every other command
that makes a directory, a registration or a branch of that name belongs to a
Create.  That gives `AddCannotFail` whatever kills and failures left before.  A
live worktree needs more, since Teardown and the sweep of another process may
name it: `Alone` and `Held` say that nobody else works on a name somebody uses.
They hold in
`Tame` settings, and `LiveTreeStands` speaks of those: in the others the code does
take a live tree away (section 5).  `KeptStays` speaks of all settings: a suite's own
steps never remove what it keeps, because a kept name is neither in work nor still to
come (`KeptApart`), and another bench's Teardown may take a kept tree only where the
setting is not tame.  A Create of the name may in any (the owner of a kept tree is
dead).  `Once`, `Tidy` and `Branched` carry the clean-up: a process gets to each
name once; a name of one suite only is either ahead, or in work, or gone, or kept,
or one for which a command failed (`hit`); and a registration has its branch, since
git refuses to delete the branch of a registered worktree.

**Steering.**  `EventSet` and `AllJoined` carry `TurnsRecorded` from the goroutine
that sets the event to the join before it is read.  `Offering` and `TakenLast` say
that an offer is not repeated: a turn whose message was taken is past all three
paths, unless a fault hid the answer.

**Attempt.**  `UnderWay` ties the counters to the suite, `Beside` says for the
transcripts of this run's rows that an attempt of this run wrote them, the row's own
or a later one of the same file name (`WrittenBy`), `Counted` that the counter
advanced since the snapshot by what the turn spent at least (other clients only
add; `rolled` excepts a reset), and `Earned` what a row that still passes has shown
at each point: the routing evidence once `Route` is over, the findings once `Check`
is.  `Paid` makes `CostBounded` inductive: what the rows charge, and what the
counter advanced since the snapshot of the attempt under way, have been spent
together; it is the clamp of `Delta` at a rollover, and that the snapshot of one
attempt comes after the row of the one before, that keep it.  `Explained` says of
each row that it has no kind exactly if its checkers judged it.

Four lemmas about operators carry the rest.  *A trace of parallel calls*
(`TraceOfCalls`, `CallsSeen`): whatever the merge, the events of one call in the
trace are those the call emits, so what `detectPendingWrites` says of a call depends
on that call alone; `Reported` adds that the list is cut by rank, so it has as many
calls as it may have.  *A sort by counting* (`SortAscends`, `SortsAlike`): `SumOrder`
is a permutation that ascends, and two ascending permutations of one file differ
only between rows whose task, attempt and summands are the same, so every sum of
`Build` has the same summand in the same place (`CardOfRows`).  *Sums by rows*
(`ChargesMore`): one more row adds what it charges.  *Failures class by class*
(`CardComplete`): the rows that did not pass are those of some kind, each counted
under one, and those without.

**Import.**  `Sourced` follows the items from the revision they are read from to
the one that will be recorded, `Named` says that the i-th task carries the id of
the i-th item, whence no two tasks share a path, `Written` that what has been
emitted stands in the files, `Traced` that the manifest keeps all this after the
import.  `Chosen` says how the items so far were chosen: the first ones, or (with a
seed) those at distinct places, and as many as the limit and the split allow unless
the fetch was cut; `Selected` keeps it for the manifest.

`SampleIsUniform` is by induction over the items (`EvenSteps`), without any formula
for the number of selections.  Let every selection of `limit` of the first m places
be reached by w draws.  One without place m+1 is reached from itself, by each of the
m+1-limit draws that keep nothing new (`WaysLeft`).  One with it, R and m+1, is
reached from the selections R and x, by the one draw that hits x (`WaysChanged`), and
there are m+1-limit such x (`WaysBeyond`).  Both are w * (m+1-limit).  That the
selections are equally likely then follows by counting all draws selection by
selection (`FairShare`).  `Sampling` ties this to the run: the items kept are those in
the places that Algorithm R keeps for the draws of the seed.  An `Intn` one off
breaks `WaysLeft`.

**Sums.**  The library's induction theorems take an operator and cannot be applied
here, so `NatInduct` and `SetInduct` are stated for a set: a set that contains 0, and
n + 1 with n, contains every number.  They give that the recursive function in the
community modules' sums exists and does not depend on the order of the elements
(`SumOne`, `SumBijection`), that a set is counted class by class (`SumOfClasses`), and
that ranks in a total order are the numbers below the size of the set (`Ranks`).

**Gate.**  `Checked` and `Gated` say that what was compared is what gets pushed:
nothing writes to a job's results between its check and its push.  `Workflow`
follows a job nobody interferes with.  `Appended` and `Covered` are for
`PublishedWhole`: without faults the last `made` rows of a file are those of the
run under way, in order, so a run that ended red or green left a whole stretch
of `Tasks * Attempts` rows, and a later run into the same file only adds behind it.

### Only model-checked

The liveness properties: `EveryCallReturns`, `AttemptMovesOn`, `PlanGetsSealed`,
`RunTaskMovesOn`.  The prover has no rules for fairness and ENABLED.  The four runs
that expect a violation have a counterexample and no theorem.  That the bounded
instances are non-empty (a staged write, a full list, a row of every kind, a manifest
of every configuration) is TLC's part as well: every action fires and every property
has a mutant that breaks it.

## 5. Where code and comments disagree

* "ctx bounds the WHOLE turn" does not hold against a daemon that stops
  answering while the seal driver lists tasks (`turn_wedged`).
* The owner-file guard does not protect two Creates that overlap
  (`worktrees_overlap`).
* A chat that failed is recorded as accepted (`steering_accepted`).
* "Nonzero → deterministic reservoir sample over the whole split" holds for downloads
  only; the rows method ignores the seed, which the manifest records
  (`import_seeded`).

Met while modelling and not shown by a run of their own: a frame write or read
failure is retried although the comment on `dialBackoff` (daemonclient.go:192)
calls it fatal, so the daemon may run a submit or a steer twice (the promise of
`RpcPromise` is at-least-once for that reason); an import with "0 = all items"
(lmeval.go:38) ends without an error with fewer, when the download breaks off
between two items (`dec.More` is then false as well) or an error object comes in
place of a page (`Selection` excepts imports that were `cut`); the comment on
`taskID` says the hash keeps ids stable when items come in another order, but
the index is in the id; a staged write whose path contains "complete" is not
reported, because its start event reads as the completion; `detectPendingWrites`
never looks at the success flag that the comment at runner.go:248 says it
correlates; the comment at checkers.go:205 promises the first judge's error, the
detail has the second's; after a signal the attempt under way is recorded as
"timeout", "fail" or "error" like one the agent failed, and a task with
scheduled turns and an expected route can never pass;
the reader goroutine evaluates `c.reader` without the mutex, so one of a cancelled
call that starts late may take the next call's reply (`OwnReply` shows that no
caller gets a foreign result; the call whose reply is taken waits until its ctx ends
or the connection breaks, and without a deadline it may hold the mutex for good);
`run` exits with
0 when the suite stops early after passing rows, and the half file becomes the
baseline (`PublishedWhole` therefore speaks of complete runs only); the diff gate
of the workflow runs only on results that all passed (`DiffSeesOnlyGreen`); one failed
poll ends the collector although its comment promises to run until `done`; a
cancelled attempt is a timeout, so its worktree is kept without `--keep`; the
sweep after a cancel tears down worktrees of finished attempts again, whoever
owns them now, so "never touched" (runner.go:1302) is not true of a tree that
another run of the suite keeps under the same name; the guard takes EPERM for a dead
owner (isolate.go:81), so a second user's run removes the first one's live tree;
repeated or alike sanitized task ids pass `Validate`, and the later attempt overwrites
the transcript of the earlier (`TranscriptsMatchRows` therefore allows a later attempt
of the same run); the collector takes any client's lifecycle event for its own loop's
(runner.go:279), so a scheduled turn may be steered into a foreign conversation; a
failure that the checkers judged has no kind, so the kinds of a card do not add up to
its failures (`TaxonomyComplete` counts those rows separately); `waitForTurnRuns` polls a subscription that RunTask has already
closed; `steerTarget.once` caches an early miss.

## 6. Not modelled

The daemon beyond what the client observes; formatting, manifests, shell checks
and the judge's model; timestamps of the poll cursor (the daemon's filter is not
in this repository); encoding of frames (a torn frame is a read error).  `Gate`
leaves out wall and cost warnings, the other suites' baselines on the branch and
a push or fetch that fails.  `Attempt` leaves out the deterministic-tools gate's
status call (one more way for `OpenErr`), wall times, seeds and the ledger
fields of a row; an expected intent is treated like an expected agent.  `Import`
leaves out the text of prompts and sessions, the choice of the checker, and the
10000-page bound.

Components without a module: the fixtures cache (pure file formats; the daemon
uses it, not the runner), suite manifests and set-up (parsing and copying files
once per attempt; a set-up that fails is an `OpenErr`), the isolation guard (a
test of one path), the command line (flags and printing; the exit codes are in
`Gate`, `lmevalCmd` in `Import`), the probe tool, the version and the scripts.

## 7. Plan

Done: all modules of section 2 with their runs, and the proofs of section 4.

Open, should the project be carried on:

1. `EventCursor`: `Poll`'s cursor against a daemon that filters by time; it needs
   the daemon's filter, which is not in this repository.
2. In `Gate`: several suites on one branch with a fetch that fails, sharded and
   merged result files, `Summarize`'s wall warnings over medians.
3. Operators with reference definitions: fixture keys, suite selection.
4. In `Worktrees`: should Teardown come to ask for the owner, `Tame` can go from
   `LiveTreeStands` and `KeptStays`.
