# Verification of the harness runtime

TLA+ models of the parts of this repository that keep state and run concurrently,
TLC configurations that check them on small instances, and proofs that TLAPS checks
for every value of the constants.  `PROJECT.json` lists the components, the runs, the
mutants (a deliberate bug for every property, to show that the property notices it),
the source lines of every definition, the findings, the hazards and the theorems.

    tlc -workers 2 -config MCWorkspace.cfg MCWorkspace     # one run
    tlapm BudgetWave_proofs.tla                            # the proofs of a module

Paths below are under `src/harness/`; `lha/`, `monitoring/` and files without a
directory are under `harness-runtime/src/`.

## 1. The system

The harness is an AI agent for operators: a user types into a session, a controller
queues the input, and a turn runs the agent loop (model requests and tool calls) or a
council of experts until it delivers a report.  Every turn is also a task of a durable
control plane, the *long horizon* runtime (`lha/`), which has one directory of files
per workspace.

```
 UI (window) / ACP / CLI -- switch, delete ------------------.
      | submit, cancel                                       |
 SessionController  --- one consumer task per session ---> session logs (JSONL)
      |  forks the context of the application                  ^
      | run_durable_turn                                       | TurnStart ...
      v                                                        | Delivery, TurnEnd
 LongHorizonManager: one runtime per workspace         agent loop / council -> experts
      |   \___ heartbeat task per turn                    |    |        |
      |   \___ watchdog per runtime                 tools |    | model  | emit
      v                                                   v    v        v
 LongHorizonRuntime  <--- admit_llm --- BudgetedLlmProvider   monitoring tap -> spool
   DAG | budget | effects | decisions                 |
      |       |        \_______|                      v
  dag.jsonl  budget.json     *.jsonl          rate limiter -> provider -> SSE -> calls
  vault: refs.json + objects
                  knowledge root, remembered facts, skill packs: files + caches
```

The parts with state of their own:

| component | state | operations | what is hard |
|---|---|---|---|
| DAG (`lha/state_machine.rs`) | task records folded from events, sequence number | 11 single-commit methods; `refresh_ready` and `reap_expired`, several commits each | a crash or an error between commits; lists computed before the first commit |
| JSONL logs (`state_machine`, `effects`, `hitl`, `blackboard`) | file, state in memory | `commit`, `open` with tail repair and replay | torn writes, lost page cache, errors that leave bytes behind |
| Turns (`long_horizon.rs`, `lha/orchestrator.rs`, `lha/watchdog.rs`) | tasks, leases, a heartbeat task per turn | submit, claim, heartbeat, finalize, fail, cancel, reclaim | lease expiry racing heartbeat and completion; dropped futures; crashes |
| Token allowance (`lha/rate_limit.rs`, `lha/orchestrator.rs`) | balance in memory and in `budget.json` | reset at a new wave, admission, exhaustion, save, load | two mutexes, parallel requests, save errors, restart |
| Rate limits (`lha/rate_limit.rs`) | request and token buckets, silence after a 429 | admit, refill, `record_429` | clocks read before the mutex, rounding, starvation |
| Artifact vault (`lha/artifact_vault.rs`, `lha/storage.rs`) | `refs.json`, its backup, lock file | publish (compare-and-set), select, versions, open | lock expiry and theft, unlocked readers, other processes, a crash at each step of a replacement |
| Effects and decisions (`lha/effects.rs`, `lha/hitl.rs`) | prepared, executed, compensated effects; checkpoints | prepare, mark, compensate; request, decide | a crash between doing and recording; reuse of an approval |
| Session controller (`controller.rs`) | queues, running flags, cancellation tokens | submit, remove, cancel, consumer loop, `close_failed_turn` | a submission racing the end of a consumer; cancellation racing the next turn |
| Session logs (`harness-session/src/log.rs`) | files, states in memory, pins | append, close interrupted turn, switch, delete, load | appends without sync, torn tails, background turns |
| Contexts (`harness-core/src/event.rs`, `subagent.rs`, `long_horizon.rs`) | subscription tables, services, permits | fork, subscribe, drop, override, acquire | copies taken while others subscribe; who writes to whose log |
| Council (`council.rs`, `subagent.rs`) | graph of experts, attempts | schedule, retry, resume, cancel, gates | parallel experts, idle cuts, commands that outlive their expert |
| Agent loop (`agent_loop.rs`, `goal_execution.rs`, `execution.rs`, `delivery_decision.rs`) | solve graph, facts, budgets, governor | a step of the loop, tool results, end and resumption of a turn | the order of the judgements at the end of a step; stale evidence |
| Self-monitoring (`monitoring/`) | three queues, a hash-chained spool | emit, drain, rotate, observe | full queues, failed writes, shutdown |
| Model clients (`harness-llm/src/`) | buffers of a stream | frames, fragments of calls, DSML blocks | cuts anywhere, answers that end badly |
| Knowledge (`harness-capability/src/`) | `review/`, `facts/`, index, checkpoint | distil, approve, promote, sync, recall | promotions that die, edits during a walk |
| Memory and skills (`harness-provider-memory/src/`, `index.rs`) | `facts.json`, cache, index; pack folders, records | write, recall, sync, toggle, install, delete | no lock from the load to the write |
| Window (`harness-ui/src/gui/app_state.rs`) | bubbles, position in the log | poll, submit, switch, delete | frames cut anywhere, other chats at work |

The parts that keep no state beyond a call, or are I/O, text and drawing, are listed
in `PROJECT.json` with the reason they are not modelled; section 6 has what matters.

What makes each component correct:

- *DAG*: a task is handed out only when its dependencies have succeeded, at most
  `max_retries + 1` times, and never again once closed; batches never stop half way.
- *Logs*: what a caller was told is committed is there after any crash, and the log
  opens again.
- *Turns*: a live turn keeps its lease; a lost lease never completes a task; no success
  without an artifact; nothing stays held by the dead.
- *Allowance and limits*: no wave sends more than the cap, on any interleaving and over
  restarts; an exhausted task sends nothing more; a bucket gives what it was refilled
  with, and who waited long enough is served.
- *Vault*: a version that was published stays, at its generation; the authority of a
  key is one of its versions.
- *Effects*: nothing irreversible without an approval of just that; nothing undone twice.
- *Controller, sessions, contexts*: one consumer per session, every input one closed turn
  with one conclusion, in order, in the session it was submitted to; a stop request hits
  the turn under way; two states never append to one file.
- *Council, agent loop*: nodes in the order of their graph; nothing is delivered as
  verified that was not; the budget is not renewed by resuming; everything ends.
- *Monitoring*: what was emitted is a line or counted as lost, and the chain holds.
- *Streams*: however an answer is cut, it is read as it was sent, and a call is issued
  whole or not at all.
- *Knowledge, memory, skills, window*: copies agree with what they are copies of.

## 2. Modules

| module | models | source |
|---|---|---|
| `TaskContract` | what the DAG promises its clients (abstract) | - |
| `DurableDag` | the DAG, one action per method and per commit of a batch | `lha/state_machine.rs` |
| `DurableDagContract` | the refinement mapping to `TaskContract` | - |
| `WalLog` | the inside of a commit, crashes, power failures, errors, `open` | `state_machine.rs`, `effects.rs`, `hitl.rs`, `blackboard.rs`, `storage.rs` |
| `TurnLease` (extends `DurableDag`) | turns, heartbeats, watchdog, time | `long_horizon.rs`, `orchestrator.rs`, `watchdog.rs` |
| `BudgetWave` | waves, admission, the allowance and its file | `orchestrator.rs`, `rate_limit.rs`, `storage.rs`, `long_horizon.rs` |
| `RateLimiter` | buckets, waits, silences of one provider | `lha/rate_limit.rs` |
| `ArtifactVault` | lock, compare-and-set, file replacement, processes | `artifact_vault.rs`, `storage.rs` |
| `VersionStore` | what the vault promises its callers (abstract) | - |
| `VaultStore` | the refinement mapping to `VersionStore` | - |
| `EffectSaga` | effects, decisions, crashes between doing and recording | `effects.rs`, `hitl.rs`, `orchestrator.rs` |
| `TurnController` | queues, consumers, cancellation, turn events | `controller.rs`, `agent_loop.rs`, `council.rs` |
| `CouncilDag` | the scheduler of the experts | `council.rs`, `subagent.rs` |
| `ServiceScopes` | who works with which log, model and tools; permits | `subagent.rs`, `long_horizon.rs`, `controller.rs` |
| `EventTables` | subscriptions and their copies in forks | `harness-core/src/event.rs` |
| `SessionLog` | files, states in memory, pins, the interface's operations | `harness-session/src/log.rs`, `app_state.rs` |
| `SolveGraph`, `ExecutionFacts` | the two projections of a turn, as functions | `goal_execution.rs`, `execution.rs`, `delivery_decision.rs` |
| `AgentLoop` (extends them) | a turn of the agent and its resumption | `agent_loop.rs` |
| `MonitorTap` | queues, writer, spool, guard, observer | `monitoring/{tap,wal,hot_guard,observer}.rs` |
| `StreamCuts` | frames and DSML blocks in an answer cut anywhere | `harness-llm/src/{sse,dsml}.rs` |
| `ModelStream` | calls put together from fragments, answers that end badly | `openai_compat.rs`, `anthropic.rs` |
| `FactPromotion`, `KnowledgeIndex`, `KnowledgeBase` | candidates and facts; the index and its checkpoint; both | `harness-capability/src/{distill,promotion,index}.rs` |
| `MemoryFacts` | remembered facts: file, cache, index | `harness-provider-memory/src/assets_native.rs` |
| `SkillLibrary` | pack folders, records, cached list | `index.rs`, `superpowers.rs`, `assets_native.rs` |
| `WindowView` | the conversation as the window shows it | `harness-ui/src/gui/app_state.rs` |
| `MC*` | constants and compositions for TLC | - |
| `*_proofs` | theorems (`Contexts_proofs`: `ServiceScopes`, `EventTables`, `MemoryFacts` and `SkillLibrary`; `BudgetWave_proofs`: `RateLimiter` too; `WalLog_proofs`: `MonitorTap` and `ModelStream` too; `ArtifactVault_proofs`: `CouncilDag` too; `EffectSaga_proofs`: `AgentLoop` too; `TurnLease_proofs`: `WindowView` and `SessionLog` too; `DurableDag_proofs`: `KnowledgeBase` too) | - |

### DurableDag

A task record is spread over one function per field.  `apply_event` is one operator per
event (`TaskStarted`, `TaskFailed`, ...), the guard its checks, and a public method is the
event under `Exclusive`.  Every method ends in `commit`, which applies the event to a
copy, appends and syncs it and then replaces the state; that is one atomic step here and
`WalLog` has its inside.  `refresh_ready` and `reap_expired` compute a list and commit
its entries one by one: `refreshing`, `reaping` and `retrying` hold what is left of the
list, and `Abandon` is the crash or the `?` that cuts it off.  `validate_spec`'s search
for a cycle is reduced to `t \notin D`: no task of the map can depend on an id that is
not in it.  Deadlines saturate at `MaxMs`, which stands for `u64::MAX`.

`TaskContract` has neither workers, leases nor batches: tasks are waiting, held, failed,
done or closed, with a number of hand-outs left.  `DurableDagContract` maps `Scheduled`,
`Running` and `Validating` to *held*, and counts the hand-outs from `retry_count`.

### WalLog

The state in memory is the fold of the events, so it is represented by the sequence of
the events it was built from.  A line is the record that was written, or `Garbled` when
the bytes of two writes share it; `tail` says that bytes without a newline follow.
`WriteLine` is `write_all`, `SyncAndApply` the sync with the replacement of the state,
and both may fail, leaving their bytes and the process running.  `ProcessCrash` keeps the
page cache, `PowerLoss` any prefix that contains what was synced.  `Reopen` is
`repair_jsonl_tail` with the replay.

Assumed: one process per log, and the directory entry of a new file survives a power
failure (the code does not sync the directory).

### TurnLease

`pc` follows `run_durable_turn`: submit, claim, spawn of the heartbeat, the agent loop,
stop of the heartbeat, publication, validation, completion, or the failing and the
cancelling branch.  A method with several commits keeps the DAG's mutex from the first to
the last (`Holding`).  Errors leave each method where its `?` does (`AfterError`).  A
dropped turn leaves its heartbeat behind, as the tokio task it is.

Time is relative: leases hold the time left, `now_ms()` is 0, and `Tick` brings every
lease and timer a unit closer.  `ClaimDelays` is the time a claim takes after it read the
clock.  With `Timely`, time passes only when no heartbeat or method is due, which is what
"the process is healthy" means in `LiveTurnHoldsLease`.

### BudgetWave and RateLimiter

The DAG and the allowance have a mutex each.  `submit` keeps the DAG from its look at the
tasks to the new task, and takes the allowance inside to reset it when no task is live: a
*wave*.  An admission takes the allowance, debits it, saves the file with the mutex held
(three steps of `atomic_write`), lets go, and only then looks at the verdict.  A turn has
one request per surface in flight; they are polled by one task, so one is admitted at a
time, but the others are waiting while the first one closes the task.  A crash loses the
memory and the locks; `Reopen` loads the file and saves it again.  `spent` is a history
variable with the estimates that went upstream in this wave.  What is counted is the
estimate, as in the code; the usage that the provider reports does not change the
allowance.

`RateLimiter` has the buckets that `BudgetWave` leaves to chance (a nondeterministic
`Backpressure`).  A caller reads `now_ms()` before it takes the mutex, so `refill` may see
clocks out of order; `saturating_sub` makes the time between zero, and the bucket's clock
goes *back*.  `skew` is the history of how far, since that time is counted again.  A caller
that is told to wait sleeps exactly so long; `calm` says that nobody was served or struck
meanwhile.  Units are fractions of a request and a token, as in the code's scaling, and the
jitter of a silence is a part of `Delay`.

### ArtifactVault

An actor is one call: `finalize_delivery`, which reads the generation without the lock and
publishes under it, or `select_authoritative`.  The lock file has the code's life:
`create_new`, a separate write of its expiry, a look at it by the others, the removal of an
expired one *by path*, and the removal on drop *by path*.  `recover_atomic` and the rename
steps are single actions that calls, processes that open, and crashes can interleave with.
Three constants name what the passing run assumes: `Prompt` (no call outlives its lock),
`StealAlone` (two calls do not remove the same expired lock), and the number of processes.
Objects are content-addressed, immutable and written before the call, and are left out.

`VersionStore` has neither lock, files nor processes: a call asks, takes effect in one step,
and succeeds, is refused or is lost with its caller.  `VaultStore` maps the versions and
authorities to those the next `recover_atomic` would leave (`Refs`), and a call to *stored* from its
second rename on.

### EffectSaga

A caller proposes an effect, asks `prepare_effect` or `prepare_effect_from_checkpoint`,
does it if it is told to, and marks it; after a failure it works through
`pending_compensations`, newest first.  The caller and the world are external: no code
outside the tests calls these methods, so what they do between two calls is what the
answers permit.  `CheckApproval` and `PrepareConfirmed` are two steps because the code
reads the checkpoint under the mutex of the decisions, lets it go, and prepares under that
of the journal.  `SharedKeys` says whether two callers may be at work on one idempotency
key; the run and `JournalIsTrue` take it as FALSE, which is how a task is worked on, and
approvals are proved for both.  A crash may fall between doing and recording, so that an
effect is in force and `Prepared`, or undone and `Executed`.

### TurnController

The entry of a session in the map of queues exists exactly while its running flag is set,
so `running` is the set of entries.  A consumer pops, stores its token, runs the turn and
clears the token; popping from an empty queue removes the entry in the same critical
section.  A turn is the events it appends: `TurnStart`, `Delivery`, `TurnEnd`.  That it may
fail, panic or be dropped at any of these points is in `TurnFails`, after which
`close_failed_turn` adds what the log lacks.  Its appends are one step: nobody else writes
to that log while the consumer runs, which `ControllerSafety` checks.

### CouncilDag

The scheduler is one coroutine: `StartAll` passes over the candidates, in the order of their
names, and puts into work what may run; `select!` wakes up for an expert that is back, for
the cancellation, or for the timer of three seconds (`Heartbeat`); `EvaluateGates` decides the
delivery.  The four plans of `dynamic_plan_for_class` are constants of the module.  An
expert is cut when it is silent for too long, and a command it had started lives on
(`stray`) and may still edit.  The local check of the testing node, which needs no expert,
is not an attempt.  Scopes of writing are a sentence of the prompt, which experts are taken
to obey; the check for conflicting scopes matters only for the plan of high risk.

### ServiceScopes and EventTables

A context is its services and its subscriptions; a fork copies both.  `ServiceScopes` has
the overrides: a submission forks the application's context and overrides the log and the
plan tool with those of the session shown at that moment, a turn overrides the model with
one that asks its allowance, and an expert forks the *application's* context again.  `last`
is who wrote or asked last, and with what.  Permits are the semaphore of
`InProcessSubagent`.  `EventTables` has the copying of the buckets one lock at a time, while
others subscribe and drop registrations in both tables, and the counter of ids, which goes
on above the largest id copied.

### SessionLog and WindowView

A file is its whole lines and the bytes after the last newline; a state in memory is a
handle, live while the view or a turn holds it.  The operations of the interface
(`new_session`, switch, delete, clear the history, switch the workspace) run on one thread
and are atomic; turns append in between, to the state they pinned.  Nothing is synced and no
error of a write is looked at, so a crash leaves any prefix of any file; `load_file` skips
what it cannot read, and takes a file that ends inside a character for empty.  A crash may come
any number of times, up to `MaxCuts`.  `HandlesAssumption` says that memory has room for one more
state whatever the turns and the view hold.  `WindowView`
is the other side: `poll_log` turns what is new in the shown log into bubbles once a frame,
and switches reset the view in their different ways.

### SolveGraph, ExecutionFacts and AgentLoop

The first two are functions on records, the loop's two projections of what its tools have
shown; `AgentLoop` has the order in which `run_turn_cancellable` applies them: budget gate,
question, request, reply, calls (admission, execution, projection), and at the end of a
step the repetition guard, the demand for an action, the graph, the budget and the judge,
each of which may stop the turn or owe it another step (`debt`).  A file is a number; `base`
is its content before the turn's first write.  A checkpoint keeps the verified items, what
is left of the budget and the contents they were verified against; between two turns the
user edits.  The wording of a reply matters where the code compares conclusions, and
`Texts` has two of them.  Arms of the code's `match` and `if` chains that overlap are `IF` chains
here: the arms of a TLA+ `CASE` have no order.

### MonitorTap

Emitters find a queue full or not and never wait; a critical event that finds its queue full
goes to the emergency queue, and what finds no place is counted.  The writer takes events by
priority, appends and rotates; every write may fail half-way, after which the file is cut
back (or not: `rewound`).  The spool is one sequence of lines; where its last file begins is a
position in it, and so is what a power failure leaves (`durable`).  The hash of a line is its number and the number of its event,
which is what the chain tells apart.  `OpenAgain` is the reopening of a spool, which only
the tests reach since each turn has a fresh one.

### StreamCuts and ModelStream

`StreamCuts`: characters are a few symbols, a wide one is two bytes, and the network (for
`sse.rs`) or the provider (for `dsml.rs`) cuts anywhere; the parser's output is compared
with that of the uncut text.  `ModelStream`: an answer is a record (text, reasoning, calls
with a number of pieces, style of the gateway, how it ends), `Due` the frame that comes next
after those `sent`, and the actions the loop of each client with `collect_stream_tool_fragments`,
`finish_stream_tool_calls` and their Anthropic counterparts.

### FactPromotion, KnowledgeIndex, KnowledgeBase, MemoryFacts and SkillLibrary

Files without locks.  Each step that another process, thread or crash can come between is an
action: open (which truncates), fill, remove.  `promote_review_dir` runs at every start
(`bin/src/compose.rs:290`); `KnowledgeIndex`, `write_distillation` and `approve` have no
caller outside the tests and are modelled as those use them.  `MemoryFacts` follows a
write from `load` to `index.upsert` and a recall from the load to the index it builds.
`SkillLibrary` runs the start's background sync, the interface's thread and readers that
fill the cache side by side.

## 3. What the runs check

Twelve runs, of which five are to be refuted by TLC.  Components that share no state are
checked in one run, a *part* of it each: a variable `part` says whose behaviour this is, the
others stay in one initial state, and the properties are those of all of them.

| run | parts (distinct states) | instance |
|---|---|---|
| `workspace` (`MCWorkspace`, 681 172) | graph (170 057) | 3 tasks, 2 workers, clocks 0 and 1, lifetimes 0 to 2 of at most 2 ms, one task with a retry |
| | allowance (449 207) | 2 turns with 2 surfaces, total and burst 3, estimates 1, 2, 4, 1 error, 1 crash |
| | limiter (61 908) | 3 callers of sizes 1, 3 and 4 (too large), bursts 2 and 3, 2 ticks, silences of 1 and 2 |
| `parts` (`MCParts`, 580 995) | log (22 034) | 2 events, 4 lines, 2 errors, any number of crashes |
| | vault (45 493) | 3 publications on 2 keys, 1 selection, 1 process, 1 crash |
| | effects (66 827) | 3 proposals of which 2 share a key, 2 checkpoints, 2 callers, 2 deciders, crashes |
| | monitor (229 543) | 4 emissions of 2 threads, queues of 1, rotation after 2 lines, 1 fault, 1 crash |
| | cuts (37 172) | 2 events, 4 segments of text, cut anywhere |
| | streams (140 388) | 3 clients, 4 styles, at most 2 calls |
| | facts (16 326), index (23 212) | 2 candidates, 4 edits; 2 pages, 3 saves (two of one size) in 2 seconds, 1 failed walk |
| `turn_ends` (`MCTurnEnds`, 25 641) | durable turn (1 107) | 2 turns, lease 3, heartbeat 1, nothing fails |
| | agent loop | questions, comparisons, verifications of 2 items, with and without the governor |
| `turn_faults` (`MCTurnLease`, 218 333) | | 2 turns, any delay, 1 error, 1 crash, drops |
| `turns` (`MCTurns`, 114 808) | controller (36 196) | 3 inputs (one a council), 2 sessions, 1 switch, 1 cancel |
| | council (70 008) | 4 plans, 2 experts at a time, failures, edits, a cancel |
| | services (8 604) | 2 inputs, 2 experts, 1 slot, 2 sessions |
| `agent` (`MCAgentLoop`, 1 000 023) | | a change of one file, 4 steps, 2 turns, every event from outside |
| `desk` (`MCDesk`, 750 117) | lease (17 757) | 2 turns, lease 3, heartbeat 1 and on time, claims of 1 and 2, 1 crash, drops |
| | sessions (139 216) | 3 files in 2 projects, 2 turns, 4 handles, 1 crash |
| | tables (20 860) | 2 contexts, 2 buckets, 3 handlers, ids up to 3 |
| | memory (20 281) | 2 writes (one of 2 facts), a recall, 1 fault |
| | skills (336 137) | 1 pack, 1 panel operation, 1 edit of a folder, 1 crash |
| | window (215 866) | 3 chats in 2 projects, 5 events, 2 moves |
| `turn_stranded`, `agent_answer`, `agent_resume`, `stream_message`, `knowledge_review` | | **violated**: see the findings |

What the passing runs show:

- `workspace`: *DagSafety* (types, dependencies first, no cycle), *BatchNeverStale*,
  *ProgressAndCheckpointKept*, *ImplementsContract* (refinement of `TaskContract`);
  *BudgetSafety* (the cap, and what a restart loads with what was sent stays within it),
  *ExhaustedIsFinal*, *WaveJoined*; *LimiterSafety* (rims of the buckets, and what was
  granted is at most the burst and what the clock added, `skew` included), *WaitIsEnough*.
- `parts`: *WalSafety* (ahead of the state, keeps what it promised, opens again if nothing failed);
  *VaultSafety* (acknowledged versions survive, failures leave nothing, authority is a version) and
  *ImplementsStore* (refinement of `VersionStore`); *JournalSafety* (approvals, keys,
  compensations) and *RecordedNeverAgain*; *MonitorSafety*; *CutsDontMatter*;
  *StreamSafety* (calls whole or not at all, nothing silent); *KnowledgeSafety* (facts unique and
  not lost, skipped files are projected, what is found is there).
- `turn_ends`: *SubmittedSettles*, *PublishedSucceeds* and, for the loop, *TurnEnds*.
  `turn_faults`: *TurnSafety* and *ZombieReclaimed*.
- `turns`: *ControllerSafety* (one consumer, one open turn, one delivery, order),
  *CancelsCurrentTurn*, *EveryInputServed*; *CouncilSafety*, *CouncilEnds*; *ScopesSafety*,
  *DelegationsEnd*.
- `agent`: *FactsSafety* (no stale evidence, nor any of files that have changed since an
  earlier turn), *VerifiedIsProven*, *BudgetConserved*, *NoRequestAfterEnd*.
- `desk`: *LiveTurnHoldsLease*, *SessionSafety*, *TablesSafety*, *RememberSafety*,
  *SkillSafety*, *ViewSafety*.

Why the bounds are enough for the hazards:

- *graph*: three tasks are the least for a chain or a fork of dependencies, with one left to
  be promoted by a batch; two workers for a heartbeat by the wrong one; `1 + 2` exceeds
  `MaxMs`, so deadlines saturate; a lifetime of zero is offered and refused.
- *log*: two commits of which the second meets the remains of the first, a replay in
  between, and two more lines.
- *turns*: two turns see each other's locks and sweeps.  The lease is three heartbeats long,
  as in the code (`lease_ttl / 3`).  One task may be retried, the other not.
- *allowance*: 3 is used up by two requests, or by one of each turn; 4 exceeds the
  allowance and the burst.  Two groups per turn let a turn go on after a refusal of the
  other.  *Limiter*: one tick refills a part of what a large request needs, so waits are
  rounded; the second 429 meets the longest silence.
- *vault*: two calls on one key race for a generation, a third rewrites the same file for
  another key, a fourth reads versions to select one.
- *effects*: two proposals under one key, one for each of two payloads, and one that can be
  undone, over a crash at each point.
- *controller*: three inputs leave one running, one queued and one arriving while the
  consumer leaves; two sessions distinguish the one shown from the one running.
- *council*: the smallest limits at which two experts run side by side and each node may
  fail, be retried and be resumed.  The plan of high risk is checked with one failure and
  without edits, for its size.
- *agent*: two turns, of which the second resumes; a budget that ends inside the second.
  With the governor a command must prove the change, without it the code is evidence
  enough.  `TurnEnds` has one file to read and one test to run, since a repetition is what
  may keep a turn alive.
- *sessions*: two files of one project, of which pruning may remove one, and a third in the
  project switched to.  *Monitor*: queues of one are full at the second event.
- *window*: five events make a bubble that is extended, one that follows it and one in
  another chat; two moves go there and back.

Counters that the code leaves unbounded have a bound in a guard, a constant whose name
begins with `Max`.  Deadlock is off where a finished system has nothing left to do.
Symmetry is used for workers and turns of `workspace`, callers, deciders and checkpoints of
the effects, and handlers of the tables: nothing distinguishes them, and these runs have no
liveness properties.

### Fairness

`TurnSpec`: weak fairness of each turn's own steps, of each heartbeat task, of the commits of
a batch under way, of the watchdog and of the clock.  The tokio runtime polls every task
that is ready; the watchdog's loop is an interval; an agent loop ends, because its requests
and tools have time limits and the turn has a deadline.  There is no fairness for errors,
crashes or drops.  No mutex needs strong fairness: a holder lets go in finitely many steps,
and TLC finds no cycle in which a waiting turn is starved.

`AgentSpec`: weak fairness of the loop's own steps, on the grounds that the stream and each
tool are under a timeout.  `ControllerSpec`: weak fairness of each consumer.  `CouncilSpec`:
weak fairness of the scheduler, and *strong* fairness of `Returns`: the timer may win the
`select!` over and over, but an expert that is finished stays ready and is polled in the
end; experts return because an idle one is cut.  `ScopesSpec`: weak fairness of `Acquire`
(the semaphore is first come, first served) and of the end of an expert.  In a run with
several parts each condition is restricted to the part it belongs to.  The other
specifications state safety only.

### Findings

Each of the first five is a run that TLC refutes, against a sentence of the repository that
`PROJECT.json` quotes.

1. **A task stays held** (`lha/state_machine.rs:343`).  A crash between `schedule` and `start`,
   or between `begin_validation` and `complete`, leaves a status without a lease, which the
   watchdog does not look at.
2. **An answer is verified by a failed search** (`execution.rs:893`).  Every result is put into
   the evidence, failed ones included, and one is enough for `Investigated`.
3. **A resumed task is locked out** (`agent_loop.rs:1013`).  The checkpoint saves a remaining
   budget of zero, and the resumed turn takes the minimum of it and its own.
4. **Calls in a final message are dropped** (`openai_compat.rs:263`).  A frame without a delta is
   left before its `message` is looked at.
5. **Facts that nobody has reviewed are promoted** (`promotion.rs:134`).  The default confidence
   of a candidate is the threshold.

The following were refuted with the models, by properties or constants that are in them,
without a run of their own:

*Control plane.*

- `AlwaysReopens` (`WalLog`, `state_machine.rs:376`): a failed write or sync leaves its
  bytes and does not advance the sequence number; the next commit continues the torn line,
  or repeats the number, and every later `open` fails.
- `BudgetSafety` with `CrashInRename` (`orchestrator.rs:117`): `open` tests `budget.json`
  before the recovery that would bring it back from its backup, so a crash between the
  renames renews the allowance.
- `VaultSafety` with two processes (`artifact_vault.rs:111`): `open` recovers without the
  vault's lock and may undo the replacement of another process; without `StealAlone`, the
  second removal of an expired lock removes a new one (`:344`).  A lock file that is still
  empty never expires (`:328`).
- `ApprovalUsedOnce` (INVARIANTS.md:71-73 against `orchestrator.rs:593-594`, `:622`): an
  approval covers every later effect with its action and payload.  A `Failed` mark after a
  crash of the first execution hides an effect that is in force.
- `RateKeptExactly`: without `skew`, late clocks make more than the rate.  A large request
  may starve beside small ones, since nothing is reserved for it.

*Turns.*

- `EveryTurnDelivered` (`council.rs:421`): a blocked council appends `TurnEnd` and no
  `Delivery`, and `close_failed_turn` takes the turn for complete.  A stop request between
  the pop and the storing of the token hits nothing (`controller.rs:227`).
- `TestedIsDelivered` without `~stray`: a command of a cut expert edits after the test.
- `ExpertsBudgeted` (INVARIANTS.md:78-79 against `subagent.rs:52`): experts, and
  `run_brief`, take the model of the application's context, without the allowance.
- `HardStopIsFinal` (`agent_loop.rs:2411`): `text_only_without_progress` is computed before
  the repetition guard stops the turn, and the demand for an action revives it.
- `NoDeadZone` (`goal_execution.rs:2504`): a read of a changed item in the verify phase
  gives it `VerificationPassed`; the graph then has no next action while the facts do not
  cover the delivery.
- A write that times out may still land (`agent_loop.rs:2049`; a shell command's child lives
  on).
- An error of a hook leaves the turn without its `TurnEnd`.  `restore_rejected_hypotheses`
  changes nothing the loop reads; the question gate never asks while the governor is on;
  nothing sets `NeedsUserInput`; one file that still differs is enough for `reject_reverted`
  to keep every write.

*Sessions, contexts, window.*

- `RunningKeepsFile`: a session in which a turn runs can be deleted from another one; the
  turn goes on in a file nobody finds.  `BadLinesSkipped` (`log.rs:943`): a tail that ends
  inside a character makes the next load take the file for empty.  `InputsKept`: the first
  event after a restart shares the line of the torn tail and is lost.
- A fork keeps subscriptions after the registration in its parent is dropped (INVARIANTS 3
  and 5); dropping an older registration of a service type removes the newer service.
- `BannerOfShown` and `CardsOfShown`: `new_session` and the switches keep the last delivery,
  and `switch_project` the cards of a council.  A submission between the last thoughts and
  the frame to show them loses a part of the thinking bubble (`cutShort`);
  `delete_session_entry` is guarded only by the session that is shown.

*Answers.*

- A wide character cut between two chunks becomes U+FFFD (`sse.rs:57`; `CutWide`).
- Text between two DSML blocks of one delta is eaten, and whether a call that is quoted
  after a block is taken depends on the cut (`dsml.rs:219-231`); hence `TextAsWritten` is
  about texts whose markers come in order (`Orderly`).  An answer that ends in `<` loses it;
  an unclosed block is dropped; `finish` may emit text or calls after an error.
- `LimitIssuesNoRemnant` (`openai_compat.rs:488` against the comments at `:6` and `:296`):
  empty arguments of a cut call are issued as `{}`.  Anthropic runs broken arguments as
  `{}`; an answer that is not streamed and has only reasoning gives no verdict; a connection
  that closes between two calls issues the first only; heartbeats keep the idle watchdog
  from ever firing.

*Knowledge, memory, skills.*

- `FactsUnique` with two processes that start at once; `NothingLost` when `review/` is
  edited during a promotion (`Unedited = FALSE`).  A promoted fact is overwritten by a later
  candidate of its id (DESIGN.md:158); a candidate stays in `review/` for ever after a crash
  between write and remove.
- `RestartRebuilds` (`index.rs:1244` against `:1299`): the checkpoint outlives the index, so
  a restart finds nothing that did not change.  Two saves of one size within a second are
  skipped, and a failed walk can leave postings of pages it dropped (`walkFaults`).
- `EveryFactStays`: two writes that overlap drop a fact; a recall that reads between
  truncation and filling leaves list and index apart until a restart; a file that cannot be
  parsed is read as empty and then overwritten; the default id `fact:manual` overwrites;
  `record_turn` writes a line and its newline separately.
- `InstalledStays`: the start's sync, having scanned before an installation, deletes the
  folder just installed (19 steps).  `ChoiceStays` (`compose.rs:268`): a toggle beside that
  sync is lost; a record torn by a crash comes back as *off*.  `match_skills` may return a
  stale list after a reader filled it across a write (`assets_native.rs:457`, `:493`); a
  failed write of a record leaves the cache; a built-in skill that was deleted is back at
  the next start.

*Monitoring.*

- A second failure after one that was not taken back leaves a spool that cannot be opened
  (`wal.rs:62`, `:76`); an event that is dropped after the writer last looked at the counter
  leaves no line.

## 4. What is proved

Assumptions are the `ASSUME` of each module, which TLC evaluates on its instance; any
other is in the statement of the theorem.  Every inductive invariant was checked by TLC on
the instance of its run before it was proved.

**DurableDag_proofs**, the DAG - for every set of tasks and workers, every clock, lifetime and retry
limit.  The inductive invariant `DagInv` adds to the properties that dependencies are among
the tasks created before (`DepsClosed`) and that retries are bounded.
`DependenciesSucceeded` is not inductive alone: `TaskReady` does not look at the
dependencies again, so `BatchNeverStale` has to say that the list of `refresh_ready` is right
at every commit, which holds because nothing leaves `Succeeded` and nothing else runs during
a batch.  The graph has no cycle because a new task is in no set of dependencies.
`DagRefinesContract` shows each step to be a step of `TaskContract` or a stutter, given
`DagInv`.

**DurableDag_proofs**, the knowledge base - for every set of facts, texts and pages, every grading,
and any number of edits, saves, walks and deaths.  `KnowledgeIsKept` assumes that one process
promotes at a time (`OneScan`) and that nobody edits `review/` meanwhile; without either TLC
refutes it.  What a scan knows has the key of every fact that has a text (`KeysKnown`), what it is
about to write has a new one (`HeldIsNew`), and what it holds is in `review/` until it is in
`facts/` (`HeldInReview`).  `FactsAreUnique` needs no more than `OneScan`.  For the index,
`EntriesCovered` says that an entry of a checkpoint, or of the walk, is the stamp of a save that
the wiki has, or has a later one of; and `StampIsOld`, that the file a walk is about to read is the
one it has stamped or a later one.  A file whose stamp is that of its entry is therefore in the wiki
as it is, unless two saves of it share their size and their second (`Ambiguous`): the attempt to
prove it showed that to be the only excuse, and the property now has it instead of sizes that all differ.

**WalLog_proofs**, the logs - for every length of the file and every number of crashes and errors.  The
invariant says where an acknowledged event is: `AckedDurable`, synced at its place, *or* the
synced lines already make a replay give up (`Broken`).  The disjunction is what errors do to
the log; it is why `AcknowledgedSurvive` holds even though `AlwaysReopens` does not.
`FaultFree` adds that without errors the file is the state and at most the record under way.

**WalLog_proofs**, the monitoring tap - for every set of threads and conclusions, all limits and any number of
events, failures and crashes.  `TapInv` has, beside the types and the limits: `GuardInv` (a count is
the cardinality of the positions in the window); `ChainInv` (while every failed write was taken
back, the lines are one chain and the writer remembers its end, so the next number is new);
`KeptInv` (what was kept is within what a power failure leaves); `FlowInv` (every number that
was taken is with an emitter, in a queue, in the writer's hand, a line, or counted); and `EndInv`
(the writer ends after the emitters and with empty queues, the observer after the writer).
`SpoolIsWhole` follows.  For `FlowInv` each action is reduced to by how much it changes each of
the six places (`MoreSending`, `MoreQueued`, ...).

**WalLog_proofs**, the answers - for every set of clients, styles of a gateway and shapes of a call, any
number of calls of any number of pieces, and an end, a failure or the limit of tokens anywhere.
`StreamInd` adds three parts to the types.  `EntriesAsSent`: a client's entry of a call has the
fragments that were sent of it, or all of them once the complete message was read.  `ShownSoFar`:
what it has said so far is text and thinking, if they were sent.  `Reported`: what it says at the end is
one batch, which for a client of OpenAI is all calls or none.  That the calls are issued in their order,
each once, is about `InOrder`, which takes them by their rank; `InOrderSorts` shows by counting that each
rank is one call's.  `AnswersAreRead` follows.

**TurnLease_proofs**, the turns - for every number of turns, lease and heartbeat lifetimes, delays, errors
and crashes.  `TurnDelivers` needs only the order of `finalize_delivery`.  `TurnLostLease` rests
on `StartedOnce`: a task that was taken back would have to be scheduled and started again,
only its own turn claims it, and a turn past its start never claims; and the watchdog's list
has only Running tasks, so it cannot fail a task of a turn that has not started.
`HealthyTurnsKeepTheirLease` assumes `Healthy`: no tick or method that is due waits a whole
unit; the timer is shorter than the lease, as the code has it (a third, `long_horizon.rs:401`,
of three seconds or more, `:55`); and a claim takes at least one unit and less than the lease.
`LeaseOutlivesTimer` says of each live turn that its lease ends after its timer, and can be
renewed when the timer is due; so no heartbeat is refused and the watchdog never has the task
in its list.  The lower bound on a claim is needed: a heartbeat has to make the lease strictly
longer (`state_machine.rs:558`), the first one comes at once, and within the unit of
`TaskStarted` it would be refused and end the loop.  The run `desk` keeps the same bounds.

**TurnLease_proofs**, the window - for every set of chats in any projects, any number of events, and
frames cut anywhere.  `WindowInv`: every log has whole turns, numbered in order (`LogOK`); the shown
chat has a file and is of the project the window is in; and the screen shows its log up to
`lastEvent` (`ScreenOK`): a thought that is open is in the last bubble, at rest nothing is open,
and, unless the user left during a turn, the parts of the bubbles are what was said.  The last is
about three recursive functions (what is played, what the bubbles have, what was said);
`FromZeroOn` is the induction they need, for a set of numbers, by a least counterexample, and
`StepsExist` shows that the values of such a function exist.  `WindowShowsItsChat` follows.

**TurnLease_proofs**, the sessions - for every set of files in any projects, of turns and of handles,
and crashes that cut any file at any byte, any number of times.  `SessionSafety` is not
inductive: what is in memory is only as good as the file it came from.  `SessionInv` adds
`HandlesBacked` (a live state shows what its file has, unless the file was cut or removed, and ends
with a closed turn unless one runs in it); `FilesListed` (a file is *shaped* up to its first bad line:
after a `TurnStart` no other comes before the `TurnEnd`, and a turn has one report; so whatever a
crash leaves of it is shaped too); `TurnsPinned` (each turn at work holds a state of its own, in
which it has its start); and `TurnsAtHome` (all lines of a turn, in memory or on disk, are in one
file).  The closing of an interrupted turn is the hard step: `ClosedIs` follows the two or three
lines it appends through the tail a crash has left.  That one state is free, which
`HandlesAssumption` says, is needed for a new state not to be one that a turn still holds.
`SessionsAreSafe` follows.

**BudgetWave_proofs**, the allowance - for every number of turns, surfaces, errors and crashes,
and every allowance.  `LockInv` describes the two mutexes: who saves holds the allowance, who
looks at the tasks or resets holds the DAG, and a turn makes requests only while its task is
live.  Three theorems follow from it: types, `ExhaustedIsFinal` and `WaveJoined`.  The cap needs
to count: `Balanced` takes the allowance token by token and gives each request that was debited
and not yet sent a set of tokens above the balance, disjoint from those of the others and from
those sent; `spent` is the cardinality of the latter.  A grant takes the top of the balance, a
call moves its set to those sent, a save puts the balance on disk below all of them, a reset
finds nothing reserved, a crash drops what was reserved.  `BudgetCap` and `BudgetOnDisk` assume
`~CrashInRename`, for the reason given under the findings.

**BudgetWave_proofs**, the limiter - for every set of callers, sizes, rates, bursts, silences and
every course of the clock.  `LimiterInv` has four parts: `LimiterTypeOK`, with the rims of the
buckets; `Clocks`, that neither the bucket nor a caller has a later time than it is; `Paid`, that what was granted and what is left are covered by the burst, the clock and
`skew`; and `Promised`, that a caller that sleeps undisturbed finds enough when its time has
come.  The arithmetic is in two lemmas: `CeilCovers` (a wait rounded up, times the rate, is at
least what was lacking) and `RefillCovers` (a refill by a clock that went back and comes
forward again, with the rim, loses nothing that `skew` does not count).  Since silences are
data, `Delay` is any sequence of times and `MaxStrikes` its length.

**ArtifactVault_proofs** - `AuthoritiesAreVersions` holds without any assumption about processes
or locks: `FilesInv` says that every vault that is in a file, in a temporary file, in a backup
or in the hands of a call is well made, and each is put together from one that was.
`PublishedStay` assumes `OneWriter`: calls keep within their lock (`Prompt`), an expired lock is
taken by one call (`StealAlone`), and there is one process.  Without the last TLC refutes it,
and the first two are what the code's expiry and its removal by path leave open.  `WriterInv`
goes along the life of a publication: `LockInv` (the lock file names the one call that is past
taking it), `OpenInv` (recovery runs only when no call of the process is on its way), `SwapInv`
(what the files are between the two renames), and `VersionInv`, that what a call is about to put
in place is what is stored and its own version (`Exact`), and how it ended says whether that
version is there (`Sound`).  The file a process would load
(`Refs`) changes at the second rename only, and there it grows (`SwapInGrows`).
`VaultImplementsStore` is the refinement, under the same `OneWriter`: each step of the vault is a step of
`VersionStore` or a stutter.  It needs `DecidedInv` beside `WriterInv`: a call that is about to replace
the file has the authorities that are stored, but for the one it has chosen, which is among
the stored versions of its key.  The second rename is the step at which a call takes effect; a caller that reads between
the two renames, without the lock, may see no version at all, which the store therefore allows.

**ArtifactVault_proofs**, the council - for the four plans, every bound on experts, attempts,
failures, idle cuts and edits.  `CouncilInv` has `TasksOK` (of each node, what its state says of
its attempts, and that what it depends on is done once it has left `pending`); `FailuresTrue`
(the flag `failure` is that some node has failed for good); `IdleIsIdle` (when the scheduler finds nothing to wait
for, no node is a candidate unless one was finished on the spot, which is why a blocked graph
has a cause); and `TestedIsCurrent`.  What a pass over the candidates does is a recursion over
their names: `PassExists` shows that its values exist, by the least name at which they would not,
and `PassHolds` carries `PassInv` along in the same way.  `CouncilIsSafe` follows.

**EffectSaga_proofs**, effects - for every set of proposals, checkpoints and callers, and any number of
crashes.  `ApprovalsHold` and `NeverAgain` follow from `GateInv`: a caller past the check has an
approval that is still one, because a decision is final; an entry of the journal was admitted by
it; and a key is bound to its first proposal.  It holds for callers that work on one key at
once.  `JournalIsTrue` assumes `~SharedKeys` and needs `OrderInv`: the caller at work on a key is
its only one, and where it stands between prepare, doing, marking, undoing and marking again
says what the journal and the world may disagree about.

**EffectSaga_proofs**, the agent loop - for every graph of work items, every limit of the
budget, the renewals and the batches, every set of calls and any number of resumed turns.
`AgentInv` has the types; `Shaped` (the history variables, the calls of the batch and what they
saw, and that a turn which was broken off owes nothing and is past its last request); `StepsOK`
(the steps of all turns are what the task has used of its hard budget, and what is left of it
is in the checkpoint); `EvidenceOK` (no evidence is older than the last counted write, and a write has changed a file the user
had); and the two
properties `ResumedEvidenceCurrent` and `VerifiedIsProven`.  One batch of results is recorded in one
action, so `ResultsOK` goes through them call by call, with a lemma for each kind of result
(a write, a proof, a search, a failure, a refusal), and likewise for the calls admitted and the
frontier restored.  The end of a step is four judgements one after the other:
each is shown to keep a stopped turn stopped, and `AllJudged`, that together they owe at most two more
steps, since two of the three that owe one exclude each other.  `FactsAreSafe`, `VerifiedIsEarned`,
`BudgetIsConserved`, `ResumedEvidenceHolds` and `NoRequestFollows` follow.  The proof attempts
found three faults of the model: a debt bounded by three, which holds only on the small
instance; evidence of an item that is only investigated, whose time was not kept; and the
overlapping arms mentioned above, which TLC evaluates in order and TLA+ does not.

**TurnController_proofs** - for every number of sessions, inputs, switches and failures.
`ControllerInv`: a session has at most one consumer that is not done; the log of a session is
well formed, and what its consumer does next says how it ends (`Begins`, `Started`, `Delivered`,
`Ended`); a queue is in the order of submission and later than everything in the log; and the
stored token is that of the turn under way.  `close_failed_turn` is the hard step: it looks for
what the log lacks since the last start, and `ClosesWhatIsOpen` shows that this is right
wherever the turn failed.  `LogsAreWholeTurns` and `StopsReachTheirTurn` follow.

**Contexts_proofs** - `ScopesAreApart`: `ScopesInv` adds to the property what each scope holds at
each stage (`InputsScoped`, `ExpertsScoped`) and that only who has started writes; permits are
counted by the cardinality of the running experts.  `TablesAreSafe`: ids are unique because a
fork goes on above the largest id it has copied, and the entries on their way into a list
(`adding`) have ids below the counter too; a finite set of ids has a maximum (`MaxExists`, by
counting down from the bound); and a fork owes its parent's handlers bucket by bucket, in the
order in which it takes the locks, for which the buckets have to be distinct.
`FactsStayAndAreRecalled` has an invariant for each half of its property, which hold under the
half's own excuse.  `ListedInv`, while no two writes overlap and none is torn: every list from
which the index was or will be built covers what the cache shows, but for what the one call at
work is still to insert (`Covers`, `Owed`), and covers what that call brings.  `StoredInv`, while no two calls
overlap and no write was torn by a crash: the cache, or else the file, has every noted fact, and
so has the list at hand but for what its call will write.  So the excuses the property names
are the only ones.
`PacksAreReconciled`: `HandsInv` says what a worker holds at each stage, that a pack two workers
hold is counted as crossed, and that a sync that is still alone has no other worker beside it;
`WritesChosen`, that a write nothing crossed is of the setting the user chose; `FillsFresh`, that
a list on its way to the cache is as the records are unless a write is under way or has ended since;
and `SyncsInv` follows a sync that is alone: while it registers, the whole folders are before it
or registered (`Registers`), and while it reclaims, what it has seen are exactly the whole folders
and every other record is before it (`Reclaims`).  What an action does to a worker is stated once,
in the `...Effect` lemmas, and used by the lemma that the action keeps the invariant.

Only model-checked.  Liveness (`TurnEnds`, `SubmittedSettles`, `PublishedSucceeds`,
`ZombieReclaimed`, `EveryInputServed`, `CouncilEnds`, `DelegationsEnd`) and what rests on
`ENABLED` are outside the prover's reach.  The induction theorems of the library take an operator
as a parameter, which the provers cannot instantiate; where an invariant rests on a recursion it
is written as a recursive function and proved about with a set in the place of the operator
(`FromZeroOn`).  One safety invariant is checked on bounded inputs only, `CutsDontMatter`: the parsers of
`StreamCuts` recurse over texts of any length, which the model writes with `RECURSIVE` operators.

## 5. Plan

The order was that of how much depends on a part: the DAG and its log carry the control
plane; turns, allowance and vault stand on them; the controller, sessions and contexts on top;
then what a turn does (loop, council, streams), and what lies around it.  Proofs follow in the
same order.  Next:

1. `CutsDontMatter`: that where the chunks of an answer are cut does not matter needs an induction over
   texts for each of the parsers.

Abstract specifications worth stating: a session as a queue of inputs with closed turns, for
`TurnController` with `SessionLog`; one specification of the replacement of a file that `BudgetWave` and `ArtifactVault` both refine.

## 6. What is not modelled

- *Text*: classification of goals and intents, prompts, advice to the model, rendering, scores,
  report documents.  The choice they make is nondeterministic where it matters.
- *Drawing*: widgets and panels of the interface.  What a panel loads replaces what it shows; an
  optimised prompt overwrites the input even if the user has gone on, and a background thread
  that is lost leaves its panel loading.  A large part of the source is of these two kinds, and
  tests; the map therefore covers a small share of all lines.
- *I/O*: files, shell, git, editors and external services.  Three hazards noted there:
  `LocalEditor::apply` reads, checks and writes in three steps; `sync_tasks` of the trellis
  provider rewrites `tasks.json` without a lock; `FileMemory` calls `fs::write` safe against crashes
  (`harness-provider-memory/src/lib.rs:4`), and it truncates first.
- *Sequential parts*: contract lock, sandbox, quality gates, worker dispatch, the ACP server (one
  request at a time), entry points.  The updater is left out.
- *Code without callers*: policy bundles and graduation (their activation is always denied),
  `concurrent_scheduler.rs`, and the copies of `event.rs`, `hot_guard.rs`, `tap.rs` and `wal.rs` beside
  `monitoring/`, which are not compiled.
- *Within modelled parts*: `PROJECT.json` says for each component what is left out; of note are
  `clear()`, forks, renaming and write errors of a session log, a second failure of the spool after
  one that was not taken back, the objects of the vault, and the directory entries of new files,
  which are taken to survive a power failure.
