# A verification project for CURD

CURD is a server that lets coding agents read, edit and run things in a
workspace. Its promise is control: work happens in a shadow copy and reaches the
workspace by a commit, mutations come from registered plans, commits from approved
proposals, and every process that shares the workspace knows what the others
hold. This project models that control plane in TLA+, model-checks it with TLC on
small instances and proves its main properties with TLAPS for every instance.

`PROJECT.json` maps every definition to the lines of code it models and lists the
runs, the mutants that show each property can fail, the hazards and the theorems.

## The system

One *server process* (`curd/src/mcp.rs`) spawns a task for every request; one
`EngineContext` (`curd-core/src/context.rs`) holds the engines and is shared by all
of them. Several processes (servers, the CLI, the language bindings) may work on one
workspace. They share files under `.curd/`: most handlers load a JSON file, change
it and write it back without a lock. Whatever is in memory is behind a mutex that
is held for one call, not for one request.

| Component | State | Operations | What is hard |
|---|---|---|---|
| Shadow transaction store, `transaction.rs` | staged set, base hashes and signatures, savepoints; the shadow directory and `HEAD` on disk | begin, stage, mark_staged, diff, commit, rollback, recovery in `new` | a crash between any two file accesses; people editing the workspace meanwhile; change detection by size and second |
| Workspace engine and session lock, `workspace.rs`, `context.rs` 640-810, `workspace_lifecycle.rs` | `SESSION_LOCK`, the read-only flag of a context, the transaction in each store | open, drop, begin, leave | check and write of the lock are two steps; stale locks; several stores on one `HEAD` |
| DSL engine, `plan/engine.rs` 731-871 | a program's position, the savepoints it opened | calls, assignments, atomic blocks, abort | nested blocks and errors; other requests use the same savepoint stack |
| Plan engine, `plan/engine.rs` 306-362, 636-729, 873-1141 | run-state file, checkpoints, active plan | register, execute, retry, persist | two executions of a plan; crash between run state and checkpoint |
| Dispatch gates, `context.rs` 812-1058, 1360-1539, `router.rs` 512-598 | `is_executing_plan`, hazardous-call budget, the lock of the global state | tool calls, execute_plan, execute_active_plan, register_plan | concurrent requests of a connection; the time limit drops a future half way |
| Change proposals, `context.rs` 3115-3333, 4175-4586 | proposal files, snapshots | open, run_gate, approve, reject, the gate of commit | what was checked before an await may change after it |
| Delegation board and frontier, `context.rs` 4669-5263 | two files per plan | create, claim, heartbeat, complete, status, auto_assign; seed, pop, reset | lost updates, leases that run out, a crash between the two files |
| Collaboration and human override, `collab.rs`, `context.rs` 843-873, 1541-2043 | participants, roles, claims in a file; an override lock table in each server | bind, claim, release, the barrier of dispatch_tool | load-modify-save by many; a write that first empties the file; expiry during a call; restarts |
| Plan variants, `variants.rs` | plan sets, variant records and workspaces | create, simulate, compare, review, promote, retention | a simulation saves the record it began with; retention removes what others work in |
| History and ledger, `history.rs` | two logs, a hash chain, checkpoints | log, verify | two writers append on one predecessor; a line reaches its file in two writes |
| Review cycles, `review_cycle.rs` | photographs of the workspace, HEAD, the active cycle of a server | begin, status, changes, review, end | file-by-file scans of a moving workspace; servers that share the files |
| Watchdog, `watchdog.rs`, `fault.rs` | edit times, heartbeat, poisoned count, report | track, minute-by-minute look, report | prunes only at the next edit; calls between look and report |
| Shell tasks, `shell.rs` | task table | execute, status, terminate | a task limit counted and filled under two locks; two timers; tasks that end unobserved |
| External tool groups, `tool_group.rs` | registry, sessions, restart counts | add, invoke | a process that dies during a call; calls that share it |
| Index, graph and storage, `search.rs`, `storage.rs`, `graph.rs` | tables of files, symbols and edges | search, index run, drop, audit | commits of what was read before a change; a drop in three statements; a save edge by edge |
| Editing, `edit.rs`, `file.rs`, `mutation.rs`, `refactor.rs` | files and their clones | edit by symbol, create, delete, mutate, rename, move, extract | the base hash is compared with an index; the file is read twice before it is written |
| Policy, `policy.rs`, `ops/` | none | evaluate, validate_plan | order of decisions |
| Scripts, `script.rs` | none | parse, compile to a session or to a plan, bind arguments | two compilers and two ways of resolving variables |
| Handshake, `connection.rs`, `auth.rs`, `init.rs` | challenges, connections, authorized agents | open, verify, init_agent | locks let go between steps; tokens of one second |
| Server loop, `curd/src/mcp.rs` | tasks, channel, events, the context being made | read, answer, bridge, write, end | back-pressure; who ends last |
| Builds, `build.rs` | settings, the latest log, fault marks | plan, confirm, run steps | a second plan after the consent; one log for all builds |
| Debugging, `debug.rs` | sessions with kept snippets | start, send, stop | four lockings for one send |
| Diagnostics, `lsp.rs` | a cache by file and modification time | diagnose a file, a workspace | edits during a run; runs that overwrite each other's cache |

Plugins (archives, signatures and their installation), the language-server client, the
doctor, reading and reporting tools, documentation and bindings are wrappers around I/O
or data transformations; `components` in `PROJECT.json` gives the reason for each.

What makes each modelled component correct:

* *store*: HEAD follows memory; a commit carries the agent's work and overwrites
  nobody else's; what a commit that failed half way has installed does not block the next
  attempt, nor does that change it.
* *session lock*: one writing process; a dead owner delays nobody; acknowledged work
  stays reachable from HEAD until somebody ends the transaction.
* *DSL blocks*: a program leaves the savepoint stack as it found it; rolling a block
  back returns to where that block began; what is staged exists.
* *plans*: the files tell a true and possible story of the run, whoever dies.
* *gates*: no more hazardous calls than the budget, the nodes of the active plan apart;
  mutations only from plans; every request answered, even a plan that waits for itself.
* *proposals*: no gated commit without a gate and an approval of that workspace.
* *delegation*: one owner for a node, completions are final, what was handed out is not
  queued again unless an older copy of the frontier is written back.
* *collaboration*: one claim on a key; an acknowledged claim is lost only to its end, its
  expiry or an overlap; agents do not write under a person's unexpired lock.
* *variants*: what is promoted stood there at its review, and is what the reviewer was
  shown if it was compared after it was simulated; retention destroys no work under way.
* *ledger*: the chain verifies while appends do not overlap, and no checkpoint lies but
  about an append that failed.
* *tools and tasks*: no process is started beyond the limit or forgotten by both table
  and caller; a request is repeated only when its process died.
* *index*: a row is true of the second it names; a search answers fully from what it
  has indexed; edges join symbols that exist; the edges on disk are the last saved graph
  but for what failed, died or was dropped.
* *editing*: a base hash protects what its holder has seen from changes made with the tools;
  the index forgets what those removed; renaming and moving lose no symbol where the index
  is right about them.
* *review cycles and watchdog*: a report is true of the files nobody touched meanwhile; a
  warning has a cause.
* *handshake, server, builds, debugging, diagnostics, scripts, policy*: one challenge
  serves once; every request is answered once; nothing runs without consent; a session
  replays what was answered; a cached answer is of the present file; both compilers mean
  the same; a block is a denial whatever else allows.

## The modules

| Module | Models | Composition |
|---|---|---|
| `ShadowStore` | one store, every disk access a step | implements `OptimisticFiles` |
| `OptimisticFiles` | the promise: per file, an optimistic write with merge | abstract specification |
| `Sessions` | many contexts, one lock, one HEAD | store operations of `ShadowStore` as single steps |
| `DslAtomic` | programs over the one store of a process | the store's savepoint stack, calls as single steps |
| `PlanRuns` | executions of one plan and their files | nodes are attempts that succeed, fail or are rejected |
| `PlanGate` | connections, requests, tokens, the flag and the budget | plan execution of `PlanRuns` without retries |
| `ProposalGate` | proposals, snapshots and commits | the store as what is staged and what the workspace is |
| `Delegation` | board and frontier of one plan | |
| `Collaboration` | the collaboration file and the lock tables of servers | edits as far as the barrier lets them pass |
| `Variants` | plan sets, variants, simulations, retention | roles are `Collaboration`'s matter |
| `Ledger` | the history, the ledger and its checkpoints | |
| `ShellTasks` | commands, tasks, timers | the time limit of `dispatch_tool` |
| `ToolSessions` | processes of external tools | |
| `Index` | index runs, searches and drops | |
| `Graph` | two builders, saves that fail or die, drops, questions | commits and drops of `Index` statement by statement |
| `Editing` | edits by symbol, beside a person's | the store as one clone, index runs as two steps |
| `Refactoring` | `curd refactor` beside an agent, by an index that lags | HEAD and the clones of transactions |
| `ReviewCycles` | cycles on several servers | |
| `Watchdog` | watchdogs and faults on record | |
| `Policy` | decisions, as operators | |
| `Scripts` | parser, compilers, variables, as operators | programs as `DslAtomic` runs them |
| `Handshake` | challenges and authorized agents | |
| `Serving` | the loop of the server | calls as tasks that answer |
| `Builds` | detection, plans, steps, log | |
| `DebugSessions` | snippets and sessions | |
| `Diagnostics` | diagnoses and their cache | |

`MC*` modules give the constants their values for TLC; `*_proofs` hold the proofs.

Parts that share no state share a run: `MCFiles`, `MCRecords`, `MCProposals`,
`MCDelegation`, `MCProcesses` and `MCPrograms` have a variable `part` that names the
component whose behaviour this is, and the other components stay in one of their initial
states. Such a run is the union of the runs of its parts and no product of them.

**ShadowStore.** `real`, `dir` and `head` are the workspace, the shadow directory and
the manifest; `active`, `staged`, `base`, `meta` and `saves` are the fields of the
struct. `pc` says where the running call is: `BeginClone`, `CloneCopy`, `CloneHash`
and `BeginDone` are the loop of `begin`; `Stage`, `MarkStaged` and `Diff` end in
`SaveHead`, as the code does; `CommitStart`, `PlanFile`/`PlanConflict`, `ApplyStart`,
`ApplyFile`, `ApplyDone` are `commit`; `RollbackAll`, `CleanFile`, `CleanDone`,
`UnlinkHead` its cleaning up. `Crash` is possible everywhere, a HEAD being written is
then `Torn`; `Open` is `ShadowStore::new`. `HumanEdit` and `ShellWrite` are the other
writers, `Tick` the clock that signatures are made of. A hash is the contents it
identifies; a merge returns its inputs' agreement, a weave, or a conflict. `installed` is
history: files that an attempt to commit made as the agent has them, unwritten since.

**Sessions.** `Check`, `Read`, `RemoveStale`, `Truncate`, `WritePid`, `LoadHead` are the
file accesses of `is_workspace_locked`, `EngineContext::new` and `ShadowStore::new`;
`Drop` and `RemoveLock` the destructor; `Begin` and `Clone` a begin; `Edit`, `Diff`, `End`
the other uses of the store; `Exit` the commands of `workspace_lifecycle.rs`;
`ProcessDies` the death of a process. `given` is fixed for a behaviour and says under
which circumstances it runs: whether the calls of processes interleave (`racing`) and
whether only the writer touches the transaction (`polite`). The code enforces neither, so
properties state the one they need.

**DslAtomic.** A program is the sequence of nodes left to run, `atomic` and `end`
around a block; `Enter`, `Leave`, `Unwind` are the begin, commit and rollback of
`execute_dsl`, `StoreBegin`, `StoreCommit`, `StoreRollback` the three calls of the
store. `Meddle` stands for other requests that use the workspace tool. `blocks` is
history: what each open block found. `shared` is history: a program has run beside
another, or others have meddled.

**PlanRuns.** `local` is the run state in memory, `file` the one on disk, rewritten
whole at each `Persist`; `cps` the checkpoint files, named by sequence number and
event. `Start`, `Open`, `Take`, `Attempt`, `Retry`, `Mark`, `Close`, `Seal` follow
`execute_plan` write by write. `toposort` is any order that respects `Edges`.

**PlanGate.** `flag` and `spent` belong to a connection, `slot` and `holder` are the
active plan and the lock of the global state. `Gate` and `Budget` are the two checks of
`dispatch_tool`, taken under two acquisitions of a lock; `TakeActive` takes the plan
before it looks whether it may run; `TimeOut` drops a call where it is. `execute_plan`
gives its nodes the token of their connection; `execute_active_plan` gives them none, so
they pass for a human's (`PassAsHuman`): no gate, no budget. `uncounted` is history: what
they started. `disturbed` is history: connections that sent a request before the last was
answered, or whose active plan was dropped at its limit.

**ProposalGate.** A call loads the proposal, scans the workspace (`Scan`), and writes
its own copy back (`RunGate`, `Approve`, `Reject`) or commits (`Check`, `Commit`);
anything may happen in between. `crowded` is history: calls beside which something
happened.

**Delegation.** `Load` reads board and frontier, the other actions decide on that copy
and write it back; `AssignBoard` and `AssignFrontier` are the two writes of
`auto_assign`; `Age` lets a heartbeat grow old. `leases`, `done`, `seized`, `overlaps`,
`given` (nodes the queue handed out since the last reset) and `undone` (those of them that
a write-back of an older copy, `SaveFrontier`, has put back) are history.

**Collaboration.** `file` is the collaboration file, `table` the lock table of each
server. A call is `LoadFile`, `EmptyFile`, `WriteFile`: the code truncates before it
writes, and a death in between leaves `unreadable`. `CheckBind` is what
`require_bound_role` asks, `Edit` a risky call at the barrier of `dispatch_tool`,
`TimePasses` lets claims expire, `Restart` empties a table. `claimed` is history.

**Variants.** A call holds a copy of the record it loaded until it saves (`SimulateRuns`,
`SimulateFails`, `SimulateSaves`; `Compare`; `Review`; `Promote`, `PromoteStops`);
creating a plan set and simulating, successfully or not, apply retention. `Compare` writes
its comparison to `compare.json` (`compared`), and that file is what `Review` shows,
whatever has been simulated since; a promotion that stops half way leaves staged what it
had staged. Workspace contents are the numbers of the simulations that made them. `look`
says what the last review of a variant was of, and `muddled` marks records that calls
changed at once; both are history.

**Ledger.** `Act`, `LogHistory`, `EndHistory`, `ReadTip`, `LogEntry`, `EndEntry`,
`Checkpoint` are the writes of `audit_action` in order, `HistoryFails`, `TipUnread` and
`EntryFails` the errors that it ignores before it goes on. `clashed` marks behaviours in
which appends overlapped, one broke off within its line or the tip could not be read;
`unlogged` and `unentered` are the actions whose append to the history or to the ledger
failed.

**ShellTasks, ToolSessions.** `CountTasks` and `InsertTask` are the two lockings of a
background start, `ForegroundTimeout` and `DispatchTimeout` the two timers; a process may
end (`Ends`) whenever it likes. `Invoke`, the `Attempt` actions, `Look` and `Retry` are
the lockings of a tool call; `EngineDrops` ends the server.

**Index, Graph.** `BeginIndex`, `ReadMeta`, `ParseFile`, `CommitIndex`, `AnswerSearch` are
a search; `WriteFile` is anybody's write and `Passes` the clock of seconds that file times
are made of; `DropFiles`, `DropSymbols`, `DropEdges` are the statements of
`invalidate_index` (foreign keys cascade). In `Graph` the edges that `BuildsFresh` and the
index derive from a table of symbols are operators, compared over every small table;
`SaveDeletes`, `SaveInserts`, `SaveEnds` are an audit's save, of which each statement may
fail (`SaveRefused` finds no database, a deletion that fails is ignored, after it the
insertion may not be ready, `InsertFails` goes on to the next edge) and which may die at
any of them (`AuditDies`). `DropsSymbols`, `DropsEdges` and `LeavesEdges` are what the
drop after an edit does to the edges. `lost` and `mixed` are history: edges of the last
saved graph that failures, deaths and drops took, and edges that older saves left or may
still bring.

**Editing, Refactoring.** `TakeBase`, `ReadSource`, `ParseSource`, `WriteBack`,
`InvalidateIndex` are an edit; the file is read once for its text and again for its
places. `WriteOutside` is a person's write, of which the index is not told. `excused`
(callers whose base hash vouches for nothing) and `stale` (the index) are history; a drop
of the index ends both. A refactoring finds its places through the index of the workspace,
joins or begins a transaction, and rewrites the clone file by file (`ApplyFile`) or cuts
and pastes (`CutSymbol`, `PasteSymbol`), then builds. The index (`index`) is brought up to
date for whichever of the changed files a search takes in (`Reindexes`: not one of the
same size and second, not one out of scope, none past the limits of lazy mode), and keeps
the rows of symbols that a file no longer defines, with their old places; callers come
from its edges (`ByEdges`). It numbers the symbols that a name has in a file (`a`,
`a::#1`), and callers are searched for by the last part of their id: one that is not the
first of its name in its file is searched for as `#1`, not found, and keeps the old name
(`Findable`). `strayed` is history: refactorings that another write has crossed, or that
the index has given a place, or a list of callers, which is not that of the text. Of those
nothing is said: a row of old can make a rename or a move rewrite or cut a wrong range.

**ReviewCycles, Watchdog.** `Lists` and `Scans` read the workspace file by file;
`SaveSession`, `WriteHead`, `SetActive` are the three records of a begun cycle. The
watchdog's minute is `LooksForLoops`, `CountsPoisoned`, `Decides`, `WritesReport`,
`ResetsHeart`.

**Handshake, Serving.** `OpenConnection`, `TakeChallenge`, `MakeToken`, `Connect` are an
agent's way in; `ReadAgents`, `TearAgents`, `WriteAgents` are `init_agent`, each run with a
new key that takes the place of the one its agent had (`lastKey` is history). `LoopSteps`
is the `select!` of `run` with its end, `TaskAnswers` a task that sends into the bounded
channel, `WriteOut` the writer, `ContextIsMade` the context being made beside them.

**Builds, DebugSessions, Diagnostics.** `AskForBuild`, `Confirm`, `Decline` and the steps
of a build, beside a change of settings. `TakeLanguage`, `AskReplay`, `TakeHistory`,
`Remember` are the lockings of a send, `StopSession` may come between. `BeginDiagnosis`,
`CheckAll`, `NextFile`, `ReadSource`, `CheckFile`, `SaveCache`, `CacheSaved` are a
diagnosis of the workspace, with the cache torn between the last two. A parse that fails
ends the diagnosis of a file (`FileFails`), but not where cargo has answered for all
files: there the failure is passed over and the checker's word alone is kept (`Unparsed`).

**Policy, Scripts.** No state: a decision, a parse, a compilation is an operator, and the
properties quantify over every small configuration, call, plan, text and program. A `let`
whose value is a call (an object with a tool and its arguments) dispatches that tool in a
session and binds what it answers, where a plan binds the object and calls nothing.

## The runs

| Run | Instance | Shows | States |
|---|---|---|---|
| `shadow_one_file` | 1 file, 4 contents, 3 clock values, 1 savepoint, 4 writes, crashes; 2 persons, 1 server, 1 key; 2 plan sets of 1 variant, 2 simulations; 2 editors, 2 symbols, 2 foreign changes, one of them by hand | `StoreSound`, `NoSilentOverwrite`, `CommitCarriesWork`, `HalfDoneIsRetryable`; `CollabKeeps`; `VariantsKeep`; `EditsKeep` | 2.1 M |
| `shadow_promise` | 2 files of one name, quiet others, 2 writes, crashes; 2 writers, 3 actions, failing appends, a checkpoint every 2; 2 shell calls, limit 1, 3 processes; 2 tool calls, 1 restart; 2 searches over 2 files | `KeepsPromise` (refinement); `LedgerKeeps`; `ShellKeeps`; `ToolsKeep`; `IndexKeeps` | 1.3 M |
| `dsl` | every program of at most 4 nodes beside a block of another client, 2 files, depth 3; 2 agents, 2 verifications, 2 `init_agent`s; 2 builds; 3 sends; 2 diagnoses; every text of up to 4 tokens, every program of 2 statements or of one and a block | `StackSound`, `StagedIsThere`, `RollbackUnstages`; `ProgramsKeep`; `CompilersKeep` | 2.5 M |
| `plan` | every plan of 2 nodes with a stray dependency, 2 executions, limit 0 or 1; 2 processes, 2 transactions, all circumstances; every input of 2 lines, a channel of 1, 1 event | `RecordSound`, `StoryInOrder`, `RetryBudget`, `ReturnIsRecorded`, `CheckpointsKeepUp`, `RunsEnd`; `WorkSound`, `OneWriter`, `StaleLockYields`; `ServesAll` | 650 k |
| `gate` | 3 requests, 2 connections, plans of 2 nodes, budget 3 | `PlanSound`, `BudgetHolds`, `MutationsArePlanned`, `PlansPass`, `AllAnswered` | 16 k |
| `proposal` | 1 proposal, 2 callers, 1 write; 2 callers of cycles on 2 servers, 2 files; 1 watchdog, 2 symbols, loops at 2 edits; 2 refactorings over 2 files, 2 transactions, 1 foreign write | `ProposalsSound`, `CommitsAreApproved`; `ReportsKeep`; `RefactorKeeps` | 2.5 M |
| `delegation` | 2 nodes, 2 workers, `max_claims` 1, 1 overlap; 2 audits, 1 drop; small tables, graphs, calls and plans | `QueueSound`, `OneOwner`, `CompletedStays`; `GraphAndPolicyKeep` | 3.0 M |
| `shadow_atomicity`, `sessions_race`, `dsl_edits`, `proposal_staged`, `server_end` | smaller | a statement of the repository that the code does not keep | |

Some properties are conjunctions of named parts, which the modules state and comment one
by one:

* `StoreSound` (type, `HeadTracksMemory`), `WorkSound` (type, `Recoverable`),
  `StackSound` (type, `Balanced`), `RecordSound` (type, `OutcomeIsTrue`), `PlanSound`
  (type, `OnePlanAtATime`, `TakenOnce`), `ProposalsSound` (type,
  `CommitsWentThroughTheGate`), `QueueSound` (type, `QueuedOnce`).
* `CollabKeeps`: `OneClaimPerKey`, `OwnersVouch`, `ClaimsHold`, `LostOnlyToOverlap`.
  `VariantsKeep`: `PromotesWhatWasReviewed`, `ReviewsKept`, `SetsListTheirVariants`,
  `SimulatedHasWorkspace`, `CreatedSetSurvives`. `EditsKeep`: `BaseHashGuards`,
  `IndexFollows`.
* `LedgerKeeps`: `ChainVerifies`, `CheckpointsTrue`, `HistoryFirst`. `ShellKeeps`:
  `TasksBounded`, `NoStrays`, `PlacesComeFree`. `ToolsKeep`: `SessionsOwnProcesses`,
  `RestartsCounted`, `RepeatedOnlyAfterDeath`. `IndexKeeps`: `RowsTrue`, `AnswersFull`,
  `EdgesJoinSymbols`, `CallsRecorded`.
* `ProgramsKeep`: `HandshakeKeeps`; `BuildsKeep` (`OnlyWithConsent`, `FailureEndsBuild`,
  `LogIsOfOneBuild`, `ErrorsMarkTheirSymbols`); `DebugKeeps` (`EarlierSnippetsRun`,
  `KeptOnce`, `UnknownWasStopped`, `BackendsAgree`); `DiagnosticsKeep` (`CacheIsOfNow`,
  `GivenAsAsked`, `CargoWaysAgree`, `NothingLost`). `CompilersKeep`: `ParserReadsBack`,
  `PlansCallAlike`, `OrderIsNoMatter`, `ChecksFindConflicts`; `DetectedIsPlanned`,
  `TailGoesLast`.
* `RefactorKeeps`: `RenameWhole`, `MoveKeepsSymbols`. `ReportsKeep`: `ReviewKeeps`
  (`CyclesKeep`: `ReportsTrue`, `HeadOnDisk`, `ActiveFollowsHead`; `DiffsLeast`) and
  `WatchKeeps` (`ReportsWhatWas`). `GraphAndPolicyKeep`: `GraphKeeps` (`SaveIsWhole`,
  `BuildersAgree`, `RefreshCosts`, `NestingIsForest`, `BestIsSurest`,
  `LevelsAreDistances`, `CyclesFindLoops`) and `PolicyKeeps` (`BlockedIsDenied`,
  `PeopleMayMore`, `LiteOnlyReads`, `StrictNeedsAList`, `PlansAreWhole`).

**Bounds, and why they are enough.** A clock of three values has "the same second",
"later" and "later still", which is all a signature comparison tells apart; four
writes suffice for an edit by each side, an answer and one more after a crash. Files
interact only through the staged set, the order of the loops and the search by file
name, which two files of one name exercise. Two processes and two transactions make a
lost lock or a lost HEAD; a third process only repeats one of the roles (and the
theorems hold for any number). Programs of four nodes nest two blocks with an edit in
or between, or fill one with two nodes, and the other client adds the interleaving; what
stands after an abort is never reached, so programs that differ only there count once. Two
nodes make every edge, cycle and order, and plans that differ only in the names of their
nodes count once; three requests on two connections are a plan,
a call beside it and a bystander, or two on the lock and a third. Two callers of a
proposal are enough since a third sees the file the second wrote. `MaxOverlaps` 1 lets two
calls interleave once and continues with whatever that left. Two of everything else is
the least at which calls cross: two persons on a key, two plan sets with one retained, two
writers, two searches of which one reads what the other commits, two reviewers on two
servers. Time limits, life times and rates are one or two units, so that "just in time",
"just expired" and "long ago" occur. Budgets, claims, restarts, checkpoints, task limits
and channel capacities are hit exactly and exceeded by one. Texts of four tokens hold an
assignment, a call with a list and an empty block; what a block, an argument and a
variable do to each other is tried on programs that need no parser.

The callers of a part are interchangeable; `shadow_one_file`, `shadow_promise`, `proposal`
and `delegation` use that symmetry (`Alike`) and check no liveness. `CHECK_DEADLOCK FALSE`
is set for the shared runs and for `gate`, which come to their end or their bounds.

**Fairness.** `Sessions`: a call that has started runs on unless its process dies
(weak fairness of the steps of opening, none of starting or dying). `PlanRuns`: a
started execution runs on; deaths and starts are not fair. `PlanGate`: a task whose
next step is possible takes it, and the sixty-second limit of `dispatch_tool` passes
(`tokio::time::timeout`); nothing obliges a client to send. `Serving`: the runtime goes
on while any task can, a client reads what the server writes, and a tool returns (the
same limit). The scheduler of tokio and its timers justify this; no fairness is assumed
of people, agents or crashes, and none in the other modules.

**Conditional properties.** Where the code offers no protection against an interleaving,
the property says so through history variables instead of leaving the interleaving out of
the model: the same run explores it, and everything that holds anyway is checked across
it. `OneWriter` is about calls that do not overlap, `Recoverable` also about polite ones,
`Balanced` and `RollbackUnstages` about programs that take turns, `MutationsArePlanned`
and `PlansPass` about undisturbed connections, `CommitsAreApproved` about calls nothing
ran beside, `OneOwner` and `CompletedStays` about the time before calls overlap,
`CheckpointsKeepUp` about the first execution; `ClaimsHold` about claims that no restart
and no person has ended, the variants' properties about records that are not `muddled`,
`ChainVerifies` and `CheckpointsTrue` about ledgers with neither a clash nor an unread
tip, `CheckpointsTrue` also about entries whose append did not fail (`unentered`) and
`HistoryFirst` about actions whose line in the history did not (`unlogged`), `NoStrays`
and `PlacesComeFree` about calls that were not cut off and tasks whose status could be
read, `SessionsOwnProcesses` and `RepeatedOnlyAfterDeath` about processes nobody has
`overtaken`, `BaseHashGuards` (symbols, not their order) about callers that are not
`excused` and `IndexFollows` about an index that is not `stale`, both up to the next drop
of the index after an index run that crossed a change or a write outside the tools,
`RenameWhole` and `MoveKeepsSymbols` about refactorings that have not `strayed`, which
neither a write crossed nor a row of the index misled (`RenameWhole` where every caller
can be found by its name), the last keys of agents in `HandshakeKeeps` about runs of
`init_agent` that are not `disturbed`, the parser's word in `DiagnosticsKeep` about
answers that are not `Unparsed`, `SaveIsWhole` about edges that are neither `lost` nor
`mixed`, `QueuedOnce` about nodes no older copy has `undone`, `PlansCallAlike` about what
a `let` does not call, unless a text names its result, `ReportsTrue` about files that were
not `stirred`, `LogIsOfOneBuild` about logs that are not `mixed`, `OnlyWithConsent` about
a user who was shown an adapter before anybody changed the settings or configured a
directory. `HeadTracksMemory`, `StagedIsThere`, `StoryInOrder`, `OutcomeIsTrue`,
`RetryBudget`, `BudgetHolds`, `OnePlanAtATime`, `TakenOnce`, `CommitsWentThroughTheGate`,
`OneClaimPerKey`, `OwnersVouch`, `TasksBounded`, `RestartsCounted`, `EdgesJoinSymbols`,
`HeadOnDisk`, `FailureEndsBuild`, `EarlierSnippetsRun`, `KeptOnce` and `ServesAll` need no
such condition; `BudgetHolds` bounds what carries a token by the budget of its connection,
and what is `uncounted` by the nodes of the active plan.

A condition bounds a hazard and does not catch it: a commit that only a change between its
check and its copy makes wrong (`NoSilentOverwrite`, `CommitsAreApproved`), a store that
writes over a HEAD changed since it read it (`Recoverable`), two programs on one savepoint
stack (`RollbackUnstages`) or a write lost between calls that overlap (`OneOwner`,
`CompletedStays`) are possible in this code, and the properties say that nothing but these
goes wrong. The notes of such hazards in `PROJECT.json` name what is left open.

## What is proved

All theorems hold for every value of the constants that satisfies the named `ASSUME`s.

* **ShadowStore**: `TypeCorrect`, `HeadIsMemory`, `NoLostUpdate`, `StoreIsSound`,
  `WorkIsCarried`, `HalfDoneRetries`, `PromiseIsKept`. The strengthening of
  `NoSilentOverwrite` follows the base hash of each file from the clone through
  savepoints, HEAD and recovery: what `base` and every saved or recorded base says of a
  file is what `begin` saw, or the file is one of the exceptions. `CommitCarriesWork`
  needs that what the agent was told is staged is staged, in memory and in HEAD, and that
  the search for unrecorded changes passes no file it had to find (`Carries`).
  `HalfDoneIsRetryable` is carried by an invariant of its own: a file in `installed` has
  on both sides the same data, and a plan made of it writes that; a file that was
  installed as a merge differs from both and may be the conflict that blocks the next
  attempt. The refinement holds under `Quiet`, nobody disturbing a clone or a commit, from
  `Alone`: nothing is crossed, the base of a file is what the workspace had when the clone
  was made, and a plan holds the agent's version or a merge of it.
* **Sessions**: `TypeCorrect`, `SequentialOpensExclude`, `WorkStaysRecoverable`,
  `WorkIsSound`, where each context
  has its own process (`Alone`; two contexts of one process share a pid and the lock by
  design). The invariant: one call at a time, the lock names the writer, whoever is
  about to take the lock has found no writer; and HEAD is the writer's transaction.
* **DslAtomic**: `TypeCorrect` and `StagedPathsHaveEdits` for any clients;
  `ProgramsBalance`, `StackIsSound` and `RollbackReturns` from `Stacked`: while programs
  take turns the savepoints are the open blocks of the running program, one for one and in
  order.
* **PlanRuns**: `TypeCorrect`, `FileTellsOrder`, `FileTellsOutcome`, `RetriesBounded`,
  `ReturnsAreRecorded`, `RecordIsSound`, `MilestonesKeepUp`. The invariant says of every
  execution's memory what the properties say of the file, which is always some execution's
  memory at some time; for the checkpoints it also counts the one about to be written.
* **PlanGate**: `TypeCorrect`, `BudgetSafe`, `ActivePlanAlone`, `PlanTakenOnce`,
  `GateCloses`, `GateOpens`, `PlanIsSound`. For the budget: what a connection has spent
  counts what carries its token, and what is `uncounted` are nodes that the active plan
  has left behind it. Those of the gate rest on: the flag of a calm connection is raised
  exactly while its single request runs a plan.
* **ProposalGate**: `TypeCorrect`, `GateIsNeeded`, `TurnsKeepApprovals`,
  `ProposalsAreSound`. Every copy a
  call holds, however old, speaks the truth about gates and approvals that once
  happened; a call nothing ran beside still holds what is on disk.
* **ReviewCycles**: `ReviewSafe` (`CyclesKeep`) and `DiffIsLeast`. The photographs of a
  cycle are of the workspace but for the files written since it began, and what a call has
  read still holds unless the file was written since it and its cycle began; a cycle that is
  named is on disk, no two calls begin the same; and while a server is not left behind the
  only call that can be beginning a cycle is its own. The comparison of two texts of any
  length keeps as many lines as the largest set of pairs of equal lines that do not cross:
  the table of `diff_added_removed` holds, for every two ends of the texts, that number, and
  the walk through it keeps as many.
* **Watchdog**: `WatchSafe`. What is on record of a symbol are edits of one window, if there
  are as many as make a loop; what a watchdog has seen was so, and the count of poisoned
  symbols it compares is always zero; no minute passes between a look and its decision.
* **MCProposals**: `ReportsSafe`, review cycles, watchdog and diff side by side as the run
  has them.
* **Policy**: `DecisionsAreSound`, `PlansDecided`. A plan, however long, is decided by the
  first of its nodes that settles it. An earlier form of `PlansAreWhole` forgot the limit of
  nodes: the proof showed it false where the limit is below the plans that were tried.
* **Graph**: `GraphSafe`, the whole of `GraphAndPolicyKeep`. On disk: after each statement
  of saves, commits and drops, an edge of the graph saved last is there, yet to be
  inserted by a save under way, or lost to a failure, a death or a drop; and what is there
  beyond it older saves left or have yet to bring. So the edges may well be partial, and
  for those reasons only. The builders: a pair of symbols has the same edge in both, kind
  by kind. A nesting goes down in the order of `from` and `to`, so it has no loop. The
  level of a symbol is the length of a shortest walk to it, by the least level at which
  that would fail; levels are disjoint and nothing comes after an empty one, so no walk
  needs more steps than there are symbols, and `FindCycles` misses no loop.
* **Delegation**: `LeasesAreExclusive`, `CompletionsStay`, `QueueSafe`. Until calls
  overlap the copy of the one call under way is what is on disk, and a lease is a claim on
  the board. The queue needs no such condition for what one copy says: every copy of the
  frontier, on disk or in a call, queues a node once and none that it calls visited, and
  removing nodes from a queue keeps the order of the others. Across copies a second
  invariant (`HandedInv`) is needed: each has as visited whatever had been handed out when
  it was read, so that only the write-back of one that another call has overtaken can undo
  a hand-out.
* **Handshake**: `HandshakeSafe`. A challenge is at one place at a time: pending, with one
  verification, or spent on one connection; so nobody is let in twice for it. An agent has
  one key in the file, and while runs of `init_agent` neither overlap nor die that is its
  last one: the one that runs has read those of all the others, and replaces the key of
  its own name only.
* **Ledger**: `LedgerSafe`. While no appends cross and the tip is read, one writer at a
  time is in its line, what it read as the tip is still the last hash, and every line but
  its own is whole. An append that fails before its first byte leaves the chain as it is;
  the checkpoint it is followed by names an entry in `unentered`, and a ledger entry
  without history is in `unlogged`.
* **ShellTasks**: `ShellSafe`. Every insertion was counted for, by its own call or by one
  that counted with it; a process is held by one call or by the table until its exit code
  comes.
* **ToolSessions**: `ToolsSafe`. A process belongs to one group's session, a call that saw
  one dead has sent nothing else, and what it sent went to at most two processes, the
  first of which is dead or was replaced.
* **Collaboration**: `CollabSafe`. Whatever copy of the file a call holds is sound by
  itself; until another call writes beside it, its copy has everything that is on disk but
  what the call takes out; and a claim somebody was told of is in the server's table or in
  the file.
* **Variants**: `VariantsSafe`. A call's copy of a record is the stored one as long as
  nobody muddled it, because every save that crosses it muddles it; an id is unknown to
  all others until the call that creates it ends; each content belongs to one variant, so
  that a simulation which saves its record excuses no other variant's promotion; and
  retention spares what running calls work on or muddles it. A comparison is of an older
  simulation or of this one, and of this one if it was made since; so the reviewer was
  shown what he approved in that case only.
* **Editing**: `EditsSafe`. The index has what its row was parsed to, and the row is the
  file's, or nobody's hash counts: an index run that crossed a change and a person's write
  both make it so until the next drop. A hash is of identifiers and contents in the order
  of the identifiers, so it vouches for the symbols of a file and not for their order (the
  attempt to prove more failed, and TLC shows why with five changes).
* **Refactoring**: `RefactorSafe` (`RefactorKeeps`). The invariant is that the clone of
  each job nobody has crossed is what its step says: the workspace's files, with the
  places of the files that are done rewritten, or with the symbol cut out, or cut out and
  pasted. Texts are sequences that are cut and glued. Renaming place after place, the last
  first, makes of a file what renaming all at once would, because places that are apart do
  not move each other and a name one letter long moves nothing. Cutting a whole symbol out
  of a text and pasting it at the end of another keeps the symbols of both: what is open
  at a letter after it is what is open without it, if nothing was open around it. All this
  is of a job that has not `strayed`: the places it was given are then those of the
  definitions in the text, and its callers those that the text has. The attempt to prove
  an earlier form failed where a file has two symbols of one name: the parser numbers
  their ids, which the model had left out, and a rename searches for a numbered caller and
  does not find it; hence the condition `AllFindable`.
* **Index**: `IndexSafe`. What a search has read of a file is of its past, or older than its
  last second; a row is of what its symbols have; a file that a search may still answer for
  is to be read, being read, parsed, or on record; and the calls of a settled file are on
  record unless a file with a symbol of the called name was committed after it.
* **DebugSessions**: `DebugSafe`. A session's number is given once, so the session a send
  has seen is the one it answers or is gone for good; what is kept is what was answered
  without an error, once each, and a snippet on its way runs after all of it.
* **Diagnostics**: `DiagnosesSafe`. What a run read of a file is of the version it read
  the time of or of a later one, and of that very one unless the file was edited since; so
  is every entry of the cache, whichever runs saved over each other. Only of a Rust file
  may the parser's word be missing.
* **Builds**: `BuildsSafe`. What a user was shown is what the build would plan now, as
  long as nobody changed the settings and no build configured a directory: an earlier form
  of `OnlyWithConsent` left the second out, and its proof failed on a directory that
  another build makes and a custom adapter looks for. While two builds have never had the
  log at once, only the one that emptied it executes, and it stands at the end of the
  file.
* **MCPrograms**: `ProgramsSafe`, the invariants of these and of `Handshake` side by side.

Five of these rest on induction over data (`QueueSafe` over a queue, `DiffIsLeast` over
the ends of two texts, `PlansDecided` over a plan, `GraphSafe` over the levels of a
search, `RefactorSafe` over the letters of a text and its places). The prover has no
induction rule it can instantiate, so these proofs take the least counterexample: the set
of numbers at which the claim fails would have a least one (`NatLessThanWellFounded`), and
there is none. That a recursive function exists is shown the same way, from functions that
are right up to a number.

**Only model-checked**: `CompilersKeep`. What it compares (two compilers and a parser) is
defined by several recursions over data at once. Liveness under fairness
(`StaleLockYields`, `RunsEnd`, `AllAnswered`, `ServesAll`) is beyond the prover.

The proofs of `Policy`, `Graph` and `Delegation` are in `Delegation_proofs`, those of
`Collaboration`, `Variants` and `PlanGate` in `Participants_proofs`, those of `Index`,
`Refactoring` and `Sessions` in `Workspace_proofs`; the other modules are
named for the part they are about. TLC and the prover do not read every formula alike:
`SUBSET X \ Y` and `UNION X \cup Y` are grouped differently, so the modules bracket them
(without brackets the prover took the test of `PlanRuns` for a cycle to be always false).

## Findings

Five statements of the repository that the code does not keep have a run:

* `shadow_atomicity`: `transaction.rs:403` calls commit atomic; a death between two copies
  leaves one file installed and another not. After recovery the commit can be called
  again, and `HalfDoneIsRetryable` says that what it has installed unmerged does not stand
  in its way.
* `sessions_race`: `SESSION_LOCK` is checked and written in two steps; two processes
  opening together both write.
* `dsl_edits`: `engine.rs:74` says a failed block's shadow edits are rolled back; only
  the staged set is, the edits stay in the shadow directory, where `diff` finds them.
* `proposal_staged`: a proposal's snapshot hashes the workspace without hidden
  directories, so it does not see what a transaction stages after the approval.
* `server_end`: `mcp.rs:217` says the last transmitter is dropped; one more clone lives
  until `run` returns, so the writer never ends, and the server waits for it for ever
  after its input has ended, without the freeze that was to follow.

The conditions of the properties mark others, which follow from the same models:

* A read-only context may still use the workspace tool, and a store that opened
  without a transaction begins one over a HEAD left by another: work is then lost from
  HEAD (`polite`).
* Two programs share one savepoint stack: the abort of one restores what was staged
  when the other began (`shared`). A call that returns an error *object* does not roll
  its block back (`Fails`).
* Dependencies by tag or on unknown ids are passed over in silence (`Edges`);
  a second execution's checkpoints stand among those of the first (`OnlyOne`).
* A call beside an executing plan passes the gate; a plan dropped at its time limit leaves
  the flag set; the first of two plans to end clears the flag for the other (`disturbed`).
  The nodes of the active plan carry no token, pass for a human's and are in no budget
  (`uncounted`; `context.rs:871-887`, `926`, `1360-1539`).
* A proposal rejected during a commit's awaits is committed all the same (`crowded`).
* `claim` takes a node from a worker who holds it (`seized`); a call that read the board
  before a completion erases it (`overlaps`); a node requeued by `status` is on the board
  but not in the frontier's queue, and `seed` refuses it as visited. A call that read the
  frontier before a pop and writes its copy back queues again what was handed out
  (`undone`).
* A review shows the comparison on file, which may be of an earlier simulation than the
  one that is promoted (`Told`).
* Two participants who write the collaboration file at once lose one's claim; a death
  between emptying and writing leaves a file that is read as one without owners
  (`OwnersVouch`'s `"unread"`).
* Two appends to the ledger may name one predecessor (`clashed`); an append that fails is
  ignored, so that the ledger may hold what the history does not (`unlogged`), and a
  checkpoint an entry that the ledger does not (`unentered`). A task that ended by a
  signal takes a place until it is terminated; a call that replaces a dead process may
  replace a later one that lives (`overtaken`).
* An index run commits what it read before a change (`stale`); a file skipped for one
  search's hint is on record as indexed (`whole`); an edit's places come from a second
  read of the file. A file written outside the tools is not noticed by the hash that a
  base hash is compared with, and an edit then passes on symbols its caller has not seen
  (`excused`).
* The drop after an edit takes edges of symbols that a commit has brought back; a save of
  the graph that dies, or of which a statement fails, leaves some of its edges or none,
  and is not repeated (`lost`).
* Rows of symbols that a file no longer has keep their places, and a rename or a move may
  take these for the symbol's (`strayed`).
* A rename of a symbol whose places lie within each other rewrites the inner ones at
  stale places (`Apart`). An error leaves the transaction open; a failed build drops
  HEAD, whosever transaction it names.
* The watchdog asks the graph about no symbols, so the count of poisoned ones is always
  zero and it never reports a regression; what `clear_faults` writes nobody reads.
* Two verifications of one key within a second share a token; `init_agent` forgets the
  other agents when the file does not parse, and of two that overlap one is lost
  (`disturbed`). A second run for an agent's name replaces the key it had.
* A custom adapter without consent answers "ok" with nothing run; a build's second plan
  may name another adapter than the consent did, if settings change in between
  (`changes`); builds that overlap write one log at offsets of their own (`mixed`).
* The commands for jdb and dlv never receive the snippet; a send whose session is stopped
  between two lockings runs, and is answered "unknown".
* A file that cannot be parsed gets the checker's word alone where cargo answers for all
  files, and that is cached as if it were both (`Unparsed`). A clean table of cargo is
  taken for a failed one; the time of a file is read after cargo has checked it
  (`overtaken`); runs overwrite each other's cache whole.
* A session resolves the variables in what is assigned, a plan binds arguments as given; a
  session runs the call that a `let` holds, a plan does not (`NamesAnOutput`); an atomic
  block is dropped from plans, an abort refused by them.

## What is left out

* In `ShadowStore`: errors of `fs::copy` and of reading while a commit plans and
  errors when HEAD is written (only those that stop an apply are there); workspace
  files cut short by a crash; the text of diffs and merges.
* In `Sessions`: `CURD_STATE_DIR`, which puts the lock where `drop` does not look.
* In `DslAtomic`: variables and results; workspace-tool calls inside a block (others
  make them); whole-file conflicts, except as a commit that fails.
* In `PlanRuns`: parallel waves, output limits, the contents of results.
* In `PlanGate`: retries, token and time budgets, the barriers for sessions, the override
  locks; nodes whose arguments bring a token of their own; calls of people, who pass the
  gate and have no budget. In `ProposalGate`: review thresholds (a refusal), provenance
  stamps.
* In `Delegation`: times other than "older than the time-out or not", `completed_by`,
  requeue counts, write errors; a call reads its two files in one step, and writes each in
  one, so that no reader meets half a file.
* In `Variants`: the text of comparisons, represented by the content they looked at. In
  `ToolSessions`: the wire format. In `ShellTasks`: what the sandbox lets a command do.
* In `Index`: edges other than calls. In `Graph`: `resolve_uri`, the text of imports, the
  wording of audits. In `Editing` and `Refactoring`: several symbols in one call, edits
  that come from a language server, savepoints in HEAD, a search with more than 100 answers,
  contexts linked to other workspaces.
* In `Scripts`: the lexer, lists in lists, dotted paths, `use` and `arg`. In `Builds`:
  output other than errors, target and profile names a tool ignores. In `DebugSessions`:
  the debug adapter protocol. In `Diagnostics`: `get_semantic_faults`.
* In `Serving`: notifications and blank lines; handlers are taken to return.
* Everything that is a conversion of text or a report.

**Not modelled**: plugins (archives, signatures and trust are cryptography and I/O around
one registry file), the language-server client (a protocol with a program outside the
repository), the doctor and profiling (reports), reading and documentation tools
(functions over files without state), configuration parsing (its values are parameters of
the modules) and the language bindings (wrappers that call the engines above).

## Plan

Done: the modules above, in the order listed. Next:

1. Proofs: `BuildPlansKeep` and `PlansCallAlike` of `CompilersKeep`.
2. An abstract board (one owner, final completions) and an abstract gate (approve, then
   commit), with `Delegation` and `ProposalGate` implementing them where calls take turns.
3. `Plugins`: installing and removing beside each other over one registry file.
4. The debug adapter protocol's framing, and the language-server client with answers that
   come late or not at all.
