# Verification of go-research

`go-research` answers a question by research: a planner splits it into subtasks
that depend on each other, a scheduler runs one researcher per subtask, a writer
turns the findings into a report, and an HTTP handler streams all of it to the
browser while a recorder keeps the rows of the history page. This directory holds
TLA+ models of that program, the configurations that check them with TLC, and
theorems about them that TLAPS checks.

All paths below are relative to the repository.

## 1. Inventory

| Component | State it keeps | Operations | Hard about it | Model |
|---|---|---|---|---|
| DAG graph (`internal/agent/dag/graph.go`) | nodes in order of registration | `Add`, `Nodes`, `Validate`, `detectCycle` | a depth-first search without recursion, a node is on the stack several times | `CycleDetect` |
| DAG scheduler (`dag/scheduler.go`, `types.go`) | the coordinator's maps, two channels, the run's context, the pool | `Run`, `worker`, `execute`, `emit` | workers, retries, fail-fast and the caller's context race with each other | `DagScheduler`, `DagRun`, `Backoff` |
| Orchestrator (`orchestrator/orchestrator.go`) | the plan, the findings, the channel `dagEvents` | `Engine.Run`, the bridge, the progress hook | three kinds of goroutines write to one channel that is then closed | `ResearchPipeline` |
| Research handler and recorder (`server/handler_research.go`, `research_recorder.go`) | `events`, `pipelineErr`, the recorder's report and verdict | stream, record, drain, `Finalize` | a client that hangs up, a deadline, statements that fail | `ResearchPipeline` |
| Postgres store (`store/`) | the rows of a session and of its tasks, the schema | create, upsert, complete; the history queries; `Open` and its migration | each statement may fail on its own, a detail takes two statements | `ResearchPipeline`, `SessionLog`, `History`, `Startup` |
| Planner (`agent/planner`), JSON extraction (`agent/jsonutil`) | none | `Plan`, `validate`, one retry; the scan for the braces | what a language model may write | `Planner`, `JsonExtract` |
| Researcher (`agent/researcher`) | results and their numbers, the attempt | `Research`, `collectSearchResults`, `synthesize` | rounds and attempts that a language model steers, a call that is retried | `Researcher`, `NodeResearch` |
| Critic (`agent/critic`) | none | `Review`, `parseReview` | scores out of range | in `Researcher` |
| Writer (`agent/writer`) | none | `Stream`, the reference list of `buildPrompt` | ends with the context of the request; sources that several findings share | `ResearchPipeline`, `NodeResearch` |
| Search tools (`internal/tool`), Redis cache (`internal/cache/redis`) | the shared cache | `Cached.Call`, `buildKey`, `GetSearch`, `SetSearch`; registry; Tavily, mock | two calls between `GetSearch` and `SetSearch`, servers with other settings | in `Researcher`, `Config` |
| Configuration and `cmd/server` | the environment | `Load`, the wiring and the boot of `main` | values that are nonsense, services that are late | `Config`, `Startup` |
| History handlers, middleware, routes (`server/`) | none | list, detail, the API key | they read what requests are writing | `History`, `Service` |
| Rate limiter (`internal/ratelimit`) | token bucket, semaphore | `Acquire`, `TryAcquire`, release | who gives back what after an error | `Limiter` |
| LLM client (`internal/llm`) | none | `New` | settings its library refuses end the boot | `New` in `Config`, `Startup` |
| Chat, health, the page | - | - | - | section 7 |

How they interact. `main` boots: configuration, Postgres and its migration, Redis if it
answers, then the HTTP server. The research handler starts one goroutine for `Engine.Run`
and reads the channel `events` it fills; `pipelineErr` carries its error. `Engine.Run`
calls the planner, builds the graph, starts the bridge and calls `Scheduler.Run`, which
starts the pool; a worker calls a researcher, whose hook writes progress straight to
`events`, while its start and its result go to `dagEvents` and reach `events` through the
bridge. The researcher calls the cache, the search provider, the model and the critic; a
call that fails is made again by the worker. The writer numbers the sources of all
findings. Everything in a request hangs on one context, which the deadline, the handler
(after a failed write), and for the workers also the first failure, end. Requests share
Postgres, which outlives the server, and Redis, which also serves other servers.

What makes each component correct, and what is hard to test about it, is listed
line by line under `hazards` in `PROJECT.json`, with the properties that would
catch it.

## 2. Plan

1. Done: the scheduler, because everything else rests on it (`DagScheduler`), with
   the abstract specification of what its caller relies on (`DagRun`), and its proofs.
2. Done: the validation that stands before it (`CycleDetect`), with proofs.
3. Done: the request (`ResearchPipeline`), composed with `DagRun` instead of the
   detailed scheduler, which is what that refinement is for, and shown to write its rows
   as `SessionLog` says.
4. Done: the parts below a node and beside it: `Researcher` with the cache and
   `NodeResearch` with the scheduler's retry, on servers built from their environment
   (`Config`); `Limiter` with proofs; `Backoff`.
5. Done: the intake of a question, from the model's reply to the accepted graph
   (`Planner`, `JsonExtract`).
6. Done: the server around the requests: its boot (`Startup`), what the history shows
   while sessions are written (`History`, built of `SessionLog` instead of
   `ResearchPipeline`, which is what that refinement is for), and both over several lives
   of the process (`Service`).
7. Done: the proofs about `Service`.
8. Done: the proofs about `ResearchPipeline` with its refinement of `SessionLog`, about
   `Researcher` and `NodeResearch`, about `Planner`, and those of `NoSkip`, `StackBound` and
   `DelayExact`. Every safety property that a run checks is now a theorem.
9. Next: the lemmas that several proofs have in common, in one place; and what a reader
   of the history may rely on over several pages, as a theorem about a whole listing.

The dependency between the modules:

    DagGraph -- DagRun ---------------------- ResearchPipeline -- ...Properties -- ...Invariant
       |          ^ refined by                                         |   -- ...Proofs, MC...
       +------ DagScheduler -- ...Properties -- ...Invariant           v refines
       |                              -- ...Proofs, MC...          SessionLog -- History --+
       +------ CycleDetect -- CycleDetectProofs, MCCycleDetect                             |
    Config -- Researcher -- NodeResearch -- ...Invariant -- ResearcherProofs, MC...    Service
       +----- Startup ---------------------------------------------------------------------+
    Service -- ServiceProofs, MCService     Planner -- PlannerProofs, MCPlanner
    Limiter -- LimiterProofs, MCLimiter     JsonExtract -- Planner
    Backoff -- DagSchedulerProofs, MCBackoff
    RecursionLemmas: what the proofs about folds and recursive functions share

A definition that a comment calls a *mutant* is not part of a model: it is the form a
plausible bug would give to the definition after it, kept to show that the properties
notice. Bounds are constants named in the module that uses them.

## 3. The models

### DagScheduler: one call of `Scheduler.Run`

The constants are the number of nodes, the pool (`WithConcurrency`), `MaxRetry` of each
node, the limiter's slots and the room in the events channel; the graph is any graph.
The coordinator's actions are `Reject` and `Start` (lines 96-135), `Dispatch` (the seed
loop and the send in the promotion loop), `SkipDispatch` (the other case of that
`select`), `RecvOk` and `RecvErr` (the `doneCh` case), `SeeCancel` and `CancelNode` (the
`ctx.Done()` case), and `Close` and `Return` (the deferred calls). A worker's actions
follow `execute`: `Pick`, `Proceed` or `Abort` (the poll before an attempt), `Begin` or
`Refused` or `Abort` (the limiter), `Finish` (the RunFn returns), `ReportOk`,
`ReportFailed`, `ReportRetry`, then `Retry` or `Abort` in the backoff.

- A step is one operation that another goroutine can observe. What only the
  coordinator sees is joined to the receive before it, and `emit`, which never blocks,
  to the step it announces.
- Where Go's `select` may choose, the model may choose: a done message that waits and a
  context that is done are both enabled. A node takes `SkipDispatch` even if its task
  would have fitted.
- The attempt's own timeout and a panic are a `fault`; `ctx` is an error that only a
  done context can cause.
- `inFlight` counts the active RunFns also without a limiter. A limiter that only
  limits the rate is one with many slots. A limiter may refuse with an error of its own
  (`Refused`), since `Wait` refuses a token that would come after the deadline.
- A graph has at least one node. `Run` on a nil or empty graph returns at once and is
  left out. `MaxRetry` is not negative.

`DagRun` is the contract: a RunFn is called only in a valid graph, after its
dependencies succeeded, one call at a time and never again after it succeeded; `Run`
answers when none is active, and answers nil only if all succeeded.

### CycleDetect: `Validate` and `detectCycle`

One action per iteration of a loop. `stack` joins the slices `stack` and `marker`; the
dependencies are lists, because the order and the repetition of entries decide what is
pushed; 0 stands for an ID that is not registered. The node list of `Add` is the
numbering 1..N. Duplicate IDs are refused by `Add` and never reach `Validate`.

### ResearchPipeline: one `POST /api/research`

The scheduler is `DagRun` joined with the events it emits and bounded retries; the
context of the request can end at any time. Engine, bridge, nodes, handler and the
draining goroutine are separate processes. The store's rows are state; every statement
may fail on its own, and those on tasks run under the pipeline's context and fail after
it is done, while `CompleteSession` runs under the request's.

- The bridge takes one event and sends one in a step. It can then hold one event less
  than the program's, which only makes the channel after it appear one place larger.
- The pool's size is abstracted: any number of ready nodes may run.
- A researcher's hook (`orchestrator.go:162-175`) emits on `events` itself, without a look at
  its context: after `BeginReport` the attempt cannot end (`HookReturned` in `EndNode`)
  before `Report` has found room, even if the context is done.
- `WriteEvent`, the write to the client, is no part of `Handler` and has no fairness: the
  server sets no write timeout (`server.go:24`), so it returns when the client reads on, or
  as `WriteFails` when the client has hung up, and never while the client stalls.
- `dagEvents` has 256 places; the planner makes at most 8 subtasks with at most two
  attempts, and each emits at most five events (two starts, a retry, an outcome, a
  cancellation). `DagEventCap = 5 * N` is the same proportion or less than in the
  program (256 >= 5 * 8), so `NoDagEventLost` says something about it.
- `cancelled` events are emitted for any subset of the nodes.
- `Rows` (in `ResearchPipelineProperties`) maps the rows to a `SessionLog`: created, seeded
  by the plan, saved by the events of the nodes in an order that never goes back, closed
  once. It is what a reader of the history relies on.
- Left out: a request that is refused with 400, a server without a store, and the
  error paths that cannot be reached after `planner.validate` (`g.Add` errors, findings
  that are nil, a successful run without findings).

### Backoff: the delays of `ExponentialBackoff`

The delay after each attempt, computed in integers of `Width` bits that wrap around, as
Go's shift and `time.Duration` (64 bits of nanoseconds) do.

### Planner, JsonExtract: from a question to a graph

A reply is a text of four kinds of tokens, an object between prose, and what the object
says: `Extract` is the scan of `extractJSON` (`ExtractObject` in `jsonutil` is the same
function), `IsObject` the grammar it stands for. `Ask` is `askOnce` with its decoding and
`validate`, once more after any failure; `Add` and `Built` are the loop of `Engine.Run`
over `g.Add`; `ValidateGraph` is the verdict of `Graph.Validate`. `json.Unmarshal` is
external: it yields the subtasks of the model's answer, or, when the scan cut out another
object of the text, those that this object has (`draft`): none, or a plan too, since a draft
in leaked thoughts is decoded like the answer (`planner.go:91-98`).

### Researcher, NodeResearch: `Research`, critic, cache, and the retry of a node

The actions are the calls that leave the process: look the cache up (`Hit`, `Miss`), ask
the provider (`Ask`), store (`Store`), plan follow-ups (`Plan`), synthesize (`Write`),
review (`Review`), each of which may fail. Two agents interleave between them, on servers
with equal or different environments, and entries expire at any time. The provider may give
two different answers to one query; the model may propose any list, with blanks and
repetitions; the critic may write any number. `Load`, `Provider` and `SearchNS` (`Config`)
make options, search tool and cache namespace of an environment, and `Normalized` is
`Options.normalized`; `Key` is `buildKey`, `DedupAppend` is `dedupAppend` (its `seen` map is
the set of URLs in the list), `Usable` and `Cut` are `parseFollowUps` and the cut after it.
A draft is represented by its attempt, feedback by the attempt it was given for. The bypass
of the cache for an empty query is unreachable, since blank queries are dropped. Prompts
are text, and the progress hook is modelled in `ResearchPipeline`.

`NodeResearch` adds what `execute` does with a call that failed, `Retry`: the same call from
nothing, while the cache keeps what the first one found; and the reference list of the
writer's prompt, `References`. A retry begins a new history of the call; `earlier` remembers
what the calls before it cost, so that the budget is one of the node. The backoff and the timeout of an attempt only end a call,
which is a failure like others.

### SessionLog, History: the rows, and what a client is shown of them

`SessionLog` is the life of one session's rows, as sets of successors (`Creations`,
`Seedings`, `Saves`, `Closings`); `lost` remembers that a statement on a task failed. A
request that is cut off simply writes no more. `History` has several of them at once, and a
client: `GetRow` and `GetTasks` are the two statements of `GetSession`, between which the
session goes on; `List` is one page of `ListSessions`. A reader's columns other than the
statuses are left out. Sessions are numbered in the order of `created_at`; two sessions of
the same microsecond, whose order Postgres may choose anew for every page, are left out.

### Startup, Service: the server's lives

`Startup` is `main`: `LoadConfig`, `NewModel` (`llm.New`), `OpenPool` (`pgxpool.New`, which
parses the DSN), `Ping` (the loop of `Open`), `Migrate`, `PingRedis`, `Listen`, each but
`PingRedis` with its `log.Fatalf`. What the libraries of the model and of Postgres refuse is
external: a set of strings, `Refused`. `Die` kills the process at any point, `Start` begins
the next life with any environment. Postgres is down, up, or answers and refuses the
statements of the migration (a missing grant, a concurrent `CREATE` of another server), and
`Toggle` lets it change during the boot. A migration that loses its connection may have been
committed or not. A ping is assumed to return: `Open` calls it under `Background` without a
timeout (`postgres.go:41`), so that only the driver and the network end one that hangs. `Service` composes it
with `History`: requests are served only by a server that is up, reads only with its API key
(`Authorised`; the writing routes have the same middleware, but a request that is refused
changes nothing), and a death cuts off every request; no later life takes one up again.

### Limiter: `New`, `Acquire`, `TryAcquire`, release

A call waits for the token and then for the slot; `TryAcquire` takes what is there. The
release function is called exactly once, after an error too, as the comment of `Acquire`
demands; after an error it does nothing. The bucket of `golang.org/x/time/rate` is
external: whole tokens, refilled one tick at a time, with a `Wait` that may also refuse
early because it knows the deadline, and a waiting call that may have claimed the token
before a later `TryAcquire`. A nil limiter admits everything, like one without rate and
semaphore. `ErrClosed` (`limiter.go:45-47`) is declared, but nothing returns it. The server
(`cmd/server/main.go`) builds its scheduler without a limiter; both models cover the
library as it can be used.

## 4. The runs

| Run | Question | Bounds |
|---|---|---|
| `dag_safety` | Do bookkeeping, snapshots, error attribution and slots survive every interleaving, is the invariant of the proofs invariant, and does the run implement `DagRun`? | all graphs of 3 nodes, 3 interchangeable workers, node 1 retried once, 2 slots, 1 place for events and a reader |
| `dag_liveness` | Does `Run` return if every RunFn does, and after a failure or a cancellation even if RunFns hang until their context ends? Is it quiet afterwards? | the same graphs and retries, 2 workers, 1 slot, no event reader |
| `cycle_safety` | Is the verdict right, is the stack small, does the search end? | all graphs of 3 nodes, each with up to 2 dependencies, repeated, unknown or on itself |
| `pipe_safety` | Is the stream ordered, is nothing lost or sent on a closed channel, do the rows agree with what happened and evolve as `SessionLog` says? | 2 subtasks apart, in a chain or in a circle, 1 retry, 1 place in `events`, 1 token, failing statements |
| `pipe_termination` | Do the handler and all goroutines end and is the session closed, if the client reads on or hangs up? Is the stream ordered with the nodes' progress in it? | the same, with one progress event of each node, no retry, a store that answers |
| `research_nodes` | Are citations, cache and references right, do all calls of a node together keep to its search budget, for two nodes, one of them retried, and do both end? | 2 agents with one question, 3 environments (one of nonsense values, one without Redis), 2 queries, 3 answers with repeated, blank and retitled items, an empty one among them |
| `limiter_safety` | Are slots exact, is the bucket neither outrun nor dry without cause, does a caller whose context ends get away? | 3 callers, 5 calls, 2 refills, 4 settings |
| `planner_intake` | Is an accepted plan fit and, unless a brace misled the scan, the one the model answered with, can only a circle spoil it, is a fit plan never refused in plain prose? | all pairs of replies out of 10 lists of subtasks (good, circular, on itself, unknown, duplicate, blank, empty, too many) and 8 objects between 5 x 5 proses, a draft plan in front of some |
| `backoff_delays` | Is the delay the exact power of two, or the cap? | 8-bit integers, all bases and caps up to 24, 12 attempts |
| `service_history` | Does every start serve or exit for a cause of its own, is no detail or listing torn, does a client never see a status go back? | 2 lives of the server, 4 environments (one without a key, one whose model is refused, one whose DSN does not parse), 2 pings, 2 sessions with one subtask, limits 0, 1 and 3 over a default of 1 and a maximum of 2 |

Why these bounds. Three nodes are the least with a chain, a fork, a join and a cycle
through others, and with a node that is neither failed nor waiting when another fails;
three workers and two slots let one wait for a slot while another fails. A buffer of one
event is the smallest that can block a sender, and any larger one only blocks later.
Two agents are enough for a race on the cache, which only two calls on one key can have.
The planner allows two subtasks instead of eight, so that a plan can be one too long. Two
sessions are the least that can be paged through in two pages, two lives the least in
which one finds what another left. Eight bits have caps on both sides of the last one whose
square fits, and attempts beyond the width. For every safety property the theorems below
remove the bounds; for the liveness properties they stay.

Deadlock is checked in every run except `limiter_safety`, whose callers may stop calling.

Two runs show that the code does not do what a comment says:

| Run | The comment | What happens |
|---|---|---|
| `pipe_unanswered` | `orchestrator.go:109-111`: every `node_started` is followed by an outcome | a cancelled node never gets one |
| `planner_prose` | `planner.go:101-102`: the extraction "tolerates surrounding prose" | a brace in the prose before the object, or inside one of its strings, misleads the scan; two such replies fail the request |

## 5. Fairness

- `HangingSpec` of `DagScheduler`: goroutines that can go on do, and a RunFn returns once
  its context is done. This is a node without `Timeout`; a RunFn that ignores its context
  even then is excluded: nothing in the code could end it. `Termination` assumes more, and
  says so in its premise `RunFnsReturn`: every RunFn returns, as it does in this program,
  where each node has a timeout of 90 seconds and each blocking call takes the context. The
  caller's cancellation is not fair: it need not happen.
- `FairSpec` of `CycleDetect`: the loop goes on.
- `FairSpec` of `ResearchPipeline`: the goroutines run, and planner, nodes, writer and
  store answer, all under a context with a deadline. Deadline and hang-up are not fair, and
  neither is `WriteEvent`. `Concluded` therefore has the premise `WritesReturn`, that the
  client reads on or hangs up; without it the property is false, and section 8 says what a
  stalled client does. An emit that waits for room is fair (`Report`), which asks only that a
  sender is woken when there is room.
- `NodeSpec` of `NodeResearch`: each node goes on, because every call it makes is under the
  context of its attempt, which ends. Entries need not expire.
- `FairSpec` of `Limiter`: a goroutine whose wait can end goes on. Nobody is assumed to
  release and no token is assumed to come. This is weak fairness of waking up at all:
  no order among the waiting callers is assumed.
- `Spec` of `Service`: the boot goes on, if a ping ends (see `Startup`); a pause does. Postgres need not
  come, requests need not be made, and a dead server need not be started again.

## 6. Proofs

The assumptions are those of the modules: `N` is positive; the pool is finite and not
empty, retries are natural numbers; dependency lists are over the nodes and one unknown
ID; the limiter's arguments are integers and its callers finitely many. `dagEvents` has
room for `2 * MaxRetry + 3` events of every subtask (`RoomAssumption`; in the program
256 >= 8 * 5). Researchers are finitely many, answers and follow-ups are lists, scores and
what `strconv.Atoi` yields are integers (`ResearchAssumption`, `AtoiAssumption`). Replies
and their plans are lists of any length (`RepliesAssumption`). The default and the maximum
of a page are positive, as the constants of `ListSessions` are; limits are any integers
(`HistoryAssumption`). A base is positive and not above its cap, and the cap fits into the
integer (`SettingsAssumption`), as the two settings of the program do. TLC evaluates each
of these on its instance.

**DagSchedulerProofs.** The safety properties speak of results and messages, and none is
inductive alone. `IInv` (`DagSchedulerInvariant`) has one part for each thing the
coordinator takes for granted: `Phases` (what a phase has done), `Tickets` (a node is in
one place), `Outcomes` (the history of the RunFn agrees with that place), `Dependencies`
(dispatched after its dependencies, with their outputs), `Causes` (who ended the context),
`Results` (the counter and the answer), `Attempts` and `Slots`. Each part has a lemma
that uses the parts before it: `RecvErr` keeps the counter exact only because the message
was of a node without a result, which is `Tickets`; `RootCause` needs that the context
cancelled by a failure left an error behind, which is `Causes`. Theorem `Invariance`
gives `[]IInv`; the theorems `OneTicketHolds`, `RemainingExactHolds`, `SnapshotSoundHolds`,
`RootCauseHolds` (with `CancelledForCause`), `ResultSoundHolds`, `NothingStrandedHolds`, `SlotsMatchHoldersHolds` and
`RetryBudgetHolds` follow; `Quiet` is the action property `QuietAfterReturn`; `Refinement`
shows that every step is a step of `DagRun` or changes nothing of it.

**CycleDetectProofs.** `CycleInv` says that finished nodes lead only to finished nodes and
contain no circle (`Finished`), that what a marked entry still waits for lies above it
(`Covered`), and that entries hang on the nearest marked entry below (`Linked`,
`Chained`). A black node that was pushed twice turns grey once more, so "black is
finished" is not enough: `finished`, the history of black nodes, is what the argument
runs on. `VerdictRightHolds` gets both directions: an accepted graph has no set of nodes
that all lead into it, and the grey path from the repeated node to the top of the stack
is such a set. `GreyPathHolds` states that path. `Levels` is the part behind
`StackBoundHolds`: between a marked entry and the next lie only dependencies of it, pushed
at an index of their own, and grey nodes are distinct; so the entries above the root can be
counted by the pairs of a node and an index, which are the edges.

**LimiterProofs.** The invariant is the type, `SlotsExact` and `RateCap`; `RateCap` counts
the calls that have a token and wait for a slot, and those that wait for a token and have
spent none, without which it is not inductive. That the bucket is never dry at rest needs
that `Burst` is positive for every argument of `New` (`BurstType`). The lemma `Moves` says
what happens to the three counts when one caller moves.

**ServiceProofs.** `BootInv` is enough for the boot: a Postgres that does not answer between
the start and the end of the migration, or refuses, was noted in `seen`, each stage knows
the settings that were accepted before it, and after the migration the tables are there. The history needs what the client holds in its hands: `HistoryInv` says that the
session it watches has passed what it was shown, and between the two statements also the head
it has read (`Watches`). The lemma `Successors` reduces every statement of a request to one
fact, `Follows`: statuses go forward, and a session that is completed is whole. `DetailLater`
then gives both `DetailWholeHolds` and, as an action property, `NeverBackwardsHolds`. No
assumption is used on the number of sessions, subtasks, lives or environments. `NoSkipHolds`
needs `PageInv`: the sessions stored are 1 to n in the order of their creation, and one that
was there at the first page and is not seen yet has at least as many newer ones as the
offset; a new session only pushes it further down. The order of a page is a `CHOOSE`
(`NewestFirst`), of which `NewestFirstIs` proves that it is the descending one.

**ResearchPipelineProofs.** `IInv` (`ResearchPipelineInvariant`) follows an event from the
scheduler to the page. `Stages` and `Verdicts` say what each stage of the engine has done,
and that the verdict is sent last and once. `DagOrder` gives every event in `dagEvents` its
place in the life of its subtask, so that no two are alike and their number is bounded: that
is `NoDagEventLostHolds`. `Announced` says that whatever the bridge passes on next was
preceded by what must precede it, `Streamed` the same of the channel to the handler, whose
three kinds of writers interleave; `Reporting` and `Ended` say that a node whose hook waits is
running, and that nothing of a node that runs was announced as over, so that its progress
cannot come late. `OrderedStreamHolds` is the action property that follows.
`Recorded`, `Reported` and `Handled` relate the rows, the report and the handler's verdict
to what was received and to what still waits: a row may be behind its subtask only if an
event of it waits, the client is gone, or a statement failed. From these follow
`CompletedIsWholeHolds` and `FailureExplainedHolds`, and that every step writes the rows as
`SessionLog` allows (`ImplementsSessionLogHolds`), by one lemma for each statement.

**ResearcherProofs.** The parts of the invariant (`NodeResearchInvariant`) do not need one
another. `Searched` counts the searches still to come in a round, and those of the calls that
failed, without which `SearchBudget`, which is about all calls of a node, is not inductive; `Sourced` says where every answer in the cache, in the
hand of a researcher and in its notes comes from, for all servers at once, because a key
that two servers share must stand for one provider; `Reviewed` says that all reviews but
the last rejected their draft. `FirstSeen` is inductive by itself, given the lemmas on
`dedupAppend`: the fold over the items of an answer keeps the citations the first items of
their URLs. `EverySourceOnceHolds` proves the same of the writer's reference list, over
the findings of all nodes. The theorems are about `NodeSpec`, retries included.

**PlannerProofs.** `Answered` and `Copied` are the invariant of the intake: no answer before
the last brought a plan, and the graph is the beginning of the plan. The substance is in the
lemmas on the scan: on an object without braces in its strings, between prose without
braces, the depth that `extractJSON` counts is the nesting of the grammar (`DepthIs`,
`NestingIs`), so the scan ends exactly at the closing brace (`ObjectExtracted`), a fit
plan is accepted (`FitAccepted`), and no draft can take its place (`AcceptedIs`). Texts and plans have any length.

**The delays** are proved at the end of `DagSchedulerProofs`, about the specification
`DelaySpec` of `Backoff`, whose variables the scheduler does not touch. If the product `base * 2^k` has wrapped, then `2^k` is above a
mild cap, since the base is not; and what is left of the product is a multiple of `2^k`,
or of the modulus, so it is either not positive or above the cap, and the code's test
catches it.

**RecursionLemmas.** Facts about recursive functions and folds need an induction. The
library states it over an operator, which the provers cannot instantiate; here it is stated
over a set (`SetInduction`, `SegmentInduction`), which they can, and follows from the
library's theorem that the natural numbers are well-founded. `RunExists` and `FoldRuns` then
say that a function defined by recursion along a list exists, and that the folds of the
community modules compute it. `dedupAppend`, the depth of the scan and the powers of two
are instances.

The invariants `IInv` of the pipeline, the researchers and the planner are in no
configuration, since the properties follow from them; for TLC to evaluate one, add
`INVARIANT IInv` to `PipeSafety.cfg`, `ResearchNodes.cfg` or `PlannerIntake.cfg`.

Only model-checked: everything under fairness (`Termination`, `FailFastReturns`,
`SearchEnds`, `Concluded`, `EndReturns`, `Returns`, `BootEnds`), since TLAPS has no liveness or `ENABLED`
here; and the two runs of section 4 that end in a violation, which need one instance only.
`RemainingExact`, `CancelledForCause` and `RetryBudget` are proved, and follow from `IInv`,
which `dag_safety` checks; no run states them again. `CycleInv` and `GreyPath` are proved
only; add `INVARIANT CycleInv` to `CycleSafety.cfg` for TLC to evaluate them.

## 7. What is not modelled

- The LLM client beyond `New`, Tavily and the mock: thin clients; their answers are the nondeterminism of
  the models. Of the Redis client only that calls may fail and entries expire.
- Chat and health: chat forwards one stream of the model and keeps nothing, health reports
  the configuration.
- Requests refused with 400, 401 or 404 beyond the API key of the history, and a server
  without a store: they change no state.
- The wording of prompts, events and errors; the registry, which is filled once.
- `cmd/tavily-smoke`, a command for trying the provider by hand, and the page.

## 8. Behaviour worth knowing

Some comments say otherwise, in a detail that nothing depends on:

- `types.go:30`: a cancelled node "never started". The coordinator marks every unfinished
  node cancelled when it takes the `ctx.Done()` case (`scheduler.go:162`), one that runs or
  has succeeded included; its output is dropped.
- `types.go:29`: a failed node "exhausted retries". One that finds its context done before
  its first call is marked failed too (`scheduler.go:228`).
- `scheduler.go:140-143`: `cancel()` runs before `close(taskCh)` by LIFO order. It was
  deferred first (`:116`) and runs last; `NothingStranded` and `Termination` show why nothing
  breaks.
- `planner.go:57`: `Plan` retries "on JSON parse failure". It retries after any failure, a
  failed call or a plan that `validate` refuses included; and `planner.go:69` announces "the
  bad output", where the prompt gets a fixed placeholder.
- `orchestrator.go:113`: `Run` "blocks until the pipeline finishes or ctx is cancelled". Its
  `emit` does not look at `ctx`: with `events` full it blocks until somebody takes from the
  channel, which `emit`'s comment (`:261-263`) expects of the caller.
- `options.go`: the default of `MaxCriticRetries` is given as 1; a zero stays zero
  (`Config` has the 1 as the default of the environment variable).

The models show these; no document of the repository promises otherwise.

- A client that stops reading without closing the connection holds the handler in its write
  (`handler_research.go:98`): no write timeout is set, and the deadline ends the context of
  the pipeline, not the write. Once `events` is full, the engine, the bridge and every node
  that reports block as well, and the session stays `running`. `Concluded` excludes exactly
  this client.
- A draft plan in front of the answer (thoughts that leaked, or a brace that cut the answer)
  is accepted in its place if it passes `validate`: the first object of the text counts.
- A retried researcher starts its searches anew: a sub-question may cost twice the budget of
  one call. `SearchBudget` is that sum.
- A `search_round` or `critic_review` can overtake the `node_started` of its node, since it
  does not take the way over the bridge; it cannot come after the outcome.
- Whatever the migration's statements fail with ends the boot, also if another server only
  creates the same tables at the same time; the next start finds them there.
- A session can be `failed` without a message: the client hung up on a run that then
  succeeded (`FailureExplained` states exactly this exception).
- The upsert of a failed node blanks its question, and after the deadline no row of a
  task can be written, so rows of a failed session stay `pending` or `running`.
- A session whose server died stays `running`: no later life closes it.
- Dependencies in a circle, or of a subtask on itself, pass `validate`. They are found by
  `Scheduler.Run`, after the plan was shown and its rows were seeded, and without a retry.
- An empty answer of the provider is cached for an hour, so the retry of a researcher that
  failed for want of results is likely to be served the same answer.
- `CriticMinScore` above 10 is never met, since scores are clamped; every finding is then
  written and reviewed as often as the retries allow.
- The last draft is delivered even if an earlier one had the better score.
- `ExponentialBackoff` does not notice a product that wraps around to a positive number. No
  delay below the cap results if the square of the cap fits into the integer: in 64 bits of
  nanoseconds, for caps below 3.037 s. The server's 3 s and the default of 2 s are.
- A `TryAcquire` that finds no slot has spent its token, and so has an `Acquire` that gives
  up waiting for one.
- `ErrClosed` of the limiter is declared and never returned; the server builds its scheduler
  without a limiter.
- The page sends no API key: with `API_KEY` set, its own calls are answered with 401. Its
  history pane shows the detail that arrives last, not the one that was clicked last.
