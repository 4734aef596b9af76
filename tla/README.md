# AgentBack in TLA+

Models, model-checking runs and machine-checked proofs of the parts of AgentBack
whose correctness depends on the order in which things happen. The TLA+ here is
written from the TypeScript under `packages/`; `PROJECT.json` names, for every
definition, the lines it stands for.

The first subject is the **actor runtimes**: the serialization, deduplication,
commit and journal of one seat (one actor identity), in its in-process, journaling,
Redis-backed and Durable-Object forms, and the delivery of the journal to plugged-in
consumers. Around it stand four other parts that keep state across awaits: the
in-memory job queue, the model gateway, plugins mounted into a live application, and
resumable streams. Everything else is inventoried below, with a plan.

## 1. The system

AgentBack is a TypeScript framework derived from LoopBack 4: dependency injection
and lifecycle, a REST server and an MCP server generated from the same Zod-typed
controllers, and around them durable actors, job queues, plugins, model calls,
metering and consoles. Most packages are transformations of metadata or of one
request. The parts that keep state across awaits, processes or restarts are these.

| component | state it keeps | operations | what is hard | what makes it correct |
|---|---|---|---|---|
| `InMemoryActorRuntime` (`actors`) | per identity: a chain of promises, a record of state and dedup results | `invoke`, `state` | an abandoned turn keeps running after its deadline; two cold loads overlap | one turn at a time, in submission order; no lost update; a requestId applies once per dedup window; the caller is told the truth |
| `EventSourcedActorRuntime` | the same, a counter and a log | `invoke`, `history`, `subscribe` | state, dedup and log advance together; timed-out turns leave a marker | the log is dense, append-only and agrees with the state |
| `RedisActorRuntime` (`actors-redis`) | five keys per identity: lease, state, dedup, counter, stream | `invoke` from any number of processes | leases lapse under a paused process; scripts run late, or twice, or never; replies are lost; processes die | the token check of the commit script fences everything; the seat comes free by itself |
| `RedisJournalSubscription`, `SeatJournalConsumerHost` | read position and seq cursor; provider list, cursors per provider, in memory and persisted | tail, replay, refresh, deliver | refreshes overlap; reads fail in the middle; consumers throw; the host dies between handling and recording | at least once, in order, no false loss report |
| Durable Objects runtime (`actors-do`) | a seat tail and a storage tail, transactional storage | `#turn`, `#loadAndReceive`, `#commit`, `#appendTimeoutMarker` | the commit queues behind late writes of abandoned turns; storage calls fail; the platform loses the object | the same contract as the other runtimes |
| `ActorRegistry`, seat keys | a key per seat, its custody mark | `ensureSeatKey`, `takeCustody` | two claims, two exports at once | one key per seat, exported at most once |
| in-memory job queue (`messaging`) | jobs by list, by id and by dedup key; slots; abort handles by id | enqueue, pump, retry, cancel, drain, discard, pause | a removed id is enqueued again while its old attempt runs; an id the store counts out meets a caller's; abandoned handlers run on | the store's views agree; slots and attempts are rationed; every job ends |
| idempotency store (`common`) | promise per key with an expiry | `run` | a failing execution races an expiry | at most one execution per key |
| model gateway (`model-gateway`) | per model a circuit (failures, opened at, probe lease); per scope the tokens spent | `doGenerate`, `doStream` through accounting, fallback, retry, breaker | late results of calls made before the circuit opened; probes that never settle; streams billed at their end; callers that abort | bounded overshoot; nothing started for a cancelled call; never shut for good |
| application lifecycle (`core`) | a state string and observers | `init`, `start`, `stop` | plugins mounted between and during the passes, observers that fail | every observer runs exactly while the application does |
| plugin mounting (`plugin`) | owners snapshot, mount lock, component reference counts | `loadPlugin`, `uninstall`, rollback | teardown outside the mount lock; what is shared outlives who bound it; a component throws half mounted, a stop fails half way | what a mounted plugin nests stays bound; retraction leaves nothing of what was mounted |
| context view (`context`) | a cached promise of values | `resolve`, `refresh` | a refresh during a resolution | the cache is never older than the last event |
| resumable streams (`rest`) | a ring of frames, the attached sink, a window timer | push, attach, detach, resume, dispose | the connection is lost with frames on it, its close arrives late, the ring drops frames meanwhile | every frame once and in order, or a refusal; no stream for nobody |
| MCP event delivery (`mcp-events`), sessions and rate limits (`mcp-http`), agent sessions (`agents`, `console-chat`), metering and payments | subscriptions, tables | deliver/retry/verify, open/close | retry against removal | no delivery to a removed subscriber |
| routing, schema generation, decorators, explorers, CLIs, file stores, telemetry, security interceptors | none shared | request or build time | none of the above | unit tests reach it |

**Interactions.** `ActorRegistry` resolves an actor's class and calls the bound
`ActorRuntime` port (`ActorRef.invoke`); the runtime calls the actor's
`initialState` and `receive`, which are user code and may throw or never return.
`deadlines.ts` is shared by all four runtimes. The Redis runtime talks to Redis
through Lua scripts; its journal is read by `RedisJournalSubscription`, which calls
`SeatJournalConsumerHost.deliver`, which calls the consumers; a `ContextView` tells
the host when consumers are plugged or unplugged. `JobDeadlines` is called by the
job queue around each attempt. The gateway's policies wrap one another; a scope is
ambient (an async local) and shared by all calls made within it. `loadPlugin` binds
into the `Application`, asks its lifecycle registry to notify what it bound, and
tells every server to serve it.

`PROJECT.json` lists every component with its status, and every hazard at its line.

## 2. The modules

| module | models | extends |
|---|---|---|
| `ActorSeat` | what each runtime promises of one seat (`actors/src/types.ts`): the abstract specification | |
| `InMemoryRuntime` | `actors/src/in-memory-runtime.ts`, `deadlines.ts`, one identity | |
| `EventSourcedRuntime` | `actors/src/event-sourced-runtime.ts`: the journal on top | `InMemoryRuntime` |
| `RedisRuntime` | `actors-redis/src/redis-actor-runtime.ts`: any number of processes, one identity | |
| `DurableObjectRuntime` | `actors-do/src/actor-durable-object.ts`: one object and its storage | |
| `JournalConsumers` | `actors-redis/src/stream-subscriber.ts`, `seat-journal-consumers.ts`, `actors/src/degradable-extensions.ts`, one identity | |
| `InMemoryJobQueue` | `messaging/src/in-memory/` (queue, store, admin) and `job-deadlines.ts`: one queue, one worker | |
| `ModelGateway` | `model-gateway/src/` (`accounting`, `scope`, `fallback`, `retry`, `breaker`): the calls of one wrapped model | |
| `PluginMounts` | `plugin/src/` (`load-plugin`, `mount`, `commit-surfaces`) with the passes of `core/src/application.ts` | |
| `ResumableStream` | `rest/src/resumable-streams.ts` and the two senders of `rest.server.ts`; one stream, one client | |
| `ActorRuntimeProofs` | theorems | `EventSourcedRuntime`, and through it `InMemoryRuntime` |
| `RedisRuntimeProofs`, `DurableObjectRuntimeProofs`, `JournalConsumersProofs`, `InMemoryJobQueueProofs`, `ModelGatewayProofs`, `PluginMountsProofs`, `ResumableStreamProofs` | theorems | the modules they are about |
| `MC...` | instances for TLC; `MCJournalConsumers` also states the sentence its violation run tests | |

`InMemoryRuntime` (through `EventSourcedRuntime`), `RedisRuntime` and
`DurableObjectRuntime` each instantiate `ActorSeat` with a refinement mapping: four
classes, one contract.

Every map of the in-process runtimes is keyed by the identity and no operation
touches two keys, so one identity is the whole story for each; what crosses
identities (nested invocations, discovery) is listed as not modelled.

### ActorSeat
A call is submitted, then commits, replays or is rejected; the seat is the history
of committed calls. `Commit` appends state, dedup record and journal entries in one
step and only if the request is not remembered; `Forget` lets old records go;
`Mark` adds the one marker of a timed-out turn. A call that was answered with an
error never commits. `EventCounts` are the numbers of events a turn may return. All the
runtimes are checked, and proved, to implement it.

### InMemoryRuntime
JavaScript runs to completion between awaits, so **an action is the code between two
awaits**. An `invoke` is two nested async frames that can come apart:

* `phase` is the frame of `serialize`: `idle → queued` (`Invoke`, up to `await
  previous`) `→ running` (`Start`: guard stamped, deadline armed, turn started)
  `→ settling` (the race was decided, by `Finish` or `Expire`) `→ done` (`Settle`:
  release, and delete the tail if it is one's own).
* `body` is the turn under the race, which nothing can stop: `creating` (awaiting
  `initialState`), `loaded`, `receiving` (awaiting `receive`), `ended`. After
  `Expire` it runs on, and every one of its later steps remains possible.

`previous` and `tail` are the promise chain. `state`, `results` and `exists` are the
stored record; `state` is kept as the sequence of calls it reflects, so that two different
histories are two different states. `working` is the clone `receive` was given. `Refuse`
is the commit-time check, which fires for the guard's flag or for the clock: the clock may
have passed the deadline with the timer not yet run, so it is enabled in every receiving
turn, whereas `Commit` needs the guard's flag down. `DedupLimit` is the code's, and
`Evict` drops the oldest keys as the `Map` iteration does.

### EventSourcedRuntime
The class repeats the in-memory turn line for line and adds `stored.seq`,
`stored.events` and `recordTimedOutTurn`. So does the module: `ESLoad`, `ESCommit`
and `ESSettle` are the in-memory action and what it does to the journal. The
theorem `JournalIsBeside` (every behaviour is an in-memory behaviour) makes all
in-memory theorems hold here.

### RedisRuntime
`phase` is the await the process of a call stands at: `acquiring`, `looking` (the
dedup HGET), `loading`, `receiving`, `marking`, `committing`, `releasing`. The keys
are `lease` (the call whose token it holds), `state`, `dedup`, `seq`, `log`.

A Lua script is atomic; the command that carries it is not. `wire[c]` holds the
write that Redis may still execute for a call: it stays there when the caller is
told the connection failed, and when its process crashes. Replies may be lost (a
second branch of `Runs` and of `Acquire`). **Time is abstract**: a lease may lapse
at any moment, which covers every pause and clock skew; only liveness needs to
know that it does lapse once nobody renews it.

`Resends` says whether the client sends an unanswered script again after a
reconnect. ioredis does by default (`autoResendUnfulfilledCommands`), and nothing in
the repository turns it off; the code of ioredis is not in the repository, so the
properties that hold under both are proved for either. A
re-sent script runs once more with the same arguments, while its caller still waits.

Reads leave nothing in Redis and are taken with the step that uses the reply. The
release that arrives late does what a lapse does and has no wire of its own. A
script that meets a key of the wrong type aborts before its first write
(`CommitAborts`), which is what the code's preflight checks are for.

### JournalConsumers
Two components that run as one pipeline in one process:

* the **provider list**: `Change` (the view's refresh event starts a `sync`),
  `Collected` (`collectValidatedExtensions` has resolved its last binding and
  `this.providers` is assigned), `ReadCursors`/`StoreCursors` (the two sides of
  `await loadCursors`), `Synced` (open the subscription). `jobs` holds the calls of
  `sync` in progress, so that they overlap in every way;
* the **tail**: `Read` (XRANGE or XREAD), `ReadFails` (positions dropped, replay by
  seq), `Offer` (the seq filter), then `deliver`: `Dispatch` hands the event to one
  provider after another, `ConsumeReturns`/`ConsumeThrows`, `Persist`, `Delivered`.

A cursor that stands at seq n − 1 is n and 0 is "not set", which removes the `?? -1`
of the code. `orphaned` records that a refresh has replaced the map the handler will
write to. `handled`, `given`, `gap`, `tailed`, `base`, `fed`, `late` and `warnings`
are history, read by properties only. A warning is recorded with the events it is about
(`Unoffered`) and with those that had left the log.

### DurableObjectRuntime
Two chains of promises: `seatTail`, held by one turn at a time, and `tasks`, the queue
of storage sections (`init`, the first write of the record; `commit`; `marker`), of
which the first runs (`at`: not begun, has read, has put). `phase` is the frame of
`#turn`, `body` that of `#loadAndReceive` under the deadline race; after `Expire` the
body runs on and may still queue a first write. `Refuse` is the check of the clock at
the head of the commit section, `SectionFails` a storage call that rejects, `Evict` the
best-effort delete after the put (both outcomes). `Restart` is the platform losing the
object: memory goes, storage stays, the turns it held are never answered.

### InMemoryJobQueue
A job is an object (`1..MaxJobs`). `Enqueue` gives it the caller's `jobId`, which is
deduplicated (`seen`) and free again once the object has left the store; `EnqueueUnnamed`
gives it the next id the store counts out, which is not looked up and not remembered. The
strings `job_1`, `job_2`, ... are abstracted to `Generated`, distinct ids in the order of
the counter, any of which a caller may choose too. Jobs are numbered as they arrive, so
the list of the store is a set, read by number. `StoreAgrees` says what is true of the
three views when ids meet: `byId` leads to the latest job listed under its id, an id is
`seen` exactly while a job is listed whose caller gave it, and no more than two jobs share
one, one named by its caller and one by the counter. `open` are the attempts whose race
has not settled; what an abandoned handler does afterwards reaches nobody, so it has no
action. `Remove` is `store.remove`, which works by id and takes whichever objects carry
it, and `live` is `JobDeadlines.live`. Every job has a `timeoutMs`; without one a handler
that hangs may of course hold its slot for ever.

### ModelGateway
`stage` is where a call stands in the stack of policies. What a provider answers is one of
four kinds of error or a number of tokens. Time is two facts: whether `resetAfterMs` has
gone by since the circuit opened (`cooled`), and whether it has since the latest probe
started (`probe`, which is `probeStartedAt`). The circuit belongs to the model and is
shared by all calls, so a result that comes late is recorded whatever the circuit has
become since. A stream counts as a success when it starts and is billed when it ends, or
when its consumer leaves. Scopes nest to any depth: `Chain` is the walk of `preflight` and
`settle` over the parents of a scope, defined as a least set so that no recursive operator
is needed.

### PluginMounts
`Load` takes the snapshot of owners; `Imported` joins the chain of the mount lock;
`Mount` binds, and awaits the observers it owes a notification (`Mounted`,
`MountFails`) before it counts its references and frees the lock; `Commit` and
`CommitFails` are `commitSurfaces`. A teardown (`Uninstall`, or after `CommitFails`)
drops its references first, awaits the observers' stop and unbinds then (`Retract`).
`MoveTo` and `Arrive` are the two ends of each of the application's passes. A plugin's
key stands for all it binds for itself: its component's binding, which
`Application.component` adds before it runs the constructor, and the contributions that
follow, which are not told apart. What it nests are the `Shared` components.

Three error paths leave something behind, and the model keeps what they leave:

* `MountThrows`: `app.component()` throws, in the constructor of the plugin's component or
  of one it nests, or while it adds what they contribute. What it has bound by then stays, since the mount
  is refused before there is a diff to roll back (`mount.ts:304`). The plugin is then
  `broken`, and its key and the components it came to are `Debris`.
* `MountFails`: an observer fails and the mount is rolled back, its bindings too; the stop
  of those already started may fail as well, and leave some of them running (`unstopped`).
* `Retract`: the stop of a teardown fails in one group, which ends the pass
  (`lifecycle-registry.ts:275`); any of the others may still run, and all are unbound. The
  model takes any subset for those that were not stopped, since groups may be in any order.

`ready`, `running` and `late` say which observers have had their init, which run, and
which were bound while a pass was under way or the application was stopped: nobody owes
those an init (`mount.ts:376`).

The lock covers mounts only. `Disciplined` says whether callers wait for one kind of
operation (mounts, teardowns, the application's own passes) to end before they begin
one of another kind; operations of the same kind overlap as they please. The passing
run assumes it, because the code leaves it to them. With `FALSE`, a teardown that awaits
an observer unbinds a shared component that a mount has counted meanwhile
(`SharedStaysBound`), and a mount that still initializes its observer while the
application starts, and then rolls back, leaves that observer started and unbound
(`ObserversFollowTheApplication`). `RetractionIsComplete` does not depend on it.

`allowOverride`, and the snapshots of section 5, let one plugin take the key of another,
and single uninstalls may come in any order: when the overridden plugin goes first, the
other's uninstall later restores the binding of a plugin that is gone. The batch of
`loadPlugins` retracts in reverse (`plugin/src/types.ts:69`) and does not meet this.
`RetractionIsComplete` therefore speaks of the keys that no plugin took from another
(`Overridden`), and `ObserversFollowTheApplication` leaves such plugins out; the run has two
plugins that bind one key, which is also the application's.

### ResumableStream
The server's stream (`seq`, `oldest`, `sink`, `pump`, ...) and the client's
connections `1..current`. `wire[c]` are frames written and not read; `Lose` takes them.
The server learns of a loss later (`Notice`), and resumes reach the stream some time
after they were sent and in any order (`asked`), with the `Last-Event-ID` they carried.
`CanResume`, `Missed` and `Attach` are the code's check, replay and replacement;
`Push` into a lost connection reaches nobody. The first connection may be gone before
the producer's first item (`Init`).

## 3. The runs

| run | instance | what it shows |
|---|---|---|
| `event_sourced` | 3 calls whose turns return 2, 0 and 1 events, 2 requestIds, 2 commands, `DedupLimit` 1, fairness | the in-memory properties and those of the journal; implements `ActorSeat` with its journal; every call settles |
| `redis` | 2 calls with 2 and 1 events, 2 requestIds, 2 commands, stream of 1 entry, fairness | fencing, dedup, answers, journal; implements `ActorSeat`; the seat is never wedged |
| `durable_object` | 3 calls with 2, 0 and 1 events, 2 requestIds, `DedupLimit` 1, fairness | window, journal; implements `ActorSeat`; every turn settles |
| `consumers` | 2 providers, one of which may throw, 3 events in a stream of 2, 2 lives, 1 provider change | in order, at most once per life, earned cursors, nothing missed, true gap reports, at least once across restarts |
| `job_queue` | 3 jobs, 2 ids of callers, one of which the counter gives too, 2 attempts, 2 slots, fairness | the store agrees; slots and attempts are rationed; jobs end |
| `model_gateway` | 2 calls, 2 attempts, threshold 2, 1 secondary, a helper's turn in a turn in a request, budgets 1, 1 and 2, up to 2 tokens a response, fairness | bounded overshoot, cancelled calls, the circuit |
| `plugin_mounts` | 3 plugins of which 2 bind one key, 2 shared components, one key of the application's, observers on a plugin and on both components, fairness | what is shared, what is left behind, whose observers have had their init and run, that operations end |
| `resumable_stream` | 5 frames, ring of 2, high-water mark 1, 4 connections, fairness | every frame once, pacing, no stream for nobody, served to the end |
| `redis_duplicates`, `consumer_throws`, `job_aborts`, `plugin_override` | small | the disagreements of section 5 |

Deadlock checking is off throughout: every instance has finitely many calls, jobs or
events, and stops when they are used up.

**Bounds, and why they suffice.** Three calls are one to time out and linger, one to
commit meanwhile, and one to observe (or retry) afterwards: every overlap the runtimes
guard against takes two turns, and the third shows its consequence. Two requestIds with a
window of one exercise replay, mismatch, eviction and re-execution after it. In
`event_sourced` only the third call may be given another command (`OneMayDiffer`): one
that differs is what a mismatch takes. The Redis runtime has two calls, one to lose its
lease and one to take it, and is proved for any number. Turns return two and one events,
so that a duplicate or an interleaving inside one turn's events would show, and `MaxLen` 1
trims the stream at once, so that it is shorter than its numbering. Consumers need two
events to tell order, three to have one trimmed and two left; two lives for one restart;
one change for a late provider or a replaced map. Three jobs (`MaxJobs`) are the removed
one whose attempt goes on, the newcomer under its id, and a third to meet both. One
counted id (`Generated`) is enough for a caller's to meet it, before or after;
`StoreAgrees` is proved for any number of them. Two calls and a threshold of two let one
open the circuit while the other's result is late, and three failures of two attempts each
cross it; two tokens (`MaxTokens`) let one response pass a budget of one and meet one of
two. Three scopes are the least in which a scope has one around it that is neither its own
parent nor without one. Three plugins with two components chained (p and q share one, q
and r the other) give a component whose binder leaves first. Five frames (`MaxFrames`) and
a ring of two let a client fall behind the ring and come back within it; four connections
(`MaxConnections`) are two losses before and one after a replay.

**Fairness.** In process (`ESFairSpec`, whose turns are the in-memory ones): weak
fairness of `Start` (a resolved promise continues), `Expire` (an armed timer fires)
and `Settle` (the code after the race), and none of user code, so `EveryCallSettles`
holds although `initialState` and `receive` may never return. It relies on a deadline
being armed, as it is for every turn: `resolveDeadlineMs` defaults it and refuses
anything but a positive number. Redis: weak fairness of the renewal cap (an interval
timer that counts to `maxRenewals`) and of the lapse of a lease nobody renews (the
`PX` of the key), and of nothing else: no script, reply or release need ever arrive
for `SeatIsNeverWedged`. A waiting caller has no such guarantee: callers poll, and
one may be overtaken until its `acquireTimeoutMs`. Durable Objects: a resolved promise
continues, an armed timer fires and a storage call returns or fails; none of user
code. Jobs: the pump polls, backoffs elapse and a deadline that was set fires; no
handler need return. Gateway: time goes by and a backoff ends; no provider need ever
answer, which is what `NeverWedged` is about. Plugins: imports, observers and surface
refreshes end; whoever calls, need not. Streams: timers fire, requests arrive, a live
client reads and a loss is noticed in the end. The producer may hang: only
`ReadersAreServed` speaks of one that goes on, and says so.

## 4. The properties and the proofs

**In memory** (proved for all constants, and checked in the run of the journaling
runtime, whose behaviours are in-memory behaviours): `OneTurnAtATime`,
`SubmissionOrder`, `NoLostUpdate` (the stored state is exactly what the committed
turns made of it, whatever abandoned turns and late loads do), `AtMostOncePerWindow`
(a requestId is not applied again until `dedupLimit` other commits), `AnswersAreTrue`
(a success names a commit of the same request and command, an error is never applied
later). `EveryCallSettles` is checked only.

None is inductive as it stands. `IInv` adds five conjuncts:

* `MailboxInv`: the mailbox is the order of submission. Each call waits for the one
  submitted before it unless that one is done; `tail` is the last of them or, once
  that is done, absent; and whoever is past its wait has only finished calls before
  it. This gives `OneTurnAtATime` and, with `FrameInv`, the order of commits.
* `FrameInv`: a turn whose guard is still down has its own frame waiting for it. So
  a turn that may commit is *the* running turn.
* `RecordInv`: such a turn, once it is receiving, still has the newest state and its
  request is still unknown. This is what makes reading the state before `await
  receive` and writing it after sound, and it is what fails without the guard.
* `WindowInv`: `results` is the window of the last `dedupLimit` commits.
* `AnswerInv`: a commit's own outcome names it, and successes point into `applied`.

`ActorRuntimeProofs` proves `Init => IInv`, that each conjunct is preserved by each
action given type correctness and the others, and derives the properties. Its
assumptions are those of the module: `DedupLimit` is a positive natural and `NoCall`
is not a call. The sets of calls, requests and commands may be infinite.

**Journal** (proved): `JournalIsDense` (an entry's seq is its position for ever) and
`JournalAppends` (append-only); proved and checked: `MarkersAreFailedTurns` (never both
committed and recorded as failed, one marker at most). The strengthening adds
to `IInv` that markers and events name settled and committed calls respectively.
Proved and checked: `JournalMatchesState` (exactly the events of the committed turns, side
by side and in commit order), which needs to know that a turn that is to commit has put
nothing into the log yet; and `ImplementsJournaledSeat`, by one step for each action.
Under the mapping the seat's dedup records are those that are kept: `RecordedIsLatest`
says that a kept record is of the last commit of its request, `EvictKeepsNewest` that what
`Evict` drops is a `Forget` of the seat, and `Fates` which outcomes go with which phase,
so that a marker meets a call that has failed for good. `TimeoutsAreRecorded` (a turn
that got past the load of its identity and missed its deadline has its marker by the time
the seat is free) is proved from `RefusedInv`: a turn
the clock refused at its commit had been handed a record, and the record is still there.
Checked only: `EveryCallSettles`.

**Redis** (proved for all constants, and checked without re-sent scripts):
`NoLostUpdate`;
`AtMostOnceUntilExpiry` (a requestId applies again only after the dedup hash expired
in between); `AnswersAreFinal` (a success names a commit of the same request and
command; after a missed deadline or a busy seat, no commit of that call exists or can
still arrive); `JournalIsASuffix` (the stream is the end of a densely numbered
journal, whatever is trimmed). All hold with and without re-sent scripts, with one
difference: `ActorLeaseLostError` is final only without them, since the second run of
a commit may be refused after the first was made.

The common reason is the token check, which `IInv` spells out in four conjuncts:

* `ScriptInv`: only a call that is past its turn has a commit on the wire; unless
  scripts are sent again, a commit on the wire has not run.
* `FencingInv`: while a call *holds the lease*, its lookup still stands and what it
  has read is the newest state. Whoever does not hold it may be as stale as it likes.
  Its commit therefore either builds on the present state under an unknown requestId,
  or writes once more what it wrote before. This is the conjunct that fails when the
  script does not compare the token.
* `DedupInv`: the hash names commits, and misses one only if it expired after it. It
  turns "the requestId is unknown" into "an expiry lies in between".
* `AnswerInv`: a call whose turn has not ended has been told nothing.

`RedisRuntimeProofs` proves each conjunct, and each property, preserved by every step
given type correctness and the others. Its assumptions are the module's: `EventsOf`
gives naturals, `MaxLen` is a natural, `Resends` a Boolean and `NoCall` not a call. The
sets of calls, requests and commands may be infinite.

Two theorems have `~Resends` as their hypothesis, since re-sent scripts break what they
say (section 5): `JournalAndCommitsAgree` (`JournalMatchesCommits`: each committed turn has
its events once and side by side) and `RedisImplementsTheSeat` (`ImplementsActorSeat`).
`ScriptsAreSentOnce` turns the hypothesis into facts about the wire: a marker on it has not
run, and a commit on it belongs to a call that has been told nothing or only that its
connection failed (`OnceInv`). With `LatestInv` (a dedup record names the
last commit of its request) each script that passes its token check is one step of the
seat, and every other step is none. Checked only: `SeatIsNeverWedged`.

**Consumers** (proved for all constants, and checked): `OnceInOrder` and
`CursorsAreEarned` for everyone; `SubscribersMissNothing` and
`SubscribersAreWarnedOfGaps` for the providers that were there when the subscription
opened and since; `AtLeastOnce` for those that always were and do not throw. What does not
hold of the others is in section 5. The induction has two halves. `LoopInv` says where the
loop is: an event is behind it, is the one it dispatches, or waits in the batch in order
(`TailInv`); nobody has been given an event ahead of its turn (`GivenInv`); and a cursor in
memory is unset, the persisted one of the start, or at most what was offered since
(`CursorInv`), which is what makes it harmless that a slow refresh puts an old map back.
`CoverInv` says that nobody is passed: each event read so far is given, lost, not owed
(below the cursor of the start) or still to come, for each subscriber (`FedInv`); the same
in terms of what the host knows, offers and cursors (`OfferedInv`), which a warning is
raised from; and since a provider that has the event was passed by nothing before it
(`BusyCovered`), has handled what it was given (`HandledInv`) and began this life with a
cursor that skipped nothing (`BaseInv`), the cursor it is about to persist skips nothing
either. `EarliestIsLeast` is the lemma about the CHOOSE in `EarliestCursor`: what the seq
filter drops before the first event, every subscriber has handled in an earlier life.
Assumed: `Throwing` is a set of providers, `Nobody` is none, the four bounds are naturals.

**Durable Objects** (proved for all constants, and checked): `AtMostOncePerWindow` holds in
storage, across lost objects, and says that the window and the entries it names never come
apart; `JournalTellsTheTurns` is density, no overwritten entry, and the fate of each turn;
`ImplementsActorSeat`. Proved beside them: one turn at a time, and no lost update. Neither
`seatTail` nor a deadline keeps the bodies of abandoned turns from running on, so the
induction goes in this order: the turns that hold or wait for the seat form a line
(`SeatInv`), hence one holds it; the one whose race is open is the one whose section may
write (`FrameInv`); hence what it has read is what is stored (`StoreInv`), the window is the
end of the commits (`WindowInv`), and each of its puts is a step of the seat. `SeatInv` has a
quantifier over sequences of calls, which TLC evaluated over bounded ones before it was
proved. Checked only: `EveryTurnSettles`, which fails only with the object.

**Jobs** (proved for all constants, and checked): `StoreAgrees`, `AttemptsAreRationed`.
The second needs that an active job has exactly one attempt among those open (`OpenOnce`,
`SlotsInv`), and `Rationed` of every job; the first needs that what is listed has been
enqueued, in the order of the jobs (`ListedInv`), so that a newcomer is the latest, and that
a job without a caller's id has one that was counted out (`CountedInv`), so that the counter,
which gives each id once, never gives two jobs the same. Assumed: the ids of `Generated` are
distinct, as `job_1`, `job_2`, ... are; nothing is assumed of which of them callers use.
Checked only: `JobsComeToAnEnd`.

**Gateway** (proved for all constants, and checked): `OvershootIsBounded` bounds a scope's
tokens by its budget and one response for each call that was under way when the latest was
admitted, in scopes nested to any depth; `CancelledCallsStayDown` is an action property
over every later step of a cancelled call, and needs no more than that each retry and each
failover looks at the signal in the step that starts it. The first needs three conjuncts:

* `StageInv`: a call belongs to the scopes it was admitted in, has an attempt left where
  it may start one, and has reported nothing before it is answered.
* `BillInv`: a scope has been billed what its calls reported: what `preflight` reads is
  what `settle` wrote, although a stream reports part by part and may be left half read.
* `BudgetInv`: tokens billed and tokens that calls under way may still be billed stay
  below the budget and one response for each call beside the latest admission. A call
  that settles moves its response from the second to the first; an admission finds the
  first below the budget and counts the others as its `beside`.

Tokens reported are the cardinality of a set of pairs of call and token, so the lemmas on
`Reported` (one call more, one part more) come from those on finite sets. Assumed:
finitely many calls, since they are counted; each scope has a parent among the scopes,
itself if it is nested in none, and a natural for its budget (`ScopesAssumption`, which
says nothing of the depth); the other bounds are naturals; `NoScope` is no scope. Checked
only: `NeverWedged`, a call would be admitted again and again whatever probes do.

**Plugins** (proved for all constants, and checked): `RetractionIsComplete`, of any callers;
`SharedStaysBound` and `ObserversFollowTheApplication`, if callers are `Disciplined`, without
which they are false (section 2). Any plugins may bind the same key. Accordingly the
induction has two layers. `IInv` holds whatever callers do:

* `LockInv`: only the first in the chain of the lock awaits its observers. So a mount
  that fails, or is counted, finds what it found when it bound.
* `CountInv`: a count is the number of mounted plugins that nest the component, and its
  entry is there only while that is not zero. `Last` in a teardown then means that its
  plugin is the only holder (`LastIsAlone`).
* `PartsInv`: a component is bound exactly while it is in an entry or claimed by one plugin
  (`Claim`): made by the mount that awaits its observers, in the hands of the teardown that
  stops them, or left by a mount that threw.
* `BindingInv`: a plugin still to be mounted is nobody's displaced binding (`FreshInv`); one
  that is inside has its key unless another took it (`OwnInv`); and a key no plugin took
  from another is its plugin's while that is inside, which remembers the original, and the
  original's before and after (`KeyInv`).

This gives `RetractionUndoesTheMount`: at rest, with nothing mounted, no counts are left,
hence no entries, hence only the claims of mounts that threw. `WithDiscipline` adds what
needs the callers' order:

* `DisciplineInv`: mounts, teardowns and passes do not meet, and a mount that notifies
  its observers still finds the state it looked at.
* `HeldInv`: what a mounted plugin nests is in an entry or debris, and so is what a mount
  that awaits its observers did not make itself.
* `RunInv` and `ReadyInv`: in a started application what runs is what is bound, but for the
  observers of the mount that is starting them and the exceptions the property names; a pass
  finds all it has collected; and what is bound and was notified has had the init it is owed.

`PluginMountsProofs` proves one lemma for each kind of change to a conjunct, and one for
each action. Its assumptions are those of the module; `Plugins` is finite, since the
references are counted. Checked only: `OperationsEnd`.

**Streams**: `EveryFrameOnce` and `ReaderPacesTheProducer` are proved for all constants and
checked; `NoReaderNoStream` and `ReadersAreServed` are checked. What
the client has read says nothing of what it will read, so `IInv` follows the frames on
their way:

* `RingInv`: nothing is ahead of the producer, neither the ring nor the client.
* `AskedInv`: the request of the latest connection names what the client has read.
* `LostInv`: all earlier connections are lost, and nothing is on a lost one; so a late
  request of an earlier connection can only write to nobody.
* `WaitingInv`: a connection whose request is not answered carries nothing.
* `WireInv`: what the latest connection carries goes on where the client stands and,
  while it is the sink's, reaches as far as the producer does. A resume restores this
  because `canResume` refuses a position whose next frame the ring has dropped.

For `ReaderPacesTheProducer`, `PaceInv` adds that a pump that asks the producer for a frame
either has room below the high-water mark, or was told so before its sink was replaced,
and then the new one holds no more than a replay.

`ResumableStreamProofs` sorts the steps by what they do to the frames (`Effects`) and
proves each kind to preserve the whole. Its assumptions are those of the module:
`MaxEvents`, `HighWater` and `MaxConnections` are positive naturals, `MaxFrames` a natural.

Each module has a type invariant (`TypeOK`), and all are proved; so is every invariant, every
action property and every refinement that a passing run checks. Every liveness property
stays with TLC, since the prover reasons neither about fairness nor about ENABLED:
`EveryCallSettles`, `SeatIsNeverWedged`, `EveryTurnSettles`, `JobsComeToAnEnd`,
`NeverWedged`, `OperationsEnd`, `NoReaderNoStream`, `ReadersAreServed`.

## 5. Where code and words disagree

Each of these is the counterexample of a violation run; `PROJECT.json` quotes the
sentence.

* `redis_duplicates`: `COMMIT_TURN` is fenced by the token but not idempotent under
  it. When the client re-sends it after a lost reply, state and dedup come out the
  same, but the events of the turn are appended twice under new seqs.
* `consumer_throws`: a consumer that throws on one event and handles the next has its
  cursor moved past the failed one, which therefore never comes back.
* `job_aborts`: a job whose entry was discarded goes on running; its id is free and is
  enqueued again; the end of the old attempt deletes the abort handle of the new one,
  which `cancel` can then no longer reach.
* `plugin_override`: two overlapping `loadPlugin` calls whose plugins bind one key both
  took their snapshot before either bound it, so the second overrides silently.

These have no run of their own; each follows from the actions named:

* Calls of one process on a Redis seat are not drained in submission order, since they
  poll for the lease (`Acquire` has no order).
* A consumer the store has never seen, plugged in while the host runs, starts at the
  shared tail and not at seq 0 (`Dispatch`, `EarliestCursor`); a returning one plugged
  in late is reported a retention gap over events that are still in the log (`Jumps`).
* The warning of a retention gap names the events between the cursor and the present one
  and says that they were never offered (`seat-journal-consumers.ts:211`). A provider that
  threw on some of them was offered those: after a throw, and a gap behind it, the range is
  too wide (`Give`). `SubscribersAreWarnedOfGaps` is therefore about the events that were
  not offered (`Unoffered`), of which the warning holds.
* Of two overlapping refreshes the older may end last and leave the newest provider
  out until the next plug or unplug (`Collected`).
* A late result that is neutral gives back the probe slot of another call, and a second
  probe runs beside it (`RecordNeutral`), although `breaker.ts:78` speaks of one.
* A job that asked to be removed at its end is removed by id, and takes with it a newer
  job that was accepted under the same id meanwhile (`End`).
* A resume of an earlier connection that is dispatched late replaces the live reader,
  which is then neither fed nor closed (`Resume`); the premise of `ReadersAreServed`
  excludes it.
* An id the store counts out may be one a caller has used, and a caller's one the store has
  counted out: the generated one is neither looked up in `seenJobIds` nor added to it
  (`in-memory-job-queue.ts:56-60`). Two listed jobs then have one id, `byId` leads to the
  later, so that `cancel` cannot reach the other, and one removal takes both
  (`EnqueueUnnamed`, `Remove`).
* `mount.ts:178` says that a rejected mount "leaves nothing behind", but one whose
  `app.component()` throws is refused before there is anything to roll back, and leaves what
  it had bound (`MountThrows`). No teardown ever takes it away; a plugin mounted later that
  nests such a component finds it bound, counts it without recording it, and leaves it.
* A stop that fails ends its pass, and the teardown unbinds all the same: observers of later
  groups run on, bound nowhere, until the process ends (`Retract`, `MountFails`).
* `mount.ts:376` says of a mount in any state but `started` and `initialized` that "the normal
  passes have yet to run". Into a stopped application that is half true: the next `start`
  starts its observers, and nobody has initialized them (`late`).
* Teardown outside the mount lock, and single uninstalls of a plugin that was overridden
  (section 2, `PluginMounts`).

Each passing run's properties have been tried against mutants, definitions changed
the way a plausible bug would change the code; they stand beside the definition they
replace, marked "Mutant of".

## 6. What is not modelled, and the plan

Left out of the modelled components: `state()`, `history()` and other pure reads;
in-process subscribers (called in the commit's own synchronous step; nested invokes
between seats, which can wait for each other until a deadline, need a module of
their own); the discovery index; `stop()` and `close()` of the consumer host, where a `sync` that
awaits a refresh opens its subscription after the host was stopped; the
partial execution of a Lua script; alarms of Durable Objects; repeatable jobs and the
in-memory event bus, and a `jobId` that is the empty string; calls made
outside any scope, scopes without a budget, and those created with tokens already spent;
usage rows and pricing of the gateway; `loadPlugins` (a batch in
dependency order), the gate that keeps a plugin others need from being retracted, and
observers that fail in the application's own passes, which leave it in
the middle of the pass. Data is abstracted: commands are
told apart by their fingerprint, results and states by the calls that computed them,
frames by their number, errors by what the policies do with them.

Not modelled at all, and why:

* MCP and REST dispatch, routing, schema generation, decorators, clients, explorers,
  CLIs and code generation make up most of the source. They transform metadata or one
  request and share no state between requests; unit tests reach them.
* Dependency injection resolves sequentially; its one concurrent corner, the cache of
  `ContextView`, is planned.
* BullMQ, S3, oauth and payment adapters keep their protocol in code that is not in
  the repository.

Planned, in order of importance:

1. `IdempotencyStore` and `SeatKeys`: a late failure that deletes another's entry;
   claim and one-time custody export.
2. `ContextView`: a refresh during a resolution.
3. `EventDelivery`, with an abstract specification of what a receiver is promised.

Modules to be proved about keep their parameters as constants with named
assumptions, one action per operation, invariants as conjunctions of named parts and
no RECURSIVE operator. Abstract specifications come before their implementations.
