---------------------------- MODULE JournalConsumers ----------------------------
(***************************************************************************)
(* Delivery of one identity's journal to the consumers plugged into a      *)
(* host: RedisJournalSubscription, the tail loop that reads the stream,    *)
(* and SeatJournalConsumerHost, which fans each event out to the providers *)
(* of seat.journal.consumer and keeps a persisted cursor for each.         *)
(*                                                                         *)
(* A cursor that stands at seq n - 1 in the code is n here, the first seq  *)
(* it does not cover, and 0 is a cursor that is not set.  The same goes    *)
(* for a read position.                                                    *)
(*                                                                         *)
(* The refresh listener of a started host re-reads its providers at once,  *)
(* so `stale` is never found true by `deliver` and has no variable here.   *)
(***************************************************************************)
EXTENDS Naturals, Sequences, FiniteSets

CONSTANTS
  Providers,  \* consumer ids
  Throwing,   \* the providers whose consume may throw
  Nobody,     \* not a provider
  MaxLen,     \* journal.maxEventsPerIdentity, 0 when unset
  MaxEvents,  \* bound: entries ever committed
  MaxLives,   \* bound: processes that run the host, one after another
  MaxChanges  \* bound: providers plugged or unplugged while the host runs

ASSUME ThrowingAssumption == Throwing \subseteq Providers /\ Nobody \notin Providers
ASSUME BoundsAssumption == {MaxLen, MaxEvents, MaxLives, MaxChanges} \subseteq Nat

VARIABLES
  (* Redis *)
  next,       \* the seq counter
  floor,      \* the oldest seq the stream retains
  store,      \* the persisted cursor of each provider
  (* the host's process *)
  up, lives, changes,
  bound,      \* the providers the view holds
  jobs,       \* calls of sync in progress
  providers,  \* this.providers
  loaded,     \* the providers this.cursors has a map for
  cursor,     \* this.cursors
  offered,    \* this.offered
  (* its subscription *)
  subscribed,
  delivered,  \* the seq cursor of the tail loop
  position,   \* its read position
  batch,      \* the seqs it has read and not yet offered
  event,      \* the seq deliver is dispatching, or NoEvent
  queue,      \* the providers it has not reached
  busy,       \* the provider that has it, or Nobody
  step,       \* what busy awaits: its handler or the write of its cursor
  orphaned,   \* its map has been replaced in this.cursors meanwhile
  (* history *)
  handled,    \* the seqs each provider has handled, ever
  given,      \* the seqs each provider was given in this life
  gap,        \* the seqs that were trimmed before this life could read them
  tailed,     \* the first seq this life has not read
  base,       \* store when this life began
  fed,        \* the providers there at subscription and ever since
  warnings,   \* the retention gaps reported
  late        \* the providers ever given an event while not in fed

redis == <<next, floor, store>>
host == <<bound, jobs, providers, loaded, cursor, offered>>
tail == <<subscribed, delivered, position, batch>>
dispatch == <<event, queue, busy, step, orphaned>>
process == <<up, lives, changes>>
told == <<handled, given, warnings, late>>
read == <<gap, tailed>>
vars == <<redis, host, tail, dispatch, process, told, read, base, fed>>

NoEvent == MaxEvents
NoRead == [provider |-> Nobody, cursor |-> 0]
Job(id, list) == [id |-> id, collected |-> FALSE, todo |-> list, reading |-> NoRead]

Init ==
  /\ next = 0 /\ floor = 0
  /\ store = [p \in Providers |-> 0]
  /\ up = FALSE /\ lives = 0 /\ changes = 0
  /\ bound = {} /\ jobs = {} /\ providers = {} /\ loaded = {}
  /\ cursor = [p \in Providers |-> 0]
  /\ offered = [p \in Providers |-> 0]
  /\ subscribed = FALSE /\ delivered = 0 /\ position = 0 /\ batch = {}
  /\ event = NoEvent /\ queue = {} /\ busy = Nobody /\ step = "none"
  /\ orphaned = FALSE
  /\ handled = [p \in Providers |-> {}]
  /\ given = [p \in Providers |-> <<>>]
  /\ gap = {} /\ tailed = 0 /\ fed = {} /\ warnings = {} /\ late = {}
  /\ base = [p \in Providers |-> 0]

-----------------------------------------------------------------------------
(* Redis and the process *)

\* A turn commits an event; the stream keeps its last MaxLen entries.
CommitEvent ==
  /\ next < MaxEvents
  /\ next' = next + 1
  /\ floor' = IF MaxLen > 0 /\ next + 1 > floor + MaxLen THEN floor + 1 ELSE floor
  /\ UNCHANGED <<store, host, tail, dispatch, process, told, read, base, fed>>

\* A process starts the host with some providers bound: start() calls sync.
Boot ==
  /\ ~up /\ lives < MaxLives
  /\ up' = TRUE /\ lives' = lives + 1
  /\ bound' \in SUBSET Providers
  /\ jobs' = {Job(0, bound')}
  /\ base' = store
  /\ UNCHANGED <<redis, changes, providers, loaded, cursor, offered, tail,
                 dispatch, told, read, fed>>

\* The process dies and takes everything but Redis with it.
Crash ==
  /\ up
  /\ up' = FALSE
  /\ bound' = {} /\ jobs' = {} /\ providers' = {} /\ loaded' = {}
  /\ cursor' = [p \in Providers |-> 0]
  /\ offered' = [p \in Providers |-> 0]
  /\ subscribed' = FALSE /\ delivered' = 0 /\ position' = 0 /\ batch' = {}
  /\ event' = NoEvent /\ queue' = {} /\ busy' = Nobody /\ step' = "none"
  /\ orphaned' = FALSE
  /\ given' = [p \in Providers |-> <<>>]
  /\ gap' = {} /\ tailed' = 0 /\ fed' = {}
  /\ UNCHANGED <<redis, lives, changes, handled, warnings, late, base>>

-----------------------------------------------------------------------------
(* The provider list *)

\* A provider is plugged or unplugged: the view's refresh event calls sync, whose
\* refresh starts from the bindings of this moment.
Change(p) ==
  /\ up /\ changes < MaxChanges
  /\ changes' = changes + 1
  /\ bound' = IF p \in bound THEN bound \ {p} ELSE bound \cup {p}
  /\ jobs' = jobs \cup {Job(changes + 1, bound')}
  /\ UNCHANGED <<redis, up, lives, providers, loaded, cursor, offered, tail,
                 dispatch, told, read, base, fed>>

Replace(job, new) == jobs' = (jobs \ {job}) \cup {new}

\* collectValidatedExtensions has resolved the last binding of its list.  One that
\* has been unbound before its turn came does not resolve.
Collected(job) ==
  /\ job \in jobs /\ ~job.collected
  /\ \E list \in SUBSET job.todo :
       /\ job.todo \cap bound \subseteq list
       /\ Replace(job, [job EXCEPT !.collected = TRUE, !.todo = list])
       /\ providers' = list
       /\ fed' = fed \cap list
  /\ UNCHANGED <<redis, bound, loaded, cursor, offered, tail, dispatch, process,
                 told, read, base>>

\* HGETALL for a provider without a map; a read that fails reads no cursors.
ReadCursors(job, p) ==
  /\ job \in jobs /\ job.collected /\ job.reading = NoRead
  /\ p \in job.todo \ loaded
  /\ \E n \in {0, store[p]} :
       Replace(job, [job EXCEPT !.reading = [provider |-> p, cursor |-> n]])
  /\ UNCHANGED <<redis, bound, providers, loaded, cursor, offered, tail, dispatch,
                 process, told, read, base, fed>>

\* What was read becomes the provider's map, whether or not it has got one since.
StoreCursors(job) ==
  /\ job \in jobs /\ job.reading # NoRead
  /\ LET p == job.reading.provider IN
       /\ cursor' = [cursor EXCEPT ![p] = job.reading.cursor]
       /\ loaded' = loaded \cup {p}
       /\ orphaned' = (orphaned \/ busy = p)
       /\ Replace(job, [job EXCEPT !.reading = NoRead, !.todo = @ \ {p}])
  /\ UNCHANGED <<redis, bound, providers, offered, tail, event, queue, busy, step,
                 process, told, read, base, fed>>

\* The rest of sync: open the one subscription when there is someone to feed.
Synced(job) ==
  /\ job \in jobs /\ job.collected /\ job.reading = NoRead
  /\ job.todo \subseteq loaded
  /\ jobs' = jobs \ {job}
  /\ IF providers # {} /\ ~subscribed
     THEN subscribed' = TRUE /\ fed' = providers
     ELSE UNCHANGED <<subscribed, fed>>
  /\ UNCHANGED <<redis, bound, providers, loaded, cursor, offered, delivered,
                 position, batch, dispatch, process, told, read, base>>

-----------------------------------------------------------------------------
(* The tail loop *)

Idle == subscribed /\ event = NoEvent

\* XRANGE from the start when there is no read position, XREAD from it otherwise.
Read ==
  /\ Idle /\ batch = {}
  /\ batch' = {s \in floor..(next - 1) : s >= position}
  /\ position' = next
  /\ tailed' = next
  /\ gap' = gap \cup {s \in 0..next : tailed <= s /\ s < floor}
  /\ UNCHANGED <<redis, host, subscribed, delivered, dispatch, process, told, base, fed>>

\* Mutant of ReadFails: the seq cursor goes with the read position.
ReadFailsForgetful ==
  /\ Idle /\ batch = {}
  /\ position' = 0 /\ delivered' = 0
  /\ UNCHANGED <<redis, host, subscribed, batch, dispatch, process, told, read,
                 base, fed>>

\* A read fails: the loop drops its read position and replays by seq.
ReadFails ==
  /\ Idle /\ batch = {} /\ position # 0
  /\ position' = 0
  /\ UNCHANGED <<redis, host, subscribed, delivered, batch, dispatch, process,
                 told, read, base, fed>>

\* Mutant of EarliestCursor: the highest cursor.
LatestCursor ==
  LET unset == \E p \in providers : cursor[p] = 0
  IN IF unset \/ providers = {} THEN 0
     ELSE CHOOSE n \in {cursor[p] : p \in providers} :
            \A p \in providers : cursor[p] <= n

\* since: the lowest cursor across providers, unset when one of them has none.
EarliestCursor ==
  IF providers = {} THEN 0
  ELSE CHOOSE n \in {cursor[p] : p \in providers} :
         \A p \in providers : n <= cursor[p]

\* Where the tail loop starts: its own cursor, or what `since` says when it has none.
From == IF delivered = 0 THEN EarliestCursor ELSE delivered

\* offer: the next entry read goes to deliver unless the seq cursor covers it.
Offer ==
  /\ Idle
  /\ \E s \in batch :
       /\ \A t \in batch : s <= t
       /\ batch' = batch \ {s}
       /\ IF s < From
          THEN UNCHANGED <<event, queue>>
          ELSE event' = s /\ queue' = providers
  /\ UNCHANGED <<redis, host, subscribed, delivered, position, busy, step, orphaned,
                 process, told, read, base, fed>>

\* deliver has returned.
Delivered ==
  /\ event # NoEvent /\ queue = {} /\ busy = Nobody
  /\ delivered' = event + 1
  /\ event' = NoEvent
  /\ UNCHANGED <<redis, host, subscribed, position, batch, queue, busy, step,
                 orphaned, process, told, read, base, fed>>

-----------------------------------------------------------------------------
(* deliver, for one provider after another *)

Covered(p) == event < cursor[p]

\* The warning's condition: a jump past the cursor over events never offered.
Jumps(p) == cursor[p] # 0 /\ event > cursor[p] /\ offered[p] < event

\* The events a warning is about.
Unoffered(p) == {s \in 0 .. event : s < event /\ cursor[p] <= s /\ offered[p] <= s}

Give(p) ==
  /\ busy = Nobody
  /\ p \in queue
  /\ queue' = queue \ {p}
  /\ loaded' = loaded \cup {p}
  /\ IF Covered(p)
     THEN UNCHANGED <<busy, step, given, warnings, late>>
     ELSE /\ busy' = p /\ step' = "handling"
          /\ given' = [given EXCEPT ![p] = Append(@, event)]
          /\ warnings' = IF Jumps(p)
                         THEN warnings \cup {[steady |-> p \in fed, lost |-> Unoffered(p),
                                              gap |-> gap]}
                         ELSE warnings
          /\ late' = IF p \in fed THEN late ELSE late \cup {p}
  /\ UNCHANGED <<redis, bound, jobs, providers, cursor, tail, event, orphaned,
                 process, handled, read, base, fed>>

\* Mutant of Dispatch: what was offered is not recorded.
DispatchUntracked(p) == Give(p) /\ UNCHANGED offered

\* Up to `await provider.consume(event)`, or to the filter's return.
Dispatch(p) ==
  /\ Give(p)
  /\ offered' = [offered EXCEPT ![p] = event + 1]

\* consume has returned: the cursor moves in the map taken before the await, and
\* its write is sent.
ConsumeReturns ==
  /\ step = "handling"
  /\ step' = "writing"
  /\ handled' = [handled EXCEPT ![busy] = @ \cup {event}]
  /\ cursor' = IF orphaned THEN cursor ELSE [cursor EXCEPT ![busy] = event + 1]
  /\ UNCHANGED <<redis, bound, jobs, providers, loaded, offered, tail, event, queue,
                 busy, orphaned, process, given, warnings, late, read, base, fed>>

NextProvider == busy' = Nobody /\ step' = "none" /\ orphaned' = FALSE

\* Mutant of ConsumeThrows: the cursor is written in a finally.
ThrowAdvances ==
  /\ step = "handling" /\ busy \in Throwing
  /\ NextProvider
  /\ store' = [store EXCEPT ![busy] = event + 1]
  /\ UNCHANGED <<next, floor, host, tail, event, queue, process, told, read, base, fed>>

\* consume throws: skip and log, the cursor stays.
ConsumeThrows ==
  /\ step = "handling" /\ busy \in Throwing
  /\ NextProvider
  /\ UNCHANGED <<redis, host, tail, event, queue, process, told, read, base, fed>>

\* persistCursor returns, having written or, for an error it swallows, not.
Persist ==
  /\ step = "writing"
  /\ NextProvider
  /\ \/ store' = [store EXCEPT ![busy] = event + 1]
     \/ UNCHANGED store
  /\ UNCHANGED <<next, floor, host, tail, event, queue, process, told, read, base, fed>>

-----------------------------------------------------------------------------
Next ==
  \/ CommitEvent \/ Boot \/ Crash
  \/ \E p \in Providers : Change(p) \/ Dispatch(p)
  \/ \E job \in jobs :
       \/ Collected(job) \/ StoreCursors(job) \/ Synced(job)
       \/ \E p \in Providers : ReadCursors(job, p)
  \/ Read \/ ReadFails \/ Offer \/ Delivered
  \/ ConsumeReturns \/ ConsumeThrows \/ Persist

Spec == Init /\ [][Next]_vars

-----------------------------------------------------------------------------
(* Properties *)

Seqs == 0..(MaxEvents - 1)
Positions == 0..MaxEvents

TypeOK ==
  /\ next \in Positions /\ floor \in Positions /\ floor <= next
  /\ store \in [Providers -> Positions]
  /\ up \in BOOLEAN /\ lives \in Nat /\ changes \in Nat
  /\ bound \subseteq Providers /\ providers \subseteq Providers
  /\ loaded \subseteq Providers
  /\ \A job \in jobs : job.todo \subseteq Providers /\ job.collected \in BOOLEAN
  /\ cursor \in [Providers -> Positions]
  /\ offered \in [Providers -> Positions]
  /\ subscribed \in BOOLEAN /\ delivered \in Positions /\ position \in Positions
  /\ batch \subseteq Seqs /\ event \in Seqs \cup {NoEvent}
  /\ queue \subseteq Providers /\ busy \in Providers \cup {Nobody}
  /\ step \in {"none", "handling", "writing"} /\ orphaned \in BOOLEAN
  /\ handled \in [Providers -> SUBSET Seqs]
  /\ given \in [Providers -> Seq(Seqs)]
  /\ tailed \in Positions /\ gap \subseteq Seqs /\ fed \subseteq Providers
  /\ late \subseteq Providers
  /\ base \in [Providers -> Positions]

IsGiven(p, s) == \E i \in DOMAIN given[p] : given[p][i] = s

\* In one life a provider is given each event at most once and in order, whatever
\* reads fail and are replayed and however its cursor map is replaced.
OnceInOrder ==
  \A p \in Providers : \A i, j \in DOMAIN given[p] : i < j => given[p][i] < given[p][j]

\* A persisted cursor stands at an event its provider has handled.
CursorsAreEarned ==
  \A p \in Providers : store[p] # 0 => (store[p] - 1) \in handled[p]

\* A provider that was there when the subscription opened is given every event from
\* its persisted cursor on that the stream still held, across failed reads,
\* siblings that throw and others that come and go.
SubscribersMissNothing ==
  \A p \in fed, s \in Seqs :
    (base[p] <= s /\ s < delivered) => IsGiven(p, s) \/ s \in gap

\* A provider that was there when the subscription opened is reported a retention
\* gap only when it was passed by events it has not been offered, and then all of them
\* had left the log: not when it merely threw.
SubscribersAreWarnedOfGaps ==
  \A w \in warnings : w.steady => w.lost # {} /\ w.lost \subseteq w.gap

\* At least once: the persisted cursor of a provider that has always been there and
\* does not throw covers no event it has neither handled nor lost to retention,
\* whatever its siblings do.
NotSkipped(p) ==
  \A s \in Seqs : s < store[p] => s \in handled[p] \/ s < floor

AtLeastOnce == \A p \in Providers \ (Throwing \cup late) : NotSkipped(p)
=============================================================================
