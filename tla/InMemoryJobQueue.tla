---------------------------- MODULE InMemoryJobQueue ----------------------------
(***************************************************************************)
(* One queue of InMemoryJobQueue with its worker, the store it shares with *)
(* InMemoryQueueAdmin, and the abort handles of JobDeadlines.              *)
(*                                                                         *)
(* Everything between two awaits is one action.  A job is an object; its   *)
(* id is the caller's or one the store counts out, and only the caller's   *)
(* are deduplicated: two listed jobs have one id when a caller chose what  *)
(* the store had counted, or is about to.  Once an object has left the     *)
(* store its id may be given to another while an attempt of the first      *)
(* still runs.  An attempt is open until its race settles: a handler       *)
(* abandoned by then runs on, with nobody reading its result.              *)
(***************************************************************************)
EXTENDS Naturals, Sequences

CONSTANTS
  MaxJobs,      \* how many jobs are enqueued (a bound)
  Ids,          \* jobIds
  Generated,    \* the ids the counter gives, in order; as many as are needed (a bound)
  Attempts,     \* opts.attempts
  Concurrency,  \* opts.concurrency of the worker
  Discarding,   \* the sets of end states in which jobs may ask to be removed
  NoJob         \* not a job

Jobs == 1 .. MaxJobs

ASSUME MaxJobsAssumption == MaxJobs \in Nat
ASSUME GeneratedAssumption ==
  /\ Generated \in Seq(Ids)
  /\ \A m, n \in 1 .. Len(Generated) : Generated[m] = Generated[n] => m = n
ASSUME AttemptsAssumption == Attempts \in Nat \ {0}
ASSUME ConcurrencyAssumption == Concurrency \in Nat \ {0}
ASSUME DiscardingAssumption == Discarding \subseteq SUBSET {"completed", "failed"}
ASSUME NoJobAssumption == NoJob \notin Nat

VARIABLES
  (* the job objects *)
  status,    \* job.state, or "none" before the job is enqueued
  id,        \* job.id
  given,     \* the jobs whose caller gave opts.jobId
  attempt,   \* job.attempt
  due,       \* job.availableAt has come
  discards,  \* the end states in which its options remove it
  (* the store *)
  list,      \* the jobs of the queue; their numbers are their order of arrival
  byId,      \* job by id
  seen,      \* seenJobIds
  counter,   \* of the ids counted out
  paused,
  (* the worker *)
  open,      \* the jobs whose attempt is open, in the order they started
  active,    \* the slots taken
  live,      \* JobDeadlines.live: whose AbortController an id leads to
  closed,
  (* history *)
  abandoned  \* the jobs an attempt of which was abandoned

names == <<id, given, counter>>
objects == <<status, names, attempt, due, discards, abandoned>>
store == <<list, byId, seen>>
attempts == <<open, active, live>>
vars == <<objects, store, paused, attempts, closed>>

Statuses == {"none", "waiting", "delayed", "active", "completed", "failed"}

Init ==
  /\ status = [j \in Jobs |-> "none"]
  /\ id = [j \in Jobs |-> NoJob]
  /\ given = {}
  /\ attempt = [j \in Jobs |-> 0]
  /\ due = [j \in Jobs |-> FALSE]
  /\ discards = [j \in Jobs |-> {}]
  /\ list = {}
  /\ byId = [i \in Ids |-> NoJob]
  /\ seen = {}
  /\ counter = 0
  /\ paused = FALSE
  /\ open = <<>>
  /\ active = 0
  /\ live = [i \in Ids |-> NoJob]
  /\ closed = FALSE
  /\ abandoned = {}

IsOpen(j) == \E n \in DOMAIN open : open[n] = j

\* Mutant of Remove: the dedup key stays behind.
RemoveKeepsKey(I) ==
  /\ list' = {j \in list : id[j] \notin I}
  /\ byId' = [i \in Ids |-> IF i \in I THEN NoJob ELSE byId[i]]
  /\ UNCHANGED seen

\* store.remove of each of the ids: whichever jobs carry them leave.
Remove(I) ==
  /\ list' = {j \in list : id[j] \notin I}
  /\ byId' = [i \in Ids |-> IF i \in I THEN NoJob ELSE byId[i]]
  /\ seen' = seen \ I

-----------------------------------------------------------------------------
(* The callers *)

\* A new job goes to the end of the list, and its id leads to it and to no other.
Add(j, i, delayed, ends) ==
  /\ status[j] = "none"
  /\ \A k \in Jobs : k < j => status[k] # "none"
  /\ status' = [status EXCEPT ![j] = IF delayed THEN "delayed" ELSE "waiting"]
  /\ id' = [id EXCEPT ![j] = i]
  /\ due' = [due EXCEPT ![j] = ~delayed]
  /\ discards' = [discards EXCEPT ![j] = ends]
  /\ list' = list \cup {j}
  /\ byId' = [byId EXCEPT ![i] = j]
  /\ UNCHANGED <<attempt, abandoned, paused, attempts, closed>>

\* A jobId in seenJobIds is a no-op; any other makes a job, and is seen.
Enqueue(j, i, delayed, ends) ==
  /\ i \notin seen
  /\ Add(j, i, delayed, ends)
  /\ given' = given \cup {j}
  /\ seen' = seen \cup {i}
  /\ UNCHANGED counter

\* Without opts.jobId the counter names the job, whoever has that id already.
EnqueueUnnamed(j, delayed, ends) ==
  /\ counter < Len(Generated)
  /\ Add(j, Generated[counter + 1], delayed, ends)
  /\ counter' = counter + 1
  /\ UNCHANGED <<given, seen>>

IsQueued(j) == status[j] \in {"waiting", "delayed"}

\* cancel of a job that has not started.
CancelQueued(i) ==
  /\ byId[i] # NoJob
  /\ IsQueued(byId[i])
  /\ Remove({i})
  /\ UNCHANGED <<objects, paused, attempts, closed>>

\* InMemoryQueueAdmin.drain.
Drain ==
  /\ Remove({id[j] : j \in {k \in list : IsQueued(k)}})
  /\ UNCHANGED <<objects, paused, attempts, closed>>

\* discardStalled: the active jobs of the list that started before the cutoff.
DiscardStalled(n) ==
  /\ n \in DOMAIN open
  /\ Remove({id[open[m]] : m \in {k \in 1 .. n : open[k] \in list}})
  /\ UNCHANGED <<objects, paused, attempts, closed>>

SetPaused(p) == paused' = p /\ UNCHANGED <<objects, store, attempts, closed>>

\* The worker's subscription is closed: attempts in progress go on, no other starts.
Close ==
  /\ ~closed
  /\ closed' = TRUE
  /\ UNCHANGED <<objects, store, paused, attempts>>

\* delayMs, or the backoff of a retry, has passed.
Elapse(j) ==
  /\ IsQueued(j) /\ ~due[j]
  /\ due' = [due EXCEPT ![j] = TRUE]
  /\ UNCHANGED <<status, names, attempt, discards, abandoned, store, paused,
                 attempts, closed>>

-----------------------------------------------------------------------------
(* The worker *)

IsReady(j) == IsQueued(j) /\ due[j]

\* What the pump finds: the first ready job of the list.
IsNext(j) ==
  /\ j \in list
  /\ IsReady(j)
  /\ \A k \in list : k < j => ~IsReady(k)

\* Mutant of MayStart: the pump takes one more than its slots.
MayStartOneMore == ~closed /\ ~paused /\ active <= Concurrency

MayStart == ~closed /\ ~paused /\ active < Concurrency

\* runOne as far as the call of the handler.
Start(j) ==
  /\ MayStart
  /\ IsNext(j)
  /\ status' = [status EXCEPT ![j] = "active"]
  /\ active' = active + 1
  /\ open' = Append(open, j)
  /\ live' = [live EXCEPT ![id[j]] = j]
  /\ UNCHANGED <<names, attempt, due, discards, abandoned, store, paused, closed>>

Retry(j) ==
  /\ status' = [status EXCEPT ![j] = "waiting"]
  /\ due' = [due EXCEPT ![j] = FALSE]
  /\ UNCHANGED store

\* The job has ended for good.
End(j, how) ==
  /\ status' = [status EXCEPT ![j] = how]
  /\ IF how \in discards[j] THEN Remove({id[j]}) ELSE UNCHANGED store
  /\ UNCHANGED due

Tries(j) == attempt' = [attempt EXCEPT ![j] = @ + 1]
RetryOrFail(j) == IF attempt[j] + 1 < Attempts THEN Retry(j) ELSE End(j, "failed")

\* The payload does not parse, before there is an abort handle or a slot to lose.
StartFails(j) ==
  /\ MayStart
  /\ IsNext(j)
  /\ Tries(j)
  /\ RetryOrFail(j)
  /\ UNCHANGED <<names, discards, abandoned, paused, attempts, closed>>

\* The open attempts without that of a job, which has one.
OpenWithout(j) ==
  LET at == CHOOSE n \in DOMAIN open : open[n] = j
  IN  [n \in 1 .. Len(open) - 1 |-> IF n < at THEN open[n] ELSE open[n + 1]]

\* Mutant of Ends: an abandoned attempt keeps its slot until its handler returns.
EndsHolding(j) ==
  /\ IsOpen(j)
  /\ open' = OpenWithout(j)
  /\ active' = IF status'[j] = "failed" THEN active ELSE active - 1
  /\ live' = [live EXCEPT ![id[j]] = NoJob]
  /\ UNCHANGED <<names, discards, paused, closed>>

\* The finally of JobDeadlines.run and that of runOne: the entry of the id is
\* deleted, whoever it leads to.
Ends(j) ==
  /\ IsOpen(j)
  /\ open' = OpenWithout(j)
  /\ active' = active - 1
  /\ live' = [live EXCEPT ![id[j]] = NoJob]
  /\ UNCHANGED <<names, discards, paused, closed>>

HandlerReturns(j) ==
  /\ End(j, "completed")
  /\ Ends(j)
  /\ UNCHANGED <<attempt, abandoned>>

HandlerThrows(j) ==
  /\ Tries(j)
  /\ RetryOrFail(j)
  /\ Ends(j)
  /\ UNCHANGED abandoned

\* Mutant of Abandon: an abandoned attempt is retried like a failed one.
AbandonRetries(j) ==
  /\ Tries(j)
  /\ RetryOrFail(j)
  /\ Ends(j)
  /\ abandoned' = abandoned \cup {j}

\* The signal of an attempt is aborted: its race rejects, and it is terminal.
Abandon(j) ==
  /\ Tries(j)
  /\ End(j, "failed")
  /\ Ends(j)
  /\ abandoned' = abandoned \cup {j}

\* timeoutMs of the attempt have passed.
Deadline(j) == Abandon(j)

\* cancel of a job that has started: it aborts what the id leads to.
CancelStarted(i) ==
  /\ byId[i] # NoJob
  /\ ~IsQueued(byId[i])
  /\ live[i] # NoJob
  /\ Abandon(live[i])

-----------------------------------------------------------------------------
Callers ==
  \/ \E j \in Jobs, i \in Ids, delayed \in BOOLEAN, ends \in Discarding :
       Enqueue(j, i, delayed, ends)
  \/ \E j \in Jobs, delayed \in BOOLEAN, ends \in Discarding : EnqueueUnnamed(j, delayed, ends)
  \/ \E i \in Ids : CancelQueued(i) \/ CancelStarted(i)
  \/ Drain
  \/ \E n \in 1 .. Concurrency : DiscardStalled(n)
  \/ \E p \in BOOLEAN : SetPaused(p)
  \/ Close

Worker ==
  \E j \in Jobs :
    \/ Start(j) \/ StartFails(j) \/ Elapse(j)
    \/ HandlerReturns(j) \/ HandlerThrows(j) \/ Deadline(j)

Next == Callers \/ Worker

Spec == Init /\ [][Next]_vars

Pump == \E j \in Jobs : Start(j) \/ StartFails(j)

\* The pump polls, clocks go on and a deadline that was set fires.  No handler need
\* return, and nobody need cancel.
Fairness ==
  /\ WF_vars(Pump)
  /\ \A j \in Jobs : WF_vars(Elapse(j)) /\ WF_vars(Deadline(j))

FairSpec == Spec /\ Fairness

-----------------------------------------------------------------------------
(* Properties *)

TypeOK ==
  /\ status \in [Jobs -> Statuses]
  /\ id \in [Jobs -> Ids \cup {NoJob}]
  /\ given \subseteq Jobs
  /\ attempt \in [Jobs -> Nat]
  /\ due \in [Jobs -> BOOLEAN]
  /\ discards \in [Jobs -> SUBSET {"completed", "failed"}]
  /\ list \subseteq Jobs
  /\ byId \in [Ids -> Jobs \cup {NoJob}]
  /\ seen \subseteq Ids
  /\ counter \in 0 .. Len(Generated)
  /\ paused \in BOOLEAN /\ closed \in BOOLEAN
  /\ open \in Seq(Jobs)
  /\ active \in Nat
  /\ live \in [Ids -> Jobs \cup {NoJob}]
  /\ abandoned \subseteq Jobs
  /\ \A j \in Jobs : status[j] # "none" => id[j] \in Ids

\* The listed jobs that carry an id.
Carriers(i) == {j \in list : id[j] = i}

IsLatest(j, S) == j \in S /\ \A k \in S : k <= j

\* The three views of the store agree, whatever ends and whoever removes: an id leads
\* to the latest job listed under it, if there is one; it is deduplicated exactly
\* while a job is listed whose caller gave it; and at most two jobs are listed under
\* one id, of which one has it from its caller and the other from the counter.
StoreAgrees ==
  \A i \in Ids :
    /\ IF Carriers(i) = {} THEN byId[i] = NoJob ELSE IsLatest(byId[i], Carriers(i))
    /\ i \in seen <=> Carriers(i) \cap given # {}
    /\ \A j, k \in Carriers(i) : (j \in given <=> k \in given) => j = k

\* A slot is taken while an attempt is open and no longer, and an attempt that was
\* abandoned, by its deadline or a cancellation, is the last one of its job, however
\* many the job had left.
AttemptsAreRationed ==
  /\ active = Len(open) /\ active <= Concurrency
  /\ \A j \in Jobs :
       /\ IsOpen(j) <=> status[j] = "active"
       /\ attempt[j] <= Attempts
       /\ status[j] \in {"waiting", "delayed", "active"} => attempt[j] < Attempts
       /\ j \in abandoned => status[j] = "failed"

\* A job that was accepted comes to its end unless it is removed, or the queue is
\* paused or its worker closed: no handler can keep a slot for ever.
JobsComeToAnEnd ==
  \A j \in Jobs :
    status[j] \in {"waiting", "delayed", "active"} ~>
      status[j] \in {"completed", "failed"} \/ j \notin list \/ paused \/ closed

\* JobDeadlines.abort: "Abort an attempt currently running in this process,
\* returning whether one was found."
AbortFindsTheAttempt ==
  \A i \in Ids : (byId[i] # NoJob /\ IsOpen(byId[i])) => live[i] = byId[i]
=============================================================================
