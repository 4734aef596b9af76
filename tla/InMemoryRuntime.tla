---------------------------- MODULE InMemoryRuntime ----------------------------
(***************************************************************************)
(* One seat (one actor identity) of InMemoryActorRuntime.                  *)
(*                                                                         *)
(* Every map of the runtime is keyed by actorKey and no operation touches  *)
(* two keys, so the module is the slice of the runtime that belongs to one *)
(* key: its entry of `actors`, its entry of `tails`, and the invocations   *)
(* made on it.  A call is one execution of `invoke`; a retry is another    *)
(* call that carries the same requestId.                                   *)
(*                                                                         *)
(* JavaScript runs to completion between awaits, so an action is the code  *)
(* between two awaits.  An invocation is two nested async frames that can  *)
(* come apart: `serialize` (variable phase), which waits for the mailbox,  *)
(* races the turn against its deadline and frees the seat, and the turn it *)
(* races (variable body), which nothing can stop and which keeps running   *)
(* after the race has been lost.                                           *)
(***************************************************************************)
EXTENDS Naturals, Sequences

CONSTANTS
  Calls,       \* executions of invoke on this seat
  Requests,    \* requestIds
  Commands,    \* parsed commands, told apart by their fingerprint
  DedupLimit,  \* options.dedupLimit
  NoCall       \* not a call: no promise to wait for, no request yet

ASSUME DedupLimitAssumption == DedupLimit \in Nat \ {0}
ASSUME NoCallAssumption == NoCall \notin Calls

VARIABLES
  phase,    \* the serialize frame of each call
  body,     \* the turn each call runs under its deadline
  request,  \* the requestId and ...
  command,  \* ... the command each call was made with
  previous, \* the call whose release each call awaits, or NoCall
  tail,     \* tails.get(key): the last call queued, or NoCall
  expired,  \* guard.expired
  exists,   \* actors.has(key)
  state,    \* stored.state: the calls whose commands it reflects
  results,  \* stored.results, in insertion order
  working,  \* workingState of each turn
  outcome,  \* what the race of each call settled to
  submitted, \* history: the calls in the order they were made
  applied   \* history: the calls that committed, in order

serializeVars == <<phase, request, command, previous, tail, submitted>>
storedVars == <<exists, state, results, applied>>
vars == <<phase, body, request, command, previous, tail, expired,
          exists, state, results, working, outcome, submitted, applied>>

Phases == {"idle", "queued", "running", "settling", "done"}
Bodies == {"none", "creating", "loaded", "receiving", "ended"}

Pending == [kind |-> "pending"]
Failed == [kind |-> "failed"]
TimedOut == [kind |-> "timeout"]
\* The result of a turn is named by the call that computed it.
Resolved(k, c) == [kind |-> k, from |-> c]
Outcomes == {Pending, Failed, TimedOut}
              \cup [kind : {"committed", "replayed"}, from : Calls]

Results == [request : Requests, command : Commands, result : Calls]

\* results.get(requestId) is there.
Known(r) == \E i \in DOMAIN results : results[i].request = r
Recorded(r) == results[CHOOSE i \in DOMAIN results : results[i].request = r]

\* Map.set keeps the place of a key it already holds.
SetResult(entry) ==
  IF Known(entry.request)
  THEN [i \in DOMAIN results |->
          IF results[i].request = entry.request THEN entry ELSE results[i]]
  ELSE Append(results, entry)

\* Mutant of Evict: the loop runs while size >= dedupLimit.
EvictAtLimit(s) == IF Len(s) >= DedupLimit
                   THEN SubSeq(s, Len(s) - DedupLimit + 2, Len(s))
                   ELSE s

\* The eviction loop: oldest keys leave until dedupLimit are left.
Evict(s) == IF Len(s) > DedupLimit
            THEN SubSeq(s, Len(s) - DedupLimit + 1, Len(s))
            ELSE s

Init ==
  /\ phase = [c \in Calls |-> "idle"]
  /\ body = [c \in Calls |-> "none"]
  /\ request = [c \in Calls |-> NoCall]
  /\ command = [c \in Calls |-> NoCall]
  /\ previous = [c \in Calls |-> NoCall]
  /\ tail = NoCall
  /\ expired = [c \in Calls |-> FALSE]
  /\ exists = FALSE
  /\ state = <<>>
  /\ results = <<>>
  /\ working = [c \in Calls |-> <<>>]
  /\ outcome = [c \in Calls |-> Pending]
  /\ submitted = <<>>
  /\ applied = <<>>

\* invoke, and serialize up to `await previous`: join the mailbox.
Invoke(c, r, k) ==
  /\ phase[c] = "idle"
  /\ phase' = [phase EXCEPT ![c] = "queued"]
  /\ request' = [request EXCEPT ![c] = r]
  /\ command' = [command EXCEPT ![c] = k]
  /\ previous' = [previous EXCEPT ![c] = tail]
  /\ tail' = c
  /\ submitted' = Append(submitted, c)
  /\ UNCHANGED <<body, expired, working, outcome, storedVars>>

\* release() has been called by whoever c waits for.
Released(c) == previous[c] # NoCall => phase[previous[c]] = "done"

\* `await previous` returns: stamp the guard, arm the deadline and run the turn
\* as far as the first await of `load`.
Start(c) ==
  /\ phase[c] = "queued"
  /\ Released(c)
  /\ phase' = [phase EXCEPT ![c] = "running"]
  /\ body' = [body EXCEPT ![c] = IF exists THEN "loaded" ELSE "creating"]
  /\ UNCHANGED <<request, command, previous, tail, submitted, expired, working,
                 outcome, storedVars>>

\* The turn's promise settles; the race takes its outcome only if it is still open.
Finish(c, o) ==
  /\ body' = [body EXCEPT ![c] = "ended"]
  /\ IF phase[c] = "running"
     THEN /\ phase' = [phase EXCEPT ![c] = "settling"]
          /\ outcome' = [outcome EXCEPT ![c] = o]
     ELSE UNCHANGED <<phase, outcome>>
  /\ UNCHANGED <<request, command, previous, tail, submitted, expired, working>>

\* Mutant of Load: the record is published without looking again.
LoadOverwrites(c) ==
  /\ body[c] = "creating"
  /\ body' = [body EXCEPT ![c] = "loaded"]
  /\ exists' = TRUE /\ state' = <<>> /\ results' = <<>>
  /\ UNCHANGED <<serializeVars, expired, working, outcome, applied>>

\* load after `await initialState`: the first writer publishes the record.
Load(c) ==
  /\ body[c] = "creating"
  /\ body' = [body EXCEPT ![c] = "loaded"]
  /\ IF exists
     THEN UNCHANGED <<exists, state, results>>
     ELSE exists' = TRUE /\ state' = <<>> /\ results' = <<>>
  /\ UNCHANGED <<serializeVars, expired, working, outcome, applied>>

\* initialState, or the parse of its value, throws.
LoadFails(c) ==
  /\ body[c] = "creating"
  /\ Finish(c, Failed)
  /\ UNCHANGED storedVars

\* The dedup lookup hits: replay the recorded result, or refuse a requestId
\* reused for a different command.
Replay(c) ==
  /\ body[c] = "loaded"
  /\ Known(request[c])
  /\ Finish(c, IF Recorded(request[c]).command = command[c]
               THEN Resolved("replayed", Recorded(request[c]).result)
               ELSE Failed)
  /\ UNCHANGED storedVars

\* The dedup lookup misses: clone the state and hand it to receive.
Receive(c) ==
  /\ body[c] = "loaded"
  /\ ~Known(request[c])
  /\ body' = [body EXCEPT ![c] = "receiving"]
  /\ working' = [working EXCEPT ![c] = state]
  /\ UNCHANGED <<serializeVars, expired, outcome, storedVars>>

\* receive throws, or a schema refuses what it returned.
ReceiveFails(c) ==
  /\ body[c] = "receiving"
  /\ Finish(c, Failed)
  /\ UNCHANGED storedVars

\* The guard or the clock says the deadline has passed.  A timer cannot preempt
\* synchronous work and Date.now is not the timer's clock, so the clock may have
\* passed the deadline with the guard's flag still down.
Refuse(c) ==
  /\ body[c] = "receiving"
  /\ Finish(c, TimedOut)
  /\ UNCHANGED storedVars

\* Mutant of Commit: the guard is not read again before the commit.
CommitUnguarded(c) ==
  /\ body[c] = "receiving"
  /\ state' = Append(working[c], c)
  /\ results' = Evict(SetResult([request |-> request[c],
                                 command |-> command[c], result |-> c]))
  /\ applied' = Append(applied, c)
  /\ Finish(c, Resolved("committed", c))
  /\ UNCHANGED exists

\* receive returned in time: the one commit point.
Commit(c) ==
  /\ body[c] = "receiving"
  /\ ~expired[c]
  /\ state' = Append(working[c], c)
  /\ results' = Evict(SetResult([request |-> request[c],
                                 command |-> command[c], result |-> c]))
  /\ applied' = Append(applied, c)
  /\ Finish(c, Resolved("committed", c))
  /\ UNCHANGED exists

\* Mutant of Expire: the race covers receive but not the load.
ExpireReceiveOnly(c) ==
  /\ phase[c] = "running"
  /\ body[c] # "creating"
  /\ phase' = [phase EXCEPT ![c] = "settling"]
  /\ expired' = [expired EXCEPT ![c] = TRUE]
  /\ outcome' = [outcome EXCEPT ![c] = TimedOut]
  /\ UNCHANGED <<body, request, command, previous, tail, submitted, working,
                 storedVars>>

\* raceTurnDeadline's timer fires first.
Expire(c) ==
  /\ phase[c] = "running"
  /\ phase' = [phase EXCEPT ![c] = "settling"]
  /\ expired' = [expired EXCEPT ![c] = TRUE]
  /\ outcome' = [outcome EXCEPT ![c] = TimedOut]
  /\ UNCHANGED <<body, request, command, previous, tail, submitted, working,
                 storedVars>>

\* Mutant of Settle: the mailbox is forgotten although others have joined it.
SettleForgets(c) ==
  /\ phase[c] = "settling"
  /\ phase' = [phase EXCEPT ![c] = "done"]
  /\ tail' = NoCall
  /\ UNCHANGED <<body, request, command, previous, submitted, expired, working,
                 outcome, storedVars>>

\* serialize after the race: free the seat and hand the outcome to the caller.
Settle(c) ==
  /\ phase[c] = "settling"
  /\ phase' = [phase EXCEPT ![c] = "done"]
  /\ tail' = IF tail = c THEN NoCall ELSE tail
  /\ UNCHANGED <<body, request, command, previous, submitted, expired, working,
                 outcome, storedVars>>

Turn(c) ==
  \/ Load(c) \/ LoadFails(c) \/ Replay(c) \/ Receive(c)
  \/ ReceiveFails(c) \/ Refuse(c) \/ Commit(c)

Next ==
  \E c \in Calls :
    \/ \E r \in Requests, k \in Commands : Invoke(c, r, k)
    \/ Start(c) \/ Turn(c) \/ Expire(c) \/ Settle(c)

Spec == Init /\ [][Next]_vars

-----------------------------------------------------------------------------
(* Properties *)

TypeOK ==
  /\ phase \in [Calls -> Phases]
  /\ body \in [Calls -> Bodies]
  /\ request \in [Calls -> Requests \cup {NoCall}]
  /\ command \in [Calls -> Commands \cup {NoCall}]
  /\ previous \in [Calls -> Calls \cup {NoCall}]
  /\ tail \in Calls \cup {NoCall}
  /\ expired \in [Calls -> BOOLEAN]
  /\ exists \in BOOLEAN
  /\ state \in Seq(Calls)
  /\ results \in Seq(Results)
  /\ working \in [Calls -> Seq(Calls)]
  /\ outcome \in [Calls -> Outcomes]
  /\ submitted \in Seq(Calls)
  /\ applied \in Seq(Calls)
  /\ \A c \in Calls :
       /\ phase[c] # "idle" => request[c] \in Requests /\ command[c] \in Commands
       /\ body[c] # "none" => phase[c] \in {"running", "settling", "done"}

\* One turn at a time: only one serialize frame is past `await previous` and has
\* not released, however many abandoned turns are still running underneath.
OneTurnAtATime ==
  \A c, d \in Calls :
    {phase[c], phase[d]} \subseteq {"running", "settling"} => c = d

\* No lost update: the stored state is exactly what the committed turns, in
\* order, made of it.  An abandoned turn that came back to commit off the state
\* it once read, or a late load that published a fresh record over a used one,
\* would drop a committed turn.
NoLostUpdate == state = applied

\* A committed requestId does not run again until dedupLimit other commits have
\* pushed its result out of the map.
AtMostOncePerWindow ==
  \A i, j \in DOMAIN applied :
    (i < j /\ request[applied[i]] = request[applied[j]]) => j - i > DedupLimit

\* The caller's answer is the truth: a success names a commit made under the
\* same requestId for the same command, and a call answered with an error, its
\* own deadline included, is never applied, not even later.
AnswersAreTrue ==
  \A c \in Calls :
    IF outcome[c].kind \in {"committed", "replayed"}
    THEN \E i \in DOMAIN applied :
           /\ applied[i] = outcome[c].from
           /\ request[applied[i]] = request[c]
           /\ command[applied[i]] = command[c]
    ELSE \A i \in DOMAIN applied : applied[i] # c

\* The mailbox drains in submission order.
SubmissionOrder ==
  \A i, j \in DOMAIN applied, m, n \in DOMAIN submitted :
    (i < j /\ submitted[m] = applied[i] /\ submitted[n] = applied[j]) => m < n

\* Never a wedge: every call is answered and frees the seat, even when a turn's
\* receive never returns.
EveryCallSettles == \A c \in Calls : phase[c] = "queued" ~> phase[c] = "done"

(* The inductive invariant behind the safety properties above. *)

\* The mailbox is the order of submission: each call waits for the one before it
\* unless that one is done, and tail is the last of them until it is done.
MailboxInv ==
  LET n == Len(submitted) IN
  /\ \A c \in Calls :
       phase[c] = "idle" <=> \A i \in DOMAIN submitted : submitted[i] # c
  /\ \A i, j \in DOMAIN submitted : submitted[i] = submitted[j] => i = j
  /\ \A i \in DOMAIN submitted :
       i > 1 => \/ previous[submitted[i]] = submitted[i - 1]
                \/ phase[submitted[i - 1]] = "done"
  /\ n = 0 => tail = NoCall
  /\ n > 0 => \/ tail = submitted[n]
              \/ tail = NoCall /\ phase[submitted[n]] = "done"
  /\ \A i, j \in DOMAIN submitted :
       (i < j /\ phase[submitted[j]] # "queued") => phase[submitted[i]] = "done"

\* How the two frames of a call and its guard go together: a turn whose guard is
\* still down has its frame waiting for it.
FrameInv ==
  \A c \in Calls :
    /\ phase[c] \in {"idle", "queued", "running"} => outcome[c] = Pending /\ ~expired[c]
    /\ phase[c] \in {"settling", "done"} => outcome[c] # Pending
    /\ expired[c] => outcome[c] = TimedOut
    /\ (body[c] \in {"creating", "loaded", "receiving"} /\ ~expired[c])
         => phase[c] = "running"

\* A turn that may still commit has read the newest state and looked its request
\* up in the newest results.
RecordInv ==
  /\ ~exists => state = <<>> /\ results = <<>> /\ applied = <<>>
  /\ \A c \in Calls :
       /\ body[c] \in {"loaded", "receiving"} => exists
       /\ (body[c] = "receiving" /\ ~expired[c])
            => working[c] = state /\ ~Known(request[c])

ResultOf(c) == [request |-> request[c], command |-> command[c], result |-> c]

\* results is the window of the last dedupLimit commits.
WindowInv ==
  /\ Len(results) = IF Len(applied) > DedupLimit THEN DedupLimit ELSE Len(applied)
  /\ \A i \in DOMAIN results :
       results[i] = ResultOf(applied[Len(applied) - Len(results) + i])

\* A commit's own call was told of it, and every success names a commit.
AnswerInv ==
  /\ \A i \in DOMAIN applied :
       outcome[applied[i]] = Resolved("committed", applied[i])
  /\ \A c \in Calls :
       outcome[c].kind \in {"committed", "replayed"} =>
         \E i \in DOMAIN applied :
           /\ applied[i] = outcome[c].from
           /\ request[applied[i]] = request[c]
           /\ command[applied[i]] = command[c]

\* Mailbox, frames, record, window and answers fit together after every step of every
\* turn, abandoned or not: the invariant the proofs are made of.
IInv ==
  /\ MailboxInv /\ FrameInv /\ RecordInv /\ WindowInv /\ AnswerInv
  /\ NoLostUpdate /\ AtMostOncePerWindow /\ SubmissionOrder

\* The in-memory runtime keeps no journal; otherwise it is the contract.
Seat == INSTANCE ActorSeat WITH
  EventCounts <- {0},
  fate <- [c \in Calls |-> IF phase[c] = "idle" THEN [kind |-> "unsent"]
                                                ELSE outcome[c]],
  history <- state,
  memory <- {results[i].request : i \in DOMAIN results},
  journal <- <<>>

\* Every step of the runtime is a step of the contract, or none.
ImplementsActorSeat == Seat!Spec
=============================================================================
