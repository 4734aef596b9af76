-------------------------- MODULE DurableObjectRuntime --------------------------
(***************************************************************************)
(* One actor identity hosted by a Durable Object: the turns that run in    *)
(* the object, the storage it keeps, and the platform losing the object    *)
(* while the storage stays.                                                *)
(*                                                                         *)
(* An action is the code between two awaits.  Two chains of promises order *)
(* it: the seat (#seatTail), held by one turn at a time, and the storage   *)
(* section (#storageTail), a queue in which the first write of the record, *)
(* commits and timeout markers run one after another.  A turn is two       *)
(* frames: #turn (phase), and #loadAndReceive under the deadline race      *)
(* (body), which runs on after it has lost the race.                       *)
(***************************************************************************)
EXTENDS Naturals, Sequences

CONSTANTS
  Calls,       \* requests delivered to the object
  Requests,    \* requestIds
  Commands,    \* parsed commands, told apart by their fingerprint
  EventsOf,    \* how many events the turn of each call returns
  DedupLimit,  \* options.dedupLimit
  NoCall       \* not a call

ASSUME NoCallAssumption == NoCall \notin Calls
ASSUME EventsOfAssumption == EventsOf \in [Calls -> Nat]
ASSUME DedupLimitAssumption == DedupLimit \in Nat \ {0}

VARIABLES
  (* the object in memory *)
  phase,      \* where #turn stands
  body,       \* where #loadAndReceive stands
  request, command,
  previous,   \* the turn whose release each call awaits
  seatTail,   \* the last turn to have joined the seat
  tasks,      \* the storage sections not yet ended; the first one runs
  at,         \* how far the first one is
  evicted,    \* the requestIds its commit has pushed out of the window
  working,    \* the record.state a turn has read
  outcome,    \* how each turn ended
  (* storage *)
  exists,     \* RECORD_KEY is stored
  state,      \* record.state: the calls whose commands it reflects
  seq,        \* record.seq
  order,      \* DEDUP_ORDER_KEY: the requestIds of the window
  dedup,      \* the dedup entries, orphans included
  events,     \* the journal, by seq
  (* history *)
  applied     \* the calls whose commit was put, in order

storage == <<exists, state, seq, order, dedup, events, applied>>
others == <<request, command, previous, seatTail, evicted>>
vars == <<phase, body, others, tasks, at, working, outcome, storage>>

Phases == {"idle", "queued", "running", "committing", "marking", "done", "lost"}
Bodies == {"none", "opening", "creating", "publishing", "loaded", "receiving", "ended"}

Pending == [kind |-> "pending"]
Failed == [kind |-> "failed"]
TimedOut == [kind |-> "timeout"]
Resolved(k, c) == [kind |-> k, from |-> c]
Outcomes == {Pending, Failed, TimedOut}
              \cup [kind : {"committed", "replayed"}, from : Calls]

Task == [call : Calls, kind : {"init", "commit", "marker"}]
Results == [request : Requests, command : Commands, result : Calls]
Entry == [call : Calls, kind : {"event", "timeout"}]

Init ==
  /\ phase = [c \in Calls |-> "idle"]
  /\ body = [c \in Calls |-> "none"]
  /\ request = [c \in Calls |-> NoCall]
  /\ command = [c \in Calls |-> NoCall]
  /\ previous = [c \in Calls |-> NoCall]
  /\ seatTail = NoCall
  /\ tasks = <<>>
  /\ at = "waiting"
  /\ evicted = {}
  /\ working = [c \in Calls |-> <<>>]
  /\ outcome = [c \in Calls |-> Pending]
  /\ exists = FALSE
  /\ state = <<>>
  /\ seq = 0
  /\ order = <<>>
  /\ dedup = {}
  /\ events = [n \in {} |-> NoCall]
  /\ applied = <<>>

Goes(c, p) == phase' = [phase EXCEPT ![c] = p]
Runs(c, b) == body' = [body EXCEPT ![c] = b]

\* The finally of #turn: release the seat, and answer.
Leave(c, o) ==
  /\ Goes(c, "done")
  /\ outcome' = [outcome EXCEPT ![c] = o]

Entering(c, k) == tasks' = Append(tasks, [call |-> c, kind |-> k])

\* The first section ends and the next one may begin.
Ends == tasks' = Tail(tasks) /\ at' = "waiting"

-----------------------------------------------------------------------------
(* #turn *)

\* The command is parsed, and the turn joins the seat.  A request that does not
\* parse is refused before it is a turn.
Join(c, r, k) ==
  /\ phase[c] = "idle"
  /\ Goes(c, "queued")
  /\ request' = [request EXCEPT ![c] = r]
  /\ command' = [command EXCEPT ![c] = k]
  /\ previous' = [previous EXCEPT ![c] = seatTail]
  /\ seatTail' = c
  /\ UNCHANGED <<body, tasks, at, evicted, working, outcome, storage>>

Released(c) == previous[c] # NoCall => phase[previous[c]] = "done"

\* `await previous` returns: the guard is stamped, the deadline armed, and the
\* record is asked for.
Start(c) ==
  /\ phase[c] = "queued"
  /\ Released(c)
  /\ Goes(c, "running")
  /\ Runs(c, "opening")
  /\ UNCHANGED <<others, tasks, at, working, outcome, storage>>

\* Mutant of Expire: the race covers receive but not the load.
ExpireReceiveOnly(c) ==
  /\ phase[c] = "running"
  /\ body[c] \in {"loaded", "receiving"}
  /\ Goes(c, "marking")
  /\ outcome' = [outcome EXCEPT ![c] = TimedOut]
  /\ Entering(c, "marker")
  /\ UNCHANGED <<body, others, at, working, storage>>

\* The deadline wins the race: the marker takes its place in the storage queue,
\* and the seat waits for it.
Expire(c) ==
  /\ phase[c] = "running"
  /\ Goes(c, "marking")
  /\ outcome' = [outcome EXCEPT ![c] = TimedOut]
  /\ Entering(c, "marker")
  /\ UNCHANGED <<body, others, at, working, storage>>

-----------------------------------------------------------------------------
(* #loadAndReceive *)

\* The body settles without a turn to commit; an abandoned one tells nobody.
Settles(c, o) ==
  /\ Runs(c, "ended")
  /\ IF phase[c] = "running" THEN Leave(c, o) ELSE UNCHANGED <<phase, outcome>>
  /\ UNCHANGED <<others, working, storage>>

\* #ensureRecord has looked for the record.
Look(c) ==
  /\ body[c] = "opening"
  /\ Runs(c, IF exists THEN "loaded" ELSE "creating")
  /\ working' = [working EXCEPT ![c] = state]
  /\ UNCHANGED <<phase, others, tasks, at, outcome, storage>>

\* initialState has returned: the first write takes its place in the queue.
Create(c) ==
  /\ body[c] = "creating"
  /\ Runs(c, "publishing")
  /\ Entering(c, "init")
  /\ UNCHANGED <<phase, others, at, working, outcome, storage>>

\* The dedup lookup hits.
Replay(c) ==
  /\ body[c] = "loaded"
  /\ \E d \in dedup :
       /\ d.request = request[c]
       /\ Settles(c, IF d.command = command[c] THEN Resolved("replayed", d.result)
                                              ELSE Failed)
  /\ UNCHANGED <<tasks, at>>

\* It misses: receive is given a clone of the state.
Receive(c) ==
  /\ body[c] = "loaded"
  /\ \A d \in dedup : d.request # request[c]
  /\ Runs(c, "receiving")
  /\ UNCHANGED <<phase, others, tasks, at, working, outcome, storage>>

\* A read, initialState, receive or a schema throws, or the turn returns more
\* events than one put takes.
BodyFails(c) ==
  /\ body[c] \in {"opening", "creating", "loaded", "receiving"}
  /\ Settles(c, Failed)
  /\ UNCHANGED <<tasks, at>>

\* Mutant of Return: a turn that lost its race enters the section as well.
ReturnUnguarded(c) ==
  /\ body[c] = "receiving"
  /\ Runs(c, "ended")
  /\ Goes(c, "committing")
  /\ Entering(c, "commit")
  /\ UNCHANGED <<others, at, working, outcome, storage>>

\* receive has returned: if the race is still open, the commit takes its place.
Return(c) ==
  /\ body[c] = "receiving"
  /\ Runs(c, "ended")
  /\ IF phase[c] = "running"
     THEN Goes(c, "committing") /\ Entering(c, "commit")
     ELSE UNCHANGED <<phase, tasks>>
  /\ UNCHANGED <<others, at, working, outcome, storage>>

-----------------------------------------------------------------------------
(* #storageSection *)

IsRunning(c, k) == tasks # <<>> /\ Head(tasks) = [call |-> c, kind |-> k]

\* The section has read the record (and the order).  Nothing else writes until it
\* ends, so the values it will write are those stored.
Reads(c, k) ==
  /\ IsRunning(c, k)
  /\ at = "waiting"
  /\ at' = "read"
  /\ UNCHANGED <<phase, body, others, tasks, working, outcome, storage>>

\* What ends an init section: the body goes on with the stored record.
Loaded(c) ==
  /\ Runs(c, "loaded")
  /\ Ends
  /\ UNCHANGED <<phase, others, outcome>>

\* Mutant of Publish: the record is written without looking again.
PublishOverwrites(c) ==
  /\ IsRunning(c, "init") /\ at = "read"
  /\ Loaded(c)
  /\ working' = [working EXCEPT ![c] = <<>>]
  /\ exists' = TRUE /\ state' = <<>>
  /\ UNCHANGED <<seq, order, dedup, events, applied>>

\* First writer wins.
Publish(c) ==
  /\ IsRunning(c, "init") /\ at = "read"
  /\ Loaded(c)
  /\ IF exists
     THEN /\ working' = [working EXCEPT ![c] = state]
          /\ UNCHANGED storage
     ELSE /\ working' = [working EXCEPT ![c] = <<>>]
          /\ exists' = TRUE
          /\ state' = <<>>
          /\ UNCHANGED <<seq, order, dedup, events, applied>>

\* The clock shows, at the head of the section, that the deadline has passed: the
\* error reaches #turn, which enters a marker.
Refuse(c) ==
  /\ IsRunning(c, "commit") /\ at = "waiting"
  /\ tasks' = Append(Tail(tasks), [call |-> c, kind |-> "marker"])
  /\ Goes(c, "marking")
  /\ outcome' = [outcome EXCEPT ![c] = TimedOut]
  /\ UNCHANGED <<body, others, at, working, storage>>

\* Entries seq, seq + 1, ... of the journal are put, whatever those keys held.
PutEvents(c, k, n) ==
  events' = [i \in DOMAIN events \cup (seq .. seq + n - 1) |->
               IF seq <= i /\ i < seq + n THEN [call |-> c, kind |-> k] ELSE events[i]]

\* Mutant of Kept: the loop runs while order.length >= dedupLimit.
KeptAtLimit(s) == IF Len(s) >= DedupLimit
                  THEN SubSeq(s, Len(s) - DedupLimit + 2, Len(s))
                  ELSE s

\* The last dedupLimit requestIds.
Kept(s) == IF Len(s) > DedupLimit
           THEN SubSeq(s, Len(s) - DedupLimit + 1, Len(s))
           ELSE s

\* And those before them.
Evicted(s) == {s[i] : i \in 1 .. Len(s) - Len(Kept(s))}

\* The one commit point: state, order, dedup entry and events in one atomic put.
Commit(c) ==
  /\ IsRunning(c, "commit") /\ at = "read"
  /\ at' = "written"
  /\ state' = Append(working[c], c)
  /\ order' = Kept(Append(order, request[c]))
  /\ dedup' = {d \in dedup : d.request # request[c]}
                \cup {[request |-> request[c], command |-> command[c], result |-> c]}
  /\ seq' = seq + EventsOf[c]
  /\ PutEvents(c, "event", EventsOf[c])
  /\ applied' = Append(applied, c)
  /\ evicted' = Evicted(Append(order, request[c]))
  /\ UNCHANGED <<phase, body, request, command, previous, seatTail, tasks, working,
                 outcome, exists>>

\* The entries of the evicted requestIds are deleted or, best effort, left behind.
\* Either way the turn is committed.
Evict(c) ==
  /\ IsRunning(c, "commit") /\ at = "written"
  /\ Ends
  /\ Leave(c, Resolved("committed", c))
  /\ dedup' \in {dedup, {d \in dedup : d.request \notin evicted}}
  /\ evicted' = {}
  /\ UNCHANGED <<body, request, command, previous, seatTail, working,
                 exists, state, seq, order, events, applied>>

\* Mutant of Mark: the seq the marker takes is not stored with it.
MarkKeepsSeq(c) ==
  /\ IsRunning(c, "marker") /\ at = "read"
  /\ Ends
  /\ Leave(c, TimedOut)
  /\ IF exists
     THEN UNCHANGED seq /\ PutEvents(c, "timeout", 1)
     ELSE UNCHANGED <<seq, events>>
  /\ UNCHANGED <<body, others, working, exists, state, order, dedup, applied>>

\* The timeout marker, in a write of its own; a cold identity gets none.
Mark(c) ==
  /\ IsRunning(c, "marker") /\ at = "read"
  /\ Ends
  /\ Leave(c, TimedOut)
  /\ IF exists
     THEN seq' = seq + 1 /\ PutEvents(c, "timeout", 1)
     ELSE UNCHANGED <<seq, events>>
  /\ UNCHANGED <<body, others, working, exists, state, order, dedup, applied>>

\* A read or a put of the section fails.  The error of a commit or of an init is
\* the turn's; that of a marker is swallowed.
SectionFails(c) ==
  /\ at \in {"waiting", "read"}
  /\ \/ IsRunning(c, "init") /\ Settles(c, Failed)
     \/ IsRunning(c, "commit") /\ Leave(c, Failed) /\ UNCHANGED body
     \/ IsRunning(c, "marker") /\ Leave(c, TimedOut) /\ UNCHANGED body
  /\ Ends
  /\ UNCHANGED <<others, working, storage>>

\* The platform loses the object with everything in its memory; the next request
\* meets a new one on the same storage.
Restart ==
  /\ \E c \in Calls : phase[c] \notin {"idle", "done", "lost"}
  /\ phase' = [c \in Calls |-> IF phase[c] \in {"idle", "done"} THEN phase[c] ELSE "lost"]
  /\ body' = [c \in Calls |-> IF body[c] = "none" THEN "none" ELSE "ended"]
  /\ seatTail' = NoCall
  /\ tasks' = <<>>
  /\ at' = "waiting"
  /\ evicted' = {}
  /\ UNCHANGED <<request, command, previous, working, outcome, storage>>

-----------------------------------------------------------------------------
Body(c) ==
  Look(c) \/ Create(c) \/ Replay(c) \/ Receive(c) \/ BodyFails(c) \/ Return(c)

Section(c) ==
  \/ \E k \in {"init", "commit", "marker"} : Reads(c, k)
  \/ Publish(c) \/ Refuse(c) \/ Commit(c) \/ Evict(c) \/ Mark(c) \/ SectionFails(c)

Next ==
  \/ \E c \in Calls :
       \/ \E r \in Requests, k \in Commands : Join(c, r, k)
       \/ Start(c) \/ Expire(c) \/ Body(c) \/ Section(c)
  \/ Restart

Spec == Init /\ [][Next]_vars

\* A resolved promise continues, an armed timer fires and a storage call returns or
\* fails.  initialState and receive are user code and may never return.
Fairness ==
  \A c \in Calls : WF_vars(Start(c)) /\ WF_vars(Expire(c)) /\ WF_vars(Section(c))

FairSpec == Spec /\ Fairness

-----------------------------------------------------------------------------
(* Properties *)

TypeOK ==
  /\ phase \in [Calls -> Phases]
  /\ body \in [Calls -> Bodies]
  /\ request \in [Calls -> Requests \cup {NoCall}]
  /\ command \in [Calls -> Commands \cup {NoCall}]
  /\ previous \in [Calls -> Calls \cup {NoCall}]
  /\ seatTail \in Calls \cup {NoCall}
  /\ tasks \in Seq(Task)
  /\ at \in {"waiting", "read", "written"}
  /\ evicted \subseteq Requests
  /\ working \in [Calls -> Seq(Calls)]
  /\ outcome \in [Calls -> Outcomes]
  /\ exists \in BOOLEAN
  /\ state \in Seq(Calls)
  /\ seq \in Nat
  /\ order \in Seq(Requests)
  /\ dedup \subseteq Results
  /\ \A i \in DOMAIN events : i \in Nat /\ events[i] \in Entry
  /\ applied \in Seq(Calls)

\* A requestId whose turn was committed does not run again until dedupLimit other
\* commits have pushed it out, whatever was lost in between: the window in storage
\* and the entries it names never come apart.
AtMostOncePerWindow ==
  /\ \A i, j \in DOMAIN applied :
       (i < j /\ request[applied[i]] = request[applied[j]]) => j - i > DedupLimit
  /\ \A i \in DOMAIN order : \E d \in dedup : d.request = order[i]

Committed(c) == \E i \in DOMAIN applied : applied[i] = c
Positions(c, k) == {i \in DOMAIN events : events[i] = [call |-> c, kind |-> k]}

\* The journal is dense, no entry was overwritten, and it tells of each turn what
\* became of it: the events of a committed turn side by side, or at most one marker
\* of a timed-out turn, which is never committed after all.
JournalTellsTheTurns ==
  /\ DOMAIN events = 0 .. seq - 1
  /\ \A c \in Calls :
       /\ IF Committed(c)
          THEN \E n \in 0 .. seq : Positions(c, "event") = n .. n + EventsOf[c] - 1
          ELSE Positions(c, "event") = {}
       /\ Positions(c, "timeout") # {} => outcome[c] = TimedOut /\ ~Committed(c)
       /\ \A i, j \in Positions(c, "timeout") : i = j

\* Every turn is answered and frees the seat, unless the object itself is lost: a
\* load that never returns holds neither the seat nor the storage queue.
EveryTurnSettles == \A c \in Calls : phase[c] = "queued" ~> phase[c] \in {"done", "lost"}

\* A commit counts from its put.  The object does not answer a turn it is lost with.
Fate(c) ==
  IF phase[c] = "idle" THEN [kind |-> "unsent"]
  ELSE IF Committed(c) THEN Resolved("committed", c)
  ELSE outcome[c]

Seat == INSTANCE ActorSeat WITH
  EventCounts <- {EventsOf[c] : c \in Calls},
  fate <- [c \in Calls |-> Fate(c)],
  history <- state,
  memory <- {d.request : d \in dedup},
  journal <- [i \in 1 .. seq |->
                [seq |-> i - 1, call |-> events[i - 1].call, kind |-> events[i - 1].kind]]

\* Every step of the object, its loss included, is a step of the contract or none.
ImplementsActorSeat == Seat!Spec
=============================================================================
