-------------------------- MODULE EventSourcedRuntime --------------------------
(***************************************************************************)
(* One seat of EventSourcedActorRuntime: the turns of InMemoryRuntime, and *)
(* a journal.  The class repeats the in-memory runtime's mailbox, deadline *)
(* and commit line for line; what it adds is `stored.seq`, `stored.events` *)
(* and the marker a timed-out turn leaves, so the module adds two          *)
(* variables and what each step does to them.                              *)
(***************************************************************************)
EXTENDS InMemoryRuntime

CONSTANT EventsOf   \* how many events the turn of each call returns

ASSUME EventsOfAssumption == EventsOf \in [Calls -> Nat]

VARIABLES
  seq,     \* stored.seq: the seq the next entry takes
  events   \* stored.events

journalVars == <<seq, events>>
esVars == <<vars, seq, events>>

Entry == [seq : Nat, call : Calls, kind : {"event", "timeout"}]

ESInit ==
  /\ Init
  /\ seq = 0
  /\ events = <<>>

\* Push n entries of one turn, each taking stored.seq++.
Push(c, kind, n) ==
  /\ seq' = seq + n
  /\ events' = events \o [i \in 1..n |->
                            [seq |-> seq + i - 1, call |-> c, kind |-> kind]]

\* Mutant of ESLoad: the journal is made afresh by every load that was cold.
ESLoadResets(c) == Load(c) /\ seq' = 0 /\ events' = <<>>

\* load publishes a whole fresh record, its empty journal included.
ESLoad(c) ==
  /\ Load(c)
  /\ IF exists THEN UNCHANGED journalVars ELSE seq' = 0 /\ events' = <<>>

\* The one commit point: the events of the turn go in with state and result.
ESCommit(c) == Commit(c) /\ Push(c, "event", EventsOf[c])

\* Mutants of RecordTimedOutTurn: any failure of the turn is marked; only the
\* timer's timeouts are.
MarkEveryFailure(c) ==
  IF outcome[c] \in {Failed, TimedOut} /\ exists
  THEN Push(c, "timeout", 1)
  ELSE UNCHANGED journalVars

MarkExpiredOnly(c) ==
  IF expired[c] /\ exists THEN Push(c, "timeout", 1) ELSE UNCHANGED journalVars

\* The catch and finally of serialize: a turn that missed its own deadline leaves
\* a marker, when there is a record to append it to, before the seat is freed.
RecordTimedOutTurn(c) ==
  IF outcome[c] = TimedOut /\ exists
  THEN Push(c, "timeout", 1)
  ELSE UNCHANGED journalVars

ESSettle(c) == Settle(c) /\ RecordTimedOutTurn(c)

\* The steps the journal has no part in.
Unjournaled(c) ==
  /\ \/ \E r \in Requests, k \in Commands : Invoke(c, r, k)
     \/ Start(c) \/ LoadFails(c) \/ Replay(c) \/ Receive(c)
     \/ ReceiveFails(c) \/ Refuse(c) \/ Expire(c)
  /\ UNCHANGED journalVars

ESNext ==
  \E c \in Calls : ESLoad(c) \/ ESCommit(c) \/ ESSettle(c) \/ Unjournaled(c)

ESSpec == ESInit /\ [][ESNext]_esVars

(***************************************************************************)
(* The runtime owes progress only to its own frames: the mailbox promise   *)
(* chain, the deadline timer and the code after the race.  No fairness is  *)
(* assumed of a turn: initialState and receive are user code and may never *)
(* return.                                                                 *)
(***************************************************************************)
ESFairness ==
  \A c \in Calls :
    /\ WF_esVars(Start(c) /\ UNCHANGED journalVars)
    /\ WF_esVars(Expire(c) /\ UNCHANGED journalVars)
    /\ WF_esVars(ESSettle(c))

ESFairSpec == ESSpec /\ ESFairness

-----------------------------------------------------------------------------
(* Properties *)

JournalTypeOK == seq \in Nat /\ events \in Seq(Entry)

\* An entry's seq is its position in the log, forever: no seq is skipped, reused
\* or restarted, which is what lets consumers be idempotent by (actor, seq).
JournalIsDense ==
  /\ seq = Len(events)
  /\ \A i \in DOMAIN events : events[i].seq = i - 1

\* The positions in the log of what call c emitted.
EmittedBy(c) == {i \in DOMAIN events : events[i].call = c /\ events[i].kind = "event"}
Committed(c) == \E i \in DOMAIN state : state[i] = c

\* State and events cannot diverge: the log holds every event of exactly the
\* turns the state reflects, those of one turn side by side, in commit order.
JournalMatchesState ==
  /\ \A c \in Calls :
       IF Committed(c)
       THEN \E start \in 0..Len(events) :
              EmittedBy(c) = (start + 1)..(start + EventsOf[c])
       ELSE EmittedBy(c) = {}
  /\ \A m, n \in DOMAIN state, i, j \in DOMAIN events :
       (m < n /\ i \in EmittedBy(state[m]) /\ j \in EmittedBy(state[n])) => i < j

\* A turn is never both committed and recorded as failed, and one missed deadline
\* is one record, whether the timer or the clock at the commit noticed it.
Markers(c) == {i \in DOMAIN events : events[i].call = c /\ events[i].kind = "timeout"}

MarkersAreFailedTurns ==
  \A c \in Calls :
    /\ Markers(c) # {} => outcome[c] = TimedOut /\ ~Committed(c)
    /\ \A i, j \in Markers(c) : i = j

\* Every timed-out turn that itself got past the load of its identity is in the log
\* by the time its seat is free.  Of a turn that its deadline met at the load nothing
\* is said: there is a marker if another turn had loaded the identity, and where no
\* record was ever made there is none.
ReachedTheIdentity(c) == body[c] \in {"loaded", "receiving"} \/ ~expired[c]

TimeoutsAreRecorded ==
  [][\A c \in Calls :
       (/\ phase[c] = "settling" /\ phase'[c] = "done"
        /\ outcome[c] = TimedOut /\ ReachedTheIdentity(c))
         => Markers(c)' # {}]_esVars

\* The log is append-only.
JournalAppends ==
  [][/\ Len(events) <= Len(events')
     /\ \A i \in DOMAIN events : events'[i] = events[i]]_esVars

SeatWithJournal == INSTANCE ActorSeat WITH
  EventCounts <- {EventsOf[c] : c \in Calls},
  fate <- [c \in Calls |-> IF phase[c] = "idle" THEN [kind |-> "unsent"]
                                                ELSE outcome[c]],
  history <- state,
  memory <- {results[i].request : i \in DOMAIN results},
  journal <- events

\* The journaling runtime keeps the whole contract: an entry enters the log in
\* the step that commits its turn, or as the one marker of a timed-out turn.
ImplementsJournaledSeat == SeatWithJournal!Spec
=============================================================================
