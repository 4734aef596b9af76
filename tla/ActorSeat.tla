------------------------------- MODULE ActorSeat -------------------------------
(***************************************************************************)
(* What every ActorRuntime promises of one seat, whatever hosts it: the    *)
(* contract of the port (`ActorRuntime`, `ActorDefinition`,                *)
(* `CommittedActorEvent`).  Calls are serialized, each commits its state,  *)
(* its dedup record and its journal entries in one step built on the       *)
(* newest state, and a call that is answered with an error never commits.  *)
(***************************************************************************)
EXTENDS Naturals, Sequences

CONSTANTS
  Calls, Requests, Commands, NoCall,
  EventCounts  \* how many events a turn may return

VARIABLES
  fate,     \* what each call came to
  request, command,
  history,  \* the calls that committed, in order: the state of the seat
  memory,   \* the requestIds whose results the seat still holds
  journal   \* the identity's append-only log

vars == <<fate, request, command, history, memory, journal>>

Init ==
  /\ fate = [c \in Calls |-> [kind |-> "unsent"]]
  /\ request = [c \in Calls |-> NoCall]
  /\ command = [c \in Calls |-> NoCall]
  /\ history = <<>>
  /\ memory = {}
  /\ journal = <<>>

Is(c, kind) == fate[c].kind = kind
Answer(c, value) == fate' = [fate EXCEPT ![c] = value]

Submit(c, r, k) ==
  /\ Is(c, "unsent")
  /\ Answer(c, [kind |-> "pending"])
  /\ request' = [request EXCEPT ![c] = r]
  /\ command' = [command EXCEPT ![c] = k]
  /\ UNCHANGED <<history, memory, journal>>

\* A journal entry carries its position in the log as its seq.
Entries(c, kind, n) ==
  [i \in 1..n |-> [seq |-> Len(journal) + i - 1, call |-> c, kind |-> kind]]

\* One commit point: state, dedup record and events.  Older records may leave.
Commit(c, n) ==
  /\ Is(c, "pending")
  /\ request[c] \notin memory
  /\ history' = Append(history, c)
  /\ \E kept \in SUBSET memory : memory' = kept \cup {request[c]}
  /\ journal' = journal \o Entries(c, "event", n)
  /\ Answer(c, [kind |-> "committed", from |-> c])
  /\ UNCHANGED <<request, command>>

\* The position of the commit the seat remembers under requestId r.
IsLatest(i, r) ==
  /\ request[history[i]] = r
  /\ \A j \in DOMAIN history : j > i => request[history[j]] # r

Replay(c) ==
  /\ Is(c, "pending")
  /\ request[c] \in memory
  /\ \E i \in DOMAIN history :
       /\ IsLatest(i, request[c])
       /\ command[history[i]] = command[c]
       /\ Answer(c, [kind |-> "replayed", from |-> history[i]])
  /\ UNCHANGED <<request, command, history, memory, journal>>

\* The turn threw, was refused, or lost its seat: everything rolls back.
Reject(c) ==
  /\ Is(c, "pending")
  /\ \/ Answer(c, [kind |-> "failed"])
     \/ Answer(c, [kind |-> "timeout"])
  /\ UNCHANGED <<request, command, history, memory, journal>>

\* "A timeout is a recorded failed turn": at most one marker, never an event.
Mark(c) ==
  /\ Is(c, "timeout")
  /\ \A i \in DOMAIN journal : journal[i].call # c
  /\ journal' = journal \o Entries(c, "timeout", 1)
  /\ UNCHANGED <<fate, request, command, history, memory>>

Forget ==
  /\ memory' \in SUBSET memory
  /\ UNCHANGED <<fate, request, command, history, journal>>

Next ==
  \/ \E c \in Calls :
       \/ \E r \in Requests, k \in Commands : Submit(c, r, k)
       \/ \E n \in EventCounts : Commit(c, n)
       \/ Replay(c) \/ Reject(c) \/ Mark(c)
  \/ Forget

Spec == Init /\ [][Next]_vars
=============================================================================
