------------------------------ MODULE RedisRuntime ------------------------------
(***************************************************************************)
(* One seat (one actor identity) of RedisActorRuntime: the processes that  *)
(* invoke it and the five Redis keys they share.                           *)
(*                                                                         *)
(* A Redis script is one atomic step.  The command that carries it is not: *)
(* it may run long after it was sent, run although its caller was told the *)
(* connection had failed or has crashed, or never run.  wire holds the     *)
(* write of each call that Redis may still execute.  Reads (HGET, GET)     *)
(* leave nothing behind and are taken with the step that uses them; a      *)
(* release that runs late does what the lapse of its lease does.           *)
(*                                                                         *)
(* A client that reconnects may send a script again whose reply it missed  *)
(* (Resends), while its caller goes on waiting: ioredis does unless it is  *)
(* told not to, and RedisConnectionManager passes the options through.     *)
(*                                                                         *)
(* Time is abstract.  A lease may lapse at any moment, since nothing ties  *)
(* a stalled process to the clock of Redis; what the code adds is that it  *)
(* does lapse once nobody renews it.                                       *)
(***************************************************************************)
EXTENDS Naturals, Sequences

CONSTANTS
  Calls,      \* executions of invoke, in any process
  Requests,   \* requestIds
  Commands,   \* parsed commands, told apart by their fingerprint
  EventsOf,   \* how many events the turn of each call returns
  MaxLen,     \* journal.maxEventsPerIdentity, 0 when unset
  Resends,    \* whether the client sends an unanswered script again
  NoCall      \* not a call

ASSUME NoCallAssumption == NoCall \notin Calls
ASSUME EventsOfAssumption == EventsOf \in [Calls -> Nat]
ASSUME MaxLenAssumption == MaxLen \in Nat
ASSUME ResendsAssumption == Resends \in BOOLEAN

VARIABLES
  (* the process of each call *)
  phase, request, command,
  lost,       \* lease.lost
  renewing,   \* lease.timer is running
  working,    \* the state its turn was given
  outcome,    \* what its caller is told
  wire,       \* the script Redis may still execute for it
  (* Redis *)
  lease,      \* the call whose token the lease key holds, or NoCall
  state,      \* the calls whose commands the state key reflects
  dedup,      \* the dedup hash
  seq,        \* the seq counter
  log,        \* the journal stream
  (* history *)
  applied,    \* the calls that committed, in order
  journal,    \* everything ever appended to the stream
  expiries    \* how many commits had been applied when dedup expired

stored == <<state, dedup, seq, log, applied, journal, expiries>>
made == <<request, command>>
vars == <<phase, request, command, lost, renewing, working, outcome, wire,
          lease, state, dedup, seq, log, applied, journal, expiries>>

Phases == {"idle", "acquiring", "looking", "loading", "receiving", "marking",
           "committing", "releasing", "done", "crashed"}
Scripts == {"none", "commit", "marker"}

Pending == [kind |-> "pending"]
Resolved(k, c) == [kind |-> k, from |-> c]
Rejected(k) == [kind |-> k]
\* An error thrown by the turn or the connection, TurnTimeoutError,
\* ActorLeaseTimeoutError and ActorLeaseLostError.
Errors == {"failed", "timeout", "busy", "leaseLost"}
Outcomes == {Pending} \cup [kind : Errors]
              \cup [kind : {"committed", "replayed"}, from : Calls]

Results == [request : Requests, command : Commands, result : Calls]
Entry == [seq : Nat, call : Calls, kind : {"event", "timeout"}]

Known(r) == \E d \in dedup : d.request = r

Init ==
  /\ phase = [c \in Calls |-> "idle"]
  /\ request = [c \in Calls |-> NoCall]
  /\ command = [c \in Calls |-> NoCall]
  /\ lost = [c \in Calls |-> FALSE]
  /\ renewing = [c \in Calls |-> FALSE]
  /\ working = [c \in Calls |-> <<>>]
  /\ outcome = [c \in Calls |-> Pending]
  /\ wire = [c \in Calls |-> "none"]
  /\ lease = NoCall
  /\ state = <<>>
  /\ dedup = {}
  /\ seq = 0
  /\ log = <<>>
  /\ applied = <<>>
  /\ journal = <<>>
  /\ expiries = {}

Goes(c, p) == phase' = [phase EXCEPT ![c] = p]
Told(c, o) == outcome' = [outcome EXCEPT ![c] = o]
Puts(c, script) == wire' = [wire EXCEPT ![c] = script]

\* The Lease object and the turn's values go with their frame; the script that
\* was sent keeps its arguments.
DropFrame(c) ==
  /\ renewing' = [renewing EXCEPT ![c] = FALSE]
  /\ lost' = [lost EXCEPT ![c] = FALSE]
  /\ working' = IF wire'[c] = "commit" THEN working ELSE [working EXCEPT ![c] = <<>>]

\* The finally of withLease: stop renewing, send RELEASE_LEASE, and leave with o.
Leave(c, o) ==
  /\ Goes(c, "releasing")
  /\ Told(c, o)
  /\ DropFrame(c)
  /\ UNCHANGED made

-----------------------------------------------------------------------------
(* The process of a call *)

\* invoke: index the identity, and start to poll for its lease.
Invoke(c, r, k) ==
  /\ phase[c] = "idle"
  /\ Goes(c, "acquiring")
  /\ request' = [request EXCEPT ![c] = r]
  /\ command' = [command EXCEPT ![c] = k]
  /\ UNCHANGED <<lost, renewing, working, outcome, wire, lease, stored>>

\* ACQUIRE_LEASE sets the absent key.  When its reply is lost, acquire throws
\* before withLease has anything to release, or the script is sent again, finds
\* the key taken and acquire polls on: either way the lease stays until it lapses.
Acquire(c) ==
  /\ phase[c] = "acquiring"
  /\ lease = NoCall
  /\ lease' = c
  /\ \/ /\ Goes(c, "looking")
        /\ renewing' = [renewing EXCEPT ![c] = TRUE]
        /\ UNCHANGED outcome
     \/ /\ Goes(c, "done")
        /\ Told(c, Rejected("failed"))
        /\ UNCHANGED renewing
     \/ /\ Resends
        /\ UNCHANGED <<phase, renewing, outcome>>
  /\ UNCHANGED <<made, lost, working, wire, stored>>

\* acquireTimeoutMs of polling have passed (or a poll has thrown).
AcquireFails(c) ==
  /\ phase[c] = "acquiring"
  /\ Goes(c, "done")
  /\ Told(c, Rejected("busy"))
  /\ UNCHANGED <<made, lost, renewing, working, wire, lease, stored>>

\* HGET hits: replay the result, or refuse a requestId reused for another command.
Replay(c) ==
  /\ phase[c] = "looking"
  /\ UNCHANGED <<wire, lease, stored>>
  /\ \E d \in dedup :
       /\ d.request = request[c]
       /\ Leave(c, IF d.command = command[c] THEN Resolved("replayed", d.result)
                                             ELSE Rejected("failed"))

\* HGET misses: start the race of the state load and receive.
Miss(c) ==
  /\ phase[c] = "looking"
  /\ ~Known(request[c])
  /\ Goes(c, "loading")
  /\ UNCHANGED <<made, lost, renewing, working, outcome, wire, lease, stored>>

\* readState returns, and receive is given a clone of what it read.
Load(c) ==
  /\ phase[c] = "loading"
  /\ Goes(c, "receiving")
  /\ working' = [working EXCEPT ![c] = state]
  /\ UNCHANGED <<made, lost, renewing, outcome, wire, lease, stored>>

\* A read, initialState, receive or a schema throws.
TurnFails(c) ==
  /\ phase[c] \in {"looking", "loading", "receiving"}
  /\ UNCHANGED <<wire, lease, stored>>
  /\ Leave(c, Rejected("failed"))

\* Mutant of DeadlinePasses: the deadline races the commit as well.
DeadlineRacesCommit(c) ==
  /\ phase[c] \in {"loading", "receiving", "committing"}
  /\ Goes(c, "marking")
  /\ Told(c, Rejected("timeout"))
  /\ IF wire[c] = "commit" THEN UNCHANGED wire ELSE Puts(c, "marker")
  /\ UNCHANGED <<made, lost, renewing, working, lease, stored>>

\* The deadline's timer wins the race, or the clock shows it has passed once
\* receive has returned: send the marker, before the lease is released.
DeadlinePasses(c) ==
  /\ phase[c] \in {"loading", "receiving"}
  /\ Goes(c, "marking")
  /\ Told(c, Rejected("timeout"))
  /\ Puts(c, "marker")
  /\ UNCHANGED <<made, lost, renewing, working, lease, stored>>

\* receive returned in time but the lease is known to be lost.
GiveUp(c) ==
  /\ phase[c] = "receiving"
  /\ lost[c]
  /\ UNCHANGED <<wire, lease, stored>>
  /\ Leave(c, Rejected("leaseLost"))

\* receive returned in time: send COMMIT_TURN.
SendCommit(c) ==
  /\ phase[c] = "receiving"
  /\ ~lost[c]
  /\ Goes(c, "committing")
  /\ Puts(c, "commit")
  /\ UNCHANGED <<made, lost, renewing, working, outcome, lease, stored>>

\* The connection fails while a script is awaited.  Only the commit's error
\* reaches the caller: recordTimedOutTurn and the finally swallow theirs.
ConnectionFails(c) ==
  /\ UNCHANGED <<wire, lease, stored>>
  /\ \/ phase[c] = "committing" /\ Leave(c, Rejected("failed"))
     \/ phase[c] = "marking" /\ Leave(c, outcome[c])
     \/ /\ phase[c] = "releasing"
        /\ Goes(c, "done")
        /\ UNCHANGED <<made, lost, working, outcome, renewing>>

\* RENEW_LEASE returned 0 or threw.
RenewalFails(c) ==
  /\ renewing[c]
  /\ ~lost[c]
  /\ lost' = [lost EXCEPT ![c] = TRUE]
  /\ UNCHANGED <<phase, made, renewing, working, outcome, wire, lease, stored>>

\* Mutant of RenewalCapped: the lease is given up but its timer runs on.
RenewalUncapped(c) ==
  /\ renewing[c]
  /\ lost' = [lost EXCEPT ![c] = TRUE]
  /\ UNCHANGED <<phase, made, renewing, working, outcome, wire, lease, stored>>

\* The tick after maxRenewals.
RenewalCapped(c) ==
  /\ renewing[c]
  /\ renewing' = [renewing EXCEPT ![c] = FALSE]
  /\ lost' = [lost EXCEPT ![c] = TRUE]
  /\ UNCHANGED <<phase, made, working, outcome, wire, lease, stored>>

\* The process dies.  What it has sent may still reach Redis.
Crash(c) ==
  /\ phase[c] \notin {"idle", "done", "crashed"}
  /\ Goes(c, "crashed")
  /\ UNCHANGED <<made, outcome, wire, lease, stored>>
  /\ DropFrame(c)

-----------------------------------------------------------------------------
(* Redis *)

\* Mutant of Runs: evalNumber itself sends a script again that had no reply.
RunsAgain(c, script, awaiting, o) ==
  /\ wire[c] = script
  /\ \/ Puts(c, "none") /\ phase[c] = awaiting /\ Leave(c, o)
     \/ UNCHANGED <<wire, phase, outcome, renewing, made, lost, working>>

\* Redis runs a script of c.  Its process, if it still awaits the reply, leaves
\* with o; or the reply never arrives, and the script may be sent again.
Runs(c, script, awaiting, o) ==
  /\ wire[c] = script
  /\ \/ Puts(c, "none") /\ phase[c] = awaiting /\ Leave(c, o)
     \/ /\ \/ Puts(c, "none")
           \/ Resends /\ phase[c] = awaiting /\ UNCHANGED wire
        /\ UNCHANGED <<phase, outcome, renewing, made, lost, working>>

\* XADD with an exact MAXLEN: the stream keeps its last MaxLen entries.
Trim(s) == IF MaxLen > 0 /\ Len(s) > MaxLen
           THEN SubSeq(s, Len(s) - MaxLen + 1, Len(s))
           ELSE s

\* Mutant of AddEntries: seq is taken from the length of the stream.
AddEntriesByLength(c, kind, n) ==
  LET entries == [i \in 1..n |-> [seq |-> Len(log) + i - 1, call |-> c, kind |-> kind]]
  IN /\ seq' = seq + n
     /\ log' = IF n = 0 THEN log ELSE Trim(log \o entries)
     /\ journal' = journal \o entries

\* INCRBY the counter and XADD n entries.  Appending nothing trims nothing.
AddEntries(c, kind, n) ==
  LET entries == [i \in 1..n |-> [seq |-> seq + i - 1, call |-> c, kind |-> kind]]
  IN /\ seq' = seq + n
     /\ log' = IF n = 0 THEN log ELSE Trim(log \o entries)
     /\ journal' = journal \o entries

IsApplied(c) == \E i \in DOMAIN applied : applied[i] = c

\* A second run of one commit writes again what the first one wrote.
Applies(c) == applied' = IF IsApplied(c) THEN applied ELSE Append(applied, c)

\* Mutant of Commit: the script does not compare the token.
CommitUnfenced(c) ==
  /\ Runs(c, "commit", "committing", Resolved("committed", c))
  /\ state' = Append(working[c], c)
  /\ dedup' = {d \in dedup : d.request # request[c]}
                \cup {[request |-> request[c], command |-> command[c], result |-> c]}
  /\ AddEntries(c, "event", EventsOf[c])
  /\ Applies(c)
  /\ UNCHANGED <<lease, expiries>>

\* COMMIT_TURN while the lease key holds the token of c: the one commit point.
Commit(c) ==
  /\ Runs(c, "commit", "committing", Resolved("committed", c))
  /\ lease = c
  /\ state' = Append(working[c], c)
  /\ dedup' = {d \in dedup : d.request # request[c]}
                \cup {[request |-> request[c], command |-> command[c], result |-> c]}
  /\ AddEntries(c, "event", EventsOf[c])
  /\ Applies(c)
  /\ UNCHANGED <<lease, expiries>>

\* COMMIT_TURN finds another token, or none.
CommitRefused(c) ==
  /\ Runs(c, "commit", "committing", Rejected("leaseLost"))
  /\ lease # c
  /\ UNCHANGED <<lease, stored>>

\* COMMIT_TURN meets a key of the wrong type before its first write.
CommitAborts(c) ==
  /\ Runs(c, "commit", "committing", Rejected("failed"))
  /\ lease = c
  /\ UNCHANGED <<lease, stored>>

\* APPEND_TURN_FAILURE: not gated by the lease.
Mark(c) ==
  /\ Runs(c, "marker", "marking", outcome[c])
  /\ AddEntries(c, "timeout", 1)
  /\ UNCHANGED <<lease, state, dedup, applied, expiries>>

\* RELEASE_LEASE deletes the key only while it holds the token of c.
Release(c) ==
  /\ phase[c] = "releasing"
  /\ Goes(c, "done")
  /\ lease' = IF lease = c THEN NoCall ELSE lease
  /\ UNCHANGED <<made, lost, renewing, working, outcome, wire, stored>>

\* PX leaseMs runs out.
LeaseLapses ==
  /\ lease # NoCall
  /\ lease' = NoCall
  /\ UNCHANGED <<phase, made, lost, renewing, working, outcome, wire, stored>>

\* The dedup hash expires as a whole, dedupTtlSeconds after the last commit.
DedupExpires ==
  /\ dedup # {}
  /\ dedup' = {}
  /\ expiries' = expiries \cup {Len(applied)}
  /\ UNCHANGED <<phase, made, lost, renewing, working, outcome, wire, lease,
                 state, seq, log, applied, journal>>

-----------------------------------------------------------------------------
Process(c) ==
  \/ \E r \in Requests, k \in Commands : Invoke(c, r, k)
  \/ Acquire(c) \/ AcquireFails(c) \/ Replay(c) \/ Miss(c) \/ Load(c) \/ TurnFails(c)
  \/ DeadlinePasses(c) \/ GiveUp(c) \/ SendCommit(c) \/ ConnectionFails(c)
  \/ RenewalFails(c) \/ RenewalCapped(c) \/ Crash(c)

Redis(c) ==
  \/ Commit(c) \/ CommitRefused(c) \/ CommitAborts(c) \/ Mark(c) \/ Release(c)

Next == (\E c \in Calls : Process(c) \/ Redis(c)) \/ LeaseLapses \/ DedupExpires

Spec == Init /\ [][Next]_vars

\* The seat's own clocks: the interval timer of a live process reaches the cap it
\* counts to, and a lease nobody renews runs out of its PX.
Lapse(c) == lease = c /\ ~renewing[c] /\ LeaseLapses

Fairness == \A c \in Calls : WF_vars(RenewalCapped(c)) /\ WF_vars(Lapse(c))

FairSpec == Spec /\ Fairness

-----------------------------------------------------------------------------
(* Properties *)

TypeOK ==
  /\ phase \in [Calls -> Phases]
  /\ request \in [Calls -> Requests \cup {NoCall}]
  /\ command \in [Calls -> Commands \cup {NoCall}]
  /\ lost \in [Calls -> BOOLEAN]
  /\ renewing \in [Calls -> BOOLEAN]
  /\ working \in [Calls -> Seq(Calls)]
  /\ outcome \in [Calls -> Outcomes]
  /\ wire \in [Calls -> Scripts]
  /\ lease \in Calls \cup {NoCall}
  /\ state \in Seq(Calls)
  /\ dedup \subseteq Results
  /\ seq \in Nat
  /\ log \in Seq(Entry)
  /\ applied \in Seq(Calls)
  /\ journal \in Seq(Entry)
  /\ expiries \subseteq Nat
  /\ \A c \in Calls :
       phase[c] # "idle" => request[c] \in Requests /\ command[c] \in Commands

\* No lost update: whatever leases lapse and whichever processes stall, crash or
\* come back late, the state key is what the committed turns, in order, made of it.
NoLostUpdate == state = applied

\* A requestId is applied again only after the dedup hash has expired in between,
\* however often its callers retried after an error that told them nothing.
AtMostOnceUntilExpiry ==
  \A i, j \in DOMAIN applied :
    (i < j /\ request[applied[i]] = request[applied[j]])
      => \E e \in expiries : i <= e /\ e < j

\* The errors after which a turn is not applied and cannot be.  Of a lost lease that
\* holds only if no script is sent again: the second run may be refused after the
\* first has committed.
FinalErrors == IF Resends THEN {"timeout", "busy"} ELSE {"timeout", "busy", "leaseLost"}

\* A success names a commit of the same request and command.  The runtime's own
\* errors (deadline, lease) are final: such a turn is not applied and cannot be,
\* with nothing left on the wire that could still apply it.
AnswersAreFinal ==
  \A c \in Calls :
    /\ outcome[c].kind \in {"committed", "replayed"} =>
         LET d == outcome[c].from IN
         IsApplied(d) /\ request[d] = request[c] /\ command[d] = command[c]
    /\ outcome[c].kind \in FinalErrors => ~IsApplied(c) /\ wire[c] # "commit"

\* seq comes from the counter, never from the stream: it is dense over the whole
\* life of the identity, and the stream is the end of that journal.
JournalIsASuffix ==
  /\ seq = Len(journal)
  /\ \A i \in DOMAIN journal : journal[i].seq = i - 1
  /\ Len(log) = IF MaxLen > 0 /\ Len(journal) > MaxLen THEN MaxLen ELSE Len(journal)
  /\ \A i \in DOMAIN log : log[i] = journal[Len(journal) - Len(log) + i]

\* Each committed turn has its events in the journal once, side by side, and a turn
\* marked as timed out has one marker and no commit.
JournalMatchesCommits ==
  \A c \in Calls :
    LET events == {i \in DOMAIN journal : journal[i].call = c /\ journal[i].kind = "event"}
        markers == {i \in DOMAIN journal : journal[i].call = c /\ journal[i].kind = "timeout"}
    IN /\ IF IsApplied(c)
          THEN \E start \in 0..Len(journal) : events = (start + 1)..(start + EventsOf[c])
          ELSE events = {}
       /\ markers # {} => ~IsApplied(c)
       /\ \A i, j \in markers : i = j

\* A seat is never wedged: no call holds the lease for ever, not even when its
\* process has crashed, its release was lost or its commit is never answered.
SeatIsNeverWedged == \A c \in Calls : lease = c ~> lease # c

(* The inductive invariant behind the safety properties above. *)

\* Only a call that is past its turn has sent a commit; and unless scripts are sent
\* again, what is on the wire has not run.
ScriptInv ==
  \A c \in Calls :
    /\ (wire[c] = "commit" \/ IsApplied(c))
         => phase[c] \in {"committing", "releasing", "done", "crashed"}
    /\ (~Resends /\ wire[c] = "commit") => ~IsApplied(c)

\* The fence: while a call holds the lease, what it has read is the newest, and its
\* commit script writes what was not there, or once more what it wrote before.
FencingInv ==
  \A c \in Calls :
    lease = c =>
      /\ phase[c] = "loading" => ~Known(request[c])
      /\ (phase[c] = "receiving" \/ wire[c] = "commit") =>
           IF IsApplied(c) THEN state = Append(working[c], c)
                           ELSE working[c] = state /\ ~Known(request[c])

\* The dedup hash names commits, and misses one only after it has expired.
DedupInv ==
  /\ \A d \in dedup :
       /\ IsApplied(d.result)
       /\ d.request = request[d.result] /\ d.command = command[d.result]
  /\ \A i \in DOMAIN applied :
       Known(request[applied[i]]) \/ \E e \in expiries : i <= e
  /\ \A e \in expiries : e <= Len(applied)

\* A call whose turn has not ended has been told nothing yet.
AnswerInv ==
  \A c \in Calls :
    phase[c] \in {"idle", "acquiring", "looking", "loading", "receiving", "committing"}
      => outcome[c] = Pending

\* Whatever leases, connections and processes do between two steps of a call, the
\* lease it holds, the frame it has and the script it has sent fit what Redis stores.
IInv ==
  /\ ScriptInv /\ FencingInv /\ DedupInv /\ AnswerInv
  /\ NoLostUpdate /\ AtMostOnceUntilExpiry /\ AnswersAreFinal /\ JournalIsASuffix

\* What a call has come to: a commit counts from the moment Redis has made it, and
\* an error is final once no commit is left on the wire.
Fate(c) ==
  IF phase[c] = "idle" THEN [kind |-> "unsent"]
  ELSE IF IsApplied(c) THEN Resolved("committed", c)
  ELSE IF wire[c] = "commit" THEN Pending
  ELSE IF outcome[c].kind \in {"busy", "leaseLost"} THEN Rejected("failed")
  ELSE outcome[c]

Seat == INSTANCE ActorSeat WITH
  EventCounts <- {EventsOf[c] : c \in Calls},
  fate <- [c \in Calls |-> Fate(c)],
  history <- state,
  memory <- {d.request : d \in dedup}

\* Every step is a step of the contract the in-process runtimes keep, or none.
ImplementsActorSeat == Seat!Spec
=============================================================================
