--------------------------- MODULE RedisRuntimeProofs ---------------------------
(***************************************************************************)
(* What RedisRuntime guarantees for any number of calls and processes, any *)
(* retention, and whether or not the client sends unanswered scripts again.*)
(***************************************************************************)
EXTENDS RedisRuntime, SequenceTheorems, TLAPS

-----------------------------------------------------------------------------
(* Types *)

LEMMA OutcomesAreTyped ==
  /\ Pending \in Outcomes
  /\ \A k \in Errors : Rejected(k) \in Outcomes
  /\ \A k \in {"committed", "replayed"}, d \in Calls : Resolved(k, d) \in Outcomes
  BY DEF Outcomes, Pending, Rejected, Resolved

LEMMA OutcomesDiffer ==
  /\ Pending.kind = "pending"
  /\ \A k : Rejected(k).kind = k
  /\ \A k, d : Resolved(k, d).kind = k /\ Resolved(k, d).from = d
  BY DEF Pending, Rejected, Resolved

\* The variables of the calls' processes.
FramesOK ==
  /\ phase \in [Calls -> Phases]
  /\ request \in [Calls -> Requests \cup {NoCall}]
  /\ command \in [Calls -> Commands \cup {NoCall}]
  /\ lost \in [Calls -> BOOLEAN]
  /\ renewing \in [Calls -> BOOLEAN]
  /\ working \in [Calls -> Seq(Calls)]
  /\ outcome \in [Calls -> Outcomes]
  /\ wire \in [Calls -> Scripts]
  /\ \A c \in Calls :
       phase[c] # "idle" => request[c] \in Requests /\ command[c] \in Commands

\* The variables of Redis, and the history.
StoreOK ==
  /\ lease \in Calls \cup {NoCall}
  /\ state \in Seq(Calls)
  /\ dedup \subseteq Results
  /\ seq \in Nat
  /\ log \in Seq(Entry)
  /\ applied \in Seq(Calls)
  /\ journal \in Seq(Entry)
  /\ expiries \subseteq Nat

LEMMA TypeParts == TypeOK <=> FramesOK /\ StoreOK
  BY DEF TypeOK, FramesOK, StoreOK

\* What leaving does to the frames.
LEMMA LeaveTyped ==
  ASSUME FramesOK, NEW c \in Calls, phase[c] # "idle", NEW o \in Outcomes,
         Leave(c, o), wire' \in [Calls -> Scripts]
  PROVE  FramesOK'
  <1>1. phase' \in [Calls -> Phases] /\ outcome' \in [Calls -> Outcomes]
    BY DEF Leave, Goes, Told, FramesOK, Phases
  <1>2. lost' \in [Calls -> BOOLEAN] /\ renewing' \in [Calls -> BOOLEAN]
    BY DEF Leave, DropFrame, FramesOK
  <1>3. working' \in [Calls -> Seq(Calls)]
    <2>1. [working EXCEPT ![c] = <<>>] \in [Calls -> Seq(Calls)]
      BY DEF FramesOK
    <2> QED
      BY <2>1 DEF Leave, DropFrame, FramesOK
  <1>4. UNCHANGED <<request, command>>
    BY DEF Leave, made
  <1>5. \A d \in Calls : phase'[d] # "idle" => phase[d] # "idle"
    BY DEF Leave, Goes, FramesOK
  <1> QED
    BY <1>1, <1>2, <1>3, <1>4, <1>5 DEF FramesOK

\* A script leaves the wire, or stays on it to run again.
LEMMA RunsTyped ==
  ASSUME FramesOK, NEW c \in Calls, NEW script, NEW awaiting, awaiting # "idle",
         NEW o \in Outcomes, Runs(c, script, awaiting, o)
  PROVE  FramesOK'
  <1>1. wire' \in [Calls -> Scripts]
    BY DEF Runs, Puts, FramesOK, Scripts
  <1>2. CASE phase[c] = awaiting /\ Leave(c, o)
    BY <1>1, <1>2, LeaveTyped
  <1>3. CASE UNCHANGED <<phase, outcome, renewing, made, lost, working>>
    BY <1>1, <1>3 DEF FramesOK, made
  <1> QED
    BY <1>2, <1>3 DEF Runs

\* n entries appended to the journal take the next n seqs.
NewEntries(c, kind, n) == [i \in 1..n |-> [seq |-> seq + i - 1, call |-> c, kind |-> kind]]

\* A trimmed stream is the end of what it was.
LEMMA TrimKeepsTheEnd ==
  ASSUME NEW s \in Seq(Entry), NEW m \in Nat, Len(s) = m, MaxLen > 0, m > MaxLen
  PROVE  /\ Trim(s) \in Seq(Entry) /\ Len(Trim(s)) = MaxLen
         /\ \A i \in 1..MaxLen : Trim(s)[i] = s[m - MaxLen + i]
  <1>1. PICK k \in Int : k = m - MaxLen + 1
    BY MaxLenAssumption
  <1>2. Trim(s) = SubSeq(s, k, m)
    BY <1>1 DEF Trim
  <1>3. \A i \in k..m : s[i] \in Entry
    BY <1>1, ElementOfSeq, MaxLenAssumption
  <1>4. /\ SubSeq(s, k, m) \in Seq(Entry)
        /\ Len(SubSeq(s, k, m)) = IF k <= m THEN m - k + 1 ELSE 0
        /\ \A i \in 1..(m - k + 1) : SubSeq(s, k, m)[i] = s[k + i - 1]
    BY <1>3, SubSeqProperties
  <1>5. k <= m /\ m - k + 1 = MaxLen /\ \A i \in 1..MaxLen : k + i - 1 = m - MaxLen + i
    BY <1>1, MaxLenAssumption
  <1> QED
    BY <1>2, <1>4, <1>5

LEMMA AddEntriesTyped ==
  ASSUME StoreOK, NEW c \in Calls, NEW kind \in {"event", "timeout"}, NEW n \in Nat,
         AddEntries(c, kind, n)
  PROVE  /\ seq' = seq + n /\ seq' \in Nat
         /\ NewEntries(c, kind, n) \in Seq(Entry) /\ Len(NewEntries(c, kind, n)) = n
         /\ journal' = journal \o NewEntries(c, kind, n) /\ journal' \in Seq(Entry)
         /\ log' = IF n = 0 THEN log ELSE Trim(log \o NewEntries(c, kind, n))
         /\ log' \in Seq(Entry)
  <1> DEFINE new == NewEntries(c, kind, n)
  <1>1. new \in Seq(Entry) /\ Len(new) = n
    <2>1. \A i \in 1..n : [seq |-> seq + i - 1, call |-> c, kind |-> kind] \in Entry
      <3> SUFFICES ASSUME NEW i \in 1..n
                   PROVE  [seq |-> seq + i - 1, call |-> c, kind |-> kind] \in Entry
        OBVIOUS
      <3>1. seq + i - 1 \in Nat
        BY DEF StoreOK
      <3> QED
        BY <3>1 DEF Entry
    <2>2. new \in [1..n -> Entry]
      BY <2>1 DEF NewEntries
    <2> QED
      BY <2>2
  <1>2. /\ seq' = seq + n
        /\ journal' = journal \o new
        /\ log' = IF n = 0 THEN log ELSE Trim(log \o new)
    BY DEF AddEntries, NewEntries
  <1> HIDE DEF new
  <1>3. journal \o new \in Seq(Entry) /\ log \o new \in Seq(Entry)
    BY <1>1, ConcatProperties DEF StoreOK
  <1>4. Trim(log \o new) \in Seq(Entry)
    <2>1. PICK s \in Seq(Entry) : s = log \o new
      BY <1>3
    <2>2. PICK m \in Nat : m = Len(s)
      BY <2>1, LenProperties
    <2>3. CASE MaxLen > 0 /\ m > MaxLen
      BY <2>1, <2>2, <2>3, TrimKeepsTheEnd
    <2>4. CASE ~(MaxLen > 0 /\ m > MaxLen)
      BY <2>1, <2>2, <2>4 DEF Trim
    <2> QED
      BY <2>3, <2>4
  <1>5. seq + n \in Nat
    BY DEF StoreOK
  <1> QED
    BY <1>1, <1>2, <1>3, <1>4, <1>5 DEF StoreOK, new

\* What a commit does to the history.
LEMMA AppliesEffect ==
  ASSUME StoreOK, NEW c \in Calls, Applies(c)
  PROVE  /\ \A d \in Calls : IsApplied(d)' <=> IsApplied(d) \/ d = c
         /\ \A i \in DOMAIN applied : i \in DOMAIN applied' /\ applied'[i] = applied[i]
         /\ IF IsApplied(c) THEN applied' = applied
            ELSE /\ Len(applied') = Len(applied) + 1
                 /\ DOMAIN applied' = DOMAIN applied \cup {Len(applied) + 1}
                 /\ applied'[Len(applied) + 1] = c
  <1>1. CASE IsApplied(c)
    BY <1>1 DEF Applies, IsApplied
  <1>2. CASE ~IsApplied(c)
    <2>1. PICK n \in Nat : n = Len(applied)
      BY LenProperties DEF StoreOK
    <2>2. PICK s \in Seq(Calls) : s = Append(applied, c)
      BY AppendProperties DEF StoreOK
    <2>3. /\ Len(s) = n + 1 /\ s[n + 1] = c
          /\ \A i \in 1..n : s[i] = applied[i]
      BY <2>1, <2>2, AppendProperties DEF StoreOK
    <2>4. DOMAIN s = 1..(n + 1) /\ DOMAIN applied = 1..n
      BY <2>1, <2>3, LenProperties DEF StoreOK
    <2>5. applied' = s
      BY <1>2, <2>2 DEF Applies
    <2>6. \A d \in Calls : IsApplied(d)' <=> IsApplied(d) \/ d = c
      BY <2>3, <2>4, <2>5 DEF IsApplied
    <2> QED
      BY <1>2, <2>1, <2>3, <2>4, <2>5, <2>6
  <1> QED
    BY <1>1, <1>2

\* Only a call past its turn has a commit on the wire, and unless scripts are sent
\* again a commit on the wire has not run.
LEMMA ScriptInductive ==
  ASSUME FramesOK, StoreOK, ScriptInv, [Next]_vars
  PROVE  ScriptInv'
  <1> USE DEF ScriptInv, FramesOK
  <1>1. ASSUME UNCHANGED applied,
               \A d \in Calls :
                 /\ phase[d] \in {"committing", "releasing", "done", "crashed"}
                      => phase'[d] \in {"committing", "releasing", "done", "crashed"}
                 /\ wire'[d] = "commit" => wire[d] = "commit"
        PROVE  ScriptInv'
    BY <1>1 DEF IsApplied
  <1>2. ASSUME NEW c \in Calls, NEW o, NEW script, NEW awaiting, awaiting # "idle",
               Runs(c, script, awaiting, o), UNCHANGED applied
        PROVE  ScriptInv'
    <2>1. \A d \in Calls : wire'[d] = "commit" => wire[d] = "commit"
      BY <1>2 DEF Runs, Puts
    <2>2. CASE Leave(c, o)
      BY <1>1, <1>2, <2>1, <2>2 DEF Leave, Goes
    <2>3. CASE UNCHANGED phase
      BY <1>1, <1>2, <2>1, <2>3
    <2> QED
      BY <1>2, <2>2, <2>3 DEF Runs
  <1>3. ASSUME NEW c \in Calls, NEW o, Leave(c, o), UNCHANGED <<wire, applied>>
        PROVE  ScriptInv'
    BY <1>1, <1>3 DEF Leave, Goes
  <1>4. ASSUME NEW c \in Calls, NEW r \in Requests, NEW k \in Commands, Invoke(c, r, k)
        PROVE  ScriptInv'
    BY <1>1, <1>4 DEF Invoke, Goes, stored
  <1>5. ASSUME NEW c \in Calls, Acquire(c) \/ AcquireFails(c) PROVE ScriptInv'
    BY <1>1, <1>5 DEF Acquire, AcquireFails, Goes, stored
  <1>6. ASSUME NEW c \in Calls, Replay(c) \/ TurnFails(c) \/ GiveUp(c) PROVE ScriptInv'
    BY <1>3, <1>6 DEF Replay, TurnFails, GiveUp, stored
  <1>7. ASSUME NEW c \in Calls, Miss(c) \/ Load(c) PROVE ScriptInv'
    BY <1>1, <1>7 DEF Miss, Load, Goes, stored
  <1>8. ASSUME NEW c \in Calls, DeadlinePasses(c) PROVE ScriptInv'
    BY <1>1, <1>8 DEF DeadlinePasses, Goes, Puts, stored
  <1>9. ASSUME NEW c \in Calls, SendCommit(c) PROVE ScriptInv'
    BY <1>9 DEF SendCommit, Goes, Puts, stored, IsApplied
  <1>10. ASSUME NEW c \in Calls, ConnectionFails(c) PROVE ScriptInv'
    <2>1. CASE phase[c] = "releasing" /\ Goes(c, "done")
      BY <1>1, <1>10, <2>1 DEF ConnectionFails, Goes, stored
    <2> QED
      BY <1>3, <1>10, <2>1 DEF ConnectionFails, stored
  <1>11. ASSUME NEW c \in Calls, RenewalFails(c) \/ RenewalCapped(c) PROVE ScriptInv'
    BY <1>1, <1>11 DEF RenewalFails, RenewalCapped, stored
  <1>12. ASSUME NEW c \in Calls, Crash(c) PROVE ScriptInv'
    BY <1>1, <1>12 DEF Crash, Goes, stored
  <1>13. ASSUME NEW c \in Calls, Commit(c) PROVE ScriptInv'
    <2>1. \A d \in Calls : IsApplied(d)' <=> IsApplied(d) \/ d = c
      BY <1>13, AppliesEffect DEF Commit
    <2>2. /\ wire[c] = "commit"
          /\ \A d \in Calls : wire'[d] = "commit" => wire[d] = "commit"
          /\ ~Resends => wire'[c] = "none"
      BY <1>13 DEF Commit, Runs, Puts
    <2>3. \A d \in Calls :
            phase[d] \in {"committing", "releasing", "done", "crashed"}
              => phase'[d] \in {"committing", "releasing", "done", "crashed"}
      BY <1>13 DEF Commit, Runs, Leave, Goes
    <2> QED
      BY <2>1, <2>2, <2>3
  <1>14. ASSUME NEW c \in Calls, CommitRefused(c) \/ CommitAborts(c) \/ Mark(c)
         PROVE  ScriptInv'
    BY <1>2, <1>14 DEF CommitRefused, CommitAborts, Mark, stored
  <1>15. ASSUME NEW c \in Calls, Release(c) PROVE ScriptInv'
    BY <1>1, <1>15 DEF Release, Goes, stored
  <1>16. CASE LeaseLapses \/ DedupExpires
    BY <1>1, <1>16 DEF LeaseLapses, DedupExpires, stored
  <1>17. CASE UNCHANGED vars
    BY <1>1, <1>17 DEF vars
  <1> QED
    BY <1>4, <1>5, <1>6, <1>7, <1>8, <1>9, <1>10, <1>11, <1>12, <1>13, <1>14, <1>15,
       <1>16, <1>17 DEF Next, Process, Redis

LEMMA TypesAndScripts == Spec => [](TypeOK /\ ScriptInv)
  <1>1. Init => TypeOK /\ ScriptInv
    <2>1. <<>> \in Seq(Calls) /\ <<>> \in Seq(Entry)
      OBVIOUS
    <2> QED
      BY <2>1, OutcomesAreTyped DEF Init, TypeOK, Phases, Scripts, ScriptInv, IsApplied
  <1>2. TypeOK /\ ScriptInv /\ [Next]_vars => (TypeOK /\ ScriptInv)'
    <2> SUFFICES ASSUME FramesOK, StoreOK, ScriptInv, [Next]_vars
                 PROVE  FramesOK' /\ StoreOK'
      BY ScriptInductive DEF TypeOK, FramesOK, StoreOK
    <2> USE OutcomesAreTyped
    <2>0. \A k \in {"failed", "timeout", "busy", "leaseLost"} : Rejected(k) \in Outcomes
      BY DEF Errors
    <2>1. ASSUME NEW c \in Calls, NEW r \in Requests, NEW k \in Commands, Invoke(c, r, k)
          PROVE  FramesOK' /\ StoreOK'
      BY <2>1 DEF Invoke, Goes, FramesOK, StoreOK, stored, Phases
    <2>2. ASSUME NEW c \in Calls, Acquire(c) PROVE FramesOK' /\ StoreOK'
      <3>1. StoreOK'
        BY <2>2 DEF Acquire, StoreOK, stored
      <3>2. FramesOK'
        BY <2>0, <2>2 DEF Acquire, Goes, Told, FramesOK, made, Phases
      <3> QED
        BY <3>1, <3>2
    <2>3. ASSUME NEW c \in Calls, AcquireFails(c) PROVE FramesOK' /\ StoreOK'
      BY <2>0, <2>3 DEF AcquireFails, Goes, Told, FramesOK, StoreOK, stored, made, Phases
    <2>4. ASSUME NEW c \in Calls, NEW o \in Outcomes, phase[c] # "idle", Leave(c, o),
                 UNCHANGED <<wire, lease, stored>>
          PROVE  FramesOK' /\ StoreOK'
      <3>1. FramesOK'
        BY <2>4, LeaveTyped DEF FramesOK
      <3> QED
        BY <2>4, <3>1 DEF StoreOK, stored
    <2>5. ASSUME NEW c \in Calls, Replay(c) PROVE FramesOK' /\ StoreOK'
      <3>1. PICK d \in dedup : Leave(c, IF d.command = command[c]
                                        THEN Resolved("replayed", d.result)
                                        ELSE Rejected("failed"))
        BY <2>5 DEF Replay
      <3>2. d.result \in Calls
        BY DEF StoreOK, Results
      <3> QED
        BY <2>0, <2>4, <2>5, <3>1, <3>2 DEF Replay
    <2>6. ASSUME NEW c \in Calls, Miss(c) PROVE FramesOK' /\ StoreOK'
      BY <2>6 DEF Miss, Goes, FramesOK, StoreOK, stored, made, Phases
    <2>7. ASSUME NEW c \in Calls, Load(c) PROVE FramesOK' /\ StoreOK'
      <3>1. working' \in [Calls -> Seq(Calls)]
        BY <2>7 DEF Load, FramesOK, StoreOK
      <3> QED
        BY <2>7, <3>1 DEF Load, Goes, FramesOK, StoreOK, stored, made, Phases
    <2>8. ASSUME NEW c \in Calls, TurnFails(c) \/ GiveUp(c) PROVE FramesOK' /\ StoreOK'
      BY <2>0, <2>4, <2>8 DEF TurnFails, GiveUp
    <2>9. ASSUME NEW c \in Calls, DeadlinePasses(c) PROVE FramesOK' /\ StoreOK'
      BY <2>0, <2>9 DEF DeadlinePasses, Goes, Told, Puts, FramesOK, StoreOK, stored, made,
                        Phases, Scripts
    <2>10. ASSUME NEW c \in Calls, SendCommit(c) PROVE FramesOK' /\ StoreOK'
      BY <2>10 DEF SendCommit, Goes, Puts, FramesOK, StoreOK, stored, made, Phases, Scripts
    <2>11. ASSUME NEW c \in Calls, ConnectionFails(c) PROVE FramesOK' /\ StoreOK'
      <3>1. outcome[c] \in Outcomes
        BY DEF FramesOK
      <3>2. CASE phase[c] = "releasing" /\ Goes(c, "done")
                 /\ UNCHANGED <<made, lost, working, outcome, renewing>>
        BY <2>11, <3>2 DEF ConnectionFails, Goes, FramesOK, StoreOK, stored, made, Phases
      <3> QED
        BY <2>0, <2>4, <2>11, <3>1, <3>2 DEF ConnectionFails
    <2>12. ASSUME NEW c \in Calls, RenewalFails(c) \/ RenewalCapped(c)
           PROVE  FramesOK' /\ StoreOK'
      BY <2>12 DEF RenewalFails, RenewalCapped, FramesOK, StoreOK, stored, made
    <2>13. ASSUME NEW c \in Calls, Crash(c) PROVE FramesOK' /\ StoreOK'
      <3>1. working' \in [Calls -> Seq(Calls)]
        <4>1. [working EXCEPT ![c] = <<>>] \in [Calls -> Seq(Calls)]
          BY DEF FramesOK
        <4> QED
          BY <2>13, <4>1 DEF Crash, DropFrame, FramesOK
      <3> QED
        BY <2>13, <3>1 DEF Crash, Goes, DropFrame, FramesOK, StoreOK, stored, made, Phases
    <2>14. ASSUME NEW c \in Calls, Commit(c) PROVE FramesOK' /\ StoreOK'
      <3>1. FramesOK'
        BY <2>14, RunsTyped DEF Commit
      <3>2. /\ working[c] \in Seq(Calls)
            /\ EventsOf[c] \in Nat
            /\ request[c] \in Requests /\ command[c] \in Commands
        <4>1. phase[c] # "idle"
          BY <2>14 DEF Commit, Runs, ScriptInv
        <4> QED
          BY <4>1, EventsOfAssumption DEF FramesOK
      <3>3. state' \in Seq(Calls) /\ applied' \in Seq(Calls)
        BY <2>14, <3>2, AppendProperties DEF Commit, Applies, StoreOK
      <3>4. dedup' \subseteq Results
        BY <2>14, <3>2 DEF Commit, StoreOK, Results
      <3>5. seq' \in Nat /\ log' \in Seq(Entry) /\ journal' \in Seq(Entry)
        BY <2>14, <3>2, AddEntriesTyped DEF Commit
      <3> QED
        BY <2>14, <3>1, <3>3, <3>4, <3>5 DEF Commit, StoreOK
    <2>15. ASSUME NEW c \in Calls, CommitRefused(c) \/ CommitAborts(c)
           PROVE  FramesOK' /\ StoreOK'
      <3>1. FramesOK'
        BY <2>0, <2>15, RunsTyped DEF CommitRefused, CommitAborts
      <3> QED
        BY <2>15, <3>1 DEF CommitRefused, CommitAborts, StoreOK, stored
    <2>16. ASSUME NEW c \in Calls, Mark(c) PROVE FramesOK' /\ StoreOK'
      <3>1. FramesOK'
        <4>1. outcome[c] \in Outcomes
          BY DEF FramesOK
        <4> QED
          BY <2>16, <4>1, RunsTyped DEF Mark
      <3>2. seq' \in Nat /\ log' \in Seq(Entry) /\ journal' \in Seq(Entry)
        BY <2>16, AddEntriesTyped DEF Mark
      <3> QED
        BY <2>16, <3>1, <3>2 DEF Mark, StoreOK
    <2>17. ASSUME NEW c \in Calls, Release(c) PROVE FramesOK' /\ StoreOK'
      BY <2>17 DEF Release, Goes, FramesOK, StoreOK, stored, made, Phases
    <2>18. CASE LeaseLapses
      BY <2>18 DEF LeaseLapses, FramesOK, StoreOK, stored, made
    <2>19. CASE DedupExpires
      <3>1. Len(applied) \in Nat
        BY LenProperties DEF StoreOK
      <3> QED
        BY <2>19, <3>1 DEF DedupExpires, FramesOK, StoreOK, made
    <2>20. CASE UNCHANGED vars
      BY <2>20 DEF vars, FramesOK, StoreOK
    <2> QED
      BY <2>1, <2>2, <2>3, <2>5, <2>6, <2>7, <2>8, <2>9, <2>10, <2>11, <2>12, <2>13,
         <2>14, <2>15, <2>16, <2>17, <2>18, <2>19, <2>20 DEF Next, Process, Redis
  <1> QED
    BY <1>1, <1>2, PTL DEF Spec

\* Every variable keeps the type the code gives it.
THEOREM TypeCorrect == Spec => []TypeOK
  BY TypesAndScripts, PTL

-----------------------------------------------------------------------------
(* The fence *)

\* Scripts and leaving touch neither what a waiting commit carries nor who is in a
\* turn.
LEMMA LeaveCalms ==
  ASSUME FramesOK, NEW c \in Calls, NEW o, Leave(c, o)
  PROVE  \A d \in Calls :
           /\ phase'[d] \in {"loading", "receiving"} => phase'[d] = phase[d]
           /\ phase'[d] = "receiving" \/ wire'[d] = "commit" => working'[d] = working[d]
  <1>1. \A d \in Calls : phase'[d] = IF d = c THEN "releasing" ELSE phase[d]
    BY DEF Leave, Goes, FramesOK
  <1>2. \A d \in Calls : d # c => working'[d] = working[d]
    BY DEF Leave, DropFrame, FramesOK
  <1>3. wire'[c] = "commit" => working'[c] = working[c]
    BY DEF Leave, DropFrame
  <1> QED
    BY <1>1, <1>2, <1>3

LEMMA RunsCalms ==
  ASSUME FramesOK, NEW c \in Calls, NEW script, NEW awaiting, NEW o,
         Runs(c, script, awaiting, o)
  PROVE  \A d \in Calls :
           /\ wire'[d] = "commit" => wire[d] = "commit"
           /\ phase'[d] \in {"loading", "receiving"} => phase'[d] = phase[d]
           /\ phase'[d] = "receiving" \/ wire'[d] = "commit" => working'[d] = working[d]
  <1>1. \A d \in Calls : wire'[d] = "commit" => wire[d] = "commit"
    BY DEF Runs, Puts, FramesOK
  <1>2. CASE Leave(c, o)
    BY <1>1, <1>2, LeaveCalms
  <1>3. CASE UNCHANGED <<phase, working>>
    BY <1>1, <1>3
  <1> QED
    BY <1>1, <1>2, <1>3 DEF Runs

\* While a call holds the lease nobody else moves the state or adds to the dedup
\* hash, so its commit builds on what it has read.
LEMMA FencingInductive ==
  ASSUME FramesOK, StoreOK, ScriptInv, FencingInv, [Next]_vars
  PROVE  FencingInv'
  <1> USE DEF FramesOK
  <1> DEFINE Carries(d) == phase[d] = "receiving" \/ wire[d] = "commit"
  <1>1. ASSUME UNCHANGED <<state, applied>>, dedup' \subseteq dedup,
               \A d \in Calls :
                 lease' = d =>
                   /\ lease = d
                   /\ request'[d] = request[d]
                   /\ phase'[d] = "loading" => phase[d] = "loading"
                   /\ Carries(d)' => Carries(d) /\ working'[d] = working[d]
        PROVE  FencingInv'
    <2>1. \A r : Known(r)' => Known(r)
      BY <1>1 DEF Known
    <2>2. \A d \in Calls : IsApplied(d)' <=> IsApplied(d)
      BY <1>1 DEF IsApplied
    <2> QED
      BY <1>1, <2>1, <2>2 DEF FencingInv
  <1>2. ASSUME NEW c \in Calls, NEW o, Leave(c, o), UNCHANGED <<wire, lease, stored>>
        PROVE  FencingInv'
    BY <1>1, <1>2, LeaveCalms DEF Leave, made, stored
  <1>3. ASSUME NEW c \in Calls, NEW r \in Requests, NEW k \in Commands, Invoke(c, r, k)
        PROVE  FencingInv'
    <2>1. /\ phase'[c] = "acquiring" /\ wire'[c] # "commit"
          /\ \A d \in Calls : d # c => phase'[d] = phase[d] /\ request'[d] = request[d]
      BY <1>3 DEF Invoke, Goes, ScriptInv
    <2>2. UNCHANGED <<working, wire, lease, state, dedup, applied>>
      BY <1>3 DEF Invoke, stored
    <2> QED
      BY <2>1, <2>2 DEF FencingInv, Known, IsApplied
  <1>4. ASSUME NEW c \in Calls, Acquire(c) PROVE FencingInv'
    <2>1. phase'[c] \notin {"loading", "receiving"} /\ wire'[c] # "commit" /\ lease' = c
      BY <1>4 DEF Acquire, Goes, ScriptInv
    <2> QED
      BY <2>1 DEF FencingInv
  <1>5. ASSUME NEW c \in Calls, Replay(c) \/ TurnFails(c) \/ GiveUp(c) PROVE FencingInv'
    BY <1>2, <1>5 DEF Replay, TurnFails, GiveUp
  <1>6. ASSUME NEW c \in Calls, Miss(c) PROVE FencingInv'
    <2>1. /\ ~Known(request[c])'
          /\ phase'[c] = "loading" /\ wire'[c] # "commit"
      BY <1>6 DEF Miss, Goes, Known, ScriptInv, stored, made
    <2>2. \A d \in Calls : d # c => phase'[d] = phase[d]
      BY <1>6 DEF Miss, Goes
    <2>3. UNCHANGED <<request, working, wire, lease, state, dedup, applied>>
      BY <1>6 DEF Miss, stored, made
    <2> QED
      BY <2>1, <2>2, <2>3 DEF FencingInv, Known, IsApplied
  <1>7. ASSUME NEW c \in Calls, Load(c) PROVE FencingInv'
    <2>1. /\ phase[c] = "loading" /\ phase'[c] = "receiving"
          /\ working'[c] = state /\ ~IsApplied(c)
      BY <1>7 DEF Load, Goes, ScriptInv
    <2>2. \A d \in Calls : d # c => phase'[d] = phase[d] /\ working'[d] = working[d]
      BY <1>7 DEF Load, Goes
    <2>3. UNCHANGED <<request, wire, lease, state, dedup, applied>>
      BY <1>7 DEF Load, stored, made
    <2> QED
      BY <2>1, <2>2, <2>3 DEF FencingInv, Known, IsApplied
  <1>8. ASSUME NEW c \in Calls, DeadlinePasses(c) PROVE FencingInv'
    BY <1>1, <1>8 DEF DeadlinePasses, Goes, Puts, stored, made
  <1>9. ASSUME NEW c \in Calls, SendCommit(c) PROVE FencingInv'
    BY <1>1, <1>9 DEF SendCommit, Goes, Puts, stored, made
  <1>10. ASSUME NEW c \in Calls, ConnectionFails(c) PROVE FencingInv'
    <2>1. CASE phase[c] = "releasing" /\ Goes(c, "done") /\ UNCHANGED <<made, working>>
      BY <1>1, <1>10, <2>1 DEF ConnectionFails, Goes, stored, made
    <2> QED
      BY <1>2, <1>10, <2>1 DEF ConnectionFails
  <1>11. ASSUME NEW c \in Calls, RenewalFails(c) \/ RenewalCapped(c) PROVE FencingInv'
    BY <1>1, <1>11 DEF RenewalFails, RenewalCapped, stored, made
  <1>12. ASSUME NEW c \in Calls, Crash(c) PROVE FencingInv'
    <2>1. \A d \in Calls : Carries(d)' => Carries(d) /\ working'[d] = working[d]
      BY <1>12 DEF Crash, Goes, DropFrame
    <2> QED
      BY <1>1, <1>12, <2>1 DEF Crash, Goes, stored, made
  <1>13. ASSUME NEW c \in Calls, Commit(c) PROVE FencingInv'
    <2>1. lease = c /\ lease' = c /\ state' = Append(working[c], c)
      BY <1>13 DEF Commit
    <2>2. IsApplied(c)'
      BY <1>13, AppliesEffect DEF Commit
    <2>3. /\ wire'[c] = "commit" => working'[c] = working[c]
          /\ phase'[c] \notin {"loading", "receiving"}
      BY <1>13, RunsCalms DEF Commit, Runs, ScriptInv
    <2> QED
      BY <2>1, <2>2, <2>3 DEF FencingInv
  <1>14. ASSUME NEW c \in Calls, NEW script, NEW awaiting, NEW o,
                Runs(c, script, awaiting, o), UNCHANGED <<lease, state, dedup, applied>>
         PROVE  FencingInv'
    <2>1. UNCHANGED request
      BY <1>14 DEF Runs, Leave, made
    <2> QED
      BY <1>1, <1>14, <2>1, RunsCalms
  <1>15. ASSUME NEW c \in Calls, CommitRefused(c) \/ CommitAborts(c) \/ Mark(c)
         PROVE  FencingInv'
    BY <1>14, <1>15 DEF CommitRefused, CommitAborts, Mark, stored
  <1>16. ASSUME NEW c \in Calls, Release(c) PROVE FencingInv'
    BY <1>1, <1>16, NoCallAssumption DEF Release, Goes, stored, made
  <1>17. CASE LeaseLapses
    BY <1>1, <1>17, NoCallAssumption DEF LeaseLapses, stored, made
  <1>18. CASE DedupExpires
    BY <1>1, <1>18 DEF DedupExpires, made
  <1>19. CASE UNCHANGED vars
    BY <1>1, <1>19 DEF vars
  <1>20. ASSUME NEW c \in Calls, AcquireFails(c) PROVE FencingInv'
    BY <1>1, <1>20 DEF AcquireFails, Goes, stored, made
  <1>21. ASSUME NEW c \in Calls, Process(c) PROVE FencingInv'
    BY <1>3, <1>4, <1>5, <1>6, <1>7, <1>8, <1>9, <1>10, <1>11, <1>12, <1>21,
       <1>20 DEF Process
  <1>22. ASSUME NEW c \in Calls, Redis(c) PROVE FencingInv'
    BY <1>13, <1>15, <1>16, <1>22 DEF Redis
  <1> QED
    BY <1>17, <1>18, <1>19, <1>21, <1>22 DEF Next

-----------------------------------------------------------------------------
(* The dedup hash *)

\* Four kinds of step touch what Redis stores.
LEMMA StoreSteps ==
  ASSUME [Next]_vars
  PROVE  \/ UNCHANGED stored
         \/ \E c \in Calls : Commit(c) \/ Mark(c)
         \/ DedupExpires
  <1>1. ASSUME NEW c \in Calls, Process(c) PROVE UNCHANGED stored
    BY <1>1 DEF Process, Invoke, Acquire, AcquireFails, Replay, Miss, Load, TurnFails,
                DeadlinePasses, GiveUp, SendCommit, ConnectionFails, RenewalFails,
                RenewalCapped, Crash
  <1>2. ASSUME NEW c \in Calls, CommitRefused(c) \/ CommitAborts(c) \/ Release(c)
        PROVE  UNCHANGED stored
    BY <1>2 DEF CommitRefused, CommitAborts, Release
  <1>3. CASE LeaseLapses \/ UNCHANGED vars
    BY <1>3 DEF LeaseLapses, vars, stored
  <1> QED
    BY <1>1, <1>2, <1>3 DEF Next, Redis

\* A call keeps the requestId and the command it was made with.
LEMMA RequestsAreFixed ==
  ASSUME FramesOK, [Next]_vars
  PROVE  \A d \in Calls :
           phase[d] # "idle" => request'[d] = request[d] /\ command'[d] = command[d]
  <1>1. ASSUME NEW c \in Calls, NEW r \in Requests, NEW k \in Commands, Invoke(c, r, k)
        PROVE  \A d \in Calls :
                 phase[d] # "idle" => request'[d] = request[d] /\ command'[d] = command[d]
    BY <1>1 DEF Invoke, FramesOK
  <1>2. ASSUME NEW c \in Calls,
               \/ Acquire(c) \/ AcquireFails(c) \/ Replay(c) \/ Miss(c) \/ Load(c)
               \/ TurnFails(c) \/ DeadlinePasses(c) \/ GiveUp(c) \/ SendCommit(c)
        PROVE  UNCHANGED made
    BY <1>2 DEF Acquire, AcquireFails, Replay, Miss, Load, TurnFails, DeadlinePasses,
                GiveUp, SendCommit, Leave
  <1>3. ASSUME NEW c \in Calls,
               ConnectionFails(c) \/ RenewalFails(c) \/ RenewalCapped(c) \/ Crash(c)
        PROVE  UNCHANGED made
    BY <1>3 DEF ConnectionFails, RenewalFails, RenewalCapped, Crash, Leave
  <1>4. ASSUME NEW c \in Calls, Redis(c) PROVE UNCHANGED made
    BY <1>4 DEF Redis, Commit, CommitRefused, CommitAborts, Mark, Release, Runs, Leave
  <1>5. CASE LeaseLapses \/ DedupExpires \/ UNCHANGED vars
    BY <1>5 DEF LeaseLapses, DedupExpires, vars, made
  <1> QED
    BY <1>1, <1>2, <1>3, <1>4, <1>5 DEF Next, Process, made

\* The requestIds the dedup hash knows after a commit.
LEMMA CommitIsKnown ==
  ASSUME NEW c \in Calls, Commit(c)
  PROVE  \A r : Known(r)' <=> Known(r) \/ r = request[c]
  <1> DEFINE new == [request |-> request[c], command |-> command[c], result |-> c]
  <1>1. /\ new \in dedup' /\ new.request = request[c]
        /\ \A d \in dedup : d.request # request[c] => d \in dedup'
        /\ \A d \in dedup' : d \in dedup \/ d = new
    BY DEF Commit
  <1> HIDE DEF new
  <1> QED
    BY <1>1 DEF Known

LEMMA DedupInductive ==
  ASSUME FramesOK, StoreOK, ScriptInv, DedupInv, [Next]_vars
  PROVE  DedupInv'
  <1>1. \A d \in Calls :
          IsApplied(d) => request'[d] = request[d] /\ command'[d] = command[d]
    BY RequestsAreFixed DEF ScriptInv
  <1>2. \A d \in dedup : d.result \in Calls
    BY DEF StoreOK, Results
  <1>3. PICK n \in Nat : n = Len(applied) /\ DOMAIN applied = 1..n
    BY LenProperties DEF StoreOK
  <1>4. \A i \in DOMAIN applied : applied[i] \in Calls /\ IsApplied(applied[i])
    BY ElementOfSeq, <1>3 DEF StoreOK, IsApplied
  <1>5. CASE UNCHANGED <<dedup, applied, expiries>>
    <2>1. \A d \in Calls : IsApplied(d)' <=> IsApplied(d)
      BY <1>5 DEF IsApplied
    <2>2. \A r : Known(r)' <=> Known(r)
      BY <1>5 DEF Known
    <2> QED
      BY <1>1, <1>2, <1>4, <1>5, <2>1, <2>2 DEF DedupInv
  <1>6. ASSUME NEW c \in Calls, Commit(c) PROVE DedupInv'
    <2>1. /\ \A d \in Calls : IsApplied(d)' <=> IsApplied(d) \/ d = c
          /\ \A i \in DOMAIN applied : i \in DOMAIN applied' /\ applied'[i] = applied[i]
          /\ \/ applied' = applied
             \/ /\ Len(applied') = n + 1 /\ DOMAIN applied' = 1..(n + 1)
                /\ applied'[n + 1] = c
      <3>1. DOMAIN applied \cup {n + 1} = 1..(n + 1)
        BY <1>3
      <3> QED
        BY <1>3, <1>6, <3>1, AppliesEffect DEF Commit
    <2>2. expiries' = expiries
      BY <1>6 DEF Commit
    <2>3. request'[c] = request[c] /\ command'[c] = command[c]
      BY <1>6, RequestsAreFixed DEF Commit, Runs, ScriptInv
    <2>4. \A d \in dedup' :
            IsApplied(d.result)' /\ d.request = request'[d.result]
              /\ d.command = command'[d.result]
      <3> SUFFICES ASSUME NEW d \in dedup'
                   PROVE  IsApplied(d.result)' /\ d.request = request'[d.result]
                            /\ d.command = command'[d.result]
        OBVIOUS
      <3>1. CASE d \in dedup
        BY <1>1, <1>2, <2>1, <3>1 DEF DedupInv
      <3>2. CASE d = [request |-> request[c], command |-> command[c], result |-> c]
        BY <2>1, <2>3, <3>2
      <3> QED
        BY <1>6, <3>1, <3>2 DEF Commit
    <2>5. \A i \in DOMAIN applied' :
            Known(request[applied[i]])' \/ \E e \in expiries' : i <= e
      <3> SUFFICES ASSUME NEW i \in DOMAIN applied'
                   PROVE  Known(request[applied[i]])' \/ \E e \in expiries' : i <= e
        OBVIOUS
      <3>1. CASE i \in DOMAIN applied
        <4>1. request'[applied'[i]] = request[applied[i]]
          BY <1>1, <1>4, <2>1, <3>1
        <4> QED
          BY <1>6, <2>2, <3>1, <4>1, CommitIsKnown DEF DedupInv
      <3>2. CASE applied'[i] = c
        BY <1>6, <2>3, <3>2, CommitIsKnown
      <3> QED
        BY <1>3, <2>1, <3>1, <3>2
    <2>6. \A e \in expiries' : e <= Len(applied')
      BY <1>3, <2>1, <2>2 DEF DedupInv, StoreOK
    <2> QED
      BY <2>4, <2>5, <2>6 DEF DedupInv
  <1>7. CASE DedupExpires
    <2>1. dedup' = {} /\ expiries' = expiries \cup {n} /\ applied' = applied
      BY <1>3, <1>7 DEF DedupExpires
    <2> QED
      BY <1>3, <2>1 DEF DedupInv
  <1> QED
    BY <1>5, <1>6, <1>7, StoreSteps DEF stored, Mark

-----------------------------------------------------------------------------
(* The order of the commits *)

\* The state is replaced only by a commit that holds the lease, which builds on it;
\* and a commit of a requestId that was applied before found no record of it.
LEMMA OrderInductive ==
  ASSUME FramesOK, StoreOK, ScriptInv, FencingInv, DedupInv,
         NoLostUpdate, AtMostOnceUntilExpiry, [Next]_vars
  PROVE  NoLostUpdate' /\ AtMostOnceUntilExpiry'
  <1>1. PICK n \in Nat : n = Len(applied) /\ DOMAIN applied = 1..n
    BY LenProperties DEF StoreOK
  <1>2. \A i \in DOMAIN applied : applied[i] \in Calls /\ IsApplied(applied[i])
    BY ElementOfSeq, <1>1 DEF StoreOK, IsApplied
  <1>3. \A i \in DOMAIN applied : request'[applied[i]] = request[applied[i]]
    BY <1>2, RequestsAreFixed DEF ScriptInv
  <1>4. CASE UNCHANGED <<state, applied>> /\ expiries \subseteq expiries'
    BY <1>3, <1>4 DEF NoLostUpdate, AtMostOnceUntilExpiry
  <1>5. ASSUME NEW c \in Calls, Commit(c)
        PROVE  NoLostUpdate' /\ AtMostOnceUntilExpiry'
    <2>1. lease = c /\ wire[c] = "commit"
      BY <1>5 DEF Commit, Runs
    <2>2. CASE IsApplied(c)
      <3>1. state' = state /\ applied' = applied /\ expiries' = expiries
        BY <1>5, <2>1, <2>2 DEF Commit, FencingInv, Applies
      <3> QED
        BY <1>4, <3>1
    <2>3. CASE ~IsApplied(c)
      <3>1. working[c] = applied /\ ~Known(request[c])
        BY <2>1, <2>3 DEF FencingInv, NoLostUpdate
      <3>2. state' = Append(applied, c) /\ applied' = Append(applied, c)
            /\ expiries' = expiries
        BY <1>5, <2>3, <3>1 DEF Commit, Applies
      <3>3. /\ DOMAIN applied' = 1..(n + 1) /\ applied'[n + 1] = c
            /\ \A i \in 1..n : applied'[i] = applied[i]
        <4>1. PICK s \in Seq(Calls) : s = Append(applied, c)
          BY AppendProperties DEF StoreOK
        <4>2. Len(s) = n + 1 /\ s[n + 1] = c /\ \A i \in 1..n : s[i] = applied[i]
          BY <1>1, <4>1, AppendProperties DEF StoreOK
        <4> QED
          BY <3>2, <4>1, <4>2, LenProperties
      <3>4. request'[c] = request[c]
        BY <2>1, RequestsAreFixed DEF ScriptInv
      <3>5. ASSUME NEW i \in DOMAIN applied', NEW j \in DOMAIN applied', i < j,
                   request'[applied'[i]] = request'[applied'[j]]
            PROVE  \E e \in expiries' : i <= e /\ e < j
        <4>1. i \in 1..n /\ j \in 1..(n + 1)
          BY <3>3, <3>5
        <4>2. CASE j \in 1..n
          BY <1>1, <1>3, <3>2, <3>3, <3>5, <4>1, <4>2 DEF AtMostOnceUntilExpiry
        <4>3. CASE j = n + 1
          <5>1. request[applied[i]] = request[c]
            BY <1>1, <1>3, <3>3, <3>4, <3>5, <4>1, <4>3
          <5>2. PICK e \in expiries : i <= e
            BY <1>1, <3>1, <4>1, <5>1 DEF DedupInv
          <5>3. e <= n /\ e \in Nat
            BY <1>1 DEF DedupInv, StoreOK
          <5> QED
            BY <3>2, <4>3, <5>2, <5>3
        <4> QED
          BY <4>1, <4>2, <4>3
      <3> QED
        BY <3>2, <3>5 DEF NoLostUpdate, AtMostOnceUntilExpiry
    <2> QED
      BY <2>2, <2>3
  <1>6. CASE DedupExpires
    BY <1>4, <1>6 DEF DedupExpires
  <1> QED
    BY <1>4, <1>5, <1>6, StoreSteps DEF stored, Mark

-----------------------------------------------------------------------------
(* The answers *)

\* A commit is on the wire because it was there, or because a turn has returned.
LEMMA WireSteps ==
  ASSUME FramesOK, [Next]_vars
  PROVE  \A d \in Calls :
           wire'[d] = "commit" => wire[d] = "commit" \/ phase[d] = "receiving"
  <1>1. ASSUME NEW c \in Calls, SendCommit(c)
        PROVE  \A d \in Calls :
                 wire'[d] = "commit" => wire[d] = "commit" \/ phase[d] = "receiving"
    BY <1>1 DEF SendCommit, Puts, FramesOK
  <1>2. ASSUME NEW c \in Calls, DeadlinePasses(c)
        PROVE  \A d \in Calls : wire'[d] = "commit" => wire[d] = "commit"
    BY <1>2 DEF DeadlinePasses, Puts, FramesOK
  <1>3. ASSUME NEW c \in Calls, Process(c), ~SendCommit(c), ~DeadlinePasses(c)
        PROVE  UNCHANGED wire
    BY <1>3 DEF Process, Invoke, Acquire, AcquireFails, Replay, Miss, Load, TurnFails,
                GiveUp, ConnectionFails, RenewalFails, RenewalCapped, Crash
  <1>4. ASSUME NEW c \in Calls, NEW script, NEW awaiting, NEW o,
               Runs(c, script, awaiting, o)
        PROVE  \A d \in Calls : wire'[d] = "commit" => wire[d] = "commit"
    BY <1>4 DEF Runs, Puts, FramesOK
  <1>5. ASSUME NEW c \in Calls, Redis(c)
        PROVE  \A d \in Calls : wire'[d] = "commit" => wire[d] = "commit"
    BY <1>4, <1>5 DEF Redis, Commit, CommitRefused, CommitAborts, Mark, Release
  <1>6. CASE LeaseLapses \/ DedupExpires \/ UNCHANGED vars
    BY <1>6 DEF LeaseLapses, DedupExpires, vars
  <1> QED
    BY <1>1, <1>2, <1>3, <1>5, <1>6 DEF Next

\* Only the run of its own commit script applies a call.
LEMMA AppliedSteps ==
  ASSUME StoreOK, [Next]_vars
  PROVE  \A d \in Calls : /\ IsApplied(d) => IsApplied(d)'
                          /\ IsApplied(d)' => IsApplied(d) \/ Commit(d)
  <1>1. CASE UNCHANGED applied
    BY <1>1 DEF IsApplied
  <1>2. ASSUME NEW c \in Calls, Commit(c)
        PROVE  \A d \in Calls : /\ IsApplied(d) => IsApplied(d)'
                                /\ IsApplied(d)' => IsApplied(d) \/ Commit(d)
    BY <1>2, AppliesEffect DEF Commit
  <1> QED
    BY <1>1, <1>2, StoreSteps DEF stored, Mark, DedupExpires

\* What AnswersAreFinal says of one call.
Sound(c) ==
  /\ outcome[c].kind \in {"committed", "replayed"} =>
       LET d == outcome[c].from IN
       IsApplied(d) /\ request[d] = request[c] /\ command[d] = command[c]
  /\ outcome[c].kind \in FinalErrors => ~IsApplied(c) /\ wire[c] # "commit"

\* An answer stays what it was.
LEMMA OldAnswersStand ==
  ASSUME FramesOK, StoreOK, ScriptInv, AnswerInv, [Next]_vars, NEW c \in Calls,
         Sound(c), outcome'[c] = outcome[c]
  PROVE  Sound(c)'
  <1>1. CASE outcome[c].kind \in {"committed", "replayed"}
    <2>1. PICK d \in Calls : d = outcome[c].from
      <3>1. outcome[c] \in Outcomes
        BY DEF FramesOK
      <3>2. outcome[c] \in [kind : {"committed", "replayed"}, from : Calls]
        BY <1>1, <3>1 DEF Outcomes, Pending, Errors
      <3> QED
        BY <3>2
    <2>2. IsApplied(d) /\ request[d] = request[c] /\ command[d] = command[c]
      BY <1>1, <2>1 DEF Sound
    <2>3. IsApplied(d)'
      BY <2>2, AppliedSteps
    <2>4. phase[d] # "idle" /\ phase[c] # "idle"
      BY <1>1, <2>2 DEF ScriptInv, AnswerInv, Pending
    <2>5. request'[d] = request'[c] /\ command'[d] = command'[c]
      BY <2>2, <2>4, RequestsAreFixed
    <2> QED
      BY <1>1, <2>1, <2>3, <2>5 DEF Sound, FinalErrors
  <1>2. CASE outcome[c].kind \in FinalErrors
    <2>1. ~IsApplied(c) /\ wire[c] # "commit"
      BY <1>2 DEF Sound
    <2>2. phase[c] # "receiving"
      BY <1>2 DEF AnswerInv, FinalErrors, Pending
    <2>3. ~IsApplied(c)'
      BY <2>1, AppliedSteps DEF Commit, Runs
    <2> QED
      BY <1>2, <2>1, <2>2, <2>3, WireSteps DEF Sound, FinalErrors
  <1> QED
    BY <1>1, <1>2 DEF Sound, FinalErrors

LEMMA AnswerInductive ==
  ASSUME FramesOK, StoreOK, ScriptInv, DedupInv, AnswerInv, AnswersAreFinal, [Next]_vars
  PROVE  AnswerInv' /\ AnswersAreFinal'
  <1> DEFINE
        Early == {"idle", "acquiring", "looking", "loading", "receiving", "committing"}
        Answered == AnswerInv' /\ \A d \in Calls : Sound(d)'
  <1> USE DEF FramesOK
  <1>1. \A d \in Calls : Sound(d)
    BY DEF AnswersAreFinal, Sound
  <1>2. \A d \in Calls : outcome'[d] = outcome[d] => Sound(d)'
    BY <1>1, OldAnswersStand
  <1>3. ASSUME UNCHANGED outcome, \A d \in Calls : phase'[d] \in Early => phase[d] \in Early
        PROVE  Answered
    BY <1>2, <1>3 DEF AnswerInv
  <1>4. ASSUME NEW c \in Calls, NEW o, Told(c, o), Sound(c)',
               \A d \in Calls : phase'[d] \in Early => d # c /\ phase[d] \in Early
        PROVE  Answered
    <2>1. \A d \in Calls : d # c => outcome'[d] = outcome[d]
      BY <1>4 DEF Told
    <2> QED
      BY <1>2, <1>4, <2>1 DEF AnswerInv
  <1>5. ASSUME NEW c \in Calls, NEW o, Leave(c, o), Sound(c)' PROVE Answered
    BY <1>4, <1>5 DEF Leave, Goes
  <1>6. ASSUME NEW c \in Calls, outcome'[c].kind = "failed" PROVE Sound(c)'
    BY <1>6 DEF Sound, FinalErrors
  <1>7. ASSUME NEW c \in Calls, outcome'[c].kind \in FinalErrors, ~IsApplied(c),
               UNCHANGED applied, wire'[c] # "commit"
        PROVE  Sound(c)'
    BY <1>7 DEF Sound, FinalErrors, IsApplied
  <1>8. \A d \in Calls :
          phase[d] \in {"acquiring", "looking", "loading", "receiving"}
            => ~IsApplied(d) /\ wire[d] # "commit"
    BY DEF ScriptInv
  <1>9. ASSUME NEW c \in Calls, NEW r \in Requests, NEW k \in Commands, Invoke(c, r, k)
        PROVE  Answered
    BY <1>3, <1>9 DEF Invoke, Goes
  <1>10. ASSUME NEW c \in Calls, Acquire(c) PROVE Answered
    <2>1. CASE Goes(c, "done") /\ Told(c, Rejected("failed"))
      <3>1. outcome'[c].kind = "failed"
        BY <2>1 DEF Told, Rejected
      <3> QED
        BY <1>4, <1>6, <2>1, <3>1 DEF Goes
    <2>2. CASE UNCHANGED outcome
      BY <1>3, <1>10, <2>2 DEF Acquire, Goes
    <2> QED
      BY <1>10, <2>1, <2>2 DEF Acquire
  <1>11. ASSUME NEW c \in Calls, AcquireFails(c) PROVE Answered
    <2>1. outcome'[c].kind \in FinalErrors
      BY <1>11 DEF AcquireFails, Told, Rejected, FinalErrors
    <2>2. Sound(c)'
      BY <1>7, <1>8, <1>11, <2>1 DEF AcquireFails, stored
    <2> QED
      BY <1>4, <1>11, <2>2 DEF AcquireFails, Goes
  <1>12. ASSUME NEW c \in Calls, Replay(c) PROVE Answered
    <2>1. PICK d \in dedup :
            /\ d.request = request[c]
            /\ Leave(c, IF d.command = command[c] THEN Resolved("replayed", d.result)
                                                  ELSE Rejected("failed"))
      BY <1>12 DEF Replay
    <2>2. UNCHANGED <<applied, request, command>>
      BY <1>12, <2>1 DEF Replay, stored, Leave, made
    <2>3. CASE d.command = command[c]
      <3>1. outcome'[c] = Resolved("replayed", d.result)
        BY <2>1, <2>3 DEF Leave, Told
      <3>2. outcome'[c].kind = "replayed" /\ outcome'[c].from = d.result
        BY <3>1, OutcomesDiffer
      <3>3. /\ IsApplied(d.result)'
            /\ request'[d.result] = request'[c] /\ command'[d.result] = command'[c]
        BY <2>1, <2>2, <2>3 DEF DedupInv, IsApplied
      <3>4. Sound(c)'
        BY <3>2, <3>3 DEF Sound, FinalErrors
      <3> QED
        BY <1>5, <2>1, <3>4
    <2>4. CASE d.command # command[c]
      <3>1. outcome'[c].kind = "failed"
        BY <2>1, <2>4 DEF Leave, Told, Rejected
      <3> QED
        BY <1>5, <1>6, <2>1, <3>1
    <2> QED
      BY <2>3, <2>4
  <1>13. ASSUME NEW c \in Calls, Miss(c) \/ Load(c) \/ SendCommit(c) PROVE Answered
    BY <1>3, <1>13 DEF Miss, Load, SendCommit, Goes
  <1>14. ASSUME NEW c \in Calls, Leave(c, Rejected("failed")) PROVE Answered
    <2>1. outcome'[c].kind = "failed"
      BY <1>14 DEF Leave, Told, Rejected
    <2> QED
      BY <1>5, <1>6, <1>14, <2>1
  <1>15. ASSUME NEW c \in Calls, DeadlinePasses(c) PROVE Answered
    <2>1. outcome'[c].kind \in FinalErrors /\ wire'[c] = "marker"
      BY <1>15 DEF DeadlinePasses, Told, Puts, Rejected, FinalErrors
    <2>2. Sound(c)'
      BY <1>7, <1>8, <1>15, <2>1 DEF DeadlinePasses, stored
    <2> QED
      BY <1>4, <1>15, <2>2 DEF DeadlinePasses, Goes
  <1>16. ASSUME NEW c \in Calls, Leave(c, Rejected("leaseLost")), UNCHANGED applied,
                ~Resends => ~IsApplied(c) /\ wire'[c] # "commit"
         PROVE  Answered
    <2>1. outcome'[c].kind = "leaseLost"
      BY <1>16 DEF Leave, Told, Rejected
    <2>2. Sound(c)'
      BY <1>7, <1>16, <2>1 DEF FinalErrors, Sound
    <2> QED
      BY <1>5, <1>16, <2>2
  <1>17. ASSUME NEW c \in Calls, GiveUp(c) PROVE Answered
    BY <1>8, <1>16, <1>17 DEF GiveUp, stored
  <1>18. ASSUME NEW c \in Calls, Leave(c, outcome[c]) PROVE Answered
    <2>1. outcome'[c] = outcome[c]
      BY <1>18 DEF Leave, Told
    <2> QED
      BY <1>2, <1>5, <1>18, <2>1
  <1>19. ASSUME NEW c \in Calls, ConnectionFails(c) PROVE Answered
    <2>1. CASE phase[c] = "releasing" /\ Goes(c, "done") /\ UNCHANGED outcome
      BY <1>3, <2>1 DEF Goes
    <2> QED
      BY <1>14, <1>18, <1>19, <2>1 DEF ConnectionFails
  <1>20. ASSUME UNCHANGED <<phase, outcome>> PROVE Answered
    BY <1>3, <1>20
  <1>21. ASSUME NEW c \in Calls, Crash(c) PROVE Answered
    BY <1>3, <1>21 DEF Crash, Goes
  <1>22. ASSUME NEW c \in Calls, Commit(c) PROVE Answered
    <2>1. CASE Leave(c, Resolved("committed", c))
      <3>1. outcome'[c].kind = "committed" /\ outcome'[c].from = c
        BY <2>1, OutcomesDiffer DEF Leave, Told
      <3>2. IsApplied(c)'
        BY <1>22, AppliesEffect DEF Commit
      <3> QED
        BY <1>5, <2>1, <3>1, <3>2 DEF Sound, FinalErrors
    <2> QED
      BY <1>20, <1>22, <2>1 DEF Commit, Runs
  <1>23. ASSUME NEW c \in Calls, CommitRefused(c) PROVE Answered
    <2>1. UNCHANGED applied /\ wire[c] = "commit"
      BY <1>23 DEF CommitRefused, stored, Runs
    <2>2. CASE Puts(c, "none") /\ Leave(c, Rejected("leaseLost"))
      <3>1. ~Resends => ~IsApplied(c)
        BY <2>1 DEF ScriptInv
      <3> QED
        BY <1>16, <2>1, <2>2, <3>1 DEF Puts
    <2> QED
      BY <1>20, <1>23, <2>2 DEF CommitRefused, Runs
  <1>24. ASSUME NEW c \in Calls, CommitAborts(c) PROVE Answered
    BY <1>14, <1>20, <1>24 DEF CommitAborts, Runs
  <1>25. ASSUME NEW c \in Calls, Mark(c) PROVE Answered
    BY <1>18, <1>20, <1>25 DEF Mark, Runs
  <1>26. ASSUME NEW c \in Calls, Release(c) PROVE Answered
    BY <1>3, <1>26 DEF Release, Goes
  <1>27. ASSUME NEW c \in Calls, Process(c) PROVE Answered
    <2>1. ASSUME RenewalFails(c) \/ RenewalCapped(c) PROVE Answered
      BY <1>20, <2>1 DEF RenewalFails, RenewalCapped
    <2>2. ASSUME TurnFails(c) PROVE Answered
      BY <1>14, <2>2 DEF TurnFails
    <2> QED
      BY <1>9, <1>10, <1>11, <1>12, <1>13, <1>15, <1>17, <1>19, <1>21, <1>27, <2>1, <2>2
         DEF Process
  <1>28. ASSUME NEW c \in Calls, Redis(c) PROVE Answered
    BY <1>22, <1>23, <1>24, <1>25, <1>26, <1>28 DEF Redis
  <1>29. ASSUME LeaseLapses \/ DedupExpires \/ UNCHANGED vars PROVE Answered
    <2>1. UNCHANGED <<phase, outcome>>
      BY <1>29 DEF LeaseLapses, DedupExpires, vars
    <2> QED
      BY <1>20, <2>1
  <1>30. Answered
    <2> HIDE DEF Answered
    <2> QED
      BY <1>27, <1>28, <1>29 DEF Next
  <1> QED
    BY <1>30 DEF AnswersAreFinal, Sound

-----------------------------------------------------------------------------
(* The journal *)

\* Appending to the journal and to its window keeps the one a suffix of the other:
\* trimming by the window's length and by the whole journal's come to the same.
LEMMA AddEntriesKeepSuffix ==
  ASSUME StoreOK, JournalIsASuffix, NEW c \in Calls, NEW kind \in {"event", "timeout"},
         NEW n \in Nat, AddEntries(c, kind, n)
  PROVE  JournalIsASuffix'
  <1>1. PICK new \in Seq(Entry) : new = NewEntries(c, kind, n) /\ Len(new) = n
    BY AddEntriesTyped
  <1>2. \A i \in 1..n : new[i].seq = seq + i - 1
    BY <1>1 DEF NewEntries
  <1>3. PICK N \in Nat : N = Len(journal) /\ DOMAIN journal = 1..N
    BY LenProperties DEF StoreOK
  <1>4. PICK L \in Nat : L = Len(log) /\ DOMAIN log = 1..L
    BY LenProperties DEF StoreOK
  <1>5. PICK whole \in Seq(Entry) : whole = journal \o new
    BY <1>1, ConcatProperties DEF StoreOK
  <1>6. PICK s \in Seq(Entry) : s = log \o new
    BY <1>1, ConcatProperties DEF StoreOK
  <1>7. /\ Len(whole) = N + n /\ DOMAIN whole = 1..(N + n)
        /\ \A i \in 1..N : whole[i] = journal[i]
        /\ \A i \in (N + 1)..(N + n) : whole[i] = new[i - N]
    <2>1. Len(whole) = N + n
      BY <1>1, <1>3, <1>5, ConcatProperties DEF StoreOK
    <2>2. \A i \in 1..(N + n) : whole[i] = IF i <= N THEN journal[i] ELSE new[i - N]
      BY <1>1, <1>3, <1>5, ConcatProperties DEF StoreOK
    <2> QED
      BY <2>1, <2>2, LenProperties
  <1>8. /\ Len(s) = L + n /\ DOMAIN s = 1..(L + n)
        /\ \A i \in 1..(L + n) : s[i] = IF i <= L THEN log[i] ELSE new[i - L]
    <2>1. Len(s) = L + n
      BY <1>1, <1>4, <1>6, ConcatProperties DEF StoreOK
    <2>2. \A i \in 1..(L + n) : s[i] = IF i <= L THEN log[i] ELSE new[i - L]
      BY <1>1, <1>4, <1>6, ConcatProperties DEF StoreOK
    <2> QED
      BY <2>1, <2>2, LenProperties
  <1>9. /\ seq' = N + n /\ journal' = whole
        /\ log' = IF n = 0 THEN log ELSE Trim(s)
    BY <1>1, <1>3, <1>5, <1>6, AddEntriesTyped DEF JournalIsASuffix
  <1>10. /\ L = IF MaxLen > 0 /\ N > MaxLen THEN MaxLen ELSE N
         /\ L <= N
         /\ \A i \in 1..L : log[i] = journal[N - L + i]
    BY <1>3, <1>4, MaxLenAssumption DEF JournalIsASuffix
  <1>11. \A i \in DOMAIN journal' : journal'[i].seq = i - 1
    <2> SUFFICES ASSUME NEW i \in 1..(N + n) PROVE whole[i].seq = i - 1
      BY <1>7, <1>9
    <2>1. CASE i \in 1..N
      BY <1>3, <1>7, <2>1 DEF JournalIsASuffix
    <2>2. CASE i \in (N + 1)..(N + n)
      <3>0. i - N \in 1..n
        BY <2>2
      <3>1. new[i - N].seq = N + (i - N) - 1
        BY <1>2, <1>3, <3>0 DEF JournalIsASuffix
      <3>2. whole[i] = new[i - N]
        BY <1>7, <2>2
      <3> QED
        BY <2>2, <3>1, <3>2
    <2> QED
      BY <2>1, <2>2
  <1>12. \A i \in 1..(L + n) : s[i] = whole[N - L + i]
    <2> SUFFICES ASSUME NEW i \in 1..(L + n) PROVE s[i] = whole[N - L + i]
      OBVIOUS
    <2>1. CASE i <= L
      <3>1. N - L + i \in 1..N
        BY <1>10, <2>1
      <3> QED
        BY <1>7, <1>8, <1>10, <2>1, <3>1
    <2>2. CASE i > L
      <3>1. N - L + i \in (N + 1)..(N + n) /\ (N - L + i) - N = i - L
        BY <2>2
      <3>2. whole[N - L + i] = new[(N - L + i) - N]
        BY <1>7, <3>1
      <3>3. s[i] = new[i - L]
        BY <1>8, <2>2
      <3> QED
        BY <3>1, <3>2, <3>3
    <2> QED
      BY <2>1, <2>2
  <1>13. ASSUME NEW t \in Seq(Entry), NEW m \in Nat, log' = t, Len(t) = m,
                m = IF MaxLen > 0 /\ N + n > MaxLen THEN MaxLen ELSE N + n,
                \A i \in 1..m : t[i] = whole[N + n - m + i]
         PROVE  JournalIsASuffix'
    <2>1. DOMAIN t = 1..m
      BY <1>13, LenProperties
    <2>2. Len(journal') = N + n
      BY <1>7, <1>9
    <2>3. seq' = Len(journal')
      BY <1>9, <2>2
    <2>4. Len(log') = IF MaxLen > 0 /\ Len(journal') > MaxLen
                      THEN MaxLen ELSE Len(journal')
      BY <1>13, <2>2
    <2>5. \A i \in DOMAIN log' : log'[i] = journal'[Len(journal') - Len(log') + i]
      <3> SUFFICES ASSUME NEW i \in 1..m PROVE t[i] = whole[Len(whole) - Len(t) + i]
        BY <1>9, <1>13, <2>1
      <3> QED
        BY <1>7, <1>13
    <2> QED
      BY <1>11, <2>3, <2>4, <2>5 DEF JournalIsASuffix
  <1>14. CASE n = 0
    <2>1. \A i \in 1..L : log[i] = whole[N + n - L + i]
      <3> SUFFICES ASSUME NEW i \in 1..L PROVE log[i] = whole[N - L + i]
        BY <1>14
      <3>1. N - L + i \in 1..N
        BY <1>10
      <3> QED
        BY <1>7, <1>10, <3>1
    <2>2. log' = log /\ log \in Seq(Entry)
      BY <1>9, <1>14 DEF StoreOK
    <2>3. L = IF MaxLen > 0 /\ N + n > MaxLen THEN MaxLen ELSE N + n
      BY <1>10, <1>14
    <2> QED
      BY <1>4, <1>13, <2>1, <2>2, <2>3
  <1>15. CASE n # 0 /\ MaxLen > 0 /\ L + n > MaxLen
    <2>1. PICK t \in Seq(Entry) :
            /\ t = Trim(s) /\ Len(t) = MaxLen
            /\ \A i \in 1..MaxLen : t[i] = s[L + n - MaxLen + i]
      <3>1. PICK m \in Nat : m = L + n
        OBVIOUS
      <3>2. Len(s) = m /\ MaxLen > 0 /\ m > MaxLen
        BY <1>8, <1>15, <3>1
      <3>3. /\ Trim(s) \in Seq(Entry) /\ Len(Trim(s)) = MaxLen
            /\ \A i \in 1..MaxLen : Trim(s)[i] = s[m - MaxLen + i]
        BY <3>2, TrimKeepsTheEnd
      <3> QED
        BY <3>1, <3>3
    <2>4. \A i \in 1..MaxLen : t[i] = whole[N + n - MaxLen + i]
      <3> SUFFICES ASSUME NEW i \in 1..MaxLen PROVE t[i] = whole[N + n - MaxLen + i]
        OBVIOUS
      <3>1. /\ L + n - MaxLen + i \in 1..(L + n)
            /\ N - L + (L + n - MaxLen + i) = N + n - MaxLen + i
        BY <1>15, MaxLenAssumption
      <3> QED
        BY <1>12, <2>1, <3>1
    <2>5. log' = t
      BY <1>9, <1>15, <2>1
    <2>6. MaxLen = IF MaxLen > 0 /\ N + n > MaxLen THEN MaxLen ELSE N + n
      BY <1>10, <1>15, MaxLenAssumption
    <2> QED
      BY <1>13, <2>1, <2>4, <2>5, <2>6, MaxLenAssumption
  <1>16. CASE n # 0 /\ ~(MaxLen > 0 /\ L + n > MaxLen)
    <2>1. log' = s
      BY <1>8, <1>9, <1>16 DEF Trim
    <2>2. L = N
      BY <1>10, <1>16, MaxLenAssumption
    <2>3. PICK m \in Nat : m = L + n
      OBVIOUS
    <2>4. Len(s) = m
      BY <1>8, <2>3
    <2>5. m = IF MaxLen > 0 /\ N + n > MaxLen THEN MaxLen ELSE N + n
      BY <1>16, <2>2, <2>3
    <2>6. \A i \in 1..m : s[i] = whole[N + n - m + i]
      <3> SUFFICES ASSUME NEW i \in 1..m PROVE s[i] = whole[N + n - m + i]
        OBVIOUS
      <3>1. N + n - m + i = N - L + i /\ i \in 1..(L + n)
        BY <2>2, <2>3
      <3> QED
        BY <1>12, <3>1
    <2> QED
      BY <1>13, <2>1, <2>4, <2>5, <2>6
  <1> QED
    BY <1>14, <1>15, <1>16

LEMMA JournalInductive ==
  ASSUME FramesOK, StoreOK, JournalIsASuffix, [Next]_vars
  PROVE  JournalIsASuffix'
  <1>1. ASSUME NEW c \in Calls, Commit(c) PROVE JournalIsASuffix'
    BY <1>1, EventsOfAssumption, AddEntriesKeepSuffix DEF Commit
  <1>2. ASSUME NEW c \in Calls, Mark(c) PROVE JournalIsASuffix'
    BY <1>2, AddEntriesKeepSuffix DEF Mark
  <1>3. CASE UNCHANGED <<seq, log, journal>>
    BY <1>3 DEF JournalIsASuffix
  <1> QED
    BY <1>1, <1>2, <1>3, StoreSteps DEF stored, DedupExpires

-----------------------------------------------------------------------------
(* The theorems *)

\* The invariant holds for any number of calls, any retention and either client.
THEOREM InvariantHolds == Spec => []IInv
  <1>1. Init => IInv
    <2>1. Init => /\ ScriptInv /\ FencingInv /\ DedupInv /\ AnswerInv
                  /\ NoLostUpdate /\ AtMostOnceUntilExpiry
      BY NoCallAssumption DEF Init, ScriptInv, FencingInv, DedupInv, AnswerInv,
         NoLostUpdate, AtMostOnceUntilExpiry, IsApplied, Known
    <2>2. Init => AnswersAreFinal
      <3>1. Pending.kind \notin {"committed", "replayed"} \cup FinalErrors
        BY DEF FinalErrors, Pending
      <3>2. Init => \A c \in Calls : outcome[c] = Pending
        BY DEF Init
      <3> QED
        BY <3>1, <3>2 DEF AnswersAreFinal
    <2>3. Init => JournalIsASuffix
      BY MaxLenAssumption DEF Init, JournalIsASuffix
    <2> QED
      BY <2>1, <2>2, <2>3 DEF IInv
  <1>2. TypeOK /\ IInv /\ [Next]_vars => IInv'
    <2> SUFFICES ASSUME FramesOK, StoreOK, IInv, [Next]_vars PROVE IInv'
      BY TypeParts
    <2>1. ScriptInv' /\ FencingInv' /\ DedupInv'
      BY ScriptInductive, FencingInductive, DedupInductive DEF IInv
    <2>2. AnswerInv' /\ AnswersAreFinal'
      BY AnswerInductive DEF IInv
    <2>3. NoLostUpdate' /\ AtMostOnceUntilExpiry'
      BY OrderInductive DEF IInv
    <2>4. JournalIsASuffix'
      BY JournalInductive DEF IInv
    <2> QED
      BY <2>1, <2>2, <2>3, <2>4 DEF IInv
  <1> QED
    BY <1>1, <1>2, TypeCorrect, PTL DEF Spec

\* The lease fences every write of the state key: however leases lapse and late
\* commits arrive, no committed turn is overwritten by one that did not see it.
THEOREM NoUpdateIsLost == Spec => []NoLostUpdate
  <1>1. IInv => NoLostUpdate
    BY DEF IInv
  <1> QED
    BY <1>1, InvariantHolds, PTL

\* A requestId is applied twice only with an expiry of the dedup hash in between.
THEOREM RequestsApplyOnce == Spec => []AtMostOnceUntilExpiry
  <1>1. IInv => AtMostOnceUntilExpiry
    BY DEF IInv
  <1> QED
    BY <1>1, InvariantHolds, PTL

\* What a caller was told stays true: a success names a commit of its request and
\* command, and a final error excludes one for ever.
THEOREM AnswersStayTrue == Spec => []AnswersAreFinal
  <1>1. IInv => AnswersAreFinal
    BY DEF IInv
  <1> QED
    BY <1>1, InvariantHolds, PTL

\* seq is dense over the life of the identity, and the trimmed stream is the end of
\* the whole journal.
THEOREM StreamEndsTheJournal == Spec => []JournalIsASuffix
  <1>1. IInv => JournalIsASuffix
    BY DEF IInv
  <1> QED
    BY <1>1, InvariantHolds, PTL

-----------------------------------------------------------------------------
(* A client that sends no script twice *)

\* Where the journal has entries of one kind of one call.
Positions(c, k) == {i \in DOMAIN journal : journal[i].call = c /\ journal[i].kind = k}

\* A script leaves the wire when it runs: a marker is either on its way or in the
\* journal, only a turn told of its timeout has one, and a turn whose commit is on its
\* way can only have been told that its connection failed.
OnceInv ==
  \A c \in Calls :
    /\ wire[c] = "marker" \/ Positions(c, "timeout") # {} => outcome[c] = Rejected("timeout")
    /\ Positions(c, "timeout") # {} => wire[c] # "marker"
    /\ wire[c] = "commit" => outcome[c] \in {Pending, Rejected("failed")}

\* Each entry of the dedup hash is the latest commit of its request.
LatestInv ==
  \A d \in dedup : \E i \in DOMAIN applied :
    /\ applied[i] = d.result
    /\ \A j \in DOMAIN applied : j > i => request[applied[j]] # d.request

\* Once the turn of a call has ended, what its caller is told stands.
LEMMA OutcomeStands ==
  ASSUME FramesOK, [Next]_vars, NEW d \in Calls,
         phase[d] \in {"marking", "releasing", "done", "crashed"}
  PROVE  outcome'[d] = outcome[d]
  <1> USE DEF FramesOK
  <1>1. ASSUME NEW c \in Calls, NEW o, Leave(c, o), c = d => o = outcome[d]
        PROVE  outcome'[d] = outcome[d]
    BY <1>1 DEF Leave, Told
  <1>2. ASSUME NEW c \in Calls,
               \/ Acquire(c) \/ AcquireFails(c) \/ Replay(c) \/ Miss(c) \/ Load(c)
               \/ TurnFails(c) \/ DeadlinePasses(c) \/ GiveUp(c) \/ SendCommit(c)
        PROVE  outcome'[d] = outcome[d]
    BY <1>1, <1>2 DEF Acquire, AcquireFails, Replay, Miss, Load, TurnFails, DeadlinePasses,
                      GiveUp, SendCommit, Told
  <1>3. ASSUME NEW c \in Calls, ConnectionFails(c)
        PROVE  outcome'[d] = outcome[d]
    BY <1>1, <1>3 DEF ConnectionFails
  <1>4. ASSUME NEW c \in Calls, NEW script, NEW awaiting, NEW o, Runs(c, script, awaiting, o),
               awaiting = "committing" \/ o = outcome[c]
        PROVE  outcome'[d] = outcome[d]
    BY <1>1, <1>4 DEF Runs
  <1>5. ASSUME NEW c \in Calls, Redis(c)
        PROVE  outcome'[d] = outcome[d]
    BY <1>4, <1>5 DEF Redis, Commit, CommitRefused, CommitAborts, Mark, Release
  <1>6. ASSUME NEW c \in Calls, RenewalFails(c) \/ RenewalCapped(c) \/ Crash(c)
        PROVE  outcome'[d] = outcome[d]
    BY <1>6 DEF RenewalFails, RenewalCapped, Crash
  <1>7. ASSUME NEW c \in Calls, NEW r \in Requests, NEW k \in Commands, Invoke(c, r, k)
        PROVE  outcome'[d] = outcome[d]
    BY <1>7 DEF Invoke
  <1>8. CASE LeaseLapses \/ DedupExpires \/ UNCHANGED vars
    BY <1>8 DEF LeaseLapses, DedupExpires, vars
  <1> QED
    BY <1>2, <1>3, <1>5, <1>6, <1>7, <1>8 DEF Next, Process

\* A marker is on the wire because it was there, or because a deadline has passed; a
\* commit, because it was there or its turn has just returned.
LEMMA ScriptsAreSentOnce ==
  ASSUME ~Resends, FramesOK, [Next]_vars, NEW d \in Calls
  PROVE  /\ wire'[d] = "marker" =>
              \/ wire[d] = "marker" /\ ~Mark(d)
              \/ phase[d] \in {"loading", "receiving"} /\ outcome'[d] = Rejected("timeout")
         /\ wire'[d] = "commit" =>
              \/ wire[d] = "commit" /\ outcome'[d] \in {outcome[d], Rejected("failed")}
              \/ phase[d] = "receiving" /\ outcome'[d] = outcome[d]
              \/ wire[d] = "commit"
                   /\ phase[d] \in {"acquiring", "looking", "loading", "receiving"}
  <1> USE DEF FramesOK
  <1> DEFINE Good ==
         /\ wire'[d] = "marker" =>
              \/ wire[d] = "marker" /\ ~Mark(d)
              \/ phase[d] \in {"loading", "receiving"} /\ outcome'[d] = Rejected("timeout")
         /\ wire'[d] = "commit" =>
              \/ wire[d] = "commit" /\ outcome'[d] \in {outcome[d], Rejected("failed")}
              \/ phase[d] = "receiving" /\ outcome'[d] = outcome[d]
              \/ wire[d] = "commit"
                   /\ phase[d] \in {"acquiring", "looking", "loading", "receiving"}
  <1>0. Mark(d) => wire'[d] = "none"
    BY DEF Mark, Runs, Puts
  <1>1. ASSUME UNCHANGED wire, outcome'[d] \in {outcome[d], Rejected("failed")}
        PROVE  Good
    BY <1>0, <1>1
  <1>2. ASSUME NEW c \in Calls, NEW o, Leave(c, o), UNCHANGED wire,
               \/ o = Rejected("failed") \/ o = outcome[c]
               \/ phase[c] \in {"looking", "receiving"}
        PROVE  Good
    BY <1>0, <1>2 DEF Leave, Told
  <1>3. ASSUME NEW c \in Calls, SendCommit(c) PROVE Good
    BY <1>0, <1>3 DEF SendCommit, Puts
  <1>4. ASSUME NEW c \in Calls, DeadlinePasses(c) PROVE Good
    BY <1>0, <1>4 DEF DeadlinePasses, Puts, Told
  <1>5. ASSUME NEW c \in Calls, NEW script, NEW awaiting, NEW o, Runs(c, script, awaiting, o)
        PROVE  Good
    <2>1. wire'[c] = "none" /\ \A e \in Calls : e # c => wire'[e] = wire[e]
      BY <1>5 DEF Runs, Puts
    <2>2. \A e \in Calls : e # c => outcome'[e] = outcome[e]
      BY <1>5 DEF Runs, Leave, Told
    <2> QED
      BY <1>0, <2>1, <2>2
  <1>6. ASSUME NEW c \in Calls, Redis(c) PROVE Good
    <2>1. ASSUME Release(c) PROVE Good
      BY <1>1, <2>1 DEF Release
    <2> QED
      BY <1>5, <1>6, <2>1 DEF Redis, Commit, CommitRefused, CommitAborts, Mark
  <1>7. ASSUME NEW c \in Calls, Acquire(c) \/ AcquireFails(c) PROVE Good
    BY <1>0, <1>7 DEF Acquire, AcquireFails, Told
  <1>8. ASSUME NEW c \in Calls, Replay(c) \/ TurnFails(c) \/ GiveUp(c) PROVE Good
    BY <1>2, <1>8 DEF Replay, TurnFails, GiveUp
  <1>9. ASSUME NEW c \in Calls, ConnectionFails(c) PROVE Good
    BY <1>1, <1>2, <1>9 DEF ConnectionFails
  <1>10. ASSUME NEW c \in Calls,
                Miss(c) \/ Load(c) \/ RenewalFails(c) \/ RenewalCapped(c) \/ Crash(c)
         PROVE  Good
    BY <1>1, <1>10 DEF Miss, Load, RenewalFails, RenewalCapped, Crash
  <1>11. ASSUME NEW c \in Calls, NEW r \in Requests, NEW k \in Commands, Invoke(c, r, k)
         PROVE  Good
    BY <1>1, <1>11 DEF Invoke
  <1>12. ASSUME LeaseLapses \/ DedupExpires \/ UNCHANGED vars PROVE Good
    BY <1>1, <1>12 DEF LeaseLapses, DedupExpires, vars
  <1>13. ASSUME NEW c \in Calls, Process(c) PROVE Good
    <2> HIDE DEF Good
    <2> QED
      BY <1>3, <1>4, <1>7, <1>8, <1>9, <1>10, <1>11, <1>13 DEF Process
  <1>14. Good
    <2> HIDE DEF Good
    <2> QED
      BY <1>6, <1>12, <1>13 DEF Next
  <1> QED
    BY <1>14

\* Appending to the journal moves none of its entries.
LEMMA EntriesAppear ==
  ASSUME StoreOK, NEW c \in Calls, NEW kind \in {"event", "timeout"}, NEW n \in Nat,
         AddEntries(c, kind, n), NEW N \in Nat, N = Len(journal)
  PROVE  /\ Len(journal') = N + n
         /\ Positions(c, kind)' = Positions(c, kind) \cup ((N + 1)..(N + n))
         /\ \A d, k : d # c \/ k # kind => Positions(d, k)' = Positions(d, k)
  <1>1. PICK new \in Seq(Entry) : new = NewEntries(c, kind, n) /\ Len(new) = n
    BY AddEntriesTyped
  <1>2. \A i \in 1..n : new[i].call = c /\ new[i].kind = kind
    BY <1>1 DEF NewEntries
  <1>3. PICK whole \in Seq(Entry) : whole = journal \o new
    BY <1>1, ConcatProperties DEF StoreOK
  <1>4. /\ Len(whole) = N + n
        /\ \A i \in 1..(N + n) : whole[i] = IF i <= N THEN journal[i] ELSE new[i - N]
    <2>1. Len(whole) = N + n
      BY <1>1, <1>3, ConcatProperties DEF StoreOK
    <2>2. \A i \in 1..(N + n) : whole[i] = IF i <= N THEN journal[i] ELSE new[i - N]
      BY <1>1, <1>3, ConcatProperties DEF StoreOK
    <2> QED
      BY <2>1, <2>2
  <1>5. DOMAIN journal = 1..N /\ DOMAIN whole = 1..(N + n)
    BY <1>4, LenProperties DEF StoreOK
  <1>6. journal' = whole
    BY <1>1, <1>3, AddEntriesTyped
  <1>7. \A i \in 1..N : i \in 1..(N + n) /\ whole[i] = journal[i]
    BY <1>4
  <1>8. \A i \in (N + 1)..(N + n) :
          i \in 1..(N + n) /\ whole[i].call = c /\ whole[i].kind = kind
    <2> SUFFICES ASSUME NEW i \in (N + 1)..(N + n)
                 PROVE  i \in 1..(N + n) /\ whole[i].call = c /\ whole[i].kind = kind
      OBVIOUS
    <2>1. i \in 1..(N + n) /\ ~(i <= N) /\ i - N \in 1..n
      OBVIOUS
    <2> QED
      BY <1>2, <1>4, <2>1
  <1>9. \A i \in 1..(N + n) : i \in 1..N \/ i \in (N + 1)..(N + n)
    OBVIOUS
  <1>10. Positions(c, kind)' = Positions(c, kind) \cup ((N + 1)..(N + n))
    BY <1>5, <1>6, <1>7, <1>8, <1>9 DEF Positions
  <1>11. \A d, k : d # c \/ k # kind => Positions(d, k)' = Positions(d, k)
    BY <1>5, <1>6, <1>7, <1>8, <1>9 DEF Positions
  <1> QED
    BY <1>4, <1>6, <1>10, <1>11

\* A marker is appended by the script that was sent for it.
LEMMA MarkersComeFromMarks ==
  ASSUME StoreOK, [Next]_vars, NEW d \in Calls, Positions(d, "timeout")' # {}
  PROVE  Positions(d, "timeout") # {} \/ Mark(d)
  <1>1. PICK N \in Nat : N = Len(journal)
    BY LenProperties DEF StoreOK
  <1>2. ASSUME NEW c \in Calls, Commit(c)
        PROVE  Positions(d, "timeout")' = Positions(d, "timeout")
    <2>1. AddEntries(c, "event", EventsOf[c]) /\ EventsOf[c] \in Nat
      BY <1>2, EventsOfAssumption DEF Commit
    <2> QED
      BY <1>1, <2>1, EntriesAppear
  <1>3. ASSUME NEW c \in Calls, Mark(c), c # d
        PROVE  Positions(d, "timeout")' = Positions(d, "timeout")
    <2>1. AddEntries(c, "timeout", 1)
      BY <1>3 DEF Mark
    <2> QED
      BY <1>1, <1>3, <2>1, EntriesAppear
  <1>4. ASSUME UNCHANGED journal
        PROVE  Positions(d, "timeout")' = Positions(d, "timeout")
    BY <1>4 DEF Positions
  <1> QED
    BY <1>2, <1>3, <1>4, StoreSteps DEF stored, DedupExpires

LEMMA OnceInductive ==
  ASSUME ~Resends, FramesOK, StoreOK, ScriptInv, AnswerInv, OnceInv, [Next]_vars
  PROVE  OnceInv'
  <1> SUFFICES ASSUME NEW d \in Calls
               PROVE  /\ wire'[d] = "marker" \/ Positions(d, "timeout")' # {}
                           => outcome'[d] = Rejected("timeout")
                      /\ Positions(d, "timeout")' # {} => wire'[d] # "marker"
                      /\ wire'[d] = "commit" => outcome'[d] \in {Pending, Rejected("failed")}
    BY DEF OnceInv
  <1>1. ASSUME outcome[d] = Rejected("timeout")
        PROVE  /\ outcome'[d] = Rejected("timeout")
               /\ phase[d] \notin {"acquiring", "looking", "loading", "receiving"}
    <2>1. outcome[d] # Pending
      BY <1>1, OutcomesDiffer
    <2>2. phase[d] \in {"marking", "releasing", "done", "crashed"}
      BY <2>1 DEF AnswerInv, FramesOK, Phases
    <2> QED
      BY <1>1, <2>2, OutcomeStands
  <1>2. Mark(d) => wire[d] = "marker"
    BY DEF Mark, Runs
  <1>3. Positions(d, "timeout")' # {} => outcome[d] = Rejected("timeout")
    BY <1>2, MarkersComeFromMarks DEF OnceInv
  <1>4. wire'[d] = "marker" =>
          \/ wire[d] = "marker" /\ ~Mark(d)
          \/ phase[d] \in {"loading", "receiving"} /\ outcome'[d] = Rejected("timeout")
    BY ScriptsAreSentOnce
  <1>5. wire'[d] = "marker" => outcome'[d] = Rejected("timeout")
    BY <1>1, <1>4 DEF OnceInv
  <1>6. Positions(d, "timeout")' # {} => wire'[d] # "marker"
    <2> SUFFICES ASSUME Positions(d, "timeout")' # {}, wire'[d] = "marker"
                 PROVE  FALSE
      OBVIOUS
    <2>1. wire[d] = "marker" /\ ~Mark(d)
      BY <1>1, <1>3, <1>4
    <2> QED
      BY <2>1, MarkersComeFromMarks DEF OnceInv
  <1>7. ASSUME wire'[d] = "commit"
        PROVE  outcome'[d] \in {Pending, Rejected("failed")}
    <2>1. \/ wire[d] = "commit" /\ outcome'[d] \in {outcome[d], Rejected("failed")}
          \/ phase[d] = "receiving" /\ outcome'[d] = outcome[d]
          \/ /\ wire[d] = "commit"
             /\ phase[d] \in {"acquiring", "looking", "loading", "receiving"}
      BY <1>7, ScriptsAreSentOnce
    <2>2. wire[d] = "commit" => phase[d] \in {"committing", "releasing", "done", "crashed"}
      BY DEF ScriptInv
    <2>3. phase[d] = "receiving" => outcome[d] = Pending
      BY DEF AnswerInv
    <2>4. wire[d] = "commit" => outcome[d] \in {Pending, Rejected("failed")}
      BY DEF OnceInv
    <2> QED
      BY <2>1, <2>2, <2>3, <2>4
  <1> QED
    BY <1>1, <1>3, <1>5, <1>6, <1>7

\* What JournalMatchesCommits says of one call.
Matched(c) ==
  /\ IF IsApplied(c)
     THEN \E start \in 0..Len(journal) :
            Positions(c, "event") = (start + 1)..(start + EventsOf[c])
     ELSE Positions(c, "event") = {}
  /\ Positions(c, "timeout") # {} => ~IsApplied(c)
  /\ \A i, j \in Positions(c, "timeout") : i = j

LEMMA MatchedParts == JournalMatchesCommits <=> \A c \in Calls : Matched(c)
  BY DEF JournalMatchesCommits, Matched, Positions

\* A commit script runs once, and a marker's turn is never committed.
LEMMA MatchInductive ==
  ASSUME ~Resends, FramesOK, StoreOK, ScriptInv, AnswersAreFinal, OnceInv,
         JournalMatchesCommits, [Next]_vars
  PROVE  JournalMatchesCommits'
  <1>1. PICK N \in Nat : N = Len(journal)
    BY LenProperties DEF StoreOK
  <1>2. \A d \in Calls : Matched(d)
    BY MatchedParts
  <1>3. \A d \in Calls : outcome[d] = Rejected("timeout") => ~IsApplied(d) /\ wire[d] # "commit"
    BY OutcomesDiffer DEF AnswersAreFinal, FinalErrors
  <1>4. ASSUME NEW d \in Calls, NEW M \in Nat, M = Len(journal'), M >= N,
               IsApplied(d)' <=> IsApplied(d),
               Positions(d, "event")' = Positions(d, "event"),
               Positions(d, "timeout")' = Positions(d, "timeout")
        PROVE  Matched(d)'
    <2>1. \A start \in 0..N : start \in 0..M
      BY <1>4
    <2> QED
      BY <1>1, <1>2, <1>4, <2>1 DEF Matched
  <1>5. CASE UNCHANGED <<journal, applied>>
    BY <1>1, <1>2, <1>5 DEF Matched, Positions, IsApplied, JournalMatchesCommits
  <1>6. ASSUME NEW c \in Calls, Commit(c) PROVE JournalMatchesCommits'
    <2>1. PICK n \in Nat : n = EventsOf[c]
      BY EventsOfAssumption
    <2>2. /\ Len(journal') = N + n
          /\ Positions(c, "event")' = Positions(c, "event") \cup ((N + 1)..(N + n))
          /\ \A d, k : d # c \/ k # "event" => Positions(d, k)' = Positions(d, k)
      BY <1>1, <1>6, <2>1, EntriesAppear DEF Commit
    <2>3. \A d \in Calls : IsApplied(d)' <=> IsApplied(d) \/ d = c
      BY <1>6, AppliesEffect DEF Commit
    <2>4. wire[c] = "commit" /\ ~IsApplied(c)
      BY <1>6 DEF Commit, Runs, ScriptInv
    <2>5. Positions(c, "event") = {} /\ Positions(c, "timeout") = {}
      BY <1>2, <1>3, <2>4 DEF Matched, OnceInv
    <2>6. Positions(c, "event")' = (N + 1)..(N + EventsOf[c]) /\ N \in 0..(N + n)
      <3>1. N \in 0..(N + n)
        OBVIOUS
      <3>2. (N + 1)..(N + n) = (N + 1)..(N + EventsOf[c])
        BY <2>1
      <3> QED
        BY <2>2, <2>5, <3>1, <3>2
    <2>7. Matched(c)'
      BY <2>2, <2>3, <2>5, <2>6 DEF Matched
    <2>8. \A d \in Calls : d # c => Matched(d)'
      <3>1. N + n \in Nat /\ N + n >= N /\ "timeout" # "event"
        OBVIOUS
      <3> QED
        BY <1>4, <2>2, <2>3, <3>1
    <2>9. \A d \in Calls : Matched(d)'
      BY <2>7, <2>8
    <2> QED
      BY <2>9 DEF JournalMatchesCommits, Matched, Positions
  <1>7. ASSUME NEW c \in Calls, Mark(c) PROVE JournalMatchesCommits'
    <2>1. /\ Len(journal') = N + 1
          /\ Positions(c, "timeout")' = Positions(c, "timeout") \cup ((N + 1)..(N + 1))
          /\ \A d, k : d # c \/ k # "timeout" => Positions(d, k)' = Positions(d, k)
      BY <1>1, <1>7, EntriesAppear DEF Mark
    <2>2. \A d \in Calls : IsApplied(d)' <=> IsApplied(d)
      BY <1>7 DEF Mark, IsApplied
    <2>3. wire[c] = "marker"
      BY <1>7 DEF Mark, Runs
    <2>4. ~IsApplied(c) /\ Positions(c, "timeout") = {}
      BY <1>3, <2>3 DEF OnceInv
    <2>5. Positions(c, "timeout")' = {N + 1}
      BY <2>1, <2>4
    <2>6. Positions(c, "event")' = {}
      BY <1>2, <2>1, <2>4 DEF Matched
    <2>7. Matched(c)'
      BY <2>2, <2>4, <2>5, <2>6 DEF Matched
    <2>8. \A d \in Calls : d # c => Matched(d)'
      <3>1. N + 1 \in Nat /\ N + 1 >= N
        OBVIOUS
      <3> QED
        BY <1>4, <2>1, <2>2, <3>1
    <2>9. \A d \in Calls : Matched(d)'
      BY <2>7, <2>8
    <2> QED
      BY <2>9 DEF JournalMatchesCommits, Matched, Positions
  <1> QED
    BY <1>5, <1>6, <1>7, StoreSteps DEF stored, DedupExpires

LEMMA LatestInductive ==
  ASSUME ~Resends, FramesOK, StoreOK, ScriptInv, LatestInv, [Next]_vars
  PROVE  LatestInv'
  <1>1. PICK n \in Nat : n = Len(applied) /\ DOMAIN applied = 1..n
    BY LenProperties DEF StoreOK
  <1>2. \A i \in DOMAIN applied : applied[i] \in Calls /\ IsApplied(applied[i])
    BY ElementOfSeq, <1>1 DEF StoreOK, IsApplied
  <1>3. \A i \in DOMAIN applied : request'[applied[i]] = request[applied[i]]
    BY <1>2, RequestsAreFixed DEF ScriptInv
  <1>4. CASE UNCHANGED applied /\ dedup' \subseteq dedup
    <2> SUFFICES ASSUME NEW d \in dedup'
                 PROVE  \E i \in DOMAIN applied : /\ applied[i] = d.result
                          /\ \A j \in DOMAIN applied : j > i => request'[applied[j]] # d.request
      BY <1>4 DEF LatestInv
    <2>1. PICK i \in DOMAIN applied : /\ applied[i] = d.result
            /\ \A j \in DOMAIN applied : j > i => request[applied[j]] # d.request
      BY <1>4 DEF LatestInv
    <2> QED
      BY <1>3, <2>1
  <1>5. ASSUME NEW c \in Calls, Commit(c) PROVE LatestInv'
    <2>1. ~IsApplied(c) /\ wire[c] = "commit"
      BY <1>5 DEF Commit, Runs, ScriptInv
    <2>2. /\ DOMAIN applied' = 1..(n + 1) /\ applied'[n + 1] = c
          /\ \A i \in 1..n : applied'[i] = applied[i]
      <3>1. DOMAIN applied \cup {n + 1} = 1..(n + 1)
        BY <1>1
      <3> QED
        BY <1>1, <1>5, <2>1, <3>1, AppliesEffect DEF Commit
    <2>3. request'[c] = request[c]
      BY <2>1, RequestsAreFixed DEF ScriptInv
    <2>4. \A j \in 1..(n + 1) : j \in 1..n \/ j = n + 1
      OBVIOUS
    <2>5. ASSUME NEW d \in dedup, d.request # request[c]
          PROVE  \E i \in 1..(n + 1) : /\ applied'[i] = d.result
                   /\ \A j \in 1..(n + 1) : j > i => request'[applied'[j]] # d.request
      <3>1. PICK i \in 1..n : /\ applied[i] = d.result
              /\ \A j \in 1..n : j > i => request[applied[j]] # d.request
        BY <1>1 DEF LatestInv
      <3>2. i \in 1..(n + 1)
        OBVIOUS
      <3> QED
        BY <1>1, <1>3, <2>2, <2>3, <2>4, <2>5, <3>1, <3>2
    <2>6. ASSUME NEW d, d = [request |-> request[c], command |-> command[c], result |-> c]
          PROVE  \E i \in 1..(n + 1) : /\ applied'[i] = d.result
                   /\ \A j \in 1..(n + 1) : j > i => request'[applied'[j]] # d.request
      <3>1. n + 1 \in 1..(n + 1) /\ \A j \in 1..(n + 1) : ~(j > n + 1)
        OBVIOUS
      <3> QED
        BY <2>2, <2>6, <3>1
    <2>7. \A d \in dedup' : \/ d \in dedup /\ d.request # request[c]
                            \/ d = [request |-> request[c], command |-> command[c], result |-> c]
      BY <1>5 DEF Commit
    <2>8. \A d \in dedup' : \E i \in 1..(n + 1) : /\ applied'[i] = d.result
            /\ \A j \in 1..(n + 1) : j > i => request'[applied'[j]] # d.request
      BY <2>5, <2>6, <2>7
    <2> QED
      BY <2>2, <2>8 DEF LatestInv
  <1>6. CASE DedupExpires
    BY <1>4, <1>6 DEF DedupExpires
  <1> QED
    BY <1>4, <1>5, <1>6, StoreSteps DEF stored, Mark

\* What is known of a seat whose client sends no script twice.
Once == IInv /\ TypeOK /\ OnceInv /\ LatestInv /\ JournalMatchesCommits

LEMMA OnceHolds == ASSUME ~Resends PROVE Spec => []Once
  <1>1. Init => OnceInv /\ LatestInv /\ JournalMatchesCommits
    <2> SUFFICES ASSUME Init PROVE OnceInv /\ LatestInv /\ JournalMatchesCommits
      OBVIOUS
    <2>1. \A c : Positions(c, "timeout") = {} /\ Positions(c, "event") = {} /\ ~IsApplied(c)
      <3>1. DOMAIN <<>> = {}
        OBVIOUS
      <3> QED
        BY <3>1 DEF Init, Positions, IsApplied
    <2>2. OnceInv /\ LatestInv
      BY <2>1 DEF Init, OnceInv, LatestInv
    <2>3. \A c \in Calls : Matched(c)
      BY <2>1 DEF Matched
    <2> QED
      BY <2>2, <2>3, MatchedParts
  <1>2. (TypeOK /\ IInv) /\ (OnceInv /\ LatestInv /\ JournalMatchesCommits) /\ [Next]_vars
          => (OnceInv /\ LatestInv /\ JournalMatchesCommits)'
    <2> SUFFICES ASSUME FramesOK, StoreOK, IInv, OnceInv, LatestInv, JournalMatchesCommits,
                        [Next]_vars
                 PROVE  (OnceInv /\ LatestInv /\ JournalMatchesCommits)'
      BY TypeParts
    <2> QED
      BY OnceInductive, LatestInductive, MatchInductive DEF IInv
  <1> QED
    BY <1>1, <1>2, InvariantHolds, TypeCorrect, PTL DEF Spec, Once

\* A client that sends no script twice keeps the journal and the commits in step: a
\* committed turn has its events once and side by side, and a turn marked as timed out
\* has one marker and is never committed, whichever replies and processes are lost.
THEOREM JournalAndCommitsAgree == ASSUME ~Resends PROVE Spec => []JournalMatchesCommits
  <1>1. Once => JournalMatchesCommits
    BY DEF Once
  <1> QED
    BY <1>1, OnceHolds, PTL

-----------------------------------------------------------------------------
(* The seat keeps the contract of the in-process runtimes. *)

Fates == [c \in Calls |-> Fate(c)]
Memory == {d.request : d \in dedup}

\* What the contract is told of a call that has not ended.
LEMMA OpenCalls ==
  ASSUME Once, NEW c \in Calls, wire[c] # "commit" \/ ~Resends,
         \/ phase[c] \in {"acquiring", "looking", "loading", "receiving"}
         \/ phase[c] = "committing" /\ wire[c] # "commit" /\ ~IsApplied(c)
         \/ wire[c] = "commit"
  PROVE  /\ Fate(c) = Pending /\ ~IsApplied(c) /\ phase[c] # "idle"
         /\ request[c] \in Requests
  <1>0. ScriptInv /\ AnswerInv /\ FramesOK
    BY TypeParts DEF Once, IInv
  <1>1. CASE phase[c] \in {"acquiring", "looking", "loading", "receiving"}
    <2>1. outcome[c] = Pending /\ ~IsApplied(c) /\ wire[c] # "commit"
      BY <1>0, <1>1 DEF ScriptInv, AnswerInv
    <2> QED
      BY <1>0, <1>1, <2>1, OutcomesDiffer DEF Fate, FramesOK
  <1>2. CASE phase[c] = "committing" /\ wire[c] # "commit" /\ ~IsApplied(c)
    <2>1. outcome[c] = Pending
      BY <1>0, <1>2 DEF AnswerInv
    <2> QED
      BY <1>0, <1>2, <2>1, OutcomesDiffer DEF Fate, FramesOK
  <1>3. CASE wire[c] = "commit"
    <2>1. ~IsApplied(c) /\ phase[c] # "idle"
      BY <1>0, <1>3 DEF ScriptInv
    <2> QED
      BY <1>0, <1>3, <2>1 DEF Fate, FramesOK
  <1> QED
    BY <1>1, <1>2, <1>3

\* A step that tells nobody what its call came to.
LEMMA FatesStay ==
  ASSUME \A d \in Calls :
           /\ phase[d] = "idle" <=> phase'[d] = "idle"
           /\ IsApplied(d)' <=> IsApplied(d)
           /\ phase[d] = "idle" \/ IsApplied(d) \/
                \/ wire[d] = "commit" /\ wire'[d] = "commit"
                \/ outcome[d] = Pending /\ outcome'[d] = Pending
                \/ /\ outcome'[d] = outcome[d]
                   /\ wire'[d] = "commit" <=> wire[d] = "commit"
  PROVE  Fates' = Fates
  <1> SUFFICES ASSUME NEW d \in Calls PROVE Fate(d)' = Fate(d)
    BY DEF Fates
  <1>1. CASE phase[d] = "idle" \/ IsApplied(d)
    BY <1>1 DEF Fate
  <1>2. CASE wire[d] = "commit" /\ wire'[d] = "commit" /\ phase[d] # "idle" /\ ~IsApplied(d)
    BY <1>2 DEF Fate
  <1>3. CASE outcome[d] = Pending /\ outcome'[d] = Pending /\ phase[d] # "idle" /\ ~IsApplied(d)
    BY <1>3, OutcomesDiffer DEF Fate
  <1>4. CASE /\ outcome'[d] = outcome[d] /\ phase[d] # "idle" /\ ~IsApplied(d)
             /\ wire'[d] = "commit" <=> wire[d] = "commit"
    BY <1>4 DEF Fate
  <1> QED
    BY <1>1, <1>2, <1>3, <1>4

\* A step that tells only of c.
LEMMA FatesMove ==
  ASSUME NEW c \in Calls, NEW o, Fate(c)' = o,
         \A d \in Calls : d # c =>
           /\ phase'[d] = phase[d] /\ outcome'[d] = outcome[d] /\ wire'[d] = wire[d]
           /\ IsApplied(d)' <=> IsApplied(d)
  PROVE  Fates' = [Fates EXCEPT ![c] = o]
  <1>1. \A d \in Calls : d # c => Fate(d)' = Fate(d)
    BY DEF Fate
  <1>2. Fates' = [d \in Calls |-> IF d = c THEN o ELSE Fate(d)]
    BY <1>1 DEF Fates
  <1> QED
    BY <1>2 DEF Fates

\* Nothing the contract knows of changes, but for requestIds that are forgotten.
LEMMA QuietSteps ==
  ASSUME Fates' = Fates, dedup' \subseteq dedup, UNCHANGED <<request, command, state, journal>>
  PROVE  Seat!Forget
  <1>1. Memory' \subseteq Memory
    BY DEF Memory
  <1> QED
    BY <1>1 DEF Seat!Forget, Fates, Memory

\* A call that is told an error, with no commit of its own made or on its way.
LEMMA ErrorsReject ==
  ASSUME Once, NEW c \in Calls, NEW k \in Errors, Fate(c) = Pending,
         phase'[c] # "idle", ~IsApplied(c), wire'[c] # "commit", outcome'[c] = Rejected(k),
         \A d \in Calls : d # c =>
           phase'[d] = phase[d] /\ outcome'[d] = outcome[d] /\ wire'[d] = wire[d],
         UNCHANGED <<request, command, state, dedup, applied, journal>>
  PROVE  Seat!Reject(c)
  <1>1. \A d \in Calls : IsApplied(d)' <=> IsApplied(d)
    BY DEF IsApplied
  <1>2. PICK o : o = Fate(c)'
    OBVIOUS
  <1>3. o = [kind |-> "failed"] \/ o = [kind |-> "timeout"]
    <2>1. CASE k \in {"busy", "leaseLost"}
      BY <1>1, <1>2, <2>1, OutcomesDiffer DEF Fate, Rejected
    <2>2. CASE k \in {"failed", "timeout"}
      BY <1>1, <1>2, <2>2, OutcomesDiffer DEF Fate, Rejected
    <2> QED
      BY <2>1, <2>2 DEF Errors
  <1>4. Fates' = [Fates EXCEPT ![c] = o]
    BY <1>1, <1>2, FatesMove
  <1>5. Seat!Is(c, "pending")
    BY OutcomesDiffer DEF Seat!Is
  <1>6. Memory' = Memory
    BY DEF Memory
  <1>7. Seat!Answer(c, [kind |-> "failed"]) \/ Seat!Answer(c, [kind |-> "timeout"])
    BY <1>3, <1>4, Zenon DEF Seat!Answer, Fates
  <1> QED
    BY <1>5, <1>6, <1>7 DEF Seat!Reject, Memory

LEMMA InvokeSubmits ==
  ASSUME Once, NEW c \in Calls, NEW r \in Requests, NEW k \in Commands, Invoke(c, r, k)
  PROVE  Seat!Submit(c, r, k)
  <1>0. ScriptInv /\ AnswerInv /\ FramesOK
    BY TypeParts DEF Once, IInv
  <1>1. /\ phase[c] = "idle" /\ phase' = [phase EXCEPT ![c] = "acquiring"]
        /\ request' = [request EXCEPT ![c] = r] /\ command' = [command EXCEPT ![c] = k]
        /\ UNCHANGED <<outcome, wire, state, dedup, applied, journal>>
    BY DEF Invoke, Goes, stored
  <1>2. outcome[c] = Pending /\ ~IsApplied(c) /\ wire[c] # "commit"
    BY <1>0, <1>1 DEF ScriptInv, AnswerInv
  <1>3. \A d \in Calls : IsApplied(d)' <=> IsApplied(d)
    BY <1>1 DEF IsApplied
  <1>4. phase'[c] = "acquiring" /\ \A d \in Calls : d # c => phase'[d] = phase[d]
    BY <1>0, <1>1 DEF FramesOK
  <1>5. Fate(c)' = Pending
    BY <1>1, <1>2, <1>3, <1>4, OutcomesDiffer DEF Fate
  <1>6. Fates' = [Fates EXCEPT ![c] = Pending]
    BY <1>1, <1>3, <1>4, <1>5, FatesMove
  <1>7. Seat!Is(c, "unsent")
    BY <1>1 DEF Seat!Is, Fate
  <1>8. Memory' = Memory
    BY <1>1 DEF Memory
  <1> QED
    BY <1>1, <1>6, <1>7, <1>8 DEF Seat!Submit, Seat!Answer, Fates, Memory, Pending

\* The dedup hash holds the latest commit of the request.
LEMMA ReplayReplays ==
  ASSUME Once, ~Resends, NEW c \in Calls, Replay(c)
  PROVE  Seat!Replay(c) \/ Seat!Reject(c)
  <1>0. ScriptInv /\ AnswerInv /\ FramesOK /\ StoreOK
    BY TypeParts DEF Once, IInv
  <1>1. phase[c] = "looking" /\ UNCHANGED <<wire, request, command, state, dedup, applied, journal>>
    BY DEF Replay, Leave, stored, made
  <1>2. PICK d \in dedup :
          /\ d.request = request[c]
          /\ Leave(c, IF d.command = command[c] THEN Resolved("replayed", d.result)
                                                ELSE Rejected("failed"))
    BY DEF Replay
  <1>3. PICK o : o = IF d.command = command[c] THEN Resolved("replayed", d.result)
                                               ELSE Rejected("failed")
    OBVIOUS
  <1>4. /\ phase'[c] = "releasing" /\ outcome'[c] = o
        /\ \A e \in Calls : e # c => phase'[e] = phase[e] /\ outcome'[e] = outcome[e]
    BY <1>0, <1>2, <1>3 DEF Leave, Goes, Told, FramesOK
  <1>5. /\ Fate(c) = Pending /\ ~IsApplied(c) /\ wire[c] # "commit"
    BY <1>0, <1>1, OpenCalls DEF ScriptInv
  <1>6. CASE d.command # command[c]
    BY <1>1, <1>3, <1>4, <1>5, <1>6, ErrorsReject DEF Errors
  <1>7. CASE d.command = command[c]
    <2>1. o = Resolved("replayed", d.result) /\ \A e \in Calls : IsApplied(e)' <=> IsApplied(e)
      BY <1>1, <1>3, <1>7 DEF IsApplied
    <2>2. Fate(c)' = o
      BY <1>1, <1>4, <1>5, <2>1, OutcomesDiffer DEF Fate
    <2>3. Fates' = [Fates EXCEPT ![c] = o]
      BY <1>1, <1>4, <2>1, <2>2, FatesMove
    <2>4. PICK i \in DOMAIN applied :
            /\ applied[i] = d.result
            /\ \A j \in DOMAIN applied : j > i => request[applied[j]] # d.request
      BY DEF Once, LatestInv
    <2>5. request[d.result] = d.request /\ command[d.result] = d.command
      BY DEF Once, IInv, DedupInv
    <2>6. state = applied
      BY DEF Once, IInv, NoLostUpdate
    <2>7. /\ i \in DOMAIN state /\ Seat!IsLatest(i, request[c]) /\ command[state[i]] = command[c]
          /\ o = [kind |-> "replayed", from |-> state[i]]
      BY <1>2, <1>7, <2>1, <2>4, <2>5, <2>6 DEF Seat!IsLatest, Resolved
    <2>8. Seat!Answer(c, [kind |-> "replayed", from |-> state[i]])
      BY <2>3, <2>7, Zenon DEF Seat!Answer, Fates
    <2>9. Seat!Is(c, "pending")
      BY <1>5, OutcomesDiffer DEF Seat!Is
    <2>10. request[c] \in Memory /\ Memory' = Memory
      BY <1>1, <1>2 DEF Memory
    <2> QED
      BY <1>1, <2>7, <2>8, <2>9, <2>10 DEF Seat!Replay, Memory
  <1> QED
    BY <1>6, <1>7

\* The script that commits is the commit of the contract.
LEMMA CommitCommits ==
  ASSUME Once, ~Resends, NEW c \in Calls, Commit(c)
  PROVE  Seat!Commit(c, EventsOf[c])
  <1>0. ScriptInv /\ FencingInv /\ FramesOK /\ StoreOK
    BY TypeParts DEF Once, IInv
  <1>1. wire[c] = "commit" /\ lease = c
    BY DEF Commit, Runs
  <1>2. Fate(c) = Pending /\ ~IsApplied(c) /\ phase[c] # "idle"
    BY <1>1, OpenCalls
  <1>3. working[c] = state /\ ~Known(request[c])
    BY <1>0, <1>1, <1>2 DEF FencingInv
  <1>4. /\ \A d \in Calls : d # c =>
             phase'[d] = phase[d] /\ outcome'[d] = outcome[d] /\ wire'[d] = wire[d]
        /\ phase'[c] # "idle" /\ UNCHANGED <<request, command>>
    <2>1. CASE Leave(c, Resolved("committed", c)) /\ Puts(c, "none")
      BY <1>0, <2>1 DEF Leave, Goes, Told, Puts, made, FramesOK
    <2>2. CASE /\ UNCHANGED <<phase, outcome, made>>
               /\ Puts(c, "none") \/ UNCHANGED wire
      BY <1>0, <1>2, <2>2 DEF Puts, made, FramesOK
    <2> QED
      BY <2>1, <2>2 DEF Commit, Runs
  <1>5. \A d \in Calls : IsApplied(d)' <=> IsApplied(d) \/ d = c
    BY <1>0, AppliesEffect DEF Commit
  <1>6. Fate(c)' = [kind |-> "committed", from |-> c]
    BY <1>4, <1>5 DEF Fate, Resolved
  <1>7. Fates' = [Fates EXCEPT ![c] = [kind |-> "committed", from |-> c]]
    BY <1>4, <1>5, <1>6, FatesMove
  <1>8. state' = Append(state, c)
    BY <1>3 DEF Commit
  <1>9. journal' = journal \o Seat!Entries(c, "event", EventsOf[c])
    BY DEF Commit, AddEntries, Seat!Entries, Once, IInv, JournalIsASuffix
  <1>10. request[c] \notin Memory
    BY <1>3 DEF Memory, Known
  <1>11. \E kept \in SUBSET Memory : Memory' = kept \cup {request[c]}
    <2> DEFINE new == [request |-> request[c], command |-> command[c], result |-> c]
    <2>1. new.request = request[c]
      OBVIOUS
    <2>2. \A d \in dedup : d.request # request[c]
      BY <1>3 DEF Known
    <2> HIDE DEF new
    <2>3. dedup' = dedup \cup {new}
      BY <2>2 DEF Commit, new
    <2>4. Memory' = Memory \cup {request[c]}
      BY <2>1, <2>3 DEF Memory
    <2> QED
      BY <2>4
  <1>12. Seat!Is(c, "pending")
    BY <1>2, OutcomesDiffer DEF Seat!Is
  <1> QED
    BY <1>4, <1>7, <1>8, <1>9, <1>10, <1>11, <1>12 DEF Seat!Commit, Seat!Answer, Fates, Memory

\* A commit that Redis refuses was its call's last chance to be told of one.
LEMMA RefusalsReject ==
  ASSUME Once, ~Resends, NEW c \in Calls, CommitRefused(c) \/ CommitAborts(c)
  PROVE  Seat!Reject(c) \/ Seat!Forget
  <1>0. FramesOK /\ OnceInv
    BY TypeParts DEF Once
  <1>1. PICK k \in {"leaseLost", "failed"} : Runs(c, "commit", "committing", Rejected(k))
    BY DEF CommitRefused, CommitAborts
  <1>2. UNCHANGED <<state, dedup, applied, journal>>
    BY DEF CommitRefused, CommitAborts, stored
  <1>3. wire[c] = "commit"
    BY <1>1 DEF Runs
  <1>4. Fate(c) = Pending /\ ~IsApplied(c) /\ phase[c] # "idle"
    BY <1>3, OpenCalls
  <1>5. \A d \in Calls : IsApplied(d)' <=> IsApplied(d)
    BY <1>2 DEF IsApplied
  <1>6. wire'[c] = "none" /\ \A d \in Calls : d # c => wire'[d] = wire[d]
    BY <1>0, <1>1 DEF Runs, Puts, FramesOK
  <1>7. CASE Leave(c, Rejected(k))
    <2>1. /\ \A d \in Calls : d # c => phase'[d] = phase[d] /\ outcome'[d] = outcome[d]
          /\ phase'[c] # "idle" /\ outcome'[c] = Rejected(k) /\ UNCHANGED <<request, command>>
      BY <1>0, <1>7 DEF Leave, Goes, Told, made, FramesOK
    <2>2. k \in Errors
      BY DEF Errors
    <2> QED
      BY <1>2, <1>4, <1>6, <2>1, <2>2, ErrorsReject
  <1>8. CASE UNCHANGED <<phase, outcome, made>>
    <2>1. UNCHANGED <<request, command>> /\ phase'[c] # "idle"
      BY <1>4, <1>8 DEF made
    <2>2. CASE outcome[c] = Rejected("failed")
      <3>1. "failed" \in Errors
        BY DEF Errors
      <3>2. outcome'[c] = Rejected("failed")
        BY <1>8, <2>2
      <3> QED
        BY <1>2, <1>4, <1>6, <1>8, <2>1, <3>1, <3>2, ErrorsReject
    <2>3. CASE outcome[c] = Pending
      <3>1. Fates' = Fates
        BY <1>4, <1>5, <1>6, <1>8, <2>3, FatesStay
      <3> QED
        BY <1>2, <2>1, <3>1, QuietSteps
    <2> QED
      BY <1>0, <1>3, <2>2, <2>3 DEF OnceInv
  <1> QED
    BY <1>1, <1>7, <1>8 DEF Runs

\* The marker of a timed-out turn is the only entry the journal has of it.
LEMMA MarkMarks ==
  ASSUME Once, ~Resends, NEW c \in Calls, Mark(c)
  PROVE  Seat!Mark(c)
  <1>0. AnswerInv /\ AnswersAreFinal /\ OnceInv /\ JournalMatchesCommits /\ FramesOK /\ StoreOK
    BY TypeParts DEF Once, IInv
  <1>1. /\ Runs(c, "marker", "marking", outcome[c]) /\ wire[c] = "marker"
        /\ UNCHANGED <<state, dedup, applied>>
    BY DEF Mark, Runs
  <1>2. outcome[c] = Rejected("timeout") /\ Positions(c, "timeout") = {}
    BY <1>0, <1>1 DEF OnceInv
  <1>3. ~IsApplied(c) /\ Positions(c, "event") = {}
    <2>1. ~IsApplied(c)
      BY <1>0, <1>2, OutcomesDiffer DEF AnswersAreFinal, FinalErrors
    <2> QED
      BY <1>0, <2>1, MatchedParts DEF Matched
  <1>4. phase[c] # "idle"
    BY <1>0, <1>2, OutcomesDiffer DEF AnswerInv
  <1>5. /\ phase'[c] # "idle" /\ outcome' = outcome /\ wire'[c] # "commit"
        /\ \A d \in Calls : d # c => phase'[d] = phase[d] /\ wire'[d] = wire[d]
        /\ UNCHANGED <<request, command>>
    <2>1. wire'[c] # "commit" /\ \A d \in Calls : d # c => wire'[d] = wire[d]
      BY <1>0, <1>1 DEF Runs, Puts, FramesOK
    <2>2. CASE Leave(c, outcome[c])
      BY <1>0, <2>1, <2>2 DEF Leave, Goes, Told, made, FramesOK
    <2>3. CASE UNCHANGED <<phase, outcome, made>>
      BY <1>4, <2>1, <2>3 DEF made
    <2> QED
      BY <1>1, <2>2, <2>3 DEF Runs
  <1>6. \A d \in Calls : IsApplied(d)' <=> IsApplied(d)
    BY <1>1 DEF IsApplied
  <1>7. Fates' = Fates
    <2>1. wire'[c] = "commit" <=> wire[c] = "commit"
      BY <1>1, <1>5
    <2>2. \A d \in Calls : /\ phase[d] = "idle" <=> phase'[d] = "idle"
                           /\ outcome'[d] = outcome[d]
                           /\ wire'[d] = "commit" <=> wire[d] = "commit"
      BY <1>4, <1>5, <2>1
    <2> QED
      BY <1>6, <2>2, FatesStay
  <1>8. Seat!Is(c, "timeout")
    BY <1>1, <1>2, <1>3, <1>4, OutcomesDiffer DEF Seat!Is, Fate
  <1>9. \A i \in DOMAIN journal : journal[i].call # c
    <2> SUFFICES ASSUME NEW i \in DOMAIN journal, journal[i].call = c PROVE FALSE
      OBVIOUS
    <2>1. journal[i] \in Entry
      BY <1>0, ElementOfSeq, LenProperties DEF StoreOK
    <2>2. journal[i].kind \in {"event", "timeout"}
      BY <2>1 DEF Entry
    <2> QED
      BY <1>2, <1>3, <2>2 DEF Positions
  <1>10. journal' = journal \o Seat!Entries(c, "timeout", 1)
    BY DEF Mark, AddEntries, Seat!Entries, Once, IInv, JournalIsASuffix
  <1>11. Memory' = Memory
    BY <1>1 DEF Memory
  <1> QED
    BY <1>1, <1>5, <1>7, <1>8, <1>9, <1>10, <1>11 DEF Seat!Mark, Fates, Memory

\* A call whose turn has ended without a commit on its way is told an error.
LEMMA ProcessRejects ==
  ASSUME Once, ~Resends, NEW c \in Calls,
         \/ Acquire(c) \/ AcquireFails(c) \/ TurnFails(c) \/ DeadlinePasses(c) \/ GiveUp(c)
  PROVE  Seat!Reject(c) \/ Seat!Forget
  <1>0. FramesOK /\ ScriptInv
    BY TypeParts DEF Once, IInv
  <1>1. phase[c] \in {"acquiring", "looking", "loading", "receiving"}
    BY DEF Acquire, AcquireFails, TurnFails, DeadlinePasses, GiveUp
  <1>2. Fate(c) = Pending /\ ~IsApplied(c) /\ wire[c] # "commit"
    BY <1>0, <1>1, OpenCalls DEF ScriptInv
  <1>3. UNCHANGED <<request, command, state, dedup, applied, journal>>
    BY DEF Acquire, AcquireFails, TurnFails, DeadlinePasses, GiveUp, Leave, stored, made
  <1>4. /\ \A d \in Calls : d # c => wire'[d] = wire[d]
        /\ wire'[c] # "commit"
    <2>1. CASE DeadlinePasses(c)
      BY <1>0, <2>1 DEF DeadlinePasses, Puts, FramesOK
    <2>2. CASE Acquire(c) \/ AcquireFails(c) \/ TurnFails(c) \/ GiveUp(c)
      BY <1>2, <2>2 DEF Acquire, AcquireFails, TurnFails, GiveUp
    <2> QED
      BY <2>1, <2>2
  <1>5. ASSUME NEW k \in Errors, NEW p, p # "idle", Goes(c, p), Told(c, Rejected(k))
        PROVE  Seat!Reject(c)
    <2>1. /\ \A d \in Calls : d # c => phase'[d] = phase[d] /\ outcome'[d] = outcome[d]
          /\ phase'[c] # "idle" /\ outcome'[c] = Rejected(k)
      BY <1>0, <1>5 DEF Goes, Told, FramesOK
    <2> QED
      BY <1>2, <1>3, <1>4, <2>1, ErrorsReject
  <1>6. CASE AcquireFails(c) \/ TurnFails(c) \/ DeadlinePasses(c) \/ GiveUp(c)
    <2>1. \E k \in Errors, p \in {"done", "marking", "releasing"} :
            Goes(c, p) /\ Told(c, Rejected(k))
      BY <1>6 DEF AcquireFails, TurnFails, DeadlinePasses, GiveUp, Leave, Errors
    <2> QED
      BY <1>5, <2>1
  <1>7. CASE Acquire(c)
    <2>1. CASE Goes(c, "done") /\ Told(c, Rejected("failed"))
      <3>1. "failed" \in Errors
        BY DEF Errors
      <3> QED
        BY <1>5, <2>1, <3>1
    <2>2. CASE Goes(c, "looking") /\ UNCHANGED outcome
      <3>1. \A d \in Calls : phase[d] = "idle" <=> phase'[d] = "idle"
        BY <1>0, <1>1, <2>2 DEF Goes, FramesOK
      <3>2. \A d \in Calls : IsApplied(d)' <=> IsApplied(d)
        BY <1>3 DEF IsApplied
      <3>3. wire' = wire
        BY <1>7 DEF Acquire
      <3>4. Fates' = Fates
        BY <2>2, <3>1, <3>2, <3>3, FatesStay
      <3> QED
        BY <1>3, <3>4, QuietSteps
    <2> QED
      BY <1>7, <2>1, <2>2 DEF Acquire
  <1> QED
    BY <1>6, <1>7

\* A connection that fails under a commit tells of an error only if no commit was made
\* and none is on its way.
LEMMA ConnectionsReject ==
  ASSUME Once, ~Resends, NEW c \in Calls, ConnectionFails(c)
  PROVE  Seat!Reject(c) \/ Seat!Forget
  <1>0. FramesOK
    BY TypeParts DEF Once
  <1>1. UNCHANGED <<wire, request, command, state, dedup, applied, journal>>
    BY DEF ConnectionFails, Leave, stored, made
  <1>2. \A d \in Calls : IsApplied(d)' <=> IsApplied(d)
    BY <1>1 DEF IsApplied
  <1>3. PICK o : /\ \A d \in Calls : d # c => phase'[d] = phase[d] /\ outcome'[d] = outcome[d]
                 /\ phase[c] # "idle" /\ phase'[c] # "idle" /\ outcome'[c] = o
                 /\ o = outcome[c] \/ (phase[c] = "committing" /\ o = Rejected("failed"))
    BY <1>0 DEF ConnectionFails, Leave, Goes, Told, FramesOK
  <1>4. CASE /\ phase[c] = "committing" /\ wire[c] # "commit" /\ ~IsApplied(c)
             /\ o = Rejected("failed")
    <2>1. Fate(c) = Pending /\ "failed" \in Errors
      BY <1>4, OpenCalls DEF Errors
    <2> QED
      BY <1>1, <1>3, <1>4, <2>1, ErrorsReject
  <1>5. CASE IsApplied(c) \/ wire[c] = "commit" \/ o = outcome[c]
    <2>1. Fates' = Fates
      BY <1>1, <1>2, <1>3, <1>5, FatesStay
    <2> QED
      BY <1>1, <2>1, QuietSteps
  <1> QED
    BY <1>3, <1>4, <1>5

\* The steps nobody is told of.
LEMMA OthersStutter ==
  ASSUME Once, ~Resends,
         \/ \E c \in Calls : \/ Miss(c) \/ Load(c) \/ SendCommit(c) \/ RenewalFails(c)
                             \/ RenewalCapped(c) \/ Crash(c) \/ Release(c)
         \/ LeaseLapses \/ DedupExpires
  PROVE  Seat!Forget
  <1>0. FramesOK /\ AnswerInv
    BY TypeParts DEF Once, IInv
  <1>1. /\ dedup' \subseteq dedup
        /\ UNCHANGED <<request, command, state, applied, journal, outcome>>
    <2>1. ASSUME NEW c \in Calls, \/ Miss(c) \/ Load(c) \/ SendCommit(c) \/ RenewalFails(c)
                                  \/ RenewalCapped(c) \/ Crash(c) \/ Release(c)
          PROVE  UNCHANGED <<request, command, state, dedup, applied, journal, outcome>>
      BY <2>1 DEF Miss, Load, SendCommit, RenewalFails, RenewalCapped, Crash, Release,
                  stored, made
    <2>2. CASE LeaseLapses
      BY <2>2 DEF LeaseLapses, stored, made
    <2>3. CASE DedupExpires
      BY <2>3 DEF DedupExpires, made
    <2> QED
      BY <2>1, <2>2, <2>3
  <1>2. \A d \in Calls : IsApplied(d)' <=> IsApplied(d)
    BY <1>1 DEF IsApplied
  <1>3. \A d \in Calls : /\ phase[d] = "idle" <=> phase'[d] = "idle"
                         /\ wire'[d] = wire[d] \/ outcome[d] = Pending
    <2>1. ASSUME NEW c \in Calls, SendCommit(c)
          PROVE  \A d \in Calls : /\ phase[d] = "idle" <=> phase'[d] = "idle"
                                  /\ wire'[d] = wire[d] \/ outcome[d] = Pending
      BY <1>0, <2>1 DEF SendCommit, Goes, Puts, FramesOK, AnswerInv
    <2>2. ASSUME NEW c \in Calls, Miss(c) \/ Load(c) \/ Crash(c) \/ Release(c)
          PROVE  \A d \in Calls : /\ phase[d] = "idle" <=> phase'[d] = "idle"
                                  /\ wire'[d] = wire[d]
      BY <1>0, <2>2 DEF Miss, Load, Crash, Release, Goes, FramesOK
    <2>3. ASSUME NEW c \in Calls, RenewalFails(c) \/ RenewalCapped(c)
          PROVE  UNCHANGED <<phase, wire>>
      BY <2>3 DEF RenewalFails, RenewalCapped
    <2>4. CASE LeaseLapses \/ DedupExpires
      BY <2>4 DEF LeaseLapses, DedupExpires
    <2> QED
      BY <2>1, <2>2, <2>3, <2>4
  <1>4. Fates' = Fates
    BY <1>1, <1>2, <1>3, FatesStay
  <1> QED
    BY <1>1, <1>4, QuietSteps

LEMMA StepsImplement ==
  ASSUME Once, ~Resends, [Next]_vars
  PROVE  [Seat!Next]_(Seat!vars)
  <1>1. CASE UNCHANGED vars
    <2>1. Fates' = Fates /\ Memory' = Memory
      BY <1>1 DEF vars, Fates, Fate, Memory, IsApplied
    <2> QED
      BY <1>1, <2>1 DEF vars, Seat!vars, Fates, Memory
  <1>2. ASSUME NEW c \in Calls, Process(c) PROVE Seat!Next
    <2>1. ASSUME NEW r \in Requests, NEW k \in Commands, Invoke(c, r, k) PROVE Seat!Next
      BY <2>1, InvokeSubmits DEF Seat!Next
    <2>2. CASE Replay(c)
      BY <2>2, ReplayReplays DEF Seat!Next
    <2>3. CASE ConnectionFails(c)
      BY <2>3, ConnectionsReject DEF Seat!Next
    <2>4. CASE Acquire(c) \/ AcquireFails(c) \/ TurnFails(c) \/ DeadlinePasses(c) \/ GiveUp(c)
      BY <2>4, ProcessRejects DEF Seat!Next
    <2>5. CASE \/ Miss(c) \/ Load(c) \/ SendCommit(c) \/ RenewalFails(c)
               \/ RenewalCapped(c) \/ Crash(c)
      BY <2>5, OthersStutter DEF Seat!Next
    <2> QED
      BY <1>2, <2>1, <2>2, <2>3, <2>4, <2>5 DEF Process
  <1>3. ASSUME NEW c \in Calls, Redis(c) PROVE Seat!Next
    <2>1. CASE Commit(c)
      <3>1. Seat!Commit(c, EventsOf[c]) /\ EventsOf[c] \in {EventsOf[d] : d \in Calls}
        BY <2>1, CommitCommits
      <3> QED
        BY <3>1 DEF Seat!Next
    <2>2. CASE CommitRefused(c) \/ CommitAborts(c)
      BY <2>2, RefusalsReject DEF Seat!Next
    <2>3. CASE Mark(c)
      BY <2>3, MarkMarks DEF Seat!Next
    <2>4. CASE Release(c)
      BY <2>4, OthersStutter DEF Seat!Next
    <2> QED
      BY <1>3, <2>1, <2>2, <2>3, <2>4 DEF Redis
  <1>4. CASE LeaseLapses \/ DedupExpires
    BY <1>4, OthersStutter DEF Seat!Next
  <1> QED
    BY <1>1, <1>2, <1>3, <1>4 DEF Next

\* Every step of the processes and of Redis, lapses, crashes and lost replies included,
\* is a step of the contract the in-process runtimes keep, or none.
THEOREM RedisImplementsTheSeat == ASSUME ~Resends PROVE Spec => ImplementsActorSeat
  <1>1. Init => Seat!Init
    <2> SUFFICES ASSUME Init PROVE Seat!Init
      OBVIOUS
    <2>1. \A c \in Calls : Fate(c) = [kind |-> "unsent"]
      BY DEF Init, Fate
    <2>2. {d.request : d \in dedup} = {}
      BY DEF Init
    <2> QED
      BY <2>1, <2>2 DEF Init, Seat!Init
  <1>2. Once /\ [Next]_vars => [Seat!Next]_(Seat!vars)
    BY StepsImplement
  <1> QED
    BY <1>1, <1>2, OnceHolds, PTL DEF Spec, ImplementsActorSeat, Seat!Spec
=============================================================================
