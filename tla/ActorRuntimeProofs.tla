------------------------- MODULE ActorRuntimeProofs -------------------------
(***************************************************************************)
(* What InMemoryRuntime guarantees for any number of calls, requestIds and *)
(* commands and for every dedupLimit, and EventSourcedRuntime for any      *)
(* number of events.  The journaling runtime is shown to be the in-memory  *)
(* runtime with a journal beside it, so every theorem of the first part    *)
(* holds of it as well; the journal's own properties follow from those.    *)
(***************************************************************************)
EXTENDS EventSourcedRuntime, SequenceTheorems, TLAPS

-----------------------------------------------------------------------------
(* The turns: InMemoryRuntime *)

\* What the dedup lookup of `invoke` finds is a stored result of that requestId.
LEMMA RecordedIsAResult ==
  ASSUME TypeOK, NEW r, Known(r)
  PROVE  /\ Recorded(r) \in Results
         /\ \E i \in DOMAIN results :
              results[i] = Recorded(r) /\ results[i].request = r
  <1>1. PICK i \in DOMAIN results : results[i].request = r
    BY DEF Known
  <1> DEFINE j == CHOOSE n \in DOMAIN results : results[n].request = r
  <1>2. j \in DOMAIN results /\ results[j].request = r
    BY <1>1
  <1>3. results[j] \in Results
    BY <1>2 DEF TypeOK
  <1> QED
    BY <1>2, <1>3 DEF Recorded

\* Every variable keeps the type the code gives it.
THEOREM TypeCorrect == Spec => []TypeOK
  <1>1. Init => TypeOK
    <2> SUFFICES ASSUME Init PROVE TypeOK
      OBVIOUS
    <2>1. <<>> \in Seq(Calls) /\ <<>> \in Seq(Results)
      OBVIOUS
    <2>2. Pending \in Outcomes
      BY DEF Outcomes
    <2> QED
      BY <2>1, <2>2 DEF Init, TypeOK, Phases, Bodies
  <1>2. TypeOK /\ [Next]_vars => TypeOK'
    <2> SUFFICES ASSUME TypeOK, [Next]_vars PROVE TypeOK'
      OBVIOUS
    <2> USE DedupLimitAssumption, NoCallAssumption
          DEF TypeOK, Phases, Bodies
    <2>1. ASSUME NEW c \in Calls, NEW r \in Requests, NEW k \in Commands,
                 Invoke(c, r, k)
          PROVE TypeOK'
      BY <2>1 DEF Invoke, storedVars
    <2>2. ASSUME NEW c \in Calls, Start(c) PROVE TypeOK'
      <3>1. /\ phase' \in [Calls -> Phases]
            /\ body' \in [Calls -> Bodies]
            /\ \A d \in Calls \ {c} : phase'[d] = phase[d] /\ body'[d] = body[d]
            /\ phase'[c] = "running" /\ phase[c] # "idle"
        BY <2>2 DEF Start
      <3> QED
        BY <2>2, <3>1 DEF Start, storedVars
    <2>3. ASSUME NEW c \in Calls, Load(c) PROVE TypeOK'
      <3>1. exists' \in BOOLEAN /\ state' \in Seq(Calls) /\ results' \in Seq(Results)
        <4>1. <<>> \in Seq(Calls) /\ <<>> \in Seq(Results)
          OBVIOUS
        <4>2. CASE exists
          BY <2>3, <4>2 DEF Load
        <4>3. CASE ~exists
          BY <2>3, <4>1, <4>3 DEF Load
        <4> QED
          BY <4>2, <4>3
      <3> QED
        BY <2>3, <3>1 DEF Load, serializeVars
    <2>4. ASSUME NEW c \in Calls, NEW o \in Outcomes, body[c] # "none",
                 Finish(c, o)
          PROVE /\ phase' \in [Calls -> Phases]
                /\ body' \in [Calls -> Bodies]
                /\ outcome' \in [Calls -> Outcomes]
                /\ UNCHANGED <<request, command, previous, tail, submitted,
                               expired, working>>
                /\ \A d \in Calls :
                     /\ phase'[d] # "idle" => phase[d] # "idle"
                     /\ body'[d] # "none" =>
                          phase'[d] \in {"running", "settling", "done"}
      <3>1. phase[c] \in {"running", "settling", "done"}
        BY <2>4
      <3>2. CASE phase[c] = "running"
        <4>1. /\ phase' = [phase EXCEPT ![c] = "settling"]
              /\ body' = [body EXCEPT ![c] = "ended"]
              /\ outcome' = [outcome EXCEPT ![c] = o]
              /\ UNCHANGED <<request, command, previous, tail, submitted,
                             expired, working>>
          BY <2>4, <3>2 DEF Finish
        <4> QED
          BY <4>1, <3>2, <2>4
      <3>3. CASE phase[c] # "running"
        BY <2>4, <3>1, <3>3 DEF Finish
      <3> QED
        BY <3>2, <3>3
    <2>5. Failed \in Outcomes /\ TimedOut \in Outcomes
      BY DEF Outcomes
    <2>6. ASSUME NEW c \in Calls, LoadFails(c) PROVE TypeOK'
      BY <2>4, <2>5, <2>6 DEF LoadFails, storedVars
    <2>7. ASSUME NEW c \in Calls, Replay(c) PROVE TypeOK'
      <3>1. Recorded(request[c]) \in Results
        BY <2>7, RecordedIsAResult DEF Replay
      <3>2. Resolved("replayed", Recorded(request[c]).result) \in Outcomes
        BY <3>1 DEF Results, Resolved, Outcomes
      <3> QED
        BY <2>4, <2>5, <2>7, <3>2 DEF Replay, storedVars
    <2>8. ASSUME NEW c \in Calls, Receive(c) PROVE TypeOK'
      BY <2>8 DEF Receive, serializeVars, storedVars
    <2>9. ASSUME NEW c \in Calls, ReceiveFails(c) PROVE TypeOK'
      BY <2>4, <2>5, <2>9 DEF ReceiveFails, storedVars
    <2>10. ASSUME NEW c \in Calls, Refuse(c) PROVE TypeOK'
      BY <2>4, <2>5, <2>10 DEF Refuse, storedVars
    <2>11. ASSUME NEW c \in Calls, Expire(c) PROVE TypeOK'
      BY <2>5, <2>11 DEF Expire, storedVars
    <2>12. ASSUME NEW c \in Calls, Settle(c) PROVE TypeOK'
      BY <2>12 DEF Settle, storedVars
    <2>13. CASE UNCHANGED vars
      BY <2>13 DEF vars
    <2>14. ASSUME NEW c \in Calls, Commit(c) PROVE TypeOK'
      <3>1. Resolved("committed", c) \in Outcomes
        BY DEF Resolved, Outcomes
      <3>2. state' \in Seq(Calls) /\ applied' \in Seq(Calls) /\ exists' \in BOOLEAN
        BY <2>14 DEF Commit
      <3>3. results' \in Seq(Results)
        <4> DEFINE entry == [request |-> request[c], command |-> command[c],
                             result |-> c]
        <4>1. SetResult(entry) \in Seq(Results)
          <5>1. entry \in Results
            BY <2>14 DEF Commit, Results
          <5>2. CASE Known(entry.request)
            <6> DEFINE f == [i \in DOMAIN results |->
                              IF results[i].request = entry.request
                              THEN entry ELSE results[i]]
            <6>1. Len(results) \in Nat /\ DOMAIN results = 1..Len(results)
              OBVIOUS
            <6>2. f \in [1..Len(results) -> Results]
              BY <5>1, <6>1
            <6>3. f \in Seq(Results)
              BY <6>1, <6>2, IsASeq
            <6> QED
              BY <5>2, <6>3 DEF SetResult
          <5>3. CASE ~Known(entry.request)
            BY <5>1, <5>3 DEF SetResult
          <5> QED
            BY <5>2, <5>3
        <4> QED
          BY <4>1, <2>14 DEF Commit, Evict
      <3> QED
        BY <2>4, <2>14, <3>1, <3>2, <3>3 DEF Commit
    <2> QED
      BY <2>1, <2>2, <2>3, <2>6, <2>7, <2>8, <2>9, <2>10, <2>11, <2>12, <2>13, <2>14
         DEF Next, Turn
  <1> QED
    BY <1>1, <1>2, PTL DEF Spec

-----------------------------------------------------------------------------
(* The steps in which a turn's promise settles. *)

Ends(c) == LoadFails(c) \/ Replay(c) \/ ReceiveFails(c) \/ Refuse(c) \/ Commit(c)

\* The four kinds of outcome of a call are told apart by their kind.
LEMMA OutcomesDiffer ==
  /\ Failed # Pending /\ TimedOut # Pending /\ Failed # TimedOut
  /\ \A k \in {"committed", "replayed"}, c \in Calls :
       /\ Resolved(k, c) \notin {Pending, Failed, TimedOut}
       /\ Resolved(k, c).kind = k /\ Resolved(k, c).from = c
  /\ Pending.kind = "pending" /\ Failed.kind = "failed" /\ TimedOut.kind = "timeout"
  <1>1. Failed # Pending /\ TimedOut # Pending /\ Failed # TimedOut
    BY DEF Failed, Pending, TimedOut
  <1>2. Pending.kind = "pending" /\ Failed.kind = "failed" /\ TimedOut.kind = "timeout"
    BY DEF Failed, Pending, TimedOut
  <1>3. ASSUME NEW k \in {"committed", "replayed"}, NEW c \in Calls
        PROVE  /\ Resolved(k, c).kind = k /\ Resolved(k, c).from = c
               /\ Resolved(k, c) \notin {Pending, Failed, TimedOut}
    <2>1. Resolved(k, c).kind = k /\ Resolved(k, c).from = c
      BY DEF Resolved
    <2> QED
      BY <1>2, <2>1
  <1> QED
    BY <1>1, <1>2, <1>3

\* A turn that ends moves its frame from running to settling, or moves nothing
\* when the race is over; the turn of another call is not touched.
LEMMA EndsEffect ==
  ASSUME TypeOK, NEW c \in Calls, Ends(c)
  PROVE  /\ body[c] \in {"creating", "loaded", "receiving"}
         /\ body' = [body EXCEPT ![c] = "ended"]
         /\ UNCHANGED <<request, command, previous, tail, submitted, expired, working>>
         /\ \/ /\ phase[c] = "running"
               /\ phase' = [phase EXCEPT ![c] = "settling"]
               /\ \E o \in Outcomes \ {Pending} : outcome' = [outcome EXCEPT ![c] = o]
            \/ /\ phase[c] # "running"
               /\ UNCHANGED <<phase, outcome>>
  <1>1. PICK o : Finish(c, o) /\ o \in Outcomes \ {Pending}
    <2>1. Failed \in Outcomes \ {Pending} /\ TimedOut \in Outcomes \ {Pending}
      BY OutcomesDiffer DEF Outcomes
    <2>2. Resolved("committed", c) \in Outcomes \ {Pending}
      BY OutcomesDiffer DEF Outcomes, Resolved
    <2>3. ASSUME Replay(c)
          PROVE  Resolved("replayed", Recorded(request[c]).result) \in Outcomes \ {Pending}
      <3>1. Recorded(request[c]).result \in Calls
        BY <2>3, RecordedIsAResult DEF Replay, Results
      <3> QED
        BY <3>1, OutcomesDiffer DEF Outcomes, Resolved
    <2> QED
      BY <2>1, <2>2, <2>3 DEF Ends, LoadFails, Replay, ReceiveFails, Refuse, Commit
  <1>2. body[c] \in {"creating", "loaded", "receiving"}
    BY DEF Ends, LoadFails, Replay, ReceiveFails, Refuse, Commit
  <1>3. CASE phase[c] = "running"
    BY <1>1, <1>2, <1>3 DEF Finish
  <1>4. CASE phase[c] # "running"
    BY <1>1, <1>2, <1>4 DEF Finish
  <1> QED
    BY <1>3, <1>4

-----------------------------------------------------------------------------
(* The inductive invariant, part by part. *)

\* Every step keeps the chain of `previous` promises in submission order.
LEMMA MailboxInductive ==
  ASSUME TypeOK, MailboxInv, [Next]_vars
  PROVE  MailboxInv'
  <1> DEFINE n == Len(submitted)
  <1>1. /\ n \in Nat /\ DOMAIN submitted = 1..n
        /\ \A i \in 1..n : submitted[i] \in Calls
    BY DEF TypeOK
  <1>2. ASSUME NEW c \in Calls, NEW r \in Requests, NEW k \in Commands, Invoke(c, r, k)
        PROVE  MailboxInv'
    <2>1. /\ submitted' = Append(submitted, c)
          /\ Len(submitted') = n + 1 /\ DOMAIN submitted' = 1..(n + 1)
          /\ \A i \in 1..n : submitted'[i] = submitted[i]
          /\ submitted'[n + 1] = c
      BY <1>1, <1>2 DEF Invoke, TypeOK
    <2>2. \A i \in 1..n : submitted[i] # c
      BY <1>1, <1>2 DEF Invoke, MailboxInv
    <2>3. /\ phase' = [phase EXCEPT ![c] = "queued"]
          /\ previous' = [previous EXCEPT ![c] = tail]
          /\ tail' = c
      BY <1>2 DEF Invoke
    <2>4. \A i \in 1..n :
            /\ phase'[submitted[i]] = phase[submitted[i]]
            /\ previous'[submitted[i]] = previous[submitted[i]]
      BY <1>1, <2>2, <2>3 DEF TypeOK
    <2>5. phase'[c] = "queued" /\ previous'[c] = tail
      BY <2>3 DEF TypeOK
    <2>6. n > 0 => tail = submitted[n] \/ phase[submitted[n]] = "done"
      BY DEF MailboxInv
    <2>7. \A d \in Calls :
             phase'[d] = "idle" <=> \A i \in DOMAIN submitted' : submitted'[i] # d
      <3>1. ASSUME NEW d \in Calls, d # c
            PROVE  /\ phase'[d] = phase[d]
                   /\ (\A i \in 1..(n + 1) : submitted'[i] # d)
                        <=> (\A i \in 1..n : submitted[i] # d)
        BY <1>1, <2>1, <2>3, <3>1 DEF TypeOK
      <3>2. n + 1 \in DOMAIN submitted'
        BY <1>1, <2>1
      <3> QED
        BY <1>1, <2>1, <2>5, <3>1, <3>2 DEF MailboxInv
    <2>8. \A i, j \in DOMAIN submitted' : submitted'[i] = submitted'[j] => i = j
      BY <1>1, <2>1, <2>2 DEF MailboxInv
    <2>9. \A i \in DOMAIN submitted' :
            i > 1 => \/ previous'[submitted'[i]] = submitted'[i - 1]
                     \/ phase'[submitted'[i - 1]] = "done"
      BY <1>1, <2>1, <2>4, <2>5, <2>6 DEF MailboxInv
    <2>10. \A i, j \in DOMAIN submitted' :
             (i < j /\ phase'[submitted'[j]] # "queued")
               => phase'[submitted'[i]] = "done"
      BY <1>1, <2>1, <2>4, <2>5 DEF MailboxInv
    <2>11. Len(submitted') # 0 /\ (Len(submitted') > 0 => tail' = submitted'[Len(submitted')])
      BY <1>1, <2>1, <2>3
    <2> QED
      BY <2>7, <2>8, <2>9, <2>10, <2>11 DEF MailboxInv
  <1>3. ASSUME NEW c \in Calls, Start(c) PROVE MailboxInv'
    <2>1. /\ phase' = [phase EXCEPT ![c] = "running"] /\ phase[c] = "queued"
          /\ UNCHANGED <<previous, tail, submitted>>
      BY <1>3 DEF Start
    <2>2. PICK j \in 1..n : submitted[j] = c
      BY <1>1, <2>1 DEF MailboxInv
    <2>3. j > 1 => phase[submitted[j - 1]] = "done"
      <3>1. previous[c] # NoCall => phase[previous[c]] = "done"
        BY <1>3 DEF Start, Released
      <3>2. j > 1 => submitted[j - 1] \in Calls
        BY <1>1
      <3> QED
        BY <1>1, <2>2, <3>1, <3>2, NoCallAssumption DEF MailboxInv
    <2>4. \A i \in 1..n : i < j => phase[submitted[i]] = "done"
      <3> SUFFICES ASSUME NEW i \in 1..n, i < j PROVE phase[submitted[i]] = "done"
        OBVIOUS
      <3>1. CASE i = j - 1
        BY <2>3, <3>1
      <3>2. CASE i < j - 1
        <4>1. j - 1 \in 1..n /\ phase[submitted[j - 1]] # "queued"
          BY <1>1, <2>3, <3>2
        <4> QED
          BY <1>1, <3>2, <4>1 DEF MailboxInv
      <3> QED
        BY <3>1, <3>2
    <2>5. \A i \in 1..n : submitted[i] # c =>
             phase'[submitted[i]] = phase[submitted[i]]
      BY <1>1, <2>1 DEF TypeOK
    <2>6. phase'[c] = "running"
      BY <2>1 DEF TypeOK
    <2>7. \A i, k \in 1..n :
             (i < k /\ phase'[submitted[k]] # "queued") => phase'[submitted[i]] = "done"
      <3> SUFFICES ASSUME NEW i \in 1..n, NEW k \in 1..n, i < k,
                          phase'[submitted[k]] # "queued"
                   PROVE  phase'[submitted[i]] = "done"
        OBVIOUS
      <3>1. phase[submitted[i]] = "done"
        BY <1>1, <2>2, <2>4, <2>5 DEF MailboxInv
      <3> QED
        BY <2>1, <2>5, <3>1
    <2>8. \A d \in Calls : phase'[d] = "idle" <=> phase[d] = "idle"
      BY <2>1, <2>6 DEF TypeOK
    <2> QED
      BY <1>1, <2>1, <2>5, <2>6, <2>7, <2>8 DEF MailboxInv
  <1>4. ASSUME NEW c \in Calls, phase[c] = "running",
               phase' = [phase EXCEPT ![c] = "settling"],
               UNCHANGED <<previous, tail, submitted>>
        PROVE  MailboxInv'
    <2>1. \A d \in Calls :
            \A p \in {"idle", "queued", "done"} : phase'[d] = p <=> phase[d] = p
      BY <1>4 DEF TypeOK
    <2> QED
      BY <1>1, <1>4, <2>1 DEF MailboxInv
  <1>5. ASSUME NEW c \in Calls, Settle(c) PROVE MailboxInv'
    <2>1. /\ phase[c] = "settling" /\ phase' = [phase EXCEPT ![c] = "done"]
          /\ tail' = IF tail = c THEN NoCall ELSE tail
          /\ UNCHANGED <<previous, submitted>>
      BY <1>5 DEF Settle
    <2>2. \A d \in Calls :
            /\ phase'[d] = "idle" <=> phase[d] = "idle"
            /\ phase[d] = "done" => phase'[d] = "done"
            /\ phase'[d] = "queued" <=> phase[d] = "queued"
            /\ d = c => phase'[d] = "done"
      BY <2>1 DEF TypeOK
    <2>3. n = 0 => tail' = NoCall
      BY <1>1, <2>1 DEF MailboxInv
    <2>4. n > 0 => \/ tail' = submitted[n]
                   \/ tail' = NoCall /\ phase'[submitted[n]] = "done"
      <3> HAVE n > 0
      <3>1. submitted[n] \in Calls
        BY <1>1
      <3>2. CASE tail = submitted[n]
        BY <2>1, <2>2, <3>1, <3>2
      <3>3. CASE tail = NoCall /\ phase[submitted[n]] = "done"
        BY <2>1, <2>2, <3>1, <3>3
      <3> QED
        BY <1>1, <3>2, <3>3 DEF MailboxInv
    <2> QED
      BY <1>1, <2>1, <2>2, <2>3, <2>4 DEF MailboxInv
  <1>6. ASSUME UNCHANGED <<phase, previous, tail, submitted>> PROVE MailboxInv'
    BY <1>6 DEF MailboxInv
  <1>7. ASSUME NEW c \in Calls, Ends(c) PROVE MailboxInv'
    BY <1>4, <1>6, <1>7, EndsEffect
  <1>8. ASSUME NEW c \in Calls, Expire(c) PROVE MailboxInv'
    BY <1>4, <1>8 DEF Expire
  <1>9. ASSUME NEW c \in Calls, Load(c) \/ Receive(c) PROVE MailboxInv'
    BY <1>6, <1>9 DEF Load, Receive, serializeVars
  <1>10. CASE UNCHANGED vars
    BY <1>6, <1>10 DEF vars
  <1> QED
    BY <1>2, <1>3, <1>5, <1>7, <1>8, <1>9, <1>10 DEF Next, Turn, Ends

\* The mailbox gives the seat to one frame at a time.
LEMMA MailboxExcludes ==
  ASSUME TypeOK, MailboxInv
  PROVE  OneTurnAtATime
  <1> SUFFICES ASSUME NEW c \in Calls, NEW d \in Calls,
                      {phase[c], phase[d]} \subseteq {"running", "settling"}
               PROVE  c = d
    BY DEF OneTurnAtATime
  <1>1. PICK i \in DOMAIN submitted : submitted[i] = c
    BY DEF MailboxInv
  <1>2. PICK j \in DOMAIN submitted : submitted[j] = d
    BY DEF MailboxInv
  <1>3. i \in Int /\ j \in Int
    BY DEF TypeOK
  <1>4. ~(i < j) /\ ~(j < i)
    BY <1>1, <1>2 DEF MailboxInv
  <1> QED
    BY <1>1, <1>2, <1>3, <1>4

\* Every step keeps a call's serialize frame, its turn and its guard in agreement.
LEMMA FrameInductive ==
  ASSUME TypeOK, FrameInv, [Next]_vars
  PROVE  FrameInv'
  <1>1. ASSUME NEW c \in Calls, NEW r \in Requests, NEW k \in Commands, Invoke(c, r, k)
        PROVE  FrameInv'
    BY <1>1 DEF Invoke, FrameInv, TypeOK
  <1>2. ASSUME NEW c \in Calls, Start(c) PROVE FrameInv'
    BY <1>2 DEF Start, FrameInv, TypeOK
  <1>3. ASSUME NEW c \in Calls, Load(c) \/ Receive(c) PROVE FrameInv'
    BY <1>3 DEF Load, Receive, serializeVars, FrameInv, TypeOK
  <1>4. ASSUME NEW c \in Calls, Ends(c) PROVE FrameInv'
    <2>1. CASE phase[c] = "running"
      <3>1. PICK o \in Outcomes \ {Pending} : outcome' = [outcome EXCEPT ![c] = o]
        BY <1>4, <2>1, EndsEffect
      <3>2. /\ phase' = [phase EXCEPT ![c] = "settling"]
            /\ body' = [body EXCEPT ![c] = "ended"]
            /\ UNCHANGED expired
        BY <1>4, <2>1, EndsEffect
      <3> QED
        BY <2>1, <3>1, <3>2 DEF FrameInv, TypeOK
    <2>2. CASE phase[c] # "running"
      BY <1>4, <2>2, EndsEffect DEF FrameInv, TypeOK
    <2> QED
      BY <2>1, <2>2
  <1>5. ASSUME NEW c \in Calls, Expire(c) PROVE FrameInv'
    BY <1>5, OutcomesDiffer DEF Expire, FrameInv, TypeOK
  <1>6. ASSUME NEW c \in Calls, Settle(c) PROVE FrameInv'
    BY <1>6 DEF Settle, FrameInv, TypeOK
  <1>7. CASE UNCHANGED vars
    BY <1>7 DEF vars, FrameInv
  <1> QED
    BY <1>1, <1>2, <1>3, <1>4, <1>5, <1>6, <1>7 DEF Next, Turn, Ends

\* What a commit finds: the seat is its own, the state it read is the newest and
\* no result is kept for its requestId.
LEMMA CommitEffect ==
  ASSUME TypeOK, IInv, NEW c \in Calls, Commit(c)
  PROVE  /\ phase[c] = "running" /\ ~Known(request[c])
         /\ state' = Append(state, c) /\ applied' = Append(applied, c)
         /\ results' = Evict(Append(results, ResultOf(c)))
         /\ outcome' = [outcome EXCEPT ![c] = Resolved("committed", c)]
         /\ phase' = [phase EXCEPT ![c] = "settling"]
         /\ body' = [body EXCEPT ![c] = "ended"]
         /\ UNCHANGED <<exists, request, command, previous, tail, submitted,
                        expired, working>>
         /\ \A i \in DOMAIN applied : applied[i] # c
  <1>1. body[c] = "receiving" /\ ~expired[c] /\ phase[c] = "running"
    BY DEF Commit, IInv, FrameInv
  <1>2. working[c] = state /\ ~Known(request[c])
    BY <1>1 DEF IInv, RecordInv
  <1>3. results' = Evict(Append(results, ResultOf(c)))
    BY <1>2 DEF Commit, SetResult, ResultOf
  <1>4. Finish(c, Resolved("committed", c)) /\ UNCHANGED exists
        /\ state' = Append(working[c], c) /\ applied' = Append(applied, c)
    BY DEF Commit
  <1>5. /\ outcome' = [outcome EXCEPT ![c] = Resolved("committed", c)]
        /\ phase' = [phase EXCEPT ![c] = "settling"]
        /\ body' = [body EXCEPT ![c] = "ended"]
        /\ UNCHANGED <<request, command, previous, tail, submitted, expired, working>>
    BY <1>1, <1>4 DEF Finish
  <1>6. \A i \in DOMAIN applied : applied[i] # c
    BY <1>1, OutcomesDiffer DEF IInv, AnswerInv, FrameInv
  <1> QED
    BY <1>1, <1>2, <1>3, <1>4, <1>5, <1>6

\* Every other step leaves what is stored alone: a load that finds no record
\* publishes the same empty one, and one that lost the race publishes nothing.
LEMMA StoredUnlessCommit ==
  ASSUME TypeOK, IInv, [Next]_vars, \A c \in Calls : ~Commit(c)
  PROVE  UNCHANGED <<state, results, applied>> /\ (exists => exists')
  <1>1. ASSUME NEW c \in Calls, Load(c)
        PROVE  UNCHANGED <<state, results, applied>> /\ (exists => exists')
    BY <1>1 DEF Load, IInv, RecordInv
  <1> QED
    BY <1>1 DEF Next, Turn, Invoke, Start, LoadFails, Replay, Receive, ReceiveFails,
                Refuse, Expire, Settle, storedVars, vars

\* Every step leaves each turn that may still commit with the newest state and an
\* unanswered requestId: nothing commits between its read and its commit.
LEMMA RecordInductive ==
  ASSUME TypeOK, IInv, [Next]_vars
  PROVE  RecordInv'
  <1> USE DEF Known
  <1>1. ASSUME NEW c \in Calls, Commit(c) PROVE RecordInv'
    <2>1. exists /\ exists'
      BY <1>1, CommitEffect DEF Commit, IInv, RecordInv
    <2>2. ASSUME NEW d \in Calls, body'[d] = "receiving", ~expired'[d] PROVE FALSE
      <3>1. d # c /\ body[d] = "receiving" /\ ~expired[d]
        BY <1>1, <2>2, CommitEffect DEF TypeOK
      <3>2. phase[d] = "running" /\ phase[c] = "running"
        BY <1>1, <3>1, CommitEffect DEF IInv, FrameInv
      <3> QED
        BY <3>1, <3>2, MailboxExcludes DEF OneTurnAtATime, IInv
    <2> QED
      BY <2>1, <2>2 DEF RecordInv
  <1>2. ASSUME \A c \in Calls : ~Commit(c) PROVE RecordInv'
    <2>1. UNCHANGED <<state, results, applied>> /\ (exists => exists')
      BY <1>2, StoredUnlessCommit
    <2>2. ~exists' => state = <<>> /\ results = <<>> /\ applied = <<>>
      BY <2>1 DEF IInv, RecordInv
    <2>3. ASSUME NEW c \in Calls, body'[c] \in {"loaded", "receiving"}
          PROVE  exists' /\ (body'[c] = "receiving" /\ ~expired'[c] =>
                                working'[c] = state /\ ~Known(request'[c]))
      <3>1. CASE body[c] \in {"loaded", "receiving"} /\ body'[c] = body[c]
                   /\ UNCHANGED <<working, request>> /\ (expired[c] => expired'[c])
        BY <2>1, <2>3, <3>1 DEF IInv, RecordInv
      <3>2. ASSUME NEW d \in Calls, NEW r \in Requests, NEW k \in Commands, Invoke(d, r, k)
            PROVE  exists' /\ (body'[c] = "receiving" /\ ~expired'[c] =>
                                 working'[c] = state /\ ~Known(request'[c]))
        <4>1. d # c /\ UNCHANGED <<body, working, expired>> /\ request'[c] = request[c]
          BY <2>3, <3>2 DEF Invoke, TypeOK
        <4> QED
          BY <2>1, <2>3, <4>1 DEF IInv, RecordInv
      <3>3. ASSUME NEW d \in Calls, Start(d)
            PROVE  exists' /\ (body'[c] = "receiving" /\ ~expired'[c] =>
                                 working'[c] = state /\ ~Known(request'[c]))
        <4>1. UNCHANGED <<exists, working, expired, request>>
          BY <3>3 DEF Start, storedVars
        <4>2. CASE d = c
          BY <2>3, <3>3, <4>1, <4>2 DEF Start, TypeOK
        <4>3. CASE d # c
          <5>1. body'[c] = body[c]
            BY <3>3, <4>3 DEF Start, TypeOK
          <5> QED
            BY <2>3, <4>1, <5>1, <2>1 DEF IInv, RecordInv
        <4> QED
          BY <4>2, <4>3
      <3>4. ASSUME NEW d \in Calls, Load(d)
            PROVE  exists' /\ (body'[c] = "receiving" /\ ~expired'[c] =>
                                 working'[c] = state /\ ~Known(request'[c]))
        <4>1. exists' /\ UNCHANGED <<working, expired, request>>
              /\ (body'[c] = "receiving" => body[c] = "receiving")
          BY <3>4 DEF Load, serializeVars, TypeOK
        <4> QED
          BY <2>1, <4>1 DEF IInv, RecordInv
      <3>5. ASSUME NEW d \in Calls, Receive(d)
            PROVE  exists' /\ (body'[c] = "receiving" /\ ~expired'[c] =>
                                 working'[c] = state /\ ~Known(request'[c]))
        <4>1. UNCHANGED <<exists, expired, request>>
          BY <3>5 DEF Receive, serializeVars, storedVars
        <4>2. CASE d = c
          BY <3>5, <4>1, <4>2, <2>1 DEF Receive, TypeOK, IInv, RecordInv
        <4>3. CASE d # c
          <5>1. body'[c] = body[c] /\ working'[c] = working[c]
            BY <3>5, <4>3 DEF Receive, TypeOK
          <5> QED
            BY <2>3, <4>1, <5>1, <2>1 DEF IInv, RecordInv
        <4> QED
          BY <4>2, <4>3
      <3>6. ASSUME NEW d \in Calls, Ends(d)
            PROVE  exists' /\ (body'[c] = "receiving" /\ ~expired'[c] =>
                                 working'[c] = state /\ ~Known(request'[c]))
        <4>1. body'[c] = body[c] /\ UNCHANGED <<working, request, expired>>
          BY <2>3, <3>6, EndsEffect DEF TypeOK
        <4> QED
          BY <2>3, <3>1, <4>1
      <3>7. ASSUME NEW d \in Calls, Expire(d) \/ Settle(d)
            PROVE  exists' /\ (body'[c] = "receiving" /\ ~expired'[c] =>
                                 working'[c] = state /\ ~Known(request'[c]))
        <4>1. UNCHANGED <<body, working, request>> /\ (expired[c] => expired'[c])
          BY <3>7 DEF Expire, Settle, TypeOK
        <4> QED
          BY <2>3, <3>1, <4>1
      <3>8. CASE UNCHANGED vars
        BY <2>3, <3>1, <3>8 DEF vars
      <3> QED
        BY <3>2, <3>3, <3>4, <3>5, <3>6, <3>7, <3>8 DEF Next, Turn, Ends
    <2> QED
      BY <2>1, <2>2, <2>3 DEF RecordInv
  <1> QED
    BY <1>1, <1>2

\* The request and command of a call never change once it has been made.
LEMMA RequestsAreFixed ==
  ASSUME TypeOK, [Next]_vars
  PROVE  \A c \in Calls : phase[c] # "idle" =>
           phase'[c] # "idle" /\ request'[c] = request[c] /\ command'[c] = command[c]
  <1> SUFFICES ASSUME NEW c \in Calls, phase[c] # "idle"
               PROVE  /\ phase'[c] # "idle"
                      /\ request'[c] = request[c] /\ command'[c] = command[c]
    OBVIOUS
  <1>1. ASSUME NEW d \in Calls, Ends(d)
        PROVE  phase'[c] # "idle" /\ request'[c] = request[c] /\ command'[c] = command[c]
    BY <1>1, EndsEffect DEF TypeOK
  <1> QED
    BY <1>1 DEF Next, Turn, Ends, Invoke, Start, Load, Receive, Expire, Settle,
                serializeVars, vars, TypeOK

\* Answered calls keep their answer; a call that has one is not idle.
LEMMA AnswersAreFixed ==
  ASSUME TypeOK, FrameInv, [Next]_vars
  PROVE  \A c \in Calls : outcome[c] # Pending =>
           phase[c] # "idle" /\ outcome'[c] = outcome[c]
  <1> SUFFICES ASSUME NEW c \in Calls, outcome[c] # Pending
               PROVE  phase[c] # "idle" /\ outcome'[c] = outcome[c]
    OBVIOUS
  <1>1. phase[c] \notin {"idle", "queued", "running"}
    BY DEF FrameInv
  <1>2. ASSUME NEW d \in Calls, Ends(d) PROVE outcome'[c] = outcome[c]
    BY <1>1, <1>2, EndsEffect DEF TypeOK
  <1> QED
    BY <1>1, <1>2 DEF Next, Turn, Ends, Invoke, Start, Load, Receive, Expire, Settle,
                      serializeVars, storedVars, vars, TypeOK

\* w holds the last dedupLimit elements of s.
IsWindow(w, s) ==
  /\ Len(w) = IF Len(s) > DedupLimit THEN DedupLimit ELSE Len(s)
  /\ \A i \in 1..Len(w) : w[i] = s[Len(s) - Len(w) + i]

\* Appending to both and evicting the oldest slides the window by one.
LEMMA WindowSlides ==
  ASSUME NEW S, NEW w \in Seq(S), NEW s \in Seq(S), NEW e \in S, IsWindow(w, s)
  PROVE  IsWindow(Evict(Append(w, e)), Append(s, e))
  <1>1. PICK n \in Nat, m \in Nat : n = Len(s) /\ m = Len(w)
    BY LenProperties
  <1>2. DedupLimit \in Nat /\ DedupLimit >= 1
    BY DedupLimitAssumption
  <1>3. /\ m = IF n > DedupLimit THEN DedupLimit ELSE n
        /\ \A i \in 1..m : w[i] = s[n - m + i]
    BY <1>1 DEF IsWindow
  <1>4. PICK longer \in Seq(S) : longer = Append(w, e)
    BY AppendProperties
  <1>5. /\ Len(longer) = m + 1 /\ longer[m + 1] = e
        /\ \A i \in 1..m : longer[i] = w[i]
    BY <1>1, <1>4, AppendProperties
  <1>6. PICK all \in Seq(S) : all = Append(s, e)
    BY AppendProperties
  <1>7. /\ Len(all) = n + 1 /\ all[n + 1] = e
        /\ \A i \in 1..n : all[i] = s[i]
    BY <1>1, <1>6, AppendProperties
  <1>8. \A i \in 1..(m + 1) : longer[i] = all[n - m + i]
    <2> SUFFICES ASSUME NEW i \in 1..(m + 1) PROVE longer[i] = all[n - m + i]
      OBVIOUS
    <2>1. CASE i = m + 1
      BY <1>5, <1>7, <2>1
    <2>2. CASE i \in 1..m
      <3>1. n - m + i \in 1..n
        BY <1>2, <1>3, <2>2
      <3> QED
        BY <1>3, <1>5, <1>7, <2>2, <3>1
    <2> QED
      BY <2>1, <2>2
  <1>9. CASE m + 1 > DedupLimit
    <2>1. m = DedupLimit /\ n >= m
      BY <1>2, <1>3, <1>9
    <2>2. Evict(longer) = SubSeq(longer, 2, m + 1)
      <3>1. m + 1 - DedupLimit + 1 = 2
        BY <1>2, <2>1
      <3> QED
        BY <1>2, <1>5, <1>9, <3>1 DEF Evict
    <2>3. /\ Len(SubSeq(longer, 2, m + 1)) = m
          /\ \A i \in 1..m : SubSeq(longer, 2, m + 1)[i] = longer[i + 1]
      BY <1>2, <1>5, <2>1, SubSeqProperties
    <2>4. \A i \in 1..m : longer[i + 1] = all[(n + 1) - m + i]
      BY <1>8
    <2>5. m = IF n + 1 > DedupLimit THEN DedupLimit ELSE n + 1
      BY <1>2, <2>1
    <2> DEFINE slid == SubSeq(longer, 2, m + 1)
    <2>6. Len(slid) = m /\ \A i \in 1..m : slid[i] = all[(n + 1) - m + i]
      BY <2>3, <2>4
    <2> HIDE DEF slid
    <2>7. IsWindow(slid, all)
      BY <1>7, <2>5, <2>6 DEF IsWindow
    <2> QED
      BY <1>4, <1>6, <2>2, <2>7 DEF slid
  <1>10. CASE m + 1 <= DedupLimit
    <2>1. m = n /\ n + 1 <= DedupLimit
      BY <1>2, <1>3, <1>10
    <2>2. Evict(longer) = longer
      BY <1>2, <1>5, <1>10 DEF Evict
    <2>3. \A i \in 1..(m + 1) : longer[i] = all[(n + 1) - (m + 1) + i]
      BY <1>8
    <2>4. m + 1 = IF n + 1 > DedupLimit THEN DedupLimit ELSE n + 1
      BY <1>2, <2>1
    <2>5. IsWindow(longer, all)
      BY <1>5, <1>7, <2>3, <2>4 DEF IsWindow
    <2> QED
      BY <1>4, <1>6, <2>2, <2>5
  <1> QED
    BY <1>1, <1>2, <1>9, <1>10

\* The results of the committed calls, in commit order.
AllResults == [i \in 1..Len(applied) |-> ResultOf(applied[i])]

\* WindowInv says of `results` that it is the window of what all commits recorded.
LEMMA WindowOfAllResults ==
  TypeOK /\ AnswerInv /\ FrameInv =>
    /\ AllResults \in Seq(Results) /\ Len(AllResults) = Len(applied)
    /\ WindowInv <=> IsWindow(results, AllResults)
  <1> SUFFICES ASSUME TypeOK, AnswerInv, FrameInv
               PROVE  /\ AllResults \in Seq(Results) /\ Len(AllResults) = Len(applied)
                      /\ WindowInv <=> IsWindow(results, AllResults)
    OBVIOUS
  <1>1. PICK n \in Nat : n = Len(applied) /\ DOMAIN applied = 1..n
    BY DEF TypeOK
  <1>2. \A i \in 1..n : applied[i] \in Calls /\ ResultOf(applied[i]) \in Results
    <2> SUFFICES ASSUME NEW i \in 1..n
                 PROVE  applied[i] \in Calls /\ ResultOf(applied[i]) \in Results
      OBVIOUS
    <2>1. applied[i] \in Calls
      BY <1>1 DEF TypeOK
    <2>2. outcome[applied[i]] # Pending
      BY <1>1, <2>1, OutcomesDiffer DEF AnswerInv
    <2>3. phase[applied[i]] # "idle"
      BY <2>1, <2>2 DEF FrameInv
    <2> QED
      BY <2>1, <2>3 DEF TypeOK, ResultOf, Results
  <1>3. AllResults \in [1..n -> Results]
    BY <1>1, <1>2 DEF AllResults
  <1>4. AllResults \in Seq(Results) /\ Len(AllResults) = n
    BY <1>3, IsASeq
  <1>5. PICK m \in Nat : m = Len(results) /\ DOMAIN results = 1..m
    BY DEF TypeOK
  <1>6. m = (IF n > DedupLimit THEN DedupLimit ELSE n) =>
          \A i \in 1..m : AllResults[n - m + i] = ResultOf(applied[n - m + i])
    <2> SUFFICES ASSUME m = (IF n > DedupLimit THEN DedupLimit ELSE n), NEW i \in 1..m
                 PROVE  AllResults[n - m + i] = ResultOf(applied[n - m + i])
      OBVIOUS
    <2>1. n - m + i \in 1..n
      BY DedupLimitAssumption
    <2> QED
      BY <1>1, <2>1 DEF AllResults
  <1> QED
    BY <1>1, <1>4, <1>5, <1>6 DEF WindowInv, IsWindow

\* The request and command of a committed call outlast every step.
LEMMA AppliedAreFixed ==
  ASSUME TypeOK, IInv, [Next]_vars
  PROVE  \A i \in DOMAIN applied :
           /\ applied[i] \in Calls
           /\ outcome'[applied[i]] = outcome[applied[i]]
           /\ request'[applied[i]] = request[applied[i]]
           /\ command'[applied[i]] = command[applied[i]]
  <1> SUFFICES ASSUME NEW i \in DOMAIN applied
               PROVE  /\ applied[i] \in Calls
                      /\ outcome'[applied[i]] = outcome[applied[i]]
                      /\ request'[applied[i]] = request[applied[i]]
                      /\ command'[applied[i]] = command[applied[i]]
    OBVIOUS
  <1>1. applied[i] \in Calls
    BY DEF TypeOK
  <1>2. outcome[applied[i]] # Pending
    BY <1>1, OutcomesDiffer DEF IInv, AnswerInv
  <1>3. phase[applied[i]] # "idle" /\ outcome'[applied[i]] = outcome[applied[i]]
    BY <1>1, <1>2, AnswersAreFixed DEF IInv
  <1> QED
    BY <1>1, <1>3, RequestsAreFixed

\* Every step keeps results the window of the last dedupLimit commits.
LEMMA WindowInductive ==
  ASSUME TypeOK, TypeOK', IInv, FrameInv', AnswerInv', [Next]_vars
  PROVE  WindowInv'
  <1>1. IsWindow(results, AllResults) /\ AllResults \in Seq(Results)
    BY WindowOfAllResults DEF IInv
  <1>2. /\ AllResults' \in Seq(Results) /\ Len(AllResults') = Len(applied')
        /\ WindowInv' <=> IsWindow(results, AllResults)'
    <2>1. (TypeOK /\ AnswerInv /\ FrameInv =>
             /\ AllResults \in Seq(Results) /\ Len(AllResults) = Len(applied)
             /\ WindowInv <=> IsWindow(results, AllResults))'
      BY WindowOfAllResults, PTL
    <2> QED
      BY <2>1
  <1>3. ASSUME NEW c \in Calls, Commit(c) PROVE WindowInv'
    <2>1. /\ results' = Evict(Append(results, ResultOf(c)))
          /\ applied' = Append(applied, c) /\ UNCHANGED <<request, command>>
      BY <1>3, CommitEffect
    <2>2. ResultOf(c) \in Results
      BY <1>3, CommitEffect DEF TypeOK, ResultOf, Results
    <2>3. AllResults' = Append(AllResults, ResultOf(c))
      <3>1. PICK n \in Nat : n = Len(applied)
        BY DEF TypeOK
      <3>2. /\ Len(applied') = n + 1 /\ applied'[n + 1] = c
            /\ \A i \in 1..n : applied'[i] = applied[i]
        BY <2>1, <3>1, AppendProperties DEF TypeOK
      <3>3. AllResults' \in Seq(Results) /\ Len(AllResults') = n + 1
        BY <1>2, <3>2
      <3>4. \A i \in 1..(n + 1) : AllResults'[i] = ResultOf(applied'[i])
        BY <2>1, <3>2 DEF AllResults, ResultOf
      <3>5. \A i \in 1..n : AllResults'[i] = AllResults[i]
        BY <3>1, <3>2, <3>4 DEF AllResults
      <3> HIDE DEF AllResults
      <3>6. Len(AllResults) = n
        BY <3>1, WindowOfAllResults DEF IInv
      <3>7. /\ Append(AllResults, ResultOf(c)) \in Seq(Results)
            /\ Len(Append(AllResults, ResultOf(c))) = n + 1
            /\ Append(AllResults, ResultOf(c))[n + 1] = ResultOf(c)
            /\ \A i \in 1..n : Append(AllResults, ResultOf(c))[i] = AllResults[i]
        BY <1>1, <2>2, <3>6, AppendProperties
      <3> QED
        BY <3>2, <3>3, <3>4, <3>5, <3>7, SeqEqual
    <2>4. IsWindow(Evict(Append(results, ResultOf(c))), Append(AllResults, ResultOf(c)))
      BY <1>1, <2>2, WindowSlides DEF TypeOK
    <2>5. IsWindow(results', AllResults')
      BY <2>1, <2>3, <2>4
    <2> QED
      BY <1>2, <2>5 DEF IsWindow
  <1>4. ASSUME \A c \in Calls : ~Commit(c) PROVE WindowInv'
    <2>1. UNCHANGED <<results, applied>>
      BY <1>4, StoredUnlessCommit
    <2>2. \A i \in 1..Len(applied) : ResultOf(applied[i])' = ResultOf(applied[i])
      BY <2>1, AppliedAreFixed DEF ResultOf, TypeOK
    <2>3. AllResults' = AllResults
      BY <2>1, <2>2 DEF AllResults
    <2> QED
      BY <1>1, <1>2, <2>1, <2>3 DEF IsWindow
  <1> QED
    BY <1>3, <1>4

\* A commit appends; every other step keeps what has been applied.
LEMMA AppliedGrows ==
  ASSUME TypeOK, IInv, NEW c \in Calls, Commit(c)
  PROVE  /\ Len(applied') = Len(applied) + 1 /\ applied'[Len(applied) + 1] = c
         /\ DOMAIN applied' = 1..(Len(applied) + 1)
         /\ DOMAIN applied = 1..Len(applied) /\ Len(applied) \in Nat
         /\ \A i \in DOMAIN applied : applied'[i] = applied[i]
  <1>1. applied' = Append(applied, c)
    BY CommitEffect
  <1>2. applied \in Seq(Calls)
    BY DEF TypeOK
  <1> QED
    BY <1>1, <1>2

\* Every step keeps the answers of `invoke` true to what has been committed.
LEMMA AnswerInductive ==
  ASSUME TypeOK, IInv, [Next]_vars
  PROVE  AnswerInv'
  <1> DEFINE Justified(c, a) ==
               /\ a \in Calls /\ a = outcome'[c].from
               /\ request'[a] = request'[c] /\ command'[a] = command'[c]
  <1>1. \A i \in DOMAIN applied : outcome'[applied[i]] = Resolved("committed", applied[i])
    BY AppliedAreFixed DEF IInv, AnswerInv
  <1>2. \A c \in Calls : (outcome[c].kind \in {"committed", "replayed"}) =>
           \E i \in DOMAIN applied : Justified(c, applied[i])
    <2> SUFFICES ASSUME NEW c \in Calls, outcome[c].kind \in {"committed", "replayed"}
                 PROVE  \E i \in DOMAIN applied : Justified(c, applied[i])
      OBVIOUS
    <2>1. PICK i \in DOMAIN applied :
            /\ applied[i] = outcome[c].from
            /\ request[applied[i]] = request[c] /\ command[applied[i]] = command[c]
      BY DEF IInv, AnswerInv
    <2>2. outcome[c] # Pending
      BY OutcomesDiffer
    <2>3. outcome'[c] = outcome[c] /\ request'[c] = request[c] /\ command'[c] = command[c]
      BY <2>2, AnswersAreFixed, RequestsAreFixed DEF IInv
    <2> QED
      BY <2>1, <2>3, AppliedAreFixed
  <1>3. ASSUME NEW c \in Calls, Commit(c) PROVE AnswerInv'
    <2>1. outcome' = [outcome EXCEPT ![c] = Resolved("committed", c)]
      BY <1>3, CommitEffect
    <2>2. outcome'[c] = Resolved("committed", c) /\ outcome'[c].from = c
      BY <2>1, OutcomesDiffer DEF TypeOK
    <2>3. ASSUME NEW i \in DOMAIN applied'
          PROVE  outcome'[applied'[i]] = Resolved("committed", applied'[i])
      BY <1>1, <1>3, <2>2, <2>3, AppliedGrows
    <2>4. ASSUME NEW d \in Calls, outcome'[d].kind \in {"committed", "replayed"}
          PROVE  \E i \in DOMAIN applied' : Justified(d, applied'[i])
      <3>1. CASE d = c
        <4>1. Len(applied) + 1 \in DOMAIN applied' /\ applied'[Len(applied) + 1] = c
          BY <1>3, AppliedGrows
        <4> QED
          BY <2>2, <3>1, <4>1
      <3>2. CASE d # c
        <4>1. outcome[d].kind \in {"committed", "replayed"}
          BY <2>1, <2>4, <3>2 DEF TypeOK
        <4>2. PICK i \in DOMAIN applied : Justified(d, applied[i])
          BY <1>2, <4>1
        <4>3. i \in DOMAIN applied' /\ applied'[i] = applied[i]
          BY <1>3, <4>2, AppliedGrows
        <4> QED
          BY <4>2, <4>3
      <3> QED
        BY <3>1, <3>2
    <2> QED
      BY <2>3, <2>4 DEF AnswerInv
  <1>4. ASSUME \A c \in Calls : ~Commit(c) PROVE AnswerInv'
    <2>1. applied' = applied
      BY <1>4, StoredUnlessCommit
    <2>2. ASSUME NEW d \in Calls, outcome'[d].kind \in {"committed", "replayed"}
          PROVE  \E i \in DOMAIN applied : Justified(d, applied[i])
      <3>1. CASE outcome[d].kind \in {"committed", "replayed"}
        BY <1>2, <3>1
      <3>2. CASE Replay(d) /\ outcome[d].kind \notin {"committed", "replayed"}
        <4>1. PICK j \in DOMAIN results :
                results[j] = Recorded(request[d]) /\ results[j].request = request[d]
          BY <3>2, RecordedIsAResult DEF Replay
        <4> DEFINE k == Len(applied) - Len(results) + j
        <4>2. k \in DOMAIN applied
          BY <4>1, DedupLimitAssumption DEF IInv, WindowInv, TypeOK
        <4> DEFINE a == applied[k]
        <4>3. results[j] = ResultOf(a) /\ a \in Calls
          BY <4>1, <4>2, AppliedAreFixed DEF IInv, WindowInv
        <4>4. /\ results[j].result = a /\ results[j].command = command[a]
              /\ request[a] = request[d]
          BY <4>1, <4>3 DEF ResultOf
        <4>5. Finish(d, IF Recorded(request[d]).command = command[d]
                        THEN Resolved("replayed", Recorded(request[d]).result)
                        ELSE Failed)
          BY <3>2 DEF Replay
        <4>6. outcome' # outcome
          BY <2>2, <3>2
        <4>7. outcome'[d] = Resolved("replayed", a) /\ command[a] = command[d]
          <5>1. phase[d] = "running"
            BY <3>2, <4>6, EndsEffect DEF Ends
          <5>2. outcome'[d] = IF results[j].command = command[d]
                              THEN Resolved("replayed", results[j].result) ELSE Failed
            BY <4>1, <4>5, <5>1 DEF Finish, TypeOK
          <5>3. outcome'[d] # Failed
            BY <2>2, OutcomesDiffer
          <5> QED
            BY <4>4, <5>2, <5>3
        <4>8. request'[d] = request[d] /\ command'[d] = command[d]
          BY <3>2, EndsEffect DEF Ends
        <4>9. Justified(d, a)
          BY <4>2, <4>3, <4>4, <4>7, <4>8, AppliedAreFixed, OutcomesDiffer
        <4> QED
          BY <4>2, <4>9
      <3>3. CASE ~Replay(d) /\ outcome[d].kind \notin {"committed", "replayed"}
        <4>1. outcome'[d] # outcome[d] /\ outcome'[d] \notin {Failed, TimedOut}
          BY <2>2, <3>3, OutcomesDiffer
        <4>2. ASSUME NEW e \in Calls, Ends(e), ~Commit(e), e = d => ~Replay(e)
              PROVE  outcome'[d] \in {outcome[d], Failed, TimedOut}
          <5>1. CASE e # d
            <6>1. \/ outcome' = outcome
                  \/ \E o \in Outcomes : outcome' = [outcome EXCEPT ![e] = o]
              BY <4>2, EndsEffect
            <6> QED
              BY <5>1, <6>1 DEF TypeOK
          <5>2. CASE e = d
            <6>1. Finish(d, Failed) \/ Finish(d, TimedOut)
              BY <4>2, <5>2 DEF Ends, LoadFails, ReceiveFails, Refuse
            <6>2. ASSUME NEW o, Finish(d, o) PROVE outcome'[d] \in {outcome[d], o}
              BY <6>2 DEF Finish, TypeOK
            <6>3. CASE Finish(d, Failed)
              BY <6>2, <6>3
            <6>4. CASE Finish(d, TimedOut)
              BY <6>2, <6>4
            <6> QED
              BY <6>1, <6>3, <6>4
          <5> QED
            BY <5>1, <5>2
        <4>3. ASSUME NEW e \in Calls, Expire(e)
              PROVE  outcome'[d] \in {outcome[d], Failed, TimedOut}
          BY <4>3 DEF Expire, TypeOK
        <4> QED
          BY <1>4, <3>3, <4>1, <4>2, <4>3
             DEF Next, Turn, Ends, Invoke, Start, Load, Receive, Settle,
                 serializeVars, storedVars, vars
      <3> QED
        BY <3>1, <3>2, <3>3
    <2> QED
      BY <1>1, <2>1, <2>2 DEF AnswerInv
  <1> QED
    BY <1>3, <1>4

\* The three facts about the commit order: the state is the order, the order is
\* that of submission, and a requestId does not come back while it is remembered.
LEMMA OrderInductive ==
  ASSUME TypeOK, IInv, [Next]_vars
  PROVE  NoLostUpdate' /\ AtMostOncePerWindow' /\ SubmissionOrder'
  <1>1. ASSUME NEW c \in Calls, Commit(c)
        PROVE  NoLostUpdate' /\ AtMostOncePerWindow' /\ SubmissionOrder'
    <2>1. PICK n \in Nat, m \in Nat, s \in Nat :
            /\ n = Len(applied) /\ DOMAIN applied = 1..n
            /\ m = Len(results) /\ DOMAIN results = 1..m
            /\ s = Len(submitted) /\ DOMAIN submitted = 1..s
      BY DEF TypeOK
    <2>2. /\ DOMAIN applied' = 1..(n + 1) /\ applied'[n + 1] = c
          /\ \A i \in 1..n : applied'[i] = applied[i]
      BY <1>1, <2>1, AppliedGrows
    <2>3. /\ UNCHANGED <<request, submitted>> /\ phase[c] = "running"
          /\ ~Known(request[c]) /\ \A i \in 1..n : applied[i] # c
      BY <1>1, <2>1, CommitEffect
    <2>4. NoLostUpdate'
      BY <1>1, CommitEffect DEF IInv, NoLostUpdate
    <2>5. ASSUME NEW i \in 1..n, request[applied[i]] = request[c]
          PROVE  (n + 1) - i > DedupLimit
      <3>1. m = IF n > DedupLimit THEN DedupLimit ELSE n
        BY <2>1 DEF IInv, WindowInv
      <3>2. SUFFICES ASSUME (n + 1) - i <= DedupLimit PROVE FALSE
        BY DedupLimitAssumption
      <3>3. PICK j \in 1..m : n - m + j = i
        <4>1. i - (n - m) \in 1..m
          BY <3>1, <3>2, DedupLimitAssumption
        <4> QED
          BY <4>1
      <3>4. results[j] = ResultOf(applied[i])
        BY <2>1, <3>3 DEF IInv, WindowInv
      <3> QED
        BY <2>1, <2>3, <2>5, <3>4 DEF ResultOf, Known
    <2>6. AtMostOncePerWindow'
      <3> SUFFICES ASSUME NEW i \in 1..(n + 1), NEW j \in 1..(n + 1), i < j,
                          request[applied'[i]] = request[applied'[j]]
                   PROVE  j - i > DedupLimit
        BY <2>2, <2>3 DEF AtMostOncePerWindow
      <3>1. i \in 1..n
        OBVIOUS
      <3>2. CASE j = n + 1
        BY <2>2, <2>5, <3>1, <3>2
      <3>3. CASE j \in 1..n
        BY <2>1, <2>2, <3>1, <3>3 DEF IInv, AtMostOncePerWindow
      <3> QED
        BY <3>2, <3>3
    <2>7. ASSUME NEW i \in 1..n, NEW p \in 1..s, NEW q \in 1..s,
                 submitted[p] = applied[i], submitted[q] = c
          PROVE  p < q
      <3>1. applied[i] \in Calls /\ outcome[applied[i]] # Pending
        BY <2>1, AppliedAreFixed, OutcomesDiffer DEF IInv, AnswerInv
      <3>2. phase[applied[i]] \in {"settling", "done"}
        BY <3>1 DEF IInv, FrameInv, TypeOK, Phases
      <3>3. ~(q < p)
        BY <2>1, <2>3, <2>7, <3>2 DEF IInv, MailboxInv
      <3>4. p # q
        BY <2>3, <2>7
      <3> QED
        BY <3>3, <3>4
    <2>8. SubmissionOrder'
      <3> SUFFICES ASSUME NEW i \in 1..(n + 1), NEW j \in 1..(n + 1),
                          NEW p \in 1..s, NEW q \in 1..s, i < j,
                          submitted[p] = applied'[i], submitted[q] = applied'[j]
                   PROVE  p < q
        BY <2>1, <2>2, <2>3 DEF SubmissionOrder
      <3>1. i \in 1..n
        OBVIOUS
      <3>2. CASE j = n + 1
        BY <2>2, <2>7, <3>1, <3>2
      <3>3. CASE j \in 1..n
        BY <2>1, <2>2, <3>1, <3>3 DEF IInv, SubmissionOrder
      <3> QED
        BY <3>2, <3>3
    <2> QED
      BY <2>4, <2>6, <2>8
  <1>2. ASSUME \A c \in Calls : ~Commit(c)
        PROVE  NoLostUpdate' /\ AtMostOncePerWindow' /\ SubmissionOrder'
    <2>1. UNCHANGED <<state, applied>>
      BY <1>2, StoredUnlessCommit
    <2>2. NoLostUpdate' /\ AtMostOncePerWindow'
      BY <2>1, AppliedAreFixed DEF IInv, NoLostUpdate, AtMostOncePerWindow
    <2>3. CASE submitted' = submitted
      BY <2>1, <2>2, <2>3 DEF IInv, SubmissionOrder
    <2>4. ASSUME NEW c \in Calls, NEW r \in Requests, NEW k \in Commands, Invoke(c, r, k)
          PROVE  SubmissionOrder'
      <3>1. PICK s \in Nat : s = Len(submitted) /\ DOMAIN submitted = 1..s
        BY DEF TypeOK
      <3>2. /\ DOMAIN submitted' = 1..(s + 1) /\ submitted'[s + 1] = c
            /\ \A i \in 1..s : submitted'[i] = submitted[i]
        BY <2>4, <3>1 DEF Invoke, TypeOK
      <3>3. \A i \in DOMAIN applied : applied[i] # c
        BY <2>4, OutcomesDiffer DEF Invoke, IInv, AnswerInv, FrameInv
      <3> QED
        BY <2>1, <3>1, <3>2, <3>3 DEF IInv, SubmissionOrder
    <2>5. ASSUME NEW c \in Calls, Ends(c) PROVE submitted' = submitted
      BY <2>5, EndsEffect
    <2> QED
      BY <2>2, <2>3, <2>4, <2>5
         DEF Next, Turn, Ends, Start, Load, Receive, Expire, Settle, serializeVars, vars
  <1> QED
    BY <1>1, <1>2

-----------------------------------------------------------------------------
(* The theorems. *)

\* The inductive invariant is kept by every step of the runtime.
LEMMA InvariantInductive == TypeOK /\ TypeOK' /\ IInv /\ [Next]_vars => IInv'
  <1> SUFFICES ASSUME TypeOK, TypeOK', IInv, [Next]_vars PROVE IInv'
    OBVIOUS
  <1>1. MailboxInv' /\ FrameInv'
    BY MailboxInductive, FrameInductive DEF IInv
  <1>2. RecordInv' /\ AnswerInv'
    BY RecordInductive, AnswerInductive
  <1>3. WindowInv'
    BY <1>1, <1>2, WindowInductive
  <1> QED
    BY <1>1, <1>2, <1>3, OrderInductive DEF IInv

\* The inductive invariant holds of every seat.
THEOREM InvariantHolds == Spec => []IInv
  <1>1. Init => IInv
    <2> SUFFICES ASSUME Init PROVE IInv
      OBVIOUS
    <2>1. MailboxInv /\ FrameInv
      BY DEF Init, MailboxInv, FrameInv
    <2>2. RecordInv
      BY DEF Init, RecordInv
    <2>3. WindowInv
      BY DedupLimitAssumption DEF Init, WindowInv
    <2>4. AnswerInv /\ NoLostUpdate /\ AtMostOncePerWindow /\ SubmissionOrder
      BY OutcomesDiffer
         DEF Init, AnswerInv, NoLostUpdate, AtMostOncePerWindow, SubmissionOrder
    <2> QED
      BY <2>1, <2>2, <2>3, <2>4 DEF IInv
  <1> QED
    BY <1>1, InvariantInductive, TypeCorrect, PTL DEF Spec

\* Whatever the turns do, at most one frame holds the seat.
THEOREM MutualExclusion == Spec => []OneTurnAtATime
  <1>1. TypeOK /\ IInv => OneTurnAtATime
    BY MailboxExcludes DEF IInv
  <1> QED
    BY <1>1, TypeCorrect, InvariantHolds, PTL

\* No committed turn is ever overwritten, by an abandoned turn or by a late load.
THEOREM CommitsAreKept == Spec => []NoLostUpdate
  <1>1. IInv => NoLostUpdate
    BY DEF IInv
  <1> QED
    BY <1>1, InvariantHolds, PTL

\* A requestId is applied once per window of dedupLimit commits.
THEOREM RequestsApplyOnce == Spec => []AtMostOncePerWindow
  <1>1. IInv => AtMostOncePerWindow
    BY DEF IInv
  <1> QED
    BY <1>1, InvariantHolds, PTL

\* Turns commit in submission order.
THEOREM CommitsFollowSubmission == Spec => []SubmissionOrder
  <1>1. IInv => SubmissionOrder
    BY DEF IInv
  <1> QED
    BY <1>1, InvariantHolds, PTL

\* A success names a commit of the same request, an error names none.
THEOREM CallersAreToldTheTruth == Spec => []AnswersAreTrue
  <1>1. TypeOK /\ IInv => AnswersAreTrue
    <2> SUFFICES ASSUME TypeOK, IInv, NEW c \in Calls,
                        outcome[c].kind \notin {"committed", "replayed"},
                        NEW i \in DOMAIN applied
                 PROVE  applied[i] # c
      BY DEF AnswersAreTrue, IInv, AnswerInv
    <2>1. applied[i] \in Calls /\ outcome[applied[i]].kind = "committed"
      BY OutcomesDiffer DEF IInv, AnswerInv, TypeOK
    <2> QED
      BY <2>1
  <1> QED
    BY <1>1, TypeCorrect, InvariantHolds, PTL

-----------------------------------------------------------------------------
(* The journal beside them: EventSourcedRuntime *)

\* The journal changes nothing of the turns underneath it: every behaviour of
\* EventSourcedActorRuntime is one of InMemoryActorRuntime.
THEOREM JournalIsBeside == ESSpec => Spec
  <1>1. ESInit => Init
    BY DEF ESInit
  <1>2. [ESNext]_esVars => [Next]_vars
    BY DEF ESNext, ESLoad, ESCommit, ESSettle, Unjournaled, esVars, Next, Turn
  <1> QED
    BY <1>1, <1>2, PTL DEF ESSpec, Spec

\* Every entry of `events` names the call whose turn pushed it.
LEMMA EntriesNameCalls ==
  JournalTypeOK => \A i \in DOMAIN events : events[i].call \in Calls
  <1> SUFFICES ASSUME JournalTypeOK, NEW i \in DOMAIN events
               PROVE events[i].call \in Calls
    OBVIOUS
  <1>1. events[i] \in Entry
    BY DEF JournalTypeOK
  <1> QED
    BY <1>1 DEF Entry

\* Pushing n entries keeps the log well typed and dense, and what was in it.
LEMMA PushEffect ==
  ASSUME JournalTypeOK, JournalIsDense,
         NEW c \in Calls, NEW kind \in {"event", "timeout"}, NEW n \in Nat,
         Push(c, kind, n)
  PROVE  /\ JournalTypeOK'
         /\ JournalIsDense'
         /\ Len(events') = Len(events) + n
         /\ \A i \in DOMAIN events : events'[i] = events[i]
         /\ \A i \in DOMAIN events' :
              i > Len(events) => events'[i].call = c /\ events'[i].kind = kind
  <1> DEFINE pushed == [i \in 1..n |-> [seq |-> seq + i - 1, call |-> c, kind |-> kind]]
  <1>1. seq \in Nat /\ events \in Seq(Entry) /\ seq = Len(events)
    BY DEF JournalTypeOK, JournalIsDense
  <1>2. \A i \in 1..n : seq + i - 1 \in Nat
    BY <1>1
  <1>3. pushed \in Seq(Entry) /\ Len(pushed) = n
    BY <1>2 DEF Entry
  <1>4. events' = events \o pushed /\ seq' = seq + n
    BY DEF Push
  <1> HIDE DEF pushed
  <1>5. /\ events' \in Seq(Entry)
        /\ Len(events') = Len(events) + n
        /\ \A i \in 1..Len(events) : events'[i] = events[i]
        /\ \A i \in 1..Len(events') : i > Len(events) =>
             i - Len(events) \in 1..n /\ events'[i] = pushed[i - Len(events)]
    BY <1>1, <1>3, <1>4
  <1>6. \A i \in 1..Len(events') : i > Len(events) =>
          events'[i].seq = i - 1 /\ events'[i].call = c /\ events'[i].kind = kind
    <2> SUFFICES ASSUME NEW i \in 1..Len(events'), i > Len(events)
                 PROVE events'[i].seq = i - 1 /\ events'[i].call = c /\ events'[i].kind = kind
      OBVIOUS
    <2>1. i - Len(events) \in 1..n /\ events'[i] = pushed[i - Len(events)]
      BY <1>5
    <2>2. pushed[i - Len(events)] =
            [seq |-> seq + (i - Len(events)) - 1, call |-> c, kind |-> kind]
      BY <2>1 DEF pushed
    <2> QED
      BY <1>1, <2>1, <2>2
  <1>7. \A i \in 1..Len(events) : events'[i].seq = i - 1
    BY <1>1, <1>5 DEF JournalIsDense
  <1>8. JournalTypeOK' /\ seq' = Len(events') /\ seq' = seq + n
    BY <1>1, <1>4, <1>5 DEF JournalTypeOK
  <1>9. DOMAIN events = 1..Len(events) /\ DOMAIN events' = 1..Len(events')
        /\ Len(events) \in Nat /\ Len(events') \in Nat
    BY <1>1, <1>5
  <1>10. ASSUME NEW i \in 1..Len(events') PROVE events'[i].seq = i - 1
    <2>1. CASE i > Len(events)
      BY <1>6, <2>1
    <2>2. CASE ~(i > Len(events))
      <3>1. i \in 1..Len(events)
        BY <1>9, <2>2
      <3> QED
        BY <1>5, <1>7, <3>1
    <2> QED
      BY <2>1, <2>2
  <1> QED
    BY <1>5, <1>6, <1>8, <1>9, <1>10 DEF JournalIsDense

\* A seat that has been freed by a call is not taken by it again.
LEMMA DoneIsForever ==
  ASSUME TypeOK, [Next]_vars, NEW c \in Calls, phase[c] = "done"
  PROVE  phase'[c] = "done"
  <1> USE DEF TypeOK
  <1>1. CASE UNCHANGED vars
    BY <1>1 DEF vars
  <1>2. ASSUME NEW d \in Calls, NEW r \in Requests, NEW k \in Commands,
               Invoke(d, r, k)
        PROVE phase'[c] = "done"
    BY <1>2 DEF Invoke
  <1>3. ASSUME NEW d \in Calls, Start(d) \/ Expire(d) \/ Settle(d)
        PROVE phase'[c] = "done"
    BY <1>3 DEF Start, Expire, Settle
  <1>4. ASSUME NEW d \in Calls, Turn(d) PROVE phase'[c] = "done"
    <2>1. CASE Load(d) \/ Receive(d)
      BY <2>1 DEF Load, Receive, serializeVars
    <2>2. ASSUME NEW o, Finish(d, o) PROVE phase'[c] = "done"
      BY <2>2 DEF Finish
    <2> QED
      BY <1>4, <2>1, <2>2 DEF Turn, LoadFails, Replay, ReceiveFails, Refuse, Commit
  <1> QED
    BY <1>1, <1>2, <1>3, <1>4 DEF Next

\* The log has entries only once there is a record to hold them, and a marker is
\* the one entry of a turn that ended in a timeout.
MarkerInv ==
  /\ ~exists => events = <<>>
  /\ \A i \in DOMAIN events : events[i].kind = "timeout" =>
       phase[events[i].call] = "done" /\ outcome[events[i].call] = TimedOut
  /\ \A c \in Calls : \A i, j \in Markers(c) : i = j

JInv == JournalTypeOK /\ JournalIsDense /\ MarkerInv

\* What a step does to the log and to the record: nothing, a commit, or one marker.
\* The load that publishes a fresh record only ever replaces an empty one.
LEMMA StepsPush ==
  ASSUME TypeOK, IInv, JInv, [ESNext]_esVars
  PROVE  \/ UNCHANGED <<journalVars, state, results>>
         \/ \E c \in Calls : ESCommit(c)
         \/ \E c \in Calls : ESSettle(c) /\ outcome[c] = TimedOut /\ exists
                              /\ Push(c, "timeout", 1)
  <1>1. CASE UNCHANGED esVars
    BY <1>1 DEF esVars, vars, journalVars
  <1>2. ASSUME NEW c \in Calls, ESLoad(c) PROVE UNCHANGED <<journalVars, state, results>>
    <2>1. CASE exists
      BY <1>2, <2>1 DEF ESLoad, Load
    <2>2. CASE ~exists
      <3>1. events = <<>> /\ seq = 0 /\ state = <<>> /\ results = <<>>
        BY <2>2 DEF JInv, MarkerInv, JournalIsDense, IInv, RecordInv
      <3> QED
        BY <1>2, <2>2, <3>1 DEF ESLoad, Load, journalVars
    <2> QED
      BY <2>1, <2>2
  <1>3. ASSUME NEW c \in Calls, ESSettle(c)
        PROVE \/ UNCHANGED <<journalVars, state, results>>
              \/ outcome[c] = TimedOut /\ exists /\ Push(c, "timeout", 1)
    BY <1>3 DEF ESSettle, RecordTimedOutTurn, Settle, storedVars
  <1>4. ASSUME NEW c \in Calls, Unjournaled(c) PROVE UNCHANGED <<journalVars, state, results>>
    BY <1>4 DEF Unjournaled, Invoke, Start, LoadFails, Replay, Receive, ReceiveFails,
                Refuse, Expire, storedVars
  <1> QED
    BY <1>1, <1>2, <1>3, <1>4 DEF ESNext

\* Every step keeps the log dense and its markers to one per timed-out turn.
LEMMA JournalInductive ==
  ASSUME TypeOK, IInv, TypeOK', IInv', JInv, [ESNext]_esVars
  PROVE  JInv'
  <1> USE DEF JInv
  <1>1. [Next]_vars
    BY DEF ESNext, ESLoad, ESCommit, ESSettle, Unjournaled, esVars, Next, Turn
  <1>2. \A c \in Calls : phase[c] = "done" => phase'[c] = "done" /\ outcome'[c] = outcome[c]
    <2> SUFFICES ASSUME NEW c \in Calls, phase[c] = "done"
                 PROVE  phase'[c] = "done" /\ outcome'[c] = outcome[c]
      OBVIOUS
    <2>1. outcome[c] # Pending
      BY DEF IInv, FrameInv
    <2>2. outcome'[c] = outcome[c]
      BY <1>1, <2>1, AnswersAreFixed DEF IInv
    <2> QED
      BY <1>1, <2>2, DoneIsForever
  <1>3. exists => exists'
    BY <1>1 DEF Next, Turn, Invoke, Start, Load, LoadFails, Replay, Receive,
                ReceiveFails, Refuse, Commit, Expire, Settle, vars, storedVars
  <1>4. CASE UNCHANGED journalVars
    <2>1. JournalTypeOK' /\ JournalIsDense'
      BY <1>4 DEF journalVars, JournalTypeOK, JournalIsDense
    <2>2. \A i \in DOMAIN events : events[i].call \in Calls
      BY EntriesNameCalls
    <2>3. events' = events
      BY <1>4 DEF journalVars
    <2> QED
      BY <1>2, <1>3, <2>1, <2>2, <2>3 DEF MarkerInv, Markers
  <1>5. ASSUME NEW c \in Calls, ESCommit(c) PROVE JInv'
    <2>1. exists /\ exists'
      <3>1. body[c] = "receiving"
        BY <1>5 DEF ESCommit, Commit
      <3> QED
        BY <1>3, <3>1 DEF IInv, RecordInv
    <2>2. EventsOf[c] \in Nat /\ Push(c, "event", EventsOf[c])
      BY <1>5, EventsOfAssumption DEF ESCommit
    <2>3. /\ JournalTypeOK' /\ JournalIsDense'
          /\ Len(events') = Len(events) + EventsOf[c]
          /\ \A i \in DOMAIN events : events'[i] = events[i]
          /\ \A i \in DOMAIN events' :
               i > Len(events) => events'[i].call = c /\ events'[i].kind = "event"
      BY <2>2, PushEffect
    <2>4. DOMAIN events = 1..Len(events) /\ DOMAIN events' = 1..Len(events')
          /\ Len(events) \in Nat /\ Len(events') \in Nat
      BY <2>3 DEF JournalTypeOK
    <2>5. \A i \in DOMAIN events' : events'[i].kind = "timeout" =>
            i \in DOMAIN events /\ events'[i] = events[i]
      BY <2>3, <2>4
    <2>6. \A i \in DOMAIN events : events[i].call \in Calls
      BY EntriesNameCalls
    <2>7. \A d \in Calls : Markers(d)' \subseteq Markers(d)
      BY <2>5 DEF Markers
    <2>8. MarkerInv'
      BY <1>2, <2>1, <2>5, <2>6, <2>7 DEF MarkerInv
    <2> QED
      BY <2>3, <2>8
  <1>6. ASSUME NEW c \in Calls, ESSettle(c), outcome[c] = TimedOut, exists,
               Push(c, "timeout", 1)
        PROVE JInv'
    <2>1. phase[c] = "settling" /\ phase'[c] = "done" /\ outcome'[c] = TimedOut
      BY <1>6 DEF ESSettle, Settle, TypeOK
    <2>2. /\ JournalTypeOK' /\ JournalIsDense'
          /\ Len(events') = Len(events) + 1
          /\ \A i \in DOMAIN events : events'[i] = events[i]
          /\ \A i \in DOMAIN events' :
               i > Len(events) => events'[i].call = c /\ events'[i].kind = "timeout"
      BY <1>6, PushEffect
    <2>3. DOMAIN events = 1..Len(events) /\ DOMAIN events' = 1..Len(events')
          /\ Len(events) \in Nat /\ Len(events') \in Nat
      BY <2>2 DEF JournalTypeOK
    <2>4. \A i \in DOMAIN events : events[i].call \in Calls
      BY EntriesNameCalls
    <2>5. \A i \in DOMAIN events' : events'[i].kind = "timeout" =>
            phase'[events'[i].call] = "done" /\ outcome'[events'[i].call] = TimedOut
      <3> SUFFICES ASSUME NEW i \in DOMAIN events', events'[i].kind = "timeout"
                   PROVE phase'[events'[i].call] = "done"
                         /\ outcome'[events'[i].call] = TimedOut
        OBVIOUS
      <3>1. CASE i > Len(events)
        BY <2>1, <2>2, <3>1
      <3>2. CASE ~(i > Len(events))
        <4>1. i \in DOMAIN events /\ events'[i] = events[i]
          BY <2>2, <2>3, <3>2
        <4> QED
          BY <1>2, <2>4, <4>1 DEF MarkerInv
      <3> QED
        BY <3>1, <3>2
    <2>6. Markers(c) = {}
      <3> SUFFICES ASSUME NEW i \in Markers(c) PROVE FALSE
        OBVIOUS
      <3> QED
        BY <2>1 DEF Markers, MarkerInv
    <2>7. \A i, j \in Markers(c)' : i = j
      <3> SUFFICES ASSUME NEW i \in Markers(c)' PROVE i = Len(events) + 1
        OBVIOUS
      <3>1. i \in DOMAIN events' /\ events'[i].call = c /\ events'[i].kind = "timeout"
        BY DEF Markers
      <3>2. ~(i \in DOMAIN events)
        BY <2>2, <2>6, <3>1 DEF Markers
      <3> QED
        BY <2>2, <2>3, <3>1, <3>2
    <2>8. \A d \in Calls : d # c => Markers(d)' \subseteq Markers(d)
      <3> SUFFICES ASSUME NEW d \in Calls, d # c, NEW i \in Markers(d)'
                   PROVE i \in Markers(d)
        OBVIOUS
      <3>1. i \in DOMAIN events' /\ events'[i].call = d /\ events'[i].kind = "timeout"
        BY DEF Markers
      <3>2. i \in DOMAIN events
        BY <2>2, <2>3, <3>1
      <3> QED
        BY <2>2, <3>1, <3>2 DEF Markers
    <2>9. MarkerInv'
      <3>1. \A d \in Calls : \A i, j \in Markers(d)' : i = j
        BY <2>7, <2>8 DEF MarkerInv
      <3> QED
        BY <1>3, <1>6, <2>5, <3>1 DEF MarkerInv
    <2> QED
      BY <2>2, <2>9
  <1> QED
    BY <1>4, <1>5, <1>6, StepsPush

\* The journal's inductive invariant, together with that of the turns.
LEMMA JournalInvariant == ESSpec => [](TypeOK /\ IInv /\ JInv)
  <1>1. ESSpec => [](TypeOK /\ IInv)
    BY JournalIsBeside, TypeCorrect, InvariantHolds, PTL
  <1>2. ESInit => JInv
    <2> SUFFICES ASSUME ESInit PROVE JInv
      OBVIOUS
    <2>1. events = <<>> /\ seq = 0 /\ <<>> \in Seq(Entry)
      BY DEF ESInit
    <2> QED
      BY <2>1 DEF JInv, JournalTypeOK, JournalIsDense, MarkerInv, Markers
  <1>3. TypeOK /\ IInv /\ TypeOK' /\ IInv' /\ JInv /\ [ESNext]_esVars => JInv'
    BY JournalInductive
  <1> QED
    BY <1>1, <1>2, <1>3, PTL DEF ESSpec

\* seq and events keep their types.
THEOREM JournalTypeCorrect == ESSpec => []JournalTypeOK
  <1>1. JInv => JournalTypeOK
    BY DEF JInv
  <1> QED
    BY <1>1, JournalInvariant, PTL

\* An entry's seq is its place in the log, whatever commits, loads and timeouts
\* interleave: consumers may take (actor, seq) for an entry's identity.
THEOREM JournalDense == ESSpec => []JournalIsDense
  <1>1. JInv => JournalIsDense
    BY DEF JInv
  <1> QED
    BY <1>1, JournalInvariant, PTL

\* A turn recorded as failed never committed, and is recorded once.
THEOREM MarkersHonest == ESSpec => []MarkersAreFailedTurns
  <1>1. TypeOK /\ IInv /\ JInv => MarkersAreFailedTurns
    <2> SUFFICES ASSUME TypeOK, IInv, JInv, NEW c \in Calls
                 PROVE  /\ Markers(c) # {} => outcome[c] = TimedOut /\ ~Committed(c)
                        /\ \A i, j \in Markers(c) : i = j
      BY DEF MarkersAreFailedTurns
    <2>1. \A i, j \in Markers(c) : i = j
      BY DEF JInv, MarkerInv
    <2>2. ASSUME Markers(c) # {} PROVE outcome[c] = TimedOut
      BY <2>2 DEF Markers, JInv, MarkerInv
    <2>3. ASSUME outcome[c] = TimedOut, Committed(c) PROVE FALSE
      <3>1. PICK i \in DOMAIN applied : applied[i] = c
        BY <2>3 DEF Committed, IInv, NoLostUpdate
      <3>2. outcome[c] = Resolved("committed", c)
        BY <3>1 DEF IInv, AnswerInv
      <3> QED
        BY <2>3, <3>2 DEF TimedOut, Resolved
    <2> QED
      BY <2>1, <2>2, <2>3
  <1> QED
    BY <1>1, JournalInvariant, PTL

\* The log is append-only: no step rewrites, drops or restarts it.
THEOREM JournalOnlyGrows == ESSpec => JournalAppends
  <1>1. TypeOK /\ IInv /\ JInv /\ [ESNext]_esVars
          => [/\ Len(events) <= Len(events')
              /\ \A i \in DOMAIN events : events'[i] = events[i]]_esVars
    <2> SUFFICES ASSUME TypeOK, IInv, JInv, [ESNext]_esVars
                 PROVE  /\ Len(events) <= Len(events')
                        /\ \A i \in DOMAIN events : events'[i] = events[i]
      OBVIOUS
    <2> USE DEF JInv
    <2>1. CASE UNCHANGED journalVars
      BY <2>1 DEF journalVars, JournalTypeOK
    <2>2. ASSUME NEW c \in Calls, NEW kind \in {"event", "timeout"}, NEW n \in Nat,
                 Push(c, kind, n)
          PROVE  /\ Len(events) <= Len(events')
                 /\ \A i \in DOMAIN events : events'[i] = events[i]
      BY <2>2, PushEffect DEF JournalTypeOK
    <2> QED
      BY <2>1, <2>2, StepsPush, EventsOfAssumption DEF ESCommit
  <1> QED
    BY <1>1, JournalInvariant, PTL DEF ESSpec, JournalAppends

\* A turn that the clock refused at its commit had been handed the record.
RefusedInv == \A c \in Calls : (outcome[c] = TimedOut /\ ~expired[c]) => exists

\* The record stays once it is there, so what a refused turn was handed does too.
LEMMA RefusedInductive ==
  ASSUME TypeOK, IInv, RefusedInv, [Next]_vars
  PROVE  RefusedInv'
  <1> USE DEF TypeOK
  <1>1. exists => exists'
    BY DEF Next, Turn, Invoke, Start, Load, LoadFails, Replay, Receive,
           ReceiveFails, Refuse, Commit, Expire, Settle, vars, storedVars
  <1>2. CASE UNCHANGED <<outcome, expired>>
    BY <1>1, <1>2 DEF RefusedInv
  <1>3. ASSUME NEW c \in Calls, Expire(c) PROVE RefusedInv'
    <2>1. \A d \in Calls :
            IF d = c THEN expired'[d]
                     ELSE expired'[d] = expired[d] /\ outcome'[d] = outcome[d]
      BY <1>3 DEF Expire
    <2> QED
      BY <1>1, <2>1 DEF RefusedInv
  <1>4. ASSUME NEW c \in Calls, NEW o, Finish(c, o), o # TimedOut \/ exists
        PROVE  RefusedInv'
    <2>1. expired' = expired
      BY <1>4 DEF Finish
    <2>2. \A d \in Calls : outcome'[d] = IF d = c /\ phase[c] = "running" THEN o
                                                                          ELSE outcome[d]
      BY <1>4 DEF Finish
    <2> QED
      BY <1>1, <1>4, <2>1, <2>2 DEF RefusedInv
  <1>5. ASSUME NEW c \in Calls, Refuse(c) PROVE RefusedInv'
    <2>1. exists
      BY <1>5 DEF Refuse, IInv, RecordInv
    <2> QED
      BY <1>4, <1>5, <2>1 DEF Refuse
  <1>6. ASSUME NEW c \in Calls, LoadFails(c) \/ ReceiveFails(c) PROVE RefusedInv'
    BY <1>4, <1>6, OutcomesDiffer DEF LoadFails, ReceiveFails
  <1>7. ASSUME NEW c \in Calls, Replay(c) PROVE RefusedInv'
    <2>1. body[c] = "loaded" /\ exists
      BY <1>7 DEF Replay, IInv, RecordInv
    <2>2. PICK o : Finish(c, o)
      BY <1>7 DEF Replay
    <2> QED
      BY <1>4, <2>1, <2>2
  <1>8. ASSUME NEW c \in Calls, Commit(c) PROVE RefusedInv'
    <2>1. exists
      BY <1>8 DEF Commit, IInv, RecordInv
    <2> QED
      BY <1>4, <1>8, <2>1 DEF Commit
  <1>9. ASSUME NEW c \in Calls, NEW r \in Requests, NEW k \in Commands, Invoke(c, r, k)
        PROVE  RefusedInv'
    BY <1>2, <1>9 DEF Invoke
  <1>10. ASSUME NEW c \in Calls, Start(c) \/ Load(c) \/ Receive(c) \/ Settle(c)
         PROVE  RefusedInv'
    BY <1>2, <1>10 DEF Start, Load, Receive, Settle
  <1>11. CASE UNCHANGED vars
    BY <1>2, <1>11 DEF vars
  <1> QED
    BY <1>3, <1>5, <1>6, <1>7, <1>8, <1>9, <1>10, <1>11 DEF Next, Turn

\* A turn that missed its deadline is on record by the time its seat is free, unless
\* it was still waiting for the first load of its identity: then there is nothing to
\* append the marker to.  The timer and the clock at the commit are both covered.
THEOREM TimeoutsLeaveMarkers == ESSpec => TimeoutsAreRecorded
  <1>1. ESSpec => [](TypeOK /\ IInv)
    BY JournalIsBeside, TypeCorrect, InvariantHolds, PTL
  <1>2. ESInit => RefusedInv
    BY OutcomesDiffer DEF ESInit, Init, RefusedInv
  <1>3. TypeOK /\ IInv /\ RefusedInv /\ [ESNext]_esVars => RefusedInv'
    <2>1. [ESNext]_esVars => [Next]_vars
      BY DEF ESNext, ESLoad, ESCommit, ESSettle, Unjournaled, esVars, Next, Turn
    <2> QED
      BY <2>1, RefusedInductive
  <1>4. TypeOK /\ IInv /\ JInv /\ RefusedInv /\ [ESNext]_esVars
          => [\A c \in Calls :
                (/\ phase[c] = "settling" /\ phase'[c] = "done"
                 /\ outcome[c] = TimedOut /\ ReachedTheIdentity(c))
                  => Markers(c)' # {}]_esVars
    <2> SUFFICES ASSUME TypeOK, IInv, JInv, RefusedInv, [ESNext]_esVars, NEW c \in Calls,
                        phase[c] = "settling", phase'[c] = "done",
                        outcome[c] = TimedOut, ReachedTheIdentity(c)
                 PROVE  Markers(c)' # {}
      OBVIOUS
    <2>1. exists
      BY DEF ReachedTheIdentity, RefusedInv, IInv, RecordInv
    <2>2. ESSettle(c)
      <3> USE DEF TypeOK
      <3>1. CASE UNCHANGED esVars
        BY <3>1 DEF esVars, vars
      <3>2. ASSUME NEW d \in Calls, ESLoad(d) \/ ESCommit(d) \/ Unjournaled(d)
            PROVE  FALSE
        <4>1. ASSUME NEW o, Finish(d, o) PROVE FALSE
          BY <4>1 DEF Finish
        <4>2. CASE ESLoad(d)
          BY <4>2 DEF ESLoad, Load, serializeVars
        <4>3. CASE ESCommit(d)
          BY <4>1, <4>3 DEF ESCommit, Commit
        <4>4. CASE Unjournaled(d)
          BY <4>1, <4>4 DEF Unjournaled, Invoke, Start, LoadFails, Replay, Receive,
                            ReceiveFails, Refuse, Expire, serializeVars
        <4> QED
          BY <3>2, <4>2, <4>3, <4>4
      <3>3. ASSUME NEW d \in Calls, ESSettle(d) PROVE d = c
        BY <3>3 DEF ESSettle, Settle
      <3> QED
        BY <3>1, <3>2, <3>3 DEF ESNext
    <2>3. Push(c, "timeout", 1)
      BY <2>1, <2>2 DEF ESSettle, RecordTimedOutTurn
    <2>4. /\ JournalTypeOK /\ JournalTypeOK' /\ Len(events') = Len(events) + 1
          /\ \A i \in DOMAIN events' :
               i > Len(events) => events'[i].call = c /\ events'[i].kind = "timeout"
      BY <2>3, PushEffect DEF JInv
    <2>5. Len(events) + 1 \in DOMAIN events' /\ Len(events) + 1 > Len(events)
      BY <2>4 DEF JournalTypeOK
    <2> QED
      BY <2>4, <2>5 DEF Markers
  <1> QED
    BY <1>1, <1>2, <1>3, <1>4, JournalInvariant, PTL DEF ESSpec, TimeoutsAreRecorded

-----------------------------------------------------------------------------
(* State and journal together *)

\* A turn commits once.
LEMMA CommitIsNew ==
  ASSUME TypeOK, IInv, NEW c \in Calls, Commit(c)
  PROVE  ~Committed(c) /\ outcome[c] = Pending
  <1>1. outcome[c] = Pending
    BY CommitEffect DEF IInv, FrameInv
  <1>2. ASSUME Committed(c) PROVE FALSE
    <2>1. PICK i \in DOMAIN applied : applied[i] = c
      BY <1>2 DEF Committed, IInv, NoLostUpdate
    <2> QED
      BY <1>1, <2>1, OutcomesDiffer DEF IInv, AnswerInv
  <1> QED
    BY <1>1, <1>2

\* What a push does to the positions of the events of each call.
LEMMA PushEmits ==
  ASSUME JournalTypeOK, JournalIsDense,
         NEW c \in Calls, NEW kind \in {"event", "timeout"}, NEW n \in Nat,
         Push(c, kind, n)
  PROVE  \A d \in Calls :
           EmittedBy(d)' = IF d = c /\ kind = "event"
                           THEN EmittedBy(d) \cup ((Len(events) + 1)..(Len(events) + n))
                           ELSE EmittedBy(d)
  <1>1. /\ Len(events') = Len(events) + n
        /\ \A i \in DOMAIN events : events'[i] = events[i]
        /\ \A i \in DOMAIN events' :
             i > Len(events) => events'[i].call = c /\ events'[i].kind = kind
        /\ JournalTypeOK'
    BY PushEffect
  <1>2. DOMAIN events = 1..Len(events) /\ DOMAIN events' = 1..Len(events')
        /\ Len(events) \in Nat /\ Len(events') \in Nat
    BY <1>1 DEF JournalTypeOK
  <1>3. PICK m \in Nat : m = Len(events)
    BY <1>2
  <1>4. DOMAIN events = 1..m /\ DOMAIN events' = 1..(m + n)
    BY <1>1, <1>2, <1>3
  <1>5. SUFFICES ASSUME NEW d \in Calls, NEW i \in 1..(m + n)
                 PROVE  i \in EmittedBy(d)' <=>
                          \/ i \in EmittedBy(d)
                          \/ d = c /\ kind = "event" /\ i \in (m + 1)..(m + n)
    <2>1. \A d \in Calls : EmittedBy(d)' \subseteq 1..(m + n) /\ EmittedBy(d) \subseteq 1..(m + n)
      BY <1>4 DEF EmittedBy
    <2>2. (m + 1)..(m + n) \subseteq 1..(m + n)
      OBVIOUS
    <2> QED
      BY <1>3, <1>5, <2>1, <2>2
  <1>6. CASE i > m
    <2>1. i \notin DOMAIN events /\ i \in DOMAIN events' /\ i \in (m + 1)..(m + n)
      BY <1>4, <1>6
    <2>2. events'[i].call = c /\ events'[i].kind = kind
      BY <1>1, <1>3, <1>6, <2>1
    <2> QED
      BY <2>1, <2>2 DEF EmittedBy
  <1>7. CASE ~(i > m)
    <2>1. i \in DOMAIN events /\ i \in DOMAIN events' /\ i \notin (m + 1)..(m + n)
      BY <1>4, <1>7
    <2>2. events'[i] = events[i]
      BY <1>1, <2>1
    <2> QED
      BY <2>1, <2>2 DEF EmittedBy
  <1> QED
    BY <1>6, <1>7

\* The log and the state agree after every step: a commit adds the events of its turn
\* at the end of the one and its call at the end of the other.
LEMMA MatchInductive ==
  ASSUME TypeOK, IInv, JInv, JournalMatchesState, [ESNext]_esVars
  PROVE  JournalMatchesState'
  <1> USE DEF JInv
  <1> DEFINE after(d) == {i \in DOMAIN events' : events'[i].call = d /\ events'[i].kind = "event"}
  <1>1. \A d \in Calls : EmittedBy(d)' = after(d)
    BY DEF EmittedBy
  <1>2. events \in Seq(Entry) /\ Len(events) \in Nat /\ DOMAIN events = 1..Len(events)
    BY DEF JournalTypeOK
  <1>3. state \in Seq(Calls) /\ Len(state) \in Nat /\ DOMAIN state = 1..Len(state)
    BY DEF TypeOK
  <1>4. ASSUME state' = state, \A d \in Calls : EmittedBy(d)' = EmittedBy(d),
               Len(events) <= Len(events'), Len(events') \in Nat
        PROVE  JournalMatchesState'
    <2>1. \A d \in Calls : Committed(d)' = Committed(d)
      BY <1>4 DEF Committed
    <2>2. 0..Len(events) \subseteq 0..Len(events')
      BY <1>2, <1>4
    <2>3. ASSUME NEW d \in Calls
          PROVE  IF Committed(d)'
                 THEN \E start \in 0..Len(events') :
                        EmittedBy(d)' = (start + 1)..(start + EventsOf[d])
                 ELSE EmittedBy(d)' = {}
      BY <1>4, <2>1, <2>2, <2>3 DEF JournalMatchesState
    <2>4. \A m, n \in DOMAIN state' : \A i \in after(state'[m]), j \in after(state'[n]) :
            m < n => i < j
      <3>1. \A m \in DOMAIN state : after(state[m]) = EmittedBy(state[m])
        BY <1>1, <1>3, <1>4
      <3>2. \A d \in Calls : EmittedBy(d) \subseteq DOMAIN events
        BY DEF EmittedBy
      <3> HIDE DEF after
      <3> QED
        BY <1>3, <1>4, <3>1, <3>2 DEF JournalMatchesState
    <2> QED
      BY <2>3, <2>4 DEF JournalMatchesState, EmittedBy
  <1>5. ASSUME NEW c \in Calls, ESCommit(c) PROVE JournalMatchesState'
    <2>1. Commit(c) /\ Push(c, "event", EventsOf[c]) /\ EventsOf[c] \in Nat
      BY <1>5, EventsOfAssumption DEF ESCommit
    <2>2. state' = Append(state, c) /\ ~Committed(c)
      BY <2>1, CommitEffect, CommitIsNew
    <2>3. PICK m \in Nat : m = Len(events)
      BY <1>2
    <2>4. PICK s \in Nat : s = Len(state)
      BY <1>3
    <2>5. Len(events') = m + EventsOf[c]
      BY <2>1, <2>3, PushEffect
    <2>6. DOMAIN state' = 1..(s + 1) /\ state'[s + 1] = c /\ \A i \in 1..s : state'[i] = state[i]
      BY <1>3, <2>2, <2>4
    <2>7. \A i \in 1..s : state[i] \in Calls /\ state[i] # c
      BY <1>3, <2>2, <2>4 DEF Committed
    <2>8. \A d \in Calls : Committed(d)' <=> d = c \/ Committed(d)
      BY <1>3, <2>4, <2>6 DEF Committed
    <2>9. EmittedBy(c)' = (m + 1)..(m + EventsOf[c])
      <3>1. EmittedBy(c) = {}
        BY <2>2 DEF JournalMatchesState
      <3> QED
        BY <2>1, <2>3, <3>1, PushEmits
    <2>10. \A d \in Calls : d # c => EmittedBy(d)' = EmittedBy(d)
      BY <2>1, PushEmits
    <2>11. \A d \in Calls : EmittedBy(d) \subseteq 1..m
      BY <1>2, <2>3 DEF EmittedBy
    <2>12. ASSUME NEW d \in Calls
           PROVE  IF Committed(d)'
                  THEN \E start \in 0..Len(events') :
                         EmittedBy(d)' = (start + 1)..(start + EventsOf[d])
                  ELSE EmittedBy(d)' = {}
      <3>1. CASE d = c
        <4>1. m \in 0..Len(events')
          BY <2>1, <2>5
        <4> QED
          BY <2>8, <2>9, <3>1, <4>1
      <3>2. CASE d # c
        <4>1. 0..m \subseteq 0..Len(events')
          BY <2>1, <2>5
        <4> QED
          BY <2>3, <2>8, <2>10, <3>2, <4>1 DEF JournalMatchesState
      <3> QED
        BY <3>1, <3>2
    <2>13. ASSUME NEW p \in 1..(s + 1), NEW q \in 1..(s + 1), p < q,
                  NEW i \in after(state'[p]), NEW j \in after(state'[q])
           PROVE  i < j
      <3> HIDE DEF after
      <3>1. p \in 1..s /\ state'[p] = state[p] /\ i \in EmittedBy(state[p]) /\ i \in 1..m
        <4>1. p \in 1..s
          BY <2>13
        <4> QED
          BY <1>1, <2>6, <2>7, <2>10, <2>11, <4>1
      <3>2. CASE q = s + 1
        BY <1>1, <2>1, <2>6, <2>9, <3>1, <3>2
      <3>3. CASE q # s + 1
        <4>1. q \in 1..s /\ j \in EmittedBy(state[q]) /\ j \in 1..m
          <5>1. q \in 1..s
            BY <3>3
          <5> QED
            BY <1>1, <2>6, <2>7, <2>10, <2>11, <5>1
        <4> QED
          BY <1>2, <1>3, <2>3, <2>4, <2>13, <3>1, <4>1 DEF JournalMatchesState
      <3> QED
        BY <3>2, <3>3
    <2> QED
      BY <2>6, <2>12, <2>13 DEF JournalMatchesState, EmittedBy
  <1>6. CASE state' = state /\ UNCHANGED journalVars
    BY <1>2, <1>4, <1>6 DEF journalVars, EmittedBy
  <1>7. ASSUME NEW c \in Calls, ESSettle(c), Push(c, "timeout", 1) PROVE JournalMatchesState'
    <2>1. state' = state
      BY <1>7 DEF ESSettle, Settle, storedVars
    <2>2. \A d \in Calls : EmittedBy(d)' = EmittedBy(d)
      BY <1>7, PushEmits
    <2>3. Len(events') = Len(events) + 1
      BY <1>7, PushEffect
    <2> QED
      BY <1>2, <1>4, <2>1, <2>2, <2>3
  <1> QED
    BY <1>5, <1>6, <1>7, StepsPush

\* The inductive invariant of the runtime and its journal.
LEMMA MatchInvariant == ESSpec => [](TypeOK /\ IInv /\ JInv /\ JournalMatchesState)
  <1>1. ESInit => JournalMatchesState
    <2> SUFFICES ASSUME ESInit PROVE JournalMatchesState
      OBVIOUS
    <2>1. events = <<>> /\ state = <<>>
      BY DEF ESInit, Init
    <2> QED
      BY <2>1 DEF JournalMatchesState, Committed, EmittedBy
  <1>2. TypeOK /\ IInv /\ JInv /\ JournalMatchesState /\ [ESNext]_esVars => JournalMatchesState'
    BY MatchInductive
  <1> QED
    BY <1>1, <1>2, JournalInvariant, PTL DEF ESSpec

\* State and events cannot diverge: the log holds the events of exactly the turns the
\* state reflects, those of one turn side by side and in commit order.
THEOREM StateAndEventsAgree == ESSpec => []JournalMatchesState
  BY MatchInvariant, PTL

-----------------------------------------------------------------------------
(* The runtime implements the seat *)

\* The refinement mapping of SeatWithJournal.
Fates == [c \in Calls |-> IF phase[c] = "idle" THEN [kind |-> "unsent"] ELSE outcome[c]]
Memory == {results[i].request : i \in DOMAIN results}

\* A call that has been made has, in the contract, the outcome it has in the runtime.
LEMMA FatesOf ==
  ASSUME TypeOK, IInv, NEW c \in Calls
  PROVE  /\ phase[c] # "idle" => Fates[c] = outcome[c]
         /\ phase[c] = "idle" => Fates[c].kind = "unsent"
         /\ phase[c] \in {"queued", "running"} => Fates[c].kind = "pending"
  BY DEF Fates, IInv, FrameInv, Pending

\* A step in which nobody joins and no race is decided changes no fate.
LEMMA FatesStay ==
  ASSUME TypeOK, TypeOK', outcome' = outcome,
         \A c \in Calls : phase[c] = "idle" <=> phase'[c] = "idle"
  PROVE  Fates' = Fates
  BY DEF Fates

\* A race that is decided answers its call.
LEMMA FatesAnswered ==
  ASSUME TypeOK, NEW c \in Calls, NEW o, phase[c] = "running",
         phase' = [phase EXCEPT ![c] = "settling"], outcome' = [outcome EXCEPT ![c] = o]
  PROVE  Fates' = [Fates EXCEPT ![c] = o]
  BY DEF Fates, TypeOK

\* What the runtime remembers of a request is the latest commit made under it.
LEMMA RecordedIsLatest ==
  ASSUME TypeOK, IInv, NEW r, Known(r)
  PROVE  \E i \in DOMAIN state :
           /\ SeatWithJournal!IsLatest(i, r)
           /\ Recorded(r).command = command[state[i]] /\ Recorded(r).result = state[i]
  <1>1. PICK k \in DOMAIN results : results[k] = Recorded(r) /\ results[k].request = r
    BY RecordedIsAResult
  <1>2. PICK n \in Nat, w \in Nat : n = Len(applied) /\ w = Len(results)
    BY DEF TypeOK
  <1>3. DOMAIN applied = 1..n /\ DOMAIN results = 1..w /\ state = applied
    BY <1>2 DEF TypeOK, IInv, NoLostUpdate
  <1>4. DedupLimit \in Nat /\ DedupLimit >= 1
    BY DedupLimitAssumption
  <1>5. w <= n /\ w <= DedupLimit /\ results[k] = ResultOf(applied[n - w + k])
    BY <1>1, <1>2, <1>3, <1>4 DEF IInv, WindowInv
  <1>6. k \in 1..w /\ n - w + k \in 1..n
    BY <1>1, <1>3, <1>5
  <1>7. request[applied[n - w + k]] = r
    BY <1>1, <1>5 DEF ResultOf
  <1>8. \A j \in 1..n : j > n - w + k => request[applied[j]] # r
    <2> SUFFICES ASSUME NEW j \in 1..n, j > n - w + k, request[applied[j]] = r
                 PROVE  FALSE
      OBVIOUS
    <2>1. j - (n - w + k) > DedupLimit
      BY <1>3, <1>6, <1>7 DEF IInv, AtMostOncePerWindow
    <2> QED
      BY <1>4, <1>5, <1>6, <2>1
  <1> QED
    BY <1>1, <1>3, <1>5, <1>6, <1>7, <1>8 DEF SeatWithJournal!IsLatest, ResultOf

\* Eviction drops the oldest results and never the one just set.
LEMMA EvictKeepsNewest ==
  ASSUME NEW S, NEW w \in Seq(S), NEW e \in S
  PROVE  LET kept == Evict(Append(w, e)) IN
         /\ \E i \in DOMAIN kept : kept[i] = e
         /\ \A i \in DOMAIN kept : kept[i] = e \/ \E j \in DOMAIN w : kept[i] = w[j]
  <1> DEFINE s == Append(w, e)
  <1>1. PICK n \in Nat : n = Len(w)
    OBVIOUS
  <1>2. /\ s \in Seq(S) /\ Len(s) = n + 1 /\ s[n + 1] = e
        /\ \A j \in 1..n : s[j] = w[j] /\ DOMAIN w = 1..n
    BY <1>1
  <1>3. DedupLimit \in Nat /\ DedupLimit >= 1
    BY DedupLimitAssumption
  <1> HIDE DEF s
  <1>4. CASE n + 1 > DedupLimit
    <2>1. Evict(s) = SubSeq(s, Len(s) - DedupLimit + 1, Len(s))
      <3>1. Len(s) = n + 1
        BY <1>2
      <3> QED
        BY <1>3, <1>4, <3>1 DEF Evict
    <2>2. Len(Evict(s)) = DedupLimit
          /\ \A i \in 1..DedupLimit : Evict(s)[i] = s[n + 1 - DedupLimit + i]
      <3>1. s \in Seq(S) /\ Len(s) = n + 1 /\ Len(s) - DedupLimit + 1 \in 1..(n + 1)
        BY <1>2, <1>3, <1>4
      <3>2. Len(Evict(s)) = DedupLimit
        BY <1>3, <2>1, <3>1
      <3>3. ASSUME NEW i \in 1..DedupLimit
            PROVE  Evict(s)[i] = s[n + 1 - DedupLimit + i]
        <4>1. Evict(s)[i] = s[Len(s) - DedupLimit + 1 + i - 1]
          BY <1>3, <2>1, <3>1
        <4>2. Len(s) - DedupLimit + 1 + i - 1 = n + 1 - DedupLimit + i
          BY <1>3, <3>1
        <4> QED
          BY <4>1, <4>2
      <3> QED
        BY <3>2, <3>3
    <2>3. DOMAIN Evict(s) = 1..DedupLimit
      BY <1>2, <1>3, <1>4, <2>1, <2>2
    <2>4. Evict(s)[DedupLimit] = e /\ DedupLimit \in 1..DedupLimit
      BY <1>2, <1>3, <2>2
    <2>5. \A i \in 1..DedupLimit : Evict(s)[i] = e \/ \E j \in 1..n : Evict(s)[i] = w[j]
      <3> SUFFICES ASSUME NEW i \in 1..DedupLimit, i # DedupLimit
                   PROVE  \E j \in 1..n : Evict(s)[i] = w[j]
        BY <2>4
      <3>1. n + 1 - DedupLimit + i \in 1..n
        BY <1>3, <1>4
      <3> QED
        BY <1>2, <2>2, <3>1
    <2> QED
      BY <1>1, <1>2, <2>3, <2>4, <2>5 DEF s
  <1>5. CASE ~(n + 1 > DedupLimit)
    <2>1. Evict(s) = s
      BY <1>2, <1>5 DEF Evict
    <2>2. DOMAIN s = 1..(n + 1)
      BY <1>2
    <2> QED
      BY <1>1, <1>2, <2>1, <2>2 DEF s
  <1> QED
    BY <1>4, <1>5

\* invoke submits a call.
LEMMA InvokeSubmits ==
  ASSUME TypeOK, IInv, NEW c \in Calls, NEW r \in Requests, NEW k \in Commands,
         Invoke(c, r, k), UNCHANGED journalVars
  PROVE  SeatWithJournal!Submit(c, r, k)
  <1>1. phase[c] = "idle" /\ outcome[c] = Pending /\ outcome' = outcome
        /\ phase' = [phase EXCEPT ![c] = "queued"]
    BY DEF Invoke, IInv, FrameInv
  <1>2. Fates' = [Fates EXCEPT ![c] = [kind |-> "pending"]] /\ Fates[c].kind = "unsent"
    BY <1>1 DEF Fates, TypeOK, Pending
  <1>3. UNCHANGED <<state, results, events>>
    BY DEF Invoke, storedVars, journalVars
  <1> QED
    BY <1>2, <1>3 DEF Invoke, SeatWithJournal!Submit, SeatWithJournal!Is, SeatWithJournal!Answer,
                      Fates

\* A turn that ends without a commit replays, or is rejected, or is not heard any more.
LEMMA EndsReplayOrReject ==
  ASSUME TypeOK, TypeOK', IInv, NEW c \in Calls, UNCHANGED journalVars,
         LoadFails(c) \/ Replay(c) \/ ReceiveFails(c) \/ Refuse(c) \/ Expire(c)
  PROVE  \/ SeatWithJournal!Replay(c) \/ SeatWithJournal!Reject(c)
         \/ UNCHANGED SeatWithJournal!vars
  <1>1. UNCHANGED <<request, command, state, results, events>>
    BY DEF LoadFails, Replay, ReceiveFails, Refuse, Expire, Finish, storedVars, journalVars
  <1>2. PICK o : /\ phase[c] = "running" =>
                      /\ phase' = [phase EXCEPT ![c] = "settling"]
                      /\ outcome' = [outcome EXCEPT ![c] = o]
                 /\ phase[c] # "running" => UNCHANGED <<phase, outcome>>
                 /\ \/ o \in {Failed, TimedOut}
                    \/ /\ Known(request[c]) /\ Recorded(request[c]).command = command[c]
                       /\ o = Resolved("replayed", Recorded(request[c]).result)
    BY DEF LoadFails, Replay, ReceiveFails, Refuse, Expire, Finish
  <1>3. CASE phase[c] # "running"
    <2>1. Fates' = Fates
      BY <1>2, <1>3, FatesStay
    <2> QED
      BY <1>1, <2>1 DEF SeatWithJournal!vars, Fates
  <1>4. CASE phase[c] = "running"
    <2>1. Fates' = [Fates EXCEPT ![c] = o] /\ Fates[c].kind = "pending"
      BY <1>2, <1>4, FatesAnswered, FatesOf
    <2>2. CASE o \in {Failed, TimedOut}
      BY <1>1, <2>1, <2>2 DEF SeatWithJournal!Reject, SeatWithJournal!Is, SeatWithJournal!Answer,
                              Fates, Failed, TimedOut
    <2>3. CASE /\ Known(request[c]) /\ Recorded(request[c]).command = command[c]
               /\ o = Resolved("replayed", Recorded(request[c]).result)
      <3>1. PICK i \in DOMAIN state :
              /\ SeatWithJournal!IsLatest(i, request[c])
              /\ command[state[i]] = command[c] /\ o = [kind |-> "replayed", from |-> state[i]]
        BY <2>3, RecordedIsLatest DEF Resolved
      <3>2. request[c] \in Memory
        BY <2>3 DEF Known, Memory
      <3>3. SeatWithJournal!Is(c, "pending")
        BY <2>1 DEF SeatWithJournal!Is, Fates
      <3>4. SeatWithJournal!Answer(c, [kind |-> "replayed", from |-> state[i]])
        BY <2>1, <3>1, Zenon DEF SeatWithJournal!Answer, Fates
      <3> QED
        BY <1>1, <3>1, <3>2, <3>3, <3>4 DEF SeatWithJournal!Replay, Memory
    <2> QED
      BY <1>2, <2>2, <2>3
  <1> QED
    BY <1>3, <1>4

\* The commit of a turn, with its events, is one step of the contract.
LEMMA CommitCommits ==
  ASSUME TypeOK, IInv, JInv, NEW c \in Calls, ESCommit(c)
  PROVE  SeatWithJournal!Commit(c, EventsOf[c])
  <1>1. Commit(c) /\ Push(c, "event", EventsOf[c])
    BY DEF ESCommit
  <1>2. /\ phase[c] = "running" /\ ~Known(request[c])
        /\ state' = Append(state, c)
        /\ results' = Evict(Append(results, ResultOf(c)))
        /\ outcome' = [outcome EXCEPT ![c] = Resolved("committed", c)]
        /\ phase' = [phase EXCEPT ![c] = "settling"]
        /\ UNCHANGED <<request, command>>
    BY <1>1, CommitEffect DEF Commit, Finish
  <1>3. Fates' = [Fates EXCEPT ![c] = [kind |-> "committed", from |-> c]] /\ Fates[c].kind = "pending"
    BY <1>2, FatesAnswered, FatesOf DEF Resolved
  <1>4. request[c] \notin Memory
    BY <1>2 DEF Known, Memory
  <1>5. events' = events \o SeatWithJournal!Entries(c, "event", EventsOf[c])
    BY <1>1 DEF Push, SeatWithJournal!Entries, JInv, JournalIsDense
  <1>6. \E kept \in SUBSET Memory : Memory' = kept \cup {request[c]}
    <2>1. results \in Seq(Results) /\ ResultOf(c) \in Results
      <3>1. request[c] \in Requests /\ command[c] \in Commands
        BY <1>2 DEF TypeOK
      <3> QED
        BY <3>1 DEF ResultOf, Results, TypeOK
    <2>2. /\ \E i \in DOMAIN results' : results'[i] = ResultOf(c)
          /\ \A i \in DOMAIN results' :
               results'[i] = ResultOf(c) \/ \E j \in DOMAIN results : results'[i] = results[j]
      BY <1>2, <2>1, EvictKeepsNewest
    <2>3. ResultOf(c).request = request[c]
      BY DEF ResultOf
    <2>4. request[c] \in Memory' /\ Memory' \subseteq Memory \cup {request[c]}
      BY <2>2, <2>3 DEF Memory
    <2>5. Memory' = (Memory' \cap Memory) \cup {request[c]}
      BY <2>4
    <2> QED
      BY <2>5
  <1> QED
    BY <1>2, <1>3, <1>4, <1>5, <1>6 DEF SeatWithJournal!Commit, SeatWithJournal!Is,
                                        SeatWithJournal!Answer, Fates, Memory

\* The marker of a timed-out turn is the only entry the log has of it.
LEMMA SettleMarks ==
  ASSUME TypeOK, TypeOK', IInv, JInv, JournalMatchesState, NEW c \in Calls,
         ESSettle(c), outcome[c] = TimedOut, Push(c, "timeout", 1)
  PROVE  SeatWithJournal!Mark(c)
  <1>1. phase[c] = "settling" /\ phase' = [phase EXCEPT ![c] = "done"]
        /\ UNCHANGED <<outcome, request, command, state, results>>
    BY DEF ESSettle, Settle, storedVars
  <1>2. Fates' = Fates
    BY <1>1, FatesStay DEF TypeOK
  <1>3. Fates[c].kind = "timeout"
    BY <1>1, FatesOf DEF TimedOut
  <1>4. events' = events \o SeatWithJournal!Entries(c, "timeout", 1)
    BY DEF Push, SeatWithJournal!Entries, JInv, JournalIsDense
  <1>5. ~Committed(c)
    <2> SUFFICES ASSUME NEW i \in DOMAIN applied, applied[i] = c
                 PROVE  FALSE
      BY DEF Committed, IInv, NoLostUpdate
    <2> QED
      BY OutcomesDiffer DEF IInv, AnswerInv
  <1>6. \A i \in DOMAIN events : events[i].call # c
    <2> SUFFICES ASSUME NEW i \in DOMAIN events, events[i].call = c
                 PROVE  FALSE
      OBVIOUS
    <2>1. events[i] \in Entry
      BY DEF JInv, JournalTypeOK
    <2>2. CASE events[i].kind = "timeout"
      BY <1>1, <2>2 DEF JInv, MarkerInv
    <2>3. CASE events[i].kind = "event"
      BY <1>5, <2>3 DEF JournalMatchesState, EmittedBy
    <2> QED
      BY <2>1, <2>2, <2>3 DEF Entry
  <1> QED
    BY <1>1, <1>2, <1>3, <1>4, <1>6 DEF SeatWithJournal!Mark, SeatWithJournal!Is, Fates

\* What happens inside a call and tells nobody is no step of the contract.
LEMMA OthersStutter ==
  ASSUME TypeOK, TypeOK', IInv, JInv, NEW c \in Calls,
         \/ UNCHANGED journalVars /\ (Start(c) \/ Receive(c) \/ Settle(c))
         \/ ESLoad(c)
  PROVE  UNCHANGED SeatWithJournal!vars
  <1>1. UNCHANGED <<request, command, outcome>>
    BY DEF Start, Receive, Settle, ESLoad, Load, serializeVars
  <1>2. UNCHANGED <<state, results, events>>
    <2>1. CASE ESLoad(c)
      <3>1. CASE exists
        BY <2>1, <3>1 DEF ESLoad, Load, journalVars
      <3>2. CASE ~exists
        <4>1. events = <<>> /\ state = <<>> /\ results = <<>>
          BY <3>2 DEF JInv, MarkerInv, IInv, RecordInv
        <4> QED
          BY <2>1, <3>2, <4>1 DEF ESLoad, Load
      <3> QED
        BY <3>1, <3>2
    <2> QED
      BY <2>1 DEF Start, Receive, Settle, storedVars, journalVars
  <1>3. \A d \in Calls : phase[d] = "idle" <=> phase'[d] = "idle"
    BY DEF Start, Receive, Settle, ESLoad, Load, serializeVars, TypeOK
  <1>4. Fates' = Fates
    BY <1>1, <1>3, FatesStay
  <1> QED
    BY <1>1, <1>2, <1>4 DEF SeatWithJournal!vars, Fates

\* Every step of the runtime is a step of the contract, or none.
LEMMA ESStepsImplement ==
  ASSUME TypeOK, TypeOK', IInv, JInv, JournalMatchesState, [ESNext]_esVars
  PROVE  [SeatWithJournal!Next]_(SeatWithJournal!vars)
  <1>1. CASE UNCHANGED esVars
    BY <1>1 DEF esVars, vars, SeatWithJournal!vars
  <1>2. ASSUME NEW c \in Calls, ESLoad(c)
        PROVE  UNCHANGED SeatWithJournal!vars
    BY <1>2, OthersStutter
  <1>3. ASSUME NEW c \in Calls, ESCommit(c)
        PROVE  SeatWithJournal!Next
    BY <1>3, CommitCommits DEF SeatWithJournal!Next
  <1>4. ASSUME NEW c \in Calls, ESSettle(c)
        PROVE  SeatWithJournal!Next \/ UNCHANGED SeatWithJournal!vars
    <2>1. CASE outcome[c] = TimedOut /\ exists
      BY <1>4, <2>1, SettleMarks DEF ESSettle, RecordTimedOutTurn, SeatWithJournal!Next
    <2>2. CASE ~(outcome[c] = TimedOut /\ exists)
      BY <1>4, <2>2, OthersStutter DEF ESSettle, RecordTimedOutTurn
    <2> QED
      BY <2>1, <2>2
  <1>5. ASSUME NEW c \in Calls, Unjournaled(c)
        PROVE  SeatWithJournal!Next \/ UNCHANGED SeatWithJournal!vars
    <2>1. ASSUME NEW r \in Requests, NEW k \in Commands, Invoke(c, r, k)
          PROVE  SeatWithJournal!Next
      BY <1>5, <2>1, InvokeSubmits DEF Unjournaled, SeatWithJournal!Next
    <2>2. CASE LoadFails(c) \/ Replay(c) \/ ReceiveFails(c) \/ Refuse(c) \/ Expire(c)
      BY <1>5, <2>2, EndsReplayOrReject DEF Unjournaled, SeatWithJournal!Next
    <2>3. CASE Start(c) \/ Receive(c)
      BY <1>5, <2>3, OthersStutter DEF Unjournaled
    <2> QED
      BY <1>5, <2>1, <2>2, <2>3 DEF Unjournaled
  <1> QED
    BY <1>1, <1>2, <1>3, <1>4, <1>5 DEF ESNext

\* The journaling runtime implements the abstract seat: every entry enters the log in
\* the step that commits its turn, or as the one marker of a timed-out turn.
THEOREM ImplementsTheSeat == ESSpec => ImplementsJournaledSeat
  <1>1. ESInit => SeatWithJournal!Init
    <2> SUFFICES ASSUME ESInit PROVE SeatWithJournal!Init
      OBVIOUS
    <2>1. DOMAIN results = {}
      BY DEF ESInit, Init
    <2> QED
      BY <2>1 DEF ESInit, Init, SeatWithJournal!Init
  <1>2. TypeOK /\ TypeOK' /\ IInv /\ JInv /\ JournalMatchesState /\ [ESNext]_esVars
          => [SeatWithJournal!Next]_(SeatWithJournal!vars)
    BY ESStepsImplement
  <1> QED
    BY <1>1, <1>2, MatchInvariant, PTL DEF ESSpec, ImplementsJournaledSeat, SeatWithJournal!Spec

=============================================================================
