---------------------- MODULE DurableObjectRuntimeProofs ----------------------
(***************************************************************************)
(* What DurableObjectRuntime guarantees for any number of calls, events    *)
(* and remembered requests, whenever the platform loses the object.        *)
(*                                                                         *)
(* The turns of one object form a line (SeatInv), so one turn at most      *)
(* holds the seat; the storage queue names each section once (TaskInv).    *)
(* Between them no commit falls between what a turn has read and its own   *)
(* commit (FrameInv), and from that follow what storage holds (StoreInv,   *)
(* WindowInv, JournalInv), the properties the runs check, and that every   *)
(* step is a step of the contract.                                         *)
(***************************************************************************)
EXTENDS DurableObjectRuntime, SequenceTheorems, TLAPS

(* The inductive invariant. *)

Holding(c) == phase[c] \in {"running", "committing", "marking"}
Live(c) == phase[c] = "queued" \/ Holding(c)

\* line is the turns that wait for the seat or hold it, in the order they joined:
\* only the first may run, and each of the others awaits the one before it.
IsLine(line) ==
  /\ \A i, j \in 1..Len(line) : line[i] = line[j] => i = j
  /\ \A c \in Calls : Live(c) <=> \E i \in 1..Len(line) : line[i] = c
  /\ Len(line) > 0 => Released(line[1]) /\ seatTail = line[Len(line)]
  /\ \A i \in 2..Len(line) : previous[line[i]] = line[i - 1] /\ phase[line[i]] = "queued"
  /\ Len(line) = 0 => seatTail = NoCall \/ phase[seatTail] = "done"

SeatInv == \E line \in Seq(Calls) : IsLine(line)

\* A section is in the queue once, and the frame that entered it awaits it.
TaskInv ==
  /\ \A i, j \in 1..Len(tasks) : tasks[i] = tasks[j] => i = j
  /\ \A i \in 1..Len(tasks) :
       /\ tasks[i].kind = "init" => body[tasks[i].call] = "publishing"
       /\ tasks[i].kind = "commit" => phase[tasks[i].call] = "committing"
       /\ tasks[i].kind = "marker" => phase[tasks[i].call] = "marking"
  /\ at = "written" => tasks # <<>> /\ Head(tasks).kind = "commit"

\* Before the seat is granted nothing has been read or told, and the deadline's
\* error is what a turn that waits for its marker will be told.
TurnInv ==
  \A c \in Calls :
    /\ phase[c] # "idle" => request[c] \in Requests /\ command[c] \in Commands
    /\ phase[c] \in {"idle", "queued"} => body[c] = "none"
    /\ phase[c] \in {"idle", "queued", "running", "committing"} => outcome[c] = Pending
    /\ phase[c] = "marking" => outcome[c] = TimedOut

Remembered(r) == \E d \in dedup : d.request = r

\* What the turn that holds the seat has read is still what is stored, until it
\* writes; and whoever has committed is in, or past, the section of its commit.
FrameInv ==
  \A c \in Calls :
    /\ phase[c] = "running" /\ body[c] \in {"loaded", "receiving"}
         => exists /\ working[c] = state
    /\ phase[c] = "running" /\ body[c] = "receiving" => ~Remembered(request[c])
    /\ phase[c] = "committing" /\ ~Committed(c)
         => exists /\ working[c] = state /\ ~Remembered(request[c])
    /\ Committed(c) => phase[c] \in {"committing", "done", "lost"}
    /\ Committed(c) /\ phase[c] = "committing"
         => at = "written" /\ Head(tasks) = [call |-> c, kind |-> "commit"]

\* The record is what the committed turns, in order, made of it, and each dedup
\* entry is the latest commit of its request.
StoreInv ==
  /\ state = applied
  /\ ~exists => applied = <<>> /\ seq = 0
  /\ at = "written" => Committed(Head(tasks).call)
  /\ \A d \in dedup : \E i \in 1..Len(applied) :
       /\ applied[i] = d.result
       /\ request[d.result] = d.request /\ command[d.result] = d.command
       /\ \A j \in 1..Len(applied) : j > i => request[applied[j]] # d.request

\* The window is the requests of the last dedupLimit commits, none of which the
\* section that runs is about to delete.
WindowInv ==
  /\ Len(order) = IF Len(applied) > DedupLimit THEN DedupLimit ELSE Len(applied)
  /\ \A i \in 1..Len(order) : order[i] = request[applied[Len(applied) - Len(order) + i]]
  /\ at = "written" => \A i \in 1..Len(order) : order[i] \notin evicted

\* A marker is the last thing that happens to its turn.
MarkerInv ==
  \A c \in Calls : Positions(c, "timeout") # {} => phase[c] \in {"done", "lost"}

-----------------------------------------------------------------------------
(* Types, and what an action does to the queue of sections. *)

LEMMA OutcomesDiffer ==
  /\ Pending.kind = "pending" /\ Failed.kind = "failed" /\ TimedOut.kind = "timeout"
  /\ \A k, d : Resolved(k, d).kind = k /\ Resolved(k, d).from = d
  /\ Pending # Failed /\ Pending # TimedOut /\ Failed # TimedOut
  BY DEF Pending, Failed, TimedOut, Resolved

LEMMA OutcomesAreTyped ==
  /\ Pending \in Outcomes /\ Failed \in Outcomes /\ TimedOut \in Outcomes
  /\ \A k \in {"committed", "replayed"}, d \in Calls : Resolved(k, d) \in Outcomes
  BY DEF Outcomes, Pending, Failed, TimedOut, Resolved

\* A section that enters the queue is its last.
LEMMA EnteringEffect ==
  ASSUME tasks \in Seq(Task), NEW c \in Calls, NEW k \in {"init", "commit", "marker"},
         Entering(c, k)
  PROVE  /\ tasks' \in Seq(Task)
         /\ Len(tasks') = Len(tasks) + 1
         /\ \A i \in 1..Len(tasks) : tasks'[i] = tasks[i]
         /\ tasks'[Len(tasks) + 1] = [call |-> c, kind |-> k]
         /\ tasks # <<>> => Head(tasks') = Head(tasks)
         /\ tasks' # <<>>
  <1>1. [call |-> c, kind |-> k] \in Task
    BY DEF Task
  <1> QED
    BY <1>1, AppendProperties, HeadTailAppend DEF Entering

LEMMA TasksTyped ==
  ASSUME tasks \in Seq(Task)
  PROVE  \A i \in 1..Len(tasks) :
           tasks[i] \in Task /\ tasks[i].call \in Calls
             /\ tasks[i].kind \in {"init", "commit", "marker"}
  <1>1. \A i \in 1..Len(tasks) : tasks[i] \in Task
    BY ElementOfSeq
  <1> QED
    BY <1>1 DEF Task

\* The section that ends is the first.
LEMMA EndsEffect ==
  ASSUME tasks \in Seq(Task), tasks # <<>>, NEW rest, rest = Tail(tasks)
  PROVE  /\ rest \in Seq(Task)
         /\ Len(tasks) \in Nat /\ Len(tasks) > 0
         /\ Len(rest) = Len(tasks) - 1
         /\ \A i \in 1..Len(rest) : i + 1 \in 1..Len(tasks) /\ rest[i] = tasks[i + 1]
         /\ Head(tasks) = tasks[1] /\ 1 \in 1..Len(tasks)
         /\ Head(tasks) \in Task
  <1>1. Len(tasks) \in Nat /\ Len(tasks) > 0
    BY EmptySeq, LenProperties
  <1> QED
    BY <1>1, HeadTailProperties

\* The section of c that runs is the head of the queue.
LEMMA RunningIsFirst ==
  ASSUME tasks \in Seq(Task), NEW c \in Calls, NEW k, IsRunning(c, k)
  PROVE  /\ tasks # <<>> /\ Len(tasks) \in Nat /\ Len(tasks) > 0 /\ 1 \in 1..Len(tasks)
         /\ Head(tasks) = tasks[1] /\ tasks[1].call = c /\ tasks[1].kind = k
  BY EndsEffect DEF IsRunning

\* Keeping the end of a sequence of requestIds.
LEMMA KeptTyped ==
  ASSUME NEW s \in Seq(Requests)
  PROVE  /\ Kept(s) \in Seq(Requests)
         /\ Len(Kept(s)) = IF Len(s) > DedupLimit THEN DedupLimit ELSE Len(s)
         /\ \A i \in 1..Len(Kept(s)) : Kept(s)[i] = s[Len(s) - Len(Kept(s)) + i]
         /\ Evicted(s) \subseteq Requests
  <1>1. PICK n \in Nat : n = Len(s) /\ s \in [1..n -> Requests]
    BY LenProperties
  <1>2. CASE n > DedupLimit
    <2>1. PICK m \in Int : m = n - DedupLimit + 1 /\ 1 <= m /\ m <= n
      BY <1>2, DedupLimitAssumption
    <2>2. Kept(s) = SubSeq(s, m, n)
      BY <1>1, <1>2, <2>1 DEF Kept
    <2>3. \A i \in m..n : s[i] \in Requests
      BY <1>1, <2>1
    <2>4. /\ SubSeq(s, m, n) \in Seq(Requests)
          /\ Len(SubSeq(s, m, n)) = n - m + 1
          /\ \A i \in 1..(n - m + 1) : SubSeq(s, m, n)[i] = s[m + i - 1]
      BY <2>1, <2>3, SubSeqProperties
    <2>5. Len(Kept(s)) = DedupLimit
      BY <2>1, <2>2, <2>4, DedupLimitAssumption
    <2>6. \A i \in 1..DedupLimit : Kept(s)[i] = s[n - DedupLimit + i]
      BY <2>1, <2>2, <2>4, DedupLimitAssumption
    <2>7. Evicted(s) \subseteq Requests
      BY <1>1, <2>5, DedupLimitAssumption DEF Evicted
    <2> QED
      BY <1>1, <1>2, <2>2, <2>4, <2>5, <2>6, <2>7
  <1>3. CASE ~(n > DedupLimit)
    BY <1>1, <1>3 DEF Kept, Evicted
  <1> QED
    BY <1>2, <1>3

LEMMA TypeInductive ==
  ASSUME TypeOK, TaskInv, TurnInv, [Next]_vars
  PROVE  TypeOK'
  <1> USE OutcomesAreTyped
  <1>0. CASE UNCHANGED vars
    BY <1>0 DEF vars, others, storage, TypeOK
  <1>1. ASSUME NEW c \in Calls, NEW r \in Requests, NEW k \in Commands, Join(c, r, k)
        PROVE  TypeOK'
    BY <1>1 DEF Join, Goes, storage, TypeOK, Phases
  <1>2. ASSUME NEW c \in Calls, Start(c)
        PROVE  TypeOK'
    BY <1>2 DEF Start, Goes, Runs, others, storage, TypeOK, Phases, Bodies
  <1>3. ASSUME NEW c \in Calls, Expire(c)
        PROVE  TypeOK'
    <2>1. tasks' \in Seq(Task)
      BY <1>3, EnteringEffect DEF Expire, TypeOK
    <2> QED
      BY <1>3, <2>1 DEF Expire, Goes, others, storage, TypeOK, Phases
  <1>4. ASSUME NEW c \in Calls, Body(c)
        PROVE  TypeOK'
    <2>1. tasks' \in Seq(Task)
      BY <1>4, EnteringEffect
         DEF Body, Look, Create, Replay, Receive, BodyFails, Return, TypeOK
    <2>2. phase' \in [Calls -> Phases] /\ body' \in [Calls -> Bodies]
      BY <1>4 DEF Body, Look, Create, Replay, Receive, BodyFails, Return, Settles, Leave, Goes,
                  Runs, TypeOK, Phases, Bodies
    <2>3. outcome' \in [Calls -> Outcomes]
      <3>1. ASSUME Replay(c) PROVE outcome' \in [Calls -> Outcomes]
        <4>1. PICK d \in dedup :
                Settles(c, IF d.command = command[c] THEN Resolved("replayed", d.result) ELSE Failed)
          BY <3>1 DEF Replay
        <4>2. d.result \in Calls
          BY DEF TypeOK, Results
        <4>3. (IF d.command = command[c] THEN Resolved("replayed", d.result) ELSE Failed) \in Outcomes
          BY <4>2
        <4> QED
          BY <4>1, <4>3 DEF Settles, Leave, TypeOK
      <3> QED
        BY <1>4, <3>1 DEF Body, Look, Create, Receive, BodyFails, Return, Settles, Leave, TypeOK
    <2>4. working' \in [Calls -> Seq(Calls)]
      BY <1>4 DEF Body, Look, Create, Replay, Receive, BodyFails, Return, Settles, TypeOK
    <2>5. UNCHANGED <<others, at, storage>>
      BY <1>4 DEF Body, Look, Create, Replay, Receive, BodyFails, Return, Settles
    <2> QED
      BY <2>1, <2>2, <2>3, <2>4, <2>5 DEF others, storage, TypeOK
  <1>5. ASSUME NEW c \in Calls, NEW k, Reads(c, k)
        PROVE  TypeOK'
    BY <1>5 DEF Reads, others, storage, TypeOK
  <1>6. ASSUME NEW c \in Calls, Publish(c)
        PROVE  TypeOK'
    <2>1. tasks' \in Seq(Task) /\ at' = "waiting"
      BY <1>6, RunningIsFirst, EndsEffect DEF Publish, Loaded, Ends, TypeOK
    <2>2. body' \in [Calls -> Bodies]
      BY <1>6 DEF Publish, Loaded, Runs, TypeOK, Bodies
    <2>3. <<>> \in Seq(Calls)
      OBVIOUS
    <2>4. working' \in [Calls -> Seq(Calls)] /\ state' \in Seq(Calls) /\ exists' \in BOOLEAN
      BY <1>6, <2>3 DEF Publish, storage, TypeOK
    <2>5. UNCHANGED <<phase, others, outcome, seq, order, dedup, events, applied>>
      BY <1>6 DEF Publish, Loaded, storage
    <2> QED
      BY <2>1, <2>2, <2>4, <2>5 DEF others, TypeOK
  <1>7. ASSUME NEW c \in Calls, Refuse(c)
        PROVE  TypeOK'
    <2>1. [call |-> c, kind |-> "marker"] \in Task
      BY DEF Task
    <2>2. tasks' \in Seq(Task)
      BY <1>7, <2>1, RunningIsFirst, EndsEffect, AppendProperties DEF Refuse, TypeOK
    <2> QED
      BY <1>7, <2>2 DEF Refuse, Goes, others, storage, TypeOK, Phases
  <1>8. ASSUME NEW c \in Calls, NEW k \in {"event", "timeout"}, NEW n \in Nat, PutEvents(c, k, n)
        PROVE  \A i \in DOMAIN events' : i \in Nat /\ events'[i] \in Entry
    <2>1. \A i \in seq .. seq + n - 1 : i \in Nat
      BY DEF TypeOK
    <2>2. [call |-> c, kind |-> k] \in Entry
      BY DEF Entry
    <2> QED
      BY <1>8, <2>1, <2>2 DEF PutEvents, TypeOK
  <1>9. ASSUME NEW c \in Calls, Commit(c)
        PROVE  TypeOK'
    <2>0. request[c] \in Requests /\ command[c] \in Commands
      <3>1. IsRunning(c, "commit")
        BY <1>9 DEF Commit
      <3>2. tasks \in Seq(Task)
        BY DEF TypeOK
      <3>3. 1 \in 1..Len(tasks) /\ tasks[1].call = c /\ tasks[1].kind = "commit"
        BY <3>1, <3>2, RunningIsFirst
      <3>4. phase[c] = "committing"
        BY <3>3 DEF TaskInv
      <3> QED
        BY <3>4 DEF TurnInv
    <2>1. EventsOf[c] \in Nat
      BY EventsOfAssumption
    <2>2. \A i \in DOMAIN events' : i \in Nat /\ events'[i] \in Entry
      BY <1>8, <1>9, <2>1 DEF Commit
    <2>3. state' \in Seq(Calls) /\ applied' \in Seq(Calls) /\ seq' \in Nat /\ at' = "written"
      BY <1>9, <2>1 DEF Commit, TypeOK
    <2>4. Append(order, request[c]) \in Seq(Requests)
      BY <2>0 DEF TypeOK
    <2>5. order' \in Seq(Requests) /\ evicted' \subseteq Requests
      BY <1>9, <2>4, KeptTyped DEF Commit
    <2>6. dedup' \subseteq Results
      BY <1>9, <2>0 DEF Commit, TypeOK, Results
    <2> QED
      BY <1>9, <2>2, <2>3, <2>5, <2>6 DEF Commit, TypeOK
  <1>10. ASSUME NEW c \in Calls, Evict(c)
         PROVE  TypeOK'
    <2>1. tasks' \in Seq(Task) /\ at' = "waiting"
      BY <1>10, RunningIsFirst, EndsEffect DEF Evict, Ends, TypeOK
    <2> QED
      BY <1>10, <2>1 DEF Evict, Leave, Goes, TypeOK, Phases
  <1>11. ASSUME NEW c \in Calls, Mark(c)
         PROVE  TypeOK'
    <2>1. tasks' \in Seq(Task) /\ at' = "waiting"
      BY <1>11, RunningIsFirst, EndsEffect DEF Mark, Ends, TypeOK
    <2>2. seq' \in Nat /\ \A i \in DOMAIN events' : i \in Nat /\ events'[i] \in Entry
      BY <1>8, <1>11 DEF Mark, TypeOK
    <2> QED
      BY <1>11, <2>1, <2>2 DEF Mark, Leave, Goes, others, TypeOK, Phases
  <1>12. ASSUME NEW c \in Calls, SectionFails(c)
         PROVE  TypeOK'
    <2>1. tasks' \in Seq(Task) /\ at' = "waiting"
      BY <1>12, RunningIsFirst, EndsEffect DEF SectionFails, Ends, TypeOK
    <2>2. phase' \in [Calls -> Phases] /\ body' \in [Calls -> Bodies] /\ outcome' \in [Calls -> Outcomes]
      <3>1. CASE Settles(c, Failed)
        BY <3>1 DEF Settles, Leave, Goes, Runs, TypeOK, Phases, Bodies
      <3>2. CASE UNCHANGED body /\ (Leave(c, Failed) \/ Leave(c, TimedOut))
        BY <3>2 DEF Leave, Goes, TypeOK, Phases
      <3> QED
        BY <1>12, <3>1, <3>2 DEF SectionFails
    <2> QED
      BY <1>12, <2>1, <2>2 DEF SectionFails, others, storage, TypeOK
  <1>13. CASE Restart
    <2>1. phase' \in [Calls -> Phases] /\ body' \in [Calls -> Bodies]
      BY <1>13 DEF Restart, TypeOK, Phases, Bodies
    <2> QED
      BY <1>13, <2>1 DEF Restart, storage, TypeOK
  <1> QED
    BY <1>0, <1>1, <1>2, <1>3, <1>4, <1>5, <1>6, <1>7, <1>9, <1>10, <1>11, <1>12, <1>13
       DEF Next, Section

-----------------------------------------------------------------------------
(* Who is in the queue, and what turns have been told. *)

\* A step in which no section ends, and none begins but at the end of the queue.
LEMMA TasksStay ==
  ASSUME TaskInv, tasks' = tasks, at' \in {at, "read"},
         \A c \in Calls : /\ body[c] = "publishing" => body'[c] = "publishing"
                          /\ phase[c] \in {"committing", "marking"} => phase'[c] = phase[c],
         tasks \in Seq(Task)
  PROVE  TaskInv'
  <1>1. \A i \in 1..Len(tasks) : tasks[i].call \in Calls
    BY TasksTyped
  <1> QED
    BY <1>1 DEF TaskInv

\* A frame that awaits no section enters one.
LEMMA TasksEnter ==
  ASSUME TaskInv, tasks \in Seq(Task), NEW c \in Calls, NEW k \in {"init", "commit", "marker"},
         Entering(c, k), at' = at,
         \A d \in Calls : d # c => phase'[d] = phase[d] /\ body'[d] = body[d],
         k = "init" => /\ body[c] # "publishing" /\ body'[c] = "publishing"
                       /\ phase'[c] = phase[c],
         k # "init" => /\ phase[c] \notin {"committing", "marking"}
                       /\ body[c] = "publishing" => body'[c] = "publishing",
         k = "commit" => phase'[c] = "committing",
         k = "marker" => phase'[c] = "marking"
  PROVE  TaskInv'
  <1> DEFINE t == [call |-> c, kind |-> k]
  <1>1. PICK n \in Nat : n = Len(tasks)
    BY LenProperties
  <1>2. /\ tasks' \in Seq(Task) /\ Len(tasks') = n + 1 /\ tasks'[n + 1] = t
        /\ \A i \in 1..n : tasks'[i] = tasks[i]
        /\ tasks # <<>> => Head(tasks') = Head(tasks)
        /\ tasks' # <<>>
    BY <1>1, EnteringEffect
  <1>3. \A i \in 1..n : tasks[i].call \in Calls
    BY <1>1, TasksTyped
  <1>4. t.call = c /\ t.kind = k
    OBVIOUS
  <1> HIDE DEF t
  <1>5. \A i \in 1..n : tasks[i] # t
    <2> SUFFICES ASSUME NEW i \in 1..n, tasks[i] = t PROVE FALSE
      OBVIOUS
    <2> QED
      BY <1>1, <1>4 DEF TaskInv
  <1>6. \A i, j \in 1..(n + 1) : tasks'[i] = tasks'[j] => i = j
    BY <1>1, <1>2, <1>5 DEF TaskInv
  <1>7. \A i \in 1..(n + 1) :
          /\ tasks'[i].kind = "init" => body'[tasks'[i].call] = "publishing"
          /\ tasks'[i].kind = "commit" => phase'[tasks'[i].call] = "committing"
          /\ tasks'[i].kind = "marker" => phase'[tasks'[i].call] = "marking"
    <2>1. ASSUME NEW i \in 1..n
          PROVE  /\ tasks[i].kind = "init" => body'[tasks[i].call] = "publishing"
                 /\ tasks[i].kind = "commit" => phase'[tasks[i].call] = "committing"
                 /\ tasks[i].kind = "marker" => phase'[tasks[i].call] = "marking"
      BY <1>1, <1>3 DEF TaskInv
    <2>2. /\ t.kind = "init" => body'[t.call] = "publishing"
          /\ t.kind = "commit" => phase'[t.call] = "committing"
          /\ t.kind = "marker" => phase'[t.call] = "marking"
      BY <1>4
    <2> QED
      BY <1>2, <2>1, <2>2
  <1> QED
    BY <1>2, <1>6, <1>7 DEF TaskInv

\* What TaskInv says of a queue of sections.
Queue(s) ==
  /\ \A i, j \in 1..Len(s) : s[i] = s[j] => i = j
  /\ \A i \in 1..Len(s) :
       /\ s[i].kind = "init" => body[s[i].call] = "publishing"
       /\ s[i].kind = "commit" => phase[s[i].call] = "committing"
       /\ s[i].kind = "marker" => phase[s[i].call] = "marking"

\* The section of c is not in it.
Others(s, c, k) == \A i \in 1..Len(s) : s[i] \in Task /\ (s[i].call # c \/ s[i].kind # k)

\* What follows the section that runs is awaited, and is not that section again.
LEMMA RestOfTasks ==
  ASSUME TaskInv, tasks \in Seq(Task), NEW c \in Calls, NEW k, IsRunning(c, k),
         NEW rest, rest = Tail(tasks)
  PROVE  rest \in Seq(Task) /\ Len(rest) \in Nat /\ Queue(rest) /\ Others(rest, c, k)
  <1>1. PICK n \in Nat : n = Len(tasks)
    BY LenProperties
  <1>2. /\ Len(rest) = n - 1 /\ rest \in Seq(Task) /\ n - 1 \in Nat
        /\ \A i \in 1..(n - 1) : i + 1 \in 1..n /\ rest[i] = tasks[i + 1]
    BY <1>1, RunningIsFirst, EndsEffect
  <1>3. 1 \in 1..n /\ tasks[1].call = c /\ tasks[1].kind = k
    BY <1>1, RunningIsFirst
  <1>4. \A i \in 1..n : tasks[i] \in Task
    BY <1>1, ElementOfSeq
  <1>5. ASSUME NEW i \in 1..(n - 1), NEW j \in 1..(n - 1), rest[i] = rest[j]
        PROVE  i = j
    <2>1. i + 1 = j + 1
      BY <1>1, <1>2, <1>5 DEF TaskInv
    <2> QED
      BY <2>1
  <1>6. ASSUME NEW i \in 1..n, i # 1
        PROVE  tasks[i].call # c \/ tasks[i].kind # k
    <2>1. tasks[i] # tasks[1]
      BY <1>1, <1>3, <1>6 DEF TaskInv
    <2>2. \A t, u \in Task : t.call = u.call /\ t.kind = u.kind => t = u
      BY DEF Task
    <2> QED
      BY <1>3, <1>4, <2>1, <2>2
  <1>7. \A i \in 1..(n - 1) : i + 1 # 1
    OBVIOUS
  <1>8. \A i \in 1..(n - 1) :
          /\ rest[i] \in Task /\ (rest[i].call # c \/ rest[i].kind # k)
          /\ rest[i].kind = "init" => body[rest[i].call] = "publishing"
          /\ rest[i].kind = "commit" => phase[rest[i].call] = "committing"
          /\ rest[i].kind = "marker" => phase[rest[i].call] = "marking"
    BY <1>1, <1>2, <1>4, <1>6, <1>7 DEF TaskInv
  <1> QED
    BY <1>2, <1>5, <1>8 DEF Queue, Others

\* The first section ends, and only its call goes on.
LEMMA TasksEnd ==
  ASSUME TaskInv, tasks \in Seq(Task), NEW c \in Calls, NEW k, IsRunning(c, k), Ends,
         \A d \in Calls : d # c => phase'[d] = phase[d] /\ body'[d] = body[d],
         k = "init" => (phase[c] \in {"committing", "marking"} => phase'[c] = phase[c]),
         k # "init" => body'[c] = body[c]
  PROVE  TaskInv'
  <1>1. k \in {"init", "commit", "marker"}
    <2>1. Head(tasks) \in Task
      BY RunningIsFirst, EndsEffect
    <2> QED
      BY <2>1 DEF IsRunning, Task
  <1>2. /\ k = "commit" => phase[c] = "committing"
        /\ k = "marker" => phase[c] = "marking"
    BY RunningIsFirst DEF TaskInv
  <1> PICK rest : rest = Tail(tasks)
    OBVIOUS
  <1>3. /\ Len(rest) \in Nat
        /\ \A i, j \in 1..Len(rest) : rest[i] = rest[j] => i = j
        /\ \A i \in 1..Len(rest) :
              /\ rest[i] \in Task /\ (rest[i].call # c \/ rest[i].kind # k)
              /\ rest[i].kind = "init" => body[rest[i].call] = "publishing"
              /\ rest[i].kind = "commit" => phase[rest[i].call] = "committing"
              /\ rest[i].kind = "marker" => phase[rest[i].call] = "marking"
    <2>1. rest \in Seq(Task) /\ Len(rest) \in Nat /\ Queue(rest) /\ Others(rest, c, k)
      BY RestOfTasks, Zenon
    <2> QED
      BY <2>1 DEF Queue, Others
  <1>4. tasks' = rest /\ at' = "waiting"
    BY DEF Ends
  <1>5. ASSUME NEW i \in 1..Len(rest)
        PROVE  /\ rest[i].kind = "init" => body'[rest[i].call] = "publishing"
               /\ rest[i].kind = "commit" => phase'[rest[i].call] = "committing"
               /\ rest[i].kind = "marker" => phase'[rest[i].call] = "marking"
    <2>1. rest[i].call \in Calls
      BY <1>3 DEF Task
    <2>2. CASE rest[i].call # c
      BY <1>3, <2>1, <2>2
    <2>3. CASE rest[i].call = c
      BY <1>1, <1>2, <1>3, <2>3
    <2> QED
      BY <2>2, <2>3
  <1> QED
    BY <1>3, <1>4, <1>5 DEF TaskInv

\* A section that was refused is replaced by the marker of its turn.
LEMMA TasksRefuse ==
  ASSUME TaskInv, tasks \in Seq(Task), NEW c \in Calls, IsRunning(c, "commit"), at' # "written",
         tasks' = Append(Tail(tasks), [call |-> c, kind |-> "marker"]), body' = body,
         \A d \in Calls : phase'[d] = IF d = c THEN "marking" ELSE phase[d]
  PROVE  TaskInv'
  <1> PICK rest : rest = Tail(tasks)
    OBVIOUS
  <1> DEFINE t == [call |-> c, kind |-> "marker"]
  <1>1. PICK n \in Nat : n = Len(rest)
    BY RestOfTasks
  <1>2. /\ rest \in Seq(Task)
        /\ \A i, j \in 1..n : rest[i] = rest[j] => i = j
        /\ \A i \in 1..n :
              /\ rest[i] \in Task /\ (rest[i].call # c \/ rest[i].kind # "commit")
              /\ rest[i].kind = "init" => body[rest[i].call] = "publishing"
              /\ rest[i].kind = "commit" => phase[rest[i].call] = "committing"
              /\ rest[i].kind = "marker" => phase[rest[i].call] = "marking"
    <2>1. rest \in Seq(Task) /\ Len(rest) \in Nat /\ Queue(rest) /\ Others(rest, c, "commit")
      BY RestOfTasks, Zenon
    <2> QED
      BY <1>1, <2>1 DEF Queue, Others
  <1>3. t \in Task /\ t.call = c /\ t.kind = "marker"
    BY DEF Task
  <1>4. phase[c] = "committing"
    BY RunningIsFirst DEF TaskInv
  <1> HIDE DEF t
  <1>5. /\ Len(tasks') = n + 1 /\ tasks'[n + 1] = t
        /\ \A i \in 1..n : tasks'[i] = rest[i]
    BY <1>1, <1>2, <1>3, AppendProperties DEF t
  <1>6. \A i \in 1..n : rest[i] # t
    BY <1>2, <1>3, <1>4
  <1>7. \A i, j \in 1..(n + 1) : tasks'[i] = tasks'[j] => i = j
    <2>1. \A i \in 1..(n + 1) : i \in 1..n \/ i = n + 1
      BY <1>1
    <2> QED
      BY <1>2, <1>5, <1>6, <2>1
  <1>8. ASSUME NEW i \in 1..n
        PROVE  /\ rest[i].kind = "init" => body'[rest[i].call] = "publishing"
               /\ rest[i].kind = "commit" => phase'[rest[i].call] = "committing"
               /\ rest[i].kind = "marker" => phase'[rest[i].call] = "marking"
    <2>1. rest[i].call \in Calls
      BY <1>2 DEF Task
    <2> QED
      BY <1>2, <1>4, <2>1
  <1>9. t.kind = "marker" /\ phase'[t.call] = "marking"
    BY <1>3
  <1>10. \A i \in 1..(n + 1) :
          /\ tasks'[i].kind = "init" => body'[tasks'[i].call] = "publishing"
          /\ tasks'[i].kind = "commit" => phase'[tasks'[i].call] = "committing"
          /\ tasks'[i].kind = "marker" => phase'[tasks'[i].call] = "marking"
    <2>1. \A i \in 1..(n + 1) : i \in 1..n \/ i = n + 1
      BY <1>1
    <2> QED
      BY <1>5, <1>8, <1>9, <2>1
  <1> QED
    BY <1>5, <1>7, <1>10 DEF TaskInv

\* The head of the queue is a section its call awaits.
LEMMA HeadAwaited ==
  ASSUME TypeOK, TaskInv, NEW c \in Calls, NEW k, IsRunning(c, k)
  PROVE  /\ k = "init" => body[c] = "publishing"
         /\ k = "commit" => phase[c] = "committing"
         /\ k = "marker" => phase[c] = "marking"
         /\ at = "written" => k = "commit"
  BY RunningIsFirst DEF TaskInv, TypeOK

LEMMA TaskInductive ==
  ASSUME TypeOK, TaskInv, TurnInv, [Next]_vars
  PROVE  TaskInv'
  <1>0. tasks \in Seq(Task) /\ \A c \in Calls : phase[c] \in Phases /\ body[c] \in Bodies
    BY DEF TypeOK
  <1>1. CASE UNCHANGED vars
    BY <1>0, <1>1, TasksStay DEF vars
  <1>2. ASSUME NEW c \in Calls, NEW r \in Requests, NEW k \in Commands, Join(c, r, k)
        PROVE  TaskInv'
    <2>1. \A d \in Calls : phase[d] \in {"committing", "marking"} => phase'[d] = phase[d]
      BY <1>2 DEF Join, Goes, TypeOK
    <2> QED
      BY <1>0, <1>2, <2>1, TasksStay DEF Join
  <1>3. ASSUME NEW c \in Calls, Start(c)
        PROVE  TaskInv'
    <2>1. body[c] = "none"
      BY <1>3 DEF Start, TurnInv
    <2>2. \A d \in Calls : phase[d] \in {"committing", "marking"} => phase'[d] = phase[d]
      BY <1>3 DEF Start, Goes, TypeOK
    <2>3. \A d \in Calls : body[d] = "publishing" => body'[d] = body[d]
      BY <1>3, <2>1 DEF Start, Runs, TypeOK
    <2> QED
      BY <1>0, <1>3, <2>2, <2>3, TasksStay DEF Start
  <1>4. ASSUME NEW c \in Calls, Expire(c)
        PROVE  TaskInv'
    <2>1. /\ \A d \in Calls : d # c => phase'[d] = phase[d]
          /\ phase'[c] = "marking" /\ phase[c] = "running"
          /\ Entering(c, "marker") /\ UNCHANGED <<body, at>>
      BY <1>4 DEF Expire, Goes, TypeOK
    <2> QED
      BY <1>0, <2>1, TasksEnter
  <1>5. ASSUME NEW c \in Calls, Look(c) \/ Receive(c)
        PROVE  TaskInv'
    <2>1. \A d \in Calls : body[d] = "publishing" => body'[d] = body[d]
      BY <1>5 DEF Look, Receive, Runs, TypeOK
    <2>2. UNCHANGED <<phase, tasks, at>>
      BY <1>5 DEF Look, Receive
    <2> QED
      BY <1>0, <2>1, <2>2, TasksStay
  <1>6. ASSUME NEW c \in Calls, Create(c)
        PROVE  TaskInv'
    <2>1. /\ \A d \in Calls : d # c => body'[d] = body[d]
          /\ body[c] = "creating" /\ body'[c] = "publishing"
          /\ UNCHANGED <<phase, at>> /\ Entering(c, "init")
      BY <1>6 DEF Create, Runs, TypeOK
    <2> QED
      BY <1>0, <2>1, TasksEnter
  <1>7. ASSUME NEW c \in Calls, NEW o, Settles(c, o), body[c] # "publishing", UNCHANGED <<tasks, at>>
        PROVE  TaskInv'
    <2>1. \A d \in Calls :
            /\ body[d] = "publishing" => body'[d] = body[d]
            /\ phase[d] \in {"committing", "marking"} => phase'[d] = phase[d]
      BY <1>7 DEF Settles, Leave, Goes, Runs, TypeOK
    <2> QED
      BY <1>0, <1>7, <2>1, TasksStay
  <1>8. ASSUME NEW c \in Calls, Return(c)
        PROVE  TaskInv'
    <2>0. /\ \A d \in Calls : body[d] = "publishing" => body'[d] = body[d]
          /\ at' = at
      BY <1>8 DEF Return, Runs, TypeOK
    <2>1. CASE phase[c] = "running"
      <3>1. /\ \A d \in Calls : d # c => phase'[d] = phase[d]
            /\ phase'[c] = "committing" /\ Entering(c, "commit")
        BY <1>8, <2>1 DEF Return, Goes, TypeOK
      <3>2. \A d \in Calls : d # c => body'[d] = body[d]
        BY <1>8 DEF Return, Runs, TypeOK
      <3> QED
        BY <1>0, <2>0, <2>1, <3>1, <3>2, TasksEnter
    <2>2. CASE phase[c] # "running"
      <3>1. UNCHANGED <<phase, tasks>>
        BY <1>8, <2>2 DEF Return
      <3> QED
        BY <1>0, <2>0, <3>1, TasksStay
    <2> QED
      BY <2>1, <2>2
  <1>9. ASSUME NEW c \in Calls, NEW k, Reads(c, k)
        PROVE  TaskInv'
    BY <1>0, <1>9, TasksStay DEF Reads
  <1>10. ASSUME NEW c \in Calls, Publish(c)
         PROVE  TaskInv'
    <2>1. /\ \A d \in Calls : d # c => body'[d] = body[d]
          /\ phase' = phase /\ Ends /\ IsRunning(c, "init")
      BY <1>10 DEF Publish, Loaded, Runs, TypeOK
    <2> QED
      BY <1>0, <2>1, TasksEnd
  <1>11. ASSUME NEW c \in Calls, Refuse(c)
         PROVE  TaskInv'
    <2>1. /\ \A d \in Calls : phase'[d] = IF d = c THEN "marking" ELSE phase[d]
          /\ IsRunning(c, "commit") /\ at' # "written" /\ body' = body
          /\ tasks' = Append(Tail(tasks), [call |-> c, kind |-> "marker"])
      BY <1>11 DEF Refuse, Goes, TypeOK, others
    <2> QED
      BY <1>0, <2>1, TasksRefuse
  <1>12. ASSUME NEW c \in Calls, Commit(c)
         PROVE  TaskInv'
    <2>1. IsRunning(c, "commit") /\ UNCHANGED <<tasks, phase, body>> /\ at' = "written"
      BY <1>12 DEF Commit
    <2>2. Head(tasks) = [call |-> c, kind |-> "commit"] /\ tasks # <<>>
      BY <2>1 DEF IsRunning
    <2> QED
      BY <2>1, <2>2 DEF TaskInv
  <1>13. ASSUME NEW c \in Calls, NEW k \in {"commit", "marker"}, IsRunning(c, k), Ends, NEW o,
                Leave(c, o), UNCHANGED body
         PROVE  TaskInv'
    <2>1. \A d \in Calls : d # c => phase'[d] = phase[d]
      BY <1>13 DEF Leave, Goes, TypeOK
    <2> QED
      BY <1>0, <1>13, <2>1, TasksEnd
  <1>14. ASSUME NEW c \in Calls, SectionFails(c)
         PROVE  TaskInv'
    <2>1. CASE IsRunning(c, "init") /\ Settles(c, Failed)
      <3>1. \A d \in Calls :
              /\ d # c => phase'[d] = phase[d] /\ body'[d] = body[d]
              /\ phase[d] \in {"committing", "marking"} => phase'[d] = phase[d]
        BY <2>1 DEF Settles, Leave, Goes, Runs, TypeOK
      <3>2. Ends
        BY <1>14 DEF SectionFails
      <3> QED
        BY <1>0, <2>1, <3>1, <3>2, TasksEnd
    <2> QED
      BY <1>13, <1>14, <2>1 DEF SectionFails
  <1>15. CASE Restart
    <2>1. tasks' = <<>> /\ at' = "waiting"
      BY <1>15 DEF Restart
    <2>2. Len(tasks') = 0
      BY <2>1
    <2> QED
      BY <2>1, <2>2 DEF TaskInv
  <1>16. ASSUME NEW c \in Calls, Body(c)
         PROVE  TaskInv'
    <2>1. CASE Replay(c)
      BY <1>7, <2>1 DEF Replay
    <2>2. CASE BodyFails(c)
      BY <1>7, <2>2 DEF BodyFails
    <2> QED
      BY <1>5, <1>6, <1>8, <1>16, <2>1, <2>2 DEF Body
  <1>17. ASSUME NEW c \in Calls, Evict(c) \/ Mark(c)
         PROVE  TaskInv'
    BY <1>13, <1>17 DEF Evict, Mark, others
  <1> QED
    BY <1>1, <1>2, <1>3, <1>4, <1>9, <1>10, <1>11, <1>12, <1>14, <1>15, <1>16, <1>17
       DEF Next, Section

LEMMA TurnInductive ==
  ASSUME TypeOK, TaskInv, TurnInv, [Next]_vars
  PROVE  TurnInv'
  <1>1. ASSUME NEW c \in Calls, UNCHANGED <<request, command>>,
               \A d \in Calls : d # c => phase'[d] = phase[d] /\ body'[d] = body[d]
                                         /\ outcome'[d] = outcome[d],
               phase[c] # "idle", phase'[c] \notin {"idle", "queued"},
               \/ phase'[c] \in {"running", "committing"}
                  /\ outcome'[c] = outcome[c] /\ phase[c] \in {"queued", "running", "committing"}
               \/ phase'[c] = "marking" /\ outcome'[c] = TimedOut
               \/ phase'[c] = "done"
               \/ phase'[c] = phase[c] /\ outcome'[c] = outcome[c]
        PROVE  TurnInv'
    BY <1>1 DEF TurnInv
  <1>2. CASE UNCHANGED vars
    BY <1>2 DEF vars, others, TurnInv
  <1>3. ASSUME NEW c \in Calls, NEW r \in Requests, NEW k \in Commands, Join(c, r, k)
        PROVE  TurnInv'
    BY <1>3 DEF Join, Goes, storage, TypeOK, TurnInv
  <1>4. ASSUME NEW c \in Calls, Start(c) \/ Expire(c) \/ Refuse(c)
        PROVE  TurnInv'
    <2>1. /\ phase[c] \in {"queued", "running", "committing"}
          /\ UNCHANGED <<request, command>>
      BY <1>4, HeadAwaited DEF Start, Expire, Refuse, others
    <2>2. /\ \A d \in Calls : d # c => phase'[d] = phase[d] /\ body'[d] = body[d]
                                        /\ outcome'[d] = outcome[d]
          /\ \/ phase'[c] = "running" /\ outcome'[c] = outcome[c]
             \/ phase'[c] = "marking" /\ outcome'[c] = TimedOut
      BY <1>4 DEF Start, Expire, Refuse, Goes, Runs, TypeOK
    <2> QED
      BY <1>1, <2>1, <2>2
  <1>5. ASSUME NEW c \in Calls, NEW o, Settles(c, o), body[c] # "none"
        PROVE  TurnInv'
    <2>1. phase[c] \notin {"idle", "queued"} /\ UNCHANGED <<request, command>>
      BY <1>5 DEF TurnInv, Settles, others
    <2>2. /\ \A d \in Calls : d # c => phase'[d] = phase[d] /\ body'[d] = body[d]
                                        /\ outcome'[d] = outcome[d]
          /\ phase'[c] = "done" \/ (phase'[c] = phase[c] /\ outcome'[c] = outcome[c])
      <3>1. \A d \in Calls : d # c => body'[d] = body[d]
        BY <1>5 DEF Settles, Runs, TypeOK
      <3>2. CASE phase[c] = "running"
        BY <1>5, <3>1, <3>2 DEF Settles, Leave, Goes, TypeOK
      <3>3. CASE phase[c] # "running"
        BY <1>5, <3>1, <3>3 DEF Settles
      <3> QED
        BY <3>2, <3>3
    <2> QED
      BY <1>1, <2>1, <2>2
  <1>6. ASSUME NEW c \in Calls, Look(c) \/ Create(c) \/ Receive(c) \/ Return(c)
        PROVE  TurnInv'
    <2>1. /\ body[c] # "none" /\ UNCHANGED <<request, command>>
      BY <1>6 DEF Look, Create, Receive, Return, others
    <2>2. phase[c] \notin {"idle", "queued"}
      BY <2>1 DEF TurnInv
    <2>3. /\ \A d \in Calls : d # c => phase'[d] = phase[d] /\ body'[d] = body[d]
          /\ outcome' = outcome
          /\ phase'[c] = phase[c] \/ (phase'[c] = "committing" /\ phase[c] = "running")
      <3>1. CASE Look(c) \/ Create(c) \/ Receive(c)
        BY <3>1 DEF Look, Create, Receive, Runs, TypeOK
      <3>2. CASE Return(c)
        BY <3>2 DEF Return, Goes, Runs, TypeOK
      <3> QED
        BY <1>6, <3>1, <3>2
    <2> QED
      BY <1>1, <2>1, <2>2, <2>3
  <1>7. ASSUME NEW c \in Calls, NEW k, Reads(c, k) \/ Commit(c)
        PROVE  TurnInv'
    BY <1>7 DEF Reads, Commit, others, TurnInv
  <1>8. ASSUME NEW c \in Calls, Publish(c)
        PROVE  TurnInv'
    <2>1. body[c] = "publishing"
      BY <1>8, HeadAwaited DEF Publish
    <2>2. phase[c] \notin {"idle", "queued"}
      BY <2>1 DEF TurnInv
    <2>3. /\ \A d \in Calls : d # c => body'[d] = body[d]
          /\ UNCHANGED <<phase, outcome, request, command>>
      BY <1>8 DEF Publish, Loaded, Runs, others, TypeOK
    <2> QED
      BY <1>1, <2>2, <2>3
  <1>9. ASSUME NEW c \in Calls, NEW o, Leave(c, o), phase[c] \in {"committing", "marking"},
               UNCHANGED <<body, request, command>>
        PROVE  TurnInv'
    <2>1. /\ \A d \in Calls : d # c => phase'[d] = phase[d] /\ outcome'[d] = outcome[d]
          /\ phase'[c] = "done"
      BY <1>9 DEF Leave, Goes, TypeOK
    <2> QED
      BY <1>1, <1>9, <2>1
  <1>10. ASSUME NEW c \in Calls, Evict(c) \/ Mark(c)
         PROVE  TurnInv'
    BY <1>9, <1>10, HeadAwaited DEF Evict, Mark, others
  <1>11. ASSUME NEW c \in Calls, SectionFails(c)
         PROVE  TurnInv'
    <2>1. CASE IsRunning(c, "init") /\ Settles(c, Failed)
      BY <1>5, <2>1, HeadAwaited
    <2> QED
      BY <1>9, <1>11, <2>1, HeadAwaited DEF SectionFails, others
  <1>12. ASSUME NEW c \in Calls, Replay(c) \/ BodyFails(c)
         PROVE  TurnInv'
    BY <1>5, <1>12 DEF Replay, BodyFails
  <1>13. CASE Restart
    BY <1>13 DEF Restart, TurnInv, TypeOK
  <1> QED
    BY <1>2, <1>3, <1>4, <1>6, <1>7, <1>8, <1>10, <1>11, <1>12, <1>13 DEF Next, Body, Section

FrameOK == TypeOK /\ TaskInv /\ TurnInv

LEMMA InitialFrames ==
  ASSUME Init
  PROVE  FrameOK
  <1>1. <<>> \in Seq(Calls) /\ <<>> \in Seq(Task) /\ <<>> \in Seq(Requests) /\ Len(<<>>) = 0
    OBVIOUS
  <1>2. TypeOK
    BY <1>1, OutcomesAreTyped DEF Init, TypeOK, Phases, Bodies
  <1>3. TaskInv
    BY <1>1 DEF Init, TaskInv
  <1>4. TurnInv
    BY DEF Init, TurnInv
  <1> QED
    BY <1>2, <1>3, <1>4 DEF FrameOK

LEMMA FramesHold == Spec => []FrameOK
  <1>1. Init => FrameOK
    BY InitialFrames
  <1>2. FrameOK /\ [Next]_vars => FrameOK'
    BY TypeInductive, TaskInductive, TurnInductive DEF FrameOK
  <1> QED
    BY <1>1, <1>2, PTL DEF Spec

\* Type correctness.
THEOREM TypeCorrect == Spec => []TypeOK
  <1>1. FrameOK => TypeOK
    BY DEF FrameOK
  <1> QED
    BY <1>1, FramesHold, PTL

-----------------------------------------------------------------------------
(* The seat: the turns of the object in the order they joined. *)

\* A turn starts only at the head of the line, so one at most holds the seat.
LEMMA SeatIsExclusive ==
  ASSUME SeatInv, NEW c \in Calls, NEW d \in Calls, Holding(c), Holding(d)
  PROVE  c = d
  <1>1. PICK line \in Seq(Calls) : IsLine(line)
    BY DEF SeatInv
  <1>2. PICK i \in 1..Len(line), j \in 1..Len(line) : line[i] = c /\ line[j] = d
    BY <1>1 DEF IsLine, Live
  <1>3. ~(i \in 2..Len(line)) /\ ~(j \in 2..Len(line))
    BY <1>1, <1>2 DEF IsLine, Holding
  <1>4. Len(line) \in Nat
    BY LenProperties
  <1>5. i = 1 /\ j = 1
    BY <1>2, <1>3, <1>4
  <1> QED
    BY <1>2, <1>5

\* A step that leaves the line alone: only its first turn may change its phase, and
\* goes on holding the seat.
LEMMA LineStays ==
  ASSUME SeatInv, NEW c \in Calls, Live(c), Released(c), phase'[c] \in {"running", "committing", "marking"},
         \A d \in Calls : d # c => phase'[d] = phase[d],
         UNCHANGED <<previous, seatTail>>, previous[c] \in Calls \cup {NoCall}
  PROVE  SeatInv'
  <1>1. PICK line \in Seq(Calls) : IsLine(line)
    BY DEF SeatInv
  <1>2. PICK n \in Nat : n = Len(line)
    BY LenProperties
  <1>3. \A i \in 1..n : line[i] \in Calls
    BY <1>2, ElementOfSeq
  <1>4. PICK k \in 1..n : line[k] = c
    BY <1>1, <1>2 DEF IsLine
  <1>5. k = 1
    <2> SUFFICES ASSUME k # 1 PROVE FALSE
      OBVIOUS
    <2>1. k \in 2..n /\ k - 1 \in 1..n
      OBVIOUS
    <2>2. previous[c] = line[k - 1] /\ line[k - 1] \in Calls
      BY <1>1, <1>2, <1>3, <1>4, <2>1 DEF IsLine
    <2>3. Live(line[k - 1])
      BY <1>1, <1>2, <2>1, <2>2 DEF IsLine
    <2> QED
      BY <2>2, <2>3, NoCallAssumption DEF Released, Live, Holding
  <1>6. n > 0 /\ 1 \in 1..n
    BY <1>4
  <1>7. \A d \in Calls : Live(d)' <=> Live(d)
    BY DEF Live, Holding
  <1>8. \A i \in 2..n : i \in 1..n /\ line[i] # c
    BY <1>1, <1>2, <1>4, <1>5 DEF IsLine
  <1>9. \A i \in 2..n : previous'[line[i]] = line[i - 1] /\ phase'[line[i]] = "queued"
    BY <1>1, <1>2, <1>3, <1>8 DEF IsLine
  <1>10. Released(line[1])'
    <2>1. previous[c] # c
      BY NoCallAssumption DEF Released, Live, Holding
    <2> QED
      BY <1>4, <1>5, <2>1 DEF Released
  <1>11. IsLine(line)'
    BY <1>1, <1>2, <1>6, <1>7, <1>9, <1>10 DEF IsLine
  <1> QED
    BY <1>11 DEF SeatInv

\* Whoever holds the seat is the first of the line.
LEMMA HolderIsFirst ==
  ASSUME NEW line \in Seq(Calls), IsLine(line), NEW c \in Calls, Holding(c)
  PROVE  Len(line) > 0 /\ line[1] = c /\ Released(c)
  <1>1. PICK i \in 1..Len(line) : line[i] = c
    BY DEF IsLine, Live
  <1>2. ~(i \in 2..Len(line))
    BY <1>1 DEF IsLine, Holding
  <1>3. Len(line) \in Nat
    BY LenProperties
  <1> QED
    BY <1>1, <1>2, <1>3 DEF IsLine

\* The turn that holds the seat leaves it to the next of the line.
LEMMA LineAdvances ==
  ASSUME SeatInv, NEW c \in Calls, Holding(c), phase'[c] = "done",
         \A d \in Calls : d # c => phase'[d] = phase[d],
         UNCHANGED <<previous, seatTail>>
  PROVE  SeatInv'
  <1>1. PICK line \in Seq(Calls) : IsLine(line)
    BY DEF SeatInv
  <1>2. PICK n \in Nat : n = Len(line)
    BY LenProperties
  <1>3. n > 0 /\ line[1] = c /\ line # <<>>
    BY <1>1, <1>2, HolderIsFirst
  <1> DEFINE rest == Tail(line)
  <1>4. /\ rest \in Seq(Calls) /\ Len(rest) = n - 1 /\ n - 1 \in Nat
        /\ \A i \in 1..(n - 1) : i + 1 \in 1..n /\ rest[i] = line[i + 1]
    BY <1>2, <1>3, HeadTailProperties
  <1> HIDE DEF rest
  <1>5. \A i \in 1..n : line[i] \in Calls
    BY <1>2, ElementOfSeq
  <1>6. \A i \in 2..n : line[i] # c /\ i - 1 \in 1..(n - 1) /\ rest[i - 1] = line[i]
    <2> SUFFICES ASSUME NEW i \in 2..n
                 PROVE  line[i] # c /\ i - 1 \in 1..(n - 1) /\ rest[i - 1] = line[i]
      OBVIOUS
    <2>1. i \in 1..n /\ 1 \in 1..n /\ i # 1 /\ i - 1 \in 1..(n - 1) /\ (i - 1) + 1 = i
      BY <1>3
    <2>2. line[i] # line[1]
      BY <1>1, <1>2, <2>1 DEF IsLine
    <2> QED
      BY <1>3, <1>4, <2>1, <2>2
  <1>7. \A i, j \in 1..(n - 1) : rest[i] = rest[j] => i = j
    <2> SUFFICES ASSUME NEW i \in 1..(n - 1), NEW j \in 1..(n - 1), rest[i] = rest[j]
                 PROVE  i = j
      OBVIOUS
    <2>1. i + 1 = j + 1
      BY <1>1, <1>2, <1>4 DEF IsLine
    <2> QED
      BY <2>1
  <1>8. \A d \in Calls : Live(d)' <=> Live(d) /\ d # c
    BY DEF Live, Holding
  <1>9. \A d \in Calls : Live(d)' <=> \E i \in 1..(n - 1) : rest[i] = d
    <2> SUFFICES ASSUME NEW d \in Calls
                 PROVE  Live(d)' <=> \E i \in 1..(n - 1) : rest[i] = d
      OBVIOUS
    <2>1. ASSUME Live(d), d # c PROVE \E i \in 1..(n - 1) : rest[i] = d
      <3>1. PICK i \in 1..n : line[i] = d
        BY <1>1, <1>2, <2>1 DEF IsLine
      <3>2. i # 1
        BY <1>3, <2>1, <3>1
      <3>3. i \in 2..n
        BY <3>2
      <3> QED
        BY <1>6, <3>1, <3>3
    <2>2. ASSUME NEW i \in 1..(n - 1), rest[i] = d PROVE Live(d) /\ d # c
      <3>1. i + 1 \in 2..n /\ i + 1 \in 1..n /\ line[i + 1] = d
        BY <1>4, <2>2
      <3> QED
        BY <1>1, <1>2, <1>6, <3>1 DEF IsLine
    <2> QED
      BY <1>8, <2>1, <2>2
  <1>10. \A i \in 2..(n - 1) : previous'[rest[i]] = rest[i - 1] /\ phase'[rest[i]] = "queued"
    <2> SUFFICES ASSUME NEW i \in 2..(n - 1)
                 PROVE  previous'[rest[i]] = rest[i - 1] /\ phase'[rest[i]] = "queued"
      OBVIOUS
    <2>1. /\ i \in 1..(n - 1) /\ i - 1 \in 1..(n - 1) /\ (i - 1) + 1 = i
          /\ i + 1 \in 2..n /\ (i + 1) - 1 = i
      OBVIOUS
    <2>2. rest[i] = line[i + 1] /\ rest[i - 1] = line[i]
      BY <1>4, <2>1
    <2>3. previous[line[i + 1]] = line[i] /\ phase[line[i + 1]] = "queued"
      BY <1>1, <1>2, <2>1 DEF IsLine
    <2>4. line[i + 1] # c /\ line[i + 1] \in Calls
      BY <1>5, <1>6, <2>1
    <2> QED
      BY <2>2, <2>3, <2>4
  <1>11. ASSUME n - 1 > 0
         PROVE  Released(rest[1])' /\ seatTail' = rest[n - 1]
    <2>1. 2 \in 2..n /\ 1 \in 1..(n - 1) /\ n - 1 \in 1..(n - 1) /\ (n - 1) + 1 = n
      BY <1>11
    <2>2. previous[line[2]] = line[1] /\ rest[1] = line[2] /\ rest[n - 1] = line[n]
      BY <1>1, <1>2, <1>4, <2>1 DEF IsLine
    <2> QED
      BY <1>1, <1>2, <1>3, <2>2 DEF IsLine, Released
  <1>12. n - 1 = 0 => phase'[seatTail'] = "done"
    <2>1. seatTail = line[n]
      BY <1>1, <1>2, <1>3 DEF IsLine
    <2>2. n - 1 = 0 => n = 1
      <3>1. \A x \in Nat : x - 1 = 0 => x = 1
        OBVIOUS
      <3> QED
        BY <3>1
    <2>3. n - 1 = 0 => seatTail = c
      BY <1>3, <2>1, <2>2
    <2> QED
      BY <2>3
  <1>13. IsLine(rest)'
    <2>1. rest' = rest
      BY DEF rest
    <2> QED
      BY <1>4, <1>7, <1>9, <1>10, <1>11, <1>12 DEF IsLine
  <1> QED
    BY <1>4, <1>13 DEF SeatInv

\* A turn that joins is the last of the line.
LEMMA LineGrows ==
  ASSUME SeatInv, TypeOK, NEW c \in Calls, phase[c] = "idle", phase'[c] = "queued",
         \A d \in Calls : d # c => phase'[d] = phase[d] /\ previous'[d] = previous[d],
         previous'[c] = seatTail, seatTail' = c
  PROVE  SeatInv'
  <1>1. PICK line \in Seq(Calls) : IsLine(line)
    BY DEF SeatInv
  <1>2. PICK n \in Nat : n = Len(line)
    BY LenProperties
  <1> DEFINE more == Append(line, c)
  <1>3. /\ more \in Seq(Calls) /\ Len(more) = n + 1 /\ more[n + 1] = c
        /\ \A i \in 1..n : more[i] = line[i]
    BY <1>2, AppendProperties
  <1> HIDE DEF more
  <1>4. \A i \in 1..n : line[i] \in Calls /\ line[i] # c /\ Live(line[i])
    <2> SUFFICES ASSUME NEW i \in 1..n
                 PROVE  line[i] \in Calls /\ line[i] # c /\ Live(line[i])
      OBVIOUS
    <2>1. line[i] \in Calls
      BY <1>2, ElementOfSeq
    <2>2. Live(line[i])
      BY <1>1, <1>2, <2>1 DEF IsLine
    <2> QED
      BY <2>1, <2>2 DEF Live, Holding
  <1>5. \A d \in Calls : Live(d)' <=> Live(d) \/ d = c
    BY DEF Live, Holding
  <1>6. \A d \in Calls : Live(d)' <=> \E i \in 1..(n + 1) : more[i] = d
    <2>1. \A d \in Calls : Live(d) <=> \E i \in 1..n : line[i] = d
      BY <1>1, <1>2 DEF IsLine
    <2> QED
      BY <1>3, <1>5, <2>1
  <1>7. \A i, j \in 1..(n + 1) : more[i] = more[j] => i = j
    <2>1. \A i, j \in 1..n : line[i] = line[j] => i = j
      BY <1>1, <1>2 DEF IsLine
    <2> QED
      BY <1>3, <1>4, <2>1
  <1>8. CASE n = 0
    <2>1. seatTail = NoCall \/ phase[seatTail] = "done"
      BY <1>1, <1>2, <1>8 DEF IsLine
    <2>2. seatTail # c
      BY <2>1, NoCallAssumption
    <2>3. seatTail \in Calls => phase'[seatTail] = phase[seatTail]
      BY <2>2
    <2>4. Released(c)'
      BY <2>1, <2>3 DEF Released, TypeOK
    <2>5. IsLine(more)'
      <3>1. more' = more
        BY DEF more
      <3>2. more[1] = c /\ 2..(n + 1) = {}
        BY <1>3, <1>8
      <3> QED
        BY <1>3, <1>6, <1>7, <1>8, <2>4, <3>2 DEF IsLine
    <2> QED
      BY <1>3, <2>5 DEF SeatInv
  <1>9. CASE n > 0
    <2>1. 1 \in 1..n /\ n \in 1..n
      BY <1>9
    <2>2. seatTail = line[n] /\ Released(line[1]) /\ Live(line[n]) /\ line[1] # c /\ line[1] \in Calls
      BY <1>1, <1>2, <1>4, <1>9, <2>1 DEF IsLine
    <2>3. Released(line[1])'
      <3>1. previous'[line[1]] = previous[line[1]]
        BY <2>2
      <3>2. previous[line[1]] # c
        BY <2>2, NoCallAssumption DEF Released
      <3> QED
        BY <2>2, <3>1, <3>2 DEF Released, TypeOK
    <2>4. \A i \in 2..n : previous'[more[i]] = more[i - 1] /\ phase'[more[i]] = "queued"
      <3> SUFFICES ASSUME NEW i \in 2..n
                   PROVE  previous'[more[i]] = more[i - 1] /\ phase'[more[i]] = "queued"
        OBVIOUS
      <3>1. i \in 1..n /\ i - 1 \in 1..n
        OBVIOUS
      <3>2. previous[line[i]] = line[i - 1] /\ phase[line[i]] = "queued"
        BY <1>1, <1>2 DEF IsLine
      <3> QED
        BY <1>3, <1>4, <3>1, <3>2
    <2>5. previous'[more[n + 1]] = more[(n + 1) - 1] /\ phase'[more[n + 1]] = "queued"
      BY <1>3, <2>1, <2>2
    <2>6. \A i \in 2..(n + 1) : previous'[more[i]] = more[i - 1] /\ phase'[more[i]] = "queued"
      BY <2>4, <2>5
    <2>7. IsLine(more)'
      <3>1. more' = more
        BY DEF more
      <3> QED
        BY <1>3, <1>6, <1>7, <1>9, <2>1, <2>3, <2>6 DEF IsLine
    <2> QED
      BY <1>3, <2>7 DEF SeatInv
  <1> QED
    BY <1>8, <1>9

LEMMA SeatInductive ==
  ASSUME FrameOK, SeatInv, [Next]_vars
  PROVE  SeatInv'
  <1>0. TypeOK /\ TaskInv /\ TurnInv
    BY DEF FrameOK
  <1>1. ASSUME UNCHANGED <<phase, previous, seatTail>>
        PROVE  SeatInv'
    BY <1>1 DEF SeatInv, IsLine, Live, Holding, Released
  <1>2. ASSUME NEW c \in Calls, NEW r \in Requests, NEW k \in Commands, Join(c, r, k)
        PROVE  SeatInv'
    <2>1. /\ phase[c] = "idle" /\ phase'[c] = "queued"
          /\ \A d \in Calls : d # c => phase'[d] = phase[d] /\ previous'[d] = previous[d]
          /\ previous'[c] = seatTail /\ seatTail' = c
      BY <1>0, <1>2 DEF Join, Goes, TypeOK
    <2> QED
      BY <1>0, <2>1, LineGrows
  <1>3. ASSUME NEW c \in Calls, Live(c), Released(c), UNCHANGED <<previous, seatTail>>,
               Goes(c, "running") \/ Goes(c, "committing") \/ Goes(c, "marking")
        PROVE  SeatInv'
    BY <1>0, <1>3, LineStays DEF Goes, TypeOK
  <1>4. ASSUME NEW c \in Calls, Holding(c)
        PROVE  Live(c) /\ Released(c)
    BY <1>4, HolderIsFirst DEF SeatInv, Live
  <1>5. ASSUME NEW c \in Calls, NEW o, Holding(c), Leave(c, o), UNCHANGED <<previous, seatTail>>
        PROVE  SeatInv'
    BY <1>0, <1>5, LineAdvances DEF Leave, Goes, TypeOK
  <1>6. ASSUME NEW c \in Calls, Start(c)
        PROVE  SeatInv'
    BY <1>3, <1>6 DEF Start, Live, others
  <1>7. ASSUME NEW c \in Calls, Expire(c)
        PROVE  SeatInv'
    BY <1>3, <1>4, <1>7 DEF Expire, Holding, others
  <1>8. ASSUME NEW c \in Calls, Refuse(c)
        PROVE  SeatInv'
    <2>1. phase[c] = "committing"
      BY <1>0, <1>8, HeadAwaited DEF Refuse
    <2> QED
      BY <1>3, <1>4, <1>8, <2>1 DEF Refuse, Holding, others
  <1>9. ASSUME NEW c \in Calls, Return(c)
        PROVE  SeatInv'
    <2>1. CASE phase[c] = "running"
      BY <1>3, <1>4, <1>9, <2>1 DEF Return, Holding, others
    <2> QED
      BY <1>1, <1>9, <2>1 DEF Return, others
  <1>10. ASSUME NEW c \in Calls, NEW o, Settles(c, o)
         PROVE  SeatInv'
    <2>1. CASE phase[c] = "running"
      BY <1>5, <1>10, <2>1 DEF Settles, Holding, others
    <2> QED
      BY <1>1, <1>10, <2>1 DEF Settles, others
  <1>11. ASSUME NEW c \in Calls, Body(c)
         PROVE  SeatInv'
    <2>1. ASSUME Replay(c) \/ BodyFails(c) PROVE SeatInv'
      BY <1>10, <2>1 DEF Replay, BodyFails
    <2>2. ASSUME Look(c) \/ Create(c) \/ Receive(c) PROVE SeatInv'
      BY <1>1, <2>2 DEF Look, Create, Receive, others
    <2> QED
      BY <1>9, <1>11, <2>1, <2>2 DEF Body
  <1>12. ASSUME NEW c \in Calls, Evict(c) \/ Mark(c)
         PROVE  SeatInv'
    <2>1. Holding(c)
      BY <1>0, <1>12, HeadAwaited DEF Evict, Mark, Holding
    <2> QED
      BY <1>5, <1>12, <2>1 DEF Evict, Mark, others
  <1>13. ASSUME NEW c \in Calls, SectionFails(c)
         PROVE  SeatInv'
    <2>1. CASE IsRunning(c, "init") /\ Settles(c, Failed)
      BY <1>10, <2>1
    <2>2. CASE (IsRunning(c, "commit") \/ IsRunning(c, "marker")) /\ \E o : Leave(c, o)
      <3>1. Holding(c)
        BY <1>0, <2>2, HeadAwaited DEF Holding
      <3> QED
        BY <1>5, <1>13, <2>2, <3>1 DEF SectionFails, others
    <2> QED
      BY <1>13, <2>1, <2>2 DEF SectionFails
  <1>14. ASSUME NEW c \in Calls, NEW k, Reads(c, k) \/ Publish(c) \/ Commit(c)
         PROVE  SeatInv'
    BY <1>1, <1>14 DEF Reads, Publish, Loaded, Commit, others
  <1>15. CASE Restart
    <2>1. \A c \in Calls : ~Live(c)'
      BY <1>0, <1>15 DEF Restart, Live, Holding, TypeOK
    <2>2. <<>> \in Seq(Calls) /\ Len(<<>>) = 0
      OBVIOUS
    <2>3. seatTail' = NoCall
      BY <1>15 DEF Restart
    <2>4. IsLine(<<>>)'
      BY <2>1, <2>2, <2>3 DEF IsLine
    <2> QED
      BY <2>2, <2>4 DEF SeatInv
  <1> QED
    BY <1>1, <1>2, <1>6, <1>7, <1>8, <1>11, <1>12, <1>13, <1>14, <1>15
       DEF Next, Section, vars, others

-----------------------------------------------------------------------------
(* What a turn has read, and what the record, the dedup entries and the window hold. *)

LEMMA CommittedAreCalls ==
  ASSUME TypeOK
  PROVE  /\ Len(applied) \in Nat /\ DOMAIN applied = 1..Len(applied)
         /\ \A i \in 1..Len(applied) : applied[i] \in Calls /\ Committed(applied[i])
  <1>1. Len(applied) \in Nat /\ DOMAIN applied = 1..Len(applied)
    BY LenProperties DEF TypeOK
  <1>2. \A i \in 1..Len(applied) : applied[i] \in Calls
    BY ElementOfSeq DEF TypeOK
  <1> QED
    BY <1>1, <1>2 DEF Committed

LEMMA AppendCommits ==
  ASSUME TypeOK, NEW c \in Calls, applied' = Append(applied, c)
  PROVE  /\ Len(applied') = Len(applied) + 1 /\ applied'[Len(applied) + 1] = c
         /\ \A i \in 1..Len(applied) : applied'[i] = applied[i]
         /\ DOMAIN applied' = 1..(Len(applied) + 1)
         /\ \A d \in Calls : Committed(d)' <=> Committed(d) \/ d = c
  <1>1. /\ Len(applied') = Len(applied) + 1 /\ applied'[Len(applied) + 1] = c
        /\ \A i \in 1..Len(applied) : applied'[i] = applied[i]
        /\ applied' \in Seq(Calls)
    BY AppendProperties DEF TypeOK
  <1>2. DOMAIN applied' = 1..(Len(applied) + 1)
    BY <1>1, LenProperties
  <1> QED
    BY <1>1, <1>2, CommittedAreCalls DEF Committed

\* Only the frame of c is touched; what it is left with is for the caller to show.
LEMMA FrameStays ==
  ASSUME FrameInv, NEW c \in Calls, UNCHANGED <<state, applied>>, dedup' \subseteq dedup,
         exists => exists',
         \A d \in Calls : d # c =>
           /\ phase'[d] = phase[d] /\ body'[d] = body[d] /\ working'[d] = working[d]
           /\ request'[d] = request[d]
           /\ Committed(d) /\ phase[d] = "committing"
                => at' = "written" /\ Head(tasks') = Head(tasks),
         phase'[c] = "running" /\ body'[c] \in {"loaded", "receiving"}
           => exists' /\ working'[c] = state,
         phase'[c] = "running" /\ body'[c] = "receiving" => ~Remembered(request'[c]),
         phase'[c] = "committing" /\ ~Committed(c)
           => exists' /\ working'[c] = state /\ ~Remembered(request'[c]),
         Committed(c) => phase'[c] \in {"committing", "done", "lost"},
         Committed(c) /\ phase'[c] = "committing"
           => at' = "written" /\ Head(tasks') = [call |-> c, kind |-> "commit"]
  PROVE  FrameInv'
  <1>1. \A d \in Calls : Committed(d)' <=> Committed(d)
    BY DEF Committed
  <1>2. \A r : ~Remembered(r) => ~(\E d \in dedup' : d.request = r)
    BY DEF Remembered
  <1>3. ASSUME NEW d \in Calls
        PROVE  /\ phase'[d] = "running" /\ body'[d] \in {"loaded", "receiving"}
                    => exists' /\ working'[d] = state
               /\ phase'[d] = "running" /\ body'[d] = "receiving" => ~Remembered(request'[d])
               /\ phase'[d] = "committing" /\ ~Committed(d)
                    => exists' /\ working'[d] = state /\ ~Remembered(request'[d])
               /\ Committed(d) => phase'[d] \in {"committing", "done", "lost"}
               /\ Committed(d) /\ phase'[d] = "committing"
                    => at' = "written" /\ Head(tasks') = [call |-> d, kind |-> "commit"]
    BY DEF FrameInv
  <1> QED
    BY <1>1, <1>2, <1>3 DEF FrameInv, Remembered

\* A call that holds the seat and has not committed leaves it, or marks its timeout.
LEMMA FrameLeaves ==
  ASSUME FrameInv, NEW c \in Calls, UNCHANGED <<state, applied>>, dedup' \subseteq dedup,
         exists => exists',
         \A d \in Calls : d # c =>
           /\ phase'[d] = phase[d] /\ body'[d] = body[d] /\ working'[d] = working[d]
           /\ request'[d] = request[d]
           /\ Committed(d) /\ phase[d] = "committing"
                => at' = "written" /\ Head(tasks') = Head(tasks),
         phase'[c] = "done" \/ (phase'[c] = "marking" /\ ~Committed(c))
  PROVE  FrameInv'
  BY FrameStays

LEMMA FrameInductive ==
  ASSUME FrameOK, SeatInv, FrameInv, StoreInv, [Next]_vars
  PROVE  FrameInv'
  <1>0. TypeOK /\ TaskInv /\ TurnInv
    BY DEF FrameOK
  <1>1. ASSUME NEW c \in Calls, Committed(c), phase[c] = "committing"
        PROVE  at = "written" /\ tasks # <<>> /\ IsRunning(c, "commit")
    BY <1>0, <1>1 DEF FrameInv, TaskInv, IsRunning
  <1>2. ASSUME NEW c \in Calls, NEW k \in {"init", "commit", "marker"}, Entering(c, k), at = "written"
        PROVE  Head(tasks') = Head(tasks)
    BY <1>0, <1>2, EnteringEffect DEF TaskInv, TypeOK
  <1>3. CASE UNCHANGED vars
    BY <1>3 DEF vars, others, storage, FrameInv, Committed, Remembered
  <1>4. ASSUME NEW c \in Calls, NEW r \in Requests, NEW k \in Commands, Join(c, r, k)
        PROVE  FrameInv'
    <2>1. /\ \A d \in Calls : d # c => phase'[d] = phase[d] /\ request'[d] = request[d]
          /\ phase'[c] = "queued" /\ UNCHANGED <<body, working, tasks, at, storage>>
          /\ ~Committed(c)
      BY <1>0, <1>4 DEF Join, Goes, TypeOK, FrameInv
    <2> QED
      BY <1>1, <2>1, FrameStays DEF storage
  <1>5. ASSUME NEW c \in Calls, Start(c)
        PROVE  FrameInv'
    <2>1. /\ \A d \in Calls : d # c => phase'[d] = phase[d] /\ body'[d] = body[d]
          /\ phase'[c] = "running" /\ body'[c] = "opening"
          /\ UNCHANGED <<request, working, tasks, at, storage>> /\ ~Committed(c)
      BY <1>0, <1>5 DEF Start, Goes, Runs, TypeOK, FrameInv, others
    <2> QED
      BY <1>1, <2>1, FrameStays DEF storage
  <1>6. ASSUME NEW c \in Calls, Expire(c)
        PROVE  FrameInv'
    <2>1. /\ \A d \in Calls : d # c => phase'[d] = phase[d]
          /\ phase'[c] = "marking" /\ Entering(c, "marker")
          /\ UNCHANGED <<request, working, body, at, storage>> /\ ~Committed(c)
      BY <1>0, <1>6 DEF Expire, Goes, TypeOK, FrameInv, others
    <2>2. at = "written" => Head(tasks') = Head(tasks)
      BY <1>2, <2>1
    <2> QED
      BY <1>1, <2>1, <2>2, FrameLeaves DEF storage
  <1>7. ASSUME NEW c \in Calls, Look(c)
        PROVE  FrameInv'
    <2>1. /\ \A d \in Calls : d # c => body'[d] = body[d] /\ working'[d] = working[d]
          /\ (body'[c] = "loaded" /\ exists) \/ body'[c] = "creating"
          /\ working'[c] = state /\ body[c] = "opening"
          /\ UNCHANGED <<phase, request, tasks, at, storage>>
      BY <1>0, <1>7 DEF Look, Runs, TypeOK, others
    <2>2. phase[c] = "committing" /\ ~Committed(c) => exists /\ ~Remembered(request[c])
      BY DEF FrameInv
    <2>3. /\ Committed(c) => phase[c] \in {"committing", "done", "lost"}
          /\ Committed(c) /\ phase[c] = "committing"
               => at = "written" /\ Head(tasks) = [call |-> c, kind |-> "commit"]
      BY DEF FrameInv
    <2> QED
      BY <1>1, <2>1, <2>2, <2>3, FrameStays DEF storage
  <1>8. ASSUME NEW c \in Calls, Create(c) \/ Receive(c)
        PROVE  FrameInv'
    <2>1. /\ \A d \in Calls : d # c => body'[d] = body[d]
          /\ \/ body'[c] = "publishing" /\ Entering(c, "init")
             \/ body'[c] = "receiving" /\ body[c] = "loaded" /\ ~Remembered(request[c]) /\ tasks' = tasks
          /\ UNCHANGED <<phase, request, working, at, storage>>
      BY <1>0, <1>8 DEF Create, Receive, Runs, TypeOK, others, Remembered
    <2>2. at = "written" => Head(tasks') = Head(tasks)
      BY <1>2, <2>1
    <2>3. /\ phase[c] = "running" /\ body[c] = "loaded" => exists /\ working[c] = state
          /\ phase[c] = "committing" /\ ~Committed(c)
               => exists /\ working[c] = state /\ ~Remembered(request[c])
          /\ Committed(c) => phase[c] \in {"committing", "done", "lost"}
          /\ Committed(c) /\ phase[c] = "committing"
               => at = "written" /\ Head(tasks) = [call |-> c, kind |-> "commit"]
      BY DEF FrameInv
    <2> QED
      BY <1>1, <2>1, <2>2, <2>3, FrameStays DEF storage
  <1>9. ASSUME NEW c \in Calls, NEW o, Settles(c, o), UNCHANGED storage,
               \A d \in Calls : Committed(d) /\ phase[d] = "committing"
                 => at' = "written" /\ Head(tasks') = Head(tasks)
        PROVE  FrameInv'
    <2>1. /\ \A d \in Calls : d # c => phase'[d] = phase[d] /\ body'[d] = body[d]
          /\ body'[c] = "ended" /\ phase'[c] = IF phase[c] = "running" THEN "done" ELSE phase[c]
          /\ UNCHANGED <<working, request>>
      BY <1>0, <1>9 DEF Settles, Leave, Goes, Runs, TypeOK, others
    <2>2. /\ phase[c] = "committing" /\ ~Committed(c)
               => exists /\ working[c] = state /\ ~Remembered(request[c])
          /\ Committed(c) => phase[c] \in {"committing", "done", "lost"}
          /\ Committed(c) /\ phase[c] = "committing"
               => at = "written" /\ Head(tasks) = [call |-> c, kind |-> "commit"]
      BY DEF FrameInv
    <2> QED
      BY <1>9, <2>1, <2>2, FrameStays DEF storage
  <1>10. ASSUME NEW c \in Calls, Replay(c) \/ BodyFails(c)
         PROVE  FrameInv'
    BY <1>1, <1>9, <1>10 DEF Replay, BodyFails, Settles
  <1>11. ASSUME NEW c \in Calls, Return(c)
         PROVE  FrameInv'
    <2>1. /\ \A d \in Calls : d # c => phase'[d] = phase[d] /\ body'[d] = body[d]
          /\ body'[c] = "ended" /\ body[c] = "receiving"
          /\ \/ phase[c] = "running" /\ phase'[c] = "committing" /\ Entering(c, "commit")
             \/ phase'[c] = phase[c] /\ tasks' = tasks
          /\ UNCHANGED <<request, working, at, storage>>
      BY <1>0, <1>11 DEF Return, Goes, Runs, TypeOK, others
    <2>2. at = "written" => Head(tasks') = Head(tasks)
      BY <1>2, <2>1
    <2>3. /\ phase[c] = "running" => exists /\ working[c] = state /\ ~Remembered(request[c])
                                       /\ ~Committed(c)
          /\ phase[c] = "committing" /\ ~Committed(c)
               => exists /\ working[c] = state /\ ~Remembered(request[c])
          /\ Committed(c) => phase[c] \in {"committing", "done", "lost"}
          /\ Committed(c) /\ phase[c] = "committing"
               => at = "written" /\ Head(tasks) = [call |-> c, kind |-> "commit"]
      BY <2>1 DEF FrameInv
    <2> QED
      BY <1>1, <2>1, <2>2, <2>3, FrameStays DEF storage
  <1>12. ASSUME NEW c \in Calls, NEW k, Reads(c, k)
         PROVE  FrameInv'
    <2>1. at = "waiting" /\ UNCHANGED <<phase, body, request, tasks, working, storage>>
      BY <1>12 DEF Reads, others
    <2> QED
      BY <1>1, <2>1 DEF FrameInv, storage, Committed, Remembered
  <1>13. ASSUME NEW c \in Calls, Publish(c)
         PROVE  FrameInv'
    <2>1. /\ \A d \in Calls : d # c => body'[d] = body[d] /\ working'[d] = working[d]
          /\ at = "read" /\ UNCHANGED <<phase, request, applied, dedup>>
          /\ exists' /\ working'[c] = state'
          /\ state' = state \/ (~exists /\ state' = <<>>)
      <3>1. /\ \A d \in Calls : d # c => body'[d] = body[d]
            /\ at = "read" /\ UNCHANGED <<phase, request, applied, dedup>>
        BY <1>0, <1>13 DEF Publish, Loaded, Runs, TypeOK, others, storage
      <3>2. CASE exists
        BY <1>0, <1>13, <3>1, <3>2 DEF Publish, TypeOK, storage
      <3>3. CASE ~exists
        BY <1>0, <1>13, <3>1, <3>3 DEF Publish, TypeOK
      <3> QED
        BY <3>2, <3>3
    <2>2. state' = state
      BY <2>1 DEF StoreInv
    <2>3. body'[c] = "loaded"
      BY <1>0, <1>13 DEF Publish, Loaded, Runs, TypeOK
    <2>4. /\ phase[c] = "committing" /\ ~Committed(c) => ~Remembered(request[c])
          /\ Committed(c) => phase[c] \in {"committing", "done", "lost"}
          /\ ~(Committed(c) /\ phase[c] = "committing")
      BY <1>1, <2>1 DEF FrameInv
    <2> QED
      BY <1>1, <2>1, <2>2, <2>3, <2>4, FrameStays
  <1>14. ASSUME NEW c \in Calls, Refuse(c)
         PROVE  FrameInv'
    <2>1. /\ \A d \in Calls : d # c => phase'[d] = phase[d]
          /\ phase'[c] = "marking" /\ at = "waiting"
          /\ UNCHANGED <<request, working, body, storage>>
      BY <1>0, <1>14 DEF Refuse, Goes, TypeOK, others
    <2>2. phase[c] = "committing"
      BY <1>0, <1>14, HeadAwaited DEF Refuse
    <2> QED
      BY <1>1, <2>1, <2>2, FrameLeaves DEF storage
  <1>15. ASSUME NEW c \in Calls, Commit(c)
         PROVE  FrameInv'
    <2>1. /\ IsRunning(c, "commit") /\ at' = "written"
          /\ UNCHANGED <<phase, body, request, tasks, working, exists>>
          /\ applied' = Append(applied, c)
      BY <1>15 DEF Commit
    <2>2. phase[c] = "committing"
      BY <1>0, <2>1, HeadAwaited
    <2>3. \A d \in Calls : d # c => ~Holding(d)
      BY <2>2, SeatIsExclusive DEF Holding
    <2>4. \A d \in Calls : Committed(d)' <=> Committed(d) \/ d = c
      BY <1>0, <2>1, AppendCommits
    <2>5. Head(tasks') = [call |-> c, kind |-> "commit"]
      BY <2>1 DEF IsRunning
    <2>6. ASSUME NEW d \in Calls, d # c
          PROVE  /\ phase'[d] \notin {"running", "committing"}
                 /\ Committed(d)' => phase'[d] \in {"committing", "done", "lost"}
      BY <2>1, <2>3, <2>4, <2>6 DEF Holding, FrameInv
    <2> QED
      BY <2>1, <2>2, <2>4, <2>5, <2>6 DEF FrameInv
  <1>16. ASSUME NEW c \in Calls, Evict(c)
         PROVE  FrameInv'
    <2>1. /\ \A d \in Calls : d # c => phase'[d] = phase[d]
          /\ phase'[c] = "done" /\ dedup' \subseteq dedup /\ IsRunning(c, "commit")
          /\ UNCHANGED <<request, working, body, state, applied, exists>>
      BY <1>0, <1>16 DEF Evict, Leave, Goes, TypeOK
    <2>2. \A d \in Calls : Committed(d) /\ phase[d] = "committing" => d = c
      BY <1>1, <2>1 DEF IsRunning
    <2>3. \A d \in Calls : d # c =>
            /\ phase'[d] = phase[d] /\ body'[d] = body[d] /\ working'[d] = working[d]
            /\ request'[d] = request[d] /\ ~(Committed(d) /\ phase[d] = "committing")
      BY <2>1, <2>2
    <2> QED
      BY <2>1, <2>3, FrameLeaves
  <1>17. ASSUME NEW c \in Calls, Mark(c)
         PROVE  FrameInv'
    <2>1. /\ \A d \in Calls : d # c => phase'[d] = phase[d]
          /\ phase'[c] = "done" /\ at = "read"
          /\ UNCHANGED <<request, working, body, state, dedup, applied, exists>>
      BY <1>0, <1>17 DEF Mark, Leave, Goes, TypeOK, others
    <2>2. \A d \in Calls : d # c =>
            /\ phase'[d] = phase[d] /\ body'[d] = body[d] /\ working'[d] = working[d]
            /\ request'[d] = request[d] /\ ~(Committed(d) /\ phase[d] = "committing")
      BY <1>1, <2>1
    <2> QED
      BY <2>1, <2>2, FrameLeaves
  <1>18. ASSUME NEW c \in Calls, SectionFails(c)
         PROVE  FrameInv'
    <2>1. at # "written" /\ UNCHANGED <<request, working, storage>>
      BY <1>18 DEF SectionFails, others
    <2>2. CASE \E o : Settles(c, o)
      BY <1>1, <1>9, <2>1, <2>2
    <2>3. CASE UNCHANGED body /\ \E o : Leave(c, o)
      <3>1. /\ \A d \in Calls : d # c => phase'[d] = phase[d]
            /\ phase'[c] = "done"
        BY <1>0, <2>3 DEF Leave, Goes, TypeOK
      <3>2. \A d \in Calls : d # c =>
              /\ phase'[d] = phase[d] /\ body'[d] = body[d] /\ working'[d] = working[d]
              /\ request'[d] = request[d] /\ ~(Committed(d) /\ phase[d] = "committing")
        BY <1>1, <2>1, <2>3, <3>1
      <3>3. UNCHANGED <<state, applied, dedup, exists>>
        BY <2>1 DEF storage
      <3> QED
        BY <3>1, <3>2, <3>3, FrameLeaves
    <2> QED
      BY <1>18, <2>2, <2>3 DEF SectionFails
  <1>19. CASE Restart
    <2>1. /\ \A d \in Calls : phase'[d] = IF phase[d] \in {"idle", "done"} THEN phase[d] ELSE "lost"
          /\ UNCHANGED storage
      BY <1>19 DEF Restart
    <2>2. \A d \in Calls : Committed(d)' <=> Committed(d)
      BY <2>1 DEF storage, Committed
    <2> QED
      BY <2>1, <2>2 DEF FrameInv
  <1> QED
    BY <1>3, <1>4, <1>5, <1>6, <1>7, <1>8, <1>10, <1>11, <1>12, <1>13, <1>14, <1>15, <1>16,
       <1>17, <1>18, <1>19 DEF Next, Body, Section

\* A commit builds on the stored state, for a request no entry remembers.
LEMMA CommitIsFresh ==
  ASSUME FrameOK, FrameInv, NEW c \in Calls, Commit(c)
  PROVE  /\ phase[c] = "committing" /\ outcome[c] = Pending
         /\ ~Committed(c) /\ exists /\ working[c] = state /\ ~Remembered(request[c])
         /\ request[c] \in Requests /\ command[c] \in Commands
  <1>1. phase[c] = "committing"
    BY HeadAwaited DEF Commit, FrameOK
  <1>2. at = "read"
    BY DEF Commit
  <1> QED
    BY <1>1, <1>2 DEF FrameInv, FrameOK, TurnInv

\* What a call has asked for never changes once it has joined; only a commit adds
\* to what is applied.
LEMMA CommittedStay ==
  ASSUME FrameOK, FrameInv, [Next]_vars
  PROVE  /\ \A i \in 1..Len(applied) :
              /\ request'[applied[i]] = request[applied[i]]
              /\ command'[applied[i]] = command[applied[i]]
         /\ applied' = applied \/ \E c \in Calls : Commit(c)
  <1>1. \A i \in 1..Len(applied) : applied[i] \in Calls /\ phase[applied[i]] # "idle"
    BY CommittedAreCalls DEF FrameOK, FrameInv
  <1>2. \A c \in Calls : phase[c] # "idle" => request'[c] = request[c] /\ command'[c] = command[c]
    <2>1. ASSUME NEW c \in Calls, NEW r \in Requests, NEW k \in Commands, Join(c, r, k)
          PROVE  \A d \in Calls : phase[d] # "idle" => request'[d] = request[d] /\ command'[d] = command[d]
      BY <2>1 DEF Join, FrameOK, TypeOK
    <2>2. ASSUME NEW c \in Calls, Start(c) \/ Expire(c) \/ Body(c) \/ Section(c)
          PROVE  UNCHANGED <<request, command>>
      BY <2>2 DEF Start, Expire, Body, Section, Look, Create, Replay, Receive, BodyFails, Return,
                  Settles, Reads, Publish, Loaded, Refuse, Commit, Evict, Mark, SectionFails, others
    <2>3. ASSUME Restart PROVE UNCHANGED <<request, command>>
      BY <2>3 DEF Restart
    <2> QED
      BY <2>1, <2>2, <2>3 DEF Next, vars, others
  <1>3. applied' = applied \/ \E c \in Calls : Commit(c)
    <2>1. ASSUME NEW c \in Calls, NEW r \in Requests, NEW k \in Commands, Join(c, r, k)
          PROVE  applied' = applied
      BY <2>1 DEF Join, storage
    <2>2. ASSUME NEW c \in Calls, Start(c) \/ Expire(c) \/ Body(c) \/ Section(c)
          PROVE  applied' = applied \/ Commit(c)
      BY <2>2 DEF Start, Expire, Body, Section, Look, Create, Replay, Receive, BodyFails, Return,
                  Settles, Reads, Publish, Loaded, Refuse, Evict, Mark, SectionFails, storage
    <2>3. ASSUME Restart PROVE applied' = applied
      BY <2>3 DEF Restart, storage
    <2> QED
      BY <2>1, <2>2, <2>3 DEF Next, vars, storage
  <1> QED
    BY <1>1, <1>2, <1>3

LEMMA StoreInductive ==
  ASSUME FrameOK, FrameInv, StoreInv, [Next]_vars
  PROVE  StoreInv'
  <1>0. TypeOK /\ TaskInv /\ TurnInv
    BY DEF FrameOK
  <1>1. ASSUME UNCHANGED <<state, applied>>, dedup' \subseteq dedup, exists => exists',
               exists' \/ seq' = seq,
               at' = "written" => at = "written" /\ Head(tasks') = Head(tasks)
        PROVE  StoreInv'
    <2>1. at' = "written" => Committed(Head(tasks).call)'
      BY <1>1 DEF StoreInv, Committed
    <2>2. ASSUME NEW d \in dedup'
          PROVE  \E i \in 1..Len(applied) :
                   /\ applied[i] = d.result
                   /\ request'[d.result] = d.request /\ command'[d.result] = d.command
                   /\ \A j \in 1..Len(applied) : j > i => request'[applied[j]] # d.request
      <3>1. PICK i \in 1..Len(applied) :
              /\ applied[i] = d.result
              /\ request[d.result] = d.request /\ command[d.result] = d.command
              /\ \A j \in 1..Len(applied) : j > i => request[applied[j]] # d.request
        BY <1>1 DEF StoreInv
      <3>2. /\ request'[d.result] = d.request /\ command'[d.result] = d.command
            /\ \A j \in 1..Len(applied) : j > i => request'[applied[j]] # d.request
        BY <3>1, CommittedStay
      <3> QED
        BY <3>1, <3>2
    <2> QED
      BY <1>1, <2>1, <2>2 DEF StoreInv
  <1>2. ASSUME UNCHANGED storage, UNCHANGED <<tasks, at>> \/ at' # "written"
        PROVE  StoreInv'
    BY <1>1, <1>2 DEF storage
  <1>3. ASSUME UNCHANGED storage, NEW c \in Calls, NEW k \in {"init", "commit", "marker"},
               Entering(c, k), at' = at
        PROVE  StoreInv'
    <2>1. at = "written" => Head(tasks') = Head(tasks)
      BY <1>0, <1>3, EnteringEffect DEF TaskInv, TypeOK
    <2> QED
      BY <1>1, <1>3, <2>1 DEF storage
  <1>4. ASSUME NEW c \in Calls, NEW r \in Requests, NEW k \in Commands, Join(c, r, k)
        PROVE  StoreInv'
    BY <1>2, <1>4 DEF Join
  <1>5. ASSUME NEW c \in Calls, Start(c) \/ Expire(c)
        PROVE  StoreInv'
    BY <1>2, <1>3, <1>5 DEF Start, Expire
  <1>6. ASSUME NEW c \in Calls, Body(c)
        PROVE  StoreInv'
    BY <1>2, <1>3, <1>6
       DEF Body, Look, Create, Replay, Receive, BodyFails, Return, Settles
  <1>7. ASSUME NEW c \in Calls, NEW k, Reads(c, k) \/ Refuse(c) \/ SectionFails(c)
        PROVE  StoreInv'
    BY <1>2, <1>7 DEF Reads, Refuse, SectionFails, Ends
  <1>8. ASSUME NEW c \in Calls, Publish(c)
        PROVE  StoreInv'
    <2>1. /\ at' = "waiting" /\ UNCHANGED <<seq, dedup, applied>> /\ exists'
          /\ state' = state \/ (~exists /\ state' = <<>>)
      <3>1. at' = "waiting"
        BY <1>8 DEF Publish, Loaded, Ends
      <3>2. CASE exists
        BY <1>8, <3>1, <3>2 DEF Publish, storage
      <3>3. CASE ~exists
        BY <1>8, <3>1, <3>3 DEF Publish
      <3> QED
        BY <3>2, <3>3
    <2>2. state' = state
      BY <2>1 DEF StoreInv
    <2> QED
      BY <1>1, <2>1, <2>2
  <1>9. ASSUME NEW c \in Calls, Evict(c) \/ Mark(c)
        PROVE  StoreInv'
    <2>1. /\ at' = "waiting" /\ UNCHANGED <<state, applied, exists>> /\ dedup' \subseteq dedup
          /\ exists \/ seq' = seq
      BY <1>9 DEF Evict, Mark, Ends
    <2> QED
      BY <1>1, <2>1
  <1>10. ASSUME NEW c \in Calls, Commit(c)
         PROVE  StoreInv'
    <2>1. PICK n \in Nat : n = Len(applied)
      BY <1>0, CommittedAreCalls
    <2>2. /\ ~Committed(c) /\ exists /\ working[c] = state /\ ~Remembered(request[c])
      BY <1>10, CommitIsFresh
    <2>3. /\ state' = Append(working[c], c) /\ applied' = Append(applied, c)
          /\ UNCHANGED <<exists, request, command, tasks>> /\ IsRunning(c, "commit")
          /\ dedup' = {d \in dedup : d.request # request[c]}
               \cup {[request |-> request[c], command |-> command[c], result |-> c]}
      BY <1>10 DEF Commit
    <2>4. /\ Len(applied') = n + 1 /\ applied'[n + 1] = c
          /\ \A i \in 1..n : applied'[i] = applied[i]
          /\ \A d \in Calls : Committed(d)' <=> Committed(d) \/ d = c
      BY <1>0, <2>1, <2>3, AppendCommits
    <2>5. state' = applied' /\ exists'
      BY <2>2, <2>3 DEF StoreInv
    <2>6. Committed(Head(tasks).call)'
      <3>1. n + 1 \in DOMAIN applied' /\ Head(tasks').call = c
        BY <1>0, <2>1, <2>3, AppendCommits DEF IsRunning
      <3> QED
        BY <2>4, <3>1 DEF Committed
    <2>7. ASSUME NEW d \in dedup, d.request # request[c]
          PROVE  \E i \in 1..(n + 1) :
                   /\ applied'[i] = d.result
                   /\ request[d.result] = d.request /\ command[d.result] = d.command
                   /\ \A j \in 1..(n + 1) : j > i => request[applied'[j]] # d.request
      <3>1. PICK i \in 1..n :
              /\ applied[i] = d.result
              /\ request[d.result] = d.request /\ command[d.result] = d.command
              /\ \A j \in 1..n : j > i => request[applied[j]] # d.request
        BY <2>1 DEF StoreInv
      <3>2. \A j \in 1..(n + 1) : j > i => request[applied'[j]] # d.request
        BY <2>4, <2>7, <3>1
      <3> QED
        BY <2>4, <3>1, <3>2
    <2>8. ASSUME NEW d, d = [request |-> request[c], command |-> command[c], result |-> c]
          PROVE  \E i \in 1..(n + 1) :
                   /\ applied'[i] = d.result
                   /\ request[d.result] = d.request /\ command[d.result] = d.command
                   /\ \A j \in 1..(n + 1) : j > i => request[applied'[j]] # d.request
      <3>1. n + 1 \in 1..(n + 1) /\ ~(\E j \in 1..(n + 1) : j > n + 1)
        BY <2>1
      <3> QED
        BY <2>4, <2>8, <3>1
    <2>9. \A d \in dedup' : \E i \in 1..(n + 1) :
            /\ applied'[i] = d.result
            /\ request'[d.result] = d.request /\ command'[d.result] = d.command
            /\ \A j \in 1..(n + 1) : j > i => request'[applied'[j]] # d.request
      BY <2>3, <2>7, <2>8
    <2>10. Len(applied') = n + 1
      BY <2>4
    <2> QED
      BY <2>5, <2>6, <2>9, <2>10 DEF StoreInv
  <1>11. CASE Restart
    BY <1>2, <1>11 DEF Restart
  <1> QED
    BY <1>2, <1>4, <1>5, <1>6, <1>7, <1>8, <1>9, <1>10, <1>11 DEF Next, Section, vars

\* A request found nowhere in the window was last committed dedupLimit commits ago.
LEMMA FreshIsFarAway ==
  ASSUME TypeOK, WindowInv, AtMostOncePerWindow, NEW r, ~Remembered(r),
         NEW i \in 1..Len(applied), request[applied[i]] = r
  PROVE  Len(applied) + 1 - i > DedupLimit
  <1>1. PICK n \in Nat, m \in Nat : n = Len(applied) /\ m = Len(order)
    BY LenProperties DEF TypeOK
  <1>2. \A k \in 1..m : order[k] # r
    <2>1. DOMAIN order = 1..m
      BY <1>1, LenProperties DEF TypeOK
    <2> QED
      BY <2>1 DEF AtMostOncePerWindow, Remembered
  <1>3. /\ m = IF n > DedupLimit THEN DedupLimit ELSE n
        /\ \A k \in 1..m : order[k] = request[applied[n - m + k]]
    BY <1>1 DEF WindowInv
  <1>4. i <= n - m
    <2> SUFFICES ASSUME i > n - m PROVE FALSE
      BY <1>1
    <2>1. i - (n - m) \in 1..m /\ n - m + (i - (n - m)) = i
      BY <1>1
    <2> QED
      BY <1>2, <1>3, <2>1
  <1> QED
    BY <1>1, <1>3, <1>4, DedupLimitAssumption

\* What a commit makes of the window: the requests of the last commits, itself last,
\* and those it pushes out are none of them.
LEMMA CommitWindow ==
  ASSUME FrameOK, FrameInv, StoreInv, WindowInv, AtMostOncePerWindow,
         NEW c \in Calls, Commit(c)
  PROVE  (WindowInv /\ AtMostOncePerWindow)'
  <1>0. TypeOK /\ TaskInv /\ TurnInv
    BY DEF FrameOK
  <1>1. PICK n \in Nat, m \in Nat : n = Len(applied) /\ m = Len(order) /\ DOMAIN order = 1..m
    BY <1>0, LenProperties DEF TypeOK
  <1>2. ~Committed(c) /\ ~Remembered(request[c]) /\ request[c] \in Requests
    BY CommitIsFresh
  <1>3. /\ applied' = Append(applied, c) /\ request' = request
        /\ order' = Kept(Append(order, request[c]))
        /\ evicted' = Evicted(Append(order, request[c]))
        /\ dedup' = {d \in dedup : d.request # request[c]}
             \cup {[request |-> request[c], command |-> command[c], result |-> c]}
    BY DEF Commit
  <1>4. /\ Len(applied') = n + 1 /\ applied'[n + 1] = c /\ DOMAIN applied' = 1..(n + 1)
        /\ \A i \in 1..n : applied'[i] = applied[i]
    BY <1>0, <1>1, <1>3, AppendCommits
  <1>5. /\ m = IF n > DedupLimit THEN DedupLimit ELSE n
        /\ \A k \in 1..m : order[k] = request[applied[n - m + k]]
    BY <1>1 DEF WindowInv
  <1>6. \A i, j \in 1..(n + 1) :
          i < j /\ request[applied'[i]] = request[applied'[j]] => j - i > DedupLimit
    <2>1. \A i, j \in 1..n :
            i < j /\ request[applied'[i]] = request[applied'[j]] => j - i > DedupLimit
      <3>1. DOMAIN applied = 1..n
        BY <1>0, <1>1, CommittedAreCalls
      <3> QED
        BY <1>4, <3>1 DEF AtMostOncePerWindow
    <2>2. \A i \in 1..n : request[applied'[i]] = request[c] => n + 1 - i > DedupLimit
      BY <1>0, <1>1, <1>2, <1>4, FreshIsFarAway
    <2>3. \A i, j \in 1..(n + 1) : i < j => i \in 1..n /\ (j \in 1..n \/ j = n + 1)
      OBVIOUS
    <2> QED
      BY <1>4, <2>1, <2>2, <2>3
  <1> DEFINE s == Append(order, request[c])
  <1>7. /\ s \in Seq(Requests) /\ Len(s) = m + 1
        /\ \A k \in 1..(m + 1) : s[k] = request[applied'[n - m + k]]
    <2>1. /\ s \in Seq(Requests) /\ Len(s) = m + 1 /\ s[m + 1] = request[c]
          /\ \A k \in 1..m : s[k] = order[k]
      BY <1>0, <1>1, <1>2, AppendProperties DEF TypeOK
    <2>2. \A k \in 1..m : n - m + k \in 1..n
      BY <1>5, DedupLimitAssumption
    <2>3. n - m + (m + 1) = n + 1 /\ \A k \in 1..(m + 1) : k \in 1..m \/ k = m + 1
      OBVIOUS
    <2>4. \A k \in 1..m : s[k] = request[applied'[n - m + k]]
      <3> HIDE DEF s
      <3> SUFFICES ASSUME NEW k \in 1..m
                   PROVE  s[k] = request[applied'[n - m + k]]
        OBVIOUS
      <3>1. n - m + k \in 1..n /\ s[k] = order[k]
        BY <2>1, <2>2
      <3>2. applied'[n - m + k] = applied[n - m + k]
        BY <1>4, <3>1
      <3> QED
        BY <1>5, <3>1, <3>2
    <2>5. s[m + 1] = request[applied'[n - m + (m + 1)]]
      BY <1>4, <2>1, <2>3
    <2> QED
      BY <2>1, <2>3, <2>4, <2>5
  <1> HIDE DEF s
  <1>8. PICK l \in Nat :
          /\ l = Len(Kept(s)) /\ l = IF m + 1 > DedupLimit THEN DedupLimit ELSE m + 1
          /\ Kept(s) \in Seq(Requests)
          /\ \A k \in 1..l : Kept(s)[k] = s[m + 1 - l + k]
    <2>1. PICK p \in Nat : p = m + 1 /\ Len(s) = p
      BY <1>1, <1>7
    <2>2. PICK l \in Nat : l = IF p > DedupLimit THEN DedupLimit ELSE p
      BY DedupLimitAssumption
    <2>3. /\ Kept(s) \in Seq(Requests)
          /\ Len(Kept(s)) = IF Len(s) > DedupLimit THEN DedupLimit ELSE Len(s)
          /\ \A i \in 1..Len(Kept(s)) : Kept(s)[i] = s[Len(s) - Len(Kept(s)) + i]
      BY <1>7, KeptTyped, Zenon
    <2>4. Len(Kept(s)) = l /\ l = IF m + 1 > DedupLimit THEN DedupLimit ELSE m + 1
      BY <2>1, <2>2, <2>3
    <2>5. \A k \in 1..l : Kept(s)[k] = s[m + 1 - l + k]
      BY <2>1, <2>3, <2>4
    <2> QED
      BY <2>3, <2>4, <2>5
  <1>9. l = IF n + 1 > DedupLimit THEN DedupLimit ELSE n + 1
    BY <1>5, <1>8, DedupLimitAssumption
  <1>10. \A k \in 1..l : /\ m + 1 - l + k \in 1..(m + 1)
                         /\ n - m + (m + 1 - l + k) = n + 1 - l + k
    BY <1>8, DedupLimitAssumption
  <1>11. \A k \in 1..l : Kept(s)[k] = request[applied'[n + 1 - l + k]]
    BY <1>7, <1>8, <1>10
  <1>12. \A k \in 1..l : Kept(s)[k] \notin Evicted(s)
    <2> SUFFICES ASSUME NEW k \in 1..l, NEW i \in 1..(m + 1 - l), s[i] = Kept(s)[k]
                 PROVE  FALSE
      BY <1>7, <1>8 DEF Evicted
    <2>1. /\ i \in 1..(m + 1) /\ n - m + i \in 1..(n + 1) /\ n + 1 - l + k \in 1..(n + 1)
          /\ n - m + i < n + 1 - l + k
      BY <1>5, <1>8, <1>9, DedupLimitAssumption
    <2>2. request[applied'[n - m + i]] = request[applied'[n + 1 - l + k]]
      BY <1>7, <1>11, <2>1
    <2>3. (n + 1 - l + k) - (n - m + i) > DedupLimit
      BY <1>6, <2>1, <2>2
    <2> QED
      BY <1>5, <2>3, DedupLimitAssumption
  <1>13. \A k \in 1..l : \E d \in dedup' : d.request = Kept(s)[k]
    <2> SUFFICES ASSUME NEW k \in 1..l
                 PROVE  \E d \in dedup' : d.request = Kept(s)[k]
      OBVIOUS
    <2>1. PICK p \in 1..(m + 1) : Kept(s)[k] = s[p]
      BY <1>8, <1>10
    <2>2. CASE s[p] = request[c]
      <3>1. PICK d : d = [request |-> request[c], command |-> command[c], result |-> c]
        OBVIOUS
      <3>2. d \in dedup' /\ d.request = request[c]
        BY <1>3, <3>1
      <3> QED
        BY <2>1, <2>2, <3>2
    <2>3. CASE s[p] # request[c]
      <3>1. p \in 1..m /\ s[p] = order[p]
        <4>1. s[m + 1] = request[c] /\ \A i \in 1..m : s[i] = order[i]
          BY <1>0, <1>1, <1>2, AppendProperties DEF TypeOK, s
        <4> QED
          BY <2>3, <4>1
      <3>2. PICK d \in dedup : d.request = order[p]
        BY <1>1, <3>1 DEF AtMostOncePerWindow
      <3> QED
        BY <1>3, <2>1, <2>3, <3>1, <3>2
    <2> QED
      BY <2>2, <2>3
  <1>14. order' = Kept(s) /\ evicted' = Evicted(s) /\ DOMAIN order' = 1..l
    BY <1>3, <1>8, LenProperties DEF s
  <1>15. WindowInv'
    <2>1. Len(order') = l /\ Len(applied') = n + 1
      BY <1>4, <1>8, <1>14
    <2>2. \A k \in 1..l : order'[k] = request'[applied'[Len(applied') - l + k]]
      <3> SUFFICES ASSUME NEW k \in 1..l
                   PROVE  order'[k] = request'[applied'[Len(applied') - l + k]]
        OBVIOUS
      <3>1. order'[k] = request[applied'[n + 1 - l + k]]
        BY <1>11, <1>14
      <3>2. Len(applied') - l + k = n + 1 - l + k
        BY <2>1
      <3> QED
        BY <1>3, <3>1, <3>2, Zenon
    <2>3. \A k \in 1..l : order'[k] \notin evicted'
      BY <1>12, <1>14
    <2> QED
      BY <1>9, <2>1, <2>2, <2>3 DEF WindowInv
  <1>16. AtMostOncePerWindow'
    BY <1>3, <1>4, <1>6, <1>13, <1>14 DEF AtMostOncePerWindow
  <1> QED
    BY <1>15, <1>16

LEMMA WindowInductive ==
  ASSUME FrameOK, FrameInv, StoreInv, WindowInv, AtMostOncePerWindow, [Next]_vars
  PROVE  (WindowInv /\ AtMostOncePerWindow)'
  <1>1. ASSUME UNCHANGED <<order, applied>>,
               dedup' = dedup \/ (dedup' = {d \in dedup : d.request \notin evicted} /\ at = "written"),
               at' = "written" => at = "written" /\ evicted' = evicted
        PROVE  (WindowInv /\ AtMostOncePerWindow)'
    <2>1. PICK n \in Nat, m \in Nat : n = Len(applied) /\ m = Len(order) /\ DOMAIN order = 1..m
                                      /\ DOMAIN applied = 1..n
      BY LenProperties DEF FrameOK, TypeOK
    <2>2. \A i \in 1..n : request'[applied[i]] = request[applied[i]]
      BY <2>1, CommittedStay
    <2>3. \A i \in 1..m : n - m + i \in 1..n
      BY <2>1, DedupLimitAssumption DEF WindowInv
    <2>4. WindowInv'
      BY <1>1, <2>1, <2>2, <2>3 DEF WindowInv
    <2>5. \A i \in 1..m : \E d \in dedup' : d.request = order[i]
      <3> SUFFICES ASSUME NEW i \in 1..m PROVE \E d \in dedup' : d.request = order[i]
        OBVIOUS
      <3>1. PICK d \in dedup : d.request = order[i]
        BY <2>1 DEF AtMostOncePerWindow
      <3>2. at = "written" => order[i] \notin evicted
        BY <2>1 DEF WindowInv
      <3> QED
        BY <1>1, <3>1, <3>2
    <2>6. AtMostOncePerWindow'
      BY <1>1, <2>1, <2>2, <2>5 DEF AtMostOncePerWindow
    <2> QED
      BY <2>4, <2>6
  <1>2. ASSUME NEW c \in Calls, NEW r \in Requests, NEW k \in Commands, Join(c, r, k)
        PROVE  (WindowInv /\ AtMostOncePerWindow)'
    BY <1>1, <1>2 DEF Join, storage
  <1>3. ASSUME NEW c \in Calls, Start(c) \/ Expire(c) \/ Body(c)
        PROVE  (WindowInv /\ AtMostOncePerWindow)'
    <2>1. UNCHANGED <<order, applied, dedup, evicted, at>>
      BY <1>3 DEF Start, Expire, Body, Look, Create, Replay, Receive, BodyFails, Return, Settles,
                  others, storage
    <2> QED
      BY <1>1, <2>1
  <1>4. ASSUME NEW c \in Calls, NEW k,
               Reads(c, k) \/ Publish(c) \/ Refuse(c) \/ Mark(c) \/ SectionFails(c)
        PROVE  (WindowInv /\ AtMostOncePerWindow)'
    <2>1. UNCHANGED <<order, applied, dedup>> /\ at' # "written"
      BY <1>4 DEF Reads, Publish, Loaded, Refuse, Mark, SectionFails, Ends, storage
    <2> QED
      BY <1>1, <2>1
  <1>5. ASSUME NEW c \in Calls, Evict(c)
        PROVE  (WindowInv /\ AtMostOncePerWindow)'
    <2>1. /\ UNCHANGED <<order, applied>> /\ at = "written" /\ at' = "waiting"
          /\ dedup' \in {dedup, {d \in dedup : d.request \notin evicted}}
      BY <1>5 DEF Evict, Ends
    <2> QED
      BY <1>1, <2>1
  <1>6. CASE Restart
    BY <1>1, <1>6 DEF Restart, storage
  <1>7. CASE UNCHANGED vars
    BY <1>1, <1>7 DEF vars, others, storage
  <1> QED
    BY <1>2, <1>3, <1>4, <1>5, <1>6, <1>7, CommitWindow DEF Next, Section

\* The inductive invariant of the turns and the storage they commit to.
IInv ==
  /\ FrameOK /\ SeatInv /\ FrameInv /\ StoreInv /\ WindowInv /\ AtMostOncePerWindow

LEMMA InvariantHolds == Spec => []IInv
  <1>1. Init => IInv
    <2> SUFFICES ASSUME Init PROVE IInv
      OBVIOUS
    <2>1. /\ <<>> \in Seq(Calls) /\ <<>> \in Seq(Task) /\ <<>> \in Seq(Requests)
          /\ Len(<<>>) = 0 /\ DOMAIN <<>> = {}
      OBVIOUS
    <2>2. FrameOK
      BY InitialFrames
    <2>3. IsLine(<<>>)
      BY <2>1 DEF Init, IsLine, Live, Holding
    <2>4. SeatInv
      BY <2>1, <2>3 DEF SeatInv
    <2>5. FrameInv /\ StoreInv
      BY <2>1 DEF Init, FrameInv, StoreInv, Committed
    <2>6. WindowInv /\ AtMostOncePerWindow
      BY <2>1, DedupLimitAssumption DEF Init, WindowInv, AtMostOncePerWindow
    <2> QED
      BY <2>2, <2>4, <2>5, <2>6 DEF IInv
  <1>2. IInv /\ [Next]_vars => IInv'
    BY TypeInductive, TaskInductive, TurnInductive, SeatInductive, FrameInductive,
       StoreInductive, WindowInductive DEF IInv, FrameOK
  <1> QED
    BY <1>1, <1>2, PTL DEF Spec

\* A committed requestId does not run again until dedupLimit other commits have pushed
\* it out, however often the object is lost and its callers retry.
THEOREM AtMostOnce == Spec => []AtMostOncePerWindow
  <1>1. IInv => AtMostOncePerWindow
    BY DEF IInv
  <1> QED
    BY <1>1, InvariantHolds, PTL

\* No lost update: the stored state is what the committed turns, in order, made of it,
\* though abandoned bodies run on beside the turn that holds the seat.
THEOREM NoLostUpdate == Spec => [](state = applied)
  <1>1. IInv => state = applied
    BY DEF IInv, StoreInv
  <1> QED
    BY <1>1, InvariantHolds, PTL

\* One turn at most is past the seat and not yet answered.
THEOREM OneTurnAtATime == Spec => [](\A c, d \in Calls : Holding(c) /\ Holding(d) => c = d)
  <1>1. IInv => \A c, d \in Calls : Holding(c) /\ Holding(d) => c = d
    BY SeatIsExclusive DEF IInv
  <1> QED
    BY <1>1, InvariantHolds, PTL

-----------------------------------------------------------------------------
(* The journal. *)

\* Whoever has been answered, or was lost with the object, is told nothing more.
LEMMA DoneStays ==
  ASSUME FrameOK, [Next]_vars, NEW d \in Calls, phase[d] \in {"done", "lost"}
  PROVE  phase'[d] \in {"done", "lost"} /\ outcome'[d] = outcome[d]
  <1>0. TypeOK /\ TaskInv
    BY DEF FrameOK
  <1>1. ASSUME NEW c \in Calls, NEW r \in Requests, NEW k \in Commands, Join(c, r, k)
        PROVE  phase'[d] = phase[d] /\ outcome'[d] = outcome[d]
    BY <1>0, <1>1 DEF Join, Goes, TypeOK
  <1>2. ASSUME NEW c \in Calls, Start(c) \/ Expire(c)
        PROVE  phase'[d] = phase[d] /\ outcome'[d] = outcome[d]
    BY <1>0, <1>2 DEF Start, Expire, Goes, TypeOK
  <1>3. ASSUME NEW c \in Calls, NEW o, Settles(c, o)
        PROVE  phase'[d] = phase[d] /\ outcome'[d] = outcome[d]
    BY <1>0, <1>3 DEF Settles, Leave, Goes, TypeOK
  <1>4. ASSUME NEW c \in Calls, Body(c)
        PROVE  phase'[d] = phase[d] /\ outcome'[d] = outcome[d]
    <2>1. CASE Replay(c) \/ BodyFails(c)
      BY <1>3, <2>1 DEF Replay, BodyFails
    <2>2. CASE Look(c) \/ Create(c) \/ Receive(c) \/ Return(c)
      BY <1>0, <2>2 DEF Look, Create, Receive, Return, Goes, TypeOK
    <2> QED
      BY <1>4, <2>1, <2>2 DEF Body
  <1>5. ASSUME NEW c \in Calls, NEW k, Reads(c, k) \/ Publish(c) \/ Commit(c)
        PROVE  phase'[d] = phase[d] /\ outcome'[d] = outcome[d]
    BY <1>5 DEF Reads, Publish, Loaded, Commit
  <1>6. ASSUME NEW c \in Calls, Refuse(c) \/ Evict(c) \/ Mark(c)
        PROVE  phase'[d] = phase[d] /\ outcome'[d] = outcome[d]
    <2>1. phase[c] \in {"committing", "marking"}
      BY <1>0, <1>6, HeadAwaited DEF Refuse, Evict, Mark
    <2> QED
      BY <1>0, <1>6, <2>1 DEF Refuse, Evict, Mark, Leave, Goes, TypeOK
  <1>7. ASSUME NEW c \in Calls, SectionFails(c)
        PROVE  phase'[d] = phase[d] /\ outcome'[d] = outcome[d]
    <2>1. CASE \E o : Settles(c, o)
      BY <1>3, <2>1
    <2>2. CASE (IsRunning(c, "commit") \/ IsRunning(c, "marker")) /\ \E o : Leave(c, o)
      <3>1. phase[c] \in {"committing", "marking"}
        BY <1>0, <2>2, HeadAwaited
      <3> QED
        BY <1>0, <2>2, <3>1 DEF Leave, Goes, TypeOK
    <2> QED
      BY <1>7, <2>1, <2>2 DEF SectionFails
  <1>8. CASE Restart
    BY <1>0, <1>8 DEF Restart, TypeOK
  <1> QED
    BY <1>1, <1>2, <1>4, <1>5, <1>6, <1>7, <1>8 DEF Next, Section, vars

\* Entries are put past the end of the journal, so none is overwritten.
LEMMA PutEffect ==
  ASSUME TypeOK, DOMAIN events = 0 .. seq - 1, NEW c \in Calls, NEW k \in {"event", "timeout"},
         NEW n \in Nat, PutEvents(c, k, n), seq' = seq + n
  PROVE  /\ DOMAIN events' = 0 .. seq' - 1
         /\ \A i \in 0 .. seq - 1 : events'[i] = events[i]
         /\ \A i \in seq .. seq + n - 1 : events'[i] = [call |-> c, kind |-> k]
         /\ Positions(c, k)' = Positions(c, k) \cup (seq .. seq + n - 1)
         /\ \A d, j : d # c \/ j # k => Positions(d, j)' = Positions(d, j)
  <1>1. seq \in Nat
    BY DEF TypeOK
  <1>2. (0 .. seq - 1) \cup (seq .. seq + n - 1) = 0 .. seq' - 1
    BY <1>1
  <1>3. DOMAIN events' = 0 .. seq' - 1
    BY <1>2 DEF PutEvents
  <1>4. \A i \in 0 .. seq - 1 : events'[i] = events[i]
    BY <1>1, <1>2 DEF PutEvents
  <1>5. \A i \in seq .. seq + n - 1 : events'[i] = [call |-> c, kind |-> k]
    BY <1>1, <1>2 DEF PutEvents
  <1>6. \A d, j : [call |-> c, kind |-> k] = [call |-> d, kind |-> j] <=> d = c /\ j = k
    OBVIOUS
  <1>7. Positions(c, k)' = Positions(c, k) \cup (seq .. seq + n - 1)
    BY <1>2, <1>3, <1>4, <1>5 DEF Positions
  <1>8. ASSUME NEW d, NEW j, d # c \/ j # k
        PROVE  Positions(d, j)' = Positions(d, j)
    BY <1>2, <1>3, <1>4, <1>5, <1>6, <1>8 DEF Positions
  <1> QED
    BY <1>3, <1>4, <1>5, <1>7, <1>8

\* Nothing happens to the journal, nor to the turns that are in it.
LEMMA JournalStays ==
  ASSUME FrameOK, MarkerInv, JournalTellsTheTurns, [Next]_vars,
         UNCHANGED <<events, seq, applied>>
  PROVE  (MarkerInv /\ JournalTellsTheTurns)'
  <1>1. \A c \in Calls, k \in {"event", "timeout"} :
          Positions(c, k)' = Positions(c, k) /\ (Committed(c)' <=> Committed(c))
    BY DEF Positions, Committed
  <1>2. \A c \in Calls : Positions(c, "timeout") # {} =>
          phase'[c] \in {"done", "lost"} /\ outcome'[c] = outcome[c]
    BY DoneStays DEF MarkerInv
  <1>3. MarkerInv'
    BY <1>1, <1>2 DEF MarkerInv
  <1>4. JournalTellsTheTurns'
    BY <1>1, <1>2 DEF JournalTellsTheTurns
  <1> QED
    BY <1>3, <1>4

LEMMA CommitTells ==
  ASSUME IInv, MarkerInv, JournalTellsTheTurns, [Next]_vars, NEW c \in Calls, Commit(c)
  PROVE  (MarkerInv /\ JournalTellsTheTurns)'
  <1>0. TypeOK /\ FrameOK /\ FrameInv
    BY DEF IInv, FrameOK
  <1>1. PICK n \in Nat : n = EventsOf[c]
    BY EventsOfAssumption
  <1>2. ~Committed(c) /\ phase[c] = "committing"
    BY <1>0, CommitIsFresh
  <1>3. /\ PutEvents(c, "event", n) /\ seq' = seq + n /\ applied' = Append(applied, c)
        /\ UNCHANGED <<phase, outcome>>
    BY <1>1 DEF Commit
  <1>4. /\ DOMAIN events' = 0 .. seq' - 1
        /\ Positions(c, "event")' = Positions(c, "event") \cup (seq .. seq + n - 1)
        /\ \A d, j : d # c \/ j # "event" => Positions(d, j)' = Positions(d, j)
    BY <1>0, <1>3, PutEffect DEF JournalTellsTheTurns
  <1>5. \A d \in Calls : Committed(d)' <=> Committed(d) \/ d = c
    BY <1>0, <1>3, AppendCommits
  <1>6. Positions(c, "timeout") = {} /\ Positions(c, "event") = {}
    BY <1>2 DEF MarkerInv, JournalTellsTheTurns
  <1>7. MarkerInv'
    BY <1>3, <1>4 DEF MarkerInv
  <1>8. seq \in Nat /\ seq' \in Nat /\ seq \in 0 .. seq'
    BY <1>0, <1>3 DEF TypeOK
  <1>9. \E p \in 0 .. seq' : Positions(c, "event")' = p .. p + EventsOf[c] - 1
    BY <1>1, <1>4, <1>6, <1>8
  <1>10. ASSUME NEW d \in Calls, d # c, Committed(d)
         PROVE  \E p \in 0 .. seq' : Positions(d, "event")' = p .. p + EventsOf[d] - 1
    <2>1. PICK p \in 0 .. seq : Positions(d, "event") = p .. p + EventsOf[d] - 1
      BY <1>10 DEF JournalTellsTheTurns
    <2>2. p \in 0 .. seq'
      BY <1>3, <1>8
    <2> QED
      BY <1>4, <1>10, <2>1, <2>2
  <1>11. ASSUME NEW d \in Calls, ~Committed(d), d # c
         PROVE  Positions(d, "event")' = {}
    BY <1>4, <1>11 DEF JournalTellsTheTurns
  <1>12. ASSUME NEW d \in Calls
         PROVE  /\ Positions(d, "timeout")' # {} => outcome'[d] = TimedOut /\ ~Committed(d)'
                /\ \A i, j \in Positions(d, "timeout")' : i = j
    BY <1>3, <1>4, <1>5, <1>6 DEF JournalTellsTheTurns
  <1> QED
    BY <1>4, <1>5, <1>7, <1>9, <1>10, <1>11, <1>12 DEF JournalTellsTheTurns

LEMMA MarkTells ==
  ASSUME IInv, MarkerInv, JournalTellsTheTurns, [Next]_vars, NEW c \in Calls, Mark(c), exists
  PROVE  (MarkerInv /\ JournalTellsTheTurns)'
  <1>0. TypeOK /\ TaskInv /\ TurnInv /\ FrameInv
    BY DEF IInv, FrameOK
  <1>1. phase[c] = "marking"
    BY <1>0, HeadAwaited DEF Mark
  <1>2. /\ PutEvents(c, "timeout", 1) /\ seq' = seq + 1 /\ applied' = applied
        /\ \A d \in Calls : /\ phase'[d] = IF d = c THEN "done" ELSE phase[d]
                            /\ outcome'[d] = IF d = c THEN TimedOut ELSE outcome[d]
    BY <1>0 DEF Mark, Leave, Goes, TypeOK
  <1>3. /\ DOMAIN events' = 0 .. seq' - 1
        /\ Positions(c, "timeout")' = Positions(c, "timeout") \cup (seq .. seq + 1 - 1)
        /\ \A d, j : d # c \/ j # "timeout" => Positions(d, j)' = Positions(d, j)
    BY <1>0, <1>2, PutEffect DEF JournalTellsTheTurns
  <1>4. Positions(c, "timeout") = {} /\ ~Committed(c)
    BY <1>0, <1>1 DEF MarkerInv, FrameInv
  <1>5. seq \in Nat /\ seq .. seq + 1 - 1 = {seq}
    BY <1>0 DEF TypeOK
  <1>6. \A d : Committed(d)' <=> Committed(d)
    BY <1>2 DEF Committed
  <1>7. MarkerInv'
    BY <1>2, <1>3 DEF MarkerInv
  <1>8. ASSUME NEW d \in Calls
        PROVE  /\ Positions(d, "timeout")' # {} => outcome'[d] = TimedOut /\ ~Committed(d)'
               /\ \A i, j \in Positions(d, "timeout")' : i = j
    BY <1>2, <1>3, <1>4, <1>5, <1>6 DEF JournalTellsTheTurns
  <1>9. ASSUME NEW d \in Calls
        PROVE  IF Committed(d)
               THEN \E p \in 0 .. seq' : Positions(d, "event")' = p .. p + EventsOf[d] - 1
               ELSE Positions(d, "event")' = {}
    <2>1. Positions(d, "event")' = Positions(d, "event")
      BY <1>3
    <2>2. 0 .. seq \subseteq 0 .. seq'
      BY <1>2, <1>5
    <2> QED
      BY <2>1, <2>2 DEF JournalTellsTheTurns
  <1> QED
    BY <1>3, <1>6, <1>7, <1>8, <1>9 DEF JournalTellsTheTurns

LEMMA JournalInvariant == Spec => [](IInv /\ MarkerInv /\ JournalTellsTheTurns)
  <1>1. Init => MarkerInv /\ JournalTellsTheTurns
    <2> SUFFICES ASSUME Init PROVE MarkerInv /\ JournalTellsTheTurns
      OBVIOUS
    <2>1. DOMAIN events = {} /\ seq = 0 /\ applied = <<>> /\ 0 .. 0 - 1 = {} /\ DOMAIN <<>> = {}
      BY DEF Init
    <2>2. \A c, k : Positions(c, k) = {} /\ ~Committed(c)
      BY <2>1 DEF Positions, Committed
    <2> QED
      BY <2>1, <2>2 DEF MarkerInv, JournalTellsTheTurns
  <1>2. IInv /\ MarkerInv /\ JournalTellsTheTurns /\ [Next]_vars
          => (MarkerInv /\ JournalTellsTheTurns)'
    <2> SUFFICES ASSUME IInv, MarkerInv, JournalTellsTheTurns, [Next]_vars
                 PROVE  (MarkerInv /\ JournalTellsTheTurns)'
      OBVIOUS
    <2>1. FrameOK
      BY DEF IInv
    <2>2. CASE UNCHANGED <<events, seq, applied>>
      BY <2>1, <2>2, JournalStays
    <2>3. CASE \E c \in Calls : Commit(c)
      BY <2>3, CommitTells
    <2>4. CASE \E c \in Calls : Mark(c)
      BY <2>2, <2>4, MarkTells DEF Mark
    <2>5. ASSUME NEW c \in Calls, NEW r \in Requests, NEW k \in Commands, Join(c, r, k)
          PROVE  UNCHANGED <<events, seq, applied>>
      BY <2>5 DEF Join, storage
    <2>6. ASSUME NEW c \in Calls, Start(c) \/ Expire(c) \/ Body(c)
          PROVE  UNCHANGED <<events, seq, applied>>
      BY <2>6 DEF Start, Expire, Body, Look, Create, Replay, Receive, BodyFails, Return, Settles,
                  storage
    <2>7. ASSUME NEW c \in Calls, NEW k,
                 Reads(c, k) \/ Publish(c) \/ Refuse(c) \/ Evict(c) \/ SectionFails(c)
          PROVE  UNCHANGED <<events, seq, applied>>
      BY <2>7 DEF Reads, Publish, Refuse, Evict, SectionFails, storage
    <2>8. ASSUME Restart PROVE UNCHANGED <<events, seq, applied>>
      BY <2>8 DEF Restart, storage
    <2> QED
      BY <2>2, <2>3, <2>4, <2>5, <2>6, <2>7, <2>8 DEF Next, Section, vars, storage
  <1> QED
    BY <1>1, <1>2, InvariantHolds, PTL DEF Spec

\* The journal is dense, no entry is ever overwritten, and it tells of each turn what
\* became of it, across losses of the object and storage calls that fail.
THEOREM JournalTells == Spec => []JournalTellsTheTurns
  <1>1. IInv /\ MarkerInv /\ JournalTellsTheTurns => JournalTellsTheTurns
    OBVIOUS
  <1> QED
    BY <1>1, JournalInvariant, PTL

-----------------------------------------------------------------------------
(* Every step of the object is a step of the contract, or none. *)

Fates == [c \in Calls |-> Fate(c)]
Memory == {d.request : d \in dedup}
Journal == [i \in 1 .. seq |->
              [seq |-> i - 1, call |-> events[i - 1].call, kind |-> events[i - 1].kind]]

Told == IInv /\ MarkerInv /\ JournalTellsTheTurns

\* A step that answers nobody.
LEMMA FatesStay ==
  ASSUME applied' = applied,
         \A d \in Calls : /\ phase[d] = "idle" <=> phase'[d] = "idle"
                          /\ phase[d] # "idle" /\ ~Committed(d) => outcome'[d] = outcome[d]
  PROVE  Fates' = Fates
  <1>1. \A d \in Calls : Committed(d)' <=> Committed(d)
    BY DEF Committed
  <1>2. \A d \in Calls : Fate(d)' = Fate(d)
    BY <1>1 DEF Fate
  <1> QED
    BY <1>2 DEF Fates

\* A step that answers c, which had not been answered.
LEMMA FatesAnswered ==
  ASSUME FrameOK, FrameInv, applied' = applied, NEW c \in Calls, NEW o,
         phase[c] \in {"running", "committing"}, ~Committed(c), phase'[c] # "idle",
         outcome'[c] = o,
         \A d \in Calls : d # c => phase'[d] = phase[d] /\ outcome'[d] = outcome[d]
  PROVE  Fates' = [Fates EXCEPT ![c] = o] /\ Fates[c].kind = "pending"
  <1>1. \A d \in Calls : Committed(d)' <=> Committed(d)
    BY DEF Committed
  <1>2. outcome[c] = Pending
    BY DEF FrameOK, TurnInv
  <1>3. Fate(c)' = o /\ Fate(c) = Pending
    BY <1>1, <1>2 DEF Fate
  <1>4. \A d \in Calls : d # c => Fate(d)' = Fate(d)
    BY <1>1 DEF Fate
  <1> QED
    BY <1>3, <1>4, OutcomesDiffer DEF Fates

LEMMA JournalTyped ==
  ASSUME TypeOK, JournalTellsTheTurns
  PROVE  /\ Journal \in Seq([seq : Nat, call : Calls, kind : {"event", "timeout"}])
         /\ Len(Journal) = seq /\ seq \in Nat /\ DOMAIN Journal = 1 .. seq
         /\ \A i \in 1 .. seq :
              /\ i - 1 \in DOMAIN events /\ events[i - 1] \in Entry
              /\ Journal[i] = [seq |-> i - 1, call |-> events[i - 1].call,
                               kind |-> events[i - 1].kind]
  <1>1. seq \in Nat
    BY DEF TypeOK
  <1>2. \A i \in 1 .. seq : i - 1 \in DOMAIN events /\ i - 1 \in Nat /\ events[i - 1] \in Entry
    <2>1. \A i \in 1 .. seq : i - 1 \in 0 .. seq - 1 /\ i - 1 \in Nat
      BY <1>1
    <2>2. DOMAIN events = 0 .. seq - 1
      BY DEF JournalTellsTheTurns
    <2> QED
      BY <2>1, <2>2 DEF TypeOK
  <1>3. \A i \in 1 .. seq : Journal[i] \in [seq : Nat, call : Calls, kind : {"event", "timeout"}]
    BY <1>2 DEF Journal, Entry
  <1>4. Journal \in [1 .. seq -> [seq : Nat, call : Calls, kind : {"event", "timeout"}]]
    BY <1>3 DEF Journal
  <1> QED
    BY <1>1, <1>2, <1>4 DEF Journal

\* Putting entries past the end is appending them.
LEMMA JournalGrows ==
  ASSUME TypeOK, JournalTellsTheTurns, NEW c \in Calls, NEW k \in {"event", "timeout"},
         NEW n \in Nat, PutEvents(c, k, n), seq' = seq + n
  PROVE  Journal' = Journal \o Seat!Entries(c, k, n)
  <1> DEFINE S == [seq : Nat, call : Calls, kind : {"event", "timeout"}]
             new == [i \in 1 .. n |-> [seq |-> seq + i - 1, call |-> c, kind |-> k]]
  <1>1. /\ Journal \in Seq(S) /\ Len(Journal) = seq /\ seq \in Nat
        /\ \A i \in 1 .. seq :
             Journal[i] = [seq |-> i - 1, call |-> events[i - 1].call, kind |-> events[i - 1].kind]
    BY JournalTyped
  <1>2. Seat!Entries(c, k, n) = new
    BY <1>1 DEF Seat!Entries, Journal
  <1>3. new \in Seq(S) /\ Len(new) = n
    <2>1. \A i \in 1 .. n : seq + i - 1 \in Nat
      BY <1>1
    <2>2. \A i \in 1 .. n : [seq |-> seq + i - 1, call |-> c, kind |-> k] \in S
      BY <2>1
    <2> HIDE DEF S
    <2>3. new \in [1 .. n -> S]
      BY <2>2
    <2> QED
      BY <2>3
  <1>4. /\ \A i \in 0 .. seq - 1 : events'[i] = events[i]
        /\ \A i \in seq .. seq + n - 1 : events'[i] = [call |-> c, kind |-> k]
    <2>1. DOMAIN events = 0 .. seq - 1
      BY DEF JournalTellsTheTurns
    <2>2. /\ \A i \in 0 .. seq - 1 : events'[i] = events[i]
          /\ \A i \in seq .. seq + n - 1 : events'[i] = [call |-> c, kind |-> k]
      <3> HIDE DEF S, new
      <3> QED
        BY <2>1, PutEffect, Zenon
    <2> QED
      BY <2>2, Zenon
  <1>5. Journal' = [i \in 1 .. (seq + n) |->
                      [seq |-> i - 1, call |-> events'[i - 1].call, kind |-> events'[i - 1].kind]]
    BY DEF Journal
  <1>6. \A i \in 1 .. (seq + n) :
          Journal'[i] = IF i <= seq THEN Journal[i] ELSE new[i - seq]
    <2> SUFFICES ASSUME NEW i \in 1 .. (seq + n)
                 PROVE  Journal'[i] = IF i <= seq THEN Journal[i] ELSE new[i - seq]
      OBVIOUS
    <2>1. CASE i <= seq
      <3>1. i - 1 \in 0 .. seq - 1 /\ i \in 1 .. seq
        BY <1>1, <2>1
      <3> QED
        BY <1>1, <1>4, <1>5, <2>1, <3>1
    <2>2. CASE ~(i <= seq)
      <3>1. i - 1 \in seq .. seq + n - 1 /\ i - seq \in 1 .. n /\ seq + (i - seq) - 1 = i - 1
        BY <1>1, <2>2
      <3>2. events'[i - 1] = [call |-> c, kind |-> k]
        BY <1>4, <3>1
      <3>3. Journal'[i] = [seq |-> i - 1, call |-> c, kind |-> k]
        BY <1>5, <3>2
      <3> QED
        BY <2>2, <3>1, <3>3
    <2> QED
      BY <2>1, <2>2
  <1>7. DOMAIN Journal' = 1 .. (seq + n)
    BY <1>5
  <1> HIDE DEF S, new
  <1>8. /\ Journal \o new \in Seq(S) /\ Len(Journal \o new) = seq + n
        /\ \A i \in 1 .. (seq + n) :
             (Journal \o new)[i] = IF i <= seq THEN Journal[i] ELSE new[i - seq]
    BY <1>1, <1>3, ConcatProperties
  <1>9. DOMAIN (Journal \o new) = 1 .. (seq + n)
    BY <1>8, LenProperties
  <1>10. Journal' = Journal \o new
    <2>1. \A i \in 1 .. (seq + n) : Journal'[i] = (Journal \o new)[i]
      BY <1>6, <1>8
    <2>2. PICK m \in Nat : m = seq + n
      BY <1>1
    <2>3. PICK t \in Seq(S) : t = Journal \o new /\ Len(t) = m
      BY <1>8, <2>2
    <2>4. t = [i \in 1 .. m |-> t[i]]
      <3>1. t \in [1 .. m -> S]
        BY <2>3, LenProperties
      <3> QED
        BY <3>1
    <2>5. Journal' = [i \in 1 .. m |-> Journal'[i]]
      BY <1>5, <2>2
    <2> QED
      BY <2>1, <2>2, <2>3, <2>4, <2>5
  <1> QED
    BY <1>2, <1>10

\* A request that joins the seat is submitted.
LEMMA JoinSubmits ==
  ASSUME Told, NEW c \in Calls, NEW r \in Requests, NEW k \in Commands, Join(c, r, k)
  PROVE  Seat!Submit(c, r, k)
  <1>0. TypeOK /\ TurnInv /\ FrameInv
    BY DEF Told, IInv, FrameOK
  <1>1. /\ phase[c] = "idle" /\ phase' = [phase EXCEPT ![c] = "queued"]
        /\ request' = [request EXCEPT ![c] = r] /\ command' = [command EXCEPT ![c] = k]
        /\ UNCHANGED <<outcome, applied, state, dedup, seq, events>>
    BY DEF Join, Goes, storage
  <1>2. outcome[c] = Pending /\ ~Committed(c)
    BY <1>0, <1>1 DEF TurnInv, FrameInv
  <1>3. \A d : Committed(d)' <=> Committed(d)
    BY <1>1 DEF Committed
  <1>4. \A d \in Calls : Fate(d)' = IF d = c THEN [kind |-> "pending"] ELSE Fate(d)
    BY <1>0, <1>1, <1>2, <1>3 DEF Fate, Pending, TypeOK
  <1>5. Fates' = [Fates EXCEPT ![c] = [kind |-> "pending"]] /\ Fates[c].kind = "unsent"
    BY <1>1, <1>4 DEF Fates, Fate
  <1>6. Memory' = Memory /\ Journal' = Journal
    BY <1>1 DEF Memory, Journal
  <1> QED
    BY <1>1, <1>5, <1>6 DEF Seat!Submit, Seat!Is, Seat!Answer, Fates, Memory, Journal

\* Any step that ends a turn without a commit replays the latest commit of its request,
\* or rejects it.
LEMMA EndsReplayOrReject ==
  ASSUME Told, NEW c \in Calls, NEW o,
         phase[c] \in {"running", "committing"}, ~Committed(c),
         phase'[c] # "idle", outcome'[c] = o,
         \A d \in Calls : d # c => phase'[d] = phase[d] /\ outcome'[d] = outcome[d],
         UNCHANGED <<request, command, applied, state, dedup, seq, events>>,
         \/ o \in {Failed, TimedOut}
         \/ \E d \in dedup : /\ d.request = request[c] /\ d.command = command[c]
                             /\ o = Resolved("replayed", d.result)
  PROVE  Seat!Replay(c) \/ Seat!Reject(c)
  <1>1. Fates' = [Fates EXCEPT ![c] = o] /\ Fates[c].kind = "pending"
    BY FatesAnswered DEF Told, IInv
  <1>2. Memory' = Memory /\ Journal' = Journal
    BY DEF Memory, Journal
  <1>3. Seat!Is(c, "pending")
    BY <1>1 DEF Seat!Is, Fates
  <1>4. CASE o \in {Failed, TimedOut}
    <2>1. Seat!Answer(c, [kind |-> "failed"]) \/ Seat!Answer(c, [kind |-> "timeout"])
      BY <1>1, <1>4 DEF Seat!Answer, Fates, Failed, TimedOut
    <2> QED
      BY <1>2, <1>3, <2>1 DEF Seat!Reject, Memory, Journal
  <1>5. ASSUME NEW d \in dedup, d.request = request[c], d.command = command[c],
               o = Resolved("replayed", d.result)
        PROVE  Seat!Replay(c)
    <2>1. state = applied /\ DOMAIN applied = 1..Len(applied)
      BY CommittedAreCalls DEF Told, IInv, StoreInv, FrameOK
    <2>2. PICK i \in 1..Len(applied) :
            /\ applied[i] = d.result
            /\ request[d.result] = d.request /\ command[d.result] = d.command
            /\ \A j \in 1..Len(applied) : j > i => request[applied[j]] # d.request
      BY DEF Told, IInv, StoreInv
    <2>3. i \in DOMAIN state /\ Seat!IsLatest(i, request[c]) /\ command[state[i]] = command[c]
      BY <1>5, <2>1, <2>2 DEF Seat!IsLatest
    <2>4. o = [kind |-> "replayed", from |-> state[i]]
      BY <1>5, <2>1, <2>2 DEF Resolved
    <2>5. Seat!Answer(c, [kind |-> "replayed", from |-> state[i]])
      BY <1>1, <2>4, Zenon DEF Seat!Answer, Fates
    <2>6. request[c] \in Memory
      BY <1>5 DEF Memory
    <2> QED
      BY <1>2, <1>3, <2>3, <2>5, <2>6 DEF Seat!Replay, Memory, Journal
  <1> QED
    BY <1>4, <1>5

\* The put of a commit is the commit of the contract.
LEMMA CommitCommits ==
  ASSUME Told, NEW c \in Calls, Commit(c)
  PROVE  Seat!Commit(c, EventsOf[c])
  <1>0. TypeOK /\ FrameOK /\ FrameInv
    BY DEF Told, IInv, FrameOK
  <1>1. /\ phase[c] = "committing" /\ outcome[c] = Pending
        /\ ~Committed(c) /\ working[c] = state /\ ~Remembered(request[c])
    BY <1>0, CommitIsFresh
  <1>2. /\ state' = Append(state, c) /\ applied' = Append(applied, c)
        /\ UNCHANGED <<phase, outcome, request, command>>
        /\ PutEvents(c, "event", EventsOf[c]) /\ seq' = seq + EventsOf[c]
        /\ dedup' = {d \in dedup : d.request # request[c]}
             \cup {[request |-> request[c], command |-> command[c], result |-> c]}
    BY <1>1 DEF Commit
  <1>3. \A d \in Calls : Committed(d)' <=> Committed(d) \/ d = c
    BY <1>0, <1>2, AppendCommits
  <1>4. \A d \in Calls : Fate(d)' = IF d = c THEN [kind |-> "committed", from |-> c] ELSE Fate(d)
    BY <1>1, <1>2, <1>3 DEF Fate, Resolved
  <1>5. Fates' = [Fates EXCEPT ![c] = [kind |-> "committed", from |-> c]]
        /\ Fates[c].kind = "pending"
    <2>1. Fates' = [d \in Calls |->
                      IF d = c THEN [kind |-> "committed", from |-> c] ELSE Fate(d)]
      BY <1>4 DEF Fates
    <2>2. Fates[c] = Pending
      BY <1>1 DEF Fates, Fate
    <2> QED
      BY <2>1, <2>2, OutcomesDiffer DEF Fates
  <1>6. request[c] \notin Memory
    BY <1>1 DEF Memory, Remembered
  <1>7. Memory' = Memory \cup {request[c]}
    <2> DEFINE new == [request |-> request[c], command |-> command[c], result |-> c]
    <2>1. new.request = request[c]
      OBVIOUS
    <2>2. \A d \in dedup : d.request # request[c]
      BY <1>1 DEF Remembered
    <2> HIDE DEF new
    <2>3. dedup' = dedup \cup {new}
      BY <1>2, <2>2 DEF new
    <2> QED
      BY <2>1, <2>3 DEF Memory
  <1>8. Journal' = Journal \o Seat!Entries(c, "event", EventsOf[c])
    BY <1>0, <1>2, JournalGrows, EventsOfAssumption DEF Told
  <1>9. \E kept \in SUBSET Memory : Memory' = kept \cup {request[c]}
    BY <1>7
  <1> QED
    BY <1>2, <1>5, <1>6, <1>8, <1>9
       DEF Seat!Commit, Seat!Is, Seat!Answer, Fates, Memory, Journal

\* The marker of a timed-out turn is the only entry the journal has of it.
LEMMA MarkMarks ==
  ASSUME Told, NEW c \in Calls, Mark(c), exists
  PROVE  Seat!Mark(c)
  <1>0. TypeOK /\ FrameOK /\ TaskInv /\ TurnInv /\ FrameInv
    BY DEF Told, IInv, FrameOK
  <1>1. phase[c] = "marking"
    BY <1>0, HeadAwaited DEF Mark
  <1>2. /\ PutEvents(c, "timeout", 1) /\ seq' = seq + 1
        /\ UNCHANGED <<applied, state, dedup, request, command>>
        /\ \A d \in Calls : /\ phase'[d] = IF d = c THEN "done" ELSE phase[d]
                            /\ outcome'[d] = IF d = c THEN TimedOut ELSE outcome[d]
    BY <1>0 DEF Mark, Leave, Goes, TypeOK, others
  <1>3. outcome[c] = TimedOut /\ ~Committed(c)
    BY <1>0, <1>1 DEF TurnInv, FrameInv
  <1>4. Fates' = Fates
    BY <1>1, <1>2, <1>3, FatesStay
  <1>5. Fates[c].kind = "timeout"
    BY <1>1, <1>3, OutcomesDiffer DEF Fates, Fate
  <1>6. Journal' = Journal \o Seat!Entries(c, "timeout", 1)
    BY <1>0, <1>2, JournalGrows DEF Told
  <1>7. \A i \in DOMAIN Journal : Journal[i].call # c
    <2> SUFFICES ASSUME NEW i \in 1 .. seq, Journal[i].call = c
                 PROVE  FALSE
      BY <1>0, JournalTyped DEF Told
    <2>1. i - 1 \in DOMAIN events /\ events[i - 1] \in Entry /\ events[i - 1].call = c
      BY <1>0, JournalTyped DEF Told
    <2>2. i - 1 \in Positions(c, "event") \/ i - 1 \in Positions(c, "timeout")
      BY <2>1 DEF Positions, Entry
    <2> QED
      BY <1>1, <1>3, <2>2 DEF Told, MarkerInv, JournalTellsTheTurns
  <1>8. Memory' = Memory
    BY <1>2 DEF Memory
  <1> QED
    BY <1>2, <1>4, <1>5, <1>6, <1>7, <1>8 DEF Seat!Mark, Seat!Is, Fates, Memory, Journal

\* Nothing the contract knows of changes.
LEMMA QuietSteps ==
  ASSUME Fates' = Fates, Memory' \subseteq Memory,
         UNCHANGED <<request, command, state, seq, events>>
  PROVE  Seat!Forget
  <1>1. Journal' = Journal
    BY DEF Journal
  <1> QED
    BY <1>1 DEF Seat!Forget, Fates, Memory, Journal

\* What happens inside the object and answers nobody.
LEMMA OthersStutter ==
  ASSUME Told, NEW c \in Calls, NEW k,
         Start(c) \/ Look(c) \/ Create(c) \/ Receive(c) \/ Return(c) \/ Reads(c, k) \/ Publish(c)
  PROVE  Seat!Forget
  <1>0. TypeOK /\ StoreInv
    BY DEF Told, IInv, FrameOK
  <1>1. UNCHANGED <<request, command, outcome, applied, dedup, seq, events>>
    BY DEF Start, Look, Create, Receive, Return, Reads, Publish, Loaded, others, storage
  <1>2. state' = state
    <2>1. CASE Publish(c)
      <3>1. CASE exists
        BY <2>1, <3>1 DEF Publish, storage
      <3>2. CASE ~exists
        BY <1>0, <2>1, <3>2 DEF Publish, StoreInv
      <3> QED
        BY <3>1, <3>2
    <2> QED
      BY <2>1 DEF Start, Look, Create, Receive, Return, Reads, storage
  <1>3. \A d \in Calls : phase[d] = "idle" <=> phase'[d] = "idle"
    <2>1. CASE Start(c)
      BY <1>0, <2>1 DEF Start, Goes, TypeOK
    <2>2. CASE Return(c)
      BY <1>0, <2>2 DEF Return, Goes, TypeOK
    <2> QED
      BY <2>1, <2>2 DEF Look, Create, Receive, Reads, Publish, Loaded
  <1>4. Fates' = Fates
    BY <1>1, <1>3, FatesStay
  <1> QED
    BY <1>1, <1>2, <1>4, QuietSteps DEF Memory

\* A body that settles ends its turn, or nobody hears of it any more.
LEMMA SettlesEnds ==
  ASSUME Told, NEW c \in Calls, NEW o, Settles(c, o),
         \/ o = Failed
         \/ \E d \in dedup : /\ d.request = request[c] /\ d.command = command[c]
                             /\ o = Resolved("replayed", d.result)
  PROVE  Seat!Replay(c) \/ Seat!Reject(c) \/ Seat!Forget
  <1>0. TypeOK /\ FrameInv
    BY DEF Told, IInv, FrameOK
  <1>1. UNCHANGED <<request, command, applied, state, dedup, seq, events>>
    BY DEF Settles, others, storage
  <1>2. CASE phase[c] = "running"
    <2>1. /\ phase'[c] = "done" /\ outcome'[c] = o /\ ~Committed(c)
          /\ \A d \in Calls : d # c => phase'[d] = phase[d] /\ outcome'[d] = outcome[d]
      BY <1>0, <1>2 DEF Settles, Leave, Goes, TypeOK, FrameInv
    <2> QED
      BY <1>1, <1>2, <2>1, EndsReplayOrReject
  <1>3. CASE phase[c] # "running"
    <2>1. UNCHANGED <<phase, outcome>>
      BY <1>3 DEF Settles
    <2>2. Fates' = Fates
      BY <1>1, <2>1, FatesStay
    <2> QED
      BY <1>1, <2>2, QuietSteps DEF Memory
  <1> QED
    BY <1>2, <1>3

\* A section that ends without a write, or after its write, and the loss of the object.
LEMMA SectionEnds ==
  ASSUME Told, NEW c \in Calls, Refuse(c) \/ Evict(c) \/ Mark(c) \/ SectionFails(c)
  PROVE  Seat!Mark(c) \/ Seat!Reject(c) \/ Seat!Replay(c) \/ Seat!Forget
  <1>0. TypeOK /\ TaskInv /\ TurnInv /\ FrameInv /\ StoreInv
    BY DEF Told, IInv, FrameOK
  <1>1. CASE Refuse(c)
    <2>1. phase[c] = "committing" /\ at = "waiting"
      BY <1>0, <1>1, HeadAwaited DEF Refuse
    <2>2. /\ phase'[c] = "marking" /\ outcome'[c] = TimedOut /\ ~Committed(c)
          /\ \A d \in Calls : d # c => phase'[d] = phase[d] /\ outcome'[d] = outcome[d]
          /\ UNCHANGED <<request, command, applied, state, dedup, seq, events>>
      BY <1>0, <1>1, <2>1 DEF Refuse, Goes, TypeOK, FrameInv, others, storage
    <2> QED
      BY <2>1, <2>2, EndsReplayOrReject
  <1>2. CASE Evict(c)
    <2>1. Head(tasks).call = c /\ at = "written" /\ phase[c] = "committing"
      BY <1>0, <1>2, HeadAwaited DEF Evict, IsRunning
    <2>2. Committed(c)
      BY <1>0, <2>1 DEF StoreInv
    <2>3. /\ \A d \in Calls : /\ phase'[d] = IF d = c THEN "done" ELSE phase[d]
                              /\ d # c => outcome'[d] = outcome[d]
          /\ UNCHANGED <<request, command, applied, state, seq, events>> /\ dedup' \subseteq dedup
      BY <1>0, <1>2 DEF Evict, Leave, Goes, TypeOK
    <2>4. Fates' = Fates
      BY <2>1, <2>2, <2>3, FatesStay
    <2> QED
      BY <2>3, <2>4, QuietSteps DEF Memory
  <1>3. ASSUME Leave(c, TimedOut), IsRunning(c, "marker"),
               UNCHANGED <<request, command, applied, state, dedup, seq, events>>
        PROVE  Seat!Forget
    <2>1. phase[c] = "marking" /\ outcome[c] = TimedOut
      BY <1>0, <1>3, HeadAwaited DEF TurnInv
    <2>2. \A d \in Calls : /\ phase'[d] = IF d = c THEN "done" ELSE phase[d]
                           /\ outcome'[d] = outcome[d]
      BY <1>0, <1>3, <2>1 DEF Leave, Goes, TypeOK
    <2>3. Fates' = Fates
      BY <1>3, <2>1, <2>2, FatesStay
    <2> QED
      BY <1>3, <2>3, QuietSteps DEF Memory
  <1>4. CASE Mark(c)
    <2>1. CASE exists
      BY <1>4, <2>1, MarkMarks
    <2>2. CASE ~exists
      BY <1>3, <1>4, <2>2 DEF Mark, others
    <2> QED
      BY <2>1, <2>2
  <1>5. CASE SectionFails(c)
    <2>1. at # "written" /\ UNCHANGED <<request, command, applied, state, dedup, seq, events>>
      BY <1>5 DEF SectionFails, others, storage
    <2>2. CASE Settles(c, Failed)
      BY <2>2, SettlesEnds
    <2>3. CASE IsRunning(c, "commit") /\ Leave(c, Failed)
      <3>1. phase[c] = "committing"
        BY <1>0, <2>3, HeadAwaited
      <3>2. /\ phase'[c] = "done" /\ outcome'[c] = Failed /\ ~Committed(c)
            /\ \A d \in Calls : d # c => phase'[d] = phase[d] /\ outcome'[d] = outcome[d]
        BY <1>0, <2>1, <2>3, <3>1 DEF Leave, Goes, TypeOK, FrameInv
      <3> QED
        BY <2>1, <3>1, <3>2, EndsReplayOrReject
    <2>4. CASE IsRunning(c, "marker") /\ Leave(c, TimedOut)
      BY <1>3, <2>1, <2>4
    <2> QED
      BY <1>5, <2>2, <2>3, <2>4 DEF SectionFails
  <1> QED
    BY <1>1, <1>2, <1>4, <1>5

LEMMA StepsImplement ==
  ASSUME Told, [Next]_vars
  PROVE  [Seat!Next]_(Seat!vars)
  <1>0. TypeOK /\ FrameInv
    BY DEF Told, IInv, FrameOK
  <1>1. CASE UNCHANGED vars
    <2>1. Fates' = Fates
      BY <1>1, FatesStay DEF vars, storage, others
    <2> QED
      BY <1>1, <2>1 DEF vars, storage, others, Seat!vars, Fates
  <1>2. ASSUME NEW c \in Calls, NEW r \in Requests, NEW k \in Commands, Join(c, r, k)
        PROVE  Seat!Next
    BY <1>2, JoinSubmits DEF Seat!Next
  <1>3. ASSUME NEW c \in Calls, Commit(c)
        PROVE  Seat!Next
    <2>1. Seat!Commit(c, EventsOf[c]) /\ EventsOf[c] \in {EventsOf[d] : d \in Calls}
      BY <1>3, CommitCommits
    <2> QED
      BY <2>1 DEF Seat!Next
  <1>4. ASSUME NEW c \in Calls, Expire(c)
        PROVE  Seat!Next
    <2>1. /\ phase[c] = "running" /\ phase'[c] = "marking" /\ outcome'[c] = TimedOut
          /\ \A d \in Calls : d # c => phase'[d] = phase[d] /\ outcome'[d] = outcome[d]
          /\ UNCHANGED <<request, command, applied, state, dedup, seq, events>>
      BY <1>0, <1>4 DEF Expire, Goes, TypeOK, others, storage
    <2>2. ~Committed(c)
      BY <1>0, <2>1 DEF FrameInv
    <2> QED
      BY <2>1, <2>2, EndsReplayOrReject DEF Seat!Next
  <1>5. ASSUME NEW c \in Calls, Replay(c) \/ BodyFails(c)
        PROVE  Seat!Next
    <2>1. PICK o : /\ Settles(c, o)
                   /\ \/ o = Failed
                      \/ \E d \in dedup : /\ d.request = request[c] /\ d.command = command[c]
                                          /\ o = Resolved("replayed", d.result)
      BY <1>5 DEF Replay, BodyFails
    <2> QED
      BY <2>1, SettlesEnds DEF Seat!Next
  <1>6. ASSUME NEW c \in Calls, Refuse(c) \/ Evict(c) \/ Mark(c) \/ SectionFails(c)
        PROVE  Seat!Next
    BY <1>6, SectionEnds DEF Seat!Next
  <1>7. ASSUME NEW c \in Calls, NEW k,
               Start(c) \/ Look(c) \/ Create(c) \/ Receive(c) \/ Return(c) \/ Reads(c, k) \/ Publish(c)
        PROVE  Seat!Next
    BY <1>7, OthersStutter DEF Seat!Next
  <1>8. CASE Restart
    <2>1. /\ \A d \in Calls : phase[d] = "idle" <=> phase'[d] = "idle"
          /\ UNCHANGED <<request, command, outcome, applied, state, dedup, seq, events>>
      BY <1>8 DEF Restart, storage
    <2>2. Fates' = Fates
      BY <2>1, FatesStay
    <2> QED
      BY <2>1, <2>2, QuietSteps DEF Seat!Next, Memory
  <1> QED
    BY <1>1, <1>2, <1>3, <1>4, <1>5, <1>6, <1>7, <1>8 DEF Next, Body, Section

\* Every step of the object, its loss included, is a step of the contract or none.
THEOREM ObjectImplementsTheSeat == Spec => ImplementsActorSeat
  <1>1. Init => Seat!Init
    <2> SUFFICES ASSUME Init PROVE Seat!Init
      OBVIOUS
    <2>1. 1 .. seq = {} /\ seq = 0 /\ \A i \in 1 .. 0 : FALSE
      BY DEF Init
    <2>2. [i \in 1 .. seq |-> [seq |-> i - 1, call |-> events[i - 1].call,
                                kind |-> events[i - 1].kind]] = <<>>
      BY <2>1
    <2> QED
      BY <2>2 DEF Init, Seat!Init, Fate
  <1>2. Told /\ [Next]_vars => [Seat!Next]_(Seat!vars)
    BY StepsImplement
  <1> QED
    BY <1>1, <1>2, JournalInvariant, PTL DEF Spec, ImplementsActorSeat, Seat!Spec, Told
=============================================================================
