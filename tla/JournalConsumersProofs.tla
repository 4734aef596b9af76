------------------------- MODULE JournalConsumersProofs -------------------------
(***************************************************************************)
(* What the consumers of a journal are promised, for any number of         *)
(* consumers, events, lives and changes and any retention.                 *)
(***************************************************************************)
EXTENDS JournalConsumers, SequenceTheorems, WellFoundedInduction, TLAPS

-----------------------------------------------------------------------------
(* The inductive invariant *)

NoReads == {NoRead}
Reads == [provider : Providers, cursor : Positions]
JobType == [id : Nat, collected : BOOLEAN, todo : SUBSET Providers,
            reading : Reads \cup NoReads]

\* TypeOK, with the shape of a call of sync.
TypeInv ==
  /\ TypeOK
  /\ jobs \subseteq JobType

\* What a process has before its subscription, and what is left of a dead one.
FreshInv ==
  /\ ~subscribed => /\ delivered = 0 /\ position = 0 /\ tailed = 0
                    /\ batch = {} /\ event = NoEvent /\ gap = {} /\ fed = {}
                    /\ \A p \in Providers : offered[p] = 0 /\ given[p] = <<>>
  /\ ~up => /\ ~subscribed /\ jobs = {} /\ loaded = {}
            /\ \A p \in Providers : cursor[p] = 0

\* The tail loop: what it has read, up to tailed, is behind the event it dispatches,
\* is that event, or waits in the batch in order.
TailInv ==
  /\ position <= tailed /\ delivered <= tailed /\ tailed <= next
  /\ event # NoEvent => delivered <= event /\ event < tailed
  /\ \A s \in batch : s < tailed /\ (event # NoEvent => event < s)
  /\ \A s \in batch, t \in Seqs : s < t /\ t < tailed => t \in batch
  /\ event # NoEvent => \A t \in Seqs : event < t /\ t < tailed => t \in batch
  /\ \A s \in gap : s < floor

\* The provider that has the event was reached, and knows it was offered.
BusyInv ==
  /\ busy = Nobody <=> step = "none"
  /\ queue # {} => event # NoEvent
  /\ busy # Nobody => /\ event # NoEvent
                      /\ busy \in loaded /\ busy \notin queue
                      /\ offered[busy] = event + 1
  /\ step = "writing" => event \in handled[busy]

\* What has been reached by the event of the moment.
Reached(p) == event # NoEvent /\ p \notin queue

\* Nobody is given or offered an event before its turn, nor one that is behind it.
GivenInv ==
  \A p \in Providers :
    /\ offered[p] <= delivered \/ (Reached(p) /\ offered[p] = event + 1)
    /\ \A s \in Seqs : IsGiven(p, s) => s < offered[p]

\* A cursor in memory is unset, the persisted one of the start, or earned since.
CursorInv ==
  /\ \A p \in Providers : \/ cursor[p] \in {0, base[p]}
                          \/ cursor[p] <= offered[p]
  /\ up => \A p \in Providers \ loaded : store[p] = base[p]
  /\ \A job \in jobs : job.reading # NoRead =>
       job.reading.cursor \in {0, base[job.reading.provider]}

\* An event this life need not give to a provider, or has given or lost.
Covers(p, s) == s < base[p] \/ IsGiven(p, s) \/ s \in gap

\* An event that is still to come to a provider, for the first time.
Pending(p, s) == delivered <= s /\ (s \in batch \/ (s = event /\ p \in queue))

\* A subscriber is passed by nothing that was read.
FedInv ==
  /\ fed \subseteq providers
  /\ \A p \in fed, s \in Seqs : s < tailed => Covers(p, s) \/ Pending(p, s)

\* An event that was lost, or that a provider was offered or need not be.
Passed(p, s) ==
  s \in gap \/ s < offered[p] \/ s < cursor[p] \/ (cursor[p] = 0 /\ s < base[p])

\* What a subscriber was not offered was lost or lies below its cursor.
OfferedInv ==
  \A p \in fed, s \in Seqs : s < tailed => Passed(p, s) \/ Pending(p, s)

\* The provider that has the event was passed by nothing before it.
BusyCovered ==
  busy # Nobody /\ busy \notin late =>
    \A s \in Seqs : s <= event => Covers(busy, s)

\* Who does not throw has handled what it was given, but for what it is handling.
HandledInv ==
  \A p \in Providers \ Throwing : \A s \in Seqs :
    IsGiven(p, s) => s \in handled[p] \/ (busy = p /\ s = event /\ step = "handling")

\* A life starts with a cursor that skips nothing.
BaseInv ==
  \A p \in Providers \ (Throwing \cup late) : \A s \in Seqs :
    s < base[p] => s \in handled[p] \/ s < floor

LoopInv == FreshInv /\ TailInv /\ BusyInv /\ GivenInv /\ CursorInv

CoverInv == FedInv /\ OfferedInv /\ BusyCovered /\ HandledInv /\ BaseInv

\* The properties that are part of the induction.
PromiseInv ==
  OnceInOrder /\ CursorsAreEarned /\ SubscribersAreWarnedOfGaps /\ AtLeastOnce

IInv == TypeInv /\ LoopInv /\ CoverInv /\ PromiseInv

-----------------------------------------------------------------------------
(* What the steps have in common *)

LEMMA Numbers ==
  /\ MaxEvents \in Nat /\ MaxLen \in Nat
  /\ NoEvent \notin Seqs
  /\ Seqs \subseteq Nat /\ Positions \subseteq Nat /\ Seqs \subseteq Positions
  /\ \A s \in Seqs : s + 1 \in Positions /\ s + 1 # 0 /\ s + 1 - 1 = s
  /\ 0 \in Positions
  /\ Nobody \notin Providers /\ Throwing \subseteq Providers
  /\ NoRead \notin Reads
  <1>1. MaxEvents \in Nat /\ MaxLen \in Nat
    BY BoundsAssumption
  <1>2. Nobody \notin Providers /\ Throwing \subseteq Providers
    BY ThrowingAssumption
  <1>3. NoRead \notin Reads
    BY <1>2 DEF NoRead, Reads
  <1> QED
    BY <1>1, <1>2, <1>3 DEF NoEvent, Seqs, Positions

LEMMA EventIs ==
  ASSUME TypeInv, event # NoEvent
  PROVE  event \in Seqs /\ event \in Nat /\ event + 1 \in Positions
  BY Numbers DEF TypeInv, TypeOK

LEMMA JobShape ==
  \A job \in JobType : /\ job.todo \subseteq Providers /\ job.collected \in BOOLEAN
                       /\ job.reading # NoRead => /\ job.reading.provider \in Providers
                                                 /\ job.reading.cursor \in Positions
  BY DEF JobType, Reads, NoReads

\* The types that steps on the provider list touch.
LEMMA TypeKept ==
  ASSUME TypeInv, jobs' \subseteq JobType, bound' \subseteq Providers,
         providers' \subseteq Providers, loaded' \subseteq Providers, fed' \subseteq Providers,
         cursor' \in [Providers -> Positions], base' \in [Providers -> Positions],
         {subscribed', up'} \subseteq BOOLEAN, {lives', changes'} \subseteq Nat,
         orphaned' \in BOOLEAN,
         UNCHANGED <<next, floor, store, offered, delivered, position, batch, event, queue,
                     busy, step, handled, given, late, gap, tailed>>
  PROVE  TypeInv'
  <1>1. \A job \in jobs' : job.todo \subseteq Providers /\ job.collected \in BOOLEAN
    BY JobShape
  <1> QED
    BY <1>1 DEF TypeInv, TypeOK

\* Each part of the invariant, and each property, speaks of a few variables only.
LEMMA Kept ==
  ASSUME IInv
  PROVE  /\ UNCHANGED <<position, delivered, tailed, next, event, batch, gap, floor>> => TailInv'
         /\ UNCHANGED <<busy, step, queue, event, loaded, offered, handled>> => BusyInv'
         /\ UNCHANGED <<offered, delivered, event, queue, given>> => GivenInv'
         /\ UNCHANGED <<fed, providers, base, given, gap, batch, event, queue, tailed, delivered>>
              => FedInv'
         /\ UNCHANGED <<fed, gap, batch, event, queue, offered, cursor, base, tailed, delivered>>
              => OfferedInv'
         /\ UNCHANGED <<busy, late, event, base, given, gap>> => BusyCovered'
         /\ UNCHANGED <<given, handled, busy, event, step>> => HandledInv'
         /\ UNCHANGED <<late, base, handled, floor>> => BaseInv'
         /\ UNCHANGED given => OnceInOrder'
         /\ UNCHANGED <<store, handled>> => CursorsAreEarned'
         /\ UNCHANGED warnings => SubscribersAreWarnedOfGaps'
         /\ UNCHANGED <<store, handled, floor, late>> => AtLeastOnce'
  <1> USE DEF IInv, LoopInv, CoverInv, PromiseInv
  <1>1. UNCHANGED <<position, delivered, tailed, next, event, batch, gap, floor>> => TailInv'
    BY DEF TailInv
  <1>2. UNCHANGED <<busy, step, queue, event, loaded, offered, handled>> => BusyInv'
    BY DEF BusyInv
  <1>3. UNCHANGED <<offered, delivered, event, queue, given>> => GivenInv'
    BY DEF GivenInv, IsGiven, Reached
  <1>4. UNCHANGED <<fed, providers, base, given, gap, batch, event, queue, tailed, delivered>>
          => FedInv'
    BY DEF FedInv, Covers, Pending, IsGiven
  <1>5. UNCHANGED <<fed, gap, batch, event, queue, offered, cursor, base, tailed, delivered>>
          => OfferedInv'
    BY DEF OfferedInv, Passed, Pending
  <1>6. UNCHANGED <<busy, late, event, base, given, gap>> => BusyCovered'
    BY DEF BusyCovered, Covers, IsGiven
  <1>7. UNCHANGED <<given, handled, busy, event, step>> => HandledInv'
    BY DEF HandledInv, IsGiven
  <1>8. UNCHANGED <<late, base, handled, floor>> => BaseInv'
    BY DEF BaseInv
  <1>9. UNCHANGED given => OnceInOrder'
    BY DEF OnceInOrder
  <1>10. UNCHANGED <<store, handled>> => CursorsAreEarned'
    BY DEF CursorsAreEarned
  <1>11. UNCHANGED warnings => SubscribersAreWarnedOfGaps'
    BY DEF SubscribersAreWarnedOfGaps
  <1>12. UNCHANGED <<store, handled, floor, late>> => AtLeastOnce'
    BY DEF AtLeastOnce, NotSkipped
  <1> QED
    BY <1>1, <1>2, <1>3, <1>4, <1>5, <1>6, <1>7, <1>8, <1>9, <1>10, <1>11, <1>12

\* A process that calls sync is up.
LEMMA JobsAreUp ==
  ASSUME IInv, NEW job \in jobs
  PROVE  up /\ job \in JobType
  BY DEF IInv, TypeInv, LoopInv, FreshInv

-----------------------------------------------------------------------------
(* Redis and the process *)

LEMMA CommitSteps ==
  ASSUME IInv, CommitEvent
  PROVE  IInv'
  <1>1. /\ next < MaxEvents /\ next' = next + 1
        /\ floor' = IF MaxLen > 0 /\ next + 1 > floor + MaxLen THEN floor + 1 ELSE floor
        /\ UNCHANGED <<store, bound, jobs, providers, loaded, cursor, offered, subscribed,
                       delivered, position, batch, event, queue, busy, step, orphaned,
                       up, lives, changes, handled, given, warnings, late, gap, tailed,
                       base, fed>>
    BY DEF CommitEvent, host, tail, dispatch, process, told, read
  <1>2. next \in Nat /\ floor \in Nat /\ floor <= next /\ MaxEvents \in Nat
    BY Numbers DEF IInv, TypeInv, TypeOK
  <1>3. next' \in Positions /\ floor' \in Positions /\ floor' <= next'
        /\ next <= next' /\ floor <= floor'
    BY <1>1, <1>2, Numbers DEF Positions
  <1>4. TypeInv'
    BY <1>1, <1>3 DEF IInv, TypeInv, TypeOK
  <1>5. FreshInv' /\ CursorInv'
    BY <1>1 DEF IInv, LoopInv, FreshInv, CursorInv
  <1>6. TailInv'
    <2>1. TailInv /\ tailed \in Nat /\ gap \subseteq Nat
      BY Numbers DEF IInv, LoopInv, TypeInv, TypeOK
    <2> QED
      BY <1>1, <1>2, <1>3, <2>1, Numbers DEF TailInv
  <1>7. BaseInv' /\ AtLeastOnce'
    <2>1. \A s \in Seqs : s < floor => s < floor'
      BY <1>1, <1>2, Numbers
    <2>2. BaseInv'
      BY <1>1, <2>1 DEF IInv, CoverInv, BaseInv
    <2>3. AtLeastOnce'
      BY <1>1, <2>1 DEF IInv, PromiseInv, AtLeastOnce, NotSkipped
    <2> QED
      BY <2>2, <2>3
  <1> QED
    BY <1>1, <1>4, <1>5, <1>6, <1>7, Kept DEF IInv, LoopInv, CoverInv, PromiseInv

LEMMA BootSteps ==
  ASSUME IInv, Boot
  PROVE  IInv'
  <1>1. /\ ~up /\ up' = TRUE /\ lives' = lives + 1
        /\ bound' \in SUBSET Providers
        /\ jobs' = {Job(0, bound')}
        /\ base' = store
        /\ UNCHANGED <<next, floor, store, changes, providers, loaded, cursor, offered,
                       subscribed, delivered, position, batch, event, queue, busy, step,
                       orphaned, handled, given, warnings, late, gap, tailed, fed>>
    BY DEF Boot, redis, tail, dispatch, told, read
  <1>2. /\ ~subscribed /\ loaded = {} /\ tailed = 0 /\ fed = {} /\ event = NoEvent
        /\ \A p \in Providers : cursor[p] = 0
    BY <1>1 DEF IInv, LoopInv, FreshInv
  <1>3. Job(0, bound') \in JobType
    BY <1>1 DEF Job, JobType, NoReads
  <1>4. TypeInv'
    BY <1>1, <1>3, TypeKept DEF IInv, TypeInv, TypeOK
  <1>5. FreshInv' /\ FedInv' /\ OfferedInv'
    BY <1>1, <1>2 DEF IInv, LoopInv, FreshInv, FedInv, OfferedInv
  <1>6. CursorInv'
    BY <1>1, <1>2 DEF CursorInv, Job
  <1>7. BusyCovered'
    BY <1>1, <1>2 DEF IInv, LoopInv, BusyInv, BusyCovered
  <1>8. BaseInv'
    BY <1>1 DEF IInv, PromiseInv, AtLeastOnce, NotSkipped, BaseInv
  <1> QED
    BY <1>1, <1>4, <1>5, <1>6, <1>7, <1>8, Kept DEF IInv, LoopInv, CoverInv, PromiseInv

LEMMA CrashSteps ==
  ASSUME IInv, Crash
  PROVE  IInv'
  <1>1. /\ up' = FALSE
        /\ bound' = {} /\ jobs' = {} /\ providers' = {} /\ loaded' = {}
        /\ cursor' = [p \in Providers |-> 0]
        /\ offered' = [p \in Providers |-> 0]
        /\ subscribed' = FALSE /\ delivered' = 0 /\ position' = 0 /\ batch' = {}
        /\ event' = NoEvent /\ queue' = {} /\ busy' = Nobody /\ step' = "none"
        /\ orphaned' = FALSE
        /\ given' = [p \in Providers |-> <<>>]
        /\ gap' = {} /\ tailed' = 0 /\ fed' = {}
        /\ UNCHANGED <<next, floor, store, lives, changes, handled, warnings, late, base>>
    BY DEF Crash, redis
  <1>2. TypeInv'
    <2>1. <<>> \in Seq(Seqs)
      OBVIOUS
    <2>2. event' \in Seqs \cup {NoEvent}
      BY <1>1
    <2> QED
      BY <1>1, <2>1, <2>2, Numbers DEF IInv, TypeInv, TypeOK
  <1>3. \A p \in Providers, s \in Seqs : ~IsGiven(p, s)'
    BY <1>1 DEF IsGiven
  <1>4. FreshInv' /\ BusyInv' /\ CursorInv'
    BY <1>1 DEF FreshInv, BusyInv, CursorInv
  <1>5. TailInv'
    BY <1>1, Numbers DEF TailInv, IInv, TypeInv, TypeOK
  <1>6. GivenInv' /\ HandledInv'
    BY <1>1, <1>3 DEF GivenInv, HandledInv
  <1>7. FedInv' /\ OfferedInv' /\ BusyCovered' /\ OnceInOrder'
    BY <1>1 DEF FedInv, OfferedInv, BusyCovered, OnceInOrder
  <1> QED
    BY <1>1, <1>2, <1>4, <1>5, <1>6, <1>7, Kept DEF IInv, LoopInv, CoverInv, PromiseInv

-----------------------------------------------------------------------------
(* The provider list *)

LEMMA ChangeSteps ==
  ASSUME IInv, NEW p \in Providers, Change(p)
  PROVE  IInv'
  <1>1. /\ up /\ changes' = changes + 1
        /\ bound' = IF p \in bound THEN bound \ {p} ELSE bound \cup {p}
        /\ jobs' = jobs \cup {Job(changes + 1, bound')}
        /\ UNCHANGED <<next, floor, store, up, lives, providers, loaded, cursor, offered,
                       subscribed, delivered, position, batch, event, queue, busy, step,
                       orphaned, handled, given, warnings, late, gap, tailed, base, fed>>
    BY DEF Change, redis, tail, dispatch, told, read
  <1>2. changes + 1 \in Nat /\ bound' \subseteq Providers
    BY <1>1 DEF IInv, TypeInv, TypeOK
  <1>3. Job(changes + 1, bound') \in JobType
    BY <1>2 DEF Job, JobType, NoReads
  <1>4. TypeInv'
    BY <1>1, <1>2, <1>3, TypeKept DEF IInv, TypeInv, TypeOK
  <1>5. FreshInv'
    BY <1>1 DEF IInv, LoopInv, FreshInv
  <1>6. CursorInv'
    <2>1. Job(changes + 1, bound').reading = NoRead
      BY DEF Job
    <2> QED
      BY <1>1, <2>1 DEF IInv, LoopInv, CursorInv
  <1> QED
    BY <1>1, <1>4, <1>5, <1>6, Kept DEF IInv, LoopInv, CoverInv, PromiseInv

LEMMA CollectedSteps ==
  ASSUME IInv, NEW job \in jobs, Collected(job)
  PROVE  IInv'
  <1>1. PICK list \in SUBSET job.todo :
          /\ jobs' = (jobs \ {job}) \cup {[job EXCEPT !.collected = TRUE, !.todo = list]}
          /\ providers' = list
          /\ fed' = fed \cap list
    BY DEF Collected, Replace
  <1>2. UNCHANGED <<next, floor, store, bound, loaded, cursor, offered, subscribed,
                    delivered, position, batch, event, queue, busy, step, orphaned, up,
                    lives, changes, handled, given, warnings, late, gap, tailed, base>>
    BY DEF Collected, redis, tail, dispatch, process, told, read
  <1> DEFINE new == [job EXCEPT !.collected = TRUE, !.todo = list]
  <1>3. up /\ job \in JobType
    BY JobsAreUp
  <1>4. list \subseteq Providers
    BY <1>3 DEF JobType
  <1>5. new \in JobType /\ new.reading = job.reading
    BY <1>3, <1>4 DEF JobType
  <1>6. jobs' = (jobs \ {job}) \cup {new}
    BY <1>1
  <1> HIDE DEF new
  <1>7. TypeInv'
    BY <1>1, <1>2, <1>4, <1>5, <1>6, TypeKept DEF IInv, TypeInv, TypeOK
  <1>8. FreshInv' /\ CursorInv'
    BY <1>1, <1>2, <1>3, <1>5, <1>6 DEF IInv, LoopInv, FreshInv, CursorInv
  <1>9. FedInv'
    BY <1>1, <1>2 DEF IInv, CoverInv, FedInv, Covers, Pending, IsGiven
  <1>10. OfferedInv'
    BY <1>1, <1>2 DEF IInv, CoverInv, OfferedInv, Passed, Pending
  <1> QED
    BY <1>2, <1>7, <1>8, <1>9, <1>10, Kept DEF IInv, LoopInv, CoverInv, PromiseInv

LEMMA ReadCursorsSteps ==
  ASSUME IInv, NEW job \in jobs, NEW p \in Providers, ReadCursors(job, p)
  PROVE  IInv'
  <1>1. PICK n \in {0, store[p]} :
          jobs' = (jobs \ {job}) \cup {[job EXCEPT !.reading = [provider |-> p, cursor |-> n]]}
    BY DEF ReadCursors, Replace
  <1>2. /\ p \notin loaded
        /\ UNCHANGED <<next, floor, store, bound, providers, loaded, cursor, offered,
                       subscribed, delivered, position, batch, event, queue, busy, step,
                       orphaned, up, lives, changes, handled, given, warnings, late, gap,
                       tailed, base, fed>>
    BY DEF ReadCursors, redis, tail, dispatch, process, told, read
  <1> DEFINE new == [job EXCEPT !.reading = [provider |-> p, cursor |-> n]]
  <1>3. up /\ job \in JobType
    BY JobsAreUp
  <1>4. n \in Positions /\ n \in {0, base[p]}
    <2>1. store[p] \in Positions /\ store[p] = base[p]
      BY <1>2, <1>3 DEF IInv, LoopInv, CursorInv, TypeInv, TypeOK
    <2> QED
      BY <2>1, Numbers
  <1>5. new \in JobType /\ new.reading.provider = p /\ new.reading.cursor = n
    BY <1>3, <1>4 DEF JobType, Reads
  <1>6. jobs' = (jobs \ {job}) \cup {new}
    BY <1>1
  <1> HIDE DEF new
  <1>7. TypeInv'
    BY <1>2, <1>5, <1>6, TypeKept DEF IInv, TypeInv, TypeOK
  <1>8. FreshInv' /\ CursorInv'
    BY <1>2, <1>3, <1>4, <1>5, <1>6 DEF IInv, LoopInv, FreshInv, CursorInv
  <1> QED
    BY <1>2, <1>7, <1>8, Kept DEF IInv, LoopInv, CoverInv, PromiseInv

LEMMA StoreCursorsSteps ==
  ASSUME IInv, NEW job \in jobs, StoreCursors(job)
  PROVE  IInv'
  <1> DEFINE q == job.reading.provider
             n == job.reading.cursor
             new == [job EXCEPT !.reading = NoRead, !.todo = job.todo \ {q}]
  <1>1. /\ job.reading # NoRead
        /\ cursor' = [cursor EXCEPT ![q] = n]
        /\ loaded' = loaded \cup {q}
        /\ orphaned' = (orphaned \/ busy = q)
        /\ jobs' = (jobs \ {job}) \cup {new}
        /\ UNCHANGED <<next, floor, store, bound, providers, offered, subscribed, delivered,
                       position, batch, event, queue, busy, step, up, lives, changes,
                       handled, given, warnings, late, gap, tailed, base, fed>>
    BY DEF StoreCursors, Replace, redis, tail, process, told, read
  <1>2. up /\ job \in JobType
    BY JobsAreUp
  <1>3. q \in Providers /\ n \in Positions
    BY <1>1, <1>2, JobShape
  <1>4. n \in {0, base[q]}
    BY <1>1 DEF IInv, LoopInv, CursorInv
  <1>5. new \in JobType /\ new.reading = NoRead
    BY <1>2 DEF JobType, NoReads
  <1> HIDE DEF q, n, new
  <1>6. cursor' \in [Providers -> Positions] /\ \A p \in Providers : cursor'[p] = IF p = q THEN n ELSE cursor[p]
    BY <1>1, <1>3 DEF IInv, TypeInv, TypeOK
  <1>7. TypeInv'
    <2>1. orphaned' \in BOOLEAN
      BY <1>1
    <2> QED
      BY <1>1, <1>3, <1>5, <1>6, <2>1, TypeKept DEF IInv, TypeInv, TypeOK
  <1>8. FreshInv'
    BY <1>1, <1>2 DEF IInv, LoopInv, FreshInv
  <1>9. CursorInv'
    BY <1>1, <1>4, <1>5, <1>6 DEF IInv, LoopInv, CursorInv
  <1>10. BusyInv'
    BY <1>1 DEF IInv, LoopInv, BusyInv
  <1>11. OfferedInv'
    <2> SUFFICES ASSUME NEW p \in fed, NEW s \in Seqs, s < tailed, ~Pending(p, s)
                 PROVE  Passed(p, s)'
      BY <1>1 DEF OfferedInv, Pending
    <2>1. p \in Providers /\ s \in Nat /\ cursor[p] \in Nat /\ base[p] \in Nat /\ offered[p] \in Nat
      BY Numbers DEF IInv, TypeInv, TypeOK
    <2>2. Passed(p, s)
      BY DEF IInv, CoverInv, OfferedInv
    <2>3. cursor[p] = 0 \/ cursor[p] = base[p] \/ cursor[p] <= offered[p]
      BY <2>1 DEF IInv, LoopInv, CursorInv
    <2>4. CASE p # q
      BY <1>1, <1>6, <2>1, <2>2, <2>4 DEF Passed
    <2>5. CASE p = q
      BY <1>1, <1>4, <1>6, <2>1, <2>2, <2>3, <2>5 DEF Passed
    <2> QED
      BY <2>4, <2>5
  <1> QED
    BY <1>1, <1>7, <1>8, <1>9, <1>10, <1>11, Kept DEF IInv, LoopInv, CoverInv, PromiseInv

LEMMA SyncedSteps ==
  ASSUME IInv, NEW job \in jobs, Synced(job)
  PROVE  IInv'
  <1>1. /\ jobs' = jobs \ {job}
        /\ UNCHANGED <<next, floor, store, bound, providers, loaded, cursor, offered,
                       delivered, position, batch, event, queue, busy, step, orphaned, up,
                       lives, changes, handled, given, warnings, late, gap, tailed, base>>
    BY DEF Synced, redis, dispatch, process, told, read
  <1>2. \/ UNCHANGED <<subscribed, fed>>
        \/ ~subscribed /\ subscribed' = TRUE /\ fed' = providers
    BY DEF Synced
  <1>3. up
    BY JobsAreUp
  <1>4. TypeInv'
    BY <1>1, <1>2, TypeKept DEF IInv, TypeInv, TypeOK
  <1>5. FreshInv'
    BY <1>1, <1>2, <1>3 DEF IInv, LoopInv, FreshInv
  <1>6. CursorInv'
    BY <1>1 DEF IInv, LoopInv, CursorInv
  <1>7. FedInv' /\ OfferedInv'
    <2>1. CASE UNCHANGED <<subscribed, fed>>
      BY <1>1, <2>1, Kept
    <2>2. CASE ~subscribed /\ fed' = providers
      <3>1. tailed' = 0
        BY <1>1, <2>2 DEF IInv, LoopInv, FreshInv
      <3>2. \A s \in Seqs : ~(s < tailed')
        BY <3>1, Numbers
      <3> QED
        BY <1>1, <2>2, <3>2 DEF FedInv, OfferedInv
    <2> QED
      BY <1>2, <2>1, <2>2
  <1> QED
    BY <1>1, <1>4, <1>5, <1>6, <1>7, Kept DEF IInv, LoopInv, CoverInv, PromiseInv

-----------------------------------------------------------------------------
(* The tail loop *)

\* Between two events nobody has one.
LEMMA NobodyBusy ==
  ASSUME IInv, Idle
  PROVE  /\ subscribed /\ up /\ event = NoEvent /\ busy = Nobody /\ queue = {}
         /\ \A p, s : s \in Seqs => ~(s = event /\ p \in queue)
  BY DEF IInv, LoopInv, FreshInv, BusyInv, Idle

\* The types that the tail loop touches.
LEMMA TailTyped ==
  ASSUME TypeInv, {delivered', position', tailed'} \subseteq Positions,
         batch' \subseteq Seqs, gap' \subseteq Seqs, event' \in Seqs \cup {NoEvent},
         queue' \subseteq Providers,
         UNCHANGED <<next, floor, store, bound, jobs, providers, loaded, cursor, offered,
                     subscribed, busy, step, orphaned, up, lives, changes, handled, given,
                     late, base, fed>>
  PROVE  TypeInv'
  BY DEF TypeInv, TypeOK

LEMMA ReadSteps ==
  ASSUME IInv, Read
  PROVE  IInv'
  <1>1. /\ Idle /\ batch = {}
        /\ batch' = {s \in floor..(next - 1) : s >= position}
        /\ position' = next /\ tailed' = next
        /\ gap' = gap \cup {s \in 0..next : tailed <= s /\ s < floor}
        /\ UNCHANGED <<next, floor, store, bound, jobs, providers, loaded, cursor, offered,
                       subscribed, delivered, event, queue, busy, step, orphaned, up, lives,
                       changes, handled, given, warnings, late, base, fed>>
    BY DEF Read, redis, host, dispatch, process, told
  <1>2. /\ next \in 0 .. MaxEvents /\ floor \in Nat /\ floor <= next /\ MaxEvents \in Nat
        /\ position \in Nat /\ tailed \in Nat /\ delivered \in Nat
        /\ position <= tailed /\ delivered <= tailed /\ tailed <= next
    BY Numbers DEF IInv, LoopInv, TailInv, TypeInv, TypeOK, Positions
  <1>3. /\ subscribed /\ up /\ event = NoEvent /\ busy = Nobody /\ queue = {}
        /\ \A p, s : s \in Seqs => ~(s = event /\ p \in queue)
    BY <1>1, NobodyBusy
  <1>4. batch' \subseteq Seqs /\ gap' \subseteq Seqs
    <2>1. gap \subseteq Seqs
      BY DEF IInv, TypeInv, TypeOK
    <2>2. \A s \in 0 .. next : s < floor => s \in Seqs
      BY <1>2 DEF Seqs
    <2>3. \A s \in floor .. (next - 1) : s \in Seqs
      BY <1>2 DEF Seqs
    <2> QED
      BY <1>1, <2>1, <2>2, <2>3
  <1>5. TypeInv'
    BY <1>1, <1>4, TailTyped DEF IInv, TypeInv, TypeOK
  <1>6. FreshInv'
    BY <1>1, <1>3 DEF IInv, LoopInv, FreshInv
  <1>7. TailInv'
    <2>1. \A s \in batch' : s < tailed'
      BY <1>1, <1>2
    <2>2. \A s \in batch', t \in Seqs : s < t /\ t < tailed' => t \in batch'
      BY <1>1, <1>2 DEF Seqs
    <2>3. \A s \in gap' : s < floor'
      BY <1>1 DEF IInv, LoopInv, TailInv
    <2> QED
      BY <1>1, <1>2, <1>3, <2>1, <2>2, <2>3 DEF TailInv
  \* What was not read before is read now, or lost.
  <1>8. ASSUME NEW s \in Seqs, s < tailed', ~(s < tailed)
        PROVE  s \in gap' \/ (s \in batch' /\ delivered' <= s)
    <2>1. s \in 0 .. MaxEvents /\ s <= next - 1 /\ tailed <= s
      BY <1>1, <1>2, <1>8 DEF Seqs
    <2>2. CASE s < floor
      BY <1>1, <1>2, <2>1, <2>2
    <2>3. CASE ~(s < floor)
      BY <1>1, <1>2, <2>1, <2>3
    <2> QED
      BY <2>2, <2>3
  <1>9. \A p, s : s \in Seqs => ~Pending(p, s)
    BY <1>1, <1>3 DEF Pending
  <1>10. FedInv'
    <2> SUFFICES ASSUME NEW p \in fed, NEW s \in Seqs, s < tailed'
                 PROVE  Covers(p, s)' \/ Pending(p, s)'
      BY <1>1 DEF IInv, CoverInv, FedInv
    <2>1. CASE s < tailed
      <3>1. Covers(p, s)
        BY <1>9, <2>1 DEF IInv, CoverInv, FedInv
      <3> QED
        BY <1>1, <3>1 DEF Covers, IsGiven
    <2>2. CASE ~(s < tailed)
      BY <1>8, <2>2 DEF Covers, Pending
    <2> QED
      BY <2>1, <2>2
  <1>11. OfferedInv'
    <2> SUFFICES ASSUME NEW p \in fed, NEW s \in Seqs, s < tailed'
                 PROVE  Passed(p, s)' \/ Pending(p, s)'
      BY <1>1 DEF OfferedInv
    <2>1. CASE s < tailed
      <3>1. Passed(p, s)
        BY <1>9, <2>1 DEF IInv, CoverInv, OfferedInv
      <3> QED
        BY <1>1, <3>1 DEF Passed
    <2>2. CASE ~(s < tailed)
      BY <1>8, <2>2 DEF Passed, Pending
    <2> QED
      BY <2>1, <2>2
  <1>12. BusyCovered' /\ CursorInv'
    BY <1>1, <1>3 DEF BusyCovered, IInv, LoopInv, CursorInv
  <1> QED
    BY <1>1, <1>5, <1>6, <1>7, <1>10, <1>11, <1>12, Kept DEF IInv, LoopInv, CoverInv, PromiseInv

LEMMA ReadFailsSteps ==
  ASSUME IInv, ReadFails
  PROVE  IInv'
  <1>1. /\ Idle /\ position' = 0
        /\ UNCHANGED <<next, floor, store, bound, jobs, providers, loaded, cursor, offered,
                       subscribed, delivered, batch, event, queue, busy, step, orphaned, up,
                       lives, changes, handled, given, warnings, late, gap, tailed, base, fed>>
    BY DEF ReadFails, redis, host, dispatch, process, told, read
  <1>2. TypeInv'
    BY <1>1, TailTyped, Numbers DEF IInv, TypeInv, TypeOK
  <1>3. FreshInv' /\ CursorInv'
    BY <1>1 DEF IInv, LoopInv, FreshInv, CursorInv
  <1>4. TailInv'
    <2>1. tailed \in Nat
      BY Numbers DEF IInv, TypeInv, TypeOK
    <2> QED
      BY <1>1, <2>1 DEF IInv, LoopInv, TailInv
  <1> QED
    BY <1>1, <1>2, <1>3, <1>4, Kept DEF IInv, LoopInv, CoverInv, PromiseInv

\* A set of numbers has a least one.
LEMMA Least ==
  ASSUME NEW T, T \subseteq Nat, T # {}
  PROVE  \E m \in T : \A n \in T : m <= n
  <1> DEFINE R == OpToRel(<, Nat)
  <1>1. PICK m \in T : \A n \in T : ~(<<n, m>> \in R)
    <2>1. IsWellFoundedOn(R, Nat)
      BY NatLessThanWellFounded
    <2> HIDE DEF R
    <2> QED
      BY <2>1, WFMin, Zenon
  <1>2. \A n \in T : ~(n < m)
    BY <1>1 DEF OpToRel
  <1> QED
    BY <1>2

LEMMA EarliestIsLeast ==
  ASSUME TypeInv
  PROVE  /\ EarliestCursor \in Nat
         /\ providers # {} => \A p \in providers : EarliestCursor <= cursor[p]
  <1> DEFINE T == {cursor[p] : p \in providers}
  <1>1. CASE providers = {}
    BY <1>1 DEF EarliestCursor
  <1>2. CASE providers # {}
    <2>1. T \subseteq Nat /\ T # {}
      <3>1. \A p \in providers : cursor[p] \in Nat
        BY Numbers DEF TypeInv, TypeOK
      <3> QED
        BY <1>2, <3>1
    <2>2. \E m \in T : \A n \in T : m <= n
      <3> HIDE DEF T
      <3> QED
        BY <2>1, Least
    <2>3. \E m \in T : \A p \in providers : m <= cursor[p]
      BY <2>2
    <2>4. EarliestCursor = CHOOSE m \in T : \A p \in providers : m <= cursor[p]
      BY <1>2 DEF EarliestCursor
    <2>5. EarliestCursor \in T /\ \A p \in providers : EarliestCursor <= cursor[p]
      <3> HIDE DEF T
      <3> QED
        BY <2>3, <2>4, Zenon
    <2> QED
      BY <2>1, <2>5
  <1> QED
    BY <1>1, <1>2

\* An entry that is skipped is behind every subscriber's cursor, or was passed before.
LEMMA SkipSteps ==
  ASSUME IInv, Idle, NEW s \in batch, \A t \in batch : s <= t, batch' = batch \ {s},
         s < From,
         UNCHANGED <<next, floor, store, bound, jobs, providers, loaded, cursor, offered,
                     subscribed, delivered, position, event, queue, busy, step, orphaned, up,
                     lives, changes, handled, given, warnings, late, gap, tailed, base, fed>>
  PROVE  IInv'
  <1>1. /\ subscribed /\ up /\ event = NoEvent /\ busy = Nobody /\ queue = {}
        /\ \A p, t : t \in Seqs => ~(t = event /\ p \in queue)
    BY NobodyBusy
  <1>2. s \in Seqs /\ s \in Nat /\ delivered \in Nat
    BY Numbers DEF IInv, TypeInv, TypeOK
  <1>3. TypeInv'
    BY TailTyped DEF IInv, TypeInv, TypeOK
  <1>4. FreshInv' /\ CursorInv' /\ TailInv'
    <2>1. \A u \in batch', t \in Seqs : u < t /\ t < tailed => t \in batch'
      <3> SUFFICES ASSUME NEW u \in batch', NEW t \in Seqs, u < t, t < tailed
                   PROVE  t \in batch /\ t # s
        OBVIOUS
      <3>1. t \in batch /\ u \in Nat /\ t \in Nat /\ s <= u
        BY Numbers DEF IInv, LoopInv, TailInv, TypeInv, TypeOK
      <3> QED
        BY <1>2, <3>1
    <2>2. TailInv'
      BY <1>1, <2>1 DEF IInv, LoopInv, TailInv
    <2> QED
      BY <1>1, <2>2 DEF IInv, LoopInv, FreshInv, CursorInv
  <1>5. \A p, t : Pending(p, t) /\ t # s => Pending(p, t)'
    BY DEF Pending
  <1>6. ASSUME NEW p \in fed, delivered <= s
        PROVE  s < cursor[p] /\ s < base[p]
    <2>1. delivered = 0
      BY <1>2, <1>6 DEF From
    <2>2. p \in providers /\ p \in Providers
      BY DEF IInv, CoverInv, FedInv, TypeInv, TypeOK
    <2>3. cursor[p] \in Nat /\ base[p] \in Nat /\ offered[p] \in Nat
      BY <2>2, Numbers DEF IInv, TypeInv, TypeOK
    <2>4. EarliestCursor \in Nat /\ EarliestCursor <= cursor[p] /\ s < EarliestCursor
      BY <2>1, <2>2, EarliestIsLeast DEF IInv, From
    <2>5. offered[p] = 0
      BY <1>1, <2>1, <2>2, <2>3 DEF IInv, LoopInv, GivenInv, Reached
    <2>6. cursor[p] \in {0, base[p]} \/ cursor[p] <= offered[p]
      BY <2>2 DEF IInv, LoopInv, CursorInv
    <2> QED
      BY <1>2, <2>3, <2>4, <2>5, <2>6
  <1>7. FedInv'
    <2> SUFFICES ASSUME NEW p \in fed, NEW t \in Seqs, t < tailed
                 PROVE  Covers(p, t)' \/ Pending(p, t)'
      BY DEF IInv, CoverInv, FedInv
    <2>1. Covers(p, t) \/ Pending(p, t)
      BY DEF IInv, CoverInv, FedInv
    <2>2. Covers(p, t) => Covers(p, t)'
      BY DEF Covers, IsGiven
    <2>3. Pending(p, s) => Covers(p, s)'
      BY <1>6 DEF Pending, Covers
    <2> QED
      BY <1>5, <2>1, <2>2, <2>3
  <1>8. OfferedInv'
    <2> SUFFICES ASSUME NEW p \in fed, NEW t \in Seqs, t < tailed
                 PROVE  Passed(p, t)' \/ Pending(p, t)'
      BY DEF OfferedInv
    <2>1. Passed(p, t) \/ Pending(p, t)
      BY DEF IInv, CoverInv, OfferedInv
    <2>2. Passed(p, t) => Passed(p, t)'
      BY DEF Passed
    <2>3. Pending(p, s) => Passed(p, s)'
      BY <1>6 DEF Pending, Passed
    <2> QED
      BY <1>5, <2>1, <2>2, <2>3
  <1> QED
    BY <1>3, <1>4, <1>7, <1>8, Kept DEF IInv, LoopInv, CoverInv, PromiseInv

\* An entry that is dispatched is the oldest one in the batch, and to come to everyone.
LEMMA OnwardSteps ==
  ASSUME IInv, Idle, NEW s \in batch, \A t \in batch : s <= t, batch' = batch \ {s},
         ~(s < From), event' = s, queue' = providers,
         UNCHANGED <<next, floor, store, bound, jobs, providers, loaded, cursor, offered,
                     subscribed, delivered, position, busy, step, orphaned, up, lives,
                     changes, handled, given, warnings, late, gap, tailed, base, fed>>
  PROVE  IInv'
  <1>1. /\ subscribed /\ up /\ event = NoEvent /\ busy = Nobody /\ queue = {}
        /\ \A p, t : t \in Seqs => ~(t = event /\ p \in queue)
    BY NobodyBusy
  <1>2. s \in Seqs /\ s \in Nat /\ delivered \in Nat /\ batch \subseteq Nat /\ s # NoEvent
    BY Numbers DEF IInv, TypeInv, TypeOK
  <1>3. TypeInv'
    BY <1>2, TailTyped DEF IInv, TypeInv, TypeOK
  <1>4. FreshInv' /\ CursorInv'
    BY <1>1 DEF IInv, LoopInv, FreshInv, CursorInv
  <1>5. delivered <= s
    BY <1>2 DEF From
  <1>6. TailInv'
    <2>1. \A t \in batch' : t < tailed' /\ s < t
      BY <1>2 DEF IInv, LoopInv, TailInv
    <2>2. \A u \in batch', t \in Seqs : u < t /\ t < tailed' => t \in batch'
      <3> SUFFICES ASSUME NEW u \in batch', NEW t \in Seqs, u < t, t < tailed'
                   PROVE  t \in batch /\ t # s
        OBVIOUS
      <3>1. t \in batch
        BY DEF IInv, LoopInv, TailInv
      <3> QED
        BY <1>2, <2>1, <3>1
    <2>3. \A t \in Seqs : s < t /\ t < tailed' => t \in batch'
      <3> SUFFICES ASSUME NEW t \in Seqs, s < t, t < tailed'
                   PROVE  t \in batch /\ t # s
        OBVIOUS
      <3>1. t \in batch
        BY DEF IInv, LoopInv, TailInv
      <3> QED
        BY <1>2, <3>1
    <2>4. s < tailed
      BY DEF IInv, LoopInv, TailInv
    <2> QED
      BY <1>1, <1>5, <2>1, <2>2, <2>3, <2>4 DEF IInv, LoopInv, TailInv
  <1>7. BusyInv'
    BY <1>1, <1>2 DEF IInv, LoopInv, BusyInv
  <1>8. GivenInv'
    BY <1>1 DEF IInv, LoopInv, GivenInv, Reached, IsGiven
  <1>9. ASSUME NEW p \in fed, NEW t, Pending(p, t), t \in Seqs
        PROVE  Pending(p, t)'
    <2>1. p \in providers
      BY DEF IInv, CoverInv, FedInv
    <2> QED
      BY <1>1, <1>9, <2>1 DEF Pending
  <1>10. FedInv'
    <2> SUFFICES ASSUME NEW p \in fed, NEW t \in Seqs, t < tailed
                 PROVE  Covers(p, t)' \/ Pending(p, t)'
      BY DEF IInv, CoverInv, FedInv
    <2>1. Covers(p, t) \/ Pending(p, t)
      BY DEF IInv, CoverInv, FedInv
    <2>2. Covers(p, t) => Covers(p, t)'
      BY DEF Covers, IsGiven
    <2> QED
      BY <1>9, <2>1, <2>2
  <1>11. OfferedInv'
    <2> SUFFICES ASSUME NEW p \in fed, NEW t \in Seqs, t < tailed
                 PROVE  Passed(p, t)' \/ Pending(p, t)'
      BY DEF OfferedInv
    <2>1. Passed(p, t) \/ Pending(p, t)
      BY DEF IInv, CoverInv, OfferedInv
    <2>2. Passed(p, t) => Passed(p, t)'
      BY DEF Passed
    <2> QED
      BY <1>9, <2>1, <2>2
  <1>12. BusyCovered' /\ HandledInv'
    <2>1. \A p \in Providers : busy # p
      BY <1>1, Numbers
    <2> QED
      BY <1>1, <2>1, Numbers DEF BusyCovered, IInv, CoverInv, HandledInv, IsGiven
  <1> QED
    BY <1>3, <1>4, <1>6, <1>7, <1>8, <1>10, <1>11, <1>12, Kept
       DEF IInv, LoopInv, CoverInv, PromiseInv

LEMMA OfferSteps ==
  ASSUME IInv, Offer
  PROVE  IInv'
  <1>1. UNCHANGED <<next, floor, store, bound, jobs, providers, loaded, cursor, offered,
                    subscribed, delivered, position, busy, step, orphaned, up, lives,
                    changes, handled, given, warnings, late, gap, tailed, base, fed>>
    BY DEF Offer, redis, host, process, told, read
  <1>2. PICK s \in batch : /\ \A t \in batch : s <= t
                           /\ batch' = batch \ {s}
                           /\ IF s < From THEN UNCHANGED <<event, queue>>
                                          ELSE event' = s /\ queue' = providers
    BY DEF Offer
  <1>3. Idle
    BY DEF Offer
  <1>4. CASE s < From
    BY <1>1, <1>2, <1>3, <1>4, SkipSteps
  <1>5. CASE ~(s < From)
    BY <1>1, <1>2, <1>3, <1>5, OnwardSteps
  <1> QED
    BY <1>4, <1>5

LEMMA DeliveredSteps ==
  ASSUME IInv, Delivered
  PROVE  IInv'
  <1>1. /\ event # NoEvent /\ queue = {} /\ busy = Nobody
        /\ delivered' = event + 1 /\ event' = NoEvent
        /\ UNCHANGED <<next, floor, store, bound, jobs, providers, loaded, cursor, offered,
                       subscribed, position, batch, queue, busy, step, orphaned, up, lives,
                       changes, handled, given, warnings, late, gap, tailed, base, fed>>
    BY DEF Delivered, redis, host, process, told, read
  <1>2. /\ event \in Seqs /\ event \in Nat /\ event + 1 \in Positions
        /\ delivered \in Nat /\ tailed \in Nat /\ batch \subseteq Nat
        /\ delivered <= event /\ event < tailed
        /\ \A t \in batch : event < t
    BY <1>1, EventIs, Numbers DEF IInv, TypeInv, TypeOK, LoopInv, TailInv
  <1>3. TypeInv'
    BY <1>1, <1>2, TailTyped DEF IInv, TypeInv, TypeOK
  <1>4. FreshInv' /\ CursorInv'
    BY <1>1 DEF IInv, LoopInv, FreshInv, CursorInv
  <1>5. TailInv'
    <2>1. delivered' <= tailed'
      BY <1>1, <1>2
    <2> QED
      BY <1>1, <2>1 DEF IInv, LoopInv, TailInv
  <1>6. BusyInv'
    BY <1>1, Numbers DEF IInv, LoopInv, BusyInv
  <1>7. GivenInv'
    <2> SUFFICES ASSUME NEW p \in Providers
                 PROVE  /\ offered[p] <= event + 1
                        /\ \A s \in Seqs : IsGiven(p, s)' => s < offered[p]
      BY <1>1 DEF GivenInv
    <2>1. offered[p] \in Nat /\ (offered[p] <= delivered \/ offered[p] = event + 1)
      BY Numbers DEF IInv, TypeInv, TypeOK, LoopInv, GivenInv
    <2>2. \A s \in Seqs : IsGiven(p, s)' => s < offered[p]
      BY <1>1 DEF IInv, LoopInv, GivenInv, IsGiven
    <2> QED
      BY <1>2, <2>1, <2>2
  <1>8. ASSUME NEW p, NEW t \in Seqs, Pending(p, t)
        PROVE  Pending(p, t)'
    <2>1. t \in batch /\ t \in Nat
      BY <1>1, <1>8, Numbers DEF Pending
    <2> QED
      BY <1>1, <1>2, <2>1 DEF Pending
  <1>9. FedInv'
    <2> SUFFICES ASSUME NEW p \in fed, NEW t \in Seqs, t < tailed
                 PROVE  Covers(p, t)' \/ Pending(p, t)'
      BY <1>1 DEF IInv, CoverInv, FedInv
    <2>1. Covers(p, t) \/ Pending(p, t)
      BY DEF IInv, CoverInv, FedInv
    <2>2. Covers(p, t) => Covers(p, t)'
      BY <1>1 DEF Covers, IsGiven
    <2> QED
      BY <1>8, <2>1, <2>2
  <1>10. OfferedInv'
    <2> SUFFICES ASSUME NEW p \in fed, NEW t \in Seqs, t < tailed
                 PROVE  Passed(p, t)' \/ Pending(p, t)'
      BY <1>1 DEF OfferedInv
    <2>1. Passed(p, t) \/ Pending(p, t)
      BY DEF IInv, CoverInv, OfferedInv
    <2>2. Passed(p, t) => Passed(p, t)'
      BY <1>1 DEF Passed
    <2> QED
      BY <1>8, <2>1, <2>2
  <1>11. BusyCovered' /\ HandledInv'
    <2>1. \A p \in Providers : busy # p
      BY <1>1, Numbers
    <2> QED
      BY <1>1, <2>1 DEF BusyCovered, IInv, CoverInv, HandledInv, IsGiven
  <1> QED
    BY <1>1, <1>3, <1>4, <1>5, <1>6, <1>7, <1>9, <1>10, <1>11, Kept
       DEF IInv, LoopInv, CoverInv, PromiseInv

-----------------------------------------------------------------------------
(* deliver, for one provider after another *)

\* The types that a dispatch touches.
LEMMA DispatchTyped ==
  ASSUME TypeInv, queue' \subseteq Providers, loaded' \subseteq Providers,
         busy' \in Providers \cup {Nobody}, step' \in {"none", "handling", "writing"},
         orphaned' \in BOOLEAN, offered' \in [Providers -> Positions],
         {cursor', store'} \subseteq [Providers -> Positions],
         handled' \in [Providers -> SUBSET Seqs], given' \in [Providers -> Seq(Seqs)],
         late' \subseteq Providers,
         UNCHANGED <<next, floor, bound, jobs, providers, subscribed, delivered, position,
                     batch, event, up, lives, changes, gap, tailed, base, fed>>
  PROVE  TypeInv'
  BY DEF TypeInv, TypeOK

\* A provider that is still in the queue was offered nothing since the last event.
LEMMA NextInQueue ==
  ASSUME IInv, NEW p \in queue
  PROVE  /\ p \in Providers /\ event \in Seqs /\ event # NoEvent /\ event \in Nat
         /\ event + 1 \in Positions /\ event + 1 \in Nat
         /\ offered[p] \in Nat /\ cursor[p] \in Nat /\ base[p] \in Nat
         /\ delivered \in Nat /\ tailed \in Nat
         /\ offered[p] <= delivered /\ delivered <= event /\ event < tailed
         /\ subscribed /\ up
  <1>1. event # NoEvent /\ p \in Providers
    BY DEF IInv, LoopInv, BusyInv, TypeInv, TypeOK
  <1>2. event \in Seqs /\ event \in Nat /\ event + 1 \in Positions
    BY <1>1, EventIs DEF IInv
  <1>3. offered[p] \in Nat /\ cursor[p] \in Nat /\ base[p] \in Nat /\ delivered \in Nat
        /\ tailed \in Nat
    BY <1>1, Numbers DEF IInv, TypeInv, TypeOK
  <1>4. delivered <= event /\ event < tailed
    BY <1>1 DEF IInv, LoopInv, TailInv
  <1>5. offered[p] <= delivered
    BY <1>1 DEF IInv, LoopInv, GivenInv, Reached
  <1>6. subscribed /\ up
    BY <1>1 DEF IInv, LoopInv, FreshInv
  <1> QED
    BY <1>1, <1>2, <1>3, <1>4, <1>5, <1>6, Numbers

\* What an offer does whether or not the provider's cursor covers the event.
LEMMA OfferedMoves ==
  ASSUME IInv, NEW p \in queue, queue' = queue \ {p}, loaded' = loaded \cup {p},
         offered' = [offered EXCEPT ![p] = event + 1],
         UNCHANGED <<next, floor, store, bound, jobs, providers, cursor, subscribed, delivered,
                     position, batch, event, orphaned, up, lives, changes, handled, gap,
                     tailed, base, fed>>
  PROVE  /\ offered' \in [Providers -> Positions]
         /\ \A q \in Providers : offered'[q] = IF q = p THEN event + 1 ELSE offered[q]
         /\ FreshInv' /\ TailInv' /\ CursorInv' /\ OfferedInv'
         /\ \A q, s : Pending(q, s) => Pending(q, s)' \/ (q = p /\ s = event)
  <1>1. /\ p \in Providers /\ event \in Seqs /\ event # NoEvent /\ event \in Nat
        /\ event + 1 \in Positions /\ event + 1 \in Nat
        /\ offered[p] \in Nat /\ offered[p] <= event
        /\ subscribed /\ up
    BY NextInQueue
  <1>2. /\ offered' \in [Providers -> Positions]
        /\ \A q \in Providers : offered'[q] = IF q = p THEN event + 1 ELSE offered[q]
    BY <1>1 DEF IInv, TypeInv, TypeOK
  <1>3. FreshInv'
    BY <1>1 DEF FreshInv
  <1>4. TailInv'
    BY Kept
  <1>5. \A q \in Providers : /\ offered[q] \in Nat /\ offered'[q] \in Nat
                             /\ offered[q] <= offered'[q]
    <2>1. \A q \in Providers : offered[q] \in Nat
      BY Numbers DEF IInv, TypeInv, TypeOK
    <2>2. offered[p] <= event + 1
      BY <1>1
    <2> QED
      BY <1>1, <1>2, <2>1, <2>2
  <1>6. CursorInv'
    <2>1. \A q \in Providers : cursor[q] \in {0, base[q]} \/ cursor[q] <= offered'[q]
      <3>1. \A q \in Providers : cursor[q] \in Nat
        BY Numbers DEF IInv, TypeInv, TypeOK
      <3> QED
        BY <1>5, <3>1 DEF IInv, LoopInv, CursorInv
    <2> QED
      BY <2>1 DEF IInv, LoopInv, CursorInv
  <1>7. \A q, s : Pending(q, s) => Pending(q, s)' \/ (q = p /\ s = event)
    BY DEF Pending
  <1>8. OfferedInv'
    <2> SUFFICES ASSUME NEW q \in fed, NEW s \in Seqs, s < tailed
                 PROVE  Passed(q, s)' \/ Pending(q, s)'
      BY DEF OfferedInv
    <2>1. q \in Providers /\ s \in Nat
      BY Numbers DEF IInv, TypeInv, TypeOK
    <2>2. Passed(q, s) \/ Pending(q, s)
      BY DEF IInv, CoverInv, OfferedInv
    <2>3. Passed(q, s) => Passed(q, s)'
      BY <1>5, <2>1 DEF Passed
    <2>4. q = p /\ s = event => Passed(q, s)'
      BY <1>1, <1>2 DEF Passed
    <2> QED
      BY <1>7, <2>2, <2>3, <2>4
  <1> QED
    BY <1>2, <1>3, <1>4, <1>6, <1>7, <1>8

\* An event below its cursor passes a provider: it handled it in an earlier life.
LEMMA CoveredSteps ==
  ASSUME IInv, NEW p \in queue, busy = Nobody, Covered(p), queue' = queue \ {p},
         loaded' = loaded \cup {p}, offered' = [offered EXCEPT ![p] = event + 1],
         UNCHANGED <<next, floor, store, bound, jobs, providers, cursor, subscribed, delivered,
                     position, batch, event, busy, step, orphaned, up, lives, changes,
                     handled, given, warnings, late, gap, tailed, base, fed>>
  PROVE  IInv'
  <1>1. /\ p \in Providers /\ event \in Seqs /\ event # NoEvent /\ event \in Nat
        /\ offered[p] \in Nat /\ cursor[p] \in Nat /\ base[p] \in Nat
        /\ offered[p] <= event
    BY NextInQueue
  <1>2. /\ offered' \in [Providers -> Positions]
        /\ \A q \in Providers : offered'[q] = IF q = p THEN event + 1 ELSE offered[q]
        /\ FreshInv' /\ TailInv' /\ CursorInv' /\ OfferedInv'
        /\ \A q, s : Pending(q, s) => Pending(q, s)' \/ (q = p /\ s = event)
    BY OfferedMoves
  <1>3. TypeInv'
    BY <1>1, <1>2, DispatchTyped DEF IInv, TypeInv, TypeOK
  <1>4. BusyInv'
    BY Numbers, <1>1 DEF IInv, LoopInv, BusyInv
  <1>5. GivenInv'
    <2> SUFFICES ASSUME NEW q \in Providers
                 PROVE  /\ offered'[q] <= delivered \/ (Reached(q)' /\ offered'[q] = event + 1)
                        /\ \A s \in Seqs : IsGiven(q, s)' => s < offered'[q]
      BY DEF GivenInv
    <2>1. \A s \in Seqs : IsGiven(q, s)' => s < offered[q]
      BY DEF IInv, LoopInv, GivenInv, IsGiven
    <2>2. CASE q # p
      BY <1>2, <2>1, <2>2 DEF IInv, LoopInv, GivenInv, Reached
    <2>3. CASE q = p
      <3>1. \A s \in Nat : s < offered[p] => s < event + 1
        BY <1>1
      <3>2. Seqs \subseteq Nat
        BY Numbers
      <3> QED
        BY <1>1, <1>2, <2>1, <2>3, <3>1, <3>2 DEF Reached
    <2> QED
      BY <2>2, <2>3
  <1>6. FedInv'
    <2>1. event < base[p]
      BY <1>1 DEF Covered, IInv, LoopInv, CursorInv
    <2> SUFFICES ASSUME NEW q \in fed, NEW s \in Seqs, s < tailed
                 PROVE  Covers(q, s)' \/ Pending(q, s)'
      BY DEF IInv, CoverInv, FedInv
    <2>2. Covers(q, s) \/ Pending(q, s)
      BY DEF IInv, CoverInv, FedInv
    <2>3. Covers(q, s) => Covers(q, s)'
      BY DEF Covers, IsGiven
    <2>4. q = p /\ s = event => Covers(q, s)'
      BY <2>1 DEF Covers
    <2> QED
      BY <1>2, <2>2, <2>3, <2>4
  <1> QED
    BY <1>2, <1>3, <1>4, <1>5, <1>6, Kept DEF IInv, LoopInv, CoverInv, PromiseInv

\* A provider is given one more event, after those it was given before.
LEMMA GivenGrows ==
  ASSUME IInv, NEW p \in queue, given' = [given EXCEPT ![p] = Append(@, event)]
  PROVE  /\ given' \in [Providers -> Seq(Seqs)]
         /\ \A q \in Providers : \A s \in Seqs :
              IsGiven(q, s)' <=> IsGiven(q, s) \/ (q = p /\ s = event)
         /\ OnceInOrder'
  <1>1. /\ p \in Providers /\ event \in Seqs /\ event \in Nat
        /\ offered[p] \in Nat /\ offered[p] <= event
    BY NextInQueue
  <1>2. given \in [Providers -> Seq(Seqs)]
    BY DEF IInv, TypeInv, TypeOK
  <1> DEFINE old == given[p]
             new == Append(old, event)
  <1>3. old \in Seq(Seqs) /\ new \in Seq(Seqs)
    BY <1>1, <1>2
  <1>4. /\ Len(old) \in Nat /\ DOMAIN old = 1 .. Len(old) /\ DOMAIN new = 1 .. Len(old) + 1
        /\ new[Len(old) + 1] = event
        /\ \A i \in 1 .. Len(old) : new[i] = old[i]
    BY <1>1, <1>3
  <1>5. given' = [given EXCEPT ![p] = new]
    OBVIOUS
  <1>6. \A i \in DOMAIN old : old[i] \in Seqs /\ old[i] < event
    <2> SUFFICES ASSUME NEW i \in DOMAIN old
                 PROVE  old[i] \in Seqs /\ old[i] < event
      OBVIOUS
    <2>1. old[i] \in Seqs
      BY <1>3
    <2>2. old[i] < offered[p] /\ old[i] \in Nat
      BY <1>1, <2>1, Numbers DEF IInv, LoopInv, GivenInv, IsGiven
    <2> QED
      BY <1>1, <2>1, <2>2
  <1>7. \A i, j \in DOMAIN old : i < j => old[i] < old[j]
    BY <1>1 DEF IInv, PromiseInv, OnceInOrder
  <1> HIDE DEF new
  <1>8. given' \in [Providers -> Seq(Seqs)] /\ given'[p] = new
        /\ \A q \in Providers \ {p} : given'[q] = given[q]
    BY <1>1, <1>2, <1>3, <1>5
  <1> HIDE DEF old
  <1>9. ASSUME NEW s \in Seqs
        PROVE  (\E i \in DOMAIN new : new[i] = s) <=> (\E i \in DOMAIN old : old[i] = s) \/ s = event
    <2>1. ASSUME NEW i \in DOMAIN new, new[i] = s, s # event
          PROVE  i \in DOMAIN old /\ old[i] = s
      BY <1>4, <2>1
    <2>2. ASSUME NEW i \in DOMAIN old, old[i] = s
          PROVE  i \in DOMAIN new /\ new[i] = s
      BY <1>4, <2>2
    <2>3. Len(old) + 1 \in DOMAIN new
      BY <1>4
    <2> QED
      BY <1>4, <2>1, <2>2, <2>3
  <1>10. \A i, j \in DOMAIN new : i < j => new[i] < new[j]
    <2> SUFFICES ASSUME NEW i \in DOMAIN new, NEW j \in DOMAIN new, i < j
                 PROVE  new[i] < new[j]
      OBVIOUS
    <2>1. i \in DOMAIN old /\ new[i] = old[i]
      BY <1>4
    <2>2. CASE j \in DOMAIN old
      BY <1>4, <1>7, <2>1, <2>2
    <2>3. CASE j \notin DOMAIN old
      <3>1. j = Len(old) + 1
        BY <1>4, <2>3
      <3> QED
        BY <1>4, <1>6, <2>1, <3>1
    <2> QED
      BY <2>2, <2>3
  <1>11. OnceInOrder'
    BY <1>7, <1>8, <1>10 DEF IInv, PromiseInv, OnceInOrder
  <1>12. \A q \in Providers : \A s \in Seqs :
           IsGiven(q, s)' <=> IsGiven(q, s) \/ (q = p /\ s = event)
    <2> SUFFICES ASSUME NEW q \in Providers, NEW s \in Seqs
                 PROVE  IsGiven(q, s)' <=> IsGiven(q, s) \/ (q = p /\ s = event)
      OBVIOUS
    <2>1. CASE q # p
      BY <1>8, <2>1 DEF IsGiven
    <2>2. CASE q = p
      <3>1. IsGiven(q, s) <=> \E i \in DOMAIN old : old[i] = s
        BY <2>2 DEF IsGiven, old
      <3>2. IsGiven(q, s)' <=> \E i \in DOMAIN new : new[i] = s
        BY <1>8, <2>2 DEF IsGiven
      <3> QED
        BY <1>9, <2>2, <3>1, <3>2
    <2> QED
      BY <2>1, <2>2
  <1> QED
    BY <1>8, <1>11, <1>12

\* A subscriber that is passed over is passed by lost events only.
LEMMA WarningsStay ==
  ASSUME IInv, NEW p \in queue,
         warnings' = IF Jumps(p)
                     THEN warnings \cup {[steady |-> p \in fed, lost |-> Unoffered(p),
                                          gap |-> gap]}
                     ELSE warnings
  PROVE  SubscribersAreWarnedOfGaps'
  <1>1. /\ p \in Providers /\ event \in Seqs /\ event # NoEvent /\ event \in Nat
        /\ offered[p] \in Nat /\ cursor[p] \in Nat /\ base[p] \in Nat
        /\ tailed \in Nat /\ event < tailed
    BY NextInQueue
  <1> DEFINE new == [steady |-> p \in fed, lost |-> Unoffered(p), gap |-> gap]
  <1>2. ASSUME Jumps(p), p \in fed
        PROVE  Unoffered(p) # {} /\ Unoffered(p) \subseteq gap
    <2>1. event - 1 \in Unoffered(p)
      BY <1>1, <1>2 DEF Jumps, Unoffered
    <2>2. ASSUME NEW s \in Unoffered(p)
          PROVE  s \in gap
      <3>1. s \in 0 .. event /\ s < event /\ cursor[p] <= s /\ offered[p] <= s
        BY DEF Unoffered
      <3>2. s \in Nat /\ s < tailed /\ ~(s < cursor[p]) /\ ~(s < offered[p]) /\ s # event
        BY <1>1, <3>1
      <3>3. s \in Seqs
        BY <1>1, <3>1, <3>2, Numbers DEF Seqs
      <3>4. s \notin batch
        BY <1>1, <3>1, <3>2 DEF IInv, LoopInv, TailInv
      <3>5. Passed(p, s)
        BY <1>2, <3>2, <3>3, <3>4 DEF IInv, CoverInv, OfferedInv, Pending
      <3> QED
        BY <1>2, <3>2, <3>5 DEF Passed, Jumps
    <2> QED
      BY <2>1, <2>2
  <1>3. Jumps(p) => (new.steady => new.lost # {} /\ new.lost \subseteq new.gap)
    BY <1>2
  <1>4. \A w \in warnings : w.steady => w.lost # {} /\ w.lost \subseteq w.gap
    BY DEF IInv, PromiseInv, SubscribersAreWarnedOfGaps
  <1>5. \A w \in warnings' : w \in warnings \/ (Jumps(p) /\ w = new)
    OBVIOUS
  <1> HIDE DEF new
  <1> QED
    BY <1>3, <1>4, <1>5 DEF SubscribersAreWarnedOfGaps

\* An event beyond its cursor is given to a provider.
LEMMA GivesSteps ==
  ASSUME IInv, NEW p \in queue, busy = Nobody, queue' = queue \ {p},
         loaded' = loaded \cup {p}, offered' = [offered EXCEPT ![p] = event + 1],
         busy' = p, step' = "handling", given' = [given EXCEPT ![p] = Append(@, event)],
         SubscribersAreWarnedOfGaps',
         late' = IF p \in fed THEN late ELSE late \cup {p},
         UNCHANGED <<next, floor, store, bound, jobs, providers, cursor, subscribed, delivered,
                     position, batch, event, orphaned, up, lives, changes, handled, gap,
                     tailed, base, fed>>
  PROVE  IInv'
  <1>1. /\ p \in Providers /\ event \in Seqs /\ event # NoEvent /\ event \in Nat
        /\ offered[p] \in Nat /\ offered[p] <= event
        /\ tailed \in Nat /\ event < tailed
    BY NextInQueue
  <1>2. /\ offered' \in [Providers -> Positions]
        /\ \A q \in Providers : offered'[q] = IF q = p THEN event + 1 ELSE offered[q]
        /\ FreshInv' /\ TailInv' /\ CursorInv' /\ OfferedInv'
        /\ \A q, s : Pending(q, s) => Pending(q, s)' \/ (q = p /\ s = event)
    BY OfferedMoves
  <1>3. /\ given' \in [Providers -> Seq(Seqs)]
        /\ \A q \in Providers : \A s \in Seqs :
             IsGiven(q, s)' <=> IsGiven(q, s) \/ (q = p /\ s = event)
        /\ OnceInOrder'
    BY GivenGrows
  <1>4. p # Nobody
    BY <1>1, Numbers
  <1>5. TypeInv'
    <2>1. late' \subseteq Providers
      BY <1>1 DEF IInv, TypeInv, TypeOK
    <2> QED
      BY <1>1, <1>2, <1>3, <2>1, DispatchTyped DEF IInv, TypeInv, TypeOK
  <1>6. BusyInv'
    BY <1>1, <1>2, <1>4 DEF IInv, LoopInv, BusyInv
  <1>7. GivenInv'
    <2> SUFFICES ASSUME NEW q \in Providers
                 PROVE  /\ offered'[q] <= delivered \/ (Reached(q)' /\ offered'[q] = event + 1)
                        /\ \A s \in Seqs : IsGiven(q, s)' => s < offered'[q]
      BY DEF GivenInv
    <2>1. \A s \in Seqs : IsGiven(q, s) => s < offered[q]
      BY DEF IInv, LoopInv, GivenInv
    <2>2. CASE q # p
      BY <1>2, <1>3, <2>1, <2>2 DEF IInv, LoopInv, GivenInv, Reached
    <2>3. CASE q = p
      <3>1. \A s \in Nat : s < offered[p] \/ s = event => s < event + 1
        BY <1>1
      <3>2. Seqs \subseteq Nat
        BY Numbers
      <3> QED
        BY <1>1, <1>2, <1>3, <2>1, <2>3, <3>1, <3>2 DEF Reached
    <2> QED
      BY <2>2, <2>3
  <1>8. \A q \in Providers, s \in Seqs : Covers(q, s) => Covers(q, s)'
    BY <1>3 DEF Covers
  <1>9. Covers(p, event)'
    BY <1>1, <1>3 DEF Covers
  <1>10. FedInv'
    <2> SUFFICES ASSUME NEW q \in fed, NEW s \in Seqs, s < tailed
                 PROVE  Covers(q, s)' \/ Pending(q, s)'
      BY DEF IInv, CoverInv, FedInv
    <2>1. Covers(q, s) \/ Pending(q, s)
      BY DEF IInv, CoverInv, FedInv
    <2>2. q \in Providers
      BY DEF IInv, TypeInv, TypeOK
    <2> QED
      BY <1>2, <1>8, <1>9, <2>1, <2>2
  <1>11. BusyCovered'
    <2> SUFFICES ASSUME p \in fed, NEW s \in Seqs, s <= event
                 PROVE  Covers(p, s)'
      BY DEF BusyCovered
    <2>1. s \in Nat /\ s < tailed
      BY <1>1, Numbers
    <2>2. s \notin batch
      BY <1>1, <2>1 DEF IInv, LoopInv, TailInv
    <2>3. Covers(p, s) \/ s = event
      BY <2>1, <2>2 DEF IInv, CoverInv, FedInv, Pending
    <2> QED
      BY <1>1, <1>8, <1>9, <2>3
  <1>12. HandledInv'
    <2> SUFFICES ASSUME NEW q \in Providers \ Throwing, NEW s \in Seqs, IsGiven(q, s)'
                 PROVE  s \in handled[q] \/ (p = q /\ s = event)
      BY DEF HandledInv
    <2>1. busy # q
      BY Numbers
    <2>2. IsGiven(q, s) => s \in handled[q]
      BY <2>1 DEF IInv, CoverInv, HandledInv
    <2> QED
      BY <1>3, <2>2
  <1>13. BaseInv' /\ AtLeastOnce'
    BY DEF IInv, CoverInv, BaseInv, PromiseInv, AtLeastOnce, NotSkipped
  <1> QED
    BY <1>2, <1>3, <1>5, <1>6, <1>7, <1>10, <1>11, <1>12, <1>13, Kept
       DEF IInv, LoopInv, CoverInv, PromiseInv

LEMMA DispatchSteps ==
  ASSUME IInv, NEW p \in Providers, Dispatch(p)
  PROVE  IInv'
  <1>1. /\ busy = Nobody /\ p \in queue
        /\ queue' = queue \ {p} /\ loaded' = loaded \cup {p}
        /\ offered' = [offered EXCEPT ![p] = event + 1]
        /\ UNCHANGED <<next, floor, store, bound, jobs, providers, cursor, subscribed,
                       delivered, position, batch, event, orphaned, up, lives, changes,
                       handled, gap, tailed, base, fed>>
    BY DEF Dispatch, Give, redis, tail, process, read
  <1>2. CASE Covered(p)
    <2>1. UNCHANGED <<busy, step, given, warnings, late>>
      BY <1>2 DEF Dispatch, Give
    <2> QED
      BY <1>1, <1>2, <2>1, CoveredSteps
  <1>3. CASE ~Covered(p)
    <2>1. /\ busy' = p /\ step' = "handling"
          /\ given' = [given EXCEPT ![p] = Append(@, event)]
          /\ warnings' = IF Jumps(p)
                         THEN warnings \cup {[steady |-> p \in fed, lost |-> Unoffered(p),
                                              gap |-> gap]}
                         ELSE warnings
          /\ late' = IF p \in fed THEN late ELSE late \cup {p}
      BY <1>3 DEF Dispatch, Give
    <2>2. SubscribersAreWarnedOfGaps'
      BY <1>1, <2>1, WarningsStay
    <2> QED
      BY <1>1, <2>1, <2>2, GivesSteps
  <1> QED
    BY <1>2, <1>3

\* The provider that has the event.
LEMMA WhoIsBusy ==
  ASSUME IInv, step # "none"
  PROVE  /\ busy \in Providers /\ busy # Nobody /\ busy \in loaded /\ busy \notin queue
         /\ event \in Seqs /\ event # NoEvent /\ event \in Nat
         /\ event + 1 \in Positions /\ event + 1 \in Nat
         /\ offered[busy] = event + 1
         /\ delivered \in Nat /\ delivered <= event
         /\ subscribed /\ up
  <1>1. busy # Nobody
    BY DEF IInv, LoopInv, BusyInv
  <1>2. /\ busy \in Providers /\ busy \in loaded /\ busy \notin queue /\ event # NoEvent
        /\ offered[busy] = event + 1
    BY <1>1 DEF IInv, LoopInv, BusyInv, TypeInv, TypeOK
  <1>3. event \in Seqs /\ event \in Nat /\ event + 1 \in Positions
    BY <1>2, EventIs DEF IInv
  <1>4. delivered \in Nat /\ delivered <= event
    BY <1>2, Numbers DEF IInv, LoopInv, TailInv, TypeInv, TypeOK
  <1>5. subscribed /\ up
    BY <1>2 DEF IInv, LoopInv, FreshInv
  <1> QED
    BY <1>1, <1>2, <1>3, <1>4, <1>5

LEMMA ConsumeReturnsSteps ==
  ASSUME IInv, ConsumeReturns
  PROVE  IInv'
  <1>1. /\ step = "handling" /\ step' = "writing"
        /\ handled' = [handled EXCEPT ![busy] = @ \cup {event}]
        /\ cursor' = IF orphaned THEN cursor ELSE [cursor EXCEPT ![busy] = event + 1]
        /\ UNCHANGED <<next, floor, store, bound, jobs, providers, loaded, offered,
                       subscribed, delivered, position, batch, event, queue, busy, orphaned,
                       up, lives, changes, given, warnings, late, gap, tailed, base, fed>>
    BY DEF ConsumeReturns, redis, tail, process, read
  <1>2. /\ busy \in Providers /\ busy # Nobody /\ busy \in loaded /\ busy \notin queue
        /\ event \in Seqs /\ event # NoEvent /\ event \in Nat
        /\ event + 1 \in Positions /\ event + 1 \in Nat
        /\ offered[busy] = event + 1
        /\ delivered \in Nat /\ delivered <= event
        /\ subscribed /\ up
    BY <1>1, WhoIsBusy
  <1>3. /\ handled' \in [Providers -> SUBSET Seqs]
        /\ \A q \in Providers : handled[q] \subseteq handled'[q]
        /\ event \in handled'[busy]
    BY <1>1, <1>2 DEF IInv, TypeInv, TypeOK
  <1>4. /\ cursor' \in [Providers -> Positions]
        /\ \A q \in Providers : cursor'[q] = cursor[q] \/ (q = busy /\ cursor'[q] = event + 1)
    <2>1. CASE orphaned
      BY <1>1, <2>1 DEF IInv, TypeInv, TypeOK
    <2>2. CASE ~orphaned
      BY <1>1, <1>2, <2>2 DEF IInv, TypeInv, TypeOK
    <2> QED
      BY <2>1, <2>2
  <1>5. TypeInv'
    BY <1>1, <1>3, <1>4, DispatchTyped DEF IInv, TypeInv, TypeOK
  <1>6. FreshInv'
    BY <1>1, <1>2 DEF IInv, LoopInv, FreshInv
  <1>7. BusyInv'
    BY <1>1, <1>2, <1>3 DEF IInv, LoopInv, BusyInv
  <1>8. CursorInv'
    <2>1. \A q \in Providers : cursor'[q] \in {0, base[q]} \/ cursor'[q] <= offered[q]
      BY <1>2, <1>4 DEF IInv, LoopInv, CursorInv
    <2> QED
      BY <1>1, <2>1 DEF IInv, LoopInv, CursorInv
  <1>9. OfferedInv'
    <2> SUFFICES ASSUME NEW q \in fed, NEW s \in Seqs, s < tailed, ~Pending(q, s)
                 PROVE  Passed(q, s)'
      BY <1>1 DEF OfferedInv, Pending
    <2>1. q \in Providers /\ s \in Nat
      BY Numbers DEF IInv, TypeInv, TypeOK
    <2>2. CASE cursor'[q] = cursor[q]
      BY <1>1, <2>2 DEF IInv, CoverInv, OfferedInv, Passed
    <2>3. CASE q = busy
      <3>1. event < s => s \in batch
        BY <1>2 DEF IInv, LoopInv, TailInv
      <3>2. ~(event < s)
        BY <1>2, <2>1, <3>1 DEF Pending
      <3> QED
        BY <1>1, <1>2, <2>1, <2>3, <3>2 DEF Passed
    <2> QED
      BY <1>4, <2>1, <2>2, <2>3
  <1>10. HandledInv'
    <2> SUFFICES ASSUME NEW q \in Providers \ Throwing, NEW s \in Seqs, IsGiven(q, s)'
                 PROVE  s \in handled'[q]
      BY DEF HandledInv
    <2>1. s \in handled[q] \/ (busy = q /\ s = event)
      BY <1>1 DEF IInv, CoverInv, HandledInv, IsGiven
    <2> QED
      BY <1>3, <2>1
  <1>11. BaseInv' /\ AtLeastOnce' /\ CursorsAreEarned'
    <2>1. BaseInv'
      BY <1>1, <1>3 DEF IInv, CoverInv, BaseInv
    <2>2. AtLeastOnce'
      BY <1>1, <1>3 DEF IInv, PromiseInv, AtLeastOnce, NotSkipped
    <2>3. CursorsAreEarned'
      BY <1>1, <1>3 DEF IInv, PromiseInv, CursorsAreEarned
    <2> QED
      BY <2>1, <2>2, <2>3
  <1> QED
    BY <1>1, <1>5, <1>6, <1>7, <1>8, <1>9, <1>10, <1>11, Kept
       DEF IInv, LoopInv, CoverInv, PromiseInv

LEMMA ConsumeThrowsSteps ==
  ASSUME IInv, ConsumeThrows
  PROVE  IInv'
  <1>1. /\ step = "handling" /\ busy \in Throwing
        /\ busy' = Nobody /\ step' = "none" /\ orphaned' = FALSE
        /\ UNCHANGED <<next, floor, store, bound, jobs, providers, loaded, cursor, offered,
                       subscribed, delivered, position, batch, event, queue, up, lives,
                       changes, handled, given, warnings, late, gap, tailed, base, fed>>
    BY DEF ConsumeThrows, NextProvider, redis, host, tail, process, told, read
  <1>2. event # NoEvent /\ subscribed /\ up
    BY <1>1, WhoIsBusy
  <1>3. TypeInv'
    BY <1>1, DispatchTyped DEF IInv, TypeInv, TypeOK
  <1>4. FreshInv' /\ CursorInv'
    BY <1>1, <1>2 DEF FreshInv, IInv, LoopInv, CursorInv
  <1>5. BusyInv'
    BY <1>1, <1>2 DEF BusyInv
  <1>6. BusyCovered' /\ HandledInv'
    BY <1>1 DEF BusyCovered, IInv, CoverInv, HandledInv, IsGiven
  <1> QED
    BY <1>1, <1>3, <1>4, <1>5, <1>6, Kept DEF IInv, LoopInv, CoverInv, PromiseInv

LEMMA PersistSteps ==
  ASSUME IInv, Persist
  PROVE  IInv'
  <1>1. /\ step = "writing" /\ busy' = Nobody /\ step' = "none" /\ orphaned' = FALSE
        /\ store' = [store EXCEPT ![busy] = event + 1] \/ store' = store
        /\ UNCHANGED <<next, floor, bound, jobs, providers, loaded, cursor, offered,
                       subscribed, delivered, position, batch, event, queue, up, lives,
                       changes, handled, given, warnings, late, gap, tailed, base, fed>>
    BY DEF Persist, NextProvider, host, tail, process, told, read
  <1>2. /\ busy \in Providers /\ busy # Nobody /\ busy \in loaded
        /\ event \in Seqs /\ event # NoEvent /\ event \in Nat
        /\ event + 1 \in Positions /\ event + 1 \in Nat
        /\ subscribed /\ up
    BY <1>1, WhoIsBusy
  <1>3. event \in handled[busy]
    BY <1>1 DEF IInv, LoopInv, BusyInv
  <1>4. /\ store' \in [Providers -> Positions]
        /\ \A q \in Providers : store'[q] = store[q] \/ (q = busy /\ store'[q] = event + 1)
    BY <1>1, <1>2 DEF IInv, TypeInv, TypeOK
  <1>5. TypeInv'
    BY <1>1, <1>4, DispatchTyped DEF IInv, TypeInv, TypeOK
  <1>6. FreshInv' /\ CursorInv'
    BY <1>1, <1>2, <1>4 DEF FreshInv, IInv, LoopInv, CursorInv
  <1>7. BusyInv'
    BY <1>1, <1>2 DEF BusyInv
  <1>8. BusyCovered' /\ HandledInv'
    BY <1>1 DEF BusyCovered, IInv, CoverInv, HandledInv, IsGiven
  <1>9. CursorsAreEarned'
    <2> SUFFICES ASSUME NEW q \in Providers, store'[q] # 0
                 PROVE  (store'[q] - 1) \in handled[q]
      BY <1>1 DEF CursorsAreEarned
    <2>1. event + 1 - 1 = event
      BY <1>2
    <2>2. CASE store'[q] = store[q]
      BY <2>2 DEF IInv, PromiseInv, CursorsAreEarned
    <2>3. CASE q = busy /\ store'[q] = event + 1
      <3>1. \A n \in Nat : n = event + 1 => n - 1 = event
        BY <1>2
      <3>2. store'[q] \in Nat
        BY <1>4, Numbers
      <3> QED
        BY <1>3, <2>3, <3>1, <3>2
    <2> QED
      BY <1>4, <2>2, <2>3
  <1>10. AtLeastOnce'
    <2> SUFFICES ASSUME NEW q \in Providers \ (Throwing \cup late), NEW s \in Seqs,
                        s < store'[q]
                 PROVE  s \in handled[q] \/ s < floor
      BY <1>1 DEF AtLeastOnce, NotSkipped
    <2>1. CASE store'[q] = store[q]
      BY <2>1 DEF IInv, PromiseInv, AtLeastOnce, NotSkipped
    <2>2. CASE q = busy /\ store'[q] = event + 1
      <3>1. s <= event
        BY <1>2, <2>2, Numbers
      <3>2. Covers(q, s)
        BY <1>2, <2>2, <3>1 DEF IInv, CoverInv, BusyCovered
      <3>3. s < base[q] => s \in handled[q] \/ s < floor
        BY DEF IInv, CoverInv, BaseInv
      <3>4. IsGiven(q, s) => s \in handled[q]
        BY <1>1 DEF IInv, CoverInv, HandledInv
      <3>5. s \in gap => s < floor
        BY DEF IInv, LoopInv, TailInv
      <3> QED
        BY <3>2, <3>3, <3>4, <3>5 DEF Covers
    <2> QED
      BY <1>4, <2>1, <2>2
  <1> QED
    BY <1>1, <1>5, <1>6, <1>7, <1>8, <1>9, <1>10, Kept DEF IInv, LoopInv, CoverInv, PromiseInv

-----------------------------------------------------------------------------
(* The invariant holds, and with it what the consumers are promised *)

LEMMA InitInv ==
  Init => IInv
  <1> SUFFICES ASSUME Init
               PROVE  IInv
    OBVIOUS
  <1>1. TypeInv
    <2>1. <<>> \in Seq(Seqs)
      OBVIOUS
    <2>2. given \in [Providers -> Seq(Seqs)] /\ handled \in [Providers -> SUBSET Seqs]
      BY <2>1 DEF Init
    <2>3. {cursor, offered, store, base} \subseteq [Providers -> Positions]
      BY Numbers DEF Init
    <2>4. next \in Positions /\ floor \in Positions /\ floor <= next /\ tailed \in Positions
          /\ delivered \in Positions /\ position \in Positions
      BY Numbers DEF Init
    <2>5. TypeOK
      BY <2>2, <2>3, <2>4 DEF Init, TypeOK
    <2> QED
      BY <2>5 DEF Init, TypeInv
  <1>2. \A p \in Providers, s \in Seqs : ~IsGiven(p, s)
    BY DEF Init, IsGiven
  <1>3. FreshInv /\ BusyInv /\ CursorInv
    BY DEF Init, FreshInv, BusyInv, CursorInv
  <1>4. TailInv
    BY Numbers DEF Init, TailInv
  <1>5. GivenInv /\ HandledInv
    BY <1>2, Numbers DEF Init, GivenInv, HandledInv
  <1>6. FedInv /\ OfferedInv /\ BusyCovered
    BY DEF Init, FedInv, OfferedInv, BusyCovered
  <1>7. BaseInv /\ AtLeastOnce
    <2>1. \A s \in Seqs : ~(s < 0)
      BY Numbers
    <2> QED
      BY <2>1 DEF Init, BaseInv, AtLeastOnce, NotSkipped
  <1>8. OnceInOrder /\ CursorsAreEarned /\ SubscribersAreWarnedOfGaps
    BY DEF Init, OnceInOrder, CursorsAreEarned, SubscribersAreWarnedOfGaps
  <1> QED
    BY <1>1, <1>3, <1>4, <1>5, <1>6, <1>7, <1>8 DEF IInv, LoopInv, CoverInv, PromiseInv

LEMMA NextInv ==
  IInv /\ [Next]_vars => IInv'
  <1> SUFFICES ASSUME IInv, [Next]_vars
               PROVE  IInv'
    OBVIOUS
  <1>1. CASE CommitEvent
    BY <1>1, CommitSteps
  <1>2. CASE Boot
    BY <1>2, BootSteps
  <1>3. CASE Crash
    BY <1>3, CrashSteps
  <1>4. ASSUME NEW p \in Providers, Change(p)
        PROVE  IInv'
    BY <1>4, ChangeSteps
  <1>5. ASSUME NEW p \in Providers, Dispatch(p)
        PROVE  IInv'
    BY <1>5, DispatchSteps
  <1>6. ASSUME NEW job \in jobs, Collected(job)
        PROVE  IInv'
    BY <1>6, CollectedSteps
  <1>7. ASSUME NEW job \in jobs, NEW p \in Providers, ReadCursors(job, p)
        PROVE  IInv'
    BY <1>7, ReadCursorsSteps
  <1>8. ASSUME NEW job \in jobs, StoreCursors(job)
        PROVE  IInv'
    BY <1>8, StoreCursorsSteps
  <1>9. ASSUME NEW job \in jobs, Synced(job)
        PROVE  IInv'
    BY <1>9, SyncedSteps
  <1>10. CASE Read
    BY <1>10, ReadSteps
  <1>11. CASE ReadFails
    BY <1>11, ReadFailsSteps
  <1>12. CASE Offer
    BY <1>12, OfferSteps
  <1>13. CASE Delivered
    BY <1>13, DeliveredSteps
  <1>14. CASE ConsumeReturns
    BY <1>14, ConsumeReturnsSteps
  <1>15. CASE ConsumeThrows
    BY <1>15, ConsumeThrowsSteps
  <1>16. CASE Persist
    BY <1>16, PersistSteps
  <1>17. CASE UNCHANGED vars
    <2>1. UNCHANGED <<next, floor, store, bound, jobs, providers, loaded, cursor, offered,
                      subscribed, delivered, position, batch, event, queue, busy, step,
                      orphaned, up, lives, changes, handled, given, warnings, late, gap,
                      tailed, base, fed>>
      BY <1>17 DEF vars, redis, host, tail, dispatch, process, told, read
    <2>2. TypeInv' /\ FreshInv' /\ CursorInv'
      BY <2>1 DEF IInv, TypeInv, TypeOK, LoopInv, FreshInv, CursorInv
    <2> QED
      BY <2>1, <2>2, Kept DEF IInv, LoopInv, CoverInv, PromiseInv
  <1> QED
    BY <1>1, <1>2, <1>3, <1>4, <1>5, <1>6, <1>7, <1>8, <1>9, <1>10, <1>11, <1>12, <1>13,
       <1>14, <1>15, <1>16, <1>17, Zenon DEF Next

LEMMA SpecInv ==
  Spec => []IInv
  BY InitInv, NextInv, PTL DEF Spec

\* Every variable keeps its type, whatever provider comes, goes or throws.
THEOREM TypeCorrect ==
  Spec => []TypeOK
  <1>1. IInv => TypeOK
    BY DEF IInv, TypeInv
  <1> QED
    BY <1>1, SpecInv, PTL

\* In one life a provider is given an event at most once, and later ones later: what
\* the tail loop replays after a failed read lies below its seq cursor.
THEOREM EachIsGivenOnce ==
  Spec => []OnceInOrder
  <1>1. IInv => OnceInOrder
    BY DEF IInv, PromiseInv
  <1> QED
    BY <1>1, SpecInv, PTL

\* A cursor reaches Redis only from a handler that returned, whichever map it was
\* written through.
THEOREM PersistedCursorsAreEarned ==
  Spec => []CursorsAreEarned
  <1>1. IInv => CursorsAreEarned
    BY DEF IInv, PromiseInv
  <1> QED
    BY <1>1, SpecInv, PTL

\* What the loop has delivered, it has given to every provider that was there from the
\* start and had not handled it before, but for what the stream had trimmed.
THEOREM NothingPassesASubscriber ==
  Spec => []SubscribersMissNothing
  <1>1. ASSUME IInv
        PROVE  SubscribersMissNothing
    <2> SUFFICES ASSUME NEW p \in fed, NEW s \in Seqs, base[p] <= s, s < delivered
                 PROVE  IsGiven(p, s) \/ s \in gap
      BY DEF SubscribersMissNothing
    <2>1. /\ p \in Providers /\ s \in Nat /\ base[p] \in Nat /\ delivered \in Nat
          /\ tailed \in Nat /\ delivered <= tailed
      BY <1>1, Numbers DEF IInv, TypeInv, TypeOK, LoopInv, TailInv
    <2>2. ~Pending(p, s) /\ s < tailed
      BY <2>1 DEF Pending
    <2>3. Covers(p, s)
      BY <1>1, <2>2 DEF IInv, CoverInv, FedInv
    <2> QED
      BY <2>1, <2>3 DEF Covers
  <1> QED
    BY <1>1, SpecInv, PTL

\* A gap reported for a subscriber is a gap of the log, never one a throw left behind.
THEOREM WarningsAreOfGaps ==
  Spec => []SubscribersAreWarnedOfGaps
  <1>1. IInv => SubscribersAreWarnedOfGaps
    BY DEF IInv, PromiseInv
  <1> QED
    BY <1>1, SpecInv, PTL

\* At least once, over any number of crashes: the cursor of a provider that does not
\* throw and never came late covers only what it handled or the stream lost.
THEOREM NothingIsSkipped ==
  Spec => []AtLeastOnce
  <1>1. IInv => AtLeastOnce
    BY DEF IInv, PromiseInv
  <1> QED
    BY <1>1, SpecInv, PTL
=============================================================================
