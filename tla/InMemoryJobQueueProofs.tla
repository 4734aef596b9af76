------------------------ MODULE InMemoryJobQueueProofs ------------------------
(***************************************************************************)
(* The store of InMemoryJobQueue and the rationing of its worker, for any  *)
(* number of jobs, ids, attempts and slots.                                *)
(***************************************************************************)
EXTENDS InMemoryJobQueue, TLAPS

-----------------------------------------------------------------------------
(* The inductive invariant *)

\* Nothing is listed before it is enqueued, and jobs are enqueued in their order.
ListedInv ==
  /\ \A j \in list \cup given : status[j] # "none"
  /\ \A j, k \in Jobs : status[j] # "none" /\ k < j => status[k] # "none"

\* Who has no id from its caller has one that was counted out.
CountedInv ==
  \A j \in Jobs \ given : status[j] # "none" => \E n \in 1 .. counter : id[j] = Generated[n]

StoreInv == StoreAgrees /\ ListedInv /\ CountedInv

\* No job has two open attempts.
OpenOnce == \A m, n \in DOMAIN open : open[m] = open[n] => m = n

SlotsInv == active = Len(open) /\ active <= Concurrency

\* What a job has used of its attempts; one that can still start has one left.
Rationed(j) ==
  /\ IsOpen(j) <=> status[j] = "active"
  /\ attempt[j] <= Attempts
  /\ status[j] \in {"none", "waiting", "delayed", "active"} => attempt[j] < Attempts
  /\ j \in abandoned => status[j] = "failed"

AttemptInv == OpenOnce /\ SlotsInv /\ \A j \in Jobs : Rationed(j)

IInv == TypeOK /\ StoreInv /\ AttemptInv

LEMMA JobsAreNat == \A j \in Jobs : j \in Nat /\ j # NoJob
  BY MaxJobsAssumption, NoJobAssumption DEF Jobs

-----------------------------------------------------------------------------
(* The open attempts *)

LEMMA WithoutOne ==
  ASSUME open \in Seq(Jobs), OpenOnce, NEW j \in Jobs, IsOpen(j)
  PROVE  /\ OpenWithout(j) \in Seq(Jobs)
         /\ Len(OpenWithout(j)) = Len(open) - 1
         /\ Len(open) \in Nat \ {0}
         /\ \A m, n \in DOMAIN OpenWithout(j) : OpenWithout(j)[m] = OpenWithout(j)[n] => m = n
         /\ \A k \in Jobs : (\E n \in DOMAIN OpenWithout(j) : OpenWithout(j)[n] = k)
                            <=> IsOpen(k) /\ k # j
  <1> DEFINE at == CHOOSE n \in DOMAIN open : open[n] = j
  <1> DEFINE without == [n \in 1 .. Len(open) - 1 |-> IF n < at THEN open[n] ELSE open[n + 1]]
  <1>1. at \in DOMAIN open /\ open[at] = j
    BY DEF IsOpen
  <1>2. OpenWithout(j) = without
    BY DEF OpenWithout
  <1> HIDE DEF at
  <1>3. Len(open) \in Nat /\ DOMAIN open = 1 .. Len(open) /\ at \in Nat /\ 1 <= at /\ at <= Len(open)
    BY <1>1
  <1>4. \A n \in 1 .. Len(open) : open[n] \in Jobs
    OBVIOUS
  <1>5. /\ DOMAIN without = 1 .. Len(open) - 1
        /\ \A n \in 1 .. Len(open) - 1 : without[n] = IF n < at THEN open[n] ELSE open[n + 1]
    OBVIOUS
  <1>6. \A n \in 1 .. Len(open) - 1 : n \in 1 .. Len(open) /\ n + 1 \in 1 .. Len(open)
    BY <1>3
  <1>7. \A n \in 1 .. Len(open) - 1 : without[n] \in Jobs
    BY <1>4, <1>5, <1>6
  <1>8. without \in Seq(Jobs) /\ Len(without) = Len(open) - 1
    BY <1>3, <1>7
  <1> HIDE DEF without
  <1>9. ASSUME NEW m \in DOMAIN without, NEW n \in DOMAIN without, without[m] = without[n]
        PROVE  m = n
    <2> DEFINE from(i) == IF i < at THEN i ELSE i + 1
    <2>1. without[m] = open[from(m)] /\ without[n] = open[from(n)]
      BY <1>5, <1>9
    <2>2. from(m) \in DOMAIN open /\ from(n) \in DOMAIN open
      BY <1>3, <1>5, <1>6, <1>9
    <2>3. from(m) = from(n)
      BY <1>9, <2>1, <2>2 DEF OpenOnce
    <2>4. m \in Nat /\ n \in Nat
      BY <1>5, <1>9
    <2> QED
      BY <1>3, <2>3, <2>4
  <1>10. ASSUME NEW k \in Jobs, NEW n \in DOMAIN without, without[n] = k
         PROVE  IsOpen(k) /\ k # j
    <2> DEFINE from == IF n < at THEN n ELSE n + 1
    <2>1. from \in DOMAIN open /\ open[from] = k
      BY <1>3, <1>5, <1>6, <1>10
    <2>2. from # at
      BY <1>3, <1>5, <1>10
    <2> QED
      BY <1>1, <2>1, <2>2 DEF OpenOnce, IsOpen
  <1>11. ASSUME NEW k \in Jobs, IsOpen(k), k # j
         PROVE  \E n \in DOMAIN without : without[n] = k
    <2>1. PICK i \in DOMAIN open : open[i] = k
      BY <1>11 DEF IsOpen
    <2>2. i # at /\ i \in Nat /\ 1 <= i /\ i <= Len(open)
      BY <1>1, <1>3, <1>11, <2>1
    <2>3. CASE i < at
      <3>1. i \in 1 .. Len(open) - 1
        BY <1>3, <2>2, <2>3
      <3> QED
        BY <1>5, <2>1, <2>3, <3>1
    <2>4. CASE i > at
      <3>1. i - 1 \in 1 .. Len(open) - 1 /\ ~(i - 1 < at) /\ i - 1 + 1 = i
        BY <1>3, <2>2, <2>4
      <3>2. without[i - 1] = open[i]
        BY <1>5, <3>1
      <3> QED
        BY <1>5, <2>1, <3>1, <3>2
    <2> QED
      BY <1>3, <2>2, <2>3, <2>4
  <1> QED
    BY <1>2, <1>3, <1>8, <1>9, <1>10, <1>11

\* An attempt that ends gives back its slot, and only its own.
LEMMA EndsFrees ==
  ASSUME TypeOK, AttemptInv, NEW j \in Jobs, Ends(j)
  PROVE  /\ open' \in Seq(Jobs) /\ active' \in Nat
         /\ OpenOnce' /\ SlotsInv'
         /\ \A k \in Jobs : IsOpen(k)' <=> IsOpen(k) /\ k # j
  <1>1. open \in Seq(Jobs) /\ OpenOnce /\ IsOpen(j) /\ open' = OpenWithout(j) /\ active' = active - 1
    BY DEF TypeOK, AttemptInv, Ends
  <1>2. /\ open' \in Seq(Jobs)
        /\ Len(open') = Len(open) - 1
        /\ Len(open) \in Nat \ {0}
        /\ \A m, n \in DOMAIN open' : open'[m] = open'[n] => m = n
        /\ \A k \in Jobs : (\E n \in DOMAIN open' : open'[n] = k) <=> IsOpen(k) /\ k # j
    BY <1>1, WithoutOne
  <1>3. active = Len(open) /\ active <= Concurrency
    BY DEF AttemptInv, SlotsInv
  <1>4. active' \in Nat /\ SlotsInv'
    BY <1>1, <1>2, <1>3, ConcurrencyAssumption DEF SlotsInv
  <1> QED
    BY <1>2, <1>4 DEF OpenOnce, IsOpen

-----------------------------------------------------------------------------
(* The store *)

\* Jobs that exist keep their id, whatever else happens to them.
Keeps ==
  /\ UNCHANGED names
  /\ \A j \in Jobs : status'[j] # "none" <=> status[j] # "none"

Stores == UNCHANGED store \/ \E I \in SUBSET (Ids \cup {NoJob}) : Remove(I)

\* The end of a job takes away at most its own id.
LEMMA EndsStore ==
  ASSUME TypeOK, NEW j \in Jobs, status[j] # "none", NEW how \in {"completed", "failed"},
         End(j, how), UNCHANGED names
  PROVE  /\ Keeps /\ Stores
         /\ status' = [status EXCEPT ![j] = how]
         /\ due' = due
  <1>1. status' = [status EXCEPT ![j] = how] /\ due' = due
    BY DEF End
  <1>2. Keeps
    BY <1>1 DEF Keeps, TypeOK
  <1>3. Stores
    <2>1. CASE how \in discards[j]
      <3>1. Remove({id[j]}) /\ {id[j]} \in SUBSET (Ids \cup {NoJob})
        BY <2>1 DEF End, TypeOK
      <3> QED
        BY <3>1 DEF Stores
    <2>2. CASE how \notin discards[j]
      BY <2>2 DEF End, Stores
    <2> QED
      BY <2>1, <2>2
  <1> QED
    BY <1>1, <1>2, <1>3

\* What becomes of a job whose attempt failed.
LEMMA RetryOrFailStore ==
  ASSUME TypeOK, NEW j \in Jobs, status[j] # "none", RetryOrFail(j), UNCHANGED names
  PROVE  /\ Keeps /\ Stores
         /\ due' \in [Jobs -> BOOLEAN]
         /\ \/ status' = [status EXCEPT ![j] = "waiting"] /\ attempt[j] + 1 < Attempts
            \/ status' = [status EXCEPT ![j] = "failed"]
  <1>1. CASE attempt[j] + 1 < Attempts
    <2>1. Retry(j)
      BY <1>1 DEF RetryOrFail
    <2> QED
      BY <1>1, <2>1 DEF Retry, Keeps, Stores, TypeOK
  <1>2. CASE ~(attempt[j] + 1 < Attempts)
    <2>1. End(j, "failed")
      BY <1>2 DEF RetryOrFail
    <2>2. Keeps /\ Stores /\ status' = [status EXCEPT ![j] = "failed"] /\ due' = due
      BY <2>1, EndsStore
    <2> QED
      BY <2>2 DEF TypeOK
  <1> QED
    BY <1>1, <1>2

LEMMA RetryOrFailTyped ==
  ASSUME TypeOK, NEW j \in Jobs, status[j] # "none", RetryOrFail(j), UNCHANGED names
  PROVE  /\ status' \in [Jobs -> Statuses]
         /\ \A k \in Jobs : status'[k] # "none" => id'[k] \in Ids
  <1>1. PICK v \in {"waiting", "failed"} : status' = [status EXCEPT ![j] = v]
    BY RetryOrFailStore
  <1>2. status \in [Jobs -> Statuses] /\ \A k \in Jobs : status[k] # "none" => id[k] \in Ids
    BY DEF TypeOK
  <1>3. v \in Statuses
    BY DEF Statuses
  <1> QED
    BY <1>1, <1>2, <1>3 DEF names

\* Whose attempt is open has been enqueued.
LEMMA OpenIsActive ==
  ASSUME AttemptInv, NEW j \in Jobs, IsOpen(j)
  PROVE  status[j] = "active"
  BY DEF AttemptInv, Rationed

LEMMA AbandonStore ==
  ASSUME TypeOK, AttemptInv, NEW j \in Jobs, Abandon(j)
  PROVE  Keeps /\ Stores /\ status' = [status EXCEPT ![j] = "failed"] /\ due' = due
  <1>1. IsOpen(j) /\ UNCHANGED names /\ End(j, "failed")
    BY DEF Abandon, Ends
  <1>2. status[j] = "active"
    BY <1>1, OpenIsActive
  <1> QED
    BY <1>1, <1>2, EndsStore

\* An id leads to an attempt only through a job.
LEMMA LiveIsJob ==
  ASSUME TypeOK, NEW i \in Ids, live[i] # NoJob
  PROVE  live[i] \in Jobs
  BY DEF TypeOK

LEMMA StoreEffects ==
  ASSUME TypeOK, AttemptInv, [Next]_vars
  PROVE  \/ Keeps /\ Stores
         \/ \E j \in Jobs, i \in Ids, delayed \in BOOLEAN, ends \in Discarding :
              Enqueue(j, i, delayed, ends)
         \/ \E j \in Jobs, delayed \in BOOLEAN, ends \in Discarding :
              EnqueueUnnamed(j, delayed, ends)
  <1>1. CASE UNCHANGED vars
    BY <1>1 DEF vars, objects, store, Keeps, Stores
  <1>2. ASSUME NEW i \in Ids, CancelQueued(i)
        PROVE  Keeps /\ Stores
    <2>1. Remove({i}) /\ {i} \in SUBSET (Ids \cup {NoJob}) /\ UNCHANGED <<status, names>>
      BY <1>2 DEF CancelQueued, objects
    <2> QED
      BY <2>1 DEF Keeps, Stores
  <1>3. ASSUME NEW i \in Ids, CancelStarted(i)
        PROVE  Keeps /\ Stores
    BY <1>3, LiveIsJob, AbandonStore DEF CancelStarted
  <1>4. CASE Drain
    <2> DEFINE I == {id[j] : j \in {k \in list : IsQueued(k)}}
    <2>1. Remove(I) /\ UNCHANGED <<status, names>>
      BY <1>4 DEF Drain, objects
    <2>2. I \in SUBSET (Ids \cup {NoJob})
      BY DEF TypeOK
    <2> HIDE DEF I
    <2> QED
      BY <2>1, <2>2 DEF Keeps, Stores
  <1>5. ASSUME NEW n \in 1 .. Concurrency, DiscardStalled(n)
        PROVE  Keeps /\ Stores
    <2> DEFINE I == {id[open[m]] : m \in {k \in 1 .. n : open[k] \in list}}
    <2>1. Remove(I) /\ UNCHANGED <<status, names>>
      BY <1>5 DEF DiscardStalled, objects
    <2>2. I \in SUBSET (Ids \cup {NoJob})
      BY DEF TypeOK
    <2> HIDE DEF I
    <2> QED
      BY <2>1, <2>2 DEF Keeps, Stores
  <1>6. CASE (\E p \in BOOLEAN : SetPaused(p)) \/ Close
    BY <1>6 DEF SetPaused, Close, objects, store, Keeps, Stores
  <1>7. ASSUME NEW j \in Jobs, Start(j)
        PROVE  Keeps /\ Stores
    BY <1>7 DEF Start, IsNext, IsReady, IsQueued, store, Keeps, Stores, TypeOK
  <1>8. ASSUME NEW j \in Jobs, StartFails(j)
        PROVE  Keeps /\ Stores
    <2>1. UNCHANGED names /\ RetryOrFail(j) /\ status[j] # "none"
      BY <1>8 DEF StartFails, IsNext, IsReady, IsQueued
    <2> QED
      BY <2>1, RetryOrFailStore
  <1>9. ASSUME NEW j \in Jobs, Elapse(j)
        PROVE  Keeps /\ Stores
    BY <1>9 DEF Elapse, store, Keeps, Stores
  <1>10. ASSUME NEW j \in Jobs, HandlerReturns(j)
         PROVE  Keeps /\ Stores
    <2>1. UNCHANGED names /\ End(j, "completed") /\ status[j] # "none"
      BY <1>10, OpenIsActive DEF HandlerReturns, Ends
    <2> QED
      BY <2>1, EndsStore
  <1>11. ASSUME NEW j \in Jobs, HandlerThrows(j)
         PROVE  Keeps /\ Stores
    <2>1. UNCHANGED names /\ RetryOrFail(j) /\ status[j] # "none"
      BY <1>11, OpenIsActive DEF HandlerThrows, Ends
    <2> QED
      BY <2>1, RetryOrFailStore
  <1>12. ASSUME NEW j \in Jobs, Deadline(j)
         PROVE  Keeps /\ Stores
    BY <1>12, AbandonStore DEF Deadline
  <1> QED
    BY <1>1, <1>2, <1>3, <1>4, <1>5, <1>6, <1>7, <1>8, <1>9, <1>10, <1>11, <1>12
       DEF Next, Callers, Worker

\* A new job is the latest under its id, beside a job named the other way at most.
LEMMA AddStores ==
  ASSUME TypeOK, StoreInv, NEW j \in Jobs, NEW i \in Ids, NEW delayed, NEW ends,
         Add(j, i, delayed, ends),
         given' \in {given, given \cup {j}},
         seen' = IF j \in given' THEN seen \cup {i} ELSE seen,
         \A k \in Carriers(i) : k \in given <=> j \notin given'
  PROVE  StoreAgrees' /\ ListedInv'
  <1>1. /\ status[j] = "none" /\ \A k \in Jobs : k < j => status[k] # "none"
        /\ status'[j] # "none" /\ \A k \in Jobs : k # j => status'[k] = status[k]
        /\ id'[j] = i /\ \A k \in Jobs : k # j => id'[k] = id[k]
        /\ byId'[i] = j /\ \A n \in Ids : n # i => byId'[n] = byId[n]
        /\ list' = list \cup {j}
    BY DEF Add, TypeOK
  <1>2. j \notin list /\ j \notin given
    BY <1>1 DEF StoreInv, ListedInv
  <1>3. \A k \in list : k < j
    <2> SUFFICES ASSUME NEW k \in list
                 PROVE  k < j
      OBVIOUS
    <2>1. k \in Jobs /\ k # j /\ status[k] # "none" /\ ~(j < k)
      BY <1>1, <1>2 DEF StoreInv, ListedInv, TypeOK
    <2> QED
      BY <2>1, MaxJobsAssumption DEF Jobs
  <1>4. Carriers(i)' = Carriers(i) \cup {j} /\ \A n \in Ids : n # i => Carriers(n)' = Carriers(n)
    BY <1>1, <1>2 DEF Carriers, TypeOK
  <1>5. \A k \in list : k \in given' <=> k \in given
    BY <1>2
  <1>6. \A n \in Ids : Carriers(n) \subseteq list
    BY DEF Carriers
  <1>7. ASSUME NEW n \in Ids, n # i
        PROVE  /\ IF Carriers(n)' = {} THEN byId'[n] = NoJob ELSE IsLatest(byId'[n], Carriers(n)')
               /\ n \in seen' <=> Carriers(n)' \cap given' # {}
               /\ \A a, b \in Carriers(n)' : (a \in given' <=> b \in given') => a = b
    <2>1. Carriers(n)' = Carriers(n) /\ byId'[n] = byId[n] /\ (n \in seen' <=> n \in seen)
      BY <1>1, <1>4, <1>7
    <2>2. /\ IF Carriers(n) = {} THEN byId[n] = NoJob ELSE IsLatest(byId[n], Carriers(n))
          /\ n \in seen <=> Carriers(n) \cap given # {}
          /\ \A a, b \in Carriers(n) : (a \in given <=> b \in given) => a = b
      BY DEF StoreInv, StoreAgrees
    <2>3. \A a \in Carriers(n) : a \in given' <=> a \in given
      BY <1>5, <1>6
    <2>4. Carriers(n)' \cap given' = Carriers(n) \cap given
      BY <2>1, <2>3
    <2> QED
      BY <2>1, <2>2, <2>3, <2>4
  <1>8. IsLatest(byId'[i], Carriers(i)')
    <2>1. ASSUME NEW k \in Carriers(i)'
          PROVE  k <= j
      <3>1. k = j \/ k \in list
        BY <1>4, <1>6, <2>1
      <3>2. k \in Nat /\ j \in Nat
        BY <3>1, JobsAreNat DEF TypeOK
      <3> QED
        BY <1>3, <3>1, <3>2
    <2> QED
      BY <1>1, <1>4, <2>1 DEF IsLatest
  <1>9. i \in seen' <=> Carriers(i)' \cap given' # {}
    <2>1. i \in seen <=> Carriers(i) \cap given # {}
      BY DEF StoreInv, StoreAgrees
    <2>2. CASE j \in given'
      BY <1>4, <2>2
    <2>3. CASE j \notin given'
      <3>1. given' = given /\ seen' = seen
        BY <2>3
      <3>2. Carriers(i)' \cap given' = Carriers(i) \cap given
        BY <1>2, <1>4, <3>1
      <3> QED
        BY <2>1, <3>1, <3>2
    <2> QED
      BY <2>2, <2>3
  <1>10. \A a, b \in Carriers(i)' : (a \in given' <=> b \in given') => a = b
    <2> SUFFICES ASSUME NEW a \in Carriers(i)', NEW b \in Carriers(i)', a # b
                 PROVE  ~(a \in given' <=> b \in given')
      OBVIOUS
    <2>1. \A m, n \in Carriers(i) : (m \in given <=> n \in given) => m = n
      BY DEF StoreInv, StoreAgrees
    <2>2. \A k \in Carriers(i) : k \in given' <=> k \in given
      BY <1>5, <1>6
    <2> QED
      BY <1>4, <2>1, <2>2
  <1>11. Carriers(i)' # {}
    BY <1>4
  <1>12. ASSUME NEW n \in Ids
         PROVE  /\ IF Carriers(n)' = {} THEN byId'[n] = NoJob ELSE IsLatest(byId'[n], Carriers(n)')
                /\ n \in seen' <=> Carriers(n)' \cap given' # {}
                /\ \A a, b \in Carriers(n)' : (a \in given' <=> b \in given') => a = b
    <2>1. CASE n = i
      BY <1>8, <1>9, <1>10, <1>11, <2>1
    <2>2. CASE n # i
      BY <1>7, <2>2
    <2> QED
      BY <2>1, <2>2
  <1>13. ListedInv'
    <2>1. \A k \in list' \cup given' : status'[k] # "none"
      BY <1>1 DEF StoreInv, ListedInv, TypeOK
    <2>2. \A a, b \in Jobs : status'[a] # "none" /\ b < a => status'[b] # "none"
      <3> SUFFICES ASSUME NEW a \in Jobs, NEW b \in Jobs, status'[a] # "none", b < a, b # j
                   PROVE  status'[b] # "none"
        BY <1>1
      <3>1. CASE a = j
        BY <1>1, <3>1
      <3>2. CASE a # j
        BY <1>1, <3>2 DEF StoreInv, ListedInv
      <3> QED
        BY <3>1, <3>2
    <2> QED
      BY <2>1, <2>2 DEF ListedInv
  <1> QED
    BY <1>12, <1>13 DEF StoreAgrees, IsLatest

\* No listed job has an id that a caller may give, from a caller.
LEMMA EnqueueStores ==
  ASSUME TypeOK, StoreInv, NEW j \in Jobs, NEW i \in Ids, NEW delayed \in BOOLEAN,
         NEW ends \in Discarding, Enqueue(j, i, delayed, ends)
  PROVE  StoreInv'
  <1>1. /\ i \notin seen /\ Add(j, i, delayed, ends)
        /\ given' = given \cup {j} /\ seen' = seen \cup {i} /\ counter' = counter
    BY DEF Enqueue
  <1>2. \A k \in Carriers(i) : k \in given <=> j \notin given'
    BY <1>1 DEF StoreInv, StoreAgrees
  <1>3. StoreAgrees' /\ ListedInv'
    BY <1>1, <1>2, AddStores
  <1>4. \A k \in Jobs : k # j => status'[k] = status[k] /\ id'[k] = id[k]
    BY <1>1 DEF Add, TypeOK
  <1>5. CountedInv'
    BY <1>1, <1>4 DEF StoreInv, CountedInv
  <1> QED
    BY <1>3, <1>5 DEF StoreInv

\* The counter gives no id twice.
LEMMA UnnamedStores ==
  ASSUME TypeOK, StoreInv, NEW j \in Jobs, NEW delayed \in BOOLEAN,
         NEW ends \in Discarding, EnqueueUnnamed(j, delayed, ends)
  PROVE  StoreInv'
  <1> DEFINE i == Generated[counter + 1]
  <1>1. /\ counter < Len(Generated) /\ Add(j, i, delayed, ends)
        /\ given' = given /\ seen' = seen /\ counter' = counter + 1
    BY DEF EnqueueUnnamed
  <1>2. counter \in Nat /\ Len(Generated) \in Nat /\ counter + 1 \in 1 .. Len(Generated)
    BY <1>1, GeneratedAssumption DEF TypeOK
  <1>3. i \in Ids
    BY <1>2, GeneratedAssumption
  <1>4. status[j] = "none" /\ j \notin given /\ j \notin given'
    BY <1>1 DEF Add, StoreInv, ListedInv
  <1>5. \A k \in Carriers(i) : k \in given
    <2> SUFFICES ASSUME NEW k \in list, id[k] = i, k \notin given
                 PROVE  FALSE
      BY DEF Carriers
    <2>1. k \in Jobs /\ status[k] # "none"
      BY DEF StoreInv, ListedInv, TypeOK
    <2>2. PICK n \in 1 .. counter : id[k] = Generated[n]
      BY <2>1 DEF StoreInv, CountedInv
    <2>3. n \in 1 .. Len(Generated) /\ n # counter + 1 /\ Generated[n] = Generated[counter + 1]
      BY <1>2, <2>2
    <2> QED
      BY <1>2, <2>3, GeneratedAssumption
  <1> HIDE DEF i
  <1>6. StoreAgrees' /\ ListedInv'
    BY <1>1, <1>3, <1>4, <1>5, AddStores
  <1>7. id'[j] = i /\ \A k \in Jobs : k # j => status'[k] = status[k] /\ id'[k] = id[k]
    BY <1>1 DEF Add, TypeOK
  <1>8. CountedInv'
    <2> SUFFICES ASSUME NEW k \in Jobs, k \notin given, status'[k] # "none"
                 PROVE  \E n \in 1 .. counter + 1 : id'[k] = Generated[n]
      BY <1>1 DEF CountedInv
    <2>1. CASE k = j
      BY <1>2, <1>7, <2>1 DEF i
    <2>2. CASE k # j
      <3>1. PICK n \in 1 .. counter : id[k] = Generated[n]
        BY <1>7, <2>2 DEF StoreInv, CountedInv
      <3> QED
        BY <1>2, <1>7, <2>2, <3>1
    <2> QED
      BY <2>1, <2>2
  <1> QED
    BY <1>6, <1>8 DEF StoreInv

\* Whichever ids are removed, the three views lose the same jobs.
LEMMA RemoveStores ==
  ASSUME TypeOK, StoreInv, Keeps, NEW I, Remove(I)
  PROVE  StoreInv'
  <1>1. /\ list' = {j \in list : id[j] \notin I}
        /\ seen' = seen \ I
        /\ \A i \in Ids : byId'[i] = IF i \in I THEN NoJob ELSE byId[i]
        /\ id' = id /\ given' = given /\ counter' = counter
    BY DEF Remove, Keeps, names
  <1>2. ASSUME NEW i \in Ids
        PROVE  /\ IF Carriers(i)' = {} THEN byId'[i] = NoJob ELSE IsLatest(byId'[i], Carriers(i)')
               /\ i \in seen' <=> Carriers(i)' \cap given' # {}
               /\ \A j, k \in Carriers(i)' : (j \in given' <=> k \in given') => j = k
    <2>1. Carriers(i)' = IF i \in I THEN {} ELSE Carriers(i)
      BY <1>1 DEF Carriers
    <2>2. /\ IF Carriers(i) = {} THEN byId[i] = NoJob ELSE IsLatest(byId[i], Carriers(i))
          /\ i \in seen <=> Carriers(i) \cap given # {}
          /\ \A j, k \in Carriers(i) : (j \in given <=> k \in given) => j = k
      BY DEF StoreInv, StoreAgrees
    <2>3. CASE i \in I
      BY <1>1, <2>1, <2>3
    <2>4. CASE i \notin I
      BY <1>1, <2>1, <2>2, <2>4
    <2> QED
      BY <2>3, <2>4
  <1>3. StoreAgrees'
    BY <1>2 DEF StoreAgrees, IsLatest
  <1>4. ListedInv'
    BY <1>1 DEF StoreInv, ListedInv, Keeps, TypeOK
  <1>5. CountedInv'
    BY <1>1 DEF StoreInv, CountedInv, Keeps
  <1> QED
    BY <1>3, <1>4, <1>5 DEF StoreInv

LEMMA StoreHolds ==
  ASSUME TypeOK, AttemptInv, StoreInv, [Next]_vars
  PROVE  StoreInv'
  <1>1. ASSUME Keeps, UNCHANGED store
        PROVE  StoreInv'
    <2>1. StoreAgrees'
      BY <1>1 DEF Keeps, names, store, StoreInv, StoreAgrees, Carriers, IsLatest
    <2>2. ListedInv' /\ CountedInv'
      BY <1>1 DEF Keeps, names, store, StoreInv, ListedInv, CountedInv, TypeOK
    <2> QED
      BY <2>1, <2>2 DEF StoreInv
  <1>2. ASSUME Keeps, Stores
        PROVE  StoreInv'
    BY <1>1, <1>2, RemoveStores DEF Stores
  <1> QED
    BY <1>2, StoreEffects, EnqueueStores, UnnamedStores

-----------------------------------------------------------------------------
(* Types *)

\* The variables of the objects and the store that a removal or an end may change.
LEMMA StoreTyped ==
  ASSUME TypeOK, Stores
  PROVE  list' \subseteq Jobs /\ byId' \in [Ids -> Jobs \cup {NoJob}] /\ seen' \subseteq Ids
  BY DEF TypeOK, names, Stores, store, Remove

LEMMA IdsStay ==
  ASSUME TypeOK, Keeps, NEW s, NEW j \in Jobs, status[j] # "none" \/ s = "none",
         status' = [status EXCEPT ![j] = s]
  PROVE  /\ id' \in [Jobs -> Ids \cup {NoJob}]
         /\ \A k \in Jobs : status'[k] # "none" => id'[k] \in Ids
  BY DEF TypeOK, names, Keeps

LEMMA TriesTyped ==
  ASSUME TypeOK, NEW j \in Jobs, Tries(j)
  PROVE  attempt' \in [Jobs -> Nat]
  BY DEF TypeOK, names, Tries

LEMMA AbandonTyped ==
  ASSUME TypeOK, AttemptInv, NEW j \in Jobs, Abandon(j)
  PROVE  TypeOK'
  <1>1. Tries(j) /\ Ends(j) /\ abandoned' = abandoned \cup {j} /\ status[j] # "none"
    BY OpenIsActive DEF Abandon, Ends
  <1>2. Keeps /\ Stores /\ status' = [status EXCEPT ![j] = "failed"] /\ due' = due
    BY AbandonStore
  <1>3. attempt' \in [Jobs -> Nat]
    BY <1>1, TriesTyped
  <1>4. /\ status' \in [Jobs -> Statuses]
        /\ live' \in [Ids -> Jobs \cup {NoJob}]
        /\ UNCHANGED <<discards, paused, closed>>
        /\ abandoned' \subseteq Jobs
    BY <1>1, <1>2 DEF Ends, TypeOK, names, Statuses
  <1>5. /\ list' \subseteq Jobs /\ byId' \in [Ids -> Jobs \cup {NoJob}] /\ seen' \subseteq Ids
        /\ open' \in Seq(Jobs) /\ active' \in Nat
    BY <1>1, <1>2, StoreTyped, EndsFrees
  <1>6. /\ id' \in [Jobs -> Ids \cup {NoJob}] /\ given' \subseteq Jobs /\ counter' \in 0 .. Len(Generated)
        /\ due' \in [Jobs -> BOOLEAN]
        /\ \A k \in Jobs : status'[k] # "none" => id'[k] \in Ids
    BY <1>1, <1>2, IdsStay DEF Keeps, names, TypeOK
  <1> QED
    BY <1>3, <1>4, <1>5, <1>6 DEF TypeOK

LEMMA AddTyped ==
  ASSUME TypeOK, NEW j \in Jobs, NEW i \in Ids, NEW delayed \in BOOLEAN, NEW ends \in Discarding,
         Add(j, i, delayed, ends),
         given' \subseteq Jobs, seen' \subseteq Ids, counter' \in 0 .. Len(Generated)
  PROVE  TypeOK'
  <1>1. UNCHANGED <<attempt, abandoned, paused, open, active, live, closed>>
    BY DEF Add, attempts
  <1>2. ends \subseteq {"completed", "failed"}
    BY DiscardingAssumption
  <1>3. status' \in [Jobs -> Statuses] /\ due' \in [Jobs -> BOOLEAN]
    BY DEF Add, TypeOK, Statuses
  <1>4. /\ id' = [id EXCEPT ![j] = i]
        /\ \A k \in Jobs : k # j => status'[k] = status[k]
        /\ discards' = [discards EXCEPT ![j] = ends]
        /\ list' = list \cup {j} /\ byId' = [byId EXCEPT ![i] = j]
    BY DEF Add, TypeOK
  <1> QED
    BY <1>1, <1>2, <1>3, <1>4 DEF TypeOK, names

LEMMA TypeHolds ==
  ASSUME TypeOK, AttemptInv, [Next]_vars
  PROVE  TypeOK'
  <1>1. CASE UNCHANGED vars
    BY <1>1 DEF vars, objects, store, attempts, TypeOK, names
  <1>2. ASSUME NEW j \in Jobs, NEW i \in Ids, NEW delayed \in BOOLEAN,
               NEW ends \in Discarding, Enqueue(j, i, delayed, ends)
        PROVE  TypeOK'
    <2>1. /\ Add(j, i, delayed, ends)
          /\ given' = given \cup {j} /\ seen' = seen \cup {i} /\ counter' = counter
      BY <1>2 DEF Enqueue
    <2>2. given' \subseteq Jobs /\ seen' \subseteq Ids /\ counter' \in 0 .. Len(Generated)
      BY <2>1 DEF TypeOK, names
    <2> QED
      BY <2>1, <2>2, AddTyped
  <1>15. ASSUME NEW j \in Jobs, NEW delayed \in BOOLEAN,
                NEW ends \in Discarding, EnqueueUnnamed(j, delayed, ends)
         PROVE  TypeOK'
    <2>1. /\ counter < Len(Generated) /\ Add(j, Generated[counter + 1], delayed, ends)
          /\ given' = given /\ seen' = seen /\ counter' = counter + 1
      BY <1>15 DEF EnqueueUnnamed
    <2>2. counter + 1 \in 1 .. Len(Generated) /\ Generated[counter + 1] \in Ids
      BY <2>1, GeneratedAssumption DEF TypeOK
    <2>3. given' \subseteq Jobs /\ seen' \subseteq Ids /\ counter' \in 0 .. Len(Generated)
      BY <2>1, <2>2 DEF TypeOK, names
    <2> QED
      BY <2>1, <2>2, <2>3, AddTyped
  <1>3. ASSUME NEW i \in Ids, CancelQueued(i)
        PROVE  TypeOK'
    BY <1>3 DEF CancelQueued, Remove, objects, attempts, TypeOK, names
  <1>4. ASSUME NEW i \in Ids, CancelStarted(i)
        PROVE  TypeOK'
    BY <1>4, LiveIsJob, AbandonTyped DEF CancelStarted
  <1>5. CASE Drain
    BY <1>5 DEF Drain, Remove, objects, attempts, TypeOK, names
  <1>6. ASSUME NEW n \in 1 .. Concurrency, DiscardStalled(n)
        PROVE  TypeOK'
    BY <1>6 DEF DiscardStalled, Remove, objects, attempts, TypeOK, names
  <1>7. ASSUME NEW p \in BOOLEAN, SetPaused(p)
        PROVE  TypeOK'
    BY <1>7 DEF SetPaused, objects, store, attempts, TypeOK, names
  <1>8. CASE Close
    BY <1>8 DEF Close, objects, store, attempts, TypeOK, names
  <1>9. ASSUME NEW j \in Jobs, Start(j)
        PROVE  TypeOK'
    <2>1. status[j] # "none" /\ id[j] \in Ids
      BY <1>9 DEF Start, IsNext, IsReady, IsQueued, TypeOK, names
    <2>2. /\ UNCHANGED <<id, given, counter, attempt, due, discards, abandoned, list, byId, seen, paused, closed>>
          /\ status' = [status EXCEPT ![j] = "active"]
          /\ active' = active + 1
          /\ open' = Append(open, j)
          /\ live' = [live EXCEPT ![id[j]] = j]
      BY <1>9 DEF Start, store, names
    <2>3. open' \in Seq(Jobs)
      BY <2>2 DEF TypeOK, names
    <2> QED
      BY <2>1, <2>2, <2>3 DEF TypeOK, names, Statuses
  <1>10. ASSUME NEW j \in Jobs, StartFails(j)
         PROVE  TypeOK'
    <2>1. Tries(j) /\ RetryOrFail(j) /\ status[j] # "none" /\ UNCHANGED names
      BY <1>10 DEF StartFails, IsNext, IsReady, IsQueued
    <2>2. UNCHANGED <<id, given, counter, discards, abandoned, paused, open, active, live, closed>>
      BY <1>10 DEF StartFails, attempts, names
    <2>3. Keeps /\ Stores /\ due' \in [Jobs -> BOOLEAN]
      BY <2>1, RetryOrFailStore
    <2>4. status' \in [Jobs -> Statuses] /\ \A k \in Jobs : status'[k] # "none" => id'[k] \in Ids
      BY <2>1, RetryOrFailTyped
    <2> QED
      BY <2>1, <2>2, <2>3, <2>4, StoreTyped, TriesTyped DEF TypeOK, names
  <1>11. ASSUME NEW j \in Jobs, Elapse(j)
         PROVE  TypeOK'
    BY <1>11 DEF Elapse, store, attempts, TypeOK, names
  <1>12. ASSUME NEW j \in Jobs, HandlerReturns(j)
         PROVE  TypeOK'
    <2>1. End(j, "completed") /\ Ends(j) /\ UNCHANGED names /\ status[j] # "none"
      BY <1>12, OpenIsActive DEF HandlerReturns, Ends
    <2>2. UNCHANGED <<attempt, abandoned>>
      BY <1>12 DEF HandlerReturns
    <2> QED
      BY <2>1, <2>2, EndsStore, StoreTyped, IdsStay, EndsFrees DEF Ends, TypeOK, names, Statuses
  <1>13. ASSUME NEW j \in Jobs, HandlerThrows(j)
         PROVE  TypeOK'
    <2>1. Tries(j) /\ RetryOrFail(j) /\ Ends(j) /\ UNCHANGED names /\ status[j] # "none"
      BY <1>13, OpenIsActive DEF HandlerThrows, Ends
    <2>2. abandoned' = abandoned
      BY <1>13 DEF HandlerThrows
    <2>3. Keeps /\ Stores /\ due' \in [Jobs -> BOOLEAN]
      BY <2>1, RetryOrFailStore
    <2>4. status' \in [Jobs -> Statuses] /\ \A k \in Jobs : status'[k] # "none" => id'[k] \in Ids
      BY <2>1, RetryOrFailTyped
    <2>5. live' \in [Ids -> Jobs \cup {NoJob}] /\ UNCHANGED <<discards, paused, closed>>
      BY <2>1 DEF Ends, TypeOK, names
    <2> QED
      BY <2>1, <2>2, <2>3, <2>4, <2>5, StoreTyped, TriesTyped, EndsFrees DEF TypeOK, names
  <1>14. ASSUME NEW j \in Jobs, Deadline(j)
         PROVE  TypeOK'
    BY <1>14, AbandonTyped DEF Deadline
  <1> QED
    BY <1>1, <1>2, <1>3, <1>4, <1>5, <1>6, <1>7, <1>8, <1>9, <1>10, <1>11, <1>12, <1>13, <1>14,
       <1>15
       DEF Next, Callers, Worker

-----------------------------------------------------------------------------
(* The attempts *)

\* Steps that leave the attempts alone.
Idle == UNCHANGED <<status, attempt, abandoned, open, active>>

LEMMA IdleSteps ==
  ASSUME AttemptInv, Idle
  PROVE  AttemptInv'
  BY DEF AttemptInv, Idle, OpenOnce, SlotsInv, Rationed, IsOpen

\* A job whose attempt ends has used it up, and may start again if one is left.
LEMMA EndKeepsRations ==
  ASSUME TypeOK, AttemptInv, NEW j \in Jobs, Ends(j), NEW s, NEW a,
         status' = [status EXCEPT ![j] = s],
         attempt' = [attempt EXCEPT ![j] = a],
         a \in {attempt[j], attempt[j] + 1},
         s \in {"waiting", "completed", "failed"},
         s = "waiting" => a < Attempts,
         abandoned' = abandoned \/ (abandoned' = abandoned \cup {j} /\ s = "failed")
  PROVE  AttemptInv'
  <1> USE AttemptsAssumption
  <1>1. OpenOnce' /\ SlotsInv' /\ \A k \in Jobs : IsOpen(k)' <=> IsOpen(k) /\ k # j
    BY EndsFrees
  <1>2. IsOpen(j) /\ status[j] = "active"
    BY OpenIsActive DEF Ends
  <1>3. attempt[j] \in Nat /\ attempt[j] < Attempts /\ j \notin abandoned
    BY <1>2 DEF AttemptInv, Rationed, TypeOK
  <1>4. ASSUME NEW k \in Jobs, k # j
        PROVE  Rationed(k)'
    <2>1. /\ status'[k] = status[k] /\ attempt'[k] = attempt[k]
          /\ (k \in abandoned' => k \in abandoned)
      BY <1>4 DEF TypeOK
    <2>2. Rationed(k)
      BY DEF AttemptInv
    <2> QED
      BY <1>1, <1>4, <2>1, <2>2 DEF Rationed
  <1>5. Rationed(j)'
    <2>1. status'[j] = s /\ attempt'[j] = a
      BY DEF TypeOK
    <2>2. j \in abandoned' => s = "failed"
      BY <1>3
    <2>3. ~IsOpen(j)'
      BY <1>1
    <2>4. a \in Nat /\ a <= Attempts
      BY <1>3
    <2> QED
      BY <2>1, <2>2, <2>3, <2>4 DEF Rationed
  <1> QED
    BY <1>1, <1>4, <1>5 DEF AttemptInv

LEMMA AbandonRations ==
  ASSUME TypeOK, AttemptInv, NEW j \in Jobs, Abandon(j)
  PROVE  AttemptInv'
  <1>1. Ends(j) /\ attempt' = [attempt EXCEPT ![j] = attempt[j] + 1] /\ abandoned' = abandoned \cup {j}
    BY DEF Abandon, Tries
  <1>2. status' = [status EXCEPT ![j] = "failed"]
    BY AbandonStore
  <1> QED
    BY <1>1, <1>2, EndKeepsRations

LEMMA StartRations ==
  ASSUME TypeOK, AttemptInv, NEW j \in Jobs, Start(j)
  PROVE  AttemptInv'
  <1> USE ConcurrencyAssumption
  <1>1. /\ active < Concurrency /\ IsQueued(j)
        /\ status' = [status EXCEPT ![j] = "active"]
        /\ active' = active + 1
        /\ open' = Append(open, j)
        /\ UNCHANGED <<attempt, abandoned>>
    BY DEF Start, MayStart, IsNext, IsReady
  <1>2. open \in Seq(Jobs) /\ Len(open) \in Nat /\ active = Len(open)
    BY DEF TypeOK, AttemptInv, SlotsInv
  <1>3. ~IsOpen(j) /\ Rationed(j)
    BY <1>1 DEF AttemptInv, Rationed, IsQueued
  <1>4. /\ Len(open') = Len(open) + 1
        /\ DOMAIN open' = 1 .. Len(open) + 1 /\ DOMAIN open = 1 .. Len(open)
        /\ \A n \in 1 .. Len(open) : open'[n] = open[n]
        /\ open'[Len(open) + 1] = j
    BY <1>1, <1>2
  <1>5. OpenOnce'
    <2> SUFFICES ASSUME NEW m \in 1 .. Len(open) + 1, NEW n \in 1 .. Len(open) + 1,
                        open'[m] = open'[n]
                 PROVE  m = n
      BY <1>4 DEF OpenOnce
    <2>1. \A i \in 1 .. Len(open) : open'[i] # j
      BY <1>3, <1>4 DEF IsOpen
    <2>2. CASE m \in 1 .. Len(open) /\ n \in 1 .. Len(open)
      BY <1>4, <2>2 DEF AttemptInv, OpenOnce
    <2>3. CASE m = Len(open) + 1 \/ n = Len(open) + 1
      BY <1>2, <1>4, <2>1, <2>3
    <2> QED
      BY <1>2, <2>2, <2>3
  <1>6. SlotsInv'
    BY <1>1, <1>2, <1>4 DEF SlotsInv
  <1>7. \A k \in Jobs : IsOpen(k)' <=> IsOpen(k) \/ k = j
    <2>1. IsOpen(j)'
      <3>1. Len(open) + 1 \in DOMAIN open'
        BY <1>2, <1>4
      <3> QED
        BY <1>4, <3>1 DEF IsOpen
    <2>2. ASSUME NEW k \in Jobs, IsOpen(k)
          PROVE  IsOpen(k)'
      <3>1. PICK n \in DOMAIN open : open[n] = k
        BY <2>2 DEF IsOpen
      <3>2. n \in DOMAIN open' /\ open'[n] = k
        BY <1>2, <1>4, <3>1
      <3> QED
        BY <3>2 DEF IsOpen
    <2>3. ASSUME NEW k \in Jobs, IsOpen(k)', k # j
          PROVE  IsOpen(k)
      <3>1. PICK n \in DOMAIN open' : open'[n] = k
        BY <2>3 DEF IsOpen
      <3>2. n # Len(open) + 1
        BY <1>4, <2>3, <3>1
      <3>3. n \in DOMAIN open /\ open[n] = k
        BY <1>2, <1>4, <3>1, <3>2
      <3> QED
        BY <3>3 DEF IsOpen
    <2> QED
      BY <2>1, <2>2, <2>3
  <1>8. ASSUME NEW k \in Jobs
        PROVE  Rationed(k)'
    <2>1. Rationed(k)
      BY DEF AttemptInv
    <2>2. /\ status'[k] = IF k = j THEN "active" ELSE status[k]
          /\ attempt'[k] = attempt[k]
          /\ abandoned' = abandoned
      BY <1>1 DEF TypeOK
    <2> QED
      BY <1>1, <1>7, <2>1, <2>2 DEF Rationed, IsQueued
  <1> QED
    BY <1>5, <1>6, <1>8 DEF AttemptInv

LEMMA StartFailsRations ==
  ASSUME TypeOK, AttemptInv, NEW j \in Jobs, StartFails(j)
  PROVE  AttemptInv'
  <1> USE AttemptsAssumption
  <1>1. /\ IsQueued(j) /\ RetryOrFail(j) /\ UNCHANGED names
        /\ attempt' = [attempt EXCEPT ![j] = attempt[j] + 1]
        /\ UNCHANGED <<abandoned, open, active>>
    BY DEF StartFails, IsNext, IsReady, Tries, attempts
  <1>2. \/ status' = [status EXCEPT ![j] = "waiting"] /\ attempt[j] + 1 < Attempts
        \/ status' = [status EXCEPT ![j] = "failed"]
    BY <1>1, RetryOrFailStore DEF IsQueued
  <1>3. OpenOnce' /\ SlotsInv' /\ \A k \in Jobs : IsOpen(k)' <=> IsOpen(k)
    BY <1>1 DEF AttemptInv, OpenOnce, SlotsInv, IsOpen
  <1>4. ASSUME NEW k \in Jobs
        PROVE  Rationed(k)'
    <2>1. Rationed(k)
      BY DEF AttemptInv
    <2>2. CASE k # j
      <3>1. status'[k] = status[k] /\ attempt'[k] = attempt[k] /\ abandoned' = abandoned
        BY <1>1, <1>2, <2>2 DEF TypeOK
      <3> QED
        BY <1>3, <2>1, <3>1 DEF Rationed
    <2>3. CASE k = j
      <3>1. /\ attempt'[j] = attempt[j] + 1 /\ attempt[j] \in Nat
            /\ attempt[j] < Attempts /\ ~IsOpen(j) /\ j \notin abandoned'
        BY <1>1, <2>1, <2>3 DEF TypeOK, Rationed, IsQueued
      <3>2. \/ status'[j] = "waiting" /\ attempt[j] + 1 < Attempts
            \/ status'[j] = "failed"
        BY <1>2 DEF TypeOK
      <3> QED
        BY <1>3, <2>3, <3>1, <3>2 DEF Rationed
    <2> QED
      BY <2>2, <2>3
  <1> QED
    BY <1>3, <1>4 DEF AttemptInv

LEMMA AddRations ==
  ASSUME TypeOK, AttemptInv, NEW j \in Jobs, NEW i, NEW delayed, NEW ends, Add(j, i, delayed, ends)
  PROVE  AttemptInv'
  <1>1. /\ status[j] = "none" /\ status'[j] \in {"waiting", "delayed"}
        /\ \A k \in Jobs : k # j => status'[k] = status[k]
        /\ UNCHANGED <<attempt, abandoned, open, active>>
    BY DEF Add, TypeOK, attempts
  <1>2. OpenOnce' /\ SlotsInv' /\ \A k \in Jobs : IsOpen(k)' <=> IsOpen(k)
    BY <1>1 DEF AttemptInv, OpenOnce, SlotsInv, IsOpen
  <1>3. \A k \in Jobs : Rationed(k)'
    BY <1>1, <1>2 DEF AttemptInv, Rationed
  <1> QED
    BY <1>2, <1>3 DEF AttemptInv

LEMMA AttemptsHold ==
  ASSUME TypeOK, AttemptInv, [Next]_vars
  PROVE  AttemptInv'
  <1>1. CASE UNCHANGED vars
    BY <1>1, IdleSteps DEF vars, objects, attempts, Idle
  <1>2. ASSUME NEW j \in Jobs, NEW i \in Ids, NEW delayed \in BOOLEAN,
               NEW ends \in Discarding, Enqueue(j, i, delayed, ends)
        PROVE  AttemptInv'
    BY <1>2, AddRations DEF Enqueue
  <1>14. ASSUME NEW j \in Jobs, NEW delayed \in BOOLEAN,
                NEW ends \in Discarding, EnqueueUnnamed(j, delayed, ends)
         PROVE  AttemptInv'
    BY <1>14, AddRations DEF EnqueueUnnamed
  <1>3. ASSUME NEW i \in Ids, CancelQueued(i)
        PROVE  AttemptInv'
    BY <1>3, IdleSteps DEF CancelQueued, objects, attempts, Idle
  <1>4. ASSUME NEW i \in Ids, CancelStarted(i)
        PROVE  AttemptInv'
    BY <1>4, LiveIsJob, AbandonRations DEF CancelStarted
  <1>5. CASE Drain \/ Close
    BY <1>5, IdleSteps DEF Drain, Close, objects, attempts, Idle
  <1>6. ASSUME NEW n \in 1 .. Concurrency, DiscardStalled(n)
        PROVE  AttemptInv'
    BY <1>6, IdleSteps DEF DiscardStalled, objects, attempts, Idle
  <1>7. ASSUME NEW p \in BOOLEAN, SetPaused(p)
        PROVE  AttemptInv'
    BY <1>7, IdleSteps DEF SetPaused, objects, attempts, Idle
  <1>8. ASSUME NEW j \in Jobs, Start(j)
        PROVE  AttemptInv'
    BY <1>8, StartRations
  <1>9. ASSUME NEW j \in Jobs, StartFails(j)
        PROVE  AttemptInv'
    BY <1>9, StartFailsRations
  <1>10. ASSUME NEW j \in Jobs, Elapse(j)
         PROVE  AttemptInv'
    BY <1>10, IdleSteps DEF Elapse, attempts, Idle
  <1>11. ASSUME NEW j \in Jobs, HandlerReturns(j)
         PROVE  AttemptInv'
    <2>1. Ends(j) /\ UNCHANGED names /\ End(j, "completed") /\ UNCHANGED <<attempt, abandoned>>
      BY <1>11 DEF HandlerReturns, Ends
    <2>2. status' = [status EXCEPT ![j] = "completed"] /\ attempt' = [attempt EXCEPT ![j] = attempt[j]]
      BY <2>1 DEF End, TypeOK
    <2> QED
      BY <2>1, <2>2, EndKeepsRations
  <1>12. ASSUME NEW j \in Jobs, HandlerThrows(j)
         PROVE  AttemptInv'
    <2>1. /\ Ends(j) /\ UNCHANGED names /\ RetryOrFail(j) /\ abandoned' = abandoned
          /\ attempt' = [attempt EXCEPT ![j] = attempt[j] + 1]
          /\ status[j] # "none"
      BY <1>12, OpenIsActive DEF HandlerThrows, Ends, Tries
    <2> QED
      BY <2>1, RetryOrFailStore, EndKeepsRations
  <1>13. ASSUME NEW j \in Jobs, Deadline(j)
         PROVE  AttemptInv'
    BY <1>13, AbandonRations DEF Deadline
  <1> QED
    BY <1>1, <1>2, <1>3, <1>4, <1>5, <1>6, <1>7, <1>8, <1>9, <1>10, <1>11, <1>12, <1>13, <1>14
       DEF Next, Callers, Worker

-----------------------------------------------------------------------------
(* The theorems *)

LEMMA InitInv ==
  ASSUME Init
  PROVE  IInv
  <1> USE AttemptsAssumption, ConcurrencyAssumption, GeneratedAssumption DEF Init
  <1>1. TypeOK
    <2>1. [j \in Jobs |-> {}] \in [Jobs -> SUBSET {"completed", "failed"}]
      OBVIOUS
    <2>2. discards \in [Jobs -> SUBSET {"completed", "failed"}]
      BY <2>1
    <2>3. <<>> \in Seq(Jobs)
      OBVIOUS
    <2>4. 0 \in 0 .. Len(Generated)
      OBVIOUS
    <2> QED
      BY <2>2, <2>3, <2>4 DEF TypeOK, Statuses
  <1>2. StoreInv
    BY JobsAreNat DEF StoreInv, StoreAgrees, ListedInv, CountedInv, Carriers
  <1>3. AttemptInv
    BY DEF AttemptInv, OpenOnce, SlotsInv, Rationed, IsOpen
  <1> QED
    BY <1>1, <1>2, <1>3 DEF IInv

LEMMA SpecInv == Spec => []IInv
  <1>1. ASSUME IInv, [Next]_vars
        PROVE  IInv'
    BY <1>1, TypeHolds, StoreHolds, AttemptsHold DEF IInv
  <1> QED
    BY InitInv, <1>1, PTL DEF Spec

\* The job objects, the store and the worker's variables keep their types, and a job
\* that was enqueued has an id (InMemoryStore, InMemoryJobQueue, JobDeadlines).
THEOREM TypeCorrect == Spec => []TypeOK
  <1>1. IInv => TypeOK
    BY DEF IInv
  <1> QED
    BY <1>1, SpecInv, PTL

\* The index of a queue leads to the latest job listed under an id, its dedup keys are
\* the ids of the listed jobs that had them from their callers, and no id is listed
\* twice but once from a caller and once from the counter; whatever ends and whoever
\* removes, for any number of jobs, any ids and any overlap of the ids callers choose
\* with those the counter gives (enqueue, InMemoryStore.remove and those who call it:
\* the ends of attempts, cancel, drain, discardStalled).
THEOREM ViewsAgree == Spec => []StoreAgrees
  <1>1. IInv => StoreAgrees
    BY DEF IInv, StoreInv
  <1> QED
    BY <1>1, SpecInv, PTL

\* Slots are taken by open attempts only and never exceed the concurrency, no job is
\* attempted more often than it asked for, and an abandoned attempt is the last of its
\* job (runOne, JobDeadlines.run and abort), for any concurrency and any attempts.
THEOREM SlotsAndAttemptsAreRationed == Spec => []AttemptsAreRationed
  <1>1. IInv => AttemptsAreRationed
    BY DEF IInv, AttemptInv, SlotsInv, Rationed, AttemptsAreRationed
  <1> QED
    BY <1>1, SpecInv, PTL
=============================================================================
