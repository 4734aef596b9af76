--------------------------- MODULE PluginMountsProofs ---------------------------
(***************************************************************************)
(* What a mounted plugin may rely on, and what is left when it has gone,   *)
(* for any plugins, components and keys, whoever binds the same key as     *)
(* another.  What retraction leaves is proved for callers that keep no     *)
(* order at all; what holds while plugins are mounted, for those who wait  *)
(* for one kind of operation to end before they begin one of another.      *)
(***************************************************************************)
EXTENDS PluginMounts, FiniteSetTheorems, SequenceTheorems, TLAPS

-----------------------------------------------------------------------------
(* The invariant, whatever callers do *)

\* A mount that awaits its observers.
Awaits(p) == stage[p] \in {"initing", "starting"}

\* Only the first in the chain of the lock awaits its observers.
LockInv ==
  /\ \A i \in DOMAIN queue : stage[queue[i]] \in {"loading", "initing", "starting"}
  /\ \A i, j \in DOMAIN queue : queue[i] = queue[j] => i = j
  /\ \A p \in Plugins : Awaits(p) => HoldsLock(p)

Holders(s) == {p \in Plugins : IsMounted(p) /\ s \in Nested[p]}

\* The references that are counted are those of the mounted plugins.
CountInv ==
  \A s \in Shared : /\ count[s] = Cardinality(Holders(s))
                    /\ s \in recorded => Holders(s) # {}

\* The components a plugin has bound that no entry records: it awaits its observers,
\* or stops them, or its mount threw.
Claim(p) ==
  IF Awaits(p) \/ stage[p] = "broken" THEN made[p]
  ELSE IF stage[p] = "leaving" THEN leaving[p] \cap Shared ELSE {}

\* What is bound is recorded or claimed, by one only.
PartsInv ==
  /\ \A s \in Shared : s \in present <=> s \in recorded \/ \E p \in Plugins : s \in Claim(p)
  /\ \A p \in Plugins : Claim(p) \cap recorded = {}
  /\ \A p, q \in Plugins : p # q => Claim(p) \cap Claim(q) = {}
  /\ \A p \in Plugins : Awaits(p) => made[p] \subseteq Nested[p]

\* The stages in which a plugin has bound its key and not given it back.
Inside == {"initing", "starting", "committing", "in", "leaving", "broken"}

\* A plugin that is still to be mounted has bound nothing.
FreshInv ==
  \A p \in Plugins : stage[p] \in {"out", "loading"} =>
    /\ \A k \in Keys : bound[k] # p
    /\ \A q \in Plugins : displaced[q] # p
    /\ displaced[p] = Nobody

\* One that is inside has its key, unless another has taken it.
OwnInv ==
  \A p \in Plugins :
    /\ stage[p] \in Inside => bound[KeyOf[p]] = p \/ p \in Overridden
    /\ stage[p] = "leaving" => p \in leaving[p] \/ p \in Overridden
    /\ leaving[p] \subseteq {p} \cup Shared

\* No plugin that binds the key was ever overridden.
Untaken(k) == \A p \in Plugins : KeyOf[p] = k => p \notin Overridden

\* A key that nobody takes from a plugin is its plugin's while that is inside and the
\* application's, or nobody's, before and after.
KeyInv ==
  \A k \in Keys : Untaken(k) =>
    /\ \A p \in Plugins : KeyOf[p] = k /\ stage[p] \in Inside =>
                             bound[k] = p /\ displaced[p] = Original(k)
    /\ (\A p \in Plugins : KeyOf[p] = k => stage[p] \notin Inside) => bound[k] = Original(k)

BindingInv == FreshInv /\ OwnInv /\ KeyInv

IInv == TypeOK /\ LockInv /\ CountInv /\ PartsInv /\ BindingInv

-----------------------------------------------------------------------------
(* The invariant, if callers are disciplined *)

\* Mounts, teardowns and passes do not meet.
DisciplineInv ==
  /\ \A p, q \in Plugins : stage[p] = "leaving" => stage[q] \notin Underway
  /\ \A p \in Plugins : stage[p] \in Underway \cup {"leaving"} => state \in Settled
  /\ \A p \in Plugins : /\ stage[p] = "initing" => state = "initialized"
                        /\ stage[p] = "starting" => state = "started"

\* What a plugin nests is recorded, or debris, from the time it is mounted; until then
\* its own diff makes up for the rest, and nobody takes its key.
HeldInv ==
  \A p \in Plugins :
    /\ IsMounted(p) => Nested[p] \subseteq recorded \cup LeftParts
    /\ Awaits(p) => /\ Nested[p] \subseteq made[p] \cup recorded \cup LeftParts
                    /\ bound[KeyOf[p]] = p

\* What a mount has bound and not yet notified.
Untold == {x \in Plugins \cup Shared : \E p \in Plugins : Awaits(p) /\ x \in {p} \cup made[p]}

\* What may run though it is not bound.
Exempt == Overridden \cup unstopped

\* What runs is bound, and what is bound and notified runs.
RunInv ==
  /\ state = "started" => BoundObservers \ (Untold \cup Debris \cup Overridden) \subseteq running
  /\ state \in {"started", "stopping"} => running \subseteq BoundObservers \cup Exempt
  /\ state \notin {"started", "stopping"} => running \subseteq Exempt
  /\ Untold \cap running \subseteq Exempt
  /\ state \in {"initializing", "starting", "stopping"} => pass = BoundObservers

\* What is bound and notified has had its init, if anybody owed it one.
ReadyInv ==
  state \notin {"created", "initializing"} =>
    BoundObservers \ (Untold \cup Debris \cup Overridden) \subseteq ready \cup late

WithDiscipline == DisciplineInv /\ HeldInv /\ RunInv /\ ReadyInv

-----------------------------------------------------------------------------
(* A mount moves from one stage to another *)

Moves(p, v) == stage' = [stage EXCEPT ![p] = v]

\* Only the stage of the one that moves is another one.
LEMMA OnlyOneMoves ==
  ASSUME TypeOK, NEW p \in Plugins, NEW v, Moves(p, v)
  PROVE  /\ stage'[p] = v
         /\ \A q \in Plugins : q # p => stage'[q] = stage[q]
  BY DEF TypeOK, Moves

-----------------------------------------------------------------------------
(* The lock *)

\* The one that holds the lock is the only one that may await its observers.
LEMMA OneAwaits ==
  ASSUME LockInv, NEW p \in Plugins, HoldsLock(p), NEW q \in Plugins, Awaits(q)
  PROVE  q = p
  BY DEF LockInv, HoldsLock

\* One that does not wait for the lock may do as it likes with the others.
LEMMA LockKept ==
  ASSUME TypeOK, LockInv, NEW p \in Plugins, NEW v, Moves(p, v), UNCHANGED queue,
         \A n \in DOMAIN queue : queue[n] # p,
         v \notin {"initing", "starting"}
  PROVE  LockInv'
<1>1. stage'[p] = v /\ \A q \in Plugins : q # p => stage'[q] = stage[q]
  BY OnlyOneMoves
<1>2. \A n \in DOMAIN queue : queue[n] \in Plugins
  BY DEF TypeOK
<1>3. (\A i \in DOMAIN queue : stage[queue[i]] \in {"loading", "initing", "starting"})'
  BY <1>1, <1>2 DEF LockInv
<1>4. (\A q \in Plugins : Awaits(q) => HoldsLock(q))'
  BY <1>1 DEF LockInv, Awaits, HoldsLock
<1> QED
  BY <1>3, <1>4 DEF LockInv

\* A mount that has not reached the lock, or has left it, is not in its chain.
LEMMA NotQueued ==
  ASSUME LockInv, NEW p \in Plugins, stage[p] \notin {"loading", "initing", "starting"}
  PROVE  \A n \in DOMAIN queue : queue[n] # p
  BY DEF LockInv

\* The next in the chain has not begun to await.
LEMMA LockPasses ==
  ASSUME TypeOK, LockInv, NEW p \in Plugins, NEW v, Moves(p, v), HoldsLock(p),
         queue' = Released,
         v \notin {"initing", "starting"}
  PROVE  LockInv'
<1>1. stage'[p] = v /\ \A q \in Plugins : q # p => stage'[q] = stage[q]
  BY OnlyOneMoves
<1>2. /\ queue \in Seq(Plugins) /\ queue # <<>>
      /\ Len(queue) \in Nat \ {0}
      /\ queue[1] = p
      /\ DOMAIN queue = 1 .. Len(queue)
  BY EmptySeq DEF TypeOK, HoldsLock
<1>3. /\ queue' \in Seq(Plugins)
      /\ DOMAIN queue' = 1 .. Len(queue) - 1
      /\ \A i \in DOMAIN queue' : queue'[i] = queue[i + 1] /\ i + 1 \in DOMAIN queue
  BY <1>2 DEF Released
<1>4. \A i \in DOMAIN queue' : queue'[i] \in Plugins /\ queue'[i] # p
  <2> SUFFICES ASSUME NEW i \in DOMAIN queue' PROVE queue'[i] \in Plugins /\ queue'[i] # p
    OBVIOUS
  <2>1. i \in Nat /\ i + 1 # 1 /\ i + 1 \in DOMAIN queue /\ 1 \in DOMAIN queue
    BY <1>2, <1>3
  <2>2. queue[i + 1] \in Plugins /\ queue[i + 1] # queue[1]
    BY <1>2, <2>1 DEF LockInv
  <2> QED
    BY <1>2, <1>3, <2>2
<1>5. (\A i \in DOMAIN queue : stage[queue[i]] \in {"loading", "initing", "starting"})'
  BY <1>1, <1>3, <1>4 DEF LockInv
<1>6. (\A i, j \in DOMAIN queue : queue[i] = queue[j] => i = j)'
  <2> SUFFICES ASSUME NEW i \in DOMAIN queue', NEW j \in DOMAIN queue', queue'[i] = queue'[j]
               PROVE  i = j
    OBVIOUS
  <2>1. i \in Nat /\ j \in Nat /\ i + 1 = j + 1
    BY <1>2, <1>3 DEF LockInv
  <2> QED
    BY <2>1
<1>7. (\A q \in Plugins : Awaits(q) => HoldsLock(q))'
  <2> SUFFICES ASSUME NEW q \in Plugins, Awaits(q)' PROVE FALSE
    BY DEF Awaits
  <2>1. q # p /\ Awaits(q)
    BY <1>1 DEF Awaits
  <2> QED
    BY <2>1, OneAwaits
<1> QED
  BY <1>5, <1>6, <1>7 DEF LockInv

\* The one that holds the lock keeps it while it awaits.
LEMMA LockIsHeld ==
  ASSUME TypeOK, LockInv, NEW p \in Plugins, NEW v \in {"initing", "starting"}, Moves(p, v),
         HoldsLock(p), UNCHANGED queue
  PROVE  LockInv'
<1>1. stage'[p] = v /\ \A q \in Plugins : q # p => stage'[q] = stage[q]
  BY OnlyOneMoves
<1>2. \A n \in DOMAIN queue : queue[n] \in Plugins
  BY DEF TypeOK
<1>3. (\A i \in DOMAIN queue : stage[queue[i]] \in {"loading", "initing", "starting"})'
  BY <1>1, <1>2 DEF LockInv
<1>4. (\A q \in Plugins : Awaits(q) => HoldsLock(q))'
  <2> SUFFICES ASSUME NEW q \in Plugins, Awaits(q)' PROVE HoldsLock(q)'
    BY DEF Awaits
  <2>1. CASE q = p
    BY <2>1 DEF HoldsLock
  <2>2. CASE q # p
    BY <1>1, <2>2 DEF LockInv, Awaits, HoldsLock
  <2> QED
    BY <2>1, <2>2
<1> QED
  BY <1>3, <1>4 DEF LockInv

\* A mount is imported once and joins the end of the chain.
LEMMA LockIsAwaited ==
  ASSUME TypeOK, LockInv, NEW p \in Plugins, stage[p] = "loading", UNCHANGED stage,
         \A n \in DOMAIN queue : queue[n] # p,
         queue' = Append(queue, p)
  PROVE  LockInv'
<1>1. /\ queue \in Seq(Plugins)
      /\ Len(queue) \in Nat
      /\ DOMAIN queue = 1 .. Len(queue)
  BY DEF TypeOK
<1>2. /\ queue' \in Seq(Plugins)
      /\ DOMAIN queue' = 1 .. Len(queue) + 1
      /\ queue'[Len(queue) + 1] = p
      /\ \A i \in DOMAIN queue : queue'[i] = queue[i]
  BY <1>1
<1>3. \A i \in DOMAIN queue' : i \in DOMAIN queue \/ i = Len(queue) + 1
  BY <1>1, <1>2
<1>4. (\A i \in DOMAIN queue : stage[queue[i]] \in {"loading", "initing", "starting"})'
  BY <1>2, <1>3 DEF LockInv
<1>5. (\A i, j \in DOMAIN queue : queue[i] = queue[j] => i = j)'
  <2> SUFFICES ASSUME NEW i \in DOMAIN queue', NEW j \in DOMAIN queue', queue'[i] = queue'[j]
               PROVE  i = j
    OBVIOUS
  <2>1. CASE i \in DOMAIN queue /\ j \in DOMAIN queue
    BY <1>2, <2>1 DEF LockInv
  <2>2. CASE ~(i \in DOMAIN queue /\ j \in DOMAIN queue)
    BY <1>2, <1>3, <2>2
  <2> QED
    BY <2>1, <2>2
<1>6. (\A q \in Plugins : Awaits(q) => HoldsLock(q))'
  <2> SUFFICES ASSUME NEW q \in Plugins, Awaits(q) PROVE HoldsLock(q)'
    BY DEF Awaits
  <2>1. queue # <<>> /\ Head(queue) = q
    BY DEF LockInv, HoldsLock
  <2>2. Len(queue) # 0 /\ queue[1] = q /\ 1 \in DOMAIN queue
    BY <1>1, <2>1
  <2>3. queue' # <<>> /\ queue'[1] = q
    BY <1>2, <2>2
  <2> QED
    BY <1>2, <2>3 DEF HoldsLock
<1> QED
  BY <1>4, <1>5, <1>6 DEF LockInv

\* The chain that is left is a chain of plugins.
LEMMA QueueMovesOn ==
  ASSUME TypeOK, NEW p \in Plugins, HoldsLock(p), queue' = Released
  PROVE  queue' \in Seq(Plugins)
  BY DEF TypeOK, HoldsLock, Released

-----------------------------------------------------------------------------
(* The references *)

LEMMA HoldersAreFinite ==
  \A s \in Shared : /\ IsFiniteSet(Holders(s))
                    /\ Cardinality(Holders(s)) \in Nat
<1> SUFFICES ASSUME NEW s \in Shared
             PROVE  /\ IsFiniteSet(Holders(s))
                    /\ Cardinality(Holders(s)) \in Nat
  OBVIOUS
<1>1. Holders(s) \subseteq Plugins
  BY DEF Holders
<1> QED
  BY <1>1, FiniteAssumption, FS_Subset, FS_CardinalityType

\* The counts keep within the plugins there are.
LEMMA CountsAreBounded ==
  ASSUME count' \in [Shared -> Nat], CountInv'
  PROVE  count' \in [Shared -> 0 .. Cardinality(Plugins)]
<1>1. \A s \in Shared : count'[s] = Cardinality(Holders(s)')
  BY DEF CountInv
<1>2. \A s \in Shared : Holders(s)' \subseteq Plugins
  BY DEF Holders
<1>3. \A s \in Shared : Cardinality(Holders(s)') <= Cardinality(Plugins)
  BY <1>2, FiniteAssumption, FS_Subset
<1>4. Cardinality(Plugins) \in Nat
  BY FiniteAssumption, FS_CardinalityType
<1> QED
  BY <1>1, <1>3, <1>4

\* Nothing is counted in or out when nobody is mounted or goes.
LEMMA CountKept ==
  ASSUME CountInv, UNCHANGED <<count, recorded>>,
         \A q \in Plugins : stage'[q] \in {"committing", "in"} <=> stage[q] \in {"committing", "in"}
  PROVE  CountInv'
<1>1. \A s \in Shared : Holders(s)' = Holders(s)
  BY DEF Holders, IsMounted
<1> QED
  BY <1>1 DEF CountInv

\* A mount that is counted in holds every component that it nests.
LEMMA CountJoins ==
  ASSUME TypeOK, CountInv, NEW p \in Plugins, Moves(p, "committing"), ~IsMounted(p),
         NEW new \in SUBSET Nested[p], CountIn(p, new)
  PROVE  CountInv' /\ count' \in [Shared -> Nat]
<1>1. stage'[p] = "committing" /\ \A q \in Plugins : q # p => stage'[q] = stage[q]
  BY OnlyOneMoves
<1>2. Nested[p] \subseteq Shared
  BY KeysAssumption
<1>3. count' \in [Shared -> Nat]
  BY DEF TypeOK, CountIn
<1>4. ASSUME NEW s \in Shared
      PROVE  count'[s] = Cardinality(Holders(s)') /\ (s \in recorded' => Holders(s)' # {})
  <2>1. /\ count[s] = Cardinality(Holders(s))
        /\ s \in recorded => Holders(s) # {}
    BY DEF CountInv
  <2>2. CASE s \in Nested[p]
    <3>1. Holders(s)' = Holders(s) \cup {p} /\ p \notin Holders(s)
      BY <1>1, <2>2 DEF Holders, IsMounted
    <3>2. Cardinality(Holders(s)') = Cardinality(Holders(s)) + 1
      BY <3>1, HoldersAreFinite, FS_AddElement
    <3> QED
      BY <2>1, <2>2, <3>1, <3>2 DEF CountIn
  <2>3. CASE s \notin Nested[p]
    <3>1. Holders(s)' = Holders(s)
      BY <1>1, <2>3 DEF Holders, IsMounted
    <3> QED
      BY <2>1, <2>3, <3>1 DEF CountIn
  <2> QED
    BY <2>2, <2>3
<1> QED
  BY <1>3, <1>4 DEF CountInv

\* What a teardown retracts.
Parts(p) == {s \in Nested[p] : Last(s)} \cap recorded

\* It is what nobody but its plugin holds.
LEMMA LastIsAlone ==
  ASSUME CountInv, NEW p \in Plugins, IsMounted(p)
  PROVE  Parts(p) = {s \in Nested[p] \cap recorded : Holders(s) = {p}}
<1>1. ASSUME NEW s \in Nested[p]
      PROVE  Last(s) <=> Holders(s) = {p}
  <2>1. s \in Shared /\ p \in Holders(s)
    BY KeysAssumption DEF Holders
  <2>2. IsFiniteSet(Holders(s)) /\ Cardinality({p}) = 1 /\ IsFiniteSet({p})
    BY <2>1, HoldersAreFinite, FS_Singleton
  <2>3. {p} \subseteq Holders(s)
    BY <2>1
  <2>4. Cardinality(Holders(s)) = 1 => Holders(s) = {p}
    BY <2>2, <2>3, FS_Subset
  <2>5. count[s] = Cardinality(Holders(s))
    BY <2>1 DEF CountInv
  <2> QED
    BY <2>2, <2>4, <2>5 DEF Last
<1> QED
  BY <1>1 DEF Parts

\* A mounted plugin that goes takes its references with it.
LEMMA CountLeaves ==
  ASSUME TypeOK, CountInv, NEW p \in Plugins, IsMounted(p),
         NEW v \in {"leaving", "gone"}, Moves(p, v),
         count' = [s \in Shared |-> IF s \in Nested[p] THEN count[s] - 1 ELSE count[s]],
         recorded' = recorded \ Parts(p)
  PROVE  CountInv' /\ count' \in [Shared -> Nat]
<1>1. stage'[p] = v /\ \A q \in Plugins : q # p => stage'[q] = stage[q]
  BY OnlyOneMoves
<1>2. ASSUME NEW s \in Shared
      PROVE  /\ count'[s] = Cardinality(Holders(s)')
             /\ s \in recorded' => Holders(s)' # {}
             /\ count'[s] \in Nat
  <2>1. /\ count[s] = Cardinality(Holders(s))
        /\ s \in recorded => Holders(s) # {}
        /\ Cardinality(Holders(s)) \in Nat /\ IsFiniteSet(Holders(s))
    BY HoldersAreFinite DEF CountInv
  <2>2. CASE s \in Nested[p]
    <3>1. Holders(s)' = Holders(s) \ {p} /\ p \in Holders(s)
      BY <1>1, <2>2 DEF Holders, IsMounted
    <3>2. Cardinality(Holders(s)') = Cardinality(Holders(s)) - 1
      BY <2>1, <3>1, FS_RemoveElement
    <3>3. Cardinality(Holders(s)') \in Nat
      BY <2>1, <3>1, FS_RemoveElement, FS_CardinalityType
    <3>4. s \in recorded /\ Holders(s)' = {} => s \in Parts(p)
      BY <2>2, <3>1, LastIsAlone
    <3>5. count'[s] = Cardinality(Holders(s)')
      BY <2>1, <2>2, <3>2
    <3> QED
      BY <3>3, <3>4, <3>5
  <2>3. CASE s \notin Nested[p]
    <3>1. Holders(s)' = Holders(s)
      BY <1>1, <2>3 DEF Holders, IsMounted
    <3> QED
      BY <2>1, <2>3, <3>1
  <2> QED
    BY <2>2, <2>3
<1> QED
  BY <1>2 DEF CountInv

-----------------------------------------------------------------------------
(* The components *)

LEMMA ClaimsAreComponents ==
  ASSUME TypeOK
  PROVE  \A p \in Plugins : Claim(p) \subseteq Shared
  BY DEF TypeOK, Claim

\* Who stays at a stage, with what it made or leaves, claims what it claimed.
LEMMA ClaimKept ==
  ASSUME NEW q \in Plugins, stage'[q] = stage[q], made'[q] = made[q], leaving'[q] = leaving[q]
  PROVE  /\ Claim(q)' = Claim(q)
         /\ Awaits(q)' <=> Awaits(q)
  BY DEF Claim, Awaits

\* Nothing is bound or unbound, recorded or claimed.
LEMMA PartsKept ==
  ASSUME PartsInv, UNCHANGED <<present, recorded>>,
         \A q \in Plugins : /\ Claim(q)' = Claim(q)
                            /\ Awaits(q)' => Awaits(q) /\ made'[q] = made[q]
  PROVE  PartsInv'
  BY DEF PartsInv

\* One plugin binds what nobody had bound, or unbinds what it claims or takes from the
\* entries, or passes it from the one to the other.
LEMMA PartsMove ==
  ASSUME TypeOK, PartsInv, NEW p \in Plugins, NEW lost, NEW new,
         \A q \in Plugins \ {p} : /\ Claim(q)' = Claim(q)
                                  /\ Awaits(q)' => Awaits(q) /\ made'[q] = made[q],
         Awaits(p)' => made'[p] \subseteq Nested[p],
         Claim(p)' \cap recorded' = {},
         new \cap present = {},
         lost \subseteq recorded \cup Claim(p),
         recorded' \cup Claim(p)' = ((recorded \cup Claim(p)) \ lost) \cup new,
         present' = (present \ lost) \cup new
  PROVE  PartsInv'
<1>1. ASSUME NEW q \in Plugins \ {p}, NEW s \in Claim(q)
      PROVE  s \in present /\ s \notin recorded' \cup Claim(p)' /\ s \notin lost
  <2>1. s \in present /\ s \notin recorded /\ s \notin Claim(p)
    BY ClaimsAreComponents DEF PartsInv
  <2> QED
    BY <2>1
<1>2. ASSUME NEW s \in Shared
      PROVE  s \in present' <=> s \in recorded' \/ \E q \in Plugins : s \in Claim(q)'
  <2>1. s \in present <=> \/ s \in recorded \cup Claim(p)
                          \/ \E q \in Plugins \ {p} : s \in Claim(q)
    BY DEF PartsInv
  <2>2. s \in present' <=> \/ s \in recorded' \cup Claim(p)'
                           \/ \E q \in Plugins \ {p} : s \in Claim(q)
    BY <1>1, <2>1
  <2> QED
    BY <2>2
<1>3. \A q \in Plugins : Claim(q)' \cap recorded' = {}
  BY <1>1
<1>4. \A q, o \in Plugins : q # o => Claim(q)' \cap Claim(o)' = {}
  BY <1>1 DEF PartsInv
<1>5. \A q \in Plugins : Awaits(q)' => made'[q] \subseteq Nested[q]
  BY DEF PartsInv
<1> QED
  BY <1>2, <1>3, <1>4, <1>5 DEF PartsInv

-----------------------------------------------------------------------------
(* The keys *)

\* A plugin that was overridden once stays on that list.
LEMMA TakenForGood ==
  ASSUME TypeOK, FreshInv, NEW p \in Plugins, NEW x,
         \/ stage[p] = "loading" /\ displaced' = [displaced EXCEPT ![p] = x]
         \/ UNCHANGED displaced
  PROVE  Overridden \subseteq Overridden'
<1>1. ASSUME NEW q \in Overridden PROVE q \in Overridden'
  <2>1. PICK o \in Plugins : displaced[o] = q /\ q \in Plugins
    BY DEF Overridden
  <2>2. stage[p] = "loading" => o # p
    BY <2>1, NobodyAssumption DEF FreshInv
  <2>3. displaced'[o] = q
    BY <2>1, <2>2 DEF TypeOK
  <2> QED
    BY <2>1, <2>3 DEF Overridden
<1> QED
  BY <1>1

\* Nobody's binding changes, and nobody comes inside or goes.
LEMMA BindingKept ==
  ASSUME BindingInv, UNCHANGED <<bound, displaced>>,
         \A q \in Plugins :
           /\ stage'[q] \in Inside <=> stage[q] \in Inside
           /\ stage'[q] \in {"out", "loading"} => stage[q] \in {"out", "loading"}
           /\ leaving'[q] \subseteq {q} \cup Shared
           /\ stage'[q] = "leaving" => \/ q \in leaving'[q]
                                       \/ q \in Overridden
  PROVE  BindingInv' /\ Overridden' = Overridden
<1>1. Overridden' = Overridden
  BY DEF Overridden
<1>2. FreshInv'
  BY DEF BindingInv, FreshInv
<1>3. OwnInv'
  BY <1>1 DEF BindingInv, OwnInv
<1>4. KeyInv'
  BY <1>1 DEF BindingInv, KeyInv, Untaken, Original
<1> QED
  BY <1>1, <1>2, <1>3, <1>4 DEF BindingInv

\* app.component() binds the plugin's key, in place of whoever had it.
BindsKey(p) ==
  /\ bound' = [bound EXCEPT ![KeyOf[p]] = p]
  /\ displaced' = [displaced EXCEPT ![p] = bound[KeyOf[p]]]

LEMMA KeyGained ==
  ASSUME TypeOK, BindingInv, NEW p \in Plugins, stage[p] = "loading", BindsKey(p),
         UNCHANGED leaving, NEW v \in Inside \ {"leaving"}, Moves(p, v)
  PROVE  BindingInv' /\ Overridden \subseteq Overridden'
<1> DEFINE k == KeyOf[p]
<1>1. stage'[p] = v /\ \A q \in Plugins : q # p => stage'[q] = stage[q]
  BY OnlyOneMoves
<1>2. /\ k \in Keys /\ bound'[k] = p
      /\ \A h \in Keys : h # k => bound'[h] = bound[h]
      /\ displaced'[p] = bound[k]
      /\ \A q \in Plugins : q # p => displaced'[q] = displaced[q]
  BY KeysAssumption DEF TypeOK, BindsKey
<1>3. Overridden \subseteq Overridden'
  BY TakenForGood DEF BindingInv, BindsKey
<1>4. bound[k] \in Plugins => bound[k] \in Overridden'
  BY <1>2 DEF Overridden
<1>5. FreshInv'
  <2> SUFFICES ASSUME NEW q \in Plugins, stage'[q] \in {"out", "loading"}
               PROVE  /\ \A h \in Keys : bound'[h] # q
                      /\ \A o \in Plugins : displaced'[o] # q
                      /\ displaced'[q] = Nobody
    BY DEF FreshInv
  <2>1. q # p /\ stage[q] \in {"out", "loading"}
    BY <1>1 DEF Inside
  <2> QED
    BY <1>2, <2>1 DEF BindingInv, FreshInv
<1>6. OwnInv'
  <2> SUFFICES ASSUME NEW q \in Plugins
               PROVE  /\ stage'[q] \in Inside => bound'[KeyOf[q]] = q \/ q \in Overridden'
                      /\ stage'[q] = "leaving" => q \in leaving'[q] \/ q \in Overridden'
                      /\ leaving'[q] \subseteq {q} \cup Shared
    BY DEF OwnInv
  <2>1. CASE q = p
    BY <1>1, <1>2, <2>1 DEF BindingInv, OwnInv
  <2>2. CASE q # p
    <3>1. KeyOf[q] \in Keys
      BY KeysAssumption
    <3>2. stage[q] \in Inside => bound'[KeyOf[q]] = q \/ q \in Overridden'
      BY <1>2, <1>3, <1>4, <3>1 DEF BindingInv, OwnInv
    <3> QED
      BY <1>1, <1>3, <2>2, <3>2 DEF BindingInv, OwnInv
  <2> QED
    BY <2>1, <2>2
<1>7. KeyInv'
  <2> SUFFICES ASSUME NEW h \in Keys, Untaken(h)'
               PROVE  /\ \A q \in Plugins : KeyOf[q] = h /\ stage'[q] \in Inside =>
                                              bound'[h] = q /\ displaced'[q] = Original(h)
                      /\ (\A q \in Plugins : KeyOf[q] = h => stage'[q] \notin Inside) =>
                           bound'[h] = Original(h)
    BY DEF KeyInv, Original
  <2>1. Untaken(h)
    BY <1>3 DEF Untaken
  <2>2. CASE h # k
    BY <1>1, <1>2, <2>1, <2>2 DEF BindingInv, KeyInv
  <2>3. CASE h = k
    <3>1. \A q \in Plugins : KeyOf[q] = k => stage[q] \notin Inside
      BY <1>4, <2>1, <2>3 DEF BindingInv, KeyInv, Untaken
    <3>2. bound[k] = Original(k)
      BY <2>1, <2>3, <3>1 DEF BindingInv, KeyInv
    <3> QED
      BY <1>1, <1>2, <2>3, <3>1, <3>2
  <2> QED
    BY <2>2, <2>3
<1> QED
  BY <1>3, <1>5, <1>6, <1>7 DEF BindingInv

\* revertOwned gives the key back to whoever had it, if it is still the plugin's.
LEMMA KeyGivenBack ==
  ASSUME TypeOK, BindingInv, NEW p \in Plugins, stage[p] \in Inside, Moves(p, "gone"),
         bound' = Reverted(p), UNCHANGED displaced,
         \A q \in Plugins : leaving'[q] \subseteq {q} \cup Shared
                            /\ (q # p => leaving'[q] = leaving[q])
  PROVE  BindingInv' /\ Overridden' = Overridden
<1> DEFINE k == KeyOf[p]
<1>1. stage'[p] = "gone" /\ \A q \in Plugins : q # p => stage'[q] = stage[q]
  BY OnlyOneMoves
<1>2. /\ k \in Keys
      /\ bound'[k] = IF bound[k] = p THEN displaced[p] ELSE bound[k]
      /\ \A h \in Keys : h # k => bound'[h] = bound[h]
  BY KeysAssumption DEF TypeOK, Reverted
<1>3. Overridden' = Overridden
  BY DEF Overridden
<1>4. FreshInv'
  <2> SUFFICES ASSUME NEW q \in Plugins, stage'[q] \in {"out", "loading"}
               PROVE  /\ \A h \in Keys : bound'[h] # q
                      /\ \A o \in Plugins : displaced[o] # q
                      /\ displaced[q] = Nobody
    BY DEF FreshInv
  <2>1. stage[q] \in {"out", "loading"}
    BY <1>1
  <2> QED
    BY <1>2, <2>1 DEF BindingInv, FreshInv
<1>5. OwnInv'
  <2> SUFFICES ASSUME NEW q \in Plugins
               PROVE  /\ stage'[q] \in Inside => bound'[KeyOf[q]] = q \/ q \in Overridden
                      /\ stage'[q] = "leaving" => q \in leaving'[q] \/ q \in Overridden
                      /\ leaving'[q] \subseteq {q} \cup Shared
    BY <1>3 DEF OwnInv
  <2>1. CASE q = p
    BY <1>1, <2>1 DEF Inside
  <2>2. CASE q # p
    <3>1. KeyOf[q] \in Keys
      BY KeysAssumption
    <3>2. bound[KeyOf[q]] = q => bound'[KeyOf[q]] = q
      BY <1>2, <2>2, <3>1
    <3> QED
      BY <1>1, <2>2, <3>2 DEF BindingInv, OwnInv
  <2> QED
    BY <2>1, <2>2
<1>6. KeyInv'
  <2> SUFFICES ASSUME NEW h \in Keys, Untaken(h)
               PROVE  /\ \A q \in Plugins : KeyOf[q] = h /\ stage'[q] \in Inside =>
                                              bound'[h] = q /\ displaced[q] = Original(h)
                      /\ (\A q \in Plugins : KeyOf[q] = h => stage'[q] \notin Inside) =>
                           bound'[h] = Original(h)
    BY <1>3 DEF KeyInv, Original, Untaken
  <2>1. CASE h # k
    BY <1>1, <1>2, <2>1 DEF BindingInv, KeyInv
  <2>2. CASE h = k
    <3>1. bound[k] = p /\ displaced[p] = Original(k)
      BY <2>2 DEF BindingInv, KeyInv
    <3>2. \A q \in Plugins : KeyOf[q] = k /\ q # p => stage[q] \notin Inside
      BY <2>2, <3>1 DEF BindingInv, KeyInv
    <3> QED
      BY <1>1, <1>2, <2>2, <3>1, <3>2 DEF Inside
  <2> QED
    BY <2>1, <2>2
<1> QED
  BY <1>3, <1>4, <1>5, <1>6 DEF BindingInv
-----------------------------------------------------------------------------
(* Each step keeps the invariant *)

\* A move that neither binds nor counts anything.
LEMMA BindsNothing ==
  ASSUME IInv, NEW p \in Plugins, NEW v, Moves(p, v),
         \/ stage[p] = "out" /\ v = "loading"
         \/ stage[p] = "loading" /\ v = "gone"
         \/ stage[p] = "committing" /\ v = "in",
         UNCHANGED <<application, context, observers, displaced, made, leaving, refs>>,
         LockInv', queue' \in Seq(Plugins),
         owners' \in [Plugins -> SUBSET Keys], allowed' \subseteq Plugins,
         seen' \in [Plugins -> SUBSET Shared]
  PROVE  IInv'
<1>1. stage'[p] = v /\ \A q \in Plugins : q # p => stage'[q] = stage[q]
  BY OnlyOneMoves DEF IInv
<1>2. /\ UNCHANGED <<state, initialized, pass, bound, present, ready, running, late, unstopped>>
      /\ UNCHANGED <<displaced, made, leaving, count, recorded>>
  BY DEF application, context, observers, refs
<1>3. TypeOK'
  <2>1. stage' \in [Plugins -> Stages]
    BY DEF IInv, TypeOK, Moves, Stages
  <2> QED
    BY <1>2, <2>1 DEF IInv, TypeOK
<1>4. CountInv'
  BY <1>1, <1>2, CountKept DEF IInv
<1>5. PartsInv'
  <2>1. \A q \in Plugins : Claim(q)' = Claim(q) /\ (Awaits(q)' <=> Awaits(q))
    BY <1>1, <1>2 DEF Claim, Awaits
  <2> QED
    BY <1>2, <2>1, PartsKept DEF IInv
<1>6. BindingInv'
  <2>1. \A q \in Plugins :
           /\ stage'[q] \in Inside <=> stage[q] \in Inside
           /\ stage'[q] \in {"out", "loading"} => stage[q] \in {"out", "loading"}
           /\ stage'[q] = "leaving" => stage[q] = "leaving"
    BY <1>1 DEF Inside
  <2>2. \A q \in Plugins : /\ leaving'[q] \subseteq {q} \cup Shared
                           /\ stage'[q] = "leaving" => q \in leaving'[q] \/ q \in Overridden
    BY <1>2, <2>1 DEF IInv, BindingInv, OwnInv
  <2> QED
    BY <1>2, <2>1, <2>2, BindingKept DEF IInv
<1> QED
  BY <1>3, <1>4, <1>5, <1>6 DEF IInv

LEMMA LoadKeeps ==
  ASSUME IInv, NEW p \in Plugins, NEW allow \in BOOLEAN, Load(p, allow)
  PROVE  IInv'
<1>1. /\ stage[p] = "out" /\ Moves(p, "loading") /\ UNCHANGED queue
      /\ UNCHANGED <<application, context, observers, displaced, made, leaving, refs>>
  BY DEF Load, Moves
<1>2. LockInv'
  BY <1>1, LockKept, NotQueued DEF IInv
<1>3. owners' \in [Plugins -> SUBSET Keys] /\ seen' \in [Plugins -> SUBSET Shared]
  BY DEF Load, IInv, TypeOK
<1>4. allowed' \subseteq Plugins /\ queue' \in Seq(Plugins)
  BY DEF Load, IInv, TypeOK
<1> QED
  BY <1>1, <1>2, <1>3, <1>4, BindsNothing

\* A mount that is refused at its import or at the lock has bound nothing.
LEMMA RefusalKeeps ==
  ASSUME IInv, NEW p \in Plugins, stage[p] = "loading", Moves(p, "gone"), LockInv',
         queue' \in Seq(Plugins),
         UNCHANGED <<application, context, observers, footprint, leaving, refs>>
  PROVE  IInv'
  BY BindsNothing DEF IInv, TypeOK, footprint

LEMMA ImportedKeeps ==
  ASSUME IInv, NEW p \in Plugins, Imported(p)
  PROVE  IInv'
<1>1. CASE Moves(p, "gone") /\ UNCHANGED queue
  <2>1. LockInv'
    BY <1>1, LockKept DEF Imported, IInv
  <2> QED
    BY <1>1, <2>1, RefusalKeeps DEF Imported, IInv, TypeOK
<1>2. CASE queue' = Append(queue, p) /\ UNCHANGED stage
  <2>1. /\ UNCHANGED <<state, initialized, pass, bound, present, ready, running, late>>
        /\ UNCHANGED <<unstopped, stage, owners, allowed, seen, displaced, made, leaving>>
        /\ UNCHANGED <<count, recorded>>
    BY <1>2 DEF Imported, application, context, observers, footprint, refs
  <2>2. TypeOK'
    <3>1. queue' \in Seq(Plugins)
      BY <1>2 DEF IInv, TypeOK
    <3> QED
      BY <2>1, <3>1 DEF IInv, TypeOK
  <2>3. LockInv'
    BY <1>2, LockIsAwaited DEF Imported, IInv
  <2>4. CountInv'
    BY <2>1, CountKept DEF IInv
  <2>5. PartsInv'
    BY <2>1, ClaimKept, PartsKept DEF IInv
  <2>6. BindingInv'
    BY <2>1, BindingKept DEF IInv, BindingInv, OwnInv
  <2> QED
    BY <2>2, <2>3, <2>4, <2>5, <2>6 DEF IInv
<1> QED
  BY <1>1, <1>2 DEF Imported, Moves

LEMMA RejectKeeps ==
  ASSUME IInv, NEW p \in Plugins, Reject(p)
  PROVE  IInv'
<1>1. Moves(p, "gone") /\ HoldsLock(p) /\ queue' = Released
  BY DEF Reject, Moves
<1>2. LockInv'
  BY <1>1, LockPasses DEF IInv
<1>3. queue' \in Seq(Plugins)
  BY <1>1, QueueMovesOn DEF IInv
<1> QED
  BY <1>1, <1>2, <1>3, RefusalKeeps DEF Reject

LEMMA CommitKeeps ==
  ASSUME IInv, NEW p \in Plugins, Commit(p)
  PROVE  IInv'
<1>1. Moves(p, "in") /\ stage[p] = "committing" /\ UNCHANGED <<queue, footprint>>
  BY DEF Commit, Moves
<1>2. LockInv'
  BY <1>1, LockKept, NotQueued DEF IInv
<1> QED
  BY <1>1, <1>2, BindsNothing DEF Commit, footprint, IInv, TypeOK

\* The plugin's key is bound, and of the components it nests some that nobody had bound.
Binds(p, new) ==
  /\ BindsKey(p)
  /\ present' = present \cup new
  /\ made' = [made EXCEPT ![p] = new]

\* What a mount that binds has in common, whether it awaits, goes on or throws.
LEMMA BindsKeeps ==
  ASSUME IInv, NEW p \in Plugins, stage[p] = "loading", NEW v, Moves(p, v),
         NEW new \in SUBSET (Nested[p] \ present), Binds(p, new),
         \/ v \in {"initing", "starting", "broken"} /\ UNCHANGED recorded
         \/ v = "committing" /\ recorded' = recorded \cup new,
         UNCHANGED leaving
  PROVE  /\ PartsInv' /\ BindingInv' /\ Overridden \subseteq Overridden'
         /\ stage' \in [Plugins -> Stages]
         /\ bound' \in [Keys -> Plugins \cup {App, Nobody}]
         /\ displaced' \in [Plugins -> Plugins \cup {App, Nobody}]
         /\ made' \in [Plugins -> SUBSET Shared]
         /\ present' \subseteq Shared
<1>1. stage'[p] = v /\ \A q \in Plugins : q # p => stage'[q] = stage[q]
  BY OnlyOneMoves DEF IInv
<1>2. v \in Inside \ {"leaving"}
  BY DEF Inside
<1>3. /\ made'[p] = new /\ \A q \in Plugins : q # p => made'[q] = made[q]
      /\ new \subseteq Shared /\ new \cap present = {}
  BY KeysAssumption DEF IInv, TypeOK, Binds
<1>4. BindingInv' /\ Overridden \subseteq Overridden'
  BY <1>2, KeyGained DEF IInv, Binds
<1>5. PartsInv'
  <2>1. Claim(p) = {} /\ Claim(p)' = IF v = "committing" THEN {} ELSE new
    BY <1>1, <1>3 DEF Claim, Awaits
  <2>2. \A q \in Plugins \ {p} : /\ Claim(q)' = Claim(q)
                                 /\ Awaits(q)' => Awaits(q) /\ made'[q] = made[q]
    BY <1>1, <1>3, ClaimKept
  <2>3. recorded \cap new = {}
    BY <1>3 DEF IInv, PartsInv
  <2>4. recorded' \cup Claim(p)' = ((recorded \cup Claim(p)) \ {}) \cup new
    BY <2>1
  <2>5. present' = (present \ {}) \cup new /\ made'[p] \subseteq Nested[p]
    BY <1>3 DEF Binds
  <2>6. Claim(p)' \cap recorded' = {}
    BY <2>1, <2>3
  <2> QED
    BY <1>3, <2>2, <2>4, <2>5, <2>6, PartsMove DEF IInv
<1>6. /\ stage' \in [Plugins -> Stages]
      /\ bound' \in [Keys -> Plugins \cup {App, Nobody}]
  BY DEF IInv, TypeOK, Binds, BindsKey, Moves, Stages
<1>7. displaced' \in [Plugins -> Plugins \cup {App, Nobody}]
  BY KeysAssumption DEF IInv, TypeOK, Binds, BindsKey
<1>8. made' \in [Plugins -> SUBSET Shared] /\ present' \subseteq Shared
  BY <1>3 DEF IInv, TypeOK, Binds
<1> QED
  BY <1>4, <1>5, <1>6, <1>7, <1>8

LEMMA MountThrowsKeeps ==
  ASSUME IInv, NEW p \in Plugins, MountThrows(p)
  PROVE  IInv'
<1>1. /\ stage[p] = "loading" /\ HoldsLock(p) /\ queue' = Released
      /\ UNCHANGED <<application, observers, owners, allowed, seen, leaving, refs>>
  BY DEF MountThrows
<1>2. queue' \in Seq(Plugins)
  BY <1>1, QueueMovesOn DEF IInv
<1>3. CASE Moves(p, "gone") /\ UNCHANGED <<context, displaced, made>>
  <2>1. LockInv'
    BY <1>1, <1>3, LockPasses DEF IInv
  <2> QED
    BY <1>1, <1>2, <1>3, <2>1, RefusalKeeps DEF footprint
<1>4. ASSUME NEW left \in SUBSET (Nested[p] \ present), Moves(p, "broken"), Binds(p, left)
      PROVE  IInv'
  <2>1. stage'[p] = "broken" /\ \A q \in Plugins : q # p => stage'[q] = stage[q]
    BY <1>4, OnlyOneMoves DEF IInv
  <2>2. /\ UNCHANGED <<state, initialized, pass, ready, running, late, unstopped>>
        /\ UNCHANGED <<count, recorded, leaving>>
    BY <1>1 DEF application, observers, refs
  <2>3. LockInv'
    BY <1>1, <1>4, LockPasses DEF IInv
  <2>4. CountInv'
    BY <1>1, <2>1, <2>2, CountKept DEF IInv
  <2>5. /\ PartsInv' /\ BindingInv'
        /\ stage' \in [Plugins -> Stages]
        /\ bound' \in [Keys -> Plugins \cup {App, Nobody}]
        /\ displaced' \in [Plugins -> Plugins \cup {App, Nobody}]
        /\ made' \in [Plugins -> SUBSET Shared]
        /\ present' \subseteq Shared
    BY <1>1, <1>4, <2>2, BindsKeeps
  <2>6. TypeOK'
    BY <1>1, <1>2, <2>2, <2>5 DEF IInv, TypeOK
  <2> QED
    BY <2>3, <2>4, <2>5, <2>6 DEF IInv
<1> QED
  BY <1>3, <1>4 DEF MountThrows, Moves, Binds, BindsKey
\* The two ways a mount goes on from what it has bound.
Waits(p) == Owed /\ NewObservers(p) # {}

LEMMA WhatMountDoes ==
  ASSUME IInv, NEW p \in Plugins, Mount(p)
  PROVE  /\ stage[p] = "loading" /\ HoldsLock(p) /\ Binds(p, Nested[p] \ present)
         /\ UNCHANGED <<state, initialized, pass, ready, running, unstopped>>
         /\ UNCHANGED <<owners, allowed, seen, leaving>>
         /\ late' = IF state = "created" \/ Owed THEN late ELSE late \cup NewObservers(p)
         /\ \/ /\ Waits(p)
               /\ Moves(p, IF state = "started" THEN "starting" ELSE "initing")
               /\ UNCHANGED <<queue, count, recorded>>
            \/ /\ ~Waits(p)
               /\ Moves(p, "committing")
               /\ queue' = Released
               /\ CountIn(p, Nested[p] \ present)
<1>1. /\ stage[p] = "loading" /\ HoldsLock(p) /\ Binds(p, Nested[p] \ present)
      /\ UNCHANGED <<state, initialized, pass, ready, running, unstopped>>
      /\ UNCHANGED <<owners, allowed, seen, leaving>>
      /\ late' = IF state = "created" \/ Owed THEN late ELSE late \cup NewObservers(p)
  BY DEF Mount, application, Binds, BindsKey
<1>2. CASE Waits(p)
  BY <1>1, <1>2 DEF Mount, Waits, Moves, refs
<1>3. CASE ~Waits(p)
  BY <1>1, <1>3 DEF Mount, Waits, Moves, refs
<1> QED
  BY <1>1, <1>2, <1>3

LEMMA MountKeeps ==
  ASSUME IInv, NEW p \in Plugins, Mount(p)
  PROVE  IInv'
<1> DEFINE new == Nested[p] \ present
<1>1. /\ stage[p] = "loading" /\ HoldsLock(p) /\ Binds(p, new)
      /\ new \in SUBSET (Nested[p] \ present)
      /\ UNCHANGED <<state, initialized, pass, ready, running, unstopped>>
      /\ UNCHANGED <<owners, allowed, seen, leaving>>
  BY WhatMountDoes
<1>2. late' \subseteq Plugins \cup Shared
  BY WhatMountDoes, KeysAssumption DEF IInv, TypeOK, NewObservers
<1> HIDE DEF new
<1>3. ASSUME NEW v \in {"initing", "starting"}, Moves(p, v), UNCHANGED <<queue, count, recorded>>
      PROVE  IInv'
  <2>1. stage'[p] = v /\ \A q \in Plugins : q # p => stage'[q] = stage[q]
    BY <1>3, OnlyOneMoves DEF IInv
  <2>2. LockInv'
    BY <1>1, <1>3, LockIsHeld DEF IInv
  <2>3. CountInv'
    BY <1>1, <1>3, <2>1, CountKept DEF IInv
  <2>4. /\ PartsInv' /\ BindingInv'
        /\ stage' \in [Plugins -> Stages]
        /\ bound' \in [Keys -> Plugins \cup {App, Nobody}]
        /\ displaced' \in [Plugins -> Plugins \cup {App, Nobody}]
        /\ made' \in [Plugins -> SUBSET Shared]
        /\ present' \subseteq Shared
    BY <1>1, <1>3, BindsKeeps
  <2>5. TypeOK'
    BY <1>1, <1>2, <1>3, <2>4 DEF IInv, TypeOK
  <2> QED
    BY <2>2, <2>3, <2>4, <2>5 DEF IInv
<1>4. ASSUME Moves(p, "committing"), queue' = Released, CountIn(p, new)
      PROVE  IInv'
  <2>1. LockInv' /\ queue' \in Seq(Plugins)
    BY <1>1, <1>4, LockPasses, QueueMovesOn DEF IInv
  <2>2. CountInv' /\ count' \in [Shared -> 0 .. Cardinality(Plugins)]
    BY <1>1, <1>4, CountJoins, CountsAreBounded DEF IInv, IsMounted
  <2>3. recorded' = recorded \cup new
    BY <1>4 DEF CountIn
  <2>4. /\ PartsInv' /\ BindingInv'
        /\ stage' \in [Plugins -> Stages]
        /\ bound' \in [Keys -> Plugins \cup {App, Nobody}]
        /\ displaced' \in [Plugins -> Plugins \cup {App, Nobody}]
        /\ made' \in [Plugins -> SUBSET Shared]
        /\ present' \subseteq Shared
    BY <1>1, <1>4, <2>3, BindsKeeps
  <2>5. recorded' \subseteq Shared
    BY <1>1, <2>3, KeysAssumption DEF IInv, TypeOK
  <2>6. TypeOK'
    BY <1>1, <1>2, <2>1, <2>2, <2>4, <2>5 DEF IInv, TypeOK
  <2> QED
    BY <2>1, <2>2, <2>4, <2>6 DEF IInv
<1> QED
  BY <1>3, <1>4, WhatMountDoes DEF new

LEMMA ToldAreObservers ==
  ASSUME TypeOK, NEW p \in Plugins
  PROVE  Told(p) \subseteq Plugins \cup Shared
  BY KeysAssumption DEF Told

LEMMA MountedKeeps ==
  ASSUME IInv, NEW p \in Plugins, Mounted(p)
  PROVE  IInv'
<1>1. /\ Awaits(p) /\ Moves(p, "committing") /\ queue' = Released /\ CountIn(p, made[p])
      /\ UNCHANGED <<state, initialized, pass, bound, present, late, unstopped>>
      /\ UNCHANGED <<owners, allowed, seen, displaced, made, leaving>>
  BY DEF Mounted, Awaits, Moves, application, context, footprint
<1>2. stage'[p] = "committing" /\ \A q \in Plugins : q # p => stage'[q] = stage[q]
  BY <1>1, OnlyOneMoves DEF IInv
<1>3. HoldsLock(p) /\ made[p] \in SUBSET Nested[p] /\ ~IsMounted(p)
  BY <1>1 DEF IInv, LockInv, PartsInv, Awaits, IsMounted
<1>4. LockInv' /\ queue' \in Seq(Plugins)
  BY <1>1, <1>3, LockPasses, QueueMovesOn DEF IInv
<1>5. CountInv' /\ count' \in [Shared -> 0 .. Cardinality(Plugins)]
  BY <1>1, <1>3, CountJoins, CountsAreBounded DEF IInv
<1>6. PartsInv'
  <2>1. Claim(p) = made[p] /\ Claim(p)' = {} /\ recorded' = recorded \cup made[p]
    BY <1>1, <1>2 DEF Claim, Awaits, CountIn
  <2>2. \A q \in Plugins \ {p} : /\ Claim(q)' = Claim(q)
                                 /\ Awaits(q)' => Awaits(q) /\ made'[q] = made[q]
    BY <1>1, <1>2, ClaimKept
  <2>3. ~Awaits(p)'
    BY <1>2 DEF Awaits
  <2>4. recorded' \cup Claim(p)' = ((recorded \cup Claim(p)) \ {}) \cup {}
    BY <2>1
  <2>5. present' = (present \ {}) \cup {}
    BY <1>1
  <2> QED
    BY <2>1, <2>2, <2>3, <2>4, <2>5, PartsMove DEF IInv
<1>7. BindingInv'
  <2>1. \A q \in Plugins :
           /\ stage'[q] \in Inside <=> stage[q] \in Inside
           /\ stage'[q] \in {"out", "loading"} => stage[q] \in {"out", "loading"}
           /\ stage'[q] = "leaving" => stage[q] = "leaving"
    BY <1>1, <1>2 DEF Inside, Awaits
  <2> QED
    BY <1>1, <2>1, BindingKept DEF IInv, BindingInv, OwnInv
<1>8. TypeOK'
  <2>1. stage' \in [Plugins -> Stages]
    BY <1>1 DEF IInv, TypeOK, Moves, Stages
  <2>2. ready' \subseteq Plugins \cup Shared /\ running' \subseteq Plugins \cup Shared
    BY ToldAreObservers DEF Mounted, Notified, IInv, TypeOK
  <2>3. recorded' \subseteq Shared
    BY <1>1 DEF CountIn, IInv, TypeOK
  <2> QED
    BY <1>1, <1>4, <1>5, <2>1, <2>2, <2>3 DEF IInv, TypeOK
<1> QED
  BY <1>4, <1>5, <1>6, <1>7, <1>8 DEF IInv

\* What a plugin that has bound its key unbinds, when its mount fails or it goes, is its
\* key and what it claims or takes from the entries.
LEMMA UnboundKeeps ==
  ASSUME IInv, NEW p \in Plugins, stage[p] \in Inside, Moves(p, "gone"),
         NEW parts \in SUBSET Shared, Unbound(p, parts),
         UNCHANGED <<displaced, made>>,
         recorded' \subseteq recorded,
         parts \cup recorded' = recorded \cup Claim(p), parts \cap recorded' = {},
         \A q \in Plugins : leaving'[q] = leaving[q] \/ (q = p /\ leaving'[q] = {})
  PROVE  /\ PartsInv' /\ BindingInv' /\ Overridden' = Overridden
         /\ stage' \in [Plugins -> Stages]
         /\ bound' \in [Keys -> Plugins \cup {App, Nobody}]
         /\ present' \subseteq Shared
         /\ ready' \subseteq Plugins \cup Shared /\ late' \subseteq Plugins \cup Shared
<1>1. stage'[p] = "gone" /\ \A q \in Plugins : q # p => stage'[q] = stage[q]
  BY OnlyOneMoves DEF IInv
<1>2. BindingInv' /\ Overridden' = Overridden
  <2>1. bound' = Reverted(p)
    BY DEF Unbound
  <2>2. \A q \in Plugins : /\ leaving'[q] \subseteq {q} \cup Shared
                           /\ q # p => leaving'[q] = leaving[q]
    BY DEF IInv, BindingInv, OwnInv
  <2> QED
    BY <2>1, <2>2, KeyGivenBack DEF IInv
<1>3. PartsInv'
  <2>1. Claim(p)' = {} /\ ~Awaits(p)'
    BY <1>1 DEF Claim, Awaits
  <2>2. \A q \in Plugins \ {p} : /\ Claim(q)' = Claim(q)
                                 /\ Awaits(q)' => Awaits(q) /\ made'[q] = made[q]
    BY <1>1, ClaimKept
  <2>3. present' = (present \ parts) \cup {}
    BY DEF Unbound
  <2>4. recorded' \cup Claim(p)' = ((recorded \cup Claim(p)) \ parts) \cup {}
    BY <2>1
  <2> QED
    BY <2>1, <2>2, <2>3, <2>4, PartsMove DEF IInv
<1>4. stage' \in [Plugins -> Stages]
  BY DEF IInv, TypeOK, Moves, Stages
<1>5. bound' \in [Keys -> Plugins \cup {App, Nobody}]
  BY DEF IInv, TypeOK, Unbound, Reverted
<1>6. /\ present' \subseteq Shared
      /\ ready' \subseteq Plugins \cup Shared /\ late' \subseteq Plugins \cup Shared
  BY DEF IInv, TypeOK, Unbound
<1> QED
  BY <1>2, <1>3, <1>4, <1>5, <1>6
LEMMA MountFailsKeeps ==
  ASSUME IInv, NEW p \in Plugins, MountFails(p)
  PROVE  IInv'
<1>1. /\ Awaits(p) /\ Moves(p, "gone") /\ queue' = Released /\ Unbound(p, made[p])
      /\ UNCHANGED <<state, initialized, pass, count, recorded>>
      /\ UNCHANGED <<owners, allowed, seen, displaced, made, leaving>>
  BY DEF MountFails, Awaits, Moves, application, footprint, refs
<1>2. stage'[p] = "gone" /\ \A q \in Plugins : q # p => stage'[q] = stage[q]
  BY <1>1, OnlyOneMoves DEF IInv
<1>3. HoldsLock(p)
  BY <1>1 DEF IInv, LockInv
<1>4. LockInv' /\ queue' \in Seq(Plugins)
  BY <1>1, <1>3, LockPasses, QueueMovesOn DEF IInv
<1>5. CountInv'
  BY <1>1, <1>2, CountKept DEF IInv, Awaits
<1>6. /\ running' \subseteq Plugins \cup Shared /\ unstopped' \subseteq Plugins \cup Shared
  BY ToldAreObservers DEF MountFails, IInv, TypeOK
<1>7. /\ stage[p] \in Inside /\ made[p] \in SUBSET Shared /\ Claim(p) = made[p]
      /\ made[p] \cap recorded = {}
  BY <1>1 DEF IInv, TypeOK, PartsInv, Claim, Awaits, Inside
<1>8. /\ PartsInv' /\ BindingInv'
      /\ stage' \in [Plugins -> Stages]
      /\ bound' \in [Keys -> Plugins \cup {App, Nobody}]
      /\ present' \subseteq Shared
      /\ ready' \subseteq Plugins \cup Shared /\ late' \subseteq Plugins \cup Shared
  BY <1>1, <1>7, UnboundKeeps
<1>9. TypeOK'
  BY <1>1, <1>4, <1>6, <1>8 DEF IInv, TypeOK
<1> QED
  BY <1>4, <1>5, <1>8, <1>9 DEF IInv

-----------------------------------------------------------------------------
(* Retracting *)

\* What a teardown finds bound: the entries it takes parts from are of what is bound.
Found(p) == (IF bound[KeyOf[p]] = p THEN {p} ELSE {}) \cup Parts(p)

LEMMA WhatTeardownDoes ==
  ASSUME IInv, NEW p \in Plugins, Teardown(p)
  PROVE  /\ count' = [s \in Shared |-> IF s \in Nested[p] THEN count[s] - 1 ELSE count[s]]
         /\ recorded' = recorded \ Parts(p)
         /\ UNCHANGED <<running, unstopped>>
         /\ \/ /\ Moves(p, "leaving")
               /\ leaving' = [leaving EXCEPT ![p] = Found(p)]
               /\ UNCHANGED <<bound, present, ready, late>>
            \/ /\ ~(IsLive /\ Found(p) \cap Observing # {})
               /\ Moves(p, "gone")
               /\ Unbound(p, Parts(p))
               /\ UNCHANGED leaving
<1>1. Parts(p) \cap present = Parts(p)
  BY KeysAssumption DEF IInv, PartsInv, Parts
<1>2. CASE IsLive /\ Found(p) \cap Observing # {}
  BY <1>1, <1>2 DEF Teardown, Parts, Found, Moves, context
<1>3. CASE ~(IsLive /\ Found(p) \cap Observing # {})
  BY <1>1, <1>3 DEF Teardown, Parts, Found, Moves, context
<1> QED
  BY <1>2, <1>3

LEMMA TeardownKeeps ==
  ASSUME IInv, NEW p \in Plugins, IsMounted(p), Teardown(p),
         UNCHANGED <<application, queue, footprint>>
  PROVE  IInv'
<1>1. /\ count' = [s \in Shared |-> IF s \in Nested[p] THEN count[s] - 1 ELSE count[s]]
      /\ recorded' = recorded \ Parts(p)
      /\ UNCHANGED <<running, unstopped>>
  BY WhatTeardownDoes
<1>2. /\ UNCHANGED <<state, initialized, pass, queue>>
      /\ UNCHANGED <<owners, allowed, seen, displaced, made>>
  BY DEF application, footprint
<1>3. /\ Parts(p) \in SUBSET Shared /\ Parts(p) \subseteq recorded
      /\ Claim(p) = {} /\ stage[p] \in Inside
  BY KeysAssumption DEF Parts, Claim, IsMounted, Awaits, Inside
<1>4. \A n \in DOMAIN queue : queue[n] # p
  BY NotQueued DEF IInv, IsMounted
<1>5. ASSUME NEW v \in {"leaving", "gone"}, Moves(p, v)
      PROVE  /\ LockInv' /\ CountInv'
             /\ count' \in [Shared -> 0 .. Cardinality(Plugins)]
             /\ recorded' \subseteq Shared
  <2>1. LockInv'
    BY <1>2, <1>4, <1>5, LockKept DEF IInv
  <2>2. CountInv' /\ count' \in [Shared -> 0 .. Cardinality(Plugins)]
    BY <1>1, <1>5, CountLeaves, CountsAreBounded DEF IInv
  <2> QED
    BY <1>1, <2>1, <2>2 DEF IInv, TypeOK
<1>6. ASSUME Moves(p, "leaving"), leaving' = [leaving EXCEPT ![p] = Found(p)],
             UNCHANGED <<bound, present, ready, late>>
      PROVE  IInv'
  <2>1. stage'[p] = "leaving" /\ \A q \in Plugins : q # p => stage'[q] = stage[q]
    BY <1>6, OnlyOneMoves DEF IInv
  <2>2. leaving'[p] = Found(p) /\ \A q \in Plugins : q # p => leaving'[q] = leaving[q]
    BY <1>6 DEF IInv, TypeOK
  <2>3. PartsInv'
    <3>1. Claim(p)' = Parts(p)
      BY <1>3, <2>1, <2>2, KeysAssumption DEF Claim, Awaits, Found
    <3>2. \A q \in Plugins \ {p} : /\ Claim(q)' = Claim(q)
                                   /\ Awaits(q)' => Awaits(q) /\ made'[q] = made[q]
      BY <1>2, <2>1, <2>2, ClaimKept
    <3>3. ~Awaits(p)'
      BY <2>1 DEF Awaits
    <3>4. recorded' \cup Claim(p)' = ((recorded \cup Claim(p)) \ {}) \cup {}
      BY <1>1, <1>3, <3>1
    <3>5. Claim(p)' \cap recorded' = {} /\ present' = (present \ {}) \cup {}
      BY <1>1, <1>6, <3>1
    <3> QED
      BY <3>2, <3>3, <3>4, <3>5, PartsMove DEF IInv
  <2>4. BindingInv'
    <3>1. \A q \in Plugins :
             /\ stage'[q] \in Inside <=> stage[q] \in Inside
             /\ stage'[q] \in {"out", "loading"} => stage[q] \in {"out", "loading"}
      BY <1>3, <2>1 DEF Inside
    <3>2. \A q \in Plugins : leaving'[q] \subseteq {q} \cup Shared
      BY <1>3, <2>2 DEF IInv, BindingInv, OwnInv, Found
    <3>3. p \in leaving'[p] \/ p \in Overridden
      BY <1>3, <2>2 DEF IInv, BindingInv, OwnInv, Found
    <3>4. \A q \in Plugins : stage'[q] = "leaving" => q \in leaving'[q] \/ q \in Overridden
      BY <2>1, <2>2, <3>3 DEF IInv, BindingInv, OwnInv
    <3> QED
      BY <1>2, <1>6, <3>1, <3>2, <3>4, BindingKept DEF IInv
  <2>5. TypeOK'
    <3>1. stage' \in [Plugins -> Stages]
      BY <1>6 DEF IInv, TypeOK, Moves, Stages
    <3>2. leaving' \in [Plugins -> SUBSET (Plugins \cup Shared)]
      BY <1>3, <1>6 DEF IInv, TypeOK, Found
    <3> QED
      BY <1>1, <1>2, <1>5, <1>6, <3>1, <3>2 DEF IInv, TypeOK
  <2> QED
    BY <1>5, <1>6, <2>3, <2>4, <2>5 DEF IInv
<1>7. ASSUME Moves(p, "gone"), Unbound(p, Parts(p)), UNCHANGED leaving
      PROVE  IInv'
  <2>1. /\ PartsInv' /\ BindingInv'
        /\ stage' \in [Plugins -> Stages]
        /\ bound' \in [Keys -> Plugins \cup {App, Nobody}]
        /\ present' \subseteq Shared
        /\ ready' \subseteq Plugins \cup Shared /\ late' \subseteq Plugins \cup Shared
    BY <1>1, <1>2, <1>3, <1>7, UnboundKeeps
  <2>2. TypeOK'
    BY <1>1, <1>2, <1>5, <1>7, <2>1 DEF IInv, TypeOK
  <2> QED
    BY <1>5, <1>7, <2>1, <2>2 DEF IInv
<1> QED
  BY <1>6, <1>7, WhatTeardownDoes

LEMMA UninstallKeeps ==
  ASSUME IInv, NEW p \in Plugins, Uninstall(p)
  PROVE  IInv'
  BY TeardownKeeps DEF Uninstall, IsMounted

LEMMA CommitFailsKeeps ==
  ASSUME IInv, NEW p \in Plugins, CommitFails(p)
  PROVE  IInv'
  BY TeardownKeeps DEF CommitFails, IsMounted

LEMMA RetractKeeps ==
  ASSUME IInv, NEW p \in Plugins, Retract(p)
  PROVE  IInv'
<1>1. /\ stage[p] = "leaving" /\ Moves(p, "gone") /\ Unbound(p, leaving[p] \cap Shared)
      /\ leaving' = [leaving EXCEPT ![p] = {}]
      /\ UNCHANGED <<state, initialized, pass, queue, count, recorded>>
      /\ UNCHANGED <<owners, allowed, seen, displaced, made>>
  BY DEF Retract, Moves, application, footprint, refs
<1>2. stage'[p] = "gone" /\ \A q \in Plugins : q # p => stage'[q] = stage[q]
  BY <1>1, OnlyOneMoves DEF IInv
<1>3. LockInv'
  BY <1>1, LockKept, NotQueued DEF IInv
<1>4. CountInv'
  BY <1>1, <1>2, CountKept DEF IInv
<1>5. /\ stage[p] \in Inside /\ Claim(p) = leaving[p] \cap Shared
      /\ (leaving[p] \cap Shared) \cap recorded = {}
  BY <1>1 DEF IInv, PartsInv, Claim, Awaits, Inside
<1>6. \A q \in Plugins : leaving'[q] = leaving[q] \/ (q = p /\ leaving'[q] = {})
  BY <1>1 DEF IInv, TypeOK
<1>7. /\ PartsInv' /\ BindingInv'
      /\ stage' \in [Plugins -> Stages]
      /\ bound' \in [Keys -> Plugins \cup {App, Nobody}]
      /\ present' \subseteq Shared
      /\ ready' \subseteq Plugins \cup Shared /\ late' \subseteq Plugins \cup Shared
  BY <1>1, <1>5, <1>6, UnboundKeeps
<1>8. TypeOK'
  <2>1. leaving' \in [Plugins -> SUBSET (Plugins \cup Shared)]
    BY <1>1 DEF IInv, TypeOK
  <2>2. running' \subseteq Plugins \cup Shared /\ unstopped' \subseteq Plugins \cup Shared
    BY DEF Retract, StopAllBut, IInv, TypeOK
  <2> QED
    BY <1>1, <1>7, <2>1, <2>2 DEF IInv, TypeOK
<1> QED
  BY <1>3, <1>4, <1>7, <1>8 DEF IInv
-----------------------------------------------------------------------------
(* The application's passes *)

\* What mounts and retractions remember stays as it is.
LEMMA MountsUntouched ==
  ASSUME IInv, UNCHANGED <<context, stage, queue, footprint, leaving, refs>>
  PROVE  LockInv' /\ CountInv' /\ PartsInv' /\ BindingInv'
<1>1. UNCHANGED <<bound, present, stage, queue, displaced, made, leaving, count, recorded>>
  BY DEF context, footprint, refs
<1>2. LockInv'
  BY <1>1 DEF IInv, LockInv, Awaits, HoldsLock
<1>3. CountInv'
  BY <1>1, CountKept DEF IInv
<1>4. PartsInv'
  BY <1>1, ClaimKept, PartsKept DEF IInv
<1>5. BindingInv'
  BY <1>1, BindingKept DEF IInv, BindingInv, OwnInv
<1> QED
  BY <1>2, <1>3, <1>4, <1>5

LEMMA ObserversAreTyped ==
  BoundObservers \subseteq Plugins \cup Shared
  BY KeysAssumption DEF BoundObservers

LEMMA PassBegins ==
  ASSUME IInv, NEW next \in {"initializing", "starting", "stopping"}, MoveTo(next)
  PROVE  IInv'
<1>1. /\ UNCHANGED <<context, stage, queue, footprint, leaving, refs>>
      /\ UNCHANGED <<initialized, observers>>
      /\ state' = next /\ pass' = BoundObservers
  BY DEF MoveTo
<1>2. LockInv' /\ CountInv' /\ PartsInv' /\ BindingInv'
  BY <1>1, MountsUntouched
<1>3. TypeOK'
  <2>1. state' \in States /\ pass' \subseteq Plugins \cup Shared
    BY <1>1, ObserversAreTyped DEF States
  <2> QED
    BY <1>1, <2>1 DEF IInv, TypeOK, context, footprint, refs, observers
<1> QED
  BY <1>2, <1>3 DEF IInv

LEMMA PassEnds ==
  ASSUME IInv, Initialized \/ Started \/ Stopped
  PROVE  IInv'
<1>1. /\ UNCHANGED <<context, stage, queue, footprint, leaving, refs>>
      /\ pass' = {} /\ state' \in {"initialized", "started", "stopped"}
  BY DEF Initialized, Started, Stopped, Arrive
<1>2. LockInv' /\ CountInv' /\ PartsInv' /\ BindingInv'
  BY <1>1, MountsUntouched
<1>3. TypeOK'
  <2>1. state' \in States /\ pass' \subseteq Plugins \cup Shared
    BY <1>1 DEF States
  <2>2. initialized' \in BOOLEAN
    BY DEF Initialized, Started, Stopped, IInv, TypeOK
  <2>3. /\ ready' \subseteq Plugins \cup Shared /\ running' \subseteq Plugins \cup Shared
        /\ late' \subseteq Plugins \cup Shared /\ unstopped' \subseteq Plugins \cup Shared
    BY ObserversAreTyped DEF Initialized, Started, Stopped, StopAllBut, IInv, TypeOK
  <2> QED
    BY <1>1, <2>1, <2>2, <2>3 DEF IInv, TypeOK, context, footprint, refs
<1> QED
  BY <1>2, <1>3 DEF IInv

-----------------------------------------------------------------------------
(* What holds whatever callers do *)

LEMMA InitEstablishes == Init => IInv
<1> SUFFICES ASSUME Init PROVE IInv
  OBVIOUS
<1>1. Cardinality(Plugins) \in Nat /\ Cardinality({}) = 0
  BY FiniteAssumption, FS_CardinalityType, FS_EmptySet
<1>2. TypeOK
  <2>1. bound \in [Keys -> Plugins \cup {App, Nobody}]
    BY DEF Init
  <2>2. count \in [Shared -> 0 .. Cardinality(Plugins)]
    BY <1>1 DEF Init
  <2>3. /\ stage \in [Plugins -> Stages]
        /\ displaced \in [Plugins -> Plugins \cup {App, Nobody}]
    BY DEF Init, Stages
  <2>4. /\ owners \in [Plugins -> SUBSET Keys]
        /\ seen \in [Plugins -> SUBSET Shared] /\ made \in [Plugins -> SUBSET Shared]
        /\ leaving \in [Plugins -> SUBSET (Plugins \cup Shared)]
    BY DEF Init
  <2>5. /\ state \in States /\ queue \in Seq(Plugins)
    BY DEF Init, States
  <2>6. initialized \in BOOLEAN
    BY Zenon DEF Init
  <2>7. /\ pass = {} /\ present = {} /\ ready = {} /\ running = {}
        /\ late = {} /\ unstopped = {} /\ allowed = {} /\ recorded = {}
    BY DEF Init
  <2> QED
    BY <2>1, <2>2, <2>3, <2>4, <2>5, <2>6, <2>7 DEF TypeOK
<1>3. \A p \in Plugins : /\ stage[p] = "out" /\ displaced[p] = Nobody
                         /\ made[p] = {} /\ leaving[p] = {}
  BY DEF Init
<1>4. LockInv
  BY <1>3 DEF Init, LockInv, Awaits
<1>5. CountInv
  <2>1. \A s \in Shared : Holders(s) = {}
    BY <1>3 DEF Holders, IsMounted
  <2> QED
    BY <1>1, <2>1 DEF Init, CountInv
<1>6. PartsInv
  BY <1>3 DEF Init, PartsInv, Awaits, Claim
<1>7. BindingInv
  <2>1. \A k \in Keys : bound[k] = Original(k)
    BY DEF Init, Original
  <2>2. FreshInv
    BY <1>3, <2>1, NobodyAssumption DEF FreshInv, Original
  <2>3. OwnInv /\ KeyInv
    BY <1>3, <2>1 DEF OwnInv, KeyInv, Inside
  <2> QED
    BY <2>2, <2>3 DEF BindingInv
<1> QED
  BY <1>2, <1>4, <1>5, <1>6, <1>7 DEF IInv

LEMMA StutterKeeps ==
  ASSUME IInv, UNCHANGED vars
  PROVE  IInv'
<1>1. UNCHANGED <<application, context, observers, stage, queue, footprint, leaving, refs>>
  BY DEF vars
<1>2. LockInv' /\ CountInv' /\ PartsInv' /\ BindingInv'
  BY <1>1, MountsUntouched
<1>3. TypeOK'
  BY <1>1 DEF IInv, TypeOK, application, context, observers, footprint, refs
<1> QED
  BY <1>2, <1>3 DEF IInv

LEMMA NextKeeps == IInv /\ [Next]_vars => IInv'
<1> SUFFICES ASSUME IInv, [Next]_vars PROVE IInv'
  OBVIOUS
<1>1. ASSUME NEW p \in Plugins, NEW allow \in BOOLEAN, Load(p, allow) PROVE IInv'
  BY <1>1, LoadKeeps
<1>2. ASSUME NEW p \in Plugins, Imported(p) PROVE IInv'
  BY <1>2, ImportedKeeps
<1>3. ASSUME NEW p \in Plugins, Reject(p) PROVE IInv'
  BY <1>3, RejectKeeps
<1>4. ASSUME NEW p \in Plugins, MountThrows(p) PROVE IInv'
  BY <1>4, MountThrowsKeeps
<1>5. ASSUME NEW p \in Plugins, Mount(p) PROVE IInv'
  BY <1>5, MountKeeps
<1>6. ASSUME NEW p \in Plugins, Mounted(p) PROVE IInv'
  BY <1>6, MountedKeeps
<1>7. ASSUME NEW p \in Plugins, MountFails(p) PROVE IInv'
  BY <1>7, MountFailsKeeps
<1>8. ASSUME NEW p \in Plugins, Commit(p) PROVE IInv'
  BY <1>8, CommitKeeps
<1>9. ASSUME NEW p \in Plugins, CommitFails(p) PROVE IInv'
  BY <1>9, CommitFailsKeeps
<1>10. ASSUME NEW p \in Plugins, Uninstall(p) PROVE IInv'
  BY <1>10, UninstallKeeps
<1>11. ASSUME NEW p \in Plugins, Retract(p) PROVE IInv'
  BY <1>11, RetractKeeps
<1>12. CASE Initialize \/ StartUp \/ Stop
  BY <1>12, PassBegins DEF Initialize, StartUp, Stop
<1>13. CASE Initialized \/ Started \/ Stopped
  BY <1>13, PassEnds
<1>14. CASE UNCHANGED vars
  BY <1>14, StutterKeeps
<1> QED
  BY <1>1, <1>2, <1>3, <1>4, <1>5, <1>6, <1>7, <1>8, <1>9, <1>10, <1>11, <1>12, <1>13, <1>14
     DEF Next

LEMMA Inductive == Spec => []IInv
  BY InitEstablishes, NextKeeps, PTL DEF Spec

\* Mounts, retractions and passes keep the shape of what the application, its
\* context and the mounts remember of each other.
THEOREM TypeCorrect == Spec => []TypeOK
<1>1. IInv => TypeOK
  BY DEF IInv
<1> QED
  BY <1>1, Inductive, PTL

\* When no mount is left, the keys that no plugin took from another are the
\* application's again and the nested components are gone, but for what mounts that
\* threw have left: rollback, uninstall and a refused commit undo all that loadPlugin
\* did, whatever callers wait for, whichever keys they share, whatever throws.
THEOREM RetractionUndoesTheMount == Spec => []RetractionIsComplete
<1>1. ASSUME IInv
      PROVE  RetractionIsComplete
  <2> SUFFICES ASSUME AtRest, \A p \in Plugins : stage[p] # "in"
               PROVE  /\ \A k \in Keys :
                           LET here == {p \in Plugins : KeyOf[p] = k}
                           IN  here \cap Overridden = {} =>
                                 IF here \cap Broken = {} THEN bound[k] = Original(k)
                                                         ELSE here \cap Broken = {bound[k]}
                      /\ present = LeftParts
    BY DEF RetractionIsComplete
  <2>1. \A p \in Plugins : stage[p] \in {"out", "gone", "broken"}
    BY DEF AtRest
  <2>2. ASSUME NEW k \in Keys, {p \in Plugins : KeyOf[p] = k} \cap Overridden = {}
        PROVE  IF {p \in Plugins : KeyOf[p] = k} \cap Broken = {} THEN bound[k] = Original(k)
               ELSE {p \in Plugins : KeyOf[p] = k} \cap Broken = {bound[k]}
    <3>1. Untaken(k)
      BY <2>2 DEF Untaken
    <3>2. \A p \in Plugins : stage[p] \in Inside <=> p \in Broken
      BY <2>1 DEF Inside, Broken
    <3>3. /\ \A p \in Plugins : KeyOf[p] = k /\ p \in Broken => bound[k] = p
          /\ (\A p \in Plugins : KeyOf[p] = k => p \notin Broken) => bound[k] = Original(k)
      BY <1>1, <3>1, <3>2 DEF IInv, BindingInv, KeyInv
    <3> QED
      BY <3>3
  <2>3. present = LeftParts
    <3>1. \A s \in Shared : Holders(s) = {}
      BY <2>1 DEF Holders, IsMounted
    <3>2. \A s \in Shared : s \notin recorded
      BY <1>1, <3>1 DEF IInv, CountInv
    <3>3. \A p \in Plugins : Claim(p) = IF p \in Broken THEN made[p] ELSE {}
      BY <2>1 DEF Claim, Awaits, Broken
    <3>4. \A s \in Shared : s \in present <=> s \in LeftParts
      BY <1>1, <3>2, <3>3 DEF IInv, PartsInv, LeftParts, Broken
    <3>5. present \subseteq Shared /\ LeftParts \subseteq Shared
      BY <1>1 DEF IInv, TypeOK, LeftParts, Broken
    <3> QED
      BY <3>4, <3>5
  <2> QED
    BY <2>2, <2>3
<1> QED
  BY <1>1, Inductive, PTL
-----------------------------------------------------------------------------
(* What callers that are disciplined keep apart *)

\* What a move must look at to keep mounts, teardowns and passes apart.
LEMMA DisciplineKept ==
  ASSUME TypeOK, DisciplineInv, NEW p \in Plugins, NEW v, Moves(p, v), UNCHANGED state,
         v = "leaving" => /\ \A q \in Plugins : q # p => stage[q] \notin Underway
                          /\ state \in Settled,
         v \in Underway => /\ \A q \in Plugins : stage[q] # "leaving"
                           /\ state \in Settled,
         v = "initing" => state = "initialized",
         v = "starting" => state = "started"
  PROVE  DisciplineInv'
<1>1. stage'[p] = v /\ \A q \in Plugins : q # p => stage'[q] = stage[q]
  BY OnlyOneMoves
<1>2. (\A q, o \in Plugins : stage[q] = "leaving" => stage[o] \notin Underway)'
  <2> SUFFICES ASSUME NEW q \in Plugins, NEW o \in Plugins, stage'[q] = "leaving"
               PROVE  stage'[o] \notin Underway
    BY DEF Underway
  <2>1. CASE q = p /\ o = p
    BY <1>1, <2>1 DEF Underway
  <2>2. CASE q = p /\ o # p
    BY <1>1, <2>2
  <2>3. CASE q # p /\ o = p
    BY <1>1, <2>3
  <2>4. CASE q # p /\ o # p
    BY <1>1, <2>4 DEF DisciplineInv
  <2> QED
    BY <2>1, <2>2, <2>3, <2>4
<1>3. (\A q \in Plugins : stage[q] \in Underway \cup {"leaving"} => state \in Settled)'
  BY <1>1 DEF DisciplineInv, Settled, Underway
<1>4. (\A q \in Plugins : /\ stage[q] = "initing" => state = "initialized"
                          /\ stage[q] = "starting" => state = "started")'
  BY <1>1 DEF DisciplineInv
<1> QED
  BY <1>2, <1>3, <1>4 DEF DisciplineInv

\* While something is mounted nothing is retracted and no pass runs.
LEMMA WhileMounting ==
  ASSUME DisciplineInv, NEW p \in Plugins, stage[p] \in Underway
  PROVE  state \in Settled /\ \A q \in Plugins : stage[q] # "leaving"
  BY DEF DisciplineInv

\* While a pass runs, nothing is mounted or retracted.
LEMMA WhileAPassRuns ==
  ASSUME DisciplineInv, state \notin Settled
  PROVE  \A q \in Plugins : stage[q] \notin Underway \cup {"leaving"}
  BY DEF DisciplineInv

\* The one that has reached the lock and awaits nothing yet finds nobody that does.
LEMMA NobodyAwaits ==
  ASSUME LockInv, NEW p \in Plugins, HoldsLock(p), stage[p] = "loading"
  PROVE  \A q \in Plugins : ~Awaits(q)
  BY OneAwaits DEF Awaits

-----------------------------------------------------------------------------
(* Debris *)

LEMMA DebrisStays ==
  ASSUME \A q \in Plugins : stage[q] = "broken" => stage'[q] = "broken" /\ made'[q] = made[q]
  PROVE  LeftParts \subseteq LeftParts' /\ Debris \subseteq Debris'
  BY DEF LeftParts, Debris, Broken

\* Between mounts and retractions, what is bound is recorded or debris.
LEMMA PresentIsHeld ==
  ASSUME IInv, \A q \in Plugins : ~Awaits(q) /\ stage[q] # "leaving"
  PROVE  present \subseteq recorded \cup LeftParts
<1>1. \A q \in Plugins : Claim(q) # {} => Claim(q) = made[q] /\ q \in Broken
  BY DEF Claim, Broken
<1>2. \A s \in present : s \in recorded \/ \E q \in Plugins : s \in Claim(q)
  BY DEF IInv, TypeOK, PartsInv
<1> QED
  BY <1>1, <1>2 DEF LeftParts

\* Mounts that neither begin to await nor are counted in hold what they held.
LEMMA HeldKept ==
  ASSUME HeldInv, UNCHANGED <<recorded, bound>>, LeftParts \subseteq LeftParts',
         \A q \in Plugins : /\ IsMounted(q)' => IsMounted(q)
                            /\ Awaits(q)' => Awaits(q) /\ made'[q] = made[q]
  PROVE  HeldInv'
  BY DEF HeldInv

-----------------------------------------------------------------------------
(* The observers *)

LEMMA NoneUntold ==
  ASSUME \A q \in Plugins : ~Awaits(q)
  PROVE  Untold = {}
  BY DEF Untold

LEMMA NoneUntoldThen ==
  ASSUME \A q \in Plugins : ~Awaits(q)'
  PROVE  Untold' = {}
  BY DEF Untold

\* A mount that binds finds none of what it binds among the observers, and takes none
\* from them but whom it overrides.
LEMMA ObserversGained ==
  ASSUME IInv, NEW p \in Plugins, stage[p] = "loading", NEW new \in SUBSET (Nested[p] \ present),
         Binds(p, new)
  PROVE  /\ BoundObservers' \subseteq BoundObservers \cup (({p} \cup new) \cap Observing)
         /\ BoundObservers \subseteq BoundObservers' \cup Overridden'
         /\ BoundObservers \cap ({p} \cup new) = {}
<1>1. /\ \A q \in Plugins : KeyOf[q] \in Keys
      /\ bound'[KeyOf[p]] = p
      /\ \A h \in Keys : h # KeyOf[p] => bound'[h] = bound[h]
      /\ displaced'[p] = bound[KeyOf[p]]
  BY KeysAssumption DEF IInv, TypeOK, Binds, BindsKey
<1>2. new \cap Plugins = {} /\ new \cap present = {} /\ present' = present \cup new
  BY KeysAssumption DEF Binds
<1>3. bound[KeyOf[p]] # p /\ p \notin present
  BY <1>1, KeysAssumption DEF IInv, TypeOK, BindingInv, FreshInv
<1>4. \A q \in Plugins : bound[KeyOf[q]] = q => bound'[KeyOf[q]] = q \/ q \in Overridden'
  BY <1>1 DEF Overridden
<1>5. \A q \in Plugins : bound'[KeyOf[q]] = q => bound[KeyOf[q]] = q \/ q = p
  BY <1>1
<1> QED
  BY <1>2, <1>3, <1>4, <1>5 DEF BoundObservers

\* A plugin that unbinds takes from the observers its own, and gives back none but one
\* that was overridden.
Gone(p, parts) == (IF bound[KeyOf[p]] = p THEN {p} ELSE {}) \cup parts

LEMMA ObserversLost ==
  ASSUME IInv, NEW p \in Plugins, NEW parts \in SUBSET Shared, Unbound(p, parts)
  PROVE  /\ BoundObservers' \subseteq (BoundObservers \ Gone(p, parts)) \cup Overridden
         /\ BoundObservers \subseteq BoundObservers' \cup Gone(p, parts)
         /\ ready' = ready \ Gone(p, parts)
         /\ late' = late \ Gone(p, parts)
<1>1. /\ \A q \in Plugins : KeyOf[q] \in Keys
      /\ bound'[KeyOf[p]] = IF bound[KeyOf[p]] = p THEN displaced[p] ELSE bound[KeyOf[p]]
      /\ \A h \in Keys : h # KeyOf[p] => bound'[h] = bound[h]
  BY KeysAssumption DEF IInv, TypeOK, Unbound, Reverted
<1>2. parts \cap Plugins = {} /\ present' = present \ parts /\ p \notin present
  BY KeysAssumption DEF IInv, TypeOK, Unbound
<1>3. \A q \in Plugins : bound'[KeyOf[q]] = q =>
          \/ bound[KeyOf[q]] = q /\ (q = p => bound[KeyOf[p]] # p)
          \/ q \in Overridden
  BY <1>1 DEF Overridden
<1>4. \A q \in Plugins : bound[KeyOf[q]] = q => bound'[KeyOf[q]] = q \/ q = p
  BY <1>1
<1>5. BoundObservers' \subseteq (BoundObservers \ Gone(p, parts)) \cup Overridden
  BY <1>2, <1>3, KeysAssumption DEF BoundObservers, Gone, IInv, TypeOK
<1>6. BoundObservers \subseteq BoundObservers' \cup Gone(p, parts)
  BY <1>2, <1>4 DEF BoundObservers, Gone
<1> QED
  BY <1>5, <1>6 DEF Unbound, Gone

\* Nothing that observers depend on changes.
LEMMA RunKept ==
  ASSUME RunInv, ReadyInv, UNCHANGED <<application, context, observers, displaced>>,
         Untold' = Untold, Debris \subseteq Debris'
  PROVE  RunInv' /\ ReadyInv'
<1>1. /\ UNCHANGED <<state, pass, bound, present, ready, running, late, unstopped>>
      /\ BoundObservers' = BoundObservers /\ Overridden' = Overridden
  BY DEF application, context, observers, BoundObservers, Overridden
<1>2. Exempt' = Exempt
  BY <1>1 DEF Exempt
<1>3. RunInv'
  BY <1>1, <1>2 DEF RunInv
<1>4. ReadyInv'
  BY <1>1 DEF ReadyInv
<1> QED
  BY <1>3, <1>4

\* What is to be shown when the application is between its passes.
LEMMA RunSettles ==
  ASSUME state \in Settled, UNCHANGED state,
         state = "started" =>
           /\ BoundObservers' \ (Untold' \cup Debris' \cup Overridden') \subseteq running'
           /\ running' \subseteq BoundObservers' \cup Exempt',
         state # "started" => running' \subseteq Exempt',
         Untold' \cap running' \subseteq Exempt',
         state # "created" =>
           BoundObservers' \ (Untold' \cup Debris' \cup Overridden') \subseteq ready' \cup late'
  PROVE  RunInv' /\ ReadyInv'
  BY DEF RunInv, ReadyInv, Settled
-----------------------------------------------------------------------------
(* Each step keeps the invariant of disciplined callers *)

\* A move that neither binds nor counts anything.
LEMMA MovesOn ==
  ASSUME IInv, WithDiscipline, NEW p \in Plugins, NEW v, Moves(p, v),
         \/ stage[p] = "out" /\ v = "loading"
            /\ state \in Settled /\ \A q \in Plugins : stage[q] # "leaving"
         \/ stage[p] = "loading" /\ v = "gone"
         \/ stage[p] = "committing" /\ v = "in",
         UNCHANGED <<application, context, observers, displaced, made, refs>>
  PROVE  WithDiscipline'
<1>1. stage'[p] = v /\ \A q \in Plugins : q # p => stage'[q] = stage[q]
  BY OnlyOneMoves DEF IInv
<1>2. UNCHANGED <<state, bound, made, recorded>>
  BY DEF application, context, refs
<1>3. DisciplineInv'
  BY <1>2, DisciplineKept DEF IInv, WithDiscipline, Underway
<1>4. \A q \in Plugins : /\ Awaits(q)' <=> Awaits(q)
                         /\ IsMounted(q)' => IsMounted(q)
                         /\ stage[q] = "broken" => stage'[q] = "broken"
  BY <1>1 DEF Awaits, IsMounted
<1>5. LeftParts \subseteq LeftParts' /\ Debris \subseteq Debris'
  BY <1>2, <1>4, DebrisStays
<1>6. HeldInv'
  BY <1>2, <1>4, <1>5, HeldKept DEF WithDiscipline
<1>7. Untold' = Untold
  BY <1>2, <1>4 DEF Untold
<1>8. RunInv' /\ ReadyInv'
  BY <1>5, <1>7, RunKept DEF WithDiscipline
<1> QED
  BY <1>3, <1>6, <1>8 DEF WithDiscipline

LEMMA LoadIsDisciplined ==
  ASSUME Disciplined, IInv, WithDiscipline, NEW p \in Plugins, NEW allow \in BOOLEAN,
         Load(p, allow)
  PROVE  WithDiscipline'
<1>1. state \in Settled /\ \A q \in Plugins : stage[q] # "leaving"
  BY DEF Load, MayMount, Busy
<1>2. /\ stage[p] = "out" /\ Moves(p, "loading")
      /\ UNCHANGED <<application, context, observers, displaced, made, refs>>
  BY DEF Load, Moves
<1> QED
  BY <1>1, <1>2, MovesOn

LEMMA ImportedIsDisciplined ==
  ASSUME IInv, WithDiscipline, NEW p \in Plugins, Imported(p)
  PROVE  WithDiscipline'
<1>1. CASE Moves(p, "gone")
  BY <1>1, MovesOn DEF Imported, footprint
<1>2. CASE UNCHANGED stage
  <2>1. /\ UNCHANGED <<application, context, observers, displaced, made, refs>>
        /\ UNCHANGED <<state, bound, made, recorded>>
    BY DEF Imported, footprint, application, context, refs
  <2>2. DisciplineInv'
    BY <1>2, <2>1 DEF WithDiscipline, DisciplineInv
  <2>3. \A q \in Plugins : (Awaits(q)' <=> Awaits(q)) /\ (IsMounted(q)' => IsMounted(q))
    BY <1>2 DEF Awaits, IsMounted
  <2>4. LeftParts \subseteq LeftParts' /\ Debris \subseteq Debris'
    BY <1>2, <2>1, DebrisStays
  <2>5. HeldInv'
    BY <2>1, <2>3, <2>4, HeldKept DEF WithDiscipline
  <2>6. Untold' = Untold
    BY <2>1, <2>3 DEF Untold
  <2>7. RunInv' /\ ReadyInv'
    BY <2>1, <2>4, <2>6, RunKept DEF WithDiscipline
  <2> QED
    BY <2>2, <2>5, <2>7 DEF WithDiscipline
<1> QED
  BY <1>1, <1>2 DEF Imported, Moves

LEMMA RejectIsDisciplined ==
  ASSUME IInv, WithDiscipline, NEW p \in Plugins, Reject(p)
  PROVE  WithDiscipline'
  BY MovesOn DEF Reject, Moves, footprint

LEMMA CommitIsDisciplined ==
  ASSUME IInv, WithDiscipline, NEW p \in Plugins, Commit(p)
  PROVE  WithDiscipline'
  BY MovesOn DEF Commit, Moves, footprint

\* What a mount that binds under the lock finds, and what it changes.
LEMMA BindsUnderTheLock ==
  ASSUME IInv, WithDiscipline, NEW p \in Plugins, stage[p] = "loading", HoldsLock(p),
         NEW v \in {"initing", "starting", "committing", "broken"}, Moves(p, v),
         NEW new \in SUBSET (Nested[p] \ present), Binds(p, new),
         recorded' = IF v = "committing" THEN recorded \cup new ELSE recorded,
         UNCHANGED leaving
  PROVE  /\ state \in Settled /\ \A q \in Plugins : stage[q] # "leaving"
         /\ stage'[p] = v /\ \A q \in Plugins : q # p => stage'[q] = stage[q]
         /\ made'[p] = new /\ \A q \in Plugins : q # p => made'[q] = made[q]
         /\ bound'[KeyOf[p]] = p
         /\ present \subseteq recorded \cup LeftParts
         /\ LeftParts \subseteq LeftParts' /\ Debris \subseteq Debris'
         /\ Overridden \subseteq Overridden'
         /\ Untold = {}
         /\ Untold' = IF v \in {"initing", "starting"} THEN {p} \cup new ELSE {}
<1>1. state \in Settled /\ \A q \in Plugins : stage[q] # "leaving"
  BY WhileMounting DEF WithDiscipline, Underway
<1>2. stage'[p] = v /\ \A q \in Plugins : q # p => stage'[q] = stage[q]
  BY OnlyOneMoves DEF IInv
<1>3. /\ made'[p] = new /\ \A q \in Plugins : q # p => made'[q] = made[q]
      /\ bound'[KeyOf[p]] = p
      /\ new \subseteq Shared
  BY KeysAssumption DEF IInv, TypeOK, Binds, BindsKey
<1>4. \A q \in Plugins : ~Awaits(q)
  BY NobodyAwaits DEF IInv
<1>5. present \subseteq recorded \cup LeftParts
  BY <1>1, <1>4, PresentIsHeld
<1>6. LeftParts \subseteq LeftParts' /\ Debris \subseteq Debris'
  BY <1>2, <1>3, DebrisStays
<1>7. Overridden \subseteq Overridden'
  BY BindsKeeps
<1>8. Untold = {}
  BY <1>4, NoneUntold
<1>9. \A q \in Plugins : Awaits(q)' <=> q = p /\ v \in {"initing", "starting"}
  BY <1>2, <1>4 DEF Awaits
<1>10. Untold' = IF v \in {"initing", "starting"} THEN {p} \cup new ELSE {}
  BY <1>3, <1>9 DEF Untold
<1> QED
  BY <1>1, <1>2, <1>3, <1>5, <1>6, <1>7, <1>8, <1>10

LEMMA MountThrowsIsDisciplined ==
  ASSUME IInv, WithDiscipline, NEW p \in Plugins, MountThrows(p)
  PROVE  WithDiscipline'
<1>1. /\ stage[p] = "loading" /\ HoldsLock(p)
      /\ UNCHANGED <<application, observers, leaving, refs>>
  BY DEF MountThrows
<1>2. CASE Moves(p, "gone") /\ UNCHANGED <<context, displaced, made>>
  BY <1>1, <1>2, MovesOn
<1>3. ASSUME NEW left \in SUBSET (Nested[p] \ present), Moves(p, "broken"), Binds(p, left)
      PROVE  WithDiscipline'
  <2>1. UNCHANGED <<state, ready, running, late, unstopped, recorded>>
    BY <1>1 DEF application, observers, refs
  <2>2. /\ state \in Settled
        /\ stage'[p] = "broken" /\ \A q \in Plugins : q # p => stage'[q] = stage[q]
        /\ made'[p] = left
        /\ LeftParts \subseteq LeftParts' /\ Debris \subseteq Debris'
        /\ Overridden \subseteq Overridden'
        /\ Untold = {} /\ Untold' = {}
    BY <1>1, <1>3, <2>1, BindsUnderTheLock
  <2>3. DisciplineInv'
    BY <1>3, <2>1, DisciplineKept DEF IInv, WithDiscipline, Underway
  <2>4. \A q \in Plugins : ~Awaits(q)'
    BY <1>1, <2>2, NobodyAwaits DEF IInv, Awaits
  <2>5. \A q \in Plugins : IsMounted(q)' => IsMounted(q)
    BY <2>2 DEF IsMounted
  <2>6. HeldInv'
    BY <2>1, <2>2, <2>4, <2>5 DEF WithDiscipline, HeldInv
  <2>7. {p} \cup left \subseteq Debris'
    BY <2>2 DEF Debris, LeftParts, Broken
  <2>8. /\ BoundObservers' \subseteq BoundObservers \cup Debris'
        /\ BoundObservers \subseteq BoundObservers' \cup Overridden'
    BY <1>1, <1>3, <2>7, ObserversGained
  <2>9. Exempt \subseteq Exempt' /\ Overridden' \subseteq Exempt'
    BY <2>1, <2>2 DEF Exempt
  <2>10. RunInv' /\ ReadyInv'
    BY <2>1, <2>2, <2>8, <2>9, RunSettles DEF WithDiscipline, RunInv, ReadyInv, Settled
  <2> QED
    BY <2>3, <2>6, <2>10 DEF WithDiscipline
<1> QED
  BY <1>2, <1>3 DEF MountThrows, Moves, Binds, BindsKey
LEMMA MountIsDisciplined ==
  ASSUME IInv, WithDiscipline, NEW p \in Plugins, Mount(p)
  PROVE  WithDiscipline'
<1> DEFINE new == Nested[p] \ present
           New == ({p} \cup new) \cap Observing
<1>1. /\ stage[p] = "loading" /\ HoldsLock(p) /\ Binds(p, new)
      /\ new \in SUBSET (Nested[p] \ present) /\ Nested[p] \subseteq new \cup present
      /\ UNCHANGED <<state, ready, running, unstopped, leaving>>
      /\ late' = IF state = "created" \/ Owed THEN late ELSE late \cup New
      /\ Waits(p) <=> Owed /\ New # {}
  BY WhatMountDoes DEF NewObservers, Waits
<1>2. /\ BoundObservers' \subseteq BoundObservers \cup New
      /\ BoundObservers \subseteq BoundObservers' \cup Overridden'
      /\ BoundObservers \cap ({p} \cup new) = {}
  BY <1>1, ObserversGained
<1>3. New \subseteq {p} \cup new
  OBVIOUS
<1> HIDE DEF new, New
<1>4. ASSUME NEW v \in {"initing", "starting"}, Moves(p, v), UNCHANGED <<queue, count, recorded>>,
             Waits(p), v = IF state = "started" THEN "starting" ELSE "initing"
      PROVE  WithDiscipline'
  <2>1. /\ state \in Settled /\ \A q \in Plugins : stage[q] # "leaving"
        /\ stage'[p] = v /\ \A q \in Plugins : q # p => stage'[q] = stage[q]
        /\ made'[p] = new /\ bound'[KeyOf[p]] = p
        /\ present \subseteq recorded \cup LeftParts
        /\ LeftParts \subseteq LeftParts' /\ Debris \subseteq Debris'
        /\ Overridden \subseteq Overridden'
        /\ Untold = {} /\ Untold' = {p} \cup new
    BY <1>1, <1>4, BindsUnderTheLock
  <2>2. v = "initing" => state = "initialized"
    BY <1>1, <1>4 DEF Owed
  <2>3. DisciplineInv'
    BY <1>1, <1>4, <2>1, <2>2, DisciplineKept DEF IInv, WithDiscipline
  <2>4. HeldInv'
    <3>1. \A q \in Plugins : /\ Awaits(q)' => q = p
                             /\ IsMounted(q)' => IsMounted(q)
      BY <1>1, <1>4, <2>1, NobodyAwaits DEF IInv, Awaits, IsMounted
    <3>2. Nested[p] \subseteq made'[p] \cup recorded' \cup LeftParts'
      BY <1>1, <1>4, <2>1
    <3> QED
      BY <1>4, <2>1, <3>1, <3>2 DEF WithDiscipline, HeldInv
  <2>5. Exempt \subseteq Exempt' /\ Overridden' \subseteq Exempt'
    BY <1>1, <2>1 DEF Exempt
  <2>6. running \subseteq BoundObservers \cup Exempt
    BY <2>1 DEF WithDiscipline, RunInv, Settled
  <2>7. Untold' \cap running' \subseteq Exempt'
    BY <1>1, <1>2, <2>1, <2>5, <2>6
  <2>8. RunInv' /\ ReadyInv'
    <3>1. state = "started" =>
            /\ BoundObservers' \ (Untold' \cup Debris' \cup Overridden') \subseteq running'
            /\ running' \subseteq BoundObservers' \cup Exempt'
      BY <1>1, <1>2, <1>3, <2>1, <2>5, <2>6 DEF WithDiscipline, RunInv
    <3>2. state # "started" => running' \subseteq Exempt'
      BY <1>1, <2>1, <2>5 DEF WithDiscipline, RunInv, Settled
    <3>3. state # "created" =>
            BoundObservers' \ (Untold' \cup Debris' \cup Overridden') \subseteq ready' \cup late'
      BY <1>1, <1>2, <1>3, <2>1 DEF WithDiscipline, ReadyInv, Settled
    <3> QED
      BY <1>1, <2>1, <2>7, <3>1, <3>2, <3>3, RunSettles
  <2> QED
    BY <2>3, <2>4, <2>8 DEF WithDiscipline
<1>5. ASSUME ~Waits(p), Moves(p, "committing"), CountIn(p, new)
      PROVE  WithDiscipline'
  <2>1. recorded' = recorded \cup new
    BY <1>5 DEF CountIn
  <2>2. /\ state \in Settled /\ \A q \in Plugins : stage[q] # "leaving"
        /\ stage'[p] = "committing" /\ \A q \in Plugins : q # p => stage'[q] = stage[q]
        /\ present \subseteq recorded \cup LeftParts
        /\ LeftParts \subseteq LeftParts' /\ Debris \subseteq Debris'
        /\ Overridden \subseteq Overridden'
        /\ Untold = {} /\ Untold' = {}
    BY <1>1, <1>5, <2>1, BindsUnderTheLock
  <2>3. DisciplineInv'
    BY <1>1, <1>5, <2>2, DisciplineKept DEF IInv, WithDiscipline
  <2>4. HeldInv'
    <3>1. \A q \in Plugins : /\ ~Awaits(q)'
                             /\ q # p => (IsMounted(q)' => IsMounted(q))
      BY <1>1, <2>2, NobodyAwaits DEF IInv, Awaits, IsMounted
    <3>2. Nested[p] \subseteq recorded' \cup LeftParts'
      BY <1>1, <2>1, <2>2
    <3> QED
      BY <2>1, <2>2, <3>1, <3>2 DEF WithDiscipline, HeldInv
  <2>5. Exempt \subseteq Exempt' /\ Overridden' \subseteq Exempt'
    BY <1>1, <2>2 DEF Exempt
  <2>6. /\ state = "started" => New = {}
        /\ state # "created" => New \subseteq late' \/ New = {}
        /\ late \subseteq late'
    BY <1>1, <1>5 DEF Owed
  <2>7. RunInv' /\ ReadyInv'
    <3>1. state = "started" =>
            /\ BoundObservers' \ (Untold' \cup Debris' \cup Overridden') \subseteq running'
            /\ running' \subseteq BoundObservers' \cup Exempt'
      BY <1>1, <1>2, <2>2, <2>5, <2>6 DEF WithDiscipline, RunInv
    <3>2. state # "started" => running' \subseteq Exempt'
      BY <1>1, <2>2, <2>5 DEF WithDiscipline, RunInv, Settled
    <3>3. state # "created" =>
            BoundObservers' \ (Untold' \cup Debris' \cup Overridden') \subseteq ready' \cup late'
      BY <1>1, <1>2, <2>2, <2>6 DEF WithDiscipline, ReadyInv, Settled
    <3> QED
      BY <1>1, <2>2, <3>1, <3>2, <3>3, RunSettles
  <2> QED
    BY <2>3, <2>4, <2>7 DEF WithDiscipline
<1> QED
  BY <1>4, <1>5, WhatMountDoes DEF new

\* The mount that awaits is the only one; its key and its parts are bound.
LEMMA WhileAwaiting ==
  ASSUME IInv, WithDiscipline, NEW p \in Plugins, Awaits(p)
  PROVE  /\ HoldsLock(p) /\ state \in Settled
         /\ \A q \in Plugins : q # p => ~Awaits(q)
         /\ Untold = {p} \cup made[p]
         /\ made[p] \subseteq present
         /\ bound[KeyOf[p]] = p
         /\ stage[p] = "starting" <=> state = "started"
<1>1. HoldsLock(p) /\ \A q \in Plugins : q # p => ~Awaits(q)
  BY OneAwaits DEF IInv, LockInv
<1>2. made[p] \subseteq Shared
  BY DEF IInv, TypeOK
<1>3. Untold = {p} \cup made[p]
  BY <1>1, <1>2 DEF Untold
<1>4. made[p] \subseteq present
  BY <1>2 DEF IInv, PartsInv, Claim
<1> QED
  BY <1>1, <1>3, <1>4
     DEF WithDiscipline, DisciplineInv, HeldInv, Awaits, Underway

LEMMA MountedIsDisciplined ==
  ASSUME IInv, WithDiscipline, NEW p \in Plugins, Mounted(p)
  PROVE  WithDiscipline'
<1>1. /\ Awaits(p) /\ Moves(p, "committing") /\ CountIn(p, made[p]) /\ Notified(p)
      /\ UNCHANGED <<state, bound, present, late, unstopped, displaced, made>>
  BY DEF Mounted, Awaits, Moves, application, context, footprint
<1>2. stage'[p] = "committing" /\ \A q \in Plugins : q # p => stage'[q] = stage[q]
  BY <1>1, OnlyOneMoves DEF IInv
<1>3. /\ state \in Settled
      /\ \A q \in Plugins : ~Awaits(q)'
      /\ Untold = {p} \cup made[p] /\ Untold' = {}
      /\ made[p] \subseteq present /\ bound[KeyOf[p]] = p
      /\ stage[p] = "starting" <=> state = "started"
  BY <1>1, <1>2, WhileAwaiting, NoneUntoldThen DEF Awaits
<1>4. DisciplineInv'
  BY <1>1, <1>3, WhileMounting, DisciplineKept DEF IInv, WithDiscipline, Awaits, Underway
<1>5. LeftParts \subseteq LeftParts' /\ Debris \subseteq Debris'
  BY <1>1, <1>2, DebrisStays DEF Awaits
<1>6. HeldInv'
  <2>1. recorded' = recorded \cup made[p]
    BY <1>1 DEF CountIn
  <2>2. \A q \in Plugins : q # p => (IsMounted(q)' => IsMounted(q))
    BY <1>2 DEF IsMounted
  <2>3. Nested[p] \subseteq recorded' \cup LeftParts'
    BY <1>1, <1>5, <2>1 DEF WithDiscipline, HeldInv
  <2> QED
    BY <1>3, <1>5, <2>1, <2>2, <2>3 DEF WithDiscipline, HeldInv
<1>7. BoundObservers' = BoundObservers /\ Overridden' = Overridden /\ Exempt' = Exempt
  BY <1>1 DEF BoundObservers, Overridden, Exempt
<1>8. Told(p) \subseteq BoundObservers /\ BoundObservers \cap Untold \subseteq Told(p)
  BY <1>3 DEF Told, BoundObservers
<1>9. RunInv' /\ ReadyInv'
  <2>1. /\ ready' = ready \cup Told(p)
        /\ state = "started" => running' = running \cup Told(p)
        /\ state # "started" => running' = running
    BY <1>1, <1>3 DEF Notified
  <2>2. state = "started" =>
          /\ BoundObservers' \ (Untold' \cup Debris' \cup Overridden') \subseteq running'
          /\ running' \subseteq BoundObservers' \cup Exempt'
    BY <1>5, <1>7, <1>8, <2>1 DEF WithDiscipline, RunInv
  <2>3. state # "started" => running' \subseteq Exempt'
    BY <1>3, <1>7, <2>1 DEF WithDiscipline, RunInv, Settled
  <2>4. state # "created" =>
          BoundObservers' \ (Untold' \cup Debris' \cup Overridden') \subseteq ready' \cup late'
    BY <1>1, <1>3, <1>5, <1>7, <1>8, <2>1 DEF WithDiscipline, ReadyInv, Settled
  <2> QED
    BY <1>1, <1>3, <2>2, <2>3, <2>4, RunSettles
<1> QED
  BY <1>4, <1>6, <1>9 DEF WithDiscipline

LEMMA MountFailsIsDisciplined ==
  ASSUME IInv, WithDiscipline, NEW p \in Plugins, MountFails(p)
  PROVE  WithDiscipline'
<1>1. /\ Awaits(p) /\ Moves(p, "gone") /\ Unbound(p, made[p])
      /\ UNCHANGED <<state, recorded, displaced, made>>
  BY DEF MountFails, Awaits, Moves, application, footprint, refs
<1>2. stage'[p] = "gone" /\ \A q \in Plugins : q # p => stage'[q] = stage[q]
  BY <1>1, OnlyOneMoves DEF IInv
<1>3. /\ state \in Settled
      /\ \A q \in Plugins : ~Awaits(q)'
      /\ Untold = {p} \cup made[p] /\ Untold' = {}
      /\ bound[KeyOf[p]] = p
  BY <1>1, <1>2, WhileAwaiting, NoneUntoldThen DEF Awaits
<1>4. DisciplineInv'
  BY <1>1, DisciplineKept DEF IInv, WithDiscipline, Underway
<1>5. LeftParts \subseteq LeftParts' /\ Debris \subseteq Debris'
  BY <1>1, <1>2, DebrisStays DEF Awaits
<1>6. HeldInv'
  <2>1. \A q \in Plugins : IsMounted(q)' => IsMounted(q)
    BY <1>2 DEF IsMounted
  <2> QED
    BY <1>1, <1>3, <1>5, <2>1 DEF WithDiscipline, HeldInv
<1>7. /\ Gone(p, made[p]) = Untold /\ made[p] \in SUBSET Shared
  BY <1>3 DEF Gone, IInv, TypeOK
<1>8. /\ BoundObservers' \subseteq (BoundObservers \ Untold) \cup Overridden
      /\ BoundObservers \subseteq BoundObservers' \cup Untold
      /\ ready' = ready \ Untold /\ late' = late \ Untold
  BY <1>1, <1>7, ObserversLost
<1>9. /\ running \subseteq running' /\ running' \subseteq running \cup unstopped'
      /\ unstopped \subseteq unstopped'
  BY DEF MountFails
<1>10. Overridden' = Overridden /\ Exempt \subseteq Exempt' /\ unstopped' \subseteq Exempt'
  BY <1>1, <1>9 DEF Overridden, Exempt
<1>11. RunInv' /\ ReadyInv'
  <2>1. state = "started" =>
          /\ BoundObservers' \ (Untold' \cup Debris' \cup Overridden') \subseteq running'
          /\ running' \subseteq BoundObservers' \cup Exempt'
    BY <1>5, <1>8, <1>9, <1>10 DEF WithDiscipline, RunInv
  <2>2. state # "started" => running' \subseteq Exempt'
    BY <1>3, <1>9, <1>10 DEF WithDiscipline, RunInv, Settled
  <2>3. state # "created" =>
          BoundObservers' \ (Untold' \cup Debris' \cup Overridden') \subseteq ready' \cup late'
    BY <1>3, <1>5, <1>8, <1>10 DEF WithDiscipline, ReadyInv, Settled
  <2> QED
    BY <1>1, <1>3, <2>1, <2>2, <2>3, RunSettles
<1> QED
  BY <1>4, <1>6, <1>11 DEF WithDiscipline
\* The parts a teardown retracts are not those another mounted plugin nests.
LEMMA PartsAreItsOwn ==
  ASSUME IInv, NEW p \in Plugins, IsMounted(p), NEW q \in Plugins, IsMounted(q), q # p
  PROVE  Nested[q] \cap Parts(p) = {}
<1>1. ASSUME NEW s \in Nested[q], s \in Parts(p)
      PROVE  FALSE
  <2>1. Holders(s) = {p}
    BY <1>1, LastIsAlone DEF IInv
  <2>2. q \in Holders(s)
    BY DEF Holders
  <2> QED
    BY <2>1, <2>2
<1> QED
  BY <1>1

LEMMA TeardownIsDisciplined ==
  ASSUME IInv, WithDiscipline, NEW p \in Plugins, IsMounted(p), Teardown(p),
         UNCHANGED <<application, footprint>>,
         state \in Settled, \A q \in Plugins : q # p => stage[q] \notin Underway
  PROVE  WithDiscipline'
<1>1. /\ UNCHANGED <<state, pass, displaced, made, running, unstopped>>
      /\ recorded' = recorded \ Parts(p)
  BY WhatTeardownDoes DEF application, footprint
<1>2. \A q \in Plugins : ~Awaits(q)
  BY DEF Awaits, Underway, IsMounted
<1>3. ASSUME NEW v \in {"leaving", "gone"}, Moves(p, v)
      PROVE  /\ DisciplineInv' /\ HeldInv'
             /\ Untold = {} /\ Untold' = {}
             /\ Debris \subseteq Debris'
             /\ Overridden' = Overridden /\ Exempt' = Exempt
  <2>1. stage'[p] = v /\ \A q \in Plugins : q # p => stage'[q] = stage[q]
    BY <1>3, OnlyOneMoves DEF IInv
  <2>2. DisciplineInv'
    BY <1>1, <1>3, DisciplineKept DEF IInv, WithDiscipline, Underway
  <2>3. \A q \in Plugins : ~Awaits(q)'
    BY <1>2, <2>1 DEF Awaits
  <2>4. LeftParts \subseteq LeftParts' /\ Debris \subseteq Debris'
    BY <1>1, <2>1, DebrisStays DEF IsMounted
  <2>5. HeldInv'
    <3>1. ASSUME NEW q \in Plugins, IsMounted(q)'
          PROVE  Nested[q] \subseteq recorded' \cup LeftParts'
      <4>1. q # p /\ IsMounted(q)
        BY <2>1, <3>1 DEF IsMounted
      <4>2. Nested[q] \cap Parts(p) = {} /\ Nested[q] \subseteq recorded \cup LeftParts
        BY <4>1, PartsAreItsOwn DEF WithDiscipline, HeldInv
      <4> QED
        BY <1>1, <2>4, <4>2
    <3> QED
      BY <2>3, <3>1 DEF HeldInv
  <2>6. Overridden' = Overridden /\ Exempt' = Exempt
    BY <1>1 DEF Overridden, Exempt
  <2> QED
    BY <1>2, <2>2, <2>3, <2>4, <2>5, <2>6, NoneUntold, NoneUntoldThen
<1>4. ASSUME Moves(p, "leaving"), UNCHANGED <<bound, present, ready, late>>
      PROVE  WithDiscipline'
  <2>1. BoundObservers' = BoundObservers
    BY <1>4 DEF BoundObservers
  <2>2. RunInv'
    BY <1>1, <1>3, <1>4, <2>1 DEF WithDiscipline, RunInv
  <2>3. ReadyInv'
    BY <1>1, <1>3, <1>4, <2>1 DEF WithDiscipline, ReadyInv
  <2> QED
    BY <1>3, <1>4, <2>2, <2>3 DEF WithDiscipline
<1>5. ASSUME Moves(p, "gone"), Unbound(p, Parts(p)),
             ~(IsLive /\ Found(p) \cap Observing # {})
      PROVE  WithDiscipline'
  <2>1. Gone(p, Parts(p)) = Found(p) /\ Parts(p) \in SUBSET Shared
    BY KeysAssumption DEF Gone, Found, Parts
  <2>2. /\ BoundObservers' \subseteq (BoundObservers \ Found(p)) \cup Overridden
        /\ BoundObservers \subseteq BoundObservers' \cup Found(p)
        /\ ready' = ready \ Found(p) /\ late' = late \ Found(p)
    BY <1>5, <2>1, ObserversLost
  <2>3. state = "started" => BoundObservers \subseteq BoundObservers'
    BY <1>5, <2>2 DEF IsLive, BoundObservers
  <2>4. state = "started" =>
          /\ BoundObservers' \ (Untold' \cup Debris' \cup Overridden') \subseteq running'
          /\ running' \subseteq BoundObservers' \cup Exempt'
    BY <1>1, <1>3, <1>5, <2>2, <2>3 DEF WithDiscipline, RunInv
  <2>5. state # "started" => running' \subseteq Exempt'
    BY <1>1, <1>3, <1>5 DEF WithDiscipline, RunInv, Settled
  <2>6. state # "created" =>
          BoundObservers' \ (Untold' \cup Debris' \cup Overridden') \subseteq ready' \cup late'
    BY <1>3, <1>5, <2>2 DEF WithDiscipline, ReadyInv, Settled
  <2>7. RunInv' /\ ReadyInv'
    BY <1>1, <1>3, <1>5, <2>4, <2>5, <2>6, RunSettles
  <2> QED
    BY <1>3, <1>5, <2>7 DEF WithDiscipline
<1> QED
  BY <1>4, <1>5, WhatTeardownDoes

LEMMA UninstallIsDisciplined ==
  ASSUME Disciplined, IInv, WithDiscipline, NEW p \in Plugins, Uninstall(p)
  PROVE  WithDiscipline'
<1>1. state \in Settled /\ \A q \in Plugins : stage[q] \notin Underway
  BY DEF Uninstall, MayUninstall, Busy
<1> QED
  BY <1>1, TeardownIsDisciplined DEF Uninstall, IsMounted

LEMMA CommitFailsIsDisciplined ==
  ASSUME Disciplined, IInv, WithDiscipline, NEW p \in Plugins, CommitFails(p)
  PROVE  WithDiscipline'
<1>1. stage[p] = "committing" /\ \A q \in Plugins : q # p => stage[q] \notin Underway
  BY DEF CommitFails, MayRefuse
<1>2. state \in Settled
  BY <1>1, WhileMounting DEF WithDiscipline, Underway
<1> QED
  BY <1>1, <1>2, TeardownIsDisciplined DEF CommitFails, IsMounted

LEMMA RetractIsDisciplined ==
  ASSUME IInv, WithDiscipline, NEW p \in Plugins, Retract(p)
  PROVE  WithDiscipline'
<1> DEFINE parts == leaving[p] \cap Shared
<1>1. /\ stage[p] = "leaving" /\ Moves(p, "gone") /\ Unbound(p, parts)
      /\ UNCHANGED <<state, recorded, displaced, made>>
  BY DEF Retract, Moves, application, footprint, refs
<1>2. PICK left \in SUBSET (leaving[p] \cap running) : StopAllBut(leaving[p], left)
  BY DEF Retract
<1>3. stage'[p] = "gone" /\ \A q \in Plugins : q # p => stage'[q] = stage[q]
  BY <1>1, OnlyOneMoves DEF IInv
<1>4. state \in Settled /\ \A q \in Plugins : ~Awaits(q)
  BY <1>1 DEF WithDiscipline, DisciplineInv, Awaits, Underway
<1>5. \A q \in Plugins : ~Awaits(q)'
  BY <1>3, <1>4 DEF Awaits
<1>6. Untold = {} /\ Untold' = {}
  BY <1>4, <1>5, NoneUntold, NoneUntoldThen
<1>7. DisciplineInv'
  BY <1>1, DisciplineKept DEF IInv, WithDiscipline, Underway
<1>8. LeftParts \subseteq LeftParts' /\ Debris \subseteq Debris'
  BY <1>1, <1>3, DebrisStays
<1>9. HeldInv'
  <2>1. \A q \in Plugins : IsMounted(q)' => IsMounted(q)
    BY <1>3 DEF IsMounted
  <2> QED
    BY <1>1, <1>5, <1>8, <2>1 DEF WithDiscipline, HeldInv
<1>10. /\ BoundObservers' \subseteq (BoundObservers \ Gone(p, parts)) \cup Overridden
       /\ BoundObservers \subseteq BoundObservers' \cup Gone(p, parts)
       /\ ready' = ready \ Gone(p, parts) /\ late' = late \ Gone(p, parts)
  BY <1>1, ObserversLost
<1>11. Gone(p, parts) \subseteq leaving[p] \cup Overridden
  BY <1>1 DEF Gone, IInv, BindingInv, OwnInv
<1>12. BoundObservers' \cap leaving[p] \subseteq Overridden
  <2>1. leaving[p] \subseteq {p} \cup parts
    BY DEF IInv, BindingInv, OwnInv
  <2>2. parts \subseteq Gone(p, parts)
    BY DEF Gone
  <2>3. bound[KeyOf[p]] # p => p \notin BoundObservers
    BY KeysAssumption DEF BoundObservers, IInv, TypeOK
  <2>4. p \in BoundObservers' => p \in Overridden
    BY <1>10, <2>3 DEF Gone
  <2> QED
    BY <1>10, <2>1, <2>2, <2>4
<1> HIDE DEF parts
<1>13. /\ running \ leaving[p] \subseteq running' /\ running' \subseteq running
       /\ running' \cap leaving[p] \subseteq unstopped'
       /\ unstopped \subseteq unstopped'
  BY <1>2 DEF StopAllBut
<1>14. Overridden' = Overridden /\ Exempt \subseteq Exempt' /\ unstopped' \subseteq Exempt'
       /\ Overridden \subseteq Exempt'
  BY <1>1, <1>13 DEF Overridden, Exempt
<1>15. RunInv' /\ ReadyInv'
  <2>1. state = "started" =>
          /\ BoundObservers' \ (Untold' \cup Debris' \cup Overridden') \subseteq running'
          /\ running' \subseteq BoundObservers' \cup Exempt'
    BY <1>6, <1>8, <1>10, <1>11, <1>12, <1>13, <1>14 DEF WithDiscipline, RunInv
  <2>2. state # "started" => running' \subseteq Exempt'
    BY <1>4, <1>13, <1>14 DEF WithDiscipline, RunInv, Settled
  <2>3. state # "created" =>
          BoundObservers' \ (Untold' \cup Debris' \cup Overridden') \subseteq ready' \cup late'
    BY <1>4, <1>6, <1>8, <1>10, <1>14 DEF WithDiscipline, ReadyInv, Settled
  <2> QED
    BY <1>1, <1>4, <1>6, <2>1, <2>2, <2>3, RunSettles
<1> QED
  BY <1>7, <1>9, <1>15 DEF WithDiscipline

\* The passes find mounts and retractions as they are, and nobody awaiting.
LEMMA PassesMeetNobody ==
  ASSUME IInv, WithDiscipline, UNCHANGED <<context, stage, footprint, refs>>,
         \A q \in Plugins : stage[q] \notin Underway \cup {"leaving"}
  PROVE  /\ DisciplineInv' /\ HeldInv'
         /\ Untold = {} /\ Untold' = {}
         /\ Debris' = Debris /\ Overridden' = Overridden /\ BoundObservers' = BoundObservers
<1>1. UNCHANGED <<bound, present, stage, displaced, made, recorded>>
  BY DEF context, footprint, refs
<1>2. \A q \in Plugins : ~Awaits(q) /\ ~Awaits(q)'
  BY <1>1 DEF Awaits, Underway
<1>3. DisciplineInv'
  BY <1>1 DEF DisciplineInv, Underway
<1>4. HeldInv'
  BY <1>1, <1>2 DEF WithDiscipline, HeldInv, IsMounted, LeftParts, Broken
<1>5. Debris' = Debris /\ Overridden' = Overridden /\ BoundObservers' = BoundObservers
  BY <1>1 DEF Debris, LeftParts, Broken, Overridden, BoundObservers
<1> QED
  BY <1>2, <1>3, <1>4, <1>5, NoneUntold, NoneUntoldThen

LEMMA PassBeginsDisciplined ==
  ASSUME Disciplined, IInv, WithDiscipline, Initialize \/ StartUp \/ Stop
  PROVE  WithDiscipline'
<1>1. PICK next \in {"initializing", "starting", "stopping"} :
        /\ MoveTo(next)
        /\ next = "initializing" => state = "created"
        /\ next = "starting" => state \in {"initialized", "stopped"}
        /\ next = "stopping" => state \in {"started", "initialized"}
  BY DEF Initialize, StartUp, Stop
<1>2. /\ UNCHANGED <<context, stage, footprint, refs>>
      /\ UNCHANGED <<ready, running, late, unstopped>>
      /\ state' = next /\ pass' = BoundObservers
      /\ \A q \in Plugins : stage[q] \notin Underway \cup {"leaving"}
  BY <1>1 DEF MoveTo, MayMove, Busy, observers
<1>3. /\ DisciplineInv' /\ HeldInv'
      /\ Untold = {} /\ Untold' = {}
      /\ Debris' = Debris /\ Overridden' = Overridden /\ BoundObservers' = BoundObservers
  BY <1>2, PassesMeetNobody
<1>4. Exempt' = Exempt
  BY <1>2, <1>3 DEF Exempt
<1>5. RunInv'
  <2>1. next # "stopping" => running \subseteq Exempt
    BY <1>1 DEF WithDiscipline, RunInv
  <2>2. running \subseteq BoundObservers \cup Exempt
    BY DEF WithDiscipline, RunInv
  <2> QED
    BY <1>2, <1>3, <1>4, <2>1, <2>2 DEF RunInv
<1>6. ReadyInv'
  BY <1>1, <1>2, <1>3 DEF WithDiscipline, ReadyInv
<1> QED
  BY <1>3, <1>5, <1>6 DEF WithDiscipline

LEMMA PassEndsDisciplined ==
  ASSUME IInv, WithDiscipline, Initialized \/ Started \/ Stopped
  PROVE  WithDiscipline'
<1>1. /\ UNCHANGED <<context, stage, footprint, refs>>
      /\ state \in {"initializing", "starting", "stopping"}
  BY DEF Initialized, Started, Stopped, Arrive
<1>2. \A q \in Plugins : stage[q] \notin Underway \cup {"leaving"}
  BY <1>1, WhileAPassRuns DEF WithDiscipline, Settled
<1>3. /\ DisciplineInv' /\ HeldInv'
      /\ Untold = {} /\ Untold' = {}
      /\ Debris' = Debris /\ Overridden' = Overridden /\ BoundObservers' = BoundObservers
      /\ pass = BoundObservers
  BY <1>1, <1>2, PassesMeetNobody DEF WithDiscipline, RunInv
<1>4. CASE Initialized
  <2>1. /\ state = "initializing" /\ state' = "initialized"
        /\ UNCHANGED <<running, late, unstopped>>
        /\ ready' = ready \cup BoundObservers
    BY <1>3, <1>4 DEF Initialized, Arrive
  <2>2. Exempt' = Exempt
    BY <1>3, <2>1 DEF Exempt
  <2>3. RunInv'
    BY <1>3, <2>1, <2>2 DEF WithDiscipline, RunInv
  <2>4. ReadyInv'
    BY <1>3, <2>1 DEF ReadyInv
  <2> QED
    BY <1>3, <2>3, <2>4 DEF WithDiscipline
<1>5. CASE Started
  <2>1. /\ state = "starting" /\ state' = "started"
        /\ UNCHANGED <<ready, late, unstopped>>
        /\ running' = running \cup BoundObservers
    BY <1>3, <1>5 DEF Started, Arrive
  <2>2. Exempt' = Exempt
    BY <1>3, <2>1 DEF Exempt
  <2>3. RunInv'
    BY <1>3, <2>1, <2>2 DEF WithDiscipline, RunInv
  <2>4. ReadyInv'
    BY <1>3, <2>1 DEF WithDiscipline, ReadyInv
  <2> QED
    BY <1>3, <2>3, <2>4 DEF WithDiscipline
<1>6. CASE Stopped
  <2>1. /\ state = "stopping" /\ state' = "stopped"
        /\ UNCHANGED <<ready, late>>
        /\ unstopped' = unstopped
        /\ running' = running \ (BoundObservers \ unstopped)
    BY <1>3, <1>6 DEF Stopped, Arrive, StopAllBut
  <2>2. Exempt' = Exempt /\ unstopped \subseteq Exempt
    BY <1>3, <2>1 DEF Exempt
  <2>3. RunInv'
    BY <1>3, <2>1, <2>2 DEF WithDiscipline, RunInv
  <2>4. ReadyInv'
    BY <1>3, <2>1 DEF WithDiscipline, ReadyInv
  <2> QED
    BY <1>3, <2>3, <2>4 DEF WithDiscipline
<1> QED
  BY <1>4, <1>5, <1>6
-----------------------------------------------------------------------------
(* What holds if callers are disciplined *)

LEMMA InitIsDisciplined == Init => WithDiscipline
<1> SUFFICES ASSUME Init PROVE WithDiscipline
  OBVIOUS
<1>1. \A p \in Plugins : stage[p] = "out"
  BY DEF Init
<1>2. DisciplineInv /\ HeldInv
  BY <1>1 DEF DisciplineInv, HeldInv, Underway, IsMounted, Awaits
<1>3. RunInv /\ ReadyInv
  BY DEF Init, RunInv, ReadyInv
<1> QED
  BY <1>2, <1>3 DEF WithDiscipline

LEMMA StutterIsDisciplined ==
  ASSUME WithDiscipline, UNCHANGED vars
  PROVE  WithDiscipline'
<1>1. /\ UNCHANGED <<application, context, observers, displaced, made, stage>>
      /\ UNCHANGED <<state, bound, recorded>>
  BY DEF vars, application, context, footprint, refs
<1>2. DisciplineInv'
  BY <1>1 DEF WithDiscipline, DisciplineInv
<1>3. \A q \in Plugins : (Awaits(q)' <=> Awaits(q)) /\ (IsMounted(q)' => IsMounted(q))
  BY <1>1 DEF Awaits, IsMounted
<1>4. LeftParts \subseteq LeftParts' /\ Debris \subseteq Debris'
  BY <1>1, DebrisStays
<1>5. HeldInv'
  BY <1>1, <1>3, <1>4, HeldKept DEF WithDiscipline
<1>6. Untold' = Untold
  BY <1>1, <1>3 DEF Untold
<1>7. RunInv' /\ ReadyInv'
  BY <1>1, <1>4, <1>6, RunKept DEF WithDiscipline
<1> QED
  BY <1>2, <1>5, <1>7 DEF WithDiscipline

LEMMA NextIsDisciplined ==
  ASSUME Disciplined
  PROVE  IInv /\ WithDiscipline /\ [Next]_vars => WithDiscipline'
<1> SUFFICES ASSUME IInv, WithDiscipline, [Next]_vars PROVE WithDiscipline'
  OBVIOUS
<1>1. ASSUME NEW p \in Plugins, NEW allow \in BOOLEAN, Load(p, allow) PROVE WithDiscipline'
  BY <1>1, LoadIsDisciplined
<1>2. ASSUME NEW p \in Plugins, Imported(p) PROVE WithDiscipline'
  BY <1>2, ImportedIsDisciplined
<1>3. ASSUME NEW p \in Plugins, Reject(p) PROVE WithDiscipline'
  BY <1>3, RejectIsDisciplined
<1>4. ASSUME NEW p \in Plugins, MountThrows(p) PROVE WithDiscipline'
  BY <1>4, MountThrowsIsDisciplined
<1>5. ASSUME NEW p \in Plugins, Mount(p) PROVE WithDiscipline'
  BY <1>5, MountIsDisciplined
<1>6. ASSUME NEW p \in Plugins, Mounted(p) PROVE WithDiscipline'
  BY <1>6, MountedIsDisciplined
<1>7. ASSUME NEW p \in Plugins, MountFails(p) PROVE WithDiscipline'
  BY <1>7, MountFailsIsDisciplined
<1>8. ASSUME NEW p \in Plugins, Commit(p) PROVE WithDiscipline'
  BY <1>8, CommitIsDisciplined
<1>9. ASSUME NEW p \in Plugins, CommitFails(p) PROVE WithDiscipline'
  BY <1>9, CommitFailsIsDisciplined
<1>10. ASSUME NEW p \in Plugins, Uninstall(p) PROVE WithDiscipline'
  BY <1>10, UninstallIsDisciplined
<1>11. ASSUME NEW p \in Plugins, Retract(p) PROVE WithDiscipline'
  BY <1>11, RetractIsDisciplined
<1>12. CASE Initialize \/ StartUp \/ Stop
  BY <1>12, PassBeginsDisciplined
<1>13. CASE Initialized \/ Started \/ Stopped
  BY <1>13, PassEndsDisciplined
<1>14. CASE UNCHANGED vars
  BY <1>14, StutterIsDisciplined
<1> QED
  BY <1>1, <1>2, <1>3, <1>4, <1>5, <1>6, <1>7, <1>8, <1>9, <1>10, <1>11, <1>12, <1>13, <1>14
     DEF Next

LEMMA InductiveWithDiscipline ==
  ASSUME Disciplined
  PROVE  Spec => [](IInv /\ WithDiscipline)
<1>1. Init => IInv /\ WithDiscipline
  BY InitEstablishes, InitIsDisciplined
<1>2. IInv /\ WithDiscipline /\ [Next]_vars => (IInv /\ WithDiscipline)'
  BY NextKeeps, NextIsDisciplined
<1> QED
  BY <1>1, <1>2, PTL DEF Spec

\* A component stays bound for as long as a plugin that nests it is mounted,
\* whichever of them bound it: componentRefsFor counts a mounted plugin exactly
\* once, and neither what it counts nor what a mount that threw has left is unbound by
\* anybody else.
THEOREM SharedComponentsStayBound ==
  ASSUME Disciplined
  PROVE  Spec => []SharedStaysBound
<1>1. ASSUME IInv, WithDiscipline
      PROVE  SharedStaysBound
  <2> SUFFICES ASSUME NEW p \in Plugins, IsMounted(p), NEW s \in Nested[p]
               PROVE  s \in present
    BY DEF SharedStaysBound
  <2>1. s \in Shared /\ s \in recorded \cup LeftParts
    BY <1>1, KeysAssumption DEF WithDiscipline, HeldInv
  <2>2. s \in LeftParts => \E q \in Plugins : s \in Claim(q)
    BY DEF LeftParts, Broken, Claim
  <2> QED
    BY <1>1, <2>1, <2>2 DEF IInv, PartsInv
<1> QED
  BY <1>1, InductiveWithDiscipline, PTL

\* A plugin that is mounted before, between or after the passes of the application
\* has its observers initialized, started and stopped with the application's own, but
\* for those that the property excepts.
THEOREM ObserversKeepUp ==
  ASSUME Disciplined
  PROVE  Spec => []ObserversFollowTheApplication
<1>1. ASSUME IInv, WithDiscipline
      PROVE  ObserversFollowTheApplication
  <2> SUFFICES ASSUME AtRest
               PROVE  /\ state = "started" =>
                           /\ BoundObservers \ (Debris \cup Overridden) \subseteq running
                           /\ running \subseteq BoundObservers \cup Overridden \cup unstopped
                      /\ state \in {"created", "initialized", "stopped"} =>
                           running \subseteq Overridden \cup unstopped
                      /\ state \in {"initialized", "started", "stopped"} =>
                           BoundObservers \ (Debris \cup Overridden) \subseteq ready \cup late
    BY DEF ObserversFollowTheApplication
  <2>1. \A q \in Plugins : ~Awaits(q)
    BY DEF AtRest, Awaits
  <2>2. Untold = {}
    BY <2>1, NoneUntold
  <2>3. Exempt = Overridden \cup unstopped
    BY DEF Exempt
  <2> QED
    BY <1>1, <2>2, <2>3 DEF WithDiscipline, RunInv, ReadyInv
<1> QED
  BY <1>1, InductiveWithDiscipline, PTL
=============================================================================
