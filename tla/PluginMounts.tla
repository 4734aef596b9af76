------------------------------ MODULE PluginMounts ------------------------------
(***************************************************************************)
(* Plugins mounted into, and retracted from, an Application that           *)
(* initializes, starts and stops.                                          *)
(*                                                                         *)
(* A plugin binds one key of its own and the components it nests; a nested *)
(* component is bound by whichever plugin mounts it first and shared by    *)
(* the others.  The key stands for all a plugin binds for itself: its      *)
(* component's binding, the first it makes, and then its contributions.    *)
(* A binding is named by who made it, and what a mount that threw has left *)
(* is debris: bound, counted by nobody, and there to stay.  An action is   *)
(* what runs between two awaits: the import and the wait for the mount     *)
(* lock, the notification of a plugin's observers, the refresh of the      *)
(* servers' surfaces, and each of the application's passes.                *)
(***************************************************************************)
EXTENDS Naturals, Sequences, FiniteSets

CONSTANTS
  Plugins,
  Shared,       \* components that plugins nest
  Keys,         \* the DI keys plugins bind
  KeyOf,        \* [Plugins -> Keys]
  Nested,       \* [Plugins -> SUBSET Shared]
  Observing,    \* the plugins and components whose binding is a LifeCycleObserver
  AppKeys,      \* the keys the application itself binds
  Disciplined,  \* callers wait for one kind of operation before another
  App,          \* the application as a binder
  Nobody        \* no binder

ASSUME KeysAssumption ==
  /\ KeyOf \in [Plugins -> Keys]
  /\ Nested \in [Plugins -> SUBSET Shared]
  /\ AppKeys \subseteq Keys
  /\ Observing \subseteq Plugins \cup Shared
  /\ Plugins \cap Shared = {}
ASSUME FiniteAssumption == IsFiniteSet(Plugins)
ASSUME DisciplinedAssumption == Disciplined \in BOOLEAN
ASSUME NobodyAssumption == App # Nobody /\ {App, Nobody} \cap Plugins = {}

VARIABLES
  (* Application *)
  state,       \* Application.state
  initialized, \* Application._initialized
  pass,        \* the observers the running pass has collected
  bound,       \* who bound each key
  present,     \* the nested components that are bound
  (* observers *)
  ready,       \* those whose init has run
  running,     \* those that were started and not stopped since
  late,        \* bound when the application had initialized, and owed no init
  unstopped,   \* those that a stop which failed has left running, for ever
  (* mounts *)
  stage,       \* where the mount of a plugin is
  owners,      \* MountContext.owners: the keys bound when it was called
  allowed,     \* the plugins loaded with allowOverride for their key
  seen,        \* the nested components bound when it was called
  queue,       \* the chain of mountLocks
  displaced,   \* whose binding its own replaced
  made,        \* the nested components that its diff contains
  leaving,     \* what its teardown has found to stop and unbind
  (* componentRefsFor *)
  count,       \* how many mounts reference a component
  recorded     \* the components whose bindings are in their entry

application == <<state, initialized, pass>>
context == <<bound, present>>
observers == <<ready, running, late, unstopped>>
footprint == <<owners, allowed, seen, displaced, made>>
refs == <<count, recorded>>
vars == <<application, context, observers, stage, queue, footprint, leaving, refs>>

States == {"created", "initializing", "initialized", "starting", "started",
           "stopping", "stopped"}
Stages == {"out", "loading", "initing", "starting", "committing", "in", "leaving", "gone",
           "broken"}

Init ==
  /\ state = "created"
  /\ initialized = FALSE
  /\ pass = {}
  /\ bound = [k \in Keys |-> IF k \in AppKeys THEN App ELSE Nobody]
  /\ present = {}
  /\ ready = {}
  /\ running = {}
  /\ late = {}
  /\ unstopped = {}
  /\ stage = [p \in Plugins |-> "out"]
  /\ owners = [p \in Plugins |-> {}]
  /\ allowed = {}
  /\ seen = [p \in Plugins |-> {}]
  /\ queue = <<>>
  /\ displaced = [p \in Plugins |-> Nobody]
  /\ made = [p \in Plugins |-> {}]
  /\ leaving = [p \in Plugins |-> {}]
  /\ count = [s \in Shared |-> 0]
  /\ recorded = {}

-----------------------------------------------------------------------------
(* What callers wait for when they are disciplined *)

Settled == {"initialized", "started", "stopped", "created"}
Underway == {"loading", "initing", "starting", "committing"}
Busy(kinds) == \E p \in Plugins : stage[p] \in kinds

MayMount == Disciplined => ~Busy({"leaving"}) /\ state \in Settled
MayUninstall == Disciplined => ~Busy(Underway) /\ state \in Settled
MayMove == Disciplined => ~Busy(Underway \cup {"leaving"})

\* A refresh fails for nobody else's mount.
MayRefuse(p) ==
  Disciplined => \A q \in Plugins : stage[q] \in Underway => q = p

-----------------------------------------------------------------------------
(* Mounting *)

\* pluginRegistryFor and appOwnedContext, then the import: the mount joins the
\* chain of the lock when the import is done.
Load(p, allow) ==
  /\ stage[p] = "out"
  /\ MayMount
  /\ stage' = [stage EXCEPT ![p] = "loading"]
  /\ owners' = [owners EXCEPT ![p] = {k \in Keys : bound[k] # Nobody}]
  /\ allowed' = IF allow THEN allowed \cup {p} ELSE allowed
  /\ seen' = [seen EXCEPT ![p] = present]
  /\ UNCHANGED <<application, context, observers, queue, displaced, made, leaving, refs>>

\* The import succeeds and the mount queues for the lock, or it fails.
Imported(p) ==
  /\ stage[p] = "loading"
  /\ \A n \in DOMAIN queue : queue[n] # p
  /\ \/ queue' = Append(queue, p) /\ UNCHANGED stage
     \/ stage' = [stage EXCEPT ![p] = "gone"] /\ UNCHANGED queue
  /\ UNCHANGED <<application, context, observers, footprint, leaving, refs>>

HoldsLock(p) == queue # <<>> /\ Head(queue) = p

\* The diff contains a key that another owned when the mount was called.
Collides(p) ==
  \/ KeyOf[p] \in owners[p] /\ p \notin allowed
  \/ \E s \in Nested[p] \ present : s \in seen[p]

Owed == state \in {"initialized", "started"}

\* What the mount would bind that is an observer.
NewObservers(p) == ({p} \cup (Nested[p] \ present)) \cap Observing

\* Attribution: every component the plugin references is counted, and the
\* bindings of those in its diff are recorded with them.
CountIn(p, new) ==
  /\ count' = [s \in Shared |-> IF s \in Nested[p] THEN count[s] + 1 ELSE count[s]]
  /\ recorded' = recorded \cup new

\* Mutant of Released: a mount that ends does not release the lock.
NotReleased == queue

\* The lock passes to the next mount in the chain.
Released == Tail(queue)

\* The diff collides: it is rolled back at once.
Reject(p) ==
  /\ stage[p] = "loading"
  /\ HoldsLock(p)
  /\ Collides(p)
  /\ stage' = [stage EXCEPT ![p] = "gone"]
  /\ queue' = Released
  /\ UNCHANGED <<application, context, observers, footprint, leaving, refs>>

\* app.component() throws, and what it has bound by then stays: nothing, if the class
\* made no binding that could be added; or else its key, which is bound before its
\* constructor runs, and those of the components nobody has bound yet that it came to.
\* Nothing is counted and nobody is told.
MountThrows(p) ==
  /\ stage[p] = "loading"
  /\ HoldsLock(p)
  /\ queue' = Released
  /\ \/ /\ stage' = [stage EXCEPT ![p] = "gone"]
        /\ UNCHANGED <<context, displaced, made>>
     \/ \E left \in SUBSET (Nested[p] \ present) :
          /\ stage' = [stage EXCEPT ![p] = "broken"]
          /\ bound' = [bound EXCEPT ![KeyOf[p]] = p]
          /\ present' = present \cup left
          /\ displaced' = [displaced EXCEPT ![p] = bound[KeyOf[p]]]
          /\ made' = [made EXCEPT ![p] = left]
  /\ UNCHANGED <<application, observers, owners, allowed, seen, leaving, refs>>

\* app.component(): the plugin's key and the components nobody has bound yet
\* are bound.  When observers are owed an event the mount awaits them; past the
\* application's init, and with the application stopped, nobody owes them theirs.
Mount(p) ==
  LET new == Nested[p] \ present
      waits == Owed /\ NewObservers(p) # {}
  IN  /\ stage[p] = "loading"
      /\ HoldsLock(p)
      /\ ~Collides(p)
      /\ bound' = [bound EXCEPT ![KeyOf[p]] = p]
      /\ present' = present \cup new
      /\ displaced' = [displaced EXCEPT ![p] = bound[KeyOf[p]]]
      /\ made' = [made EXCEPT ![p] = new]
      /\ IF waits
         THEN /\ stage' = [stage EXCEPT ![p] =
                              IF state = "started" THEN "starting" ELSE "initing"]
              /\ UNCHANGED <<queue, refs>>
         ELSE /\ stage' = [stage EXCEPT ![p] = "committing"]
              /\ queue' = Released
              /\ CountIn(p, new)
      /\ late' = IF state = "created" \/ Owed THEN late ELSE late \cup NewObservers(p)
      /\ UNCHANGED <<application, ready, running, unstopped, owners, allowed, seen, leaving>>

\* The observers a mount that waits is notifying.
Told(p) == ({p} \cup made[p]) \cap Observing

\* Mutant of Notified: observers of an initialized application are started too.
NotifiedAll(p) ==
  /\ ready' = ready \cup Told(p)
  /\ running' = running \cup Told(p)

\* startObservers or initObservers, as the state was when the mount looked.
Notified(p) ==
  /\ ready' = ready \cup Told(p)
  /\ running' = IF stage[p] = "starting" THEN running \cup Told(p) ELSE running

Mounted(p) ==
  /\ stage[p] \in {"initing", "starting"}
  /\ Notified(p)
  /\ stage' = [stage EXCEPT ![p] = "committing"]
  /\ queue' = Released
  /\ CountIn(p, made[p])
  /\ UNCHANGED <<application, context, late, unstopped, footprint, leaving>>

\* revertOwned of a plugin's key: only its own binding, and what it displaced
\* comes back.
Reverted(p) ==
  IF bound[KeyOf[p]] = p
  THEN [bound EXCEPT ![KeyOf[p]] = displaced[p]]
  ELSE bound

\* The binding of a plugin, with those of some components, goes, and what is known of
\* its observers with it.
Unbound(p, parts) ==
  LET gone == (IF bound[KeyOf[p]] = p THEN {p} ELSE {}) \cup parts
  IN  /\ bound' = Reverted(p)
      /\ present' = present \ parts
      /\ ready' = ready \ gone
      /\ late' = late \ gone

\* An observer fails: those already started are stopped and the mount is rolled
\* back, its nested components included.  The stop may fail too, and leave some running.
MountFails(p) ==
  /\ stage[p] \in {"initing", "starting"}
  /\ Unbound(p, made[p])
  /\ \E left \in SUBSET (IF stage[p] = "starting" THEN Told(p) ELSE {}) :
       /\ running' = running \cup left
       /\ unstopped' = unstopped \cup left
  /\ stage' = [stage EXCEPT ![p] = "gone"]
  /\ queue' = Released
  /\ UNCHANGED <<application, footprint, leaving, refs>>

\* commitSurfaces: every server serves what was mounted.
Commit(p) ==
  /\ stage[p] = "committing"
  /\ stage' = [stage EXCEPT ![p] = "in"]
  /\ UNCHANGED <<application, context, observers, queue, footprint, leaving, refs>>

-----------------------------------------------------------------------------
(* Retracting *)

\* Mutant of Last: the component goes with the first mount that lets go of it.
LastOrNot(s) == TRUE

\* This mount is the last to reference the component.
Last(s) == count[s] = 1

IsLive == state \in {"started", "initialized"}

\* The teardown drops the plugin's references.  The observers it retracts are
\* stopped first, and awaited, while the application is live.
Teardown(p) ==
  LET parts == {s \in Nested[p] : Last(s)} \cap recorded
      found == (IF bound[KeyOf[p]] = p THEN {p} ELSE {}) \cup (parts \cap present)
  IN  /\ count' = [s \in Shared |-> IF s \in Nested[p] THEN count[s] - 1 ELSE count[s]]
      /\ recorded' = recorded \ parts
      /\ IF IsLive /\ found \cap Observing # {}
         THEN /\ stage' = [stage EXCEPT ![p] = "leaving"]
              /\ leaving' = [leaving EXCEPT ![p] = found]
              /\ UNCHANGED <<context, ready, late>>
         ELSE /\ stage' = [stage EXCEPT ![p] = "gone"]
              /\ Unbound(p, parts)
              /\ UNCHANGED leaving
      /\ UNCHANGED <<running, unstopped>>

\* uninstall()
Uninstall(p) ==
  /\ stage[p] = "in"
  /\ MayUninstall
  /\ Teardown(p)
  /\ UNCHANGED <<application, queue, footprint>>

\* A server cannot serve what was mounted: commitSurfaces runs the inverse.
CommitFails(p) ==
  /\ stage[p] = "committing"
  /\ MayRefuse(p)
  /\ Teardown(p)
  /\ UNCHANGED <<application, queue, footprint>>

\* A pass that stops observers ends at the first group that fails, and comes to none of
\* those after it.  An observer may share its name with one that was left running before.
StopAllBut(stopped, left) ==
  /\ unstopped' = unstopped \cup left
  /\ running' = running \ (stopped \ (unstopped \cup left))

\* Mutant of Retract: a stop() that throws leaves the bindings in place.
RetractUnlessThrows(p) ==
  /\ stage[p] = "leaving"
  /\ \E left \in SUBSET (leaving[p] \cap running) :
       /\ StopAllBut(leaving[p], left)
       /\ IF left = {} THEN Unbound(p, leaving[p] \cap Shared) ELSE UNCHANGED <<context, ready, late>>
  /\ stage' = [stage EXCEPT ![p] = "gone"]
  /\ leaving' = [leaving EXCEPT ![p] = {}]
  /\ UNCHANGED <<application, queue, footprint, refs>>

\* The observers have been stopped, or the stop has failed and left some of those that
\* ran to themselves: the bindings go.
Retract(p) ==
  /\ stage[p] = "leaving"
  /\ \E left \in SUBSET (leaving[p] \cap running) : StopAllBut(leaving[p], left)
  /\ Unbound(p, leaving[p] \cap Shared)
  /\ stage' = [stage EXCEPT ![p] = "gone"]
  /\ leaving' = [leaving EXCEPT ![p] = {}]
  /\ UNCHANGED <<application, queue, footprint, refs>>

-----------------------------------------------------------------------------
(* The application's own passes *)

\* The observers a pass collects, and finds again by key when it notifies.
BoundObservers ==
  ({p \in Plugins : bound[KeyOf[p]] = p} \cup present) \cap Observing

\* init(), start() and stop(): the state moves and the registry collects.
MoveTo(next) ==
  /\ MayMove
  /\ state' = next
  /\ pass' = BoundObservers
  /\ UNCHANGED <<initialized, context, observers, stage, queue, footprint, leaving, refs>>

Initialize == ~initialized /\ state = "created" /\ MoveTo("initializing")
StartUp == initialized /\ state \in {"initialized", "stopped"} /\ MoveTo("starting")
Stop == state \in {"started", "initialized"} /\ MoveTo("stopping")

\* The pass is over.
Arrive(next) ==
  /\ state' = next
  /\ pass' = {}
  /\ UNCHANGED <<context, stage, queue, footprint, leaving, refs>>

Initialized ==
  /\ state = "initializing"
  /\ ready' = ready \cup (pass \cap BoundObservers)
  /\ initialized' = TRUE
  /\ UNCHANGED <<running, late, unstopped>>
  /\ Arrive("initialized")

Started ==
  /\ state = "starting"
  /\ running' = running \cup (pass \cap BoundObservers)
  /\ UNCHANGED <<ready, late, unstopped, initialized>>
  /\ Arrive("started")

Stopped ==
  /\ state = "stopping"
  /\ StopAllBut(pass \cap BoundObservers, {})
  /\ UNCHANGED <<ready, late, initialized>>
  /\ Arrive("stopped")

Next ==
  \/ \E p \in Plugins :
       \/ (\E allow \in BOOLEAN : Load(p, allow))
       \/ Imported(p) \/ Reject(p) \/ MountThrows(p) \/ Mount(p)
       \/ Mounted(p) \/ MountFails(p)
       \/ Commit(p) \/ CommitFails(p) \/ Uninstall(p) \/ Retract(p)
  \/ Initialize \/ Initialized \/ StartUp \/ Started \/ Stop \/ Stopped

Spec == Init /\ [][Next]_vars

\* Imports, observers and surface refreshes end.
FairSpec ==
  /\ Spec
  /\ \A p \in Plugins :
       /\ WF_vars(Imported(p))
       /\ WF_vars(Reject(p) \/ MountThrows(p) \/ Mount(p))
       /\ WF_vars(Mounted(p) \/ MountFails(p))
       /\ WF_vars(Commit(p) \/ CommitFails(p))
       /\ WF_vars(Retract(p))

-----------------------------------------------------------------------------
(* Properties *)

\* Every variable keeps the shape its initial value has.
TypeOK ==
  /\ state \in States
  /\ initialized \in BOOLEAN
  /\ pass \subseteq Plugins \cup Shared
  /\ bound \in [Keys -> Plugins \cup {App, Nobody}]
  /\ present \subseteq Shared
  /\ ready \subseteq Plugins \cup Shared
  /\ running \subseteq Plugins \cup Shared
  /\ late \subseteq Plugins \cup Shared
  /\ unstopped \subseteq Plugins \cup Shared
  /\ stage \in [Plugins -> Stages]
  /\ owners \in [Plugins -> SUBSET Keys]
  /\ allowed \subseteq Plugins
  /\ seen \in [Plugins -> SUBSET Shared]
  /\ queue \in Seq(Plugins)
  /\ displaced \in [Plugins -> Plugins \cup {App, Nobody}]
  /\ made \in [Plugins -> SUBSET Shared]
  /\ leaving \in [Plugins -> SUBSET (Plugins \cup Shared)]
  /\ count \in [Shared -> 0 .. Cardinality(Plugins)]
  /\ recorded \subseteq Shared

IsMounted(p) == stage[p] \in {"committing", "in"}

\* If callers are disciplined, the components a mounted plugin nests stay bound
\* until it goes itself: not when the plugin that bound them is retracted, nor
\* when its mount is rolled back while this one waits (the refcounts of
\* componentRefsFor and the lock of withMountLock).
SharedStaysBound ==
  \A p \in Plugins : IsMounted(p) => Nested[p] \subseteq present

AtRest == \A p \in Plugins : stage[p] \in {"out", "in", "gone", "broken"}

\* The mounts that threw, and what they have left.
Broken == {p \in Plugins : stage[p] = "broken"}
LeftParts == UNION {made[p] : p \in Broken}
Debris == Broken \cup LeftParts

\* The plugins whose binding another's has replaced.
Overridden == {displaced[p] : p \in Plugins} \cap Plugins

Original(k) == IF k \in AppKeys THEN App ELSE Nobody

\* When the last mount has gone, or been refused, a key that no plugin took from
\* another is the application's again, and no nested component is bound; but what a
\* mount that threw has bound, key or component, it still has, and it alone
\* (rollback, buildTeardown and revertOwned; app.component in mountResolvedExclusive).
RetractionIsComplete ==
  AtRest /\ (\A p \in Plugins : stage[p] # "in") =>
    /\ \A k \in Keys :
         LET here == {p \in Plugins : KeyOf[p] = k}
         IN  here \cap Overridden = {} =>
               IF here \cap Broken = {} THEN bound[k] = Original(k)
                                       ELSE here \cap Broken = {bound[k]}
    /\ present = LeftParts

\* Whenever it was mounted, before, between or after the application's own passes, a
\* plugin's observers, and those of the components still shared, run while the
\* application is started, after their init unless nobody owed them one, and not
\* otherwise.  Excepted are, of what is bound, the debris of mounts that threw and
\* bindings that another plugin has replaced for a while; and of what runs, such
\* bindings and what a failed stop has left running.
ObserversFollowTheApplication ==
  AtRest =>
    /\ state = "started" => /\ BoundObservers \ (Debris \cup Overridden) \subseteq running
                            /\ running \subseteq BoundObservers \cup Overridden \cup unstopped
    /\ state \in {"created", "initialized", "stopped"} =>
         running \subseteq Overridden \cup unstopped
    /\ state \in {"initialized", "started", "stopped"} =>
         BoundObservers \ (Debris \cup Overridden) \subseteq ready \cup late

\* Every mount and every retraction that was asked for comes to its end.
OperationsEnd == \A p \in Plugins : stage[p] \notin {"out", "in", "gone", "broken"} ~>
                                      stage[p] \in {"in", "gone", "broken"}

\* What loadPlugin says (load-plugin.ts:137): a re-bind of a key that is already
\* owned throws unless it is listed in allowOverride.
NoSilentOverride ==
  \A p \in Plugins :
    IsMounted(p) /\ displaced[p] # Nobody => p \in allowed
=============================================================================
