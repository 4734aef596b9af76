---------------------------- MODULE ResumableStream ----------------------------
(***************************************************************************)
(* One `resumable:` stream of the REST server and the client that reads    *)
(* it.  The producer is drained by the stream, into a ring of frames;      *)
(* connections attach to it and detach.  The client reconnects with the    *)
(* last id it has seen, and a connection that is lost takes the frames on  *)
(* the wire with it; the server notices the loss some time later.          *)
(***************************************************************************)
EXTENDS Naturals, Sequences, FiniteSets

CONSTANTS
  MaxFrames,     \* frames the producer makes at most (a bound)
  MaxEvents,     \* ResumableOptions.maxEvents
  HighWater,     \* unread frames at which a transport reports full
  MaxConnections \* connections the client makes at most (a bound)

ASSUME MaxFramesAssumption == MaxFrames \in Nat
ASSUME MaxEventsAssumption == MaxEvents \in Nat \ {0}
ASSUME HighWaterAssumption == HighWater \in Nat \ {0}
ASSUME MaxConnectionsAssumption == MaxConnections \in Nat \ {0}

NoSink == 0
Connections == 1 .. MaxConnections

VARIABLES
  (* ResumableStream *)
  seq,       \* the last frame pushed
  oldest,    \* oldestSeq
  sink,      \* the attached connection, or NoSink
  sinkFull,
  grace,     \* graceTimer is set
  done,
  disposed,
  pump,      \* "asking" the producer, "waiting" for the sink, or "over"
  (* the connections *)
  current,   \* the client's latest: it has made 1 .. current
  asked,     \* resumes that have not reached the stream, with their Last-Event-ID
  cut,       \* those that are lost
  noticed,   \* those whose loss the server knows of: their signal is aborted
  closed,    \* those the server has ended
  wire,      \* frames written to each and not read
  (* the client *)
  got,       \* the frames read
  refused    \* a resume was answered with 409

ring == <<seq, oldest>>
connections == <<current, asked, cut, noticed>>
vars == <<ring, sink, sinkFull, grace, done, disposed, pump,
          connections, closed, wire, got, refused>>

\* sendStream: the first connection is attached before the pump runs; it may
\* have been lost, and its loss noticed, before the producer's first item came.
Init ==
  /\ seq = 0
  /\ oldest = 1
  /\ noticed \in {{}, {1}}
  /\ cut = noticed
  /\ sink = IF 1 \in noticed THEN NoSink ELSE 1
  /\ sinkFull = FALSE
  /\ grace = (1 \in noticed)
  /\ done = FALSE
  /\ disposed = FALSE
  /\ pump = "asking"
  /\ current = 1
  /\ asked = {}
  /\ closed = {}
  /\ wire = [c \in Connections |-> <<>>]
  /\ got = <<>>
  /\ refused = FALSE

-----------------------------------------------------------------------------
(* The stream *)

\* sink.write: what is written to a lost connection reaches nobody.
Write(c, frames) ==
  wire' = IF c \in cut THEN wire ELSE [wire EXCEPT ![c] = @ \o frames]

\* What write answers; a lost connection may still report room or not.
ReportsFull(c) == IF c \in cut THEN BOOLEAN ELSE {Len(wire'[c]) >= HighWater}

\* The ring forgets its oldest frame when one more overflows it.
Trimmed == IF seq + 2 - oldest > MaxEvents THEN oldest + 1 ELSE oldest

\* push: a frame goes into the ring, and to the sink if there is one.
Push ==
  /\ seq' = seq + 1
  /\ oldest' = Trimmed
  /\ IF sink = NoSink THEN UNCHANGED wire ELSE Write(sink, <<seq + 1>>)

\* Mutant of MustWait: the pump does not look at its sink.
MustWaitNever(full) == FALSE

\* whileSinkFull: the sink was found full, now or when it was attached.
MustWait(full) == sink # NoSink /\ (sinkFull \/ full)

\* iterator.next() gives an item; the pump waits for its sink or asks for more.
Produce ==
  /\ pump = "asking"
  /\ ~disposed
  /\ seq < MaxFrames
  /\ Push
  /\ \E full \in (IF sink = NoSink THEN {FALSE} ELSE ReportsFull(sink)) :
       pump' = IF MustWait(full) THEN "waiting" ELSE "asking"
  /\ sinkFull' = FALSE
  /\ UNCHANGED <<sink, grace, done, disposed, connections, closed, got, refused>>

\* sink.drain() resolves: everything was read, or the connection is gone.
Drain ==
  /\ pump = "waiting"
  /\ wire[sink] = <<>> /\ (sink \in cut => sink \in noticed)
  /\ pump' = "asking"
  /\ UNCHANGED <<ring, sink, sinkFull, grace, done, disposed, connections, closed, wire, got, refused>>

\* releaseWait: a wait for the sink is over.
Released == IF pump = "waiting" THEN "asking" ELSE pump

\* dispose: the sink is closed, the window's timer cleared.
Dispose ==
  /\ disposed' = TRUE
  /\ grace' = FALSE
  /\ sink' = NoSink
  /\ closed' = closed \cup ({sink} \ {NoSink})

\* The end of the pump: a reader that is attached is let go at once, and the
\* tail is kept for the window when there is none.
PumpEnds ==
  /\ done' = TRUE
  /\ pump' = "over"
  /\ IF sink # NoSink THEN Dispose ELSE UNCHANGED <<disposed, grace, sink, closed>>

\* The iterator is exhausted, or fails and leaves an error frame.
Finish ==
  /\ pump = "asking"
  /\ ~disposed
  /\ \/ UNCHANGED <<ring, wire>>
     \/ seq < MaxFrames /\ Push
  /\ PumpEnds
  /\ UNCHANGED <<sinkFull, connections, got, refused>>

\* The producer of a disposed stream was told to return.
Stop ==
  /\ pump = "asking"
  /\ disposed
  /\ pump' = "over"
  /\ done' = TRUE
  /\ UNCHANGED <<ring, sink, sinkFull, grace, disposed, connections, closed, wire, got, refused>>

\* The window has closed on a stream nobody has come back to.
WindowCloses ==
  /\ grace
  /\ Dispose
  /\ pump' = Released
  /\ UNCHANGED <<ring, sinkFull, done, connections, wire, got, refused>>

\* disposeAll, when the server stops.
ServerStops ==
  /\ ~disposed
  /\ Dispose
  /\ pump' = Released
  /\ UNCHANGED <<ring, sinkFull, done, connections, wire, got, refused>>

\* Mutant of CanResume: a position whose next frame was just trimmed passes.
CanResumeLate(after) == ~disposed /\ after + 2 >= oldest

CanResume(after) == ~disposed /\ after + 1 >= oldest

\* The frames from one on.
Frames(first) == [n \in 1 .. seq + 1 - first |-> first - 1 + n]

\* Mutant of Missed: the last frame the client saw is replayed.
MissedAndLast(after) == Frames(IF after < oldest THEN oldest ELSE after)

\* The frames of the ring after a position.
Missed(after) == Frames(IF after < oldest THEN oldest ELSE after + 1)

\* Mutant of Attach: a connection that is gone already is attached as any other.
AttachAsLive(c, after) ==
  /\ Write(c, Missed(after))
  /\ \E full \in (IF Missed(after) = <<>> THEN {FALSE} ELSE ReportsFull(c)) :
       sinkFull' = (~done /\ full)
  /\ pump' = Released
  /\ IF done
     THEN /\ sink' = NoSink /\ disposed' = TRUE /\ grace' = FALSE
          /\ closed' = closed \cup {c}
     ELSE /\ sink' = c /\ grace' = FALSE
          /\ UNCHANGED <<disposed, closed>>

\* attach: the connection takes the place of any other and is sent what it
\* missed.  A stream that is done then lets it go; a connection whose signal is
\* aborted already is detached, and the window starts.
Attach(c, after) ==
  /\ Write(c, Missed(after))
  /\ \E full \in (IF Missed(after) = <<>> THEN {FALSE} ELSE ReportsFull(c)) :
       sinkFull' = (~done /\ c \notin noticed /\ full)
  /\ pump' = Released
  /\ IF done
     THEN /\ sink' = NoSink /\ disposed' = TRUE /\ grace' = FALSE
          /\ closed' = closed \cup {c}
     ELSE /\ sink' = IF c \in noticed THEN NoSink ELSE c
          /\ grace' = (c \in noticed)
          /\ UNCHANGED <<disposed, closed>>

Asking == {request.by : request \in asked}

\* The resume gate and sendResumedStream: the stream is rejoined, or a 409.
\* Requests may overtake each other on their way through the hooks before it.
Resume(c) == \E request \in asked :
  /\ request.by = c
  /\ asked' = asked \ {request}
  /\ IF CanResume(request.after)
     THEN Attach(c, request.after) /\ UNCHANGED refused
     ELSE /\ refused' = (refused \/ c \notin cut)
          /\ closed' = closed \cup {c}
          /\ UNCHANGED <<wire, sinkFull, pump, sink, grace, disposed>>
  /\ UNCHANGED <<ring, done, current, cut, noticed, got>>

\* Mutant of Detaches: the late close of a replaced connection counts.
DetachesAny(c) == sink # NoSink

\* Only the close of the attached connection detaches.
Detaches(c) == c = sink

\* The server learns that a connection is lost: its signal aborts, and the
\* stream, if it was attached to it, waits for the window.
Notice(c) ==
  /\ c \in cut \ noticed
  /\ noticed' = noticed \cup {c}
  /\ IF c \notin Asking /\ Detaches(c)
     THEN /\ sink' = NoSink
          /\ sinkFull' = FALSE
          /\ pump' = Released
          /\ grace' = ~disposed
     ELSE UNCHANGED <<sink, sinkFull, pump, grace>>
  /\ UNCHANGED <<ring, done, disposed, current, asked, cut, closed, wire, got, refused>>

-----------------------------------------------------------------------------
(* The client, which has one connection at a time *)

\* It reads the next frame.
Receive ==
  /\ current \notin cut
  /\ wire[current] # <<>>
  /\ got' = Append(got, Head(wire[current]))
  /\ wire' = [wire EXCEPT ![current] = Tail(@)]
  /\ UNCHANGED <<ring, sink, sinkFull, grace, done, disposed, pump, connections, closed, refused>>

\* Its connection is lost, with everything on the wire.
Lose ==
  /\ current \notin cut
  /\ cut' = cut \cup {current}
  /\ wire' = [wire EXCEPT ![current] = <<>>]
  /\ UNCHANGED <<ring, sink, sinkFull, grace, done, disposed, pump, current, asked, noticed,
                 closed, got, refused>>

\* It reconnects, with the id it saw last; without one it would start anew.
Reconnect ==
  /\ current \in cut
  /\ got # <<>>
  /\ current < MaxConnections
  /\ current' = current + 1
  /\ asked' = asked \cup {[by |-> current + 1, after |-> Len(got)]}
  /\ UNCHANGED <<ring, sink, sinkFull, grace, done, disposed, pump, cut, noticed, closed,
                 wire, got, refused>>

Next ==
  \/ Produce \/ Drain \/ Finish \/ Stop \/ WindowCloses \/ ServerStops
  \/ Receive \/ Lose \/ Reconnect
  \/ \E c \in Connections : Resume(c) \/ Notice(c)

Spec == Init /\ [][Next]_vars

\* Timers fire, requests arrive, a live client reads and the server learns in
\* the end that a connection is lost.  The producer may hang or go on for ever.
FairSpec ==
  /\ Spec
  /\ WF_vars(Drain)
  /\ WF_vars(WindowCloses)
  /\ WF_vars(Receive)
  /\ \A c \in Connections : WF_vars(Resume(c)) /\ WF_vars(Notice(c))

-----------------------------------------------------------------------------
(* Properties *)

\* Every variable keeps the shape its initial value has, and the ring its bound.
TypeOK ==
  /\ seq \in 0 .. MaxFrames
  /\ oldest \in 1 .. MaxFrames + 1
  /\ seq < oldest + MaxEvents
  /\ sink \in Connections \cup {NoSink}
  /\ {sinkFull, grace, done, disposed, refused} \subseteq BOOLEAN
  /\ pump \in {"asking", "waiting", "over"}
  /\ current \in Connections
  /\ asked \subseteq [by : Connections, after : 0 .. MaxFrames]
  /\ cut \cup noticed \cup closed \subseteq Connections
  /\ wire \in [Connections -> Seq(1 .. MaxFrames)]
  /\ got \in Seq(1 .. MaxFrames)

\* However often the client loses its connection and resumes, and whatever was
\* on the wire, it reads every frame once and in order: a resume that would
\* leave a hole is refused (canResume, the replay of attach, the recheck of
\* sendResumedStream).
EveryFrameOnce == \A n \in DOMAIN got : got[n] = n

\* A reader that does not read stops the producer: what its transport holds is
\* bounded by its own limit and by one replay of the ring, not by what the
\* producer makes (whileSinkFull).
ReaderPacesTheProducer ==
  sink # NoSink => Len(wire[sink]) <= HighWater + MaxEvents

\* A stream that every client has left, as far as the server knows, is disposed
\* of unless one comes back: its producer does not run for nobody (the window
\* that detach starts, also for a connection that was gone when it attached).
NoReaderNoStream ==
  (1 .. current \subseteq noticed) ~> (disposed \/ current \notin noticed)

\* If the producer goes on, and ends, a client that stays connected is served to
\* the end of the stream, or told that it cannot be, when no request of an earlier
\* connection of its own is still under way: the close of such a connection does
\* not cut it off (detach's comparison of sinks).
ReadersAreServed ==
  WF_vars(Produce \/ Finish) =>
  \A c \in Connections :
    ((c = sink \/ c \in Asking) /\ \A d \in Asking : d >= c) ~> c \in closed \cup cut
=============================================================================
