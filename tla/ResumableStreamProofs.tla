-------------------------- MODULE ResumableStreamProofs --------------------------
(***************************************************************************)
(* What a reader of ResumableStream is given, for any number of frames and *)
(* connections and any size of the ring.                                   *)
(***************************************************************************)
EXTENDS ResumableStream, SequenceTheorems, TLAPS

-----------------------------------------------------------------------------
(* The inductive invariant *)

Frame == 1 .. MaxFrames
Request == [by : Connections, after : 0 .. MaxFrames]

\* The variables that tell what was sent and read, and those that do not.
ContentOK ==
  /\ seq \in 0 .. MaxFrames
  /\ oldest \in 1 .. MaxFrames + 1
  /\ seq < oldest + MaxEvents
  /\ sink \in Connections \cup {NoSink}
  /\ current \in Connections
  /\ asked \subseteq Request
  /\ cut \subseteq Connections
  /\ wire \in [Connections -> Seq(Frame)]
  /\ got \in Seq(Frame)

ControlOK ==
  /\ {sinkFull, grace, done, disposed, refused} \subseteq BOOLEAN
  /\ pump \in {"asking", "waiting", "over"}
  /\ noticed \cup closed \subseteq Connections

\* Nothing is ahead of the producer.
RingInv == oldest <= seq + 1 /\ Len(got) <= seq /\ sink <= current

\* Of a request under way, the latest connection's names what the client has read.
AskedInv ==
  \A r \in asked : /\ r.by <= current
                   /\ r.after <= seq
                   /\ r.by = current => r.after = Len(got)

\* Only the latest connection may have anything on it.
LostInv ==
  /\ \A c \in Connections : c < current => c \in cut
  /\ \A c \in Connections : c \in cut \/ c > current => wire[c] = <<>>

\* It has nothing on it before its request has been answered.
WaitingInv ==
  (\E r \in asked : r.by = current) => wire[current] = <<>> /\ sink # current

\* What it carries goes on where the client stands and, while it is the sink's, goes
\* as far as the producer does.
WireInv ==
  current \notin cut =>
    /\ Len(got) + Len(wire[current]) <= seq
    /\ sink = current => Len(got) + Len(wire[current]) = seq
    /\ \A n \in 1 .. Len(wire[current]) : wire[current][n] = Len(got) + n

ReaderInv == RingInv /\ AskedInv /\ LostInv /\ WaitingInv /\ WireInv

IInv == ContentOK /\ ControlOK /\ ReaderInv /\ EveryFrameOnce

LEMMA TypeParts == TypeOK <=> ContentOK /\ ControlOK
  BY DEF TypeOK, ContentOK, ControlOK, Frame, Request

-----------------------------------------------------------------------------
(* The steps, by what they do to the frames *)

Quiet ==
  /\ UNCHANGED <<seq, oldest, current, asked, cut, wire, got>>
  /\ sink' \in {sink, NoSink}

Pushes ==
  /\ seq < MaxFrames
  /\ Push
  /\ UNCHANGED <<current, asked, cut, got>>
  /\ sink' \in {sink, NoSink}

LEMMA Effects ==
  ASSUME [Next]_vars
  PROVE  Quiet \/ Pushes \/ Receive \/ Lose \/ Reconnect \/ \E c \in Connections : Resume(c)
  <1>1. CASE UNCHANGED vars
    BY <1>1 DEF vars, ring, connections, Quiet
  <1>2. CASE Produce
    BY <1>2 DEF Produce, Pushes, connections
  <1>3. CASE Drain \/ Stop
    BY <1>3 DEF Drain, Stop, Quiet, ring, connections
  <1>4. CASE WindowCloses \/ ServerStops
    BY <1>4 DEF WindowCloses, ServerStops, Dispose, Quiet, ring, connections
  <1>5. CASE Finish
    <2>1. sink' \in {sink, NoSink}
      BY <1>5 DEF Finish, PumpEnds, Dispose
    <2> QED
      BY <1>5, <2>1 DEF Finish, Quiet, Pushes, ring, connections
  <1>6. CASE \E c \in Connections : Notice(c)
    BY <1>6 DEF Notice, Quiet, ring
  <1> QED
    BY <1>1, <1>2, <1>3, <1>4, <1>5, <1>6 DEF Next

-----------------------------------------------------------------------------
(* The type of the flags *)

LEMMA WriteIsFull ==
  ASSUME NEW c \in Connections, ContentOK', NEW full \in ReportsFull(c)
  PROVE  full \in BOOLEAN
  <1>1. wire'[c] \in Seq(Frame)
    BY DEF ContentOK
  <1>2. Len(wire'[c]) \in Nat
    BY <1>1
  <1>3. (Len(wire'[c]) >= HighWater) \in BOOLEAN
    BY <1>2, HighWaterAssumption
  <1>4. CASE c \in cut
    BY <1>4 DEF ReportsFull
  <1>5. CASE c \notin cut
    BY <1>3, <1>5 DEF ReportsFull
  <1> QED
    BY <1>4, <1>5

LEMMA ControlTyped ==
  ASSUME ContentOK, ContentOK', ControlOK, [Next]_vars
  PROVE  ControlOK'
  <1> USE DEF ControlOK, ContentOK, Connections, NoSink
  <1>1. CASE UNCHANGED vars
    BY <1>1 DEF vars, connections
  <1>2. CASE Produce
    <2>1. pump' \in {"waiting", "asking"}
      BY <1>2, Zenon DEF Produce
    <2> QED
      BY <1>2, <2>1 DEF Produce, connections
  <1>3. CASE Drain \/ Stop
    BY <1>3 DEF Drain, Stop, connections
  <1>4. CASE WindowCloses \/ ServerStops
    BY <1>4 DEF WindowCloses, ServerStops, Dispose, Released, connections
  <1>5. CASE Finish
    BY <1>5 DEF Finish, PumpEnds, Dispose, connections
  <1>6. CASE \E c \in Connections : Notice(c)
    BY <1>6 DEF Notice, Released
  <1>7. CASE Receive \/ Lose \/ Reconnect
    BY <1>7 DEF Receive, Lose, Reconnect, connections
  <1>8. ASSUME NEW c \in Connections, Resume(c)
        PROVE  ControlOK'
    <2> PICK r \in asked : /\ r.by = c
                           /\ IF CanResume(r.after)
                              THEN Attach(c, r.after) /\ UNCHANGED refused
                              ELSE /\ refused' = (refused \/ c \notin cut)
                                   /\ closed' = closed \cup {c}
                                   /\ UNCHANGED <<wire, sinkFull, pump, sink, grace, disposed>>
                           /\ UNCHANGED <<ring, done, current, cut, noticed, got>>
      BY <1>8 DEF Resume
    <2>1. CASE CanResume(r.after)
      <3>1. sinkFull' \in BOOLEAN
        <4>1. CASE Missed(r.after) = <<>>
          BY <2>1, <4>1, Zenon DEF Attach
        <4>2. CASE Missed(r.after) # <<>>
          <5>1. PICK full \in ReportsFull(c) : sinkFull' = (~done /\ c \notin noticed /\ full)
            BY <2>1, <4>2, Zenon DEF Attach
          <5> QED
            BY <5>1, WriteIsFull, Zenon
        <4> QED
          BY <4>1, <4>2
      <3> QED
        <4>1. grace' \in BOOLEAN /\ disposed' \in BOOLEAN
          <5>1. (c \in noticed) \in BOOLEAN /\ disposed \in BOOLEAN
            OBVIOUS
          <5>2. CASE done
            BY <2>1, <5>2, Zenon DEF Attach
          <5>3. CASE ~done
            BY <2>1, <5>1, <5>3, Zenon DEF Attach
          <5> QED
            BY <5>2, <5>3
        <4>2. done' = done /\ refused' = refused /\ noticed' = noticed
          BY <2>1
        <4>3. done' \in BOOLEAN /\ refused' \in BOOLEAN
          BY <4>2
        <4>4. pump' \in {"asking", "waiting", "over"} /\ closed' \subseteq Connections
          BY <2>1 DEF Attach, Released
        <4> QED
          BY <3>1, <4>1, <4>2, <4>3, <4>4
    <2>2. CASE ~CanResume(r.after)
      BY <2>2
    <2> QED
      BY <2>1, <2>2
  <1> QED
    BY <1>1, <1>2, <1>3, <1>4, <1>5, <1>6, <1>7, <1>8 DEF Next

-----------------------------------------------------------------------------
(* What each kind of step preserves *)

LEMMA QuietSteps ==
  ASSUME ContentOK, ReaderInv, EveryFrameOnce, Quiet
  PROVE  ContentOK' /\ ReaderInv' /\ EveryFrameOnce'
  <1> sink' \in Connections \cup {NoSink} /\ (sink' = sink \/ sink' = 0)
    BY DEF Quiet, ContentOK, NoSink
  <1>1. ContentOK'
    BY DEF ContentOK, Quiet
  <1>2. RingInv' /\ AskedInv' /\ LostInv'
    BY DEF ReaderInv, RingInv, AskedInv, LostInv, Quiet, ContentOK, Connections, NoSink
  <1>3. WaitingInv' /\ WireInv'
    BY DEF ReaderInv, WaitingInv, WireInv, Quiet, ContentOK, Connections, NoSink
  <1> QED
    BY <1>1, <1>2, <1>3 DEF ReaderInv, EveryFrameOnce, Quiet

\* A frame that is pushed goes on the wire of the latest connection or on none.
LEMMA PushedFrame ==
  ASSUME ContentOK, ReaderInv, Pushes
  PROVE  /\ \A c \in Connections : c # current \/ c # sink \/ c \in cut => wire'[c] = wire[c]
         /\ wire' \in [Connections -> Seq(Frame)]
         /\ sink = current /\ current \notin cut =>
              wire'[current] = Append(wire[current], seq + 1)
  <1>1. seq + 1 \in Frame
    BY MaxFramesAssumption DEF ContentOK, Pushes, Frame
  <1>2. CASE sink = NoSink \/ sink \in cut
    BY <1>2, MaxConnectionsAssumption DEF Pushes, Push, Write, ContentOK, Connections, NoSink
  <1>3. CASE sink # NoSink /\ sink \notin cut
    <2>1. sink = current
      BY <1>3, MaxConnectionsAssumption DEF ContentOK, ReaderInv, RingInv, LostInv, Connections, NoSink
    <2>2. wire' = [wire EXCEPT ![current] = @ \o <<seq + 1>>]
      BY <1>3, <2>1 DEF Pushes, Push, Write
    <2>3. wire[current] \in Seq(Frame) /\ current \in Connections
      BY DEF ContentOK
    <2>4. wire[current] \o <<seq + 1>> = Append(wire[current], seq + 1)
      BY <2>3, <1>1, AppendIsConcat
    <2>5. Append(wire[current], seq + 1) \in Seq(Frame)
      BY <2>3, <1>1
    <2> QED
      BY <1>3, <2>1, <2>2, <2>3, <2>4, <2>5 DEF ContentOK
  <1> QED
    BY <1>2, <1>3

LEMMA PushSteps ==
  ASSUME ContentOK, ReaderInv, EveryFrameOnce, Pushes
  PROVE  ContentOK' /\ ReaderInv' /\ EveryFrameOnce'
  <1> USE MaxFramesAssumption, MaxEventsAssumption
  <1>1. seq' = seq + 1 /\ oldest' = Trimmed
    BY DEF Pushes, Push
  <1>2. UNCHANGED <<current, asked, cut, got>> /\ sink' \in {sink, NoSink}
    BY DEF Pushes
  <1>3. seq \in Nat /\ oldest \in Nat /\ seq < MaxFrames /\ oldest <= seq + 1
    BY DEF ContentOK, Pushes, ReaderInv, RingInv
  <1>4. ContentOK'
    <2>1. /\ oldest' \in 1 .. MaxFrames + 1
          /\ seq' < oldest' + MaxEvents
      BY <1>1, <1>3 DEF Trimmed, ContentOK
    <2> QED
      BY <1>1, <1>2, <1>3, <2>1, PushedFrame DEF ContentOK
  <1>5. RingInv'
    BY <1>1, <1>2, <1>3 DEF Trimmed, ReaderInv, RingInv, ContentOK, NoSink, Connections
  <1>6. AskedInv'
    BY <1>1, <1>2, <1>3 DEF ReaderInv, AskedInv, ContentOK, Request
  <1>7. LostInv'
    <2>1. \A c \in Connections : c # current \/ c \in cut => wire'[c] = wire[c]
      BY PushedFrame
    <2>2. \A c \in Connections : c > current => c # current
      BY DEF ContentOK, Connections
    <2> QED
      BY <1>2, <2>1, <2>2 DEF ReaderInv, LostInv
  <1>8. WaitingInv'
    <2>1. sink # current => wire'[current] = wire[current]
      BY PushedFrame DEF ContentOK
    <2>2. NoSink # current
      BY DEF ContentOK, Connections, NoSink
    <2> QED
      BY <1>2, <2>1, <2>2 DEF ReaderInv, WaitingInv
  <1>9. WireInv'
    <2> SUFFICES ASSUME current \notin cut
                 PROVE  /\ Len(got) + Len(wire'[current]) <= seq'
                        /\ sink' = current => Len(got) + Len(wire'[current]) = seq'
                        /\ \A n \in 1 .. Len(wire'[current]) : wire'[current][n] = Len(got) + n
      BY <1>2 DEF WireInv
    <2>1. current \in Connections /\ wire[current] \in Seq(Frame) /\ Len(got) \in Nat
      BY DEF ContentOK
    <2>2. /\ Len(got) + Len(wire[current]) <= seq
          /\ sink = current => Len(got) + Len(wire[current]) = seq
          /\ \A n \in 1 .. Len(wire[current]) : wire[current][n] = Len(got) + n
      BY DEF ReaderInv, WireInv
    <2>3. PICK m \in Nat : m = Len(wire[current])
      BY <2>1
    <2>4. CASE sink = current
      <3>1. wire'[current] = Append(wire[current], seq + 1)
        BY <2>4, PushedFrame
      <3>2. Len(wire'[current]) = m + 1
        BY <2>1, <2>3, <3>1
      <3>3. \A n \in 1 .. m + 1 : wire'[current][n] = IF n = m + 1 THEN seq + 1 ELSE wire[current][n]
        BY <2>1, <2>3, <3>1
      <3>4. PICK g \in Nat : g = Len(got)
        BY <2>1
      <3>5. g + m = seq /\ \A n \in 1 .. m : wire[current][n] = g + n
        BY <2>2, <2>3, <2>4, <3>4
      <3>6. \A n \in 1 .. m + 1 : wire'[current][n] = g + n
        BY <1>3, <3>3, <3>5
      <3> QED
        BY <1>1, <1>3, <3>2, <3>4, <3>5, <3>6
    <2>5. CASE sink # current
      <3>1. wire'[current] = wire[current]
        BY <2>1, <2>5, PushedFrame
      <3>2. sink' # current
        BY <1>2, <2>1, <2>5 DEF NoSink, Connections
      <3> QED
        BY <1>1, <1>3, <2>1, <2>2, <2>3, <3>1, <3>2
    <2> QED
      BY <2>4, <2>5
  <1> QED
    BY <1>2, <1>4, <1>5, <1>6, <1>7, <1>8, <1>9 DEF ReaderInv, EveryFrameOnce

LEMMA ReceiveSteps ==
  ASSUME ContentOK, ReaderInv, EveryFrameOnce, Receive
  PROVE  ContentOK' /\ ReaderInv' /\ EveryFrameOnce'
  <1> USE MaxFramesAssumption
  <1>1. UNCHANGED <<seq, oldest, sink, current, asked, cut>>
    BY DEF Receive, ring, connections
  <1>2. /\ current \in Connections /\ current \notin cut
        /\ wire[current] \in Seq(Frame) /\ wire[current] # <<>> /\ got \in Seq(Frame)
    BY DEF Receive, ContentOK
  <1>3. /\ got' = Append(got, Head(wire[current]))
        /\ wire' = [wire EXCEPT ![current] = Tail(wire[current])]
    BY DEF Receive
  <1>4. PICK m \in Nat : m = Len(wire[current])
    BY <1>2
  <1>5. PICK g \in Nat : g = Len(got)
    BY <1>2
  <1>6. m > 0 /\ Head(wire[current]) = wire[current][1] /\ Head(wire[current]) \in Frame
    BY <1>2, <1>4
  <1>7. /\ Tail(wire[current]) \in Seq(Frame)
        /\ Len(Tail(wire[current])) = m - 1
        /\ \A n \in 1 .. m - 1 : Tail(wire[current])[n] = wire[current][n + 1]
    BY <1>2, <1>4
  <1>8. /\ g + m <= seq
        /\ sink = current => g + m = seq
        /\ \A n \in 1 .. m : wire[current][n] = g + n
    BY <1>2, <1>4, <1>5 DEF ReaderInv, WireInv
  <1>9. /\ got' \in Seq(Frame)
        /\ Len(got') = g + 1
        /\ \A n \in 1 .. g + 1 : got'[n] = IF n = g + 1 THEN wire[current][1] ELSE got[n]
    BY <1>2, <1>3, <1>5, <1>6
  <1>10. wire'[current] = Tail(wire[current])
    BY <1>2, <1>3 DEF ContentOK
  <1>11. ContentOK'
    BY <1>1, <1>2, <1>3, <1>7, <1>9 DEF ContentOK
  <1>12. RingInv'
    BY <1>1, <1>4, <1>6, <1>8, <1>9 DEF ReaderInv, RingInv, ContentOK
  <1>13. \A r \in asked : r.by # current
    BY <1>2 DEF ReaderInv, WaitingInv
  <1>14. AskedInv' /\ WaitingInv'
    BY <1>1, <1>13 DEF ReaderInv, AskedInv, WaitingInv
  <1>15. LostInv'
    <2>1. \A c \in Connections : c # current => wire'[c] = wire[c]
      BY <1>3 DEF ContentOK
    <2>2. \A c \in Connections : c \in cut \/ c > current => c # current
      BY <1>2 DEF Connections
    <2> QED
      BY <1>1, <2>1, <2>2 DEF ReaderInv, LostInv
  <1>16. WireInv'
    <2>1. Len(wire'[current]) = m - 1
      BY <1>7, <1>10
    <2>2. \A n \in 1 .. m - 1 : wire'[current][n] = g + 1 + n
      BY <1>7, <1>8, <1>10
    <2> QED
      BY <1>1, <1>6, <1>8, <1>9, <2>1, <2>2 DEF WireInv, ContentOK
  <1>17. EveryFrameOnce'
    <2>1. \A n \in 1 .. g : got[n] = n
      BY <1>2, <1>5 DEF EveryFrameOnce
    <2>2. \A n \in 1 .. g + 1 : got'[n] = n
      BY <1>6, <1>8, <1>9, <2>1
    <2> QED
      BY <1>9, <2>2 DEF EveryFrameOnce
  <1> QED
    BY <1>11, <1>12, <1>14, <1>15, <1>16, <1>17 DEF ReaderInv

LEMMA LoseSteps ==
  ASSUME ContentOK, ReaderInv, EveryFrameOnce, Lose
  PROVE  ContentOK' /\ ReaderInv' /\ EveryFrameOnce'
  <1>1. UNCHANGED <<seq, oldest, sink, current, asked, got>>
    BY DEF Lose, ring
  <1>2. cut' = cut \cup {current} /\ wire' = [wire EXCEPT ![current] = <<>>]
    BY DEF Lose
  <1>3. ContentOK'
    BY <1>1, <1>2 DEF ContentOK
  <1>4. RingInv' /\ AskedInv' /\ WireInv'
    BY <1>1, <1>2 DEF ReaderInv, RingInv, AskedInv, WireInv
  <1>5. LostInv' /\ WaitingInv'
    BY <1>1, <1>2 DEF ReaderInv, LostInv, WaitingInv, ContentOK
  <1> QED
    BY <1>1, <1>3, <1>4, <1>5 DEF ReaderInv, EveryFrameOnce

LEMMA ReconnectSteps ==
  ASSUME ContentOK, ReaderInv, EveryFrameOnce, Reconnect
  PROVE  ContentOK' /\ ReaderInv' /\ EveryFrameOnce'
  <1> USE MaxConnectionsAssumption, MaxFramesAssumption
  <1> DEFINE new == [by |-> current + 1, after |-> Len(got)]
  <1>1. UNCHANGED <<seq, oldest, sink, cut, wire, got>>
    BY DEF Reconnect, ring
  <1>2. /\ current \in cut /\ current < MaxConnections
        /\ current' = current + 1
        /\ asked' = asked \cup {new}
    BY DEF Reconnect
  <1>3. current \in 1 .. MaxConnections /\ Len(got) \in Nat /\ Len(got) <= seq /\ seq \in 0 .. MaxFrames
    BY DEF ContentOK, ReaderInv, RingInv, Connections
  <1>4. current + 1 \in Connections /\ new.by = current + 1 /\ new.after = Len(got)
    BY <1>2, <1>3 DEF Connections
  <1>5. new \in Request
    BY <1>3, <1>4 DEF Request
  <1>6. \A r \in asked : r.by \in Connections /\ r.by <= current /\ r.after <= seq
    BY DEF ReaderInv, AskedInv, ContentOK, Request
  <1> HIDE DEF new
  <1>7. ContentOK'
    BY <1>1, <1>2, <1>4, <1>5 DEF ContentOK
  <1>8. RingInv'
    BY <1>1, <1>2, <1>3 DEF ReaderInv, RingInv, ContentOK, Connections, NoSink
  <1>9. AskedInv'
    BY <1>1, <1>2, <1>3, <1>4, <1>6 DEF AskedInv, Connections
  <1>10. wire[current + 1] = <<>>
    BY <1>3, <1>4 DEF ReaderInv, LostInv
  <1>11. LostInv'
    BY <1>1, <1>2, <1>3 DEF ReaderInv, LostInv, Connections
  <1>12. WaitingInv'
    BY <1>1, <1>2, <1>3, <1>10 DEF WaitingInv, ReaderInv, RingInv, ContentOK, Connections, NoSink
  <1>13. WireInv'
    BY <1>1, <1>2, <1>3, <1>10 DEF WireInv, ReaderInv, RingInv, ContentOK, Connections, NoSink
  <1> QED
    BY <1>1, <1>7, <1>8, <1>9, <1>11, <1>12, <1>13 DEF ReaderInv, EveryFrameOnce

LEMMA FramesAre ==
  ASSUME ContentOK, NEW first \in 1 .. seq + 1
  PROVE  /\ Frames(first) \in Seq(Frame)
         /\ Len(Frames(first)) = seq + 1 - first
         /\ \A n \in 1 .. seq + 1 - first : Frames(first)[n] = first - 1 + n
  <1> USE MaxFramesAssumption
  <1>1. seq \in Nat /\ seq <= MaxFrames /\ first \in Nat /\ 1 <= first /\ seq + 1 - first \in Nat
    BY DEF ContentOK
  <1>2. \A n \in 1 .. seq + 1 - first : first - 1 + n \in Frame
    BY <1>1 DEF Frame
  <1>3. Frames(first) \in [1 .. seq + 1 - first -> Frame]
    BY <1>2 DEF Frames
  <1> QED
    BY <1>1, <1>3 DEF Frames

\* What is written in answer to a request that the stream has not lost sight of.
LEMMA MissedAre ==
  ASSUME ContentOK, RingInv, NEW after \in 0 .. seq
  PROVE  /\ Missed(after) \in Seq(Frame)
         /\ CanResume(after) => Missed(after) = Frames(after + 1)
  <1> USE MaxFramesAssumption
  <1>1. seq \in Nat /\ oldest \in Nat /\ 1 <= oldest /\ oldest <= seq + 1
    BY DEF ContentOK, RingInv
  <1>2. (IF after < oldest THEN oldest ELSE after + 1) \in 1 .. seq + 1
    BY <1>1
  <1>3. CanResume(after) => (IF after < oldest THEN oldest ELSE after + 1) = after + 1
    BY <1>1 DEF CanResume
  <1> QED
    BY <1>2, <1>3, FramesAre DEF Missed

LEMMA ResumeSteps ==
  ASSUME ContentOK, ReaderInv, EveryFrameOnce, NEW c \in Connections, Resume(c)
  PROVE  ContentOK' /\ ReaderInv' /\ EveryFrameOnce'
  <1> USE MaxFramesAssumption, MaxConnectionsAssumption
  <1>1. PICK r \in asked : /\ r.by = c
                           /\ asked' = asked \ {r}
                           /\ IF CanResume(r.after)
                              THEN Attach(c, r.after)
                              ELSE UNCHANGED <<wire, sink>>
    BY DEF Resume
  <1>2. UNCHANGED <<seq, oldest, current, cut, got>>
    BY DEF Resume, ring
  <1>3. /\ seq \in Nat /\ Len(got) \in Nat /\ Len(got) <= seq
        /\ current \in Nat /\ c \in Nat /\ 1 <= c /\ c <= current
        /\ r.after \in 0 .. seq
        /\ c = current => r.after = Len(got)
    BY <1>1 DEF ContentOK, ReaderInv, RingInv, AskedInv, Request, Connections
  <1>4. c = current => wire[c] = <<>> /\ sink # c
    BY <1>1 DEF ReaderInv, WaitingInv
  <1>5. c \in cut \/ c = current
    BY <1>3 DEF ReaderInv, LostInv
  <1>6. sink' \in {sink, c, NoSink} /\ (~CanResume(r.after) => sink' = sink)
    BY <1>1 DEF Attach
  <1>7. CanResume(r.after) => Write(c, Missed(r.after))
    BY <1>1 DEF Attach
  <1>8. c \in cut \/ ~CanResume(r.after) => wire' = wire
    BY <1>1, <1>7 DEF Write
  <1>9. ASSUME c \notin cut, CanResume(r.after)
        PROVE  wire' = [wire EXCEPT ![c] = Frames(Len(got) + 1)]
    <2>1. Missed(r.after) = Frames(Len(got) + 1) /\ Missed(r.after) \in Seq(Frame)
      BY <1>3, <1>5, <1>9, MissedAre DEF ReaderInv
    <2>2. wire' = [wire EXCEPT ![c] = wire[c] \o Missed(r.after)]
      BY <1>7, <1>9 DEF Write
    <2>3. <<>> \o Missed(r.after) = Missed(r.after)
      BY <2>1
    <2> QED
      BY <1>4, <1>5, <1>9, <2>1, <2>2, <2>3
  <1>10. /\ Frames(Len(got) + 1) \in Seq(Frame)
         /\ Len(Frames(Len(got) + 1)) = seq - Len(got)
         /\ \A n \in 1 .. seq - Len(got) : Frames(Len(got) + 1)[n] = Len(got) + n
    <2>1. Len(got) + 1 \in 1 .. seq + 1
      BY <1>3
    <2>2. seq + 1 - (Len(got) + 1) = seq - Len(got) /\ \A n \in Nat : Len(got) + 1 - 1 + n = Len(got) + n
      BY <1>3
    <2> QED
      BY <1>3, <2>1, <2>2, FramesAre
  <1>11. wire' \in [Connections -> Seq(Frame)] /\ \A d \in Connections : d # c => wire'[d] = wire[d]
    BY <1>8, <1>9, <1>10 DEF ContentOK
  <1>12. ContentOK'
    BY <1>1, <1>2, <1>6, <1>11 DEF ContentOK
  <1>13. RingInv'
    BY <1>2, <1>3, <1>6 DEF ReaderInv, RingInv, NoSink, ContentOK, Connections
  <1>14. AskedInv'
    BY <1>1, <1>2 DEF ReaderInv, AskedInv
  <1>15. LostInv'
    <2>1. \A d \in Connections : d \in cut \/ d > current => d # c \/ c \in cut
      BY <1>3 DEF Connections
    <2> QED
      BY <1>2, <1>8, <1>11, <2>1 DEF ReaderInv, LostInv
  <1>16. WaitingInv'
    <2> SUFFICES ASSUME NEW s \in asked, s # r, s.by = current
                 PROVE  wire'[current] = <<>> /\ sink' # current
      BY <1>1, <1>2 DEF WaitingInv
    <2>1. c # current
      <3> SUFFICES ASSUME c = current
                   PROVE  FALSE
        OBVIOUS
      <3>1. s.after = Len(got) /\ r.after = Len(got) /\ r.by = s.by
        BY <1>1, <1>3 DEF ReaderInv, AskedInv
      <3>2. s \in Request /\ r \in Request
        BY DEF ContentOK
      <3> QED
        BY <3>1, <3>2 DEF Request
    <2>2. wire[current] = <<>> /\ sink # current
      BY DEF ReaderInv, WaitingInv
    <2> QED
      BY <1>6, <1>11, <2>1, <2>2 DEF ContentOK, NoSink, Connections
  <1>17. WireInv'
    <2> SUFFICES ASSUME current \notin cut
                 PROVE  /\ Len(got) + Len(wire'[current]) <= seq
                        /\ sink' = current => Len(got) + Len(wire'[current]) = seq
                        /\ \A n \in 1 .. Len(wire'[current]) : wire'[current][n] = Len(got) + n
      BY <1>2 DEF WireInv
    <2>1. CASE c # current
      <3>1. wire'[current] = wire[current] /\ (sink' = current => sink = current)
        BY <1>6, <1>11, <2>1 DEF ContentOK, NoSink, Connections
      <3> QED
        BY <3>1 DEF ReaderInv, WireInv
    <2>2. CASE c = current /\ CanResume(r.after)
      <3>1. wire'[current] = Frames(Len(got) + 1)
        BY <1>9, <2>2 DEF ContentOK
      <3>2. Len(wire'[current]) = seq - Len(got)
        BY <1>10, <3>1
      <3>3. Len(got) + Len(wire'[current]) = seq
        BY <1>3, <3>2
      <3> QED
        BY <1>3, <1>10, <3>1, <3>2, <3>3
    <2>3. CASE c = current /\ ~CanResume(r.after)
      <3>1. wire'[current] = wire[current] /\ sink' # current
        BY <1>4, <1>6, <1>8, <2>3
      <3> QED
        BY <3>1 DEF ReaderInv, WireInv
    <2> QED
      BY <2>1, <2>2, <2>3
  <1> QED
    BY <1>2, <1>12, <1>13, <1>14, <1>15, <1>16, <1>17 DEF ReaderInv, EveryFrameOnce

-----------------------------------------------------------------------------
(* What a reader that does not read may have before it *)

\* A live sink with room has less than its limit before it; one that is full got
\* there by its limit, or by a replay of the ring while the pump was not looking.
PaceInv ==
  sink # NoSink /\ sink \notin cut =>
    /\ Len(wire[sink]) <= HighWater + MaxEvents
    /\ pump = "asking" => \/ Len(wire[sink]) < HighWater
                          \/ sinkFull /\ Len(wire[sink]) <= MaxEvents

\* A live sink is the latest connection.
LEMMA LiveSink ==
  ASSUME ContentOK, ReaderInv, sink # NoSink, sink \notin cut
  PROVE  sink = current
  BY MaxConnectionsAssumption DEF ContentOK, ReaderInv, RingInv, LostInv, Connections, NoSink

\* A replay is no longer than the ring.
LEMMA ReplayFits ==
  ASSUME ContentOK, RingInv, NEW after \in 0 .. seq
  PROVE  Len(Missed(after)) <= MaxEvents
  <1> USE MaxFramesAssumption, MaxEventsAssumption
  <1> DEFINE first == IF after < oldest THEN oldest ELSE after + 1
  <1>1. seq \in Nat /\ oldest \in Nat /\ 1 <= oldest /\ oldest <= seq + 1 /\ seq < oldest + MaxEvents
    BY DEF ContentOK, RingInv
  <1>2. first \in 1 .. seq + 1 /\ seq + 1 - first <= MaxEvents
    BY <1>1
  <1>3. Missed(after) = Frames(first)
    BY DEF Missed
  <1> HIDE DEF first
  <1>4. Len(Frames(first)) = seq + 1 - first
    BY <1>2, FramesAre
  <1> QED
    BY <1>2, <1>3, <1>4

\* Steps that put nothing on the wire of the sink and set no pump going.
LEMMA PaceKept ==
  ASSUME ContentOK, PaceInv,
         sink' # NoSink => /\ sink' = sink
                           /\ cut \subseteq cut'
                           /\ wire'[sink] = wire[sink] \/ sink \in cut'
                           /\ UNCHANGED sinkFull
                           /\ pump' = "asking" => pump = "asking"
  PROVE  PaceInv'
  BY DEF PaceInv, ContentOK

LEMMA ProducePaces ==
  ASSUME ContentOK, ContentOK', ReaderInv, PaceInv, Produce
  PROVE  PaceInv'
  <1> USE MaxEventsAssumption, HighWaterAssumption
  <1> SUFFICES ASSUME sink # NoSink, sink \notin cut
               PROVE  /\ Len(wire'[sink]) <= HighWater + MaxEvents
                      /\ pump' = "asking" => Len(wire'[sink]) < HighWater
    BY DEF PaceInv, Produce, connections
  <1>1. Pushes /\ pump = "asking" /\ sink = current
    BY LiveSink DEF Produce, Pushes, connections
  <1>2. wire'[sink] = Append(wire[sink], seq + 1)
    BY <1>1, PushedFrame
  <1>3. wire[sink] \in Seq(Frame)
    BY <1>1 DEF ContentOK
  <1>4. Len(wire'[sink]) = Len(wire[sink]) + 1 /\ Len(wire[sink]) \in Nat
    BY <1>2, <1>3
  <1>5. Len(wire[sink]) < HighWater \/ (sinkFull /\ Len(wire[sink]) <= MaxEvents)
    BY <1>1 DEF PaceInv
  <1>6. PICK full \in ReportsFull(sink) :
          pump' = IF MustWait(full) THEN "waiting" ELSE "asking"
    BY Zenon DEF Produce
  <1>7. full = (Len(wire'[sink]) >= HighWater)
    BY <1>6 DEF ReportsFull
  <1>8. pump' = "asking" => ~full
    BY <1>6 DEF MustWait
  <1>9. Len(wire'[sink]) <= HighWater + MaxEvents
    BY <1>4, <1>5
  <1>10. ~(Len(wire'[sink]) >= HighWater) => Len(wire'[sink]) < HighWater
    BY <1>4
  <1> QED
    BY <1>7, <1>8, <1>9, <1>10, Zenon

LEMMA ResumePaces ==
  ASSUME ContentOK, ContentOK', ReaderInv, PaceInv, NEW c \in Connections, Resume(c)
  PROVE  PaceInv'
  <1> USE MaxEventsAssumption, HighWaterAssumption
  <1>1. PICK r \in asked : /\ r.by = c
                           /\ IF CanResume(r.after)
                              THEN Attach(c, r.after)
                              ELSE UNCHANGED <<wire, sinkFull, pump, sink>>
    BY DEF Resume
  <1>2. cut' = cut
    BY DEF Resume
  <1>3. CASE ~CanResume(r.after)
    BY <1>1, <1>2, <1>3, PaceKept
  <1>4. CASE CanResume(r.after)
    <2> SUFFICES ASSUME sink' # NoSink, c \notin cut
                 PROVE  /\ Len(wire'[c]) <= MaxEvents
                        /\ Len(wire'[c]) < HighWater \/ sinkFull'
      <3>1. sink' # NoSink => sink' = c
        BY <1>1, <1>4 DEF Attach
      <3>2. Len(wire'[c]) \in Nat
        BY DEF ContentOK
      <3> QED
        BY <1>2, <3>1, <3>2 DEF PaceInv
    <2>1. Attach(c, r.after) /\ ~done /\ c \notin noticed
      BY <1>1, <1>4 DEF Attach
    <2>2. c \in Nat /\ r.after \in 0 .. seq /\ c <= current /\ current \in Nat
      BY <1>1 DEF ReaderInv, AskedInv, ContentOK, Request, Connections
    <2>3. c = current /\ wire[c] = <<>>
      BY <1>1, <2>2 DEF ReaderInv, LostInv, WaitingInv
    <2>4. Missed(r.after) \in Seq(Frame) /\ Len(Missed(r.after)) <= MaxEvents
      BY <2>2, MissedAre, ReplayFits DEF ReaderInv
    <2>5. wire'[c] = wire[c] \o Missed(r.after)
      BY <2>1 DEF Attach, Write, ContentOK
    <2>6. wire'[c] = Missed(r.after)
      BY <2>3, <2>4, <2>5
    <2>7. CASE Missed(r.after) = <<>>
      BY <2>4, <2>6, <2>7
    <2>8. CASE Missed(r.after) # <<>>
      <3>1. PICK full \in ReportsFull(c) : sinkFull' = (~done /\ c \notin noticed /\ full)
        BY <2>1, <2>8, Zenon DEF Attach
      <3>2. full = (Len(wire'[c]) >= HighWater)
        BY <3>1 DEF ReportsFull
      <3>3. sinkFull' \/ ~(Len(wire'[c]) >= HighWater)
        BY <2>1, <3>1, <3>2, Zenon
      <3>4. Len(wire'[c]) \in Nat
        BY <2>4, <2>6
      <3> QED
        BY <2>4, <2>6, <3>3, <3>4
    <2> QED
      BY <2>7, <2>8
  <1> QED
    BY <1>3, <1>4

LEMMA PaceHolds ==
  ASSUME ContentOK, ContentOK', ReaderInv, PaceInv, [Next]_vars
  PROVE  PaceInv'
  <1> USE MaxEventsAssumption, HighWaterAssumption
  <1>1. CASE UNCHANGED vars
    BY <1>1, PaceKept DEF vars, connections
  <1>2. CASE Produce
    BY <1>2, ProducePaces
  <1>3. CASE Drain
    <2>1. sink # NoSink => Len(wire[sink]) = 0
      BY <1>3 DEF Drain
    <2> QED
      BY <1>3, <2>1 DEF Drain, PaceInv, connections
  <1>4. CASE Finish
    <2>1. sink' = NoSink
      BY <1>4 DEF Finish, PumpEnds, Dispose
    <2> QED
      BY <2>1, PaceKept
  <1>5. CASE Stop
    BY <1>5, PaceKept DEF Stop, connections
  <1>6. CASE WindowCloses \/ ServerStops
    BY <1>6, PaceKept DEF WindowCloses, ServerStops, Dispose
  <1>7. CASE Receive
    <2>1. UNCHANGED <<sink, sinkFull, pump, cut>> /\ current \notin cut
      BY <1>7 DEF Receive, connections
    <2>2. wire[current] \in Seq(Frame) /\ wire[current] # <<>>
      BY <1>7 DEF ContentOK, Receive
    <2>3. wire'[current] = Tail(wire[current])
      BY <1>7 DEF ContentOK, Receive
    <2>4. Len(wire'[current]) = Len(wire[current]) - 1 /\ Len(wire[current]) \in Nat
      BY <2>2, <2>3
    <2>5. CASE sink = NoSink \/ sink \in cut
      BY <2>1, <2>5 DEF PaceInv
    <2>6. CASE sink # NoSink /\ sink \notin cut
      BY <2>1, <2>4, <2>6, LiveSink DEF PaceInv
    <2> QED
      BY <2>5, <2>6
  <1>8. CASE Lose
    <2>1. UNCHANGED <<sink, sinkFull, pump>> /\ cut' = cut \cup {current}
      BY <1>8 DEF Lose
    <2>2. sink # current => wire'[sink] = wire[sink] \/ sink = NoSink
      BY <1>8 DEF Lose, ContentOK
    <2> QED
      BY <2>1, <2>2, PaceKept
  <1>9. CASE Reconnect
    BY <1>9, PaceKept DEF Reconnect
  <1>10. ASSUME NEW c \in Connections, Notice(c)
         PROVE  PaceInv'
    <2>1. UNCHANGED <<wire, cut>>
      BY <1>10 DEF Notice
    <2>2. sink' = NoSink \/ UNCHANGED <<sink, sinkFull, pump>>
      BY <1>10 DEF Notice
    <2> QED
      BY <2>1, <2>2, PaceKept
  <1>11. ASSUME NEW c \in Connections, Resume(c)
         PROVE  PaceInv'
    BY <1>11, ResumePaces
  <1> QED
    BY <1>1, <1>2, <1>3, <1>4, <1>5, <1>6, <1>7, <1>8, <1>9, <1>10, <1>11 DEF Next

-----------------------------------------------------------------------------
(* The theorems *)

LEMMA InitInv ==
  ASSUME Init
  PROVE  IInv
  <1> USE MaxFramesAssumption, MaxEventsAssumption, MaxConnectionsAssumption
  <1>1. 1 \in Connections /\ Len(got) = 0
    BY DEF Init, Connections
  <1>2. \A c \in Connections : wire[c] = <<>>
    BY DEF Init
  <1>3. ContentOK
    BY <1>1 DEF Init, ContentOK, NoSink
  <1>4. ControlOK
    <2>1. grace \in BOOLEAN
      <3>1. (1 \in noticed) \in BOOLEAN
        OBVIOUS
      <3> QED
        BY <3>1, Zenon DEF Init
    <2> QED
      BY <1>1, <2>1 DEF Init, ControlOK
  <1>5. RingInv /\ AskedInv /\ LostInv
    BY <1>1, <1>2 DEF Init, RingInv, AskedInv, LostInv, NoSink, Connections
  <1>6. WaitingInv /\ WireInv
    BY <1>1, <1>2 DEF Init, WaitingInv, WireInv
  <1>7. EveryFrameOnce
    BY DEF Init, EveryFrameOnce
  <1> QED
    BY <1>3, <1>4, <1>5, <1>6, <1>7 DEF IInv, ReaderInv

LEMMA NextInv ==
  ASSUME IInv, [Next]_vars
  PROVE  IInv'
  <1>1. ContentOK /\ ControlOK /\ ReaderInv /\ EveryFrameOnce
    BY DEF IInv
  <1>2. ContentOK' /\ ReaderInv' /\ EveryFrameOnce'
    BY <1>1, Effects, QuietSteps, PushSteps, ReceiveSteps, LoseSteps, ReconnectSteps, ResumeSteps
  <1>3. ControlOK'
    BY <1>1, <1>2, ControlTyped
  <1> QED
    BY <1>2, <1>3 DEF IInv

LEMMA SpecInv == Spec => []IInv
  BY InitInv, NextInv, PTL DEF Spec

\* The variables of the stream, its connections and its client keep their types, and
\* the ring holds at most maxEvents frames (ResumableStream.push).
THEOREM TypeCorrect == Spec => []TypeOK
  <1>1. IInv => TypeOK
    BY TypeParts DEF IInv
  <1> QED
    BY <1>1, SpecInv, PTL

\* A client that loses its connections and resumes reads every frame once and in
\* order, for any ring and any number of connections (canResume, attach, push).
THEOREM ReaderSeesEachFrameOnce == Spec => []EveryFrameOnce
  <1>1. IInv => EveryFrameOnce
    BY DEF IInv
  <1> QED
    BY <1>1, SpecInv, PTL

\* What the transport of a reader that does not read holds is bounded by its own limit
\* and one replay of the ring, whatever the producer has left (push, whileSinkFull,
\* attach), for any ring, any limit and any number of connections.
THEOREM PumpWaitsForItsReader == Spec => []ReaderPacesTheProducer
  <1> USE MaxEventsAssumption, HighWaterAssumption
  <1>1. Init => PaceInv
    <2>1. Init => \A c \in Connections : Len(wire[c]) = 0
      BY DEF Init
    <2>2. Init => sink = NoSink \/ sink \in Connections
      BY MaxConnectionsAssumption DEF Init, Connections
    <2> QED
      BY <2>1, <2>2 DEF PaceInv
  <1>2. IInv /\ IInv' /\ PaceInv /\ [Next]_vars => PaceInv'
    BY PaceHolds DEF IInv
  <1>3. IInv /\ PaceInv => ReaderPacesTheProducer
    <2> SUFFICES ASSUME IInv, PaceInv, sink # NoSink
                 PROVE  Len(wire[sink]) <= HighWater + MaxEvents
      BY DEF ReaderPacesTheProducer
    <2>1. CASE sink \in cut
      <3>1. Len(wire[sink]) = 0
        BY <2>1 DEF IInv, ReaderInv, LostInv, ContentOK
      <3> QED
        BY <3>1
    <2>2. CASE sink \notin cut
      BY <2>2 DEF PaceInv
    <2> QED
      BY <2>1, <2>2
  <1> QED
    BY <1>1, <1>2, <1>3, SpecInv, PTL DEF Spec
=============================================================================
