-------------------------- MODULE Connection_proofs -------------------------
(* Machine-checked proofs about Connection, for every size of a packet, any  *)
(* number of packets and any number of chunks read.                          *)
EXTENDS Connection, TLAPS

-----------------------------------------------------------------------------
(* The inductive invariant, as predicates on a whole state s *)

Writer == [io : BOOLEAN, loop : BOOLEAN, buffer : Nat, flushPoint : Nat,
           writeWatch : BOOLEAN, flushWatch : BOOLEAN, errorWatch : BOOLEAN]
Reader == [readWatch : BOOLEAN, errorWatch : BOOLEAN, shutdown : BOOLEAN]
Agent == [reader : BOOLEAN, writer : BOOLEAN, finished : BOOLEAN]
Channel == [channel : Nat, out : Nat, input : Nat, open : BOOLEAN, watched : BOOLEAN]
Owner == [owner : {"server", "client"}, sent : Nat, ack : Nat, quit : BOOLEAN,
          closing : BOOLEAN, early : BOOLEAN, failed : BOOLEAN, finished : Nat]
State == [w : Writer, r : Reader, a : Agent, ch : Channel, h : Owner]

\* The writer is registered with the event loop exactly while its error watch
\* is; it is shut down or gone otherwise, and then no other watch is left.
WriterWatches(s) ==
  /\ ~s.w.errorWatch => ~s.w.writeWatch /\ ~s.w.flushWatch
  /\ s.a.writer /\ ~s.w.errorWatch => ~s.w.io
  /\ ~s.a.writer => ~s.w.errorWatch

\* The owner is told once that the agent is finished, and the writer is shut
\* down by then.
Told(s) ==
  /\ s.h.finished = (IF s.a.finished THEN 1 ELSE 0)
  /\ s.a.finished => ~s.w.errorWatch

\* The reader's watches live as long as the reader, and the agent is finished
\* when the reader is gone.
ReaderWatches(s) ==
  /\ s.a.reader => s.r.readWatch /\ s.r.errorWatch /\ ~s.a.finished
  /\ ~s.a.reader => ~s.r.readWatch /\ ~s.r.errorWatch /\ s.a.finished

\* What holds between two callbacks of the event loop.
Calm(s) == WriterWatches(s) /\ Told(s) /\ ReaderWatches(s) /\ ~s.r.shutdown

\* The bytes of a writer that is registered are in one of the three places, and
\* the flush point stands for all of them.  Packets are written as a whole.
Counted(s) ==
  /\ s.h.ack <= s.ch.out
  /\ \E k \in Nat : s.h.sent = k * Packet
  /\ s.w.errorWatch => /\ s.h.sent = s.ch.out + s.ch.channel + s.w.buffer
                       /\ s.w.flushPoint = s.w.buffer
  /\ s.h.owner = "server" => ~s.h.early

\* The end of the first packet that is not answered yet.
First(s) == (s.h.ack \div Packet + 1) * Packet

\* A flush is under way only when that packet is in the channel.
Due(s) == s.h.owner = "server" /\ s.w.flushWatch => First(s) <= s.ch.out + s.ch.channel

Inv == All \in State /\ Calm(All)

\* What a step keeps, whatever the channel does, and while it takes everything.
Whole(s) == Counted(s) /\ Due(s)
Kept == Inv' /\ (~Full /\ Whole(All) => Whole(All)')

-----------------------------------------------------------------------------
(* The signals to the owner, and how the writer is shut down *)

\* A step to the state s, read off the record of all the variables.
LEMMA BecomeAll ==
    ASSUME NEW s \in State, Become(s)
    PROVE  All' = s
BY DEF State, Become, All

\* The error signal changes the owner's record only.
LEMMA TellErrorFrame ==
    ASSUME NEW s \in State
    PROVE  LET f == TellError(s)
           IN  /\ f \in State /\ f.w = s.w /\ f.r = s.r /\ f.a = s.a /\ f.ch = s.ch
               /\ f.h.owner = s.h.owner /\ f.h.sent = s.h.sent /\ f.h.finished = s.h.finished
               /\ f.h.ack = s.h.ack /\ f.h.early = s.h.early
BY DEF State, TellError, Owner

\* So does FLUSHED, which answers what is on the wire and is early when the
\* first unanswered packet is not.
LEMMA TellFlushedFrame ==
    ASSUME NEW s \in State
    PROVE  LET f == TellFlushed(s)
           IN  /\ f \in State /\ f.w = s.w /\ f.r = s.r /\ f.a = s.a /\ f.ch = s.ch
               /\ f.h.owner = s.h.owner /\ f.h.sent = s.h.sent /\ f.h.finished = s.h.finished
               /\ f.h.quit = s.h.quit
               /\ f.h.ack = s.ch.out
               /\ ~s.h.early /\ (s.h.ack < s.h.sent => First(s) <= s.ch.out) => ~f.h.early
<1>1. First(s) \in Int /\ s.ch.out \in Nat
  BY ConnectionAssumption DEF State, Owner, Channel, First
<1>2. TellFlushed(s) = [s EXCEPT !.h = [s.h EXCEPT !.ack = s.ch.out,
                          !.early = @ \/ (s.h.ack < s.h.sent /\ s.ch.out < First(s))]]
  BY DEF State, Owner, TellFlushed, First
<1> DEFINE e == s.h.early \/ (s.h.ack < s.h.sent /\ s.ch.out < First(s))
<1>3. e \in BOOLEAN
  OBVIOUS
<1>4. TellFlushed(s) = [s EXCEPT !.h = [s.h EXCEPT !.ack = s.ch.out, !.early = e]]
  BY <1>2 DEF State, Owner
<1>5. ~s.h.early /\ (s.h.ack < s.h.sent => First(s) <= s.ch.out) => ~e
  BY <1>1
<1> HIDE DEF e
<1>6. [s.h EXCEPT !.ack = s.ch.out, !.early = e] \in Owner
  BY <1>1, <1>3 DEF State, Owner
<1> QED BY <1>1, <1>3, <1>4, <1>5, <1>6 DEF State, Owner

\* Whatever is written, the end of the first packet that is not answered lies
\* within what was written.
LEMMA FirstIsWritten ==
    ASSUME NEW k \in Nat, NEW ack \in Nat, ack < k * Packet
    PROVE  (ack \div Packet + 1) * Packet <= k * Packet
<1> DEFINE q == ack \div Packet
<1>1. q \in Nat /\ Packet \in Nat /\ Packet > 0 /\ q * Packet <= ack
  BY ConnectionAssumption
<1> HIDE DEF q
<1>2. q < k
  <2>1. ASSUME k <= q
        PROVE  k * Packet <= q * Packet
    BY <1>1, <2>1
  <2> QED BY <1>1, <2>1
<1>3. (q + 1) * Packet <= k * Packet
  BY <1>1, <1>2
<1> QED BY <1>3 DEF q

\* The watches of the writer
SameWatches(x, y) ==
  /\ x.io = y.io /\ x.loop = y.loop /\ x.errorWatch = y.errorWatch
  /\ x.writeWatch = y.writeWatch /\ x.flushWatch = y.flushWatch

\* A flush of everything at once: the state in which FLUSHED is emitted.
LEMMA OutFrame ==
    ASSUME NEW s \in State
    PROVE  LET e == [s EXCEPT !.w.buffer = 0, !.ch.channel = 0,
                              !.ch.out = @ + s.ch.channel + s.w.buffer]
           IN  /\ e \in State /\ e.r = s.r /\ e.a = s.a /\ e.h = s.h /\ SameWatches(e.w, s.w)
               /\ e.ch.out = s.ch.out + s.ch.channel + s.w.buffer
<1> DEFINE n == s.ch.out + s.ch.channel + s.w.buffer
           e == [s EXCEPT !.w.buffer = 0, !.ch.channel = 0,
                          !.ch.out = @ + s.ch.channel + s.w.buffer]
<1>1. e = [s EXCEPT !.w = [s.w EXCEPT !.buffer = 0],
                    !.ch = [s.ch EXCEPT !.channel = 0, !.out = n]]
  BY DEF State
<1>2. s.ch \in Channel /\ n \in Nat /\ s.w \in Writer
  BY DEF State, Channel, Writer
<1> HIDE DEF n, e
<1>3. [s.ch EXCEPT !.channel = 0, !.out = n] \in Channel
  BY <1>2 DEF Channel
<1>4. [s.w EXCEPT !.buffer = 0] \in Writer
  BY <1>2 DEF Writer
<1>5. e \in State
  BY <1>1, <1>3, <1>4 DEF State
<1>6. e.r = s.r /\ e.a = s.a /\ e.h = s.h /\ e.w = [s.w EXCEPT !.buffer = 0]
      /\ e.ch = [s.ch EXCEPT !.channel = 0, !.out = n]
  BY <1>1 DEF State
<1>7. SameWatches(e.w, s.w) /\ e.ch.out = n
  BY <1>2, <1>6 DEF SameWatches, Writer, Channel
<1> QED BY <1>5, <1>6, <1>7 DEF n, e

\* flush_buffer_on_shutdown leaves the reader, the agent and the watches alone.
LEMMA FlushBufferFrame ==
    ASSUME NEW s \in State, NEW taken \in BOOLEAN
    PROVE  LET f == FlushBuffer(s, taken)
           IN  /\ f \in State /\ f.r = s.r /\ f.a = s.a /\ SameWatches(f.w, s.w)
               /\ f.h.owner = s.h.owner /\ f.h.sent = s.h.sent /\ f.h.finished = s.h.finished
<1> DEFINE o == [s EXCEPT !.w.buffer = 0, !.ch.channel = 0,
                          !.ch.out = @ + s.ch.channel + s.w.buffer]
           e == IF taken THEN o ELSE s
<1> USE DEF SameWatches
<1>1. /\ e \in State /\ e.r = s.r /\ e.a = s.a /\ e.h = s.h /\ SameWatches(e.w, s.w)
  BY OutFrame
<1>2. CASE s.w.buffer = 0
  BY <1>2 DEF FlushBuffer
<1>3. CASE s.w.buffer # 0 /\ ~s.ch.open
  <2>1. FlushBuffer(s, taken) = TellError(s)
    BY <1>3 DEF FlushBuffer
  <2> QED BY <2>1, TellErrorFrame
<1>4. CASE s.w.buffer # 0 /\ s.ch.open
  <2>1. FlushBuffer(s, taken) = TellFlushed(e)
    BY <1>4 DEF FlushBuffer
  <2> HIDE DEF e
  <2> QED BY <2>1, <1>1, TellFlushedFrame
<1> QED BY <1>2, <1>3, <1>4

\* With a channel that takes everything, the FLUSHED of a shutdown is not early.
LEMMA FlushBufferCounted ==
    ASSUME NEW s \in State, Counted(s), 
           s.h.sent = s.ch.out + s.ch.channel + s.w.buffer
    PROVE  LET f == FlushBuffer(s, TRUE)
           IN  /\ f.h.ack <= f.ch.out
               /\ f.h.owner = "server" => ~f.h.early
<1> DEFINE e == [s EXCEPT !.w.buffer = 0, !.ch.channel = 0,
                          !.ch.out = @ + s.ch.channel + s.w.buffer]
<1>1. e \in State /\ e.h = s.h /\ e.ch.out = s.h.sent
  BY OutFrame
<1>2. CASE s.w.buffer = 0
  BY <1>2 DEF FlushBuffer, Counted
<1>3. CASE s.w.buffer # 0 /\ ~s.ch.open
  <2>1. FlushBuffer(s, TRUE) = TellError(s)
    BY <1>3 DEF FlushBuffer
  <2> QED BY <2>1, TellErrorFrame DEF Counted
<1>4. CASE s.w.buffer # 0 /\ s.ch.open
  <2>1. FlushBuffer(s, TRUE) = TellFlushed(e)
    BY <1>4 DEF FlushBuffer
  <2> HIDE DEF e
  <2>2. PICK k \in Nat : s.h.sent = k * Packet
    BY DEF Counted
  <2>3. s.h.ack < s.h.sent => First(e) <= e.ch.out
    <3>1. s.h.ack \in Nat
      BY DEF State, Owner
    <3> QED BY <1>1, <2>2, <3>1, FirstIsWritten DEF First
  <2>4. TellFlushed(e).h.ack = e.ch.out /\ TellFlushed(e).ch = e.ch /\ e.ch.out \in Nat
        /\ TellFlushed(e).h.owner = s.h.owner
    BY <1>1, TellFlushedFrame DEF State, Channel
  <2>5. ~s.h.early => ~TellFlushed(e).h.early
    BY <1>1, <2>3, TellFlushedFrame
  <2>6. s.h.owner = "server" => ~s.h.early
    BY DEF Counted
  <2>7. TellFlushed(e).h.ack <= TellFlushed(e).ch.out
    BY <2>4
  <2> QED BY <2>1, <2>4, <2>5, <2>6, <2>7
<1> QED BY <1>2, <1>3, <1>4

\* milter_writer_shutdown changes neither the reader nor the agent, and after it
\* no watch of a writer that was registered is left.
LEMMA WriterShutdownFrame ==
    ASSUME NEW s \in State, NEW taken \in BOOLEAN
    PROVE  LET f == WriterShutdown(s, taken)
           IN  /\ f \in State /\ f.r = s.r /\ f.a = s.a
               /\ f.h.owner = s.h.owner /\ f.h.sent = s.h.sent /\ f.h.finished = s.h.finished
               /\ s.a.writer /\ s.w.errorWatch =>
                    ~(f.w.io \/ f.w.loop \/ f.w.writeWatch \/ f.w.flushWatch \/ f.w.errorWatch)
               /\ ~(s.a.writer /\ s.w.errorWatch) => f = s
<1> DEFINE c == [s EXCEPT !.w = ClearWatches(@)]
           f == FlushBuffer(c, taken)
<1>1. CASE ~(s.a.writer /\ s.w.errorWatch)
  BY <1>1 DEF WriterShutdown
<1>2. CASE s.a.writer /\ s.w.errorWatch
  <2>1. /\ c \in State /\ c.r = s.r /\ c.a = s.a /\ c.h = s.h
        /\ ~(c.w.loop \/ c.w.writeWatch \/ c.w.flushWatch \/ c.w.errorWatch)
    BY DEF State, ClearWatches, Writer
  <2> HIDE DEF c
  <2>2. /\ f \in State /\ f.r = s.r /\ f.a = s.a
        /\ f.h.owner = s.h.owner /\ f.h.sent = s.h.sent /\ f.h.finished = s.h.finished
        /\ ~(f.w.loop \/ f.w.writeWatch \/ f.w.flushWatch \/ f.w.errorWatch)
    BY <2>1, FlushBufferFrame DEF SameWatches
  <2>3. WriterShutdown(s, taken) = [f EXCEPT !.w.io = FALSE]
    BY <1>2 DEF WriterShutdown, c
  <2> HIDE DEF f
  <2>4. WriterShutdown(s, taken) = [f EXCEPT !.w = [f.w EXCEPT !.io = FALSE]]
    BY <2>2, <2>3 DEF State
  <2> QED BY <1>2, <2>2, <2>4 DEF State, Writer
<1> QED BY <1>1, <1>2

\* The watches of the writer stay in order.
LEMMA WriterShutdownCalm ==
    ASSUME NEW s \in State, NEW taken \in BOOLEAN, WriterWatches(s)
    PROVE  LET f == WriterShutdown(s, taken)
           IN  WriterWatches(f) /\ ~f.w.errorWatch
BY WriterShutdownFrame DEF WriterWatches

\* And with a channel that takes everything its FLUSHED is not early.
LEMMA WriterShutdownCounted ==
    ASSUME NEW s \in State, WriterWatches(s), Counted(s)
    PROVE  Counted(WriterShutdown(s, TRUE))
<1> DEFINE c == [s EXCEPT !.w = ClearWatches(@)]
           f == FlushBuffer(c, TRUE)
           g == WriterShutdown(s, TRUE)
<1>1. CASE ~(s.a.writer /\ s.w.errorWatch)
  BY <1>1 DEF WriterShutdown
<1>2. CASE s.a.writer /\ s.w.errorWatch
  <2>1. /\ c \in State /\ c.h = s.h /\ c.ch = s.ch
        /\ c.w.buffer = s.w.buffer /\ ~c.w.errorWatch
    BY DEF State, ClearWatches, Writer
  <2>2. g = [f EXCEPT !.w.io = FALSE]
    BY <1>2 DEF WriterShutdown
  <2> HIDE DEF c
  <2>3. s.h.sent = s.ch.out + s.ch.channel + s.w.buffer
    BY <1>2 DEF Counted
  <2>4. Counted(c) /\ c.h.sent = c.ch.out + c.ch.channel + c.w.buffer
    BY <2>1, <2>3 DEF Counted
  <2>5. f.h.ack <= f.ch.out /\ (f.h.owner = "server" => ~f.h.early)
    BY <2>1, <2>4, FlushBufferCounted
  <2>6. f \in State
    BY <2>1, FlushBufferFrame
  <2> HIDE DEF f
  <2>7. g.h = f.h /\ g.ch = f.ch
    BY <2>2, <2>6 DEF State
  <2> HIDE DEF g
  <2>8. g.h.sent = s.h.sent /\ ~g.w.errorWatch
    BY <1>2, WriterShutdownFrame DEF g
  <2>9. \E k \in Nat : g.h.sent = k * Packet
    BY <2>8 DEF Counted
  <2>10. Counted(g)
    BY <2>5, <2>7, <2>8, <2>9 DEF Counted
  <2> QED BY <2>10 DEF g
<1> QED BY <1>1, <1>2

-----------------------------------------------------------------------------
(* How the agent is finished *)

\* The FINISHED of the agent: it is finished afterwards, the writer has no
\* watch, and the owner was told once.
LEMMA AgentFinishedCalm ==
    ASSUME NEW s \in State, NEW taken \in BOOLEAN, WriterWatches(s), Told(s)
    PROVE  LET f == AgentFinished(s, taken)
           IN  /\ f \in State /\ f.r = s.r /\ f.a = [s.a EXCEPT !.finished = TRUE]
               /\ WriterWatches(f) /\ Told(f)
               /\ Counted(s) => Counted(AgentFinished(s, TRUE))
<1> DEFINE b == [s EXCEPT !.h.finished = @ + 1, !.a.finished = TRUE]
<1>1. CASE s.a.finished
  <2>1. s.a = [s.a EXCEPT !.finished = TRUE]
    BY <1>1 DEF State, Agent
  <2> QED BY <1>1, <2>1 DEF AgentFinished
<1>2. CASE ~s.a.finished
  <2>1. /\ b = [s EXCEPT !.h = [s.h EXCEPT !.finished = s.h.finished + 1],
                         !.a = [s.a EXCEPT !.finished = TRUE]]
        /\ \A t \in BOOLEAN : AgentFinished(s, t) = WriterShutdown(b, t)
    BY <1>2 DEF State, AgentFinished
  <2>2. /\ s.h \in Owner /\ s.a \in Agent /\ s.h.finished = 0
    BY <1>2 DEF State, Told
  <2> DEFINE h1 == [s.h EXCEPT !.finished = 1]
             a1 == [s.a EXCEPT !.finished = TRUE]
  <2>3. /\ h1 \in Owner /\ h1.finished = 1 /\ h1.owner = s.h.owner /\ h1.sent = s.h.sent
        /\ h1.ack = s.h.ack /\ h1.early = s.h.early
    BY <2>2 DEF Owner
  <2>31. a1 \in Agent /\ a1.writer = s.a.writer /\ a1.finished
    BY <2>2 DEF Agent
  <2>32. b = [s EXCEPT !.h = h1, !.a = a1]
    BY <2>1, <2>2
  <2> HIDE DEF b, h1
  <2>4. /\ b \in State /\ b.r = s.r /\ b.w = s.w /\ b.ch = s.ch
        /\ b.a = [s.a EXCEPT !.finished = TRUE] /\ b.a.writer = s.a.writer /\ b.a.finished
        /\ b.h.finished = 1 /\ b.h.owner = s.h.owner /\ b.h.sent = s.h.sent
        /\ b.h.ack = s.h.ack /\ b.h.early = s.h.early
    BY <2>3, <2>31, <2>32 DEF State
  <2>5. WriterWatches(b)
    BY <2>4 DEF WriterWatches
  <2>6. Counted(s) => Counted(b)
    BY <2>4 DEF Counted
  <2>7. Counted(s) => Counted(WriterShutdown(b, TRUE))
    BY <2>4, <2>5, <2>6, WriterShutdownCounted
  <2> DEFINE f == WriterShutdown(b, taken)
  <2>8. /\ f \in State /\ f.r = s.r /\ f.a = b.a /\ f.h.finished = 1
        /\ WriterWatches(f) /\ ~f.w.errorWatch
    BY <2>4, <2>5, WriterShutdownFrame, WriterShutdownCalm
  <2> HIDE DEF f
  <2>9. Told(f)
    BY <2>4, <2>8 DEF Told
  <2> QED BY <2>1, <2>4, <2>7, <2>8, <2>9 DEF f
<1> QED BY <1>1, <1>2

\* finish of the reader ends the agent.
LEMMA ReaderFinishCalm ==
    ASSUME NEW s \in State, NEW taken \in BOOLEAN, WriterWatches(s), Told(s)
    PROVE  LET f == ReaderFinish(s, taken)
           IN  /\ f \in State /\ Calm(f) /\ f.a.finished
               /\ Counted(s) => Counted(ReaderFinish(s, TRUE))
<1> DEFINE r0 == [readWatch |-> FALSE, errorWatch |-> FALSE, shutdown |-> FALSE]
           b == [s EXCEPT !.r = r0]
           c == [b EXCEPT !.a.reader = FALSE]
<1>1. /\ b \in State /\ b.r = r0 /\ b.w = s.w /\ b.a = s.a /\ b.h = s.h /\ b.ch = s.ch
  BY DEF State, Reader
<1>2. \A t \in BOOLEAN : ReaderFinish(s, t) = AgentFinished(c, t)
  BY DEF ReaderFinish, CbReaderFinished
<1> HIDE DEF b
<1>3. /\ c = [b EXCEPT !.a = [b.a EXCEPT !.reader = FALSE]]
      /\ [b.a EXCEPT !.reader = FALSE] \in Agent
  BY <1>1 DEF State, Agent
<1> HIDE DEF c
<1>4. /\ c \in State /\ c.r = r0 /\ c.w = s.w /\ c.h = s.h /\ c.ch = s.ch
      /\ c.a.writer = s.a.writer /\ c.a.finished = s.a.finished /\ ~c.a.reader
  BY <1>1, <1>3 DEF State, Agent
<1>5. WriterWatches(c) /\ Told(c) /\ (Counted(s) => Counted(c))
  BY <1>4 DEF WriterWatches, Told, Counted
<1> DEFINE f == AgentFinished(c, taken)
<1>6. /\ f \in State /\ f.r = r0 /\ f.a = [c.a EXCEPT !.finished = TRUE]
      /\ WriterWatches(f) /\ Told(f)
      /\ Counted(s) => Counted(AgentFinished(c, TRUE))
  BY <1>4, <1>5, AgentFinishedCalm
<1> HIDE DEF f
<1>7. ~f.a.reader /\ f.a.finished
  BY <1>4, <1>6 DEF State, Agent
<1>8. Calm(f)
  BY <1>6, <1>7 DEF Calm, ReaderWatches
<1> QED BY <1>2, <1>6, <1>7, <1>8 DEF f

\* milter_agent_shutdown outside a callback of the reader finishes the agent; in
\* one it shuts the writer down and leaves the rest to that callback.
LEMMA AgentShutdownCalm ==
    ASSUME NEW s \in State, NEW taken \in BOOLEAN, NEW processing \in BOOLEAN, Calm(s)
    PROVE  LET f == AgentShutdown(s, processing, taken)
           IN  /\ f \in State /\ WriterWatches(f) /\ Told(f)
               /\ ~processing => Calm(f)
               /\ processing /\ s.a.reader => f.r.shutdown
               /\ ~f.w.errorWatch
               /\ Counted(s) => Counted(AgentShutdown(s, processing, TRUE))
<1> DEFINE b == [s EXCEPT !.h.quit = FALSE, !.h.closing = TRUE]
<1>1. /\ b = [s EXCEPT !.h = [s.h EXCEPT !.quit = FALSE, !.closing = TRUE]]
      /\ [s.h EXCEPT !.quit = FALSE, !.closing = TRUE] \in Owner
  BY DEF State, Owner
<1>2. \A t \in BOOLEAN : AgentShutdown(s, processing, t) =
        IF b.a.reader THEN WriterShutdown(ReaderShutdown(b, processing, t), t)
        ELSE AgentFinished(WriterShutdown(b, t), t)
  BY DEF AgentShutdown
<1> HIDE DEF b
<1>3. /\ b \in State /\ b.w = s.w /\ b.r = s.r /\ b.a = s.a /\ b.ch = s.ch
      /\ b.h.finished = s.h.finished /\ b.h.owner = s.h.owner /\ b.h.sent = s.h.sent
      /\ b.h.ack = s.h.ack /\ b.h.early = s.h.early
  BY <1>1 DEF State, Owner
<1>4. WriterWatches(b) /\ Told(b) /\ ReaderWatches(b) /\ ~b.r.shutdown /\ (Counted(s) => Counted(b))
  BY <1>3 DEF Calm, WriterWatches, Told, ReaderWatches, Counted
<1>5. CASE ~b.a.reader
  <2>1. ASSUME NEW t \in BOOLEAN
        PROVE  LET f == WriterShutdown(b, t)
               IN  f \in State /\ WriterWatches(f) /\ Told(f) /\ f.r = b.r /\ f.a = b.a
    <3> DEFINE f == WriterShutdown(b, t)
    <3>1. /\ f \in State /\ f.r = b.r /\ f.a = b.a /\ f.h.finished = b.h.finished
          /\ WriterWatches(f) /\ ~f.w.errorWatch
      BY <1>3, <1>4, WriterShutdownFrame, WriterShutdownCalm
    <3> HIDE DEF f
    <3>2. Told(f)
      BY <1>4, <3>1 DEF Told
    <3> QED BY <3>1, <3>2 DEF f
  <2>2. Counted(s) => Counted(WriterShutdown(b, TRUE))
    BY <1>3, <1>4, WriterShutdownCounted
  <2> DEFINE f == AgentFinished(WriterShutdown(b, taken), taken)
  <2>3. /\ f \in State /\ f.r = b.r /\ f.a = [b.a EXCEPT !.finished = TRUE]
        /\ WriterWatches(f) /\ Told(f)
    BY <2>1, AgentFinishedCalm
  <2>4. Counted(s) => Counted(AgentFinished(WriterShutdown(b, TRUE), TRUE))
    BY <2>1, <2>2, AgentFinishedCalm
  <2> HIDE DEF f
  <2>5. Calm(f) /\ ~f.w.errorWatch
    BY <1>3, <1>4, <1>5, <2>3 DEF Calm, Told, ReaderWatches, State, Agent
  <2> QED BY <1>2, <1>3, <1>5, <2>3, <2>4, <2>5 DEF f
<1>6. CASE b.a.reader /\ processing
  <2> DEFINE c == [b EXCEPT !.r.shutdown = TRUE]
  <2>1. \A t \in BOOLEAN : ReaderShutdown(b, processing, t) = c
    BY <1>4, <1>6 DEF ReaderShutdown, ReaderWatches
  <2>2. /\ c = [b EXCEPT !.r = [b.r EXCEPT !.shutdown = TRUE]]
        /\ [b.r EXCEPT !.shutdown = TRUE] \in Reader
    BY <1>3 DEF State, Reader
  <2> HIDE DEF c
  <2>3. /\ c \in State /\ c.w = b.w /\ c.a = b.a /\ c.h = b.h /\ c.ch = b.ch /\ c.r.shutdown
    BY <1>3, <2>2 DEF State, Reader
  <2>4. WriterWatches(c) /\ Told(c) /\ (Counted(s) => Counted(c))
    BY <1>4, <2>3 DEF WriterWatches, Told, Counted
  <2> DEFINE f == WriterShutdown(c, taken)
  <2>5. /\ f \in State /\ f.r = c.r /\ f.a = c.a /\ f.h.finished = c.h.finished
        /\ WriterWatches(f) /\ ~f.w.errorWatch
    BY <2>3, <2>4, WriterShutdownFrame, WriterShutdownCalm
  <2>6. Counted(s) => Counted(WriterShutdown(c, TRUE))
    BY <2>3, <2>4, WriterShutdownCounted
  <2> HIDE DEF f
  <2>7. Told(f) /\ f.r.shutdown
    BY <2>3, <2>4, <2>5 DEF Told
  <2> QED BY <1>2, <1>6, <2>1, <2>5, <2>6, <2>7 DEF f
<1>7. CASE b.a.reader /\ ~processing
  <2>1. \A t \in BOOLEAN : ReaderShutdown(b, processing, t) = ReaderFinish(b, t)
    BY <1>4, <1>7 DEF ReaderShutdown, ReaderWatches
  <2>2. ASSUME NEW t \in BOOLEAN
        PROVE  LET f == ReaderFinish(b, t)
               IN f \in State /\ Calm(f)
    BY <1>3, <1>4, ReaderFinishCalm
  <2>3. Counted(s) => Counted(ReaderFinish(b, TRUE))
    BY <1>3, <1>4, ReaderFinishCalm
  <2> DEFINE c == ReaderFinish(b, taken)
             f == WriterShutdown(c, taken)
  <2>4. c \in State /\ Calm(c)
    BY <2>2
  <2>5. Counted(s) => Counted(WriterShutdown(ReaderFinish(b, TRUE), TRUE))
    BY <2>2, <2>3, WriterShutdownCounted DEF Calm
  <2> HIDE DEF c
  <2>6. /\ f \in State /\ f.r = c.r /\ f.a = c.a /\ f.h.finished = c.h.finished
        /\ WriterWatches(f) /\ ~f.w.errorWatch
    BY <2>4, WriterShutdownFrame, WriterShutdownCalm DEF Calm
  <2> HIDE DEF f
  <2>7. Calm(f)
    BY <2>4, <2>6 DEF Calm, Told, ReaderWatches
  <2> QED BY <1>2, <1>7, <2>1, <2>5, <2>6, <2>7 DEF f, c, Calm
<1> QED BY <1>5, <1>6, <1>7

-----------------------------------------------------------------------------
(* The callbacks and the calls of the owner *)

\* milter_agent_write_packet keeps the watches in order; a packet is written as
\* a whole and the flush point moves behind it.
LEMMA WrittenCalm ==
    ASSUME NEW s \in State, NEW quit \in BOOLEAN, Calm(s)
    PROVE  LET f == Written(s, quit)
           IN  /\ f \in State /\ Calm(f)
               /\ Counted(s) => Counted(f)
               /\ Due(s) => Due(f)
<1> DEFINE f == Written(s, quit)
           h1 == [s.h EXCEPT !.sent = s.h.sent + Packet, !.quit = quit]
           n == s.w.buffer + Packet
           w1 == [s.w EXCEPT !.buffer = n, !.writeWatch = TRUE, !.flushPoint = n]
<1>1. s.h \in Owner /\ s.w \in Writer /\ Packet \in Nat
  BY ConnectionAssumption DEF State
<1>2. /\ h1 \in Owner /\ h1.finished = s.h.finished /\ h1.owner = s.h.owner
      /\ h1.sent = s.h.sent + Packet /\ h1.ack = s.h.ack /\ h1.early = s.h.early
  <2>1. s.h.sent + Packet \in Nat
    BY <1>1 DEF Owner
  <2> QED BY <1>1, <2>1 DEF Owner
<1>3. /\ n \in Nat /\ w1 \in Writer /\ w1.io = s.w.io /\ w1.loop = s.w.loop
      /\ w1.errorWatch = s.w.errorWatch /\ w1.flushWatch = s.w.flushWatch
      /\ w1.buffer = n /\ w1.flushPoint = n
  <2>1. n \in Nat
    BY <1>1 DEF Writer
  <2> HIDE DEF n
  <2> QED BY <1>1, <2>1 DEF Writer
<1>4. WriterFlush(WriterWrite(s.w, Packet)) = w1
  BY <1>1, <1>3 DEF WriterFlush, WriterWrite, Writer
<1> HIDE DEF h1, w1
<1>5. ASSUME NEW k \in Nat, s.h.sent = k * Packet
      PROVE  \E j \in Nat : s.h.sent + Packet = j * Packet
  <2>1. s.h.sent + Packet = (k + 1) * Packet /\ k + 1 \in Nat
    BY <1>1, <1>5
  <2> QED BY <2>1
<1>6. CASE f = s
  BY <1>6
<1>7. CASE f # s /\ ~s.a.writer
  <2>1. f = [s EXCEPT !.h.sent = @ + Packet, !.h.quit = quit, !.w = @]
    BY <1>7 DEF Written
  <2>2. f = [s EXCEPT !.h = h1]
    BY <2>1 DEF State, h1
  <2> HIDE DEF f
  <2>3. /\ f \in State /\ f.w = s.w /\ f.r = s.r /\ f.a = s.a /\ f.ch = s.ch /\ f.h = h1
    BY <1>2, <2>2 DEF State
  <2>4. Calm(f)
    BY <1>2, <2>3 DEF Calm, WriterWatches, Told, ReaderWatches
  <2>5. ~s.w.errorWatch /\ ~s.w.flushWatch
    BY <1>7 DEF Calm, WriterWatches
  <2>6. Counted(s) => Counted(f)
    BY <1>2, <1>5, <2>3, <2>5 DEF Counted
  <2>7. Due(f)
    BY <2>3, <2>5 DEF Due
  <2> QED BY <2>3, <2>4, <2>6, <2>7 DEF f
<1>8. CASE f # s /\ s.a.writer
  <2>1. f = [s EXCEPT !.h.sent = @ + Packet, !.h.quit = quit,
                      !.w = WriterFlush(WriterWrite(@, Packet))]
        /\ s.w.io
    BY <1>8 DEF Written
  <2>2. f = [s EXCEPT !.h = h1, !.w = w1]
    BY <1>4, <2>1 DEF State, h1
  <2> HIDE DEF f
  <2>3. /\ f \in State /\ f.w = w1 /\ f.r = s.r /\ f.a = s.a /\ f.ch = s.ch /\ f.h = h1
    BY <1>2, <1>3, <2>2 DEF State
  <2>4. s.w.errorWatch
    BY <1>8, <2>1 DEF Calm, WriterWatches
  <2>5. Calm(f)
    BY <1>2, <1>3, <2>3, <2>4 DEF Calm, WriterWatches, Told, ReaderWatches
  <2>6. ASSUME Counted(s)
        PROVE  Counted(f)
    <3>1. s.h.sent = s.ch.out + s.ch.channel + s.w.buffer
      BY <2>4, <2>6 DEF Counted
    <3>2. h1.sent = s.ch.out + s.ch.channel + n
      BY <1>1, <1>2, <3>1 DEF State, Channel, Writer
    <3>3. \E j \in Nat : h1.sent = j * Packet
      BY <1>2, <1>5, <2>6 DEF Counted
    <3>4. s.h.ack <= s.ch.out /\ (s.h.owner = "server" => ~s.h.early)
      BY <2>6 DEF Counted
    <3> HIDE DEF n
    <3> QED BY <1>2, <1>3, <2>3, <3>2, <3>3, <3>4 DEF Counted
  <2>7. Due(s) => Due(f)
    BY <1>2, <1>3, <2>3 DEF Due, First
  <2> QED BY <2>3, <2>5, <2>6, <2>7 DEF f
<1> QED BY <1>6, <1>7, <1>8

\* The parts of the state.
LEMMA Parts ==
    /\ All.w = w /\ All.r = r /\ All.a = a /\ All.ch = ch /\ All.h = h
    /\ Inv => w \in Writer /\ r \in Reader /\ a \in Agent /\ ch \in Channel /\ h \in Owner
BY DEF All, Inv, State

\* A step to a state with the invariant.
LEMMA Landing ==
    ASSUME NEW f \in State, Become(f), Calm(f), ~Full /\ Whole(All) => Whole(f)
    PROVE  Kept
BY BecomeAll DEF Kept, Inv

\* A packet of the owner keeps the invariants.
LEMMA WritePacketKept ==
    ASSUME Inv, WritePacket
    PROVE  Kept
<1>1. PICK quit \in BOOLEAN : Become(Written(All, quit))
  BY DEF WritePacket
<1>2. Written(All, quit) \in State /\ Calm(Written(All, quit))
      /\ (Whole(All) => Whole(Written(All, quit)))
  BY WrittenCalm DEF Inv, Whole
<1> QED BY <1>1, <1>2, Landing

\* So does a flush the owner asks for.
LEMMA FlushKept ==
    ASSUME Inv, Flush
    PROVE  Kept
<1> DEFINE w1 == WriterFlush(w)
           f == [All EXCEPT !.w = w1]
<1>1. h.owner = "client" /\ a.writer /\ w.io /\ w' = w1 /\ UNCHANGED <<r, a, ch, h>>
  BY DEF Flush
<1>2. All \in State /\ Calm(All) /\ w.errorWatch
  BY <1>1, Parts DEF Inv, Calm, WriterWatches
<1>3. /\ w1 \in Writer /\ w1.errorWatch /\ w1.io /\ w1.buffer = w.buffer
      /\ w.flushPoint = w.buffer => w1.flushPoint = w.buffer
  <2>1. w \in Writer
    BY Parts
  <2>2. CASE w.writeWatch
    BY <1>1, <1>2, <2>1, <2>2 DEF WriterFlush, Writer
  <2>3. CASE ~w.writeWatch
    BY <1>1, <1>2, <2>1, <2>3 DEF WriterFlush, RequestFlush, Writer
  <2> QED BY <2>2, <2>3
<1> HIDE DEF w1
<1>4. /\ f \in State /\ f.w = w1 /\ f.r = r /\ f.a = a /\ f.ch = ch /\ f.h = h
  BY <1>2, <1>3, Parts DEF State
<1> HIDE DEF f
<1>5. Calm(f)
  BY <1>1, <1>2, <1>3, <1>4, Parts DEF Calm, WriterWatches, Told, ReaderWatches
<1>6. Counted(All) => Counted(f)
  BY <1>2, <1>3, <1>4, Parts DEF Counted
<1>7. Due(f)
  BY <1>1, <1>4 DEF Due
<1>8. Become(f)
  BY <1>1, <1>4 DEF Become
<1> QED BY <1>4, <1>5, <1>6, <1>7, <1>8, Landing DEF Whole

\* milter_agent_shutdown takes the invariant to the invariant.
LEMMA OwnerShutdownKept ==
    ASSUME Inv, OwnerShutdown
    PROVE  Kept
<1>1. PICK taken \in Taken : Become(AgentShutdown(All, FALSE, taken))
  BY DEF OwnerShutdown
<1> DEFINE f == AgentShutdown(All, FALSE, taken)
<1>2. taken \in BOOLEAN /\ (~Full => taken = TRUE)
  BY <1>1 DEF Taken
<1>3. f \in State /\ Calm(f) /\ ~f.w.errorWatch
  BY <1>2, AgentShutdownCalm DEF Inv
<1>4. ~Full /\ Counted(All) => Counted(f)
  BY <1>2, AgentShutdownCalm DEF Inv
<1>5. Become(f)
  BY <1>1
<1> HIDE DEF f
<1>6. Due(f)
  BY <1>3 DEF Due, Calm, WriterWatches
<1> QED BY <1>3, <1>4, <1>5, <1>6, Landing DEF Whole

\* n bytes go from the buffer into the channel; the flush point goes with them.
LEMMA WroteFrame ==
    ASSUME NEW x \in Writer, NEW n \in 1..x.buffer
    PROVE  LET y == Wrote(x, n)
           IN  /\ y \in Writer /\ y.buffer = x.buffer - n
               /\ y.io = x.io /\ y.errorWatch = x.errorWatch /\ y.writeWatch = x.writeWatch
               /\ x.flushPoint = x.buffer =>
                    y.flushPoint = y.buffer /\ (y.flushWatch => x.flushWatch \/ y.buffer = 0)
<1> DEFINE due == x.flushPoint > 0 /\ x.flushPoint <= n
           p == IF due \/ x.flushPoint = 0 THEN 0 ELSE x.flushPoint - n
           b == x.buffer - n
           z == [x EXCEPT !.buffer = b, !.flushPoint = p]
<1>1. x.buffer \in Nat /\ x.flushPoint \in Nat /\ n \in Nat /\ n <= x.buffer /\ n > 0
  BY DEF Writer
<1>2. b \in Nat /\ p \in Nat
  BY <1>1
<1>3. x.flushPoint = x.buffer => p = b /\ (due => b = 0)
  BY <1>1
<1>4. Wrote(x, n) = IF due THEN [z EXCEPT !.flushWatch = TRUE] ELSE z
  BY <1>1 DEF Wrote, RequestFlush, Writer
<1> HIDE DEF due, p, b
<1>5. /\ z \in Writer /\ z.buffer = b /\ z.flushPoint = p /\ z.flushWatch = x.flushWatch
      /\ z.io = x.io /\ z.errorWatch = x.errorWatch /\ z.writeWatch = x.writeWatch
  BY <1>2 DEF Writer
<1> HIDE DEF z
<1>6. CASE due
  BY <1>3, <1>4, <1>5, <1>6 DEF Writer, b
<1>7. CASE ~due
  BY <1>3, <1>4, <1>5, <1>7 DEF Writer, b
<1> QED BY <1>6, <1>7

\* So does write_watch_func, whatever the channel takes and whatever the owner does
\* when it is told.
LEMMA WriteWatchKept ==
    ASSUME Inv, WriteWatch
    PROVE  Kept
<1>0. /\ All \in State /\ Calm(All) /\ w.writeWatch /\ w.errorWatch
      /\ w \in Writer /\ ch \in Channel /\ h \in Owner
  BY Parts DEF Inv, WriteWatch, Calm, WriterWatches
<1> DEFINE v == [w EXCEPT !.writeWatch = FALSE]
           e == [All EXCEPT !.w = v]
<1>1. /\ v \in Writer /\ v.io = w.io /\ v.errorWatch = w.errorWatch /\ v.flushWatch = w.flushWatch
      /\ v.buffer = w.buffer /\ v.flushPoint = w.flushPoint /\ ~v.writeWatch
  BY <1>0 DEF Writer
<1> HIDE DEF v
<1>2. e \in State /\ e.w = v /\ e.r = r /\ e.a = a /\ e.ch = ch /\ e.h = h
  BY <1>0, <1>1, Parts DEF State
<1> HIDE DEF e
<1>3. Calm(e) /\ (Whole(All) => Whole(e))
  BY <1>0, <1>1, <1>2, Parts DEF Calm, WriterWatches, Told, ReaderWatches, Whole, Counted, Due, First
<1>4. CASE w.buffer = 0
  <2>1. Become(e)
    BY <1>2, <1>4 DEF WriteWatch, Become, v
  <2> QED BY <1>2, <1>3, <2>1, Landing
<1>5. CASE w.buffer # 0 /\ ~ch.open
  <2> DEFINE f == TellError(e)
  <2>1. [All EXCEPT !.w.writeWatch = FALSE] = e
    BY <1>0, Parts DEF State, e, v
  <2>2. Become(f)
    BY <1>5, <2>1 DEF WriteWatch
  <2>3. /\ f \in State /\ f.w = e.w /\ f.r = e.r /\ f.a = e.a /\ f.ch = e.ch
        /\ f.h.owner = e.h.owner /\ f.h.sent = e.h.sent /\ f.h.finished = e.h.finished
        /\ f.h.ack = e.h.ack /\ f.h.early = e.h.early
    BY <1>2, TellErrorFrame
  <2> HIDE DEF f
  <2>4. Calm(f) /\ (Whole(All) => Whole(f))
    BY <1>3, <2>3 DEF Calm, WriterWatches, Told, ReaderWatches, Whole, Counted, Due, First
  <2> QED BY <2>2, <2>3, <2>4, Landing
<1>6. CASE w.buffer # 0 /\ ch.open
  <2>1. PICK n \in 1..w.buffer : /\ w' = Wrote(w, n)
                                 /\ ch' = [ch EXCEPT !.channel = @ + n]
                                 /\ UNCHANGED <<r, a, h>>
    BY <1>6 DEF WriteWatch
  <2> DEFINE y == Wrote(w, n)
             c == [ch EXCEPT !.channel = ch.channel + n]
             f == [All EXCEPT !.w = y, !.ch = c]
  <2>2. /\ y \in Writer /\ y.buffer = w.buffer - n /\ n \in Nat /\ w.buffer \in Nat
        /\ y.io = w.io /\ y.errorWatch = w.errorWatch /\ y.writeWatch = w.writeWatch
        /\ w.flushPoint = w.buffer =>
                    y.flushPoint = y.buffer /\ (y.flushWatch => w.flushWatch \/ y.buffer = 0)
    <3>1. w.buffer \in Nat /\ n \in Nat
      BY <1>0, <2>1 DEF Writer
    <3> QED BY <1>0, <2>1, <3>1, WroteFrame
  <2>3. c \in Channel /\ c.out = ch.out /\ c.channel = ch.channel + n
    <3>1. ch.channel + n \in Nat
      BY <1>0, <2>2 DEF Channel
    <3> QED BY <1>0, <3>1 DEF Channel
  <2> HIDE DEF y, c
  <2>4. f \in State /\ f.w = y /\ f.r = r /\ f.a = a /\ f.ch = c /\ f.h = h
    BY <1>0, <2>2, <2>3, Parts DEF State
  <2> HIDE DEF f
  <2>5. Become(f)
    BY <2>1, <2>4 DEF Become, y, c
  <2>6. Calm(f)
    BY <1>0, <2>2, <2>4, Parts DEF Calm, WriterWatches, Told, ReaderWatches
  <2>7. ASSUME Counted(All), Due(All)
        PROVE  Counted(f) /\ Due(f)
    <3>1. /\ h.sent = ch.out + ch.channel + w.buffer /\ w.flushPoint = w.buffer
          /\ h.ack <= ch.out /\ \E k \in Nat : h.sent = k * Packet
          /\ h.owner = "server" => ~h.early
      BY <1>0, <2>7, Parts DEF Counted
    <3>2. h.ack \in Nat /\ ch.out \in Nat /\ ch.channel \in Nat /\ n > 0
      BY <1>0, <2>2, <2>1 DEF Owner, Channel
    <3>3. h.sent = c.out + c.channel + y.buffer
      BY <2>2, <2>3, <3>1, <3>2
    <3>4. Counted(f)
      BY <2>2, <2>3, <2>4, <3>1, <3>3 DEF Counted
    <3>5. ASSUME h.owner = "server", y.flushWatch
          PROVE  First(f) <= c.out + c.channel
      <4>1. CASE w.flushWatch
        <5>1. First(All) <= ch.out + ch.channel /\ First(f) = First(All)
          BY <2>4, <2>7, <3>5, <4>1, Parts DEF Due, First
        <5>2. First(All) \in Int
          BY <3>2, Parts, ConnectionAssumption DEF First
        <5> QED BY <2>2, <2>3, <3>2, <5>1, <5>2
      <4>2. CASE y.buffer = 0
        <5>1. PICK k \in Nat : h.sent = k * Packet
          BY <3>1
        <5>2. h.ack < k * Packet /\ c.out + c.channel = k * Packet
          BY <2>2, <2>3, <3>1, <3>2, <3>3, <4>2, <5>1
        <5> QED BY <2>4, <3>2, <5>2, FirstIsWritten DEF First
      <4> QED BY <2>2, <3>1, <3>5, <4>1, <4>2
    <3> QED BY <2>4, <3>4, <3>5 DEF Due
  <2> QED BY <2>4, <2>5, <2>6, <2>7, Landing DEF Whole
<1> QED BY <1>4, <1>5, <1>6

\* So does flush_watch_func.
LEMMA FlushWatchKept ==
    ASSUME Inv, FlushWatch
    PROVE  Kept
<1>0. /\ All \in State /\ Calm(All) /\ w.flushWatch /\ w.errorWatch
      /\ w \in Writer /\ ch \in Channel /\ h \in Owner
      /\ ch.out \in Nat /\ ch.channel \in Nat
  BY Parts DEF Inv, FlushWatch, Calm, WriterWatches, Channel
<1>1. ASSUME NEW t \in State, Calm(t)
      PROVE  LET f == [t EXCEPT !.w.flushWatch = FALSE]
             IN  /\ f \in State /\ f.r = t.r /\ f.a = t.a /\ f.ch = t.ch /\ f.h = t.h
                 /\ f.w.errorWatch = t.w.errorWatch /\ ~f.w.flushWatch
                 /\ Calm(f) /\ Due(f)
                 /\ Counted(t) => Counted(f)
  <2> DEFINE v == [t.w EXCEPT !.flushWatch = FALSE]
             f == [t EXCEPT !.w.flushWatch = FALSE]
  <2>1. /\ v \in Writer /\ v.io = t.w.io /\ v.errorWatch = t.w.errorWatch /\ ~v.flushWatch
        /\ v.writeWatch = t.w.writeWatch /\ v.buffer = t.w.buffer /\ v.flushPoint = t.w.flushPoint
    BY DEF State, Writer
  <2>2. f = [t EXCEPT !.w = v]
    BY DEF State
  <2> HIDE DEF v, f
  <2>3. f \in State /\ f.r = t.r /\ f.a = t.a /\ f.ch = t.ch /\ f.h = t.h /\ f.w = v
    BY <2>1, <2>2 DEF State
  <2>4. Calm(f)
    BY <1>1, <2>1, <2>3 DEF Calm, WriterWatches, Told, ReaderWatches
  <2>5. Due(f) /\ (Counted(t) => Counted(f))
    BY <2>1, <2>3 DEF Due, Counted
  <2> QED BY <2>1, <2>3, <2>4, <2>5 DEF f
<1>2. CASE ~ch.open
  <2> DEFINE e == [All EXCEPT !.w.flushWatch = FALSE]
             f == TellError(e)
  <2>1. Become(f)
    BY <1>2 DEF FlushWatch
  <2>2. e \in State /\ Calm(e) /\ Due(e) /\ (Counted(All) => Counted(e))
    BY <1>0, <1>1
  <2> HIDE DEF e
  <2>3. /\ f \in State /\ f.w = e.w /\ f.r = e.r /\ f.a = e.a /\ f.ch = e.ch
        /\ f.h.owner = e.h.owner /\ f.h.sent = e.h.sent /\ f.h.finished = e.h.finished
        /\ f.h.ack = e.h.ack /\ f.h.early = e.h.early
    BY <2>2, TellErrorFrame
  <2> HIDE DEF f
  <2>4. Calm(f) /\ Due(f) /\ (Counted(All) => Counted(f))
    BY <2>2, <2>3 DEF Calm, WriterWatches, Told, ReaderWatches, Counted, Due, First
  <2> QED BY <2>1, <2>3, <2>4, Landing DEF Whole
<1>3. ASSUME NEW n \in 1..(ch.channel - 1), ch' = [ch EXCEPT !.out = @ + n, !.channel = @ - n],
             UNCHANGED <<w, r, a, h>>
      PROVE  Kept
  <2> DEFINE c == [ch EXCEPT !.out = ch.out + n, !.channel = ch.channel - n]
             f == [All EXCEPT !.ch = c]
  <2>1. ch.out + n \in Nat /\ ch.channel - n \in Nat /\ n \in Nat
    BY <1>0
  <2>2. c \in Channel /\ c.out = ch.out + n /\ c.channel = ch.channel - n
    BY <1>0, <2>1 DEF Channel
  <2>3. ch' = c
    BY <1>3
  <2> HIDE DEF c
  <2>4. f \in State /\ f.w = w /\ f.r = r /\ f.a = a /\ f.ch = c /\ f.h = h
    BY <1>0, <2>2, Parts DEF State
  <2> HIDE DEF f
  <2>5. Become(f)
    BY <1>3, <2>3, <2>4 DEF Become
  <2>6. Calm(f)
    BY <1>0, <2>4, Parts DEF Calm, WriterWatches, Told, ReaderWatches
  <2>7. h.ack \in Nat /\ h.sent \in Nat /\ w.buffer \in Nat
    BY <1>0 DEF Owner, Writer
  <2>8. c.out + c.channel = ch.out + ch.channel /\ (h.ack <= ch.out => h.ack <= c.out)
        /\ (h.sent = ch.out + ch.channel + w.buffer => h.sent = c.out + c.channel + w.buffer)
    BY <1>0, <2>1, <2>2, <2>7
  <2>9. Counted(All) => Counted(f)
    BY <2>4, <2>8, Parts DEF Counted
  <2>10. Due(All) => Due(f)
    BY <2>4, <2>8, Parts DEF Due, First
  <2> QED BY <2>4, <2>5, <2>6, <2>9, <2>10, Landing DEF Whole
<1>4. ASSUME NEW taken \in Taken,
             LET out == [All EXCEPT !.ch.out = @ + ch.channel, !.ch.channel = 0]
                 s   == TellFlushed(out)
                 t == IF s.h.quit THEN AgentShutdown(s, FALSE, taken) ELSE s
             IN  Become([t EXCEPT !.w.flushWatch = FALSE])
      PROVE  Kept
  <2> DEFINE c == [ch EXCEPT !.out = ch.out + ch.channel, !.channel = 0]
             out == [All EXCEPT !.ch.out = @ + ch.channel, !.ch.channel = 0]
             s == TellFlushed(out)
             t == IF s.h.quit THEN AgentShutdown(s, FALSE, taken) ELSE s
             f == [t EXCEPT !.w.flushWatch = FALSE]
  <2>0. Become(f)
    BY <1>4
  <2>1. c \in Channel /\ c.out = ch.out + ch.channel /\ c.channel = 0
    <3>1. ch.out + ch.channel \in Nat
      BY <1>0
    <3> QED BY <1>0, <3>1 DEF Channel
  <2>2. out = [All EXCEPT !.ch = c]
    BY <1>0, Parts DEF State
  <2> HIDE DEF c, out
  <2>3. out \in State /\ out.w = w /\ out.r = r /\ out.a = a /\ out.ch = c /\ out.h = h
    BY <1>0, <2>1, <2>2, Parts DEF State
  <2>4. /\ s \in State /\ s.w = w /\ s.r = r /\ s.a = a /\ s.ch = c
        /\ s.h.owner = h.owner /\ s.h.sent = h.sent /\ s.h.finished = h.finished
        /\ s.h.ack = c.out
        /\ ~h.early /\ (h.ack < h.sent => First(out) <= c.out) => ~s.h.early
    BY <2>3, TellFlushedFrame
  <2> HIDE DEF s
  <2>5. Calm(s)
    BY <1>0, <2>4, Parts DEF Calm, WriterWatches, Told, ReaderWatches
  <2>6. ASSUME Counted(All), Due(All)
        PROVE  Counted(s)
    <3>1. /\ h.sent = ch.out + ch.channel + w.buffer /\ w.flushPoint = w.buffer
          /\ \E k \in Nat : h.sent = k * Packet
          /\ h.owner = "server" => ~h.early
      BY <1>0, <2>6, Parts DEF Counted
    <3>2. h.owner = "server" => First(out) <= c.out
      BY <1>0, <2>1, <2>3, <2>6, Parts DEF Due, First
    <3>3. h.sent = c.out + c.channel + w.buffer /\ c.out \in Nat
      BY <1>0, <2>1, <3>1 DEF Writer
    <3>4. s.h.ack <= s.ch.out /\ (s.h.owner = "server" => ~s.h.early)
      BY <2>4, <3>1, <3>2, <3>3
    <3> QED BY <2>4, <3>1, <3>3, <3>4 DEF Counted
  <2>7. taken \in BOOLEAN /\ (~Full => taken = TRUE)
    BY <1>4 DEF Taken
  <2>8. t \in State /\ Calm(t)
    BY <2>4, <2>5, <2>7, AgentShutdownCalm
  <2>9. ~Full /\ Counted(s) => Counted(t)
    BY <2>4, <2>5, <2>7, AgentShutdownCalm
  <2> HIDE DEF t
  <2>10. f \in State /\ Calm(f) /\ Due(f) /\ (Counted(t) => Counted(f))
    BY <1>1, <2>8
  <2> QED BY <2>0, <2>6, <2>9, <2>10, Landing DEF Whole
<1> QED BY <1>2, <1>3, <1>4 DEF FlushWatch

\* So does the writer's error watch.
LEMMA WriterErrorWatchKept ==
    ASSUME Inv, WriterErrorWatch
    PROVE  Kept
<1>0. All \in State /\ Calm(All) /\ w \in Writer /\ a \in Agent
  BY Parts DEF Inv
<1> DEFINE v == [w EXCEPT !.errorWatch = FALSE, !.writeWatch = FALSE, !.flushWatch = FALSE]
           e == [All EXCEPT !.w.errorWatch = FALSE, !.w.writeWatch = FALSE, !.w.flushWatch = FALSE]
           s == TellError(e)
           b == [s.a EXCEPT !.writer = FALSE]
           f == CbWriterFinished(s)
<1>1. v \in Writer /\ ~v.errorWatch /\ ~v.writeWatch /\ ~v.flushWatch
  BY <1>0 DEF Writer
<1>2. e = [All EXCEPT !.w = v]
  BY <1>0, Parts DEF State
<1>3. Become(f)
  BY DEF WriterErrorWatch
<1> HIDE DEF v, e
<1>4. e \in State /\ e.w = v /\ e.r = r /\ e.a = a /\ e.ch = ch /\ e.h = h
  BY <1>0, <1>1, <1>2, Parts DEF State
<1>5. /\ s \in State /\ s.w = v /\ s.r = r /\ s.a = a /\ s.ch = ch
      /\ s.h.owner = h.owner /\ s.h.sent = h.sent /\ s.h.finished = h.finished
      /\ s.h.ack = h.ack /\ s.h.early = h.early
  BY <1>4, TellErrorFrame
<1> HIDE DEF s
<1>6. b \in Agent /\ ~b.writer /\ b.reader = a.reader /\ b.finished = a.finished
  BY <1>0, <1>5 DEF Agent
<1>7. f = [s EXCEPT !.a = b]
  BY <1>5 DEF CbWriterFinished, State
<1> HIDE DEF b, f
<1>8. f \in State /\ f.w = v /\ f.r = r /\ f.a = b /\ f.ch = ch /\ f.h = s.h
  BY <1>5, <1>6, <1>7 DEF State
<1>9. Calm(f)
  BY <1>0, <1>1, <1>5, <1>6, <1>8, Parts DEF Calm, WriterWatches, Told, ReaderWatches
<1>10. Due(f) /\ (Counted(All) => Counted(f))
  BY <1>1, <1>5, <1>8, Parts DEF Counted, Due
<1> QED BY <1>3, <1>8, <1>9, <1>10, Landing DEF Whole

\* A reader that finishes takes the invariant to the invariant.
LEMMA ReaderFinishKept ==
    ASSUME NEW s \in State, NEW taken \in Taken, WriterWatches(s), Told(s),
           ~Full /\ Whole(All) => Counted(s), Become(ReaderFinish(s, taken))
    PROVE  Kept
<1> DEFINE f == ReaderFinish(s, taken)
<1>1. taken \in BOOLEAN /\ (~Full => taken = TRUE)
  BY DEF Taken
<1>2. f \in State /\ Calm(f) /\ f.a.finished
  BY <1>1, ReaderFinishCalm
<1>3. ~Full /\ Counted(s) => Counted(f)
  BY <1>1, ReaderFinishCalm
<1>4. Become(f)
  OBVIOUS
<1> HIDE DEF f
<1>5. Due(f)
  BY <1>2 DEF Due, Calm, Told, WriterWatches
<1> QED BY <1>2, <1>3, <1>4, <1>5, Landing DEF Whole

\* The end of the input and an error of the reader.
LEMMA ReaderEndKept ==
    ASSUME Inv, NEW taken \in Taken, NEW error \in BOOLEAN,
           Become(ReaderFinish(IF error THEN TellError(All) ELSE All, taken))
    PROVE  Kept
<1>1. All \in State /\ Calm(All)
  BY DEF Inv
<1>2. CASE ~error
  BY <1>1, <1>2, ReaderFinishKept DEF Calm, Whole
<1>3. CASE error
  <2> DEFINE s == TellError(All)
  <2>1. Become(ReaderFinish(s, taken))
    BY <1>3
  <2>2. /\ s \in State /\ s.w = w /\ s.r = r /\ s.a = a /\ s.ch = ch
        /\ s.h.owner = h.owner /\ s.h.sent = h.sent /\ s.h.finished = h.finished
        /\ s.h.ack = h.ack /\ s.h.early = h.early
    BY <1>1, Parts, TellErrorFrame
  <2> HIDE DEF s
  <2>3. WriterWatches(s) /\ Told(s) /\ (Counted(All) => Counted(s))
    BY <1>1, <2>2, Parts DEF Calm, WriterWatches, Told, Counted
  <2> QED BY <2>1, <2>2, <2>3, ReaderFinishKept DEF Whole
<1> QED BY <1>2, <1>3

\* So does read_watch_func, with the answers of the peer.
LEMMA ReadWatchKept ==
    ASSUME Inv, ReadWatch
    PROVE  Kept
<1>0. All \in State /\ Calm(All) /\ ch \in Channel
  BY Parts DEF Inv
<1>1. PICK taken \in Taken :
       IF ch.input > 0
       THEN \E t \in ReadFromChannel(All, taken) :
              Become(IF t.r.shutdown THEN ReaderFinish(t, taken) ELSE t)
       ELSE \E error \in BOOLEAN :
              Become(ReaderFinish(IF error THEN TellError(All) ELSE All, taken))
  BY DEF ReadWatch
<1>2. CASE ~(ch.input > 0)
  <2>1. PICK error \in BOOLEAN : Become(ReaderFinish(IF error THEN TellError(All) ELSE All, taken))
    BY <1>1, <1>2
  <2> QED BY <2>1, ReaderEndKept
<1>3. CASE ch.input > 0
  <2>1. PICK t \in ReadFromChannel(All, taken) :
          Become(IF t.r.shutdown THEN ReaderFinish(t, taken) ELSE t)
    BY <1>1, <1>3
  <2> DEFINE c == [ch EXCEPT !.input = ch.input - 1]
             read == [All EXCEPT !.ch.input = @ - 1]
  <2>2. c \in Channel /\ c.out = ch.out /\ c.channel = ch.channel
    <3>1. ch.input - 1 \in Nat
      BY <1>0, <1>3 DEF Channel
    <3> QED BY <1>0, <3>1 DEF Channel
  <2>3. read = [All EXCEPT !.ch = c]
    BY <1>0, Parts DEF State
  <2>4. \/ t = read \/ t = Written(read, FALSE) \/ t = AgentShutdown(read, TRUE, taken)
    BY <2>1 DEF ReadFromChannel
  <2> HIDE DEF c, read
  <2>5. read \in State /\ read.w = w /\ read.r = r /\ read.a = a /\ read.ch = c /\ read.h = h
    BY <1>0, <2>2, <2>3, Parts DEF State
  <2>6. Calm(read) /\ (Counted(All) => Counted(read)) /\ (Due(All) => Due(read))
    BY <1>0, <2>2, <2>5, Parts DEF Calm, WriterWatches, Told, ReaderWatches, Counted, Due, First
  <2>7. CASE t = read
    <3>1. Become(read)
      BY <2>1, <2>6, <2>7 DEF Calm
    <3> QED BY <2>5, <2>6, <3>1, Landing DEF Whole
  <2>8. CASE t = Written(read, FALSE)
    <3>1. t \in State /\ Calm(t) /\ (Counted(read) => Counted(t)) /\ (Due(read) => Due(t))
      BY <2>5, <2>6, <2>8, WrittenCalm
    <3>2. Become(t)
      BY <2>1, <3>1 DEF Calm
    <3> QED BY <2>6, <3>1, <3>2, Landing DEF Whole
  <2>9. CASE t = AgentShutdown(read, TRUE, taken)
    <3>1. taken \in BOOLEAN /\ (~Full => taken = TRUE)
      BY DEF Taken
    <3>2. t \in State /\ WriterWatches(t) /\ Told(t)
      BY <2>5, <2>6, <2>9, <3>1, AgentShutdownCalm
    <3>3. ~Full /\ Counted(read) => Counted(t)
      BY <2>5, <2>6, <2>9, <3>1, AgentShutdownCalm
    <3>4. read.a.reader
      BY <2>5, <2>6 DEF ReadWatch, Calm, ReaderWatches
    <3>5. t.r.shutdown
      BY <2>5, <2>6, <2>9, <3>1, <3>4, AgentShutdownCalm
    <3>6. Become(ReaderFinish(t, taken))
      BY <2>1, <3>5
    <3> QED BY <2>6, <3>2, <3>3, <3>6, ReaderFinishKept DEF Whole
  <2> QED BY <2>4, <2>7, <2>8, <2>9
<1> QED BY <1>2, <1>3

\* So does the reader's error watch.
LEMMA ReaderErrorWatchKept ==
    ASSUME Inv, ReaderErrorWatch
    PROVE  Kept
BY ReaderEndKept DEF ReaderErrorWatch

\* The peer changes neither the bytes nor the watches.
LEMMA PeerKept ==
    ASSUME Inv, PeerSends \/ PeerCloses
    PROVE  Kept
<1>0. All \in State /\ Calm(All) /\ ch \in Channel
  BY Parts DEF Inv
<1>1. ch' \in Channel /\ ch'.out = ch.out /\ ch'.channel = ch.channel
  <2>1. CASE PeerSends
    <3>1. ch.input + 1 \in Nat /\ ch' = [ch EXCEPT !.input = ch.input + 1]
      BY <1>0, <2>1 DEF PeerSends, Channel
    <3> QED BY <1>0, <3>1 DEF Channel
  <2>2. CASE PeerCloses
    BY <1>0, <2>2 DEF PeerCloses, Channel
  <2> QED BY <2>1, <2>2
<1>2. UNCHANGED <<w, r, a, h>>
  BY DEF PeerSends, PeerCloses
<1>3. PICK c \in Channel : c = ch'
  BY <1>1
<1> DEFINE f == [All EXCEPT !.ch = c]
<1>4. f \in State /\ f.w = w /\ f.r = r /\ f.a = a /\ f.ch = c /\ f.h = h
  BY <1>0, <1>3, Parts DEF State
<1> HIDE DEF f
<1>5. Become(f)
  BY <1>2, <1>3, <1>4 DEF Become
<1>6. Calm(f) /\ (Counted(All) => Counted(f)) /\ (Due(All) => Due(f))
  BY <1>0, <1>1, <1>3, <1>4, Parts DEF Calm, WriterWatches, Told, ReaderWatches, Counted, Due, First
<1> QED BY <1>4, <1>5, <1>6, Landing DEF Whole

-----------------------------------------------------------------------------
(* The theorems *)

\* A connection starts with the invariant.
LEMMA InitInv ==
    ASSUME Init
    PROVE  Inv /\ Whole(All)
<1>1. /\ w \in Writer /\ r \in Reader /\ a \in Agent /\ ch \in Channel /\ h \in Owner
  <2>1. w \in Writer
    BY DEF Init, Writer
  <2>2. r \in Reader /\ a \in Agent
    BY DEF Init, Reader, Agent
  <2>3. ch \in Channel
    <3>1. PICK x \in BOOLEAN : ch = [channel |-> 0, out |-> 0, input |-> 0, open |-> TRUE, watched |-> x]
      BY DEF Init
    <3> QED BY <3>1 DEF Channel
  <2>4. h \in Owner
    <3>1. PICK x \in {"server", "client"} :
            h = [owner |-> x, sent |-> 0, ack |-> 0, quit |-> FALSE, closing |-> FALSE,
                 early |-> FALSE, failed |-> FALSE, finished |-> 0]
      BY DEF Init
    <3> QED BY <3>1 DEF Owner
  <2> QED BY <2>1, <2>2, <2>3, <2>4
<1>2. All \in State
  BY <1>1 DEF All, State
<1>3. Calm(All)
  BY Parts DEF Init, Calm, WriterWatches, Told, ReaderWatches
<1>4. Counted(All)
  <2>1. h.ack = 0 /\ h.sent = 0 /\ ch.out = 0 /\ ch.channel = 0 /\ w.buffer = 0 /\ w.flushPoint = 0
        /\ ~h.early
    BY DEF Init
  <2>2. 0 = 0 * Packet
    BY ConnectionAssumption
  <2> QED BY <2>1, <2>2, Parts DEF Counted
<1>5. Due(All)
  BY Parts DEF Init, Due
<1> QED BY <1>2, <1>3, <1>4, <1>5 DEF Inv, Whole

\* Every step keeps the invariant.
LEMMA NextKept ==
    ASSUME Inv, [Next]_vars
    PROVE  Kept
<1>1. CASE Next
  BY <1>1, WritePacketKept, FlushKept, OwnerShutdownKept, WriteWatchKept, FlushWatchKept,
     WriterErrorWatchKept, ReadWatchKept, ReaderErrorWatchKept, PeerKept DEF Next
<1>2. CASE UNCHANGED vars
  <2>1. All' = All
    BY <1>2 DEF vars, All
  <2> QED BY <2>1 DEF Kept, Inv
<1> QED BY <1>1, <1>2

\* The reader, the writer and the agent keep their types, and the watches of
\* each live exactly as long as it does.
THEOREM WatchesInOrder == Spec => []Inv
<1>1. Init => Inv
  BY InitInv
<1>2. Inv /\ [Next]_vars => Inv'
  BY NextKept DEF Kept
<1> QED BY <1>1, <1>2, PTL DEF Spec

\* However the callbacks, the calls of the owner and the peer interleave, the
\* owner is told once that the connection is finished and nothing calls it back
\* afterwards (milter_agent_shutdown, finished, clear_watch_id).
THEOREM QuietAfterwards == Spec => []Quiet
<1>1. Inv => Quiet
  BY Parts DEF Inv, Calm, WriterWatches, Told, ReaderWatches, Quiet
<1> QED BY <1>1, WatchesInOrder, PTL

\* While the channel takes what is flushed, a server context never hears FLUSHED
\* before the first packet it can be about is on the wire, for packets of any
\* size and any number of them (milter_writer_flush, write_watch_func,
\* flush_watch_func).
THEOREM FlushedInTime ==
    ASSUME ~Full
    PROVE  Spec => []NoEarlyFlush
<1>1. Init => Inv /\ Whole(All)
  BY InitInv
<1>2. Inv /\ Whole(All) /\ [Next]_vars => (Inv /\ Whole(All))'
  BY NextKept DEF Kept
<1>3. Whole(All) => NoEarlyFlush
  BY Parts DEF Whole, Counted, NoEarlyFlush
<1> QED BY <1>1, <1>2, <1>3, PTL DEF Spec
=============================================================================
