---------------------------- MODULE Connection ------------------------------
(***************************************************************************)
(* One connection of milter manager, to the MTA or to a child: the agent   *)
(* (milter-agent.c), its reader (milter-reader.c) and its writer           *)
(* (milter-writer.c).  A packet goes through three places: the writer's    *)
(* buffer, the buffer of the GIOChannel and the wire.  The event loop      *)
(* calls the reader and the writer back through the watches they have      *)
(* registered; they tell the agent, and the agent its owner, a context,    *)
(* that a packet was flushed, that something failed or that the connection *)
(* is finished.  The channel, the event loop and the peer are external.    *)
(***************************************************************************)
EXTENDS Integers

CONSTANTS Packet,      \* bytes of a packet, the unit in which bytes are counted
          MaxPackets,  \* bound: packets the owner writes
          MaxInput,    \* bound: chunks the peer sends
          Full         \* whether the channel may take nothing at a shutdown

ASSUME ConnectionAssumption ==
  /\ Packet \in Nat \ {0} /\ MaxPackets \in Nat /\ MaxInput \in Nat
  /\ Full \in BOOLEAN

VARIABLES
  w,   \* the writer: io_channel, loop, the length of buffer, flush_point, watches
  r,   \* the reader: its two watches and shutdown_requested
  a,   \* the agent: whether it has a reader and a writer, finished
  ch,  \* bytes in the channel and on the wire, unread chunks, whether the peer is there,
       \* whether the event loop reports a closed descriptor to the error watches
  h    \* the owner, a server or a client context: bytes written, bytes on the wire at the last FLUSHED,
       \* QUIT is written and not flushed, and what it was told

vars == <<w, r, a, ch, h>>
All == [w |-> w, r |-> r, a |-> a, ch |-> ch, h |-> h]
Become(s) == w' = s.w /\ r' = s.r /\ a' = s.a /\ ch' = s.ch /\ h' = s.h
-----------------------------------------------------------------------------
(* What the owner is told. *)

\* The signal FLUSHED.  The owner takes it for an answer to its packets: it is
\* early when not even the first of the packets still unanswered is out.
TellFlushed(s) ==
  LET first == (s.h.ack \div Packet + 1) * Packet
  IN  [s EXCEPT !.h.ack = s.ch.out,
                !.h.early = @ \/ (s.h.ack < s.h.sent /\ s.ch.out < first)]

TellError(s) == [s EXCEPT !.h.failed = TRUE]
-----------------------------------------------------------------------------
(* The writer. *)

\* request_flush
RequestFlush(x) == [x EXCEPT !.flushWatch = TRUE]

\* What is still in the buffer is not waited for.
WriterFlushAtOnce(x) == RequestFlush(x)

\* milter_writer_flush: as soon as the bytes of now are in the channel.
WriterFlush(x) == IF x.writeWatch THEN [x EXCEPT !.flushPoint = x.buffer]
                  ELSE RequestFlush(x)

\* milter_writer_write
WriterWrite(x, n) == [x EXCEPT !.buffer = @ + n, !.writeWatch = TRUE]

\* A flush that is under way is left alone.
ClearWatchesButFlush(x) == [x EXCEPT !.writeWatch = FALSE, !.errorWatch = FALSE, !.loop = FALSE]

\* clear_watch_id
ClearWatches(x) == [x EXCEPT !.writeWatch = FALSE, !.flushWatch = FALSE,
                             !.errorWatch = FALSE, !.loop = FALSE]

\* flush_buffer_on_shutdown: FLUSHED comes whatever the channel took.
FlushBuffer(s, taken) ==
  CASE s.w.buffer = 0 -> s
    [] s.w.buffer # 0 /\ ~s.ch.open -> TellError(s)
    [] OTHER -> TellFlushed(
         IF taken THEN [s EXCEPT !.w.buffer = 0, !.ch.channel = 0,
                                 !.ch.out = @ + s.ch.channel + s.w.buffer]
         ELSE s)

\* milter_writer_shutdown
WriterShutdown(s, taken) ==
  IF ~s.a.writer \/ ~s.w.errorWatch THEN s
  ELSE LET f == FlushBuffer([s EXCEPT !.w = ClearWatches(@)], taken)
       IN  [f EXCEPT !.w.io = FALSE]
-----------------------------------------------------------------------------
(* The reader and the agent. *)

\* The signal FINISHED of the agent: the owner is told, then finished runs.
\* The reader is gone whenever it is emitted.
AgentFinished(s, taken) ==
  IF s.a.finished THEN s
  ELSE WriterShutdown([s EXCEPT !.h.finished = @ + 1, !.a.finished = TRUE], taken)

CbReaderFinished(s, taken) == AgentFinished([s EXCEPT !.a.reader = FALSE], taken)

CbWriterFinished(s) == [s EXCEPT !.a.writer = FALSE]

\* finish of the reader
ReaderFinish(s, taken) ==
  CbReaderFinished([s EXCEPT !.r = [readWatch |-> FALSE, errorWatch |-> FALSE,
                                    shutdown |-> FALSE]], taken)

\* A shutdown asked for by the reader's own callback is dropped.
ReaderShutdownDropped(s, processing, taken) ==
  IF processing \/ ~s.r.readWatch \/ s.r.shutdown THEN s ELSE ReaderFinish(s, taken)

\* milter_reader_shutdown, called from the reader's own callback or not.
ReaderShutdown(s, processing, taken) ==
  IF ~s.r.readWatch \/ s.r.shutdown THEN s
  ELSE IF processing THEN [s EXCEPT !.r.shutdown = TRUE]
  ELSE ReaderFinish(s, taken)

\* milter_agent_shutdown.  A shutdown that the signals of this one ask for
\* does nothing (shutting_down).
AgentShutdown(s, processing, taken) ==
  LET b == [s EXCEPT !.h.quit = FALSE, !.h.closing = TRUE]
  IN  IF b.a.reader
      THEN WriterShutdown(ReaderShutdown(b, processing, taken), taken)
      ELSE AgentFinished(WriterShutdown(b, taken), taken)

Taken == IF Full THEN BOOLEAN ELSE {TRUE}
-----------------------------------------------------------------------------
\* milter_agent_start
Init ==
  /\ w = [io |-> TRUE, loop |-> TRUE, buffer |-> 0, flushPoint |-> 0,
          writeWatch |-> FALSE, flushWatch |-> FALSE, errorWatch |-> TRUE]
  /\ r = [readWatch |-> TRUE, errorWatch |-> TRUE, shutdown |-> FALSE]
  /\ a = [reader |-> TRUE, writer |-> TRUE, finished |-> FALSE]
  /\ ch \in [channel : {0}, out : {0}, input : {0}, open : {TRUE}, watched : BOOLEAN]
  /\ h \in [owner : {"server", "client"}, sent : {0}, ack : {0}, quit : {FALSE},
            closing : {FALSE}, early : {FALSE}, failed : {FALSE}, finished : {0}]

\* milter_agent_write_packet.  Without a writer it succeeds and writes nothing;
\* with one that is shut down it fails.
Written(s, quit) ==
  IF (s.a.writer => s.w.io /\ s.w.loop) /\ ~s.h.quit /\ s.h.sent < Packet * MaxPackets
  THEN [s EXCEPT !.h.sent = @ + Packet, !.h.quit = quit,
                 !.w = IF s.a.writer THEN WriterFlush(WriterWrite(@, Packet)) ELSE @]
  ELSE s

\* Only a server context sends QUIT.
WritePacket == \E quit \in {FALSE, h.owner = "server"} :
  Written(All, quit) # All /\ Become(Written(All, quit))

\* A client context flushes without a packet (reply_on_end_of_message); it has
\* no use for FLUSHED.
Flush == /\ h.owner = "client" /\ a.writer /\ w.io /\ w.loop
         /\ w' = WriterFlush(w) /\ UNCHANGED <<r, a, ch, h>>

\* The flush point is passed by one byte.
WroteLate(x, n) ==
  LET due == x.flushPoint > 0 /\ x.flushPoint < n
      y   == [x EXCEPT !.buffer = @ - n,
                       !.flushPoint = IF due \/ @ < n THEN 0 ELSE @ - n]
  IN  IF due THEN RequestFlush(y) ELSE y

\* write_watch_func after n bytes went into the channel.
Wrote(x, n) ==
  LET due == x.flushPoint > 0 /\ x.flushPoint <= n
      y   == [x EXCEPT !.buffer = @ - n,
                       !.flushPoint = IF due \/ @ = 0 THEN 0 ELSE @ - n]
  IN  IF due THEN RequestFlush(y) ELSE y

\* write_watch_func.  A call that writes nothing changes nothing.
WriteWatch ==
  /\ w.writeWatch
  /\ IF w.buffer = 0 THEN w' = [w EXCEPT !.writeWatch = FALSE] /\ UNCHANGED <<r, a, ch, h>>
     ELSE IF ch.open
     THEN \E n \in 1..w.buffer : /\ w' = Wrote(w, n)
                                 /\ ch' = [ch EXCEPT !.channel = @ + n]
                                 /\ UNCHANGED <<r, a, h>>
     ELSE Become(TellError([All EXCEPT !.w.writeWatch = FALSE]))

\* flush_watch_func, with the owner's flushed: after QUIT it shuts the agent
\* down (process_next_state).
FlushWatch ==
  /\ w.flushWatch
  /\ IF ~ch.open THEN Become(TellError([All EXCEPT !.w.flushWatch = FALSE]))
     ELSE \/ LET out == [All EXCEPT !.ch.out = @ + ch.channel, !.ch.channel = 0]
                 s   == TellFlushed(out)
             IN  \E taken \in Taken :
                   LET t == IF s.h.quit THEN AgentShutdown(s, FALSE, taken) ELSE s
                   IN  Become([t EXCEPT !.w.flushWatch = FALSE])
          \/ \E n \in 1..(ch.channel - 1) :
               /\ ch' = [ch EXCEPT !.out = @ + n, !.channel = @ - n]
               /\ UNCHANGED <<w, r, a, h>>

\* error_watch_func of the writer and cb_writer_finished.
WriterErrorWatch ==
  /\ ch.watched /\ w.errorWatch /\ ~ch.open
  /\ Become(CbWriterFinished(TellError(
       [All EXCEPT !.w.errorWatch = FALSE, !.w.writeWatch = FALSE, !.w.flushWatch = FALSE])))

\* read_from_channel with a chunk.  What is read may make the owner answer, or,
\* when it is the MTA's QUIT, shut the agent down (cb_decoder_quit).
ReadFromChannel(s, taken) ==
  LET read == [s EXCEPT !.ch.input = @ - 1]
  IN  {read, Written(read, FALSE)}
      \cup IF s.h.owner = "client" THEN {AgentShutdown(read, TRUE, taken)} ELSE {}

\* read_watch_func, at a chunk or at the end of the input.
ReadWatch ==
  /\ r.readWatch /\ (ch.input > 0 \/ ~ch.open)
  /\ \E taken \in Taken :
       IF ch.input > 0
       THEN \E t \in ReadFromChannel(All, taken) :
              Become(IF t.r.shutdown THEN ReaderFinish(t, taken) ELSE t)
       ELSE \E error \in BOOLEAN :
              Become(ReaderFinish(IF error THEN TellError(All) ELSE All, taken))

\* error_watch_func of the reader: what was not read yet is lost.
ReaderErrorWatch ==
  /\ ch.watched /\ r.errorWatch /\ ~ch.open
  /\ \E taken \in Taken, error \in BOOLEAN :
       Become(ReaderFinish(IF error THEN TellError(All) ELSE All, taken))

\* A timer of the owner, or the leader's cb_abort, shuts the agent down.
OwnerShutdown == \E taken \in Taken : /\ ~h.closing
                                      /\ Become(AgentShutdown(All, FALSE, taken))

PeerSends == /\ ch.open /\ ch.input < MaxInput
             /\ ch' = [ch EXCEPT !.input = @ + 1] /\ UNCHANGED <<w, r, a, h>>

PeerCloses == /\ ch.open
              /\ ch' = [ch EXCEPT !.open = FALSE] /\ UNCHANGED <<w, r, a, h>>

Next == \/ WritePacket \/ Flush \/ OwnerShutdown
        \/ WriteWatch \/ FlushWatch \/ WriterErrorWatch
        \/ ReadWatch \/ ReaderErrorWatch
        \/ PeerSends \/ PeerCloses

Spec == Init /\ [][Next]_vars

\* The event loop serves a descriptor that is ready.  (A peer that does not
\* read is given up by the owner's writing timeout.)
FairSpec == /\ Spec
            /\ WF_vars(WriteWatch) /\ WF_vars(ReadWatch)
            /\ WF_vars(FlushWatch)
-----------------------------------------------------------------------------
(* Properties. *)

\* Once the owner is told that the connection is finished it hears nothing
\* more of it: no watch is left that could call it back, and it is told once
\* (milter_agent_shutdown, finished, clear_watch_id).
Quiet == /\ h.finished = (IF a.finished THEN 1 ELSE 0)
         /\ a.finished => ~(w.writeWatch \/ w.flushWatch \/ w.errorWatch
                            \/ r.readWatch \/ r.errorWatch)

\* A server context is never told FLUSHED before the first packet it can be
\* about is on the wire, though packets are written while others are being
\* flushed (milter_writer_flush, write_watch_func, flush_watch_func).
NoEarlyFlush == h.owner = "server" => ~h.early

\* Every packet that was written is reported as flushed when it is out, unless
\* the owner is told of a failure or the connection is closed: a timeout that
\* the flush ends (process_next_state) cannot fire by mistake.
Acknowledged ==
  \A p \in 1..MaxPackets :
    (h.sent >= p * Packet) ~> (h.ack >= p * Packet \/ h.failed \/ a.finished)

\* A connection that the peer or the owner closes is finished.
Closes == (h.closing \/ ~ch.open) ~> a.finished
=============================================================================
