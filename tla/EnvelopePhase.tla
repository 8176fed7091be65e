--------------------------- MODULE EnvelopePhase ----------------------------
(* One SMTP session of milter manager up to the DATA command: the leader     *)
(* (milter-manager-leader.c) receives a command of the MTA, the children     *)
(* object (milter-manager-children.c) sends it to every child milter at      *)
(* once, collects their answers in reply_queue / reply_statuses and answers  *)
(* the MTA when the queue is empty.  Each child is reached through a server  *)
(* context (milter-server-context.c) with a write buffer, a timer and a      *)
(* protocol state that only moves when the buffer is flushed.                *)
(*                                                                           *)
(* The MTA is synchronous: it waits for the answer of one command before it  *)
(* sends the next one, but it may go away at any time.  No child negotiated  *)
(* a NO_REPLY_* step.                                                        *)
EXTENDS MilterProtocol, Sequences, FiniteSets

CONSTANTS
    Child,            \* the child milters of the session
    Fallback,         \* milter.fallback_status of each child
    ManagerFallback,  \* manager.fallback_status
    Evaluation,       \* the children in evaluation mode
    NoStep,           \* per child, the commands it asked not to receive
    StopAt,           \* the commands at which an applicable condition may stop a child
    Answers,          \* the replies a child may send
    Faults,           \* when a child's connection may fail: "reading" an answer,
                      \* "writing" (packets are unflushed), "idle" (nothing is asked)
    MaxRecipients,    \* bound on the recipients of a message
    MaxBacklog        \* bound on the packets written to a child but not flushed

FallbackStatus == {"accept", "temporary-failure", "reject", "discard"}

ASSUME ChildAssumption == IsFiniteSet(Child) /\ Child # {}
ASSUME ConfigAssumption ==
    /\ Fallback \in [Child -> FallbackStatus]
    /\ ManagerFallback \in FallbackStatus
    /\ Evaluation \subseteq Child
    /\ NoStep \in [Child -> SUBSET EnvelopeCommand]
    /\ StopAt \subseteq EnvelopeCommand \ {"unknown"}
    /\ Answers \subseteq Verdict \ {"skip"}
    /\ Faults \subseteq {"reading", "writing", "idle"}
    /\ MaxRecipients \in Nat \ {0} /\ MaxBacklog \in Nat \ {0}

VARIABLES
    pstate,   \* priv->processing_state; equal to priv->state in this phase
    queue,    \* priv->reply_queue: the children whose answer is awaited
    rs,       \* priv->reply_statuses
    emitted,  \* priv->emitted_reply_for_message_oriented_command
    ctx,      \* the server context of each child
    leader,   \* the leader's command, whether its state is X or X_REPLIED, and
              \* the reply packets the client context wrote for the command
    phase,    \* where the MTA was in the SMTP session when it sent the command
    asked,    \* history: the children the current command went to
    said,     \* history: what each of them answered ("not-change": nothing yet)
    joined    \* history: the children that took part in the current message

vars == <<pstate, queue, rs, emitted, ctx, leader, phase, asked, said, joined>>

Slot == EnvelopeCommand \cup {"negotiate", "abort", "quit"}

\* The parts of a server context the manager's decisions depend on: protocol
\* state, next_states (written, not flushed), the running timer, the
\* processing_message and quitted flags, whether the manager's signal handlers
\* are still connected, and the recipients of its message result.
Context == [state : Slot, next : Seq(Slot), timer : {"none", "writing", "reading"},
            pmsg : BOOLEAN, quitted : BOOLEAN, attached : BOOLEAN,
            rcpts : Nat, rejected : BOOLEAN]

-----------------------------------------------------------------------------
(* Server context operations *)

\* milter_server_context_is_processing_message
Processing(k) == ~k.quitted /\ k.pmsg

\* milter_server_context_has_accepted_recipient
HasAcceptedRecipient(k) == ~k.rejected \/ k.rcpts > 0

\* disposing of the message result forgets its recipients
Forget(k) == [k EXCEPT !.rcpts = 0, !.rejected = FALSE]

\* milter_server_context_reset_message_related_data
ResetMessage(k) == [Forget(k) EXCEPT !.pmsg = FALSE]

\* write_packet for a command: the writing timeout runs until the flush
Write(k, x) == [k EXCEPT !.next = Append(@, x), !.timer = "writing"]

\* Mutant: an ABORT starts the writing timeout.
AbortWithTimer(k) == [k EXCEPT !.next = Append(@, "abort"), !.pmsg = FALSE,
                               !.timer = "writing"]

\* milter_server_context_quit and milter_server_context_abort: neither
\* touches the timer
QuitCtx(k)  == [k EXCEPT !.next = Append(@, "quit"), !.quitted = TRUE]
AbortCtx(k) == [k EXCEPT !.next = Append(@, "abort"), !.pmsg = FALSE]

\* The packet written last, when there is an unflushed one.
LastWritten(k) == k.next[Len(k.next)]

\* Mutant: the reset of a flushed ABORT also hits the message that follows it.
FlushedResetLast(k) ==
    LET moved == [k EXCEPT !.state = LastWritten(k), !.next = <<>>,
                           !.timer = IF LastWritten(k) = "abort" THEN "none"
                                     ELSE "reading"]
    IN IF \E i \in 1..Len(k.next) : k.next[i] = "abort"
       THEN ResetMessage(moved) ELSE moved

\* flushed: process_next_state for every written packet, in order.  An abort
\* resets what the message left behind; a later envelope-from raises
\* processing_message again.
Flushed(k) ==
    LET last == LastWritten(k)
        aborted == \E i \in 1..Len(k.next) : k.next[i] = "abort"
        base == IF aborted THEN ResetMessage(k) ELSE k
    IN [base EXCEPT !.state = last, !.next = <<>>,
                    !.timer = IF last = "abort" THEN "none" ELSE "reading",
                    !.pmsg = IF last = "envelope-from" THEN TRUE ELSE @]

\* expire_child: the handlers are gone and the context counts as quitted.  What
\* happens on such a connection no longer reaches the manager.
Expired(k) == [k EXCEPT !.attached = FALSE, !.quitted = TRUE,
                        !.timer = "none", !.next = <<>>]

-----------------------------------------------------------------------------
(* The leader and the MTA *)

\* Where the MTA is once it has read reply r to command x.
After(ph, x, r) ==
    CASE x = "connect" -> IF r = "continue" THEN "connected" ELSE "over"
      [] x = "helo" -> IF r = "continue" THEN "greeted" ELSE "over"
      [] x = "envelope-from" -> IF r = "continue" THEN "from" ELSE "greeted"
      [] x = "envelope-recipient" ->
            CASE r = "continue" -> "rcpt"
              [] r \in {"reject", "temporary-failure"} -> ph
              [] OTHER -> "greeted"
      [] x = "data" -> IF r = "continue" THEN "data" ELSE "greeted"
      [] OTHER -> ph

Phase == {"start", "connected", "greeted", "from", "rcpt", "data", "over"}

\* The MTA waits for the answer to its last command.
Waiting == leader.cmd \in EnvelopeCommand /\ leader.packets = <<>>

\* Where the MTA is, given that it is not waiting.
Now == IF leader.cmd \in EnvelopeCommand
       THEN After(phase, leader.cmd, leader.packets[1]) ELSE phase

\* The MTA may act: it has not quit, does not wait, and (a bound of the model) no
\* child has too many unflushed packets.
MtaFree == /\ leader.cmd # "quit" /\ ~Waiting
           /\ \A c \in Child : Len(ctx[c].next) < MaxBacklog

\* The MTA sends x next: it is not waiting, x fits, and some child wants x.
MaySend(x) ==
    /\ MtaFree
    /\ \E c \in Child : x \notin NoStep[c]
    /\ Now \in CASE x = "connect" -> {"start"}
                 [] x = "helo" -> {"connected", "greeted"}
                 [] x = "envelope-from" -> {"greeted"}
                 [] x = "envelope-recipient" -> {"from", "rcpt"}
                 [] x = "data" -> {"rcpt"}
                 [] OTHER -> {"connected", "greeted", "from", "rcpt"}
    /\ x = "envelope-recipient" => \A c \in Child : ctx[c].rcpts < MaxRecipients

\* Mutant: the leader does not look at its own state.
AnswerAgain(l, st) ==
    IF st = "not-change" THEN l
    ELSE [l EXCEPT !.replied = TRUE,
                   !.packets = IF l.cmd \in EnvelopeCommand
                               THEN Append(@, st) ELSE @]

\* emit_reply_status_of_state with the leader's reply: a NOT_CHANGE slot emits
\* nothing, and a leader in an X_REPLIED state only reports an error.
Answer(l, st) ==
    IF st = "not-change" \/ l.replied THEN l
    ELSE [l EXCEPT !.replied = TRUE,
                   !.packets = IF l.cmd \in EnvelopeCommand
                               THEN Append(@, st) ELSE @]

\* Mutant: PROGRESS is written to the MTA like any other status.
ReturnProgressToo(l, r) == [l EXCEPT !.packets = Append(@, r)]

\* What the leader's handler returns: anything but PROGRESS is written to the
\* MTA by the client context, past the leader's own state.
Return(l, r) ==
    IF r = "progress" THEN l ELSE [l EXCEPT !.packets = Append(@, r)]

-----------------------------------------------------------------------------
(* The children object *)

CompileAt(slot, st) == [rs EXCEPT ![slot] = Compile(@, st)]

\* milter_manager_children_abort on the contexts.
AbortAll(ctx1) ==
    [c \in Child |->
        LET k == ctx1[c]
            b == IF k.attached /\ (Processing(k) \/ k.state = "envelope-from")
                 THEN AbortCtx(k) ELSE k
        IN IF k.quitted THEN b ELSE ResetMessage(b)]

\* Mutant: only DISCARD ends the message.
AbortsOnDiscard(slot, st) == st = "discard"

\* The statuses after which remove_child_from_queue aborts every child.
AbortsAll(slot, st) ==
    \/ st = "discard"
    \/ st \in {"reject", "temporary-failure"} /\ slot # "envelope-recipient"

\* What follows once the awaited children are q, the state is p, the slots are
\* rs1, the contexts ctx1 and the leader l: with nobody left to wait for, the
\* slot of the state is emitted, and a refusal aborts every child; the leader's
\* handler, if it is one that runs, returns r.  (History: the
\* children j in the message leave it when the MTA is told of that refusal.)
Settle(p, q, rs1, ctx1, em, l, r, j) ==
    LET done == q = {}
    IN /\ queue' = q
       /\ rs' = rs1
       /\ leader' = Return(IF done THEN Answer(l, rs1[p]) ELSE l, r)
       /\ IF done /\ AbortsAll(p, rs1[p])
          THEN /\ pstate' = "abort" /\ ctx' = AbortAll(ctx1) /\ emitted' = FALSE
               /\ joined' = IF l.replied THEN j ELSE {}
          ELSE pstate' = p /\ ctx' = ctx1 /\ emitted' = em /\ joined' = j

\* Mutant: the first answer is taken for everybody's.
RemoveEverybody(c, rs1, ctx1, j) ==
    Settle(pstate, {}, rs1, ctx1, emitted, leader, "progress", j)

\* remove_child_from_queue, with the slots and contexts its caller left.
RemoveFromQueue(c, rs1, ctx1, j) ==
    Settle(pstate, queue \ {c}, rs1, ctx1, emitted, leader, "progress", j)

\* The caller leaves the queue alone.
KeepQueue(rs1, ctx1, j) ==
    /\ rs' = rs1 /\ ctx' = ctx1 /\ joined' = j
    /\ UNCHANGED <<pstate, queue, emitted, leader>>

-----------------------------------------------------------------------------
(* Commands of the MTA *)

\* Commands of a message need a child that is processing one, the others a
\* child that is alive: check_processing_message and check_alive.
MessageCommand == {"envelope-recipient", "data"}

Ready(x, k) == IF x \in MessageCommand THEN Processing(k) ELSE ~k.quitted

\* A child with no recipient left does not get DATA.
Targets(x) == {c \in Child : /\ Ready(x, ctx[c])
                             /\ x = "data" => HasAcceptedRecipient(ctx[c])}

\* The handler's check fails: the error makes the leader reply, and the
\* handler's result makes the client context reply again.
RefuseCommand(x) ==
    /\ MaySend(x)
    /\ \A c \in Child : ~Ready(x, ctx[c])
    /\ leader' = Return(Answer([cmd |-> x, replied |-> FALSE, packets |-> <<>>],
                               ManagerFallback), ManagerFallback)
    /\ phase' = Now
    /\ asked' = {}
    /\ said' = [c \in Child |-> "not-change"]
    /\ UNCHANGED <<pstate, queue, rs, emitted, ctx, joined>>

\* What a context remembers of command x before it decides what to send.
Note(x, k) == IF x = "envelope-recipient" THEN [k EXCEPT !.rcpts = @ + 1] ELSE k

\* stop_on_state with cb_stopped: an applicable condition stops the child.
Stopped(x, k) ==
    LET b == [Note(x, k) EXCEPT !.state = x]
    IN CASE x \in {"connect", "helo"} -> QuitCtx(AbortCtx(b))
         [] x = "data" -> Forget(AbortCtx(b))
         [] OTHER -> Forget(b)

\* Past the stop, an envelope-from marks the message as being processed.
Begin(x, k) == IF x = "envelope-from" THEN [Note(x, k) EXCEPT !.pmsg = TRUE]
               ELSE Note(x, k)

Skipped(x, k) == [Begin(x, k) EXCEPT !.state = x]

\* Of the targets that are not stopped: those that asked not to receive x, those
\* write_packet refuses as BUSY, and those that are sent x.
Skips(x, stop) == {c \in Targets(x) \ stop : x \in NoStep[c]}
Busy(x, stop)  == {c \in Targets(x) \ (stop \cup Skips(x, stop)) : ctx[c].timer # "none"}
Sends(x, stop) == Targets(x) \ (stop \cup Skips(x, stop) \cup Busy(x, stop))

\* The context of child c after the handler's loop: a child without a recipient
\* left gets an ABORT in place of DATA.
Served(x, stop, c) ==
    CASE c \in stop -> Stopped(x, ctx[c])
      [] c \in Skips(x, stop) -> Skipped(x, ctx[c])
      [] c \in Busy(x, stop) -> Expired(Begin(x, ctx[c]))
      [] c \in Sends(x, stop) -> Write(Begin(x, ctx[c]), x)
      [] c \notin Targets(x) /\ Ready(x, ctx[c]) -> AbortCtx(ctx[c])
      [] OTHER -> ctx[c]

\* What cb_stopped compiles: ACCEPT, CONTINUE for a recipient, both for a sender.
StopSays(x) == (IF x = "envelope-recipient" THEN {} ELSE {"accept"})
               \cup (IF x \in {"envelope-from", "envelope-recipient"}
                     THEN {"continue"} ELSE {})

\* Mutant: the slot of x keeps the verdict of the last time x was sent.
CompiledOnTop(x, stop, s) ==
    {rs[s]} \cup (IF s # x THEN {}
                  ELSE (IF stop = {} THEN {} ELSE StopSays(x))
                       \cup (IF Skips(x, stop) = {} THEN {} ELSE {"continue"}))
    \cup {Fallback[c] : c \in {d \in Busy(x, stop) : ctx[d].state = s}}

\* Everything compiled into slot s during the loop; the slot of x starts anew.
Compiled(x, stop, s) ==
    (IF s = x THEN {"not-change"} \cup (IF stop = {} THEN {} ELSE StopSays(x))
                   \cup (IF Skips(x, stop) = {} THEN {} ELSE {"continue"})
     ELSE {rs[s]})
    \cup {Fallback[c] : c \in {d \in Busy(x, stop) : ctx[d].state = s}}

\* A stopped child leaves the queue only when cb_stopped makes it continue.
Awaited(x, stop) == IF x \in {"envelope-from", "envelope-recipient"}
                    THEN Sends(x, stop) ELSE Sends(x, stop) \cup stop

\* A stop on DATA emits the slot of DATA at once, whoever else is awaited: it
\* holds CONTINUE if a child that skips DATA came first in the list.
AnswersEarly(x, stop) == x = "data" /\ stop # {} /\ ~emitted

\* milter_manager_children_connect, _helo, _envelope_from,
\* _envelope_recipient, _data and _unknown, the contexts' functions included.
SendCommand(x) ==
    /\ MaySend(x)
    /\ \E c \in Child : Ready(x, ctx[c])
    /\ \E stop \in SUBSET Targets(x), early \in {"accept", "continue"} :
       LET fresh == [cmd |-> x, replied |-> FALSE, packets |-> <<>>]
       IN /\ stop # {} => x \in StopAt
          /\ early = "continue" => AnswersEarly(x, stop) /\ Skips(x, stop) # {}
          /\ Settle(x, Awaited(x, stop),
                    [s \in Slot |-> Strongest(Compiled(x, stop, s))],
                    [c \in Child |-> Served(x, stop, c)],
                    emitted \/ AnswersEarly(x, stop),
                    IF AnswersEarly(x, stop) THEN Answer(fresh, early) ELSE fresh,
                    IF Targets(x) # Busy(x, stop) THEN "progress" ELSE ManagerFallback,
                    IF x = "envelope-from" THEN Skips(x, stop)
                    ELSE IF x = "data" THEN joined \cap (Targets(x) \ stop)
                    ELSE joined)
          /\ said' = [c \in Child |->
                         CASE c \in stop -> Strongest(StopSays(x))
                           [] c \in Skips(x, stop) -> "continue"
                           [] c \in Busy(x, stop) -> Fallback[c]
                           [] OTHER -> "not-change"]
    /\ phase' = Now
    /\ asked' = Targets(x)

\* milter_manager_leader_abort: RSET, or the message ended some other way.
MtaAbort ==
    /\ MtaFree
    /\ Now \in {"greeted", "from", "rcpt", "data"}
    /\ leader' = [cmd |-> "abort", replied |-> FALSE, packets |-> <<>>]
    /\ pstate' = "abort" /\ ctx' = AbortAll(ctx) /\ emitted' = FALSE
    /\ phase' = "greeted"
    /\ asked' = {}
    /\ said' = [c \in Child |-> "not-change"]
    /\ UNCHANGED <<queue, rs, joined>>

\* milter_manager_leader_quit: QUIT, a lost MTA or a timeout of the MTA side,
\* at any time.
MtaQuit ==
    /\ leader.cmd # "quit"
    /\ leader' = [leader EXCEPT !.cmd = "quit", !.replied = FALSE]
    /\ pstate' = "quit"
    /\ ctx' = [c \in Child |-> IF ctx[c].quitted THEN ctx[c] ELSE QuitCtx(ctx[c])]
    /\ UNCHANGED <<queue, rs, emitted, phase, asked, said, joined>>

-----------------------------------------------------------------------------
(* Events of a child's connection *)

\* The handlers of a context that has not negotiated belong elsewhere, so a
\* child fails only once a command was sent.
Live(c) == ctx[c].attached /\ pstate # "negotiate"

\* Until the MTA is answered, the history records what an asked child says.
Hear(c, st) ==
    said' = [said EXCEPT ![c] = IF c \in asked /\ Waiting THEN Compile(@, st) ELSE @]

History == UNCHANGED <<phase, asked>>

\* flushed: the buffer of the child's connection is empty.  After a QUIT the
\* connection is shut down, which is cb_finished with no timer running.
Flush(c) ==
    /\ Live(c) /\ ctx[c].next # <<>>
    /\ IF LastWritten(ctx[c]) = "quit"
       THEN RemoveFromQueue(c, rs, [ctx EXCEPT ![c] = Expired(@)], joined)
       ELSE KeepQueue(rs, [ctx EXCEPT ![c] = Flushed(@)], joined)
    /\ UNCHANGED said /\ History

\* The status compiled for verdict r: evaluation mode turns a refusal into ACCEPT.
Effective(c, r) == IF c \in Evaluation /\ r # "continue" THEN "accept" ELSE r

\* cb_decoder_* and cb_continue, cb_accept, cb_reject, cb_temporary_failure,
\* cb_discard (cb_reply_code is one of the refusals) in the states of this phase.
Heard(k, r) ==
    LET idle == [k EXCEPT !.timer = "none"]
        refused == k.state = "envelope-recipient" /\ r \in {"reject", "temporary-failure"}
        quits == k.state \in {"connect", "helo", "unknown"}
    IN IF r = "continue" THEN idle
       ELSE CASE quits -> QuitCtx(IF k.state = "unknown" THEN Forget(idle) ELSE idle)
              [] refused -> [idle EXCEPT !.rcpts = IF @ > 0 THEN @ - 1 ELSE 0,
                                         !.rejected = TRUE]
              [] ~quits /\ (k.state \in {"envelope-from", "data"} \/ r = "accept") ->
                     ResetMessage(idle)
              [] OTHER -> Forget(idle)

Reply(c, r) ==
    /\ Live(c) /\ ctx[c].timer = "reading" /\ ~ctx[c].quitted
    /\ LET k == ctx[c]
           rs1 == CompileAt(k.state, Effective(c, r))
           ctx1 == [ctx EXCEPT ![c] = Heard(k, r)]
           j == CASE k.state = "envelope-from" /\ r = "continue" -> joined \cup {c}
                  [] ~Heard(k, r).pmsg -> joined \ {c}
                  [] OTHER -> joined
       IN IF Heard(k, r).quitted THEN KeepQueue(rs1, ctx1, j)
          ELSE RemoveFromQueue(c, rs1, ctx1, j)
    /\ Hear(c, Effective(c, r)) /\ History

\* check_reply_after_quit: what a child says after QUIT was sent to it stops
\* the timer and goes no further.
ReplyAfterQuit(c) ==
    /\ Live(c) /\ ctx[c].timer = "reading" /\ ctx[c].quitted
    /\ KeepQueue(rs, [ctx EXCEPT ![c].timer = "none"], joined)
    /\ UNCHANGED said /\ History

\* Mutant: a child that failed stays in the queue.
FailAwaited(c) ==
    /\ KeepQueue(CompileAt(ctx[c].state, Fallback[c]),
                 [ctx EXCEPT ![c] = Expired(@)], joined)
    /\ Hear(c, Fallback[c]) /\ History

\* cb_reading_timeout, cb_writing_timeout and cb_error: the fallback status goes
\* to the slot of the context's state, the child is expired and not awaited.
Fail(c) ==
    /\ RemoveFromQueue(c, CompileAt(ctx[c].state, Fallback[c]),
                       [ctx EXCEPT ![c] = Expired(@)], joined)
    /\ Hear(c, Fallback[c]) /\ History

\* When the connection is, for the instances that limit the failures.
Moment(k) == IF k.next # <<>> THEN "writing"
             ELSE IF k.timer = "none" THEN "idle" ELSE "reading"

ReadTimeout(c) == /\ Live(c) /\ Moment(ctx[c]) \in Faults
                  /\ ctx[c].timer = "reading" /\ Fail(c)

WriteTimeout(c) == /\ Live(c) /\ Moment(ctx[c]) \in Faults
                   /\ ctx[c].timer = "writing" /\ Fail(c)

\* An I/O or protocol error on the connection.
ChildError(c) == Live(c) /\ Moment(ctx[c]) \in Faults /\ Fail(c)

\* The child closes its connection: cb_finished falls back only while a command
\* is being processed.
ChildFinished(c) ==
    /\ Live(c) /\ Moment(ctx[c]) \in Faults
    /\ \/ ctx[c].timer # "none" /\ Fail(c)
       \/ /\ ctx[c].timer = "none"
          /\ RemoveFromQueue(c, rs, [ctx EXCEPT ![c] = Expired(@)], joined)
          /\ UNCHANGED said /\ History

-----------------------------------------------------------------------------
\* A negotiated session.
Init ==
    /\ pstate = "negotiate" /\ queue = {} /\ emitted = FALSE
    /\ rs = [s \in Slot |-> "not-change"]
    /\ ctx = [c \in Child |->
                 [state |-> "negotiate", next |-> <<>>, timer |-> "none",
                  pmsg |-> FALSE, quitted |-> FALSE, attached |-> TRUE,
                  rcpts |-> 0, rejected |-> FALSE]]
    /\ leader = [cmd |-> "negotiate", replied |-> TRUE, packets |-> <<>>]
    /\ phase = "start" /\ asked = {} /\ joined = {}
    /\ said = [c \in Child |-> "not-change"]

MtaNext == \/ \E x \in EnvelopeCommand : RefuseCommand(x) \/ SendCommand(x)
           \/ MtaAbort
           \/ MtaQuit

Hears(c) == (\E r \in Answers : Reply(c, r)) \/ ReplyAfterQuit(c)

ChildNext(c) == \/ Flush(c) \/ Hears(c)
                \/ ReadTimeout(c) \/ WriteTimeout(c)
                \/ ChildError(c) \/ ChildFinished(c)

Next == MtaNext \/ \E c \in Child : ChildNext(c)

Spec == Init /\ [][Next]_vars

\* The event loop serves every connection, and each wait of a context has a
\* timer: a written packet is flushed or its timeout fires, a command is
\* answered or its timeout fires.  The MTA owes nothing.
Fairness == \A c \in Child : /\ WF_vars(Flush(c) \/ WriteTimeout(c))
                             /\ WF_vars(Hears(c) \/ ReadTimeout(c))

FairSpec == Spec /\ Fairness

-----------------------------------------------------------------------------
TypeOK ==
    /\ pstate \in Slot
    /\ queue \subseteq Child
    /\ rs \in [Slot -> Status]
    /\ emitted \in BOOLEAN
    /\ ctx \in [Child -> Context]
    /\ leader \in [cmd : Slot, replied : BOOLEAN, packets : Seq(Verdict)]
    /\ phase \in Phase
    /\ asked \subseteq Child /\ joined \subseteq Child
    /\ said \in [Child -> Status]

Replied == leader.cmd \in EnvelopeCommand /\ leader.replied

\* The MTA is answered only after every child the command was sent to has
\* answered, was stopped or skipped, or has failed (reply_queue).
EveryChildHeard == Replied => \A c \in asked : said[c] # "not-change"

\* When the MTA may send the next command no child is still busy with the last
\* one, so write_packet never fails with BUSY.
IdleWhenAnswered ==
    leader.cmd # "quit" /\ ~Waiting =>
        \A c \in Child : ctx[c].quitted \/ ctx[c].timer = "none"

\* While the MTA is in a message, every living child that took part in it is
\* still processing it, so it gets the commands that follow.
NobodyDropsOut ==
    leader.cmd # "quit" /\ ~Waiting /\ Now \in {"from", "rcpt", "data"} =>
        \A c \in joined : ctx[c].quitted \/ ctx[c].pmsg

\* When the MTA is between messages no child believes to be inside one, so a
\* later RCPT or DATA cannot go to a child that did not see its MAIL.
NoGhostMessage ==
    leader.cmd # "quit" /\ ~Waiting /\ Now \in {"connected", "greeted"} =>
        \A c \in Child : ~Processing(ctx[c])

\* The MTA gets one reply to a command that went to some child.  (A command that
\* finds no child left is answered twice, see RefuseCommand.)
SingleReply == asked # {} => Len(leader.packets) <= 1

\* A command of the MTA is answered, or the MTA goes away.
Answered == Waiting ~> ~Waiting

-----------------------------------------------------------------------------
(* The session is what Session promises *)

\* The first packet written for a command is its answer.
AnswerGiven == IF leader.cmd \in EnvelopeCommand /\ leader.packets # <<>>
               THEN leader.packets[1] ELSE "none"

Promise == INSTANCE Session WITH cmd <- leader.cmd, answer <- AnswerGiven,
                                 NoChildStatus <- ManagerFallback

\* To the MTA the children look like one milter: one answer per command, given
\* after everybody was heard, never taken back, and the strongest of verdicts
\* that are never weakened (reply_queue, reply_statuses).
OneMilter == Promise!Spec

-----------------------------------------------------------------------------
(* The strengthenings that make IdleWhenAnswered and EveryChildHeard inductive *)

\* Of an unflushed buffer: a command written last has its writing timeout
\* running, and a QUIT was written by a quitted context.
Buffered(k) ==
    k.next # <<>> =>
        /\ LastWritten(k) \notin {"abort", "quit"} => k.timer = "writing"
        /\ LastWritten(k) = "quit" => k.quitted

\* A child the event loop need not answer for.
Idle(k) == k.quitted \/ k.timer = "none"

BufferInv == \A c \in Child : Buffered(ctx[c])

\* A living child with a running timer is awaited, and the MTA is not answered.
TimerInv == \A c \in Child : Idle(ctx[c]) \/ (Waiting /\ c \in queue)

\* A child that works on the command alone: it is alive, its timer runs, and the
\* command is the last thing written to it.
Working(k) == ~Idle(k) /\ (k.next # <<>> => LastWritten(k) # "abort")

\* A child that has not answered works on the command and is awaited, and the
\* MTA is not answered.
HeardInv ==
    leader.cmd \in EnvelopeCommand =>
        \A c \in asked : said[c] = "not-change" =>
            c \in queue /\ Working(ctx[c]) /\ ~leader.replied /\ leader.packets = <<>>
=============================================================================
