---------------------------- MODULE MessagePhase ----------------------------
(* The message of an SMTP session of milter manager, after DATA: header, end *)
(* of header, body and end of message.  The children run one after the       *)
(* other.  The first child gets the commands as the MTA sends them; when it  *)
(* is done, the children object (milter-manager-children.c) replays the      *)
(* commands seen so far (command_queue), with the headers and the body as    *)
(* the child left them, to the next child of command_waiting_child_queue.    *)
(*                                                                           *)
(* The MTA is synchronous.  MAIL to DATA, which EnvelopePhase models, is one *)
(* step here.  No child negotiated a NO_REPLY_* step, the MTA sends DATA     *)
(* (no emulation), and no applicable condition stops a child.                *)
EXTENDS MilterProtocol, Sequences

CONSTANTS
    Milters,          \* the children in the order of priv->milters
    Fallback,         \* milter.fallback_status of each child
    ManagerFallback,  \* manager.fallback_status
    Evaluation,       \* the children in evaluation mode
    NoStep,           \* per child, the commands it asked not to receive
    Sends,            \* the commands that were negotiated with the MTA
    Answers,          \* the replies a child may send
    Edits,            \* the changes a child may make at the end of a message
    Faults,           \* how a connection may fail: "timeout", "error" while the
                      \* child works, "idle" error while it does not, "closed"
    MaxHeaders, MaxChunks, MaxEdits, MaxMessages   \* bounds

MessageCommand == {"header", "end-of-header", "body", "end-of-message"}
Refusal == {"temporary-failure", "reject", "discard"}

\* MilterServerContextState, in the order of the enumeration.
Position == [s \in {"data"} \cup MessageCommand |->
                CASE s = "data" -> 0 [] s = "header" -> 1 [] s = "end-of-header" -> 2
                  [] s = "body" -> 3 [] s = "end-of-message" -> 4]

Earliest(S) == CHOOSE x \in S : \A y \in S : Position[x] <= Position[y]
Latest(S)   == CHOOSE x \in S : \A y \in S : Position[y] <= Position[x]

Child == {Milters[i] : i \in DOMAIN Milters}

ASSUME MiltersAssumption ==
    /\ Milters \in Seq(Child) \ {<<>>}
    /\ \A i, j \in DOMAIN Milters : Milters[i] = Milters[j] => i = j

\* get_first_child_in_command_waiting_child_queue: the queue W, without its order,
\* which is always that of priv->milters.
First(W) == Milters[CHOOSE i \in DOMAIN Milters :
                        Milters[i] \in W /\ \A j \in 1..(i - 1) : Milters[j] \notin W]

ASSUME ConfigAssumption ==
    /\ Fallback \in [Child -> Refusal \cup {"accept"}]
    /\ ManagerFallback \in Refusal \cup {"accept"}
    /\ Evaluation \subseteq Child
    /\ NoStep \in [Child -> SUBSET (MessageCommand \ {"end-of-message"})]
    /\ Sends \subseteq MessageCommand /\ "end-of-message" \in Sends
    /\ Answers \subseteq Verdict
    /\ Edits \subseteq {"add-header", "delete-header", "replace-body", "empty-body"}
    /\ Faults \subseteq {"timeout", "error", "idle", "closed"}
    /\ {MaxHeaders, MaxChunks, MaxEdits, MaxMessages} \subseteq Nat

VARIABLES
    mgr,     \* the children object, its contexts and the leader
    mta,     \* the MTA: its last command, and how much it sent and was told
    joined,  \* history: the children that take part in the message
    verdict  \* history: what each of them decided ("not-change": nothing yet)

vars == <<mgr, mta, joined, verdict>>

Slot == {"data", "abort"} \cup MessageCommand

\* A server context, as in EnvelopePhase; owes: the child has an unanswered
\* command; hdrs, chunks (history): what of the message was sent to it.
Context == [state : Slot, next : Seq(Slot),
            timer : {"none", "writing", "reading", "end-of-message"},
            pmsg : BOOLEAN, quitted : BOOLEAN, attached : BOOLEAN,
            skip : BOOLEAN, owes : BOOLEAN, hdrs : Nat, chunks : Nat]

\* MilterManagerChildrenPrivate: state, processing_state, reply_statuses,
\* command_waiting_child_queue, command_queue (always in protocol order),
\* the number of headers, processing_header_index, the chunks of the body,
\* sending_body, sent_body_offset, replaced_body_for_each_child,
\* emitted_reply_for_message_oriented_command; then the leader.
Manager == [st : Slot, pst : Slot, rs : [Slot -> Status], waiting : SUBSET Child,
            cmds : SUBSET MessageCommand, headers : Nat, index : Nat, body : Nat,
            sending : BOOLEAN, offset : Nat, replaced : BOOLEAN, emitted : BOOLEAN,
            ctx : [Child -> Context], replied : BOOLEAN, packets : Seq(Verdict)]

-----------------------------------------------------------------------------
(* Server contexts *)

Processing(k) == ~k.quitted /\ k.pmsg

\* milter_server_context_reset_message_related_data
ResetMessage(k) == [k EXCEPT !.pmsg = FALSE, !.skip = FALSE]

\* milter_server_context_abort
AbortCtx(k) == [k EXCEPT !.next = Append(@, "abort"), !.pmsg = FALSE]

\* milter_server_context_header, _end_of_header, _body and _end_of_message for a
\* child that wants the command.
Write(k, x) ==
    [k EXCEPT !.next = Append(@, x), !.timer = "writing",
              !.hdrs = IF x = "header" THEN @ + 1 ELSE @,
              !.chunks = IF x = "body" THEN @ + 1 ELSE @]

\* Mutant: the body is not awaited.
FlushedBodyAnswered(k) ==
    LET x == k.next[Len(k.next)]
    IN [k EXCEPT !.state = x, !.next = <<>>, !.owes = x \notin {"abort", "body"},
                 !.timer = IF x \in {"abort", "body"} THEN "none" ELSE "reading"]

\* flushed, process_next_state and process_next_state_body: the body is awaited
\* without a timeout.
Flushed(k) ==
    LET x == k.next[Len(k.next)]
        b == IF x = "abort" THEN ResetMessage(k) ELSE k
    IN [b EXCEPT !.state = x, !.next = <<>>, !.owes = x # "abort",
                 !.timer = CASE x \in {"abort", "body"} -> "none"
                             [] x = "end-of-message" -> "end-of-message"
                             [] OTHER -> "reading"]

\* expire_child; the timer is left as it is.
Expired(k) == [k EXCEPT !.attached = FALSE, !.quitted = TRUE]

-----------------------------------------------------------------------------
(* Replies to the MTA *)

\* Mutant: NOT_CHANGE is sent like any other status.
SayAnything(m, st) ==
    IF m.replied /\ mta.cmd # "body" THEN m
    ELSE [m EXCEPT !.replied = TRUE, !.packets = Append(@, st)]

\* A signal of the children object and the leader's reply.  In BODY_REPLIED the
\* leader still replies.
Say(m, st) ==
    IF st = "not-change" \/ (m.replied /\ mta.cmd # "body") THEN m
    ELSE [m EXCEPT !.replied = TRUE, !.packets = Append(@, st)]

\* What a handler of the leader returns is written by the client context.
Return(m, r) == IF r = "progress" THEN m ELSE [m EXCEPT !.packets = Append(@, r)]

CompileAt(m, s, st) == [m EXCEPT !.rs[s] = Compile(@, st)]

\* dispose_message_related_data: processing_header_index, sending_body and
\* sent_body_offset are left as they are.
Dispose(m) == [m EXCEPT !.waiting = {}, !.cmds = {}, !.headers = 0, !.body = 0,
                        !.emitted = FALSE]

\* emit_reply_status_of_state
EmitSlot(m, s) ==
    LET said == Say(m, m.rs[s])
    IN IF s = "end-of-message" THEN Dispose(said) ELSE said

\* Mutant: the slot of the MTA's command is emitted, not the child's.
EmitOnceOfState(m, s) ==
    IF m.emitted THEN m ELSE EmitSlot([m EXCEPT !.emitted = TRUE], m.st)

\* emit_reply_for_message_oriented_command
EmitOnce(m, s) == IF m.emitted THEN m ELSE EmitSlot([m EXCEPT !.emitted = TRUE], s)

\* milter_manager_children_abort
AbortAll(m) ==
    [Dispose(m) EXCEPT
        !.st = "abort", !.pst = "abort",
        !.ctx = [c \in Child |->
                    LET k == m.ctx[c]
                        b == IF Processing(k) THEN AbortCtx(k) ELSE k
                    IN IF k.quitted THEN b ELSE ResetMessage(b)]]

-----------------------------------------------------------------------------
(* The replay of a message to a child *)

\* Mutant: of several headers or chunks only the first is replayed.
TodoFirst(m, s) == {x \in m.cmds : Position[x] > Position[s]}

\* An empty body lies ahead: send_body_to_child will find nothing to send.
Emptied(m, s) == /\ "body" \in m.cmds /\ m.body = 0
                 /\ s # "body" /\ Position[s] < Position["body"]

\* What child c has still to be given after command s: the rest of the headers,
\* the rest of a body that is being replayed and the commands after s; an empty
\* body ends the list, because send_body_to_child then returns NOT_CHANGE.
Todo(m, s) ==
    LET all == {x \in m.cmds : Position[x] > Position[s]}
               \cup (IF s = "header" /\ m.index < m.headers THEN {"header"} ELSE {})
               \cup (IF s = "body" /\ m.sending /\ m.offset < m.body THEN {"body"} ELSE {})
    IN IF Emptied(m, s)
       THEN {x \in all : Position[x] < Position["body"]} ELSE all

\* The first command of a new child, sent by send_command_to_child without the
\* preparations of send_next_command, has nothing to send: the status is lost.
NothingFirst(m, s) ==
    s = "data" /\ \/ Earliest(m.cmds) = "header" /\ m.headers = 0
                  \/ Earliest(m.cmds) = "body" /\ m.offset >= m.body

\* What of it the child wants, the command it is given, and those before it that
\* it declined.
Wanted(m, c, s) ==
    Todo(m, s) \ (NoStep[c] \cup (IF m.ctx[c].skip THEN {"body"} ELSE {}))
Given(m, c, s) == IF Wanted(m, c, s) = {} THEN {} ELSE {Earliest(Wanted(m, c, s))}
Passed(m, c, s) == {y \in Todo(m, s) \cap NoStep[c] :
                        \A x \in Given(m, c, s) : Position[y] < Position[x]}

\* How far the replay gets: an empty body is tried too.
Opened(m, c, s) == Wanted(m, c, s) = {} /\ Emptied(m, s)
Reached(m, c, s) == Passed(m, c, s) \cup Given(m, c, s)
                    \cup (IF Opened(m, c, s) THEN {"body"} ELSE {})

\* init_child_for_body: a body that is the next command, not the first one, is
\* prepared for the child.
Prepared(m, c, s) == /\ "body" \in Reached(m, c, s) /\ s # "body"
                     /\ ~(s = "data" /\ Earliest(m.cmds) = "body")

\* What that makes of reply_statuses, processing_header_index, sending_body,
\* sent_body_offset and the context of c.
NewSlots(m, c, s) ==
    [y \in Slot |-> IF y \notin Passed(m, c, s) THEN m.rs[y]
                    ELSE Compile(m.rs[y], IF y = "body" THEN "skip" ELSE "continue")]
NewIndex(m, c, s) ==
    CASE Given(m, c, s) = {"header"} -> m.index + 1
      [] Given(m, c, s) = {"end-of-message"} -> 0
      [] OTHER -> IF "header" \in Passed(m, c, s) THEN m.headers ELSE m.index
NewSending(m, c, s) ==
    IF Prepared(m, c, s) THEN ~Opened(m, c, s)
    ELSE m.sending /\ (s = "body" => "body" \in Reached(m, c, s) \/ m.ctx[c].skip)
NewOffset(m, c, s) ==
    IF "body" \notin Reached(m, c, s) THEN m.offset
    ELSE IF ~Prepared(m, c, s) THEN m.offset + 1
    ELSE IF Opened(m, c, s) THEN 0 ELSE 1
NewCtx(m, c, s) ==
    LET k == m.ctx[c]
        k1 == IF Passed(m, c, s) = {} THEN k
              ELSE [k EXCEPT !.state = Latest(Passed(m, c, s))]
    IN IF Given(m, c, s) = {} THEN k1 ELSE Write(k1, Earliest(Wanted(m, c, s)))

\* Child c is given what follows s; a command it does not want is passed over as
\* if it had continued.  With a prepared body the first replacement by this child
\* will start afresh.
Give(m, c, s) ==
    [m EXCEPT !.rs = NewSlots(m, c, s), !.index = NewIndex(m, c, s),
              !.sending = NewSending(m, c, s), !.offset = NewOffset(m, c, s),
              !.replaced = @ /\ ~Prepared(m, c, s),
              !.pst = IF Reached(m, c, s) = {} THEN @ ELSE Latest(Reached(m, c, s)),
              !.ctx[c] = NewCtx(m, c, s)]

\* cb_continue, send_next_command and send_command_to_child: the replay goes on
\* after s; when nothing is left to send, the MTA is told to continue.
Proceed(m, c, s) ==
    IF ~m.ctx[c].attached \/ NothingFirst(m, s) THEN m
    ELSE IF Given(m, c, s) = {} THEN Say(Give(m, c, s), "continue")
    ELSE Give(m, c, s)

\* Mutant: processing_header_index is not reset.
NextChildSameIndex(m, c) ==
    LET rest == [m EXCEPT !.waiting = @ \ {c}]
    IN IF rest.waiting = {} THEN EmitOnce(rest, rest.st)
       ELSE Proceed(rest, First(rest.waiting), "data")

\* Mutant: the first child that is done decides for the others.
NextChildNobody(m, c) ==
    LET rest == [m EXCEPT !.index = 0, !.waiting = @ \ {c}]
    IN EmitOnce(rest, rest.st)

\* Mutant: the MTA is answered although the next child starts.
NextChildEarly(m, c) ==
    LET rest == [m EXCEPT !.index = 0, !.waiting = @ \ {c}]
    IN IF rest.waiting = {} THEN EmitOnce(rest, rest.st)
       ELSE Proceed(Say(rest, "continue"), First(rest.waiting), "data")

\* send_first_command_to_next_child
NextChild(m, c) ==
    LET rest == [m EXCEPT !.index = 0, !.waiting = @ \ {c}]
    IN IF rest.waiting = {} THEN EmitOnce(rest, rest.st)
       ELSE Proceed(rest, First(rest.waiting), "data")

-----------------------------------------------------------------------------
(* The MTA *)

Waiting == mta.cmd \in MessageCommand /\ mgr.packets = <<>>

\* The MTA has not been told anything but to continue.
InMessage == /\ mta.cmd \in {"data"} \cup (MessageCommand \ {"end-of-message"})
             /\ mta.cmd # "data" => mgr.packets # <<>> /\ mgr.packets[1] = "continue"

\* MAIL to DATA of the next message: the children in J go on with it, and all
\* their answers are in (EnvelopePhase).  The MTA has ended the last message, with
\* its end or with an abort.
NewMessage ==
    /\ mta.cmd \in {"abort", "end-of-message"} /\ ~Waiting
    /\ mta.messages < MaxMessages
    /\ \A c \in Child : mgr.ctx[c].attached => mgr.ctx[c].next = <<>>
    /\ \E J \in SUBSET {c \in Child : ~mgr.ctx[c].quitted} :
        /\ J # {}
        /\ mgr' = [mgr EXCEPT
                !.st = "data", !.pst = "data", !.rs["data"] = "continue",
                !.replied = TRUE, !.packets = <<>>,
                !.ctx = [c \in Child |->
                    LET k == mgr.ctx[c]
                        new == [ResetMessage(k) EXCEPT !.hdrs = 0, !.chunks = 0]
                    IN IF k.quitted THEN k
                       ELSE IF c \in J THEN [new EXCEPT !.pmsg = TRUE, !.state = "data"]
                       ELSE new]]
        /\ joined' = J
    /\ mta' = [cmd |-> "data", headers |-> 0, chunks |-> 0, edits |-> 0,
               messages |-> mta.messages + 1]
    /\ verdict' = [c \in Child |-> "not-change"]

\* Of a message the MTA sends the negotiated commands in order, an end of header
\* always, headers and chunks any number.
MaySend(x) ==
    /\ InMessage /\ x \in Sends
    /\ Position[mta.cmd] <= Position[x]
    /\ mta.cmd = x => x \in {"header", "body"}
    /\ "end-of-header" \in Sends /\ x \in {"body", "end-of-message"} =>
           mta.cmd \in {"end-of-header", "body"}
    /\ x = "header" => mta.headers < MaxHeaders
    /\ x = "body" => mta.chunks < MaxChunks

\* The MTA's next command is x.
Sent(x) == mta' = [mta EXCEPT !.cmd = x,
                              !.headers = IF x = "header" THEN @ + 1 ELSE @,
                              !.chunks = IF x = "body" THEN @ + 1 ELSE @]

Asked(m) == [m EXCEPT !.replied = FALSE, !.packets = <<>>]

\* init_command_waiting_child_queue and what the handler of x stores.
Taken(m, x) ==
    [m EXCEPT !.st = x, !.pst = x, !.cmds = @ \cup {x},
              !.waiting = IF @ # {} THEN @ ELSE {c \in Child : Processing(m.ctx[c])},
              !.headers = IF x = "header" THEN @ + 1 ELSE @,
              !.index = CASE x = "header" -> @ + 1 [] x = "end-of-message" -> 0
                          [] OTHER -> @,
              !.body = IF x = "body" THEN @ + 1 ELSE @,
              !.replaced = IF x = "body" THEN FALSE ELSE @,
              !.sending = IF x = "body" THEN FALSE ELSE @]

\* milter_manager_children_header, _end_of_header, _body, _end_of_message: the
\* first waiting child gets the command.  A header is fetched by
\* processing_header_index; when there is none at that place, or the child's timer
\* still runs (BUSY), the leader returns the manager's fallback.  A child that does
\* not want the command continues at once; an expired one may take the packet or not.
SendCommand(x) ==
    /\ MaySend(x)
    /\ \E c \in Child : Processing(mgr.ctx[c])
    /\ LET m == Taken(Asked(mgr), x)
           c == First(m.waiting)
           k == m.ctx[c]
           missing == x = "header" /\ m.index > m.headers
           passes == x \in NoStep[c] \cup (IF k.skip THEN {"body"} ELSE {})
           quiet == CompileAt([m EXCEPT !.ctx[c].state = x], x,
                              IF x = "body" /\ ~k.skip THEN "skip" ELSE "continue")
       IN \/ /\ ~missing /\ passes
             /\ mgr' = IF k.attached THEN Say(quiet, "continue") ELSE m
          \/ /\ ~missing /\ ~passes /\ k.timer = "none"
             /\ mgr' = [m EXCEPT !.ctx[c] = Write(k, x)]
          \/ /\ missing \/ (~passes /\ (k.timer # "none" \/ ~k.attached))
             /\ mgr' = Return(m, ManagerFallback)
    /\ Sent(x)
    /\ UNCHANGED <<joined, verdict>>

\* No child is processing the message: the error makes the leader reply, and the
\* handler's result makes the client context reply again.
RefuseCommand(x) ==
    /\ MaySend(x)
    /\ \A c \in Child : ~Processing(mgr.ctx[c])
    /\ mgr' = LET m == Asked(mgr) IN
              [m EXCEPT !.replied = TRUE, !.packets = <<ManagerFallback, ManagerFallback>>]
    /\ Sent(x)
    /\ UNCHANGED <<joined, verdict>>

\* milter_manager_leader_abort: the MTA ends a message before its end, because
\* the client did or because of what it was told.
MtaAbort ==
    /\ mta.cmd \in {"data"} \cup (MessageCommand \ {"end-of-message"}) /\ ~Waiting
    /\ mgr' = AbortAll([mgr EXCEPT !.replied = FALSE, !.packets = <<>>])
    /\ mta' = [mta EXCEPT !.cmd = "abort"]
    /\ UNCHANGED <<joined, verdict>>

-----------------------------------------------------------------------------
(* Events of a child's connection *)

Working(k) == k.owes \/ (k.next # <<>> /\ k.next[Len(k.next)] # "abort")

Decide(c, st) == verdict' = [verdict EXCEPT ![c] = st]

Flush(c) ==
    /\ mgr.ctx[c].attached /\ mgr.ctx[c].next # <<>>
    /\ mgr' = [mgr EXCEPT !.ctx[c] = Flushed(@)]
    /\ UNCHANGED <<mta, joined, verdict>>

Effective(c, r) == IF c \in Evaluation /\ r \in Refusal THEN "accept" ELSE r

\* The decoder callbacks of a context and cb_continue, cb_skip, cb_accept,
\* cb_reject, cb_temporary_failure and cb_discard: after CONTINUE the child is
\* given what follows, at the end of the message and after ACCEPT the next child
\* starts, a refusal ends the message for everybody.
Heard(c, r) ==
    LET k == mgr.ctx[c]
        idle == [mgr EXCEPT !.ctx[c].timer = "none", !.ctx[c].owes = FALSE]
        m == CompileAt(idle, k.state, Effective(c, r))
        out == [m EXCEPT !.ctx[c].pmsg = FALSE]
        skips == [m EXCEPT !.ctx[c].skip = TRUE]
    IN CASE r = "continue" -> IF k.state = "end-of-message" THEN NextChild(m, c)
                              ELSE Proceed(m, c, k.state)
         [] r = "skip" -> IF m.st # "end-of-message" THEN Say(skips, "continue")
                          ELSE Proceed(skips, c, "body")
         [] r = "accept" -> NextChild(out, c)
         [] OTHER -> AbortAll(EmitOnce(out, k.state))

Reply(c, r) ==
    /\ mgr.ctx[c].attached /\ mgr.ctx[c].owes
    /\ r = "skip" => mgr.ctx[c].state = "body"
    /\ mgr' = Heard(c, r)
    /\ IF r \in Refusal \cup {"accept"} \/ mgr.ctx[c].state = "end-of-message"
       THEN Decide(c, r) ELSE UNCHANGED verdict
    /\ UNCHANGED <<mta, joined>>

\* cb_add_header, cb_insert_header, cb_delete_header, cb_replace_body: allowed
\* at the end of the message, without effect in evaluation mode.
Edit(c, e) ==
    /\ mgr.ctx[c].attached /\ mgr.ctx[c].owes /\ mgr.ctx[c].state = "end-of-message"
    /\ mta.edits < MaxEdits
    /\ mta' = [mta EXCEPT !.edits = @ + 1]
    /\ e = "delete-header" => mgr.headers > 0
    /\ mgr' = IF c \in Evaluation THEN mgr ELSE
              CASE e = "add-header" -> [mgr EXCEPT !.headers = @ + 1]
                [] e = "delete-header" -> [mgr EXCEPT !.headers = @ - 1]
                [] OTHER -> LET new == IF e = "empty-body" THEN 0 ELSE 1 IN
                   [mgr EXCEPT !.body = IF mgr.replaced THEN @ + new ELSE new,
                               !.emitted = IF mgr.replaced THEN @ ELSE FALSE,
                               !.replaced = TRUE]
    /\ UNCHANGED <<joined, verdict>>

\* Mutant: milter.fallback_status is ignored.
FailedTempfail(c) ==
    LET m == CompileAt([mgr EXCEPT !.ctx[c] = Expired(@)], mgr.ctx[c].state,
                       "temporary-failure")
        told == EmitSlot(m, m.pst)
    IN IF m.rs[m.pst] \in Refusal THEN AbortAll(told) ELSE told

\* cb_writing_timeout, cb_reading_timeout, cb_end_of_message_timeout and
\* cb_error, with remove_child_from_queue: nobody is in reply_queue, so the slot
\* of processing_state is emitted, and a refusal aborts every child.
Failed(c) ==
    LET m == CompileAt([mgr EXCEPT !.ctx[c] = Expired(@)], mgr.ctx[c].state, Fallback[c])
        told == EmitSlot(m, m.pst)
    IN IF m.rs[m.pst] \in Refusal THEN AbortAll(told) ELSE told

Fail(c) == mgr' = Failed(c) /\ Decide(c, Fallback[c]) /\ UNCHANGED <<mta, joined>>

Timeout(c) == /\ "timeout" \in Faults
              /\ mgr.ctx[c].attached /\ mgr.ctx[c].timer # "none" /\ Fail(c)

ChildError(c) ==
    /\ mgr.ctx[c].attached
    /\ (IF Working(mgr.ctx[c]) THEN "error" ELSE "idle") \in Faults
    /\ Fail(c)

\* cb_finished: the child closed its connection.  The fallback counts, and the
\* next child starts, only if a timer was running.
ChildFinished(c) ==
    LET k == mgr.ctx[c]
        gone == [mgr EXCEPT !.ctx[c] = Expired(@)]
        fell == CompileAt(gone, k.state, Fallback[c])
    IN /\ "closed" \in Faults /\ k.attached
       /\ mgr' = IF k.timer = "none" THEN gone
                 ELSE IF mgr.pst \in MessageCommand
                 THEN IF mgr.emitted THEN fell ELSE NextChild(fell, c)
                 ELSE IF fell.rs[mgr.pst] \in Refusal
                 THEN AbortAll(EmitSlot(fell, mgr.pst)) ELSE EmitSlot(fell, mgr.pst)
       /\ IF k.timer = "none" THEN UNCHANGED verdict ELSE Decide(c, Fallback[c])
       /\ UNCHANGED <<mta, joined>>

-----------------------------------------------------------------------------
\* The first message of a session is about to begin.
Init ==
    /\ mgr = [st |-> "abort", pst |-> "abort", rs |-> [s \in Slot |-> "not-change"],
              waiting |-> {}, cmds |-> {}, headers |-> 0, index |-> 0, body |-> 0,
              sending |-> FALSE, offset |-> 0, replaced |-> FALSE, emitted |-> FALSE,
              ctx |-> [c \in Child |->
                  [state |-> "abort", next |-> <<>>, timer |-> "none",
                   pmsg |-> FALSE, quitted |-> FALSE, attached |-> TRUE,
                   skip |-> FALSE, owes |-> FALSE, hdrs |-> 0, chunks |-> 0]],
              replied |-> FALSE, packets |-> <<>>]
    /\ mta = [cmd |-> "abort", headers |-> 0, chunks |-> 0, edits |-> 0, messages |-> 0]
    /\ joined = {} /\ verdict = [c \in Child |-> "not-change"]

MtaNext == NewMessage \/ MtaAbort
           \/ \E x \in MessageCommand : SendCommand(x) \/ RefuseCommand(x)

Hears(c) == \E r \in Answers : Reply(c, r)

ChildNext(c) == \/ Flush(c) \/ Hears(c) \/ (\E e \in Edits : Edit(c, e))
                \/ Timeout(c) \/ ChildError(c) \/ ChildFinished(c)

Next == MtaNext \/ \E c \in Child : ChildNext(c)

Spec == Init /\ [][Next]_vars

\* The event loop flushes every connection and fires every timer.
TimerFairness == \A c \in Child : WF_vars(Flush(c)) /\ WF_vars(Timeout(c))

\* The children answer: a duty of theirs, not of the manager.
AnswerFairness == \A c \in Child : WF_vars(Hears(c))

TimedSpec == Spec /\ TimerFairness
LiveSpec  == Spec /\ TimerFairness /\ AnswerFairness

-----------------------------------------------------------------------------
TypeOK ==
    /\ mgr \in Manager
    /\ mta \in [cmd : {"data", "abort"} \cup MessageCommand, headers : Nat,
                chunks : Nat, edits : Nat, messages : Nat]
    /\ joined \subseteq Child
    /\ verdict \in [Child -> Status]

\* The children take turns: only the first of command_waiting_child_queue
\* works on the message, and nobody does once the MTA is answered.
OneAtATime ==
    \A c \in Child : mgr.ctx[c].attached /\ Working(mgr.ctx[c]) =>
        Waiting /\ mgr.waiting # {} /\ c = First(mgr.waiting)

\* When the end of the message is written to a child, the child was sent every
\* header and the whole body as its predecessors left them, but for what it
\* declined and for parts the MTA's message did not have (command_queue,
\* processing_header_index, sent_body_offset).
SeesWholeMessage ==
    \A c \in Child :
        LET k == mgr.ctx[c]
        IN k.attached /\ k.next # <<>> /\ k.next[Len(k.next)] = "end-of-message" =>
            /\ "header" \in mgr.cmds \ NoStep[c] => k.hdrs = mgr.headers
            /\ "body" \in mgr.cmds \ NoStep[c] => k.skip \/ k.chunks = mgr.body

\* The MTA was told to deliver the message.
Accepted ==
    /\ mta.cmd \in MessageCommand /\ mgr.packets # <<>>
    /\ \/ mgr.packets[1] = "accept"
       \/ mta.cmd = "end-of-message" /\ mgr.packets[1] = "continue"

\* A message is let through only when every child that takes part in it has
\* decided: none is bypassed in command_waiting_child_queue.
EveryChildDecides == Accepted => \A c \in joined : verdict[c] # "not-change"

\* A message that a child refused, or whose child fell back to a refusal, is not
\* let through, and the MTA hears of the refusal.
RefusalArrives ==
    mta.cmd \in MessageCommand /\ ~Waiting /\ (\E c \in joined : verdict[c] \in Refusal) =>
        mgr.packets[1] \in Refusal

\* The MTA is told to refuse a message only with the refusal of a child for this
\* message (reply_statuses).
RefusalIsOwn ==
    mta.cmd \in MessageCommand /\ ~Waiting /\ mgr.packets[1] \in Refusal =>
        \E c \in joined : verdict[c] = mgr.packets[1]

\* A command of the MTA is answered.
Answered == Waiting ~> ~Waiting
=============================================================================
