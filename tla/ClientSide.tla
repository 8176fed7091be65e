---------------------------- MODULE ClientSide ------------------------------
(* The MTA's side of a session: the client context                           *)
(* (milter-client-context.c) decodes the MTA's commands, the leader          *)
(* (milter-manager-leader.c) passes them on to the children object and       *)
(* passes its verdicts, edits and reply codes back.  Edits are collected in  *)
(* buffered_packets until the verdict on the message, and every packet that  *)
(* is written starts the timeout of the MTA.                                 *)
(*                                                                           *)
(* The children object is the environment: it answers every command once, in *)
(* order (EnvelopePhase and MessagePhase say how), also one that the MTA has *)
(* aborted in the meantime: milter_manager_children_abort takes back nothing *)
(* that a child was asked.  The session is negotiated; Negotiation models    *)
(* what comes before.                                                        *)
EXTENDS MilterProtocol, Sequences

CONSTANTS
    Verdicts,       \* the verdicts the children object may emit without a code
    Codes,          \* the refusals it may emit with a reply code
    AtOnce,         \* the statuses a handler may return instead of PROGRESS
    Granted,        \* the edits the MTA negotiated: "edit" (of headers, sender or
                    \* recipients), "body"
    EditsAt,        \* the commands during which it asks for edits or quarantine
    BufferSize,     \* packet_buffer_size, in edits
    AbortsAt,       \* the commands the MTA may abort before they are answered
    Overtakes,      \* the MTA sends END_OF_MESSAGE before BODY is answered
    MaxEdits,       \* bound on the edits of a message
    MaxMessages     \* bound on the messages of a session

Command == EnvelopeCommand \cup {"header", "end-of-header", "body", "end-of-message"}

ASSUME ClientAssumption ==
    /\ Verdicts \subseteq Verdict /\ AtOnce \subseteq Verdict
    /\ Codes \subseteq {"temporary-failure", "reject"}
    /\ Granted \subseteq {"edit", "body"} /\ EditsAt \subseteq Command /\ AbortsAt \subseteq Command
    /\ BufferSize \in Nat /\ MaxEdits \in Nat /\ MaxMessages \in Nat
    /\ Overtakes \in BOOLEAN

VARIABLES
    k,    \* the client context
    l,    \* the leader
    mta,  \* the MTA: what it did, awaits and got
    owed, \* the commands the children object has not answered, in order
    hist  \* history: what the children object asked for in the current message, and
          \* whether the MTA has ever aborted or overtaken a command without an answer

vars == <<k, l, mta, owed, hist>>

\* An edit is known by its message and its number in it.
Edit == Nat \X Nat

\* state and last_state, status, whether timeout_id is set, buffered_packets and
\* buffering, quarantine_reason (0: none, or the message it was given for), the
\* class of reply_code, whether message_result exists, whether the agent is not
\* shut down and whether writing fails.
Context == [state : Command \cup {"negotiate", "abort", "quit"}, replied : BOOLEAN,
            last : Command \cup {"negotiate"},
            status : Verdict \cup {"default", "abort"}, timer : BOOLEAN,
            buffer : Seq(Edit), buffering : BOOLEAN, quarantine : Nat,
            code : {"none", "temporary-failure", "reject"}, result : BOOLEAN,
            open : BOOLEAN, broken : BOOLEAN]

\* MilterManagerLeaderPrivate: state and sent_end_of_message.
Leader == [state : Command \cup {"negotiate", "abort", "quit"}, replied : BOOLEAN,
           sentEnd : BOOLEAN]

Place == {"negotiated", "connected", "greeted", "mail", "rcpt", "data", "header",
          "end-of-header", "body", "refused", "over"}

\* The last answer the MTA got since its last command: the command it takes the
\* answer for, the command of the response signal it was sent with, the command
\* the children object gave it for ("aborted": one the MTA has aborted), what the
\* packet says and what the children object said.
Got == [to : Command \cup {"none", "nothing"}, as : Command \cup {"none"},
        of : Command \cup {"none", "aborted"},
        told : Verdict \cup {"none"}, meant : Verdict \cup {"none"}]

NoAnswer == [to |-> "none", as |-> "none", of |-> "none", told |-> "none", meant |-> "none"]

\* What the MTA got for the message: the edits, the quarantine and the answer.
Mta == [place : Place, awaits : Seq(Command), msg : Nat, dead : BOOLEAN,
        edits : Seq(Edit), quarantine : Nat, got : Got]

\* A command that is not answered; late: its message was aborted.
Owed == [of : Command, late : BOOLEAN]

History == [edits : Seq(Edit), quarantine : Nat, aborted : BOOLEAN, overtook : BOOLEAN]

Seen == [k |-> k, mta |-> mta]

-----------------------------------------------------------------------------
(* The MTA *)

\* Where the MTA is once it was told r in answer to command x at place p.
After(p, x, r) ==
    CASE x = "connect" -> IF r = "continue" THEN "connected" ELSE "over"
      [] x = "helo" -> IF r = "continue" THEN "greeted" ELSE "over"
      [] x = "envelope-from" -> IF r = "continue" THEN "mail" ELSE "greeted"
      [] x = "envelope-recipient" ->
            CASE r = "continue" -> "rcpt"
              [] r \in {"reject", "temporary-failure"} -> p
              [] OTHER -> "refused"
      [] x = "unknown" -> p
      [] x = "end-of-message" -> "greeted"
      [] OTHER -> IF r \in {"continue", "skip"} THEN x ELSE "refused"

Follows ==
    [p \in Place |->
        CASE p = "negotiated" -> {"connect"}
          [] p = "connected" -> {"helo", "unknown"}
          [] p = "greeted" -> {"envelope-from", "unknown"}
          [] p = "mail" -> {"envelope-recipient"}
          [] p = "rcpt" -> {"envelope-recipient", "data"}
          [] p = "data" -> {"header"}
          [] p = "header" -> {"header", "end-of-header"}
          [] p \in {"end-of-header", "body"} -> {"body", "end-of-message"}
          [] OTHER -> {}]

MaySend(x) ==
    /\ ~mta.dead /\ k.open
    /\ \/ mta.awaits = <<>> /\ x \in Follows[mta.place]
       \/ Overtakes /\ mta.awaits = <<"body">> /\ x = "end-of-message"
    /\ x = "envelope-from" => mta.msg < MaxMessages

-----------------------------------------------------------------------------
(* The client context; each operator takes and returns what Seen has *)

\* milter_client_context_set_state: a reply, ABORT and QUIT leave last_state.
SetState(c, x, replied) ==
    [c EXCEPT !.state = x, !.replied = replied,
              !.last = IF x \in Command /\ ~replied THEN x ELSE @]

\* Mutant: the timeout is not started again.
Untimed(c) == c

\* write_packet starts the timeout, even if nothing can be written.
Timed(c) == [c EXCEPT !.timer = TRUE]

\* write_packet.  Take is what the MTA makes of the packet.
Write(s, Take(_)) ==
    [k   |-> Timed(s.k),
     mta |-> IF s.k.broken \/ ~s.k.open THEN s.mta ELSE Take(s.mta)]

\* flush: the buffered packets are written, or lost with an error.
Flush(s) ==
    IF ~s.k.buffering THEN s
    ELSE LET w == Write(s, LAMBDA t : [t EXCEPT !.edits = @ \o s.k.buffer])
         IN [w EXCEPT !.k.buffering = FALSE, !.k.buffer = <<>>]

\* create_reply_packet: a refusal is sent with the reply code if one is set, and
\* then the class of the code is what the MTA acts on.
CreateReplyPacket(c, st) ==
    IF st \in {"temporary-failure", "reject"} /\ c.code # "none" THEN c.code ELSE st

\* The MTA takes the answer a, which c sends, for that to the first command it
\* awaits.
Told(t, c, a) ==
    LET told == CreateReplyPacket(c, a.st)
        to == IF t.awaits = <<>> THEN "nothing" ELSE Head(t.awaits)
        u == [t EXCEPT !.got = [to |-> to, as |-> c.state, of |-> a.of,
                                told |-> told, meant |-> a.st]]
    IN IF t.awaits = <<>> THEN u
       ELSE [u EXCEPT !.place = After(@, to, told), !.awaits = Tail(@)]

\* reply
Reply(s, a) == Write(s, LAMBDA t : Told(t, s.k, a))

\* Mutant: the verdict is written without a flush.
ReplyOnEndOfMessageEarly(s, a) == Reply(s, a)

\* reply_on_end_of_message: the edits go first, and if they cannot be written
\* there is no verdict; the quarantine is in front of the verdict.
ReplyOnEndOfMessage(s, a) ==
    LET f == Flush(s)
        quarantined(t) == IF f.k.quarantine = 0 THEN t
                          ELSE [t EXCEPT !.quarantine = f.k.quarantine]
    IN IF s.k.buffering /\ s.k.broken THEN f
       ELSE Write(f, LAMBDA t : Told(quarantined(t), f.k, a))

Pass(st) == st \in {"default", "not-change", "continue"}

\* abort_response: nothing is sent; a session that nobody refused is recorded as
\* aborted, or with the status of a late answer, unless its message is over.
AbortResponse(s, st) ==
    LET c == [s.k EXCEPT !.status =
                CASE ~Pass(@) \/ s.k.last = "end-of-message" -> @
                  [] st = "default" -> "abort"
                  [] OTHER -> st]
    IN [s EXCEPT !.k = SetState(c, "abort", TRUE)]

\* end_of_message_response, which ends the message result with the
\* message-processed signal
EndOfMessageResponse(s, a) ==
    LET e == ReplyOnEndOfMessage(s, a) IN [e EXCEPT !.k.result = FALSE]

\* connect_response .. abort_response
Response(s, x, a) ==
    LET r == [s EXCEPT !.k = SetState([@ EXCEPT !.status = a.st], x, TRUE)]
    IN CASE x = "abort" -> AbortResponse(s, a.st)
         [] x = "end-of-message" -> EndOfMessageResponse(r, a)
         [] OTHER -> Reply(r, a)

\* cb_decoder_connect .. cb_decoder_end_of_message up to the signal.
Decoded(c, x) ==
    [SetState(c, x, FALSE) EXCEPT
        !.timer = FALSE, !.result = TRUE,
        !.quarantine = IF x = "end-of-message" THEN 0 ELSE @]

Become(s) == k' = s.k /\ mta' = s.mta

-----------------------------------------------------------------------------
(* Commands of the MTA *)

\* Mutant: END_OF_MESSAGE takes the place of the command that is not answered.
LeaderGetsAtOnce(x) == [l EXCEPT !.state = x, !.replied = FALSE]

\* milter_manager_leader_end_of_message leaves the state of a command that is not
\* answered; the other handlers set theirs.
LeaderGets(x) ==
    IF x = "end-of-message" /\ ~l.replied THEN [l EXCEPT !.sentEnd = TRUE]
    ELSE [l EXCEPT !.state = x, !.replied = FALSE]

\* cb_decoder_connect .. cb_decoder_end_of_message, cb_client_connect ..
\* cb_client_end_of_message and the leader's handlers.  A child that owes an answer
\* is asked, so a fallback comes at once only when nothing is owed.
MtaCommand(x) ==
    /\ MaySend(x)
    /\ l' = LeaderGets(x)
    /\ LET t == [mta EXCEPT !.awaits = Append(@, x), !.got = NoAnswer,
                            !.msg = IF x = "envelope-from" THEN @ + 1 ELSE @,
                            !.edits = IF x = "end-of-message" THEN <<>> ELSE @,
                            !.quarantine = IF x = "end-of-message" THEN 0 ELSE @]
           s == [k |-> Decoded(k, x), mta |-> t]
       IN \/ Become(s) /\ owed' = Append(owed, [of |-> x, late |-> FALSE])
          \/ /\ owed = <<>>
             /\ \E st \in AtOnce : Become(Response(s, x, [of |-> x, st |-> st]))
             /\ owed' = owed
    /\ hist' = [hist EXCEPT !.edits = IF x = "end-of-message" THEN <<>> ELSE @,
                            !.quarantine = IF x = "end-of-message" THEN 0 ELSE @,
                            !.overtook = @ \/ mta.awaits # <<>>]

\* cb_decoder_define_macro: the macros themselves are left out.
MtaMacro ==
    /\ ~mta.dead /\ k.open /\ mta.awaits = <<>> /\ k.timer
    /\ k' = [k EXCEPT !.timer = FALSE]
    /\ UNCHANGED <<l, mta, owed, hist>>

\* cb_decoder_abort and milter_manager_leader_abort, which returns DEFAULT.  What
\* the children were asked they still answer.
MtaAbort ==
    /\ ~mta.dead /\ k.open
    /\ mta.place \notin {"negotiated", "connected", "greeted", "over"}
    /\ \A i \in DOMAIN mta.awaits : mta.awaits[i] \in AbortsAt
    /\ LET c == [SetState(k, "abort", FALSE) EXCEPT !.timer = FALSE, !.result = FALSE]
       IN Become(AbortResponse(
              [k |-> c, mta |-> [mta EXCEPT !.awaits = <<>>, !.place = "greeted"]], "default"))
    /\ l' = [l EXCEPT !.state = "abort", !.replied = FALSE]
    /\ owed' = [i \in DOMAIN owed |-> [owed[i] EXCEPT !.late = TRUE]]
    /\ hist' = [hist EXCEPT !.aborted = @ \/ mta.awaits # <<>>]

\* cb_decoder_quit, the agent's shutdown and finished.
MtaQuit ==
    /\ ~mta.dead /\ k.open
    /\ k' = [SetState(k, "quit", FALSE) EXCEPT !.open = FALSE, !.timer = FALSE]
    /\ l' = [l EXCEPT !.state = "quit", !.replied = FALSE]
    /\ owed' = <<>>
    /\ UNCHANGED <<mta, hist>>

\* The MTA's machine goes silent.
MtaDies == /\ ~mta.dead /\ k.open
           /\ mta' = [mta EXCEPT !.dead = TRUE]
           /\ UNCHANGED <<k, l, owed, hist>>

\* Writing to the MTA begins to fail.
Break == /\ k.open /\ ~k.broken
         /\ k' = [k EXCEPT !.broken = TRUE]
         /\ UNCHANGED <<l, mta, owed, hist>>

\* cb_timeout with milter_manager_leader_timeout
Timeout == /\ k.open /\ k.timer
           /\ k' = [k EXCEPT !.open = FALSE, !.timer = FALSE]
           /\ l' = [l EXCEPT !.state = "quit", !.replied = FALSE]
           /\ owed' = <<>>
           /\ UNCHANGED <<mta, hist>>

-----------------------------------------------------------------------------
(* What the children object emits *)

Working == owed # <<>> /\ k.open

\* next_state
NextState == IF l.state = "body" /\ l.sentEnd
             THEN [l EXCEPT !.state = "end-of-message", !.replied = FALSE]
             ELSE [l EXCEPT !.replied = TRUE]

\* The command the next answer is given for
Asked == IF Head(owed).late THEN "aborted" ELSE Head(owed).of

\* Mutant: the leader replies in a replied state too.
EmitAgain(c, st) ==
    /\ owed' = Tail(owed)
    /\ Become(Response([k |-> c, mta |-> mta], l.state, [of |-> Asked, st |-> st]))
    /\ l' = NextState

\* The leader's reply; BODY_REPLIED has the response signal of BODY.
Emit(c, st) ==
    /\ owed' = Tail(owed)
    /\ IF ~l.replied \/ l.state = "body"
       THEN /\ Become(Response([k |-> c, mta |-> mta], l.state, [of |-> Asked, st |-> st]))
            /\ l' = NextState
       ELSE k' = c /\ UNCHANGED <<mta, l>>

\* cb_continue, cb_accept, cb_reject, cb_temporary_failure, cb_discard, cb_skip
ChildrenReply ==
    /\ Working
    /\ \E st \in Verdicts : /\ st = "skip" => Head(owed).of = "body"
                            /\ Emit(k, st)
    /\ UNCHANGED hist

\* cb_reply_code with milter_client_context_set_reply
ChildrenReplyCode ==
    /\ Working
    /\ \E st \in Codes : Emit([k EXCEPT !.code = st], st)
    /\ UNCHANGED hist

\* A child that answers when ABORT was its last command fails (invalid_state): the
\* answer is lost, and with it what else the child was asked.
ChildrenLose ==
    /\ Working /\ Head(owed).late
    /\ owed' \in {Tail(owed), <<>>}
    /\ UNCHANGED <<k, l, mta, hist>>

\* validate_state and validate_action; an edit that is not valid is refused.
Valid(e) == k.state = "end-of-message" /\ ~k.replied /\ e \in Granted

\* write_packet_on_end_of_message: a full buffer is flushed.
Buffered(s, id) ==
    LET b == [s EXCEPT !.k.buffer = Append(@, id), !.k.buffering = TRUE]
    IN IF Len(b.k.buffer) > BufferSize THEN Flush(b) ELSE b

\* The packets of an edit are named by their message and their place.
Ids(n) == [i \in 1..n |-> <<mta.msg, Len(hist.edits) + i>>]

\* An edit of n packets is asked for, which leaves the client context as in done.
ChildrenAsk(e, n, done) ==
    LET ids == Ids(n)
    IN /\ Working /\ Asked \in EditsAt
       /\ Len(hist.edits) + n <= MaxEdits /\ Len(mta.edits) + Len(k.buffer) + n <= MaxEdits
       /\ Become(IF Valid(e) THEN done ELSE Seen)
       /\ hist' = IF Asked = "end-of-message" /\ e \in Granted
                  THEN [hist EXCEPT !.edits = @ \o ids] ELSE hist
       /\ UNCHANGED <<l, owed>>

\* milter_client_context_add_header .. milter_client_context_delete_recipient
ChildrenEdit ==
    ChildrenAsk("edit", 1, Buffered(Seen, Ids(1)[1]))

\* milter_client_context_replace_body, with a body of two packets
ChildrenReplaceBody ==
    ChildrenAsk("body", 2, Buffered(Buffered(Seen, Ids(2)[1]), Ids(2)[2]))

\* milter_client_context_quarantine, which looks at no state
ChildrenQuarantine ==
    /\ Working /\ Asked \in EditsAt /\ k.quarantine # mta.msg
    /\ k' = [k EXCEPT !.quarantine = mta.msg]
    /\ hist' = [hist EXCEPT !.quarantine = mta.msg]
    /\ UNCHANGED <<l, mta, owed>>

\* milter_client_context_progress
ChildrenProgress ==
    /\ Working /\ Asked \in EditsAt /\ ~k.timer
    /\ Become(Write(Seen, LAMBDA t : t))
    /\ UNCHANGED <<l, owed, hist>>

-----------------------------------------------------------------------------
\* The options were written to the MTA.
Init ==
    /\ k = [state |-> "negotiate", replied |-> TRUE, last |-> "negotiate",
            status |-> "continue", timer |-> TRUE, buffer |-> <<>>, buffering |-> FALSE,
            quarantine |-> 0, code |-> "none", result |-> TRUE, open |-> TRUE,
            broken |-> FALSE]
    /\ l = [state |-> "negotiate", replied |-> FALSE, sentEnd |-> FALSE]
    /\ mta = [place |-> "negotiated", awaits |-> <<>>, msg |-> 0, dead |-> FALSE,
              edits |-> <<>>, quarantine |-> 0, got |-> NoAnswer]
    /\ owed = <<>>
    /\ hist = [edits |-> <<>>, quarantine |-> 0, aborted |-> FALSE, overtook |-> FALSE]

MtaNext == \/ \E x \in Command : MtaCommand(x)
           \/ MtaMacro \/ MtaAbort \/ MtaQuit \/ MtaDies

Answers == ChildrenReply \/ ChildrenReplyCode

Next == \/ MtaNext \/ Break \/ Timeout \/ Answers \/ ChildrenLose
        \/ ChildrenEdit \/ ChildrenReplaceBody \/ ChildrenQuarantine \/ ChildrenProgress

Spec == Init /\ [][Next]_vars

\* The timer fires, and the children object answers (Answered of EnvelopePhase
\* and MessagePhase).  The MTA owes nothing.
FairSpec == Spec /\ WF_vars(Timeout) /\ WF_vars(Answers)

-----------------------------------------------------------------------------
\* The type of every variable.
TypeOK ==
    /\ k \in Context /\ l \in Leader /\ mta \in Mta
    /\ owed \in Seq(Owed)
    /\ hist \in History

\* When the MTA has its verdict on a message, it has every edit the children
\* object made at the end of that message, in order and nothing else, and the
\* quarantine if and only if one was asked for: nothing is left in
\* buffered_packets, lost in an automatic flush, or left over from a message that
\* was refused or aborted.  An MTA that does not wait for its answers may lose edits.
EditsArrive ==
    ~hist.aborted /\ ~hist.overtook =>
        (k.state = "end-of-message" /\ k.replied /\ mta.awaits = <<>> =>
            mta.edits = hist.edits /\ mta.quarantine = hist.quarantine)

\* The MTA never gets an answer it does not await, which it would take for that to
\* its next command: not to an ABORT, nor one that comes late, after the MTA has
\* aborted the command.  The leader answers a command once; only BODY_REPLIED has a
\* response signal, so an answer that comes after that to a body chunk gets through,
\* and an MTA that has aborted and overtaken commands can make the leader expect an
\* end of message that was not sent.
NoStrayAnswer ==
    ~(hist.aborted /\ hist.overtook) => (mta.got.to = "nothing" => mta.got.as = "body")

\* The answer the MTA takes for that to a command is the one the children object
\* gave for that command, and was sent by the handler of that command, also when the
\* end of a message overtakes the answer to a chunk.  Once the MTA has aborted a
\* command that was not answered, late answers are taken for those to later commands.
OwnAnswer == ~hist.aborted => mta.got.of = mta.got.to /\ mta.got.as = mta.got.to

\* The MTA gets a refusal of the class the children object came to: "4xx code is
\* used on MILTER_REPLY_TEMPORARY_FAILURE. 5xx code is used on MILTER_REPLY_REJECT."
\* No run claims it: create_reply_packet sends a code that an earlier refusal left.
TruthTold == mta.got.told = mta.got.meant

\* A session whose MTA has gone silent ends, unless its last command was ABORT
\* or a macro: those stop the timeout and nothing starts it again.  The answer that
\* would start it may be lost once the MTA has aborted an unanswered command.
SilentMtaNoticed ==
    (mta.dead /\ ~hist.aborted /\ (k.timer \/ owed # <<>>)) ~> ~k.open
=============================================================================
