---------------------------- MODULE Negotiation -----------------------------
(* The negotiation of a session: the leader asks the children object to      *)
(* connect to every child milter, each child answers with the options it     *)
(* wants, and the MTA is told the merged options when reply_queue is empty.  *)
(* A connection may fail at once, later, or time out; a child that failed is *)
(* tried once more, after its command was started in privilege mode.  A try  *)
(* is a NegotiateData, whose handlers are connected to the child's signals   *)
(* until the data is removed from try_negotiate_ids.                         *)
(*                                                                           *)
(* The model ends with the MTA's CONNECT, where EnvelopePhase takes over.    *)
EXTENDS MilterProtocol, Sequences, FiniteSets

CONSTANTS
    Child,            \* the child milters of the configuration
    Fallback,         \* milter.fallback_status of each child
    ManagerFallback,  \* manager.fallback_status
    Privilege,        \* security.privilege_mode
    Launchable,       \* the children whose command the launcher can start
    Immediate,        \* the children whose connect() fails at once if it fails
    Offered,          \* the steps the MTA offers
    Wishes,           \* the sets of steps a child may answer with
    Faults            \* what may go wrong, see the actions

Refusal == {"temporary-failure", "reject", "discard"}

\* MilterStepFlags by kind, one of each: NO_EVENT, NO_REPLY and YES steps.
NoEventStep == {"no-helo"}
NoReplyStep == {"no-reply-helo"}
YesStep     == {"skip"}
Step        == NoEventStep \cup NoReplyStep \cup YesStep

ASSUME ConfigAssumption ==
    /\ IsFiniteSet(Child)
    /\ Fallback \in [Child -> Refusal \cup {"accept"}]
    /\ ManagerFallback \in Refusal \cup {"accept"}
    /\ Privilege \in BOOLEAN
    /\ Launchable \subseteq Child /\ Immediate \subseteq Child
    /\ Offered \subseteq Step /\ Wishes \subseteq SUBSET Step
    /\ Faults \subseteq {"connect", "start", "connection-timeout", "version",
                         "closed", "timeout", "error", "late"}

VARIABLES
    m,      \* the children object, its contexts and the leader
    wish,   \* history: the steps each child answered with
    first   \* what the MTA was told of CONNECT ("none": not sent yet)

vars == <<m, wish, first>>

Data == [retry : BOOLEAN, timer : BOOLEAN]

\* A server context: the connect watches of the event loop (the context knows
\* the latest), the running timer, the protocol state, whether the NEGOTIATE
\* packet is unflushed, the flags, how often the manager's handlers are connected,
\* and the tries of this child in try_negotiate_ids.
Context == [watches : Nat, timer : {"none", "connection", "writing", "reading"},
            state : {"start", "negotiate"}, unflushed : BOOLEAN,
            negotiated : BOOLEAN, quitted : BOOLEAN, hooks : Nat, data : Seq(Data)]

\* MilterManagerChildrenPrivate: milters, reply_queue, processing_state, the
\* NEGOTIATE slot of reply_statuses, option, requested_yes_steps,
\* all_expired_as_fallback_on_negotiated, lazy_reply_negotiate_id; whether the
\* leader is in NEGOTIATE_REPLIED, and the packets written to the MTA.
Manager == [milters : SUBSET Child, queue : SUBSET Child,
            pst : {"start", "negotiate", "abort", "connect"}, slot : Status,
            steps : SUBSET Step, yes : SUBSET Step, allExpired : BOOLEAN, lazy : BOOLEAN,
            replied : BOOLEAN, packets : Seq({"options", "reject"}),
            ctx : [Child -> Context]]

-----------------------------------------------------------------------------
(* The answer to the MTA *)

\* Mutant: the handlers of an expired child stay connected.
ExpiredHooked(k) == [k EXCEPT !.quitted = TRUE]

\* expire_child
Expired(k) == [k EXCEPT !.quitted = TRUE, !.hooks = 0]

\* milter_server_context_is_quitted
IsQuitted(k) == ~k.negotiated \/ k.quitted

\* Mutant: a step that one child does not want is enough.
MergeAny(steps, src) == steps \cup src

\* milter_step_flags_merge: NO steps need everybody, YES steps anybody.
Merge(steps, src) == (steps \cap src \cap (NoEventStep \cup NoReplyStep))
                     \cup ((steps \cup src) \cap YesStep)

Lost(a) == {c \in a.milters : ~a.ctx[c].negotiated}

\* Mutant: the fallback of a lost child is not looked at.
FallbackIgnored(a) == a

\* check_fallback_status_on_negotiate: when the strongest fallback of the
\* children that did not negotiate is a refusal, the others are expired.
CheckFallback(a) ==
    LET done == a.milters \ Lost(a)
    IN IF Strongest({"continue"} \cup {Fallback[c] : c \in Lost(a)}) \notin Refusal THEN a
       ELSE [a EXCEPT !.allExpired = @ \/ done # {},
                      !.ctx = [c \in Child |-> IF c \in done THEN Expired(@[c]) ELSE @[c]]]

\* reply_negotiate and the leader's cb_negotiate_reply, which leaves its state.
ReplyNegotiate(a) ==
    CheckFallback([a EXCEPT
        !.steps = @ \ (NoEventStep \cup (YesStep \ (Offered \cap a.yes))),
        !.packets = Append(@, "options")])

\* remove_queue_in_negotiate, also for a child that is no longer queued
RemoveQueue(a, c) ==
    LET b == [a EXCEPT !.queue = @ \ {c}]
    IN IF b.queue = {} THEN ReplyNegotiate(b) ELSE b

\* emit_reply_status_of_state and the leader's reply: of the statuses only
\* REJECT has a packet in the client context's negotiate_response.
EmitSlot(a) ==
    LET st == IF a.pst = "negotiate" THEN a.slot ELSE "not-change"
    IN IF st = "not-change" THEN a
       ELSE [a EXCEPT !.replied = TRUE,
                      !.packets = IF st = "reject" /\ ~a.replied THEN Append(@, st) ELSE @,
                      !.pst = IF st \in Refusal THEN "abort" ELSE @]

\* compile_reply_status with the fallback: the slot is that of the context's state.
FallBack(a, c) ==
    IF a.ctx[c].state = "negotiate" THEN [a EXCEPT !.slot = Compile(@, Fallback[c])] ELSE a

\* cb_error, cb_writing_timeout and cb_reading_timeout with
\* remove_child_from_queue; connected only while the child has handlers.
CbError(a, c) ==
    LET b == [FallBack(a, c) EXCEPT !.ctx[c] = Expired(@), !.queue = @ \ {c}]
    IN IF a.ctx[c].hooks = 0 THEN a ELSE IF b.queue = {} THEN EmitSlot(b) ELSE b

-----------------------------------------------------------------------------
(* The tries *)

\* milter_manager_children_start_child in privilege mode
CanStart(c) == Privilege /\ c \in Launchable

AddTry(a, c, retry, timer) ==
    [a EXCEPT !.ctx[c].data = Append(@, [retry |-> retry, timer |-> timer])]

DropTry(a, c) == [a EXCEPT !.ctx[c].data = Tail(@)]

\* Mutant: the try that failed is kept.
ClearKept(a, c) == LET b == RemoveQueue(a, c) IN [b EXCEPT !.ctx[c] = Expired(@)]

\* clear_try_negotiate_data
Clear(a, c) ==
    LET b == RemoveQueue(a, c) IN DropTry([b EXCEPT !.ctx[c] = Expired(@)], c)

\* milter_server_context_establish_connection and child_establish_connection.
\* An attempt that fails at once is tried again later, but a retry is given up.
Establish(a, c, ok, retry) ==
    LET gone == RemoveQueue([a EXCEPT !.ctx[c].timer = "none"], c)
    IN CASE ok -> AddTry([a EXCEPT !.ctx[c].watches = @ + 1,
                                   !.ctx[c].timer = "connection"], c, retry, FALSE)
         [] ~ok /\ retry -> [gone EXCEPT !.ctx[c] = Expired(@)]
         [] OTHER -> AddTry([a EXCEPT !.ctx[c].timer = "none"], c, TRUE, TRUE)

\* Mutant: nobody waits for a child that cannot be started, and nobody is told.
ConnectionErrorSilent(a, c, server) ==
    LET d == Head(a.ctx[c].data)
    IN IF server /\ ~d.retry /\ CanStart(c)
       THEN DropTry(AddTry(a, c, TRUE, TRUE), c)
       ELSE IF d.retry THEN Clear(a, c) ELSE DropTry(a, c)

\* cb_connection_error of the first try; server: the error's domain is
\* MILTER_SERVER_CONTEXT_ERROR.
ConnectionError(a, c, server) ==
    IF server /\ ~Head(a.ctx[c].data).retry /\ CanStart(c)
    THEN DropTry(AddTry(a, c, TRUE, TRUE), c)
    ELSE Clear(a, c)

\* A handler of the tries, run for each try that is there when a signal is emitted;
\* every handler removes its own try.
ForEachTry(a, c, Handle(_)) ==
    LET after[i \in 0..Len(a.ctx[c].data)] == IF i = 0 THEN a ELSE Handle(after[i - 1])
    IN after[Len(a.ctx[c].data)]

\* The "error" signal of child c: the tries' handlers, then cb_error.
EmitError(a, c, server) ==
    CbError(ForEachTry(a, c, LAMBDA b : ConnectionError(b, c, server)), c)

\* cb_ready of every try.  The first one writes the NEGOTIATE packet; a second
\* one connects the handlers again and finds the context BUSY.
EmitReady(a, c) ==
    LET one == DropTry([a EXCEPT !.ctx[c].hooks = @ + 1, !.ctx[c].unflushed = TRUE,
                                 !.ctx[c].timer = "writing"], c)
        two == [one EXCEPT !.ctx[c].hooks = @ + 1]
    IN CASE Len(a.ctx[c].data) = 0 -> a
         [] Len(a.ctx[c].data) = 1 -> one
         [] OTHER -> EmitError(two, c, TRUE)

-----------------------------------------------------------------------------
(* Actions *)

\* milter_manager_leader_negotiate and milter_manager_children_negotiate: every
\* child is queued and its connection is begun; of those for which connect()
\* fails at once, one that can be started is tried a second time.  Without a
\* child the reply is left to an idle callback.
Begun(c, failed) ==
    LET fresh == m.ctx[c]
    IN IF c \notin failed
       THEN [fresh EXCEPT !.watches = 1, !.timer = "connection",
                          !.data = <<[retry |-> FALSE, timer |-> FALSE]>>]
       ELSE [fresh EXCEPT !.data = <<[retry |-> TRUE, timer |-> TRUE]>> \o
                IF CanStart(c) THEN <<[retry |-> FALSE, timer |-> TRUE]>> ELSE <<>>]

Negotiate ==
    /\ m.pst = "start" /\ ~m.lazy
    /\ \E failed \in SUBSET (m.milters \cap Immediate) :
        /\ failed # {} => "connect" \in Faults
        /\ m' = IF m.milters = {} THEN [m EXCEPT !.lazy = TRUE]
                ELSE [m EXCEPT !.pst = "negotiate", !.queue = m.milters,
                               !.ctx = [c \in Child |-> IF c \in m.milters
                                            THEN Begun(c, failed) ELSE @[c]]]
    /\ UNCHANGED <<wish, first>>

\* cb_idle_reply_negotiate_on_no_child
IdleReply ==
    /\ m.lazy
    /\ m' = ReplyNegotiate([m EXCEPT !.lazy = FALSE, !.pst = "negotiate"])
    /\ UNCHANGED <<wish, first>>

Running(c) == m.pst \in {"negotiate", "abort"} /\ c \in m.milters

\* retry_establish_connection of the i-th try, whose timer fires.  The try is
\* removed last.
Retry(c, i) ==
    /\ Running(c) /\ i \in DOMAIN m.ctx[c].data /\ m.ctx[c].data[i].timer
    /\ \E ok \in BOOLEAN :
        /\ ok \/ (c \in Immediate /\ "connect" \in Faults)
        /\ LET a == Establish(m, c, ok, TRUE)
               without(s) == SubSeq(s, 1, i - 1) \o SubSeq(s, i + 1, Len(s))
           IN m' = [a EXCEPT !.ctx[c].data = without(@)]
    /\ UNCHANGED <<wish, first>>

\* connect_watch_func of a watch: when an older one fires, the latest is
\* disposed of with it.
Watched(c) == {[m EXCEPT !.ctx[c].timer = "none", !.ctx[c].watches = n] :
                   n \in {0, m.ctx[c].watches - 1}}

Connected(c) ==
    /\ Running(c) /\ m.ctx[c].watches > 0
    /\ \E a \in Watched(c) : m' = EmitReady(a, c)
    /\ UNCHANGED <<wish, first>>

\* connect() failed ("connect"), or the agent does not start ("start").
ConnectFailed(c) ==
    /\ Running(c) /\ m.ctx[c].watches > 0
    /\ \E a \in Watched(c), f \in Faults \cap {"connect", "start"} :
           m' = EmitError(a, c, f = "connect")
    /\ UNCHANGED <<wish, first>>

\* cb_connection_timeout of the context, then of every try.
ConnectionTimeout(c) ==
    /\ Running(c) /\ m.ctx[c].timer = "connection" /\ "connection-timeout" \in Faults
    /\ m' = ForEachTry([m EXCEPT !.ctx[c].timer = "none"], c, LAMBDA a : Clear(a, c))
    /\ UNCHANGED <<wish, first>>

Live(c) == Running(c) /\ m.ctx[c].hooks > 0

Flush(c) ==
    /\ Live(c) /\ m.ctx[c].unflushed
    /\ m' = [m EXCEPT !.ctx[c].unflushed = FALSE, !.ctx[c].state = "negotiate",
                      !.ctx[c].timer = "reading"]
    /\ UNCHANGED <<wish, first>>

\* The children object's cb_negotiate_reply, for each of its connections.
Agreed(a, c, w) ==
    RemoveQueue([a EXCEPT !.steps = Merge(@, w), !.yes = @ \cup (w \cap YesStep)], c)

\* cb_decoder_negotiate_reply: a version that is too new is an error.
NegotiateReply(c) ==
    /\ Live(c) /\ m.ctx[c].state = "negotiate" /\ m.ctx[c].timer = "reading"
    /\ \E w \in Wishes :
        LET a == [m EXCEPT !.ctx[c].timer = "none"]
            b == [a EXCEPT !.ctx[c].negotiated = TRUE]
            once == Agreed(b, c, w)
        IN \/ /\ m' = IF b.ctx[c].hooks > 1 /\ once.ctx[c].hooks > 0
                      THEN Agreed(once, c, w) ELSE once
              /\ wish' = [wish EXCEPT ![c] = w]
           \/ /\ "version" \in Faults
              /\ m' = EmitError(a, c, TRUE)
              /\ UNCHANGED wish
    /\ UNCHANGED first

\* Only with "late" does a child that has answered fail after the last answer.
InTime == m.queue # {} \/ "late" \in Faults

\* No answer or no flush in time, or an I/O or protocol error.
ChildFails(c) ==
    /\ Live(c)
    /\ \/ "timeout" \in Faults /\ m.ctx[c].timer \in {"writing", "reading"}
       \/ "error" \in Faults /\ InTime
    /\ m' = CbError(m, c)
    /\ UNCHANGED <<wish, first>>

\* cb_finished: the child closes its connection.
ChildFinished(c) ==
    LET a == IF m.ctx[c].timer = "none" THEN m ELSE FallBack(m, c)
        b == [a EXCEPT !.ctx[c] = Expired(@)]
    IN /\ Live(c) /\ "closed" \in Faults /\ InTime
       /\ m' = IF m.pst = "negotiate" THEN RemoveQueue(b, c)
               ELSE [b EXCEPT !.queue = @ \ {c}]
       /\ UNCHANGED <<wish, first>>

\* The MTA's CONNECT with milter_manager_children_check_alive: without a living
\* child the leader returns the manager's fallback.
MtaConnect ==
    /\ m.packets # <<>> /\ m.packets[1] = "options" /\ m.pst \in {"negotiate", "abort"}
    /\ m' = [m EXCEPT !.pst = "connect"]
    /\ first' = IF m.allExpired \/ \A c \in m.milters : IsQuitted(m.ctx[c])
                THEN ManagerFallback ELSE "progress"
    /\ UNCHANGED wish

-----------------------------------------------------------------------------
\* The configuration picks the children of the session.
Init ==
    /\ \E M \in SUBSET Child :
        m = [milters |-> M, queue |-> {}, pst |-> "start", slot |-> "not-change",
             steps |-> Offered, yes |-> {}, allExpired |-> FALSE, lazy |-> FALSE,
             replied |-> FALSE, packets |-> <<>>,
             ctx |-> [c \in Child |->
                 [watches |-> 0, timer |-> "none", state |-> "start",
                  unflushed |-> FALSE, negotiated |-> FALSE, quitted |-> FALSE,
                  hooks |-> 0, data |-> <<>>]]]
    /\ wish = [c \in Child |-> {}] /\ first = "none"

Connects(c) == Connected(c) \/ ConnectFailed(c) \/ ConnectionTimeout(c)

Answers(c) == NegotiateReply(c) \/ ChildFails(c) \/ ChildFinished(c)

Next == \/ Negotiate \/ IdleReply \/ MtaConnect
        \/ \E c \in Child : \/ \E i \in DOMAIN m.ctx[c].data : Retry(c, i)
                            \/ Connects(c) \/ Flush(c) \/ Answers(c)

Spec == Init /\ [][Next]_vars

\* The event loop runs idle callbacks, timers and watches; a connection attempt
\* ends or times out, and a child that got NEGOTIATE answers, fails or times out.
Fairness ==
    /\ WF_vars(Negotiate \/ IdleReply)
    /\ \A c \in Child : /\ WF_vars(\E i \in DOMAIN m.ctx[c].data : Retry(c, i))
                        /\ WF_vars(Connects(c)) /\ WF_vars(Flush(c) \/ ChildFails(c))
                        /\ WF_vars(Answers(c))

FairSpec == Spec /\ Fairness

-----------------------------------------------------------------------------
\* The type of every variable.
TypeOK == /\ m \in Manager
          /\ wish \in [Child -> SUBSET Step]
          /\ first \in {"none", "progress", "accept"} \cup Refusal

Told == m.packets # <<>> /\ m.packets[1] = "options"

\* When the MTA may send CONNECT, the negotiation is really over, as
\* EnvelopePhase's initial state has it: no try and no handler of a lost child is
\* left to join late, and a living child is idle with its handlers connected once.
HandOver ==
    Told => \A c \in m.milters :
        LET k == m.ctx[c]
        IN /\ k.data = <<>>
           /\ IF IsQuitted(k) THEN k.hooks = 0
              ELSE k.hooks = 1 /\ k.timer = "none"

\* The MTA gets one answer to its negotiation, however the children's answers,
\* failures and retries interleave.
OneNegotiation == Len(m.packets) <= 1

\* The steps the MTA is told are what the children agreed on, in whatever order
\* they answered: no event is dropped, replies are left out only if no child
\* wants them awaited, extensions are on if offered and wanted.
OptionsAgreed ==
    Told => /\ m.steps \cap NoEventStep = {}
            /\ \A s \in m.steps \cap NoReplyStep :
                   \A c \in m.milters \ Lost(m) : s \in wish[c]
            /\ m.steps \cap YesStep =
                   (UNION {wish[c] : c \in m.milters \ Lost(m)}) \cap Offered \cap YesStep

\* If a child whose fallback is a refusal could not negotiate, no other child is
\* left to let the session's mails through.
NobodyLetsThrough ==
    Told /\ (\E c \in Lost(m) : Fallback[c] \in Refusal) =>
        \A c \in m.milters : IsQuitted(m.ctx[c])

\* The refusal that is the fallback of a child that could not negotiate reaches
\* the MTA when it sends CONNECT.
RefusalReachesMta ==
    first # "none" /\ (\E c \in Lost(m) : Fallback[c] \in Refusal) => first \in Refusal

\* Every wait of the negotiation ends, a retry's and a started child's too: nobody
\* is awaited and no try is left.
Settled ==
    (m.pst = "negotiate") ~> (m.queue = {} /\ \A c \in Child : m.ctx[c].data = <<>>)

\* The MTA's negotiation is answered.  This needs children that do not fail once
\* they are connected: see CbError and EmitSlot.
Negotiated == (m.pst = "negotiate") ~> (m.packets # <<>>)
=============================================================================
