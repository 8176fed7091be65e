# A TLA+ verification project for milter manager

milter manager sits between an MTA (Postfix, Sendmail) and any number of
milters.  To the MTA it is one milter; to the milters, which it calls its
*children*, it is an MTA.  Each SMTP command it gets is passed on to the
children, their verdicts are merged into one, and that one is what the MTA sees.
This directory models that core in TLA+, checks it with TLC on small instances
and proves parts of it with TLAPS.

## 1. The system

### Parts, state and operations

| Part | Source | State | Operations |
|------|--------|-------|------------|
| leader | `milter-manager-leader.c` | `state`: a command X or X_REPLIED, `sent_end_of_message`, `launcher`, `children` | one handler per MTA command (sets the state, calls the children object, returns PROGRESS or the fallback status); `reply` when the children object emits a verdict; `cb_error` |
| children | `milter-manager-children.c` | `milters`, `reply_queue`, `reply_statuses`, `processing_state`, `state`, `command_waiting_child_queue`, `command_queue`, headers, body, the negotiation queue, retry count | one function per MTA command, one callback per event of a child (`cb_continue`, `cb_reject`, ..., timeouts, errors, stop), `milter_manager_children_abort`, `_quit` |
| server context (one per child) | `milter-server-context.c` | protocol state, `next_states` (written, not yet flushed), timer, `processing_message`, `quitted`, message result | write a command, flush, decode a reply, time out, abort, quit, establish a connection |
| client context (the MTA's side) | `milter-client-context.c` | state, chunk and packet buffers, timeout, macros | decode a command, emit it, write the returned status |
| manager | `milter-manager.c` | leaders, finished leaders, connection checks | connects client context and leader, parks finished sessions, periodic checks |
| status order | `milter-protocol.c` | - | `milter_status_compare` |
| eggs, children factory, applicable conditions | `milter-manager-egg.c`, `milter-manager-child.c`, `milter-manager-applicable-condition.c` | configuration of a child | hatch a child, attach the conditions that may stop it |
| client, workers | `milter-client.c` | listening socket, worker processes or threads, pending finished sessions | accept, suspend, resume, finish |
| agent, reader, writer, coders | `milter-agent.c`, `milter-reader.c`, `milter-writer.c`, `milter-*-decoder.c`, `milter-*-encoder.c` | framing buffers, flush watch | read, decode, write, flush, shutdown |
| option, macros, headers, results | `milter-option.c`, `milter-macros-requests.c`, `milter-headers.c`, `milter-message-result.c` | protocol options, header list | merge, add/insert/change/delete |
| process launcher, controller | `milter-manager-process-launcher.c`, `milter-manager-controller*.c` | - | start a milter process, reload and status commands |
| configuration, modules, Ruby binding | `milter-manager-configuration.c`, `binding/ruby` | settings | load, save |
| logger, event loops, tools | `milter-logger.c`, `milter-*-event-loop.c`, `tool/` | - | - |

### How they interact

The client context decodes a packet of the MTA and emits a signal; the manager
calls the leader, the leader calls the children object, which calls a function
of every child's server context.  A server context only *queues* a packet; the
event loop writes it later and then calls `flushed`, and only there does the
context's protocol state move and its reading timeout start.  Replies come back
through the server context's decoder callbacks to the callbacks of the children
object, which merge verdicts per protocol state (`reply_statuses`), remove the
child from `reply_queue`, and emit the merged verdict when the queue is empty.
The leader passes it to the client context unless it already replied.

Everything runs in one thread per session, so steps are atomic; what
interleaves is the order of events of the MTA and of every child's connection.
Around the sessions, `milter-client.c` accepts connections, in the same loop, in
a worker process or in a thread of its own, and there two threads do share state.

### What is hard

* the answers, flushes, timeouts, errors and disconnections of the children
  arrive in any order, between any two commands of the MTA;
* a context's state lags behind what was written to it until the flush, and
  `reply_statuses` is indexed by that state;
* a refusal by one child has to end the message for the others, whose contexts
  may hold unflushed packets;
* two paths lead to the MTA: the leader's `reply` and the status a handler returns;
* in the header, body and end-of-message steps the children run one after the
  other, each on the message as its predecessors changed it;
* connections are tried, retried and launched in any order while the MTA waits
  for one answer to its negotiation;
* edits, reply codes and verdicts reach the MTA through buffers that outlive a
  command, and the MTA may abort or overtake at any point;
* header edits of several children are told to the MTA as a difference by index;
* packets are written while others are on their way, and connections are shut
  down from inside their own callbacks;
* the counter of sessions has no lock, and a process that is told to stop must
  neither cut a session nor hang.

`PROJECT.json` lists the hazards line by line.

## 2. The plan

Done, in this order:

1. `MilterProtocol`: the order of statuses; `EnvelopePhase`: a session up to DATA,
   where all children are asked at once; its proofs.
2. `MessagePhase`: header to end of message, where the children take turns.
3. `Negotiation`, and `Session`, the abstract specification that `EnvelopePhase`
   implements (`OneMilter`).
4. `Service`: accept loop, workers, counter, shutdown, leaders.
5. `Headers`: the header list and the difference told to the MTA, against the list
   the children left.
6. `ClientSide`: the MTA's side of a session; `Codec`: the protocol on the wire;
   `Connection`: agent, reader and writer.

Left: NO_REPLY steps and DATA emulation in the two phases, the launcher and its
shared pipe, the spill of a large body to a file, the controller.

Then the proofs, in the order of what they say about a session: `EnvelopePhase_proofs`
(up to the refinement of `Session`), `Negotiation_proofs`, `MessagePhase_proofs`,
`ClientSide_proofs`, `Service_proofs`, `Connection_proofs`, `Headers_proofs`,
`Codec_proofs`.  Left to prove: `SeesWholeMessage` in the second message
of a session.

## 3. The modules and the code

How the modules fit together:

    Service        a process and its sessions
    ClientSide     the MTA's side of one session: client context and leader
    Negotiation -> EnvelopePhase -> MessagePhase -> Headers
                   the children's side, in the order of a session
    Session        what EnvelopePhase implements
    Codec, Connection
                   what every connection, on both sides, is made of

Each module takes from its neighbours what they show: `Negotiation` ends in the
state `EnvelopePhase` begins with (`HandOver`), `MessagePhase` begins with nobody
busy (`NobodyBusy`), `ClientSide` has children that answer (`Answered`), `Service`
has sessions that end (`SilentMtaNoticed`), and the flushes of the phases come
together, late and never early (`Acknowledged`, `NoEarlyFlush`).

`MilterProtocol` has the statuses, `Compare` case by case as
`milter_status_compare` lists them, and `Compile`, which is
`compile_reply_status` for one slot.  `Rank` is the reference for the order; the
lemma `CompareIsRank` proves that the two agree.

### EnvelopePhase and Session

| Code | Model |
|------|-------|
| `priv->processing_state`, `reply_queue`, `reply_statuses`, `emitted_reply_...` | `pstate`, `queue`, `rs`, `emitted` |
| a server context: state, `next_states`, timers, flags, recipients of its result | `ctx[c]` |
| the leader's X / X_REPLIED state, the packets written to the MTA | `leader` |
| `milter_manager_children_connect` ... `_data`, `_unknown`, with the loop over the children, applicable conditions and BUSY children | `SendCommand(x)` |
| `check_alive`, `check_processing_message` failing, leader `cb_error` | `RefuseCommand(x)` |
| `_abort`, `_quit` | `MtaAbort`, `MtaQuit` |
| `flushed`; decoder callbacks and `cb_continue` ...; `check_reply_after_quit` | `Flush`, `Reply`, `ReplyAfterQuit` |
| `cb_reading_timeout`, `cb_writing_timeout`, `cb_error`, `cb_finished` | `ReadTimeout`, `WriteTimeout`, `ChildError`, `ChildFinished` |

`phase`, `asked`, `said` and `joined` are history variables, or the MTA's own
state.  The MTA is external: it waits for an answer before the next command, obeys
the order of SMTP, and may quit at any time.

A handler's loop over the children is one step.  Which children are stopped is
chosen by `SendCommand`, because a condition looks at data the model leaves out.

`Session` is the promise: to the MTA the children are one milter, which answers a
command once, after everybody was heard, with the strongest verdict.  The
refinement mapping takes the command and the answer from the leader's packets and
the verdicts from `said`.

### MessagePhase

`mgr` holds the children object (fields `st` to `emitted`, in the order of the
private structure), the contexts and the leader; `mta` what the MTA sent.
`command_waiting_child_queue` is filled from `priv->milters` and only shrinks until
it is empty, so its order is that of `priv->milters`: `waiting` is the set of its
members and `First` its head.  A
header is its place in the list and a chunk a unit of the body, so both lists are
counts; `hdrs` and `chunks` of a context count what was sent to that child.
`replaced` is `replaced_body_for_each_child`: the first `replace-body` of a child
disposes of the body, each further one adds to it, and the flag is reset when the
body is prepared for the next child (`init_child_for_body`).
`SendCommand` is the MTA's command to the child whose turn it is, `Proceed` gives
a child the next thing it lacks, `NextChild` starts the next child, `EmitOnce`
answers the MTA.

`NewMessage` stands for MAIL to DATA: any non-empty set of the living children may
have continued.  The MTA aborts a message that it ends early and sends no abort
after an end of message.  A child outside the message is left alone; the ABORT
such a child may get has no effect on it.

### Negotiation

`m` holds the children object (`milters`, `reply_queue`, `processing_state`, the
NEGOTIATE slot, `option`, `requested_yes_steps`, ...), the contexts and the leader's
reply.  A `NegotiateData` is an element of `data` of a context, and `hooks` counts
how often the manager's handlers are connected to it.

| Code | Model |
|------|-------|
| `milter_manager_children_negotiate`, `milter_server_context_establish_connection` | `Negotiate` |
| `retry_establish_connection` | `Retry` |
| `connect_watch_func`, `milter_server_context_negotiate`, `cb_connection_error`, `cb_connection_timeout` | `Connected`, `ConnectFailed`, `ConnectionTimeout` |
| `cb_decoder_negotiate_reply`, `cb_negotiate_reply`, `milter_option_merge` | `NegotiateReply` |
| `cb_error`, timeouts, `cb_finished` | `ChildFails`, `ChildFinished` |
| `cb_idle_reply_negotiate_on_no_child` | `IdleReply` |
| the handler of CONNECT up to `milter_manager_children_check_alive` | `MtaConnect` |

A step flag is one representative of its kind: NO_EVENT, NO_REPLY and YES steps are
merged by different rules.

### ClientSide

`k` is the client context, `l` the leader, `mta` the MTA, `owed` the commands the
children object has still to answer.  An abort (`MtaAbort`) leaves `owed` as it is but
for a mark, `late`: `milter_manager_children_abort` takes back nothing a child was
asked, and the answer comes when the leader and the client context are elsewhere, or
is lost when the child's answer is refused after its ABORT (`ChildrenLose`).  The last
answer the MTA got, `mta.got`, names the command the MTA takes it for, the command of
the handler that sent it, and the command the children object gave it for.  An edit is
known by its message and number, so that one that is lost, doubled or carried over
shows.  `hist` is history: what was asked for in the message, and whether the MTA has
aborted or overtaken a command that was not answered.  The MTA's commands are
`MtaNext`, the children object's verdicts `Answers`, its edits `ChildrenEdit`,
`ChildrenReplaceBody` and `ChildrenQuarantine`; `Timeout` is `cb_timeout`, `Break`
an MTA that cannot be written to.

### Service

Each variable is the field it is named after.  `n_processing_sessions++` and `--`
are a read and a write (`acc.seen`, `fin.seen`), `quit_mutex` is `mutex`.  The
actions follow `milter_client_prepare`, `milter_client_run`, `accept_connection_fd`,
`single_thread_cb_finished`, `dispose_finished_data`, `finish_processing` and
`milter_client_shutdown`, and in `milter-manager.c` the creation and disposal of
leaders and `connection_check`.

### Headers

The four edits of a child (`cb_add_header` ...) change the list through the
functions of `milter-headers.c`.  `emit_header_signals` is written turn by turn:
`EmitHeaderSignals` enters it, `Compare` is a turn of its first loop (`Keep`,
`EmitInsert`, `EmitChange`), `EmitDelete` one of its second, `Emitted` its end.  No edit
comes between them, since the function does not return to the event loop, and the MTA
gets the signals in this order.  `left` is `processing_headers`; the second loop walks
it from its end, so the model takes the last one off.  `MtaChange` and `MtaDelete` are
the MTA, which counts headers of a name among those it has.  The reference is the list
the children left.

### Codec

Bytes are numbers.  `Encode` and the decoding functions are translated command by
command and reply by reply.  `Read` is `cb_reader_flow` with a chunk of any size;
`DecodeStart`, `DecodeLength`, `DecodeContent` and `DecodeEnd` are the turns of the
loop of `milter_decoder_decode`, one for each of its states and one for its end.
`SetReply` and `FormatReply` are what the client context makes of a reply code.

### Connection

`w`, `r` and `a` are the private structures of writer, reader and agent, with a
Boolean for each watch; `ch` is the channel, the wire and the peer; `h` is the
owner: what it wrote and what it was told.  A packet passes through the writer's
buffer and the channel's buffer, a byte at a time if need be.  The owner is a server
or a client context, which differ in QUIT and in flushing without a packet.

## 4. The runs

All runs set `CHECK_DEADLOCK FALSE`: a session, a message or a connection ends, and
then nothing more has to happen.

| Run | Shows |
|-----|-------|
| `envelope_faults` | two children, one with fallback accept and one with temporary-failure, may fail while their answer is read or be stopped at any command before DATA: every command is answered, as one milter would (`OneMilter`), and no child is dropped or left in a message that is over |
| `envelope_any_fault` | failures at any moment: nobody is bypassed or busy, and no command gets a second reply |
| `message_turns` | three children that declined different commands; edits; every child sees the whole message, decides, and the MTA is answered |
| `message_faults` | timeouts, errors and disconnections of the working child |
| `message_messages` | two messages in a session, aborts between them |
| `negotiation` | three children, one retried, one launched, failing in every way while they connect and negotiate: one answer, options everybody agreed to, nothing left over, nobody passed over |
| `client_session` | two messages, edits and a buffer that overflows; RCPT and BODY may be aborted before they are answered, whose answers come late, and the end of a message may overtake the answer to a chunk: edits arrive complete, answers go to their own commands, none comes unawaited, and silence is noticed |
| `service` | three connections, six ways to run the process, three of them with a limit (of two in one thread, of one with an accept thread): no more sessions are open than the limit, whatever is queued or waits for its disposal; the shutdown, disposal, service, also at the limit of an accept thread |
| `codec` | every command and reply, in pairs, cut anywhere, with malformed packets in between |
| `headers` | every list of up to three different headers, every two edits |
| `connection` | three packets, a peer that takes, answers and closes at any moment, both kinds of event loop |
| `message_header_index` | finds `EveryChildDecides` violated, see `findings`: after a message that ended before its end of message, the next one is accepted unseen |

The passing runs stay outside the cases of the next table by their constants, never
by a changed model: `Faults = {"reading"}` excludes the unflushed and the idle
failure, `StopAt` excludes DATA, `message_messages` does not claim what the stale
fields break, `message_turns` is one message, the setups of `service` are those in
which each property holds.  `ClientSide` keeps the whole session in its run, and its
properties say from when on they claim nothing: `hist.aborted` is set when the MTA
aborts a command that is not answered, `hist.overtook` when it sends one before the
last is answered.  `message_header_index` finds its property violated and has a
finding in `PROJECT.json`, which quotes what the repository says of it.

### Instances in which a property fails

Each is given by what to change in a run, the rest as in that run.

| Constants | Property | What happens |
|-----------|----------|--------------|
| `envelope_faults`, `Faults = {"writing"}` | `Answered` | a failure before the flush is filed under the previous command, and the answer is lost (children.c:2193) |
| `envelope_faults`, `Fallback <- BothReject`, `Faults = {"idle"}` | `NobodyDropsOut` | a failure between two commands aborts the message for everybody, unnoticed by the MTA |
| `envelope_faults`, `StopAt = {"data"}` | `EveryChildHeard` | a stop at DATA answers for children that have not |
| `envelope_faults`, a child with `NoStep` of `"envelope-from"` | `NobodyDropsOut` | the late flush of the previous message's ABORT takes that child out of the new message |
| `envelope_faults`, `Evaluation = {c1}` | `NoGhostMessage` | a refused recipient of a child in evaluation mode counts as accepted, and the child stays in the message when it is over |
| `envelope_any_fault`, `SingleReply` without `asked # {}` | `SingleReply` | a command that finds no child is answered by the error path and by the handler's return value (children.c:3229, leader.c:891) |
| `message_faults`, `Faults` with `"idle"` | `OneAtATime` | the error of a child that has nothing to do emits the slot of `processing_state` and answers the MTA while another child works (children.c:2314) |
| `message_faults`, `Fallback` of the first child temporary-failure | `RefusalArrives` | the fallback of a child that closes its connection is lost |
| `message_messages`, `Faults = {"timeout"}`, `MaxMessages = 1` | `EveryChildDecides` | a timeout in one child's turn answers for the children that wait |
| `message_messages` | `RefusalIsOwn` | after a rejected message the next one is rejected too: the slot is not reset (children.c:776) |
| `message_messages`, `MaxMessages = 3` | `SeesWholeMessage` | when every child accepted early but the slot says continue, the end of the message is answered by the error path, and `command_queue` and the headers are left to the next message (children.c:3229) |
| `message_turns`, `Evaluation = {c1}` | `EveryChildDecides` | a refusal in evaluation mode keeps later children from the message (doc/configuration.rd:1052) |
| `message_turns`, `SPECIFICATION TimedSpec`, `Faults = {"timeout"}` | `Answered` | no timer runs while the answer to a chunk is awaited (server-context.c:1259, doc/configuration.rd:1193) |
| `message_turns`, `ManagerFallback = "temporary-failure"` | `RefusalIsOwn` | an accept at the second header is told as continue, and the next command is refused |
| `message_turns`, `Edits = {"empty-body"}` | `EveryChildDecides` | an emptied body ends the replay |
| `message_turns`, `Edits = {"delete-header"}` | `Answered` | a message without headers is not replayed |
| `message_turns`, `Sends = {"body", "end-of-message"}` | `SeesWholeMessage` | a replay that begins with the body starts at a stale offset |
| `negotiation` | `RefusalReachesMta` | when all children fail, their refusal is emitted to nobody and CONNECT finds the manager's fallback (children.c:2599, 3194) |
| `negotiation` | `Negotiated` | a refusal that is the answer to the negotiation is not always written (client-context.c:2863) |
| `negotiation`, `Faults` with `"late"` | `OneNegotiation` | a child that fails after the last answer makes the options be told twice (children.c:2358) |
| `negotiation`, `Launchable = {c1}` | `HandOver`, `OneNegotiation` | a launched child whose connect() fails at once is tried twice, and one try is left over |
| `client_session` | `TruthTold` | nothing clears `reply_code` once it was sent: a temporary failure with a code, then a rejection without one, which goes out with the old code and so as a temporary failure (client-context.c:2671); "4xx code is used on MILTER_REPLY_TEMPORARY_FAILURE" says client-context.h:482 |
| `client_session`, `OwnAnswer` without its premise | `OwnAnswer` | the late answer to an aborted RCPT is taken for that to the next command (children.c:1407, 4110), and every answer after it is one command late |
| `client_session`, `EditsArrive` without `~hist.overtook` | `EditsArrive` | the answer to the chunk takes the client context back to BODY, and the edits made at the end of the message are refused (client-context.c, `validate_state`) |
| `client_session`, `EditsArrive` without `~hist.aborted` | `EditsArrive` | answers one command late give the verdict on the message before its edits are made; with `AbortsAt` of `"end-of-message"` the edits of the aborted message arrive with the next |
| `client_session`, `AbortsAt = {"body", "end-of-message"}`, `NoStrayAnswer` without its premise | `NoStrayAnswer` | with `sent_end_of_message` still set from an aborted message, the answer to a chunk puts the leader at END_OF_MESSAGE, where the next late answer is told as the verdict on a message that is not over (leader.c:1257) |
| `client_session`, `NoStrayAnswer` without its clause about BODY | `NoStrayAnswer` | BODY_REPLIED has a response signal: after the late answer to an aborted command was taken for that to a chunk, the chunk's own answer reaches an MTA that awaits none (leader.c, `reply`) |
| `client_session`, `SilentMtaNoticed` without `~hist.aborted` | `SilentMtaNoticed` | the answer that would start the timeout again is lost with the aborted command's (server-context.c:2348) |
| `service`, `Setups <- TwoThreads`, four connections | `LimitKept` | `++` of the accept thread and `--` of the main thread meet, the session is not counted, and a third is let in at a limit of two (milter-client.c:2855) |
| `service`, `Setups <- Limited`, `Served` without `LoopSleeps` | `Served` | without an accept thread, the loop that sleeps at the limit is the one that would end a session (milter-client.c:1349); "A newly connection is waited until an existing connection is closed" says configuration.rd:533 |
| `service`, `Setups <- Checking` | `Watched` | `periodical_connection_checker_id` outlives its source, and later sessions are not checked (milter-manager.c:393) |
| `service`, accept-loop, no limit | `TypeOK` | a lost update of the same kind takes `n_processing_sessions` below zero |
| `service`, accept-loop, signal while MTAs connect | `NoneCut` | the accept thread takes a connection the main thread no longer serves |
| `service`, signal `"any"` | `Ends`, `NoneCut` | a signal before `milter_client_prepare` is forgotten (milter-client.c:2013, milter-event-loop.c:300) |
| `service`, `polite = FALSE` | `LeadersFreed` | an MTA that leaves before it negotiates leaves its leader behind (leader.c:1286) |
| `service`, worker, `emfile = TRUE` | `Served` | a worker that cannot accept once drops its watch (milter-client.c:2430) |
| `codec`, `Messages <- OnlyReplyCodes`, `Malformed <- NoneMalformed` | `ReplyRelayed` | without an extended code the first word of the text is taken for it and the MTA is not answered; each further line repeats the codes (reply-decoder.c:213, leader.c:584) |
| `codec`, an empty HELO, MAIL, RCPT or UNKNOWN | `Complete`, `ErrorsReported` | refused without an error (command-decoder.c:649) |
| `codec`, change-from with empty parameters | `Complete`, `ErrorsReported` | a pointer is compared with a character (reply-encoder.c:351) |
| `codec`, `Renegotiates = TRUE` | `Complete` | the encoder of negotiate does not clear its buffer (milter-encoder.c:190) |
| `codec`, foreign add-recipient or insert-header without its last NUL | `Faithful` | read past the end of the packet (reply-decoder.c:551, 421) |
| `headers`, `Originals <- Lists` | `SameHeaders` | of two equal headers the first is taken for both |
| `headers`, `Names = {"X-A", "x-A"}` | `SameHeaders` | the manager counts by exact name, the MTA by name in any case |
| `headers` | `SameOrder` | inserted headers end up in another place |
| `connection`, `Full = TRUE` | `NoEarlyFlush` | `flush_buffer_on_shutdown` reports FLUSHED though the channel took nothing; a QUIT is lost (writer.c:668) |

Also seen while modelling, without a property of its own: a reader's error watch
that is served before its read watch loses what was not read; nothing times an MTA
after an ABORT or a macro; NO_REPLY steps that were offered are told even if no child
negotiated.

**Bounds.**  Two children suffice for an answer that overtakes another and for a
disagreement; three are used where a turn passes over a child and where one child
is retried while another is launched.  `MaxBacklog = 2` lets an ABORT and the next
MAIL be flushed together, the longest buffer that matters, since the MTA waits for
every answer.  Two headers and two chunks give the replay a first and a following
element, two edits let two children change the message, and two messages show what
one leaves to the next.  `BufferSize = 1` with three edits makes the packet buffer
overflow once and fill again.  Three connections let one wait while another is
served and a third is disposed of, and bring one to a limit of two.  `MaxEdits` bounds
the edits of a message, those the MTA has and the buffer holds included.  Two messages
on a stream leave the decoder's state of the first to the second, and `ChunkSize = 2` gives bodies of less, exactly
and more than a chunk.  Two edits of three headers make an insertion shift the index
of a deletion.  Packets of two bytes can be cut once, and three packets let a second
flush be asked for while the first is under way.  `Answers` and `Verdicts` are cut
down per run to keep it short; each status occurs in some run.

**Fairness.**  The event loop serves every connection, so a written packet is
flushed or its writing timeout fires, and a child with a reading timeout answers or
the timeout fires: `FairSpec` of `EnvelopePhase`.  In `MessagePhase`, `TimedSpec`
assumes this of flushes and timers alone; `LiveSpec` also assumes that children
answer, which is their duty and not the manager's, and `message_turns`, an instance
without failures, needs it.  In `Negotiation` idle callbacks and retry timers run, a
connection attempt ends or times out, and a child answers or times out.  In
`ClientSide` a timer fires and the children object answers.  In `Service` some step
that brings the process or a session on is taken in the end (strong fairness, since
a callback is enabled again and again between others), and `accept()` does not fail
for ever.  In `Connection` watches whose descriptor is ready are served; a peer that
does not read is given up by the owner's writing timeout.  Nothing is assumed of the
MTA.

## 5. The proofs

Each `X_proofs` module extends the module of its component.  The theorems hold for every
number of children, connections, messages, headers, packets and so on; what a theorem
assumes beyond the named assumptions on the constants is a case in which the code fails,
and the table of section 4 has the instance that shows it.

| Theorem | States | Assumes |
|---------|--------|---------|
| `EnvelopePhase_proofs!TypeCorrect` | `TypeOK` | - |
| `NobodyBusy`, `NobodyBypassed` | `IdleWhenAnswered`, `EveryChildHeard` | no stop at DATA |
| `OneReply` | `SingleReply` | no stop at DATA |
| `NoGhost` | `NoGhostMessage` | and no child in evaluation mode |
| `NobodyDropped` | `NobodyDropsOut` | no stop at DATA, failures only while an answer is awaited, everybody gets MAIL |
| `LooksLikeOneMilter` | `OneMilter`: `EnvelopePhase` implements `Session` | no stop at DATA, failures only while an answer is awaited |
| `NeverWaitsForNobody` | `AnswerOwed`: while the MTA waits, a child is awaited, and every awaited child has a packet to flush or a running reading timeout | no stop at DATA, failures only while an answer is awaited |
| `Negotiation_proofs!HandsOver`, `OptionsAreAgreed`, `RefusalHolds` | `HandOver`, `OptionsAgreed`, `NobodyLetsThrough` | `OneTry`: no child whose connect() fails at once is launched as well |
| `AnsweredOnce` | `OneNegotiation` | and no failure after the last answer |
| `MessagePhase_proofs!TypeCorrect` | `TypeOK` | - |
| `TakeTurns` | `OneAtATime` | no error of an idle child |
| `RefusalIsTold` | `RefusalArrives`, in every message | no error of an idle child, no evaluation mode; nothing fails or no fallback refuses |
| `RefusalOfAChild` | `RefusalIsOwn`, in the first message | no error of an idle child, the manager's fallback is accept |
| `NobodyBypassed` | `EveryChildDecides`, in the first message | nothing fails, no evaluation mode, no emptied body |
| `WholeMessageSeen` | `SeesWholeMessage`, in the first message | no error of an idle child, an end of header is sent |
| `ClientSide_proofs!NoAnswerStray` | `NoStrayAnswer`, in any session that does not both abort an unanswered command and overtake one | `EndsAtOnce`: a handler that answers at once does so with a fallback status, never with continue or skip |
| `EveryAnswerOwn` | `OwnAnswer`, until an unanswered command is aborted | `EndsAtOnce` |
| `EveryEditArrives` | `EditsArrive`, until the MTA aborts an unanswered command or overtakes one | `EndsAtOnce` |
| `Service_proofs!FinishedAreDisposedOf` | `NoneForgotten` | - |
| `LimitHolds` | `LimitKept` | with an accept thread, a limit of at most one |
| `ShutdownCutsNone` | `NoneCut` | the signal finds the loop of a single thread running, or nobody connects, or there is none |
| `NoLeaderLeft` | `LeadersFreed` | MTAs negotiate before they leave |
| `Connection_proofs!QuietAfterwards` | `Quiet` | - |
| `FlushedInTime` | `NoEarlyFlush` | the channel takes what is flushed |
| `Headers_proofs!HeadersArrive` | `SameHeaders` | no header comes twice (`NoneTwice`), every name has one spelling (`OneSpelling`) |
| `Codec_proofs!FaithfulAlways`, `CompleteAlways`, `ErrorsReportedOnce`, `ReplyRelayedAlways` | `Faithful`, `Complete`, `ErrorsReported`, `ReplyRelayed`, however the stream is cut, for messages in any number and order | single packets arrive (`Sound`), the peers negotiate first (`Renegotiates = FALSE`) |
| `PlainRoundTrips` | `RoundTrip`: a packet is decoded to what it says, whatever is behind it in the buffer | a plain message (`Plain`) of less than 2^24 bytes |
| `PlainSound` | `Sound` | all messages are plain, malformed packets are refused |

How they go, and what each inductive invariant is for:

* **EnvelopePhase.**  `IdleWhenAnswered` is not inductive: a step of a child needs to
  know that a running timer means that the MTA still waits (`TimerInv`), and a flush
  must not start a timer out of nothing, which depends on the last packet of the
  buffer (`BufferInv`).  `HeardInv` adds that a child that was asked and not heard is
  in the queue and works on the command.
* **EnvelopePhase, what the MTA sees.**  `CommandInv` ties the timer and the buffer of a
  busy child to the command the MTA waits for, and `ReplyInv` the slot that will be
  emitted to that command and the leader's state to its packets; together they say that
  a late event finds nothing to answer.  `GhostInv` is about the answers given so far: a
  child may stay in the message only if the merged verdict lets the message go on.
  `QuietInv` and `DropInv` say that nothing left in a slot or a buffer will abort a
  child later.  For the refinement, `VerdictInv` says that the slot of the command is the
  strongest of what was said; each step then is a step of `Session` or leaves its state
  alone.
* **EnvelopePhase, that an answer is owed.**  `AnswerOwed` is what of `Answered` can be
  said of a state: somebody is awaited, and a flush or a timer will move it.  It rests
  on the invariants above and on two more: `AliveInv`, that a context that was not
  quitted has its handlers, and `OwedInv`, which also says that an unflushed buffer of
  an awaited child does not end in an ABORT, whose flush would start no timer.  Both
  hypotheses are needed, which TLC shows: a failure before the flush is filed under the
  previous command and can empty the queue with an empty slot, and a child stopped at
  DATA stays awaited after its ABORT, with no timer.
* **Negotiation.**  `Sorted` places every child: in the queue, trying or talking, or
  out of it, agreed or lost, with exactly the watches and handlers of its place.
  `Answering` keeps the answer until the queue is empty, `Merged` is what the options
  are after any subset of answers, `Harsh` what a lost child with a refusing fallback
  leaves.
* **MessagePhase.**  `InTurn` has the work in hand: who works, on which command of
  `command_queue`, with which timer, and that the MTA waits.  Every callback is
  reduced to a few kinds of outcome (a child is given a command, the MTA is told, the
  message is disposed of, everybody is aborted), so that the other invariants look at
  kinds and not at callbacks.  `ArrivalInv` says that after a refusal nobody works and
  the MTA has heard it or nothing; `OwnInv` that every refusal in `reply_statuses` is
  one of the message; `DecisionInv` that a child that has not decided waits for its
  turn, is still in its message and finds what the replay will look up.  The last two
  hold in the first message only: `reply_statuses`, `processing_header_index` and
  unflushed ABORTs survive a message.
* **MessagePhase, what a child has seen.**  `SeesWholeMessage` speaks of the end of a
  message only; the invariant follows the message to it.  `Shape` is about the queues:
  `command_queue` holds what the MTA has sent and no more, whoever is at the message
  waits in `command_waiting_child_queue`, and everybody but the first has nothing of it
  yet and no ABORT under way.  `Progress` is about the first: its headers are those up
  to `processing_header_index`, its chunks those up to `sent_body_offset` while the body
  is replayed and all there are while the MTA sends it, and when the MTA is told to go
  on it has everything so far.  A child's edits come when it has the whole message and
  count for the next one, whose replay starts from nothing.
* **ClientSide.**  `Basic` has the types and how a session starts and ends; `TypesHold`
  needs no more.  Late answers make `NoStrayAnswer` a matter of where the leader is:
  `Turn` says that an MTA that awaits nothing has a leader that is not at a command, or
  at one that nobody owes an answer for; a late answer then finds a replied state, or
  ABORT, whose handler sends nothing.  `Turn` holds until the MTA overtakes a command.
  `Line` holds until it aborts an unanswered one: nothing is under way, or one command
  that MTA, leader and children object are at, or BODY with the end of the message
  behind it, which the leader keeps in `sent_end_of_message`.  `OwnAnswer` follows, and
  `NoStrayAnswer` where `Turn` is lost.  `Delivery`, for sessions with neither, keeps
  context, leader and children object at the same command (`InStep`) and has the edits
  in order: those the MTA has, then those in the packet buffer, are those made for the
  message (`Collected`).  What the MTA has done is not undone (`HistoryStep`), so each
  invariant is carried from the start to the first step that ends it.
* **Service.**  `Disposal` says that a finisher is on its way exactly while there is
  something to dispose of.  `Counting` relates `n_processing_sessions`, a counter that
  is read and written in two steps, to the number of open sessions, `Settled` the
  shutdown to the stage of every connection.
* **Connection.**  `Calm` relates watches, channels and what the owner was told;
  `Counted` and `Due` place every byte that was written and say how far a flush that
  is under way has come.
* **Headers.**  `SameHeaders` speaks of the end of two loops, `Inv` of every turn.
  `Counted`: the MTA's list has the edited headers compared so far and those left, each
  as often.  That needs the MTA to hit the header that is meant, though it is told a
  number of the original list: `Placed` says that each header left still has, in the
  MTA's list, the number it had in the original one.  An insertion keeps this since
  nothing of the name is left, a change since names stay, a deletion since the last
  one left goes first (`InOrder`).  Numbers and occurrences are counted by one
  operator, `Upto`, and what removing, inserting and changing a header does to it is
  proved once, by induction over the length of the list (`Inductive`, `UptoRemoved`).
* **Codec.**  Two arguments that need each other.  The first is about the stream and
  knows nothing of single packets but `Sound`.  `Framed`: a length already read, the
  decoder's buffer and the wire are together the packets of some parts, and behind them
  nothing or a malformed packet and whatever followed it; what has been heard and these
  parts say what was sent.  Sending appends at the end, a read moves bytes from the wire
  to the buffer, a turn of the loop takes the first packet off, and that the buffer has
  what it asks for (`NeedsMore`) makes the first packet whole, since a length says how
  long it is.  `Stopped` is the state after a malformed packet, `Resting` that the loop
  ends only where bytes are missing: then nothing is left when the wire is empty.  The
  second is about single packets.  Strings have no NUL, so the first NUL found is the
  one that was written (`NulAt`, `CString`, `From`), with any number of texts before it
  and anything behind it; numbers below 2^24 come back from their four bytes; a command
  byte belongs to one name in its direction.  `Plain` are all commands and replies but
  define-macro, options that request macros, and reply codes without an extended code,
  of several lines or of one that ends in CR; their numbers are below 2^24.  Such reply
  codes do not arrive as they were (section 4), nor does an empty text where the decoder
  wants one, which `Plain` leaves out too.  `RoundTrip` compares with all that may be
  behind the content in the buffer, since the decoders of insert-header and
  change-header are passed two bytes too many.  For the messages of the run TLC
  evaluates what remains of `Sound`: macros, macro requests and the refusal of the
  malformed packets, and again the plain ones (`MessagesAssumption` of `MC_Codec`).

Only model-checked:

* `Answered`, `Settled`, `Served`, `Ends`, `SilentMtaNoticed`, `Acknowledged`, `Closes`:
  liveness, which the prover does not support (`NeverWaitsForNobody` proves the part of
  `Answered` of the envelope that is a safety property);
* that a single packet of macros or macro requests comes back from `Codec`'s decoders,
  and that its malformed packets are refused: a function is written in an order that
  `SetToSeq` chooses and read back by recursion over the data;
* `SeesWholeMessage` of `MessagePhase` in the second message of a session
  (`message_messages`).  `RefusalIsOwn` and `EveryChildDecides` do not hold there, and
  `SeesWholeMessage` not in the third (section 4).

## 6. What is not modelled

`components` in `PROJECT.json` lists every part.  Left out on purpose:

* the multi-thread runner: its thread function receives its two arguments in the
  wrong order (milter-client.c:1641), so there is no behaviour to model;
* `end_decode`, which the daemon never calls; the message and session results,
  which are kept for the log;
* configuration, modules and the Ruby binding: settings and their loading;
* event loops, logger and utilities: infrastructure.  The models assume what the
  session code relies on: a callback runs to its end, and an armed timer fires;
* vendored code (`libev-4.15`, `glib-2.2.0` of the Ruby binding), the test tools and
  `libmilter`, which the daemon does not use.  These and the boilerplate of GObject
  classes are most of the repository's lines.

In the parts that are modelled: NO_REPLY steps and DATA emulation in the phases, the
macros of a command, the merge of macro requests, the recipients and the sender of a
message, the body file, applicable conditions after DATA, and QUIT inside a message's
content.
