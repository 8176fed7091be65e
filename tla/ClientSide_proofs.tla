-------------------------- MODULE ClientSide_proofs -------------------------
(* Machine-checked proofs about ClientSide, for any number of messages and   *)
(* edits and any size of the packet buffer.                                  *)
EXTENDS ClientSide, SequenceTheorems, TLAPS

-----------------------------------------------------------------------------
(* The inductive invariants *)

\* The leader answers negotiate and quit only before and after the commands.
Placed ==
    k.open => /\ l.state # "quit"
              /\ l.state = "negotiate" => /\ mta.place = "negotiated"
                                          /\ mta.awaits = <<>> /\ owed = <<>>

Basic == TypeOK /\ Placed

\* What is owed for the command x alone
Alone(x) == <<[of |-> x, late |-> FALSE]>>

\* One command at a time is under way, and the client context, the leader and
\* the children object are at the same one.
InStep ==
    /\ Len(mta.awaits) <= 1
    /\ owed # <<>> => /\ owed = Alone(k.state) /\ mta.awaits = <<k.state>>
                      /\ l.state = k.state /\ ~l.replied /\ ~k.replied
    /\ ~l.sentEnd
    /\ mta.place \in {"end-of-header", "body"} /\ mta.awaits = <<>> /\ k.open => l.replied

\* The end of a message is being worked on.
Pending == k.state = "end-of-message" /\ ~k.replied

\* While it is, what the MTA has and what the buffer holds is what the children
\* object asked for; at any other time the buffer is empty.
Collected ==
    /\ k.buffering <=> k.buffer # <<>>
    /\ k.open /\ ~Pending => k.buffer = <<>>
    /\ Pending => mta.awaits = <<"end-of-message">>
    /\ Pending /\ ~k.broken => mta.edits \o k.buffer = hist.edits
    /\ Pending => k.quarantine = hist.quarantine /\ mta.quarantine = 0

\* What EditsArrive says of a session without aborts and overtaking
Complete ==
    k.state = "end-of-message" /\ k.replied /\ mta.awaits = <<>> =>
        mta.edits = hist.edits /\ mta.quarantine = hist.quarantine

Delivery == InStep /\ Collected /\ Complete

-----------------------------------------------------------------------------
(* What the operators on the client context and the MTA change *)

Both == [k : Context, mta : Mta]

Slot == Command \cup {"negotiate", "abort", "quit"}

\* milter_client_context_set_state
LEMMA SetStateFrame ==
    ASSUME NEW c \in Context, NEW x \in Slot, NEW replied \in BOOLEAN
    PROVE  LET d == SetState(c, x, replied)
           IN  /\ d \in Context /\ d.state = x /\ d.replied = replied
               /\ d.status = c.status /\ d.timer = c.timer /\ d.buffer = c.buffer
               /\ d.buffering = c.buffering /\ d.quarantine = c.quarantine
               /\ d.code = c.code /\ d.open = c.open /\ d.broken = c.broken
<1> DEFINE y == IF x \in Command /\ ~replied THEN x ELSE c.last
<1>1. y \in Command \cup {"negotiate"}
  BY DEF Context
<1>2. SetState(c, x, replied) = [c EXCEPT !.state = x, !.replied = replied, !.last = y]
  BY DEF SetState, Context
<1> HIDE DEF y
<1> QED BY <1>1, <1>2 DEF Context, Slot

\* Starting the timeout changes nothing else.
LEMMA TimedFrame ==
    ASSUME NEW c \in Context
    PROVE  LET d == Timed(c)
           IN  /\ d \in Context /\ d.state = c.state /\ d.replied = c.replied
               /\ d.buffer = c.buffer /\ d.buffering = c.buffering /\ d.quarantine = c.quarantine
               /\ d.code = c.code /\ d.open = c.open /\ d.broken = c.broken
BY DEF Timed, Context

\* The MTA is somewhere after an answer.
LEMMA AfterType ==
    ASSUME NEW p \in Place, NEW x \in Command, NEW r \in Verdict
    PROVE  /\ After(p, x, r) \in Place
           /\ After(p, x, r) \in {"end-of-header", "body"} =>
                (r \in {"continue", "skip"} /\ x \in {"end-of-header", "body"})
                \/ (x = "unknown" /\ After(p, x, r) = p)
                \/ (x = "envelope-recipient" /\ After(p, x, r) = p)
BY DEF After, Place, Command, EnvelopeCommand, Verdict

\* create_reply_packet keeps to the verdicts.
LEMMA PacketType ==
    ASSUME NEW c \in Context, NEW st \in Verdict
    PROVE  /\ CreateReplyPacket(c, st) \in Verdict
           /\ CreateReplyPacket(c, st) \in {"continue", "skip"} => CreateReplyPacket(c, st) = st
BY DEF CreateReplyPacket, Context, Verdict

\* The answer a comes from the client context c: the MTA takes it for that to the
\* command it awaits, if it awaits one.
Answered(t1, t, c, a) ==
    /\ t1.got.as = c.state /\ t1.got.of = a.of
    /\ t.awaits # <<>> => /\ t1.got.to = Head(t.awaits) /\ t1.awaits = Tail(t.awaits)
                          /\ t1.place = After(t.place, Head(t.awaits), CreateReplyPacket(c, a.st))
    /\ t.awaits = <<>> => t1.got.to = "nothing" /\ t1.awaits = <<>> /\ t1.place = t.place

Unanswered(t1, t) == t1.awaits = t.awaits /\ t1.got = t.got /\ t1.place = t.place

Given == [of : Command \cup {"aborted"}, st : Verdict]

\* An answer changes nothing else.
LEMMA ToldFrame ==
    ASSUME NEW t \in Mta, NEW c \in Context, c.state \in Command, NEW a \in Given
    PROVE  LET f == Told(t, c, a)
           IN  /\ f \in Mta /\ Answered(f, t, c, a)
               /\ f.edits = t.edits /\ f.quarantine = t.quarantine /\ f.msg = t.msg
               /\ f.dead = t.dead
<1> DEFINE told == CreateReplyPacket(c, a.st)
           to == IF t.awaits = <<>> THEN "nothing" ELSE Head(t.awaits)
           g == [to |-> to, as |-> c.state, of |-> a.of, told |-> told, meant |-> a.st]
           u == [t EXCEPT !.got = g]
           p == After(t.place, to, told)
           w == Tail(t.awaits)
<1>1. t.awaits \in Seq(Command) /\ t.place \in Place /\ told \in Verdict /\ a.st \in Verdict
      /\ a.of \in Command \cup {"aborted"}
  BY PacketType DEF Mta, Given
<1>2. t.awaits # <<>> => to \in Command /\ w \in Seq(Command) /\ to = Head(t.awaits)
  BY <1>1, HeadTailProperties
<1>3. t.awaits = <<>> => to = "nothing"
  OBVIOUS
<1>4. Told(t, c, a) = IF t.awaits = <<>> THEN u ELSE [u EXCEPT !.place = p, !.awaits = w]
  BY <1>2 DEF Told, Mta
<1>5. t.awaits # <<>> => p \in Place
  BY <1>1, <1>2, AfterType
<1>6. p = After(t.place, to, CreateReplyPacket(c, a.st))
  OBVIOUS
<1> HIDE DEF p, w, told, to
<1>7. g \in Got /\ g.to = to /\ g.as = c.state /\ g.of = a.of
  BY <1>1, <1>2, <1>3 DEF Got
<1> HIDE DEF g
<1>8. /\ u \in Mta /\ u.got = g /\ u.awaits = t.awaits /\ u.place = t.place
      /\ u.edits = t.edits /\ u.quarantine = t.quarantine /\ u.msg = t.msg /\ u.dead = t.dead
  BY <1>7 DEF Mta
<1> HIDE DEF u
<1>9. CASE t.awaits = <<>>
  BY <1>3, <1>4, <1>7, <1>8, <1>9 DEF Answered
<1>10. CASE t.awaits # <<>>
  <2> DEFINE v == [u EXCEPT !.place = p, !.awaits = w]
  <2>1. /\ v \in Mta /\ v.got = g /\ v.awaits = w /\ v.place = p /\ v.edits = u.edits
        /\ v.quarantine = u.quarantine /\ v.msg = u.msg /\ v.dead = u.dead
    BY <1>2, <1>5, <1>8, <1>10 DEF Mta
  <2>2. Told(t, c, a) = v
    BY <1>4, <1>10
  <2> HIDE DEF v
  <2> QED BY <1>2, <1>6, <1>7, <1>8, <1>10, <2>1, <2>2 DEF Answered, w
<1> QED BY <1>9, <1>10

\* flush empties the buffer, into the edits of the MTA if it can be written to.
LEMMA FlushFrame ==
    ASSUME NEW s \in Both
    PROVE  LET f == Flush(s)
           IN  /\ f \in Both
               /\ f.k.state = s.k.state /\ f.k.replied = s.k.replied
               /\ f.k.quarantine = s.k.quarantine /\ f.k.code = s.k.code
               /\ f.k.open = s.k.open /\ f.k.broken = s.k.broken
               /\ ~s.k.buffering => f = s
               /\ s.k.buffering => f.k.buffer = <<>> /\ ~f.k.buffering
               /\ f.mta.awaits = s.mta.awaits /\ f.mta.place = s.mta.place /\ f.mta.msg = s.mta.msg
               /\ f.mta.dead = s.mta.dead /\ f.mta.got = s.mta.got
               /\ f.mta.quarantine = s.mta.quarantine
               /\ s.k.buffering /\ ~s.k.broken /\ s.k.open => f.mta.edits = s.mta.edits \o s.k.buffer
<1>1. CASE ~s.k.buffering
  BY <1>1 DEF Flush
<1>2. CASE s.k.buffering
  <2> DEFINE c == Timed(s.k)
             e == s.mta.edits \o s.k.buffer
             t == IF s.k.broken \/ ~s.k.open THEN s.mta ELSE [s.mta EXCEPT !.edits = e]
             d == [c EXCEPT !.buffering = FALSE, !.buffer = <<>>]
             w == [k |-> c, mta |-> t]
  <2>1. s.k \in Context /\ s.mta \in Mta /\ s.k.buffer \in Seq(Edit) /\ s.mta.edits \in Seq(Edit)
    BY DEF Both, Context, Mta
  <2>2. e \in Seq(Edit) /\ <<>> \in Seq(Edit)
    BY <2>1, ConcatProperties
  <2>3. Write(s, LAMBDA x : [x EXCEPT !.edits = @ \o s.k.buffer]) = w
    BY <2>1 DEF Write, Mta
  <2>4. Flush(s) = [w EXCEPT !.k.buffering = FALSE, !.k.buffer = <<>>]
    BY <1>2, <2>3 DEF Flush
  <2>5. c \in Context
    BY <2>1, TimedFrame
  <2> HIDE DEF e
  <2>6. /\ t \in Mta /\ t.awaits = s.mta.awaits /\ t.place = s.mta.place /\ t.msg = s.mta.msg
        /\ t.dead = s.mta.dead /\ t.got = s.mta.got /\ t.quarantine = s.mta.quarantine
        /\ ~s.k.broken /\ s.k.open => t.edits = e
    BY <2>1, <2>2 DEF Mta
  <2> HIDE DEF t, c
  <2>7. /\ d \in Context /\ d.state = c.state /\ d.replied = c.replied /\ d.quarantine = c.quarantine
        /\ d.code = c.code /\ d.open = c.open /\ d.broken = c.broken
        /\ d.buffer = <<>> /\ ~d.buffering
    BY <2>2, <2>5 DEF Context
  <2>8. Flush(s) = [k |-> d, mta |-> t]
    BY <2>4, <2>5 DEF Context
  <2> HIDE DEF d
  <2>9. Flush(s) \in Both /\ Flush(s).k = d /\ Flush(s).mta = t
    BY <2>6, <2>7, <2>8 DEF Both
  <2>10. /\ c.state = s.k.state /\ c.replied = s.k.replied /\ c.quarantine = s.k.quarantine
         /\ c.code = s.k.code /\ c.open = s.k.open /\ c.broken = s.k.broken
    BY <2>1, TimedFrame DEF c
  <2> QED BY <1>2, <2>6, <2>7, <2>9, <2>10 DEF e
<1> QED BY <1>1, <1>2

\* The MTA can be written to.
Reached(c) == ~c.broken /\ c.open

\* d is c but for state, timeout, buffer and result.
Akin(d, c) ==
    d.quarantine = c.quarantine /\ d.code = c.code /\ d.open = c.open /\ d.broken = c.broken

\* reply
LEMMA ReplyFrame ==
    ASSUME NEW s \in Both, NEW a \in Given, s.k.state \in Command
    PROVE  LET f == Reply(s, a)
           IN  /\ f \in Both /\ f.k = Timed(s.k)
               /\ f.mta.edits = s.mta.edits /\ f.mta.msg = s.mta.msg
               /\ f.mta.quarantine = s.mta.quarantine /\ f.mta.dead = s.mta.dead
               /\ Reached(s.k) => Answered(f.mta, s.mta, s.k, a)
               /\ ~Reached(s.k) => Unanswered(f.mta, s.mta)
<1> DEFINE t == IF s.k.broken \/ ~s.k.open THEN s.mta ELSE Told(s.mta, s.k, a)
<1>1. s.k \in Context /\ s.mta \in Mta
  BY DEF Both
<1>2. Reply(s, a) = [k |-> Timed(s.k), mta |-> t]
  BY DEF Reply, Write
<1>3. Timed(s.k) \in Context
  BY <1>1, TimedFrame
<1>4. /\ t \in Mta /\ t.edits = s.mta.edits /\ t.msg = s.mta.msg
      /\ t.quarantine = s.mta.quarantine /\ t.dead = s.mta.dead
      /\ Reached(s.k) => Answered(t, s.mta, s.k, a)
      /\ ~Reached(s.k) => t = s.mta
  BY <1>1, ToldFrame DEF Reached
<1> HIDE DEF t
<1> QED BY <1>2, <1>3, <1>4 DEF Both, Unanswered

\* What a verdict on a message adds to the edits and the quarantine of the MTA
Delivered(t1, s) ==
    /\ t1.edits = IF s.k.buffering THEN s.mta.edits \o s.k.buffer ELSE s.mta.edits
    /\ t1.quarantine = IF s.k.quarantine = 0 THEN s.mta.quarantine ELSE s.k.quarantine

\* The buffer is empty after it.
Emptied(d, c) ==
    /\ ~d.buffering
    /\ c.buffering => d.buffer = <<>>
    /\ ~c.buffering => d.buffer = c.buffer

\* reply_on_end_of_message: the edits and the quarantine arrive with the verdict.
LEMMA ReplyOnEndOfMessageFrame ==
    ASSUME NEW s \in Both, NEW a \in Given, s.k.state \in Command
    PROVE  LET f == ReplyOnEndOfMessage(s, a)
           IN  /\ f \in Both /\ Akin(f.k, s.k) /\ Emptied(f.k, s.k)
               /\ f.k.state = s.k.state /\ f.k.replied = s.k.replied
               /\ f.mta.msg = s.mta.msg /\ f.mta.dead = s.mta.dead
               /\ ~Reached(s.k) => Unanswered(f.mta, s.mta)
               /\ Reached(s.k) => Answered(f.mta, s.mta, s.k, a) /\ Delivered(f.mta, s)
<1> DEFINE f == Flush(s)
           q == IF f.k.quarantine = 0 THEN f.mta ELSE [f.mta EXCEPT !.quarantine = f.k.quarantine]
           t == IF f.k.broken \/ ~f.k.open THEN f.mta ELSE Told(q, f.k, a)
           e == [k |-> Timed(f.k), mta |-> t]
<1>1. /\ f \in Both /\ Akin(f.k, s.k) /\ Emptied(f.k, s.k)
      /\ f.k.state = s.k.state /\ f.k.replied = s.k.replied
      /\ f.mta.awaits = s.mta.awaits /\ f.mta.place = s.mta.place /\ f.mta.msg = s.mta.msg
      /\ f.mta.dead = s.mta.dead /\ f.mta.got = s.mta.got
      /\ f.mta.quarantine = s.mta.quarantine
      /\ s.k.buffering /\ Reached(s.k) => f.mta.edits = s.mta.edits \o s.k.buffer
      /\ ~s.k.buffering => f.mta = s.mta
  <2>1. s.k.buffering \in BOOLEAN
    BY DEF Both, Context
  <2> QED BY <2>1, FlushFrame DEF Akin, Reached, Emptied
<1>2. ReplyOnEndOfMessage(s, a) = IF s.k.buffering /\ s.k.broken THEN f ELSE e
  BY DEF ReplyOnEndOfMessage, Write
<1> HIDE DEF f
<1>3. f.k \in Context /\ f.mta \in Mta /\ f.k.state \in Command
  BY <1>1 DEF Both
<1>4. /\ q \in Mta /\ q.awaits = f.mta.awaits /\ q.place = f.mta.place /\ q.msg = f.mta.msg
      /\ q.dead = f.mta.dead /\ q.edits = f.mta.edits
      /\ q.quarantine = IF f.k.quarantine = 0 THEN f.mta.quarantine ELSE f.k.quarantine
  <2>1. f.k.quarantine \in Nat
    BY <1>3 DEF Context
  <2> QED BY <1>3, <2>1 DEF Mta
<1> HIDE DEF q
<1>5. /\ t \in Mta /\ t.msg = s.mta.msg /\ t.dead = s.mta.dead
      /\ Reached(s.k) => /\ Answered(t, q, f.k, a)
                         /\ t.edits = f.mta.edits /\ t.quarantine = q.quarantine
      /\ ~Reached(s.k) => t = f.mta
  BY <1>1, <1>3, <1>4, ToldFrame DEF Reached, Akin
<1> HIDE DEF t
<1>6. /\ e \in Both /\ e.k = Timed(f.k) /\ e.mta = t
  BY <1>3, <1>5, TimedFrame DEF Both
<1>7. /\ e.k.state = f.k.state /\ e.k.replied = f.k.replied /\ e.k.buffer = f.k.buffer
      /\ e.k.buffering = f.k.buffering /\ Akin(e.k, f.k)
  BY <1>3, <1>6, TimedFrame DEF Akin
<1> HIDE DEF e
<1>8. CASE s.k.buffering /\ s.k.broken
  BY <1>1, <1>2, <1>8 DEF Reached, Unanswered
<1>9. CASE ~(s.k.buffering /\ s.k.broken)
  <2>1. e.mta.msg = s.mta.msg /\ e.mta.dead = s.mta.dead
    BY <1>5, <1>6
  <2>2. ~Reached(s.k) => Unanswered(e.mta, s.mta)
    BY <1>1, <1>5, <1>6 DEF Unanswered
  <2>3. Reached(s.k) => Answered(e.mta, s.mta, s.k, a)
    <3>1. CreateReplyPacket(f.k, a.st) = CreateReplyPacket(s.k, a.st)
      BY <1>1 DEF CreateReplyPacket, Akin
    <3> QED BY <1>1, <1>4, <1>5, <1>6, <3>1 DEF Answered
  <2>4. Reached(s.k) => Delivered(e.mta, s)
    BY <1>1, <1>4, <1>5, <1>6 DEF Akin, Delivered
  <2>5. /\ Akin(e.k, s.k) /\ e.k.state = s.k.state /\ e.k.replied = s.k.replied
        /\ Emptied(e.k, s.k)
    BY <1>1, <1>7 DEF Akin, Emptied
  <2> QED BY <1>2, <1>6, <1>9, <2>1, <2>2, <2>3, <2>4, <2>5
<1> QED BY <1>8, <1>9

\* abort_response sends nothing.
LEMMA AbortResponseFrame ==
    ASSUME NEW s \in Both, NEW st \in Verdict \cup {"default"}
    PROVE  LET f == AbortResponse(s, st)
           IN  /\ f \in Both /\ f.mta = s.mta /\ Akin(f.k, s.k)
               /\ f.k.state = "abort" /\ f.k.replied
               /\ f.k.buffer = s.k.buffer /\ f.k.buffering = s.k.buffering
<1> DEFINE y == CASE ~Pass(s.k.status) \/ s.k.last = "end-of-message" -> s.k.status
                  [] st = "default" -> "abort"
                  [] OTHER -> st
           c == [s.k EXCEPT !.status = y]
           d == SetState(c, "abort", TRUE)
<1>1. s.k \in Context /\ s.mta \in Mta
  BY DEF Both
<1>2. y \in Verdict \cup {"default", "abort"}
  <2>1. s.k.status \in Verdict \cup {"default", "abort"}
    BY <1>1 DEF Context
  <2>2. y \in {s.k.status, "abort", st}
    OBVIOUS
  <2> QED BY <2>1, <2>2
<1>3. AbortResponse(s, st) = [s EXCEPT !.k = d]
  BY <1>1 DEF AbortResponse, Context
<1> HIDE DEF y
<1>4. c \in Context /\ Akin(c, s.k) /\ c.buffer = s.k.buffer /\ c.buffering = s.k.buffering
  BY <1>1, <1>2 DEF Context, Akin
<1> HIDE DEF c
<1>5. /\ d \in Context /\ Akin(d, s.k) /\ d.state = "abort" /\ d.replied
      /\ d.buffer = s.k.buffer /\ d.buffering = s.k.buffering
  <2>1. "abort" \in Slot /\ TRUE \in BOOLEAN
    BY DEF Slot
  <2> QED BY <1>4, <2>1, SetStateFrame DEF Akin
<1> HIDE DEF d
<1> QED BY <1>1, <1>3, <1>5 DEF Both

\* connect_response .. abort_response
LEMMA ResponseFrame ==
    ASSUME NEW s \in Both, NEW x \in Command \cup {"abort"}, NEW a \in Given
    PROVE  LET f == Response(s, x, a)
           IN  /\ f \in Both /\ Akin(f.k, s.k) /\ f.k.state = x /\ f.k.replied
               /\ x # "end-of-message" =>
                    /\ f.k.buffer = s.k.buffer /\ f.k.buffering = s.k.buffering
                    /\ f.mta.edits = s.mta.edits /\ f.mta.quarantine = s.mta.quarantine
               /\ x = "end-of-message" =>
                    Emptied(f.k, s.k) /\ (Reached(s.k) => Delivered(f.mta, s))
               /\ f.mta.msg = s.mta.msg /\ f.mta.dead = s.mta.dead
               /\ x # "abort" /\ Reached(s.k) => Answered(f.mta, s.mta, f.k, a)
               /\ x = "abort" \/ ~Reached(s.k) => Unanswered(f.mta, s.mta)
<1> DEFINE b == [s.k EXCEPT !.status = a.st]
           c == SetState(b, x, TRUE)
           r == [s EXCEPT !.k = SetState([@ EXCEPT !.status = a.st], x, TRUE)]
           f == Response(s, x, a)
<1>1. b \in Context /\ Akin(b, s.k) /\ b.buffer = s.k.buffer /\ b.buffering = s.k.buffering
      /\ b.quarantine = s.k.quarantine
  BY DEF Both, Context, Akin, Given
<1>2. r = [s EXCEPT !.k = c]
  BY DEF Both
<1> HIDE DEF b
<1>3. /\ c \in Context /\ Akin(c, s.k) /\ c.state = x /\ c.replied
      /\ c.buffer = s.k.buffer /\ c.buffering = s.k.buffering
  <2>1. x \in Slot /\ TRUE \in BOOLEAN
    BY DEF Slot
  <2> QED BY <1>1, <2>1, SetStateFrame DEF Akin
<1>4. /\ x = "abort" => f = AbortResponse(s, a.st)
      /\ x = "end-of-message" => f = EndOfMessageResponse(r, a)
      /\ x \notin {"abort", "end-of-message"} => f = Reply(r, a)
  BY DEF Response
<1> HIDE DEF c, r, f
<1>5. r \in Both /\ r.k = c /\ r.mta = s.mta /\ (Reached(c) <=> Reached(s.k))
  BY <1>2, <1>3 DEF Both, Akin, Reached
<1>6. \A t1, d : d.code = c.code /\ d.state = c.state =>
                   (Answered(t1, s.mta, c, a) <=> Answered(t1, s.mta, d, a))
  BY DEF Answered, CreateReplyPacket
<1>7. \A t1 : Delivered(t1, r) <=> Delivered(t1, s)
  BY <1>3, <1>5 DEF Delivered, Akin
<1>8. CASE x = "abort"
  <2>1. a.st \in Verdict \cup {"default"}
    BY DEF Given
  <2>2. /\ f \in Both /\ f.mta = s.mta /\ Akin(f.k, s.k) /\ f.k.state = "abort" /\ f.k.replied
        /\ f.k.buffer = s.k.buffer /\ f.k.buffering = s.k.buffering
    BY <1>4, <1>8, <2>1, AbortResponseFrame
  <2> QED BY <1>8, <2>2 DEF Unanswered, f
<1>9. CASE x \notin {"abort", "end-of-message"}
  <2>1. f = Reply(r, a) /\ r.k.state \in Command
    BY <1>3, <1>4, <1>5, <1>9
  <2>2. /\ f \in Both /\ f.k = Timed(c)
        /\ f.mta.edits = s.mta.edits /\ f.mta.msg = s.mta.msg
        /\ f.mta.quarantine = s.mta.quarantine /\ f.mta.dead = s.mta.dead
        /\ Reached(c) => Answered(f.mta, s.mta, c, a)
        /\ ~Reached(c) => Unanswered(f.mta, s.mta)
    BY <1>5, <2>1, ReplyFrame
  <2>3. /\ f.k.state = x /\ f.k.replied /\ Akin(f.k, s.k) /\ f.k.code = c.code
        /\ f.k.buffer = s.k.buffer /\ f.k.buffering = s.k.buffering
    BY <1>3, <2>2, TimedFrame DEF Akin
  <2>4. Reached(s.k) => Answered(f.mta, s.mta, f.k, a)
    BY <1>3, <1>5, <1>6, <2>2, <2>3
  <2> QED BY <1>5, <1>9, <2>2, <2>3, <2>4 DEF f
<1>10. CASE x = "end-of-message"
  <2> DEFINE e == ReplyOnEndOfMessage(r, a)
             d == [e.k EXCEPT !.result = FALSE]
  <2>1. f = [e EXCEPT !.k.result = FALSE]
    BY <1>4, <1>10 DEF EndOfMessageResponse
  <2>2. r.k.state \in Command
    BY <1>3, <1>5, <1>10 DEF Command
  <2>3. /\ e \in Both /\ Akin(e.k, c) /\ Emptied(e.k, c)
        /\ e.k.state = c.state /\ e.k.replied = c.replied
        /\ e.mta.msg = s.mta.msg /\ e.mta.dead = s.mta.dead
        /\ ~Reached(c) => Unanswered(e.mta, s.mta)
        /\ Reached(c) => Answered(e.mta, s.mta, c, a) /\ Delivered(e.mta, r)
    BY <1>5, <2>2, ReplyOnEndOfMessageFrame
  <2> HIDE DEF e
  <2>4. /\ d \in Context /\ Akin(d, e.k) /\ d.state = e.k.state /\ d.replied = e.k.replied
        /\ d.buffer = e.k.buffer /\ d.buffering = e.k.buffering
    BY <2>3 DEF Both, Context, Akin
  <2>5. f = [e EXCEPT !.k = d]
    BY <2>1, <2>3 DEF Both
  <2> HIDE DEF d
  <2>6. f \in Both /\ f.k = d /\ f.mta = e.mta
    BY <2>3, <2>4, <2>5 DEF Both
  <2>7. /\ Akin(f.k, s.k) /\ f.k.state = x /\ f.k.replied /\ f.k.code = c.code
        /\ Emptied(f.k, s.k)
    BY <1>3, <2>3, <2>4, <2>6 DEF Akin, Emptied
  <2>8. /\ f.mta.msg = s.mta.msg /\ f.mta.dead = s.mta.dead
        /\ Reached(s.k) => Answered(f.mta, s.mta, f.k, a) /\ Delivered(f.mta, s)
        /\ ~Reached(s.k) => Unanswered(f.mta, s.mta)
    BY <1>3, <1>5, <1>6, <1>7, <2>3, <2>6, <2>7
  <2> QED BY <1>10, <2>6, <2>7, <2>8 DEF f
<1> QED BY <1>8, <1>9, <1>10

-----------------------------------------------------------------------------
(* A command of the MTA *)

\* The MTA that has sent x
Sent(x) ==
    [mta EXCEPT !.awaits = Append(@, x), !.got = NoAnswer,
                !.msg = IF x = "envelope-from" THEN @ + 1 ELSE @,
                !.edits = IF x = "end-of-message" THEN <<>> ELSE @,
                !.quarantine = IF x = "end-of-message" THEN 0 ELSE @]

\* The history of the session then
Recorded(x) ==
    [hist EXCEPT !.edits = IF x = "end-of-message" THEN <<>> ELSE @,
                 !.quarantine = IF x = "end-of-message" THEN 0 ELSE @,
                 !.overtook = @ \/ mta.awaits # <<>>]

\* The client context and the MTA when the command x is decoded.
Arrived(x) == [k |-> Decoded(k, x), mta |-> Sent(x)]

\* The answer st that the children object gives to x at once
AtOnceTo(x, st) == [of |-> x, st |-> st]

\* What MtaCommand does, in these terms.
LEMMA MtaCommandCases ==
    ASSUME NEW x \in Command, MtaCommand(x)
    PROVE  /\ MaySend(x) /\ l' = LeaderGets(x)
           /\ hist' = Recorded(x)
           /\ \/ /\ k' = Arrived(x).k /\ mta' = Arrived(x).mta
                 /\ owed' = Append(owed, [of |-> x, late |-> FALSE])
              \/ \E st \in AtOnce : /\ owed = <<>> /\ owed' = owed
                                    /\ k' = Response(Arrived(x), x, AtOnceTo(x, st)).k
                                    /\ mta' = Response(Arrived(x), x, AtOnceTo(x, st)).mta
BY DEF MtaCommand, Arrived, Sent, Become, AtOnceTo, Recorded

\* The end of a message starts a new account of it.
LEMMA RecordedFrame ==
    ASSUME TypeOK, NEW x \in Command
    PROVE  LET h == Recorded(x)
           IN  /\ h \in History /\ h.aborted = hist.aborted
               /\ hist.overtook \/ mta.awaits # <<>> => h.overtook
               /\ x = "end-of-message" => h.edits = <<>> /\ h.quarantine = 0
               /\ x # "end-of-message" => h.edits = hist.edits /\ h.quarantine = hist.quarantine
<1> DEFINE e == IF x = "end-of-message" THEN <<>> ELSE hist.edits
           q == IF x = "end-of-message" THEN 0 ELSE hist.quarantine
           o == hist.overtook \/ mta.awaits # <<>>
<1>1. hist \in History /\ e \in Seq(Edit) /\ q \in Nat /\ o \in BOOLEAN
  <2>1. <<>> \in Seq(Edit)
    OBVIOUS
  <2> QED BY <2>1 DEF TypeOK, History
<1>2. Recorded(x) = [hist EXCEPT !.edits = e, !.quarantine = q, !.overtook = o]
  BY <1>1 DEF Recorded, History
<1> HIDE DEF e, q, o
<1>3. /\ Recorded(x) \in History /\ Recorded(x).aborted = hist.aborted
      /\ Recorded(x).edits = e /\ Recorded(x).quarantine = q /\ Recorded(x).overtook = o
  BY <1>1, <1>2 DEF History
<1> QED BY <1>3 DEF e, q, o

\* What a handler may return for a command
LEMMA AtOnceType ==
    ASSUME ClientAssumption, NEW x \in Command, NEW st \in AtOnce
    PROVE  AtOnceTo(x, st) \in Given
BY DEF ClientAssumption, AtOnceTo, Given

\* A decoded command and what the MTA awaits then
LEMMA ArrivedFrame ==
    ASSUME TypeOK, NEW x \in Command
    PROVE  LET c == Arrived(x).k
               t == Arrived(x).mta
           IN  /\ Arrived(x) \in Both
               /\ c.state = x /\ ~c.replied /\ c.buffer = k.buffer /\ c.buffering = k.buffering
               /\ c.quarantine = (IF x = "end-of-message" THEN 0 ELSE k.quarantine)
               /\ c.code = k.code /\ c.open = k.open /\ c.broken = k.broken
               /\ t.awaits = Append(mta.awaits, x) /\ t.awaits # <<>>
               /\ Len(t.awaits) = Len(mta.awaits) + 1
               /\ t.got = NoAnswer /\ t.place = mta.place
               /\ t.msg = (IF x = "envelope-from" THEN mta.msg + 1 ELSE mta.msg)
               /\ t.edits = (IF x = "end-of-message" THEN <<>> ELSE mta.edits)
               /\ t.quarantine = (IF x = "end-of-message" THEN 0 ELSE mta.quarantine)
<1> DEFINE d == SetState(k, x, FALSE)
           q == IF x = "end-of-message" THEN 0 ELSE d.quarantine
           c == [d EXCEPT !.timer = FALSE, !.result = TRUE, !.quarantine = q]
           w == Append(mta.awaits, x)
           m == IF x = "envelope-from" THEN mta.msg + 1 ELSE mta.msg
           e == IF x = "end-of-message" THEN <<>> ELSE mta.edits
           u == IF x = "end-of-message" THEN 0 ELSE mta.quarantine
           t == [mta EXCEPT !.awaits = w, !.got = NoAnswer, !.msg = m,
                            !.edits = e, !.quarantine = u]
<1>1. /\ d \in Context /\ d.state = x /\ ~d.replied /\ d.buffer = k.buffer
      /\ d.buffering = k.buffering /\ d.quarantine = k.quarantine
      /\ d.code = k.code /\ d.open = k.open /\ d.broken = k.broken
  <2>1. k \in Context /\ x \in Slot /\ FALSE \in BOOLEAN
    BY DEF TypeOK, Slot
  <2> QED BY <2>1, SetStateFrame
<1>2. Decoded(k, x) = c
  BY <1>1 DEF Decoded, Context
<1> HIDE DEF d
<1>3. q \in Nat
  BY <1>1 DEF Context
<1> HIDE DEF q
<1>4. /\ c \in Context /\ c.state = d.state /\ c.replied = d.replied /\ c.buffer = d.buffer
      /\ c.buffering = d.buffering /\ c.quarantine = q
      /\ c.code = d.code /\ c.open = d.open /\ c.broken = d.broken
  BY <1>1, <1>3 DEF Context
<1>5. mta \in Mta /\ mta.awaits \in Seq(Command) /\ mta.msg \in Nat /\ mta.edits \in Seq(Edit)
      /\ mta.quarantine \in Nat
  BY DEF TypeOK, Mta
<1>6. w \in Seq(Command) /\ Len(w) = Len(mta.awaits) + 1 /\ w # <<>>
  BY <1>5, AppendProperties
<1>7. e \in Seq(Edit) /\ u \in Nat /\ m \in Nat
  BY <1>5
<1>8. Sent(x) = t
  BY <1>5 DEF Sent, Mta
<1> HIDE DEF w, e, u, m
<1>9. /\ t \in Mta /\ t.awaits = w /\ t.got = NoAnswer /\ t.place = mta.place /\ t.msg = m
      /\ t.edits = e /\ t.quarantine = u
  <2>1. NoAnswer \in Got
    BY DEF NoAnswer, Got
  <2> QED BY <1>5, <1>6, <1>7, <2>1 DEF Mta
<1> HIDE DEF c, t
<1>10. Arrived(x) \in Both /\ Arrived(x).k = c /\ Arrived(x).mta = t
  BY <1>2, <1>4, <1>8, <1>9 DEF Arrived, Both
<1> QED BY <1>1, <1>4, <1>6, <1>9, <1>10 DEF q, w, e, u, m

-----------------------------------------------------------------------------
(* The types *)

\* The leader's state keeps its type.
LEMMA LeaderTypes ==
    ASSUME TypeOK
    PROVE  NextState \in Leader /\ \A x \in Command : LeaderGets(x) \in Leader
BY DEF TypeOK, Leader, NextState, LeaderGets, Command

\* What an answer is given for keeps its type.
LEMMA OwedTypes ==
    ASSUME TypeOK, owed # <<>>
    PROVE  /\ Tail(owed) \in Seq(Owed) /\ Head(owed) \in Owed
           /\ Asked \in Command \cup {"aborted"}
<1>1. owed \in Seq(Owed)
  BY DEF TypeOK
<1>2. Tail(owed) \in Seq(Owed) /\ Head(owed) \in Owed
  BY <1>1, HeadTailProperties
<1> QED BY <1>2 DEF Asked, Owed

\* A place to send a command from, and what the leader makes of it
LEMMA LeaderGetsCommand ==
    ASSUME Basic, NEW x \in Command, MaySend(x)
    PROVE  LeaderGets(x).state \in Command \cup {"abort"}
<1>1. l \in Leader /\ mta.place \in Place /\ k.open
  BY DEF Basic, TypeOK, Mta, MaySend
<1>2. l.state # "quit"
  BY <1>1 DEF Basic, Placed
<1>3. CASE x = "end-of-message" /\ ~l.replied
  <2>1. l.state # "negotiate"
    <3>1. SUFFICES ASSUME mta.place = "negotiated", mta.awaits = <<>> PROVE FALSE
      BY <1>1 DEF Basic, Placed
    <3>2. x \in Follows["negotiated"]
      BY <3>1 DEF MaySend
    <3> QED BY <1>3, <3>2 DEF Follows, Place
  <2>2. l.state \in Command \cup {"abort"}
    BY <1>1, <1>2, <2>1 DEF Leader
  <2> QED BY <1>1, <1>3, <2>2 DEF LeaderGets, Leader
<1>4. CASE ~(x = "end-of-message" /\ ~l.replied)
  <2>1. LeaderGets(x) = [l EXCEPT !.state = x, !.replied = FALSE]
    BY <1>4 DEF LeaderGets
  <2> QED BY <1>1, <2>1 DEF Leader
<1> QED BY <1>3, <1>4

\* A command is awaited before anything answers it.
LEMMA MtaCommandBasic ==
    ASSUME ClientAssumption, Basic, NEW x \in Command, MtaCommand(x)
    PROVE  Basic'
<1>1. TypeOK /\ owed \in Seq(Owed)
  BY DEF Basic, TypeOK
<1>2. Arrived(x) \in Both
  BY <1>1, ArrivedFrame
<1>3. l' \in Leader /\ l'.state \in Command \cup {"abort"}
  BY <1>1, LeaderTypes, LeaderGetsCommand, MtaCommandCases
<1>4. Placed'
  BY <1>3 DEF Placed, Command, EnvelopeCommand
<1>5. hist' \in History
  BY <1>1, MtaCommandCases, RecordedFrame
<1>6. ASSUME k' = Arrived(x).k, mta' = Arrived(x).mta,
             owed' = Append(owed, [of |-> x, late |-> FALSE])
      PROVE  Basic'
  <2>1. [of |-> x, late |-> FALSE] \in Owed
    BY DEF Owed
  <2>2. owed' \in Seq(Owed)
    BY <1>1, <1>6, <2>1, AppendProperties
  <2> QED BY <1>2, <1>3, <1>4, <1>5, <1>6, <2>2 DEF Basic, TypeOK, Both
<1>7. ASSUME NEW st \in AtOnce, owed = <<>>, owed' = owed,
             k' = Response(Arrived(x), x, AtOnceTo(x, st)).k,
             mta' = Response(Arrived(x), x, AtOnceTo(x, st)).mta
      PROVE  Basic'
  <2>1. Response(Arrived(x), x, AtOnceTo(x, st)) \in Both
    BY <1>2, AtOnceType, ResponseFrame
  <2> QED BY <1>1, <1>3, <1>4, <1>5, <1>7, <2>1 DEF Basic, TypeOK, Both
<1> QED BY <1>6, <1>7, MtaCommandCases

\* The leader that is asked something while the session is open is at a command or
\* has aborted one.
LEMMA LeaderAt ==
    ASSUME Basic, owed # <<>>, k.open
    PROVE  l.state \in Command \cup {"abort"}
BY DEF Basic, TypeOK, Leader, Placed

\* What Emit does: a response if the leader has a command to answer
LEMMA EmitBasic ==
    ASSUME Basic, owed # <<>>, k.open, NEW c \in Context, NEW st \in Verdict, Emit(c, st),
           UNCHANGED hist
    PROVE  Basic'
<1>1. TypeOK /\ mta \in Mta /\ l \in Leader
  BY DEF Basic, TypeOK
<1>2. owed' \in Seq(Owed) /\ Asked \in Command \cup {"aborted"}
  BY <1>1, OwedTypes DEF Emit
<1>3. l.state \in Command \cup {"abort"}
  BY LeaderAt
<1>4. l' \in Leader /\ l'.state \in Command \cup {"abort"}
  BY <1>1, <1>3, LeaderTypes DEF Emit, NextState, Leader, Command
<1>5. Placed'
  BY <1>4 DEF Placed, Command, EnvelopeCommand
<1>6. k' \in Context /\ mta' \in Mta
  <2> DEFINE s == [k |-> c, mta |-> mta]
             a == [of |-> Asked, st |-> st]
  <2>1. s \in Both /\ a \in Given
    BY <1>1, <1>2 DEF Both, Given
  <2>2. Response(s, l.state, a) \in Both
    BY <1>3, <2>1, ResponseFrame
  <2> QED BY <1>1, <2>2 DEF Emit, Become, Both
<1> QED BY <1>1, <1>2, <1>4, <1>5, <1>6 DEF Basic, TypeOK

\* write_packet_on_end_of_message: an edit is behind the others, in the buffer
\* or already with the MTA.
LEMMA BufferedFrame ==
    ASSUME NEW s \in Both, NEW id \in Edit
    PROVE  LET f == Buffered(s, id)
           IN  /\ f \in Both /\ Akin(f.k, s.k)
               /\ f.k.state = s.k.state /\ f.k.replied = s.k.replied
               /\ f.k.buffering <=> f.k.buffer # <<>>
               /\ f.mta.awaits = s.mta.awaits /\ f.mta.place = s.mta.place
               /\ f.mta.got = s.mta.got /\ f.mta.msg = s.mta.msg /\ f.mta.quarantine = s.mta.quarantine
               /\ Reached(s.k) =>
                    f.mta.edits \o f.k.buffer = (s.mta.edits \o s.k.buffer) \o <<id>>
<1> DEFINE p == Append(s.k.buffer, id)
           c == [s.k EXCEPT !.buffer = p, !.buffering = TRUE]
           b == [s EXCEPT !.k = c]
           f == Buffered(s, id)
<1>1. s.k \in Context /\ s.mta \in Mta /\ s.k.buffer \in Seq(Edit) /\ s.mta.edits \in Seq(Edit)
  BY DEF Both, Context, Mta
<1>2. p \in Seq(Edit) /\ p # <<>> /\ p = s.k.buffer \o <<id>> /\ <<id>> \in Seq(Edit)
  BY <1>1, AppendProperties, AppendIsConcat
<1>3. s.mta.edits \o p = (s.mta.edits \o s.k.buffer) \o <<id>>
  <2>1. ASSUME NEW a \in Seq(Edit), NEW c1 \in Seq(Edit), NEW d \in Seq(Edit)
        PROVE  (a \o c1) \o d = a \o (c1 \o d)
    BY ConcatAssociative
  <2> HIDE DEF p
  <2> QED BY <1>1, <1>2, <2>1, Zenon
<1>4. [s EXCEPT !.k.buffer = Append(@, id), !.k.buffering = TRUE] = b
  BY <1>1 DEF Both, Context
<1>5. f = IF Len(b.k.buffer) > BufferSize THEN Flush(b) ELSE b
  BY <1>4 DEF Buffered
<1> HIDE DEF p, f
<1>6. /\ c \in Context /\ Akin(c, s.k) /\ c.state = s.k.state /\ c.replied = s.k.replied
      /\ c.buffer = p /\ c.buffering
  BY <1>1, <1>2 DEF Context, Akin
<1> HIDE DEF c
<1>7. b \in Both /\ b.k = c /\ b.mta = s.mta
  BY <1>1, <1>6 DEF Both
<1> HIDE DEF b
<1>8. ASSUME f = b
      PROVE  /\ f \in Both /\ Akin(f.k, s.k)
             /\ f.k.state = s.k.state /\ f.k.replied = s.k.replied
             /\ f.k.buffering <=> f.k.buffer # <<>>
             /\ f.mta = s.mta /\ f.k.buffer = p
  BY <1>2, <1>6, <1>7, <1>8
<1>9. ASSUME f = Flush(b)
      PROVE  /\ f \in Both /\ Akin(f.k, s.k)
             /\ f.k.state = s.k.state /\ f.k.replied = s.k.replied
             /\ f.k.buffering <=> f.k.buffer # <<>>
             /\ f.mta.awaits = s.mta.awaits /\ f.mta.place = s.mta.place
             /\ f.mta.got = s.mta.got /\ f.mta.msg = s.mta.msg /\ f.mta.quarantine = s.mta.quarantine
             /\ Reached(s.k) => f.mta.edits = s.mta.edits \o p /\ f.k.buffer = <<>>
  <2>1. /\ f \in Both
        /\ f.k.state = c.state /\ f.k.replied = c.replied
        /\ f.k.quarantine = c.quarantine /\ f.k.code = c.code
        /\ f.k.open = c.open /\ f.k.broken = c.broken
        /\ f.k.buffer = <<>> /\ ~f.k.buffering
    BY <1>6, <1>7, <1>9, FlushFrame
  <2> DEFINE t == s.mta
  <2>2. b.mta = t /\ b.k.buffering
    BY <1>6, <1>7
  <2> HIDE DEF t
  <2>3. /\ f.mta.awaits = t.awaits /\ f.mta.place = t.place
        /\ f.mta.got = t.got /\ f.mta.msg = t.msg /\ f.mta.quarantine = t.quarantine
    BY <1>7, <1>9, <2>2, FlushFrame
  <2>4. ~b.k.broken /\ b.k.open => f.mta.edits = t.edits \o b.k.buffer
    BY <1>7, <1>9, <2>2, FlushFrame
  <2>5. /\ f.mta.awaits = s.mta.awaits /\ f.mta.place = s.mta.place
        /\ f.mta.got = s.mta.got /\ f.mta.msg = s.mta.msg /\ f.mta.quarantine = s.mta.quarantine
        /\ ~b.k.broken /\ b.k.open => f.mta.edits = s.mta.edits \o b.k.buffer
    BY <2>3, <2>4 DEF t
  <2>6. f.k.buffering <=> f.k.buffer # <<>>
    BY <2>1
  <2> QED BY <1>6, <1>7, <2>1, <2>5, <2>6 DEF Akin, Reached
<1>10. f.k.buffer = <<>> => f.mta.edits \o f.k.buffer = f.mta.edits
  <2>1. f.mta.edits \in Seq(Edit)
    BY <1>5, <1>8, <1>9 DEF Both, Mta
  <2> QED BY <2>1, ConcatEmptySeq
<1>11. f = b \/ f = Flush(b)
  BY <1>5
<1>12. f = b => f.mta.edits \o f.k.buffer = s.mta.edits \o p
  BY <1>8
<1>13. f = Flush(b) /\ Reached(s.k) => f.mta.edits \o f.k.buffer = s.mta.edits \o p
  BY <1>9, <1>10
<1> QED BY <1>3, <1>8, <1>9, <1>11, <1>12, <1>13 DEF f

\* f is the client context and the MTA with the edits ids behind the others.
Extended(f, ids) ==
    /\ f \in Both /\ Akin(f.k, k) /\ f.k.state = k.state /\ f.k.replied = k.replied
    /\ f.k.buffering <=> f.k.buffer # <<>>
    /\ f.mta.awaits = mta.awaits /\ f.mta.place = mta.place /\ f.mta.got = mta.got /\ f.mta.msg = mta.msg
    /\ f.mta.quarantine = mta.quarantine
    /\ Reached(k) => f.mta.edits \o f.k.buffer = (mta.edits \o k.buffer) \o ids

\* An edit of one packet and one of two
LEMMA AskedFrame ==
    ASSUME TypeOK
    PROVE  /\ Ids(1) \in Seq(Edit) /\ Extended(Buffered(Seen, Ids(1)[1]), Ids(1))
           /\ Ids(2) \in Seq(Edit)
           /\ Extended(Buffered(Buffered(Seen, Ids(2)[1]), Ids(2)[2]), Ids(2))
<1>1. Seen \in Both /\ Seen.k = k /\ Seen.mta = mta
  BY DEF Seen, Both, TypeOK
<1>2. mta.msg \in Nat /\ Len(hist.edits) \in Nat /\ hist.edits \in Seq(Edit)
      /\ mta.edits \in Seq(Edit) /\ k.buffer \in Seq(Edit)
  BY LenProperties DEF TypeOK, Mta, Context, History
<1> DEFINE e == <<mta.msg, Len(hist.edits) + 1>>
           d == <<mta.msg, Len(hist.edits) + 2>>
<1>3. e \in Edit /\ d \in Edit
  BY <1>2 DEF Edit
<1>4. Ids(1) = <<e>> /\ Ids(2) = <<e, d>>
  BY <1>2 DEF Ids
<1> HIDE DEF e, d
<1>5. Ids(1) \in Seq(Edit) /\ Ids(2) \in Seq(Edit) /\ <<e>> \in Seq(Edit) /\ <<d>> \in Seq(Edit)
      /\ Ids(1)[1] = e /\ Ids(2)[1] = e /\ Ids(2)[2] = d /\ Ids(2) = <<e>> \o <<d>>
  <2>1. <<e>> \in Seq(Edit) /\ <<d>> \in Seq(Edit) /\ <<e, d>> \in Seq(Edit)
    BY <1>3
  <2>2. <<e, d>> = <<e>> \o <<d>>
    <3>1. Append(<<e>>, d) = <<e, d>>
      <4>1. Append(<<e>>, d) \in Seq(Edit) /\ Len(Append(<<e>>, d)) = 2
            /\ Append(<<e>>, d)[1] = e /\ Append(<<e>>, d)[2] = d
        BY <1>3, <2>1, AppendProperties
      <4>2. Len(<<e, d>>) = 2 /\ <<e, d>>[1] = e /\ <<e, d>>[2] = d
        OBVIOUS
      <4>3. \A i \in 1..2 : Append(<<e>>, d)[i] = <<e, d>>[i]
        BY <4>1, <4>2
      <4> QED BY <2>1, <4>1, <4>2, <4>3, SeqEqual
    <3>2. ASSUME NEW s \in Seq(Edit), NEW y \in Edit
          PROVE  Append(s, y) = s \o <<y>>
      BY AppendIsConcat
    <3> QED BY <1>3, <2>1, <3>1, <3>2
  <2>3. <<e>>[1] = e /\ <<e, d>>[1] = e /\ <<e, d>>[2] = d
    OBVIOUS
  <2> QED BY <1>4, <2>1, <2>2, <2>3
<1> DEFINE f == Buffered(Seen, e)
           g == Buffered(f, d)
           x == mta.edits \o k.buffer
<1>6. Extended(f, <<e>>)
  BY <1>1, <1>3, BufferedFrame DEF Extended
<1> HIDE DEF f
<1>7. f \in Both
  BY <1>6 DEF Extended
<1>8. /\ g \in Both /\ Akin(g.k, f.k) /\ g.k.state = f.k.state /\ g.k.replied = f.k.replied
      /\ g.k.buffering <=> g.k.buffer # <<>>
      /\ g.mta.awaits = f.mta.awaits /\ g.mta.place = f.mta.place /\ g.mta.got = f.mta.got /\ g.mta.msg = f.mta.msg
      /\ g.mta.quarantine = f.mta.quarantine
      /\ Reached(f.k) => g.mta.edits \o g.k.buffer = (f.mta.edits \o f.k.buffer) \o <<d>>
  BY <1>3, <1>7, BufferedFrame
<1> HIDE DEF g
<1>9. (x \o <<e>>) \o <<d>> = x \o Ids(2)
  <2>1. x \in Seq(Edit)
    BY <1>2, ConcatProperties
  <2>2. ASSUME NEW a \in Seq(Edit), NEW b \in Seq(Edit), NEW c \in Seq(Edit)
        PROVE  (a \o b) \o c = a \o (b \o c)
    BY ConcatAssociative
  <2> HIDE DEF x
  <2>3. (x \o <<e>>) \o <<d>> = x \o (<<e>> \o <<d>>)
    BY <1>5, <2>1, <2>2
  <2> QED BY <1>5, <2>3
<1>10. Reached(k) => Reached(f.k)
  BY <1>6 DEF Extended, Akin, Reached
<1>11. Reached(k) => g.mta.edits \o g.k.buffer = x \o Ids(2)
  BY <1>6, <1>8, <1>9, <1>10 DEF Extended
<1>12. Extended(g, Ids(2))
  BY <1>6, <1>8, <1>11 DEF Extended, Akin
<1> QED BY <1>4, <1>5, <1>6, <1>12 DEF f, g

\* Edits move nothing but edits.
LEMMA AskBasic ==
    ASSUME Basic, NEW e, NEW n \in {1, 2}, NEW done, Extended(done, Ids(n)),
           ChildrenAsk(e, n, done)
    PROVE  Basic' /\ hist'.aborted = hist.aborted /\ hist'.overtook = hist.overtook
<1>1. TypeOK
  BY DEF Basic
<1>2. k' \in Context /\ mta' \in Mta /\ mta'.awaits = mta.awaits /\ mta'.place = mta.place
      /\ k'.open = k.open
  BY <1>1 DEF ChildrenAsk, Become, Seen, Extended, Akin, Both, TypeOK
<1>3. hist' \in History /\ hist'.aborted = hist.aborted /\ hist'.overtook = hist.overtook
  <2>1. hist \in History /\ hist.edits \in Seq(Edit) /\ Ids(n) \in Seq(Edit)
    BY <1>1, AskedFrame DEF TypeOK, History
  <2>2. hist.edits \o Ids(n) \in Seq(Edit)
    BY <2>1, ConcatProperties
  <2>3. hist' = hist \/ hist' = [hist EXCEPT !.edits = hist.edits \o Ids(n)]
    BY <1>1 DEF ChildrenAsk, TypeOK
  <2> QED BY <2>1, <2>2, <2>3 DEF History
<1>4. Placed'
  BY <1>2 DEF ChildrenAsk, Basic, Placed
<1> QED BY <1>1, <1>2, <1>3, <1>4 DEF ChildrenAsk, Basic, TypeOK

\* An ABORT leaves the buffer and what the children object owes; the MTA awaits
\* nothing after it.
LEMMA AbortFrame ==
    ASSUME TypeOK, MtaAbort
    PROVE  /\ TypeOK' /\ mta'.awaits = <<>> /\ mta'.got = mta.got /\ mta'.msg = mta.msg
           /\ mta'.place = "greeted" /\ mta'.edits = mta.edits /\ mta'.quarantine = mta.quarantine
           /\ k'.state = "abort" /\ k'.replied /\ k.open
           /\ k'.buffer = k.buffer /\ k'.buffering = k.buffering /\ Akin(k', k)
           /\ l'.state = "abort" /\ l'.sentEnd = l.sentEnd
           /\ hist'.edits = hist.edits /\ hist'.quarantine = hist.quarantine
           /\ hist'.overtook = hist.overtook
           /\ hist'.aborted = (hist.aborted \/ mta.awaits # <<>>)
           /\ owed = <<>> => owed' = <<>>
<1> DEFINE b == SetState(k, "abort", FALSE)
           c == [b EXCEPT !.timer = FALSE, !.result = FALSE]
           t == [mta EXCEPT !.awaits = <<>>, !.place = "greeted"]
           s == [k |-> c, mta |-> t]
           f == AbortResponse(s, "default")
<1>1. k \in Context /\ "abort" \in Slot /\ FALSE \in BOOLEAN
  BY DEF TypeOK, Slot
<1>2. /\ b \in Context /\ b.buffer = k.buffer /\ b.buffering = k.buffering /\ Akin(b, k)
  BY <1>1, SetStateFrame DEF Akin
<1>3. k' = f.k /\ mta' = f.mta
  BY DEF MtaAbort, Become
<1> HIDE DEF b
<1>4. /\ c \in Context /\ c.buffer = k.buffer /\ c.buffering = k.buffering /\ Akin(c, k)
  BY <1>2 DEF Context, Akin
<1>5. /\ t \in Mta /\ t.awaits = <<>> /\ t.got = mta.got /\ t.msg = mta.msg /\ t.place = "greeted"
      /\ t.edits = mta.edits /\ t.quarantine = mta.quarantine
  <2>1. <<>> \in Seq(Command) /\ "greeted" \in Place
    BY DEF Place
  <2> QED BY <2>1 DEF TypeOK, Mta
<1> HIDE DEF c, t
<1>6. s \in Both /\ s.k = c /\ s.mta = t
  BY <1>4, <1>5 DEF Both
<1> HIDE DEF s
<1>7. /\ f \in Both /\ f.mta = t /\ Akin(f.k, c) /\ f.k.state = "abort" /\ f.k.replied
      /\ f.k.buffer = c.buffer /\ f.k.buffering = c.buffering
  BY <1>6, AbortResponseFrame
<1> HIDE DEF f
<1>8. l' \in Leader /\ l'.sentEnd = l.sentEnd /\ l'.state = "abort" /\ k.open
  BY DEF MtaAbort, TypeOK, Leader
<1>12. /\ hist' \in History /\ hist'.edits = hist.edits /\ hist'.quarantine = hist.quarantine
       /\ hist'.overtook = hist.overtook
       /\ hist'.aborted = (hist.aborted \/ mta.awaits # <<>>)
  BY DEF MtaAbort, TypeOK, History
<1>9. owed' \in Seq(Owed) /\ (owed = <<>> => owed' = <<>>)
  <2>1. owed \in Seq(Owed) /\ owed' = [i \in DOMAIN owed |-> [owed[i] EXCEPT !.late = TRUE]]
    BY DEF TypeOK, MtaAbort
  <2>2. \A i \in DOMAIN owed : [owed[i] EXCEPT !.late = TRUE] \in Owed
    <3>1. \A i \in DOMAIN owed : owed[i] \in Owed
      BY <2>1, ElementOfSeq, LenProperties
    <3> QED BY <3>1 DEF Owed
  <2>3. Len(owed) \in Nat /\ DOMAIN owed = 1..Len(owed)
    BY <2>1, LenProperties
  <2> DEFINE g == [i \in DOMAIN owed |-> [owed[i] EXCEPT !.late = TRUE]]
  <2>4. g \in [1..Len(owed) -> Owed]
    BY <2>2, <2>3
  <2>5. g \in Seq(Owed) /\ Len(g) = Len(owed)
    <3> HIDE DEF g
    <3>1. g \in Seq(Owed)
      BY <2>3, <2>4, SeqDef
    <3> QED BY <2>3, <2>4, <3>1
  <2>6. owed = <<>> => Len(g) = 0
    BY <2>5
  <2> HIDE DEF g
  <2>7. owed = <<>> => g = <<>>
    BY <2>5, <2>6, EmptySeq
  <2> QED BY <2>1, <2>5, <2>7 DEF g
<1>10. TypeOK'
  BY <1>3, <1>7, <1>5, <1>8, <1>9, <1>12 DEF TypeOK, Both
<1>11. Akin(k', k)
  BY <1>3, <1>4, <1>7 DEF Akin
<1> QED BY <1>3, <1>4, <1>5, <1>7, <1>8, <1>9, <1>10, <1>11, <1>12

\* An answer that is lost leaves everything else.
LEMMA LoseFrame ==
    ASSUME Basic, ChildrenLose
    PROVE  Basic' /\ owed # <<>> /\ Head(owed).late /\ UNCHANGED <<k, l, mta, hist>>
<1>1. owed # <<>> /\ Head(owed).late /\ UNCHANGED <<k, l, mta, hist>>
  BY DEF ChildrenLose, Working
<1>2. owed' \in Seq(Owed)
  <2>1. owed' \in {Tail(owed), <<>>} /\ <<>> \in Seq(Owed)
    BY DEF ChildrenLose
  <2> QED BY <1>1, <2>1, OwedTypes DEF Basic
<1>3. Placed'
  BY <1>1 DEF Basic, Placed
<1> QED BY <1>1, <1>2, <1>3 DEF Basic, TypeOK

\* The actions that answer nothing and ask for nothing.
Quietly ==
    \/ MtaMacro \/ MtaQuit \/ MtaDies \/ Break \/ Timeout \/ ChildrenQuarantine
    \/ ChildrenProgress \/ UNCHANGED vars

\* QUIT and the timeout close the session; the others leave what is awaited.
LEMMA QuietFrame ==
    ASSUME TypeOK, Quietly
    PROVE  /\ TypeOK'
           /\ mta'.awaits = mta.awaits /\ mta'.got = mta.got /\ mta'.msg = mta.msg /\ mta'.place = mta.place
           /\ mta'.edits = mta.edits /\ mta'.quarantine = mta.quarantine
           /\ k'.code = k.code /\ k'.buffer = k.buffer /\ k'.buffering = k.buffering
           /\ hist'.edits = hist.edits /\ l'.sentEnd = l.sentEnd
           /\ hist'.aborted = hist.aborted /\ hist'.overtook = hist.overtook
           /\ k'.broken = k.broken \/ k'.broken
           /\ \/ owed' = <<>> /\ ~k'.open /\ hist' = hist /\ k'.quarantine = k.quarantine
                 /\ k'.broken = k.broken
                 /\ \/ k'.state = k.state /\ k'.replied = k.replied
                    \/ k'.state = "quit"
              \/ /\ owed' = owed /\ k'.open = k.open /\ l' = l
                 /\ k'.state = k.state /\ k'.replied = k.replied
                 /\ \/ k'.quarantine = k.quarantine /\ hist'.quarantine = hist.quarantine
                    \/ /\ owed # <<>> /\ k.open /\ k'.broken = k.broken
                       /\ k'.quarantine = hist'.quarantine
<1>1. CASE MtaMacro
  BY <1>1 DEF MtaMacro, TypeOK, Context, Leader, Mta
<1>2. CASE MtaQuit
  <2> DEFINE b == SetState(k, "quit", FALSE)
  <2>1. /\ b \in Context /\ b.state = "quit" /\ b.buffer = k.buffer /\ b.buffering = k.buffering
        /\ b.quarantine = k.quarantine /\ b.code = k.code /\ b.broken = k.broken
    <3>1. k \in Context /\ "quit" \in Slot /\ FALSE \in BOOLEAN
      BY DEF Slot, TypeOK
    <3> QED BY <3>1, SetStateFrame
  <2>2. k' = [b EXCEPT !.open = FALSE, !.timer = FALSE]
    BY <1>2 DEF MtaQuit
  <2> HIDE DEF b
  <2>3. /\ k' \in Context /\ k'.state = "quit" /\ k'.buffer = k.buffer /\ k'.buffering = k.buffering
        /\ k'.quarantine = k.quarantine /\ k'.code = k.code /\ k'.broken = k.broken /\ ~k'.open
    BY <2>1, <2>2 DEF Context
  <2>4. l' \in Leader /\ l'.sentEnd = l.sentEnd /\ owed' = <<>> /\ mta' = mta /\ hist' = hist
    BY <1>2 DEF MtaQuit, TypeOK, Leader
  <2>5. owed' \in Seq(Owed)
    BY <2>4
  <2> QED BY <2>3, <2>4, <2>5 DEF TypeOK
<1>3. CASE MtaDies
  <2>1. /\ mta' \in Mta /\ mta'.awaits = mta.awaits /\ mta'.got = mta.got /\ mta'.msg = mta.msg
        /\ mta'.place = mta.place
        /\ mta'.edits = mta.edits /\ mta'.quarantine = mta.quarantine
    BY <1>3 DEF MtaDies, TypeOK, Mta
  <2> QED BY <1>3, <2>1 DEF MtaDies, TypeOK
<1>4. CASE Break
  BY <1>4 DEF Break, TypeOK, Context, Leader, Mta
<1>5. CASE Timeout
  <2>1. owed' = <<>> /\ owed' \in Seq(Owed)
    BY <1>5 DEF Timeout
  <2> QED BY <1>5, <2>1 DEF Timeout, TypeOK, Context, Leader, Mta
<1>6. CASE ChildrenQuarantine
  BY <1>6 DEF ChildrenQuarantine, Working, TypeOK, Context, Leader, Mta, History
<1>7. CASE ChildrenProgress
  <2>1. k' = Timed(k) /\ mta' = mta /\ UNCHANGED <<l, owed, hist>>
    BY <1>7 DEF ChildrenProgress, Become, Write, Seen
  <2> QED BY <2>1 DEF Timed, TypeOK, Context, Leader, Mta
<1>8. CASE UNCHANGED vars
  BY <1>8 DEF vars, TypeOK
<1> QED BY <1>1, <1>2, <1>3, <1>4, <1>5, <1>6, <1>7, <1>8 DEF Quietly

\* c is the client context an answer st is sent from: it has the code of a
\* refusal that was given with one.
Answering(c, st) ==
    /\ c \in Context /\ st \in Verdict
    /\ c.state = k.state /\ c.replied = k.replied
    /\ c.buffer = k.buffer /\ c.buffering = k.buffering /\ c.quarantine = k.quarantine
    /\ c.open = k.open /\ c.broken = k.broken
    /\ \/ c.code = k.code /\ st \in Verdicts
       \/ c.code = st /\ st \in Codes

\* Both kinds of answer are an Emit.
LEMMA AnswersCases ==
    ASSUME ClientAssumption, TypeOK, Answers
    PROVE  /\ owed # <<>> /\ k.open /\ hist' = hist
           /\ \E c, st : Answering(c, st) /\ Emit(c, st)
<1>1. CASE ChildrenReply
  <2>1. PICK st \in Verdicts : Emit(k, st)
    BY <1>1 DEF ChildrenReply
  <2>2. Answering(k, st)
    BY ClientAssumption DEF ClientAssumption, Answering, TypeOK
  <2> QED BY <1>1, <2>1, <2>2 DEF ChildrenReply, Working
<1>2. CASE ChildrenReplyCode
  <2>1. PICK st \in Codes : Emit([k EXCEPT !.code = st], st)
    BY <1>2 DEF ChildrenReplyCode
  <2>2. st \in {"temporary-failure", "reject"} /\ st \in Verdict
    BY ClientAssumption DEF ClientAssumption, Verdict
  <2>3. Answering([k EXCEPT !.code = st], st)
    BY <2>2 DEF Answering, TypeOK, Context
  <2> QED BY <1>2, <2>1, <2>3 DEF ChildrenReplyCode, Working
<1> QED BY <1>1, <1>2 DEF Answers

\* The steps of the specification, grouped by what they do to the answers.
LEMMA NextCases ==
    ASSUME [Next]_vars
    PROVE  \/ \E x \in Command : MtaCommand(x)
           \/ MtaAbort \/ Quietly \/ Answers \/ ChildrenLose \/ ChildrenEdit \/ ChildrenReplaceBody
BY DEF Next, MtaNext, Quietly

\* Every step keeps the types.
LEMMA BasicStep ==
    ASSUME ClientAssumption, Basic, [Next]_vars
    PROVE  Basic'
<1>1. TypeOK
  BY DEF Basic
<1>2. ASSUME NEW x \in Command, MtaCommand(x) PROVE Basic'
  BY <1>2, MtaCommandBasic
<1>3. CASE MtaAbort
  BY <1>1, <1>3, AbortFrame DEF Basic, Placed
<1>4. CASE Quietly
  BY <1>1, <1>4, QuietFrame DEF Basic, Placed
<1>5. CASE Answers
  BY <1>1, <1>5, AnswersCases, EmitBasic DEF Answering
<1>6. CASE ChildrenEdit
  BY <1>1, <1>6, AskedFrame, AskBasic DEF ChildrenEdit
<1>7. CASE ChildrenReplaceBody
  BY <1>1, <1>7, AskedFrame, AskBasic DEF ChildrenReplaceBody
<1>8. CASE ChildrenLose
  BY <1>8, LoseFrame
<1> QED BY <1>2, <1>3, <1>4, <1>5, <1>6, <1>7, <1>8, NextCases

\* What the MTA has aborted or overtaken is not forgotten.
LEMMA HistoryStep ==
    ASSUME ClientAssumption, Basic, [Next]_vars
    PROVE  /\ ~hist'.aborted => ~hist.aborted
           /\ ~hist'.overtook => ~hist.overtook
<1>1. TypeOK
  BY DEF Basic
<1>2. ASSUME NEW x \in Command, MtaCommand(x)
      PROVE  hist'.aborted = hist.aborted /\ (hist.overtook => hist'.overtook)
  <2>1. hist' = Recorded(x)
    BY <1>2, MtaCommandCases
  <2> QED BY <1>1, <2>1, RecordedFrame
<1>3. CASE MtaAbort
  BY <1>1, <1>3, AbortFrame
<1>4. CASE Quietly
  BY <1>1, <1>4, QuietFrame
<1>5. CASE Answers
  BY <1>1, <1>5, AnswersCases
<1>6. CASE ChildrenEdit
  BY <1>1, <1>6, AskedFrame, AskBasic DEF ChildrenEdit
<1>7. CASE ChildrenReplaceBody
  BY <1>1, <1>7, AskedFrame, AskBasic DEF ChildrenReplaceBody
<1>8. CASE ChildrenLose
  BY <1>8, LoseFrame
<1> QED BY <1>2, <1>3, <1>4, <1>5, <1>6, <1>7, <1>8, NextCases

\* The session begins with nothing awaited.
LEMMA BasicInit ==
    ASSUME Init
    PROVE  Basic
<1>1. <<>> \in Seq(Edit) /\ <<>> \in Seq(Command) /\ <<>> \in Seq(Owed)
  OBVIOUS
<1>2. k \in Context
  BY <1>1 DEF Init, Context, Command, Verdict
<1>3. l \in Leader
  BY DEF Init, Leader
<1>4. NoAnswer \in Got
  BY DEF NoAnswer, Got
<1>5. mta \in Mta
  BY <1>1, <1>4 DEF Init, Mta, Place
<1>6. owed = <<>> /\ hist \in History
  BY <1>1 DEF Init, History
<1>7. Placed
  BY DEF Init, Placed
<1> QED BY <1>1, <1>2, <1>3, <1>5, <1>6, <1>7 DEF Basic, TypeOK

\* Every variable keeps its type, whatever the MTA aborts or overtakes and however
\* late the children object answers.
THEOREM TypesHold == Spec => []TypeOK
<1>1. Init => Basic
  BY BasicInit
<1>2. Basic /\ [Next]_vars => Basic'
  BY BasicStep, ClientAssumption
<1>3. Basic => TypeOK
  BY DEF Basic
<1> QED BY <1>1, <1>2, <1>3, PTL DEF Spec

-----------------------------------------------------------------------------
(* No answer that is not awaited *)

\* A handler that answers at once does so with a fallback status, which ends the
\* command (accept, temporary-failure, reject or discard).
EndsAtOnce == AtOnce \cap {"continue", "skip"} = {}

\* What NoStrayAnswer says of the last answer
Expected == mta.got.to = "nothing" => mta.got.as = "body"

\* As long as the MTA waits for its answers: if it awaits nothing, it has a leader that is not at a command, or is at one
\* that nobody owes an answer for.
Turn ==
    /\ Len(mta.awaits) <= 1
    /\ ~l.sentEnd
    /\ k.open /\ mta.awaits = <<>> /\ ~l.replied /\ l.state # "abort" => owed = <<>>
    /\ k.open /\ mta.awaits = <<>> /\ mta.place \in {"end-of-header", "body"} => l.replied
    /\ Expected

\* The MTA that awaited nothing awaits the command it has sent.
LEMMA OneAwaited ==
    ASSUME TypeOK, mta.awaits = <<>>, NEW x \in Command
    PROVE  /\ Arrived(x).mta.awaits = <<x>> /\ <<x>> # <<>>
           /\ Len(<<x>>) = 1 /\ Head(<<x>>) = x /\ Tail(<<x>>) = <<>>
<1>1. Append(<<>>, x) = <<x>>
  OBVIOUS
<1>2. Arrived(x).mta.awaits = Append(mta.awaits, x)
  BY ArrivedFrame
<1> QED BY <1>1, <1>2

\* f is the client context and the MTA after x was answered with a fallback status,
\* which ends the command if it can be written.
EndedAtOnce(f, x) ==
    /\ f.k.open = k.open /\ f.k.broken = k.broken
    /\ f.mta.msg = (IF x = "envelope-from" THEN mta.msg + 1 ELSE mta.msg)
    /\ ~Reached(k) => f.mta.awaits = <<x>> /\ f.mta.got = NoAnswer
    /\ Reached(k) =>
         /\ f.mta.awaits = <<>>
         /\ f.mta.got.to = x /\ f.mta.got.as = x /\ f.mta.got.of = x
         /\ f.mta.place \notin {"end-of-header", "body"}
         /\ x = "unknown" => f.mta.place = mta.place
         /\ x \in {"connect", "helo"} => f.mta.place \in {"connected", "greeted", "over"}

\* A handler that answers at once
LEMMA AtOnceFrame ==
    ASSUME ClientAssumption, EndsAtOnce, Basic,
           NEW x \in Command, MaySend(x), mta.awaits = <<>>, NEW st \in AtOnce
    PROVE  EndedAtOnce(Response(Arrived(x), x, AtOnceTo(x, st)), x)
<1> DEFINE s == Arrived(x)
           a == AtOnceTo(x, st)
           f == Response(s, x, a)
           r == CreateReplyPacket(f.k, st)
<1>1. TypeOK /\ mta.place \in Place /\ k \in Context /\ x \in Follows[mta.place]
  BY DEF Basic, TypeOK, Mta, MaySend
<1>2. /\ s \in Both /\ s.k.open = k.open /\ s.k.broken = k.broken
      /\ s.mta.place = mta.place /\ s.mta.got = NoAnswer
      /\ s.mta.msg = (IF x = "envelope-from" THEN mta.msg + 1 ELSE mta.msg)
  BY <1>1, ArrivedFrame
<1>3. /\ s.mta.awaits = <<x>> /\ s.mta.awaits # <<>>
      /\ Head(s.mta.awaits) = x /\ Tail(s.mta.awaits) = <<>>
  <2> HIDE DEF s
  <2>1. s.mta.awaits = <<x>> /\ <<x>> # <<>> /\ Head(<<x>>) = x /\ Tail(<<x>>) = <<>>
    BY <1>1, OneAwaited DEF s
  <2> QED BY <2>1
<1>4. a \in Given /\ a.st = st /\ a.of = x /\ st \in Verdict /\ st \notin {"continue", "skip"}
  BY AtOnceType, ClientAssumption DEF ClientAssumption, AtOnceTo, EndsAtOnce
<1> HIDE DEF s, a
<1>5. x \in Command \cup {"abort"} /\ x # "abort"
  BY DEF Command, EnvelopeCommand
<1>6. /\ f \in Both /\ Akin(f.k, s.k) /\ f.k.state = x /\ f.mta.msg = s.mta.msg
      /\ Reached(s.k) => Answered(f.mta, s.mta, f.k, a)
      /\ ~Reached(s.k) => Unanswered(f.mta, s.mta)
  BY <1>2, <1>4, <1>5, ResponseFrame
<1> HIDE DEF f
<1>7. r \in Verdict /\ r \notin {"continue", "skip"}
  BY <1>4, <1>6, PacketType DEF Both
<1>8. Reached(s.k) => f.mta.place = After(mta.place, x, r)
  BY <1>2, <1>3, <1>4, <1>6 DEF Answered
<1> HIDE DEF r
<1>9. /\ After(mta.place, x, r) \notin {"end-of-header", "body"}
      /\ x = "unknown" => After(mta.place, x, r) = mta.place
      /\ x \in {"connect", "helo"} => After(mta.place, x, r) \in {"connected", "greeted", "over"}
  <2>1. mta.place \in {"end-of-header", "body"} => x \notin {"unknown", "envelope-recipient"}
    BY <1>1 DEF Follows, Place
  <2>2. After(mta.place, x, r) \notin {"end-of-header", "body"}
    BY <1>1, <1>7, <2>1, AfterType
  <2> QED BY <2>2 DEF After
<1>10. Reached(s.k) <=> Reached(k)
  BY <1>2 DEF Reached
<1> QED BY <1>2, <1>3, <1>4, <1>6, <1>8, <1>9, <1>10 DEF Akin, Answered, Unanswered, EndedAtOnce, f, s, a

\* Only a leader that has answered, or aborted, its command says nothing to the MTA.
LEMMA EmitFrame ==
    ASSUME ClientAssumption, Basic, owed # <<>>, k.open,
           NEW c, NEW st, Answering(c, st), Emit(c, st)
    PROVE  /\ owed' = Tail(owed) /\ k'.open = k.open /\ k'.broken = k.broken
           /\ mta'.msg = mta.msg
           /\ l.replied /\ l.state # "body" => mta' = mta /\ l' = l
           /\ ~l.replied \/ l.state = "body" =>
                /\ l' = NextState
                /\ l.state # "abort" /\ Reached(k) =>
                     Answered(mta', mta, k', [of |-> Asked, st |-> st]) /\ k'.state = l.state
                /\ l.state = "abort" \/ ~Reached(k) => Unanswered(mta', mta)
<1> DEFINE s == [k |-> c, mta |-> mta]
           a == [of |-> Asked, st |-> st]
           f == Response(s, l.state, a)
<1>1. TypeOK /\ mta \in Mta /\ l \in Leader /\ c \in Context /\ st \in Verdict
      /\ c.open = k.open /\ c.broken = k.broken
  BY DEF Basic, TypeOK, Answering
<1>2. s \in Both /\ a \in Given /\ s.k = c /\ s.mta = mta /\ (Reached(c) <=> Reached(k))
  BY <1>1, OwedTypes DEF Both, Given, Reached
<1>3. l.state \in Command \cup {"abort"}
  BY LeaderAt
<1> HIDE DEF s, a
<1>4. /\ Akin(f.k, c) /\ f.k.state = l.state /\ f.mta.msg = mta.msg
      /\ l.state # "abort" /\ Reached(c) => Answered(f.mta, mta, f.k, a)
      /\ l.state = "abort" \/ ~Reached(c) => Unanswered(f.mta, mta)
  BY <1>2, <1>3, ResponseFrame
<1>5. owed' = Tail(owed)
  BY DEF Emit
<1>6. CASE l.replied /\ l.state # "body"
  <2>1. k' = c /\ mta' = mta /\ l' = l
    BY <1>6 DEF Emit
  <2> QED BY <1>1, <1>5, <1>6, <2>1
<1>7. CASE ~l.replied \/ l.state = "body"
  <2>1. k' = f.k /\ mta' = f.mta /\ l' = NextState
    BY <1>7 DEF Emit, Become, s, a
  <2> HIDE DEF f
  <2> QED BY <1>1, <1>2, <1>4, <1>5, <1>7, <2>1 DEF Akin, a
<1> QED BY <1>6, <1>7

\* A command: the MTA awaits it alone.
LEMMA MtaCommandTurn ==
    ASSUME ClientAssumption, EndsAtOnce, Basic, Turn, NEW x \in Command, MtaCommand(x),
           ~hist'.overtook
    PROVE  Turn'
<1>1. TypeOK /\ l \in Leader /\ mta.place \in Place
  BY DEF Basic, TypeOK, Mta
<1>2. MaySend(x) /\ mta.awaits = <<>> /\ x \in Follows[mta.place] /\ k.open
  <2>1. mta.awaits = <<>>
    BY <1>1, MtaCommandCases, RecordedFrame
  <2>2. <<>> # <<"body">>
    OBVIOUS
  <2> QED BY <2>1, <2>2, MtaCommandCases DEF MaySend
<1>3. l'.state = x /\ ~l'.replied /\ ~l'.sentEnd
  <2>1. x = "end-of-message" => mta.place \in {"end-of-header", "body"}
    BY <1>1, <1>2 DEF Follows, Place
  <2>2. x = "end-of-message" => l.replied
    BY <1>2, <2>1 DEF Turn
  <2>3. l' = [l EXCEPT !.state = x, !.replied = FALSE]
    BY <2>2, MtaCommandCases DEF LeaderGets
  <2> QED BY <1>1, <2>3 DEF Leader, Turn
<1>4. <<x>> # <<>> /\ Len(<<x>>) = 1 /\ Len(<<>>) = 0
  OBVIOUS
<1>5. ASSUME mta' = Arrived(x).mta PROVE Turn'
  <2>1. mta'.awaits = <<x>> /\ mta'.got = NoAnswer
    BY <1>1, <1>2, <1>5, ArrivedFrame, OneAwaited
  <2>2. mta'.awaits # <<>> /\ Len(mta'.awaits) = 1
    BY <1>4, <2>1
  <2> QED BY <1>3, <2>1, <2>2 DEF Turn, Expected, NoAnswer
<1>6. ASSUME NEW st \in AtOnce, owed = <<>>, owed' = owed,
             k' = Response(Arrived(x), x, AtOnceTo(x, st)).k,
             mta' = Response(Arrived(x), x, AtOnceTo(x, st)).mta
      PROVE  Turn'
  <2>1. /\ k'.open = k.open
        /\ ~Reached(k) => mta'.awaits = <<x>> /\ mta'.got = NoAnswer
        /\ Reached(k) =>
             /\ mta'.awaits = <<>> /\ mta'.got.to = x
             /\ mta'.place \notin {"end-of-header", "body"}
    <3> DEFINE f == Response(Arrived(x), x, AtOnceTo(x, st))
    <3>1. EndedAtOnce(f, x)
      BY <1>2, AtOnceFrame
    <3>2. k' = f.k /\ mta' = f.mta
      BY <1>6
    <3> HIDE DEF f
    <3> QED BY <3>1, <3>2 DEF EndedAtOnce
  <2>2. x # "nothing"
    BY DEF Command, EnvelopeCommand
  <2>3. CASE Reached(k)
    BY <1>3, <1>4, <1>6, <2>1, <2>2, <2>3 DEF Turn, Expected
  <2>4. CASE ~Reached(k)
    <3>1. mta'.awaits # <<>> /\ Len(mta'.awaits) = 1
      BY <1>4, <2>1, <2>4
    <3> QED BY <1>3, <2>1, <2>4, <3>1 DEF Turn, Expected, NoAnswer
  <2> QED BY <2>3, <2>4
<1> QED BY <1>5, <1>6, MtaCommandCases

\* An answer goes to the command that is awaited.  If none is, the leader has
\* answered and says nothing, has aborted and sends nothing, or is at a body chunk.
LEMMA AnswersTurn ==
    ASSUME ClientAssumption, Basic, Turn, Answers
    PROVE  Turn'
<1>1. TypeOK /\ l \in Leader /\ mta.awaits \in Seq(Command)
  BY DEF Basic, TypeOK, Mta
<1>2. PICK c, st : Answering(c, st) /\ Emit(c, st)
  BY <1>1, AnswersCases
<1>3. owed # <<>> /\ k.open
  BY <1>1, AnswersCases
<1>4. CASE l.replied /\ l.state # "body"
  <2>1. mta' = mta /\ l' = l /\ k'.open = k.open
    BY <1>2, <1>3, <1>4, EmitFrame
  <2> QED BY <1>4, <2>1 DEF Turn, Expected
<1>5. CASE ~l.replied \/ l.state = "body"
  <2> DEFINE a == [of |-> Asked, st |-> st]
  <2>1. /\ l' = NextState
        /\ l.state # "abort" /\ Reached(k) => Answered(mta', mta, k', a) /\ k'.state = l.state
        /\ l.state = "abort" \/ ~Reached(k) => Unanswered(mta', mta)
    BY <1>2, <1>3, <1>5, EmitFrame
  <2>2. l'.replied /\ ~l'.sentEnd
    BY <1>1, <2>1 DEF NextState, Leader, Turn
  <2>3. Len(mta'.awaits) <= 1
    <3>1. mta'.awaits \in {mta.awaits, <<>>} \/ (mta.awaits # <<>> /\ mta'.awaits = Tail(mta.awaits))
      BY <2>1 DEF Answered, Unanswered
    <3>2. mta.awaits # <<>> => Len(Tail(mta.awaits)) = Len(mta.awaits) - 1
      BY <1>1, HeadTailProperties
    <3>3. Len(mta.awaits) \in Nat /\ Len(<<>>) = 0
      BY <1>1, LenProperties
    <3>4. CASE mta'.awaits \in {mta.awaits, <<>>}
      <4>1. Len(mta'.awaits) = Len(mta.awaits) \/ Len(mta'.awaits) = 0
        BY <3>3, <3>4
      <4> QED BY <3>3, <4>1 DEF Turn
    <3>5. CASE mta.awaits # <<>> /\ mta'.awaits = Tail(mta.awaits)
      <4>1. Len(mta'.awaits) = Len(mta.awaits) - 1
        BY <3>2, <3>5
      <4> QED BY <3>3, <4>1 DEF Turn
    <3> QED BY <3>1, <3>4, <3>5
  <2>4. Expected'
    <3>1. CASE Unanswered(mta', mta)
      BY <3>1 DEF Unanswered, Turn, Expected
    <3>2. CASE l.state # "abort" /\ Reached(k)
      <4>1. Answered(mta', mta, k', a) /\ k'.state = l.state
        BY <2>1, <3>2
      <4>2. CASE mta.awaits = <<>>
        <5>1. l.state = "body"
          BY <1>3, <1>5, <3>2, <4>2 DEF Turn
        <5> QED BY <4>1, <5>1 DEF Answered, Expected
      <4>3. CASE mta.awaits # <<>>
        <5>1. mta'.got.to \in Command
          BY <1>1, <4>1, <4>3, HeadTailProperties DEF Answered
        <5> QED BY <5>1 DEF Expected, Command, EnvelopeCommand
      <4> QED BY <4>2, <4>3
    <3> QED BY <2>1, <3>1, <3>2
  <2> QED BY <2>2, <2>3, <2>4 DEF Turn
<1> QED BY <1>4, <1>5

\* Every step keeps the turn, unless it overtakes.
LEMMA TurnStep ==
    ASSUME ClientAssumption, EndsAtOnce, Basic, Turn, [Next]_vars, ~hist'.overtook
    PROVE  Turn'
<1>1. TypeOK
  BY DEF Basic
<1>2. CASE MtaAbort
  <2>1. Len(<<>>) = 0
    OBVIOUS
  <2> QED BY <1>1, <1>2, <2>1, AbortFrame DEF Turn, Expected
<1>3. CASE Quietly
  BY <1>1, <1>3, QuietFrame DEF Turn, Expected
<1>4. CASE ChildrenLose
  BY <1>4, LoseFrame DEF Turn, Expected
<1>5. ASSUME NEW f, NEW ids, Extended(f, ids), Become(f) \/ Become(Seen), l' = l, owed' = owed
      PROVE  Turn'
  BY <1>5 DEF Extended, Become, Seen, Akin, Turn, Expected
<1>6. CASE ChildrenEdit
  BY <1>1, <1>5, <1>6, AskedFrame DEF ChildrenEdit, ChildrenAsk
<1>7. CASE ChildrenReplaceBody
  BY <1>1, <1>5, <1>7, AskedFrame DEF ChildrenReplaceBody, ChildrenAsk
<1> QED BY <1>2, <1>3, <1>4, <1>6, <1>7, NextCases, MtaCommandTurn, AnswersTurn

-----------------------------------------------------------------------------
(* Every answer goes to its own command *)

\* What OwnAnswer says of the last answer
Own == mta.got.of = mta.got.to /\ mta.got.as = mta.got.to

Idle == owed = <<>> /\ mta.awaits = <<>>

\* The command x is under way, for the MTA, the leader and the children object.
At(x) == owed = Alone(x) /\ mta.awaits = <<x>> /\ l.state = x /\ ~l.replied

\* END_OF_MESSAGE has overtaken BODY.
Overtaken ==
    /\ owed = <<[of |-> "body", late |-> FALSE], [of |-> "end-of-message", late |-> FALSE]>>
    /\ mta.awaits = <<"body", "end-of-message">>
    /\ l.state = "body" /\ ~l.replied /\ l.sentEnd

\* What the MTA, the leader and the children object are at.
InLine == Idle \/ (\E x \in Command : At(x)) \/ Overtaken

\* As long as the MTA aborts no command that is not answered and can be written to: an end of message it sends next is not taken
\* for one that overtakes, or finds the leader where that of an earlier message, which
\* sent_end_of_message does not forget, has put it.
Line ==
    Reached(k) => /\ InLine
                  /\ mta.place \in {"end-of-header", "body"} /\ Idle
                        => l.replied \/ l.state = "end-of-message"

\* Both sequences of a command that is under way
LEMMA AtFacts ==
    ASSUME NEW x
    PROVE  /\ Alone(x) # <<>> /\ Head(Alone(x)) = [of |-> x, late |-> FALSE] /\ Tail(Alone(x)) = <<>>
           /\ Append(<<>>, [of |-> x, late |-> FALSE]) = Alone(x)
           /\ <<x>> # <<>> /\ Head(<<x>>) = x /\ Tail(<<x>>) = <<>> /\ Append(<<>>, x) = <<x>>
           /\ \A y : <<x>> = <<y>> => x = y
           /\ \A y, z : <<x>> # <<y, z>>
<1>1. /\ Alone(x) # <<>> /\ Head(Alone(x)) = [of |-> x, late |-> FALSE] /\ Tail(Alone(x)) = <<>>
      /\ Append(<<>>, [of |-> x, late |-> FALSE]) = Alone(x)
  BY DEF Alone
<1>2. <<x>> # <<>> /\ Head(<<x>>) = x /\ Tail(<<x>>) = <<>> /\ Append(<<>>, x) = <<x>>
  OBVIOUS
<1>3. ASSUME NEW y, <<x>> = <<y>> PROVE x = y
  <2>1. <<x>>[1] = <<y>>[1]
    BY <1>3
  <2> QED BY <2>1
<1>4. ASSUME NEW y, NEW z PROVE <<x>> # <<y, z>>
  <2>1. Len(<<x>>) = 1 /\ Len(<<y, z>>) = 2
    OBVIOUS
  <2> QED BY <2>1
<1> QED BY <1>1, <1>2, <1>3, <1>4

\* Both sequences when END_OF_MESSAGE has overtaken BODY
LEMMA OvertakenFacts ==
    LET o == <<[of |-> "body", late |-> FALSE], [of |-> "end-of-message", late |-> FALSE]>>
        w == <<"body", "end-of-message">>
    IN  /\ o # <<>> /\ Head(o) = [of |-> "body", late |-> FALSE] /\ Tail(o) = Alone("end-of-message")
        /\ w # <<>> /\ Head(w) = "body" /\ Tail(w) = <<"end-of-message">>
        /\ Append(Alone("body"), [of |-> "end-of-message", late |-> FALSE]) = o
        /\ Append(<<"body">>, "end-of-message") = w
<1> DEFINE b == [of |-> "body", late |-> FALSE]
           e == [of |-> "end-of-message", late |-> FALSE]
<1>1. ASSUME NEW u, NEW v
      PROVE  /\ <<u, v>> # <<>> /\ Head(<<u, v>>) = u /\ Tail(<<u, v>>) = <<v>>
             /\ Append(<<u>>, v) = <<u, v>>
  <2>1. <<u, v>> # <<>> /\ Head(<<u, v>>) = u
    OBVIOUS
  <2>2. Tail(<<u, v>>) = <<v>>
    OBVIOUS
  <2>3. Append(<<u>>, v) = <<u, v>>
    <3> DEFINE S == {u, v}
    <3>1. <<u>> \in Seq(S) /\ <<u, v>> \in Seq(S) /\ v \in S /\ Len(<<u>>) = 1 /\ <<u>>[1] = u
      OBVIOUS
    <3> HIDE DEF S
    <3>2. Append(<<u>>, v) \in Seq(S) /\ Len(Append(<<u>>, v)) = 2
          /\ Append(<<u>>, v)[1] = u /\ Append(<<u>>, v)[2] = v
      BY <3>1, AppendProperties
    <3>3. Len(<<u, v>>) = 2 /\ <<u, v>>[1] = u /\ <<u, v>>[2] = v
      OBVIOUS
    <3>4. \A i \in 1..2 : Append(<<u>>, v)[i] = <<u, v>>[i]
      BY <3>2, <3>3
    <3> QED BY <3>1, <3>2, <3>3, <3>4, SeqEqual
  <2> QED BY <2>1, <2>2, <2>3
<1>2. Alone("body") = <<b>> /\ Alone("end-of-message") = <<e>>
  BY DEF Alone
<1> HIDE DEF b, e
<1> QED BY <1>1, <1>2 DEF b, e

\* A command that the MTA sends when it awaits nothing
LEMMA MtaCommandIdle ==
    ASSUME ClientAssumption, EndsAtOnce, Basic, Line, Own, NEW x \in Command, MtaCommand(x),
           mta.awaits = <<>>
    PROVE  Line' /\ Own'
<1>1. TypeOK /\ l \in Leader /\ mta.place \in Place
  BY DEF Basic, TypeOK, Mta
<1>2. MaySend(x) /\ x \in Follows[mta.place] /\ k.open
  <2>1. <<>> # <<"body">>
    OBVIOUS
  <2> QED BY <2>1, MtaCommandCases DEF MaySend
<1>3. x = "end-of-message" => mta.place \in {"end-of-header", "body"}
  BY <1>1, <1>2 DEF Follows, Place
<1>4. ASSUME Reached(k)
      PROVE  Idle /\ l'.state = x /\ ~l'.replied
  <2>1. Idle
    <3>1. \A y : ~At(y)
      BY AtFacts DEF At
    <3>2. ~Overtaken
      BY OvertakenFacts DEF Overtaken
    <3> QED BY <1>4, <3>1, <3>2 DEF Line, InLine
  <2>2. l' = LeaderGets(x)
    BY MtaCommandCases
  <2>3. CASE x = "end-of-message" /\ ~l.replied
    <3>1. l.state = "end-of-message"
      BY <1>3, <1>4, <2>1, <2>3 DEF Line
    <3>2. l' = [l EXCEPT !.sentEnd = TRUE]
      BY <2>2, <2>3 DEF LeaderGets
    <3> QED BY <1>1, <2>1, <2>3, <3>1, <3>2 DEF Leader
  <2>4. CASE ~(x = "end-of-message" /\ ~l.replied)
    <3>1. l' = [l EXCEPT !.state = x, !.replied = FALSE]
      BY <2>2, <2>4 DEF LeaderGets
    <3> QED BY <1>1, <2>1, <3>1 DEF Leader
  <2> QED BY <2>3, <2>4
<1>5. ASSUME k' = Arrived(x).k, mta' = Arrived(x).mta,
             owed' = Append(owed, [of |-> x, late |-> FALSE])
      PROVE  Line' /\ Own'
  <2>1. /\ mta'.awaits = <<x>> /\ mta'.got = NoAnswer
        /\ k'.open = k.open /\ k'.broken = k.broken
    BY <1>1, <1>5, ArrivedFrame, OneAwaited
  <2>2. Own'
    BY <2>1 DEF Own, NoAnswer
  <2>3. ASSUME Reached(k)
        PROVE  InLine' /\ ~Idle'
    <3>1. At(x)'
      BY <1>4, <1>5, <2>1, <2>3, AtFacts DEF At, Idle
    <3>2. ~Idle'
      BY <2>1, AtFacts DEF Idle
    <3> QED BY <3>1, <3>2 DEF InLine
  <2>4. Reached(k') => Reached(k)
    BY <2>1 DEF Reached
  <2> QED BY <2>2, <2>3, <2>4 DEF Line
<1>6. ASSUME NEW st \in AtOnce, owed = <<>>, owed' = owed,
             k' = Response(Arrived(x), x, AtOnceTo(x, st)).k,
             mta' = Response(Arrived(x), x, AtOnceTo(x, st)).mta
      PROVE  Line' /\ Own'
  <2>1. /\ k'.open = k.open /\ k'.broken = k.broken
        /\ ~Reached(k) => mta'.awaits = <<x>> /\ mta'.got = NoAnswer
        /\ Reached(k) =>
             /\ mta'.awaits = <<>>
             /\ mta'.got.to = x /\ mta'.got.as = x /\ mta'.got.of = x
             /\ mta'.place \notin {"end-of-header", "body"}
    <3> DEFINE f == Response(Arrived(x), x, AtOnceTo(x, st))
    <3>1. EndedAtOnce(f, x)
      BY <1>2, AtOnceFrame
    <3>2. k' = f.k /\ mta' = f.mta
      BY <1>6
    <3> HIDE DEF f
    <3> QED BY <3>1, <3>2 DEF EndedAtOnce
  <2>2. Own'
    BY <2>1 DEF Own, NoAnswer
  <2>3. Reached(k') => Reached(k)
    BY <2>1 DEF Reached
  <2>4. Reached(k) => Idle'
    BY <1>6, <2>1 DEF Idle
  <2> QED BY <2>1, <2>2, <2>3, <2>4 DEF Line, InLine
<1> QED BY <1>5, <1>6, MtaCommandCases

\* END_OF_MESSAGE overtakes BODY.
LEMMA MtaCommandOvertakes ==
    ASSUME ClientAssumption, EndsAtOnce, Basic, Line, Own, NEW x \in Command, MtaCommand(x),
           mta.awaits # <<>>
    PROVE  Line' /\ Own'
<1>1. TypeOK /\ l \in Leader
  BY DEF Basic, TypeOK
<1>2. Overtakes /\ mta.awaits = <<"body">> /\ x = "end-of-message"
  BY MtaCommandCases DEF MaySend
<1>3. ASSUME Reached(k)
      PROVE  At("body")
  <2>1. ~Idle /\ ~Overtaken
    BY <1>2, AtFacts DEF Idle, Overtaken
  <2>2. PICK y \in Command : At(y)
    BY <1>3, <2>1 DEF Line, InLine
  <2>3. y = "body"
    BY <1>2, <2>2, AtFacts DEF At
  <2> QED BY <2>2, <2>3
<1>4. ASSUME k' = Arrived(x).k, mta' = Arrived(x).mta,
             owed' = Append(owed, [of |-> x, late |-> FALSE])
      PROVE  Line' /\ Own'
  <2>1. /\ mta'.awaits = Append(mta.awaits, x) /\ mta'.got = NoAnswer
        /\ k'.open = k.open /\ k'.broken = k.broken
    BY <1>1, <1>2, <1>4, ArrivedFrame
  <2>2. Own'
    BY <2>1 DEF Own, NoAnswer
  <2>3. ASSUME Reached(k)
        PROVE  Overtaken' /\ ~Idle'
    <3>1. l' = [l EXCEPT !.sentEnd = TRUE]
      BY <1>2, <1>3, <2>3, MtaCommandCases DEF LeaderGets, At
    <3>2. l'.sentEnd /\ l'.state = "body" /\ ~l'.replied
      BY <1>1, <1>3, <2>3, <3>1 DEF Leader, At
    <3>3. mta'.awaits = <<"body", "end-of-message">>
      BY <1>2, <2>1, OvertakenFacts
    <3>4. Overtaken'
      BY <1>2, <1>3, <1>4, <2>3, <3>2, <3>3, OvertakenFacts DEF Overtaken, At
    <3>5. ~Idle'
      BY <3>3, OvertakenFacts DEF Idle
    <3> QED BY <3>4, <3>5
  <2>4. Reached(k') => Reached(k)
    BY <2>1 DEF Reached
  <2> QED BY <2>2, <2>3, <2>4 DEF Line, InLine
<1>5. ASSUME owed = <<>>
      PROVE  ~Reached(k)
  BY <1>3, <1>5, AtFacts DEF At
<1>6. ASSUME NEW st \in AtOnce, owed = <<>>, owed' = owed,
             k' = Response(Arrived(x), x, AtOnceTo(x, st)).k,
             mta' = Response(Arrived(x), x, AtOnceTo(x, st)).mta
      PROVE  Line' /\ Own'
  <2> DEFINE s == Arrived(x)
             a == AtOnceTo(x, st)
             f == Response(s, x, a)
  <2>1. s \in Both /\ s.mta.got = NoAnswer /\ s.k.open = k.open /\ s.k.broken = k.broken
    BY <1>1, ArrivedFrame
  <2>2. a \in Given
    BY AtOnceType
  <2> HIDE DEF s, a
  <2>3. ~Reached(s.k)
    BY <1>5, <1>6, <2>1 DEF Reached
  <2>4. Akin(f.k, s.k) /\ Unanswered(f.mta, s.mta)
    BY <2>1, <2>2, <2>3, ResponseFrame
  <2>5. k' = f.k /\ mta' = f.mta
    BY <1>6 DEF s, a
  <2> HIDE DEF f
  <2>6. ~Reached(k') /\ mta'.got = NoAnswer
    BY <2>1, <2>3, <2>4, <2>5 DEF Reached, Akin, Unanswered
  <2> QED BY <2>6 DEF Line, Own, NoAnswer
<1> QED BY <1>4, <1>6, MtaCommandCases

\* An answer goes to the command it is given for.
LEMMA AnswersLine ==
    ASSUME ClientAssumption, Basic, Line, Own, Answers
    PROVE  Line' /\ Own'
<1>1. TypeOK /\ l \in Leader /\ mta.place \in Place /\ mta.msg \in Nat
  BY DEF Basic, TypeOK, Mta
<1>2. PICK c, st : Answering(c, st) /\ Emit(c, st)
  BY <1>1, AnswersCases
<1>3. owed # <<>> /\ k.open /\ c \in Context /\ st \in Verdict
  BY <1>1, <1>2, AnswersCases DEF Answering
<1> DEFINE a == [of |-> Asked, st |-> st]
<1>4. k'.open = k.open /\ k'.broken = k.broken /\ owed' = Tail(owed)
  BY <1>2, <1>3, EmitFrame
<1>5. CASE ~Reached(k)
  <2>1. mta' = mta \/ Unanswered(mta', mta)
    BY <1>2, <1>3, <1>5, EmitFrame
  <2>2. ~Reached(k')
    BY <1>4, <1>5 DEF Reached
  <2> QED BY <2>1, <2>2 DEF Line, Own, Unanswered
<1>6. ASSUME Reached(k), NEW x \in Command, mta.awaits # <<>>, Head(mta.awaits) = x,
             Asked = x, l.state = x, ~l.replied
      PROVE  Own' /\ mta'.awaits = Tail(mta.awaits) /\ l' = NextState
  <2>1. x # "abort"
    BY DEF Command, EnvelopeCommand
  <2>2. l' = NextState /\ Answered(mta', mta, k', a) /\ k'.state = x
    BY <1>2, <1>3, <1>6, <2>1, EmitFrame
  <2>3. mta'.got.to = x /\ mta'.got.as = x /\ mta'.got.of = x
    BY <1>6, <2>2 DEF Answered
  <2> QED BY <1>6, <2>2, <2>3 DEF Own, Answered
<1>7. CASE Reached(k) /\ Overtaken
  <2>1. /\ mta.awaits # <<>> /\ Head(mta.awaits) = "body" /\ Asked = "body"
        /\ Tail(mta.awaits) = <<"end-of-message">> /\ Tail(owed) = Alone("end-of-message")
    BY <1>7, OvertakenFacts DEF Overtaken, Asked
  <2>2. Own' /\ mta'.awaits = <<"end-of-message">> /\ l' = NextState
    BY <1>6, <1>7, <2>1 DEF Overtaken, Command
  <2>3. l' = [l EXCEPT !.state = "end-of-message", !.replied = FALSE]
    BY <1>7, <2>2 DEF NextState, Overtaken
  <2>4. At("end-of-message")'
    BY <1>1, <1>4, <2>1, <2>2, <2>3 DEF At, Leader
  <2>5. "end-of-message" \in Command /\ ~Idle'
    BY <2>2, AtFacts DEF Idle, Command
  <2> QED BY <2>2, <2>4, <2>5 DEF Line, InLine
<1>8. ASSUME Reached(k), NEW x \in Command, At(x)
      PROVE  Line' /\ Own'
  <2>1. /\ mta.awaits # <<>> /\ Head(mta.awaits) = x /\ Asked = x
        /\ Tail(mta.awaits) = <<>> /\ Tail(owed) = <<>>
    <3>1. owed = Alone(x) /\ mta.awaits = <<x>>
      BY <1>8 DEF At
    <3>2. Head(owed) = [of |-> x, late |-> FALSE]
      BY <3>1, AtFacts
    <3> QED BY <3>1, <3>2, AtFacts DEF Asked
  <2>2. Own' /\ mta'.awaits = <<>> /\ l' = NextState
    BY <1>6, <1>8, <2>1 DEF At
  <2>3. Idle'
    BY <1>4, <2>1, <2>2 DEF Idle
  <2>4. l'.replied \/ l'.state = "end-of-message"
    BY <1>1, <1>8, <2>2 DEF NextState, Leader, At
  <2> QED BY <2>2, <2>3, <2>4 DEF Line, InLine
<1>9. Reached(k) => Overtaken \/ \E x \in Command : At(x)
  BY <1>3 DEF Line, InLine, Idle
<1> QED BY <1>5, <1>7, <1>8, <1>9

\* Every step keeps the line, unless it aborts a command that is not answered.
LEMMA LineStep ==
    ASSUME ClientAssumption, EndsAtOnce, Basic, Line, Own, [Next]_vars, ~hist'.aborted
    PROVE  Line' /\ Own'
<1>1. TypeOK /\ k.broken \in BOOLEAN
  BY DEF Basic, TypeOK, Context
<1>2. CASE MtaAbort
  <2>1. mta.awaits = <<>>
    BY <1>1, <1>2, AbortFrame
  <2>2. Reached(k) => Idle
    <3>1. \A y : ~At(y)
      BY <2>1, AtFacts DEF At
    <3>2. ~Overtaken
      BY <2>1, OvertakenFacts DEF Overtaken
    <3> QED BY <2>1, <3>1, <3>2 DEF Line, InLine
  <2>3. /\ mta'.awaits = <<>> /\ mta'.got = mta.got
        /\ mta'.place = "greeted" /\ Akin(k', k)
        /\ owed = <<>> => owed' = <<>>
    BY <1>1, <1>2, AbortFrame
  <2>4. Reached(k') => Reached(k)
    BY <2>3 DEF Akin, Reached
  <2> QED BY <2>2, <2>3, <2>4 DEF Line, InLine, Idle, Own
<1>3. CASE Quietly
  <2>1. /\ mta'.awaits = mta.awaits /\ mta'.got = mta.got /\ mta'.msg = mta.msg
        /\ mta'.place = mta.place /\ (k'.broken = k.broken \/ k'.broken)
        /\ \/ ~k'.open
           \/ owed' = owed /\ k'.open = k.open /\ l' = l
    BY <1>1, <1>3, QuietFrame
  <2>2. ASSUME ~Reached(k') PROVE Line' /\ Own'
    BY <2>1, <2>2 DEF Line, Own
  <2>3. ASSUME Reached(k') PROVE Line' /\ Own'
    <3>1. Reached(k) /\ owed' = owed /\ l' = l
      BY <2>1, <2>3 DEF Reached
    <3> QED BY <2>1, <3>1
            DEF Line, InLine, Idle, At, Overtaken, Own
  <2> QED BY <2>2, <2>3
<1>4. CASE ChildrenLose
  <2>1. owed # <<>> /\ Head(owed).late /\ UNCHANGED <<k, l, mta, hist>>
    BY <1>4, LoseFrame
  <2>2. \A y : ~At(y)
    <3> SUFFICES ASSUME NEW y, At(y) PROVE FALSE
      OBVIOUS
    <3>1. Head(owed) = [of |-> y, late |-> FALSE]
      BY AtFacts DEF At
    <3> QED BY <2>1, <3>1
  <2>3. ~Overtaken
    <3> SUFFICES ASSUME Overtaken PROVE FALSE
      OBVIOUS
    <3>1. Head(owed) = [of |-> "body", late |-> FALSE]
      BY OvertakenFacts DEF Overtaken
    <3> QED BY <2>1, <3>1
  <2>4. ~Reached(k)
    BY <2>1, <2>2, <2>3 DEF Line, InLine, Idle
  <2> QED BY <2>1, <2>4 DEF Line, Own, Reached
<1>5. ASSUME NEW f, NEW ids, Extended(f, ids), Become(f) \/ Become(Seen), l' = l, owed' = owed
      PROVE  Line' /\ Own'
  <2>1. /\ mta'.awaits = mta.awaits /\ mta'.got = mta.got /\ mta'.msg = mta.msg
        /\ mta'.place = mta.place /\ k'.broken = k.broken /\ k'.open = k.open
    BY <1>5 DEF Extended, Become, Seen, Akin
  <2>2. Reached(k') <=> Reached(k)
    BY <2>1 DEF Reached
  <2> QED BY <1>5, <2>1, <2>2
          DEF Line, InLine, Idle, At, Overtaken, Own
<1>6. CASE ChildrenEdit
  BY <1>1, <1>5, <1>6, AskedFrame DEF ChildrenEdit, ChildrenAsk
<1>7. CASE ChildrenReplaceBody
  BY <1>1, <1>5, <1>7, AskedFrame DEF ChildrenReplaceBody, ChildrenAsk
<1>8. ASSUME NEW x \in Command, MtaCommand(x) PROVE Line' /\ Own'
  BY <1>8, MtaCommandIdle, MtaCommandOvertakes
<1> QED BY <1>2, <1>3, <1>4, <1>6, <1>7, <1>8, NextCases, AnswersLine

\* What holds of the answers, whatever the MTA does
InOrder ==
    /\ Basic
    /\ ~hist.overtook => Turn
    /\ ~hist.aborted => Line /\ Own

LEMMA InOrderInit ==
    ASSUME Init
    PROVE  InOrder
<1>1. Turn
  <2>1. Len(mta.awaits) <= 1
    BY DEF Init
  <2> QED BY <2>1 DEF Init, Turn, Expected, NoAnswer
<1>2. Line /\ Own
  BY DEF Init, Line, InLine, Idle, Own, NoAnswer
<1> QED BY <1>1, <1>2, BasicInit DEF InOrder

LEMMA InOrderStep ==
    ASSUME EndsAtOnce, InOrder, [Next]_vars
    PROVE  InOrder'
<1>1. Basic /\ Basic'
  BY BasicStep, ClientAssumption DEF InOrder
<1>2. ~hist'.overtook => Turn'
  BY <1>1, HistoryStep, TurnStep, ClientAssumption DEF InOrder
<1>3. ~hist'.aborted => Line' /\ Own'
  BY <1>1, HistoryStep, LineStep, ClientAssumption DEF InOrder
<1> QED BY <1>1, <1>2, <1>3 DEF InOrder

\* The MTA never gets an answer it does not await, except one after that to a body
\* chunk: for any number of messages, whatever it aborts and however late the
\* answers to that come if it waits for its answers, and with END_OF_MESSAGE
\* overtaking BODY if it aborts no command that is not answered.
THEOREM NoAnswerStray ==
    ASSUME EndsAtOnce
    PROVE  Spec => []NoStrayAnswer
<1>1. Init => InOrder
  BY InOrderInit
<1>2. InOrder /\ [Next]_vars => InOrder'
  BY InOrderStep
<1>3. InOrder => NoStrayAnswer
  <2>1. ASSUME InOrder, ~hist.overtook PROVE Expected
    BY <2>1 DEF InOrder, Turn
  <2>2. ASSUME InOrder, ~hist.aborted PROVE Expected
    <3>1. mta.got.of = mta.got.to /\ mta.got.of \in Command \cup {"none", "aborted"}
      BY <2>2 DEF InOrder, Own, Basic, TypeOK, Mta, Got
    <3> QED BY <3>1 DEF Expected, Command, EnvelopeCommand
  <2> QED BY <2>1, <2>2 DEF Expected, NoStrayAnswer
<1> QED BY <1>1, <1>2, <1>3, PTL DEF Spec

\* The MTA takes every answer for that to the command the children object gave it
\* for, in any number of messages, whether it waits for its answers or END_OF_MESSAGE
\* overtakes BODY, until it aborts a command that is not answered: that one the
\* code answers late.
THEOREM EveryAnswerOwn ==
    ASSUME EndsAtOnce
    PROVE  Spec => []OwnAnswer
<1>1. Init => InOrder
  BY InOrderInit
<1>2. InOrder /\ [Next]_vars => InOrder'
  BY InOrderStep
<1>3. InOrder => OwnAnswer
  BY DEF InOrder, Own, OwnAnswer
<1> QED BY <1>1, <1>2, <1>3, PTL DEF Spec

-----------------------------------------------------------------------------
(* The edits arrive *)

\* The parts of the invariant that speak of one sequence or one command.
LEMMA DeliveryFacts ==
    ASSUME Basic, Delivery
    PROVE  /\ mta.awaits = <<>> => owed = <<>> /\ ~Pending
           /\ owed # <<>> => /\ mta.awaits = <<k.state>> /\ Tail(owed) = <<>>
                             /\ Asked = k.state /\ l.state = k.state /\ ~k.replied /\ ~l.replied
                             /\ ~Head(owed).late
           /\ k.buffer = <<>> => ~k.buffering /\ mta.edits \o k.buffer = mta.edits
<1>1. mta.edits \in Seq(Edit) /\ k.buffering \in BOOLEAN
  BY DEF Basic, TypeOK, Mta, Context
<1>2. ASSUME owed # <<>>
      PROVE  /\ mta.awaits = <<k.state>> /\ Tail(owed) = <<>>
             /\ Asked = k.state /\ l.state = k.state /\ ~k.replied /\ ~l.replied
             /\ ~Head(owed).late
  <2>1. owed = Alone(k.state)
    BY <1>2 DEF Delivery, InStep
  <2>2. Tail(owed) = <<>> /\ Head(owed) = [of |-> k.state, late |-> FALSE]
    BY <2>1, AtFacts
  <2> QED BY <1>2, <2>2 DEF Delivery, InStep, Asked
<1>3. mta.awaits = <<>> => owed = <<>> /\ ~Pending
  <2>1. <<k.state>> # <<>> /\ <<"end-of-message">> # <<>>
    OBVIOUS
  <2> QED BY <1>2, <2>1 DEF Delivery, Collected
<1>4. k.buffer = <<>> => ~k.buffering
  BY DEF Delivery, Collected
<1>5. k.buffer = <<>> => mta.edits \o k.buffer = mta.edits
  BY <1>1, ConcatEmptySeq
<1> QED BY <1>2, <1>3, <1>4, <1>5

\* The MTA sends when nothing is under way, so the leader has answered.
LEMMA MtaCommandDelivery ==
    ASSUME ClientAssumption, EndsAtOnce, Basic, Delivery, NEW x \in Command, MtaCommand(x),
           ~hist'.overtook
    PROVE  Delivery'
<1>1. TypeOK /\ mta.place \in Place /\ k \in Context /\ l \in Leader
  BY DEF Basic, TypeOK, Mta
<1>2. MaySend(x) /\ mta.awaits = <<>> /\ x \in Follows[mta.place] /\ k.open
  <2>1. mta.awaits = <<>>
    BY <1>1, MtaCommandCases, RecordedFrame
  <2>2. <<>> # <<"body">>
    OBVIOUS
  <2> QED BY <2>1, <2>2, MtaCommandCases DEF MaySend
<1>3. owed = <<>> /\ ~Pending /\ k.buffer = <<>> /\ ~k.buffering
  <2>1. owed = <<>> /\ ~Pending
    BY <1>2, DeliveryFacts
  <2> QED BY <1>2, <2>1, DeliveryFacts DEF Delivery, Collected
<1>4. /\ x = "end-of-message" => mta.place \in {"end-of-header", "body"}
      /\ mta.place \in {"end-of-header", "body"} => x \notin {"unknown", "envelope-recipient"}
  BY <1>1, <1>2 DEF Follows, Place
<1>5. x = "end-of-message" => l.replied
  BY <1>2, <1>4 DEF Delivery, InStep
<1>6. l'.state = x /\ ~l'.replied /\ ~l'.sentEnd
  <2>1. l' = [l EXCEPT !.state = x, !.replied = FALSE]
    BY <1>5, MtaCommandCases DEF LeaderGets
  <2> QED BY <1>1, <2>1 DEF Leader, Delivery, InStep
<1>7. x = "end-of-message" => hist'.edits = <<>> /\ hist'.quarantine = 0
  BY <1>1, MtaCommandCases, RecordedFrame
<1> DEFINE s == Arrived(x)
<1>8. /\ s \in Both /\ s.k.state = x /\ ~s.k.replied /\ s.k.buffer = <<>> /\ ~s.k.buffering
      /\ s.k.quarantine = (IF x = "end-of-message" THEN 0 ELSE k.quarantine)
      /\ s.k.open = k.open /\ s.k.broken = k.broken
  BY <1>1, <1>3, ArrivedFrame
<1> DEFINE w == <<x>>
<1>9. /\ s.mta.awaits = w /\ s.mta.awaits # <<>> /\ s.mta.place = mta.place
      /\ s.mta.edits = (IF x = "end-of-message" THEN <<>> ELSE mta.edits)
      /\ s.mta.quarantine = (IF x = "end-of-message" THEN 0 ELSE mta.quarantine)
  <2>1. s.mta.awaits = w /\ w # <<>>
    BY <1>1, <1>2, OneAwaited
  <2> HIDE DEF w
  <2> QED BY <1>1, <2>1, ArrivedFrame
<1> HIDE DEF s
<1>10. Len(w) = 1 /\ Len(<<>>) = 0 /\ Head(w) = x /\ Tail(w) = <<>>
       /\ (x = "end-of-message" => w = <<"end-of-message">>)
  OBVIOUS
<1> HIDE DEF w
<1>12. ASSUME k' = s.k, mta' = s.mta, owed' = Append(owed, [of |-> x, late |-> FALSE])
       PROVE  Delivery'
  <2>1. owed' = Alone(x)
    BY <1>3, <1>12, AtFacts
  <2>2. InStep'
    <3>1. mta'.awaits = w /\ w # <<>> /\ k'.state = x /\ ~k'.replied
      BY <1>8, <1>9, <1>12
    <3>2. Len(mta'.awaits) <= 1
      BY <1>10, <3>1
    <3>3. mta'.awaits = <<k'.state>>
      BY <3>1 DEF w
    <3> QED BY <1>6, <2>1, <3>1, <3>2, <3>3 DEF InStep
  <2>3. Pending' <=> x = "end-of-message"
    BY <1>8, <1>12 DEF Pending
  <2>4. <<>> \o <<>> = <<>>
    OBVIOUS
  <2>5. Collected'
    BY <1>7, <1>8, <1>9, <1>10, <1>12, <2>3, <2>4 DEF Collected
  <2>6. Complete'
    BY <1>8, <1>12 DEF Complete
  <2> QED BY <2>2, <2>5, <2>6 DEF Delivery
<1>13. ASSUME NEW st \in AtOnce, owed' = owed, k' = Response(s, x, AtOnceTo(x, st)).k,
              mta' = Response(s, x, AtOnceTo(x, st)).mta
       PROVE  Delivery'
  <2> DEFINE a == AtOnceTo(x, st)
             f == Response(s, x, a)
  <2>1. a \in Given /\ x \in Command \cup {"abort"} /\ x # "abort"
    BY AtOnceType DEF Command, EnvelopeCommand
  <2>2. k' = f.k /\ mta' = f.mta
    BY <1>13
  <2>3. EndedAtOnce(f, x)
    BY <1>2, AtOnceFrame DEF s
  <2> HIDE DEF a
  <2>4. /\ Akin(f.k, s.k) /\ f.k.state = x /\ f.k.replied
        /\ x # "end-of-message" =>
             f.k.buffer = s.k.buffer /\ f.k.buffering = s.k.buffering
        /\ x = "end-of-message" =>
             Emptied(f.k, s.k) /\ (Reached(s.k) => Delivered(f.mta, s))
    BY <1>8, <2>1, ResponseFrame
  <2> HIDE DEF f
  <2>5. /\ Akin(k', s.k) /\ k'.state = x /\ k'.replied
        /\ k'.buffer = <<>> /\ ~k'.buffering
        /\ x = "end-of-message" /\ Reached(s.k) => mta'.edits = <<>> /\ mta'.quarantine = 0
    <3>1. f.k.buffer = <<>> /\ ~f.k.buffering
      <4>1. x = "end-of-message" => ~f.k.buffering /\ f.k.buffer = s.k.buffer
        BY <1>8, <2>4 DEF Emptied
      <4>2. x # "end-of-message" => f.k.buffering = s.k.buffering /\ f.k.buffer = s.k.buffer
        BY <2>4
      <4> QED BY <1>8, <4>1, <4>2
    <3>2. x = "end-of-message" /\ Reached(s.k) => f.mta.edits = <<>> /\ f.mta.quarantine = 0
      BY <1>8, <1>9, <2>4 DEF Delivered
    <3> QED BY <2>2, <2>4, <3>1, <3>2
  <2>6. Reached(s.k) <=> Reached(k)
    BY <1>8 DEF Reached
  <2>7. Reached(s.k) => mta'.awaits = <<>> /\ mta'.place \notin {"end-of-header", "body"}
    BY <2>2, <2>3, <2>6 DEF EndedAtOnce
  <2>8. ~Reached(s.k) => mta'.awaits = w /\ w # <<>>
    BY <1>9, <2>2, <2>3, <2>6 DEF EndedAtOnce, w
  <2>9. InStep'
    <3>1. Len(mta'.awaits) <= 1 /\ (mta'.awaits = <<>> => Reached(s.k))
      <4>1. CASE Reached(s.k)
        BY <2>7, <4>1
      <4>2. CASE ~Reached(s.k)
        <5>1. mta'.awaits = w /\ w # <<>> /\ Len(w) = 1
          BY <1>10, <2>8, <4>2
        <5> QED BY <5>1
      <4> QED BY <4>1, <4>2
    <3> QED BY <1>3, <1>6, <1>13, <2>7, <3>1 DEF InStep
  <2>10. Collected'
    BY <2>5 DEF Collected, Pending
  <2>11. Complete'
    <3>1. mta'.awaits = <<>> => Reached(s.k)
      BY <2>8
    <3> QED BY <1>7, <2>5, <3>1 DEF Complete
  <2> QED BY <2>9, <2>10, <2>11 DEF Delivery
<1> QED BY <1>12, <1>13, MtaCommandCases DEF s

\* An answer comes when the client context, the leader and the children object
\* are at the same command; it takes the buffer and the quarantine along.
LEMMA AnswersDelivery ==
    ASSUME ClientAssumption, Basic, Delivery, Answers
    PROVE  Delivery'
<1>1. TypeOK /\ k \in Context /\ l \in Leader /\ mta \in Mta
  BY DEF Basic, TypeOK
<1>2. PICK c, st : Answering(c, st) /\ Emit(c, st)
  BY <1>1, AnswersCases
<1>3. owed # <<>> /\ k.open /\ hist' = hist
  BY <1>1, AnswersCases
<1>4. /\ mta.awaits = <<k.state>> /\ Tail(owed) = <<>>
      /\ Asked = k.state /\ l.state = k.state /\ ~k.replied /\ ~l.replied
  BY <1>3, DeliveryFacts
<1>5. owed' = <<>>
  BY <1>2, <1>4 DEF Emit
<1> DEFINE x == k.state
           s == [k |-> c, mta |-> mta]
           a == [of |-> Asked, st |-> st]
<1>6. k' = Response(s, x, a).k /\ mta' = Response(s, x, a).mta /\ l' = NextState
  BY <1>2, <1>4 DEF Emit, Become
<1>7. /\ s \in Both /\ s.k = c /\ s.mta = mta /\ a \in Given
      /\ c.open /\ c.broken = k.broken /\ c.buffer = k.buffer /\ c.buffering = k.buffering
      /\ c.quarantine = k.quarantine
  BY <1>1, <1>2, <1>3, OwedTypes DEF Both, Given, Answering
<1>8. l'.replied /\ ~l'.sentEnd
  BY <1>1, <1>6 DEF NextState, Leader, Delivery, InStep
<1>9. mta.awaits # <<>> /\ Tail(mta.awaits) = <<>> /\ Len(mta.awaits) = 1
  <2>1. <<x>> # <<>> /\ Tail(<<x>>) = <<>> /\ Len(<<x>>) = 1
    OBVIOUS
  <2> QED BY <1>4, <2>1
<1> HIDE DEF s, a
<1>10. /\ k'.state = x /\ k'.replied
       /\ x # "end-of-message" => k'.buffer = c.buffer /\ k'.buffering = c.buffering
       /\ x = "end-of-message" =>
            /\ c.buffering => k'.buffer = <<>> /\ ~k'.buffering
            /\ ~c.buffering => k'.buffer = c.buffer /\ ~k'.buffering
            /\ Reached(c) =>
                 /\ mta'.edits = IF c.buffering THEN mta.edits \o c.buffer ELSE mta.edits
                 /\ mta'.quarantine = IF c.quarantine = 0 THEN mta.quarantine ELSE c.quarantine
       /\ x # "abort" /\ Reached(c) => Answered(mta', mta, k', a)
       /\ x = "abort" \/ ~Reached(c) => Unanswered(mta', mta)
  <2> DEFINE f == Response(s, x, a)
  <2>1. x \in Command \cup {"abort"}
    BY <1>3, <1>4, LeaderAt
  <2> HIDE DEF x
  <2>2. /\ f.k.state = x /\ f.k.replied
        /\ x # "end-of-message" => f.k.buffer = s.k.buffer /\ f.k.buffering = s.k.buffering
        /\ x = "end-of-message" => Emptied(f.k, s.k) /\ (Reached(s.k) => Delivered(f.mta, s))
        /\ x # "abort" /\ Reached(s.k) => Answered(f.mta, s.mta, f.k, a)
        /\ x = "abort" \/ ~Reached(s.k) => Unanswered(f.mta, s.mta)
    BY <1>7, <2>1, ResponseFrame
  <2>3. k' = f.k /\ mta' = f.mta
    BY <1>6
  <2> HIDE DEF f
  <2>4. x = "end-of-message" =>
          /\ c.buffering => f.k.buffer = <<>> /\ ~f.k.buffering
          /\ ~c.buffering => f.k.buffer = c.buffer /\ ~f.k.buffering
    BY <1>7, <2>2 DEF Emptied
  <2>5. x = "end-of-message" /\ Reached(c) =>
          /\ f.mta.edits = IF c.buffering THEN mta.edits \o c.buffer ELSE mta.edits
          /\ f.mta.quarantine = IF c.quarantine = 0 THEN mta.quarantine ELSE c.quarantine
    BY <1>7, <2>2 DEF Delivered
  <2>6. /\ x # "end-of-message" => f.k.buffer = c.buffer /\ f.k.buffering = c.buffering
        /\ x # "abort" /\ Reached(c) => Answered(f.mta, mta, f.k, a)
        /\ x = "abort" \/ ~Reached(c) => Unanswered(f.mta, mta)
    BY <1>7, <2>2
  <2> QED BY <2>2, <2>3, <2>4, <2>5, <2>6
<1>11. (x # "abort" /\ Reached(c)) \/ mta'.awaits # <<>>
  BY <1>9, <1>10 DEF Unanswered
<1>12. InStep'
  <2>1. mta'.awaits = <<>> \/ mta'.awaits = mta.awaits
    BY <1>9, <1>10 DEF Answered, Unanswered
  <2>2. Len(<<>>) = 0
    OBVIOUS
  <2>3. Len(mta'.awaits) <= 1
    <3>1. Len(mta'.awaits) = 0 \/ Len(mta'.awaits) = 1
      <4>1. CASE mta'.awaits = <<>>
        BY <2>2, <4>1
      <4>2. CASE mta'.awaits = mta.awaits
        BY <1>9, <4>2
      <4> QED BY <2>1, <4>1, <4>2
    <3>2. \A n : n = 0 \/ n = 1 => n <= 1
      OBVIOUS
    <3> QED BY <3>1, <3>2
  <2> QED BY <1>5, <1>8, <2>3 DEF InStep
<1>13. Pending <=> x = "end-of-message"
  BY <1>4 DEF Pending
<1>14. k'.buffer = <<>> /\ ~k'.buffering
  <2>1. k.buffering <=> k.buffer # <<>>
    BY DEF Delivery, Collected
  <2>2. x # "end-of-message" => k.buffer = <<>>
    BY <1>3, <1>13 DEF Delivery, Collected
  <2> QED BY <1>7, <1>10, <2>1, <2>2
<1>15. Collected'
  BY <1>10, <1>14 DEF Collected, Pending
<1>16. Complete'
  <2>1. ASSUME x = "end-of-message", mta'.awaits = <<>>
        PROVE  mta'.edits = hist.edits /\ mta'.quarantine = hist.quarantine
    <3>1. Reached(c) /\ ~k.broken
      BY <1>3, <1>7, <1>11, <2>1 DEF Reached
    <3>2. /\ mta.edits \o k.buffer = hist.edits
          /\ k.quarantine = hist.quarantine /\ mta.quarantine = 0
      BY <1>13, <2>1, <3>1 DEF Delivery, Collected
    <3>3. ~k.buffering => mta.edits \o k.buffer = mta.edits
      BY DeliveryFacts DEF Delivery, Collected
    <3> QED BY <1>7, <1>10, <2>1, <3>1, <3>2, <3>3
  <2> QED BY <1>3, <1>10, <2>1 DEF Complete
<1> QED BY <1>12, <1>15, <1>16 DEF Delivery

\* An edit is refused by the client context exactly when the history leaves it
\* out, and otherwise goes behind the others.
LEMMA AskDelivery ==
    ASSUME Basic, Delivery, NEW e, NEW n \in {1, 2}, NEW done, Extended(done, Ids(n)),
           ChildrenAsk(e, n, done)
    PROVE  Delivery'
<1>1. /\ owed # <<>> /\ k.open /\ l' = l /\ owed' = owed
      /\ Become(IF Valid(e) THEN done ELSE Seen)
      /\ hist' = IF Asked = "end-of-message" /\ e \in Granted
                 THEN [hist EXCEPT !.edits = @ \o Ids(n)] ELSE hist
  BY DEF ChildrenAsk, Working
<1>2. Asked = k.state /\ ~k.replied /\ hist \in History
  BY <1>1, DeliveryFacts DEF Basic, TypeOK
<1>3. Valid(e) <=> Asked = "end-of-message" /\ e \in Granted
  BY <1>2 DEF Valid
<1>4. ASSUME ~Valid(e) PROVE Delivery'
  <2>1. k' = k /\ mta' = mta /\ hist' = hist
    BY <1>1, <1>3, <1>4 DEF Become, Seen
  <2> QED BY <1>1, <2>1 DEF Delivery, InStep, Collected, Pending, Complete
<1>5. ASSUME Valid(e) PROVE Delivery'
  <2>1. k' = done.k /\ mta' = done.mta /\ Pending
    BY <1>1, <1>2, <1>3, <1>5 DEF Become, Valid, Pending
  <2>2. hist'.edits = hist.edits \o Ids(n) /\ hist'.quarantine = hist.quarantine
    BY <1>1, <1>2, <1>3, <1>5 DEF History
  <2>3. /\ Akin(k', k) /\ k'.state = k.state /\ k'.replied = k.replied
        /\ k'.buffering <=> k'.buffer # <<>>
        /\ mta'.awaits = mta.awaits /\ mta'.place = mta.place /\ mta'.quarantine = mta.quarantine
        /\ Reached(k) => mta'.edits \o k'.buffer = (mta.edits \o k.buffer) \o Ids(n)
    BY <2>1 DEF Extended
  <2>4. InStep'
    BY <1>1, <2>3 DEF Delivery, InStep, Akin
  <2>5. ~k'.broken => Reached(k) /\ mta.edits \o k.buffer = hist.edits
    BY <1>1, <2>1, <2>3 DEF Akin, Reached, Delivery, Collected
  <2>6. Collected'
    <3>1. Pending'
      BY <2>1, <2>3 DEF Pending
    <3>2. mta'.awaits = <<"end-of-message">> /\ k'.quarantine = hist'.quarantine
          /\ mta'.quarantine = 0
      BY <2>1, <2>2, <2>3 DEF Delivery, Collected, Akin
    <3>3. ~k'.broken => mta'.edits \o k'.buffer = hist'.edits
      BY <2>2, <2>3, <2>5
    <3> QED BY <2>3, <3>1, <3>2, <3>3 DEF Collected
  <2>7. Complete'
    BY <1>2, <2>3 DEF Complete
  <2> QED BY <2>4, <2>6, <2>7 DEF Delivery
<1> QED BY <1>4, <1>5

\* Every other step leaves the edits where they are.
LEMMA QuietDelivery ==
    ASSUME Basic, Delivery, Quietly
    PROVE  Delivery'
<1>1. TypeOK /\ k.broken \in BOOLEAN
  BY DEF Basic, TypeOK, Context
<1>2. /\ mta'.awaits = mta.awaits /\ mta'.place = mta.place
      /\ mta'.edits = mta.edits /\ mta'.quarantine = mta.quarantine
      /\ k'.buffer = k.buffer /\ k'.buffering = k.buffering
      /\ hist'.edits = hist.edits /\ l'.sentEnd = l.sentEnd
      /\ ~k'.broken => ~k.broken
  BY <1>1, QuietFrame
<1>3. ASSUME owed' = <<>>, ~k'.open, hist' = hist, k'.quarantine = k.quarantine,
             (k'.state = k.state /\ k'.replied = k.replied) \/ k'.state = "quit"
      PROVE  Delivery'
  BY <1>2, <1>3 DEF Delivery, InStep, Collected, Pending, Complete
<1>4. ASSUME owed' = owed, k'.open = k.open, l' = l, k'.state = k.state, k'.replied = k.replied,
             k'.quarantine = k.quarantine, hist'.quarantine = hist.quarantine
      PROVE  Delivery'
  BY <1>2, <1>4 DEF Delivery, InStep, Collected, Pending, Complete
<1>5. ASSUME owed' = owed, k'.open = k.open, l' = l, k'.state = k.state, k'.replied = k.replied,
             owed # <<>>, k'.quarantine = hist'.quarantine
      PROVE  Delivery'
  <2>1. ~k.replied
    BY <1>5 DEF Delivery, InStep
  <2> QED BY <1>2, <1>5, <2>1 DEF Delivery, InStep, Collected, Pending, Complete
<1> QED BY <1>1, <1>3, <1>4, <1>5, QuietFrame

\* Nothing is under way when the MTA aborts, so there is nothing in the buffer.
LEMMA AbortDelivery ==
    ASSUME Basic, Delivery, MtaAbort, ~hist'.aborted
    PROVE  Delivery'
<1>1. mta.awaits = <<>>
  BY AbortFrame DEF Basic
<1>2. ~Pending /\ owed = <<>>
  BY <1>1, DeliveryFacts
<1>3. /\ k.open /\ owed' = <<>> /\ mta'.awaits = <<>> /\ mta'.place = "greeted"
      /\ k'.state = "abort" /\ k'.buffer = k.buffer /\ k'.buffering = k.buffering
      /\ l'.sentEnd = l.sentEnd
  BY <1>2, AbortFrame DEF Basic
<1>4. k.buffer = <<>>
  BY <1>2, <1>3 DEF Delivery, Collected
<1>5. InStep'
  <2>1. Len(<<>>) = 0
    OBVIOUS
  <2> QED BY <1>3, <2>1 DEF Delivery, InStep
<1>6. Collected'
  BY <1>3, <1>4 DEF Delivery, Collected, Pending
<1> QED BY <1>3, <1>5, <1>6 DEF Delivery, Complete

\* Every step keeps the edits together, unless it aborts or overtakes.
LEMMA DeliveryStep ==
    ASSUME ClientAssumption, EndsAtOnce, Basic, Delivery, [Next]_vars,
           ~hist'.aborted, ~hist'.overtook
    PROVE  Delivery'
<1>1. TypeOK
  BY DEF Basic
<1>2. CASE ChildrenEdit
  BY <1>1, <1>2, AskedFrame, AskDelivery DEF ChildrenEdit
<1>3. CASE ChildrenReplaceBody
  BY <1>1, <1>3, AskedFrame, AskDelivery DEF ChildrenReplaceBody
<1>4. ~ChildrenLose
  <2> SUFFICES ASSUME ChildrenLose PROVE FALSE
    OBVIOUS
  <2>1. owed # <<>> /\ Head(owed).late
    BY LoseFrame
  <2> QED BY <2>1, DeliveryFacts
<1> QED BY <1>2, <1>3, <1>4, NextCases, MtaCommandDelivery, AbortDelivery, QuietDelivery,
           AnswersDelivery

\* When the MTA has its verdict on a message it has the edits of that message and
\* no other, in order, and its quarantine: with any number of edits, any packet
\* buffer and automatic flushes anywhere, whatever was refused, aborted or answered
\* at once before.  The MTA has waited for its answers and aborted no command that
\* was not answered.
THEOREM EveryEditArrives ==
    ASSUME EndsAtOnce
    PROVE  Spec => []EditsArrive
<1> DEFINE Kept == Basic /\ (~hist.aborted /\ ~hist.overtook => Delivery)
<1>1. Init => Kept
  <2> SUFFICES ASSUME Init PROVE Delivery
    BY BasicInit
  <2>1. Len(mta.awaits) <= 1
    BY DEF Init
  <2>2. InStep
    BY <2>1 DEF Init, InStep
  <2>3. Collected /\ Complete
    BY DEF Init, Collected, Pending, Complete
  <2> QED BY <2>2, <2>3 DEF Delivery
<1>2. Kept /\ [Next]_vars => Kept'
  BY BasicStep, HistoryStep, DeliveryStep, ClientAssumption
<1>3. Kept => EditsArrive
  BY DEF Delivery, Complete, EditsArrive
<1> QED BY <1>1, <1>2, <1>3, PTL DEF Spec
=============================================================================
