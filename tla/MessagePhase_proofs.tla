------------------------ MODULE MessagePhase_proofs -------------------------
(* Machine-checked proofs about MessagePhase, for any number of children and *)
(* any message.                                                              *)
EXTENDS MessagePhase, SequenceTheorems, WellFoundedInduction, TLAPS

-----------------------------------------------------------------------------
(* The operators on queues and statuses *)

\* The first of a queue that is not empty is one of the queue.
LEMMA FirstOf ==
    ASSUME NEW W \in SUBSET Child, W # {}
    PROVE  First(W) \in W
<1> DEFINE T == {i \in DOMAIN Milters : Milters[i] \in W}
           ok(i) == Milters[i] \in W /\ \A j \in 1..(i - 1) : Milters[j] \notin W
<1>1. DOMAIN Milters = 1..Len(Milters) /\ Len(Milters) \in Nat
  BY MiltersAssumption
<1>2. T \subseteq Nat /\ T # {}
  BY <1>1 DEF Child
<1>3. PICK i \in T : \A j \in T : <<j, i>> \notin OpToRel(<, Nat)
  BY <1>2, NatLessThanWellFounded, WFMin
<1>4. \A j \in T : ~(j < i)
  BY <1>2, <1>3 DEF OpToRel
<1>5. ok(i)
  BY <1>1, <1>4
<1>6. ok(CHOOSE n \in DOMAIN Milters : ok(n))
  BY <1>5
<1> QED BY <1>6 DEF First

\* The first and the last of some commands in the order of the protocol.
LEMMA EarliestOf ==
    ASSUME NEW S \in SUBSET MessageCommand, S # {}
    PROVE  /\ Earliest(S) \in S /\ \A y \in S : Position[Earliest(S)] <= Position[y]
           /\ Latest(S) \in S /\ \A y \in S : Position[y] <= Position[Latest(S)]
<1>1. \E x \in S : \A y \in S : Position[x] <= Position[y]
  BY DEF MessageCommand, Position
<1>2. \E x \in S : \A y \in S : Position[y] <= Position[x]
  BY DEF MessageCommand, Position
<1> QED BY <1>1, <1>2 DEF Earliest, Latest

\* compile_reply_status keeps one of the two statuses, and a refusal if there is one.
LEMMA CompileKeeps ==
    ASSUME NEW s \in Status, NEW t \in Status
    PROVE  /\ Compile(s, t) \in {s, t} /\ Compile(s, t) \in Status
           /\ t \in Refusal => Compile(s, t) \in Refusal
BY DEF Status, Verdict, Refusal, Compile, IsImportant, Compare, OutrankedBy

-----------------------------------------------------------------------------
(* Server contexts *)

\* The last packet that was written is x.
LEMMA AppendLast ==
    ASSUME NEW s \in Seq(Slot), NEW x \in Slot
    PROVE  /\ Append(s, x) \in Seq(Slot) /\ Append(s, x) # <<>>
           /\ Append(s, x)[Len(Append(s, x))] = x
BY AppendProperties

\* Nothing is asked of the child, and no timer runs for it.
Rests(k) == k.attached => ~Working(k) /\ k.timer = "none"

\* A child that owes an answer has all its packets, and a timer runs only for a
\* child that works.
Orderly(k) == k.attached => /\ k.owes => k.next = <<>>
                            /\ k.timer # "none" => Working(k)

\* milter_server_context_abort and reset_message_related_data leave a child at rest.
LEMMA AbortRests ==
    ASSUME NEW k \in Context
    PROVE  /\ ResetMessage(k) \in Context /\ AbortCtx(k) \in Context
           /\ ResetMessage(AbortCtx(k)) \in Context
           /\ Rests(k) => Rests(ResetMessage(k)) /\ Rests(AbortCtx(k))
                          /\ Rests(ResetMessage(AbortCtx(k)))
           /\ ResetMessage(k).pmsg = FALSE /\ ResetMessage(AbortCtx(k)).pmsg = FALSE
           /\ ResetMessage(k).quitted = k.quitted
           /\ ResetMessage(AbortCtx(k)).quitted = k.quitted
           /\ ResetMessage(k).attached = k.attached
           /\ ResetMessage(AbortCtx(k)).attached = k.attached
<1> DEFINE n == Append(k.next, "abort")
<1>1. n \in Seq(Slot) /\ n # <<>> /\ n[Len(n)] = "abort"
  BY AppendLast DEF Context, Slot
<1>2. AbortCtx(k) = [k EXCEPT !.next = n, !.pmsg = FALSE]
  BY DEF AbortCtx, Context
<1> HIDE DEF n
<1>3. ResetMessage(k) \in Context /\ AbortCtx(k) \in Context
  BY <1>1, <1>2 DEF ResetMessage, Context
<1>4. Rests(k) => Rests(ResetMessage(k))
  BY DEF Rests, Working, ResetMessage, Context
<1>5. Rests(k) => Rests(AbortCtx(k))
  BY <1>1, <1>2 DEF Rests, Working, Context
<1>6. AbortCtx(k).quitted = k.quitted /\ AbortCtx(k).attached = k.attached
  BY <1>2 DEF Context
<1>7. \A h \in Context : ResetMessage(h).quitted = h.quitted /\ ResetMessage(h).pmsg = FALSE
                         /\ ResetMessage(h).attached = h.attached
                         /\ ResetMessage(h) \in Context
                         /\ (Rests(h) => Rests(ResetMessage(h)))
  BY DEF ResetMessage, Context, Rests, Working
<1> QED BY <1>3, <1>4, <1>5, <1>6, <1>7

\* A command that is written makes the child work.
LEMMA WriteWorks ==
    ASSUME NEW k \in Context, NEW x \in MessageCommand
    PROVE  LET w == Write(k, x)
           IN  /\ w \in Context /\ w.next # <<>> /\ w.next[Len(w.next)] = x
               /\ w.state = k.state /\ w.pmsg = k.pmsg /\ w.quitted = k.quitted
               /\ w.attached = k.attached /\ w.skip = k.skip /\ w.owes = k.owes
               /\ w.hdrs = IF x = "header" THEN k.hdrs + 1 ELSE k.hdrs
               /\ w.chunks = IF x = "body" THEN k.chunks + 1 ELSE k.chunks
               /\ Rests(k) => Orderly(w)
<1> DEFINE n == Append(k.next, x)
           i == IF x = "header" THEN k.hdrs + 1 ELSE k.hdrs
           j == IF x = "body" THEN k.chunks + 1 ELSE k.chunks
           w == Write(k, x)
<1>1. n \in Seq(Slot) /\ n # <<>> /\ n[Len(n)] = x
  BY AppendLast DEF Context, Slot
<1>2. i \in Nat /\ j \in Nat
  BY DEF Context
<1>3. w = [k EXCEPT !.next = n, !.timer = "writing", !.hdrs = i, !.chunks = j]
  BY DEF Write, Context
<1> HIDE DEF n, i, j, w
<1>4. /\ w \in Context /\ w.next = n /\ w.state = k.state /\ w.pmsg = k.pmsg
      /\ w.quitted = k.quitted /\ w.attached = k.attached /\ w.skip = k.skip
      /\ w.owes = k.owes /\ w.hdrs = i /\ w.chunks = j
  BY <1>1, <1>2, <1>3 DEF Context
<1>5. x # "abort"
  BY DEF MessageCommand
<1>6. Rests(k) => Orderly(w)
  BY <1>1, <1>4, <1>5 DEF Rests, Orderly, Working
<1> QED BY <1>1, <1>4, <1>6 DEF i, j, w

\* flushed: the child works on the last packet, unless it is an ABORT.
LEMMA FlushedWorks ==
    ASSUME NEW k \in Context, k.next # <<>>
    PROVE  LET f == Flushed(k)
               x == k.next[Len(k.next)]
           IN  /\ f \in Context /\ f.next = <<>> /\ f.state = x /\ Orderly(f)
               /\ f.owes <=> x # "abort"
               /\ f.quitted = k.quitted /\ f.attached = k.attached
               /\ f.hdrs = k.hdrs /\ f.chunks = k.chunks
               /\ x # "abort" => f.pmsg = k.pmsg /\ f.skip = k.skip
               /\ f.pmsg => k.pmsg
               /\ Working(f) => Working(k)
<1> DEFINE x == k.next[Len(k.next)]
           b == IF x = "abort" THEN ResetMessage(k) ELSE k
           t == CASE x \in {"abort", "body"} -> "none"
                  [] x = "end-of-message" -> "end-of-message"
                  [] OTHER -> "reading"
           o == x # "abort"
           f == Flushed(k)
<1>1. x \in Slot
  BY DEF Context
<1>2. /\ b \in Context /\ b.quitted = k.quitted /\ b.attached = k.attached
      /\ b.hdrs = k.hdrs /\ b.chunks = k.chunks /\ (b.pmsg => k.pmsg)
      /\ x # "abort" => b = k
  BY DEF ResetMessage, Context
<1>3. t \in {"none", "reading", "end-of-message"} /\ (t # "none" => o) /\ o \in BOOLEAN
  OBVIOUS
<1>4. f = [b EXCEPT !.state = x, !.next = <<>>, !.owes = o, !.timer = t]
  BY DEF Flushed
<1>5. <<>> \in Seq(Slot)
  OBVIOUS
<1>6. Working(k) <=> k.owes \/ o
  BY DEF Working
<1> HIDE DEF x, b, t, f
<1>7. /\ f \in Context /\ f.next = <<>> /\ f.state = x /\ f.owes = o /\ f.timer = t
      /\ f.quitted = b.quitted /\ f.attached = b.attached /\ f.hdrs = b.hdrs
      /\ f.chunks = b.chunks /\ f.pmsg = b.pmsg /\ f.skip = b.skip
  BY <1>1, <1>2, <1>3, <1>4, <1>5 DEF Context
<1>8. Orderly(f) /\ (Working(f) <=> o)
  BY <1>3, <1>7 DEF Orderly, Working
<1> QED BY <1>2, <1>6, <1>7, <1>8 DEF f, x

-----------------------------------------------------------------------------
(* What the MTA is told *)

Resting(a) == \A c \in Child : Rests(a.ctx[c])

\* From a to b at most the status st is told.
Tells(a, b, st) ==
    b.packets = a.packets \/ (st # "not-change" /\ b.packets = Append(a.packets, st))

\* b has the fields of a that the loop over the commands uses.
SameWork(a, b) ==
    /\ b.st = a.st /\ b.pst = a.pst /\ b.rs = a.rs /\ b.index = a.index
    /\ b.sending = a.sending /\ b.offset = a.offset /\ b.replaced = a.replaced
    /\ b.ctx = a.ctx

\* b has the message of a.
SameMessage(a, b) ==
    b.waiting = a.waiting /\ b.cmds = a.cmds /\ b.headers = a.headers /\ b.body = a.body

\* The message is over.
Disposed(b) == b.waiting = {} /\ b.cmds = {} /\ b.headers = 0 /\ b.body = 0

\* The first of the packets stays the first.
LEMMA FirstPacket ==
    ASSUME NEW s \in Seq(Verdict), NEW p \in Verdict
    PROVE  /\ Append(s, p) \in Seq(Verdict) /\ Append(s, p) # <<>>
           /\ s = <<>> => Append(s, p)[1] = p
           /\ s # <<>> => Append(s, p)[1] = s[1]
<1>1. /\ Append(s, p) \in Seq(Verdict) /\ Append(s, p) # <<>>
      /\ Append(s, p)[Len(s) + 1] = p /\ \A i \in 1..Len(s) : Append(s, p)[i] = s[i]
  BY AppendProperties
<1>2. s = <<>> => Len(s) = 0
  OBVIOUS
<1>3. s # <<>> => 1 \in 1..Len(s)
  <2>1. Len(s) \in Nat /\ (s # <<>> => Len(s) # 0)
    BY LenProperties, EmptySeq
  <2> QED BY <2>1
<1> QED BY <1>1, <1>2, <1>3

\* A signal of the children object changes only what the MTA was told.
LEMMA SayFrame ==
    ASSUME NEW a \in Manager, NEW st \in Status
    PROVE  LET b == Say(a, st)
           IN  /\ b \in Manager /\ SameWork(a, b) /\ SameMessage(a, b)
               /\ b.emitted = a.emitted /\ Tells(a, b, st)
<1> DEFINE p == Append(a.packets, st)
           b == Say(a, st)
<1>1. CASE st = "not-change" \/ (a.replied /\ mta.cmd # "body")
  <2>1. b = a
    BY <1>1 DEF Say
  <2> QED BY <2>1 DEF SameWork, SameMessage, Tells
<1>2. CASE ~(st = "not-change" \/ (a.replied /\ mta.cmd # "body"))
  <2>1. a.packets \in Seq(Verdict) /\ st \in Verdict
    BY <1>2 DEF Manager, Status
  <2>2. p \in Seq(Verdict)
    BY <2>1, FirstPacket
  <2>3. b = [a EXCEPT !.replied = TRUE, !.packets = p]
    BY <1>2 DEF Say
  <2> HIDE DEF p
  <2>4. /\ b \in Manager /\ b.packets = p /\ b.emitted = a.emitted
        /\ b.st = a.st /\ b.pst = a.pst /\ b.rs = a.rs /\ b.index = a.index
        /\ b.sending = a.sending /\ b.offset = a.offset /\ b.replaced = a.replaced
        /\ b.ctx = a.ctx /\ b.waiting = a.waiting /\ b.cmds = a.cmds
        /\ b.headers = a.headers /\ b.body = a.body
    <3> HIDE DEF b
    <3> QED BY <2>2, <2>3 DEF Manager
  <2> QED BY <1>2, <2>4 DEF SameWork, SameMessage, Tells, p
<1> QED BY <1>1, <1>2

\* dispose_message_related_data
LEMMA DisposeFrame ==
    ASSUME NEW a \in Manager
    PROVE  LET b == Dispose(a)
           IN  /\ b \in Manager /\ SameWork(a, b) /\ Disposed(b) /\ b.packets = a.packets
               /\ b.emitted = FALSE
BY DEF Dispose, Manager, SameWork, Disposed

\* b is a after the slot s may have been emitted: at the end of the message, the
\* message is disposed of.
Emits(a, b, s) ==
    /\ b \in Manager /\ SameWork(a, b) /\ Tells(a, b, a.rs[s])
    /\ SameMessage(a, b) \/ (s = "end-of-message" /\ Disposed(b))

\* emit_reply_status_of_state and emit_reply_for_message_oriented_command
LEMMA EmitFrame ==
    ASSUME NEW a \in Manager, NEW s \in Slot
    PROVE  Emits(a, EmitSlot(a, s), s) /\ Emits(a, EmitOnce(a, s), s)
<1>1. ASSUME NEW d \in Manager
      PROVE  Emits(d, EmitSlot(d, s), s)
  <2> DEFINE b == Say(d, d.rs[s])
  <2>1. d.rs[s] \in Status
    BY DEF Manager
  <2>2. b \in Manager /\ SameWork(d, b) /\ SameMessage(d, b) /\ Tells(d, b, d.rs[s])
    BY <2>1, SayFrame
  <2>3. EmitSlot(d, s) = IF s = "end-of-message" THEN Dispose(b) ELSE b
    BY DEF EmitSlot
  <2> HIDE DEF b
  <2>4. LET e == Dispose(b)
        IN  e \in Manager /\ SameWork(b, e) /\ Disposed(e) /\ e.packets = b.packets
    BY <2>2, DisposeFrame
  <2> QED BY <2>2, <2>3, <2>4 DEF Emits, SameWork, Tells
<1>2. CASE a.emitted
  <2>1. EmitOnce(a, s) = a
    BY <1>2 DEF EmitOnce
  <2> QED BY <1>1, <2>1 DEF Emits, SameWork, SameMessage, Tells
<1>3. CASE ~a.emitted
  <2> DEFINE d == [a EXCEPT !.emitted = TRUE]
  <2>1. /\ d \in Manager /\ SameWork(a, d) /\ SameMessage(a, d) /\ d.packets = a.packets
    BY DEF Manager, SameWork, SameMessage
  <2>2. EmitOnce(a, s) = EmitSlot(d, s)
    BY <1>3 DEF EmitOnce
  <2> HIDE DEF d
  <2>3. Emits(d, EmitSlot(d, s), s)
    BY <1>1, <2>1
  <2> QED BY <1>1, <2>1, <2>2, <2>3 DEF Emits, SameWork, SameMessage, Tells
<1> QED BY <1>2, <1>3

\* The context of a child after milter_manager_children_abort
AbortedCtx(k) ==
    LET b == IF Processing(k) THEN AbortCtx(k) ELSE k
    IN IF k.quitted THEN b ELSE ResetMessage(b)

\* milter_manager_children_abort ends the message for everybody.
LEMMA AbortAllFrame ==
    ASSUME NEW a \in Manager
    PROVE  LET b == AbortAll(a)
           IN  /\ b \in Manager /\ Disposed(b) /\ b.packets = a.packets /\ b.rs = a.rs
               /\ b.index = a.index
               /\ \A c \in Child : /\ b.ctx[c].attached = a.ctx[c].attached
                                   /\ b.ctx[c].quitted = a.ctx[c].quitted
                                   /\ ~a.ctx[c].quitted => ~b.ctx[c].pmsg
               /\ Resting(a) => Resting(b)
<1> DEFINE f == [c \in Child |-> AbortedCtx(a.ctx[c])]
           d == Dispose(a)
           b == AbortAll(a)
<1>1. d \in Manager /\ SameWork(a, d) /\ Disposed(d) /\ d.packets = a.packets
  BY DisposeFrame
<1>2. b = [d EXCEPT !.st = "abort", !.pst = "abort", !.ctx = f]
  BY DEF AbortAll, AbortedCtx
<1>3. ASSUME NEW c \in Child
      PROVE  LET h == AbortedCtx(a.ctx[c])
             IN  /\ h \in Context
                 /\ h.attached = a.ctx[c].attached /\ h.quitted = a.ctx[c].quitted
                 /\ ~a.ctx[c].quitted => ~h.pmsg
                 /\ Rests(a.ctx[c]) => Rests(h)
  <2>1. a.ctx[c] \in Context
    BY DEF Manager
  <2> QED BY <2>1, AbortRests DEF AbortedCtx, Processing
<1>4. f \in [Child -> Context]
  BY <1>3
<1>5. \A c \in Child : f[c] = AbortedCtx(a.ctx[c])
  OBVIOUS
<1> HIDE DEF f, d, b
<1>6. /\ b \in Manager /\ b.packets = d.packets /\ b.rs = d.rs /\ b.index = d.index
      /\ b.ctx = f /\ Disposed(b)
  BY <1>1, <1>2, <1>4 DEF Manager, Slot, Disposed
<1>7. \A c \in Child : b.ctx[c] = AbortedCtx(a.ctx[c])
  BY <1>5, <1>6
<1>8. Resting(a) => Resting(b)
  BY <1>3, <1>7 DEF Resting
<1> QED BY <1>1, <1>3, <1>6, <1>7, <1>8 DEF SameWork, b

-----------------------------------------------------------------------------
(* The replay *)

\* The sets of commands in a replay.
LEMMA ReplaySets ==
    ASSUME NEW a \in Manager, NEW c \in Child, NEW s
    PROVE  /\ Todo(a, s) \subseteq MessageCommand /\ Wanted(a, c, s) \subseteq Todo(a, s)
           /\ Given(a, c, s) \subseteq Wanted(a, c, s)
           /\ Passed(a, c, s) \subseteq Todo(a, s) \cap NoStep[c]
           /\ Reached(a, c, s) \subseteq MessageCommand
           /\ Given(a, c, s) # {} => /\ Wanted(a, c, s) # {}
                                     /\ Given(a, c, s) = {Earliest(Wanted(a, c, s))}
                                     /\ Earliest(Wanted(a, c, s)) \in Wanted(a, c, s)
           /\ Wanted(a, c, s) # {} => Given(a, c, s) # {}
<1>1. a.cmds \subseteq MessageCommand
  BY DEF Manager
<1>2. Todo(a, s) \subseteq MessageCommand
  BY <1>1 DEF Todo, MessageCommand
<1>3. Wanted(a, c, s) \subseteq Todo(a, s)
  BY DEF Wanted
<1>4. Wanted(a, c, s) # {} => Earliest(Wanted(a, c, s)) \in Wanted(a, c, s)
  BY <1>2, <1>3, EarliestOf
<1>5. {"body"} \subseteq MessageCommand
  BY DEF MessageCommand
<1> QED BY <1>2, <1>3, <1>4, <1>5 DEF Given, Passed, Reached

\* The context of the child that is given something.
LEMMA NewCtxFrame ==
    ASSUME NEW a \in Manager, NEW c \in Child, NEW s
    PROVE  LET k == a.ctx[c]
               w == NewCtx(a, c, s)
               x == Earliest(Wanted(a, c, s))
           IN  /\ w \in Context /\ w.attached = k.attached /\ w.quitted = k.quitted
               /\ w.pmsg = k.pmsg /\ w.skip = k.skip /\ w.owes = k.owes
               /\ Given(a, c, s) = {} => /\ w.next = k.next /\ w.timer = k.timer
                                         /\ w.hdrs = k.hdrs /\ w.chunks = k.chunks
               /\ Given(a, c, s) # {} =>
                     /\ w.next # <<>> /\ w.next[Len(w.next)] = x
                     /\ w.hdrs = IF x = "header" THEN k.hdrs + 1 ELSE k.hdrs
                     /\ w.chunks = IF x = "body" THEN k.chunks + 1 ELSE k.chunks
                     /\ Rests(k) => Orderly(w)
<1> DEFINE k == a.ctx[c]
           k1 == IF Passed(a, c, s) = {} THEN k
                 ELSE [k EXCEPT !.state = Latest(Passed(a, c, s))]
           x == Earliest(Wanted(a, c, s))
           w == NewCtx(a, c, s)
<1>1. k \in Context
  BY DEF Manager
<1>2. Passed(a, c, s) # {} => Latest(Passed(a, c, s)) \in Slot
  <2>1. Passed(a, c, s) \subseteq MessageCommand
    BY ReplaySets
  <2> QED BY <2>1, EarliestOf DEF Slot
<1>3. /\ k1 \in Context /\ k1.attached = k.attached /\ k1.quitted = k.quitted
      /\ k1.pmsg = k.pmsg /\ k1.skip = k.skip /\ k1.owes = k.owes /\ k1.next = k.next
      /\ k1.timer = k.timer /\ k1.hdrs = k.hdrs /\ k1.chunks = k.chunks
  BY <1>1, <1>2 DEF Context
<1>4. Rests(k) => Rests(k1)
  BY <1>3 DEF Rests, Working
<1>5. w = IF Given(a, c, s) = {} THEN k1 ELSE Write(k1, x)
  BY DEF NewCtx
<1>6. Given(a, c, s) # {} => x \in MessageCommand
  BY ReplaySets
<1> HIDE DEF k1, w, x
<1>7. CASE Given(a, c, s) = {}
  BY <1>3, <1>5, <1>7 DEF w
<1>8. CASE Given(a, c, s) # {}
  BY <1>3, <1>4, <1>5, <1>6, <1>8, WriteWorks DEF w, x
<1> QED BY <1>7, <1>8

\* Only c and what is known of its progress change; the slots of commands it
\* declined get a status that lets the message through.
Gives(a, b, c) ==
    /\ b \in Manager /\ b.st = a.st /\ b.emitted = a.emitted /\ SameMessage(a, b)
    /\ \A y \in Slot : b.rs[y] = a.rs[y] \/ b.rs[y] \notin Refusal
    /\ \A d \in Child : d # c => b.ctx[d] = a.ctx[d]
    /\ b.pst = "end-of-message" => a.pst = b.pst \/ "end-of-message" \in a.cmds

\* The fields of Give.
LEMMA GiveFrame ==
    ASSUME NEW a \in Manager, NEW c \in Child, NEW s
    PROVE  LET b == Give(a, c, s)
           IN  /\ Gives(a, b, c) /\ b.packets = a.packets /\ b.ctx[c] = NewCtx(a, c, s)
               /\ b.index = NewIndex(a, c, s) /\ b.sending = NewSending(a, c, s)
               /\ b.offset = NewOffset(a, c, s)
<1> DEFINE r == NewSlots(a, c, s)
           i == NewIndex(a, c, s)
           n == NewSending(a, c, s)
           o == NewOffset(a, c, s)
           p == IF Reached(a, c, s) = {} THEN a.pst ELSE Latest(Reached(a, c, s))
           q == a.replaced /\ ~Prepared(a, c, s)
           f == [a.ctx EXCEPT ![c] = NewCtx(a, c, s)]
           b == Give(a, c, s)
<1>1. r \in [Slot -> Status] /\ \A y \in Slot : r[y] = a.rs[y] \/ r[y] \notin Refusal
  <2>1. ASSUME NEW y \in Slot
        PROVE  /\ r[y] \in Status
               /\ r[y] = a.rs[y] \/ r[y] \notin Refusal
    <3>1. a.rs[y] \in Status /\ {"skip", "continue"} \subseteq Status \ Refusal
      BY DEF Manager, Status, Verdict, Refusal
    <3>2. /\ Compile(a.rs[y], IF y = "body" THEN "skip" ELSE "continue") \in
                 {a.rs[y], "skip", "continue"}
      BY <3>1, CompileKeeps
    <3> QED BY <3>1, <3>2 DEF NewSlots
  <2> QED BY <2>1 DEF NewSlots
<1>2. i \in Nat /\ o \in Nat /\ n \in BOOLEAN /\ q \in BOOLEAN
  <2>1. a.index \in Nat /\ a.headers \in Nat /\ a.offset \in Nat /\ a.sending \in BOOLEAN
    BY DEF Manager
  <2>2. i \in {a.index + 1, 0, a.headers, a.index}
    <3>1. {"header"} # {"end-of-message"}
      OBVIOUS
    <3> QED BY <3>1, Zenon DEF NewIndex
  <2>3. o \in Nat
    BY <2>1 DEF NewOffset
  <2>4. n \in BOOLEAN
    BY <2>1 DEF NewSending
  <2>5. q \in BOOLEAN
    OBVIOUS
  <2> QED BY <2>1, <2>2, <2>3, <2>4, <2>5
<1>3. p \in Slot /\ (p = "end-of-message" => a.pst = p \/ "end-of-message" \in a.cmds)
  <2>1. Passed(a, c, s) \cup Given(a, c, s) \subseteq Todo(a, s)
        /\ Reached(a, c, s) \subseteq MessageCommand
    BY ReplaySets
  <2>2. "end-of-message" \in Todo(a, s) => "end-of-message" \in a.cmds
    BY DEF Todo
  <2>3. "end-of-message" \in Reached(a, c, s) => "end-of-message" \in Todo(a, s)
    BY <2>1 DEF Reached
  <2>4. Reached(a, c, s) # {} => Latest(Reached(a, c, s)) \in Reached(a, c, s)
    BY <2>1, EarliestOf
  <2> QED BY <2>1, <2>2, <2>3, <2>4 DEF Manager, Slot
<1>4. /\ f \in [Child -> Context] /\ f[c] = NewCtx(a, c, s)
      /\ \A d \in Child : d # c => f[d] = a.ctx[d]
  <2>1. a.ctx \in [Child -> Context] /\ NewCtx(a, c, s) \in Context
    BY NewCtxFrame DEF Manager
  <2> QED BY <2>1
<1>5. b = [a EXCEPT !.rs = r, !.index = i, !.sending = n, !.offset = o, !.replaced = q,
                   !.pst = p, !.ctx = f]
  BY DEF Give, Manager
<1> HIDE DEF r, i, n, o, p, q, f, b
<1>6. /\ b \in Manager /\ b.st = a.st /\ b.emitted = a.emitted /\ b.rs = r /\ b.index = i
      /\ b.sending = n /\ b.offset = o /\ b.ctx = f /\ b.packets = a.packets
      /\ b.waiting = a.waiting /\ b.cmds = a.cmds /\ b.headers = a.headers
      /\ b.body = a.body /\ b.pst = p
  BY <1>1, <1>2, <1>3, <1>4, <1>5 DEF Manager
<1> QED BY <1>1, <1>3, <1>4, <1>6 DEF Gives, SameMessage, b, i, n, o

\* Proceed either does nothing, or tells the MTA to continue because there is
\* nothing to send, or writes the first command that is wanted.
LEMMA ProceedFrame ==
    ASSUME NEW a \in Manager, NEW c \in Child, NEW s
    PROVE  LET b == Proceed(a, c, s)
           IN  /\ Gives(a, b, c)
               /\ \/ b = a /\ (~a.ctx[c].attached \/ NothingFirst(a, s))
                  \/ /\ Given(a, c, s) = {} /\ Tells(a, b, "continue")
                     /\ b.ctx[c] = NewCtx(a, c, s) /\ b.index = NewIndex(a, c, s)
                     /\ b.sending = NewSending(a, c, s) /\ b.offset = NewOffset(a, c, s)
                     /\ a.ctx[c].attached /\ ~NothingFirst(a, s)
                  \/ /\ Given(a, c, s) # {} /\ b.packets = a.packets
                     /\ b.ctx[c] = NewCtx(a, c, s) /\ b.index = NewIndex(a, c, s)
                     /\ b.sending = NewSending(a, c, s) /\ b.offset = NewOffset(a, c, s)
                     /\ a.ctx[c].attached /\ ~NothingFirst(a, s)
<1> DEFINE g == Give(a, c, s)
           b == Proceed(a, c, s)
<1>1. b = IF ~a.ctx[c].attached \/ NothingFirst(a, s) THEN a
          ELSE IF Given(a, c, s) = {} THEN Say(g, "continue") ELSE g
  BY DEF Proceed
<1>2. /\ Gives(a, g, c) /\ g.packets = a.packets /\ g.ctx[c] = NewCtx(a, c, s)
      /\ g.index = NewIndex(a, c, s) /\ g.sending = NewSending(a, c, s)
      /\ g.offset = NewOffset(a, c, s)
  BY GiveFrame
<1> HIDE DEF g, b
<1>3. LET h == Say(g, "continue")
      IN  /\ h \in Manager /\ SameWork(g, h) /\ SameMessage(g, h) /\ h.emitted = g.emitted
          /\ Tells(g, h, "continue")
  BY <1>2, SayFrame DEF Gives, Status, Verdict
<1>4. CASE ~a.ctx[c].attached \/ NothingFirst(a, s)
  BY <1>1, <1>4 DEF Gives, SameMessage, b
<1>5. CASE ~(~a.ctx[c].attached \/ NothingFirst(a, s)) /\ Given(a, c, s) = {}
  <2>1. b = Say(g, "continue")
    BY <1>1, <1>5
  <2>2. Gives(a, b, c)
    BY <1>2, <1>3, <2>1 DEF Gives, SameWork, SameMessage
  <2> QED BY <1>2, <1>3, <1>5, <2>1, <2>2 DEF SameWork, Tells, b
<1>6. CASE ~(~a.ctx[c].attached \/ NothingFirst(a, s)) /\ Given(a, c, s) # {}
  BY <1>1, <1>2, <1>6 DEF b
<1> QED BY <1>4, <1>5, <1>6

-----------------------------------------------------------------------------
(* An event of a child *)

\* a with the context k for c, and the status st compiled into the slot s
With(a, c, k, s, st) ==
    [a EXCEPT !.rs = [a.rs EXCEPT ![s] = Compile(a.rs[s], st)],
              !.ctx = [a.ctx EXCEPT ![c] = k]]

\* The other fields are left alone.
LEMMA WithFrame ==
    ASSUME NEW a \in Manager, NEW c \in Child, NEW k \in Context, NEW s \in Slot,
           NEW st \in Status
    PROVE  LET b == With(a, c, k, s, st)
           IN  /\ b \in Manager /\ SameMessage(a, b) /\ b.packets = a.packets
               /\ b.st = a.st /\ b.pst = a.pst /\ b.index = a.index /\ b.sending = a.sending
               /\ b.offset = a.offset /\ b.replaced = a.replaced /\ b.emitted = a.emitted
               /\ b.ctx[c] = k /\ \A d \in Child : d # c => b.ctx[d] = a.ctx[d]
               /\ b.rs[s] = Compile(a.rs[s], st)
               /\ \A y \in Slot : y # s => b.rs[y] = a.rs[y]
<1> DEFINE r == [a.rs EXCEPT ![s] = Compile(a.rs[s], st)]
           f == [a.ctx EXCEPT ![c] = k]
           b == With(a, c, k, s, st)
<1>1. a.rs \in [Slot -> Status] /\ a.ctx \in [Child -> Context]
  BY DEF Manager
<1>2. Compile(a.rs[s], st) \in Status
  BY <1>1, CompileKeeps
<1>3. /\ r \in [Slot -> Status] /\ r[s] = Compile(a.rs[s], st)
      /\ \A y \in Slot : y # s => r[y] = a.rs[y]
  BY <1>1, <1>2
<1>4. f \in [Child -> Context] /\ f[c] = k /\ \A d \in Child : d # c => f[d] = a.ctx[d]
  BY <1>1
<1>5. b = [a EXCEPT !.rs = r, !.ctx = f]
  BY DEF With
<1> HIDE DEF r, f, b
<1>6. /\ b \in Manager /\ SameMessage(a, b) /\ b.packets = a.packets
      /\ b.st = a.st /\ b.pst = a.pst /\ b.index = a.index /\ b.sending = a.sending
      /\ b.offset = a.offset /\ b.replaced = a.replaced /\ b.emitted = a.emitted
      /\ b.ctx = f /\ b.rs = r
  BY <1>3, <1>4, <1>5 DEF Manager, SameMessage
<1> QED BY <1>3, <1>4, <1>6 DEF b

\* The context of a child that has answered
Quiet(k) == [k EXCEPT !.timer = "none", !.owes = FALSE]
Out(k) == [k EXCEPT !.timer = "none", !.owes = FALSE, !.pmsg = FALSE]
Skips(k) == [k EXCEPT !.timer = "none", !.owes = FALSE, !.skip = TRUE]

\* A child that answers what it was asked rests, as does an expired one.
LEMMA AnsweredRests ==
    ASSUME NEW k \in Context
    PROVE  /\ Quiet(k) \in Context /\ Out(k) \in Context /\ Skips(k) \in Context
           /\ Expired(k) \in Context /\ Rests(Expired(k)) /\ Expired(k).quitted
           /\ ~Expired(k).attached
           /\ \A h \in {Quiet(k), Out(k), Skips(k)} :
                 /\ h.attached = k.attached /\ h.quitted = k.quitted /\ h.next = k.next
                 /\ h.state = k.state /\ h.hdrs = k.hdrs /\ h.chunks = k.chunks
                 /\ k.next = <<>> => Rests(h)
           /\ Quiet(k).pmsg = k.pmsg /\ Skips(k).pmsg = k.pmsg /\ ~Out(k).pmsg
           /\ Quiet(k).skip = k.skip /\ Skips(k).skip
BY DEF Quiet, Out, Skips, Expired, Context, Rests, Working

\* Heard in terms of With.
LEMMA HeardIs ==
    ASSUME TypeOK, NEW c \in Child, NEW r \in Verdict
    PROVE  LET k == mgr.ctx[c]
               after(h) == With(mgr, c, h, k.state, Effective(c, r))
           IN  /\ r = "continue" /\ k.state = "end-of-message" =>
                     Heard(c, r) = NextChild(after(Quiet(k)), c)
               /\ r = "continue" /\ k.state # "end-of-message" =>
                     Heard(c, r) = Proceed(after(Quiet(k)), c, k.state)
               /\ r = "skip" /\ mgr.st # "end-of-message" =>
                     Heard(c, r) = Say(after(Skips(k)), "continue")
               /\ r = "skip" /\ mgr.st = "end-of-message" =>
                     Heard(c, r) = Proceed(after(Skips(k)), c, "body")
               /\ r = "accept" => Heard(c, r) = NextChild(after(Out(k)), c)
               /\ r \in Refusal => Heard(c, r) = AbortAll(EmitOnce(after(Out(k)), k.state))
<1> DEFINE k == mgr.ctx[c]
           idle == [mgr EXCEPT !.ctx[c].timer = "none", !.ctx[c].owes = FALSE]
           m == CompileAt(idle, k.state, Effective(c, r))
           after(h) == With(mgr, c, h, k.state, Effective(c, r))
<1>1. mgr \in Manager /\ mgr.ctx \in [Child -> Context] /\ k \in Context /\ k.state \in Slot
  BY DEF TypeOK, Manager, Context
<1> DEFINE f(h) == [mgr.ctx EXCEPT ![c] = h]
           q == [mgr.rs EXCEPT ![k.state] = Compile(mgr.rs[k.state], Effective(c, r))]
<1>a. idle = [mgr EXCEPT !.ctx = f(Quiet(k))]
  <2>1. idle = [mgr EXCEPT !.ctx = f([[k EXCEPT !.timer = "none"] EXCEPT !.owes = FALSE])]
    BY <1>1 DEF Manager
  <2>2. [[k EXCEPT !.timer = "none"] EXCEPT !.owes = FALSE] = Quiet(k)
    BY <1>1 DEF Quiet, Context
  <2> QED BY <2>1, <2>2
<1>2. m = after(Quiet(k))
  <2>1. idle.rs = mgr.rs
    BY <1>1, <1>a DEF Manager
  <2>2. m = [idle EXCEPT !.rs = q]
    BY <2>1 DEF CompileAt
  <2> HIDE DEF q
  <2> QED BY <1>1, <1>a, <2>2 DEF With, q, Manager
<1>b. /\ m = [mgr EXCEPT !.rs = q, !.ctx = f(Quiet(k))]
      /\ after(Out(k)) = [mgr EXCEPT !.rs = q, !.ctx = f(Out(k))]
      /\ after(Skips(k)) = [mgr EXCEPT !.rs = q, !.ctx = f(Skips(k))]
  BY <1>2 DEF With
<1>c. /\ Out(k) = [Quiet(k) EXCEPT !.pmsg = FALSE]
      /\ Skips(k) = [Quiet(k) EXCEPT !.skip = TRUE]
  BY <1>1 DEF Quiet, Out, Skips, Context
<1>d. \A g, h : [f(g) EXCEPT ![c] = h] = f(h) /\ f(g)[c] = g
  BY <1>1
<1>3. [m EXCEPT !.ctx[c].pmsg = FALSE] = after(Out(k))
  <2>1. [m EXCEPT !.ctx[c].pmsg = FALSE]
          = [mgr EXCEPT !.rs = q, !.ctx = [f(Quiet(k)) EXCEPT ![c] = [f(Quiet(k))[c] EXCEPT !.pmsg = FALSE]]]
    <3> HIDE DEF m, q, f
    <3> QED BY <1>1, <1>b DEF Manager
  <2>2. f(Quiet(k))[c] = Quiet(k) /\ [f(Quiet(k)) EXCEPT ![c] = Out(k)] = f(Out(k))
    BY <1>d
  <2>3. [f(Quiet(k))[c] EXCEPT !.pmsg = FALSE] = Out(k)
    BY <1>c, <2>2
  <2>4. after(Out(k)) = [mgr EXCEPT !.rs = q, !.ctx = f(Out(k))]
    BY <1>b
  <2> HIDE DEF m, q, f, after
  <2> QED BY <2>1, <2>2, <2>3, <2>4
<1>4. [m EXCEPT !.ctx[c].skip = TRUE] = after(Skips(k))
  <2>1. [m EXCEPT !.ctx[c].skip = TRUE]
          = [mgr EXCEPT !.rs = q, !.ctx = [f(Quiet(k)) EXCEPT ![c] = [f(Quiet(k))[c] EXCEPT !.skip = TRUE]]]
    <3> HIDE DEF m, q, f
    <3> QED BY <1>1, <1>b DEF Manager
  <2>2. f(Quiet(k))[c] = Quiet(k) /\ [f(Quiet(k)) EXCEPT ![c] = Skips(k)] = f(Skips(k))
    BY <1>d
  <2>3. [f(Quiet(k))[c] EXCEPT !.skip = TRUE] = Skips(k)
    BY <1>c, <2>2
  <2>4. after(Skips(k)) = [mgr EXCEPT !.rs = q, !.ctx = f(Skips(k))]
    BY <1>b
  <2> HIDE DEF m, q, f, after
  <2> QED BY <2>1, <2>2, <2>3, <2>4
<1>5. m.st = mgr.st
  BY <1>1 DEF CompileAt, Manager
<1> DEFINE out == [m EXCEPT !.ctx[c].pmsg = FALSE]
           skips == [m EXCEPT !.ctx[c].skip = TRUE]
<1>6. Heard(c, r) =
        CASE r = "continue" -> IF k.state = "end-of-message" THEN NextChild(m, c)
                               ELSE Proceed(m, c, k.state)
          [] r = "skip" -> IF m.st # "end-of-message" THEN Say(skips, "continue")
                           ELSE Proceed(skips, c, "body")
          [] r = "accept" -> NextChild(out, c)
          [] OTHER -> AbortAll(EmitOnce(out, k.state))
  BY DEF Heard
<1> HIDE DEF m, out, skips, after
<1>7. m = after(Quiet(k)) /\ out = after(Out(k)) /\ skips = after(Skips(k))
  BY <1>2, <1>3, <1>4 DEF out, skips
<1> QED BY <1>5, <1>6, <1>7 DEF Refusal, after

\* a without c in the queue
Dropped(a, c) == [a EXCEPT !.index = 0, !.waiting = @ \ {c}]

\* send_first_command_to_next_child
LEMMA NextChildFrame ==
    ASSUME NEW a \in Manager, NEW c \in Child
    PROVE  LET d == Dropped(a, c)
           IN  /\ d \in Manager /\ d.index = 0 /\ d.waiting = a.waiting \ {c}
               /\ d.st = a.st /\ d.cmds = a.cmds /\ d.headers = a.headers /\ d.body = a.body
               /\ d.rs = a.rs /\ d.ctx = a.ctx /\ d.packets = a.packets
               /\ d.emitted = a.emitted /\ d.sending = a.sending /\ d.offset = a.offset
               /\ d.pst = a.pst
               /\ d.waiting = {} => Emits(d, NextChild(a, c), d.st) 
               /\ d.waiting # {} => /\ NextChild(a, c) = Proceed(d, First(d.waiting), "data")
                                    /\ First(d.waiting) \in d.waiting
                                    /\ First(d.waiting) \in Child
<1> DEFINE w == a.waiting \ {c}
           d == Dropped(a, c)
<1>1. w \in SUBSET Child
  BY DEF Manager
<1>2. d = [a EXCEPT !.index = 0, !.waiting = w]
  BY DEF Dropped, Manager
<1>3. NextChild(a, c) = IF d.waiting = {} THEN EmitOnce(d, d.st)
                        ELSE Proceed(d, First(d.waiting), "data")
  BY DEF NextChild, Dropped
<1> HIDE DEF w, d
<1>4. /\ d \in Manager /\ d.index = 0 /\ d.waiting = w
      /\ d.st = a.st /\ d.cmds = a.cmds /\ d.headers = a.headers /\ d.body = a.body
      /\ d.rs = a.rs /\ d.ctx = a.ctx /\ d.packets = a.packets
      /\ d.emitted = a.emitted /\ d.sending = a.sending /\ d.offset = a.offset
      /\ d.pst = a.pst
  BY <1>1, <1>2 DEF Manager
<1>5. d.st \in Slot
  BY <1>4 DEF Manager
<1>6. d.waiting # {} => First(d.waiting) \in d.waiting /\ First(d.waiting) \in Child
  BY <1>1, <1>4, FirstOf
<1> QED BY <1>3, <1>4, <1>5, <1>6, EmitFrame DEF w, d

-----------------------------------------------------------------------------
(* The children take turns *)

\* The conditions of a turn: the MTA waits for the answer to its command.
Turn(a, cmd) ==
    /\ cmd \in MessageCommand /\ a.packets = <<>> /\ a.waiting # {}
    /\ a.st = cmd /\ cmd \in a.cmds

Alive(a) == \A c \in Child : a.ctx[c].attached = ~a.ctx[c].quitted

\* Only the first child of the queue works, in its turn.
InTurn(a, cmd) ==
    /\ Alive(a)
    /\ \A c \in Child :
          /\ Orderly(a.ctx[c])
          /\ a.ctx[c].attached /\ Working(a.ctx[c]) => Turn(a, cmd) /\ c = First(a.waiting)

TurnInv == TypeOK /\ InTurn(mgr, mta.cmd)

\* When nobody works, nobody works out of turn.
LEMMA RestingInTurn ==
    ASSUME NEW a, NEW cmd, Resting(a), Alive(a)
    PROVE  InTurn(a, cmd)
BY DEF Resting, Rests, InTurn, Orderly, Working

\* Once the MTA is answered, nobody works.
LEMMA AnsweredResting ==
    ASSUME NEW a, NEW cmd, InTurn(a, cmd), ~(cmd \in MessageCommand /\ a.packets = <<>>)
    PROVE  Resting(a)
BY DEF Resting, Rests, InTurn, Orderly, Turn

\* When c works, the others rest.
LEMMA OthersRest ==
    ASSUME NEW a, NEW cmd, InTurn(a, cmd), NEW c \in Child, a.ctx[c].attached,
           Working(a.ctx[c])
    PROVE  /\ Turn(a, cmd) /\ c = First(a.waiting)
           /\ \A d \in Child : d # c => Rests(a.ctx[d])
BY DEF Rests, InTurn, Orderly

\* The child whose turn it is may be given what follows.
LEMMA ProceedInTurn ==
    ASSUME NEW a \in Manager, NEW cmd, NEW s, Resting(a), Alive(a),
           Turn(a, cmd), First(a.waiting) \in Child
    PROVE  InTurn(Proceed(a, First(a.waiting), s), cmd)
<1> DEFINE c == First(a.waiting)
           b == Proceed(a, c, s)
<1>1. Rests(a.ctx[c]) /\ a.ctx[c].attached = ~a.ctx[c].quitted
  BY DEF Resting, Alive
<1>2. /\ Gives(a, b, c)
      /\ \/ b = a
         \/ Given(a, c, s) = {} /\ b.ctx[c] = NewCtx(a, c, s)
         \/ Given(a, c, s) # {} /\ b.packets = a.packets /\ b.ctx[c] = NewCtx(a, c, s)
  BY ProceedFrame
<1>3. LET w == NewCtx(a, c, s)
      IN  /\ w.attached = a.ctx[c].attached /\ w.quitted = a.ctx[c].quitted
          /\ Given(a, c, s) = {} => Rests(w)
          /\ Given(a, c, s) # {} => Orderly(w)
  BY <1>1, NewCtxFrame DEF Rests, Working
<1>4. \A d \in Child : d # c => b.ctx[d] = a.ctx[d]
  BY <1>2 DEF Gives
<1> HIDE DEF b
<1>5. Alive(b)
  BY <1>2, <1>3, <1>4 DEF Alive
<1>6. CASE b = a
  BY <1>6, RestingInTurn DEF b
<1>7. CASE Given(a, c, s) = {} /\ b.ctx[c] = NewCtx(a, c, s)
  <2>1. Resting(b)
    BY <1>3, <1>4, <1>7 DEF Resting
  <2> QED BY <1>5, <2>1, RestingInTurn DEF b
<1>8. CASE Given(a, c, s) # {} /\ b.packets = a.packets /\ b.ctx[c] = NewCtx(a, c, s)
  <2>1. Turn(b, cmd) /\ c = First(b.waiting)
    BY <1>2, <1>8 DEF Gives, SameMessage, Turn
  <2>2. ASSUME NEW d \in Child
        PROVE  /\ Orderly(b.ctx[d])
               /\ b.ctx[d].attached /\ Working(b.ctx[d]) => d = c
    <3>1. CASE d = c
      BY <1>3, <1>8, <3>1
    <3>2. CASE d # c
      BY <1>4, <3>2 DEF Resting, Rests, Orderly, Working
    <3> QED BY <3>1, <3>2
  <2> QED BY <1>5, <2>1, <2>2 DEF InTurn, b
<1> QED BY <1>2, <1>6, <1>7, <1>8

\* The next child may be started.
LEMMA NextChildInTurn ==
    ASSUME NEW a \in Manager, NEW cmd, NEW c \in Child, Resting(a), Alive(a), Turn(a, cmd)
    PROVE  NextChild(a, c) \in Manager /\ InTurn(NextChild(a, c), cmd)
<1> DEFINE d == Dropped(a, c)
<1>1. /\ d \in Manager /\ d.ctx = a.ctx /\ d.packets = a.packets /\ d.st = a.st
      /\ d.cmds = a.cmds
      /\ d.waiting = {} => Emits(d, NextChild(a, c), d.st) 
      /\ d.waiting # {} => /\ NextChild(a, c) = Proceed(d, First(d.waiting), "data")
                           /\ First(d.waiting) \in Child
  BY NextChildFrame
<1> HIDE DEF d
<1>2. Resting(d) /\ Alive(d)
  BY <1>1 DEF Resting, Alive
<1>3. CASE d.waiting = {}
  <2>1. NextChild(a, c).ctx = d.ctx /\ NextChild(a, c) \in Manager
    BY <1>1, <1>3 DEF Emits, SameWork
  <2>2. Resting(NextChild(a, c)) /\ Alive(NextChild(a, c))
    BY <1>2, <2>1 DEF Resting, Alive
  <2> QED BY <2>1, <2>2, RestingInTurn
<1>4. CASE d.waiting # {}
  <2>1. Turn(d, cmd)
    BY <1>1, <1>4 DEF Turn
  <2>2. InTurn(Proceed(d, First(d.waiting), "data"), cmd)
    BY <1>1, <1>2, <1>4, <2>1, ProceedInTurn
  <2>3. Proceed(d, First(d.waiting), "data") \in Manager
    BY <1>1, <1>4, ProceedFrame DEF Gives
  <2> QED BY <1>1, <1>4, <2>2, <2>3
<1> QED BY <1>3, <1>4

\* What TypeOK says of the other variables
MtaType == [cmd : {"data", "abort"} \cup MessageCommand, headers : Nat, chunks : Nat,
            edits : Nat, messages : Nat]

\* The MTA's next command keeps the type of the MTA.
LEMMA SentType ==
    ASSUME mta \in MtaType, NEW x \in MessageCommand, Sent(x)
    PROVE  /\ mta' \in MtaType /\ mta'.cmd = x /\ mta'.messages = mta.messages
           /\ mta'.edits = mta.edits
<1> DEFINE h == IF x = "header" THEN mta.headers + 1 ELSE mta.headers
           n == IF x = "body" THEN mta.chunks + 1 ELSE mta.chunks
<1>1. h \in Nat /\ n \in Nat
  BY DEF MtaType
<1>2. mta' = [mta EXCEPT !.cmd = x, !.headers = h, !.chunks = n]
  BY DEF Sent, MtaType
<1> HIDE DEF h, n
<1> QED BY <1>1, <1>2 DEF MtaType

\* For the first command the handler fills the queue.
LEMMA TakenQueue ==
    ASSUME NEW a \in Manager, NEW x \in MessageCommand
    PROVE  LET b == Taken(Asked(a), x)
           IN  /\ a.waiting # {} => b.waiting = a.waiting
               /\ a.waiting = {} =>
                      \A c \in Child : c \in b.waiting <=> Processing(a.ctx[c])
<1> DEFINE q == Asked(a)
           b == Taken(q, x)
           w == IF q.waiting # {} THEN q.waiting ELSE {c \in Child : Processing(q.ctx[c])}
<1>1. q \in Manager /\ q.ctx = a.ctx /\ q.waiting = a.waiting
  <2>1. <<>> \in Seq(Verdict)
    OBVIOUS
  <2> QED BY <2>1 DEF Asked, Manager
<1> HIDE DEF q
<1>2. b.waiting = w
  BY <1>1 DEF Taken, Manager
<1> HIDE DEF b
<1> QED BY <1>1, <1>2 DEF b, q

\* What the handler counts.
LEMMA TakenCounts ==
    ASSUME NEW a \in Manager, NEW x \in MessageCommand
    PROVE  LET b == Taken(Asked(a), x)
           IN  /\ b.headers = IF x = "header" THEN a.headers + 1 ELSE a.headers
               /\ b.index = IF x = "header" THEN a.index + 1
                            ELSE IF x = "end-of-message" THEN 0 ELSE a.index
               /\ b.body = IF x = "body" THEN a.body + 1 ELSE a.body
               /\ b.sending = IF x = "body" THEN FALSE ELSE a.sending
<1> DEFINE q == Asked(a)
           b == Taken(q, x)
<1>1. /\ q \in Manager /\ q.headers = a.headers /\ q.index = a.index /\ q.body = a.body
      /\ q.sending = a.sending
  <2>1. <<>> \in Seq(Verdict)
    OBVIOUS
  <2> QED BY <2>1 DEF Asked, Manager
<1> HIDE DEF q
<1>2. b.headers = IF x = "header" THEN q.headers + 1 ELSE q.headers
  BY <1>1 DEF Taken, Manager
<1>3. b.index = IF x = "header" THEN q.index + 1
                ELSE IF x = "end-of-message" THEN 0 ELSE q.index
  BY <1>1 DEF Taken, Manager
<1>4. b.body = IF x = "body" THEN q.body + 1 ELSE q.body
  BY <1>1 DEF Taken, Manager
<1>5. b.sending = IF x = "body" THEN FALSE ELSE q.sending
  BY <1>1 DEF Taken, Manager
<1> QED BY <1>1, <1>2, <1>3, <1>4, <1>5 DEF q

\* The handler of a command stores it.
LEMMA TakenFrame ==
    ASSUME NEW a \in Manager, NEW x \in MessageCommand
    PROVE  LET b == Taken(Asked(a), x)
           IN  /\ b \in Manager /\ b.packets = <<>> /\ b.replied = FALSE
               /\ b.st = x /\ b.pst = x /\ b.cmds = a.cmds \cup {x} /\ b.rs = a.rs
               /\ b.ctx = a.ctx /\ b.emitted = a.emitted /\ b.offset = a.offset
               /\ b.headers = IF x = "header" THEN a.headers + 1 ELSE a.headers
               /\ b.index = IF x = "header" THEN a.index + 1
                            ELSE IF x = "end-of-message" THEN 0 ELSE a.index
               /\ b.body = IF x = "body" THEN a.body + 1 ELSE a.body
               /\ b.sending = IF x = "body" THEN FALSE ELSE a.sending
<1> DEFINE q == Asked(a)
           w == IF a.waiting # {} THEN a.waiting ELSE {c \in Child : Processing(a.ctx[c])}
           h == IF x = "header" THEN a.headers + 1 ELSE a.headers
           i == IF x = "header" THEN a.index + 1
                ELSE IF x = "end-of-message" THEN 0 ELSE a.index
           o == IF x = "body" THEN a.body + 1 ELSE a.body
           s == IF x = "body" THEN FALSE ELSE a.sending
           r == IF x = "body" THEN FALSE ELSE a.replaced
           e == a.cmds \cup {x}
           b == Taken(q, x)
<1>1. <<>> \in Seq(Verdict)
  OBVIOUS
<1>2. /\ q \in Manager /\ q.packets = <<>> /\ q.replied = FALSE /\ q.st = a.st
      /\ q.pst = a.pst /\ q.cmds = a.cmds /\ q.rs = a.rs /\ q.ctx = a.ctx
      /\ q.emitted = a.emitted /\ q.offset = a.offset /\ q.waiting = a.waiting
      /\ q.headers = a.headers /\ q.index = a.index /\ q.body = a.body
      /\ q.sending = a.sending /\ q.replaced = a.replaced
  BY <1>1 DEF Asked, Manager
<1>3. /\ w \in SUBSET Child /\ h \in Nat /\ i \in Nat /\ o \in Nat /\ s \in BOOLEAN
      /\ r \in BOOLEAN /\ e \in SUBSET MessageCommand /\ x \in Slot
  <2>1. /\ a.waiting \in SUBSET Child /\ a.headers \in Nat /\ a.index \in Nat
        /\ a.body \in Nat /\ a.sending \in BOOLEAN /\ a.replaced \in BOOLEAN
        /\ a.cmds \in SUBSET MessageCommand
    BY DEF Manager
  <2>2. w \in SUBSET Child /\ e \in SUBSET MessageCommand /\ x \in Slot
    BY <2>1 DEF Slot
  <2>3. h \in Nat /\ o \in Nat
    BY <2>1
  <2>4. i \in Nat
    BY <2>1
  <2>5. s \in BOOLEAN
    BY <2>1
  <2>6. r \in BOOLEAN
    BY <2>1
  <2> QED BY <2>2, <2>3, <2>4, <2>5, <2>6
<1> HIDE DEF q
<1>4. b = [q EXCEPT !.st = x, !.pst = x, !.cmds = e, !.waiting = w, !.headers = h,
                    !.index = i, !.body = o, !.replaced = r, !.sending = s]
  <2>1. i = CASE x = "header" -> a.index + 1 [] x = "end-of-message" -> 0 [] OTHER -> a.index
    OBVIOUS
  <2> DEFINE w1 == IF q.waiting # {} THEN q.waiting
                   ELSE {c \in Child : Processing(q.ctx[c])}
             h1 == IF x = "header" THEN q.headers + 1 ELSE q.headers
             i1 == CASE x = "header" -> q.index + 1 [] x = "end-of-message" -> 0
                     [] OTHER -> q.index
             o1 == IF x = "body" THEN q.body + 1 ELSE q.body
             r1 == IF x = "body" THEN FALSE ELSE q.replaced
             s1 == IF x = "body" THEN FALSE ELSE q.sending
  <2>2. b = [q EXCEPT !.st = x, !.pst = x, !.cmds = q.cmds \cup {x}, !.waiting = w1,
                      !.headers = h1, !.index = i1, !.body = o1, !.replaced = r1,
                      !.sending = s1]
    BY Zenon DEF Taken
  <2>3. q.cmds \cup {x} = e /\ w1 = w /\ h1 = h /\ o1 = o /\ r1 = r /\ s1 = s
    BY <1>2
  <2>4. i1 = i
    BY <1>2, <2>1
  <2> HIDE DEF w, h, i, o, s, r, e, b, w1, h1, i1, o1, r1, s1
  <2> QED BY <2>2, <2>3, <2>4
<1> HIDE DEF w, h, i, o, s, r, e, b
<1>5. /\ b \in Manager /\ b.packets = q.packets /\ b.replied = q.replied
      /\ b.st = x /\ b.pst = x /\ b.cmds = e /\ b.rs = q.rs
      /\ b.ctx = q.ctx /\ b.emitted = q.emitted /\ b.offset = q.offset
      /\ b.waiting = w /\ b.headers = h /\ b.index = i /\ b.body = o /\ b.sending = s
  BY <1>2, <1>3, <1>4 DEF Manager
<1> QED BY <1>2, <1>5 DEF w, h, i, o, s, e, b, q

\* A context at the begin of a message
LEMMA BeginFrame ==
    ASSUME NEW k \in Context, NEW J, NEW c
    PROVE  LET h == [ResetMessage(k) EXCEPT !.hdrs = 0, !.chunks = 0]
               n == IF c \in J THEN [h EXCEPT !.pmsg = TRUE, !.state = "data"] ELSE h
           IN  /\ n \in Context /\ (n.pmsg <=> c \in J)
               /\ n.next = k.next /\ n.owes = k.owes
               /\ n.timer = k.timer /\ n.quitted = k.quitted /\ n.attached = k.attached
               /\ n.hdrs = 0 /\ n.chunks = 0 /\ ~n.skip
<1>1. CASE c \in J
  BY <1>1 DEF Context, ResetMessage, Slot
<1>2. CASE c \notin J
  BY <1>2 DEF Context, ResetMessage
<1> QED BY <1>1, <1>2

\* A message is begun when nobody works.
LEMMA NewMessageFrame ==
    ASSUME mgr \in Manager, NewMessage
    PROVE  /\ mgr' \in Manager /\ mgr'.packets = <<>>
           /\ Resting(mgr) => Resting(mgr')
           /\ Alive(mgr) => Alive(mgr')
           /\ mgr'.waiting = mgr.waiting /\ mgr'.cmds = mgr.cmds /\ mgr'.body = mgr.body
           /\ mgr'.headers = mgr.headers /\ mgr'.index = mgr.index
           /\ mgr'.offset = mgr.offset /\ mgr'.sending = mgr.sending
           /\ \A s \in Slot : mgr'.rs[s] = IF s = "data" THEN "continue" ELSE mgr.rs[s]
           /\ joined' \subseteq Child
           /\ \A c \in Child :
                 /\ ~mgr.ctx[c].quitted => (mgr'.ctx[c].pmsg <=> c \in joined')
                 /\ c \in joined' => ~mgr.ctx[c].quitted
                 /\ mgr'.ctx[c].next = mgr.ctx[c].next /\ mgr'.ctx[c].owes = mgr.ctx[c].owes
                 /\ mgr'.ctx[c].quitted = mgr.ctx[c].quitted
                 /\ mgr.ctx[c].attached => mgr'.ctx[c].next = <<>>
                 /\ ~mgr.ctx[c].quitted => /\ mgr'.ctx[c].hdrs = 0 /\ mgr'.ctx[c].chunks = 0
                                           /\ ~mgr'.ctx[c].skip
<1>1. PICK J \in SUBSET {c \in Child : ~mgr.ctx[c].quitted} :
        /\ mgr' = [mgr EXCEPT
                !.st = "data", !.pst = "data", !.rs["data"] = "continue",
                !.replied = TRUE, !.packets = <<>>,
                !.ctx = [c \in Child |->
                    LET k == mgr.ctx[c]
                        new == [ResetMessage(k) EXCEPT !.hdrs = 0, !.chunks = 0]
                    IN IF k.quitted THEN k
                       ELSE IF c \in J THEN [new EXCEPT !.pmsg = TRUE, !.state = "data"]
                       ELSE new]]
        /\ joined' = J
  BY DEF NewMessage
<1> DEFINE new(c) == LET h == [ResetMessage(mgr.ctx[c]) EXCEPT !.hdrs = 0, !.chunks = 0]
                     IN  IF c \in J THEN [h EXCEPT !.pmsg = TRUE, !.state = "data"] ELSE h
           f == [c \in Child |-> IF mgr.ctx[c].quitted THEN mgr.ctx[c] ELSE new(c)]
           r == [mgr.rs EXCEPT !["data"] = "continue"]
<1>2. ASSUME NEW c \in Child
      PROVE  /\ mgr.ctx[c] \in Context
             /\ new(c) \in Context /\ (new(c).pmsg <=> c \in J)
             /\ new(c).next = mgr.ctx[c].next /\ new(c).owes = mgr.ctx[c].owes
             /\ new(c).timer = mgr.ctx[c].timer /\ new(c).quitted = mgr.ctx[c].quitted
             /\ new(c).attached = mgr.ctx[c].attached /\ new(c).hdrs = 0
             /\ new(c).chunks = 0 /\ ~new(c).skip
  <2>1. mgr.ctx[c] \in Context
    BY DEF Manager
  <2> QED BY <2>1, BeginFrame
<1>3. f \in [Child -> Context] /\ r \in [Slot -> Status]
  BY <1>2 DEF Manager, Status, Verdict
<1>4. \A c \in Child : f[c] = IF mgr.ctx[c].quitted THEN mgr.ctx[c] ELSE new(c)
  OBVIOUS
<1>5. \A s \in Slot : r[s] = IF s = "data" THEN "continue" ELSE mgr.rs[s]
  BY DEF Manager
<1>6. <<>> \in Seq(Verdict) /\ "data" \in Slot
  BY DEF Slot
<1>7. mgr' = [mgr EXCEPT !.st = "data", !.pst = "data", !.rs = r, !.replied = TRUE,
                         !.packets = <<>>, !.ctx = f]
  BY <1>1
<1> HIDE DEF f, r, new
<1>8. /\ mgr' \in Manager /\ mgr'.packets = <<>> /\ mgr'.ctx = f /\ mgr'.rs = r
      /\ mgr'.waiting = mgr.waiting /\ mgr'.cmds = mgr.cmds /\ mgr'.body = mgr.body
      /\ mgr'.headers = mgr.headers /\ mgr'.index = mgr.index
      /\ mgr'.offset = mgr.offset /\ mgr'.sending = mgr.sending
  BY <1>3, <1>6, <1>7 DEF Manager
<1>9. \A c \in Child : mgr.ctx[c].attached => mgr.ctx[c].next = <<>>
  BY DEF NewMessage
<1>10. (Alive(mgr) => Alive(mgr')) /\ (Resting(mgr) => Resting(mgr'))
  BY <1>2, <1>4, <1>8 DEF Alive, Resting, Rests, Working
<1>11. ASSUME NEW c \in Child
       PROVE  /\ ~mgr.ctx[c].quitted => (mgr'.ctx[c].pmsg <=> c \in joined')
              /\ c \in joined' => ~mgr.ctx[c].quitted
              /\ mgr'.ctx[c].next = mgr.ctx[c].next /\ mgr'.ctx[c].owes = mgr.ctx[c].owes
              /\ mgr'.ctx[c].quitted = mgr.ctx[c].quitted
              /\ mgr.ctx[c].attached => mgr'.ctx[c].next = <<>>
              /\ ~mgr.ctx[c].quitted => /\ mgr'.ctx[c].hdrs = 0 /\ mgr'.ctx[c].chunks = 0
                                        /\ ~mgr'.ctx[c].skip
  <2>1. mgr'.ctx[c] = IF mgr.ctx[c].quitted THEN mgr.ctx[c] ELSE new(c)
    BY <1>4, <1>8
  <2>2. joined' = J /\ (c \in J => ~mgr.ctx[c].quitted)
    BY <1>1
  <2>3. mgr.ctx[c].attached => mgr.ctx[c].next = <<>>
    BY <1>9
  <2> QED BY <1>2, <2>1, <2>2, <2>3
<1>12. joined' \subseteq Child
  BY <1>1
<1> QED BY <1>5, <1>8, <1>10, <1>11, <1>12

\* Only the context of c changes.
LEMMA CtxFrame ==
    ASSUME NEW a \in Manager, NEW c \in Child, NEW k \in Context
    PROVE  LET b == [a EXCEPT !.ctx[c] = k]
           IN  /\ b \in Manager /\ SameMessage(a, b) /\ b.packets = a.packets
               /\ b.st = a.st /\ b.index = a.index /\ b.sending = a.sending
               /\ b.offset = a.offset /\ b.emitted = a.emitted /\ b.rs = a.rs
               /\ b.replaced = a.replaced /\ b.pst = a.pst
               /\ b.ctx[c] = k /\ \A d \in Child : d # c => b.ctx[d] = a.ctx[d]
<1> DEFINE f == [a.ctx EXCEPT ![c] = k]
           b == [a EXCEPT !.ctx = f]
<1>1. f \in [Child -> Context] /\ f[c] = k /\ \A d \in Child : d # c => f[d] = a.ctx[d]
  BY DEF Manager
<1>2. [a EXCEPT !.ctx[c] = k] = b
  OBVIOUS
<1> HIDE DEF f
<1>3. /\ b \in Manager /\ SameMessage(a, b) /\ b.packets = a.packets
      /\ b.st = a.st /\ b.index = a.index /\ b.sending = a.sending
      /\ b.offset = a.offset /\ b.emitted = a.emitted /\ b.rs = a.rs /\ b.ctx = f
      /\ b.replaced = a.replaced /\ b.pst = a.pst
  BY <1>1 DEF Manager, SameMessage
<1> HIDE DEF b
<1> QED BY <1>1, <1>2, <1>3

\* The ways a command x is taken by the first child of the queue: it passes, and
\* the MTA is told to continue; it is written; or the manager's fallback is told.
Passes(m, b, c, x) ==
    /\ Tells(m, b, "continue") /\ b.ctx[c].next = m.ctx[c].next
    /\ b.ctx[c].timer = m.ctx[c].timer /\ b.ctx[c].hdrs = m.ctx[c].hdrs
    /\ b.ctx[c].chunks = m.ctx[c].chunks
    /\ x \in NoStep[c] \cup (IF m.ctx[c].skip THEN {"body"} ELSE {})
Writes(m, b, c, x) ==
    /\ b.packets = m.packets /\ b.ctx[c] = Write(m.ctx[c], x) /\ m.ctx[c].timer = "none"
    /\ x \notin NoStep[c] \cup (IF m.ctx[c].skip THEN {"body"} ELSE {})
Declines(m, b, c, x) ==
    /\ b.packets = Append(m.packets, ManagerFallback) /\ b.ctx[c] = m.ctx[c]
    /\ (x = "header" /\ m.index > m.headers) \/ m.ctx[c].timer # "none" \/ ~m.ctx[c].attached

\* milter_manager_children_header, _end_of_header, _body, _end_of_message
LEMMA SendFrame ==
    ASSUME mgr \in Manager, NEW x \in MessageCommand, SendCommand(x)
    PROVE  LET m == Taken(Asked(mgr), x)
               c == First(m.waiting)
           IN  /\ c \in m.waiting /\ c \in Child /\ Gives(m, mgr', c)
               /\ mgr'.index = m.index /\ mgr'.sending = m.sending /\ mgr'.offset = m.offset
               /\ mgr'.ctx[c].attached = m.ctx[c].attached
               /\ mgr'.ctx[c].quitted = m.ctx[c].quitted
               /\ mgr'.ctx[c].pmsg = m.ctx[c].pmsg /\ mgr'.ctx[c].skip = m.ctx[c].skip
               /\ mgr'.ctx[c].owes = m.ctx[c].owes
               /\ \/ Passes(m, mgr', c, x) \/ Writes(m, mgr', c, x)
                  \/ Declines(m, mgr', c, x)
<1> DEFINE m == Taken(Asked(mgr), x)
           c == First(m.waiting)
           k == m.ctx[c]
           missing == x = "header" /\ m.index > m.headers
           passes == x \in NoStep[c] \cup (IF k.skip THEN {"body"} ELSE {})
           st == IF x = "body" /\ ~k.skip THEN "skip" ELSE "continue"
           quiet == CompileAt([m EXCEPT !.ctx[c].state = x], x, st)
<1>1. /\ m \in Manager /\ m.ctx = mgr.ctx
      /\ mgr.waiting # {} => m.waiting = mgr.waiting
      /\ mgr.waiting = {} => \A d \in Child : d \in m.waiting <=> Processing(mgr.ctx[d])
  <2>1. m \in Manager
    BY TakenFrame
  <2>2. m.ctx = mgr.ctx
    BY TakenFrame
  <2>3. /\ mgr.waiting # {} => m.waiting = mgr.waiting
        /\ mgr.waiting = {} => \A d \in Child : d \in m.waiting <=> Processing(mgr.ctx[d])
    BY TakenQueue
  <2> QED BY <2>1, <2>2, <2>3
<1>2. \E d \in Child : Processing(mgr.ctx[d])
  BY DEF SendCommand
<1>3. m.waiting \in SUBSET Child /\ m.waiting # {}
  BY <1>1, <1>2 DEF Manager
<1>4. c \in m.waiting /\ c \in Child
  BY <1>3, FirstOf
<1>5. \/ passes /\ mgr' = IF k.attached THEN Say(quiet, "continue") ELSE m
      \/ ~passes /\ k.timer = "none" /\ mgr' = [m EXCEPT !.ctx[c] = Write(k, x)]
      \/ (missing \/ k.timer # "none" \/ ~k.attached) /\ mgr' = Return(m, ManagerFallback)
  BY DEF SendCommand
<1>6. k \in Context /\ x \in Slot
  BY <1>1, <1>4 DEF Manager, Slot
<1>7. Gives(m, m, c)
  BY <1>1 DEF Gives, SameMessage
<1>8. CASE passes /\ mgr' = IF k.attached THEN Say(quiet, "continue") ELSE m
  <2>1. CASE ~k.attached
    <3>1. mgr' = m
      BY <1>8, <2>1
    <3> QED BY <1>4, <1>7, <1>8, <3>1 DEF Passes, Tells
  <2>2. CASE k.attached
    <3> DEFINE h == [k EXCEPT !.state = x]
               b == With(m, c, h, x, st)
    <3>1. /\ h \in Context /\ h.attached = k.attached /\ h.quitted = k.quitted
          /\ h.pmsg = k.pmsg /\ h.skip = k.skip /\ h.owes = k.owes /\ h.next = k.next
          /\ h.timer = k.timer /\ h.hdrs = k.hdrs /\ h.chunks = k.chunks
      BY <1>6 DEF Context
    <3>2. st \in Status \ Refusal
      BY DEF Status, Verdict, Refusal
    <3>3. quiet = b
      <4>1. [m EXCEPT !.ctx[c].state = x] = [m EXCEPT !.ctx = [m.ctx EXCEPT ![c] = h]]
        OBVIOUS
      <4>2. [m EXCEPT !.ctx[c].state = x].rs = m.rs
        BY <1>1 DEF Manager
      <4> QED BY <1>1, <4>1, <4>2 DEF CompileAt, With, Manager
    <3> HIDE DEF h, st, quiet, m, c
    <3>4. /\ b \in Manager /\ SameMessage(m, b) /\ b.packets = m.packets
          /\ b.st = m.st /\ b.index = m.index /\ b.sending = m.sending
          /\ b.offset = m.offset /\ b.emitted = m.emitted /\ b.pst = m.pst
          /\ b.ctx[c] = h /\ \A d \in Child : d # c => b.ctx[d] = m.ctx[d]
          /\ b.rs[x] = Compile(m.rs[x], st)
          /\ \A y \in Slot : y # x => b.rs[y] = m.rs[y]
      BY <1>1, <1>4, <1>6, <3>1, <3>2, WithFrame
    <3> HIDE DEF b
    <3>5. /\ mgr' \in Manager /\ SameWork(b, mgr') /\ SameMessage(b, mgr')
          /\ mgr'.emitted = b.emitted /\ Tells(b, mgr', "continue")
      <4>1. mgr' = Say(b, "continue") /\ "continue" \in Status
        BY <1>8, <2>2, <3>3 DEF Status, Verdict
      <4> QED BY <3>4, <4>1, SayFrame
    <3>6. \A y \in Slot : b.rs[y] = m.rs[y] \/ b.rs[y] \notin Refusal
      <4>1. m.rs[x] \in Status
        BY <1>1, <1>6 DEF Manager
      <4> QED BY <3>2, <3>4, <4>1, CompileKeeps
    <3>7. Gives(m, mgr', c) /\ mgr'.index = m.index /\ mgr'.sending = m.sending
          /\ mgr'.offset = m.offset
      BY <3>4, <3>5, <3>6 DEF Gives, SameWork, SameMessage
    <3>8. mgr'.ctx[c] = h
      BY <3>4, <3>5 DEF SameWork
    <3>9. Passes(m, mgr', c, x)
      BY <1>8, <3>1, <3>4, <3>5, <3>8 DEF Passes, Tells
    <3> QED BY <1>4, <3>1, <3>7, <3>8, <3>9 DEF m, c
  <2> QED BY <2>1, <2>2
<1>9. CASE ~passes /\ k.timer = "none" /\ mgr' = [m EXCEPT !.ctx[c] = Write(k, x)]
  <2>1. LET w == Write(k, x)
        IN  /\ w \in Context /\ w.attached = k.attached /\ w.quitted = k.quitted
            /\ w.pmsg = k.pmsg /\ w.skip = k.skip /\ w.owes = k.owes
    BY <1>6, WriteWorks
  <2> DEFINE w == Write(k, x)
  <2> HIDE DEF m, c, w
  <2>2. /\ mgr' \in Manager /\ SameMessage(m, mgr') /\ mgr'.packets = m.packets
        /\ mgr'.st = m.st /\ mgr'.index = m.index /\ mgr'.sending = m.sending
        /\ mgr'.offset = m.offset /\ mgr'.emitted = m.emitted /\ mgr'.rs = m.rs
        /\ mgr'.pst = m.pst
        /\ mgr'.ctx[c] = w /\ \A d \in Child : d # c => mgr'.ctx[d] = m.ctx[d]
    BY <1>1, <1>4, <1>9, <2>1, CtxFrame DEF w
  <2>3. Writes(m, mgr', c, x)
    BY <1>9, <2>2 DEF Writes, w
  <2> QED BY <1>4, <2>1, <2>2, <2>3 DEF Gives, m, c, w
<1>10. CASE (missing \/ k.timer # "none" \/ ~k.attached) /\ mgr' = Return(m, ManagerFallback)
  <2> DEFINE p == Append(m.packets, ManagerFallback)
  <2>1. ManagerFallback \in Verdict /\ ManagerFallback # "progress"
    BY ConfigAssumption DEF Refusal, Verdict
  <2>2. p \in Seq(Verdict)
    BY <1>1, <2>1, FirstPacket DEF Manager
  <2>3. mgr' = [m EXCEPT !.packets = p]
    BY <1>10, <2>1 DEF Return
  <2> HIDE DEF m, c, p
  <2>4. /\ mgr' \in Manager /\ SameMessage(m, mgr') /\ mgr'.packets = p
        /\ mgr'.st = m.st /\ mgr'.index = m.index /\ mgr'.sending = m.sending
        /\ mgr'.offset = m.offset /\ mgr'.emitted = m.emitted /\ mgr'.rs = m.rs
        /\ mgr'.pst = m.pst
        /\ mgr'.ctx = m.ctx
    BY <1>1, <2>2, <2>3 DEF Manager, SameMessage
  <2>5. Declines(m, mgr', c, x)
    BY <1>10, <2>4 DEF Declines, p
  <2> QED BY <1>4, <2>4, <2>5 DEF Gives, m, c
<1> QED BY <1>5, <1>8, <1>9, <1>10

\* A command of the MTA comes when nobody works, and starts at most one child.
LEMMA SendInTurn ==
    ASSUME mgr \in Manager, mta \in MtaType, InTurn(mgr, mta.cmd), NEW x \in MessageCommand,
           SendCommand(x)
    PROVE  mgr' \in Manager /\ InTurn(mgr', x)
<1> DEFINE m == Taken(Asked(mgr), x)
           c == First(m.waiting)
<1>1. /\ c \in m.waiting /\ c \in Child /\ Gives(m, mgr', c)
      /\ mgr'.ctx[c].attached = m.ctx[c].attached /\ mgr'.ctx[c].quitted = m.ctx[c].quitted
      /\ mgr'.ctx[c].owes = m.ctx[c].owes
      /\ Passes(m, mgr', c, x) \/ Writes(m, mgr', c, x) \/ Declines(m, mgr', c, x)
  BY SendFrame
<1>2. m \in Manager /\ m.ctx = mgr.ctx /\ m.packets = <<>> /\ m.st = x /\ x \in m.cmds
  <2>1. m \in Manager /\ m.ctx = mgr.ctx
    BY TakenFrame
  <2>2. m.packets = <<>>
    BY TakenFrame
  <2>3. m.st = x
    BY TakenFrame
  <2>4. m.cmds = mgr.cmds \cup {x}
    BY TakenFrame
  <2> QED BY <2>1, <2>2, <2>3, <2>4
<1>3. Resting(mgr)
  <2>1. InMessage
    BY DEF SendCommand, MaySend
  <2>2. ~(mta.cmd \in MessageCommand /\ mgr.packets = <<>>)
    BY <2>1 DEF InMessage, MessageCommand
  <2> QED BY <2>2, AnsweredResting
<1> HIDE DEF m, c
<1>4. Resting(m) /\ Alive(m)
  BY <1>2, <1>3 DEF Resting, Alive, InTurn
<1>5. \A d \in Child : d # c => mgr'.ctx[d] = m.ctx[d]
  BY <1>1 DEF Gives
<1>6. mgr' \in Manager /\ Alive(mgr')
  BY <1>1, <1>4, <1>5 DEF Gives, Alive
<1>7. CASE Passes(m, mgr', c, x) \/ Declines(m, mgr', c, x)
  <2>1. Rests(mgr'.ctx[c])
    <3>1. Rests(m.ctx[c])
      BY <1>1, <1>4 DEF Resting
    <3>2. CASE Passes(m, mgr', c, x)
      BY <1>1, <3>1, <3>2 DEF Passes, Rests, Working
    <3>3. CASE Declines(m, mgr', c, x)
      BY <3>1, <3>3 DEF Declines
    <3> QED BY <1>7, <3>2, <3>3
  <2>2. Resting(mgr')
    BY <1>4, <1>5, <2>1 DEF Resting
  <2> QED BY <1>6, <2>2, RestingInTurn
<1>8. CASE Writes(m, mgr', c, x)
  <2>1. m.ctx[c] \in Context /\ Rests(m.ctx[c])
    BY <1>1, <1>2, <1>4 DEF Manager, Resting
  <2>2. Orderly(mgr'.ctx[c])
    BY <1>8, <2>1, WriteWorks DEF Writes
  <2>3. Turn(mgr', x) /\ c = First(mgr'.waiting)
    BY <1>1, <1>2, <1>8 DEF Gives, SameMessage, Writes, Turn, c
  <2>4. \A d \in Child : d # c => Orderly(mgr'.ctx[d])
                                  /\ ~(mgr'.ctx[d].attached /\ Working(mgr'.ctx[d]))
    BY <1>4, <1>5 DEF Resting, Rests, Orderly, Working
  <2> QED BY <1>6, <2>2, <2>3, <2>4 DEF InTurn
<1> QED BY <1>1, <1>7, <1>8

\* The other steps of the MTA come when nobody works and start nobody.
LEMMA RefuseFrame ==
    ASSUME mgr \in Manager, NEW x \in MessageCommand, RefuseCommand(x)
    PROVE  /\ mgr' \in Manager /\ SameWork(mgr, mgr') /\ SameMessage(mgr, mgr')
           /\ mgr'.packets = <<ManagerFallback, ManagerFallback>>
<1> DEFINE p == <<ManagerFallback, ManagerFallback>>
<1>1. p \in Seq(Verdict)
  BY ConfigAssumption DEF Refusal, Verdict
<1>2. <<>> \in Seq(Verdict)
  OBVIOUS
<1>3. mgr' = [[mgr EXCEPT !.replied = FALSE, !.packets = <<>>]
                 EXCEPT !.replied = TRUE, !.packets = p]
  BY DEF RefuseCommand, Asked
<1> HIDE DEF p
<1>4. /\ mgr' \in Manager /\ SameWork(mgr, mgr') /\ SameMessage(mgr, mgr')
      /\ mgr'.packets = p
  BY <1>1, <1>2, <1>3 DEF Manager, SameWork, SameMessage
<1> QED BY <1>4 DEF p

\* milter_manager_leader_abort
LEMMA AbortFrame ==
    ASSUME mgr \in Manager, MtaAbort
    PROVE  /\ mgr' \in Manager /\ Disposed(mgr') /\ mgr'.packets = <<>> /\ mgr'.rs = mgr.rs
           /\ \A c \in Child : /\ mgr'.ctx[c].attached = mgr.ctx[c].attached
                               /\ mgr'.ctx[c].quitted = mgr.ctx[c].quitted
                               /\ ~mgr.ctx[c].quitted => ~mgr'.ctx[c].pmsg
           /\ Resting(mgr) => Resting(mgr')
<1> DEFINE a == [mgr EXCEPT !.replied = FALSE, !.packets = <<>>]
<1>1. <<>> \in Seq(Verdict)
  OBVIOUS
<1>2. a \in Manager /\ a.ctx = mgr.ctx /\ a.packets = <<>> /\ a.rs = mgr.rs
  BY <1>1 DEF Manager
<1>3. mgr' = AbortAll(a)
  BY DEF MtaAbort
<1> HIDE DEF a
<1>4. /\ mgr' \in Manager /\ Disposed(mgr') /\ mgr'.packets = a.packets /\ mgr'.rs = a.rs
      /\ \A c \in Child : /\ mgr'.ctx[c].attached = a.ctx[c].attached
                          /\ mgr'.ctx[c].quitted = a.ctx[c].quitted
                          /\ ~a.ctx[c].quitted => ~mgr'.ctx[c].pmsg
      /\ Resting(a) => Resting(mgr')
  BY <1>2, <1>3, AbortAllFrame
<1>5. Resting(mgr) => Resting(a)
  BY <1>2 DEF Resting
<1> QED BY <1>2, <1>4, <1>5

\* A flush starts no child: the packet was there before.
LEMMA FlushInTurn ==
    ASSUME mgr \in Manager, NEW cmd, InTurn(mgr, cmd), NEW c \in Child, Flush(c)
    PROVE  mgr' \in Manager /\ InTurn(mgr', cmd)
<1> DEFINE k == mgr.ctx[c]
           f == Flushed(k)
<1>1. k \in Context /\ k.next # <<>> /\ k.attached
  BY DEF Flush, Manager
<1>2. /\ f \in Context /\ Orderly(f) /\ f.attached = k.attached /\ f.quitted = k.quitted
      /\ Working(f) => Working(k)
  BY <1>1, FlushedWorks
<1>3. mgr' = [mgr EXCEPT !.ctx[c] = f]
  BY DEF Flush
<1> HIDE DEF f
<1>4. /\ mgr' \in Manager /\ SameMessage(mgr, mgr') /\ mgr'.packets = mgr.packets
      /\ mgr'.st = mgr.st
      /\ mgr'.ctx[c] = f /\ \A d \in Child : d # c => mgr'.ctx[d] = mgr.ctx[d]
  BY <1>2, <1>3, CtxFrame
<1>5. Turn(mgr, cmd) => Turn(mgr', cmd) /\ First(mgr'.waiting) = First(mgr.waiting)
  BY <1>4 DEF Turn, SameMessage
<1>6. Alive(mgr')
  BY <1>2, <1>4 DEF Alive, InTurn
<1>7. ASSUME NEW d \in Child
      PROVE  /\ Orderly(mgr'.ctx[d])
             /\ mgr'.ctx[d].attached /\ Working(mgr'.ctx[d]) =>
                    Turn(mgr', cmd) /\ d = First(mgr'.waiting)
  <2>1. CASE d = c
    BY <1>2, <1>4, <1>5, <2>1 DEF InTurn
  <2>2. CASE d # c
    BY <1>4, <1>5, <2>2 DEF InTurn
  <2> QED BY <2>1, <2>2
<1> QED BY <1>4, <1>6, <1>7 DEF InTurn

\* After the working child has answered or is gone, nobody works.
LEMMA WithRests ==
    ASSUME NEW a \in Manager, NEW cmd, InTurn(a, cmd), NEW c \in Child, a.ctx[c].attached,
           Working(a.ctx[c]), NEW k \in Context, Rests(k), k.attached = ~k.quitted,
           NEW s \in Slot, NEW st \in Status
    PROVE  LET b == With(a, c, k, s, st)
           IN  /\ b \in Manager /\ Resting(b) /\ Alive(b) /\ Turn(b, cmd)
               /\ First(b.waiting) = c /\ a.packets = <<>>
<1> DEFINE b == With(a, c, k, s, st)
<1>1. Turn(a, cmd) /\ c = First(a.waiting) /\ \A d \in Child : d # c => Rests(a.ctx[d])
  BY OthersRest
<1>2. /\ b \in Manager /\ SameMessage(a, b) /\ b.packets = a.packets /\ b.st = a.st
      /\ b.ctx[c] = k /\ \A d \in Child : d # c => b.ctx[d] = a.ctx[d]
  BY WithFrame
<1> HIDE DEF b
<1>3. Resting(b)
  BY <1>1, <1>2 DEF Resting
<1>4. Alive(b)
  BY <1>2 DEF Alive, InTurn
<1>5. Turn(b, cmd) /\ First(b.waiting) = c /\ a.packets = <<>>
  BY <1>1, <1>2 DEF Turn, SameMessage
<1> QED BY <1>2, <1>3, <1>4, <1>5 DEF b

\* Telling and aborting start nobody.
LEMMA EndRests ==
    ASSUME NEW a \in Manager, Resting(a), Alive(a), NEW b, NEW s \in Slot, Emits(a, b, s)
    PROVE  /\ b \in Manager /\ Resting(b) /\ Alive(b)
           /\ AbortAll(b) \in Manager /\ Resting(AbortAll(b)) /\ Alive(AbortAll(b))
<1>1. b \in Manager /\ b.ctx = a.ctx
  BY DEF Emits, SameWork
<1>2. Resting(b) /\ Alive(b)
  BY <1>1 DEF Resting, Alive
<1>3. /\ AbortAll(b) \in Manager
      /\ Resting(b) => Resting(AbortAll(b))
      /\ \A c \in Child : /\ AbortAll(b).ctx[c].attached = b.ctx[c].attached
                          /\ AbortAll(b).ctx[c].quitted = b.ctx[c].quitted
  BY <1>1, AbortAllFrame
<1> QED BY <1>1, <1>2, <1>3 DEF Alive

\* An answer ends the turn of a child, or gives it the next command.
LEMMA ReplyInTurn ==
    ASSUME TypeOK, NEW cmd, InTurn(mgr, cmd), NEW c \in Child, NEW r \in Verdict, Reply(c, r)
    PROVE  mgr' \in Manager /\ InTurn(mgr', cmd)
<1> DEFINE k == mgr.ctx[c]
           e == Effective(c, r)
           after(h) == With(mgr, c, h, k.state, e)
<1>1. /\ mgr \in Manager /\ k \in Context /\ k.attached /\ k.owes /\ Working(k)
      /\ k.state \in Slot /\ mgr' = Heard(c, r)
  BY DEF TypeOK, Manager, Context, Reply, Working
<1>2. k.next = <<>> /\ k.attached = ~k.quitted
  BY <1>1 DEF InTurn, Alive, Orderly
<1>3. e \in Status
  BY DEF Effective, Status, Verdict
<1>4. ASSUME NEW h \in {Quiet(k), Out(k), Skips(k)}
      PROVE  /\ after(h) \in Manager /\ Resting(after(h)) /\ Alive(after(h))
             /\ Turn(after(h), cmd) /\ First(after(h).waiting) = c
  <2>1. h \in Context /\ Rests(h) /\ h.attached = ~h.quitted
    BY <1>1, <1>2, AnsweredRests
  <2> QED BY <1>1, <1>3, <2>1, WithRests
<1>5. /\ r = "continue" /\ k.state = "end-of-message" => mgr' = NextChild(after(Quiet(k)), c)
      /\ r = "continue" /\ k.state # "end-of-message" => mgr' = Proceed(after(Quiet(k)), c, k.state)
      /\ r = "skip" /\ mgr.st # "end-of-message" => mgr' = Say(after(Skips(k)), "continue")
      /\ r = "skip" /\ mgr.st = "end-of-message" => mgr' = Proceed(after(Skips(k)), c, "body")
      /\ r = "accept" => mgr' = NextChild(after(Out(k)), c)
      /\ r \in Refusal => mgr' = AbortAll(EmitOnce(after(Out(k)), k.state))
  BY <1>1, HeardIs
<1> HIDE DEF after, e
<1>6. ASSUME NEW h \in {Quiet(k), Out(k), Skips(k)}
      PROVE  /\ NextChild(after(h), c) \in Manager /\ InTurn(NextChild(after(h), c), cmd)
             /\ \A s : /\ Proceed(after(h), c, s) \in Manager
                       /\ InTurn(Proceed(after(h), c, s), cmd)
  <2>1. /\ after(h) \in Manager /\ Resting(after(h)) /\ Alive(after(h))
        /\ Turn(after(h), cmd) /\ First(after(h).waiting) = c
    BY <1>4
  <2>2. NextChild(after(h), c) \in Manager /\ InTurn(NextChild(after(h), c), cmd)
    BY <2>1, NextChildInTurn
  <2>3. ASSUME NEW s
        PROVE  Proceed(after(h), c, s) \in Manager /\ InTurn(Proceed(after(h), c, s), cmd)
    <3>1. InTurn(Proceed(after(h), First(after(h).waiting), s), cmd)
      BY <2>1, ProceedInTurn
    <3>2. Proceed(after(h), c, s) \in Manager
      BY <2>1, ProceedFrame DEF Gives
    <3> QED BY <2>1, <3>1, <3>2
  <2> QED BY <2>2, <2>3
<1>7. CASE r = "continue"
  BY <1>2, <1>5, <1>6, <1>7
<1>8. CASE r = "skip" /\ mgr.st = "end-of-message"
  BY <1>5, <1>6, <1>8
<1>9. CASE r = "skip" /\ mgr.st # "end-of-message"
  <2> DEFINE a == after(Skips(k))
  <2>1. a \in Manager /\ Resting(a) /\ Alive(a)
    BY <1>4
  <2>2. "continue" \in Status
    BY DEF Status, Verdict
  <2> HIDE DEF a
  <2>3. mgr' \in Manager /\ mgr'.ctx = a.ctx
    BY <1>5, <1>9, <2>1, <2>2, SayFrame DEF SameWork, a
  <2>4. Resting(mgr') /\ Alive(mgr')
    BY <2>1, <2>3 DEF Resting, Alive
  <2> QED BY <2>3, <2>4, RestingInTurn
<1>10. CASE r = "accept"
  BY <1>5, <1>6, <1>10
<1>11. CASE r \in Refusal
  <2> DEFINE a == after(Out(k))
             b == EmitOnce(a, k.state)
  <2>1. a \in Manager /\ Resting(a) /\ Alive(a)
    BY <1>4
  <2> HIDE DEF a
  <2>2. Emits(a, b, k.state)
    BY <1>1, <2>1, EmitFrame
  <2> HIDE DEF b
  <2>3. AbortAll(b) \in Manager /\ Resting(AbortAll(b)) /\ Alive(AbortAll(b))
    BY <1>1, <2>1, <2>2, EndRests
  <2> QED BY <1>5, <1>11, <2>3, RestingInTurn DEF a, b
<1> QED BY <1>7, <1>8, <1>9, <1>10, <1>11 DEF Verdict, Refusal

\* What remove_child_from_queue makes of the slot of processing_state
Concluded(a) == IF a.rs[a.pst] \in Refusal THEN AbortAll(EmitSlot(a, a.pst))
                ELSE EmitSlot(a, a.pst)

\* A fallback status is a status.
LEMMA FallbackType == \A c \in Child : Fallback[c] \in Verdict /\ Fallback[c] \in Status
BY ConfigAssumption DEF Refusal, Verdict, Status

\* The timeouts and errors of a child, in terms of With.
LEMMA FailedIs ==
    ASSUME TypeOK, NEW c \in Child
    PROVE  LET k == mgr.ctx[c]
               gone == [mgr EXCEPT !.ctx[c] = Expired(@)]
               fell == With(mgr, c, Expired(k), k.state, Fallback[c])
           IN  /\ Failed(c) = Concluded(fell)
               /\ gone = [mgr EXCEPT !.ctx[c] = Expired(k)]
               /\ CompileAt(gone, k.state, Fallback[c]) = fell
               /\ fell.pst = mgr.pst
<1> DEFINE k == mgr.ctx[c]
           gone == [mgr EXCEPT !.ctx[c] = Expired(@)]
           f == [mgr.ctx EXCEPT ![c] = Expired(k)]
           fell == With(mgr, c, Expired(k), k.state, Fallback[c])
<1>1. mgr \in Manager /\ k \in Context /\ k.state \in Slot
  BY DEF TypeOK, Manager, Context
<1>2. gone = [mgr EXCEPT !.ctx = f] /\ gone = [mgr EXCEPT !.ctx[c] = Expired(k)]
  BY <1>1
<1>3. CompileAt(gone, k.state, Fallback[c]) = fell
  <2> DEFINE q == [mgr.rs EXCEPT ![k.state] = Compile(mgr.rs[k.state], Fallback[c])]
  <2>1. gone.rs = mgr.rs
    BY <1>1, <1>2 DEF Manager
  <2>2. CompileAt(gone, k.state, Fallback[c]) = [gone EXCEPT !.rs = q]
    BY <2>1 DEF CompileAt
  <2> HIDE DEF q, f
  <2> QED BY <1>1, <1>2, <2>2 DEF With, q, f, Manager
<1>4. Failed(c) = Concluded(CompileAt(gone, k.state, Fallback[c]))
  BY DEF Failed, Concluded
<1>5. fell.pst = mgr.pst
  BY <1>1 DEF With, Manager
<1> QED BY <1>2, <1>3, <1>4, <1>5

\* What an event may leave of the manager when nobody works any more.
LEMMA ConcludedRests ==
    ASSUME NEW a \in Manager, Resting(a), Alive(a)
    PROVE  Concluded(a) \in Manager /\ Resting(Concluded(a)) /\ Alive(Concluded(a))
<1>1. a.pst \in Slot
  BY DEF Manager
<1>2. Emits(a, EmitSlot(a, a.pst), a.pst)
  BY <1>1, EmitFrame
<1>3. LET b == EmitSlot(a, a.pst)
      IN  /\ b \in Manager /\ Resting(b) /\ Alive(b)
          /\ AbortAll(b) \in Manager /\ Resting(AbortAll(b)) /\ Alive(AbortAll(b))
  BY <1>1, <1>2, EndRests
<1> QED BY <1>3 DEF Concluded

\* A child that fails while it works ends the turn.
LEMMA FailInTurn ==
    ASSUME TypeOK, NEW cmd, InTurn(mgr, cmd), NEW c \in Child, mgr.ctx[c].attached,
           Working(mgr.ctx[c]), mgr' = Failed(c)
    PROVE  mgr' \in Manager /\ Resting(mgr') /\ Alive(mgr')
<1> DEFINE k == mgr.ctx[c]
           h == Expired(k)
           fell == With(mgr, c, h, k.state, Fallback[c])
<1>1. /\ mgr \in Manager /\ k \in Context /\ k.state \in Slot /\ Fallback[c] \in Status
  BY FallbackType DEF TypeOK, Manager, Context
<1>2. h \in Context /\ Rests(h) /\ h.attached = ~h.quitted
  BY <1>1, AnsweredRests DEF Context
<1>3. mgr' = Concluded(fell)
  BY FailedIs
<1> HIDE DEF h
<1>4. fell \in Manager /\ Resting(fell) /\ Alive(fell)
  BY <1>1, <1>2, WithRests
<1> QED BY <1>3, <1>4, ConcludedRests

\* A child that closes its connection in its turn makes room for the next one.
LEMMA FinishedInTurn ==
    ASSUME TypeOK, NEW cmd, InTurn(mgr, cmd), NEW c \in Child, ChildFinished(c)
    PROVE  mgr' \in Manager /\ InTurn(mgr', cmd)
<1> DEFINE k == mgr.ctx[c]
           h == Expired(k)
           gone == [mgr EXCEPT !.ctx[c] = h]
           fell == With(mgr, c, h, k.state, Fallback[c])
<1>1. /\ mgr \in Manager /\ k \in Context /\ k.state \in Slot /\ Fallback[c] \in Status
      /\ k.attached
  BY FallbackType DEF TypeOK, Manager, Context, ChildFinished
<1>2. /\ h \in Context /\ Rests(h) /\ h.attached = ~h.quitted /\ ~h.attached
  BY <1>1, AnsweredRests DEF Context
<1>3. mgr' = IF k.timer = "none" THEN gone
             ELSE IF mgr.pst \in MessageCommand
             THEN IF mgr.emitted THEN fell ELSE NextChild(fell, c)
             ELSE Concluded(fell)
  BY FailedIs DEF ChildFinished, Concluded
<1> HIDE DEF h
<1>4. CASE k.timer = "none"
  <2>1. /\ mgr' \in Manager /\ SameMessage(mgr, mgr') /\ mgr'.packets = mgr.packets
        /\ mgr'.st = mgr.st
        /\ mgr'.ctx[c] = h /\ \A d \in Child : d # c => mgr'.ctx[d] = mgr.ctx[d]
    BY <1>1, <1>2, <1>3, <1>4, CtxFrame
  <2>2. Turn(mgr, cmd) => Turn(mgr', cmd) /\ First(mgr'.waiting) = First(mgr.waiting)
    BY <2>1 DEF Turn, SameMessage
  <2>3. Alive(mgr')
    BY <1>2, <2>1 DEF Alive, InTurn
  <2>4. ASSUME NEW d \in Child
        PROVE  /\ Orderly(mgr'.ctx[d])
               /\ mgr'.ctx[d].attached /\ Working(mgr'.ctx[d]) =>
                      Turn(mgr', cmd) /\ d = First(mgr'.waiting)
    <3>1. CASE d = c
      BY <1>2, <2>1, <3>1 DEF Orderly
    <3>2. CASE d # c
      BY <2>1, <2>2, <3>2 DEF InTurn
    <3> QED BY <3>1, <3>2
  <2> QED BY <2>1, <2>3, <2>4 DEF InTurn
<1>5. CASE k.timer # "none"
  <2>1. Working(k)
    BY <1>1, <1>5 DEF InTurn, Orderly
  <2>2. fell \in Manager /\ Resting(fell) /\ Alive(fell) /\ Turn(fell, cmd)
    BY <1>1, <1>2, <2>1, WithRests
  <2> HIDE DEF fell
  <2>3. NextChild(fell, c) \in Manager /\ InTurn(NextChild(fell, c), cmd)
    BY <2>2, NextChildInTurn
  <2>4. Concluded(fell) \in Manager /\ InTurn(Concluded(fell), cmd)
    BY <2>2, ConcludedRests, RestingInTurn
  <2>5. InTurn(fell, cmd)
    BY <2>2, RestingInTurn
  <2> QED BY <1>3, <1>5, <2>2, <2>3, <2>4, <2>5
<1> QED BY <1>4, <1>5

\* A change of the message leaves the contexts and the queue alone.
LEMMA EditFrame ==
    ASSUME mgr \in Manager, NEW c, NEW e, Edit(c, e)
    PROVE  /\ mgr' \in Manager /\ mgr'.st = mgr.st /\ mgr'.rs = mgr.rs /\ mgr'.ctx = mgr.ctx
           /\ mgr'.waiting = mgr.waiting /\ mgr'.cmds = mgr.cmds
           /\ mgr'.packets = mgr.packets /\ mgr'.index = mgr.index
           /\ mgr'.sending = mgr.sending /\ mgr'.offset = mgr.offset
           /\ e # "empty-body" /\ mgr.body > 0 => mgr'.body > 0
<1>1. mgr.headers \in Nat /\ mgr.body \in Nat /\ mgr.emitted \in BOOLEAN
  BY DEF Manager
<1>2. CASE c \in Evaluation
  BY <1>2 DEF Edit
<1>3. CASE c \notin Evaluation /\ e = "add-header"
  <2> DEFINE n == mgr.headers + 1
  <2>1. mgr' = [mgr EXCEPT !.headers = n] /\ n \in Nat
    BY <1>1, <1>3 DEF Edit
  <2> HIDE DEF n
  <2> QED BY <2>1 DEF Manager
<1>4. CASE c \notin Evaluation /\ e = "delete-header"
  <2> DEFINE n == mgr.headers - 1
  <2>1. mgr' = [mgr EXCEPT !.headers = n] /\ n \in Nat
    BY <1>1, <1>4 DEF Edit
  <2> HIDE DEF n
  <2> QED BY <2>1 DEF Manager
<1>5. CASE c \notin Evaluation /\ e \notin {"add-header", "delete-header"}
  <2> DEFINE o == IF e = "empty-body" THEN 0 ELSE 1
             n == IF mgr.replaced THEN mgr.body + o ELSE o
             f == IF mgr.replaced THEN mgr.emitted ELSE FALSE
  <2>1. mgr' = [mgr EXCEPT !.body = n, !.emitted = f, !.replaced = TRUE]
    BY <1>5 DEF Edit
  <2>2. n \in Nat /\ (e # "empty-body" => n > 0)
    BY <1>1
  <2>3. f \in BOOLEAN
    BY <1>1
  <2> HIDE DEF o, n, f
  <2> QED BY <2>1, <2>2, <2>3 DEF Manager
<1> QED BY <1>2, <1>3, <1>4, <1>5

-----------------------------------------------------------------------------
(* The type invariant *)

\* What telling, aborting, and starting the next child make of a manager.
LEMMA OperatorTypes ==
    ASSUME NEW a \in Manager, NEW c \in Child
    PROVE  /\ NextChild(a, c) \in Manager
           /\ \A s : Proceed(a, c, s) \in Manager
           /\ \A s \in Slot : EmitOnce(a, s) \in Manager /\ EmitSlot(a, s) \in Manager
           /\ AbortAll(a) \in Manager
           /\ \A st \in Status : Say(a, st) \in Manager
<1>1. ASSUME NEW b \in Manager, NEW d \in Child, NEW s
      PROVE  Proceed(b, d, s) \in Manager
  BY ProceedFrame DEF Gives
<1>2. \A s \in Slot : EmitOnce(a, s) \in Manager /\ EmitSlot(a, s) \in Manager
  BY EmitFrame DEF Emits
<1>3. NextChild(a, c) \in Manager
  <2> DEFINE d == Dropped(a, c)
  <2>1. /\ d \in Manager
        /\ d.waiting = {} => Emits(d, NextChild(a, c), d.st)
        /\ d.waiting # {} => /\ NextChild(a, c) = Proceed(d, First(d.waiting), "data")
                             /\ First(d.waiting) \in Child
    BY NextChildFrame
  <2> HIDE DEF d
  <2> QED BY <1>1, <2>1 DEF Emits
<1>4. AbortAll(a) \in Manager
  BY AbortAllFrame
<1>5. \A st \in Status : Say(a, st) \in Manager
  BY SayFrame
<1> QED BY <1>1, <1>2, <1>3, <1>4, <1>5

\* An event of a child keeps the type of the manager.
LEMMA EventTypes ==
    ASSUME TypeOK, NEW c \in Child
    PROVE  /\ \A r \in Verdict : Heard(c, r) \in Manager
           /\ Failed(c) \in Manager
           /\ ChildFinished(c) => mgr' \in Manager
<1> DEFINE k == mgr.ctx[c]
           after(h, st) == With(mgr, c, h, k.state, st)
<1>1. mgr \in Manager /\ k \in Context /\ k.state \in Slot /\ mgr.pst \in Slot
      /\ Fallback[c] \in Status
  BY FallbackType DEF TypeOK, Manager, Context
<1>2. \A h \in Context : \A st \in Status : after(h, st) \in Manager
  BY <1>1, WithFrame
<1>3. Quiet(k) \in Context /\ Out(k) \in Context /\ Skips(k) \in Context
      /\ Expired(k) \in Context
  BY <1>1, AnsweredRests
<1>4. "continue" \in Status
  BY DEF Status, Verdict
<1>5. ASSUME NEW r \in Verdict
      PROVE  Heard(c, r) \in Manager
  <2> DEFINE e == Effective(c, r)
  <2>1. e \in Status
    BY DEF Effective, Status, Verdict
  <2>2. /\ r = "continue" /\ k.state = "end-of-message" =>
             Heard(c, r) = NextChild(after(Quiet(k), e), c)
        /\ r = "continue" /\ k.state # "end-of-message" =>
             Heard(c, r) = Proceed(after(Quiet(k), e), c, k.state)
        /\ r = "skip" /\ mgr.st # "end-of-message" =>
             Heard(c, r) = Say(after(Skips(k), e), "continue")
        /\ r = "skip" /\ mgr.st = "end-of-message" =>
             Heard(c, r) = Proceed(after(Skips(k), e), c, "body")
        /\ r = "accept" => Heard(c, r) = NextChild(after(Out(k), e), c)
        /\ r \in Refusal => Heard(c, r) = AbortAll(EmitOnce(after(Out(k), e), k.state))
    BY HeardIs
  <2> HIDE DEF e, after
  <2>3. /\ after(Quiet(k), e) \in Manager /\ after(Skips(k), e) \in Manager
        /\ after(Out(k), e) \in Manager
    BY <1>2, <1>3, <2>1
  <2>4. r \in {"continue", "skip", "accept"} \cup Refusal
    BY DEF Verdict, Refusal
  <2> QED BY <1>1, <1>4, <2>2, <2>3, <2>4, OperatorTypes
<1> DEFINE fell == after(Expired(k), Fallback[c])
<1>6. fell \in Manager /\ fell.pst = mgr.pst
  BY <1>1, <1>2, <1>3, WithFrame
<1>7. Concluded(fell) \in Manager
  <2> HIDE DEF fell
  <2>1. EmitSlot(fell, fell.pst) \in Manager
    BY <1>1, <1>6, OperatorTypes
  <2>2. AbortAll(EmitSlot(fell, fell.pst)) \in Manager
    BY <2>1, OperatorTypes
  <2> QED BY <2>1, <2>2 DEF Concluded
<1>8. Failed(c) \in Manager
  BY <1>7, FailedIs
<1>9. ASSUME ChildFinished(c)
      PROVE  mgr' \in Manager
  <2> DEFINE gone == [mgr EXCEPT !.ctx[c] = Expired(k)]
  <2>1. mgr' = IF k.timer = "none" THEN gone
               ELSE IF mgr.pst \in MessageCommand
               THEN IF mgr.emitted THEN fell ELSE NextChild(fell, c)
               ELSE Concluded(fell)
    BY <1>9, FailedIs DEF ChildFinished, Concluded
  <2>2. gone \in Manager
    BY <1>1, <1>3, CtxFrame
  <2> HIDE DEF fell, gone
  <2>3. NextChild(fell, c) \in Manager
    BY <1>6, OperatorTypes
  <2> QED BY <1>6, <1>7, <2>1, <2>2, <2>3
<1> QED BY <1>5, <1>8, <1>9

\* What a child decides is a status.
LEMMA DecideType ==
    ASSUME verdict \in [Child -> Status], NEW c \in Child, NEW st \in Verdict, Decide(c, st)
    PROVE  verdict' \in [Child -> Status]
BY DEF Decide, Status

\* Every step keeps the types.
LEMMA TypeStep ==
    ASSUME TypeOK, [Next]_vars
    PROVE  TypeOK'
<1>1. /\ mgr \in Manager /\ mta \in MtaType /\ joined \subseteq Child
      /\ verdict \in [Child -> Status]
  BY DEF TypeOK, MtaType
<1> SUFFICES /\ mgr' \in Manager /\ mta' \in MtaType /\ joined' \subseteq Child
             /\ verdict' \in [Child -> Status]
  BY DEF TypeOK, MtaType
<1>2. CASE UNCHANGED vars
  BY <1>1, <1>2 DEF vars
<1>3. CASE NewMessage
  <2>1. mgr' \in Manager /\ joined' \subseteq Child
    BY <1>1, <1>3, NewMessageFrame
  <2>2. mta' \in MtaType
    <3>1. mta' = [cmd |-> "data", headers |-> 0, chunks |-> 0, edits |-> 0,
                  messages |-> mta.messages + 1]
      BY <1>3 DEF NewMessage
    <3>2. mta.messages + 1 \in Nat
      BY <1>1 DEF MtaType
    <3> QED BY <3>1, <3>2 DEF MtaType
  <2>3. verdict' \in [Child -> Status]
    BY <1>3 DEF NewMessage, Status
  <2> QED BY <2>1, <2>2, <2>3
<1>4. CASE MtaAbort
  <2>1. mgr' \in Manager
    BY <1>1, <1>4, AbortFrame
  <2>2. mta' \in MtaType
    BY <1>1, <1>4 DEF MtaAbort, MtaType
  <2> QED BY <1>1, <1>4, <2>1, <2>2 DEF MtaAbort
<1>5. ASSUME NEW x \in MessageCommand, SendCommand(x) \/ RefuseCommand(x)
      PROVE  /\ mgr' \in Manager /\ mta' \in MtaType /\ joined' \subseteq Child
             /\ verdict' \in [Child -> Status]
  <2>1. Sent(x) /\ UNCHANGED <<joined, verdict>>
    BY <1>5 DEF SendCommand, RefuseCommand
  <2>2. mta' \in MtaType
    BY <1>1, <2>1, SentType
  <2>3. mgr' \in Manager
    BY <1>1, <1>5, SendFrame, RefuseFrame DEF Gives
  <2> QED BY <1>1, <2>1, <2>2, <2>3
<1>6. ASSUME NEW c \in Child, ChildNext(c)
      PROVE  /\ mgr' \in Manager /\ mta' \in MtaType /\ joined' \subseteq Child
             /\ verdict' \in [Child -> Status]
  <2>1. CASE Flush(c)
    <3>1. mgr.ctx[c] \in Context /\ mgr.ctx[c].next # <<>>
      BY <1>1, <2>1 DEF Flush, Manager
    <3>2. Flushed(mgr.ctx[c]) \in Context
      BY <3>1, FlushedWorks
    <3>3. mgr' = [mgr EXCEPT !.ctx[c] = Flushed(mgr.ctx[c])]
      BY <2>1 DEF Flush
    <3>4. mgr' \in Manager
      BY <1>1, <3>2, <3>3, CtxFrame
    <3> QED BY <1>1, <2>1, <3>4 DEF Flush
  <2>2. ASSUME NEW r \in Answers, Reply(c, r)
        PROVE  /\ mgr' \in Manager /\ mta' \in MtaType /\ joined' \subseteq Child
               /\ verdict' \in [Child -> Status]
    <3>1. r \in Verdict
      BY ConfigAssumption
    <3>2. mgr' \in Manager
      BY <2>2, <3>1, EventTypes DEF Reply
    <3>3. verdict' \in [Child -> Status]
      BY <1>1, <2>2, <3>1, DecideType DEF Reply
    <3> QED BY <1>1, <2>2, <3>2, <3>3 DEF Reply
  <2>3. ASSUME NEW e \in Edits, Edit(c, e)
        PROVE  /\ mgr' \in Manager /\ mta' \in MtaType /\ joined' \subseteq Child
               /\ verdict' \in [Child -> Status]
    <3>1. mgr' \in Manager
      BY <1>1, <2>3, EditFrame
    <3>2. mta' \in MtaType
      BY <1>1, <2>3 DEF Edit, MtaType
    <3> QED BY <1>1, <2>3, <3>1, <3>2 DEF Edit
  <2>4. CASE Fail(c)
    <3>1. mgr' \in Manager
      BY <2>4, EventTypes DEF Fail
    <3>2. verdict' \in [Child -> Status]
      BY <1>1, <2>4, FallbackType, DecideType DEF Fail
    <3> QED BY <1>1, <2>4, <3>1, <3>2 DEF Fail
  <2>5. CASE ChildFinished(c)
    <3>1. mgr' \in Manager
      BY <2>5, EventTypes
    <3>2. verdict' \in [Child -> Status]
      BY <1>1, <2>5, FallbackType, DecideType DEF ChildFinished
    <3> QED BY <1>1, <2>5, <3>1, <3>2 DEF ChildFinished
  <2> QED BY <1>6, <2>1, <2>2, <2>3, <2>4, <2>5 DEF ChildNext, Hears, Timeout, ChildError
<1> QED BY <1>2, <1>3, <1>4, <1>5, <1>6 DEF Next, MtaNext

\* The initial state has the types.
LEMMA TypeInit ==
    ASSUME Init
    PROVE  TypeOK
<1>1. /\ <<>> \in Seq(Slot) /\ <<>> \in Seq(Verdict)
      /\ {"abort", "data"} \subseteq Slot /\ "not-change" \in Status
  BY DEF Slot, Status
<1>2. [s \in Slot |-> "not-change"] \in [Slot -> Status]
  BY <1>1
<1>3. [state |-> "abort", next |-> <<>>, timer |-> "none", pmsg |-> FALSE,
       quitted |-> FALSE, attached |-> TRUE, skip |-> FALSE, owes |-> FALSE,
       hdrs |-> 0, chunks |-> 0] \in Context
  BY <1>1 DEF Context
<1>4. mgr \in Manager
  BY <1>1, <1>2, <1>3 DEF Init, Manager
<1>5. mta \in [cmd : {"data", "abort"} \cup MessageCommand, headers : Nat,
               chunks : Nat, edits : Nat, messages : Nat]
  BY DEF Init
<1>6. joined \subseteq Child /\ verdict \in [Child -> Status]
  BY <1>1 DEF Init
<1> QED BY <1>4, <1>5, <1>6 DEF TypeOK

\* The children object, its contexts and the leader keep their types for any
\* configuration and any faults: what milter_manager_children_* and the callbacks
\* of the children build is always one of the states of the module.
THEOREM TypeCorrect == Spec => []TypeOK
<1>1. Init => TypeOK
  BY TypeInit
<1>2. TypeOK /\ [Next]_vars => TypeOK'
  BY TypeStep
<1> QED BY <1>1, <1>2, PTL DEF Spec

-----------------------------------------------------------------------------
(* Taking turns is an invariant when no idle child fails *)

\* In its turn a child works at what the MTA waits for.
LEMMA TurnStep ==
    ASSUME TurnInv, [Next]_vars, "idle" \notin Faults
    PROVE  TurnInv'
<1>1. TypeOK /\ mgr \in Manager /\ mta \in MtaType /\ InTurn(mgr, mta.cmd) /\ Alive(mgr)
  BY DEF TurnInv, TypeOK, MtaType, InTurn
<1>2. TypeOK'
  BY <1>1, TypeStep
<1> SUFFICES InTurn(mgr', mta'.cmd)
  BY <1>2 DEF TurnInv
<1>3. CASE UNCHANGED vars
  BY <1>1, <1>3 DEF vars
<1>4. CASE NewMessage
  <2>1. ~(mta.cmd \in MessageCommand /\ mgr.packets = <<>>)
    BY <1>4 DEF NewMessage, Waiting
  <2>2. Resting(mgr)
    BY <1>1, <2>1, AnsweredResting
  <2>3. Resting(mgr') /\ Alive(mgr')
    BY <1>1, <1>4, <2>2, NewMessageFrame
  <2> QED BY <2>3, RestingInTurn
<1>5. CASE MtaAbort
  <2>1. ~(mta.cmd \in MessageCommand /\ mgr.packets = <<>>)
    BY <1>5 DEF MtaAbort, Waiting
  <2>2. Resting(mgr)
    BY <1>1, <2>1, AnsweredResting
  <2>3. Resting(mgr') /\ Alive(mgr')
    BY <1>1, <1>5, <2>2, AbortFrame DEF Alive
  <2> QED BY <2>3, RestingInTurn
<1>6. ASSUME NEW x \in MessageCommand, SendCommand(x)
      PROVE  InTurn(mgr', mta'.cmd)
  <2>1. mta'.cmd = x
    BY <1>1, <1>6, SentType DEF SendCommand
  <2> QED BY <1>1, <1>6, <2>1, SendInTurn
<1>7. ASSUME NEW x \in MessageCommand, RefuseCommand(x)
      PROVE  InTurn(mgr', mta'.cmd)
  <2>1. InMessage
    BY <1>7 DEF RefuseCommand, MaySend
  <2>2. ~(mta.cmd \in MessageCommand /\ mgr.packets = <<>>)
    BY <2>1 DEF InMessage, MessageCommand
  <2>3. Resting(mgr)
    BY <1>1, <2>2, AnsweredResting
  <2>4. mgr'.ctx = mgr.ctx
    BY <1>1, <1>7, RefuseFrame DEF SameWork
  <2>5. Resting(mgr') /\ Alive(mgr')
    BY <1>1, <2>3, <2>4 DEF Resting, Alive
  <2> QED BY <2>5, RestingInTurn
<1>8. ASSUME NEW c \in Child, ChildNext(c)
      PROVE  InTurn(mgr', mta'.cmd)
  <2>1. CASE Flush(c)
    BY <1>1, <2>1, FlushInTurn DEF Flush
  <2>2. ASSUME NEW r \in Answers, Reply(c, r)
        PROVE  InTurn(mgr', mta'.cmd)
    <3>1. r \in Verdict
      BY ConfigAssumption
    <3> QED BY <1>1, <2>2, <3>1, ReplyInTurn DEF Reply
  <2>3. ASSUME NEW e \in Edits, Edit(c, e)
        PROVE  InTurn(mgr', mta'.cmd)
    <3>1. /\ mgr'.st = mgr.st /\ mgr'.ctx = mgr.ctx /\ mgr'.waiting = mgr.waiting
          /\ mgr'.cmds = mgr.cmds /\ mgr'.packets = mgr.packets
      BY <1>1, <2>3, EditFrame
    <3>2. mta'.cmd = mta.cmd
      BY <1>1, <2>3 DEF Edit, MtaType
    <3> QED BY <1>1, <3>1, <3>2 DEF InTurn, Alive, Turn
  <2>4. ASSUME Timeout(c) \/ ChildError(c)
        PROVE  InTurn(mgr', mta'.cmd)
    <3>1. mgr.ctx[c].attached /\ mgr' = Failed(c) /\ UNCHANGED mta
      BY <2>4 DEF Timeout, ChildError, Fail
    <3>2. Working(mgr.ctx[c])
      BY <1>1, <2>4 DEF Timeout, ChildError, InTurn, Orderly
    <3>3. Resting(mgr') /\ Alive(mgr')
      BY <1>1, <3>1, <3>2, FailInTurn
    <3> QED BY <3>3, RestingInTurn
  <2>5. CASE ChildFinished(c)
    BY <1>1, <2>5, FinishedInTurn DEF ChildFinished
  <2> QED BY <1>8, <2>1, <2>2, <2>3, <2>4, <2>5 DEF ChildNext, Hears
<1> QED BY <1>3, <1>4, <1>5, <1>6, <1>7, <1>8 DEF Next, MtaNext

\* Before the first message nobody works.
LEMMA TurnInit ==
    ASSUME Init
    PROVE  TurnInv
<1>1. TypeOK
  BY TypeInit
<1>2. \A c \in Child : /\ mgr.ctx[c].attached = TRUE /\ mgr.ctx[c].quitted = FALSE
                       /\ mgr.ctx[c].owes = FALSE /\ mgr.ctx[c].next = <<>>
                       /\ mgr.ctx[c].timer = "none"
  BY DEF Init
<1>3. Alive(mgr) /\ Resting(mgr)
  BY <1>2 DEF Alive, Resting, Rests, Working
<1> QED BY <1>1, <1>3, RestingInTurn DEF TurnInv

\* Only the child at the head of the queue works.
LEMMA TurnIsOne ==
    ASSUME TurnInv
    PROVE  OneAtATime
BY DEF TurnInv, InTurn, Turn, OneAtATime, Waiting

\* As long as no child that has nothing to do reports an error, the children take
\* turns: only the first of command_waiting_child_queue works on the message, and
\* nobody does once the MTA is answered, whatever the children answer, however
\* often the working one times out, fails or closes its connection.
THEOREM TakeTurns ==
    ASSUME "idle" \notin Faults
    PROVE  Spec => []OneAtATime
<1>1. Init => TurnInv
  BY TurnInit
<1>2. TurnInv /\ [Next]_vars => TurnInv'
  BY TurnStep
<1>3. TurnInv => OneAtATime
  BY TurnIsOne
<1> QED BY <1>1, <1>2, <1>3, PTL DEF Spec

-----------------------------------------------------------------------------
(* A refusal arrives *)

Refused == \E c \in Child : verdict[c] \in Refusal

\* While the envelope is answered nobody has refused; once somebody has, the MTA
\* is told so or nothing, and nobody works.
ArrivalInv ==
    /\ mta.cmd = "data" => ~Refused
    /\ mta.cmd \in MessageCommand /\ Refused =>
          /\ mgr.packets = <<>> \/ mgr.packets[1] \in Refusal
          /\ \A c \in Child : mgr.ctx[c].attached => ~Working(mgr.ctx[c])

\* Nobody works but in a command of the message, and before anybody has refused.
LEMMA WorkerUnrefused ==
    ASSUME TurnInv, ArrivalInv, NEW c \in Child, mgr.ctx[c].attached, Working(mgr.ctx[c])
    PROVE  mta.cmd \in MessageCommand /\ ~Refused /\ mgr.packets = <<>>
BY DEF TurnInv, InTurn, Turn, ArrivalInv

\* An event after which nobody has refused keeps the invariant.
LEMMA Unrefused ==
    ASSUME ~Refused'
    PROVE  ArrivalInv'
BY DEF ArrivalInv

\* What the MTA is told first.
LEMMA TellsFirst ==
    ASSUME NEW a \in Manager, NEW b, NEW st \in Status, Tells(a, b, st)
    PROVE  /\ a.packets # <<>> => b.packets # <<>> /\ b.packets[1] = a.packets[1]
           /\ a.packets = <<>> /\ b.packets # <<>> => b.packets[1] = st
<1>1. a.packets \in Seq(Verdict)
  BY DEF Manager
<1>2. CASE b.packets = a.packets
  BY <1>2
<1>3. CASE st # "not-change" /\ b.packets = Append(a.packets, st)
  <2>1. st \in Verdict
    BY <1>3 DEF Status
  <2> QED BY <1>1, <1>3, <2>1, FirstPacket
<1> QED BY <1>2, <1>3 DEF Tells

\* A refusal is emitted in the slot of the child's state.
LEMMA RefusalTold ==
    ASSUME TypeOK, NEW c \in Child, NEW r \in Refusal, Evaluation = {}, mgr.packets = <<>>
    PROVE  LET b == Heard(c, r)
           IN  b.packets = <<>> \/ b.packets[1] \in Refusal
<1> DEFINE k == mgr.ctx[c]
           a == With(mgr, c, Out(k), k.state, r)
           e == EmitOnce(a, k.state)
<1>1. mgr \in Manager /\ k \in Context /\ k.state \in Slot /\ mgr.rs[k.state] \in Status
  BY DEF TypeOK, Manager, Context
<1>2. r \in Verdict /\ r \in Status /\ Effective(c, r) = r
  BY DEF Refusal, Verdict, Status, Effective
<1>3. Out(k) \in Context
  BY <1>1, AnsweredRests
<1>4. Heard(c, r) = AbortAll(e)
  BY <1>2, HeardIs
<1>5. a \in Manager /\ a.packets = <<>> /\ a.rs[k.state] = Compile(mgr.rs[k.state], r)
  BY <1>1, <1>2, <1>3, WithFrame
<1>6. a.rs[k.state] \in Refusal /\ a.rs[k.state] \in Status
  BY <1>1, <1>2, <1>5, CompileKeeps
<1> HIDE DEF a
<1>7. Emits(a, e, k.state)
  BY <1>1, <1>5, EmitFrame
<1>8. e \in Manager /\ Tells(a, e, a.rs[k.state])
  BY <1>7 DEF Emits
<1> HIDE DEF e
<1>9. e.packets = <<>> \/ e.packets[1] \in Refusal
  BY <1>5, <1>6, <1>8, TellsFirst
<1>10. AbortAll(e).packets = e.packets
  BY <1>8, AbortAllFrame
<1> QED BY <1>4, <1>9, <1>10

\* Every step keeps the refusal from getting lost.
LEMMA ArrivalStep ==
    ASSUME TurnInv, ArrivalInv, [Next]_vars, TurnInv', "idle" \notin Faults,
           Evaluation = {}, Faults = {} \/ \A c \in Child : Fallback[c] = "accept"
    PROVE  ArrivalInv'
<1>1. /\ TypeOK /\ mgr \in Manager /\ mta \in MtaType /\ InTurn(mgr, mta.cmd)
      /\ verdict \in [Child -> Status]
  BY DEF TurnInv, TypeOK, MtaType
<1>2. CASE UNCHANGED vars
  BY <1>2 DEF vars, ArrivalInv, Refused
<1>3. CASE NewMessage
  <2>1. ~Refused'
    BY <1>3 DEF NewMessage, Refused, Refusal
  <2> QED BY <2>1, Unrefused
<1>4. CASE MtaAbort
  <2>1. mta'.cmd = "abort"
    BY <1>1, <1>4 DEF MtaAbort, MtaType
  <2> QED BY <2>1 DEF ArrivalInv, MessageCommand
<1>5. ASSUME NEW x \in MessageCommand, SendCommand(x) \/ RefuseCommand(x)
      PROVE  ArrivalInv'
  <2>1. InMessage /\ UNCHANGED verdict
    BY <1>5 DEF SendCommand, RefuseCommand, MaySend
  <2>2. ~Refused
    BY <2>1 DEF ArrivalInv, InMessage, MessageCommand, Refusal
  <2> QED BY <2>1, <2>2, Unrefused DEF Refused
<1>6. ASSUME NEW c \in Child, ChildNext(c)
      PROVE  ArrivalInv'
  <2>1. CASE Flush(c)
    <3> DEFINE k == mgr.ctx[c]
    <3>1. k \in Context /\ k.next # <<>> /\ k.attached
      BY <1>1, <2>1 DEF Flush, Manager
    <3>2. /\ Flushed(k) \in Context /\ Flushed(k).attached = k.attached
          /\ Working(Flushed(k)) => Working(k)
      BY <3>1, FlushedWorks
    <3>3. mgr' = [mgr EXCEPT !.ctx[c] = Flushed(k)]
      BY <2>1 DEF Flush
    <3>4. /\ mgr'.packets = mgr.packets /\ mgr'.ctx[c] = Flushed(k)
          /\ \A d \in Child : d # c => mgr'.ctx[d] = mgr.ctx[d]
      BY <1>1, <3>2, <3>3, CtxFrame
    <3>5. UNCHANGED <<mta, verdict>>
      BY <2>1 DEF Flush
    <3> QED BY <3>2, <3>4, <3>5 DEF ArrivalInv, Refused
  <2>2. ASSUME NEW r \in Answers, Reply(c, r)
        PROVE  ArrivalInv'
    <3>1. r \in Verdict
      BY ConfigAssumption
    <3>2. mgr.ctx[c].attached /\ Working(mgr.ctx[c]) /\ UNCHANGED mta /\ mgr' = Heard(c, r)
      BY <2>2 DEF Reply, Working
    <3>3. mta.cmd \in MessageCommand /\ ~Refused /\ mgr.packets = <<>>
      BY <3>2, WorkerUnrefused
    <3>4. CASE r \notin Refusal
      <4>1. verdict' = verdict \/ verdict' = [verdict EXCEPT ![c] = r]
        BY <2>2 DEF Reply, Decide
      <4>2. ~Refused'
        BY <1>1, <3>3, <3>4, <4>1 DEF Refused
      <4> QED BY <4>2, Unrefused
    <3>5. CASE r \in Refusal
      <4>1. mgr'.packets = <<>> \/ mgr'.packets[1] \in Refusal
        BY <1>1, <3>2, <3>3, <3>5, RefusalTold
      <4>2. ASSUME NEW d \in Child
            PROVE  mgr'.ctx[d].attached => ~Working(mgr'.ctx[d])
        <5> DEFINE k == mgr.ctx[c]
                   a == With(mgr, c, Out(k), k.state, Effective(c, r))
                   e == EmitOnce(a, k.state)
        <5>1. mgr' = AbortAll(e)
          BY <1>1, <3>1, <3>2, <3>5, HeardIs
        <5>2. k \in Context /\ k.state \in Slot /\ Effective(c, r) \in Status
          BY <1>1, <3>1 DEF Manager, Context, Effective, Status, Verdict
        <5>3. k.next = <<>> /\ k.attached = ~k.quitted
          BY <1>1, <2>2 DEF InTurn, Alive, Orderly, Reply
        <5>4. Out(k) \in Context /\ Rests(Out(k)) /\ Out(k).attached = ~Out(k).quitted
          BY <5>2, <5>3, AnsweredRests
        <5>5. a \in Manager /\ Resting(a) /\ Alive(a)
          BY <1>1, <3>2, <5>2, <5>4, WithRests
        <5> HIDE DEF a
        <5>6. Emits(a, e, k.state)
          BY <5>2, <5>5, EmitFrame
        <5>7. Resting(AbortAll(e))
          BY <5>2, <5>5, <5>6, EndRests
        <5> QED BY <5>1, <5>7 DEF Resting, Rests
      <4> QED BY <3>2, <3>3, <4>1, <4>2 DEF ArrivalInv, MessageCommand
    <3> QED BY <3>4, <3>5
  <2>3. ASSUME NEW e \in Edits, Edit(c, e)
        PROVE  ArrivalInv'
    <3>1. mgr.ctx[c].attached /\ Working(mgr.ctx[c]) /\ UNCHANGED verdict
      BY <2>3 DEF Edit, Working
    <3>2. ~Refused
      BY <3>1, WorkerUnrefused
    <3> QED BY <3>1, <3>2, Unrefused DEF Refused
  <2>4. ASSUME Timeout(c) \/ ChildError(c)
        PROVE  ArrivalInv'
    <3>1. mgr.ctx[c].attached /\ Fallback[c] = "accept"
          /\ verdict' = [verdict EXCEPT ![c] = Fallback[c]]
      BY <2>4 DEF Timeout, ChildError, Fail, Decide
    <3>2. Working(mgr.ctx[c])
      BY <1>1, <2>4 DEF Timeout, ChildError, InTurn, Orderly
    <3>3. ~Refused
      BY <3>1, <3>2, WorkerUnrefused
    <3>4. ~Refused'
      BY <1>1, <3>1, <3>3 DEF Refused, Refusal
    <3> QED BY <3>4, Unrefused
  <2>5. CASE ChildFinished(c)
    <3> DEFINE k == mgr.ctx[c]
    <3>1. k \in Context /\ k.attached /\ Fallback[c] = "accept" /\ UNCHANGED mta
      BY <1>1, <2>5 DEF ChildFinished, Manager
    <3>2. CASE k.timer = "none"
      <4>1. mgr' = [mgr EXCEPT !.ctx[c] = Expired(k)] /\ UNCHANGED verdict
        BY <1>1, <2>5, <3>2, FailedIs DEF ChildFinished
      <4>2. Expired(k) \in Context /\ ~Expired(k).attached
        BY <3>1, AnsweredRests
      <4>3. /\ mgr'.packets = mgr.packets /\ mgr'.ctx[c] = Expired(k)
            /\ \A d \in Child : d # c => mgr'.ctx[d] = mgr.ctx[d]
        BY <1>1, <4>1, <4>2, CtxFrame
      <4> QED BY <3>1, <4>1, <4>2, <4>3 DEF ArrivalInv, Refused
    <3>3. CASE k.timer # "none"
      <4>1. verdict' = [verdict EXCEPT ![c] = Fallback[c]]
        BY <2>5, <3>3 DEF ChildFinished, Decide
      <4>2. Working(k)
        BY <1>1, <3>1, <3>3 DEF InTurn, Orderly
      <4>3. ~Refused
        BY <3>1, <4>2, WorkerUnrefused
      <4>4. ~Refused'
        BY <1>1, <3>1, <4>1, <4>3 DEF Refused, Refusal
      <4> QED BY <4>4, Unrefused
    <3> QED BY <3>2, <3>3
  <2> QED BY <1>6, <2>1, <2>2, <2>3, <2>4, <2>5 DEF ChildNext, Hears
<1> QED BY <1>2, <1>3, <1>4, <1>5, <1>6 DEF Next, MtaNext

\* In a session without children in evaluation mode, in which no idle child fails
\* and no fallback refuses (or no connection fails at all), a refusal of a child
\* is what the MTA is told, in every message of the session: no reply of another
\* child, and no continue of the replay, gets ahead of it.
THEOREM RefusalIsTold ==
    ASSUME "idle" \notin Faults, Evaluation = {},
           Faults = {} \/ \A c \in Child : Fallback[c] = "accept"
    PROVE  Spec => []RefusalArrives
<1>1. Init => TurnInv /\ ArrivalInv
  <2>1. Init => ~Refused
    BY DEF Init, Refused, Refusal
  <2> QED BY <2>1, TurnInit DEF ArrivalInv
<1>2. TurnInv /\ ArrivalInv /\ [Next]_vars => (TurnInv /\ ArrivalInv)'
  BY TurnStep, ArrivalStep
<1>3. TurnInv /\ ArrivalInv => RefusalArrives
  BY DEF TurnInv, TypeOK, ArrivalInv, RefusalArrives, Refused, Waiting
<1> QED BY <1>1, <1>2, <1>3, PTL DEF Spec

-----------------------------------------------------------------------------
(* A refusal is a child's own *)

\* Every refusal in reply_statuses, and the one the MTA was told, is the verdict of
\* a child in J, and so are the children in the queue and at work.
Owned(a, J, v) ==
    /\ \A s \in Slot : a.rs[s] \in Refusal => \E c \in J : v[c] = a.rs[s]
    /\ a.packets # <<>> /\ a.packets[1] \in Refusal => \E c \in J : v[c] = a.packets[1]
    /\ a.waiting \subseteq J
    /\ \A c \in Child : Processing(a.ctx[c]) => c \in J

\* A child that refused has no part in the message any more: it does not change
\* its verdict.
Final(a, v) ==
    \A c \in Child : v[c] \in Refusal /\ a.ctx[c].attached =>
        ~a.ctx[c].pmsg /\ c \notin a.waiting

\* Emitting a slot keeps both.
LEMMA OwnedEmits ==
    ASSUME NEW a \in Manager, NEW b, NEW s \in Slot, Emits(a, b, s), NEW J, NEW v,
           Owned(a, J, v)
    PROVE  Owned(b, J, v) /\ (Final(a, v) => Final(b, v))
<1>1. /\ b \in Manager /\ b.rs = a.rs /\ b.ctx = a.ctx /\ Tells(a, b, a.rs[s])
      /\ b.waiting = a.waiting \/ b.waiting = {}
  BY DEF Emits, SameWork, SameMessage, Disposed
<1>2. a.rs[s] \in Status
  BY DEF Manager
<1>3. /\ a.packets # <<>> => b.packets # <<>> /\ b.packets[1] = a.packets[1]
      /\ a.packets = <<>> /\ b.packets # <<>> => b.packets[1] = a.rs[s]
  BY <1>1, <1>2, TellsFirst
<1>4. b.packets # <<>> /\ b.packets[1] \in Refusal => \E c \in J : v[c] = b.packets[1]
  BY <1>3 DEF Owned
<1> QED BY <1>1, <1>4 DEF Owned, Final

\* An abort ends the part of everybody.
LEMMA OwnedAbort ==
    ASSUME NEW a \in Manager, Alive(a), NEW J, NEW v, Owned(a, J, v)
    PROVE  Owned(AbortAll(a), J, v) /\ Final(AbortAll(a), v)
<1> DEFINE b == AbortAll(a)
<1>1. /\ b.waiting = {} /\ b.packets = a.packets /\ b.rs = a.rs
      /\ \A c \in Child : /\ b.ctx[c].attached = a.ctx[c].attached
                          /\ b.ctx[c].quitted = a.ctx[c].quitted
                          /\ ~a.ctx[c].quitted => ~b.ctx[c].pmsg
  BY AbortAllFrame DEF Disposed
<1> HIDE DEF b
<1>2. Owned(b, J, v)
  BY <1>1 DEF Owned, Processing
<1>3. Final(b, v)
  BY <1>1 DEF Final, Alive
<1> QED BY <1>2, <1>3 DEF b

\* The replay refuses nothing.
LEMMA OwnedProceed ==
    ASSUME NEW a \in Manager, NEW c \in Child, NEW s, NEW J, NEW v, Owned(a, J, v),
           Final(a, v)
    PROVE  Owned(Proceed(a, c, s), J, v) /\ Final(Proceed(a, c, s), v)
<1> DEFINE b == Proceed(a, c, s)
<1>1. /\ Gives(a, b, c)
      /\ \/ b = a
         \/ Tells(a, b, "continue") /\ b.ctx[c] = NewCtx(a, c, s)
         \/ b.packets = a.packets /\ b.ctx[c] = NewCtx(a, c, s)
  BY ProceedFrame
<1>2. LET w == NewCtx(a, c, s)
      IN  /\ w.attached = a.ctx[c].attached /\ w.quitted = a.ctx[c].quitted
          /\ w.pmsg = a.ctx[c].pmsg
  BY NewCtxFrame
<1> HIDE DEF b
<1>3. Tells(a, b, "continue") =>
        /\ a.packets # <<>> => b.packets # <<>> /\ b.packets[1] = a.packets[1]
        /\ a.packets = <<>> /\ b.packets # <<>> => b.packets[1] = "continue"
  BY TellsFirst DEF Status, Verdict
<1>4. b.packets # <<>> /\ b.packets[1] \in Refusal => \E d \in J : v[d] = b.packets[1]
  BY <1>1, <1>3 DEF Owned, Refusal
<1>5. \A d \in Child : /\ b.ctx[d].attached = a.ctx[d].attached
                       /\ b.ctx[d].quitted = a.ctx[d].quitted
                       /\ b.ctx[d].pmsg = a.ctx[d].pmsg
  <2> TAKE d \in Child
  <2>1. d # c => b.ctx[d] = a.ctx[d]
    BY <1>1 DEF Gives
  <2> QED BY <1>1, <1>2, <2>1
<1>6. b.waiting = a.waiting /\ \A y \in Slot : b.rs[y] = a.rs[y] \/ b.rs[y] \notin Refusal
  BY <1>1 DEF Gives, SameMessage
<1>7. \A y \in Slot : b.rs[y] \in Refusal => \E d \in J : v[d] = b.rs[y]
  BY <1>6 DEF Owned
<1>8. Owned(b, J, v)
  BY <1>4, <1>5, <1>6, <1>7 DEF Owned, Processing
<1>9. Final(b, v)
  BY <1>5, <1>6 DEF Final
<1> QED BY <1>8, <1>9 DEF b

\* Nor does the start of the next child.
LEMMA OwnedNext ==
    ASSUME NEW a \in Manager, NEW c \in Child, NEW J, NEW v, Owned(a, J, v), Final(a, v)
    PROVE  Owned(NextChild(a, c), J, v) /\ Final(NextChild(a, c), v)
<1> DEFINE d == Dropped(a, c)
<1>1. /\ d \in Manager /\ d.waiting = a.waiting \ {c} /\ d.rs = a.rs /\ d.ctx = a.ctx
      /\ d.packets = a.packets
      /\ d.waiting = {} => Emits(d, NextChild(a, c), d.st)
      /\ d.waiting # {} => /\ NextChild(a, c) = Proceed(d, First(d.waiting), "data")
                           /\ First(d.waiting) \in Child
  BY NextChildFrame
<1> HIDE DEF d
<1>2. Owned(d, J, v) /\ Final(d, v)
  BY <1>1 DEF Owned, Final
<1>3. d.st \in Slot
  BY <1>1 DEF Manager
<1>4. CASE d.waiting = {}
  BY <1>1, <1>2, <1>3, <1>4, OwnedEmits
<1>5. CASE d.waiting # {}
  BY <1>1, <1>2, <1>5, OwnedProceed
<1> QED BY <1>4, <1>5

\* The event of a child in J that had not refused yet: the status that is compiled
\* is no refusal, or the verdict of the child.
LEMMA OwnedWith ==
    ASSUME NEW a \in Manager, NEW J \in SUBSET Child, NEW v \in [Child -> Status],
           Owned(a, J, v), Final(a, v),
           NEW c \in Child, c \in J, v[c] \notin Refusal, NEW k \in Context,
           k.quitted \/ (k.pmsg => Processing(a.ctx[c])),
           NEW s \in Slot, NEW st \in Status, NEW w \in [Child -> Status],
           \A d \in Child : d # c => w[d] = v[d],
           st \in Refusal => w[c] = st
    PROVE  LET b == With(a, c, k, s, st)
           IN  /\ b \in Manager /\ Owned(b, J, w)
               /\ w[c] \notin Refusal \/ ~k.attached => Final(b, w)
<1> DEFINE b == With(a, c, k, s, st)
<1>1. /\ b \in Manager /\ b.waiting = a.waiting /\ b.packets = a.packets
      /\ b.ctx[c] = k /\ \A d \in Child : d # c => b.ctx[d] = a.ctx[d]
      /\ b.rs[s] = Compile(a.rs[s], st)
      /\ \A y \in Slot : y # s => b.rs[y] = a.rs[y]
  BY WithFrame DEF SameMessage
<1> HIDE DEF b
<1>3. \A t \in Refusal : (\E d \in J : v[d] = t) => \E d \in J : w[d] = t
  <2>1. ASSUME NEW t \in Refusal, NEW d \in J, v[d] = t
        PROVE  \E e \in J : w[e] = t
    <3>1. d # c /\ d \in Child
      BY <2>1
    <3> QED BY <2>1, <3>1
  <2> QED BY <2>1
<1>4. \A y \in Slot : b.rs[y] \in Refusal => \E d \in J : w[d] = b.rs[y]
  <2> SUFFICES ASSUME NEW y \in Slot, b.rs[y] \in Refusal
               PROVE  \E d \in J : w[d] = b.rs[y]
    OBVIOUS
  <2>1. a.rs[y] \in Status /\ a.rs[s] \in Status
    BY DEF Manager
  <2>2. b.rs[y] = a.rs[y] \/ b.rs[y] = st
    BY <1>1, <2>1, CompileKeeps
  <2>3. a.rs[y] \in Refusal => \E d \in J : w[d] = a.rs[y]
    BY <1>3 DEF Owned
  <2> QED BY <2>2, <2>3
<1>5. b.packets # <<>> /\ b.packets[1] \in Refusal => \E d \in J : w[d] = b.packets[1]
  BY <1>1, <1>3 DEF Owned
<1>6. \A d \in Child : Processing(b.ctx[d]) => d \in J
  BY <1>1 DEF Owned, Processing
<1>7. Owned(b, J, w)
  BY <1>1, <1>4, <1>5, <1>6 DEF Owned
<1>8. w[c] \notin Refusal \/ ~k.attached => Final(b, w)
  BY <1>1 DEF Final
<1> QED BY <1>1, <1>7, <1>8 DEF b

\* Of the first message; before it nobody takes part.
OwnInv ==
    /\ mta.messages = 0 => joined = {}
    /\ mta.messages <= 1 => Owned(mgr, joined, verdict) /\ Final(mgr, verdict)

\* A child at work takes part and has not refused.
LEMMA WorkerTakesPart ==
    ASSUME TurnInv, Owned(mgr, joined, verdict), Final(mgr, verdict),
           NEW c \in Child, mgr.ctx[c].attached, Working(mgr.ctx[c])
    PROVE  c \in joined /\ verdict[c] \notin Refusal /\ c \in mgr.waiting
<1>1. c = First(mgr.waiting) /\ mgr.waiting # {} /\ mgr.waiting \in SUBSET Child
  BY DEF TurnInv, InTurn, Turn, TypeOK, Manager
<1>2. c \in mgr.waiting
  BY <1>1, FirstOf
<1> QED BY <1>2 DEF Owned, Final

\* A command of the MTA.
LEMMA OwnedSend ==
    ASSUME mgr \in Manager, NEW x \in MessageCommand, SendCommand(x),
           Owned(mgr, joined, verdict), Final(mgr, verdict), Alive(mgr),
           ManagerFallback \notin Refusal
    PROVE  Owned(mgr', joined, verdict) /\ Final(mgr', verdict)
<1> DEFINE m == Taken(Asked(mgr), x)
           c == First(m.waiting)
<1>1. /\ c \in m.waiting /\ c \in Child /\ Gives(m, mgr', c)
      /\ mgr'.ctx[c].attached = m.ctx[c].attached
      /\ mgr'.ctx[c].quitted = m.ctx[c].quitted
      /\ mgr'.ctx[c].pmsg = m.ctx[c].pmsg
      /\ Passes(m, mgr', c, x) \/ Writes(m, mgr', c, x) \/ Declines(m, mgr', c, x)
  BY SendFrame
<1>2. m \in Manager /\ m.ctx = mgr.ctx /\ m.packets = <<>> /\ m.rs = mgr.rs
  <2>1. m \in Manager /\ m.ctx = mgr.ctx
    BY TakenFrame
  <2>2. m.packets = <<>>
    BY TakenFrame
  <2>3. m.rs = mgr.rs
    BY TakenFrame
  <2> QED BY <2>1, <2>2, <2>3
<1>3. /\ mgr.waiting # {} => m.waiting = mgr.waiting
      /\ mgr.waiting = {} => \A d \in Child : d \in m.waiting <=> Processing(mgr.ctx[d])
  BY TakenQueue
<1> HIDE DEF m, c
<1>4. m.waiting \subseteq joined
  <2>1. m.waiting \subseteq Child
    BY <1>2 DEF Manager
  <2> QED BY <1>3, <2>1 DEF Owned
<1>5. \A d \in Child : verdict[d] \in Refusal /\ m.ctx[d].attached =>
                           ~m.ctx[d].pmsg /\ d \notin m.waiting
  BY <1>2, <1>3 DEF Final, Processing
<1>6. mgr'.packets # <<>> => mgr'.packets[1] \notin Refusal
  <2>1. CASE Passes(m, mgr', c, x)
    BY <1>2, <2>1, TellsFirst DEF Passes, Refusal, Status, Verdict
  <2>2. CASE Writes(m, mgr', c, x)
    BY <1>2, <2>2 DEF Writes
  <2>3. CASE Declines(m, mgr', c, x)
    <3>1. ManagerFallback \in Verdict /\ <<>> \in Seq(Verdict)
      BY ConfigAssumption DEF Refusal, Verdict
    <3>2. Append(<<>>, ManagerFallback)[1] = ManagerFallback
      BY <3>1, FirstPacket
    <3> QED BY <1>2, <2>3, <3>2 DEF Declines
  <2> QED BY <1>1, <2>1, <2>2, <2>3
<1>7. \A d \in Child : /\ mgr'.ctx[d].attached = mgr.ctx[d].attached
                       /\ mgr'.ctx[d].quitted = mgr.ctx[d].quitted
                       /\ mgr'.ctx[d].pmsg = mgr.ctx[d].pmsg
  <2> TAKE d \in Child
  <2>1. d # c => mgr'.ctx[d] = m.ctx[d]
    BY <1>1 DEF Gives
  <2> QED BY <1>1, <1>2, <2>1
<1>8. mgr'.waiting = m.waiting
      /\ \A y \in Slot : mgr'.rs[y] = mgr.rs[y] \/ mgr'.rs[y] \notin Refusal
  BY <1>1, <1>2 DEF Gives, SameMessage
<1>9. Owned(mgr', joined, verdict)
  <2>1. \A y \in Slot : mgr'.rs[y] \in Refusal => \E d \in joined : verdict[d] = mgr'.rs[y]
    BY <1>8 DEF Owned
  <2> QED BY <1>4, <1>6, <1>7, <1>8, <2>1 DEF Owned, Processing
<1>10. Final(mgr', verdict)
  BY <1>2, <1>5, <1>7, <1>8 DEF Final
<1> QED BY <1>9, <1>10

\* An answer of a child.
LEMMA OwnedReply ==
    ASSUME TurnInv, Owned(mgr, joined, verdict), Final(mgr, verdict), NEW c \in Child,
           NEW r \in Verdict, Reply(c, r)
    PROVE  Owned(mgr', joined, verdict') /\ Final(mgr', verdict')
<1> DEFINE k == mgr.ctx[c]
           e == Effective(c, r)
           after(h) == With(mgr, c, h, k.state, e)
<1>1. /\ TypeOK /\ mgr \in Manager /\ k \in Context /\ k.attached /\ k.owes /\ Working(k)
      /\ k.state \in Slot /\ mgr' = Heard(c, r) /\ verdict \in [Child -> Status]
      /\ joined \in SUBSET Child
  BY DEF TurnInv, TypeOK, Manager, Context, Reply, Working
<1>2. c \in joined /\ verdict[c] \notin Refusal
  BY <1>1, WorkerTakesPart
<1>3. k.next = <<>> /\ k.attached = ~k.quitted
  BY <1>1 DEF TurnInv, InTurn, Alive, Orderly
<1>4. e \in Status /\ (e \in Refusal => e = r) /\ (r \notin Refusal => e = r)
  BY DEF Effective, Status, Verdict, Refusal
<1>5. /\ verdict' \in [Child -> Status]
      /\ \A d \in Child : d # c => verdict'[d] = verdict[d]
      /\ verdict'[c] = verdict[c] \/ verdict'[c] = r
      /\ r \in Refusal => verdict'[c] = r
  BY <1>1 DEF Reply, Decide, Status
<1>6. ASSUME NEW h \in {Quiet(k), Out(k), Skips(k)}
      PROVE  /\ after(h) \in Manager /\ Alive(after(h)) /\ Resting(after(h))
             /\ Owned(after(h), joined, verdict')
             /\ r \notin Refusal => Final(after(h), verdict')
  <2>1. h \in Context /\ Rests(h) /\ h.attached = ~h.quitted
        /\ (h.pmsg => k.pmsg) /\ h.quitted = k.quitted
    BY <1>1, <1>3, AnsweredRests
  <2>2. after(h) \in Manager /\ Alive(after(h)) /\ Resting(after(h))
    BY <1>1, <1>4, <2>1, WithRests DEF TurnInv
  <2>3. h.pmsg => Processing(k)
    BY <1>3, <2>1, <1>1 DEF Processing
  <2>4. e \in Refusal => verdict'[c] = e
    BY <1>4, <1>5
  <2> DEFINE w == verdict'
             s == k.state
             b == With(mgr, c, h, s, e)
  <2>5. /\ w \in [Child -> Status] /\ (\A d \in Child : d # c => w[d] = verdict[d])
        /\ e \in Refusal => w[c] = e
    BY <1>5, <2>4
  <2>6. k.quitted \/ (h.pmsg => Processing(mgr.ctx[c]))
    BY <2>3
  <2>7. b = after(h) /\ s \in Slot
    BY <1>1
  <2> HIDE DEF w, e, s
  <2>8. /\ Owned(b, joined, w)
        /\ w[c] \notin Refusal \/ ~h.attached => Final(b, w)
    BY <1>1, <1>2, <1>4, <2>1, <2>5, <2>6, <2>7, OwnedWith
  <2>9. /\ Owned(after(h), joined, verdict')
        /\ verdict'[c] \notin Refusal \/ ~h.attached => Final(after(h), verdict')
    BY <2>7, <2>8 DEF w
  <2> QED BY <1>2, <1>5, <2>2, <2>9
<1>7. /\ r = "continue" /\ k.state = "end-of-message" => mgr' = NextChild(after(Quiet(k)), c)
      /\ r = "continue" /\ k.state # "end-of-message" => mgr' = Proceed(after(Quiet(k)), c, k.state)
      /\ r = "skip" /\ mgr.st # "end-of-message" => mgr' = Say(after(Skips(k)), "continue")
      /\ r = "skip" /\ mgr.st = "end-of-message" => mgr' = Proceed(after(Skips(k)), c, "body")
      /\ r = "accept" => mgr' = NextChild(after(Out(k)), c)
      /\ r \in Refusal => mgr' = AbortAll(EmitOnce(after(Out(k)), k.state))
  BY <1>1, HeardIs
<1> HIDE DEF after, e
<1>8. CASE r = "continue"
  <2>1. Owned(after(Quiet(k)), joined, verdict') /\ Final(after(Quiet(k)), verdict')
        /\ after(Quiet(k)) \in Manager
    BY <1>6, <1>8 DEF Refusal
  <2> QED BY <1>7, <1>8, <2>1, OwnedNext, OwnedProceed
<1>9. CASE r = "accept"
  <2>1. Owned(after(Out(k)), joined, verdict') /\ Final(after(Out(k)), verdict')
        /\ after(Out(k)) \in Manager
    BY <1>6, <1>9 DEF Refusal
  <2> QED BY <1>7, <1>9, <2>1, OwnedNext
<1>10. CASE r = "skip"
  <2> DEFINE a == after(Skips(k))
  <2>1. Owned(a, joined, verdict') /\ Final(a, verdict') /\ a \in Manager
    BY <1>6, <1>10 DEF Refusal
  <2> HIDE DEF a
  <2>2. CASE mgr.st = "end-of-message"
    BY <1>7, <1>10, <2>1, <2>2, OwnedProceed DEF a
  <2>3. CASE mgr.st # "end-of-message"
    <3>1. mgr' = Say(a, "continue") /\ "continue" \in Status
      BY <1>7, <1>10, <2>3 DEF a, Status, Verdict
    <3>2. mgr'.rs = a.rs /\ mgr'.ctx = a.ctx /\ mgr'.waiting = a.waiting
          /\ Tells(a, mgr', "continue")
      BY <2>1, <3>1, SayFrame DEF SameWork, SameMessage
    <3>3. mgr'.packets # <<>> /\ mgr'.packets[1] \in Refusal =>
             a.packets # <<>> /\ mgr'.packets[1] = a.packets[1]
      BY <2>1, <3>1, <3>2, TellsFirst DEF Refusal
    <3> QED BY <2>1, <3>2, <3>3 DEF Owned, Final
  <2> QED BY <2>2, <2>3
<1>11. CASE r \in Refusal
  <2> DEFINE a == after(Out(k))
             b == EmitOnce(a, k.state)
  <2>1. Owned(a, joined, verdict') /\ a \in Manager /\ Alive(a) /\ Resting(a)
    BY <1>6
  <2> HIDE DEF a
  <2>2. Emits(a, b, k.state)
    BY <1>1, <2>1, EmitFrame
  <2> HIDE DEF b
  <2>3. Owned(b, joined, verdict') /\ b \in Manager /\ Alive(b)
    BY <1>1, <2>1, <2>2, OwnedEmits, EndRests
  <2>4. mgr' = AbortAll(b)
    BY <1>7, <1>11 DEF a, b
  <2> QED BY <2>3, <2>4, OwnedAbort
<1> QED BY <1>8, <1>9, <1>10, <1>11 DEF Verdict, Refusal

\* A failure of a child at work, or the end of its connection.
LEMMA OwnedFail ==
    ASSUME TurnInv, Owned(mgr, joined, verdict), Final(mgr, verdict), NEW c \in Child,
           mgr.ctx[c].attached, Working(mgr.ctx[c]),
           verdict' = [verdict EXCEPT ![c] = Fallback[c]]
    PROVE  LET fell == With(mgr, c, Expired(mgr.ctx[c]), mgr.ctx[c].state, Fallback[c])
           IN  /\ Owned(fell, joined, verdict') /\ Final(fell, verdict')
               /\ Owned(Concluded(fell), joined, verdict') /\ Final(Concluded(fell), verdict')
               /\ Owned(NextChild(fell, c), joined, verdict')
               /\ Final(NextChild(fell, c), verdict')
<1> DEFINE k == mgr.ctx[c]
           h == Expired(k)
           fell == With(mgr, c, h, k.state, Fallback[c])
<1>1. /\ mgr \in Manager /\ k \in Context /\ k.state \in Slot /\ Fallback[c] \in Status
      /\ verdict \in [Child -> Status] /\ joined \in SUBSET Child
  BY FallbackType DEF TurnInv, TypeOK, Manager, Context
<1>2. c \in joined /\ verdict[c] \notin Refusal
  BY WorkerTakesPart
<1>3. h \in Context /\ Rests(h) /\ h.quitted /\ ~h.attached /\ h.attached = ~h.quitted
  BY <1>1, AnsweredRests DEF Context
<1>4. /\ verdict' \in [Child -> Status] /\ verdict'[c] = Fallback[c]
      /\ \A d \in Child : d # c => verdict'[d] = verdict[d]
  BY <1>1
<1> HIDE DEF h
<1>5. fell \in Manager /\ Owned(fell, joined, verdict') /\ Final(fell, verdict')
  <2> DEFINE w == verdict'
             s == k.state
             st == Fallback[c]
  <2>1. /\ w \in [Child -> Status] /\ (\A d \in Child : d # c => w[d] = verdict[d])
        /\ w[c] = st
    BY <1>4
  <2>2. s \in Slot /\ st \in Status
    BY <1>1
  <2> HIDE DEF w, s, st
  <2>3. LET b == With(mgr, c, h, s, st)
        IN  /\ b \in Manager /\ Owned(b, joined, w)
            /\ w[c] \notin Refusal \/ ~h.attached => Final(b, w)
    <3>1. mgr \in Manager /\ joined \in SUBSET Child /\ verdict \in [Child -> Status]
          /\ Owned(mgr, joined, verdict) /\ Final(mgr, verdict)
      BY <1>1
    <3> QED BY <1>2, <1>3, <2>1, <2>2, <3>1, OwnedWith
  <2> QED BY <1>3, <2>3 DEF w, s, st
<1>6. Resting(fell) /\ Alive(fell)
  BY <1>1, <1>3, WithRests DEF TurnInv
<1> HIDE DEF fell
<1>7. Owned(NextChild(fell, c), joined, verdict') /\ Final(NextChild(fell, c), verdict')
  BY <1>5, OwnedNext
<1>8. Owned(Concluded(fell), joined, verdict') /\ Final(Concluded(fell), verdict')
  <2> DEFINE s == fell.pst
             b == EmitSlot(fell, s)
  <2>1. s \in Slot
    BY <1>5 DEF Manager
  <2>2. Emits(fell, b, s)
    BY <1>5, <2>1, EmitFrame
  <2>3. Concluded(fell) = b \/ Concluded(fell) = AbortAll(b)
    BY DEF Concluded
  <2> HIDE DEF b, s
  <2>4. Owned(b, joined, verdict') /\ Final(b, verdict') /\ b \in Manager /\ Alive(b)
    BY <1>5, <1>6, <2>1, <2>2, OwnedEmits, EndRests
  <2>5. Owned(AbortAll(b), joined, verdict') /\ Final(AbortAll(b), verdict')
    BY <2>4, OwnedAbort
  <2> QED BY <2>3, <2>4, <2>5
<1> QED BY <1>5, <1>7, <1>8 DEF fell, h

\* Every step of the first message keeps the refusals owned.
LEMMA OwnStep ==
    ASSUME TurnInv, OwnInv, [Next]_vars, TurnInv', "idle" \notin Faults,
           ManagerFallback \notin Refusal
    PROVE  OwnInv'
<1>1. /\ TypeOK /\ mgr \in Manager /\ mta \in MtaType /\ InTurn(mgr, mta.cmd) /\ Alive(mgr)
      /\ verdict \in [Child -> Status] /\ joined \in SUBSET Child
  BY DEF TurnInv, TypeOK, MtaType, InTurn
<1>2. CASE UNCHANGED vars
  BY <1>2 DEF vars, OwnInv
<1>3. CASE NewMessage
  <2>1. mta'.messages = mta.messages + 1 /\ mta.messages \in Nat
    BY <1>1, <1>3 DEF NewMessage, MtaType
  <2>2. CASE mta.messages # 0
    BY <2>1, <2>2 DEF OwnInv
  <2>3. CASE mta.messages = 0
    <3>1. joined = {} /\ Owned(mgr, {}, verdict)
      BY <2>3 DEF OwnInv
    <3>2. \A c \in Child : verdict'[c] = "not-change"
      BY <1>3 DEF NewMessage
    <3>3. /\ mgr'.packets = <<>> /\ mgr'.waiting = mgr.waiting
          /\ \A s \in Slot : mgr'.rs[s] = IF s = "data" THEN "continue" ELSE mgr.rs[s]
          /\ \A c \in Child : /\ ~mgr.ctx[c].quitted => (mgr'.ctx[c].pmsg <=> c \in joined')
                              /\ mgr'.ctx[c].quitted = mgr.ctx[c].quitted
      BY <1>1, <1>3, NewMessageFrame
    <3>4. Owned(mgr', joined', verdict')
      BY <3>1, <3>3 DEF Owned, Processing, Refusal
    <3>5. Final(mgr', verdict')
      BY <3>2 DEF Final, Refusal
    <3> QED BY <2>1, <2>3, <3>4, <3>5 DEF OwnInv
  <2> QED BY <2>2, <2>3
<1> DEFINE Keeps == Owned(mgr, joined, verdict) /\ Final(mgr, verdict) =>
                        Owned(mgr', joined, verdict') /\ Final(mgr', verdict')
<1>4. ASSUME mta'.messages = mta.messages, joined' = joined, Keeps
      PROVE  OwnInv'
  BY <1>4 DEF OwnInv
<1>5. CASE MtaAbort
  <2>1. /\ mgr'.waiting = {} /\ mgr'.packets = <<>> /\ mgr'.rs = mgr.rs
        /\ \A c \in Child : /\ mgr'.ctx[c].attached = mgr.ctx[c].attached
                            /\ mgr'.ctx[c].quitted = mgr.ctx[c].quitted
                            /\ ~mgr.ctx[c].quitted => ~mgr'.ctx[c].pmsg
    BY <1>1, <1>5, AbortFrame DEF Disposed
  <2>2. mta'.messages = mta.messages /\ UNCHANGED <<joined, verdict>>
    BY <1>1, <1>5 DEF MtaAbort, MtaType
  <2>3. \A c \in Child : /\ ~Processing(mgr'.ctx[c]) \/ Processing(mgr.ctx[c])
                         /\ mgr'.ctx[c].attached => ~mgr'.ctx[c].pmsg
    BY <1>1, <2>1 DEF Processing, Alive
  <2>4. Owned(mgr, joined, verdict) => Owned(mgr', joined, verdict')
    BY <2>1, <2>2, <2>3 DEF Owned
  <2>5. Final(mgr', verdict')
    BY <2>1, <2>3 DEF Final
  <2> QED BY <1>4, <2>2, <2>4, <2>5
<1>6. ASSUME NEW x \in MessageCommand, SendCommand(x)
      PROVE  OwnInv'
  <2>1. mta'.messages = mta.messages /\ UNCHANGED <<joined, verdict>>
    BY <1>1, <1>6, SentType DEF SendCommand
  <2>2. Keeps
    BY <1>1, <1>6, <2>1, OwnedSend
  <2> QED BY <1>4, <2>1, <2>2
<1>7. ASSUME NEW x \in MessageCommand, RefuseCommand(x)
      PROVE  OwnInv'
  <2>1. mta'.messages = mta.messages /\ UNCHANGED <<joined, verdict>>
    BY <1>1, <1>7, SentType DEF RefuseCommand
  <2>2. /\ mgr'.rs = mgr.rs /\ mgr'.ctx = mgr.ctx /\ mgr'.waiting = mgr.waiting
        /\ mgr'.packets = <<ManagerFallback, ManagerFallback>>
    BY <1>1, <1>7, RefuseFrame DEF SameWork, SameMessage
  <2>3. mgr'.packets[1] \notin Refusal
    BY <2>2
  <2>4. Keeps
    BY <2>1, <2>2, <2>3 DEF Owned, Final
  <2> QED BY <1>4, <2>1, <2>4
<1>8. ASSUME NEW c \in Child, ChildNext(c)
      PROVE  OwnInv'
  <2> DEFINE k == mgr.ctx[c]
  <2>0. k \in Context
    BY <1>1 DEF Manager
  <2>1. CASE Flush(c)
    <3>1. k.next # <<>> /\ k.attached /\ UNCHANGED <<mta, joined, verdict>>
      BY <2>1 DEF Flush
    <3>2. /\ Flushed(k) \in Context /\ Flushed(k).attached = k.attached
          /\ Flushed(k).quitted = k.quitted /\ (Flushed(k).pmsg => k.pmsg)
      BY <2>0, <3>1, FlushedWorks
    <3>3. mgr' = [mgr EXCEPT !.ctx[c] = Flushed(k)]
      BY <2>1 DEF Flush
    <3>4. /\ mgr'.packets = mgr.packets /\ mgr'.ctx[c] = Flushed(k) /\ mgr'.rs = mgr.rs
          /\ mgr'.waiting = mgr.waiting
          /\ \A d \in Child : d # c => mgr'.ctx[d] = mgr.ctx[d]
      BY <1>1, <3>2, <3>3, CtxFrame DEF SameMessage
    <3>5. Keeps
      BY <3>1, <3>2, <3>4 DEF Owned, Final, Processing
    <3> QED BY <1>4, <3>1, <3>5
  <2>2. ASSUME NEW r \in Answers, Reply(c, r)
        PROVE  OwnInv'
    <3>1. r \in Verdict /\ UNCHANGED <<mta, joined>>
      BY <2>2, ConfigAssumption DEF Reply
    <3>2. Keeps
      BY <2>2, <3>1, OwnedReply
    <3> QED BY <1>4, <3>1, <3>2
  <2>3. ASSUME NEW e \in Edits, Edit(c, e)
        PROVE  OwnInv'
    <3>1. /\ mgr'.rs = mgr.rs /\ mgr'.ctx = mgr.ctx /\ mgr'.waiting = mgr.waiting
          /\ mgr'.packets = mgr.packets
      BY <1>1, <2>3, EditFrame
    <3>2. mta'.messages = mta.messages /\ UNCHANGED <<joined, verdict>>
      BY <1>1, <2>3 DEF Edit, MtaType
    <3>3. Keeps
      BY <3>1, <3>2 DEF Owned, Final
    <3> QED BY <1>4, <3>2, <3>3
  <2>4. ASSUME Timeout(c) \/ ChildError(c)
        PROVE  OwnInv'
    <3>1. /\ k.attached /\ mgr' = Failed(c) /\ UNCHANGED <<mta, joined>>
          /\ verdict' = [verdict EXCEPT ![c] = Fallback[c]]
      BY <2>4 DEF Timeout, ChildError, Fail, Decide
    <3>2. Working(k)
      BY <1>1, <2>4 DEF Timeout, ChildError, InTurn, Orderly
    <3>3. mgr' = Concluded(With(mgr, c, Expired(k), k.state, Fallback[c]))
      BY <1>1, <3>1, FailedIs
    <3>4. Keeps
      BY <3>1, <3>2, <3>3, OwnedFail
    <3> QED BY <1>4, <3>1, <3>4
  <2>5. CASE ChildFinished(c)
    <3> DEFINE fell == With(mgr, c, Expired(k), k.state, Fallback[c])
    <3>1. k.attached /\ UNCHANGED <<mta, joined>>
      BY <2>5 DEF ChildFinished
    <3>2. CASE k.timer = "none"
      <4>1. mgr' = [mgr EXCEPT !.ctx[c] = Expired(k)] /\ UNCHANGED verdict
        BY <1>1, <2>5, <3>2, FailedIs DEF ChildFinished
      <4>2. Expired(k) \in Context /\ ~Expired(k).attached /\ Expired(k).quitted
        BY <2>0, AnsweredRests
      <4>3. /\ mgr'.packets = mgr.packets /\ mgr'.ctx[c] = Expired(k) /\ mgr'.rs = mgr.rs
            /\ mgr'.waiting = mgr.waiting
            /\ \A d \in Child : d # c => mgr'.ctx[d] = mgr.ctx[d]
        BY <1>1, <4>1, <4>2, CtxFrame DEF SameMessage
      <4>4. Keeps
        BY <4>1, <4>2, <4>3 DEF Owned, Final, Processing
      <4> QED BY <1>4, <3>1, <4>4
    <3>3. CASE k.timer # "none"
      <4>1. verdict' = [verdict EXCEPT ![c] = Fallback[c]]
        BY <2>5, <3>3 DEF ChildFinished, Decide
      <4>2. Working(k)
        BY <1>1, <3>1, <3>3 DEF InTurn, Orderly
      <4>3. mgr' \in {fell, NextChild(fell, c), Concluded(fell)}
        BY <1>1, <2>5, <3>3, FailedIs DEF ChildFinished, Concluded
      <4>4. Keeps
        <5> HIDE DEF fell
        <5> SUFFICES ASSUME Owned(mgr, joined, verdict), Final(mgr, verdict)
                     PROVE  Owned(mgr', joined, verdict') /\ Final(mgr', verdict')
          OBVIOUS
        <5>1. /\ Owned(fell, joined, verdict') /\ Final(fell, verdict')
              /\ Owned(Concluded(fell), joined, verdict')
              /\ Final(Concluded(fell), verdict')
              /\ Owned(NextChild(fell, c), joined, verdict')
              /\ Final(NextChild(fell, c), verdict')
          BY <3>1, <4>1, <4>2, OwnedFail DEF fell
        <5> QED BY <4>3, <5>1
      <4> QED BY <1>4, <3>1, <4>4
    <3> QED BY <3>2, <3>3
  <2> QED BY <1>8, <2>1, <2>2, <2>3, <2>4, <2>5 DEF ChildNext, Hears
<1> QED BY <1>2, <1>3, <1>5, <1>6, <1>7, <1>8 DEF Next, MtaNext

\* The first message of a session is refused only with the refusal, or the fallback,
\* of a child that takes part in it, whatever the children answer and wherever a
\* working child fails.  (A later message may inherit a slot of reply_statuses.)
THEOREM RefusalOfAChild ==
    ASSUME "idle" \notin Faults, ManagerFallback \notin Refusal
    PROVE  Spec => [](mta.messages <= 1 => RefusalIsOwn)
<1>1. Init => TurnInv /\ OwnInv
  <2> SUFFICES ASSUME Init
               PROVE  TurnInv /\ OwnInv
    OBVIOUS
  <2>1. /\ \A s \in Slot : mgr.rs[s] = "not-change"
        /\ mgr.packets = <<>> /\ mgr.waiting = {} /\ joined = {}
        /\ \A c \in Child : ~mgr.ctx[c].pmsg /\ verdict[c] = "not-change"
    BY DEF Init
  <2>2. Owned(mgr, joined, verdict) /\ Final(mgr, verdict)
    BY <2>1 DEF Owned, Final, Processing, Refusal
  <2> QED BY <2>1, <2>2, TurnInit DEF OwnInv
<1>2. TurnInv /\ OwnInv /\ [Next]_vars => (TurnInv /\ OwnInv)'
  BY TurnStep, OwnStep
<1>3. TurnInv /\ OwnInv => (mta.messages <= 1 => RefusalIsOwn)
  BY DEF OwnInv, Owned, RefusalIsOwn, Waiting
<1> QED BY <1>1, <1>2, <1>3, PTL DEF Spec

-----------------------------------------------------------------------------
(* Every child decides *)

\* The MTA was told to deliver the message.
Passing(a, cmd) ==
    /\ cmd \in MessageCommand /\ a.packets # <<>>
    /\ a.packets[1] = "accept" \/ (cmd = "end-of-message" /\ a.packets[1] = "continue")

\* A child that takes part and has not decided is at the message and in the queue.
Pending(a, cmd, J, v) ==
    /\ \A c \in J : v[c] = "not-change" =>
          a.ctx[c].pmsg /\ (cmd \in MessageCommand => c \in a.waiting)
    /\ Passing(a, cmd) => \A c \in J : v[c] # "not-change"

\* All children are there, and what is written to one or asked of one is a command
\* of the message, its end only after the MTA has sent it.
Asks(a, cmd) ==
    \A c \in Child :
        LET k == a.ctx[c]
        IN  /\ k.attached /\ ~k.quitted
            /\ k.next # <<>> => /\ k.next[Len(k.next)] \in MessageCommand
                                /\ k.next[Len(k.next)] = "end-of-message" =>
                                       cmd = "end-of-message"
            /\ k.owes => /\ k.state \in MessageCommand
                         /\ k.state = "end-of-message" => cmd = "end-of-message"

\* The bookkeeping of the message that is replayed.
Replayable(a, cmd) ==
    /\ cmd \in {"data", "header"} => a.index <= a.headers
    /\ "end-of-message" \in a.cmds => cmd = "end-of-message"
    /\ "body" \in a.cmds => a.body > 0
    /\ cmd = "data" => a.waiting = {}

Decisive(a, cmd, J, v) == Pending(a, cmd, J, v) /\ Asks(a, cmd) /\ Replayable(a, cmd)

\* Before the first message
Fresh(a) == /\ a.waiting = {} /\ a.cmds = {} /\ a.index = 0
            /\ \A c \in Child : a.ctx[c].attached /\ ~a.ctx[c].quitted

DecisionInv ==
    /\ mta.messages = 0 => mta.cmd = "abort" /\ Fresh(mgr)
    /\ mta.messages = 1 /\ mta.cmd # "abort" /\ ~Refused =>
          Decisive(mgr, mta.cmd, joined, verdict)

\* A child at rest has nothing pending.
LEMMA RestingIdle ==
    ASSUME NEW a, NEW cmd, Resting(a), Asks(a, cmd), NEW c \in Child
    PROVE  a.ctx[c].next = <<>> /\ ~a.ctx[c].owes
BY DEF Resting, Rests, Working, Asks, MessageCommand

\* When the MTA has sent the end of the message, it is among what follows.
LEMMA EndFollows ==
    ASSUME NEW a \in Manager, NEW c \in Child, NEW s \in {"data"} \cup MessageCommand,
           s # "end-of-message", "end-of-message" \in a.cmds, "body" \in a.cmds => a.body > 0
    PROVE  "end-of-message" \in Wanted(a, c, s) /\ Given(a, c, s) # {}
<1>1. Position[s] < Position["end-of-message"]
  BY DEF Position, MessageCommand
<1>2. "body" \in Todo(a, s) /\ s # "body" => "body" \in a.cmds
  BY DEF Todo
<1>3. "end-of-message" \in Todo(a, s)
  <2> DEFINE all == {x \in a.cmds : Position[x] > Position[s]}
                 \cup (IF s = "header" /\ a.index < a.headers THEN {"header"} ELSE {})
                 \cup (IF s = "body" /\ a.sending /\ a.offset < a.body THEN {"body"} ELSE {})
  <2>1. "end-of-message" \in all
    <3>1. Position["end-of-message"] > Position[s]
      BY <1>1 DEF Position, MessageCommand
    <3> QED BY <3>1
  <2>2. ~Emptied(a, s)
    BY DEF Emptied
  <2>3. Todo(a, s) = IF Emptied(a, s) THEN {x \in all : Position[x] < Position["body"]}
                     ELSE all
    BY DEF Todo
  <2> HIDE DEF all
  <2> QED BY <2>1, <2>2, <2>3
<1>4. "end-of-message" \notin NoStep[c]
  BY ConfigAssumption
<1>5. "end-of-message" \in Wanted(a, c, s)
  BY <1>3, <1>4 DEF Wanted
<1> QED BY <1>5, ReplaySets

\* What is given is a command that was sent; the end only if it was.
LEMMA GivenWasSent ==
    ASSUME NEW a \in Manager, NEW c \in Child, NEW s, Given(a, c, s) # {}
    PROVE  LET x == Earliest(Wanted(a, c, s))
           IN  x \in MessageCommand /\ (x = "end-of-message" => x \in a.cmds)
<1>1. Earliest(Wanted(a, c, s)) \in Todo(a, s) /\ Todo(a, s) \subseteq MessageCommand
  BY ReplaySets
<1>2. "end-of-message" \in Todo(a, s) => "end-of-message" \in a.cmds
  BY DEF Todo
<1> QED BY <1>1, <1>2

\* The headers are replayed one after the other.
LEMMA IndexBound ==
    ASSUME NEW a \in Manager, NEW c \in Child, NEW s \in {"data"} \cup MessageCommand,
           a.index <= a.headers, s = "data" => a.index = 0, ~NothingFirst(a, s)
    PROVE  NewIndex(a, c, s) <= a.headers
<1>1. a.index \in Nat /\ a.headers \in Nat /\ a.cmds \subseteq MessageCommand
  BY DEF Manager
<1>2. Given(a, c, s) = {"header"} => a.index + 1 <= a.headers
  <2> SUFFICES ASSUME Given(a, c, s) = {"header"}
               PROVE  a.index + 1 <= a.headers
    OBVIOUS
  <2>1. "header" \in Todo(a, s)
    BY ReplaySets
  <2>2. CASE s = "header" /\ a.index < a.headers
    BY <1>1, <2>2
  <2>3. CASE ~(s = "header" /\ a.index < a.headers)
    <3>1. "header" \in a.cmds /\ Position["header"] > Position[s]
      BY <2>1, <2>3 DEF Todo
    <3>2. s = "data"
      BY <3>1 DEF Position, MessageCommand
    <3>3. Earliest(a.cmds) = "header"
      <4>1. Earliest(a.cmds) \in a.cmds /\ Position[Earliest(a.cmds)] <= Position["header"]
        BY <1>1, <3>1, EarliestOf
      <4> QED BY <1>1, <4>1 DEF Position, MessageCommand
    <3>4. a.headers # 0
      BY <3>2, <3>3 DEF NothingFirst
    <3> QED BY <1>1, <3>2, <3>4
  <2> QED BY <2>2, <2>3
<1>3. NewIndex(a, c, s) \in {0, a.headers, a.index}
      \/ (Given(a, c, s) = {"header"} /\ NewIndex(a, c, s) = a.index + 1)
  <2>1. {"header"} # {"end-of-message"}
    OBVIOUS
  <2> QED BY <2>1, Zenon DEF NewIndex
<1> QED BY <1>1, <1>2, <1>3

\* The replay decides for nobody.
LEMMA DecisiveProceed ==
    ASSUME NEW a \in Manager, NEW cmd, NEW J, NEW v, Decisive(a, cmd, J, v), Resting(a),
           Turn(a, cmd), NEW c \in Child, NEW s \in {"data"} \cup MessageCommand,
           s # "end-of-message", s = "data" => a.index = 0
    PROVE  Decisive(Proceed(a, c, s), cmd, J, v)
<1> DEFINE b == Proceed(a, c, s)
           w == NewCtx(a, c, s)
           x == Earliest(Wanted(a, c, s))
<1>1. CASE b = a
  BY <1>1
<1>2. CASE b # a
  <2>1. /\ Gives(a, b, c) /\ a.ctx[c].attached /\ ~NothingFirst(a, s)
        /\ b.ctx[c] = w /\ b.index = NewIndex(a, c, s)
        /\ \/ Given(a, c, s) = {} /\ Tells(a, b, "continue")
           \/ Given(a, c, s) # {} /\ b.packets = a.packets
    BY <1>2, ProceedFrame
  <2>2. /\ w.attached = a.ctx[c].attached /\ w.quitted = a.ctx[c].quitted
        /\ w.pmsg = a.ctx[c].pmsg /\ w.owes = a.ctx[c].owes
        /\ Given(a, c, s) = {} => w.next = a.ctx[c].next
        /\ Given(a, c, s) # {} => w.next # <<>> /\ w.next[Len(w.next)] = x
    BY NewCtxFrame
  <2>3. /\ b.waiting = a.waiting /\ b.cmds = a.cmds /\ b.headers = a.headers
        /\ b.body = a.body /\ \A d \in Child : d # c => b.ctx[d] = a.ctx[d]
    BY <2>1 DEF Gives, SameMessage
  <2>4. a.ctx[c].next = <<>> /\ ~a.ctx[c].owes
    BY RestingIdle DEF Decisive
  <2>5. Given(a, c, s) # {} => /\ x \in MessageCommand
                               /\ x = "end-of-message" => cmd = "end-of-message"
    BY GivenWasSent DEF Decisive, Replayable
  <2> HIDE DEF b, w, x
  <2>6. Asks(b, cmd)
    BY <2>1, <2>2, <2>3, <2>4, <2>5 DEF Asks, Decisive
  <2>7. ~Passing(b, cmd)
    <3>1. a.packets = <<>> /\ cmd \in a.cmds
      BY DEF Turn
    <3>2. CASE Given(a, c, s) # {} /\ b.packets = a.packets
      BY <3>1, <3>2 DEF Passing
    <3>3. CASE Given(a, c, s) = {} /\ Tells(a, b, "continue")
      <4>1. cmd # "end-of-message"
        BY <3>1, <3>3, EndFollows DEF Decisive, Replayable
      <4>2. b.packets # <<>> => b.packets[1] = "continue"
        BY <3>1, <3>3, TellsFirst DEF Status, Verdict
      <4> QED BY <4>1, <4>2 DEF Passing
    <3> QED BY <2>1, <3>2, <3>3
  <2>8. Pending(b, cmd, J, v)
    <3>1. \A d : b.ctx[d].pmsg = a.ctx[d].pmsg \/ d \notin Child
      BY <2>1, <2>2, <2>3
    <3>2. ASSUME NEW d \in J, v[d] = "not-change"
          PROVE  b.ctx[d].pmsg /\ (cmd \in MessageCommand => d \in b.waiting)
      <4>1. a.ctx[d].pmsg /\ d \in a.waiting /\ d \in Child
        BY <3>2 DEF Decisive, Pending, Turn, Manager
      <4> QED BY <2>3, <3>1, <4>1
    <3> QED BY <2>7, <3>2 DEF Pending
  <2>9. Replayable(b, cmd)
    <3>1. cmd \in {"data", "header"} => b.index <= b.headers
      BY <2>1, <2>3, IndexBound DEF Decisive, Replayable
    <3> QED BY <2>3, <3>1 DEF Decisive, Replayable
  <2> QED BY <2>6, <2>8, <2>9 DEF Decisive, b
<1> QED BY <1>1, <1>2

\* A child that has decided makes room for the next one.
LEMMA DecisiveNext ==
    ASSUME NEW a \in Manager, NEW cmd, NEW J \in SUBSET Child, NEW v,
           Decisive(a, cmd, J, v), Resting(a), Turn(a, cmd), NEW c \in Child,
           v[c] # "not-change"
    PROVE  Decisive(NextChild(a, c), cmd, J, v)
<1> DEFINE d == Dropped(a, c)
           b == NextChild(a, c)
<1>1. /\ d \in Manager /\ d.index = 0 /\ d.waiting = a.waiting \ {c} /\ d.st = a.st
      /\ d.cmds = a.cmds /\ d.headers = a.headers /\ d.body = a.body /\ d.ctx = a.ctx
      /\ d.packets = a.packets
      /\ d.waiting = {} => Emits(d, b, d.st)
      /\ d.waiting # {} => b = Proceed(d, First(d.waiting), "data")
                           /\ First(d.waiting) \in Child
  BY NextChildFrame
<1> HIDE DEF d, b
<1>2. a.packets = <<>> /\ cmd \in MessageCommand
  BY DEF Turn
<1>3. \A e \in J : v[e] = "not-change" => d.ctx[e].pmsg /\ e \in d.waiting
  BY <1>1, <1>2 DEF Decisive, Pending
<1>4. Asks(d, cmd)
  BY <1>1 DEF Asks, Decisive
<1>5. Replayable(d, cmd)
  <2>1. d.headers \in Nat /\ cmd # "data"
    BY <1>1, <1>2 DEF Manager, MessageCommand
  <2> QED BY <1>1, <2>1 DEF Replayable, Decisive
<1>6. CASE d.waiting = {}
  <2>1. \A e \in J : v[e] # "not-change"
    BY <1>3, <1>6
  <2>2. b.ctx = d.ctx /\ b.index = d.index /\ b \in Manager
        /\ (SameMessage(d, b) \/ Disposed(b))
    BY <1>1, <1>6 DEF Emits, SameWork
  <2>3. Asks(b, cmd)
    BY <1>4, <2>2 DEF Asks
  <2>4. Replayable(b, cmd)
    <3>1. b.index <= b.headers /\ cmd # "data"
      BY <1>1, <1>2, <2>2 DEF Manager, MessageCommand
    <3> QED BY <1>5, <2>2, <3>1 DEF Replayable, SameMessage, Disposed
  <2> QED BY <2>1, <2>3, <2>4 DEF Decisive, Pending, b
<1>7. CASE d.waiting # {}
  <2>1. Resting(d) /\ Turn(d, cmd)
    BY <1>1, <1>7 DEF Resting, Turn
  <2>2. Decisive(d, cmd, J, v)
    BY <1>1, <1>2, <1>3, <1>4, <1>5 DEF Decisive, Pending, Passing
  <2> DEFINE f == First(d.waiting)
             s == "data"
  <2>3. f \in Child /\ b = Proceed(d, f, s)
    BY <1>1, <1>7
  <2>4. s \in {"data"} \cup MessageCommand /\ s # "end-of-message" /\ (s = "data" => d.index = 0)
    BY <1>1
  <2> HIDE DEF f, s
  <2>5. Decisive(Proceed(d, f, s), cmd, J, v)
    BY <1>1, <2>1, <2>2, <2>3, <2>4, DecisiveProceed
  <2> QED BY <2>3, <2>5 DEF b
<1> QED BY <1>6, <1>7

\* A child that answers and decides, or goes on without a decision.
LEMMA DecisiveWith ==
    ASSUME NEW a \in Manager, NEW cmd, NEW J \in SUBSET Child, NEW v, NEW w,
           Decisive(a, cmd, J, v), Turn(a, cmd), NEW c \in Child, NEW k \in Context,
           k.attached, ~k.quitted, k.next = <<>>, ~k.owes,
           NEW s \in Slot, NEW st \in Status,
           \A d \in Child : d # c => w[d] = v[d],
           w[c] # "not-change" \/ (w[c] = v[c] /\ k.pmsg = a.ctx[c].pmsg)
    PROVE  Decisive(With(a, c, k, s, st), cmd, J, w)
<1> DEFINE b == With(a, c, k, s, st)
<1>1. /\ b \in Manager /\ SameMessage(a, b) /\ b.packets = a.packets /\ b.index = a.index
      /\ b.ctx[c] = k /\ \A d \in Child : d # c => b.ctx[d] = a.ctx[d]
  BY WithFrame
<1> HIDE DEF b
<1>2. ~Passing(b, cmd) /\ cmd \in MessageCommand
  BY <1>1 DEF Turn, Passing
<1>3. \A d \in J : w[d] = "not-change" => b.ctx[d].pmsg /\ d \in b.waiting
  <2> SUFFICES ASSUME NEW d \in J, w[d] = "not-change"
               PROVE  b.ctx[d].pmsg /\ d \in b.waiting
    OBVIOUS
  <2>1. v[d] = "not-change"
    OBVIOUS
  <2>2. a.ctx[d].pmsg /\ d \in a.waiting
    BY <1>2, <2>1 DEF Decisive, Pending
  <2> QED BY <1>1, <2>2 DEF SameMessage
<1>4. Asks(b, cmd)
  BY <1>1 DEF Asks, Decisive
<1>5. Replayable(b, cmd)
  BY <1>1 DEF Replayable, Decisive, SameMessage
<1> QED BY <1>2, <1>3, <1>4, <1>5 DEF Decisive, Pending, b

\* An answer that is no refusal.
LEMMA DecisiveReply ==
    ASSUME TurnInv, Decisive(mgr, mta.cmd, joined, verdict), NEW c \in Child,
           NEW r \in Verdict, r \notin Refusal, Reply(c, r)
    PROVE  Decisive(mgr', mta.cmd, joined, verdict')
<1> DEFINE k == mgr.ctx[c]
           e == Effective(c, r)
           s == k.state
           w == verdict'
           cmd == mta.cmd
           after(h) == With(mgr, c, h, s, e)
<1>1. /\ TypeOK /\ mgr \in Manager /\ k \in Context /\ k.attached /\ k.owes /\ Working(k)
      /\ s \in Slot /\ mgr' = Heard(c, r) /\ verdict \in [Child -> Status]
      /\ joined \in SUBSET Child /\ InTurn(mgr, cmd) /\ (r = "skip" => s = "body")
  BY DEF TurnInv, TypeOK, Manager, Context, Reply, Working
<1>2. k.next = <<>> /\ k.attached = ~k.quitted
  BY <1>1 DEF InTurn, Alive, Orderly
<1>3. Turn(mgr, cmd)
  BY <1>1, OthersRest
<1>4. e \in Status
  BY DEF Effective, Status, Verdict, Refusal
<1>5. /\ \A d \in Child : d # c => w[d] = verdict[d]
      /\ r = "accept" \/ s = "end-of-message" => w[c] = r
      /\ r # "accept" /\ s # "end-of-message" => w[c] = verdict[c]
  BY <1>1 DEF Reply, Decide, Status
<1>6. s \in MessageCommand
  BY <1>1 DEF Decisive, Asks
<1>7. ASSUME NEW h \in {Quiet(k), Out(k), Skips(k)},
             w[c] # "not-change" \/ (w[c] = verdict[c] /\ h.pmsg = k.pmsg)
      PROVE  /\ after(h) \in Manager /\ Resting(after(h)) /\ Turn(after(h), cmd)
             /\ Decisive(after(h), cmd, joined, w) /\ after(h).index = mgr.index
             /\ after(h).st = mgr.st
  <2>1. /\ h \in Context /\ Rests(h) /\ h.attached /\ ~h.quitted /\ h.next = <<>>
        /\ ~h.owes /\ h.attached = ~h.quitted
    <3>1. h \in Context /\ Rests(h) /\ h.attached = k.attached /\ h.quitted = k.quitted
          /\ h.next = <<>>
      <4>1. h \in Context /\ Rests(h)
        <5>1. h \in Context
          BY <1>1, AnsweredRests
        <5>2. Rests(h)
          BY <1>1, <1>2, AnsweredRests
        <5> QED BY <5>1, <5>2
      <4>2. h.attached = k.attached /\ h.quitted = k.quitted
        BY <1>1 DEF Quiet, Out, Skips, Context
      <4>3. h.next = k.next
        BY <1>1, AnsweredRests
      <4> QED BY <1>2, <4>1, <4>2, <4>3
    <3>2. ~h.owes
      BY <1>1 DEF Quiet, Out, Skips, Context
    <3>3. ~k.quitted
      BY <1>1, <1>2 DEF Context
    <3> QED BY <1>1, <1>2, <3>1, <3>2, <3>3
  <2>2. after(h) \in Manager /\ Resting(after(h)) /\ Turn(after(h), cmd)
    BY <1>1, <1>4, <2>1, WithRests
  <2>3. after(h).index = mgr.index /\ after(h).st = mgr.st
    BY <1>1, <1>4, <2>1, WithFrame
  <2>4. Decisive(mgr, cmd, joined, verdict)
    OBVIOUS
  <2> HIDE DEF w, e, s, cmd
  <2>5. Decisive(With(mgr, c, h, s, e), cmd, joined, w)
    BY <1>1, <1>3, <1>4, <1>5, <1>7, <2>1, <2>4, DecisiveWith
  <2> QED BY <2>2, <2>3, <2>5
<1>8. /\ r = "continue" /\ k.state = "end-of-message" => mgr' = NextChild(after(Quiet(k)), c)
      /\ r = "continue" /\ k.state # "end-of-message" => mgr' = Proceed(after(Quiet(k)), c, k.state)
      /\ r = "skip" /\ mgr.st # "end-of-message" => mgr' = Say(after(Skips(k)), "continue")
      /\ r = "skip" /\ mgr.st = "end-of-message" => mgr' = Proceed(after(Skips(k)), c, "body")
      /\ r = "accept" => mgr' = NextChild(after(Out(k)), c)
  BY <1>1, HeardIs
<1>9. Quiet(k).pmsg = k.pmsg /\ Skips(k).pmsg = k.pmsg
  BY <1>1, AnsweredRests
<1> HIDE DEF after, w
<1>10. CASE r = "accept"
  <2> DEFINE a == after(Out(k))
  <2>1. w[c] # "not-change"
    BY <1>5, <1>10
  <2>2. /\ a \in Manager /\ Resting(a) /\ Turn(a, cmd) /\ Decisive(a, cmd, joined, w)
    BY <1>7, <2>1
  <2> HIDE DEF a, cmd
  <2>3. Decisive(NextChild(a, c), cmd, joined, w)
    BY <1>1, <2>1, <2>2, DecisiveNext
  <2> QED BY <1>8, <1>10, <2>3 DEF a, cmd, w
<1>11. CASE r = "continue" /\ s = "end-of-message"
  <2> DEFINE a == after(Quiet(k))
  <2>1. w[c] # "not-change"
    BY <1>5, <1>11
  <2>2. /\ a \in Manager /\ Resting(a) /\ Turn(a, cmd) /\ Decisive(a, cmd, joined, w)
    BY <1>7, <2>1
  <2> HIDE DEF a, cmd
  <2>3. Decisive(NextChild(a, c), cmd, joined, w)
    BY <1>1, <2>1, <2>2, DecisiveNext
  <2> QED BY <1>8, <1>11, <2>3 DEF a, cmd, w
<1>12. CASE r = "continue" /\ s # "end-of-message"
  <2> DEFINE a == after(Quiet(k))
  <2>1. w[c] = verdict[c]
    BY <1>5, <1>12
  <2>2. /\ a \in Manager /\ Resting(a) /\ Turn(a, cmd) /\ Decisive(a, cmd, joined, w)
    BY <1>7, <1>9, <2>1
  <2>3. s # "data" /\ s \in {"data"} \cup MessageCommand
    BY <1>6 DEF MessageCommand
  <2> HIDE DEF a, cmd, s
  <2>4. Decisive(Proceed(a, c, s), cmd, joined, w)
    BY <1>12, <2>2, <2>3, DecisiveProceed
  <2> QED BY <1>8, <1>12, <2>4 DEF a, cmd, w, s
<1>13. CASE r = "skip"
  <2> DEFINE a == after(Skips(k))
  <2>1. w[c] = verdict[c]
    BY <1>1, <1>5, <1>13
  <2>2. /\ a \in Manager /\ Resting(a) /\ Turn(a, cmd) /\ Decisive(a, cmd, joined, w)
        /\ a.st = mgr.st
    BY <1>7, <1>9, <2>1
  <2> DEFINE t == "body"
  <2>3. t \in {"data"} \cup MessageCommand /\ t # "end-of-message" /\ t # "data"
    BY DEF MessageCommand
  <2> HIDE DEF a, cmd, t
  <2>4. CASE mgr.st = "end-of-message"
    <3>1. Decisive(Proceed(a, c, t), cmd, joined, w)
      BY <2>2, <2>3, DecisiveProceed
    <3> QED BY <1>8, <1>13, <2>4, <3>1 DEF a, cmd, w, t
  <2>5. CASE mgr.st # "end-of-message"
    <3>1. mgr' = Say(a, "continue") /\ "continue" \in Status
      BY <1>8, <1>13, <2>5 DEF a, Status, Verdict
    <3>2. /\ mgr'.ctx = a.ctx /\ mgr'.index = a.index /\ SameMessage(a, mgr')
          /\ Tells(a, mgr', "continue")
      BY <2>2, <3>1, SayFrame DEF SameWork
    <3>3. a.packets = <<>> /\ cmd # "end-of-message"
      BY <2>2, <2>5 DEF Turn
    <3>4. mgr'.packets # <<>> => mgr'.packets[1] = "continue"
      BY <2>2, <3>1, <3>2, <3>3, TellsFirst
    <3>5. ~Passing(mgr', cmd)
      BY <3>3, <3>4 DEF Passing
    <3>6. Decisive(mgr', cmd, joined, w)
      BY <2>2, <3>2, <3>5 DEF Decisive, Pending, Asks, Replayable, SameMessage
    <3> QED BY <3>6 DEF cmd, w
  <2> QED BY <2>4, <2>5
<1> QED BY <1>10, <1>11, <1>12, <1>13 DEF Verdict, Refusal

\* A command of the MTA, in a message that nobody refused.
LEMMA DecisiveSend ==
    ASSUME TurnInv, Decisive(mgr, mta.cmd, joined, verdict), NEW x \in MessageCommand,
           SendCommand(x)
    PROVE  Decisive(mgr', x, joined, verdict)
<1> DEFINE m == Taken(Asked(mgr), x)
           c == First(m.waiting)
           cmd == mta.cmd
<1>1. /\ mgr \in Manager /\ joined \in SUBSET Child /\ InTurn(mgr, cmd) /\ InMessage
      /\ Position[cmd] <= Position[x] /\ mgr.index \in Nat /\ mgr.headers \in Nat
      /\ mgr.body \in Nat
  BY DEF TurnInv, TypeOK, SendCommand, MaySend, Manager
<1>2. ~(cmd \in MessageCommand /\ mgr.packets = <<>>) /\ cmd # "end-of-message"
      /\ (x = "header" => cmd \in {"data", "header"})
  BY <1>1 DEF InMessage, MessageCommand, Position
<1>3. Resting(mgr)
  BY <1>1, <1>2, AnsweredResting
<1>4. \A d \in Child : mgr.ctx[d].next = <<>> /\ ~mgr.ctx[d].owes
  BY <1>3, RestingIdle DEF Decisive
<1>5. /\ c \in m.waiting /\ c \in Child /\ Gives(m, mgr', c) /\ mgr'.index = m.index
      /\ mgr'.ctx[c].attached = m.ctx[c].attached /\ mgr'.ctx[c].quitted = m.ctx[c].quitted
      /\ mgr'.ctx[c].pmsg = m.ctx[c].pmsg /\ mgr'.ctx[c].owes = m.ctx[c].owes
      /\ Passes(m, mgr', c, x) \/ Writes(m, mgr', c, x) \/ Declines(m, mgr', c, x)
  BY <1>1, SendFrame
<1>6. /\ mgr.waiting # {} => m.waiting = mgr.waiting
      /\ mgr.waiting = {} => \A d \in Child : d \in m.waiting <=> Processing(mgr.ctx[d])
  BY <1>1, TakenQueue
<1>7. m \in Manager /\ m.ctx = mgr.ctx /\ m.packets = <<>> /\ m.cmds = mgr.cmds \cup {x}
  <2>1. m \in Manager /\ m.ctx = mgr.ctx
    BY <1>1, TakenFrame
  <2>2. m.packets = <<>>
    BY <1>1, TakenFrame
  <2>3. m.cmds = mgr.cmds \cup {x}
    BY <1>1, TakenFrame
  <2> QED BY <2>1, <2>2, <2>3
<1>8. /\ x = "header" => m.index = mgr.index + 1 /\ m.headers = mgr.headers + 1
      /\ m.body = IF x = "body" THEN mgr.body + 1 ELSE mgr.body
  BY <1>1, TakenCounts
<1> HIDE DEF m, c
<1>9. x = "header" => m.index <= m.headers
  BY <1>1, <1>2, <1>8 DEF Decisive, Replayable
<1>10. /\ mgr'.waiting = m.waiting /\ mgr'.cmds = m.cmds /\ mgr'.headers = m.headers
       /\ mgr'.body = m.body /\ \A d \in Child : d # c => mgr'.ctx[d] = mgr.ctx[d]
  BY <1>5, <1>7 DEF Gives, SameMessage
<1>11. m.ctx[c] \in Context /\ m.ctx[c].timer = "none" /\ m.ctx[c].attached
  <2>1. mgr.ctx[c].attached /\ Rests(mgr.ctx[c]) /\ mgr.ctx[c] \in Context
    BY <1>1, <1>3, <1>5 DEF Resting, Decisive, Asks, Manager
  <2> QED BY <1>7, <2>1 DEF Rests
<1>12. ~Declines(m, mgr', c, x)
  <2>1. ~(x = "header" /\ m.index > m.headers)
    <3>1. m.index \in Nat /\ m.headers \in Nat
      BY <1>7 DEF Manager
    <3> QED BY <1>9, <3>1
  <2> QED BY <1>11, <2>1 DEF Declines
<1>13. /\ mgr'.ctx[c].next # <<>> => mgr'.ctx[c].next[Len(mgr'.ctx[c].next)] = x
       /\ ~mgr'.ctx[c].owes
  <2>1. CASE Passes(m, mgr', c, x)
    BY <1>4, <1>5, <1>7, <2>1 DEF Passes
  <2>2. CASE Writes(m, mgr', c, x)
    BY <1>4, <1>5, <1>7, <1>11, <2>2, WriteWorks DEF Writes
  <2> QED BY <1>5, <1>12, <2>1, <2>2
<1>14. Asks(mgr', x)
  BY <1>4, <1>5, <1>7, <1>10, <1>13 DEF Asks, Decisive
<1>15. ~Passing(mgr', x)
  <2>1. CASE Passes(m, mgr', c, x)
    <3>1. x # "end-of-message"
      BY <1>5, <2>1, ConfigAssumption DEF Passes
    <3>2. mgr'.packets # <<>> => mgr'.packets[1] = "continue"
      BY <1>7, <2>1, TellsFirst DEF Passes, Status, Verdict
    <3> QED BY <3>1, <3>2 DEF Passing
  <2>2. CASE Writes(m, mgr', c, x)
    BY <1>7, <2>2 DEF Writes, Passing
  <2> QED BY <1>5, <1>12, <2>1, <2>2
<1>16. \A d \in joined : verdict[d] = "not-change" => mgr'.ctx[d].pmsg /\ d \in mgr'.waiting
  <2> SUFFICES ASSUME NEW d \in joined, verdict[d] = "not-change"
               PROVE  mgr'.ctx[d].pmsg /\ d \in mgr'.waiting
    OBVIOUS
  <2>1. d \in Child /\ mgr.ctx[d].pmsg /\ ~mgr.ctx[d].quitted
        /\ (cmd \in MessageCommand => d \in mgr.waiting)
    BY <1>1 DEF Decisive, Pending, Asks
  <2>2. cmd = "data" => mgr.waiting = {}
    BY DEF Decisive, Replayable
  <2>3. cmd = "data" \/ cmd \in MessageCommand
    BY <1>1 DEF InMessage
  <2>4. d \in m.waiting
    BY <1>6, <2>1, <2>2, <2>3 DEF Processing
  <2>5. mgr'.ctx[d].pmsg = mgr.ctx[d].pmsg
    BY <1>5, <1>7, <1>10, <2>1
  <2> QED BY <1>10, <2>1, <2>4, <2>5
<1>17. Replayable(mgr', x)
  <2>1. x # "data"
    BY DEF MessageCommand
  <2>2. "end-of-message" \in mgr'.cmds => x = "end-of-message"
    BY <1>2, <1>7, <1>10 DEF Decisive, Replayable
  <2>3. "body" \in mgr'.cmds => mgr'.body > 0
    BY <1>1, <1>7, <1>8, <1>10 DEF Decisive, Replayable
  <2> QED BY <1>5, <1>9, <1>10, <2>1, <2>2, <2>3 DEF Replayable
<1> QED BY <1>14, <1>15, <1>16, <1>17 DEF Decisive, Pending

\* The other command of the MTA: no child is at the message.
LEMMA DecisiveRefuse ==
    ASSUME TurnInv, Decisive(mgr, mta.cmd, joined, verdict), NEW x \in MessageCommand,
           RefuseCommand(x)
    PROVE  Decisive(mgr', x, joined, verdict)
<1> DEFINE cmd == mta.cmd
<1>1. /\ mgr \in Manager /\ joined \in SUBSET Child /\ InTurn(mgr, cmd) /\ InMessage
      /\ Position[cmd] <= Position[x] /\ \A c \in Child : ~Processing(mgr.ctx[c])
  BY DEF TurnInv, TypeOK, RefuseCommand, MaySend
<1>2. ~(cmd \in MessageCommand /\ mgr.packets = <<>>) /\ cmd # "end-of-message"
      /\ (x = "header" => cmd \in {"data", "header"}) /\ x # "data"
  BY <1>1 DEF InMessage, MessageCommand, Position
<1>3. Resting(mgr)
  BY <1>1, <1>2, AnsweredResting
<1>4. \A d \in Child : mgr.ctx[d].next = <<>> /\ ~mgr.ctx[d].owes
  BY <1>3, RestingIdle DEF Decisive
<1>5. mgr'.ctx = mgr.ctx /\ mgr'.index = mgr.index /\ SameMessage(mgr, mgr')
  BY <1>1, RefuseFrame DEF SameWork
<1>6. \A d \in joined : verdict[d] # "not-change"
  BY <1>1 DEF Decisive, Pending, Asks, Processing
<1>7. Asks(mgr', x)
  BY <1>4, <1>5 DEF Asks, Decisive
<1>8. Replayable(mgr', x)
  BY <1>2, <1>5 DEF Replayable, Decisive, SameMessage
<1> QED BY <1>6, <1>7, <1>8 DEF Decisive, Pending

\* Every step of the first message keeps it decisive.
LEMMA DecisionStep ==
    ASSUME TurnInv, ArrivalInv, DecisionInv, [Next]_vars, Faults = {},
           "empty-body" \notin Edits
    PROVE  DecisionInv'
<1>1. /\ TypeOK /\ mgr \in Manager /\ mta \in MtaType /\ InTurn(mgr, mta.cmd)
      /\ verdict \in [Child -> Status] /\ joined \in SUBSET Child
  BY DEF TurnInv, TypeOK, MtaType
<1> DEFINE D == Decisive(mgr, mta.cmd, joined, verdict)
<1>2. CASE UNCHANGED vars
  BY <1>2 DEF vars, DecisionInv, Refused
<1>3. CASE NewMessage
  <2>1. mta'.messages = mta.messages + 1 /\ mta.messages \in Nat /\ mta'.cmd = "data"
    BY <1>1, <1>3 DEF NewMessage, MtaType
  <2>2. CASE mta.messages # 0
    BY <2>1, <2>2 DEF DecisionInv
  <2>3. CASE mta.messages = 0
    <3>1. Fresh(mgr) /\ mta.cmd = "abort"
      BY <2>3 DEF DecisionInv
    <3>2. \A c \in Child : ~mgr.ctx[c].owes
      <4>1. Resting(mgr)
        BY <1>1, <3>1, AnsweredResting DEF MessageCommand
      <4> QED BY <3>1, <4>1 DEF Fresh, Resting, Rests, Working
    <3>3. /\ mgr' \in Manager /\ mgr'.waiting = {} /\ mgr'.cmds = {} /\ mgr'.index = 0
      BY <1>1, <1>3, <3>1, NewMessageFrame DEF Fresh
    <3>4. /\ Alive(mgr) => Alive(mgr')
          /\ joined' \subseteq Child
          /\ \A c \in Child :
                /\ ~mgr.ctx[c].quitted => (mgr'.ctx[c].pmsg <=> c \in joined')
                /\ mgr'.ctx[c].owes = mgr.ctx[c].owes
                /\ mgr'.ctx[c].quitted = mgr.ctx[c].quitted
                /\ mgr.ctx[c].attached => mgr'.ctx[c].next = <<>>
      BY <1>1, <1>3, NewMessageFrame
    <3>5. \A c \in Child : mgr'.ctx[c].attached /\ ~mgr'.ctx[c].quitted
      BY <1>1, <3>1, <3>4 DEF Alive, InTurn, Fresh
    <3>6. Asks(mgr', "data")
      BY <3>1, <3>2, <3>4, <3>5 DEF Asks, Fresh
    <3>7. mgr'.headers \in Nat
      BY <3>3 DEF Manager
    <3>8. Replayable(mgr', "data")
      BY <3>3, <3>7 DEF Replayable
    <3>9. Pending(mgr', "data", joined', verdict')
      BY <3>1, <3>4 DEF Pending, Passing, Fresh, MessageCommand
    <3> QED BY <2>1, <2>3, <3>6, <3>8, <3>9 DEF DecisionInv, Decisive
  <2> QED BY <2>2, <2>3
<1>4. ASSUME mta'.messages = mta.messages, mta.cmd # "abort", joined' = joined,
             D => Refused' \/ Decisive(mgr', mta'.cmd, joined, verdict'),
             Refused => Refused'
      PROVE  DecisionInv'
  BY <1>4 DEF DecisionInv
<1>5. CASE MtaAbort
  <2>1. mta'.messages = mta.messages /\ mta'.cmd = "abort" /\ mta.cmd # "abort"
    BY <1>1, <1>5 DEF MtaAbort, MtaType, MessageCommand
  <2> QED BY <2>1 DEF DecisionInv
<1>6. ASSUME NEW x \in MessageCommand, SendCommand(x) \/ RefuseCommand(x)
      PROVE  DecisionInv'
  <2>1. mta'.messages = mta.messages /\ mta'.cmd = x /\ UNCHANGED <<joined, verdict>>
    BY <1>1, <1>6, SentType DEF SendCommand, RefuseCommand
  <2>2. mta.cmd # "abort"
    BY <1>6 DEF SendCommand, RefuseCommand, MaySend, InMessage, MessageCommand
  <2>3. D => Decisive(mgr', x, joined, verdict)
    BY <1>6, DecisiveSend, DecisiveRefuse
  <2>4. Refused => Refused'
    BY <2>1 DEF Refused
  <2> QED BY <1>4, <2>1, <2>2, <2>3, <2>4
<1>7. ASSUME NEW c \in Child, Flush(c)
      PROVE  DecisionInv'
  <2> DEFINE k == mgr.ctx[c]
             f == Flushed(k)
             x == k.next[Len(k.next)]
  <2>1. k \in Context /\ k.next # <<>> /\ k.attached /\ UNCHANGED <<mta, joined, verdict>>
    BY <1>1, <1>7 DEF Flush, Manager
  <2>2. /\ f \in Context /\ f.attached = k.attached /\ f.quitted = k.quitted
        /\ f.next = <<>> /\ f.state = x /\ (x # "abort" => f.pmsg = k.pmsg)
    BY <2>1, FlushedWorks
  <2>3. mgr' = [mgr EXCEPT !.ctx[c] = f]
    BY <1>7 DEF Flush
  <2> HIDE DEF f
  <2>4. /\ SameMessage(mgr, mgr') /\ mgr'.packets = mgr.packets /\ mgr'.ctx[c] = f
        /\ mgr'.index = mgr.index
        /\ \A d \in Child : d # c => mgr'.ctx[d] = mgr.ctx[d]
    BY <1>1, <2>2, <2>3, CtxFrame
  <2>5. Fresh(mgr) => Fresh(mgr')
    BY <2>2, <2>4 DEF Fresh, SameMessage
  <2>6. ASSUME D
        PROVE  Decisive(mgr', mta.cmd, joined, verdict)
    <3>1. x \in MessageCommand /\ (x = "end-of-message" => mta.cmd = "end-of-message")
      BY <2>1, <2>6 DEF Decisive, Asks
    <3>2. Asks(mgr', mta.cmd)
      BY <2>2, <2>4, <2>6, <3>1 DEF Decisive, Asks
    <3>3. \A d \in Child : mgr'.ctx[d].pmsg = mgr.ctx[d].pmsg
      <4>1. x # "abort"
        BY <3>1 DEF MessageCommand
      <4> QED BY <2>2, <2>4, <4>1
    <3>4. Pending(mgr', mta.cmd, joined, verdict)
      BY <1>1, <2>4, <2>6, <3>3 DEF Decisive, Pending, Passing, SameMessage
    <3>5. Replayable(mgr', mta.cmd)
      BY <2>4, <2>6 DEF Decisive, Replayable, SameMessage
    <3> QED BY <3>2, <3>4, <3>5 DEF Decisive
  <2> QED BY <2>1, <2>5, <2>6 DEF DecisionInv, Refused
<1>8. ASSUME NEW c \in Child, NEW r \in Answers, Reply(c, r)
      PROVE  DecisionInv'
  <2>1. r \in Verdict /\ UNCHANGED <<mta, joined>> /\ mgr.ctx[c].attached
        /\ Working(mgr.ctx[c])
    BY <1>8, ConfigAssumption DEF Reply, Working
  <2>2. mta.cmd \in MessageCommand /\ ~Refused
    BY <2>1, WorkerUnrefused
  <2>3. CASE r \in Refusal
    <3>1. Refused'
      BY <1>1, <1>8, <2>3 DEF Reply, Decide, Refused
    <3> QED BY <1>4, <2>1, <2>2, <3>1 DEF MessageCommand
  <2>4. CASE r \notin Refusal
    <3>1. D => Decisive(mgr', mta.cmd, joined, verdict')
      BY <1>8, <2>1, <2>4, DecisiveReply
    <3> QED BY <1>4, <2>1, <2>2, <3>1 DEF MessageCommand
  <2> QED BY <2>3, <2>4
<1>9. ASSUME NEW c \in Child, NEW e \in Edits, Edit(c, e)
      PROVE  DecisionInv'
  <2>1. /\ mgr.ctx[c].attached /\ Working(mgr.ctx[c]) /\ UNCHANGED <<joined, verdict>>
        /\ mgr.ctx[c].owes /\ mgr.ctx[c].state = "end-of-message"
        /\ mta'.messages = mta.messages /\ mta'.cmd = mta.cmd
    BY <1>1, <1>9 DEF Edit, Working, MtaType
  <2>2. mta.cmd \in MessageCommand
    BY <2>1, WorkerUnrefused
  <2>3. /\ mgr'.ctx = mgr.ctx /\ mgr'.waiting = mgr.waiting /\ mgr'.cmds = mgr.cmds
        /\ mgr'.packets = mgr.packets /\ (mgr.body > 0 => mgr'.body > 0)
    BY <1>1, <1>9, EditFrame
  <2>4. ASSUME D
        PROVE  Decisive(mgr', mta.cmd, joined, verdict)
    <3>1. mta.cmd = "end-of-message"
      BY <2>1, <2>4 DEF Decisive, Asks
    <3> QED BY <2>3, <2>4, <3>1 DEF Decisive, Asks, Pending, Passing, Replayable
  <2>5. Refused => Refused'
    BY <2>1 DEF Refused
  <2> QED BY <1>4, <2>1, <2>2, <2>4, <2>5 DEF MessageCommand
<1>10. ASSUME NEW c \in Child, ChildNext(c)
       PROVE  DecisionInv'
  BY <1>7, <1>8, <1>9, <1>10 DEF ChildNext, Hears, Timeout, ChildError, ChildFinished
<1> QED BY <1>2, <1>3, <1>5, <1>6, <1>10 DEF Next, MtaNext

\* As long as no connection fails, no child is in evaluation mode and no child
\* empties the body, the first message of a session is let through only when every
\* child that takes part in it has decided: the replay bypasses nobody, whatever the
\* children answer, decline and change.  (A later message may find an index that is
\* not reset, and a pending ABORT.)
THEOREM NobodyBypassed ==
    ASSUME Faults = {}, Evaluation = {}, "empty-body" \notin Edits
    PROVE  Spec => [](mta.messages <= 1 => EveryChildDecides)
<1> DEFINE I == TurnInv /\ ArrivalInv /\ DecisionInv
<1>1. Init => I
  <2> SUFFICES ASSUME Init
               PROVE  I
    OBVIOUS
  <2>1. TurnInv
    BY TurnInit
  <2>2. ArrivalInv
    BY DEF Init, ArrivalInv, Refused, Refusal
  <2>3. DecisionInv
    BY DEF Init, DecisionInv, Fresh
  <2> QED BY <2>1, <2>2, <2>3
<1>2. I /\ [Next]_vars => I'
  BY TurnStep, ArrivalStep, DecisionStep
<1>3. I => (mta.messages <= 1 => EveryChildDecides)
  <2> SUFFICES ASSUME I, mta.messages <= 1, Accepted
               PROVE  \A c \in joined : verdict[c] # "not-change"
    BY DEF EveryChildDecides
  <2>1. mta.messages \in Nat /\ mta.cmd # "abort"
    BY DEF TurnInv, TypeOK, Accepted, MessageCommand
  <2>2. mta.messages = 1
    BY <2>1 DEF DecisionInv
  <2>3. ~Refused
    BY DEF ArrivalInv, Accepted, Refusal
  <2>4. Pending(mgr, mta.cmd, joined, verdict)
    BY <2>1, <2>2, <2>3 DEF DecisionInv, Decisive
  <2> QED BY <2>4 DEF Pending, Passing, Accepted
<1> QED BY <1>1, <1>2, <1>3, PTL DEF Spec

-----------------------------------------------------------------------------
(* The replay of a message gives every child the whole of it: the proof of   *)
(* SeesWholeMessage, on top of TurnInv.                                      *)

-----------------------------------------------------------------------------
(* What the replay keeps *)

\* What child c has been asked last
AskedOf(k) == IF k.next = <<>> THEN k.state ELSE k.next[Len(k.next)]

\* No message is begun.
Blank(a) == /\ a.waiting = {} /\ a.cmds = {} /\ a.index = 0 /\ a.headers = 0
            /\ a.body = 0

\* A child that was not sent anything of the message.
Bare(k) == k.attached => k.hdrs = 0 /\ k.chunks = 0

\* No ABORT is under way to the child.
Unaborted(k) == k.attached /\ k.next # <<>> => k.next[Len(k.next)] # "abort"

\* The MTA has heard nothing or to continue.
Going(a) == a.packets = <<>> \/ a.packets[1] = "continue"

\* The queues during a command of the MTA: no command is recorded that it has not
\* sent, whoever is at the message is in the queue until the end of the message,
\* and everybody but the first has it all before him.
Shape(a, cmd) ==
    /\ \A x \in a.cmds : Position[x] <= Position[cmd]
    /\ a.waiting # {} /\ a.pst = "end-of-message" => cmd = "end-of-message"
    /\ cmd # "end-of-message" => \A c \in Child : Processing(a.ctx[c]) => c \in a.waiting
    /\ cmd \in {"header", "end-of-header"} => a.body = 0
    /\ \A c \in a.waiting : /\ c # First(a.waiting) => Bare(a.ctx[c])
                            /\ Unaborted(a.ctx[c])
    /\ Going(a) /\ a.waiting # {} =>
          cmd \in a.cmds /\ (cmd \in {"body", "end-of-message"} => "end-of-header" \in a.cmds)

\* Child c was sent the headers, the body.
HeadersSent(a, c) == "header" \in a.cmds \ NoStep[c] => a.ctx[c].hdrs = a.headers
BodySent(a, c) == "body" \in a.cmds \ NoStep[c] => a.ctx[c].skip \/ a.ctx[c].chunks = a.body

\* A body that is replayed was sent up to sent_body_offset, one that the MTA sends
\* as far as it goes.
ChunksSent(a, c) ==
    IF a.sending THEN a.ctx[c].chunks = a.offset /\ a.offset <= a.body
    ELSE a.ctx[c].chunks = a.body

\* What child c was sent when x is the last thing it was sent.
SentUpTo(a, c, x) ==
    /\ x = "header" => a.ctx[c].hdrs = a.index /\ a.index <= a.headers
    /\ x # "header" => HeadersSent(a, c)
    /\ x \in {"header", "end-of-header"} => a.ctx[c].chunks = 0
    /\ x = "body" => ChunksSent(a, c)
    /\ x = "end-of-message" => BodySent(a, c)

\* The child whose turn it is has what precedes the command it works on; at the end
\* of the message, until the child may change it.  When the MTA is told to go on,
\* the child has everything so far.
Progress(a, cmd) ==
    a.waiting # {} =>
      LET c == First(a.waiting)
          k == a.ctx[c]
      IN  k.attached =>
            /\ Working(k) => /\ AskedOf(k) \in a.cmds \ NoStep[c]
                             /\ ~(k.owes /\ k.state = "end-of-message") =>
                                    SentUpTo(a, c, AskedOf(k))
            /\ Going(a) /\ a.packets # <<>> /\ cmd # "end-of-message" =>
                  /\ HeadersSent(a, c) /\ BodySent(a, c)
                  /\ cmd = "header" => a.index = a.headers
                  /\ cmd \in {"header", "end-of-header"} => k.chunks = 0

ReplayInv ==
    /\ mta.messages = 0 => mta.cmd = "abort" /\ Blank(mgr)
    /\ mta.messages = 1 /\ mta.cmd = "data" =>
          Blank(mgr) /\ \A c \in Child : /\ Bare(mgr.ctx[c])
                                         /\ mgr.ctx[c].attached => mgr.ctx[c].next = <<>>
    /\ mta.messages = 1 /\ mta.cmd \in MessageCommand =>
          Shape(mgr, mta.cmd) /\ Progress(mgr, mta.cmd)

-----------------------------------------------------------------------------
(* What is left to give *)

\* The commands that follow s, one by one.
LEMMA TodoHas ==
    ASSUME NEW a \in Manager, NEW s \in {"data", "header", "end-of-header", "body"}
    PROVE  /\ "header" \in Todo(a, s) <=> \/ s = "data" /\ "header" \in a.cmds
                                          \/ s = "header" /\ a.index < a.headers
           /\ "end-of-header" \in Todo(a, s) <=>
                  s \in {"data", "header"} /\ "end-of-header" \in a.cmds
           /\ "body" \in Todo(a, s) <=>
                  IF s = "body" THEN a.sending /\ a.offset < a.body
                  ELSE "body" \in a.cmds /\ a.body # 0
           /\ "end-of-message" \in Todo(a, s) <=>
                  /\ "end-of-message" \in a.cmds
                  /\ ~(s # "body" /\ "body" \in a.cmds /\ a.body = 0)
<1> DEFINE all == {x \in a.cmds : Position[x] > Position[s]}
                  \cup (IF s = "header" /\ a.index < a.headers THEN {"header"} ELSE {})
                  \cup (IF s = "body" /\ a.sending /\ a.offset < a.body THEN {"body"} ELSE {})
<1>1. /\ Position["data"] = 0 /\ Position["header"] = 1 /\ Position["end-of-header"] = 2
      /\ Position["body"] = 3 /\ Position["end-of-message"] = 4
  BY DEF Position, MessageCommand
<1>2. "header" \in all <=> \/ s = "data" /\ "header" \in a.cmds
                           \/ s = "header" /\ a.index < a.headers
  BY <1>1
<1>3. "end-of-header" \in all <=> s \in {"data", "header"} /\ "end-of-header" \in a.cmds
  BY <1>1
<1>4. "body" \in all <=> IF s = "body" THEN a.sending /\ a.offset < a.body
                         ELSE "body" \in a.cmds
  BY <1>1
<1>5. "end-of-message" \in all <=> "end-of-message" \in a.cmds
  BY <1>1
<1>6. Todo(a, s) = IF s # "body" /\ "body" \in all /\ a.body = 0
                   THEN {x \in all : Position[x] < Position["body"]} ELSE all
  BY <1>4 DEF Todo, Emptied, Position, MessageCommand
<1> HIDE DEF all
<1>7. CASE s # "body" /\ "body" \in all /\ a.body = 0
  <2>1. Todo(a, s) = {x \in all : Position[x] < Position["body"]}
    BY <1>6, <1>7
  <2>2. /\ "header" \in Todo(a, s) <=> "header" \in all
        /\ "end-of-header" \in Todo(a, s) <=> "end-of-header" \in all
        /\ "body" \notin Todo(a, s) /\ "end-of-message" \notin Todo(a, s)
    BY <1>1, <2>1
  <2> QED BY <1>2, <1>3, <1>4, <1>5, <1>7, <2>2
<1>8. CASE ~(s # "body" /\ "body" \in all /\ a.body = 0)
  <2>1. Todo(a, s) = all
    BY <1>6, <1>8
  <2> QED BY <1>2, <1>3, <1>4, <1>5, <1>8, <2>1
<1> QED BY <1>7, <1>8

\* What is given is wanted, and nothing before it is.
LEMMA GivenFirst ==
    ASSUME NEW a \in Manager, NEW c \in Child, NEW s, Given(a, c, s) # {}
    PROVE  LET x == Earliest(Wanted(a, c, s))
           IN  /\ Given(a, c, s) = {x} /\ x \in Todo(a, s) \ NoStep[c] /\ x \in MessageCommand
               /\ x = "body" => ~a.ctx[c].skip
               /\ x # "header" => "header" \notin Wanted(a, c, s)
               /\ x \in {"body", "end-of-message"} => "end-of-header" \notin Wanted(a, c, s)
               /\ x = "end-of-message" => "body" \notin Wanted(a, c, s)
<1> DEFINE W == Wanted(a, c, s)
           x == Earliest(W)
<1>1. /\ W # {} /\ W \subseteq MessageCommand /\ W \subseteq Todo(a, s)
      /\ Given(a, c, s) = {x}
  BY ReplaySets
<1>2. x \in W /\ \A y \in W : Position[x] <= Position[y]
  BY <1>1, EarliestOf
<1>3. x \notin NoStep[c] /\ (x = "body" => ~a.ctx[c].skip)
  BY <1>2 DEF Wanted
<1>4. /\ Position["header"] = 1 /\ Position["end-of-header"] = 2
      /\ Position["body"] = 3 /\ Position["end-of-message"] = 4
  BY DEF Position, MessageCommand
<1>5. x \in MessageCommand
  BY <1>1, <1>2
<1> HIDE DEF W, x
<1>6. /\ x # "header" => "header" \notin W
      /\ x \in {"body", "end-of-message"} => "end-of-header" \notin W
      /\ x = "end-of-message" => "body" \notin W
  BY <1>2, <1>4, <1>5 DEF MessageCommand
<1> QED BY <1>1, <1>2, <1>3, <1>5, <1>6 DEF W, x

\* What is known of the replay after a command was given.
LEMMA NewFields ==
    ASSUME NEW a \in Manager, NEW c \in Child, NEW s
    PROVE  /\ Given(a, c, s) = {"header"} => NewIndex(a, c, s) = a.index + 1
           /\ Given(a, c, s) = {} =>
                 NewIndex(a, c, s) = IF "header" \in Passed(a, c, s) THEN a.headers
                                     ELSE a.index
           /\ Given(a, c, s) = {"body"} /\ s = "body" =>
                 /\ NewSending(a, c, s) = a.sending
                 /\ NewOffset(a, c, s) = a.offset + 1
           /\ Given(a, c, s) = {"body"} /\ Prepared(a, c, s) =>
                 NewSending(a, c, s) = TRUE /\ NewOffset(a, c, s) = 1
<1>1. Given(a, c, s) = {"header"} => NewIndex(a, c, s) = a.index + 1
  <2>1. {"header"} # {"end-of-message"}
    OBVIOUS
  <2> QED BY <2>1, Zenon DEF NewIndex
<1>2. Given(a, c, s) = {} =>
        NewIndex(a, c, s) = IF "header" \in Passed(a, c, s) THEN a.headers ELSE a.index
  <2>1. {} # {"end-of-message"} /\ {} # {"header"}
    OBVIOUS
  <2> QED BY <2>1, Zenon DEF NewIndex
<1>3. Given(a, c, s) = {"body"} => "body" \in Reached(a, c, s) /\ ~Opened(a, c, s)
  BY DEF Reached, Opened, Given
<1>4. s = "body" => ~Prepared(a, c, s)
  BY DEF Prepared
<1>5. a.sending \in BOOLEAN
  BY DEF Manager
<1> QED BY <1>1, <1>2, <1>3, <1>4, <1>5 DEF NewSending, NewOffset

\* The child has been sent what precedes and includes s.
Ready(a, c, s) ==
    /\ s = "data" => a.ctx[c].hdrs = 0 /\ a.index = 0
    /\ s # "data" => s \in a.cmds \ NoStep[c]
    /\ s = "header" => a.ctx[c].hdrs = a.index /\ a.index <= a.headers
    /\ s \in {"end-of-header", "body"} => HeadersSent(a, c)
    /\ s # "body" => a.ctx[c].chunks = 0
    /\ s = "body" => a.ctx[c].skip \/ ChunksSent(a, c)

\* When no header is wanted any more, all have been sent; the same of the body.
LEMMA NoneWanted ==
    ASSUME NEW a \in Manager, NEW c \in Child,
           NEW s \in {"data", "header", "end-of-header", "body"}, Ready(a, c, s)
    PROVE  /\ "header" \notin Wanted(a, c, s) => HeadersSent(a, c)
           /\ "body" \notin Wanted(a, c, s) => BodySent(a, c)
<1>1. /\ a.index \in Nat /\ a.headers \in Nat /\ a.offset \in Nat /\ a.body \in Nat
  BY DEF Manager
<1>2. ASSUME "header" \notin Wanted(a, c, s), "header" \in a.cmds \ NoStep[c]
      PROVE  a.ctx[c].hdrs = a.headers
  <2>1. "header" \notin Todo(a, s)
    BY <1>2 DEF Wanted
  <2>2. s # "data" /\ ~(s = "header" /\ a.index < a.headers)
    BY <1>2, <2>1, TodoHas
  <2>3. CASE s = "header"
    BY <1>1, <2>2, <2>3 DEF Ready
  <2>4. CASE s # "header"
    BY <1>2, <2>2, <2>4 DEF Ready, HeadersSent
  <2> QED BY <2>3, <2>4
<1>3. ASSUME "body" \notin Wanted(a, c, s), "body" \in a.cmds \ NoStep[c], ~a.ctx[c].skip
      PROVE  a.ctx[c].chunks = a.body
  <2>1. "body" \notin Todo(a, s)
    BY <1>3 DEF Wanted
  <2>2. CASE s = "body"
    <3>1. ~(a.sending /\ a.offset < a.body)
      BY <2>1, <2>2, TodoHas
    <3> QED BY <1>1, <1>3, <2>2, <3>1 DEF Ready, ChunksSent
  <2>3. CASE s # "body"
    <3>1. a.body = 0
      BY <1>3, <2>1, <2>3, TodoHas
    <3> QED BY <2>3, <3>1 DEF Ready
  <2> QED BY <2>2, <2>3
<1> QED BY <1>2, <1>3 DEF HeadersSent, BodySent

\* A child that gives way to nobody leaves the shape of the queues.
LEMMA ShapeGives ==
    ASSUME NEW a \in Manager, NEW b, NEW c \in Child, NEW cmd, Gives(a, b, c),
           Shape(a, cmd), Going(a), c = First(a.waiting),
           b.ctx[c].pmsg = a.ctx[c].pmsg, b.ctx[c].quitted = a.ctx[c].quitted,
           Unaborted(b.ctx[c])
    PROVE  Shape(b, cmd)
<1>1. /\ b.waiting = a.waiting /\ b.cmds = a.cmds /\ b.body = a.body
      /\ \A d \in Child : d # c => b.ctx[d] = a.ctx[d]
      /\ b.pst = "end-of-message" => a.pst = b.pst \/ "end-of-message" \in a.cmds
  BY DEF Gives, SameMessage
<1>2. a.waiting \subseteq Child
  BY DEF Manager
<1>3. \A d \in Child : Processing(b.ctx[d]) <=> Processing(a.ctx[d])
  BY <1>1 DEF Processing
<1>4. \A d \in a.waiting : /\ d # First(b.waiting) => Bare(b.ctx[d])
                           /\ Unaborted(b.ctx[d])
  BY <1>1, <1>2 DEF Shape
<1>5. a.waiting # {} /\ b.pst = "end-of-message" => cmd = "end-of-message"
  <2> SUFFICES ASSUME a.waiting # {}, b.pst = "end-of-message", a.pst # b.pst
               PROVE  cmd = "end-of-message"
    BY DEF Shape
  <2>1. "end-of-message" \in a.cmds
    BY <1>1
  <2>2. Position["end-of-message"] <= Position[cmd] /\ cmd \in a.cmds
    BY <2>1 DEF Shape
  <2>3. cmd \in MessageCommand
    BY <2>2 DEF Manager
  <2> QED BY <2>2, <2>3 DEF Position, MessageCommand
<1> QED BY <1>1, <1>3, <1>4, <1>5 DEF Shape

\* While a child is given what follows s, the commands around it are those of the
\* MTA: before the body there was an end of header.
LEMMA ShapeCommands ==
    ASSUME NEW a \in Manager, NEW cmd, Shape(a, cmd), Turn(a, cmd)
    PROVE  /\ cmd \in a.cmds
           /\ a.cmds \cap {"body", "end-of-message"} # {} => "end-of-header" \in a.cmds
           /\ "end-of-message" \in a.cmds => cmd = "end-of-message"
           /\ "body" \in a.cmds => cmd \in {"body", "end-of-message"}
           /\ "end-of-header" \in a.cmds => cmd # "header"
<1>1. cmd \in MessageCommand /\ cmd \in a.cmds /\ Going(a) /\ a.waiting # {}
  BY DEF Turn, Going
<1>2. \A x \in a.cmds : Position[x] <= Position[cmd]
  BY DEF Shape
<1>3. /\ Position["header"] = 1 /\ Position["end-of-header"] = 2
      /\ Position["body"] = 3 /\ Position["end-of-message"] = 4
  BY DEF Position, MessageCommand
<1>4. /\ "end-of-message" \in a.cmds => cmd = "end-of-message"
      /\ "body" \in a.cmds => cmd \in {"body", "end-of-message"}
      /\ "end-of-header" \in a.cmds => cmd # "header"
  BY <1>1, <1>2, <1>3 DEF MessageCommand
<1> QED BY <1>1, <1>4 DEF Shape

\* The command that is given to a child in its turn is the next one it lacks.
LEMMA GivenInOrder ==
    ASSUME NEW a \in Manager, NEW cmd, Shape(a, cmd), Turn(a, cmd), NEW c \in Child,
           NEW s \in {"data", "header", "end-of-header", "body"}, Ready(a, c, s),
           Given(a, c, s) # {}, ~NothingFirst(a, s),
           NEW b, Gives(a, b, c), b.ctx[c] = NewCtx(a, c, s), b.index = NewIndex(a, c, s),
           b.sending = NewSending(a, c, s), b.offset = NewOffset(a, c, s)
    PROVE  LET x == Earliest(Wanted(a, c, s))
           IN  /\ x \in b.cmds \ NoStep[c] /\ SentUpTo(b, c, x)
               /\ b.ctx[c].next # <<>> /\ b.ctx[c].next[Len(b.ctx[c].next)] = x
<1> DEFINE k == a.ctx[c]
           w == b.ctx[c]
           x == Earliest(Wanted(a, c, s))
<1>1. /\ b.cmds = a.cmds /\ b.headers = a.headers /\ b.body = a.body
  BY DEF Gives, SameMessage
<1>2. /\ w.next # <<>> /\ w.next[Len(w.next)] = x /\ w.skip = k.skip
      /\ w.hdrs = IF x = "header" THEN k.hdrs + 1 ELSE k.hdrs
      /\ w.chunks = IF x = "body" THEN k.chunks + 1 ELSE k.chunks
  BY NewCtxFrame
<1>3. /\ Given(a, c, s) = {x} /\ x \in Todo(a, s) \ NoStep[c] /\ x \in MessageCommand
      /\ x = "body" => ~k.skip
      /\ x # "header" => "header" \notin Wanted(a, c, s)
      /\ x = "end-of-message" => "body" \notin Wanted(a, c, s)
  BY GivenFirst
<1>4. /\ a.index \in Nat /\ a.headers \in Nat /\ a.offset \in Nat /\ a.body \in Nat
      /\ k.hdrs \in Nat /\ k.chunks \in Nat /\ a.cmds \subseteq MessageCommand
  <2>1. k \in Context
    BY DEF Manager
  <2> QED BY <2>1 DEF Manager, Context
<1> HIDE DEF x, w
<1>5. x \in a.cmds
  <2>1. CASE x \in {"end-of-header", "end-of-message"}
    BY <1>3, <2>1, TodoHas
  <2>2. CASE x = "header"
    <3>1. (s = "data" /\ "header" \in a.cmds) \/ s = "header"
      BY <1>3, <2>2, TodoHas
    <3> QED BY <2>2, <3>1 DEF Ready
  <2>3. CASE x = "body"
    <3>1. s = "body" \/ "body" \in a.cmds
      BY <1>3, <2>3, TodoHas
    <3> QED BY <2>3, <3>1 DEF Ready
  <2> QED BY <1>3, <2>1, <2>2, <2>3 DEF MessageCommand
<1>6. x = "header" => w.hdrs = b.index /\ b.index <= b.headers
  <2> SUFFICES ASSUME x = "header"
               PROVE  w.hdrs = b.index /\ b.index <= b.headers
    OBVIOUS
  <2>1. b.index = a.index + 1 /\ w.hdrs = k.hdrs + 1
    BY <1>2, <1>3, NewFields
  <2>2. (s = "data" /\ "header" \in a.cmds) \/ (s = "header" /\ a.index < a.headers)
    BY <1>3, TodoHas
  <2>3. CASE s = "header" /\ a.index < a.headers
    BY <1>1, <1>4, <2>1, <2>3 DEF Ready
  <2>4. CASE s = "data" /\ "header" \in a.cmds
    <3>1. Earliest(a.cmds) \in a.cmds /\ Position[Earliest(a.cmds)] <= Position["header"]
      BY <1>4, <2>4, EarliestOf
    <3>2. Earliest(a.cmds) = "header"
      BY <1>4, <3>1 DEF Position, MessageCommand
    <3>3. a.headers # 0
      BY <2>4, <3>2 DEF NothingFirst
    <3> QED BY <1>1, <1>4, <2>1, <2>4, <3>3 DEF Ready
  <2> QED BY <2>2, <2>3, <2>4
<1>7. x # "header" => HeadersSent(b, c)
  BY <1>1, <1>2, <1>3, NoneWanted DEF HeadersSent, w
<1>8. x \in {"header", "end-of-header"} => w.chunks = 0
  <2> SUFFICES ASSUME x \in {"header", "end-of-header"}
               PROVE  w.chunks = 0
    OBVIOUS
  <2>1. s \in {"data", "header"}
    BY <1>3, TodoHas
  <2> QED BY <1>2, <2>1 DEF Ready
<1>9. x = "body" => ChunksSent(b, c)
  <2> SUFFICES ASSUME x = "body"
               PROVE  ChunksSent(b, c)
    OBVIOUS
  <2>1. w.chunks = k.chunks + 1 /\ Given(a, c, s) = {"body"} /\ ~k.skip
    BY <1>2, <1>3
  <2>2. CASE s = "body"
    <3>1. a.sending /\ a.offset < a.body
      BY <1>3, <2>2, TodoHas
    <3>2. k.chunks = a.offset
      BY <2>1, <2>2, <3>1 DEF Ready, ChunksSent
    <3>3. b.sending = a.sending /\ b.offset = a.offset + 1
      BY <2>1, <2>2, NewFields
    <3> QED BY <1>1, <1>4, <2>1, <3>1, <3>2, <3>3 DEF ChunksSent, w
  <2>3. CASE s # "body"
    <3>1. "body" \in a.cmds /\ a.body # 0 /\ k.chunks = 0
      BY <1>3, <2>3, TodoHas DEF Ready
    <3>2. "end-of-header" \in a.cmds
      BY <3>1, ShapeCommands
    <3>3. Position[Earliest(a.cmds)] <= Position["end-of-header"]
      BY <1>4, <3>2, EarliestOf
    <3>4. Earliest(a.cmds) # "body"
      BY <3>3 DEF Position, MessageCommand
    <3>5. Prepared(a, c, s)
      BY <2>1, <2>3, <3>4 DEF Prepared, Reached
    <3>6. b.sending = TRUE /\ b.offset = 1
      BY <2>1, <3>5, NewFields
    <3> QED BY <1>1, <1>4, <2>1, <3>1, <3>6 DEF ChunksSent, w
  <2> QED BY <2>2, <2>3
<1>10. x = "end-of-message" => BodySent(b, c)
  BY <1>1, <1>2, <1>3, NoneWanted DEF BodySent, w
<1> QED BY <1>1, <1>2, <1>3, <1>5, <1>6, <1>7, <1>8, <1>9, <1>10 DEF SentUpTo, x, w

\* Child c is given what follows s, or the MTA is told to go on.
LEMMA ProceedReplay ==
    ASSUME NEW a \in Manager, NEW cmd, Shape(a, cmd), Turn(a, cmd), Resting(a),
           NEW c \in Child, c = First(a.waiting),
           NEW s \in {"data", "header", "end-of-header", "body"},
           a.ctx[c].attached => Ready(a, c, s)
    PROVE  Shape(Proceed(a, c, s), cmd) /\ Progress(Proceed(a, c, s), cmd)
<1> DEFINE b == Proceed(a, c, s)
           k == a.ctx[c]
           w == b.ctx[c]
<1>1. Gives(a, b, c)
  BY ProceedFrame
<1>2. a.packets = <<>> /\ Going(a) /\ cmd \in MessageCommand /\ c \in a.waiting
  <2>1. a.waiting # {} /\ a.waiting \in SUBSET Child
    BY DEF Turn, Manager
  <2>2. c \in a.waiting
    BY <2>1, FirstOf
  <2> QED BY <2>2 DEF Turn, Going
<1>3. k.attached => ~Working(k) /\ ~k.owes
  BY DEF Resting, Rests, Working
<1>4. Unaborted(k)
  BY <1>2 DEF Shape
<1>5. CASE b = a
  BY <1>2, <1>3, <1>5 DEF Progress
<1>6. ASSUME Given(a, c, s) # {}, b.packets = a.packets, w = NewCtx(a, c, s),
             b.index = NewIndex(a, c, s), b.sending = NewSending(a, c, s),
             b.offset = NewOffset(a, c, s), k.attached, ~NothingFirst(a, s)
      PROVE  Shape(b, cmd) /\ Progress(b, cmd)
  <2> DEFINE x == Earliest(Wanted(a, c, s))
  <2>1. /\ x \in b.cmds \ NoStep[c] /\ SentUpTo(b, c, x)
        /\ w.next # <<>> /\ w.next[Len(w.next)] = x
    BY <1>1, <1>6, GivenInOrder
  <2>2. w.pmsg = k.pmsg /\ w.quitted = k.quitted
    BY <1>6, NewCtxFrame
  <2>3. x # "abort" /\ b.waiting = a.waiting
    <3>1. x \in MessageCommand
      BY <1>6, GivenFirst
    <3> QED BY <1>1, <3>1 DEF MessageCommand, Gives, SameMessage
  <2> HIDE DEF x, b
  <2>4. Unaborted(w)
    BY <2>1, <2>3 DEF Unaborted
  <2>5. Shape(b, cmd)
    BY <1>1, <1>2, <2>2, <2>4, ShapeGives
  <2>6. AskedOf(w) = x
    BY <2>1 DEF AskedOf
  <2> QED BY <1>2, <1>6, <2>1, <2>3, <2>5, <2>6 DEF Progress
<1>7. ASSUME Given(a, c, s) = {}, Tells(a, b, "continue"), w = NewCtx(a, c, s),
             b.index = NewIndex(a, c, s), k.attached
      PROVE  Shape(b, cmd) /\ Progress(b, cmd)
  <2>1. /\ w.pmsg = k.pmsg /\ w.quitted = k.quitted /\ w.attached = k.attached
        /\ w.skip = k.skip /\ w.owes = k.owes /\ w.next = k.next /\ w.hdrs = k.hdrs
        /\ w.chunks = k.chunks
    <3> DEFINE n == NewCtx(a, c, s)
    <3>1. /\ n.pmsg = k.pmsg /\ n.quitted = k.quitted /\ n.attached = k.attached
          /\ n.skip = k.skip /\ n.owes = k.owes
      BY NewCtxFrame
    <3>2. n.next = k.next /\ n.hdrs = k.hdrs /\ n.chunks = k.chunks
      BY <1>7, NewCtxFrame
    <3> HIDE DEF n, b
    <3> QED BY <1>7, <3>1, <3>2 DEF n
  <2>2. /\ b.waiting = a.waiting /\ b.cmds = a.cmds /\ b.headers = a.headers
        /\ b.body = a.body
    BY <1>1 DEF Gives, SameMessage
  <2>3. b.index = IF "header" \in Passed(a, c, s) THEN a.headers ELSE a.index
    BY <1>7, NewFields
  <2>4. Wanted(a, c, s) = {}
    BY <1>7, ReplaySets
  <2>5. HeadersSent(a, c) /\ BodySent(a, c) /\ Ready(a, c, s)
    BY <1>7, <2>4, NoneWanted
  <2> HIDE DEF b
  <2>6. Shape(b, cmd)
    BY <1>1, <1>2, <1>4, <2>1, ShapeGives DEF Unaborted
  <2>7. ~Working(w)
    BY <1>3, <1>7, <2>1 DEF Working
  <2>8. HeadersSent(b, c) /\ BodySent(b, c)
    BY <2>1, <2>2, <2>5 DEF HeadersSent, BodySent
  <2>9. cmd = "header" => b.index = b.headers
    <3> SUFFICES ASSUME cmd = "header"
                 PROVE  b.index = a.headers
      BY <2>2
    <3>1. "header" \in a.cmds /\ s \notin {"end-of-header", "body"}
      BY <2>5, ShapeCommands DEF Ready
    <3>2. CASE s = "data"
      <4>1. "header" \in Todo(a, s)
        BY <3>1, <3>2, TodoHas
      <4>2. "header" \in NoStep[c]
        BY <2>4, <4>1 DEF Wanted
      <4>3. "header" \in Passed(a, c, s)
        BY <1>7, <4>1, <4>2 DEF Passed
      <4> QED BY <2>3, <4>3
    <3>3. CASE s = "header"
      <4>1. "header" \notin NoStep[c] /\ a.index <= a.headers
        BY <2>5, <3>3 DEF Ready
      <4>2. "header" \notin Todo(a, s)
        BY <2>4, <4>1 DEF Wanted
      <4>3. ~(a.index < a.headers)
        BY <3>3, <4>2, TodoHas
      <4>4. a.index = a.headers
        BY <4>1, <4>3 DEF Manager
      <4> QED BY <2>3, <4>4
    <3> QED BY <3>1, <3>2, <3>3
  <2>10. cmd \in {"header", "end-of-header"} => w.chunks = 0
    <3> SUFFICES ASSUME cmd \in {"header", "end-of-header"}
                 PROVE  k.chunks = 0
      BY <2>1
    <3>1. s # "body"
      BY <2>5, ShapeCommands DEF Ready
    <3> QED BY <2>5, <3>1 DEF Ready
  <2> QED BY <2>2, <2>6, <2>7, <2>8, <2>9, <2>10 DEF Progress
<1> QED BY <1>5, <1>6, <1>7, ProceedFrame

-----------------------------------------------------------------------------
(* The end of a turn *)

\* Nobody whose turn it is has anything to work on.
LEMMA NobodysProgress ==
    ASSUME NEW a, NEW cmd, a.waiting = {} \/ ~a.ctx[First(a.waiting)].attached
    PROVE  Progress(a, cmd)
BY DEF Progress

\* A message that is over.
LEMMA DisposedShape ==
    ASSUME NEW b, NEW cmd, Disposed(b),
           cmd = "end-of-message" \/ \A c \in Child : ~Processing(b.ctx[c])
    PROVE  Shape(b, cmd) /\ Progress(b, cmd)
<1>1. b.waiting = {} /\ b.cmds = {} /\ b.body = 0
  BY DEF Disposed
<1>2. Progress(b, cmd)
  BY <1>1, NobodysProgress
<1> QED BY <1>1, <1>2 DEF Shape

\* After an abort nobody is at the message.
LEMMA AbortShape ==
    ASSUME NEW a \in Manager, NEW cmd
    PROVE  Shape(AbortAll(a), cmd) /\ Progress(AbortAll(a), cmd)
<1> DEFINE b == AbortAll(a)
<1>1. Disposed(b) /\ \A c \in Child : /\ b.ctx[c].quitted = a.ctx[c].quitted
                                      /\ ~a.ctx[c].quitted => ~b.ctx[c].pmsg
  BY AbortAllFrame
<1>2. \A c \in Child : ~Processing(b.ctx[c])
  BY <1>1 DEF Processing
<1> QED BY <1>1, <1>2, DisposedShape

\* A reply to the MTA leaves the shape of the queues.
LEMMA ShapeEmits ==
    ASSUME NEW a \in Manager, NEW b, NEW cmd, NEW s, Emits(a, b, s), Shape(a, cmd), Going(a),
           s = "end-of-message" => cmd = "end-of-message"
    PROVE  Shape(b, cmd)
<1>1. CASE SameMessage(a, b)
  <2>1. /\ b.waiting = a.waiting /\ b.cmds = a.cmds /\ b.body = a.body /\ b.ctx = a.ctx
        /\ b.pst = a.pst
    BY <1>1 DEF SameMessage, Emits, SameWork
  <2> QED BY <2>1 DEF Shape
<1>2. CASE s = "end-of-message" /\ Disposed(b)
  BY <1>2, DisposedShape
<1> QED BY <1>1, <1>2 DEF Emits

\* send_first_command_to_next_child: the next child is given the message from its
\* beginning.
LEMMA NextReplay ==
    ASSUME NEW a \in Manager, NEW cmd, Shape(a, cmd), Turn(a, cmd), Resting(a),
           NEW c \in Child, c = First(a.waiting),
           cmd = "end-of-message" \/ ~Processing(a.ctx[c])
    PROVE  Shape(NextChild(a, c), cmd) /\ Progress(NextChild(a, c), cmd)
<1> DEFINE d == Dropped(a, c)
           b == NextChild(a, c)
<1>1. /\ d \in Manager /\ d.index = 0 /\ d.waiting = a.waiting \ {c}
      /\ d.st = a.st /\ d.cmds = a.cmds /\ d.headers = a.headers /\ d.body = a.body
      /\ d.ctx = a.ctx /\ d.packets = a.packets /\ d.pst = a.pst
  BY NextChildFrame
<1>2. /\ d.waiting = {} => Emits(d, b, d.st)
      /\ d.waiting # {} => /\ b = Proceed(d, First(d.waiting), "data")
                           /\ First(d.waiting) \in d.waiting
                           /\ First(d.waiting) \in Child
  BY NextChildFrame
<1>3. a.waiting # {} /\ a.packets = <<>> /\ a.st = cmd /\ cmd \in a.cmds
      /\ cmd \in MessageCommand
  BY DEF Turn
<1> HIDE DEF d, b
<1>4. Going(d) /\ Going(a)
  BY <1>1, <1>3 DEF Going
<1>5. Shape(d, cmd)
  <2>1. \A x \in d.waiting : Bare(d.ctx[x]) /\ Unaborted(d.ctx[x])
    BY <1>1 DEF Shape
  <2>2. cmd # "end-of-message" => \A x \in Child : Processing(d.ctx[x]) => x \in d.waiting
    BY <1>1 DEF Shape
  <2> QED BY <1>1, <1>3, <1>4, <2>1, <2>2 DEF Shape
<1>6. CASE d.waiting = {}
  <2>1. Emits(d, b, cmd)
    BY <1>1, <1>2, <1>3, <1>6
  <2>2. Shape(b, cmd)
    BY <1>1, <1>4, <1>5, <2>1, ShapeEmits
  <2>3. b.waiting = {}
    BY <1>6, <2>1 DEF Emits, SameMessage, Disposed
  <2> QED BY <2>2, <2>3, NobodysProgress DEF b
<1>7. CASE d.waiting # {}
  <2> DEFINE e == First(d.waiting)
  <2>1. e \in d.waiting /\ e \in Child /\ b = Proceed(d, e, "data")
    BY <1>2, <1>7
  <2>2. Turn(d, cmd) /\ Resting(d)
    BY <1>1, <1>3, <1>7 DEF Turn, Resting
  <2>3. Bare(d.ctx[e])
    BY <1>1, <2>1 DEF Shape
  <2>4. d.ctx[e].attached => Ready(d, e, "data")
    BY <1>1, <2>3 DEF Ready, Bare
  <2> HIDE DEF e
  <2>5. e = First(d.waiting)
    BY DEF e
  <2>6. Shape(Proceed(d, e, "data"), cmd) /\ Progress(Proceed(d, e, "data"), cmd)
    BY <1>1, <1>5, <2>1, <2>2, <2>4, <2>5, ProceedReplay
  <2> QED BY <2>1, <2>6 DEF b
<1> QED BY <1>6, <1>7

-----------------------------------------------------------------------------
(* The events of a child's connection *)

\* b is a with another context of child c.
Alters(a, b, c) ==
    /\ SameMessage(a, b) /\ b.packets = a.packets /\ b.pst = a.pst /\ b.index = a.index
    /\ b.sending = a.sending /\ b.offset = a.offset
    /\ \A d \in Child : d # c => b.ctx[d] = a.ctx[d]

\* The shape of the queues depends little on a context.
LEMMA ShapeAlters ==
    ASSUME NEW a \in Manager, NEW b, NEW c \in Child, NEW cmd, Alters(a, b, c), Shape(a, cmd),
           Processing(b.ctx[c]) => Processing(a.ctx[c]),
           c \in a.waiting => /\ c # First(a.waiting) => Bare(b.ctx[c])
                              /\ Unaborted(b.ctx[c])
    PROVE  Shape(b, cmd)
<1>1. /\ b.waiting = a.waiting /\ b.cmds = a.cmds /\ b.body = a.body /\ b.pst = a.pst
      /\ b.packets = a.packets /\ \A d \in Child : d # c => b.ctx[d] = a.ctx[d]
  BY DEF Alters, SameMessage
<1>2. a.waiting \subseteq Child
  BY DEF Manager
<1>3. \A d \in Child : Processing(b.ctx[d]) => Processing(a.ctx[d])
  BY <1>1
<1>4. \A d \in a.waiting : /\ d # First(a.waiting) => Bare(b.ctx[d])
                           /\ Unaborted(b.ctx[d])
  BY <1>1, <1>2 DEF Shape
<1>5. Going(b) <=> Going(a)
  BY <1>1 DEF Going
<1> QED BY <1>1, <1>3, <1>4, <1>5 DEF Shape

\* The child whose turn it is works on a command of the message, of which it has
\* what precedes it.
LEMMA WorkerSentUpTo ==
    ASSUME TurnInv, Shape(mgr, mta.cmd), Progress(mgr, mta.cmd), NEW c \in Child,
           mgr.ctx[c].attached, Working(mgr.ctx[c])
    PROVE  LET x == AskedOf(mgr.ctx[c])
           IN  /\ Turn(mgr, mta.cmd) /\ c = First(mgr.waiting) /\ c \in mgr.waiting
               /\ x \in mgr.cmds \ NoStep[c] /\ x \in MessageCommand
               /\ x = "end-of-message" => mta.cmd = "end-of-message"
               /\ ~(mgr.ctx[c].owes /\ mgr.ctx[c].state = "end-of-message") =>
                      SentUpTo(mgr, c, x)
               /\ mgr.ctx[c].owes => mgr.ctx[c].next = <<>> /\ x = mgr.ctx[c].state
<1>1. mgr \in Manager /\ Turn(mgr, mta.cmd) /\ c = First(mgr.waiting) /\ Orderly(mgr.ctx[c])
  BY DEF TurnInv, TypeOK, InTurn
<1>2. mgr.waiting # {} /\ mgr.waiting \in SUBSET Child /\ mgr.cmds \subseteq MessageCommand
  BY <1>1 DEF Turn, Manager
<1>3. c \in mgr.waiting
  BY <1>1, <1>2, FirstOf
<1>4. /\ AskedOf(mgr.ctx[c]) \in mgr.cmds \ NoStep[c]
      /\ ~(mgr.ctx[c].owes /\ mgr.ctx[c].state = "end-of-message") =>
             SentUpTo(mgr, c, AskedOf(mgr.ctx[c]))
  BY <1>1, <1>2 DEF Progress
<1>5. AskedOf(mgr.ctx[c]) = "end-of-message" => mta.cmd = "end-of-message"
  BY <1>1, <1>4, ShapeCommands
<1>6. mgr.ctx[c].owes => /\ mgr.ctx[c].next = <<>>
                         /\ AskedOf(mgr.ctx[c]) = mgr.ctx[c].state
  BY <1>1 DEF Orderly, AskedOf
<1> QED BY <1>1, <1>2, <1>3, <1>4, <1>5, <1>6

\* Before the child's answer is dealt with.
LEMMA AnswerShape ==
    ASSUME TurnInv, Shape(mgr, mta.cmd), Progress(mgr, mta.cmd), NEW c \in Child,
           mgr.ctx[c].attached, Working(mgr.ctx[c]), NEW h \in Context, Rests(h),
           h.attached = ~h.quitted, h.quitted \/ (h.pmsg => mgr.ctx[c].pmsg),
           Unaborted(h), NEW st \in Status
    PROVE  LET a == With(mgr, c, h, mgr.ctx[c].state, st)
           IN  /\ a \in Manager /\ Alters(mgr, a, c) /\ a.ctx[c] = h /\ a.st = mgr.st
               /\ Resting(a) /\ Turn(a, mta.cmd) /\ c = First(a.waiting)
               /\ Shape(a, mta.cmd)
<1> DEFINE k == mgr.ctx[c]
           a == With(mgr, c, h, k.state, st)
           cmd == mta.cmd
<1>1. /\ mgr \in Manager /\ InTurn(mgr, cmd) /\ k \in Context /\ k.state \in Slot
      /\ k.attached = ~k.quitted
  BY DEF TurnInv, TypeOK, Manager, Context, InTurn, Alive
<1>2. c = First(mgr.waiting)
  BY WorkerSentUpTo
<1>3. /\ a \in Manager /\ SameMessage(mgr, a) /\ a.packets = mgr.packets
      /\ a.st = mgr.st /\ a.pst = mgr.pst /\ a.index = mgr.index /\ a.sending = mgr.sending
      /\ a.offset = mgr.offset
      /\ a.ctx[c] = h /\ \A d \in Child : d # c => a.ctx[d] = mgr.ctx[d]
  BY <1>1, WithFrame
<1>4. Resting(a) /\ Turn(a, cmd) /\ First(a.waiting) = c
  BY <1>1, WithRests
<1> HIDE DEF a
<1>5. Alters(mgr, a, c)
  BY <1>3 DEF Alters
<1>6. Processing(a.ctx[c]) => Processing(k)
  BY <1>1, <1>3 DEF Processing
<1>7. Shape(a, cmd)
  BY <1>1, <1>2, <1>3, <1>5, <1>6, ShapeAlters
<1> QED BY <1>3, <1>4, <1>5, <1>7 DEF a

\* A child that answered has what precedes the command it answered.
LEMMA AnsweredReady ==
    ASSUME NEW a \in Manager, NEW b, NEW c \in Child, NEW x \in MessageCommand,
           Alters(a, b, c), x \in a.cmds \ NoStep[c], SentUpTo(a, c, x),
           x # "end-of-message", b.ctx[c].hdrs = a.ctx[c].hdrs,
           b.ctx[c].chunks = a.ctx[c].chunks, b.ctx[c].skip \/ ~a.ctx[c].skip
    PROVE  Ready(b, c, x) /\ (x = "body" => HeadersSent(b, c))
<1>1. /\ b.cmds = a.cmds /\ b.headers = a.headers /\ b.body = a.body /\ b.index = a.index
      /\ b.sending = a.sending /\ b.offset = a.offset
  BY DEF Alters, SameMessage
<1>2. x # "data"
  BY DEF MessageCommand
<1>3. x # "header" => HeadersSent(b, c)
  BY <1>1 DEF SentUpTo, HeadersSent
<1>4. x = "body" => ChunksSent(b, c)
  BY <1>1 DEF SentUpTo, ChunksSent
<1>5. x # "body" => b.ctx[c].chunks = 0
  BY DEF SentUpTo, MessageCommand
<1>6. x = "header" => b.ctx[c].hdrs = b.index /\ b.index <= b.headers
  BY <1>1 DEF SentUpTo
<1> QED BY <1>1, <1>2, <1>3, <1>4, <1>5, <1>6 DEF Ready

\* The answer of a child.
LEMMA ReplayReply ==
    ASSUME TurnInv, Shape(mgr, mta.cmd), Progress(mgr, mta.cmd), NEW c \in Child,
           NEW r \in Verdict, Reply(c, r)
    PROVE  Shape(mgr', mta.cmd) /\ Progress(mgr', mta.cmd)
<1> DEFINE k == mgr.ctx[c]
           cmd == mta.cmd
           after(h) == With(mgr, c, h, k.state, Effective(c, r))
<1>1. /\ TypeOK /\ mgr \in Manager /\ k \in Context /\ k.attached /\ k.owes
      /\ k.attached = ~k.quitted /\ Working(k) /\ (r = "skip" => k.state = "body")
      /\ mgr' = Heard(c, r) /\ Effective(c, r) \in Status
  BY DEF TurnInv, TypeOK, Manager, InTurn, Alive, Reply, Working, Effective, Status, Verdict
<1>2. /\ Turn(mgr, cmd) /\ k.state \in mgr.cmds \ NoStep[c] /\ k.state \in MessageCommand
      /\ k.state = "end-of-message" => cmd = "end-of-message"
      /\ k.state # "end-of-message" => SentUpTo(mgr, c, k.state)
      /\ k.next = <<>>
  BY <1>1, WorkerSentUpTo
<1>3. ASSUME NEW h \in {Quiet(k), Out(k), Skips(k)}
      PROVE  /\ h \in Context /\ h.attached /\ ~h.quitted /\ h.next = <<>> /\ Rests(h)
             /\ h.hdrs = k.hdrs /\ h.chunks = k.chunks
             /\ after(h) \in Manager /\ Alters(mgr, after(h), c) /\ after(h).ctx[c] = h
             /\ after(h).st = mgr.st
             /\ Resting(after(h)) /\ Turn(after(h), cmd) /\ c = First(after(h).waiting)
             /\ Shape(after(h), cmd)
  <2>1. /\ h \in Context /\ h.attached = k.attached /\ h.quitted = k.quitted
        /\ h.next = k.next /\ h.hdrs = k.hdrs /\ h.chunks = k.chunks /\ Rests(h)
    <3>1. Quiet(k) \in Context /\ Out(k) \in Context /\ Skips(k) \in Context
      BY <1>1, AnsweredRests
    <3>2. \A g \in {Quiet(k), Out(k), Skips(k)} :
             /\ g.attached = k.attached /\ g.quitted = k.quitted /\ g.next = k.next
             /\ g.state = k.state /\ g.hdrs = k.hdrs /\ g.chunks = k.chunks
             /\ k.next = <<>> => Rests(g)
      BY <1>1, AnsweredRests, Zenon
    <3> QED BY <1>2, <1>3, <3>1, <3>2
  <2>2. h.pmsg => k.pmsg
    BY <1>1, <1>3, AnsweredRests
  <2>3. Unaborted(h) /\ h.attached = ~h.quitted
    BY <1>1, <1>2, <2>1 DEF Unaborted
  <2>4. /\ after(h) \in Manager /\ Alters(mgr, after(h), c) /\ after(h).ctx[c] = h
        /\ after(h).st = mgr.st
        /\ Resting(after(h)) /\ Turn(after(h), cmd) /\ c = First(after(h).waiting)
        /\ Shape(after(h), cmd)
    BY <1>1, <2>1, <2>2, <2>3, AnswerShape
  <2> HIDE DEF after
  <2> QED BY <1>1, <1>2, <2>1, <2>4
<1>4. CASE r \in Refusal
  <2>1. mgr' = AbortAll(EmitOnce(after(Out(k)), k.state))
    BY <1>1, <1>4, HeardIs
  <2>2. EmitOnce(after(Out(k)), k.state) \in Manager
    BY <1>1, <1>3, OperatorTypes DEF Manager, Context
  <2> HIDE DEF after
  <2> QED BY <2>1, <2>2, AbortShape
<1>5. CASE r = "accept"
  <2>1. mgr' = NextChild(after(Out(k)), c)
    BY <1>1, <1>5, HeardIs
  <2>2. ~Processing(after(Out(k)).ctx[c])
    BY <1>1, <1>3, AnsweredRests DEF Processing
  <2>3. /\ after(Out(k)) \in Manager /\ Shape(after(Out(k)), cmd) /\ Turn(after(Out(k)), cmd)
        /\ Resting(after(Out(k))) /\ c = First(after(Out(k)).waiting)
    BY <1>3
  <2> HIDE DEF after
  <2> QED BY <2>1, <2>2, <2>3, NextReplay
<1>6. CASE r = "continue" /\ k.state = "end-of-message"
  <2>1. mgr' = NextChild(after(Quiet(k)), c) /\ cmd = "end-of-message"
    BY <1>1, <1>2, <1>6, HeardIs
  <2>2. /\ after(Quiet(k)) \in Manager /\ Shape(after(Quiet(k)), cmd)
        /\ Turn(after(Quiet(k)), cmd)
        /\ Resting(after(Quiet(k))) /\ c = First(after(Quiet(k)).waiting)
    BY <1>3
  <2> HIDE DEF after
  <2> QED BY <2>1, <2>2, NextReplay
<1>7. CASE r = "continue" /\ k.state # "end-of-message"
  <2> DEFINE a == after(Quiet(k))
  <2>1. mgr' = Proceed(a, c, k.state)
    BY <1>1, <1>7, HeardIs
  <2>2. /\ a \in Manager /\ Shape(a, cmd) /\ Turn(a, cmd) /\ Resting(a)
        /\ c = First(a.waiting) /\ Alters(mgr, a, c) /\ a.ctx[c] = Quiet(k)
        /\ a.ctx[c].hdrs = k.hdrs /\ a.ctx[c].chunks = k.chunks
    BY <1>3
  <2>3. a.ctx[c].skip = k.skip
    BY <1>1, <2>2, AnsweredRests
  <2> HIDE DEF a
  <2>4. Ready(a, c, k.state)
    BY <1>1, <1>2, <1>7, <2>2, <2>3, AnsweredReady
  <2>5. k.state \in {"data", "header", "end-of-header", "body"}
    BY <1>2, <1>7 DEF MessageCommand
  <2> QED BY <2>1, <2>2, <2>4, <2>5, ProceedReplay
<1>8. CASE r = "skip"
  <2> DEFINE a == after(Skips(k))
  <2>1. IF mgr.st = "end-of-message" THEN mgr' = Proceed(a, c, "body")
        ELSE mgr' = Say(a, "continue")
    BY <1>1, <1>8, HeardIs
  <2>2. /\ a \in Manager /\ Shape(a, cmd) /\ Turn(a, cmd) /\ Resting(a)
        /\ c = First(a.waiting) /\ Alters(mgr, a, c) /\ a.ctx[c] = Skips(k)
        /\ a.ctx[c].hdrs = k.hdrs /\ a.ctx[c].chunks = k.chunks /\ a.ctx[c].next = <<>>
    BY <1>3
  <2>3. a.ctx[c].skip
    BY <1>1, <2>2, AnsweredRests
  <2> HIDE DEF a
  <2>4. Ready(a, c, "body") /\ HeadersSent(a, c)
    BY <1>1, <1>2, <1>8, <2>2, <2>3, AnsweredReady
  <2>5. CASE mgr.st = "end-of-message"
    BY <2>1, <2>2, <2>4, <2>5, ProceedReplay
  <2>6. CASE mgr.st # "end-of-message"
    <3>1. mgr' = Say(a, "continue") /\ "continue" \in Status
      BY <2>1, <2>6 DEF Status, Verdict
    <3>2. SameWork(a, mgr') /\ SameMessage(a, mgr') /\ Tells(a, mgr', "continue")
          /\ mgr' \in Manager
      BY <2>2, <3>1, SayFrame
    <3>3. a.packets = <<>> /\ Going(a)
      BY <2>2 DEF Turn, Going
    <3>5. /\ mgr'.ctx = a.ctx /\ mgr'.waiting = a.waiting /\ mgr'.cmds = a.cmds
          /\ mgr'.headers = a.headers /\ mgr'.body = a.body /\ mgr'.pst = a.pst
      BY <3>2 DEF SameWork, SameMessage
    <3>6. Shape(mgr', cmd)
      BY <2>2, <3>3, <3>5 DEF Shape
    <3>7. ~Working(mgr'.ctx[c]) \/ ~mgr'.ctx[c].attached
      BY <2>2, <3>5 DEF Resting, Rests
    <3>8. HeadersSent(mgr', c) /\ BodySent(mgr', c)
      BY <2>3, <2>4, <3>5 DEF HeadersSent, BodySent
    <3>9. cmd \notin {"header", "end-of-header"}
      BY <1>1, <1>2, <1>8, ShapeCommands
    <3> QED BY <2>2, <3>5, <3>6, <3>7, <3>8, <3>9 DEF Progress
  <2> QED BY <2>5, <2>6
<1> QED BY <1>4, <1>5, <1>6, <1>7, <1>8 DEF Verdict, Refusal

\* A child that failed in its turn has no turn any more.
LEMMA FellShape ==
    ASSUME TurnInv, Shape(mgr, mta.cmd), Progress(mgr, mta.cmd), NEW c \in Child,
           mgr.ctx[c].attached, Working(mgr.ctx[c])
    PROVE  LET fell == With(mgr, c, Expired(mgr.ctx[c]), mgr.ctx[c].state, Fallback[c])
           IN  /\ fell \in Manager /\ Shape(fell, mta.cmd) /\ Progress(fell, mta.cmd)
               /\ Shape(Concluded(fell), mta.cmd) /\ Progress(Concluded(fell), mta.cmd)
               /\ Shape(NextChild(fell, c), mta.cmd) /\ Progress(NextChild(fell, c), mta.cmd)
<1> DEFINE k == mgr.ctx[c]
           h == Expired(k)
           fell == With(mgr, c, h, k.state, Fallback[c])
           cmd == mta.cmd
           told == EmitSlot(fell, fell.pst)
<1>1. k \in Context /\ Fallback[c] \in Status
  BY FallbackType DEF TurnInv, TypeOK, Manager
<1>2. h \in Context /\ Rests(h) /\ h.quitted /\ ~h.attached
  BY <1>1, AnsweredRests
<1>3. Unaborted(h) /\ h.attached = ~h.quitted
  BY <1>1, <1>2 DEF Unaborted, Context
<1> HIDE DEF h
<1>4. /\ fell \in Manager /\ fell.ctx[c] = h /\ Resting(fell) /\ Turn(fell, cmd)
      /\ c = First(fell.waiting) /\ Shape(fell, cmd)
  BY <1>1, <1>2, <1>3, AnswerShape
<1> HIDE DEF fell
<1>5. Progress(fell, cmd)
  BY <1>2, <1>4, NobodysProgress
<1>6. Shape(NextChild(fell, c), cmd) /\ Progress(NextChild(fell, c), cmd)
  <2>1. ~Processing(fell.ctx[c])
    BY <1>2, <1>4 DEF Processing
  <2> QED BY <1>4, <2>1, NextReplay
<1>7. told \in Manager /\ Shape(told, cmd) /\ Progress(told, cmd)
  <2>1. fell.pst \in Slot /\ Going(fell) /\ fell.waiting # {}
    BY <1>4 DEF Manager, Turn, Going
  <2>2. Emits(fell, told, fell.pst)
    BY <1>4, <2>1, EmitFrame
  <2>3. fell.pst = "end-of-message" => cmd = "end-of-message"
    BY <1>4, <2>1 DEF Shape
  <2> HIDE DEF told
  <2>4. Shape(told, cmd)
    BY <1>4, <2>1, <2>2, <2>3, ShapeEmits
  <2>5. told.waiting = {} \/ (told.waiting = fell.waiting /\ told.ctx = fell.ctx)
    BY <2>2 DEF Emits, SameMessage, SameWork, Disposed
  <2>6. Progress(told, cmd)
    BY <1>2, <1>4, <2>5, NobodysProgress
  <2> QED BY <2>2, <2>4, <2>6 DEF Emits
<1>8. Shape(Concluded(fell), cmd) /\ Progress(Concluded(fell), cmd)
  BY <1>7, AbortShape DEF Concluded
<1> QED BY <1>4, <1>5, <1>6, <1>8 DEF fell, h

\* A context that is not that of the child whose turn it is.
LEMMA OtherProgress ==
    ASSUME NEW a \in Manager, NEW b, NEW c \in Child, NEW cmd, Alters(a, b, c),
           Progress(a, cmd), a.waiting # {} /\ c = First(a.waiting) => ~b.ctx[c].attached
    PROVE  Progress(b, cmd)
<1>1. /\ b.waiting = a.waiting /\ b.cmds = a.cmds /\ b.headers = a.headers
      /\ b.body = a.body /\ b.index = a.index /\ b.sending = a.sending
      /\ b.offset = a.offset /\ b.packets = a.packets
      /\ \A d \in Child : d # c => b.ctx[d] = a.ctx[d]
  BY DEF Alters, SameMessage
<1>2. CASE a.waiting = {} \/ c = First(a.waiting)
  BY <1>1, <1>2, NobodysProgress
<1>3. CASE a.waiting # {} /\ c # First(a.waiting)
  <2> DEFINE d == First(a.waiting)
  <2>1. d \in Child
    <3>1. a.waiting \in SUBSET Child
      BY DEF Manager
    <3> QED BY <1>3, <3>1, FirstOf
  <2>2. b.ctx[d] = a.ctx[d] /\ d = First(b.waiting)
    BY <1>1, <1>3, <2>1
  <2> HIDE DEF d
  <2>3. \A x : SentUpTo(a, d, x) <=> SentUpTo(b, d, x)
    BY <1>1, <2>2 DEF SentUpTo, HeadersSent, BodySent, ChunksSent
  <2>4. HeadersSent(a, d) <=> HeadersSent(b, d)
    BY <1>1, <2>2 DEF HeadersSent
  <2>5. BodySent(a, d) <=> BodySent(b, d)
    BY <1>1, <2>2 DEF BodySent
  <2>6. Going(a) <=> Going(b)
    BY <1>1 DEF Going
  <2>7. d = First(a.waiting)
    BY DEF d
  <2> QED BY <1>1, <1>3, <2>2, <2>3, <2>4, <2>5, <2>6, <2>7 DEF Progress
<1> QED BY <1>2, <1>3

\* cb_finished
LEMMA ReplayFinished ==
    ASSUME TurnInv, Shape(mgr, mta.cmd), Progress(mgr, mta.cmd), NEW c \in Child,
           ChildFinished(c)
    PROVE  Shape(mgr', mta.cmd) /\ Progress(mgr', mta.cmd)
<1> DEFINE k == mgr.ctx[c]
           h == Expired(k)
           fell == With(mgr, c, h, k.state, Fallback[c])
           cmd == mta.cmd
<1>1. mgr \in Manager /\ k \in Context /\ k.attached /\ TypeOK
  BY DEF TurnInv, TypeOK, Manager, ChildFinished
<1>2. h \in Context /\ h.quitted /\ ~h.attached
  BY <1>1, AnsweredRests
<1>3. mgr' = IF k.timer = "none" THEN [mgr EXCEPT !.ctx[c] = h]
             ELSE IF mgr.pst \in MessageCommand
             THEN IF mgr.emitted THEN fell ELSE NextChild(fell, c)
             ELSE Concluded(fell)
  BY <1>1, FailedIs DEF ChildFinished, Concluded
<1>4. CASE k.timer = "none"
  <2> HIDE DEF h
  <2>1. mgr' = [mgr EXCEPT !.ctx[c] = h]
    BY <1>3, <1>4
  <2>2. Alters(mgr, mgr', c) /\ mgr'.ctx[c] = h
    BY <1>1, <1>2, <2>1, CtxFrame DEF Alters
  <2>3. ~Processing(h) /\ Bare(h) /\ Unaborted(h)
    BY <1>2 DEF Processing, Bare, Unaborted
  <2>4. Shape(mgr', cmd)
    BY <1>1, <2>2, <2>3, ShapeAlters
  <2>5. Progress(mgr', cmd)
    BY <1>1, <1>2, <2>2, OtherProgress
  <2> QED BY <2>4, <2>5
<1>5. CASE k.timer # "none"
  <2>1. Working(k)
    BY <1>1, <1>5 DEF TurnInv, InTurn, Orderly
  <2>2. /\ Shape(fell, cmd) /\ Progress(fell, cmd)
        /\ Shape(Concluded(fell), cmd) /\ Progress(Concluded(fell), cmd)
        /\ Shape(NextChild(fell, c), cmd) /\ Progress(NextChild(fell, c), cmd)
    BY <1>1, <2>1, FellShape
  <2> HIDE DEF fell
  <2> QED BY <1>3, <1>5, <2>2
<1> QED BY <1>4, <1>5

\* flushed
LEMMA ReplayFlush ==
    ASSUME TurnInv, Shape(mgr, mta.cmd), Progress(mgr, mta.cmd), NEW c \in Child, Flush(c)
    PROVE  Shape(mgr', mta.cmd) /\ Progress(mgr', mta.cmd)
<1> DEFINE k == mgr.ctx[c]
           f == Flushed(k)
           x == k.next[Len(k.next)]
           cmd == mta.cmd
<1>1. mgr \in Manager /\ k \in Context /\ k.attached /\ k.next # <<>> /\ Orderly(k)
      /\ mgr.waiting \in SUBSET Child
  BY DEF TurnInv, TypeOK, Manager, Flush, InTurn
<1>2. /\ f \in Context /\ f.next = <<>> /\ f.state = x /\ f.quitted = k.quitted
      /\ f.attached = k.attached /\ f.hdrs = k.hdrs /\ f.chunks = k.chunks
      /\ f.pmsg => k.pmsg
  BY <1>1, FlushedWorks
<1>3. x # "abort" => f.skip = k.skip /\ f.owes
  BY <1>1, FlushedWorks
<1>4. mgr' = [mgr EXCEPT !.ctx[c] = f]
  BY DEF Flush
<1> HIDE DEF f
<1>5. Alters(mgr, mgr', c) /\ mgr'.ctx[c] = f
  BY <1>1, <1>2, <1>4, CtxFrame DEF Alters
<1>6. Unaborted(f) /\ (Processing(f) => Processing(k)) /\ (Bare(k) => Bare(f))
  BY <1>2 DEF Unaborted, Processing, Bare
<1>7. Shape(mgr', cmd)
  <2>1. c \in mgr.waiting /\ c # First(mgr.waiting) => Bare(f)
    BY <1>6 DEF Shape
  <2> QED BY <1>1, <1>5, <1>6, <2>1, ShapeAlters
<1>8. CASE x = "abort"
  <2>1. c \notin mgr.waiting
    BY <1>1, <1>8 DEF Shape, Unaborted
  <2>2. ~(mgr.waiting # {} /\ c = First(mgr.waiting))
    BY <1>1, <2>1, FirstOf
  <2> QED BY <1>1, <1>5, <1>7, <2>2, OtherProgress
<1>9. CASE x # "abort"
  <2>1. Working(k) /\ ~k.owes /\ AskedOf(k) = x
    BY <1>1, <1>9 DEF Working, Orderly, AskedOf
  <2>2. /\ Turn(mgr, cmd) /\ c = First(mgr.waiting)
        /\ x \in mgr.cmds \ NoStep[c] /\ SentUpTo(mgr, c, x)
    BY <1>1, <2>1, WorkerSentUpTo
  <2>3. /\ mgr'.waiting = mgr.waiting /\ mgr'.cmds = mgr.cmds
        /\ mgr'.headers = mgr.headers /\ mgr'.body = mgr.body /\ mgr'.index = mgr.index
        /\ mgr'.sending = mgr.sending /\ mgr'.offset = mgr.offset
        /\ mgr'.packets = <<>>
    BY <1>5, <2>2 DEF Alters, SameMessage, Turn
  <2> HIDE DEF x
  <2>4. AskedOf(f) = x
    BY <1>2 DEF AskedOf
  <2>5. SentUpTo(mgr', c, x)
    BY <1>2, <1>3, <1>5, <1>9, <2>2, <2>3
       DEF SentUpTo, HeadersSent, BodySent, ChunksSent
  <2>6. Progress(mgr', cmd)
    BY <1>5, <2>2, <2>3, <2>4, <2>5 DEF Progress
  <2> QED BY <1>7, <2>6
<1> QED BY <1>8, <1>9

\* A child changes the message only at its end, when it has been sent the message.
LEMMA ReplayEdit ==
    ASSUME TurnInv, Shape(mgr, mta.cmd), Progress(mgr, mta.cmd), NEW c \in Child, NEW e,
           Edit(c, e)
    PROVE  Shape(mgr', mta.cmd) /\ Progress(mgr', mta.cmd)
<1> DEFINE k == mgr.ctx[c]
           cmd == mta.cmd
<1>1. /\ mgr \in Manager /\ k.attached /\ k.owes /\ k.state = "end-of-message" /\ Working(k)
  BY DEF TurnInv, TypeOK, Edit, Working
<1>2. /\ Turn(mgr, cmd) /\ c = First(mgr.waiting) /\ cmd = "end-of-message"
      /\ k.next = <<>> /\ AskedOf(k) \in mgr.cmds \ NoStep[c]
  BY <1>1, WorkerSentUpTo
<1>3. /\ mgr'.ctx = mgr.ctx /\ mgr'.waiting = mgr.waiting /\ mgr'.cmds = mgr.cmds
      /\ mgr'.packets = mgr.packets
  BY <1>1, EditFrame
<1>4. Shape(mgr', cmd)
  BY <1>2, <1>3 DEF Shape, Going
<1>5. Progress(mgr', cmd)
  BY <1>1, <1>2, <1>3 DEF Progress
<1> QED BY <1>4, <1>5

-----------------------------------------------------------------------------
(* The commands of the MTA *)

\* The message is about to begin.
Beginning(a) == Blank(a) /\ \A c \in Child : /\ Bare(a.ctx[c])
                                             /\ a.ctx[c].attached => a.ctx[c].next = <<>>

\* Between two commands child c has everything so far.
UpToDate(a, c, cmd) ==
    /\ HeadersSent(a, c) /\ BodySent(a, c)
    /\ cmd \in {"data", "header"} => a.index = a.headers
    /\ cmd = "data" => a.headers = 0 /\ a.ctx[c].hdrs = 0
    /\ cmd \in {"data", "header", "end-of-header"} => a.ctx[c].chunks = 0 /\ a.body = 0

\* The queues when the MTA's next command x is taken.
LEMMA TakenShape ==
    ASSUME TurnInv, NEW x \in MessageCommand, MaySend(x), "end-of-header" \in Sends,
           \E c \in Child : Processing(mgr.ctx[c]),
           mta.cmd = "data" => Beginning(mgr),
           mta.cmd # "data" => Shape(mgr, mta.cmd) /\ Progress(mgr, mta.cmd)
    PROVE  LET m == Taken(Asked(mgr), x)
               c == First(m.waiting)
           IN  /\ Shape(m, x)
               /\ mgr.ctx[c].attached => UpToDate(mgr, c, mta.cmd)
               /\ mta.cmd # "data" => mta.cmd \in mgr.cmds
<1> DEFINE m == Taken(Asked(mgr), x)
           c == First(m.waiting)
           cmd == mta.cmd
<1>1. /\ mgr \in Manager /\ InMessage /\ Position[cmd] <= Position[x]
      /\ x \in {"body", "end-of-message"} => cmd \in {"end-of-header", "body"}
      /\ (cmd = x => x \in {"header", "body"})
  BY DEF TurnInv, TypeOK, MaySend
<1>2. /\ m.ctx = mgr.ctx /\ m.packets = <<>> /\ m.cmds = mgr.cmds \cup {x} /\ m.pst = x
  <2>1. m.ctx = mgr.ctx /\ m.packets = <<>>
    BY <1>1, TakenFrame
  <2>2. m.cmds = mgr.cmds \cup {x} /\ m.pst = x
    BY <1>1, TakenFrame
  <2> QED BY <2>1, <2>2
<1>3. m.body = IF x = "body" THEN mgr.body + 1 ELSE mgr.body
  BY <1>1, TakenCounts
<1>4. /\ mgr.waiting # {} => m.waiting = mgr.waiting
      /\ mgr.waiting = {} => \A d \in Child : d \in m.waiting <=> Processing(mgr.ctx[d])
  BY <1>1, TakenQueue
<1>5. m.waiting # {} /\ m.waiting \in SUBSET Child
  <2>1. m \in Manager
    BY <1>1, TakenFrame
  <2>2. m.waiting # {}
    <3> HIDE DEF m
    <3> QED BY <1>4
  <2> QED BY <2>1, <2>2 DEF Manager
<1>6. c \in m.waiting /\ c \in Child
  BY <1>5, FirstOf
<1>7. /\ Position["data"] = 0 /\ Position["header"] = 1 /\ Position["end-of-header"] = 2
      /\ Position["body"] = 3 /\ Position["end-of-message"] = 4
  BY DEF Position, MessageCommand
<1>8. c = First(m.waiting)
  OBVIOUS
<1> HIDE DEF m, c
<1>9. CASE cmd = "data"
  <2>1. /\ mgr.waiting = {} /\ mgr.cmds = {} /\ mgr.index = 0 /\ mgr.headers = 0
        /\ mgr.body = 0
        /\ \A d \in Child : /\ Bare(mgr.ctx[d])
                            /\ mgr.ctx[d].attached => mgr.ctx[d].next = <<>>
    BY <1>9 DEF Beginning, Blank
  <2>2. x \in {"header", "end-of-header"}
    BY <1>1, <1>9 DEF MessageCommand
  <2>3. \A d \in m.waiting : Bare(m.ctx[d]) /\ Unaborted(m.ctx[d])
    BY <1>2, <1>5, <2>1 DEF Unaborted
  <2>4. \A d \in Child : Processing(m.ctx[d]) => d \in m.waiting
    BY <1>2, <1>4, <2>1
  <2>5. Shape(m, x)
    BY <1>2, <1>3, <1>7, <2>1, <2>2, <2>3, <2>4 DEF Shape
  <2>6. mgr.ctx[c].attached => UpToDate(mgr, c, cmd)
    BY <1>6, <2>1 DEF UpToDate, HeadersSent, BodySent, Bare
  <2> QED BY <1>9, <2>5, <2>6 DEF m, c
<1>10. CASE cmd # "data"
  <2>1. /\ cmd \in MessageCommand /\ cmd # "end-of-message" /\ mgr.packets # <<>>
        /\ mgr.packets[1] = "continue"
    BY <1>1, <1>10 DEF InMessage
  <2>2. Shape(mgr, cmd) /\ Progress(mgr, cmd) /\ Going(mgr)
    BY <1>10, <2>1 DEF Going
  <2>3. mgr.waiting # {}
    BY <2>1, <2>2 DEF Shape
  <2>4. m.waiting = mgr.waiting
    BY <1>4, <2>3
  <2>5. cmd \in mgr.cmds /\ (cmd = "body" => "end-of-header" \in mgr.cmds)
    BY <2>2, <2>3 DEF Shape
  <2>6. \A y \in m.cmds : Position[y] <= Position[x]
    <3>1. \A y \in mgr.cmds : Position[y] <= Position[cmd] /\ y \in MessageCommand
      BY <1>1, <2>2 DEF Shape, Manager
    <3>2. \A y \in MessageCommand : Position[y] \in Int
      BY DEF Position, MessageCommand
    <3> QED BY <1>1, <1>2, <2>1, <3>1, <3>2
  <2>7. x \in {"header", "end-of-header"} => m.body = 0
    <3> SUFFICES ASSUME x \in {"header", "end-of-header"}
                 PROVE  mgr.body = 0
      BY <1>3
    <3>1. cmd \in {"header", "end-of-header"}
      BY <1>1, <1>7, <2>1 DEF MessageCommand
    <3> QED BY <2>2, <3>1 DEF Shape
  <2>8. \A d \in m.waiting : /\ d # First(m.waiting) => Bare(m.ctx[d])
                             /\ Unaborted(m.ctx[d])
    BY <1>2, <2>2, <2>4 DEF Shape
  <2>9. \A d \in Child : Processing(m.ctx[d]) => d \in m.waiting
    BY <1>2, <2>1, <2>2, <2>4 DEF Shape
  <2>10. x \in m.cmds /\ (x \in {"body", "end-of-message"} => "end-of-header" \in m.cmds)
    BY <1>1, <1>2, <2>5
  <2>11. m.pst = "end-of-message" => x = "end-of-message"
    BY <1>2
  <2>12. Shape(m, x)
    BY <2>6, <2>7, <2>8, <2>9, <2>10, <2>11 DEF Shape
  <2>13. mgr.ctx[c].attached => UpToDate(mgr, c, cmd)
    <3>1. c = First(mgr.waiting)
      BY <1>8, <2>4
    <3>2. mgr.ctx[c].attached =>
             /\ HeadersSent(mgr, c) /\ BodySent(mgr, c)
             /\ cmd = "header" => mgr.index = mgr.headers
             /\ cmd \in {"header", "end-of-header"} => mgr.ctx[c].chunks = 0
      BY <2>1, <2>2, <2>3, <3>1 DEF Progress
    <3>3. cmd \in {"header", "end-of-header"} => mgr.body = 0
      BY <2>2 DEF Shape
    <3> QED BY <1>10, <3>2, <3>3 DEF UpToDate
  <2> QED BY <2>5, <2>12, <2>13 DEF m, c
<1> QED BY <1>9, <1>10

\* milter_manager_children_header, _end_of_header, _body and _end_of_message
LEMMA ReplaySend ==
    ASSUME TurnInv, NEW x \in MessageCommand, SendCommand(x), "end-of-header" \in Sends,
           mta.cmd = "data" => Beginning(mgr),
           mta.cmd # "data" => Shape(mgr, mta.cmd) /\ Progress(mgr, mta.cmd)
    PROVE  Shape(mgr', x) /\ Progress(mgr', x)
<1> DEFINE m == Taken(Asked(mgr), x)
           c == First(m.waiting)
           k == mgr.ctx[c]
           w == mgr'.ctx[c]
           cmd == mta.cmd
<1>1. /\ mgr \in Manager /\ InTurn(mgr, cmd) /\ MaySend(x) /\ InMessage
      /\ \E d \in Child : Processing(mgr.ctx[d])
  BY DEF TurnInv, TypeOK, SendCommand, MaySend
<1>2. /\ Shape(m, x) /\ (k.attached => UpToDate(mgr, c, cmd))
      /\ cmd # "data" => cmd \in mgr.cmds
  BY <1>1, TakenShape
<1>3. /\ c \in m.waiting /\ c \in Child /\ Gives(m, mgr', c)
      /\ mgr'.index = m.index /\ mgr'.sending = m.sending
      /\ w.attached = m.ctx[c].attached /\ w.quitted = m.ctx[c].quitted
      /\ w.pmsg = m.ctx[c].pmsg /\ w.skip = m.ctx[c].skip /\ w.owes = m.ctx[c].owes
      /\ Passes(m, mgr', c, x) \/ Writes(m, mgr', c, x) \/ Declines(m, mgr', c, x)
  BY <1>1, SendFrame
<1>4. m \in Manager /\ m.ctx = mgr.ctx /\ m.packets = <<>> /\ m.cmds = mgr.cmds \cup {x}
  <2>1. m \in Manager /\ m.ctx = mgr.ctx
    BY <1>1, TakenFrame
  <2>2. m.packets = <<>> /\ m.cmds = mgr.cmds \cup {x}
    BY <1>1, TakenFrame
  <2> QED BY <2>1, <2>2
<1>5. /\ m.headers = IF x = "header" THEN mgr.headers + 1 ELSE mgr.headers
      /\ x = "header" => m.index = mgr.index + 1
      /\ m.body = IF x = "body" THEN mgr.body + 1 ELSE mgr.body
      /\ x = "body" => m.sending = FALSE
  BY <1>1, TakenCounts
<1>6. c = First(m.waiting)
  OBVIOUS
<1> HIDE DEF m, c
<1>7. /\ mgr'.waiting = m.waiting /\ mgr'.cmds = m.cmds /\ mgr'.headers = m.headers
      /\ mgr'.body = m.body
  BY <1>3 DEF Gives, SameMessage
<1>8. /\ k \in Context /\ mgr.headers \in Nat /\ mgr.index \in Nat /\ mgr.body \in Nat
      /\ k.hdrs \in Nat /\ k.chunks \in Nat
  <2>1. k \in Context
    BY <1>1, <1>3 DEF Manager
  <2> QED BY <1>1, <2>1 DEF Manager, Context
<1>9. k.attached => ~Working(k) /\ ~k.owes /\ Rests(k)
  <2>1. ~(cmd \in MessageCommand /\ mgr.packets = <<>>)
    BY <1>1 DEF InMessage, MessageCommand
  <2>2. Resting(mgr)
    BY <1>1, <2>1, AnsweredResting
  <2> QED BY <1>3, <2>2 DEF Resting, Rests, Working
<1>10. /\ x = "header" => cmd \in {"data", "header"}
       /\ x = "end-of-header" => cmd \in {"data", "header"}
       /\ x = "body" => cmd \in {"end-of-header", "body"}
  BY <1>1 DEF MaySend, InMessage, Position, MessageCommand
<1>11. Unaborted(k) /\ Going(m)
  BY <1>2, <1>3, <1>4 DEF Shape, Going
<1>12. ASSUME Unaborted(w)
       PROVE  Shape(mgr', x)
  BY <1>2, <1>3, <1>4, <1>6, <1>11, <1>12, ShapeGives
<1>13. CASE Passes(m, mgr', c, x)
  <2>1. /\ w.next = k.next /\ w.hdrs = k.hdrs /\ w.chunks = k.chunks /\ w.skip = k.skip
        /\ w.attached = k.attached /\ w.owes = k.owes
    BY <1>3, <1>4, <1>13 DEF Passes
  <2>2. x \in NoStep[c] \/ (x = "body" /\ k.skip)
    BY <1>4, <1>13 DEF Passes
  <2>3. Shape(mgr', x)
    BY <1>11, <1>12, <2>1 DEF Unaborted
  <2> SUFFICES ASSUME w.attached
               PROVE  Progress(mgr', x)
    BY <1>6, <1>7, <2>3, NobodysProgress
  <2>4. ~Working(w) /\ UpToDate(mgr, c, cmd)
    BY <1>2, <1>9, <2>1 DEF Working
  <2>5. HeadersSent(mgr', c)
    BY <1>4, <1>5, <1>7, <2>1, <2>2, <2>4 DEF UpToDate, HeadersSent
  <2>6. BodySent(mgr', c)
    BY <1>4, <1>5, <1>7, <2>1, <2>2, <2>4 DEF UpToDate, BodySent
  <2>7. x = "header" => mgr'.index = mgr'.headers
    BY <1>3, <1>5, <1>7, <1>10, <2>4 DEF UpToDate
  <2>8. x \in {"header", "end-of-header"} => w.chunks = 0
    BY <1>10, <2>1, <2>4 DEF UpToDate
  <2> QED BY <1>6, <1>7, <2>4, <2>5, <2>6, <2>7, <2>8 DEF Progress
<1>14. CASE Writes(m, mgr', c, x)
  <2>1. /\ w = Write(k, x) /\ x \notin NoStep[c] /\ (x = "body" => ~k.skip)
        /\ mgr'.packets = <<>>
    BY <1>4, <1>14 DEF Writes
  <2>2. /\ w.next # <<>> /\ w.next[Len(w.next)] = x /\ w.attached = k.attached
        /\ w.skip = k.skip /\ w.owes = k.owes
        /\ w.hdrs = IF x = "header" THEN k.hdrs + 1 ELSE k.hdrs
        /\ w.chunks = IF x = "body" THEN k.chunks + 1 ELSE k.chunks
    BY <1>8, <2>1, WriteWorks
  <2> HIDE DEF w
  <2>3. Unaborted(w) /\ AskedOf(w) = x
    BY <2>2 DEF Unaborted, AskedOf, MessageCommand
  <2>4. Shape(mgr', x)
    BY <1>12, <2>3
  <2> SUFFICES ASSUME w.attached
               PROVE  Progress(mgr', x)
    BY <1>6, <1>7, <2>4, NobodysProgress DEF w
  <2>5. UpToDate(mgr, c, cmd)
    BY <1>2, <2>2
  <2>6. x = "header" => w.hdrs = mgr'.index /\ mgr'.index <= mgr'.headers
    <3> SUFFICES ASSUME x = "header"
                 PROVE  w.hdrs = mgr'.index /\ mgr'.index <= mgr'.headers
      OBVIOUS
    <3>1. mgr.index = mgr.headers
      BY <1>10, <2>5 DEF UpToDate
    <3>2. k.hdrs = mgr.headers
      <4>1. CASE cmd = "data"
        BY <2>5, <4>1 DEF UpToDate
      <4>2. CASE cmd = "header"
        BY <1>2, <2>1, <2>5, <4>2 DEF UpToDate, HeadersSent
      <4> QED BY <1>10, <4>1, <4>2
    <3> QED BY <1>3, <1>5, <1>7, <1>8, <2>2, <3>1, <3>2
  <2>7. x # "header" => HeadersSent(mgr', c)
    BY <1>4, <1>5, <1>7, <2>2, <2>5 DEF UpToDate, HeadersSent, w
  <2>8. x \in {"header", "end-of-header"} => w.chunks = 0
    BY <1>10, <2>2, <2>5 DEF UpToDate
  <2>9. x = "body" => ChunksSent(mgr', c)
    <3> SUFFICES ASSUME x = "body"
                 PROVE  ChunksSent(mgr', c)
      OBVIOUS
    <3>1. k.chunks = mgr.body
      <4>1. CASE cmd = "end-of-header"
        BY <2>5, <4>1 DEF UpToDate
      <4>2. CASE cmd = "body"
        BY <1>2, <2>1, <2>5, <4>2 DEF UpToDate, BodySent
      <4> QED BY <1>10, <4>1, <4>2
    <3> QED BY <1>3, <1>5, <1>7, <1>8, <2>2, <3>1 DEF ChunksSent, w
  <2>10. x = "end-of-message" => BodySent(mgr', c)
    BY <1>4, <1>5, <1>7, <2>2, <2>5 DEF UpToDate, BodySent, w
  <2>11. SentUpTo(mgr', c, x)
    BY <2>6, <2>7, <2>8, <2>9, <2>10 DEF SentUpTo, w
  <2>12. x \in mgr'.cmds \ NoStep[c]
    BY <1>4, <1>7, <2>1
  <2> QED BY <1>6, <1>7, <2>1, <2>3, <2>11, <2>12 DEF Progress, w
<1>15. CASE Declines(m, mgr', c, x)
  <2>1. w = k /\ mgr'.packets = Append(<<>>, ManagerFallback)
    BY <1>4, <1>15 DEF Declines
  <2>2. mgr'.packets[1] = ManagerFallback /\ mgr'.packets # <<>>
    BY <2>1
  <2>3. ~Going(mgr')
    BY <2>2, ConfigAssumption DEF Going, Refusal
  <2>4. Shape(mgr', x)
    BY <1>11, <1>12, <2>1
  <2>5. Progress(mgr', x)
    BY <1>6, <1>7, <1>9, <2>1, <2>3 DEF Progress
  <2> QED BY <2>4, <2>5
<1> QED BY <1>3, <1>13, <1>14, <1>15

\* No child is at the message: the MTA is refused.
LEMMA ReplayRefuse ==
    ASSUME TurnInv, NEW x \in MessageCommand, RefuseCommand(x),
           mta.cmd = "data" => Beginning(mgr),
           mta.cmd # "data" => Shape(mgr, mta.cmd) /\ Progress(mgr, mta.cmd)
    PROVE  Shape(mgr', x) /\ Progress(mgr', x)
<1> DEFINE cmd == mta.cmd
<1>1. /\ mgr \in Manager /\ InTurn(mgr, cmd) /\ InMessage /\ Position[cmd] <= Position[x]
      /\ \A c \in Child : ~Processing(mgr.ctx[c])
  BY DEF TurnInv, TypeOK, RefuseCommand, MaySend
<1>2. /\ mgr'.ctx = mgr.ctx /\ mgr'.pst = mgr.pst /\ mgr'.waiting = mgr.waiting
      /\ mgr'.cmds = mgr.cmds /\ mgr'.body = mgr.body
      /\ mgr'.packets = <<ManagerFallback, ManagerFallback>>
  BY <1>1, RefuseFrame DEF SameWork, SameMessage
<1>3. ~Going(mgr')
  BY <1>2, ConfigAssumption DEF Going, Refusal
<1>4. Resting(mgr')
  <2>1. ~(cmd \in MessageCommand /\ mgr.packets = <<>>)
    BY <1>1 DEF InMessage, MessageCommand
  <2>2. Resting(mgr)
    BY <1>1, <2>1, AnsweredResting
  <2> QED BY <1>2, <2>2 DEF Resting
<1>5. mgr.waiting \in SUBSET Child /\ mgr.cmds \subseteq MessageCommand
  BY <1>1 DEF Manager
<1>6. Progress(mgr', x)
  <2>1. mgr'.waiting # {} => First(mgr'.waiting) \in Child
    BY <1>2, <1>5, FirstOf
  <2> QED BY <1>3, <1>4, <2>1 DEF Progress, Resting, Rests
<1>7. CASE cmd = "data"
  <2>1. mgr.waiting = {} /\ mgr.cmds = {} /\ mgr.body = 0
    BY <1>7 DEF Beginning, Blank
  <2>2. Shape(mgr', x)
    BY <1>1, <1>2, <2>1 DEF Shape
  <2> QED BY <1>6, <2>2
<1>8. CASE cmd # "data"
  <2>1. Shape(mgr, cmd) /\ cmd \in MessageCommand /\ cmd # "end-of-message"
    BY <1>1, <1>8 DEF InMessage
  <2>2. \A y \in mgr.cmds : Position[y] <= Position[x]
    <3>1. \A y \in mgr.cmds : Position[y] <= Position[cmd]
      BY <2>1 DEF Shape
    <3>2. \A y \in MessageCommand : Position[y] \in Int
      BY DEF Position, MessageCommand
    <3> QED BY <1>1, <1>5, <2>1, <3>1, <3>2
  <2>3. x \in {"header", "end-of-header"} => cmd \in {"header", "end-of-header"}
    BY <1>1, <2>1 DEF Position, MessageCommand
  <2>4. Shape(mgr', x)
    BY <1>1, <1>2, <1>3, <2>1, <2>2, <2>3 DEF Shape
  <2> QED BY <1>6, <2>4
<1> QED BY <1>7, <1>8

-----------------------------------------------------------------------------
(* Every child sees the whole message *)

\* Every step of the first message keeps the replay.
LEMMA ReplayStep ==
    ASSUME TurnInv, ReplayInv, [Next]_vars, "idle" \notin Faults, "end-of-header" \in Sends
    PROVE  ReplayInv'
<1>1. /\ TypeOK /\ mgr \in Manager /\ mta \in MtaType /\ InTurn(mgr, mta.cmd) /\ Alive(mgr)
      /\ mta.messages \in Nat /\ mta.cmd \in {"data", "abort"} \cup MessageCommand
  BY DEF TurnInv, TypeOK, MtaType, InTurn
<1> DEFINE S == Shape(mgr, mta.cmd) /\ Progress(mgr, mta.cmd)
<1>2. CASE UNCHANGED vars
  BY <1>2 DEF vars, ReplayInv
<1>3. CASE NewMessage
  <2>1. mta'.messages = mta.messages + 1 /\ mta'.cmd = "data"
    BY <1>1, <1>3 DEF NewMessage, MtaType
  <2>2. CASE mta.messages # 0
    BY <1>1, <2>1, <2>2 DEF ReplayInv
  <2>3. CASE mta.messages = 0
    <3>1. Blank(mgr)
      BY <2>3 DEF ReplayInv
    <3>2. Blank(mgr')
      BY <1>1, <1>3, <3>1, NewMessageFrame DEF Blank
    <3>3. Alive(mgr')
      BY <1>1, <1>3, NewMessageFrame
    <3>4. ASSUME NEW c \in Child
          PROVE  Bare(mgr'.ctx[c]) /\ (mgr'.ctx[c].attached => mgr'.ctx[c].next = <<>>)
      <4>1. /\ mgr'.ctx[c].quitted = mgr.ctx[c].quitted
            /\ mgr.ctx[c].attached => mgr'.ctx[c].next = <<>>
            /\ ~mgr.ctx[c].quitted => mgr'.ctx[c].hdrs = 0 /\ mgr'.ctx[c].chunks = 0
        BY <1>1, <1>3, NewMessageFrame
      <4>2. mgr'.ctx[c].attached = ~mgr'.ctx[c].quitted /\ mgr.ctx[c].attached = ~mgr.ctx[c].quitted
        BY <1>1, <3>3 DEF Alive
      <4>3. CASE mgr'.ctx[c].quitted
        BY <4>2, <4>3 DEF Bare
      <4>4. CASE ~mgr'.ctx[c].quitted
        BY <4>1, <4>2, <4>4 DEF Bare
      <4> QED BY <4>3, <4>4
    <3> QED BY <2>1, <2>3, <3>2, <3>4 DEF ReplayInv, MessageCommand
  <2> QED BY <2>2, <2>3
<1>4. CASE MtaAbort
  <2>1. mta'.messages = mta.messages /\ mta'.cmd = "abort" /\ mta.cmd # "abort"
    BY <1>1, <1>4 DEF MtaAbort, MtaType, MessageCommand
  <2> QED BY <2>1 DEF ReplayInv, MessageCommand
<1>5. ASSUME NEW x \in MessageCommand, SendCommand(x) \/ RefuseCommand(x)
      PROVE  ReplayInv'
  <2>1. mta'.messages = mta.messages /\ mta'.cmd = x
    BY <1>1, <1>5, SentType DEF SendCommand, RefuseCommand
  <2>2. mta.cmd # "abort" /\ x # "data"
    BY <1>5 DEF SendCommand, RefuseCommand, MaySend, InMessage, MessageCommand
  <2>3. mta.messages # 0
    BY <2>2 DEF ReplayInv
  <2>4. ASSUME mta.messages = 1
        PROVE  Shape(mgr', x) /\ Progress(mgr', x)
    <3>1. mta.cmd = "data" => Beginning(mgr)
      BY <2>4 DEF ReplayInv, Beginning
    <3>2. mta.cmd # "data" => Shape(mgr, mta.cmd) /\ Progress(mgr, mta.cmd)
      BY <1>1, <2>2, <2>4 DEF ReplayInv
    <3> QED BY <1>5, <3>1, <3>2, ReplaySend, ReplayRefuse
  <2> QED BY <2>1, <2>2, <2>3, <2>4 DEF ReplayInv
<1>6. ASSUME mta'.messages = mta.messages, mta'.cmd = mta.cmd,
             mta.cmd \in MessageCommand,
             S => Shape(mgr', mta.cmd) /\ Progress(mgr', mta.cmd)
      PROVE  ReplayInv'
  BY <1>6 DEF ReplayInv, MessageCommand
<1>7. ASSUME NEW c \in Child, mgr.ctx[c].attached, Working(mgr.ctx[c])
      PROVE  mta.cmd \in MessageCommand
  BY <1>1, <1>7 DEF InTurn, Turn
<1>8. ASSUME NEW c \in Child, Alters(mgr, mgr', c), UNCHANGED mta,
             mta.cmd = "data" => ~mgr'.ctx[c].attached,
             mta.cmd \in MessageCommand =>
                 (S => Shape(mgr', mta.cmd) /\ Progress(mgr', mta.cmd))
      PROVE  ReplayInv'
  <2>1. Blank(mgr) => Blank(mgr')
    BY <1>8 DEF Blank, Alters, SameMessage
  <2>2. ASSUME mta.messages = 1, mta.cmd = "data", NEW d \in Child
        PROVE  Bare(mgr'.ctx[d]) /\ (mgr'.ctx[d].attached => mgr'.ctx[d].next = <<>>)
    <3>1. CASE d = c
      BY <1>8, <2>2, <3>1 DEF Bare
    <3>2. CASE d # c
      BY <1>8, <2>2, <3>2 DEF Alters, ReplayInv
    <3> QED BY <3>1, <3>2
  <2> QED BY <1>8, <2>1, <2>2 DEF ReplayInv
<1>9. ASSUME NEW c \in Child, ChildNext(c)
      PROVE  ReplayInv'
  <2> DEFINE k == mgr.ctx[c]
  <2>1. k \in Context
    BY <1>1 DEF Manager
  <2>2. CASE Flush(c)
    <3>1. Flushed(k) \in Context /\ k.attached /\ k.next # <<>> /\ UNCHANGED mta
      BY <2>1, <2>2, FlushedWorks DEF Flush
    <3>2. Alters(mgr, mgr', c)
      <4> DEFINE f == Flushed(k)
      <4>1. mgr' = [mgr EXCEPT !.ctx[c] = f]
        BY <2>2 DEF Flush
      <4> HIDE DEF f
      <4> QED BY <1>1, <3>1, <4>1, CtxFrame DEF Alters, f
    <3>3. mta.messages = 1 => mta.cmd # "data"
      BY <3>1 DEF ReplayInv
    <3>4. S => Shape(mgr', mta.cmd) /\ Progress(mgr', mta.cmd)
      BY <2>2, ReplayFlush
    <3>5. Blank(mgr) => Blank(mgr')
      BY <3>2 DEF Blank, Alters, SameMessage
    <3> QED BY <3>1, <3>3, <3>4, <3>5 DEF ReplayInv
  <2>3. ASSUME NEW r \in Answers, Reply(c, r)
        PROVE  ReplayInv'
    <3>1. r \in Verdict /\ k.attached /\ Working(k) /\ UNCHANGED mta
      BY <2>3, ConfigAssumption DEF Reply, Working
    <3>2. S => Shape(mgr', mta.cmd) /\ Progress(mgr', mta.cmd)
      BY <2>3, <3>1, ReplayReply
    <3> QED BY <1>6, <1>7, <3>1, <3>2
  <2>4. ASSUME NEW e \in Edits, Edit(c, e)
        PROVE  ReplayInv'
    <3>1. k.attached /\ Working(k) /\ mta'.messages = mta.messages /\ mta'.cmd = mta.cmd
      BY <1>1, <2>4 DEF Edit, Working, MtaType
    <3>2. S => Shape(mgr', mta.cmd) /\ Progress(mgr', mta.cmd)
      BY <2>4, ReplayEdit
    <3> QED BY <1>6, <1>7, <3>1, <3>2
  <2>5. ASSUME Timeout(c) \/ ChildError(c)
        PROVE  ReplayInv'
    <3>1. k.attached /\ mgr' = Failed(c) /\ UNCHANGED mta
      BY <2>5 DEF Timeout, ChildError, Fail
    <3>2. Working(k)
      BY <1>1, <2>5 DEF Timeout, ChildError, InTurn, Orderly
    <3>3. mgr' = Concluded(With(mgr, c, Expired(k), k.state, Fallback[c]))
      BY <1>1, <3>1, FailedIs
    <3>4. S => Shape(mgr', mta.cmd) /\ Progress(mgr', mta.cmd)
      BY <3>1, <3>2, <3>3, FellShape
    <3> QED BY <1>6, <1>7, <3>1, <3>2, <3>4
  <2>6. CASE ChildFinished(c)
    <3>1. k.attached /\ UNCHANGED mta
      BY <2>6 DEF ChildFinished
    <3>2. S => Shape(mgr', mta.cmd) /\ Progress(mgr', mta.cmd)
      BY <2>6, ReplayFinished
    <3>3. CASE k.timer # "none"
      <4>1. Working(k)
        BY <1>1, <3>1, <3>3 DEF InTurn, Orderly
      <4> QED BY <1>6, <1>7, <3>1, <3>2, <4>1
    <3>4. CASE k.timer = "none"
      <4> DEFINE h == Expired(k)
      <4>1. mgr' = [mgr EXCEPT !.ctx[c] = h]
        BY <2>6, <3>4, FailedIs, <1>1 DEF ChildFinished
      <4>2. h \in Context /\ ~h.attached
        BY <2>1, AnsweredRests
      <4> HIDE DEF h
      <4>3. Alters(mgr, mgr', c) /\ mgr'.ctx[c] = h
        BY <1>1, <4>1, <4>2, CtxFrame DEF Alters
      <4> QED BY <1>8, <3>1, <3>2, <4>2, <4>3
    <3> QED BY <3>3, <3>4
  <2> QED BY <1>9, <2>2, <2>3, <2>4, <2>5, <2>6 DEF ChildNext, Hears
<1> QED BY <1>2, <1>3, <1>4, <1>5, <1>9 DEF Next, MtaNext

\* When the end of the first message of a session is written to a child, the child
\* was sent every header and the whole body as its predecessors left them, but for
\* what it declined and for parts the MTA's message did not have, whatever the
\* children answer, decline and change and however their connections fail: the replay
\* of command_queue with processing_header_index and sent_body_offset loses nothing
\* and repeats nothing.  The error of a child that is not working is left out, for
\* children then do not take turns; the MTA sends an end of header.
THEOREM WholeMessageSeen ==
    ASSUME "idle" \notin Faults, "end-of-header" \in Sends
    PROVE  Spec => [](mta.messages <= 1 => SeesWholeMessage)
<1> DEFINE I == TurnInv /\ ReplayInv
<1>1. Init => I
  <2> SUFFICES ASSUME Init
               PROVE  I
    OBVIOUS
  <2>1. TurnInv
    BY TurnInit
  <2>2. ReplayInv
    BY DEF Init, ReplayInv, Blank, MessageCommand
  <2> QED BY <2>1, <2>2
<1>2. I /\ [Next]_vars => I'
  BY TurnStep, ReplayStep
<1>3. I => (mta.messages <= 1 => SeesWholeMessage)
  <2> SUFFICES ASSUME I, mta.messages <= 1, NEW c \in Child, mgr.ctx[c].attached,
                      mgr.ctx[c].next # <<>>,
                      mgr.ctx[c].next[Len(mgr.ctx[c].next)] = "end-of-message"
               PROVE  HeadersSent(mgr, c) /\ BodySent(mgr, c)
    BY DEF SeesWholeMessage, HeadersSent, BodySent
  <2> DEFINE k == mgr.ctx[c]
  <2>1. Working(k) /\ ~k.owes /\ AskedOf(k) = "end-of-message"
    BY DEF Working, AskedOf, TurnInv, InTurn, Orderly
  <2>2. mta.cmd \in MessageCommand /\ mta.messages \in Nat
    BY <2>1 DEF TurnInv, InTurn, Turn, TypeOK
  <2>3. mta.messages = 1
    BY <2>2 DEF ReplayInv, MessageCommand
  <2>4. Shape(mgr, mta.cmd) /\ Progress(mgr, mta.cmd)
    BY <2>2, <2>3 DEF ReplayInv
  <2>5. SentUpTo(mgr, c, "end-of-message")
    BY <2>1, <2>4, WorkerSentUpTo
  <2> QED BY <2>5 DEF SentUpTo
<1> QED BY <1>1, <1>2, <1>3, PTL DEF Spec

=============================================================================
