-------------------------- MODULE Negotiation_proofs ------------------------
(* Machine-checked proofs about Negotiation, for any set of children, any    *)
(* options and any faults, as long as no child has two tries at once.        *)
EXTENDS Negotiation, SequenceTheorems, TLAPS

-----------------------------------------------------------------------------
(* The inductive invariants, as predicates on the state a of the manager *)

\* A child whose connect() fails at once is not one the launcher can start.  (The
\* other children get two tries from milter_manager_children_negotiate, which
\* connect the handlers twice.)
OneTry == Privilege => Immediate \cap Launchable = {}

\* Before the negotiation
Fresh(k) ==
    /\ k.watches = 0
    /\ k.data = <<>> /\ k.hooks = 0 /\ ~k.negotiated /\ ~k.quitted
    /\ k.state = "start" /\ ~k.unflushed

\* The connection is being established: it is watched, or its only try waits.
Trying(k) ==
    /\ k.watches = 0 \/ (k.watches = 1 /\ ~k.data[1].timer)
    /\ Len(k.data) = 1 /\ k.hooks = 0 /\ ~k.negotiated /\ ~k.quitted
    /\ k.state = "start" /\ ~k.unflushed

\* NEGOTIATE is on its way or the answer to it is.
Talking(k) ==
    /\ k.data = <<>> /\ k.hooks = 1 /\ ~k.negotiated /\ ~k.quitted
    /\ k.state = "negotiate" => ~k.unflushed
    /\ k.watches = 0

\* The child answered and lives.
Agreeing(k) ==
    /\ k.data = <<>> /\ k.hooks = 1 /\ k.negotiated /\ ~k.quitted
    /\ ~k.unflushed /\ k.timer = "none" /\ k.watches = 0

\* The child is lost or expired.
Out(k) == k.data = <<>> /\ k.hooks = 0 /\ k.quitted

\* A queued child is connecting or about to answer, the others are settled.
Placed(k, queued) ==
    IF queued THEN Trying(k) \/ Talking(k) ELSE Agreeing(k) \/ Out(k)

Sorted(a) ==
    IF a.pst = "start" THEN \A c \in Child : Fresh(a.ctx[c])
    ELSE \A c \in a.milters : Placed(a.ctx[c], c \in a.queue)

\* The MTA was told the options first.
ToldOf(a) == a.packets # <<>> /\ a.packets[1] = "options"

\* There is an answer only when nobody is awaited.
Answering(a) ==
    /\ a.pst = "start" => a.queue = {} /\ a.packets = <<>>
    /\ a.packets # <<>> => a.queue = {}
    /\ a.queue \subseteq a.milters
    /\ a.lazy => a.milters = {} /\ a.pst = "start"

Answered(a) == {c \in a.milters : a.ctx[c].negotiated}

\* The options are merged from the children that answered.
Merged(a, w) ==
    /\ \A c \in Answered(a) : a.steps \cap NoReplyStep \subseteq w[c]
    /\ a.yes = (UNION {w[c] : c \in Answered(a)}) \cap YesStep
    /\ a.packets = <<>> => a.steps \cap YesStep = (Offered \cup a.yes) \cap YesStep
    /\ ToldOf(a) => /\ a.steps \cap NoEventStep = {}
                    /\ a.steps \cap YesStep = Offered \cap a.yes

\* A lost child's refusal has expired the others.
Harsh(a) ==
    ToldOf(a) /\ (\E c \in a.milters : ~a.ctx[c].negotiated /\ Fallback[c] \in Refusal) =>
        \A c \in a.milters : IsQuitted(a.ctx[c])

Inv == TypeOK /\ Sorted(m) /\ Answering(m) /\ Merged(m, wish) /\ Harsh(m)

-----------------------------------------------------------------------------
(* What the operators change *)

\* a with another context for c
With(a, c, k) == [a EXCEPT !.ctx[c] = k]

\* Only the context of c changes.
LEMMA WithFrame ==
    ASSUME NEW a \in Manager, NEW c \in Child, NEW k \in Context
    PROVE  LET b == With(a, c, k)
           IN  /\ b \in Manager /\ b.milters = a.milters /\ b.queue = a.queue /\ b.pst = a.pst
               /\ b.slot = a.slot /\ b.steps = a.steps /\ b.yes = a.yes
               /\ b.allExpired = a.allExpired /\ b.lazy = a.lazy /\ b.replied = a.replied
               /\ b.packets = a.packets /\ b.ctx[c] = k
               /\ \A d \in Child : d # c => b.ctx[d] = a.ctx[d]
<1> DEFINE f == [a.ctx EXCEPT ![c] = k]
<1>1. a.ctx \in [Child -> Context]
  BY DEF Manager
<1>2. f \in [Child -> Context] /\ f[c] = k /\ \A d \in Child : d # c => f[d] = a.ctx[d]
  BY <1>1
<1>3. With(a, c, k) = [a EXCEPT !.ctx = f]
  BY DEF With
<1> HIDE DEF f
<1> QED BY <1>2, <1>3 DEF Manager

\* expire_child
LEMMA ExpiredFrame ==
    ASSUME NEW k \in Context
    PROVE  LET e == Expired(k)
           IN  /\ e \in Context /\ e.quitted /\ e.hooks = 0 /\ e.data = k.data
               /\ e.negotiated = k.negotiated
BY DEF Expired, Context

\* The first packet stays first.
LEMMA FirstPacket ==
    ASSUME NEW s \in Seq({"options", "reject"}), NEW p \in {"options", "reject"}
    PROVE  /\ Append(s, p) \in Seq({"options", "reject"}) /\ Append(s, p) # <<>>
           /\ Len(Append(s, p)) = Len(s) + 1
           /\ s = <<>> => Append(s, p)[1] = p
           /\ s # <<>> => Append(s, p)[1] = s[1]
<1>1. /\ Append(s, p) \in Seq({"options", "reject"}) /\ Append(s, p) # <<>>
      /\ Len(Append(s, p)) = Len(s) + 1 /\ Append(s, p)[Len(s) + 1] = p
      /\ \A i \in 1..Len(s) : Append(s, p)[i] = s[i]
  BY AppendProperties
<1>2. s = <<>> => Len(s) = 0
  OBVIOUS
<1>3. s # <<>> => 1 \in 1..Len(s)
  <2>1. Len(s) \in Nat
    BY LenProperties
  <2>2. s # <<>> => Len(s) # 0
    BY EmptySeq
  <2> QED BY <2>1, <2>2
<1> QED BY <1>1, <1>2, <1>3

\* The strongest fallback is a refusal if and only if one of them is.
LEMMA StrongestRefuses ==
    ASSUME NEW S \in SUBSET ({"continue", "accept"} \cup Refusal), "continue" \in S
    PROVE  Strongest(S) \in Refusal <=> S \cap Refusal # {}
<1>1. \E s \in S : /\ \A t \in S : Rank[t] <= Rank[s]
                   /\ s \in Refusal <=> S \cap Refusal # {}
  <2>1. CASE "discard" \in S
    BY <2>1 DEF Refusal, Rank, Status, Verdict
  <2>2. CASE "discard" \notin S /\ "reject" \in S
    BY <2>2 DEF Refusal, Rank, Status, Verdict
  <2>3. CASE "discard" \notin S /\ "reject" \notin S /\ "temporary-failure" \in S
    BY <2>3 DEF Refusal, Rank, Status, Verdict
  <2>4. CASE "discard" \notin S /\ "reject" \notin S /\ "temporary-failure" \notin S
    BY <2>4 DEF Refusal, Rank, Status, Verdict
  <2> QED BY <2>1, <2>2, <2>3, <2>4
<1>2. Strongest(S) \in S /\ \A t \in S : Rank[t] <= Rank[Strongest(S)]
  BY <1>1 DEF Strongest
<1>3. ASSUME NEW s \in S, NEW u \in S, Rank[s] <= Rank[u], s \in Refusal PROVE u \in Refusal
  BY <1>3 DEF Refusal, Rank, Status, Verdict
<1>4. S \cap Refusal # {} => Strongest(S) \in Refusal
  BY <1>2, <1>3
<1> QED BY <1>2, <1>4

\* check_fallback_status_on_negotiate
LEMMA CheckFallbackFrame ==
    ASSUME ConfigAssumption, NEW a \in Manager
    PROVE  LET b == CheckFallback(a)
           IN  /\ b \in Manager /\ b.milters = a.milters /\ b.queue = a.queue /\ b.pst = a.pst
               /\ b.steps = a.steps /\ b.yes = a.yes /\ b.lazy = a.lazy /\ b.packets = a.packets
               /\ b.replied = a.replied /\ b.slot = a.slot
               /\ \A d \in Child : b.ctx[d] = a.ctx[d]
                      \/ (d \in a.milters /\ a.ctx[d].negotiated /\ b.ctx[d] = Expired(a.ctx[d]))
               /\ (\E d \in a.milters : ~a.ctx[d].negotiated /\ Fallback[d] \in Refusal) =>
                     \A d \in a.milters : a.ctx[d].negotiated => b.ctx[d] = Expired(a.ctx[d])
<1> DEFINE done == a.milters \ Lost(a)
           S == {"continue"} \cup {Fallback[d] : d \in Lost(a)}
           f == [d \in Child |-> IF d \in done THEN Expired(a.ctx[d]) ELSE a.ctx[d]]
           e == a.allExpired \/ done # {}
           b == CheckFallback(a)
<1>1. a.milters \subseteq Child /\ a.ctx \in [Child -> Context] /\ a.allExpired \in BOOLEAN
  BY DEF Manager
<1>2. Lost(a) \subseteq Child /\ \A d \in a.milters : d \in done <=> a.ctx[d].negotiated
  BY <1>1 DEF Lost
<1>3. S \in SUBSET ({"continue", "accept"} \cup Refusal) /\ "continue" \in S
  BY <1>2, ConfigAssumption DEF ConfigAssumption
<1>4. Strongest(S) \in Refusal <=> \E d \in Lost(a) : Fallback[d] \in Refusal
  <2>1. S \cap Refusal # {} <=> \E d \in Lost(a) : Fallback[d] \in Refusal
    BY DEF Refusal
  <2> QED BY <1>3, <2>1, StrongestRefuses
<1>5. f \in [Child -> Context]
  BY <1>1, ExpiredFrame
<1>6. e \in BOOLEAN
  BY <1>1
<1>7. b = IF Strongest(S) \notin Refusal THEN a ELSE [a EXCEPT !.allExpired = e, !.ctx = f]
  BY DEF CheckFallback
<1>8. \A d \in Child : f[d] = IF d \in done THEN Expired(a.ctx[d]) ELSE a.ctx[d]
  OBVIOUS
<1> HIDE DEF S, e, f
<1>9. ASSUME Strongest(S) \in Refusal
      PROVE  /\ b \in Manager /\ b.milters = a.milters /\ b.queue = a.queue /\ b.pst = a.pst
             /\ b.steps = a.steps /\ b.yes = a.yes /\ b.lazy = a.lazy /\ b.packets = a.packets
             /\ b.replied = a.replied /\ b.slot = a.slot
             /\ b.ctx = f
  <2>1. b = [a EXCEPT !.allExpired = e, !.ctx = f]
    BY <1>7, <1>9
  <2> HIDE DEF b
  <2> QED BY <1>5, <1>6, <2>1 DEF Manager
<1>10. Strongest(S) \notin Refusal => b = a
  BY <1>7
<1>11. (\E d \in a.milters : ~a.ctx[d].negotiated /\ Fallback[d] \in Refusal) =>
          Strongest(S) \in Refusal
  BY <1>4 DEF Lost
<1> HIDE DEF b
<1>12. \A d \in a.milters : d \in Child
  BY <1>1
<1>13. ASSUME Strongest(S) \in Refusal, NEW d \in Child
       PROVE  b.ctx[d] = IF d \in done THEN Expired(a.ctx[d]) ELSE a.ctx[d]
  BY <1>8, <1>9, <1>13
<1>14. \A d \in done : d \in a.milters /\ a.ctx[d].negotiated
  BY <1>2
<1> HIDE DEF done
<1>15. CASE Strongest(S) \in Refusal
  <2>1. \A d \in Child : b.ctx[d] = a.ctx[d]
           \/ (d \in a.milters /\ a.ctx[d].negotiated /\ b.ctx[d] = Expired(a.ctx[d]))
    <3> SUFFICES ASSUME NEW d \in Child
                 PROVE  b.ctx[d] = a.ctx[d]
                     \/ (d \in a.milters /\ a.ctx[d].negotiated /\ b.ctx[d] = Expired(a.ctx[d]))
      OBVIOUS
    <3>1. b.ctx[d] = IF d \in done THEN Expired(a.ctx[d]) ELSE a.ctx[d]
      BY <1>13, <1>15
    <3> QED BY <1>14, <3>1
  <2>2. \A d \in a.milters : a.ctx[d].negotiated => b.ctx[d] = Expired(a.ctx[d])
    BY <1>2, <1>12, <1>13, <1>15
  <2> QED BY <1>9, <1>15, <2>1, <2>2 DEF b
<1>16. CASE Strongest(S) \notin Refusal
  <2>1. CheckFallback(a) = a
    BY <1>10, <1>16 DEF b
  <2> QED BY <1>11, <1>16, <2>1
<1> QED BY <1>15, <1>16

\* What reply_negotiate leaves of the steps
Cut(a) == a.steps \ (NoEventStep \cup (YesStep \ (Offered \cap a.yes)))

\* b is a after the MTA was told the options.
Reported(a, b) ==
    /\ b \in Manager /\ b.milters = a.milters /\ b.queue = a.queue /\ b.pst = a.pst
    /\ b.steps = Cut(a) /\ b.yes = a.yes /\ b.lazy = a.lazy
    /\ b.packets = Append(a.packets, "options")
    /\ \A d \in Child : \/ b.ctx[d] = a.ctx[d]
                        \/ d \in a.milters /\ a.ctx[d].negotiated /\ b.ctx[d] = Expired(a.ctx[d])
    /\ (\E d \in a.milters : ~a.ctx[d].negotiated /\ Fallback[d] \in Refusal) =>
           \A d \in a.milters : a.ctx[d].negotiated => b.ctx[d] = Expired(a.ctx[d])

\* reply_negotiate
LEMMA ReplyNegotiateFrame ==
    ASSUME ConfigAssumption, NEW a \in Manager
    PROVE  Reported(a, ReplyNegotiate(a))
<1> DEFINE s == Cut(a)
           p == Append(a.packets, "options")
           b == [a EXCEPT !.steps = s, !.packets = p]
<1>1. a.packets \in Seq({"options", "reject"}) /\ a.steps \subseteq Step
  BY DEF Manager
<1>2. p \in Seq({"options", "reject"}) /\ s \subseteq Step
  BY <1>1, FirstPacket DEF Cut
<1>3. ReplyNegotiate(a) = CheckFallback(b)
  BY DEF ReplyNegotiate, Cut
<1> HIDE DEF s, p
<1>4. /\ b \in Manager /\ b.milters = a.milters /\ b.queue = a.queue /\ b.pst = a.pst
      /\ b.steps = s /\ b.yes = a.yes /\ b.lazy = a.lazy /\ b.packets = p /\ b.ctx = a.ctx
  BY <1>2 DEF Manager
<1> HIDE DEF b
<1> QED BY <1>3, <1>4, CheckFallbackFrame DEF Reported, s, p

\* remove_queue_in_negotiate: the MTA is told when nobody is left.
LEMMA RemoveQueueFrame ==
    ASSUME ConfigAssumption, NEW a \in Manager, NEW c \in Child
    PROVE  LET q == [a EXCEPT !.queue = @ \ {c}]
           IN  /\ q \in Manager /\ q.queue = a.queue \ {c} /\ q.milters = a.milters
               /\ q.pst = a.pst /\ q.steps = a.steps /\ q.yes = a.yes /\ q.lazy = a.lazy
               /\ q.packets = a.packets /\ q.ctx = a.ctx
               /\ q.queue # {} => RemoveQueue(a, c) = q
               /\ q.queue = {} => Reported(q, RemoveQueue(a, c))
<1> DEFINE w == a.queue \ {c}
           q == [a EXCEPT !.queue = w]
<1>1. w \subseteq Child
  BY DEF Manager
<1>2. [a EXCEPT !.queue = @ \ {c}] = q
  BY DEF Manager
<1>3. RemoveQueue(a, c) = IF q.queue = {} THEN ReplyNegotiate(q) ELSE q
  BY <1>2 DEF RemoveQueue
<1> HIDE DEF w
<1>4. /\ q \in Manager /\ q.queue = w /\ q.milters = a.milters
      /\ q.pst = a.pst /\ q.steps = a.steps /\ q.yes = a.yes /\ q.lazy = a.lazy
      /\ q.packets = a.packets /\ q.ctx = a.ctx
  BY <1>1 DEF Manager
<1> HIDE DEF q
<1> QED BY <1>2, <1>3, <1>4, ReplyNegotiateFrame DEF w

\* From a to b nothing is told but a refusal, and no option and no answer of a
\* child changes.
Silent(a, b) ==
    /\ b.milters = a.milters /\ b.steps = a.steps /\ b.yes = a.yes
    /\ b.packets = a.packets \/ b.packets = Append(a.packets, "reject")
    /\ \A d \in Child : /\ b.ctx[d].negotiated = a.ctx[d].negotiated
                        /\ a.ctx[d].quitted => b.ctx[d].quitted

\* Such a step keeps what the options and the refusals are.
LEMMA SilentKeeps ==
    ASSUME NEW a \in Manager, NEW b \in Manager, NEW w, Silent(a, b)
    PROVE  (Merged(a, w) => Merged(b, w)) /\ (Harsh(a) => Harsh(b))
<1>1. a.milters \subseteq Child /\ a.packets \in Seq({"options", "reject"})
  BY DEF Manager
<1>2. Answered(b) = Answered(a)
  BY <1>1 DEF Answered, Silent
<1>3. (b.packets = <<>> => a.packets = <<>>) /\ (ToldOf(b) => ToldOf(a))
  <2>1. CASE b.packets = a.packets
    BY <2>1 DEF ToldOf
  <2>2. CASE b.packets = Append(a.packets, "reject")
    BY <1>1, <2>2, FirstPacket DEF ToldOf
  <2> QED BY <2>1, <2>2 DEF Silent
<1>4. Merged(a, w) => Merged(b, w)
  BY <1>2, <1>3 DEF Merged, Silent
<1>5. Harsh(a) => Harsh(b)
  <2> SUFFICES ASSUME Harsh(a), ToldOf(b), NEW e \in b.milters, ~b.ctx[e].negotiated,
                      Fallback[e] \in Refusal, NEW c \in b.milters
               PROVE  IsQuitted(b.ctx[c])
    BY DEF Harsh
  <2>1. IsQuitted(a.ctx[c])
    BY <1>1, <1>3 DEF Harsh, Silent
  <2> QED BY <1>1, <2>1 DEF IsQuitted, Silent
<1> QED BY <1>4, <1>5

\* Telling the MTA the options keeps them, too.
LEMMA ReportedKeeps ==
    ASSUME ConfigAssumption, NEW a \in Manager, NEW b, NEW w, Reported(a, b)
    PROVE  (Merged(a, w) => Merged(b, w)) /\ Harsh(b)
<1>1. a.milters \subseteq Child /\ a.packets \in Seq({"options", "reject"}) /\ b \in Manager
      /\ b.milters = a.milters /\ b.steps = Cut(a) /\ b.yes = a.yes
      /\ b.packets = Append(a.packets, "options")
      /\ a.ctx \in [Child -> Context]
  BY DEF Manager, Reported
<1>2. \A d \in a.milters : b.ctx[d].negotiated = a.ctx[d].negotiated
  <2> SUFFICES ASSUME NEW d \in a.milters PROVE b.ctx[d].negotiated = a.ctx[d].negotiated
    OBVIOUS
  <2>1. a.ctx[d] \in Context /\ Expired(a.ctx[d]).negotiated = a.ctx[d].negotiated
    BY <1>1, ExpiredFrame
  <2>2. b.ctx[d] = a.ctx[d] \/ b.ctx[d] = Expired(a.ctx[d])
    BY <1>1 DEF Reported
  <2> QED BY <2>1, <2>2
<1>3. Answered(b) = Answered(a)
  BY <1>1, <1>2 DEF Answered
<1>4. /\ b.packets # <<>>
      /\ ToldOf(b) => a.packets = <<>> \/ ToldOf(a)
  BY <1>1, FirstPacket DEF ToldOf
<1>5. ASSUME Merged(a, w) PROVE Merged(b, w)
  <2>1. \A c \in Answered(b) : b.steps \cap NoReplyStep \subseteq w[c]
    BY <1>1, <1>3, <1>5 DEF Merged, Cut
  <2>2. b.yes = (UNION {w[c] : c \in Answered(b)}) \cap YesStep
    BY <1>1, <1>3, <1>5 DEF Merged
  <2>3. b.steps \cap NoEventStep = {}
    BY <1>1 DEF Cut
  <2>4. ToldOf(b) => b.steps \cap YesStep = Offered \cap b.yes
    <3> DEFINE s == a.steps
               y == a.yes
    <3>1. y \subseteq YesStep
      <4> DEFINE U == UNION {w[c] : c \in Answered(b)}
      <4>1. b.yes = U \cap YesStep
        BY <2>2
      <4> HIDE DEF U
      <4> QED BY <1>1, <4>1
    <3>2. ToldOf(b) => \/ s \cap YesStep = (Offered \cup y) \cap YesStep
                       \/ s \cap YesStep = Offered \cap y
      BY <1>4, <1>5 DEF Merged
    <3>3. b.steps = s \ (NoEventStep \cup (YesStep \ (Offered \cap y))) /\ b.yes = y
      BY <1>1 DEF Cut
    <3>4. YesStep \cap NoEventStep = {}
      BY DEF YesStep, NoEventStep
    <3> HIDE DEF s, y
    <3> QED BY <3>1, <3>2, <3>3, <3>4
  <2> QED BY <1>4, <2>1, <2>2, <2>3, <2>4 DEF Merged
<1>6. Harsh(b)
  <2> SUFFICES ASSUME NEW e \in b.milters, ~b.ctx[e].negotiated, Fallback[e] \in Refusal,
                      NEW c \in b.milters
               PROVE  IsQuitted(b.ctx[c])
    BY DEF Harsh
  <2>1. CASE ~b.ctx[c].negotiated
    BY <2>1 DEF IsQuitted
  <2>2. CASE b.ctx[c].negotiated
    <3>1. b.ctx[c] = Expired(a.ctx[c])
      BY <1>1, <1>2, <2>2 DEF Reported
    <3>2. a.ctx[c] \in Context
      BY <1>1
    <3> QED BY <3>1, <3>2, ExpiredFrame DEF IsQuitted
  <2> QED BY <2>1, <2>2
<1> QED BY <1>5, <1>6

-----------------------------------------------------------------------------
(* A step about one child *)

\* From m to b only child c moves, or nothing but expiries happens to the others.
Moves(b, c) ==
    /\ b \in Manager /\ b.milters = m.milters /\ b.lazy = m.lazy
    /\ b.pst \in {"negotiate", "abort"}
    /\ b.queue = m.queue \/ b.queue = m.queue \ {c}
    /\ b.packets # m.packets => b.queue = {}
    /\ \A d \in Child : d # c =>
           \/ b.ctx[d] = m.ctx[d]
           \/ m.ctx[d].negotiated /\ b.ctx[d] = Expired(m.ctx[d])
    /\ Placed(b.ctx[c], c \in b.queue)

\* Then the children stay sorted.
LEMMA MovesKeeps ==
    ASSUME TypeOK, Sorted(m), Answering(m), NEW c \in m.milters, m.pst # "start",
           NEW b, Moves(b, c)
    PROVE  Sorted(b) /\ Answering(b)
<1>1. m.milters \subseteq Child /\ m.ctx \in [Child -> Context] /\ ~m.lazy
  BY DEF TypeOK, Manager, Answering
<1>2. ASSUME NEW d \in m.milters, d # c PROVE Placed(b.ctx[d], d \in b.queue)
  <2>1. Placed(m.ctx[d], d \in m.queue) /\ m.ctx[d] \in Context
    BY <1>1 DEF Sorted
  <2>2. d \in b.queue <=> d \in m.queue
    BY <1>2 DEF Moves
  <2>3. CASE b.ctx[d] = m.ctx[d]
    BY <2>1, <2>2, <2>3
  <2>4. CASE m.ctx[d].negotiated /\ b.ctx[d] = Expired(m.ctx[d])
    <3>1. d \notin m.queue /\ m.ctx[d].data = <<>>
      BY <2>1, <2>4 DEF Placed, Trying, Talking, Agreeing, Out
    <3>2. Out(b.ctx[d])
      BY <2>1, <2>4, <3>1, ExpiredFrame DEF Out
    <3> QED BY <2>2, <3>1, <3>2 DEF Placed
  <2> QED BY <1>1, <1>2, <2>3, <2>4 DEF Moves
<1>3. Sorted(b)
  BY <1>2 DEF Sorted, Moves
<1>4. Answering(b)
  BY <1>1 DEF Answering, Moves
<1> QED BY <1>3, <1>4

\* The invariant from its parts
LEMMA OneChildMoves ==
    ASSUME Inv, NEW c \in m.milters, m.pst # "start", Moves(m', c), Silent(m, m'),
           UNCHANGED wish, UNCHANGED first
    PROVE  Inv'
<1>1. m' \in Manager /\ m \in Manager /\ TypeOK
  BY DEF Moves, Inv, TypeOK
<1>2. TypeOK'
  BY <1>1 DEF TypeOK
<1>3. Sorted(m') /\ Answering(m')
  BY MovesKeeps DEF Inv
<1>4. Merged(m', wish) /\ Harsh(m')
  BY <1>1, SilentKeeps DEF Inv
<1> QED BY <1>2, <1>3, <1>4 DEF Inv

\* Nothing but child c's context changes.
LEMMA ContextMoves ==
    ASSUME Inv, NEW c \in m.milters, m.pst \in {"negotiate", "abort"}, NEW k \in Context,
           Placed(k, c \in m.queue), k.negotiated = m.ctx[c].negotiated,
           m.ctx[c].quitted => k.quitted,
           m' = With(m, c, k), UNCHANGED wish, UNCHANGED first
    PROVE  Inv' /\ m'.packets = m.packets
<1>1. c \in Child /\ m \in Manager
  BY DEF Inv, TypeOK, Manager
<1>2. Moves(m', c) /\ Silent(m, m') /\ m'.packets = m.packets
  BY <1>1, WithFrame DEF Moves, Silent
<1> QED BY <1>2, OneChildMoves

\* A context of Inv
LEMMA ContextType ==
    ASSUME Inv, NEW c \in m.milters
    PROVE  /\ c \in Child /\ m \in Manager /\ m.ctx[c] \in Context
           /\ m.pst # "start" => Placed(m.ctx[c], c \in m.queue)
BY DEF Inv, TypeOK, Manager, Sorted

\* ForEachTry with the handler of the connection timeout and that of an error
ClearedEach(a, c) ==
    LET after[i \in 0..Len(a.ctx[c].data)] == IF i = 0 THEN a ELSE Clear(after[i - 1], c)
    IN after[Len(a.ctx[c].data)]

ErredEach(a, c, server) ==
    LET after[i \in 0..Len(a.ctx[c].data)] ==
            IF i = 0 THEN a ELSE ConnectionError(after[i - 1], c, server)
    IN after[Len(a.ctx[c].data)]

\* The handlers of the connection timeout, for a child with at most one try
LEMMA ClearEach ==
    ASSUME NEW a, NEW c, NEW n \in {0, 1}, Len(a.ctx[c].data) = n
    PROVE  ClearedEach(a, c) = IF n = 0 THEN a ELSE Clear(a, c)
<1> DEFINE y == Clear(a, c)
           F(g) == [i \in 0..n |-> IF i = 0 THEN a ELSE Clear(g[i - 1], c)]
           h == [i \in 0..n |-> IF i = 0 THEN a ELSE y]
           f == CHOOSE g : g = F(g)
<1>1. ClearedEach(a, c) = f[n]
  BY DEF ClearedEach
<1>2. h = F(h)
  <2>1. ASSUME NEW i \in 0..n, i # 0 PROVE y = Clear(h[i - 1], c)
    <3>1. i - 1 = 0 /\ 0 \in 0..n
      BY <2>1
    <3>2. h[i - 1] = a
      BY <3>1
    <3> QED BY <3>2
  <2> QED BY <2>1
<1>3. f = F(f)
  BY <1>2
<1> HIDE DEF f
<1>4. 0 \in 0..n /\ n \in 0..n /\ (n # 0 => n - 1 = 0)
  OBVIOUS
<1>5. f[0] = a
  BY <1>3, <1>4
<1>6. n # 0 => f[n] = Clear(f[n - 1], c)
  BY <1>3, <1>4
<1> QED BY <1>1, <1>4, <1>5, <1>6

\* The handlers of the error signal, for a child with at most one try
LEMMA ErrorEach ==
    ASSUME NEW a, NEW c, NEW server, NEW n \in {0, 1}, Len(a.ctx[c].data) = n
    PROVE  ErredEach(a, c, server) = IF n = 0 THEN a ELSE ConnectionError(a, c, server)
<1> DEFINE y == ConnectionError(a, c, server)
           F(g) == [i \in 0..n |-> IF i = 0 THEN a ELSE ConnectionError(g[i - 1], c, server)]
           h == [i \in 0..n |-> IF i = 0 THEN a ELSE y]
           f == CHOOSE g : g = F(g)
<1>1. ErredEach(a, c, server) = f[n]
  BY DEF ErredEach
<1>2. h = F(h)
  <2>1. ASSUME NEW i \in 0..n, i # 0 PROVE y = ConnectionError(h[i - 1], c, server)
    <3>1. i - 1 = 0 /\ 0 \in 0..n
      BY <2>1
    <3>2. h[i - 1] = a
      BY <3>1
    <3> QED BY <3>2
  <2> QED BY <2>1
<1>3. f = F(f)
  BY <1>2
<1> HIDE DEF f
<1>4. 0 \in 0..n /\ n \in 0..n /\ (n # 0 => n - 1 = 0)
  OBVIOUS
<1>5. f[0] = a
  BY <1>3, <1>4
<1>6. n # 0 => f[n] = ConnectionError(f[n - 1], c, server)
  BY <1>3, <1>4
<1> QED BY <1>1, <1>4, <1>5, <1>6

-----------------------------------------------------------------------------
(* A child leaves the queue *)

\* What a step may tell the MTA: one packet, and only while it was told nothing.
Speaks ==
    \/ m'.packets = m.packets
    \/ /\ m.packets = <<>> \/ "late" \in Faults
       /\ m'.packets \in {Append(m.packets, "options"), Append(m.packets, "reject")}

\* a is m but for c's context and the options.
Prepared(a, c) ==
    /\ a \in Manager /\ a.milters = m.milters /\ a.queue = m.queue /\ a.pst = m.pst
    /\ a.packets = m.packets /\ a.lazy = m.lazy
    /\ \A d \in Child : d # c => a.ctx[d] = m.ctx[d]

\* remove_queue_in_negotiate from there
LEMMA RemoveQueueMoves ==
    ASSUME ConfigAssumption, Inv, NEW c \in m.milters, NEW a, Prepared(a, c), NEW w
    PROVE  LET b == RemoveQueue(a, c)
           IN  /\ b \in Manager /\ b.milters = m.milters /\ b.queue = m.queue \ {c}
               /\ b.pst = m.pst /\ b.lazy = m.lazy
               /\ b.packets = m.packets
                  \/ (b.queue = {} /\ b.packets = Append(m.packets, "options"))
               /\ \A d \in Child : d # c =>
                      \/ b.ctx[d] = m.ctx[d]
                      \/ m.ctx[d].negotiated /\ b.ctx[d] = Expired(m.ctx[d])
               /\ b.ctx[c] = a.ctx[c]
                  \/ (a.ctx[c].negotiated /\ b.ctx[c] = Expired(a.ctx[c]))
               /\ Merged(a, w) => Merged(b, w)
               /\ Harsh(a) => Harsh(b)
<1> DEFINE q == [a EXCEPT !.queue = @ \ {c}]
           b == RemoveQueue(a, c)
<1>1. c \in Child /\ a \in Manager
  BY ContextType DEF Prepared
<1>2. /\ q \in Manager /\ q.queue = a.queue \ {c} /\ q.milters = a.milters
      /\ q.pst = a.pst /\ q.steps = a.steps /\ q.yes = a.yes /\ q.lazy = a.lazy
      /\ q.packets = a.packets /\ q.ctx = a.ctx
      /\ q.queue # {} => b = q
      /\ q.queue = {} => Reported(q, b)
  BY <1>1, RemoveQueueFrame
<1> HIDE DEF q, b
<1>3. Silent(a, q)
  BY <1>2 DEF Silent
<1>4. (Merged(a, w) => Merged(q, w)) /\ (Harsh(a) => Harsh(q))
  BY <1>1, <1>2, <1>3, SilentKeeps
<1>5. CASE q.queue # {}
  BY <1>1, <1>2, <1>4, <1>5 DEF Prepared, b
<1>6. CASE q.queue = {}
  <2>1. (Merged(q, w) => Merged(b, w)) /\ Harsh(b)
    BY <1>2, <1>6, ReportedKeeps
  <2>2. /\ b \in Manager /\ b.milters = m.milters /\ b.queue = m.queue \ {c} /\ b.queue = {}
        /\ b.pst = m.pst /\ b.lazy = m.lazy /\ b.packets = Append(m.packets, "options")
    BY <1>2, <1>6 DEF Prepared, Reported
  <2>3. \A d \in Child : b.ctx[d] = a.ctx[d] \/ (a.ctx[d].negotiated /\ b.ctx[d] = Expired(a.ctx[d]))
    BY <1>2, <1>6 DEF Reported
  <2> QED BY <1>1, <1>4, <2>1, <2>2, <2>3 DEF Prepared, b
<1> QED BY <1>5, <1>6

\* The child is out, or agrees, when the queue is done with it.
LEMMA Leaves ==
    ASSUME ConfigAssumption, Inv, NEW c \in m.milters, m.pst \in {"negotiate", "abort"},
           NEW a, Prepared(a, c), NEW k \in Context, Placed(k, FALSE),
           k.negotiated = a.ctx[c].negotiated,
           RemoveQueue(a, c).ctx[c].quitted => k.quitted,
           m' = With(RemoveQueue(a, c), c, k), UNCHANGED first,
           wish' \in [Child -> SUBSET Step], Merged(a, wish'), Harsh(a),
           c \in m.queue \/ m.queue # {} \/ "late" \in Faults
    PROVE  Inv' /\ Speaks
<1> DEFINE b == RemoveQueue(a, c)
<1>1. /\ b \in Manager /\ b.milters = m.milters /\ b.queue = m.queue \ {c}
      /\ b.pst = m.pst /\ b.lazy = m.lazy
      /\ b.packets = m.packets \/ (b.queue = {} /\ b.packets = Append(m.packets, "options"))
      /\ \A d \in Child : d # c =>
             \/ b.ctx[d] = m.ctx[d]
             \/ m.ctx[d].negotiated /\ b.ctx[d] = Expired(m.ctx[d])
      /\ b.ctx[c] = a.ctx[c] \/ (a.ctx[c].negotiated /\ b.ctx[c] = Expired(a.ctx[c]))
      /\ Merged(b, wish') /\ Harsh(b)
  BY RemoveQueueMoves
<1> HIDE DEF b
<1>2. m' = With(b, c, k) /\ (b.ctx[c].quitted => k.quitted)
  BY DEF b
<1>3. c \in Child /\ m \in Manager /\ TypeOK /\ Sorted(m) /\ Answering(m)
      /\ a.ctx[c] \in Context
  BY ContextType DEF Inv, Prepared, Manager
<1>4. /\ m' \in Manager /\ m'.milters = b.milters /\ m'.queue = b.queue /\ m'.pst = b.pst
      /\ m'.steps = b.steps /\ m'.yes = b.yes /\ m'.lazy = b.lazy
      /\ m'.packets = b.packets /\ m'.ctx[c] = k
      /\ \A d \in Child : d # c => m'.ctx[d] = b.ctx[d]
  <2>1. b \in Manager /\ m' = With(b, c, k) /\ c \in Child
    BY <1>1, <1>2, <1>3
  <2> QED BY <2>1, WithFrame
<1>5. b.ctx[c].negotiated = k.negotiated
  BY <1>1, <1>3, ExpiredFrame
<1>6. Moves(m', c)
  <2>1. Placed(m'.ctx[c], c \in m'.queue)
    BY <1>1, <1>4 DEF Placed
  <2>2. \A d \in Child : d # c =>
            \/ m'.ctx[d] = m.ctx[d]
            \/ m.ctx[d].negotiated /\ m'.ctx[d] = Expired(m.ctx[d])
    BY <1>1, <1>4
  <2>3. /\ m'.milters = m.milters /\ m'.lazy = m.lazy /\ m'.pst \in {"negotiate", "abort"}
        /\ m'.queue = m.queue \ {c} /\ (m'.packets # m.packets => m'.queue = {})
    BY <1>1, <1>4
  <2> QED BY <1>4, <2>1, <2>2, <2>3 DEF Moves
<1>7. Silent(b, m')
  BY <1>2, <1>4, <1>5 DEF Silent
<1>8. Sorted(m') /\ Answering(m')
  BY <1>3, <1>6, MovesKeeps
<1>9. Merged(m', wish') /\ Harsh(m')
  BY <1>1, <1>4, <1>7, SilentKeeps
<1>10. TypeOK'
  BY <1>3, <1>4 DEF TypeOK
<1>11. Speaks
  <2>1. m.packets = <<>> \/ "late" \in Faults
    BY <1>3 DEF Answering
  <2> QED BY <1>1, <1>4, <2>1 DEF Speaks
<1> QED BY <1>8, <1>9, <1>10, <1>11 DEF Inv

-----------------------------------------------------------------------------
(* The actions of the tries *)

\* The second change of a context is the one that counts.
LEMMA WithTwice ==
    ASSUME NEW a \in Manager, NEW c \in Child, NEW k \in Context, NEW d \in Context
    PROVE  With(With(a, c, k), c, d) = With(a, c, d)
<1> DEFINE f == [a.ctx EXCEPT ![c] = k]
           g == [a.ctx EXCEPT ![c] = d]
<1>1. a.ctx \in [Child -> Context]
  BY DEF Manager
<1>2. [f EXCEPT ![c] = d] = g
  BY <1>1
<1>3. With(a, c, k) = [a EXCEPT !.ctx = f] /\ With(a, c, d) = [a EXCEPT !.ctx = g]
  BY DEF With
<1> HIDE DEF g
<1>4. With(a, c, k).ctx = f
  BY <1>3 DEF Manager
<1>5. With(With(a, c, k), c, d) = [With(a, c, k) EXCEPT !.ctx = g]
  BY <1>2, <1>4 DEF With
<1> HIDE DEF f
<1> QED BY <1>3, <1>5 DEF Manager

\* A context put back is no change.
LEMMA WithSame ==
    ASSUME NEW a \in Manager, NEW c \in Child
    PROVE  With(a, c, a.ctx[c]) = a
<1>1. a.ctx \in [Child -> Context]
  BY DEF Manager
<1>2. [a.ctx EXCEPT ![c] = a.ctx[c]] = a.ctx
  BY <1>1
<1>3. With(a, c, a.ctx[c]) = [a EXCEPT !.ctx = a.ctx]
  BY <1>2 DEF With
<1> QED BY <1>3 DEF Manager

\* A sequence of one
LEMMA OneLong ==
    ASSUME NEW S, NEW s \in Seq(S), Len(s) = 1
    PROVE  s # <<>> /\ Head(s) \in S /\ Tail(s) = <<>>
<1>1. s # <<>>
  <2>1. Len(<<>>) = 0
    OBVIOUS
  <2> QED BY <2>1
<1>2. Head(s) \in S /\ Tail(s) \in Seq(S) /\ Len(Tail(s)) = 0
  BY <1>1, HeadTailProperties
<1>3. Tail(s) = <<>>
  BY <1>2, EmptySeq
<1> QED BY <1>1, <1>2, <1>3

\* A watch fires.
Fired(k, n) == [k EXCEPT !.timer = "none", !.watches = n]

\* A watch of a connection fires: that of the child's only try, or one left by a
\* child that is out.
LEMMA WatchedFrame ==
    ASSUME Inv, NEW c \in m.milters, m.pst # "start", m.ctx[c].watches > 0, NEW a \in Watched(c)
    PROVE  \E n \in Nat : /\ a = With(m, c, Fired(m.ctx[c], n))
                          /\ Fired(m.ctx[c], n) \in Context
                          /\ \/ c \in m.queue /\ Trying(Fired(m.ctx[c], n)) /\ n = 0
                             \/ c \notin m.queue /\ Out(Fired(m.ctx[c], n))
<1>1. c \in Child /\ m \in Manager /\ m.ctx[c] \in Context /\ Placed(m.ctx[c], c \in m.queue)
  BY ContextType
<1>2. m.ctx[c].watches \in Nat
  BY <1>1 DEF Context
<1>3. \A n \in {0, m.ctx[c].watches - 1} : n \in Nat /\ (m.ctx[c].watches = 1 => n = 0)
  BY <1>2
<1>4. PICK n \in Nat : /\ a = [m EXCEPT !.ctx[c].timer = "none", !.ctx[c].watches = n]
                       /\ m.ctx[c].watches = 1 => n = 0
  BY <1>3 DEF Watched
<1> DEFINE k == Fired(m.ctx[c], n)
<1>5. /\ k \in Context /\ k.data = m.ctx[c].data /\ k.hooks = m.ctx[c].hooks /\ k.timer = "none"
      /\ k.negotiated = m.ctx[c].negotiated /\ k.quitted = m.ctx[c].quitted
      /\ k.state = m.ctx[c].state /\ k.unflushed = m.ctx[c].unflushed
      /\ k.watches = n
  BY <1>1 DEF Fired, Context
<1>6. \/ c \in m.queue /\ Trying(k) /\ n = 0
      \/ c \notin m.queue /\ Out(k)
  <2>1. \/ c \in m.queue /\ Trying(m.ctx[c]) /\ m.ctx[c].watches = 1
        \/ c \notin m.queue /\ Out(m.ctx[c])
    BY <1>1, <1>2 DEF Placed, Trying, Talking, Agreeing
  <2> QED BY <1>4, <1>5, <2>1 DEF Trying, Out
<1>7. a = With(m, c, k)
  BY <1>1, <1>4 DEF With, Fired, Manager, Context
<1> QED BY <1>5, <1>6, <1>7

\* DropTry and expire_child are changes of a context.
LEMMA DropTryWith ==
    ASSUME NEW a \in Manager, NEW c \in Child
    PROVE  /\ DropTry(a, c) = With(a, c, [a.ctx[c] EXCEPT !.data = Tail(@)])
           /\ [a EXCEPT !.ctx[c] = Expired(@)] = With(a, c, Expired(a.ctx[c]))
<1>1. a.ctx \in [Child -> Context] /\ a.ctx[c] \in Context
  BY DEF Manager
<1> QED BY <1>1 DEF DropTry, With, Manager, Context

\* A change of c's context that answers nothing keeps the options.
LEMMA WithPrepared ==
    ASSUME Inv, NEW c \in m.milters, NEW k \in Context, k.negotiated = m.ctx[c].negotiated,
           m.ctx[c].quitted => k.quitted
    PROVE  LET a == With(m, c, k)
           IN  Prepared(a, c) /\ a.ctx[c] = k /\ Merged(a, wish) /\ Harsh(a)
<1>1. c \in Child /\ m \in Manager
  BY ContextType
<1>2. Prepared(With(m, c, k), c) /\ With(m, c, k).ctx[c] = k /\ Silent(m, With(m, c, k))
  BY <1>1, WithFrame DEF Prepared, Silent
<1>3. Merged(With(m, c, k), wish) /\ Harsh(With(m, c, k))
  BY <1>1, <1>2, SilentKeeps DEF Inv, Prepared
<1> QED BY <1>2, <1>3

\* clear_try_negotiate_data of the only try expires the child.
LEMMA ClearFrame ==
    ASSUME ConfigAssumption, Inv, NEW c \in m.milters, NEW k \in Context, Trying(k),
           ~m.ctx[c].negotiated, ~m.ctx[c].quitted
    PROVE  LET a == With(m, c, k)
           IN  /\ Prepared(a, c) /\ a.ctx[c] = k /\ Merged(a, wish) /\ Harsh(a)
               /\ Clear(a, c).ctx[c].hooks = 0
               /\ \E d \in Context : /\ Clear(a, c) = With(RemoveQueue(a, c), c, d)
                                     /\ Out(d) /\ d.negotiated = k.negotiated
<1> DEFINE a == With(m, c, k)
           b == RemoveQueue(a, c)
           e == Expired(k)
           d == [e EXCEPT !.data = Tail(@)]
<1>1. c \in Child /\ m \in Manager /\ m.ctx[c] \in Context
  BY ContextType
<1>2. k.data \in Seq(Data) /\ Tail(k.data) = <<>> /\ ~k.negotiated /\ ~k.quitted
      /\ k.negotiated \in BOOLEAN /\ m.ctx[c].negotiated \in BOOLEAN /\ <<>> \in Seq(Data)
  BY <1>1, OneLong DEF Context, Trying
<1>3. Prepared(a, c) /\ a.ctx[c] = k /\ Merged(a, wish) /\ Harsh(a)
  BY <1>2, WithPrepared
<1> HIDE DEF a
<1>4. b \in Manager /\ b.ctx[c] = k
  BY <1>2, <1>3, RemoveQueueMoves
<1>5. e \in Context /\ e.quitted /\ e.hooks = 0 /\ e.data = k.data /\ e.negotiated = k.negotiated
  BY ExpiredFrame
<1>6. Clear(a, c) = DropTry([b EXCEPT !.ctx[c] = Expired(@)], c)
  BY DEF Clear
<1> HIDE DEF b
<1>7. Clear(a, c) = DropTry(With(b, c, e), c)
  BY <1>1, <1>4, <1>6, DropTryWith
<1> HIDE DEF e
<1>8. With(b, c, e) \in Manager /\ With(b, c, e).ctx[c] = e
  BY <1>1, <1>4, <1>5, WithFrame
<1>9. Clear(a, c) = With(With(b, c, e), c, d)
  BY <1>1, <1>7, <1>8, DropTryWith
<1>10. d \in Context /\ d.data = <<>> /\ d.hooks = 0 /\ d.quitted /\ d.negotiated = k.negotiated
  <2>1. d = [e EXCEPT !.data = <<>>]
    BY <1>2, <1>5
  <2> QED BY <1>2, <1>5, <2>1 DEF Context
<1> HIDE DEF d
<1>11. Clear(a, c) = With(b, c, d)
  BY <1>1, <1>4, <1>5, <1>9, <1>10, WithTwice
<1>12. Out(d) /\ Clear(a, c).ctx[c] = d
  BY <1>1, <1>4, <1>10, <1>11, WithFrame DEF Out
<1> QED BY <1>3, <1>10, <1>11, <1>12 DEF a, b

\* The only try ends with clear_try_negotiate_data.
LEMMA ClearMoves ==
    ASSUME ConfigAssumption, Inv, NEW c \in m.milters, c \in m.queue,
           m.pst \in {"negotiate", "abort"}, NEW k \in Context, Trying(k),
           ~m.ctx[c].negotiated, ~m.ctx[c].quitted,
           m' = Clear(With(m, c, k), c), UNCHANGED wish, UNCHANGED first
    PROVE  Inv' /\ Speaks
<1> DEFINE a == With(m, c, k)
<1>1. Prepared(a, c) /\ a.ctx[c] = k /\ Merged(a, wish) /\ Harsh(a)
  BY ClearFrame
<1>2. PICK d \in Context : /\ m' = With(RemoveQueue(a, c), c, d)
                           /\ Out(d) /\ d.negotiated = k.negotiated
  BY ClearFrame
<1> HIDE DEF a
<1>3. Placed(d, FALSE) /\ d.quitted
  BY <1>2 DEF Placed, Out
<1>4. wish' \in [Child -> SUBSET Step] /\ wish' = wish
  BY DEF Inv, TypeOK
<1> QED BY <1>1, <1>2, <1>3, <1>4, Leaves

\* connect_watch_func succeeds: NEGOTIATE is written by the only try.
LEMMA ConnectedStep ==
    ASSUME Inv, NEW c \in Child, Connected(c)
    PROVE  Inv' /\ Speaks
<1>1. c \in m.milters /\ m.pst \in {"negotiate", "abort"} /\ m.ctx[c].watches > 0
      /\ UNCHANGED <<wish, first>>
  BY DEF Connected, Running
<1>2. PICK a \in Watched(c) : m' = EmitReady(a, c)
  BY DEF Connected
<1>3. m \in Manager /\ m.ctx[c] \in Context /\ Placed(m.ctx[c], c \in m.queue)
  BY <1>1, ContextType
<1>4. PICK n \in Nat : /\ a = With(m, c, Fired(m.ctx[c], n))
                       /\ Fired(m.ctx[c], n) \in Context
                       /\ \/ c \in m.queue /\ Trying(Fired(m.ctx[c], n)) /\ n = 0
                          \/ c \notin m.queue /\ Out(Fired(m.ctx[c], n))
  BY <1>1, WatchedFrame
<1> DEFINE k == Fired(m.ctx[c], n)
<1>5. k \in Context /\ k.negotiated = m.ctx[c].negotiated /\ k.quitted = m.ctx[c].quitted
  BY <1>3, <1>4 DEF Fired, Context
<1>6. a = With(m, c, k) /\ a \in Manager /\ a.ctx[c] = k
  BY <1>3, <1>4, <1>5, WithFrame
<1>7. (c \in m.queue /\ Trying(k)) \/ (c \notin m.queue /\ Out(k))
  BY <1>4
<1> HIDE DEF k
<1>8. ASSUME c \notin m.queue, Out(k) PROVE Inv' /\ Speaks
  <2>1. Len(k.data) = 0
    BY <1>8 DEF Out
  <2>2. m' = a
    BY <1>2, <1>6, <2>1 DEF EmitReady
  <2>3. Placed(k, c \in m.queue)
    BY <1>8 DEF Placed
  <2> QED BY <1>1, <1>5, <1>6, <2>2, <2>3, ContextMoves DEF Speaks
<1>9. ASSUME c \in m.queue, Trying(k) PROVE Inv' /\ Speaks
  <2> DEFINE e == [k EXCEPT !.hooks = 1, !.unflushed = TRUE, !.timer = "writing"]
             d == [e EXCEPT !.data = Tail(@)]
  <2>1. Len(k.data) = 1 /\ k.hooks = 0 /\ ~k.negotiated /\ ~k.quitted /\ k.state = "start"
        /\ k.data \in Seq(Data) /\ Tail(k.data) = <<>> /\ <<>> \in Seq(Data)
    BY <1>5, <1>9, OneLong DEF Context, Trying
  <2>2. /\ e \in Context /\ e.data = k.data /\ e.hooks = 1 /\ e.negotiated = k.negotiated
        /\ e.quitted = k.quitted /\ e.state = "start" /\ e.watches = k.watches
    BY <1>5, <2>1 DEF Context
  <2>3. m' = DropTry([a EXCEPT !.ctx[c].hooks = @ + 1, !.ctx[c].unflushed = TRUE,
                               !.ctx[c].timer = "writing"], c)
    BY <1>2, <1>6, <2>1 DEF EmitReady
  <2>4. [a EXCEPT !.ctx[c].hooks = @ + 1, !.ctx[c].unflushed = TRUE,
                  !.ctx[c].timer = "writing"] = With(a, c, e)
    <3>1. [a EXCEPT !.ctx[c].hooks = @ + 1, !.ctx[c].unflushed = TRUE,
                    !.ctx[c].timer = "writing"]
          = [a EXCEPT !.ctx[c].hooks = 1, !.ctx[c].unflushed = TRUE, !.ctx[c].timer = "writing"]
      BY <1>6, <2>1
    <3>2. a.ctx \in [Child -> Context]
      BY <1>6 DEF Manager
    <3> DEFINE x == [a EXCEPT !.ctx[c].hooks = 1]
               h == [k EXCEPT !.hooks = 1]
    <3>3. x = With(a, c, h)
      BY <1>6, <3>2 DEF With
    <3>4. h \in Context
      BY <1>5 DEF Context
    <3> HIDE DEF h, x
    <3>5. x \in Manager /\ x.ctx[c] = h
      BY <1>6, <3>3, <3>4, WithFrame
    <3>6. [a EXCEPT !.ctx[c].hooks = 1, !.ctx[c].unflushed = TRUE, !.ctx[c].timer = "writing"]
          = [x EXCEPT !.ctx[c].unflushed = TRUE, !.ctx[c].timer = "writing"]
      BY <1>6 DEF x
    <3>7. [x EXCEPT !.ctx[c].unflushed = TRUE, !.ctx[c].timer = "writing"]
          = With(x, c, [h EXCEPT !.unflushed = TRUE, !.timer = "writing"])
      BY <3>4, <3>5 DEF With, Manager, Context
    <3>8. [h EXCEPT !.unflushed = TRUE, !.timer = "writing"] = e
      BY <1>5 DEF h, Context
    <3> QED BY <1>6, <2>2, <3>1, <3>3, <3>4, <3>6, <3>7, <3>8, WithTwice
  <2> HIDE DEF e
  <2>5. With(a, c, e) \in Manager /\ With(a, c, e).ctx[c] = e
    BY <1>6, <2>2, WithFrame
  <2>6. m' = With(With(a, c, e), c, d)
    BY <2>3, <2>4, <2>5, DropTryWith
  <2>7. /\ d \in Context /\ d.data = <<>> /\ d.hooks = 1 /\ d.negotiated = k.negotiated
        /\ d.quitted = k.quitted /\ d.state = "start" /\ d.watches = k.watches
    BY <2>1, <2>2 DEF Context
  <2> HIDE DEF d
  <2>8. m' = With(m, c, d)
    BY <1>3, <1>5, <1>6, <2>2, <2>6, <2>7, WithTwice
  <2>9. k.watches = 0
    BY <1>3, <1>4, <1>9 DEF Fired, Context, k, Out
  <2>10. Placed(d, c \in m.queue)
    BY <1>9, <2>1, <2>7, <2>9 DEF Placed, Talking
  <2> QED BY <1>1, <1>5, <2>7, <2>8, <2>10, ContextMoves DEF Speaks
<1> QED BY <1>7, <1>8, <1>9

\* cb_connection_timeout with the only try, if it is still there
LEMMA ConnectionTimeoutStep ==
    ASSUME ConfigAssumption, Inv, NEW c \in Child, ConnectionTimeout(c)
    PROVE  Inv' /\ Speaks
<1>1. c \in m.milters /\ m.pst \in {"negotiate", "abort"} /\ UNCHANGED <<wish, first>>
      /\ m.ctx[c].timer = "connection"
  BY DEF ConnectionTimeout, Running
<1>2. m \in Manager /\ m.ctx[c] \in Context /\ Placed(m.ctx[c], c \in m.queue)
  BY <1>1, ContextType
<1> DEFINE k == [m.ctx[c] EXCEPT !.timer = "none"]
           a == With(m, c, k)
<1>3. /\ k \in Context /\ k.data = m.ctx[c].data /\ k.hooks = m.ctx[c].hooks
      /\ k.negotiated = m.ctx[c].negotiated /\ k.quitted = m.ctx[c].quitted
      /\ k.state = m.ctx[c].state /\ k.unflushed = m.ctx[c].unflushed
      /\ k.watches = m.ctx[c].watches
  BY <1>2 DEF Context
<1>4. [m EXCEPT !.ctx[c].timer = "none"] = a
  BY DEF With
<1>5. m' = ClearedEach(a, c)
  <2>1. m' = ClearedEach([m EXCEPT !.ctx[c].timer = "none"], c)
    BY DEF ConnectionTimeout, ForEachTry, ClearedEach
  <2> QED BY <1>4, <2>1
<1> HIDE DEF k
<1>6. a.ctx[c] = k
  BY <1>2, <1>3, WithFrame
<1> HIDE DEF a
<1>7. Placed(k, c \in m.queue) /\ ~Agreeing(m.ctx[c])
  BY <1>1, <1>2, <1>3 DEF Placed, Trying, Talking, Agreeing, Out
<1>8. ASSUME Trying(k) PROVE Inv' /\ Speaks
  <2>1. Len(a.ctx[c].data) = 1
    BY <1>6, <1>8 DEF Trying
  <2>2. m' = Clear(a, c)
    BY <1>5, <2>1, ClearEach
  <2>3. c \in m.queue /\ ~m.ctx[c].negotiated /\ ~m.ctx[c].quitted
    BY <1>3, <1>7, <1>8 DEF Placed, Trying, Talking, Agreeing, Out
  <2> QED BY <1>1, <1>3, <1>8, <2>2, <2>3, ClearMoves DEF a
<1>9. ASSUME k.data = <<>> PROVE Inv' /\ Speaks
  <2>1. Len(a.ctx[c].data) = 0
    BY <1>6, <1>9
  <2>2. m' = a
    BY <1>5, <2>1, ClearEach
  <2>3. m' = With(m, c, k)
    BY <2>2 DEF a
  <2> QED BY <1>1, <1>3, <1>7, <2>3, ContextMoves DEF Speaks
<1> QED BY <1>7, <1>8, <1>9 DEF Placed, Talking, Agreeing, Out

\* A new try takes the place of the only one.
LEMMA TryAgain ==
    ASSUME NEW a \in Manager, NEW c \in Child, Len(a.ctx[c].data) = 1,
           NEW r \in BOOLEAN, NEW y \in BOOLEAN
    PROVE  \E d \in Context :
             /\ DropTry(AddTry(a, c, r, y), c) = With(a, c, d)
             /\ d = [a.ctx[c] EXCEPT !.data = <<[retry |-> r, timer |-> y]>>]
             /\ Len(d.data) = 1 /\ d.data[1].timer = y
<1> DEFINE k == a.ctx[c]
           x == [retry |-> r, timer |-> y]
           p == Append(k.data, x)
           e == [k EXCEPT !.data = p]
           d == [k EXCEPT !.data = <<x>>]
<1>1. a.ctx \in [Child -> Context] /\ k \in Context /\ k.data \in Seq(Data) /\ Len(k.data) = 1
  BY DEF Manager, Context
<1>2. x \in Data
  BY DEF Data
<1> HIDE DEF x
<1>3. p \in Seq(Data) /\ Tail(p) = <<x>> /\ <<x>> \in Seq(Data)
  <2> DEFINE s == k.data
  <2>1. s \in Seq(Data) /\ Len(s) = 1 /\ p = Append(s, x)
    BY <1>1
  <2> HIDE DEF s, p
  <2>2. Len(s) + 1 = 2
    BY <2>1
  <2>3. p \in Seq(Data) /\ p # <<>> /\ Len(p) = 2 /\ p[2] = x
    <3>1. /\ Append(s, x) \in Seq(Data) /\ Append(s, x) # <<>>
          /\ Len(Append(s, x)) = Len(s) + 1 /\ Append(s, x)[Len(s) + 1] = x
      BY <1>2, <2>1, AppendProperties
    <3> QED BY <2>1, <2>2, <3>1
  <2>4. Tail(p) \in Seq(Data) /\ Len(Tail(p)) = 1 /\ Tail(p)[1] = x
    <3>1. /\ Tail(p) \in Seq(Data) /\ Len(Tail(p)) = Len(p) - 1
          /\ \A j \in 1..Len(Tail(p)) : Tail(p)[j] = p[j + 1]
      BY <2>3, HeadTailProperties
    <3>2. Len(Tail(p)) = 1 /\ 1 \in 1..1 /\ 1 + 1 = 2
      BY <2>3, <3>1
    <3> QED BY <2>3, <3>1, <3>2
  <2>5. <<x>> \in Seq(Data) /\ Len(<<x>>) = 1 /\ <<x>>[1] = x
    BY <1>2
  <2>6. \A i \in 1..1 : Tail(p)[i] = <<x>>[i]
    <3>1. \A i \in 1..1 : i = 1
      OBVIOUS
    <3>2. Tail(p)[1] = <<x>>[1]
      BY <2>4, <2>5
    <3> QED BY <3>1, <3>2
  <2> QED BY <2>3, <2>4, <2>5, <2>6, SeqEqual
<1>4. AddTry(a, c, r, y) = With(a, c, e)
  BY <1>1 DEF AddTry, With, x
<1> HIDE DEF p
<1>5. e \in Context /\ e.data = p /\ d \in Context
  BY <1>1, <1>3 DEF Context
<1>6. [e EXCEPT !.data = Tail(@)] = d
  BY <1>1, <1>3, <1>5 DEF Context
<1>10. d.data = <<x>>
  BY <1>1 DEF Context
<1> HIDE DEF e, d
<1>7. With(a, c, e) \in Manager /\ With(a, c, e).ctx[c] = e
  BY <1>5, WithFrame
<1>8. DropTry(AddTry(a, c, r, y), c) = With(With(a, c, e), c, d)
  BY <1>4, <1>6, <1>7, DropTryWith
<1>9. DropTry(AddTry(a, c, r, y), c) = With(a, c, d)
  BY <1>5, <1>8, WithTwice
<1>11. Len(d.data) = 1 /\ d.data[1] = x
  BY <1>10
<1>12. d.data[1].timer = y
  BY <1>11 DEF x
<1> QED BY <1>5, <1>9, <1>11, <1>12 DEF d, x

\* retry_establish_connection of the only try
LEMMA RetryStep ==
    ASSUME ConfigAssumption, Inv, NEW c \in Child, NEW i \in DOMAIN m.ctx[c].data, Retry(c, i)
    PROVE  Inv' /\ Speaks
<1>1. c \in m.milters /\ m.pst \in {"negotiate", "abort"} /\ UNCHANGED <<wish, first>>
      /\ i \in DOMAIN m.ctx[c].data /\ m.ctx[c].data[i].timer
  BY DEF Retry, Running
<1>2. m \in Manager /\ m.ctx[c] \in Context /\ Placed(m.ctx[c], c \in m.queue)
      /\ m.ctx[c].data \in Seq(Data)
  BY <1>1, ContextType DEF Context
<1>3. Len(m.ctx[c].data) = 1 /\ c \in m.queue /\ Trying(m.ctx[c])
  <2>1. DOMAIN <<>> = {}
    OBVIOUS
  <2>2. m.ctx[c].data # <<>>
    BY <1>1, <2>1
  <2> QED BY <1>2, <2>2 DEF Placed, Trying, Talking, Agreeing, Out
<1>4. i = 1
  <2>1. DOMAIN m.ctx[c].data = 1..1
    BY <1>2, <1>3
  <2> QED BY <1>1, <2>1
<1>5. m.ctx[c].watches = 0 /\ m.ctx[c].hooks = 0 /\ ~m.ctx[c].negotiated /\ ~m.ctx[c].quitted
      /\ m.ctx[c].state = "start" /\ ~m.ctx[c].unflushed
  BY <1>1, <1>3, <1>4 DEF Trying
<1> DEFINE without(s) == SubSeq(s, 1, i - 1) \o SubSeq(s, i + 1, Len(s))
<1>6. ASSUME NEW s \in Seq(Data), s # <<>> PROVE without(s) = Tail(s)
  <2>1. SubSeq(s, 1, 0) = <<>>
    BY SubSeqEmpty
  <2>2. Tail(s) \in Seq(Data) /\ Tail(s) = SubSeq(s, 2, Len(s))
    BY <1>6, HeadTailProperties, TailIsSubSeq
  <2>3. i - 1 = 0 /\ i + 1 = 2
    BY <1>4
  <2>4. without(s) = <<>> \o Tail(s)
    BY <2>1, <2>2, <2>3
  <2> QED BY <2>2, <2>4, ConcatEmptySeq
<1>7. ASSUME NEW a \in Manager, a.ctx[c].data # <<>>, m' = [a EXCEPT !.ctx[c].data = without(@)]
      PROVE  m' = DropTry(a, c)
  <2>1. a.ctx[c] \in Context /\ a.ctx[c].data \in Seq(Data)
    BY DEF Manager, Context
  <2>2. without(a.ctx[c].data) = Tail(a.ctx[c].data)
    BY <1>6, <1>7, <2>1
  <2> HIDE DEF without
  <2> QED BY <1>7, <2>2 DEF DropTry
<1>8. PICK ok \in BOOLEAN : m' = [Establish(m, c, ok, TRUE) EXCEPT !.ctx[c].data = without(@)]
  BY DEF Retry
<1> HIDE DEF without
<1>9. CASE ok
  <2> DEFINE k == [m.ctx[c] EXCEPT !.watches = 1, !.timer = "connection"]
             a == With(m, c, k)
  <2>1. /\ k \in Context /\ k.data = m.ctx[c].data /\ k.watches = 1 /\ k.hooks = m.ctx[c].hooks
        /\ k.negotiated = m.ctx[c].negotiated /\ k.quitted = m.ctx[c].quitted
        /\ k.state = m.ctx[c].state /\ k.unflushed = m.ctx[c].unflushed
    BY <1>2 DEF Context
  <2>2. [m EXCEPT !.ctx[c].watches = @ + 1, !.ctx[c].timer = "connection"] = a
    <3>1. m.ctx[c].watches + 1 = 1
      BY <1>5
    <3>2. [m EXCEPT !.ctx[c].watches = @ + 1, !.ctx[c].timer = "connection"]
          = [m EXCEPT !.ctx[c].watches = 1, !.ctx[c].timer = "connection"]
      BY <3>1
    <3>3. [m EXCEPT !.ctx[c].watches = 1, !.ctx[c].timer = "connection"] = a
      BY <1>2 DEF With, Manager, Context
    <3> QED BY <3>2, <3>3
  <2>3. Establish(m, c, ok, TRUE) = AddTry(a, c, TRUE, FALSE)
    BY <1>9, <2>2 DEF Establish
  <2> HIDE DEF k
  <2>4. a \in Manager /\ a.ctx[c] = k
    BY <1>2, <2>1, WithFrame
  <2> HIDE DEF a
  <2>5. PICK d \in Context :
             /\ DropTry(AddTry(a, c, TRUE, FALSE), c) = With(a, c, d)
             /\ d = [a.ctx[c] EXCEPT !.data = <<[retry |-> TRUE, timer |-> FALSE]>>]
             /\ Len(d.data) = 1 /\ d.data[1].timer = FALSE
    <3>1. Len(a.ctx[c].data) = 1 /\ TRUE \in BOOLEAN /\ FALSE \in BOOLEAN
      BY <1>3, <2>1, <2>4
    <3> QED BY <2>4, <3>1, TryAgain
  <2>6. AddTry(a, c, TRUE, FALSE) \in Manager /\ AddTry(a, c, TRUE, FALSE).ctx[c].data # <<>>
    <3> DEFINE p == Append(k.data, [retry |-> TRUE, timer |-> FALSE])
               e == [k EXCEPT !.data = p]
    <3>1. p \in Seq(Data) /\ p # <<>>
      BY <1>2, <2>1, AppendProperties DEF Data
    <3>2. AddTry(a, c, TRUE, FALSE) = With(a, c, e)
      BY <2>4 DEF AddTry, With
    <3> HIDE DEF p
    <3>3. e \in Context /\ e.data = p
      BY <2>1, <3>1 DEF Context
    <3> HIDE DEF e
    <3>4. With(a, c, e) \in Manager /\ With(a, c, e).ctx[c] = e
      BY <2>4, <3>3, WithFrame
    <3> QED BY <3>1, <3>2, <3>3, <3>4
  <2>7. m' = With(a, c, d)
    BY <1>7, <1>8, <2>3, <2>5, <2>6
  <2>8. m' = With(m, c, d)
    BY <1>2, <2>1, <2>7, WithTwice DEF a
  <2>9. /\ d.watches = 1 /\ d.hooks = k.hooks /\ d.negotiated = k.negotiated
        /\ d.quitted = k.quitted /\ d.state = k.state /\ d.unflushed = k.unflushed
    BY <2>1, <2>4, <2>5 DEF Context
  <2>10. Placed(d, c \in m.queue)
    BY <1>3, <1>5, <2>1, <2>5, <2>9 DEF Placed, Trying
  <2> QED BY <1>1, <2>1, <2>8, <2>9, <2>10, ContextMoves DEF Speaks
<1>10. CASE ~ok
  <2> DEFINE k == [m.ctx[c] EXCEPT !.timer = "none"]
             a == With(m, c, k)
             g == RemoveQueue(a, c)
             e == [g EXCEPT !.ctx[c] = Expired(@)]
  <2>1. k \in Context /\ Trying(k) /\ k.negotiated = m.ctx[c].negotiated
        /\ k.quitted = m.ctx[c].quitted /\ k.data # <<>>
    <3>1. /\ k \in Context /\ k.data = m.ctx[c].data /\ k.hooks = m.ctx[c].hooks
          /\ k.negotiated = m.ctx[c].negotiated /\ k.quitted = m.ctx[c].quitted
          /\ k.state = m.ctx[c].state /\ k.unflushed = m.ctx[c].unflushed
          /\ k.watches = m.ctx[c].watches
      BY <1>2 DEF Context
    <3> HIDE DEF k
    <3>2. k.data # <<>>
      BY <1>2, <1>3, <3>1, OneLong
    <3> QED BY <1>3, <3>1, <3>2 DEF Trying
  <2>2. [m EXCEPT !.ctx[c].timer = "none"] = a
    BY DEF With
  <2>3. Establish(m, c, ok, TRUE) = e
    BY <1>10, <2>2 DEF Establish
  <2>4. Clear(a, c) = DropTry(e, c)
    BY DEF Clear
  <2> HIDE DEF k
  <2>5. Prepared(a, c) /\ a.ctx[c] = k
    BY <1>1, <2>1, WithPrepared
  <2> HIDE DEF a
  <2>6. g \in Manager /\ g.ctx[c] = k
    BY <1>1, <1>5, <2>1, <2>5, RemoveQueueMoves
  <2> HIDE DEF g
  <2>7. e = With(g, c, Expired(k)) /\ Expired(k) \in Context /\ Expired(k).data = k.data
    BY <2>1, <2>6, DropTryWith, ExpiredFrame
  <2> HIDE DEF e
  <2>8. e \in Manager /\ e.ctx[c].data # <<>>
    BY <2>1, <2>6, <2>7, WithFrame
  <2>9. m' = Clear(a, c)
    BY <1>7, <1>8, <2>3, <2>4, <2>8
  <2> QED BY <1>1, <1>3, <1>5, <2>1, <2>9, ClearMoves DEF a
<1> QED BY <1>9, <1>10

-----------------------------------------------------------------------------
(* The failures of a child and its answers *)

\* A fallback goes to the slot only.
LEMMA FallBackFrame ==
    ASSUME ConfigAssumption, NEW a \in Manager, NEW c \in Child
    PROVE  LET b == FallBack(a, c)
           IN  /\ b \in Manager /\ b.milters = a.milters /\ b.queue = a.queue /\ b.pst = a.pst
               /\ b.steps = a.steps /\ b.yes = a.yes /\ b.lazy = a.lazy
               /\ b.packets = a.packets /\ b.ctx = a.ctx
<1> DEFINE s == Compile(a.slot, Fallback[c])
<1>1. a.slot \in Status /\ Fallback[c] \in Status
  BY ConfigAssumption DEF ConfigAssumption, Manager, Status, Verdict, Refusal
<1>2. s \in Status
  BY <1>1 DEF Compile
<1>3. FallBack(a, c) = a \/ FallBack(a, c) = [a EXCEPT !.slot = s]
  BY DEF FallBack, Manager
<1> HIDE DEF s
<1> QED BY <1>2, <1>3 DEF Manager

\* emit_reply_status_of_state
LEMMA EmitSlotFrame ==
    ASSUME NEW a \in Manager, a.pst \in {"negotiate", "abort"}
    PROVE  LET b == EmitSlot(a)
           IN  /\ b \in Manager /\ b.milters = a.milters /\ b.queue = a.queue
               /\ b.pst \in {"negotiate", "abort"}
               /\ b.steps = a.steps /\ b.yes = a.yes /\ b.lazy = a.lazy /\ b.ctx = a.ctx
               /\ b.packets = a.packets \/ b.packets = Append(a.packets, "reject")
<1> DEFINE st == IF a.pst = "negotiate" THEN a.slot ELSE "not-change"
           p == IF st = "reject" /\ ~a.replied THEN Append(a.packets, st) ELSE a.packets
           q == IF st \in Refusal THEN "abort" ELSE a.pst
<1>1. EmitSlot(a) = IF st = "not-change" THEN a
                    ELSE [a EXCEPT !.replied = TRUE, !.packets = p, !.pst = q]
  BY DEF EmitSlot, Manager
<1>2. p = a.packets \/ p = Append(a.packets, "reject")
  OBVIOUS
<1>3. p \in Seq({"options", "reject"})
  <2>1. a.packets \in Seq({"options", "reject"})
    BY DEF Manager
  <2> QED BY <1>2, <2>1, FirstPacket
<1>4. q \in {"negotiate", "abort"}
  OBVIOUS
<1> HIDE DEF st, p, q
<1>5. CASE EmitSlot(a) = a
  BY <1>5
<1>6. CASE EmitSlot(a) = [a EXCEPT !.replied = TRUE, !.packets = p, !.pst = q]
  BY <1>2, <1>3, <1>4, <1>6 DEF Manager
<1> QED BY <1>1, <1>5, <1>6

\* cb_error and the timeouts of a child that is connected
LEMMA CbErrorMoves ==
    ASSUME ConfigAssumption, Inv, NEW c \in m.milters, m.pst \in {"negotiate", "abort"},
           NEW k \in Context, k.hooks # 0, k.data = <<>>, k.negotiated = m.ctx[c].negotiated,
           m' = CbError(With(m, c, k), c), UNCHANGED wish, UNCHANGED first,
           m.queue # {} \/ "late" \in Faults
    PROVE  Inv' /\ Speaks
<1> DEFINE a == With(m, c, k)
           f == FallBack(a, c)
           q == m.queue \ {c}
           e == Expired(k)
           b == [f EXCEPT !.ctx[c] = Expired(@), !.queue = @ \ {c}]
<1>1. c \in Child /\ m \in Manager /\ q \subseteq Child
  BY ContextType DEF Manager
<1>2. /\ a \in Manager /\ a.milters = m.milters /\ a.queue = m.queue /\ a.pst = m.pst
      /\ a.steps = m.steps /\ a.yes = m.yes /\ a.lazy = m.lazy
      /\ a.packets = m.packets /\ a.ctx[c] = k
      /\ \A d \in Child : d # c => a.ctx[d] = m.ctx[d]
  BY <1>1, WithFrame
<1>3. m' = IF b.queue = {} THEN EmitSlot(b) ELSE b
  BY <1>2 DEF CbError
<1> HIDE DEF a
<1>4. /\ f \in Manager /\ f.milters = m.milters /\ f.queue = m.queue /\ f.pst = m.pst
      /\ f.steps = m.steps /\ f.yes = m.yes /\ f.lazy = m.lazy
      /\ f.packets = m.packets /\ f.ctx[c] = k
      /\ \A d \in Child : d # c => f.ctx[d] = m.ctx[d]
  BY <1>1, <1>2, FallBackFrame
<1> HIDE DEF f
<1>5. e \in Context /\ e.quitted /\ e.hooks = 0 /\ e.data = <<>> /\ e.negotiated = m.ctx[c].negotiated
  BY ExpiredFrame
<1>6. b = [With(f, c, e) EXCEPT !.queue = q]
  <2>1. b = [[f EXCEPT !.ctx[c] = Expired(@)] EXCEPT !.queue = @ \ {c}]
    BY <1>4 DEF Manager
  <2>2. [f EXCEPT !.ctx[c] = Expired(@)] = With(f, c, e)
    BY <1>1, <1>4, DropTryWith
  <2>3. With(f, c, e) \in Manager /\ With(f, c, e).queue = m.queue
    BY <1>1, <1>4, <1>5, WithFrame
  <2> HIDE DEF e
  <2> QED BY <2>1, <2>2, <2>3 DEF Manager
<1> HIDE DEF e, q, b
<1>7. /\ b \in Manager /\ b.milters = m.milters /\ b.queue = q /\ b.pst = m.pst
      /\ b.steps = m.steps /\ b.yes = m.yes /\ b.lazy = m.lazy
      /\ b.packets = m.packets /\ b.ctx[c] = e
      /\ \A d \in Child : d # c => b.ctx[d] = m.ctx[d]
  <2> DEFINE w == With(f, c, e)
  <2>1. /\ w \in Manager /\ w.milters = m.milters /\ w.pst = m.pst
        /\ w.steps = m.steps /\ w.yes = m.yes /\ w.lazy = m.lazy
        /\ w.packets = m.packets /\ w.ctx[c] = e
        /\ \A d \in Child : d # c => w.ctx[d] = m.ctx[d]
    BY <1>1, <1>4, <1>5, WithFrame
  <2> HIDE DEF w
  <2>2. b = [w EXCEPT !.queue = q]
    BY <1>6 DEF w
  <2>3. /\ b \in Manager /\ b.milters = w.milters /\ b.queue = q /\ b.pst = w.pst
        /\ b.steps = w.steps /\ b.yes = w.yes /\ b.lazy = w.lazy
        /\ b.packets = w.packets /\ b.ctx = w.ctx
    BY <1>1, <2>1, <2>2 DEF Manager
  <2> QED BY <2>1, <2>3
<1>8. /\ m' \in Manager /\ m'.milters = m.milters /\ m'.queue = q
      /\ m'.pst \in {"negotiate", "abort"}
      /\ m'.steps = m.steps /\ m'.yes = m.yes /\ m'.lazy = m.lazy /\ m'.ctx = b.ctx
      /\ m'.packets = m.packets \/ (q = {} /\ m'.packets = Append(m.packets, "reject"))
  <2>1. CASE b.queue = {}
    BY <1>3, <1>7, <2>1, EmitSlotFrame
  <2>2. CASE b.queue # {}
    BY <1>3, <1>7, <2>2
  <2> QED BY <2>1, <2>2
<1>9. Placed(m'.ctx[c], c \in m'.queue)
  BY <1>5, <1>7, <1>8 DEF Placed, Out, q
<1>10. Moves(m', c)
  BY <1>7, <1>8, <1>9 DEF Moves, q
<1>11. Silent(m, m')
  BY <1>5, <1>7, <1>8 DEF Silent
<1>12. Speaks
  <2>1. m.packets = <<>> \/ "late" \in Faults
    BY DEF Inv, Answering
  <2> QED BY <1>8, <2>1 DEF Speaks
<1> QED BY <1>10, <1>11, <1>12, OneChildMoves

\* connect() fails late, or the agent does not start: the only try is given up
\* or takes place again when the child was started.
LEMMA ConnectFailedStep ==
    ASSUME ConfigAssumption, Inv, NEW c \in Child, ConnectFailed(c)
    PROVE  Inv' /\ Speaks
<1>1. c \in m.milters /\ m.pst \in {"negotiate", "abort"} /\ m.ctx[c].watches > 0
      /\ UNCHANGED <<wish, first>>
  BY DEF ConnectFailed, Running
<1>2. PICK a \in Watched(c), f \in Faults : m' = EmitError(a, c, f = "connect")
  BY DEF ConnectFailed
<1> DEFINE server == f = "connect"
           r == ErredEach(a, c, server)
<1>3. m' = CbError(r, c)
  BY <1>2 DEF EmitError, ForEachTry, ErredEach
<1>4. m \in Manager /\ m.ctx[c] \in Context /\ Placed(m.ctx[c], c \in m.queue)
  BY <1>1, ContextType
<1>5. PICK n \in Nat : /\ a = With(m, c, Fired(m.ctx[c], n))
                       /\ Fired(m.ctx[c], n) \in Context
                       /\ \/ c \in m.queue /\ Trying(Fired(m.ctx[c], n)) /\ n = 0
                          \/ c \notin m.queue /\ Out(Fired(m.ctx[c], n))
  BY <1>1, WatchedFrame
<1> DEFINE k == Fired(m.ctx[c], n)
<1>6. k \in Context /\ k.negotiated = m.ctx[c].negotiated /\ k.quitted = m.ctx[c].quitted
      /\ k.watches = n
  BY <1>4, <1>5 DEF Fired, Context
<1>7. a = With(m, c, k) /\ a \in Manager /\ a.ctx[c] = k
  BY <1>4, <1>5, <1>6, WithFrame
<1>8. (c \in m.queue /\ Trying(k) /\ n = 0) \/ (c \notin m.queue /\ Out(k))
  BY <1>5
<1> HIDE DEF k, r
<1>9. ASSUME r.ctx[c].hooks = 0 PROVE m' = r
  BY <1>3, <1>9 DEF CbError
<1>10. ASSUME c \notin m.queue, Out(k) PROVE Inv' /\ Speaks
  <2>1. Len(a.ctx[c].data) = 0 /\ k.hooks = 0
    BY <1>7, <1>10 DEF Out
  <2>2. r = a
    BY <2>1, ErrorEach DEF r
  <2>3. m' = With(m, c, k)
    BY <1>7, <1>9, <2>1, <2>2
  <2>4. Placed(k, c \in m.queue)
    BY <1>10 DEF Placed
  <2> QED BY <1>1, <1>6, <2>3, <2>4, ContextMoves DEF Speaks
<1>11. ASSUME c \in m.queue, Trying(k), n = 0 PROVE Inv' /\ Speaks
  <2>1. Len(a.ctx[c].data) = 1 /\ k.hooks = 0 /\ ~k.negotiated /\ ~k.quitted
    BY <1>7, <1>11 DEF Trying
  <2>2. r = ConnectionError(a, c, server)
    BY <2>1, ErrorEach DEF r
  <2>3. ~m.ctx[c].negotiated /\ ~m.ctx[c].quitted
    BY <1>6, <2>1
  <2>4. ASSUME r = Clear(a, c) PROVE Inv' /\ Speaks
    <3>1. Clear(With(m, c, k), c).ctx[c].hooks = 0
      BY <1>1, <1>6, <1>11, <2>3, ClearFrame
    <3>2. m' = Clear(With(m, c, k), c)
      BY <1>7, <1>9, <2>4, <3>1
    <3> QED BY <1>1, <1>6, <1>11, <2>3, <3>2, ClearMoves
  <2>5. ASSUME r = DropTry(AddTry(a, c, TRUE, TRUE), c) PROVE Inv' /\ Speaks
    <3>1. TRUE \in BOOLEAN
      OBVIOUS
    <3>2. PICK d \in Context :
             /\ DropTry(AddTry(a, c, TRUE, TRUE), c) = With(a, c, d)
             /\ d = [a.ctx[c] EXCEPT !.data = <<[retry |-> TRUE, timer |-> TRUE]>>]
             /\ Len(d.data) = 1 /\ d.data[1].timer = TRUE
      BY <1>7, <2>1, <3>1, TryAgain
    <3>3. /\ d.watches = k.watches /\ d.hooks = k.hooks /\ d.negotiated = k.negotiated
          /\ d.quitted = k.quitted /\ d.state = k.state /\ d.unflushed = k.unflushed
      BY <1>6, <1>7, <3>2 DEF Context
    <3>4. r = With(m, c, d)
      <4>1. With(With(m, c, k), c, d) = With(m, c, d)
        BY <1>4, <1>6, WithTwice
      <4> QED BY <1>7, <2>5, <3>2, <4>1
    <3>5. r.ctx[c] = d
      BY <1>4, <3>4, WithFrame
    <3>6. m' = With(m, c, d)
      BY <1>9, <2>1, <3>3, <3>4, <3>5
    <3>7. Placed(d, c \in m.queue)
      BY <1>6, <1>11, <3>2, <3>3 DEF Placed, Trying
    <3> QED BY <1>1, <1>6, <3>3, <3>6, <3>7, ContextMoves DEF Speaks
  <2> QED BY <2>2, <2>4, <2>5 DEF ConnectionError
<1> QED BY <1>8, <1>10, <1>11

\* NEGOTIATE is flushed.
LEMMA FlushStep ==
    ASSUME Inv, NEW c \in Child, Flush(c)
    PROVE  Inv' /\ Speaks
<1>1. c \in m.milters /\ m.pst \in {"negotiate", "abort"} /\ m.ctx[c].hooks > 0
      /\ m.ctx[c].unflushed /\ UNCHANGED <<wish, first>>
  BY DEF Flush, Live, Running
<1>2. m \in Manager /\ m.ctx[c] \in Context /\ Placed(m.ctx[c], c \in m.queue)
  BY <1>1, ContextType
<1>3. c \in m.queue /\ Talking(m.ctx[c])
  BY <1>1, <1>2 DEF Placed, Trying, Agreeing, Out
<1> DEFINE d == [m.ctx[c] EXCEPT !.unflushed = FALSE, !.state = "negotiate", !.timer = "reading"]
<1>4. /\ d \in Context /\ d.data = m.ctx[c].data /\ d.watches = m.ctx[c].watches
      /\ d.hooks = m.ctx[c].hooks /\ d.negotiated = m.ctx[c].negotiated
      /\ d.quitted = m.ctx[c].quitted /\ ~d.unflushed
  BY <1>2 DEF Context
<1>5. m' = With(m, c, d)
  <2> DEFINE k == [m.ctx[c] EXCEPT !.unflushed = FALSE]
             a == With(m, c, k)
  <2>1. k \in Context
    BY <1>2 DEF Context
  <2>2. [m EXCEPT !.ctx[c].unflushed = FALSE] = a
    BY DEF With
  <2>3. m' = [a EXCEPT !.ctx[c].state = "negotiate", !.ctx[c].timer = "reading"]
    BY <1>2, <2>2 DEF Flush
  <2> HIDE DEF k
  <2>4. a \in Manager /\ a.ctx[c] = k
    BY <1>2, <2>1, WithFrame
  <2> HIDE DEF a
  <2>5. m' = With(a, c, [k EXCEPT !.state = "negotiate", !.timer = "reading"])
    BY <2>1, <2>3, <2>4 DEF With, Manager, Context
  <2>6. [k EXCEPT !.state = "negotiate", !.timer = "reading"] = d
    BY <1>2 DEF k, Context
  <2> HIDE DEF d
  <2> QED BY <1>2, <1>4, <2>1, <2>5, <2>6, WithTwice DEF a
<1> HIDE DEF d
<1>6. Placed(d, c \in m.queue)
  BY <1>3, <1>4 DEF Placed, Talking
<1> QED BY <1>1, <1>4, <1>5, <1>6, ContextMoves DEF Speaks

\* A timeout, an I/O error or a protocol error of a connected child
LEMMA ChildFailsStep ==
    ASSUME ConfigAssumption, Inv, NEW c \in Child, ChildFails(c)
    PROVE  Inv' /\ Speaks
<1>1. c \in m.milters /\ m.pst \in {"negotiate", "abort"} /\ m.ctx[c].hooks > 0
      /\ m' = CbError(m, c) /\ UNCHANGED <<wish, first>>
  BY DEF ChildFails, Live, Running
<1>2. m \in Manager /\ m.ctx[c] \in Context /\ Placed(m.ctx[c], c \in m.queue)
  BY <1>1, ContextType
<1>3. m.ctx[c].data = <<>> /\ m.ctx[c].hooks # 0
  BY <1>1, <1>2 DEF Placed, Trying, Talking, Agreeing, Out
<1>4. m.queue # {} \/ "late" \in Faults
  <2>1. m.ctx[c].timer \in {"writing", "reading"} => c \in m.queue
    BY <1>1, <1>2 DEF Placed, Agreeing, Out
  <2> QED BY <2>1 DEF ChildFails, InTime
<1>5. m' = CbError(With(m, c, m.ctx[c]), c)
  BY <1>1, <1>2, WithSame
<1> QED BY <1>1, <1>2, <1>3, <1>4, <1>5, CbErrorMoves

\* The child closes its connection.
LEMMA ChildFinishedStep ==
    ASSUME ConfigAssumption, Inv, NEW c \in Child, ChildFinished(c)
    PROVE  Inv' /\ Speaks
<1> DEFINE a == IF m.ctx[c].timer = "none" THEN m ELSE FallBack(m, c)
           e == Expired(m.ctx[c])
           b == With(a, c, e)
<1>1. c \in m.milters /\ m.pst \in {"negotiate", "abort"} /\ m.ctx[c].hooks > 0
      /\ UNCHANGED <<wish, first>> /\ (m.queue # {} \/ "late" \in Faults)
  BY DEF ChildFinished, Live, Running, InTime
<1>2. m \in Manager /\ m.ctx[c] \in Context /\ Placed(m.ctx[c], c \in m.queue)
  BY <1>1, ContextType
<1>3. m.ctx[c].data = <<>>
  BY <1>1, <1>2 DEF Placed, Trying, Talking, Agreeing, Out
<1>4. /\ a \in Manager /\ a.milters = m.milters /\ a.queue = m.queue /\ a.pst = m.pst
      /\ a.steps = m.steps /\ a.yes = m.yes /\ a.lazy = m.lazy
      /\ a.packets = m.packets /\ a.ctx = m.ctx
  BY <1>2, FallBackFrame
<1>5. LET x == [a EXCEPT !.ctx[c] = Expired(@)]
      IN  m' = IF m.pst = "negotiate" THEN RemoveQueue(x, c) ELSE [x EXCEPT !.queue = @ \ {c}]
  BY DEF ChildFinished
<1> HIDE DEF a
<1>6. m' = IF m.pst = "negotiate" THEN RemoveQueue(b, c) ELSE [b EXCEPT !.queue = @ \ {c}]
  <2>1. [a EXCEPT !.ctx[c] = Expired(@)] = With(a, c, Expired(a.ctx[c]))
    BY <1>4, DropTryWith
  <2>2. Expired(a.ctx[c]) = e
    BY <1>4
  <2> HIDE DEF e
  <2> QED BY <1>5, <2>1, <2>2
<1>7. /\ e \in Context /\ e.quitted /\ e.hooks = 0 /\ e.data = <<>>
      /\ e.negotiated = m.ctx[c].negotiated
  BY <1>2, <1>3, ExpiredFrame
<1> HIDE DEF e
<1>8. /\ b \in Manager /\ b.milters = m.milters /\ b.queue = m.queue /\ b.pst = m.pst
      /\ b.steps = m.steps /\ b.yes = m.yes /\ b.lazy = m.lazy
      /\ b.packets = m.packets /\ b.ctx[c] = e
      /\ \A d \in Child : d # c => b.ctx[d] = m.ctx[d]
  BY <1>4, <1>7, WithFrame
<1> HIDE DEF b
<1>9. Prepared(b, c) /\ Silent(m, b)
  BY <1>7, <1>8 DEF Prepared, Silent
<1>10. Merged(b, wish) /\ Harsh(b)
  BY <1>2, <1>8, <1>9, SilentKeeps DEF Inv
<1>11. CASE m.pst = "negotiate"
  <2> DEFINE r == RemoveQueue(b, c)
             k == r.ctx[c]
  <2>1. r \in Manager /\ (k = e \/ k = Expired(e))
    BY <1>1, <1>8, <1>9, RemoveQueueMoves
  <2>2. Expired(e) \in Context /\ Expired(e).quitted /\ Expired(e).hooks = 0
        /\ Expired(e).data = <<>> /\ Expired(e).negotiated = e.negotiated
    BY <1>7, ExpiredFrame
  <2>3. m' = With(r, c, k)
    BY <1>6, <1>11, <2>1, WithSame
  <2> HIDE DEF r
  <2>4. k \in Context /\ Placed(k, FALSE) /\ k.negotiated = b.ctx[c].negotiated /\ k.quitted
    BY <1>7, <1>8, <2>1, <2>2 DEF Placed, Out
  <2> HIDE DEF k
  <2>5. wish' \in [Child -> SUBSET Step] /\ wish' = wish
    BY <1>1 DEF Inv, TypeOK
  <2> QED BY <1>1, <1>9, <1>10, <2>3, <2>4, <2>5, Leaves DEF r
<1>12. CASE m.pst # "negotiate"
  <2> DEFINE q == m.queue \ {c}
  <2>1. q \subseteq Child
    BY <1>2 DEF Manager
  <2>2. m' = [b EXCEPT !.queue = q]
    BY <1>6, <1>8, <1>12
  <2> HIDE DEF q
  <2>3. /\ m' \in Manager /\ m'.milters = m.milters /\ m'.queue = q /\ m'.pst = m.pst
        /\ m'.steps = m.steps /\ m'.yes = m.yes /\ m'.lazy = m.lazy
        /\ m'.packets = m.packets /\ m'.ctx = b.ctx
    BY <1>8, <2>1, <2>2 DEF Manager
  <2>4. Placed(m'.ctx[c], c \in m'.queue)
    BY <1>7, <1>8, <2>3 DEF Placed, Out, q
  <2>5. Moves(m', c)
    BY <1>1, <1>8, <2>3, <2>4 DEF Moves, q
  <2>6. Silent(m, m')
    BY <1>9, <2>3 DEF Silent
  <2> QED BY <1>1, <2>3, <2>5, <2>6, OneChildMoves DEF Speaks
<1> QED BY <1>11, <1>12

\* The options of a child are merged with those before.
LEMMA AgreedMerged ==
    ASSUME TypeOK, NEW c \in m.milters, ~m.ctx[c].negotiated, Merged(m, wish), m.packets = <<>>,
           NEW w \in SUBSET Step, NEW a, a.milters = m.milters, a.packets = m.packets,
           a.steps = Merge(m.steps, w), a.yes = m.yes \cup (w \cap YesStep),
           \A d \in Child : d # c => a.ctx[d] = m.ctx[d], a.ctx[c].negotiated,
           wish' = [wish EXCEPT ![c] = w]
    PROVE  Merged(a, wish') /\ Harsh(a)
<1>1. m.milters \subseteq Child /\ c \in Child /\ wish \in [Child -> SUBSET Step]
  BY DEF TypeOK, Manager
<1>2. Answered(a) = Answered(m) \cup {c} /\ c \notin Answered(m) /\ Answered(m) \subseteq Child
  BY <1>1 DEF Answered
<1>3. wish'[c] = w /\ \A d \in Child : d # c => wish'[d] = wish[d]
  BY <1>1
<1>4. \A d \in Answered(a) : a.steps \cap NoReplyStep \subseteq wish'[d]
  <2>1. a.steps \cap NoReplyStep \subseteq m.steps \cap NoReplyStep
        /\ a.steps \cap NoReplyStep \subseteq w
    BY DEF Merge, NoReplyStep, YesStep
  <2> QED BY <1>2, <1>3, <2>1 DEF Merged
<1>5. a.yes = (UNION {wish'[d] : d \in Answered(a)}) \cap YesStep
  <2>1. \A s : s \in UNION {wish'[d] : d \in Answered(a)}
               <=> s \in w \/ s \in UNION {wish[d] : d \in Answered(m)}
    BY <1>2, <1>3
  <2>2. m.yes = (UNION {wish[d] : d \in Answered(m)}) \cap YesStep
    BY DEF Merged
  <2> QED BY <2>1, <2>2
<1>6. a.steps \cap YesStep = (Offered \cup a.yes) \cap YesStep
  <2>1. m.steps \cap YesStep = (Offered \cup m.yes) \cap YesStep
    BY DEF Merged
  <2>2. a.steps \cap YesStep = (m.steps \cup w) \cap YesStep
    BY DEF Merge, NoEventStep, NoReplyStep, YesStep
  <2> QED BY <2>1, <2>2
<1>7. ~ToldOf(a)
  BY DEF ToldOf
<1> QED BY <1>4, <1>5, <1>6, <1>7 DEF Merged, Harsh

\* A child answers: it agrees, or its version is too new.
LEMMA NegotiateReplyStep ==
    ASSUME ConfigAssumption, Inv, NEW c \in Child, NegotiateReply(c)
    PROVE  Inv' /\ Speaks
<1> DEFINE k == [m.ctx[c] EXCEPT !.timer = "none"]
           a == With(m, c, k)
           j == [k EXCEPT !.negotiated = TRUE]
           b == With(m, c, j)
<1>1. c \in m.milters /\ m.pst \in {"negotiate", "abort"} /\ m.ctx[c].hooks > 0
      /\ m.ctx[c].state = "negotiate" /\ m.ctx[c].timer = "reading" /\ UNCHANGED first
  BY DEF NegotiateReply, Live, Running
<1>2. m \in Manager /\ m.ctx[c] \in Context /\ Placed(m.ctx[c], c \in m.queue)
  BY <1>1, ContextType
<1>3. c \in m.queue /\ Talking(m.ctx[c])
  BY <1>1, <1>2 DEF Placed, Trying, Agreeing, Out
<1>4. m.packets = <<>>
  BY <1>3 DEF Inv, Answering
<1>5. /\ k \in Context /\ k.data = <<>> /\ k.watches = 0 /\ k.hooks = 1 /\ ~k.negotiated
      /\ ~k.quitted /\ ~k.unflushed /\ k.timer = "none" /\ k.negotiated = m.ctx[c].negotiated
      /\ k.state = m.ctx[c].state
  <2>1. /\ k \in Context /\ k.data = m.ctx[c].data /\ k.watches = m.ctx[c].watches
        /\ k.hooks = m.ctx[c].hooks /\ k.negotiated = m.ctx[c].negotiated
        /\ k.quitted = m.ctx[c].quitted /\ k.unflushed = m.ctx[c].unflushed
        /\ k.timer = "none" /\ k.state = m.ctx[c].state
    BY <1>2 DEF Context
  <2> HIDE DEF k
  <2> QED BY <1>1, <1>3, <2>1 DEF Talking
<1>6. [m EXCEPT !.ctx[c].timer = "none"] = a
  BY DEF With
<1> HIDE DEF k
<1>7. a \in Manager /\ a.ctx[c] = k
  BY <1>2, <1>5, WithFrame
<1>8. /\ j \in Context /\ j.negotiated /\ j.hooks = 1 /\ ~j.quitted /\ j.data = <<>>
      /\ ~j.unflushed /\ j.timer = "none" /\ j.watches = 0
  <2>1. TRUE \in BOOLEAN
    OBVIOUS
  <2> QED BY <1>5, <2>1 DEF Context
<1>9. [a EXCEPT !.ctx[c].negotiated = TRUE] = b
  <2> HIDE DEF a
  <2>1. [a EXCEPT !.ctx[c].negotiated = TRUE] = With(a, c, j)
    BY <1>7 DEF With
  <2> HIDE DEF j
  <2> QED BY <1>2, <1>5, <1>8, <2>1, WithTwice DEF a
<1> HIDE DEF j
<1>10. /\ b \in Manager /\ b.milters = m.milters /\ b.queue = m.queue /\ b.pst = m.pst
       /\ b.steps = m.steps /\ b.yes = m.yes /\ b.lazy = m.lazy
       /\ b.packets = m.packets /\ b.ctx[c] = j
       /\ \A d \in Child : d # c => b.ctx[d] = m.ctx[d]
  BY <1>2, <1>8, WithFrame
<1>11. PICK w \in Wishes :
          \/ /\ m' = IF b.ctx[c].hooks > 1 /\ Agreed(b, c, w).ctx[c].hooks > 0
                     THEN Agreed(Agreed(b, c, w), c, w) ELSE Agreed(b, c, w)
             /\ wish' = [wish EXCEPT ![c] = w]
          \/ m' = EmitError(a, c, TRUE) /\ UNCHANGED wish
  <2> HIDE DEF a, b
  <2> QED BY <1>6, <1>9 DEF NegotiateReply
<1>12. ASSUME m' = EmitError(a, c, TRUE), UNCHANGED wish PROVE Inv' /\ Speaks
  <2>1. m' = CbError(ErredEach(a, c, TRUE), c)
    BY <1>12 DEF EmitError, ForEachTry, ErredEach
  <2>2. Len(a.ctx[c].data) = 0
    BY <1>5, <1>7
  <2>3. ErredEach(a, c, TRUE) = a
    BY <2>2, ErrorEach
  <2>4. m' = CbError(With(m, c, k), c)
    BY <2>1, <2>3
  <2>5. k.hooks # 0 /\ m.queue # {}
    BY <1>3, <1>5
  <2>6. UNCHANGED wish /\ UNCHANGED first
    BY <1>1, <1>12
  <2> HIDE DEF a, b
  <2> QED BY <1>1, <1>5, <2>4, <2>5, <2>6, CbErrorMoves
<1>13. ASSUME m' = Agreed(b, c, w), wish' = [wish EXCEPT ![c] = w] PROVE Inv' /\ Speaks
  <2> DEFINE s == Merge(m.steps, w)
             y == m.yes \cup (w \cap YesStep)
             x == [b EXCEPT !.steps = s, !.yes = y]
             r == RemoveQueue(x, c)
             e == r.ctx[c]
  <2>1. w \subseteq Step /\ wish \in [Child -> SUBSET Step] /\ TypeOK /\ Merged(m, wish)
    BY ConfigAssumption DEF ConfigAssumption, Inv, TypeOK
  <2>2. s \subseteq Step /\ y \subseteq Step
    BY <1>2, <2>1 DEF Merge, Manager, Step, YesStep
  <2>3. m' = r
    BY <1>10, <1>13 DEF Agreed
  <2> HIDE DEF s, y
  <2> HIDE DEF b
  <2>4. /\ x \in Manager /\ x.milters = b.milters /\ x.queue = b.queue /\ x.pst = b.pst
        /\ x.steps = s /\ x.yes = y /\ x.lazy = b.lazy /\ x.packets = b.packets
        /\ x.ctx = b.ctx
    BY <1>10, <2>2 DEF Manager
  <2> HIDE DEF x
  <2>5. Prepared(x, c) /\ x.ctx[c] = j
    BY <1>10, <2>4 DEF Prepared
  <2>6. Merged(x, wish') /\ Harsh(x)
    <3>1. x.milters = m.milters /\ x.packets = m.packets /\ x.ctx[c].negotiated
          /\ \A d \in Child : d # c => x.ctx[d] = m.ctx[d]
      BY <1>8, <1>10, <2>4
    <3>2. x.steps = Merge(m.steps, w) /\ x.yes = m.yes \cup (w \cap YesStep)
      BY <2>4 DEF s, y
    <3>3. ~m.ctx[c].negotiated
      BY <1>5
    <3> QED BY <1>1, <1>4, <1>13, <2>1, <3>1, <3>2, <3>3, AgreedMerged
  <2>7. r \in Manager /\ (e = j \/ e = Expired(j))
    BY <1>1, <2>5, RemoveQueueMoves
  <2>8. Expired(j) \in Context /\ Expired(j).quitted /\ Expired(j).hooks = 0
        /\ Expired(j).data = <<>> /\ Expired(j).negotiated = j.negotiated
    BY <1>8, ExpiredFrame
  <2>9. m' = With(r, c, e)
    BY <2>3, <2>7, WithSame
  <2> HIDE DEF r
  <2>10. e \in Context /\ Placed(e, FALSE) /\ e.negotiated = x.ctx[c].negotiated
    BY <1>8, <2>5, <2>7, <2>8 DEF Placed, Out, Agreeing
  <2>11. wish' \in [Child -> SUBSET Step]
    BY <1>13, <2>1
  <2> QED BY <1>1, <1>3, <2>5, <2>6, <2>9, <2>10, <2>11, Leaves DEF r
<1>14. ~(b.ctx[c].hooks > 1)
  BY <1>8, <1>10
<1> QED BY <1>11, <1>12, <1>13, <1>14

-----------------------------------------------------------------------------
(* The MTA's commands *)

\* A child's first connection, or the try that waits for it
LEMMA BegunTries ==
    ASSUME ConfigAssumption, OneTry, Inv, m.pst = "start", NEW c \in m.milters,
           NEW failed \in SUBSET (m.milters \cap Immediate)
    PROVE  LET k == Begun(c, failed)
           IN k \in Context /\ Trying(k) /\ k.negotiated = m.ctx[c].negotiated
              /\ k.quitted = m.ctx[c].quitted
<1> DEFINE one == [retry |-> FALSE, timer |-> FALSE]
           late == [retry |-> TRUE, timer |-> TRUE]
           k == Begun(c, failed)
<1>1. c \in Child /\ m \in Manager /\ m.ctx[c] \in Context /\ Fresh(m.ctx[c])
  BY ContextType DEF Inv, Sorted
<1>2. one \in Data /\ late \in Data /\ late.timer /\ ~one.timer
  <2>1. TRUE \in BOOLEAN /\ FALSE \in BOOLEAN
    OBVIOUS
  <2> QED BY <2>1 DEF Data
<1>3. ASSUME NEW d \in Data
      PROVE  <<d>> \in Seq(Data) /\ Len(<<d>>) = 1 /\ <<d>>[1] = d /\ <<d>> \o <<>> = <<d>>
  <2>1. <<d>> \in Seq(Data) /\ Len(<<d>>) = 1 /\ <<d>>[1] = d
    OBVIOUS
  <2> QED BY <2>1, ConcatEmptySeq
<1>4. CASE c \notin failed
  <2> DEFINE s == <<one>>
  <2>1. k = [m.ctx[c] EXCEPT !.watches = 1, !.timer = "connection", !.data = s]
    BY <1>4 DEF Begun
  <2>2. s \in Seq(Data) /\ Len(s) = 1 /\ ~s[1].timer
    BY <1>2, <1>3
  <2> HIDE DEF s, k
  <2>3. /\ k \in Context /\ k.data = s /\ k.watches = 1 /\ k.hooks = m.ctx[c].hooks
        /\ k.negotiated = m.ctx[c].negotiated /\ k.quitted = m.ctx[c].quitted
        /\ k.state = m.ctx[c].state /\ k.unflushed = m.ctx[c].unflushed
    BY <1>1, <2>1, <2>2 DEF Context
  <2> QED BY <1>1, <2>2, <2>3 DEF Trying, Fresh, k
<1>5. CASE c \in failed
  <2> DEFINE s == <<late>>
  <2>1. ~CanStart(c)
    BY <1>5 DEF OneTry, CanStart
  <2>2. k = [m.ctx[c] EXCEPT !.data = s \o <<>>]
    BY <1>5, <2>1 DEF Begun
  <2>3. s \in Seq(Data) /\ Len(s) = 1 /\ s \o <<>> = s
    BY <1>2, <1>3
  <2> HIDE DEF s, k
  <2>4. /\ k \in Context /\ k.data = s /\ k.watches = m.ctx[c].watches
        /\ k.hooks = m.ctx[c].hooks
        /\ k.negotiated = m.ctx[c].negotiated /\ k.quitted = m.ctx[c].quitted
        /\ k.state = m.ctx[c].state /\ k.unflushed = m.ctx[c].unflushed
    BY <1>1, <2>2, <2>3 DEF Context
  <2> QED BY <1>1, <2>3, <2>4 DEF Trying, Fresh, k
<1> QED BY <1>4, <1>5

\* The invariant from its parts, when the manager is silent
LEMMA SilentStep ==
    ASSUME Inv, m' \in Manager, Silent(m, m'), m'.packets = m.packets, Sorted(m'),
           Answering(m'), UNCHANGED wish, UNCHANGED first
    PROVE  Inv' /\ Speaks
<1>1. m \in Manager /\ TypeOK'
  BY DEF Inv, TypeOK
<1>2. Merged(m', wish) /\ Harsh(m')
  BY <1>1, SilentKeeps DEF Inv
<1> QED BY <1>1, <1>2 DEF Inv, Speaks

\* The MTA's NEGOTIATE
LEMMA NegotiateStep ==
    ASSUME ConfigAssumption, OneTry, Inv, Negotiate
    PROVE  Inv' /\ Speaks
<1>1. m \in Manager /\ m.pst = "start" /\ UNCHANGED <<wish, first>>
      /\ m.packets = <<>> /\ m.milters \subseteq Child /\ m.ctx \in [Child -> Context]
      /\ m.queue = {} /\ ~m.lazy
  BY DEF Negotiate, Inv, TypeOK, Answering, Manager
<1>2. PICK failed \in SUBSET (m.milters \cap Immediate) :
        m' = IF m.milters = {} THEN [m EXCEPT !.lazy = TRUE]
             ELSE [m EXCEPT !.pst = "negotiate", !.queue = m.milters,
                            !.ctx = [c \in Child |-> IF c \in m.milters
                                        THEN Begun(c, failed) ELSE @[c]]]
  BY DEF Negotiate
<1>3. CASE m.milters = {}
  <2>1. m' = [m EXCEPT !.lazy = TRUE]
    BY <1>2, <1>3
  <2>2. TRUE \in BOOLEAN
    OBVIOUS
  <2>3. /\ m' \in Manager /\ m'.milters = m.milters /\ m'.queue = m.queue /\ m'.pst = m.pst
        /\ m'.steps = m.steps /\ m'.yes = m.yes /\ m'.packets = m.packets /\ m'.ctx = m.ctx
    BY <1>1, <2>1, <2>2 DEF Manager
  <2>4. Silent(m, m') /\ Sorted(m') /\ Answering(m')
    BY <1>1, <1>3, <2>3 DEF Silent, Sorted, Answering, Inv
  <2> QED BY <1>1, <2>3, <2>4, SilentStep
<1>4. CASE m.milters # {}
  <2> DEFINE f == [c \in Child |-> IF c \in m.milters THEN Begun(c, failed) ELSE m.ctx[c]]
             q == m.milters
  <2>1. \A c \in m.milters : /\ f[c] = Begun(c, failed) /\ f[c] \in Context /\ Trying(f[c])
                             /\ f[c].negotiated = m.ctx[c].negotiated
                             /\ f[c].quitted = m.ctx[c].quitted
    <3> SUFFICES ASSUME NEW c \in m.milters
                 PROVE  /\ f[c] = Begun(c, failed) /\ f[c] \in Context /\ Trying(f[c])
                        /\ f[c].negotiated = m.ctx[c].negotiated
                        /\ f[c].quitted = m.ctx[c].quitted
      OBVIOUS
    <3>1. f[c] = Begun(c, failed)
      BY <1>1
    <3> HIDE DEF f
    <3> QED BY <1>1, <3>1, BegunTries
  <2>2. \A c \in Child : c \notin m.milters => f[c] = m.ctx[c]
    OBVIOUS
  <2>3. f \in [Child -> Context]
    <3>1. \A c \in Child : f[c] \in Context
      BY <1>1, <2>1, <2>2
    <3> QED BY <3>1
  <2>4. m' = [m EXCEPT !.pst = "negotiate", !.queue = q, !.ctx = f]
    BY <1>1, <1>2, <1>4 DEF Manager
  <2> HIDE DEF f
  <2>5. /\ m' \in Manager /\ m'.milters = m.milters /\ m'.queue = m.milters
        /\ m'.pst = "negotiate" /\ m'.lazy = m.lazy
        /\ m'.steps = m.steps /\ m'.yes = m.yes /\ m'.packets = m.packets /\ m'.ctx = f
    BY <1>1, <2>3, <2>4 DEF Manager
  <2>6. Silent(m, m')
    BY <2>1, <2>2, <2>5 DEF Silent
  <2>7. Sorted(m') /\ Answering(m')
    BY <1>1, <2>1, <2>5 DEF Sorted, Placed, Answering
  <2> QED BY <1>1, <2>5, <2>6, <2>7, SilentStep
<1> QED BY <1>3, <1>4

\* Without a child the idle callback answers.
LEMMA IdleReplyStep ==
    ASSUME ConfigAssumption, Inv, IdleReply
    PROVE  Inv' /\ Speaks
<1> DEFINE a == [m EXCEPT !.lazy = FALSE, !.pst = "negotiate"]
<1>1. /\ m \in Manager /\ m.pst = "start" /\ m.milters = {} /\ m.queue = {} /\ m.packets = <<>>
      /\ UNCHANGED <<wish, first>> /\ m' = ReplyNegotiate(a) /\ Merged(m, wish) /\ Harsh(m)
  BY DEF IdleReply, Inv, TypeOK, Answering
<1>2. /\ a \in Manager /\ a.milters = m.milters /\ a.queue = m.queue /\ ~a.lazy
      /\ a.pst = "negotiate" /\ a.steps = m.steps /\ a.yes = m.yes /\ a.packets = m.packets
      /\ a.ctx = m.ctx
  <2>1. FALSE \in BOOLEAN
    OBVIOUS
  <2> QED BY <1>1, <2>1 DEF Manager
<1> HIDE DEF a
<1>3. Reported(a, m')
  BY <1>1, <1>2, ReplyNegotiateFrame
<1>4. Silent(m, a)
  BY <1>2 DEF Silent
<1>5. Merged(a, wish)
  BY <1>1, <1>2, <1>4, SilentKeeps
<1>6. Merged(m', wish) /\ Harsh(m')
  BY <1>2, <1>3, <1>5, ReportedKeeps
<1>7. /\ m' \in Manager /\ m'.milters = {} /\ m'.queue = {} /\ m'.pst = "negotiate"
      /\ ~m'.lazy /\ m'.packets = Append(m.packets, "options")
  BY <1>1, <1>2, <1>3 DEF Reported
<1>8. TypeOK' /\ Sorted(m') /\ Answering(m')
  BY <1>1, <1>7 DEF TypeOK, Sorted, Answering, Inv
<1> QED BY <1>1, <1>6, <1>7, <1>8 DEF Inv, Speaks

\* The MTA's CONNECT
LEMMA MtaConnectStep ==
    ASSUME ConfigAssumption, Inv, MtaConnect
    PROVE  Inv' /\ Speaks
<1>1. /\ m \in Manager /\ m.pst \in {"negotiate", "abort"} /\ ~m.lazy
      /\ UNCHANGED wish /\ m' = [m EXCEPT !.pst = "connect"]
  BY DEF MtaConnect, Inv, TypeOK, Answering
<1>2. /\ m' \in Manager /\ m'.milters = m.milters /\ m'.queue = m.queue /\ m'.pst = "connect"
      /\ m'.steps = m.steps /\ m'.yes = m.yes /\ m'.packets = m.packets /\ m'.ctx = m.ctx
      /\ m'.lazy = m.lazy
  BY <1>1 DEF Manager
<1>3. first' \in {"none", "progress", "accept"} \cup Refusal
  BY ConfigAssumption DEF ConfigAssumption, MtaConnect
<1>4. TypeOK'
  BY <1>1, <1>2, <1>3 DEF TypeOK, Inv
<1>5. Silent(m, m') /\ Sorted(m') /\ Answering(m')
  BY <1>1, <1>2 DEF Silent, Sorted, Answering, Inv
<1>6. Merged(m', wish) /\ Harsh(m')
  BY <1>1, <1>2, <1>5, SilentKeeps DEF Inv
<1> QED BY <1>1, <1>2, <1>4, <1>5, <1>6 DEF Inv, Speaks

-----------------------------------------------------------------------------
(* The theorems *)

\* A session begins with contexts that nothing happened to.
LEMMA InvInit ==
    ASSUME ConfigAssumption, Init
    PROVE  Inv
<1> DEFINE k == [watches |-> 0, timer |-> "none", state |-> "start",
                 unflushed |-> FALSE, negotiated |-> FALSE, quitted |-> FALSE,
                 hooks |-> 0, data |-> <<>>]
           f == [c \in Child |-> k]
<1>1. PICK M \in SUBSET Child :
        m = [milters |-> M, queue |-> {}, pst |-> "start", slot |-> "not-change",
             steps |-> Offered, yes |-> {}, allExpired |-> FALSE, lazy |-> FALSE,
             replied |-> FALSE, packets |-> <<>>, ctx |-> f]
  BY DEF Init
<1>2. k \in Context /\ Fresh(k)
  <2>1. FALSE \in BOOLEAN /\ <<>> \in Seq(Data)
    OBVIOUS
  <2> QED BY <2>1 DEF Context, Fresh
<1> HIDE DEF k
<1>3. f \in [Child -> Context] /\ \A c \in Child : f[c] = k
  BY <1>2
<1> HIDE DEF f
<1>4. m \in Manager
  <2>1. FALSE \in BOOLEAN /\ <<>> \in Seq({"options", "reject"}) /\ "not-change" \in Status
    BY DEF Status
  <2>2. Offered \subseteq Step /\ {} \subseteq Step /\ {} \subseteq Child
    BY ConfigAssumption DEF ConfigAssumption
  <2> QED BY <1>1, <1>3, <2>1, <2>2 DEF Manager
<1>5. /\ m.milters = M /\ m.queue = {} /\ m.pst = "start" /\ m.steps = Offered /\ m.yes = {}
      /\ ~m.lazy /\ m.packets = <<>> /\ m.ctx = f
  BY <1>1
<1>6. TypeOK
  BY <1>4 DEF Init, TypeOK
<1>7. Sorted(m) /\ Answering(m)
  BY <1>2, <1>3, <1>5 DEF Sorted, Answering
<1>8. Answered(m) = {}
  BY <1>2, <1>3, <1>5 DEF Answered, Fresh
<1>9. Merged(m, wish)
  BY <1>5, <1>8 DEF Merged, ToldOf
<1>10. Harsh(m)
  BY <1>5 DEF Harsh, ToldOf
<1> QED BY <1>6, <1>7, <1>9, <1>10 DEF Inv

\* Every step keeps the invariant and tells the MTA at most one packet.
LEMMA InvStep ==
    ASSUME ConfigAssumption, OneTry, Inv, [Next]_vars
    PROVE  Inv' /\ Speaks
<1>1. CASE Negotiate
  BY <1>1, NegotiateStep
<1>2. CASE IdleReply
  BY <1>2, IdleReplyStep
<1>3. CASE MtaConnect
  BY <1>3, MtaConnectStep
<1>4. CASE \E c \in Child : \E i \in DOMAIN m.ctx[c].data : Retry(c, i)
  BY <1>4, RetryStep
<1>5. CASE \E c \in Child : Connects(c)
  BY <1>5, ConnectedStep, ConnectFailedStep, ConnectionTimeoutStep DEF Connects
<1>6. CASE \E c \in Child : Flush(c)
  BY <1>6, FlushStep
<1>7. CASE \E c \in Child : Answers(c)
  BY <1>7, NegotiateReplyStep, ChildFailsStep, ChildFinishedStep DEF Answers
<1>8. CASE UNCHANGED vars
  BY <1>8 DEF vars, Inv, TypeOK, Speaks
<1> QED BY <1>1, <1>2, <1>3, <1>4, <1>5, <1>6, <1>7, <1>8 DEF Next

\* A negotiation stays in order: the types, which child is connecting, asked,
\* agreed or out, and what of the options is merged.
THEOREM NegotiationInOrder == ASSUME OneTry PROVE Spec => []Inv
<1>1. Init => Inv
  BY ConfigAssumption, InvInit
<1>2. Inv /\ [Next]_vars => Inv'
  BY ConfigAssumption, InvStep
<1> QED BY <1>1, <1>2, PTL DEF Spec

\* When the MTA may send CONNECT, no try and no handler of a lost child is left,
\* and a living child is idle with its handlers connected once (HandOver): the
\* envelope phase begins in the state it expects, for any children and faults.
THEOREM HandsOver == ASSUME OneTry PROVE Spec => []HandOver
<1>1. Inv => HandOver
  <2> SUFFICES ASSUME Inv, Told, NEW c \in m.milters
               PROVE  /\ m.ctx[c].data = <<>>
                      /\ IF IsQuitted(m.ctx[c]) THEN m.ctx[c].hooks = 0
                         ELSE m.ctx[c].hooks = 1 /\ m.ctx[c].timer = "none"
    BY DEF HandOver
  <2>1. m.queue = {} /\ m.pst # "start"
    BY DEF Inv, Answering, Told
  <2>2. Agreeing(m.ctx[c]) \/ Out(m.ctx[c])
    BY <2>1, ContextType DEF Placed
  <2> QED BY <2>2 DEF Agreeing, Out, IsQuitted
<1> QED BY <1>1, NegotiationInOrder, PTL

\* The steps the MTA is told are the ones its children agreed on, in whatever
\* order they answered, and whoever failed meanwhile (OptionsAgreed).
THEOREM OptionsAreAgreed == ASSUME OneTry PROVE Spec => []OptionsAgreed
<1>1. Inv => OptionsAgreed
  <2> SUFFICES ASSUME Inv, Told PROVE OptionsAgreed
    BY DEF OptionsAgreed
  <2>1. m.milters \ Lost(m) = Answered(m)
    BY DEF Lost, Answered
  <2>2. ToldOf(m) /\ Merged(m, wish)
    BY DEF Told, ToldOf, Inv
  <2>3. m.steps \cap NoEventStep = {}
    BY <2>2 DEF Merged
  <2>4. \A s \in m.steps \cap NoReplyStep : \A c \in m.milters \ Lost(m) : s \in wish[c]
    BY <2>1, <2>2 DEF Merged
  <2>5. m.steps \cap YesStep =
            (UNION {wish[c] : c \in m.milters \ Lost(m)}) \cap Offered \cap YesStep
    <3> DEFINE U == UNION {wish[c] : c \in Answered(m)}
    <3>1. m.steps \cap YesStep = Offered \cap m.yes /\ m.yes = U \cap YesStep
      BY <2>2 DEF Merged
    <3>2. (UNION {wish[c] : c \in m.milters \ Lost(m)}) = U
      BY <2>1
    <3> HIDE DEF U
    <3>3. m.steps \cap YesStep = U \cap Offered \cap YesStep
      BY <3>1
    <3> QED BY <3>2, <3>3
  <2> QED BY <2>3, <2>4, <2>5 DEF OptionsAgreed
<1> QED BY <1>1, NegotiationInOrder, PTL

\* When a child whose fallback is a refusal is lost, nobody is left to let the
\* session's mails through (NobodyLetsThrough).
THEOREM RefusalHolds == ASSUME OneTry PROVE Spec => []NobodyLetsThrough
<1>1. Inv => NobodyLetsThrough
  BY DEF Inv, Harsh, NobodyLetsThrough, Told, ToldOf, Lost
<1> QED BY <1>1, NegotiationInOrder, PTL

\* The MTA gets one answer to its negotiation, however answers, failures and
\* retries interleave (OneNegotiation), if no child fails once all have answered.
THEOREM AnsweredOnce ==
    ASSUME OneTry, "late" \notin Faults PROVE Spec => []OneNegotiation
<1>1. Init => OneNegotiation
  BY DEF Init, OneNegotiation
<1>2. Inv /\ OneNegotiation /\ [Next]_vars => OneNegotiation'
  <2> SUFFICES ASSUME Inv, OneNegotiation, [Next]_vars PROVE OneNegotiation'
    OBVIOUS
  <2>1. Speaks /\ m.packets \in Seq({"options", "reject"})
    BY ConfigAssumption, InvStep DEF Inv, TypeOK, Manager
  <2>2. CASE m'.packets = m.packets
    BY <2>2 DEF OneNegotiation
  <2>3. CASE m'.packets # m.packets
    <3>1. m.packets = <<>> /\ Len(m'.packets) = Len(m.packets) + 1
      BY <2>1, <2>3, FirstPacket DEF Speaks
    <3> QED BY <3>1 DEF OneNegotiation
  <2> QED BY <2>2, <2>3
<1> QED BY <1>1, <1>2, NegotiationInOrder, PTL DEF Spec
=============================================================================
