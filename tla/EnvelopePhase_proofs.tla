------------------------ MODULE EnvelopePhase_proofs ------------------------
(* Machine-checked proofs about EnvelopePhase, for every set of children and *)
(* every configuration.                                                      *)
EXTENDS EnvelopePhase, SequenceTheorems, TLAPS

-----------------------------------------------------------------------------
(* The order of the statuses *)

\* milter_status_compare ranks the statuses in one chain: a new status replaces
\* the old one exactly when it stands higher.
LEMMA CompareIsRank ==
    \A s, t \in Status : IsImportant(s, t) <=> Rank[s] < Rank[t]
BY DEF Status, Verdict, Rank, IsImportant, Compare, OutrankedBy

\* compile_reply_status keeps the higher of the two statuses.
LEMMA CompileType ==
    ASSUME NEW s \in Status, NEW t \in Status
    PROVE  /\ Compile(s, t) \in {s, t}
           /\ Compile(s, t) \in Status
           /\ s \in Verdict => Compile(s, t) \in Verdict
           /\ t \in Verdict => Compile(s, t) \in Verdict
BY CompareIsRank DEF Status, Verdict, Compile, IsImportant, Compare, OutrankedBy

\* A non-empty set of statuses has a highest member.
LEMMA StrongestExists ==
    ASSUME NEW S \in SUBSET Status, S # {}
    PROVE  /\ Strongest(S) \in S
           /\ \A t \in S : Rank[t] <= Rank[Strongest(S)]
<1>1. \E s \in S : \A t \in S : Rank[t] <= Rank[s]
  <2>1. \A t \in Status : Rank[t] = CASE t = "not-change" -> 0 [] t = "accept" -> 1
                            [] t = "skip" -> 2 [] t = "continue" -> 3
                            [] t = "temporary-failure" -> 4
                            [] t = "reject" -> 5 [] t = "discard" -> 6
    BY DEF Rank
  <2>2. \A t \in S : t \in {"not-change", "accept", "skip", "continue",
                            "temporary-failure", "reject", "discard"}
    BY DEF Status, Verdict
  <2> QED BY <2>1, <2>2
<1> QED BY <1>1 DEF Strongest

-----------------------------------------------------------------------------
(* The operations on a server context keep its type *)

\* Each operation on a context returns a context.
LEMMA ContextOps ==
    ASSUME NEW k \in Context
    PROVE  /\ Forget(k) \in Context
           /\ ResetMessage(k) \in Context
           /\ QuitCtx(k) \in Context
           /\ AbortCtx(k) \in Context
           /\ Expired(k) \in Context
           /\ \A x \in EnvelopeCommand :
                 /\ Write(k, x) \in Context
                 /\ Note(x, k) \in Context
                 /\ Begin(x, k) \in Context
                 /\ Skipped(x, k) \in Context
<1> USE DEF Slot, EnvelopeCommand
<1>0. /\ <<>> \in Seq(Slot)
      /\ \A x \in Slot : Append(k.next, x) \in Seq(Slot)
  BY DEF Context
<1>1. Forget(k) \in Context
  BY DEF Context, Forget
<1>2. ResetMessage(k) \in Context
  BY <1>1 DEF Context, ResetMessage
<1>3. QuitCtx(k) \in Context
  <2>1. Append(k.next, "quit") \in Seq(Slot)
    BY <1>0
  <2> QED BY <2>1 DEF Context, QuitCtx
<1>4. AbortCtx(k) \in Context
  <2>1. Append(k.next, "abort") \in Seq(Slot)
    BY <1>0
  <2> QED BY <2>1 DEF Context, AbortCtx
<1>5. Expired(k) \in Context
  BY <1>0 DEF Context, Expired
<1>6. ASSUME NEW x \in EnvelopeCommand
      PROVE  /\ Write(k, x) \in Context /\ Note(x, k) \in Context
             /\ Begin(x, k) \in Context /\ Skipped(x, k) \in Context
  <2>1. Append(k.next, x) \in Seq(Slot)
    BY <1>0
  <2>2. Write(k, x) \in Context
    BY <2>1 DEF Context, Write
  <2>3. Note(x, k) \in Context
    BY DEF Context, Note
  <2>4. Begin(x, k) \in Context
    BY <2>3 DEF Context, Begin
  <2>5. Skipped(x, k) \in Context
    BY <2>4 DEF Context, Skipped
  <2> QED BY <2>2, <2>3, <2>4, <2>5
<1> QED BY <1>1, <1>2, <1>3, <1>4, <1>5, <1>6

\* stop_on_state, flushed and the decoder callbacks keep the type as well.
LEMMA ContextSteps ==
    ASSUME NEW k \in Context
    PROVE  /\ \A x \in EnvelopeCommand : Stopped(x, k) \in Context
           /\ k.next # <<>> => Flushed(k) \in Context
           /\ \A r : Heard(k, r) \in Context
<1>1. ASSUME NEW x \in EnvelopeCommand
      PROVE  Stopped(x, k) \in Context
  <2> DEFINE b == [Note(x, k) EXCEPT !.state = x]
  <2>1. b \in Context
    <3>1. Note(x, k) \in Context /\ x \in Slot
      BY ContextOps DEF Slot
    <3> QED BY <3>1 DEF Context
  <2> HIDE DEF b
  <2>2. AbortCtx(b) \in Context /\ Forget(b) \in Context
    BY <2>1, ContextOps
  <2>3. QuitCtx(AbortCtx(b)) \in Context /\ Forget(AbortCtx(b)) \in Context
    BY <2>2, ContextOps
  <2> QED BY <2>2, <2>3 DEF Stopped, b
<1>2. ASSUME k.next # <<>>
      PROVE  Flushed(k) \in Context
  <2>1. LastWritten(k) \in Slot
    BY <1>2 DEF LastWritten, Context
  <2>2. <<>> \in Seq(Slot)
    OBVIOUS
  <2>3. ResetMessage(k) \in Context
    BY ContextOps
  <2> QED BY <2>1, <2>2, <2>3 DEF Flushed, Context
<1>3. ASSUME NEW r
      PROVE  Heard(k, r) \in Context
  <2> DEFINE idle == [k EXCEPT !.timer = "none"]
  <2>1. idle \in Context
    BY DEF Context
  <2> HIDE DEF idle
  <2>2. [idle EXCEPT !.rcpts = IF @ > 0 THEN @ - 1 ELSE 0, !.rejected = TRUE] \in Context
    <3>1. (IF idle.rcpts > 0 THEN idle.rcpts - 1 ELSE 0) \in Nat
      BY <2>1 DEF Context
    <3> QED BY <2>1, <3>1 DEF Context
  <2>3. /\ QuitCtx(idle) \in Context /\ Forget(idle) \in Context
        /\ ResetMessage(idle) \in Context /\ QuitCtx(Forget(idle)) \in Context
    BY <2>1, ContextOps
  <2> QED BY <2>1, <2>2, <2>3 DEF Heard, idle
<1> QED BY <1>1, <1>2, <1>3

\* milter_manager_children_abort returns contexts.
LEMMA AbortAllType ==
    ASSUME NEW f \in [Child -> Context]
    PROVE  AbortAll(f) \in [Child -> Context]
<1> SUFFICES ASSUME NEW c \in Child
             PROVE  AbortAll(f)[c] \in Context
  BY DEF AbortAll
<1>1. f[c] \in Context /\ AbortCtx(f[c]) \in Context
  BY ContextOps
<1>2. ResetMessage(f[c]) \in Context /\ ResetMessage(AbortCtx(f[c])) \in Context
  BY <1>1, ContextOps
<1> QED BY <1>1, <1>2 DEF AbortAll

-----------------------------------------------------------------------------
(* Type correctness *)

Leader == [cmd : Slot, replied : BOOLEAN, packets : Seq(Verdict)]

\* The leader keeps its type when it replies and when its handler returns.
LEMMA LeaderOps ==
    ASSUME NEW l \in Leader
    PROVE  /\ \A st \in Status : Answer(l, st) \in Leader
           /\ \A r \in {"progress", ManagerFallback} : Return(l, r) \in Leader
<1>1. ASSUME NEW st \in Status
      PROVE  Answer(l, st) \in Leader
  <2>1. CASE st = "not-change"
    BY <2>1 DEF Answer
  <2>2. CASE st # "not-change"
    <3>1. Append(l.packets, st) \in Seq(Verdict)
      BY <2>2 DEF Leader, Status
    <3> QED BY <3>1 DEF Answer, Leader
  <2> QED BY <2>1, <2>2
<1>2. Append(l.packets, ManagerFallback) \in Seq(Verdict)
  BY ConfigAssumption DEF Leader, FallbackStatus, Verdict
<1> QED BY <1>1, <1>2 DEF Return, Leader

\* What Settle leaves has the types of its arguments.
LEMMA SettleType ==
    ASSUME NEW p \in Slot, NEW q \in SUBSET Child, NEW rs1 \in [Slot -> Status],
           NEW ctx1 \in [Child -> Context], NEW em, NEW l \in Leader,
           NEW r \in {"progress", ManagerFallback}, NEW j \in SUBSET Child,
           Settle(p, q, rs1, ctx1, em, l, r, j)
    PROVE  /\ pstate' \in Slot /\ queue' \subseteq Child /\ rs' \in [Slot -> Status]
           /\ emitted' = em \/ emitted' = FALSE
           /\ ctx' \in [Child -> Context] /\ leader' \in Leader /\ joined' \subseteq Child
<1>1. Answer(l, rs1[p]) \in Leader
  BY LeaderOps
<1>2. Return(Answer(l, rs1[p]), r) \in Leader /\ Return(l, r) \in Leader
  BY <1>1, LeaderOps
<1>3. AbortAll(ctx1) \in [Child -> Context]
  BY AbortAllType
<1> QED BY <1>2, <1>3 DEF Settle, Slot

\* compile_reply_status leaves statuses in the slots.
LEMMA CompileAtType ==
    ASSUME TypeOK, NEW s \in Slot, NEW st \in Status
    PROVE  CompileAt(s, st) \in [Slot -> Status]
BY CompileType DEF CompileAt, TypeOK

\* A fallback status is a verdict.
LEMMA FallbackType == \A c \in Child : Fallback[c] \in Verdict /\ Fallback[c] \in Status
BY ConfigAssumption DEF FallbackStatus, Verdict, Status

\* An answer leaves the MTA in a phase of the session.
LEMMA AfterType ==
    ASSUME NEW ph \in Phase, NEW x, NEW r
    PROVE  After(ph, x, r) \in Phase
BY DEF After, Phase

\* So does the last one.
LEMMA NowType == TypeOK => Now \in Phase
BY AfterType DEF TypeOK, Now

\* The loop of a command handler keeps the types.
LEMMA ServedType ==
    ASSUME TypeOK, NEW x \in EnvelopeCommand, NEW stop \in SUBSET Targets(x)
    PROVE  /\ [c \in Child |-> Served(x, stop, c)] \in [Child -> Context]
           /\ [s \in Slot |-> Strongest(Compiled(x, stop, s))] \in [Slot -> Status]
           /\ Awaited(x, stop) \subseteq Child /\ Skips(x, stop) \subseteq Child
<1>1. ASSUME NEW c \in Child
      PROVE  Served(x, stop, c) \in Context
  <2>1. ctx[c] \in Context
    BY DEF TypeOK
  <2>2. /\ Stopped(x, ctx[c]) \in Context /\ Skipped(x, ctx[c]) \in Context
        /\ AbortCtx(ctx[c]) \in Context /\ Begin(x, ctx[c]) \in Context
    BY <2>1, ContextOps, ContextSteps
  <2>3. Expired(Begin(x, ctx[c])) \in Context /\ Write(Begin(x, ctx[c]), x) \in Context
    BY <2>2, ContextOps
  <2> QED BY <2>1, <2>2, <2>3 DEF Served
<1>2. ASSUME NEW s \in Slot
      PROVE  Strongest(Compiled(x, stop, s)) \in Status
  <2>1. Compiled(x, stop, s) \in SUBSET Status
    <3>1. Busy(x, stop) \subseteq Child
      BY DEF Busy, Targets
    <3> QED BY <3>1, FallbackType DEF Compiled, StopSays, TypeOK, Status, Verdict
  <2>2. Compiled(x, stop, s) # {}
    BY DEF Compiled
  <2> QED BY <2>1, <2>2, StrongestExists
<1>3. Targets(x) \subseteq Child
  BY DEF Targets
<1> QED BY <1>1, <1>2, <1>3 DEF Awaited, Sends, Skips

\* A stopped child counts as accepting or continuing.
LEMMA StopSaysType ==
    \A x \in EnvelopeCommand : Strongest(StopSays(x)) \in {"accept", "continue"}
<1> SUFFICES ASSUME NEW x \in EnvelopeCommand
             PROVE  Strongest(StopSays(x)) \in {"accept", "continue"}
  OBVIOUS
<1>1. StopSays(x) \subseteq {"accept", "continue"} /\ StopSays(x) # {}
  BY DEF StopSays
<1> QED BY <1>1, StrongestExists DEF Status, Verdict

\* Evaluation mode makes a verdict of a verdict.
LEMMA EffectiveType ==
    \A c \in Child, r \in Answers : Effective(c, r) \in Verdict
BY ConfigAssumption DEF Effective, Verdict

\* Every step keeps the types.
LEMMA TypeStep == TypeOK /\ [Next]_vars => TypeOK'
<1> SUFFICES ASSUME TypeOK, [Next]_vars
             PROVE  TypeOK'
  OBVIOUS
<1> USE DEF Leader
<1>0. \A x \in EnvelopeCommand : [cmd |-> x, replied |-> FALSE, packets |-> <<>>] \in Leader
  BY DEF Slot
<1>1. ASSUME NEW x \in EnvelopeCommand, RefuseCommand(x)
      PROVE  TypeOK'
  <2>1. ManagerFallback \in Status
    BY ConfigAssumption DEF FallbackStatus, Status, Verdict
  <2>2. leader' \in Leader
    <3> DEFINE fresh == [cmd |-> x, replied |-> FALSE, packets |-> <<>>]
    <3>1. Answer(fresh, ManagerFallback) \in Leader
      BY <1>0, <2>1, LeaderOps
    <3>2. Return(Answer(fresh, ManagerFallback), ManagerFallback) \in Leader
      BY <3>1, LeaderOps
    <3> QED BY <1>1, <3>2 DEF RefuseCommand
  <2> QED BY <1>1, <2>2, NowType DEF RefuseCommand, TypeOK, Status
<1>2. ASSUME NEW x \in EnvelopeCommand, SendCommand(x)
      PROVE  TypeOK'
  <2> DEFINE fresh == [cmd |-> x, replied |-> FALSE, packets |-> <<>>]
  <2>1. PICK stop \in SUBSET Targets(x), early \in {"accept", "continue"} :
          /\ Settle(x, Awaited(x, stop),
                    [s \in Slot |-> Strongest(Compiled(x, stop, s))],
                    [c \in Child |-> Served(x, stop, c)],
                    emitted \/ AnswersEarly(x, stop),
                    IF AnswersEarly(x, stop) THEN Answer(fresh, early) ELSE fresh,
                    IF Targets(x) # Busy(x, stop) THEN "progress" ELSE ManagerFallback,
                    IF x = "envelope-from" THEN Skips(x, stop)
                    ELSE IF x = "data" THEN joined \cap (Targets(x) \ stop)
                    ELSE joined)
          /\ said' = [c \in Child |->
                         CASE c \in stop -> Strongest(StopSays(x))
                           [] c \in Skips(x, stop) -> "continue"
                           [] c \in Busy(x, stop) -> Fallback[c]
                           [] OTHER -> "not-change"]
    BY <1>2 DEF SendCommand
  <2>2. (IF AnswersEarly(x, stop) THEN Answer(fresh, early) ELSE fresh) \in Leader
    <3>1. early \in Status
      BY DEF Status, Verdict
    <3>2. fresh \in Leader
      BY <1>0
    <3> HIDE DEF fresh
    <3>3. Answer(fresh, early) \in Leader
      BY <3>1, <3>2, LeaderOps
    <3> QED BY <3>2, <3>3
  <2>3. (IF x = "envelope-from" THEN Skips(x, stop)
         ELSE IF x = "data" THEN joined \cap (Targets(x) \ stop) ELSE joined)
          \in SUBSET Child
    BY ServedType DEF TypeOK
  <2>4. x \in Slot /\ (emitted \/ AnswersEarly(x, stop)) \in BOOLEAN
    BY DEF Slot, TypeOK
  <2>5. /\ pstate' \in Slot /\ queue' \subseteq Child /\ rs' \in [Slot -> Status]
        /\ emitted' \in BOOLEAN /\ ctx' \in [Child -> Context]
        /\ leader' \in Leader /\ joined' \subseteq Child
    BY <2>1, <2>2, <2>3, <2>4, ServedType, SettleType
  <2>6. said' \in [Child -> Status]
    <3>1. Strongest(StopSays(x)) \in Status
      BY StopSaysType DEF Status, Verdict
    <3> QED BY <2>1, <3>1, FallbackType DEF Status, Verdict
  <2>7. phase' \in Phase /\ asked' \subseteq Child
    BY <1>2, NowType DEF SendCommand, Targets
  <2> QED BY <2>5, <2>6, <2>7 DEF TypeOK
<1>3. CASE MtaAbort
  <2>1. ctx' \in [Child -> Context]
    BY <1>3, AbortAllType DEF MtaAbort, TypeOK
  <2>2. leader' \in Leader
    <3>1. <<>> \in Seq(Verdict)
      OBVIOUS
    <3> QED BY <1>3, <3>1 DEF MtaAbort, Slot
  <2>3. said' \in [Child -> Status]
    BY <1>3 DEF MtaAbort, Status
  <2> QED BY <1>3, <2>1, <2>2, <2>3 DEF MtaAbort, TypeOK, Slot, Phase
<1>4. CASE MtaQuit
  <2>1. ctx' \in [Child -> Context]
    BY <1>4, ContextOps DEF MtaQuit, TypeOK
  <2> QED BY <1>4, <2>1 DEF MtaQuit, TypeOK, Slot
<1>5. ASSUME NEW c \in Child, NEW rs1 \in [Slot -> Status],
             NEW k \in Context, NEW j \in SUBSET Child,
             \/ RemoveFromQueue(c, rs1, [ctx EXCEPT ![c] = k], j)
             \/ KeepQueue(rs1, [ctx EXCEPT ![c] = k], j),
             said' \in [Child -> Status], History
      PROVE  TypeOK'
  <2>1. [ctx EXCEPT ![c] = k] \in [Child -> Context] /\ queue \ {c} \in SUBSET Child
    BY DEF TypeOK
  <2>2. CASE RemoveFromQueue(c, rs1, [ctx EXCEPT ![c] = k], j)
    <3>1. /\ pstate' \in Slot /\ queue' \subseteq Child /\ rs' \in [Slot -> Status]
          /\ emitted' \in BOOLEAN /\ ctx' \in [Child -> Context]
          /\ leader' \in Leader /\ joined' \subseteq Child
      <4> DEFINE f == [ctx EXCEPT ![c] = k]
                 q == queue \ {c}
      <4>1. /\ pstate \in Slot /\ emitted \in BOOLEAN /\ leader \in Leader
            /\ f \in [Child -> Context] /\ q \in SUBSET Child
        BY <2>1 DEF TypeOK
      <4>2. Settle(pstate, q, rs1, f, emitted, leader, "progress", j)
        BY <2>2 DEF RemoveFromQueue
      <4> HIDE DEF Leader, f, q
      <4> QED BY <4>1, <4>2, SettleType
    <3> QED BY <3>1, <1>5 DEF History, TypeOK
  <2>3. CASE KeepQueue(rs1, [ctx EXCEPT ![c] = k], j)
    BY <2>1, <2>3, <1>5 DEF KeepQueue, History, TypeOK
  <2> QED BY <1>5, <2>2, <2>3
<1>6. ASSUME NEW c \in Child, NEW st \in Status, Hear(c, st)
      PROVE  said' \in [Child -> Status]
  BY <1>6, CompileType DEF Hear, TypeOK
<1>7. ASSUME NEW c \in Child
      PROVE  /\ ctx[c] \in Context /\ ctx[c].state \in Slot
             /\ Expired(ctx[c]) \in Context
             /\ ctx[c].next # <<>> => Flushed(ctx[c]) \in Context
             /\ \A r : Heard(ctx[c], r) \in Context
             /\ [ctx[c] EXCEPT !.timer = "none"] \in Context
             /\ rs \in [Slot -> Status] /\ joined \in SUBSET Child
             /\ said \in [Child -> Status]
  <2>1. ctx[c] \in Context
    BY DEF TypeOK
  <2> QED BY <2>1, ContextOps, ContextSteps DEF Context, TypeOK
<1>8. ASSUME NEW c \in Child, Flush(c)
      PROVE  TypeOK'
  <2>1. \/ RemoveFromQueue(c, rs, [ctx EXCEPT ![c] = Expired(ctx[c])], joined)
        \/ KeepQueue(rs, [ctx EXCEPT ![c] = Flushed(ctx[c])], joined)
    BY <1>8, <1>7 DEF Flush
  <2>2. said' = said /\ History /\ ctx[c].next # <<>>
    BY <1>8 DEF Flush
  <2> QED BY <2>1, <2>2, <1>5, <1>7
<1>9. ASSUME NEW c \in Child, NEW r \in Answers, Reply(c, r)
      PROVE  TypeOK'
  <2> DEFINE j == CASE ctx[c].state = "envelope-from" /\ r = "continue" -> joined \cup {c}
                    [] ~Heard(ctx[c], r).pmsg -> joined \ {c}
                    [] OTHER -> joined
  <2>1. Effective(c, r) \in Status
    BY EffectiveType DEF Status
  <2>2. CompileAt(ctx[c].state, Effective(c, r)) \in [Slot -> Status]
    BY <1>7, <2>1, CompileAtType
  <2>3. j \in SUBSET Child
    BY <1>7
  <2>4. \/ RemoveFromQueue(c, CompileAt(ctx[c].state, Effective(c, r)),
                           [ctx EXCEPT ![c] = Heard(ctx[c], r)], j)
        \/ KeepQueue(CompileAt(ctx[c].state, Effective(c, r)),
                     [ctx EXCEPT ![c] = Heard(ctx[c], r)], j)
    BY <1>9 DEF Reply
  <2>5. said' \in [Child -> Status] /\ History
    BY <1>9, <1>6, <2>1 DEF Reply
  <2> HIDE DEF j
  <2> QED BY <1>5, <1>7, <2>2, <2>3, <2>4, <2>5
<1>10. ASSUME NEW c \in Child, ReplyAfterQuit(c)
       PROVE  TypeOK'
  <2>1. KeepQueue(rs, [ctx EXCEPT ![c] = [ctx[c] EXCEPT !.timer = "none"]], joined)
    BY <1>10 DEF ReplyAfterQuit, TypeOK
  <2>2. said' = said /\ History
    BY <1>10 DEF ReplyAfterQuit
  <2> QED BY <2>1, <2>2, <1>5, <1>7
<1>11. ASSUME NEW c \in Child, Fail(c)
       PROVE  TypeOK'
  <2>1. CompileAt(ctx[c].state, Fallback[c]) \in [Slot -> Status]
    BY <1>7, FallbackType, CompileAtType
  <2>2. RemoveFromQueue(c, CompileAt(ctx[c].state, Fallback[c]),
                        [ctx EXCEPT ![c] = Expired(ctx[c])], joined)
    BY <1>11, <1>7 DEF Fail
  <2>3. said' \in [Child -> Status] /\ History
    BY <1>11, <1>6, FallbackType DEF Fail
  <2> QED BY <1>5, <1>7, <2>1, <2>2, <2>3
<1>12. ASSUME NEW c \in Child, ChildFinished(c)
       PROVE  TypeOK'
  <2>1. CASE Fail(c)
    BY <2>1, <1>11
  <2>2. CASE ~Fail(c)
    <3>1. RemoveFromQueue(c, rs, [ctx EXCEPT ![c] = Expired(ctx[c])], joined)
      BY <1>12, <1>7, <2>2 DEF ChildFinished
    <3>2. said' = said /\ History
      BY <1>12, <2>2 DEF ChildFinished
    <3> QED BY <3>1, <3>2, <1>5, <1>7
  <2> QED BY <2>1, <2>2
<1>13. CASE UNCHANGED vars
  BY <1>13 DEF vars, TypeOK
<1> QED BY <1>1, <1>2, <1>3, <1>4, <1>8, <1>9, <1>10, <1>11, <1>12, <1>13
        DEF Next, MtaNext, ChildNext, Hears, ReadTimeout, WriteTimeout, ChildError

\* A negotiated session has the types.
LEMMA InitType == Init => TypeOK
<1> SUFFICES ASSUME Init PROVE TypeOK
  OBVIOUS
<1>1. <<>> \in Seq(Slot) /\ <<>> \in Seq(Verdict)
  OBVIOUS
<1> QED BY <1>1 DEF Init, TypeOK, Context, Slot, Status, Phase

\* Every variable of a session keeps its type, whatever the children, the MTA
\* and the connections do: in particular only real verdicts reach the MTA.
THEOREM TypeCorrect == Spec => []TypeOK
<1>1. Init => TypeOK
  BY InitType
<1>2. TypeOK /\ [Next]_vars => TypeOK'
  BY TypeStep
<1> QED BY <1>1, <1>2, PTL DEF Spec
-----------------------------------------------------------------------------
(* Nobody is busy once the MTA is answered *)

\* The last element of a sequence is the one appended.
LEMMA LastAppended ==
    ASSUME NEW S, NEW s \in Seq(S), NEW x \in S
    PROVE  Append(s, x) # <<>> /\ Append(s, x)[Len(Append(s, x))] = x
OBVIOUS

\* What QUIT, ABORT, a write and the end of a connection do to the buffer and
\* the timer of a context.
LEMMA BufferOps ==
    ASSUME NEW k \in Context
    PROVE  /\ Buffered(QuitCtx(k)) /\ Idle(QuitCtx(k))
           /\ Buffered(Expired(k)) /\ Idle(Expired(k))
           /\ Buffered(AbortCtx(k)) /\ Idle(AbortCtx(k)) = Idle(k)
           /\ \A x \in EnvelopeCommand : Buffered(Write(k, x))
<1>0. \A x \in Slot : /\ Append(k.next, x) # <<>>
                      /\ Append(k.next, x)[Len(Append(k.next, x))] = x
  BY LastAppended DEF Context
<1>1. Buffered(QuitCtx(k)) /\ Idle(QuitCtx(k))
  <2>1. QuitCtx(k).next = Append(k.next, "quit") /\ QuitCtx(k).quitted
    BY DEF QuitCtx, Context
  <2>2. LastWritten(QuitCtx(k)) = "quit"
    BY <1>0, <2>1 DEF LastWritten, Slot
  <2> QED BY <2>1, <2>2 DEF Buffered, Idle
<1>2. Buffered(Expired(k)) /\ Idle(Expired(k))
  BY DEF Buffered, Idle, Expired, Context
<1>3. Buffered(AbortCtx(k)) /\ Idle(AbortCtx(k)) = Idle(k)
  <2>1. /\ AbortCtx(k).next = Append(k.next, "abort")
        /\ AbortCtx(k).quitted = k.quitted /\ AbortCtx(k).timer = k.timer
    BY DEF AbortCtx, Context
  <2>2. LastWritten(AbortCtx(k)) = "abort"
    BY <1>0, <2>1 DEF LastWritten, Slot
  <2> QED BY <2>1, <2>2 DEF Buffered, Idle
<1>4. ASSUME NEW x \in EnvelopeCommand
      PROVE  Buffered(Write(k, x))
  <2>1. Write(k, x).next = Append(k.next, x) /\ Write(k, x).timer = "writing"
    BY DEF Write, Context
  <2>2. LastWritten(Write(k, x)) = x
    BY <1>0, <2>1 DEF LastWritten, Slot
  <2> QED BY <2>1, <2>2 DEF Buffered, EnvelopeCommand
<1> QED BY <1>1, <1>2, <1>3, <1>4

\* Only the state and the message data change: the buffer and the timer stay.
Alike(k, m) == m.next = k.next /\ m.timer = k.timer /\ m.quitted = k.quitted

\* Such contexts are buffered, idle and working alike.
LEMMA AlikeKeeps ==
    ASSUME NEW k, NEW m, Alike(k, m)
    PROVE  /\ Buffered(m) = Buffered(k) /\ Idle(m) = Idle(k)
           /\ Working(m) = Working(k)
BY DEF Alike, Buffered, Idle, Working, LastWritten

\* The operations on message data are of this kind.
LEMMA MessageOpsAlike ==
    ASSUME NEW k \in Context
    PROVE  /\ Alike(k, Forget(k)) /\ Alike(k, ResetMessage(k))
           /\ \A x \in EnvelopeCommand : /\ Alike(k, Note(x, k)) /\ Alike(k, Begin(x, k))
                                         /\ Alike(k, Skipped(x, k))
BY DEF Alike, Context, Forget, ResetMessage, Note, Begin, Skipped

\* milter_manager_children_abort leaves the timers alone.
LEMMA AbortAllIdle ==
    ASSUME NEW f \in [Child -> Context], NEW c \in Child
    PROVE  /\ Buffered(f[c]) => Buffered(AbortAll(f)[c])
           /\ Idle(AbortAll(f)[c]) = Idle(f[c])
<1> DEFINE b == IF f[c].attached /\ (Processing(f[c]) \/ f[c].state = "envelope-from")
                THEN AbortCtx(f[c]) ELSE f[c]
<1>1. AbortAll(f)[c] = IF f[c].quitted THEN b ELSE ResetMessage(b)
  BY DEF AbortAll
<1>2. b \in Context /\ (Buffered(f[c]) => Buffered(b)) /\ Idle(b) = Idle(f[c])
  <2>1. f[c] \in Context
    OBVIOUS
  <2> QED BY <2>1, BufferOps, ContextOps
<1> HIDE DEF b
<1>3. Alike(b, ResetMessage(b))
  BY <1>2, MessageOpsAlike
<1> QED BY <1>1, <1>2, <1>3, AlikeKeeps

\* What Settle does to the variables of the invariant.
Settles(q, ctx1, l, r) ==
    /\ queue' = q
    /\ ctx' = ctx1 \/ (q = {} /\ ctx' = AbortAll(ctx1))
    /\ q # {} => leader' = Return(l, r)

\* Settle keeps the invariant when whoever is not idle is awaited and the MTA
\* waits.
LEMMA SettleIdle ==
    ASSUME NEW q, NEW ctx1 \in [Child -> Context], NEW l, NEW r,
           Settles(q, ctx1, l, r),
           \A c \in Child : Buffered(ctx1[c]),
           \A c \in Child : \/ Idle(ctx1[c])
                            \/ /\ c \in q /\ r = "progress"
                               /\ l.cmd \in EnvelopeCommand /\ l.packets = <<>>
    PROVE  BufferInv' /\ TimerInv'
<1>1. CASE q = {}
  <2>1. \A c \in Child : Idle(ctx1[c])
    BY <1>1
  <2>2. \A c \in Child : Buffered(AbortAll(ctx1)[c]) /\ Idle(AbortAll(ctx1)[c])
    BY <2>1, AbortAllIdle
  <2>3. ctx' = ctx1 \/ ctx' = AbortAll(ctx1)
    BY DEF Settles
  <2> QED BY <2>1, <2>2, <2>3 DEF BufferInv, TimerInv
<1>2. CASE q # {}
  <2>1. ctx' = ctx1 /\ queue' = q /\ leader' = Return(l, r)
    BY <1>2 DEF Settles
  <2>2. r = "progress" => leader' = l
    BY <2>1 DEF Return
  <2> QED BY <2>1, <2>2 DEF BufferInv, TimerInv, Waiting
<1> QED BY <1>1, <1>2

\* An event of one child's connection: the child comes to rest and is removed
\* from the queue, or the queue stays and the child is as busy as it was.
LEMMA ChildStepIdle ==
    ASSUME TypeOK, BufferInv, TimerInv, NEW c \in Child, NEW k \in Context, Buffered(k),
           NEW rs1 \in [Slot -> Status], NEW j \in SUBSET Child,
           \/ Idle(k) /\ RemoveFromQueue(c, rs1, [ctx EXCEPT ![c] = k], j)
           \/ /\ Idle(k) \/ (Waiting /\ c \in queue)
              /\ KeepQueue(rs1, [ctx EXCEPT ![c] = k], j)
    PROVE  BufferInv' /\ TimerInv'
<1> DEFINE f == [ctx EXCEPT ![c] = k]
           q == queue \ {c}
<1>1. f \in [Child -> Context] /\ f[c] = k /\ \A d \in Child : d # c => f[d] = ctx[d]
  BY DEF TypeOK
<1>2. \A d \in Child : Buffered(f[d])
  BY <1>1 DEF BufferInv
<1>3. CASE Idle(k) /\ RemoveFromQueue(c, rs1, f, j)
  <2>1. \A d \in Child : \/ Idle(f[d])
                         \/ /\ d \in q /\ leader.cmd \in EnvelopeCommand
                            /\ leader.packets = <<>>
    BY <1>1, <1>3 DEF TimerInv, Waiting
  <2>2. Settles(q, f, leader, "progress")
    BY <1>3 DEF RemoveFromQueue, Settle, Settles
  <2> HIDE DEF f, q
  <2> QED BY <1>1, <1>2, <2>1, <2>2, SettleIdle
<1>4. CASE (Idle(k) \/ (Waiting /\ c \in queue)) /\ KeepQueue(rs1, f, j)
  <2>1. ctx' = f /\ queue' = queue /\ leader' = leader
    BY <1>4 DEF KeepQueue
  <2>2. \A d \in Child : Idle(f[d]) \/ (Waiting /\ d \in queue)
    BY <1>1, <1>4 DEF TimerInv
  <2> HIDE DEF f
  <2> QED BY <1>2, <2>1, <2>2 DEF BufferInv, TimerInv, Waiting
<1> QED BY <1>3, <1>4

\* The loop of a command handler, entered with everybody idle: write_packet
\* never finds a child busy, and only those that are sent the command get busy.
LEMMA ServedIdle ==
    ASSUME TypeOK, BufferInv, \A c \in Child : Idle(ctx[c]),
           NEW x \in EnvelopeCommand, NEW stop \in SUBSET Targets(x)
    PROVE  /\ Busy(x, stop) = {}
           /\ \A c \in Child : /\ Buffered(Served(x, stop, c))
                               /\ Idle(Served(x, stop, c)) \/ c \in Sends(x, stop)
<1>1. Busy(x, stop) = {}
  <2>1. \A c \in Targets(x) : c \in Child /\ ~ctx[c].quitted
    BY DEF Targets, Ready, Processing
  <2> QED BY <2>1 DEF Busy, Idle
<1>2. ASSUME NEW c \in Child
      PROVE  /\ Buffered(Served(x, stop, c))
             /\ Idle(Served(x, stop, c)) \/ c \in Sends(x, stop)
  <2> DEFINE k == ctx[c]
             b == [Note(x, k) EXCEPT !.state = x]
  <2>1. k \in Context /\ Buffered(k) /\ Idle(k)
    BY DEF TypeOK, BufferInv
  <2>2. /\ b \in Context /\ Alike(k, b)
    <3>1. Note(x, k) \in Context /\ x \in Slot /\ Alike(k, Note(x, k))
      BY <2>1, ContextOps, MessageOpsAlike DEF Slot
    <3> QED BY <3>1 DEF Context, Alike
  <2>3. /\ Begin(x, k) \in Context /\ Buffered(Write(Begin(x, k), x))
    BY <2>1, ContextOps, BufferOps
  <2>4. Buffered(AbortCtx(k)) /\ Idle(AbortCtx(k))
    BY <2>1, BufferOps
  <2>5. Buffered(Skipped(x, k)) /\ Idle(Skipped(x, k))
    BY <2>1, MessageOpsAlike, AlikeKeeps
  <2> HIDE DEF k
  <2>6. Buffered(Stopped(x, k)) /\ Idle(Stopped(x, k))
    <3> HIDE DEF b
    <3>1. Buffered(b) /\ Idle(b)
      BY <2>1, <2>2, AlikeKeeps
    <3>2. AbortCtx(b) \in Context /\ Buffered(AbortCtx(b)) /\ Idle(AbortCtx(b))
      BY <2>2, <3>1, BufferOps, ContextOps
    <3>3. Alike(b, Forget(b)) /\ Alike(AbortCtx(b), Forget(AbortCtx(b)))
      BY <2>2, <3>2, MessageOpsAlike
    <3>4. /\ Buffered(Forget(b)) /\ Idle(Forget(b))
          /\ Buffered(Forget(AbortCtx(b))) /\ Idle(Forget(AbortCtx(b)))
      BY <3>1, <3>2, <3>3, AlikeKeeps
    <3>5. Buffered(QuitCtx(AbortCtx(b))) /\ Idle(QuitCtx(AbortCtx(b)))
      BY <3>2, BufferOps
    <3> QED BY <3>4, <3>5 DEF Stopped, b
  <2> QED BY <1>1, <2>1, <2>3, <2>4, <2>5, <2>6 DEF Served, k
<1> QED BY <1>1, <1>2

\* A command makes busy only those that are awaited.
LEMMA SendIdle ==
    ASSUME TypeOK, BufferInv, TimerInv, "data" \notin StopAt,
           NEW x \in EnvelopeCommand, SendCommand(x)
    PROVE  BufferInv' /\ TimerInv'
<1> DEFINE fresh == [cmd |-> x, replied |-> FALSE, packets |-> <<>>]
<1>1. PICK stop \in SUBSET Targets(x), early \in {"accept", "continue"} :
        /\ stop # {} => x \in StopAt
        /\ Settle(x, Awaited(x, stop),
                  [s \in Slot |-> Strongest(Compiled(x, stop, s))],
                  [c \in Child |-> Served(x, stop, c)],
                  emitted \/ AnswersEarly(x, stop),
                  IF AnswersEarly(x, stop) THEN Answer(fresh, early) ELSE fresh,
                  IF Targets(x) # Busy(x, stop) THEN "progress" ELSE ManagerFallback,
                  IF x = "envelope-from" THEN Skips(x, stop)
                  ELSE IF x = "data" THEN joined \cap (Targets(x) \ stop)
                  ELSE joined)
  BY DEF SendCommand
<1> DEFINE f == [c \in Child |-> Served(x, stop, c)]
           ret == IF Targets(x) # Busy(x, stop) THEN "progress" ELSE ManagerFallback
           q == Awaited(x, stop)
<1>2. ~AnswersEarly(x, stop)
  BY <1>1 DEF AnswersEarly
<1>3. Settles(q, f, fresh, ret)
  BY <1>1, <1>2 DEF Settle, Settles
<1>4. \A c \in Child : Idle(ctx[c])
  BY DEF SendCommand, MaySend, MtaFree, TimerInv
<1>5. /\ Busy(x, stop) = {}
      /\ \A c \in Child : Buffered(f[c]) /\ (Idle(f[c]) \/ c \in Sends(x, stop))
  BY <1>4, ServedIdle
<1>6. Sends(x, stop) # {} => ret = "progress"
  BY <1>5 DEF Sends
<1>7. Sends(x, stop) \subseteq q
  BY DEF Awaited
<1>8. \A c \in Child : \/ Idle(f[c])
                       \/ /\ c \in q /\ ret = "progress"
                          /\ fresh.cmd \in EnvelopeCommand /\ fresh.packets = <<>>
  BY <1>5, <1>6, <1>7
<1>9. f \in [Child -> Context]
  BY ServedType
<1> HIDE DEF f, q, ret, fresh
<1> QED BY <1>3, <1>5, <1>8, <1>9, SettleIdle

\* The invariant behind IdleWhenAnswered.
IdleInv == TypeOK /\ BufferInv /\ TimerInv

\* Every step keeps the invariant.
LEMMA IdleStep ==
    ASSUME "data" \notin StopAt, IdleInv, [Next]_vars
    PROVE  BufferInv' /\ TimerInv'
<1> USE DEF IdleInv
<1>1. ASSUME NEW x \in EnvelopeCommand, RefuseCommand(x)
      PROVE  BufferInv' /\ TimerInv'
  BY <1>1 DEF RefuseCommand, MaySend, MtaFree, BufferInv, TimerInv
<1>2. ASSUME NEW x \in EnvelopeCommand, SendCommand(x)
      PROVE  BufferInv' /\ TimerInv'
  BY <1>2, SendIdle
<1>3. CASE MtaAbort
  <2>1. \A c \in Child : Idle(ctx[c]) /\ Buffered(ctx[c])
    BY <1>3 DEF MtaAbort, MtaFree, TimerInv, BufferInv
  <2>2. ctx' = AbortAll(ctx) /\ ctx \in [Child -> Context]
    BY <1>3 DEF MtaAbort, TypeOK
  <2> QED BY <2>1, <2>2, AbortAllIdle DEF BufferInv, TimerInv
<1>4. CASE MtaQuit
  <2>1. \A c \in Child : ctx'[c] = IF ctx[c].quitted THEN ctx[c] ELSE QuitCtx(ctx[c])
    BY <1>4 DEF MtaQuit
  <2>2. \A c \in Child : ctx[c] \in Context /\ Buffered(ctx[c])
    BY DEF TypeOK, BufferInv
  <2>3. \A c \in Child : Buffered(QuitCtx(ctx[c])) /\ Idle(QuitCtx(ctx[c]))
    BY <2>2, BufferOps
  <2> QED BY <2>1, <2>2, <2>3 DEF BufferInv, TimerInv, Idle
<1>5. ASSUME NEW c \in Child
      PROVE  /\ ctx[c] \in Context /\ Buffered(ctx[c])
             /\ Idle(ctx[c]) \/ (Waiting /\ c \in queue)
             /\ Expired(ctx[c]) \in Context /\ Buffered(Expired(ctx[c]))
             /\ Idle(Expired(ctx[c]))
             /\ rs \in [Slot -> Status] /\ joined \in SUBSET Child /\ ctx[c].state \in Slot
  <2>1. ctx[c] \in Context
    BY DEF TypeOK
  <2> QED BY <2>1, ContextOps, BufferOps DEF TypeOK, BufferInv, TimerInv, Context
<1>6. ASSUME NEW c \in Child, Flush(c)
      PROVE  BufferInv' /\ TimerInv'
  <2>1. CASE LastWritten(ctx[c]) = "quit"
    <3>1. RemoveFromQueue(c, rs, [ctx EXCEPT ![c] = Expired(ctx[c])], joined)
      BY <1>5, <1>6, <2>1 DEF Flush
    <3> QED BY <3>1, <1>5, ChildStepIdle
  <2>2. CASE LastWritten(ctx[c]) # "quit"
    <3> DEFINE k == Flushed(ctx[c])
    <3>1. KeepQueue(rs, [ctx EXCEPT ![c] = k], joined) /\ ctx[c].next # <<>>
      BY <1>5, <1>6, <2>2 DEF Flush
    <3>2. k \in Context
      BY <3>1, <1>5, ContextSteps
    <3>3. /\ k.next = <<>> /\ k.quitted = ctx[c].quitted
          /\ k.timer = IF LastWritten(ctx[c]) = "abort" THEN "none" ELSE "reading"
      BY <1>5 DEF Flushed, ResetMessage, Forget, Context
    <3>4. Buffered(k) /\ (Idle(k) \/ (Waiting /\ c \in queue))
      BY <1>5, <2>2, <3>1, <3>3 DEF Buffered, Idle
    <3> HIDE DEF k
    <3> QED BY <1>5, <3>1, <3>2, <3>4, ChildStepIdle
  <2> QED BY <2>1, <2>2
<1>7. ASSUME NEW c \in Child, NEW r \in Answers, Reply(c, r)
      PROVE  BufferInv' /\ TimerInv'
  <2> DEFINE k == Heard(ctx[c], r)
             j == CASE ctx[c].state = "envelope-from" /\ r = "continue" -> joined \cup {c}
                    [] ~Heard(ctx[c], r).pmsg -> joined \ {c}
                    [] OTHER -> joined
             rs1 == CompileAt(ctx[c].state, Effective(c, r))
  <2>1. rs1 \in [Slot -> Status] /\ j \in SUBSET Child /\ k \in Context
    <3>1. Effective(c, r) \in Status
      BY EffectiveType DEF Status
    <3> QED BY <3>1, <1>5, CompileAtType, ContextSteps
  <2>2. \/ RemoveFromQueue(c, rs1, [ctx EXCEPT ![c] = k], j)
        \/ KeepQueue(rs1, [ctx EXCEPT ![c] = k], j)
    BY <1>7 DEF Reply
  <2>3. ctx[c].timer = "reading" /\ ~ctx[c].quitted
    BY <1>7 DEF Reply
  <2>4. Buffered(k) /\ Idle(k)
    <3> DEFINE idle == [ctx[c] EXCEPT !.timer = "none"]
    <3>1. /\ idle \in Context /\ idle.next = ctx[c].next
          /\ idle.timer = "none" /\ idle.quitted = ctx[c].quitted
      BY <1>5 DEF Context
    <3>2. LastWritten(idle) = LastWritten(ctx[c])
      BY <3>1 DEF LastWritten
    <3>3. Buffered(idle) /\ Idle(idle)
      BY <1>5, <2>3, <3>1, <3>2 DEF Buffered, Idle
    <3> HIDE DEF idle
    <3>4. Alike(idle, [idle EXCEPT !.rcpts = IF @ > 0 THEN @ - 1 ELSE 0, !.rejected = TRUE])
      BY <3>1 DEF Alike, Context
    <3>5. Alike(idle, Forget(idle)) /\ Alike(idle, ResetMessage(idle)) /\ Forget(idle) \in Context
      BY <3>1, MessageOpsAlike, ContextOps
    <3>6. /\ Buffered(QuitCtx(idle)) /\ Idle(QuitCtx(idle))
          /\ Buffered(QuitCtx(Forget(idle))) /\ Idle(QuitCtx(Forget(idle)))
      BY <3>1, <3>5, BufferOps
    <3>7. /\ Buffered(Forget(idle)) /\ Idle(Forget(idle))
          /\ Buffered(ResetMessage(idle)) /\ Idle(ResetMessage(idle))
          /\ LET m == [idle EXCEPT !.rcpts = IF @ > 0 THEN @ - 1 ELSE 0, !.rejected = TRUE]
             IN Buffered(m) /\ Idle(m)
      BY <3>3, <3>4, <3>5, AlikeKeeps
    <3> QED BY <3>3, <3>6, <3>7 DEF Heard, idle
  <2> HIDE DEF k, j, rs1
  <2> QED BY <2>1, <2>2, <2>4, ChildStepIdle
<1>8. ASSUME NEW c \in Child, ReplyAfterQuit(c)
      PROVE  BufferInv' /\ TimerInv'
  <2> DEFINE k == [ctx[c] EXCEPT !.timer = "none"]
  <2>1. KeepQueue(rs, [ctx EXCEPT ![c] = k], joined)
    BY <1>8 DEF ReplyAfterQuit, TypeOK
  <2>2. /\ k \in Context /\ k.next = ctx[c].next /\ k.quitted = ctx[c].quitted
        /\ LastWritten(k) = LastWritten(ctx[c]) /\ k.timer = "none"
    BY <1>5 DEF Context, LastWritten
  <2>3. ctx[c].timer = "reading"
    BY <1>8 DEF ReplyAfterQuit
  <2>4. Buffered(k) /\ Idle(k)
    BY <1>5, <2>2, <2>3 DEF Buffered, Idle
  <2> HIDE DEF k
  <2> QED BY <1>5, <2>1, <2>2, <2>4, ChildStepIdle
<1>9. ASSUME NEW c \in Child, Fail(c)
      PROVE  BufferInv' /\ TimerInv'
  <2>1. CompileAt(ctx[c].state, Fallback[c]) \in [Slot -> Status]
    BY <1>5, FallbackType, CompileAtType
  <2>2. RemoveFromQueue(c, CompileAt(ctx[c].state, Fallback[c]),
                        [ctx EXCEPT ![c] = Expired(ctx[c])], joined)
    BY <1>9, <1>5 DEF Fail
  <2> QED BY <2>1, <2>2, <1>5, ChildStepIdle
<1>10. ASSUME NEW c \in Child, ChildFinished(c)
       PROVE  BufferInv' /\ TimerInv'
  <2>1. CASE Fail(c)
    BY <2>1, <1>9
  <2>2. CASE ~Fail(c)
    <3>1. RemoveFromQueue(c, rs, [ctx EXCEPT ![c] = Expired(ctx[c])], joined)
      BY <1>10, <1>5, <2>2 DEF ChildFinished
    <3> QED BY <3>1, <1>5, ChildStepIdle
  <2> QED BY <2>1, <2>2
<1>11. CASE UNCHANGED vars
  BY <1>11 DEF vars, BufferInv, TimerInv, Waiting
<1> QED BY <1>1, <1>2, <1>3, <1>4, <1>6, <1>7, <1>8, <1>9, <1>10, <1>11
        DEF Next, MtaNext, ChildNext, Hears, ReadTimeout, WriteTimeout, ChildError

\* If no applicable condition stops a child at DATA, then whatever the children
\* answer and however their connections fail, no living child is busy when the
\* MTA may send its next command: write_packet cannot fail with BUSY.
THEOREM NobodyBusy ==
    ASSUME "data" \notin StopAt
    PROVE  Spec => []IdleWhenAnswered
<1>1. Init => IdleInv
  <2>1. Init => TypeOK
    BY InitType
  <2> QED BY <2>1 DEF Init, IdleInv, BufferInv, TimerInv, Buffered, Idle
<1>2. IdleInv /\ [Next]_vars => IdleInv'
  BY TypeStep, IdleStep DEF IdleInv
<1>3. IdleInv => IdleWhenAnswered
  BY DEF IdleInv, TimerInv, Idle, IdleWhenAnswered
<1> QED BY <1>1, <1>2, <1>3, PTL DEF Spec
-----------------------------------------------------------------------------
(* The MTA is answered for everybody *)

\* Somebody who has not answered keeps the queue from emptying, so an event of
\* another child neither answers the MTA nor touches him.
LEMMA ChildStepHeard ==
    ASSUME TypeOK, HeardInv, NEW c \in Child, NEW k, NEW rs1, NEW j,
           asked' = asked, said' \in [Child -> Status],
           \A d \in Child : d # c => said'[d] = said[d],
           \/ /\ RemoveFromQueue(c, rs1, [ctx EXCEPT ![c] = k], j)
              /\ leader.cmd \in EnvelopeCommand /\ c \in asked => said'[c] # "not-change"
           \/ /\ KeepQueue(rs1, [ctx EXCEPT ![c] = k], j)
              /\ \/ leader.cmd \in EnvelopeCommand /\ c \in asked => said'[c] # "not-change"
                 \/ said' = said /\ (Working(ctx[c]) => Working(k))
    PROVE  HeardInv'
<1> DEFINE f == [ctx EXCEPT ![c] = k]
<1>1. f[c] = k /\ \A d \in Child : d # c => f[d] = ctx[d]
  BY DEF TypeOK
<1>2. \/ KeepQueue(rs1, f, j)
      \/ Settle(pstate, queue \ {c}, rs1, f, emitted, leader, "progress", j)
  BY DEF RemoveFromQueue
<1>3. leader'.cmd = leader.cmd
  <2>1. leader' \in {leader, Answer(leader, rs1[pstate])}
    BY <1>2 DEF KeepQueue, Settle, Return
  <2>2. Answer(leader, rs1[pstate]).cmd = leader.cmd
    BY DEF Answer, TypeOK
  <2> QED BY <2>1, <2>2
<1>4. ASSUME NEW d \in asked, leader.cmd \in EnvelopeCommand, said'[d] = "not-change"
      PROVE  /\ d \in queue' /\ Working(ctx'[d])
             /\ ~leader'.replied /\ leader'.packets = <<>>
  <2>1. d \in Child
    BY DEF TypeOK
  <2>2. said[d] = "not-change"
    BY <1>4, <2>1
  <2>3. d \in queue /\ Working(ctx[d]) /\ ~leader.replied /\ leader.packets = <<>>
    BY <1>4, <2>2 DEF HeardInv
  <2>4. CASE d = c
    <3>1. KeepQueue(rs1, f, j) /\ Working(k)
      BY <1>4, <2>3, <2>4
    <3> QED BY <1>1, <2>3, <2>4, <3>1 DEF KeepQueue
  <2>5. CASE d # c
    <3>1. queue \ {c} # {}
      BY <2>3, <2>5
    <3>2. ctx' = f /\ leader' = leader /\ d \in queue'
      BY <1>2, <2>3, <2>5, <3>1 DEF KeepQueue, Settle, Return
    <3> QED BY <1>1, <2>1, <2>3, <2>5, <3>2
  <2> QED BY <2>4, <2>5
<1> QED BY <1>3, <1>4 DEF HeardInv

\* The children that owe an answer after a command are the ones it was sent to.
LEMMA SendHeard ==
    ASSUME IdleInv, "data" \notin StopAt, NEW x \in EnvelopeCommand, SendCommand(x)
    PROVE  HeardInv'
<1> USE DEF IdleInv
<1> DEFINE fresh == [cmd |-> x, replied |-> FALSE, packets |-> <<>>]
<1>1. PICK stop \in SUBSET Targets(x), early \in {"accept", "continue"} :
        /\ stop # {} => x \in StopAt
        /\ Settle(x, Awaited(x, stop),
                  [s \in Slot |-> Strongest(Compiled(x, stop, s))],
                  [c \in Child |-> Served(x, stop, c)],
                  emitted \/ AnswersEarly(x, stop),
                  IF AnswersEarly(x, stop) THEN Answer(fresh, early) ELSE fresh,
                  IF Targets(x) # Busy(x, stop) THEN "progress" ELSE ManagerFallback,
                  IF x = "envelope-from" THEN Skips(x, stop)
                  ELSE IF x = "data" THEN joined \cap (Targets(x) \ stop)
                  ELSE joined)
        /\ said' = [c \in Child |->
                       CASE c \in stop -> Strongest(StopSays(x))
                         [] c \in Skips(x, stop) -> "continue"
                         [] c \in Busy(x, stop) -> Fallback[c]
                         [] OTHER -> "not-change"]
  BY DEF SendCommand
<1> DEFINE f == [c \in Child |-> Served(x, stop, c)]
           ret == IF Targets(x) # Busy(x, stop) THEN "progress" ELSE ManagerFallback
           q == Awaited(x, stop)
<1>2. ~AnswersEarly(x, stop)
  BY <1>1 DEF AnswersEarly
<1>3. Settles(q, f, fresh, ret)
  BY <1>1, <1>2 DEF Settle, Settles
<1>4. \A c \in Child : Idle(ctx[c])
  BY DEF SendCommand, MaySend, MtaFree, TimerInv
<1>5. Busy(x, stop) = {}
  BY <1>4, ServedIdle
<1>6. ASSUME NEW c \in Targets(x), said'[c] = "not-change"
      PROVE  /\ c \in queue' /\ Working(ctx'[c])
             /\ ~leader'.replied /\ leader'.packets = <<>>
  <2>1. c \in Child /\ ~ctx[c].quitted /\ ctx[c] \in Context
    BY DEF Targets, Ready, Processing, TypeOK
  <2>2. c \notin stop /\ c \notin Skips(x, stop)
    <3>1. said'[c] = CASE c \in stop -> Strongest(StopSays(x))
                       [] c \in Skips(x, stop) -> "continue"
                       [] c \in Busy(x, stop) -> Fallback[c]
                       [] OTHER -> "not-change"
      BY <1>1, <2>1
    <3>2. Strongest(StopSays(x)) # "not-change"
      BY StopSaysType
    <3>3. Skips(x, stop) \cap stop = {}
      BY DEF Skips
    <3>4. c \notin stop
      <4> SUFFICES ASSUME c \in stop PROVE FALSE
        OBVIOUS
      <4>1. said'[c] = Strongest(StopSays(x))
        BY <1>5, <3>1, <3>3
      <4> QED BY <1>6, <3>2, <4>1
    <3>5. c \notin Skips(x, stop)
      <4> SUFFICES ASSUME c \in Skips(x, stop) PROVE FALSE
        OBVIOUS
      <4>1. said'[c] = "continue"
        BY <1>5, <3>1, <3>4
      <4> QED BY <1>6, <4>1
    <3> QED BY <3>4, <3>5
  <2>3. c \in Sends(x, stop) /\ c \in q
    BY <1>5, <2>2 DEF Sends, Awaited
  <2>4. leader' = fresh /\ ctx' = f /\ queue' = q
    <3>1. ret = "progress" /\ q # {}
      BY <1>5, <2>3
    <3> QED BY <1>3, <3>1 DEF Settles, Return
  <2>5. f[c] = Write(Begin(x, ctx[c]), x)
    BY <1>5, <2>1, <2>2, <2>3 DEF Served
  <2>6. Working(Write(Begin(x, ctx[c]), x))
    <3> DEFINE k == Begin(x, ctx[c])
    <3>1. k \in Context /\ ~k.quitted
      BY <2>1, ContextOps, MessageOpsAlike DEF Alike
    <3> HIDE DEF k
    <3>2. /\ Write(k, x).next = Append(k.next, x) /\ Write(k, x).timer = "writing"
          /\ Write(k, x).quitted = k.quitted
      BY <3>1 DEF Write, Context
    <3>3. LastWritten(Write(k, x)) = x
      <4>1. k.next \in Seq(Slot) /\ x \in Slot
        BY <3>1 DEF Context, Slot
      <4> QED BY <3>2, <4>1, LastAppended DEF LastWritten
    <3>4. Working(Write(k, x))
      BY <3>1, <3>2, <3>3 DEF Working, Idle, EnvelopeCommand
    <3> QED BY <3>4 DEF k
  <2> QED BY <2>3, <2>4, <2>5, <2>6
<1>7. asked' = Targets(x)
  BY DEF SendCommand
<1> QED BY <1>6, <1>7 DEF HeardInv

\* Every step keeps HeardInv.
LEMMA HeardStep ==
    ASSUME "data" \notin StopAt, IdleInv, HeardInv, [Next]_vars
    PROVE  HeardInv'
<1> USE DEF IdleInv
<1>1. ASSUME NEW x \in EnvelopeCommand, RefuseCommand(x)
      PROVE  HeardInv'
  BY <1>1 DEF RefuseCommand, HeardInv
<1>2. ASSUME NEW x \in EnvelopeCommand, SendCommand(x)
      PROVE  HeardInv'
  BY <1>2, SendHeard
<1>3. CASE MtaAbort
  BY <1>3 DEF MtaAbort, HeardInv
<1>4. CASE MtaQuit
  <2>1. leader'.cmd = "quit"
    BY <1>4 DEF MtaQuit, TypeOK
  <2> QED BY <2>1 DEF HeardInv, EnvelopeCommand
<1>5. ASSUME NEW c \in Child, Idle(ctx[c])
      PROVE  leader.cmd \in EnvelopeCommand /\ c \in asked => said[c] # "not-change"
  BY <1>5 DEF HeardInv, Working
<1>6. ASSUME NEW c \in Child, NEW st \in Verdict, Hear(c, st)
      PROVE  /\ said' \in [Child -> Status]
             /\ \A d \in Child : d # c => said'[d] = said[d]
             /\ leader.cmd \in EnvelopeCommand /\ c \in asked => said'[c] # "not-change"
  <2>1. said[c] \in Status /\ st \in Status /\ Compile(said[c], st) \in Verdict
    BY CompileType DEF TypeOK, Status
  <2>2. Compile(said[c], st) \in Status /\ Compile(said[c], st) # "not-change"
    BY <2>1 DEF Status, Verdict
  <2>3. said' \in [Child -> Status] /\ \A d \in Child : d # c => said'[d] = said[d]
    BY <1>6, <2>2 DEF Hear, TypeOK
  <2>4. CASE Waiting /\ c \in asked
    BY <1>6, <2>2, <2>3, <2>4 DEF Hear, TypeOK
  <2>5. CASE ~Waiting
    <3>1. said'[c] = said[c]
      BY <1>6, <2>5 DEF Hear, TypeOK
    <3> QED BY <2>3, <2>5, <3>1 DEF HeardInv, Waiting
  <2> QED BY <2>3, <2>4, <2>5
<1>7. ASSUME NEW c \in Child, Flush(c)
      PROVE  HeardInv'
  <2>1. said' = said /\ asked' = asked /\ ctx[c].next # <<>> /\ Buffered(ctx[c])
    BY <1>7 DEF Flush, History, BufferInv
  <2>2. said \in [Child -> Status]
    BY DEF TypeOK
  <2>3. CASE LastWritten(ctx[c]) = "quit"
    <3>1. RemoveFromQueue(c, rs, [ctx EXCEPT ![c] = Expired(ctx[c])], joined)
      BY <1>7, <2>3 DEF Flush, TypeOK
    <3>2. Idle(ctx[c])
      BY <2>1, <2>3 DEF Buffered, Idle
    <3> QED BY <1>5, <2>1, <2>2, <3>1, <3>2, ChildStepHeard
  <2>4. CASE LastWritten(ctx[c]) # "quit"
    <3>1. KeepQueue(rs, [ctx EXCEPT ![c] = Flushed(ctx[c])], joined)
      BY <1>7, <2>4 DEF Flush, TypeOK
    <3>2. Working(ctx[c]) => Working(Flushed(ctx[c]))
      <4>1. ctx[c] \in Context
        BY DEF TypeOK
      <4>2. /\ Flushed(ctx[c]).next = <<>> /\ Flushed(ctx[c]).quitted = ctx[c].quitted
            /\ Flushed(ctx[c]).timer
                 = IF LastWritten(ctx[c]) = "abort" THEN "none" ELSE "reading"
        BY <4>1 DEF Flushed, ResetMessage, Forget, Context
      <4> QED BY <2>1, <4>2 DEF Working, Idle
    <3> QED BY <2>1, <2>2, <3>1, <3>2, ChildStepHeard
  <2> QED BY <2>3, <2>4
<1>8. ASSUME NEW c \in Child, NEW r \in Answers, Reply(c, r)
      PROVE  HeardInv'
  <2> DEFINE k == Heard(ctx[c], r)
             j == CASE ctx[c].state = "envelope-from" /\ r = "continue" -> joined \cup {c}
                    [] ~Heard(ctx[c], r).pmsg -> joined \ {c}
                    [] OTHER -> joined
             rs1 == CompileAt(ctx[c].state, Effective(c, r))
  <2>1. \/ RemoveFromQueue(c, rs1, [ctx EXCEPT ![c] = k], j)
        \/ KeepQueue(rs1, [ctx EXCEPT ![c] = k], j)
    BY <1>8 DEF Reply
  <2>2. Hear(c, Effective(c, r)) /\ asked' = asked /\ Effective(c, r) \in Verdict
    BY <1>8, EffectiveType DEF Reply, History
  <2> HIDE DEF k, j, rs1
  <2> QED BY <1>6, <2>1, <2>2, ChildStepHeard
<1>9. ASSUME NEW c \in Child, ReplyAfterQuit(c)
      PROVE  HeardInv'
  <2>1. KeepQueue(rs, [ctx EXCEPT ![c] = [ctx[c] EXCEPT !.timer = "none"]], joined)
    BY <1>9 DEF ReplyAfterQuit, TypeOK
  <2>2. said' = said /\ asked' = asked /\ Idle(ctx[c]) /\ said \in [Child -> Status]
    BY <1>9 DEF ReplyAfterQuit, History, Idle, TypeOK
  <2> QED BY <1>5, <2>1, <2>2, ChildStepHeard
<1>10. ASSUME NEW c \in Child, Fail(c)
       PROVE  HeardInv'
  <2>1. RemoveFromQueue(c, CompileAt(ctx[c].state, Fallback[c]),
                        [ctx EXCEPT ![c] = Expired(ctx[c])], joined)
    BY <1>10 DEF Fail, TypeOK
  <2>2. Hear(c, Fallback[c]) /\ asked' = asked /\ Fallback[c] \in Verdict
    BY <1>10, FallbackType DEF Fail, History
  <2> QED BY <1>6, <2>1, <2>2, ChildStepHeard
<1>11. ASSUME NEW c \in Child, ChildFinished(c)
       PROVE  HeardInv'
  <2>1. CASE Fail(c)
    BY <2>1, <1>10
  <2>2. CASE ~Fail(c)
    <3>1. /\ RemoveFromQueue(c, rs, [ctx EXCEPT ![c] = Expired(ctx[c])], joined)
          /\ said' = said /\ asked' = asked /\ Idle(ctx[c]) /\ said \in [Child -> Status]
      BY <1>11, <2>2 DEF ChildFinished, TypeOK, History, Idle
    <3> QED BY <1>5, <3>1, ChildStepHeard
  <2> QED BY <2>1, <2>2
<1>12. CASE UNCHANGED vars
  BY <1>12 DEF vars, HeardInv
<1> QED BY <1>1, <1>2, <1>3, <1>4, <1>7, <1>8, <1>9, <1>10, <1>11, <1>12
        DEF Next, MtaNext, ChildNext, Hears, ReadTimeout, WriteTimeout, ChildError

\* If no applicable condition stops a child at DATA, then the MTA is never
\* answered before every child its command was sent to has answered, was stopped
\* or skipped, or has failed, however the children and connections behave.
THEOREM NobodyBypassed ==
    ASSUME "data" \notin StopAt
    PROVE  Spec => []EveryChildHeard
<1>1. Init => IdleInv /\ HeardInv
  <2>1. Init => TypeOK
    BY InitType
  <2> QED BY <2>1 DEF Init, IdleInv, BufferInv, TimerInv, Buffered, Idle, HeardInv
<1>2. IdleInv /\ HeardInv /\ [Next]_vars => IdleInv' /\ HeardInv'
  BY TypeStep, IdleStep, HeardStep DEF IdleInv
<1>3. HeardInv => EveryChildHeard
  BY DEF HeardInv, EveryChildHeard, Replied
<1> QED BY <1>1, <1>2, <1>3, PTL DEF Spec

-----------------------------------------------------------------------------
(* What the MTA sees: one reply to a command, no child left inside a message *)
(* the MTA has ended, no child dropped from one it is in, and the promise of *)
(* Session, which EnvelopePhase implements.                                  *)

\* A busy child has the last command of the MTA, or the command is the last
\* packet on its way to it; a sender has begun the message.
Engaged(k, x) ==
    /\ k.timer = "reading" => k.state = x /\ k.next = <<>>
    /\ k.timer = "writing" => k.next # <<>> /\ LastWritten(k) = x
    /\ x = "envelope-from" => k.pmsg

CommandInv ==
    \A c \in Child :
        /\ ~Idle(ctx[c]) => Engaged(ctx[c], leader.cmd) /\ c \in asked
        /\ leader.cmd # "quit" /\ ctx[c].quitted => ctx[c].timer = "none"

\* While the MTA waits, nothing was written to it and the slot of its command is
\* the one that will be; then the leader is in a REPLIED state.
ReplyInv ==
    /\ Waiting => /\ pstate = leader.cmd /\ ~leader.replied /\ asked # {}
                  /\ leader.cmd \in MessageCommand => phase \in {"from", "rcpt"}
                  /\ phase # "data"
    /\ asked # {} => /\ Len(leader.packets) <= 1
                     /\ leader.cmd \in EnvelopeCommand /\ leader.packets # <<>> =>
                            leader.replied

\* The MTA is in a message, or asks for one.
Open(x, ph) == x = "envelope-from" \/ (x \in MessageCommand \cup {"unknown"} /\ ph \in {"from", "rcpt"})

InMessage == IF Waiting THEN Open(leader.cmd, phase) ELSE Now \in {"from", "rcpt", "data"}

\* A child is inside a message only if the MTA is, and once it has answered, the
\* answer the MTA will get is at least CONTINUE: it does not end the message
\* without an ABORT.
GhostInv ==
    leader.cmd # "quit" =>
        \A c \in Child : Processing(ctx[c]) =>
            /\ InMessage
            /\ Waiting /\ leader.cmd # "unknown" /\ c \notin queue =>
                   Rank[rs[leader.cmd]] >= 3

\* The message of a child is not ended, neither now nor by a late flush.
Kept(k) == k.quitted \/ (k.pmsg /\ \A i \in 1..Len(k.next) : k.next[i] # "abort")

DropInv == leader.cmd # "quit" /\ InMessage => \A c \in joined : Kept(ctx[c])

\* Once the MTA is answered, nothing is left that would abort the children.
QuietInv ==
    leader.cmd # "quit" => /\ rs["abort"] = "not-change"
                           /\ ~Waiting => ~AbortsAll(pstate, rs[pstate])

\* The slot of the command is the strongest of the verdicts.
VerdictInv ==
    Waiting => /\ rs[leader.cmd] = "not-change" \/ \E c \in asked : said[c] = rs[leader.cmd]
               /\ \A c \in asked : Rank[said[c]] <= Rank[rs[leader.cmd]]

-----------------------------------------------------------------------------
(* The outcome of a step *)

\* The leader l after it has told the MTA st
Told(l, st) ==
    [l EXCEPT !.replied = TRUE,
              !.packets = IF l.cmd \in EnvelopeCommand THEN Append(@, st) ELSE @]

\* An event of a child's connection leaves the slots rs1, the contexts f, the
\* awaited children q and the children j in the message.
Stays(q, rs1, f, j) ==
    /\ queue' = q /\ rs' = rs1 /\ ctx' = f /\ joined' = j
    /\ leader' = leader /\ pstate' = pstate

Removed(q, rs1, f, j) ==
    LET told == q = {} /\ rs1[pstate] # "not-change" /\ ~leader.replied
        stop == q = {} /\ AbortsAll(pstate, rs1[pstate])
    IN /\ queue' = q /\ rs' = rs1
       /\ leader' = IF told THEN Told(leader, rs1[pstate]) ELSE leader
       /\ ctx' = IF stop THEN AbortAll(f) ELSE f
       /\ pstate' = IF stop THEN "abort" ELSE pstate
       /\ joined' = IF stop /\ ~leader.replied THEN {} ELSE j

\* remove_child_from_queue is the second of these.
LEMMA RemoveOutcome ==
    ASSUME NEW c, NEW rs1, NEW f, NEW j, RemoveFromQueue(c, rs1, f, j)
    PROVE  Removed(queue \ {c}, rs1, f, j)
<1> DEFINE q == queue \ {c}
           done == q = {}
           st == rs1[pstate]
<1>1. /\ queue' = q /\ rs' = rs1
      /\ leader' = IF done THEN Answer(leader, st) ELSE leader
      /\ IF done /\ AbortsAll(pstate, st)
         THEN /\ pstate' = "abort" /\ ctx' = AbortAll(f)
              /\ joined' = IF leader.replied THEN j ELSE {}
         ELSE pstate' = pstate /\ ctx' = f /\ joined' = j
  BY DEF RemoveFromQueue, Settle, Return
<1>2. Answer(leader, st) = IF st # "not-change" /\ ~leader.replied THEN Told(leader, st)
                           ELSE leader
  BY DEF Answer, Told
<1> HIDE DEF q
<1> QED BY <1>1, <1>2 DEF Removed, q

\* What the leader looks like after it told the MTA
LEMMA ToldFrame ==
    ASSUME TypeOK, NEW st \in Verdict
    PROVE  LET l == Told(leader, st)
           IN  /\ l.cmd = leader.cmd /\ l.replied
               /\ leader.cmd \in EnvelopeCommand =>
                     /\ l.packets # <<>> /\ Len(l.packets) = Len(leader.packets) + 1
                     /\ leader.packets = <<>> => l.packets[1] = st
                     /\ leader.packets # <<>> => l.packets[1] = leader.packets[1]
               /\ leader.cmd \notin EnvelopeCommand => l.packets = leader.packets
<1> DEFINE p == leader.packets
           s == Append(p, st)
           l == Told(leader, st)
<1>1. leader \in Leader /\ p \in Seq(Verdict)
  BY DEF TypeOK, Leader
<1>2. /\ s # <<>> /\ Len(s) = Len(p) + 1 /\ s[Len(p) + 1] = st
      /\ \A i \in 1..Len(p) : s[i] = p[i]
  BY <1>1, AppendProperties
<1>3. p = <<>> => s[1] = st
  BY <1>2
<1>4. p # <<>> => s[1] = p[1]
  <2>1. Len(p) \in Nat /\ (p # <<>> => Len(p) # 0)
    BY <1>1, LenProperties, EmptySeq
  <2>2. p # <<>> => 1 \in 1..Len(p)
    BY <2>1
  <2> QED BY <1>2, <2>2
<1>5. l.cmd = leader.cmd /\ l.replied
      /\ l.packets = IF leader.cmd \in EnvelopeCommand THEN s ELSE p
  BY <1>1 DEF Told, Leader
<1> HIDE DEF s, p, l
<1> QED BY <1>2, <1>3, <1>4, <1>5 DEF p, l

\* What the children that are stopped or skipped say to command x
Mails == {"envelope-from", "envelope-recipient"}

SaidAtOnce(x, stop, c) ==
    IF c \in stop THEN IF x \in Mails THEN "continue" ELSE "accept"
    ELSE IF c \in Skips(x, stop) THEN "continue" ELSE "not-change"

SlotAtOnce(x, stop) ==
    IF Skips(x, stop) # {} \/ (stop # {} /\ x \in Mails) THEN "continue"
    ELSE IF stop # {} THEN "accept" ELSE "not-change"

\* Command x went to its targets, of which stop were stopped: nobody was to be
\* asked, somebody is awaited, or everybody was skipped or stopped.
Sent(x, stop) ==
    /\ x \in {"data", "unknown"} => stop = {}
    /\ asked' = Targets(x) /\ phase' = Now
    /\ said' = [c \in Child |-> SaidAtOnce(x, stop, c)]
    /\ ctx' = [c \in Child |-> Served(x, stop, c)]
    /\ pstate' = x /\ queue' = Awaited(x, stop)
    /\ rs'[x] = SlotAtOnce(x, stop) /\ \A s \in Slot : s # x => rs'[s] = rs[s]
    /\ joined' = IF x = "envelope-from" THEN Skips(x, stop)
                 ELSE IF x = "data" THEN joined \cap Targets(x) ELSE joined
    /\ \/ /\ Targets(x) = {} /\ x = "data"
          /\ leader' = [cmd |-> x, replied |-> FALSE, packets |-> <<ManagerFallback>>]
       \/ /\ Targets(x) # {} /\ Awaited(x, stop) # {}
          /\ leader' = [cmd |-> x, replied |-> FALSE, packets |-> <<>>]
       \/ /\ Targets(x) # {} /\ Awaited(x, stop) = {} /\ SlotAtOnce(x, stop) = "continue"
          /\ leader' = [cmd |-> x, replied |-> TRUE, packets |-> <<"continue">>]

\* The strongest of the sets that the loop of a command compiles
LEMMA StrongestOf ==
    /\ \A s \in Status : Strongest({s}) = s
    /\ Strongest({"not-change", "accept"}) = "accept"
    /\ Strongest({"not-change", "continue"}) = "continue"
    /\ Strongest({"accept", "continue"}) = "continue"
    /\ Strongest({"not-change", "accept", "continue"}) = "continue"
<1>1. ASSUME NEW S \in SUBSET Status, NEW s \in S,
             \A t \in S : t # s => Rank[t] < Rank[s] /\ Rank[t] \in Int /\ Rank[s] \in Int
      PROVE  Strongest(S) = s
  <2>1. Strongest(S) \in S /\ \A t \in S : Rank[t] <= Rank[Strongest(S)]
    BY StrongestExists
  <2> QED BY <1>1, <2>1
<1>2. Rank["not-change"] = 0 /\ Rank["accept"] = 1 /\ Rank["continue"] = 3
  BY DEF Rank, Status, Verdict
<1>3. \A s \in Status : Strongest({s}) = s
  BY <1>1
<1>4. /\ {"not-change", "accept"} \in SUBSET Status /\ {"not-change", "continue"} \in SUBSET Status
      /\ {"accept", "continue"} \in SUBSET Status
      /\ {"not-change", "accept", "continue"} \in SUBSET Status
  BY DEF Status, Verdict
<1>5. Strongest({"not-change", "accept"}) = "accept"
  BY <1>1, <1>2, <1>4
<1>6. Strongest({"not-change", "continue"}) = "continue"
  BY <1>1, <1>2, <1>4
<1>7. Strongest({"accept", "continue"}) = "continue"
  BY <1>1, <1>2, <1>4
<1>8. Strongest({"not-change", "accept", "continue"}) = "continue"
  BY <1>1, <1>2, <1>4
<1> QED BY <1>3, <1>5, <1>6, <1>7, <1>8

\* The handler of a command, when nobody is busy
LEMMA SendOutcome ==
    ASSUME IdleInv, "data" \notin StopAt, NEW x \in EnvelopeCommand, SendCommand(x)
    PROVE  \E stop \in SUBSET Targets(x) : Sent(x, stop)
<1> USE DEF IdleInv
<1> DEFINE fresh == [cmd |-> x, replied |-> FALSE, packets |-> <<>>]
<1>1. PICK stop \in SUBSET Targets(x), early \in {"accept", "continue"} :
        /\ stop # {} => x \in StopAt
        /\ Settle(x, Awaited(x, stop),
                  [s \in Slot |-> Strongest(Compiled(x, stop, s))],
                  [c \in Child |-> Served(x, stop, c)],
                  emitted \/ AnswersEarly(x, stop),
                  IF AnswersEarly(x, stop) THEN Answer(fresh, early) ELSE fresh,
                  IF Targets(x) # Busy(x, stop) THEN "progress" ELSE ManagerFallback,
                  IF x = "envelope-from" THEN Skips(x, stop)
                  ELSE IF x = "data" THEN joined \cap (Targets(x) \ stop)
                  ELSE joined)
        /\ said' = [c \in Child |->
                       CASE c \in stop -> Strongest(StopSays(x))
                         [] c \in Skips(x, stop) -> "continue"
                         [] c \in Busy(x, stop) -> Fallback[c]
                         [] OTHER -> "not-change"]
  BY DEF SendCommand
<1> DEFINE f == [c \in Child |-> Served(x, stop, c)]
           g == [s \in Slot |-> Strongest(Compiled(x, stop, s))]
           q == Awaited(x, stop)
           ret == IF Targets(x) # {} THEN "progress" ELSE ManagerFallback
           v == SlotAtOnce(x, stop)
           j == IF x = "envelope-from" THEN Skips(x, stop)
                ELSE IF x = "data" THEN joined \cap Targets(x) ELSE joined
<1>2. x \in {"data", "unknown"} => stop = {}
  BY <1>1, ConfigAssumption
<1>3. Busy(x, stop) = {}
  <2>1. \A c \in Child : Idle(ctx[c])
    BY DEF SendCommand, MaySend, MtaFree, TimerInv
  <2> QED BY <2>1, ServedIdle
<1>4. ~AnswersEarly(x, stop)
  BY <1>2 DEF AnswersEarly
<1>5. Settle(x, q, g, f, emitted, fresh, ret, j)
  <2>1. emitted \in BOOLEAN
    BY DEF TypeOK
  <2>2. (emitted \/ AnswersEarly(x, stop)) = emitted
    BY <1>4, <2>1
  <2>3. (IF x = "envelope-from" THEN Skips(x, stop)
         ELSE IF x = "data" THEN joined \cap (Targets(x) \ stop) ELSE joined) = j
    BY <1>2
  <2> HIDE DEF f, g, q, j
  <2> QED BY <1>1, <1>3, <1>4, <2>2, <2>3 DEF f, g, q
<1>6. Skips(x, stop) \cap stop = {} /\ Skips(x, stop) \subseteq Targets(x)
  BY DEF Skips
<1>7. x \in Slot /\ g[x] = v /\ \A s \in Slot : s # x => g[s] = rs[s]
  <2>1. x \in Slot /\ "unknown" \notin Mails
    BY DEF Slot, Mails
  <2>2. Compiled(x, stop, x) = {"not-change"} \cup (IF stop = {} THEN {} ELSE StopSays(x))
                               \cup (IF Skips(x, stop) = {} THEN {} ELSE {"continue"})
    BY <1>3 DEF Compiled
  <2>3. StopSays(x) = IF x = "envelope-recipient" THEN {"continue"}
                      ELSE IF x = "envelope-from" THEN {"accept", "continue"} ELSE {"accept"}
    BY DEF StopSays
  <2>4. Compiled(x, stop, x) =
            IF Skips(x, stop) # {}
            THEN IF stop # {} /\ x # "envelope-recipient"
                 THEN {"not-change", "accept", "continue"} ELSE {"not-change", "continue"}
            ELSE IF stop = {} THEN {"not-change"}
            ELSE IF x = "envelope-recipient" THEN {"not-change", "continue"}
            ELSE IF x = "envelope-from" THEN {"not-change", "accept", "continue"}
            ELSE {"not-change", "accept"}
    BY <2>2, <2>3
  <2>5. Strongest({"not-change"}) = "not-change"
    BY StrongestOf DEF Status
  <2>6. g[x] = v
    BY <2>1, <2>4, <2>5, StrongestOf DEF SlotAtOnce, Mails
  <2>7. ASSUME NEW s \in Slot, s # x PROVE g[s] = rs[s]
    <3>1. Compiled(x, stop, s) = {rs[s]} /\ rs[s] \in Status
      BY <1>3, <2>7 DEF Compiled, TypeOK
    <3> QED BY <3>1, StrongestOf
  <2> QED BY <2>1, <2>6, <2>7
<1>8. v \in {"continue", "accept", "not-change"} /\ ~AbortsAll(x, v)
  BY DEF SlotAtOnce, AbortsAll
<1>9. said' = [c \in Child |-> SaidAtOnce(x, stop, c)]
  <2>1. ASSUME NEW c \in Child
        PROVE  (CASE c \in stop -> Strongest(StopSays(x))
                  [] c \in Skips(x, stop) -> "continue"
                  [] c \in Busy(x, stop) -> Fallback[c]
                  [] OTHER -> "not-change") = SaidAtOnce(x, stop, c)
    <3>1. StopSays(x) = IF x = "envelope-recipient" THEN {"continue"}
                        ELSE IF x = "envelope-from" THEN {"accept", "continue"} ELSE {"accept"}
      BY DEF StopSays
    <3>2. Strongest({"continue"}) = "continue" /\ Strongest({"accept"}) = "accept"
      BY StrongestOf DEF Status, Verdict
    <3>3. Strongest(StopSays(x)) = IF x \in Mails THEN "continue" ELSE "accept"
      BY <3>1, <3>2, StrongestOf DEF Mails
    <3>4. CASE c \in stop
      <4>1. c \notin Skips(x, stop)
        BY <1>6, <3>4
      <4> QED BY <1>3, <3>3, <3>4, <4>1 DEF SaidAtOnce
    <3>5. CASE c \notin stop
      BY <1>3, <3>5 DEF SaidAtOnce
    <3> QED BY <3>4, <3>5
  <2> QED BY <1>1, <2>1
<1> HIDE DEF f, g, j, v
<1>10. /\ queue' = q /\ rs' = g /\ pstate' = x /\ ctx' = f /\ joined' = j
       /\ leader' = Return(IF q = {} THEN Answer(fresh, v) ELSE fresh, ret)
  <2> HIDE DEF q, ret, fresh
  <2> QED BY <1>5, <1>7, <1>8 DEF Settle
<1>11. /\ fresh.cmd = x /\ ~fresh.replied /\ fresh.packets = <<>>
       /\ Append(<<>>, ManagerFallback) = <<ManagerFallback>>
       /\ Append(<<>>, "continue") = <<"continue">>
  OBVIOUS
<1>12. ManagerFallback # "progress"
  BY ConfigAssumption DEF FallbackStatus
<1>13. CASE Targets(x) = {}
  <2>1. x = "data"
    BY <1>13 DEF SendCommand, Targets
  <2>2. q = {} /\ v = "not-change"
    BY <1>6, <1>13 DEF Awaited, Sends, Skips, v, SlotAtOnce
  <2>3. leader' = Return(fresh, ManagerFallback)
    BY <1>10, <1>13, <2>2 DEF Answer
  <2>4. leader' = [cmd |-> x, replied |-> FALSE, packets |-> <<ManagerFallback>>]
    BY <1>11, <1>12, <2>3 DEF Return
  <2> QED BY <1>2, <1>7, <1>9, <1>10, <1>13, <2>1, <2>4 DEF Sent, SendCommand, f, j, v
<1>14. CASE Targets(x) # {} /\ q # {}
  <2>1. leader' = fresh
    BY <1>10, <1>14 DEF Return
  <2> QED BY <1>2, <1>7, <1>9, <1>10, <1>14, <2>1 DEF Sent, SendCommand, f, j, v
<1>15. CASE Targets(x) # {} /\ q = {}
  <2>1. Sends(x, stop) = {} /\ (x \notin Mails => stop = {})
    BY <1>15 DEF Awaited, Mails
  <2>2. v = "continue"
    BY <1>3, <1>15, <2>1 DEF Sends, v, SlotAtOnce
  <2>3. leader' = Answer(fresh, "continue")
    BY <1>10, <1>15, <2>2 DEF Return
  <2>4. leader' = [cmd |-> x, replied |-> TRUE, packets |-> <<"continue">>]
    BY <1>11, <2>3 DEF Answer
  <2> QED BY <1>2, <1>7, <1>9, <1>10, <1>15, <2>2, <2>4 DEF Sent, SendCommand, f, j, v
<1> QED BY <1>13, <1>14, <1>15

-----------------------------------------------------------------------------
(* The events of a child's connection *)

\* milter_manager_children_abort ends every message and touches no timer.
LEMMA AbortAllFrame ==
    ASSUME NEW f \in [Child -> Context], NEW c \in Child
    PROVE  /\ AbortAll(f)[c].timer = f[c].timer /\ AbortAll(f)[c].quitted = f[c].quitted
           /\ ~Processing(AbortAll(f)[c])
<1> DEFINE b == IF f[c].attached /\ (Processing(f[c]) \/ f[c].state = "envelope-from")
                THEN AbortCtx(f[c]) ELSE f[c]
<1>1. AbortAll(f)[c] = IF f[c].quitted THEN b ELSE ResetMessage(b)
  BY DEF AbortAll
<1>2. b \in Context /\ b.timer = f[c].timer /\ b.quitted = f[c].quitted
  <2>1. f[c] \in Context
    OBVIOUS
  <2>2. AbortCtx(f[c]) \in Context /\ AbortCtx(f[c]).timer = f[c].timer
        /\ AbortCtx(f[c]).quitted = f[c].quitted
    BY <2>1, ContextOps DEF AbortCtx, Context
  <2> QED BY <2>1, <2>2
<1> HIDE DEF b
<1>3. ResetMessage(b).timer = b.timer /\ ResetMessage(b).quitted = b.quitted
      /\ ~ResetMessage(b).pmsg
  BY <1>2 DEF ResetMessage, Forget, Context
<1> QED BY <1>1, <1>2, <1>3 DEF Processing

\* An answer stops the timer.  A child that goes on with its message said
\* CONTINUE, or refused a recipient or discarded the mail.
LEMMA HeardFrame ==
    ASSUME NEW k \in Context, NEW r
    PROVE  LET h == Heard(k, r)
           IN  /\ h \in Context /\ h.timer = "none" /\ (k.quitted => h.quitted)
               /\ h.pmsg => k.pmsg
               /\ h.quitted \/ h.next = k.next
               /\ r = "continue" => h.pmsg = k.pmsg
               /\ k.state \in EnvelopeCommand /\ Processing(h) =>
                     r = "continue" \/ (k.state = "envelope-recipient" /\ r # "accept")
<1> DEFINE idle == [k EXCEPT !.timer = "none"]
           less == [idle EXCEPT !.rcpts = IF @ > 0 THEN @ - 1 ELSE 0, !.rejected = TRUE]
           quits == k.state \in {"connect", "helo", "unknown"}
           h == Heard(k, r)
<1>1. idle \in Context /\ idle.timer = "none" /\ idle.quitted = k.quitted
      /\ idle.pmsg = k.pmsg /\ idle.next = k.next
  BY DEF Context
<1>2. h = IF r = "continue" THEN idle
          ELSE CASE quits -> QuitCtx(IF k.state = "unknown" THEN Forget(idle) ELSE idle)
                 [] k.state = "envelope-recipient" /\ r \in {"reject", "temporary-failure"} -> less
                 [] ~quits /\ (k.state \in {"envelope-from", "data"} \/ r = "accept") ->
                        ResetMessage(idle)
                 [] OTHER -> Forget(idle)
  BY DEF Heard
<1>3. h \in Context
  BY ContextSteps
<1> HIDE DEF idle
<1>4. less.timer = "none" /\ less.quitted = k.quitted /\ less.pmsg = k.pmsg /\ less.next = k.next
  BY <1>1 DEF Context
<1>5. ASSUME NEW i \in Context, i.timer = "none"
      PROVE  QuitCtx(i).timer = "none" /\ QuitCtx(i).quitted /\ QuitCtx(i).pmsg = i.pmsg
  BY <1>5 DEF QuitCtx, Context
<1>6. LET n == Forget(idle) IN n \in Context /\ n.timer = "none" /\ n.quitted = k.quitted
                               /\ n.pmsg = k.pmsg /\ n.next = k.next
  BY <1>1, ContextOps DEF Forget, Context
<1>7. LET n == ResetMessage(idle) IN n.timer = "none" /\ n.quitted = k.quitted
                                     /\ ~n.pmsg /\ n.next = k.next
  BY <1>1 DEF ResetMessage, Forget, Context
<1> HIDE DEF h, less
<1>8. CASE r = "continue"
  BY <1>1, <1>2, <1>3, <1>8 DEF h
<1>9. CASE r # "continue" /\ quits
  <2>1. h = QuitCtx(Forget(idle)) \/ h = QuitCtx(idle)
    BY <1>2, <1>9
  <2> QED BY <1>1, <1>3, <1>5, <1>6, <1>9, <2>1 DEF Processing, h
<1>10. CASE r # "continue" /\ k.state = "envelope-recipient" /\ r \in {"reject", "temporary-failure"}
  <2>1. h = less
    BY <1>2, <1>10
  <2> QED BY <1>3, <1>4, <1>10, <2>1 DEF h
<1>11. CASE r # "continue" /\ ~quits /\ (k.state \in {"envelope-from", "data"} \/ r = "accept")
  <2>1. h = ResetMessage(idle)
    BY <1>2, <1>11
  <2> QED BY <1>1, <1>3, <1>7, <1>11, <2>1 DEF Processing, h
<1>12. CASE /\ r # "continue" /\ r # "accept" /\ ~quits
            /\ k.state \notin {"envelope-from", "data"}
            /\ ~(k.state = "envelope-recipient" /\ r \in {"reject", "temporary-failure"})
  <2>1. h = Forget(idle)
    BY <1>2, <1>12
  <2> QED BY <1>1, <1>3, <1>6, <1>12, <2>1 DEF EnvelopeCommand, h
<1> QED BY <1>8, <1>9, <1>10, <1>11, <1>12

\* What an event leaves: child c's context is k, and it is still awaited or not.
Event(c, k, q, rs1, j) ==
    /\ k \in Context /\ rs1 \in [Slot -> Status] /\ j \subseteq Child
    /\ \/ q = queue /\ Stays(q, rs1, [ctx EXCEPT ![c] = k], j)
       \/ q = queue \ {c} /\ Idle(k) /\ Removed(q, rs1, [ctx EXCEPT ![c] = k], j)
    /\ phase' = phase /\ asked' = asked

\* The kinds of events: a flush, the end of a connection that owes nothing, a
\* late answer, an answer, a failure.
Flushes(c, q) ==
    /\ q = queue /\ ctx[c].next # <<>> /\ LastWritten(ctx[c]) # "quit" /\ said' = said
    /\ Event(c, Flushed(ctx[c]), q, rs, joined)

Ends(c, q) ==
    /\ q = queue \ {c} /\ Idle(ctx[c]) /\ said' = said
    /\ Event(c, Expired(ctx[c]), q, rs, joined)

Hushes(c, q) ==
    /\ q = queue /\ ctx[c].quitted /\ said' = said
    /\ Event(c, [ctx[c] EXCEPT !.timer = "none"], q, rs, joined)

Says(c, q, r) ==
    /\ q = IF Heard(ctx[c], r).quitted THEN queue ELSE queue \ {c}
    /\ ctx[c].timer = "reading" /\ ~ctx[c].quitted /\ Hear(c, Effective(c, r))
    /\ Event(c, Heard(ctx[c], r), q, CompileAt(ctx[c].state, Effective(c, r)),
             CASE ctx[c].state = "envelope-from" /\ r = "continue" -> joined \cup {c}
               [] ~Heard(ctx[c], r).pmsg -> joined \ {c}
               [] OTHER -> joined)

Fails(c, q) ==
    /\ q = queue \ {c} /\ Moment(ctx[c]) \in Faults /\ Hear(c, Fallback[c])
    /\ Event(c, Expired(ctx[c]), q, CompileAt(ctx[c].state, Fallback[c]), joined)

\* Every event is of one of these kinds.
LEMMA EventCases ==
    ASSUME IdleInv, NEW c \in Child, ChildNext(c)
    PROVE  \E q \in SUBSET Child :
              \/ Flushes(c, q) \/ Ends(c, q) \/ Hushes(c, q) \/ Fails(c, q)
              \/ \E r \in Answers : Says(c, q, r)
<1> USE DEF IdleInv
<1> DEFINE k == ctx[c]
<1>1. /\ k \in Context /\ k.state \in Slot /\ queue \subseteq Child /\ queue \ {c} \subseteq Child
      /\ rs \in [Slot -> Status] /\ joined \subseteq Child /\ Buffered(k)
      /\ ctx \in [Child -> Context]
  BY DEF TypeOK, Context, BufferInv
<1>2. Expired(k) \in Context /\ Idle(Expired(k))
  BY <1>1, ContextOps, BufferOps
<1>3. ASSUME NEW rs1 \in [Slot -> Status], NEW n \in Context, NEW j \in SUBSET Child,
             RemoveFromQueue(c, rs1, [ctx EXCEPT ![c] = n], j), Idle(n), History
      PROVE  Event(c, n, queue \ {c}, rs1, j)
  BY <1>3, RemoveOutcome DEF Event, History
<1>4. ASSUME NEW rs1 \in [Slot -> Status], NEW n \in Context, NEW j \in SUBSET Child,
             KeepQueue(rs1, [ctx EXCEPT ![c] = n], j), History
      PROVE  Event(c, n, queue, rs1, j)
  BY <1>4 DEF Event, History, KeepQueue, Stays
<1>5. CASE Flush(c)
  <2>1. k.next # <<>> /\ said' = said /\ History
    BY <1>5 DEF Flush
  <2>2. CASE LastWritten(k) = "quit"
    <3>1. RemoveFromQueue(c, rs, [ctx EXCEPT ![c] = Expired(k)], joined)
      BY <1>1, <1>5, <2>2 DEF Flush
    <3>2. Idle(k)
      BY <1>1, <2>1, <2>2 DEF Buffered, Idle
    <3> HIDE DEF k
    <3>3. Event(c, Expired(k), queue \ {c}, rs, joined)
      BY <1>1, <1>2, <1>3, <2>1, <3>1
    <3> QED BY <1>1, <2>1, <3>2, <3>3 DEF Ends, k
  <2>3. CASE LastWritten(k) # "quit"
    <3>1. KeepQueue(rs, [ctx EXCEPT ![c] = Flushed(k)], joined)
      BY <1>1, <1>5, <2>3 DEF Flush
    <3>2. Flushed(k) \in Context
      BY <1>1, <2>1, ContextSteps
    <3> HIDE DEF k
    <3>3. Event(c, Flushed(k), queue, rs, joined)
      BY <1>1, <1>4, <2>1, <3>1, <3>2
    <3> QED BY <1>1, <2>1, <2>3, <3>3 DEF Flushes, k
  <2> QED BY <2>2, <2>3
<1>6. ASSUME NEW r \in Answers, Reply(c, r)
      PROVE  \E q \in SUBSET Child : Says(c, q, r)
  <2> DEFINE h == Heard(k, r)
             rs1 == CompileAt(k.state, Effective(c, r))
             j == CASE k.state = "envelope-from" /\ r = "continue" -> joined \cup {c}
                    [] ~Heard(k, r).pmsg -> joined \ {c}
                    [] OTHER -> joined
  <2>1. k.timer = "reading" /\ ~k.quitted /\ Hear(c, Effective(c, r)) /\ History
        /\ IF h.quitted THEN KeepQueue(rs1, [ctx EXCEPT ![c] = h], j)
           ELSE RemoveFromQueue(c, rs1, [ctx EXCEPT ![c] = h], j)
    BY <1>6 DEF Reply
  <2>2. h \in Context /\ Idle(h)
    BY <1>1, HeardFrame DEF Idle
  <2>3. rs1 \in [Slot -> Status]
    BY <1>1, EffectiveType, CompileAtType DEF Status
  <2>4. j \in SUBSET Child
    BY <1>1
  <2> HIDE DEF h, rs1, j
  <2>5. \E q \in SUBSET Child : /\ q = IF h.quitted THEN queue ELSE queue \ {c}
                                /\ Event(c, h, q, rs1, j)
    <3>1. CASE h.quitted
      BY <1>1, <1>4, <2>1, <2>2, <2>3, <2>4, <3>1
    <3>2. CASE ~h.quitted
      BY <1>1, <1>3, <2>1, <2>2, <2>3, <2>4, <3>2
    <3> QED BY <3>1, <3>2
  <2> QED BY <2>1, <2>5 DEF Says, h, rs1, j
<1>7. CASE ReplyAfterQuit(c)
  <2> DEFINE n == [k EXCEPT !.timer = "none"]
  <2>1. KeepQueue(rs, [ctx EXCEPT ![c] = n], joined) /\ said' = said /\ History /\ k.quitted
    BY <1>1, <1>7 DEF ReplyAfterQuit
  <2>2. n \in Context
    BY <1>1 DEF Context
  <2> HIDE DEF n
  <2>3. Event(c, n, queue, rs, joined)
    BY <1>1, <1>4, <2>1, <2>2
  <2> QED BY <1>1, <2>1, <2>3 DEF Hushes, n
<1>8. ASSUME Fail(c), Moment(k) \in Faults PROVE \E q \in SUBSET Child : Fails(c, q)
  <2>1. CompileAt(k.state, Fallback[c]) \in [Slot -> Status]
    BY <1>1, FallbackType, CompileAtType
  <2>2. RemoveFromQueue(c, CompileAt(k.state, Fallback[c]), [ctx EXCEPT ![c] = Expired(k)], joined)
        /\ Hear(c, Fallback[c]) /\ History
    BY <1>1, <1>8 DEF Fail
  <2> HIDE DEF k
  <2>3. Event(c, Expired(k), queue \ {c}, CompileAt(k.state, Fallback[c]), joined)
    BY <1>1, <1>2, <1>3, <2>1, <2>2
  <2> QED BY <1>1, <1>8, <2>2, <2>3 DEF Fails, k
<1>9. CASE ReadTimeout(c) \/ WriteTimeout(c) \/ ChildError(c)
  BY <1>8, <1>9 DEF ReadTimeout, WriteTimeout, ChildError
<1>10. CASE ChildFinished(c)
  <2>1. CASE Fail(c)
    BY <1>8, <1>10, <2>1 DEF ChildFinished
  <2>2. CASE ~Fail(c)
    <3>1. RemoveFromQueue(c, rs, [ctx EXCEPT ![c] = Expired(k)], joined)
          /\ said' = said /\ History /\ Idle(k)
      BY <1>1, <1>10, <2>2 DEF ChildFinished, Idle
    <3> HIDE DEF k
    <3>2. Event(c, Expired(k), queue \ {c}, rs, joined)
      BY <1>1, <1>2, <1>3, <3>1
    <3> QED BY <1>1, <3>1, <3>2 DEF Ends, k
  <2> QED BY <2>1, <2>2
<1> QED BY <1>5, <1>6, <1>7, <1>9, <1>10 DEF ChildNext, Hears

-----------------------------------------------------------------------------
(* One reply to a command *)

\* The contexts after an event: those it leaves, or those with an ABORT once
\* nobody is awaited.
LEMMA EventContexts ==
    ASSUME IdleInv, NEW c \in Child, NEW k, NEW q, NEW rs1, NEW j, Event(c, k, q, rs1, j)
    PROVE  LET f == [ctx EXCEPT ![c] = k]
           IN  /\ f \in [Child -> Context] /\ f[c] = k
               /\ \A d \in Child : d # c => f[d] = ctx[d]
               /\ ctx' = f \/ (q = {} /\ ctx' = AbortAll(f) /\ \A d \in Child : Idle(f[d]))
<1> DEFINE f == [ctx EXCEPT ![c] = k]
<1>1. f \in [Child -> Context] /\ f[c] = k /\ \A d \in Child : d # c => f[d] = ctx[d]
  BY DEF Event, IdleInv, TypeOK
<1> HIDE DEF f
<1>2. \/ q = queue /\ Stays(q, rs1, f, j)
      \/ q = queue \ {c} /\ Idle(k) /\ Removed(q, rs1, f, j)
  BY DEF Event, f
<1>3. CASE Stays(q, rs1, f, j)
  BY <1>1, <1>3 DEF Stays, f
<1>4. CASE q = queue \ {c} /\ Idle(k) /\ Removed(q, rs1, f, j)
  <2>1. ctx' = f \/ (q = {} /\ ctx' = AbortAll(f))
    BY <1>4 DEF Removed
  <2>2. q = {} => \A d \in Child : Idle(f[d])
    BY <1>1, <1>4 DEF IdleInv, TimerInv
  <2> QED BY <1>1, <2>1, <2>2 DEF f
<1> QED BY <1>2, <1>3, <1>4

\* The leader after an event: as before, or it told the MTA the slot.
LEMMA EventLeader ==
    ASSUME IdleInv, NEW c \in Child, NEW k, NEW q, NEW rs1, NEW j, Event(c, k, q, rs1, j)
    PROVE  /\ leader'.cmd = leader.cmd
           /\ \/ /\ leader' = leader
                 /\ \/ pstate' = pstate
                    \/ /\ pstate' = "abort" /\ leader.replied /\ q = {}
                       /\ AbortsAll(pstate, rs1[pstate])
              \/ /\ q = {} /\ rs1[pstate] \in Verdict /\ ~leader.replied
                 /\ leader' = Told(leader, rs1[pstate])
<1>1. pstate \in Slot /\ rs1[pstate] \in Status
  BY DEF Event, IdleInv, TypeOK
<1>2. rs1[pstate] # "not-change" => rs1[pstate] \in Verdict
  BY <1>1 DEF Status
<1>3. CASE Stays(q, rs1, [ctx EXCEPT ![c] = k], j)
  BY <1>3 DEF Stays
<1>4. CASE Removed(q, rs1, [ctx EXCEPT ![c] = k], j)
  <2> DEFINE told == q = {} /\ rs1[pstate] # "not-change" /\ ~leader.replied
             stop == q = {} /\ AbortsAll(pstate, rs1[pstate])
  <2>1. /\ leader' = IF told THEN Told(leader, rs1[pstate]) ELSE leader
        /\ pstate' = IF stop THEN "abort" ELSE pstate
    BY <1>4 DEF Removed
  <2>2. stop => rs1[pstate] # "not-change"
    BY DEF AbortsAll
  <2>3. CASE told
    BY <1>2, <2>1, <2>3, ToldFrame DEF IdleInv
  <2>4. CASE ~told
    BY <2>1, <2>2, <2>4
  <2> QED BY <2>3, <2>4
<1> QED BY <1>3, <1>4 DEF Event

\* The sequences of packets of a new command
LEMMA FirstPackets ==
    ASSUME NEW p
    PROVE  Len(<<>>) = 0 /\ Len(<<p>>) = 1 /\ <<p>> # <<>> /\ <<p>>[1] = p
OBVIOUS

\* An event keeps what it means to wait.
LEMMA EventBase ==
    ASSUME IdleInv, CommandInv, ReplyInv, NEW c \in Child, NEW k, NEW q, NEW rs1, NEW j,
           Event(c, k, q, rs1, j), ~Idle(k) => Engaged(k, leader.cmd) /\ c \in asked,
           leader.cmd # "quit" /\ k.quitted => k.timer = "none"
    PROVE  CommandInv' /\ ReplyInv'
<1> DEFINE f == [ctx EXCEPT ![c] = k]
<1>1. /\ f \in [Child -> Context] /\ f[c] = k
      /\ \A d \in Child : d # c => f[d] = ctx[d]
      /\ ctx' = f \/ (q = {} /\ ctx' = AbortAll(f) /\ \A d \in Child : Idle(f[d]))
  BY EventContexts
<1>2. /\ leader'.cmd = leader.cmd
      /\ \/ /\ leader' = leader
            /\ \/ pstate' = pstate
               \/ /\ pstate' = "abort" /\ leader.replied /\ q = {}
                  /\ AbortsAll(pstate, rs1[pstate])
         \/ /\ q = {} /\ rs1[pstate] \in Verdict /\ ~leader.replied
            /\ leader' = Told(leader, rs1[pstate])
  BY EventLeader
<1>3. asked' = asked /\ phase' = phase
  BY DEF Event
<1> HIDE DEF f
<1>4. CommandInv'
  <2> SUFFICES ASSUME NEW d \in Child
               PROVE  /\ ~Idle(ctx'[d]) => Engaged(ctx'[d], leader.cmd) /\ d \in asked
                      /\ leader.cmd # "quit" /\ ctx'[d].quitted => ctx'[d].timer = "none"
    BY <1>2, <1>3 DEF CommandInv
  <2>1. /\ ~Idle(f[d]) => Engaged(f[d], leader.cmd) /\ d \in asked
        /\ leader.cmd # "quit" /\ f[d].quitted => f[d].timer = "none"
    BY <1>1 DEF CommandInv
  <2>2. CASE ctx' = f
    BY <2>1, <2>2
  <2>3. CASE ctx' # f
    <3>1. ctx' = AbortAll(f) /\ Idle(f[d])
      BY <1>1, <2>3
    <3>2. ctx'[d].timer = f[d].timer /\ ctx'[d].quitted = f[d].quitted
      BY <1>1, <3>1, AbortAllFrame
    <3> QED BY <2>1, <3>1, <3>2 DEF Idle
  <2> QED BY <2>2, <2>3
<1>5. CASE leader' = leader /\ (Waiting => pstate' = pstate)
  <2>1. ReplyInv'
    BY <1>3, <1>5 DEF ReplyInv, Waiting
  <2> QED BY <1>4, <2>1
<1>6. CASE leader' = leader /\ ~(Waiting => pstate' = pstate)
  BY <1>2, <1>6, ToldFrame DEF ReplyInv, IdleInv
<1>7. CASE rs1[pstate] \in Verdict /\ ~leader.replied /\ leader' = Told(leader, rs1[pstate])
  <2>1. leader.packets \in Seq(Verdict)
    BY DEF IdleInv, TypeOK
  <2>2. CASE leader.cmd \in EnvelopeCommand
    <3>1. leader'.packets # <<>> /\ leader'.replied /\ Len(leader'.packets) = Len(leader.packets) + 1
      BY <1>7, <2>2, ToldFrame DEF IdleInv
    <3>2. asked # {} => leader.packets = <<>>
      BY <1>7, <2>2 DEF ReplyInv
    <3>3. asked # {} => Len(leader'.packets) = 1
      BY <3>1, <3>2
    <3> QED BY <1>2, <1>3, <1>4, <3>1, <3>3 DEF ReplyInv, Waiting
  <2>3. CASE leader.cmd \notin EnvelopeCommand
    <3>1. leader'.packets = leader.packets
      BY <1>7, <2>3, ToldFrame DEF IdleInv
    <3> QED BY <1>2, <1>3, <1>4, <2>3, <3>1 DEF ReplyInv, Waiting
  <2> QED BY <2>2, <2>3
<1> QED BY <1>2, <1>4, <1>5, <1>6, <1>7

\* A flush makes a busy child read the answer to the command.
LEMMA FlushedFrame ==
    ASSUME IdleInv, CommandInv, NEW c \in Child, ctx[c].next # <<>>, LastWritten(ctx[c]) # "quit"
    PROVE  LET n == Flushed(ctx[c])
           IN  /\ n.next = <<>> /\ n.quitted = ctx[c].quitted
               /\ ~Idle(n) => Engaged(n, leader.cmd) /\ c \in asked
               /\ leader.cmd # "quit" /\ n.quitted => n.timer = "none"
               /\ Processing(n) => Processing(ctx[c])
               /\ Kept(ctx[c]) => Kept(n)
<1> DEFINE k == ctx[c]
           n == Flushed(k)
           last == LastWritten(k)
           aborted == \E i \in 1..Len(k.next) : k.next[i] = "abort"
<1>1. k \in Context /\ Buffered(k)
  BY DEF IdleInv, TypeOK, BufferInv
<1>2. /\ n.state = last /\ n.next = <<>> /\ n.quitted = k.quitted
      /\ n.timer = IF last = "abort" THEN "none" ELSE "reading"
      /\ n.pmsg = IF last = "envelope-from" THEN TRUE ELSE IF aborted THEN FALSE ELSE k.pmsg
  <2> DEFINE base == IF aborted THEN ResetMessage(k) ELSE k
  <2>1. base \in Context /\ base.quitted = k.quitted
        /\ base.pmsg = IF aborted THEN FALSE ELSE k.pmsg
    <3>1. ResetMessage(k) \in Context /\ ResetMessage(k).quitted = k.quitted
          /\ ResetMessage(k).pmsg = FALSE
      BY <1>1, ContextOps DEF ResetMessage, Forget, Context
    <3> QED BY <1>1, <3>1
  <2>2. n = [base EXCEPT !.state = last, !.next = <<>>,
                         !.timer = IF last = "abort" THEN "none" ELSE "reading",
                         !.pmsg = IF last = "envelope-from" THEN TRUE ELSE base.pmsg]
    BY <2>1 DEF Flushed, Context
  <2> HIDE DEF base, n, last, aborted
  <2> QED BY <2>1, <2>2 DEF Context
<1>3. last # "abort" => k.timer = "writing"
  BY <1>1 DEF Buffered
<1>4. ASSUME last # "abort", ~k.quitted
      PROVE  last = leader.cmd /\ c \in asked /\ (last = "envelope-from" => k.pmsg)
  <2>1. ~Idle(k)
    BY <1>3, <1>4 DEF Idle
  <2> QED BY <1>3, <1>4, <2>1 DEF CommandInv, Engaged
<1>5. leader.cmd # "quit" /\ k.quitted => last = "abort"
  BY <1>3 DEF CommandInv
<1> HIDE DEF k, n, last, aborted
<1>6. ~Idle(n) => Engaged(n, leader.cmd) /\ c \in asked
  BY <1>2, <1>4 DEF Engaged, Idle
<1>7. leader.cmd # "quit" /\ n.quitted => n.timer = "none"
  BY <1>2, <1>5
<1>8. Processing(n) => Processing(k)
  BY <1>2, <1>4 DEF Processing
<1>9. Kept(k) => Kept(n)
  BY <1>2 DEF Kept, aborted
<1> QED BY <1>2, <1>6, <1>7, <1>8, <1>9 DEF k, n

\* Every event does.
LEMMA ChildBase ==
    ASSUME IdleInv, CommandInv, ReplyInv, NEW c \in Child, ChildNext(c)
    PROVE  CommandInv' /\ ReplyInv'
<1>1. ctx[c] \in Context
  BY DEF IdleInv, TypeOK
<1>2. PICK q \in SUBSET Child :
         \/ Flushes(c, q) \/ Ends(c, q) \/ Hushes(c, q) \/ Fails(c, q)
         \/ \E r \in Answers : Says(c, q, r)
  BY EventCases
<1>3. CASE Flushes(c, q)
  BY <1>3, FlushedFrame, EventBase DEF Flushes
<1>4. Idle(Expired(ctx[c])) /\ Expired(ctx[c]).timer = "none"
  BY <1>1 DEF Idle, Expired, Context
<1>5. CASE Ends(c, q)
  BY <1>4, <1>5, EventBase DEF Ends
<1>6. CASE Fails(c, q)
  BY <1>4, <1>6, EventBase DEF Fails
<1>7. CASE Hushes(c, q)
  <2> DEFINE n == [ctx[c] EXCEPT !.timer = "none"]
  <2>1. n.timer = "none"
    BY <1>1 DEF Context
  <2>2. Event(c, n, q, rs, joined) /\ Idle(n)
    BY <1>7, <2>1 DEF Hushes, Idle
  <2> HIDE DEF n
  <2> QED BY <2>1, <2>2, EventBase
<1>8. ASSUME NEW r \in Answers, Says(c, q, r) PROVE CommandInv' /\ ReplyInv'
  <2>1. Heard(ctx[c], r).timer = "none" /\ Idle(Heard(ctx[c], r))
    BY <1>1, HeardFrame DEF Idle
  <2> QED BY <1>8, <2>1, EventBase DEF Says
<1> QED BY <1>2, <1>3, <1>5, <1>6, <1>7, <1>8

-----------------------------------------------------------------------------
(* The contexts after a command *)

\* A child that is sent the command waits for the flush; the timers of the others
\* stay.  A child in a message was in one before or is asked for the sender, and
\* it has the command; a child that was kept in a message stays in it.
LEMMA ServedFrame ==
    ASSUME IdleInv, \A d \in Child : Idle(ctx[d]), NEW x \in EnvelopeCommand,
           NEW stop \in SUBSET Targets(x), x \in {"data", "unknown"} => stop = {},
           NEW c \in Child
    PROVE  LET k == ctx[c]
               n == Served(x, stop, c)
           IN  /\ c \in Sends(x, stop) =>
                     /\ n.timer = "writing" /\ n.next # <<>> /\ LastWritten(n) = x /\ ~n.quitted
                     /\ x = "envelope-from" => n.pmsg
               /\ c \notin Sends(x, stop) => n.timer = k.timer
               /\ k.quitted => n.quitted
               /\ Processing(n) => Processing(k) \/ x = "envelope-from"
               /\ Processing(n) /\ x \in {"envelope-from", "envelope-recipient", "data"} =>
                     c \in Targets(x)
               /\ x \in MessageCommand \cup {"unknown"} /\ Kept(k)
                  /\ (x = "data" => c \in Targets(x)) => Kept(n)
<1> USE DEF IdleInv
<1> DEFINE k == ctx[c]
           n == Served(x, stop, c)
           b == [Note(x, k) EXCEPT !.state = x]
<1>1. k \in Context /\ x \in Slot /\ x # "abort"
  BY DEF TypeOK, Slot, EnvelopeCommand
<1>2. Busy(x, stop) = {}
  BY ServedIdle
<1>3. /\ stop \subseteq Targets(x) /\ Skips(x, stop) \subseteq Targets(x)
      /\ Sends(x, stop) = Targets(x) \ (stop \cup Skips(x, stop))
      /\ Skips(x, stop) \cap stop = {}
  BY <1>2 DEF Skips, Sends
<1>4. c \in Targets(x) => ~k.quitted /\ (x \in MessageCommand => k.pmsg)
  BY DEF Targets, Ready, Processing
<1>5. ~k.quitted /\ x = "envelope-from" => c \in Targets(x)
  BY DEF Targets, Ready, MessageCommand
<1>6. Processing(k) /\ x = "envelope-recipient" => c \in Targets(x)
  BY DEF Targets, Ready, MessageCommand
<1>7. Ready(x, k) /\ c \notin Targets(x) => x = "data"
  BY DEF Targets
<1>8. Processing(k) /\ x = "data" => Ready(x, k)
  BY DEF Ready, MessageCommand
<1>9. /\ Begin(x, k) \in Context /\ Begin(x, k).next = k.next /\ Begin(x, k).quitted = k.quitted
      /\ Begin(x, k).timer = k.timer
      /\ Begin(x, k).pmsg = IF x = "envelope-from" THEN TRUE ELSE k.pmsg
  <2>1. Note(x, k) \in Context /\ Begin(x, k) \in Context
    BY <1>1, ContextOps
  <2>2. Note(x, k).next = k.next /\ Note(x, k).quitted = k.quitted /\ Note(x, k).timer = k.timer
        /\ Note(x, k).pmsg = k.pmsg
    BY <1>1 DEF Note, Context
  <2> QED BY <2>1, <2>2 DEF Begin, Context
<1>10. /\ b \in Context /\ b.next = k.next /\ b.quitted = k.quitted /\ b.timer = k.timer
       /\ b.pmsg = k.pmsg
  <2>1. Note(x, k) \in Context
    BY <1>1, ContextOps
  <2>2. Note(x, k).next = k.next /\ Note(x, k).quitted = k.quitted /\ Note(x, k).timer = k.timer
        /\ Note(x, k).pmsg = k.pmsg
    BY <1>1 DEF Note, Context
  <2> QED BY <1>1, <2>1, <2>2 DEF Context
<1> HIDE DEF k, b
<1>11. CASE c \in stop
  <2>1. n = Stopped(x, k) /\ c \in Targets(x) /\ c \notin Sends(x, stop)
        /\ x \notin {"data", "unknown"}
    BY <1>2, <1>3, <1>11 DEF Served, k
  <2>2. n = QuitCtx(AbortCtx(b)) \/ (n = Forget(b) /\ x \in {"envelope-from", "envelope-recipient"})
    BY <2>1 DEF Stopped, b, EnvelopeCommand
  <2>3. CASE n = QuitCtx(AbortCtx(b))
    <3>1. AbortCtx(b) \in Context /\ AbortCtx(b).timer = k.timer
      BY <1>10, ContextOps DEF AbortCtx, Context
    <3>2. n.timer = k.timer /\ n.quitted
      BY <2>3, <3>1 DEF QuitCtx, Context
    <3> HIDE DEF n
    <3> QED BY <2>1, <3>2 DEF Processing, Kept, n, k
  <2>4. CASE n = Forget(b) /\ x \in {"envelope-from", "envelope-recipient"}
    <3>1. n.timer = k.timer /\ n.quitted = k.quitted /\ n.pmsg = k.pmsg /\ n.next = k.next
      BY <1>10, <2>4 DEF Forget, Context
    <3> HIDE DEF n
    <3> QED BY <2>1, <3>1 DEF Processing, Kept, n, k
  <2> QED BY <2>2, <2>3, <2>4
<1>12. CASE c \in Skips(x, stop)
  <2>1. n = Skipped(x, k) /\ c \in Targets(x) /\ c \notin Sends(x, stop)
    BY <1>2, <1>3, <1>12 DEF Served, k
  <2>2. n.timer = k.timer /\ n.quitted = k.quitted /\ n.next = k.next
        /\ n.pmsg = IF x = "envelope-from" THEN TRUE ELSE k.pmsg
    BY <1>1, <1>9, <2>1 DEF Skipped, Context
  <2> HIDE DEF n
  <2> QED BY <2>1, <2>2 DEF Processing, Kept, n, k, MessageCommand
<1>13. CASE c \in Sends(x, stop)
  <2>1. n = Write(Begin(x, k), x) /\ c \in Targets(x)
    BY <1>2, <1>3, <1>13 DEF Served, k
  <2>2. n.timer = "writing" /\ n.quitted = k.quitted /\ n.next = Append(k.next, x)
        /\ n.pmsg = IF x = "envelope-from" THEN TRUE ELSE k.pmsg
    BY <1>1, <1>9, <2>1 DEF Write, Context
  <2>3. k.next \in Seq(Slot)
    BY <1>1 DEF Context
  <2> HIDE DEF n
  <2>4. n.next # <<>> /\ LastWritten(n) = x
    BY <1>1, <2>2, <2>3, LastAppended DEF LastWritten
  <2>5. Kept(k) /\ x # "envelope-from" => Kept(n)
    <3>1. ASSUME \A i \in 1..Len(k.next) : k.next[i] # "abort"
          PROVE  \A i \in 1..Len(n.next) : n.next[i] # "abort"
      BY <1>1, <2>2, <2>3, <3>1
    <3> QED BY <2>2, <3>1 DEF Kept
  <2> QED BY <1>4, <1>13, <2>1, <2>2, <2>4, <2>5 DEF Processing, n, k, MessageCommand
<1>14. CASE c \notin Targets(x) /\ Ready(x, k)
  <2>1. n = AbortCtx(k) /\ c \notin Sends(x, stop) /\ x = "data"
    BY <1>2, <1>3, <1>7, <1>14 DEF Served, k
  <2>2. n.timer = k.timer /\ n.quitted = k.quitted /\ ~n.pmsg
    BY <1>1, <2>1 DEF AbortCtx, Context
  <2> HIDE DEF n
  <2> QED BY <1>14, <2>1, <2>2 DEF Processing, n, k
<1>15. CASE c \notin Targets(x) /\ ~Ready(x, k)
  <2>1. n = k /\ c \notin Sends(x, stop)
    BY <1>2, <1>3, <1>15 DEF Served, k
  <2> HIDE DEF n
  <2> QED BY <1>5, <1>6, <1>8, <1>15, <2>1 DEF Processing, n, k
<1> QED BY <1>3, <1>11, <1>12, <1>13, <1>14, <1>15

\* When the MTA may act, no timer runs.
LEMMA FreeIdle ==
    ASSUME IdleInv, CommandInv, MtaFree, NEW c \in Child
    PROVE  Idle(ctx[c]) /\ ctx[c].timer = "none"
BY DEF IdleInv, TimerInv, MtaFree, CommandInv, Idle

\* A command keeps what it means to wait.
LEMMA SendBase ==
    ASSUME IdleInv, CommandInv, "data" \notin StopAt, NEW x \in EnvelopeCommand, SendCommand(x)
    PROVE  CommandInv' /\ ReplyInv'
<1>1. PICK stop \in SUBSET Targets(x) : Sent(x, stop)
  BY SendOutcome
<1>2. MtaFree
  BY DEF SendCommand, MaySend
<1>3. \A c \in Child : Idle(ctx[c]) /\ ctx[c].timer = "none"
  BY <1>2, FreeIdle
<1>4. leader'.cmd = x
  BY <1>1 DEF Sent
<1>5. CommandInv'
  <2> SUFFICES ASSUME NEW c \in Child
               PROVE  /\ ~Idle(ctx'[c]) => Engaged(ctx'[c], x) /\ c \in asked'
                      /\ ctx'[c].quitted => ctx'[c].timer = "none"
    BY <1>4 DEF CommandInv
  <2> DEFINE n == Served(x, stop, c)
  <2>1. ctx'[c] = n /\ asked' = Targets(x) /\ (x \in {"data", "unknown"} => stop = {})
    BY <1>1 DEF Sent
  <2>2. /\ c \in Sends(x, stop) =>
             /\ n.timer = "writing" /\ n.next # <<>> /\ LastWritten(n) = x /\ ~n.quitted
             /\ x = "envelope-from" => n.pmsg
        /\ c \notin Sends(x, stop) => n.timer = ctx[c].timer
    BY <1>3, <2>1, ServedFrame
  <2>3. c \in Sends(x, stop) => c \in Targets(x)
    BY DEF Sends
  <2> HIDE DEF n
  <2> QED BY <1>3, <2>1, <2>2, <2>3 DEF Idle, Engaged
<1>6. ReplyInv'
  <2>1. x \in MessageCommand => Now \in {"from", "rcpt"}
    BY DEF SendCommand, MaySend, MessageCommand
  <2>2. Now # "data"
    BY DEF SendCommand, MaySend, EnvelopeCommand
  <2>3. asked' = Targets(x) /\ phase' = Now /\ pstate' = x
    BY <1>1 DEF Sent
  <2>4. CASE Targets(x) = {} /\ leader' = [cmd |-> x, replied |-> FALSE, packets |-> <<ManagerFallback>>]
    BY <2>3, <2>4, FirstPackets DEF ReplyInv, Waiting
  <2>5. CASE Targets(x) # {} /\ leader' = [cmd |-> x, replied |-> FALSE, packets |-> <<>>]
    BY <2>1, <2>2, <2>3, <2>5, FirstPackets DEF ReplyInv, Waiting
  <2>6. CASE Targets(x) # {} /\ leader' = [cmd |-> x, replied |-> TRUE, packets |-> <<"continue">>]
    BY <2>3, <2>6, FirstPackets DEF ReplyInv, Waiting
  <2> QED BY <1>1, <2>4, <2>5, <2>6 DEF Sent
<1> QED BY <1>5, <1>6

\* What is known of a session when nobody is stopped at DATA
BaseInv == IdleInv /\ CommandInv /\ ReplyInv

\* Every step keeps it.
LEMMA BaseStep ==
    ASSUME "data" \notin StopAt, BaseInv, [Next]_vars
    PROVE  BaseInv'
<1> USE DEF BaseInv
<1>0. IdleInv'
  BY TypeStep, IdleStep DEF IdleInv
<1> SUFFICES CommandInv' /\ ReplyInv'
  BY <1>0
<1>1. ASSUME NEW x \in EnvelopeCommand, RefuseCommand(x)
      PROVE  CommandInv' /\ ReplyInv'
  <2>1. MtaFree /\ ctx' = ctx /\ asked' = {}
    BY <1>1 DEF RefuseCommand, MaySend
  <2>2. leader' = [cmd |-> x, replied |-> TRUE,
                   packets |-> Append(Append(<<>>, ManagerFallback), ManagerFallback)]
    BY <1>1, ConfigAssumption DEF RefuseCommand, Answer, Return, FallbackStatus
  <2>3. leader'.packets # <<>>
    BY <2>2
  <2> QED BY <2>1, <2>3, FreeIdle DEF CommandInv, ReplyInv, Waiting
<1>2. ASSUME NEW x \in EnvelopeCommand, SendCommand(x)
      PROVE  CommandInv' /\ ReplyInv'
  BY <1>2, SendBase
<1>3. CASE MtaAbort
  <2>1. MtaFree /\ ctx' = AbortAll(ctx) /\ asked' = {} /\ leader'.cmd = "abort"
    BY <1>3 DEF MtaAbort
  <2>2. \A c \in Child : AbortAll(ctx)[c].timer = "none"
    BY <2>1, FreeIdle, AbortAllFrame DEF IdleInv, TypeOK
  <2> QED BY <2>1, <2>2 DEF CommandInv, ReplyInv, Waiting, Idle, EnvelopeCommand
<1>4. CASE MtaQuit
  <2>1. leader'.cmd = "quit" /\ leader'.packets = leader.packets /\ asked' = asked
    BY <1>4 DEF MtaQuit, IdleInv, TypeOK
  <2>2. \A c \in Child : ctx'[c].quitted
    BY <1>4 DEF MtaQuit, IdleInv, TypeOK, Context, QuitCtx
  <2> QED BY <2>1, <2>2 DEF CommandInv, ReplyInv, Waiting, Idle, EnvelopeCommand
<1>5. ASSUME NEW c \in Child, ChildNext(c)
      PROVE  CommandInv' /\ ReplyInv'
  BY <1>5, ChildBase
<1>6. CASE UNCHANGED vars
  BY <1>6 DEF vars, CommandInv, ReplyInv, Waiting
<1> QED BY <1>1, <1>2, <1>3, <1>4, <1>5, <1>6 DEF Next, MtaNext

\* A negotiated session has it.
LEMMA BaseInit == Init => BaseInv
<1>1. Init => TypeOK
  BY InitType
<1> QED BY <1>1 DEF Init, BaseInv, IdleInv, BufferInv, TimerInv, Buffered, Idle, CommandInv,
                    ReplyInv, Waiting, EnvelopeCommand

\* If no applicable condition stops a child at DATA, the MTA gets one reply to a
\* command that went to some child, however the children and their connections
\* behave: the leader is in a REPLIED state as soon as a slot was emitted, and no
\* handler writes a reply of its own past it.
THEOREM OneReply ==
    ASSUME "data" \notin StopAt
    PROVE  Spec => []SingleReply
<1>1. Init => BaseInv
  BY BaseInit
<1>2. BaseInv /\ [Next]_vars => BaseInv'
  BY BaseStep
<1>3. BaseInv => SingleReply
  BY DEF BaseInv, ReplyInv, SingleReply
<1> QED BY <1>1, <1>2, <1>3, PTL DEF Spec

-----------------------------------------------------------------------------
(* No ghost messages *)

\* compile_reply_status never weakens a slot.
LEMMA CompileRank ==
    ASSUME NEW s \in Status, NEW t \in Status
    PROVE  /\ Rank[s] \in Int /\ Rank[t] \in Int /\ Rank[Compile(s, t)] \in Int
           /\ Rank[s] <= Rank[Compile(s, t)] /\ Rank[t] <= Rank[Compile(s, t)]
<1>1. \A u \in Status : Rank[u] \in Int
  BY DEF Status, Verdict, Rank
<1>2. Compile(s, t) \in Status
  BY CompileType
<1>3. Compile(s, t) = IF Rank[s] < Rank[t] THEN t ELSE s
  BY CompareIsRank DEF Compile
<1> QED BY <1>1, <1>2, <1>3

\* Only the slot that is compiled changes, and no slot is weakened.
LEMMA CompileAtRank ==
    ASSUME TypeOK, NEW slot \in Slot, NEW st \in Status, NEW s \in Slot
    PROVE  /\ CompileAt(slot, st)[s] = IF s = slot THEN Compile(rs[s], st) ELSE rs[s]
           /\ Rank[rs[s]] \in Int /\ Rank[st] \in Int /\ Rank[CompileAt(slot, st)[s]] \in Int
           /\ Rank[rs[s]] <= Rank[CompileAt(slot, st)[s]]
           /\ s = slot => Rank[st] <= Rank[CompileAt(slot, st)[s]]
<1>1. rs \in [Slot -> Status] /\ rs[s] \in Status
  BY DEF TypeOK
<1>2. CompileAt(slot, st)[s] = IF s = slot THEN Compile(rs[s], st) ELSE rs[s]
  BY <1>1 DEF CompileAt
<1>3. /\ Rank[rs[s]] \in Int /\ Rank[st] \in Int /\ Rank[Compile(rs[s], st)] \in Int
      /\ Rank[rs[s]] <= Rank[Compile(rs[s], st)] /\ Rank[st] <= Rank[Compile(rs[s], st)]
  BY <1>1, CompileRank
<1> QED BY <1>2, <1>3

\* A status of rank 3 or more that does not abort the children leaves the MTA in
\* its message.
LEMMA StaysOpen ==
    ASSUME NEW x \in EnvelopeCommand, NEW ph, NEW v \in Verdict, Open(x, ph),
           x # "unknown" => Rank[v] >= 3, ~AbortsAll(x, v)
    PROVE  After(ph, x, v) \in {"from", "rcpt", "data"}
<1>1. Rank[v] = CASE v = "accept" -> 1 [] v = "skip" -> 2 [] v = "continue" -> 3
                  [] v = "temporary-failure" -> 4 [] v = "reject" -> 5 [] v = "discard" -> 6
  BY DEF Rank, Status, Verdict
<1>2. x # "unknown" => v \notin {"accept", "skip"}
  BY <1>1
<1>3. x # "unknown" =>
         v = "continue" \/ (v \in {"temporary-failure", "reject"} /\ x = "envelope-recipient")
  BY <1>2 DEF Verdict, AbortsAll
<1> QED BY <1>3 DEF Open, After, MessageCommand, EnvelopeCommand

\* An event makes no ghost when the child it is about is in no new message and,
\* if it has answered, has answered at least CONTINUE.
LEMMA GhostEvent ==
    ASSUME BaseInv, GhostInv, NEW c \in Child, NEW k, NEW q, NEW rs1, NEW j,
           Event(c, k, q, rs1, j), Processing(k) => Processing(ctx[c]),
           \A s \in Slot : Rank[rs[s]] <= Rank[rs1[s]] /\ Rank[rs[s]] \in Int /\ Rank[rs1[s]] \in Int,
           Processing(k) /\ Waiting /\ leader.cmd # "unknown" /\ c \notin q =>
               Rank[rs1[leader.cmd]] >= 3
    PROVE  GhostInv'
<1> USE DEF BaseInv
<1> DEFINE f == [ctx EXCEPT ![c] = k]
           x == leader.cmd
<1>1. /\ f \in [Child -> Context] /\ f[c] = k
      /\ \A d \in Child : d # c => f[d] = ctx[d]
      /\ ctx' = f \/ (q = {} /\ ctx' = AbortAll(f) /\ \A d \in Child : Idle(f[d]))
  BY EventContexts
<1>2. /\ leader'.cmd = leader.cmd
      /\ \/ leader' = leader
         \/ /\ q = {} /\ rs1[pstate] \in Verdict /\ ~leader.replied
            /\ leader' = Told(leader, rs1[pstate])
  BY EventLeader
<1>3. /\ asked' = asked /\ phase' = phase /\ queue' = q /\ rs' = rs1
      /\ q = queue \/ q = queue \ {c}
  BY DEF Event, Stays, Removed
<1>4. leader' # leader /\ q = {} /\ AbortsAll(pstate, rs1[pstate]) => ctx' = AbortAll(f)
  BY DEF Event, Stays, Removed
<1> HIDE DEF f
<1> SUFFICES ASSUME x # "quit", NEW d \in Child, Processing(ctx'[d])
             PROVE  /\ InMessage'
                    /\ Waiting' /\ x # "unknown" /\ d \notin q => Rank[rs1[x]] >= 3
  BY <1>2, <1>3 DEF GhostInv
<1>5. ctx' # AbortAll(f)
  BY <1>1, AbortAllFrame
<1>6. Processing(f[d]) /\ Processing(ctx[d])
  BY <1>1, <1>5
<1>7. InMessage /\ (Waiting /\ x # "unknown" /\ d \notin queue => Rank[rs[x]] >= 3)
  BY <1>6 DEF GhostInv
<1>8. x \in Slot
  BY DEF IdleInv, TypeOK
<1>9. Waiting /\ x # "unknown" /\ d \notin q => Rank[rs1[x]] >= 3
  <2>1. CASE d = c
    BY <1>1, <1>6, <2>1
  <2>2. CASE d # c
    BY <1>3, <1>7, <1>8, <2>2
  <2> QED BY <2>1, <2>2
<1>10. CASE leader' = leader
  BY <1>3, <1>7, <1>9, <1>10 DEF InMessage, Waiting, Now
<1>11. CASE leader' # leader
  <2>1. q = {} /\ rs1[pstate] \in Verdict /\ leader' = Told(leader, rs1[pstate])
        /\ ~AbortsAll(pstate, rs1[pstate])
    BY <1>2, <1>4, <1>5, <1>11
  <2>2. /\ x \in EnvelopeCommand => leader'.packets # <<>>
        /\ x \in EnvelopeCommand /\ leader.packets = <<>> => leader'.packets[1] = rs1[pstate]
        /\ x \in EnvelopeCommand /\ leader.packets # <<>> => leader'.packets[1] = leader.packets[1]
        /\ x \notin EnvelopeCommand => leader'.packets = leader.packets
    BY <2>1, ToldFrame DEF IdleInv
  <2>3. ~Waiting' /\ InMessage' = (Now' \in {"from", "rcpt", "data"})
    BY <1>2, <2>2 DEF Waiting, InMessage
  <2>4. CASE ~Waiting
    <3>1. Now' = Now
      BY <1>2, <1>3, <2>2, <2>4 DEF Now, Waiting
    <3> QED BY <1>7, <2>3, <2>4, <3>1 DEF InMessage
  <2>5. CASE Waiting
    <3>1. pstate = x /\ x \in EnvelopeCommand /\ leader.packets = <<>>
      BY <2>5 DEF ReplyInv, Waiting
    <3>2. Now' = After(phase, x, rs1[x])
      BY <1>2, <1>3, <2>2, <3>1 DEF Now
    <3>3. Open(x, phase)
      BY <1>7, <2>5 DEF InMessage
    <3>4. x # "unknown" => Rank[rs1[x]] >= 3
      BY <1>9, <2>1, <2>5
    <3>5. After(phase, x, rs1[x]) \in {"from", "rcpt", "data"}
      <4> HIDE DEF x
      <4> QED BY <2>1, <3>1, <3>3, <3>4, StaysOpen
    <3> QED BY <2>3, <3>2, <3>5
  <2> QED BY <2>4, <2>5
<1> QED BY <1>10, <1>11

\* A living child that answers has the command the MTA waits for.
LEMMA SpeaksToCommand ==
    ASSUME BaseInv, NEW c \in Child, ctx[c].timer = "reading", ~ctx[c].quitted
    PROVE  /\ Waiting /\ c \in queue /\ c \in asked /\ ctx[c].state = leader.cmd
           /\ ctx[c].next = <<>> /\ (leader.cmd = "envelope-from" => ctx[c].pmsg)
           /\ leader.cmd \in EnvelopeCommand
BY DEF BaseInv, IdleInv, TimerInv, CommandInv, Engaged, Idle, Waiting

\* The connections of the children make no ghosts, if no child is evaluated.
LEMMA ChildGhost ==
    ASSUME BaseInv, GhostInv, Evaluation = {}, NEW c \in Child, ChildNext(c)
    PROVE  GhostInv'
<1>1. ctx[c] \in Context /\ TypeOK /\ ctx[c].state \in Slot
  BY DEF BaseInv, IdleInv, TypeOK, Context
<1>2. PICK q \in SUBSET Child :
         \/ Flushes(c, q) \/ Ends(c, q) \/ Hushes(c, q) \/ Fails(c, q)
         \/ \E r \in Answers : Says(c, q, r)
  BY EventCases DEF BaseInv
<1>3. \A s \in Slot : Rank[rs[s]] <= Rank[rs[s]] /\ Rank[rs[s]] \in Int
  BY <1>1, CompileRank DEF TypeOK
<1>4. CASE Flushes(c, q)
  <2>1. Processing(Flushed(ctx[c])) => Processing(ctx[c])
    BY <1>4, FlushedFrame DEF Flushes, BaseInv
  <2>2. /\ Event(c, Flushed(ctx[c]), q, rs, joined) /\ q = queue
    BY <1>4 DEF Flushes
  <2>3. Processing(Flushed(ctx[c])) /\ Waiting /\ leader.cmd # "unknown" /\ c \notin q =>
            Rank[rs[leader.cmd]] >= 3
    BY <2>1, <2>2 DEF GhostInv, Waiting, EnvelopeCommand
  <2> QED BY <1>3, <2>1, <2>2, <2>3, GhostEvent
<1>5. ~Processing(Expired(ctx[c]))
  BY <1>1 DEF Processing, Expired, Context
<1>6. CASE Ends(c, q)
  BY <1>3, <1>5, <1>6, GhostEvent DEF Ends
<1>7. CASE Fails(c, q)
  <2>1. Fallback[c] \in Status
    BY FallbackType
  <2>2. \A s \in Slot : LET n == CompileAt(ctx[c].state, Fallback[c])[s]
                        IN Rank[rs[s]] <= Rank[n] /\ Rank[rs[s]] \in Int /\ Rank[n] \in Int
    BY <1>1, <2>1, CompileAtRank
  <2> QED BY <1>5, <1>7, <2>2, GhostEvent DEF Fails
<1>8. CASE Hushes(c, q)
  <2> DEFINE n == [ctx[c] EXCEPT !.timer = "none"]
  <2>1. ~Processing(n)
    BY <1>1, <1>8 DEF Processing, Hushes, Context
  <2>2. Event(c, n, q, rs, joined)
    BY <1>8 DEF Hushes
  <2> HIDE DEF n
  <2> QED BY <1>3, <2>1, <2>2, GhostEvent
<1>9. ASSUME NEW r \in Answers, Says(c, q, r) PROVE GhostInv'
  <2> DEFINE h == Heard(ctx[c], r)
             rs1 == CompileAt(ctx[c].state, r)
  <2>1. Effective(c, r) = r /\ r \in Verdict /\ r # "skip" /\ r \in Status
    BY ConfigAssumption DEF Effective, Status
  <2>2. ctx[c].timer = "reading" /\ ~ctx[c].quitted /\ \E j : Event(c, h, q, rs1, j)
    BY <1>9, <2>1 DEF Says
  <2>3. Waiting /\ ctx[c].state = leader.cmd /\ leader.cmd \in EnvelopeCommand
    BY <2>2, SpeaksToCommand
  <2>4. /\ h.pmsg => ctx[c].pmsg
        /\ Processing(h) => r = "continue" \/ (ctx[c].state = "envelope-recipient" /\ r # "accept")
    BY <1>1, <2>3, HeardFrame
  <2>5. \A s \in Slot : /\ Rank[rs[s]] <= Rank[rs1[s]] /\ Rank[rs[s]] \in Int /\ Rank[rs1[s]] \in Int
                        /\ s = ctx[c].state => Rank[r] <= Rank[rs1[s]]
    BY <1>1, <2>1, CompileAtRank
  <2>6. Processing(h) => Processing(ctx[c]) /\ Rank[r] >= 3
    <3>1. r \notin {"accept", "skip"} => Rank[r] >= 3
      BY <2>1 DEF Rank, Status, Verdict
    <3> QED BY <2>1, <2>2, <2>4, <3>1 DEF Processing
  <2>7. Processing(h) => Rank[rs1[leader.cmd]] >= 3
    <3>1. Rank[r] \in Int
      BY <2>1, CompileRank
    <3> QED BY <1>1, <2>3, <2>5, <2>6, <3>1
  <2> HIDE DEF h, rs1
  <2> QED BY <2>2, <2>5, <2>6, <2>7, GhostEvent
<1> QED BY <1>2, <1>4, <1>6, <1>7, <1>8, <1>9

\* A command makes no ghosts.
LEMMA SendGhost ==
    ASSUME BaseInv, GhostInv, "data" \notin StopAt, NEW x \in EnvelopeCommand, SendCommand(x)
    PROVE  GhostInv'
<1> USE DEF BaseInv
<1>1. PICK stop \in SUBSET Targets(x) : Sent(x, stop)
  BY SendOutcome
<1>2. MaySend(x) /\ MtaFree
  BY DEF SendCommand, MaySend
<1>3. \A c \in Child : Idle(ctx[c])
  BY <1>2, FreeIdle
<1>4. /\ x \in {"data", "unknown"} => stop = {}
      /\ phase' = Now /\ ctx' = [c \in Child |-> Served(x, stop, c)] /\ queue' = Awaited(x, stop)
      /\ rs'[x] = SlotAtOnce(x, stop) /\ leader'.cmd = x
  BY <1>1 DEF Sent
<1> SUFFICES ASSUME NEW c \in Child, Processing(ctx'[c])
             PROVE  /\ InMessage'
                    /\ Waiting' /\ x # "unknown" /\ c \notin queue' => Rank[rs'[x]] >= 3
  BY <1>4 DEF GhostInv
<1>5. /\ Processing(ctx[c]) \/ x = "envelope-from"
      /\ x \in {"envelope-from", "envelope-recipient", "data"} => c \in Targets(x)
  <2>1. ctx'[c] = Served(x, stop, c)
    BY <1>4
  <2> QED BY <1>3, <1>4, <2>1, ServedFrame
<1>6. Open(x, Now)
  <2>1. CASE x = "envelope-from"
    BY <2>1 DEF Open
  <2>2. CASE x # "envelope-from"
    <3>1. leader.cmd # "quit" /\ ~Waiting
      BY <1>2 DEF MtaFree
    <3>2. Now \in {"from", "rcpt", "data"}
      BY <1>5, <2>2, <3>1 DEF GhostInv, InMessage
    <3> QED BY <1>2, <2>2, <3>2 DEF MaySend, Open, MessageCommand, EnvelopeCommand
  <2> QED BY <2>1, <2>2
<1>7. CASE Targets(x) = {} /\ x = "data"
  BY <1>5, <1>7
<1>8. CASE Targets(x) # {} /\ leader' = [cmd |-> x, replied |-> FALSE, packets |-> <<>>]
  <2>1. Waiting' /\ InMessage'
    BY <1>4, <1>6, <1>8 DEF Waiting, InMessage
  <2>2. ASSUME x # "unknown", c \notin Awaited(x, stop) PROVE SlotAtOnce(x, stop) = "continue"
    <3>1. x \in {"envelope-from", "envelope-recipient", "data"}
      BY <1>6, <2>2 DEF Open, MessageCommand
    <3>2. Busy(x, stop) = {}
      BY <1>3, ServedIdle DEF IdleInv
    <3>3. c \in stop \/ c \in Skips(x, stop)
      BY <1>5, <2>2, <3>1, <3>2 DEF Awaited, Sends
    <3> QED BY <1>4, <3>1, <3>3 DEF SlotAtOnce, Mails
  <2>3. Rank["continue"] = 3
    BY DEF Rank, Status, Verdict
  <2> QED BY <1>4, <2>1, <2>2, <2>3
<1>9. CASE leader' = [cmd |-> x, replied |-> TRUE, packets |-> <<"continue">>]
  <2>1. ~Waiting' /\ leader'.packets[1] = "continue"
    BY <1>9, FirstPackets DEF Waiting
  <2>2. Now' = After(Now, x, "continue")
    BY <1>4, <2>1 DEF Now
  <2>3. After(Now, x, "continue") \in {"from", "rcpt", "data"}
    BY <1>6 DEF Open, After, MessageCommand
  <2> QED BY <2>1, <2>2, <2>3 DEF InMessage
<1> QED BY <1>1, <1>7, <1>8, <1>9 DEF Sent

\* Every step keeps GhostInv.
LEMMA GhostStep ==
    ASSUME "data" \notin StopAt, Evaluation = {}, BaseInv, GhostInv, [Next]_vars
    PROVE  GhostInv'
<1>1. ASSUME NEW x \in EnvelopeCommand, RefuseCommand(x) PROVE GhostInv'
  BY <1>1 DEF RefuseCommand, Ready, Processing, GhostInv
<1>2. ASSUME NEW x \in EnvelopeCommand, SendCommand(x) PROVE GhostInv'
  BY <1>2, SendGhost
<1>3. CASE MtaAbort
  BY <1>3, AbortAllFrame DEF MtaAbort, GhostInv, BaseInv, IdleInv, TypeOK
<1>4. CASE MtaQuit
  BY <1>4 DEF MtaQuit, GhostInv, BaseInv, IdleInv, TypeOK
<1>5. ASSUME NEW c \in Child, ChildNext(c) PROVE GhostInv'
  BY <1>5, ChildGhost
<1>6. CASE UNCHANGED vars
  BY <1>6 DEF vars, GhostInv, InMessage, Waiting, Now
<1> QED BY <1>1, <1>2, <1>3, <1>4, <1>5, <1>6 DEF Next, MtaNext

\* If no applicable condition stops a child at DATA and no child is in evaluation
\* mode, then however the connections fail no child believes to be inside a
\* message when the MTA is between messages: every way out of a message ends it
\* for every child.  (An evaluated child keeps the message whose recipient it
\* refused, while its refusal counts as ACCEPT.)
THEOREM NoGhost ==
    ASSUME "data" \notin StopAt, Evaluation = {}
    PROVE  Spec => []NoGhostMessage
<1>1. Init => BaseInv /\ GhostInv
  BY BaseInit DEF Init, GhostInv, Processing
<1>2. BaseInv /\ GhostInv /\ [Next]_vars => BaseInv' /\ GhostInv'
  BY BaseStep, GhostStep
<1>3. GhostInv => NoGhostMessage
  BY DEF GhostInv, NoGhostMessage, InMessage
<1> QED BY <1>1, <1>2, <1>3, PTL DEF Spec

-----------------------------------------------------------------------------
(* Nobody drops out of a message *)

\* An answer that leaves the MTA in a message found it in one.
LEMMA WasOpen ==
    ASSUME NEW x \in EnvelopeCommand, NEW ph, NEW v, x \in MessageCommand => ph \in {"from", "rcpt"},
           ph # "data", After(ph, x, v) \in {"from", "rcpt", "data"}
    PROVE  Open(x, ph)
BY DEF Open, After, MessageCommand, EnvelopeCommand

\* The MTA is not brought into a message by an event.
LEMMA EventMessage ==
    ASSUME BaseInv, NEW c \in Child, NEW k, NEW q, NEW rs1, NEW j, Event(c, k, q, rs1, j), InMessage'
    PROVE  InMessage
<1> USE DEF BaseInv
<1> DEFINE x == leader.cmd
<1>1. /\ leader'.cmd = leader.cmd
      /\ \/ leader' = leader
         \/ /\ q = {} /\ rs1[pstate] \in Verdict /\ ~leader.replied
            /\ leader' = Told(leader, rs1[pstate])
  BY EventLeader
<1>2. phase' = phase
  BY DEF Event
<1>3. CASE leader' = leader
  BY <1>2, <1>3 DEF InMessage, Waiting, Now
<1>4. CASE rs1[pstate] \in Verdict /\ leader' = Told(leader, rs1[pstate])
  <2>1. /\ x \in EnvelopeCommand => leader'.packets # <<>>
        /\ x \in EnvelopeCommand /\ leader.packets = <<>> => leader'.packets[1] = rs1[pstate]
        /\ x \in EnvelopeCommand /\ leader.packets # <<>> => leader'.packets[1] = leader.packets[1]
        /\ x \notin EnvelopeCommand => leader'.packets = leader.packets
    BY <1>4, ToldFrame DEF IdleInv
  <2>2. Now' \in {"from", "rcpt", "data"}
    BY <1>1, <2>1 DEF Waiting, InMessage
  <2>3. CASE ~Waiting
    <3>1. Now' = Now
      BY <1>1, <1>2, <2>1, <2>3 DEF Now, Waiting
    <3> QED BY <2>2, <2>3, <3>1 DEF InMessage
  <2>4. CASE Waiting
    <3>1. /\ x \in EnvelopeCommand /\ leader.packets = <<>> /\ phase # "data"
          /\ x \in MessageCommand => phase \in {"from", "rcpt"}
      BY <2>4 DEF ReplyInv, Waiting
    <3>2. After(phase, x, rs1[pstate]) \in {"from", "rcpt", "data"}
      BY <1>1, <1>2, <2>1, <2>2, <3>1 DEF Now
    <3> HIDE DEF x
    <3>3. Open(x, phase)
      BY <3>1, <3>2, WasOpen
    <3> QED BY <2>4, <3>3 DEF InMessage, x
  <2> QED BY <2>3, <2>4
<1> QED BY <1>1, <1>3, <1>4

\* An event that compiles no late verdict and aborts no buffered message.
LEMMA DropEvent ==
    ASSUME BaseInv, QuietInv, DropInv, NEW c \in Child, NEW k, NEW q, NEW rs1, NEW j,
           Event(c, k, q, rs1, j),
           leader.cmd # "quit" => rs1 = rs \/ (Waiting /\ rs1["abort"] = rs["abort"]),
           leader.cmd # "quit" /\ InMessage => \A d \in j : Kept([ctx EXCEPT ![c] = k][d])
    PROVE  QuietInv' /\ DropInv'
<1> USE DEF BaseInv
<1> DEFINE f == [ctx EXCEPT ![c] = k]
           stop == q = {} /\ AbortsAll(pstate, rs1[pstate])
<1>1. /\ leader'.cmd = leader.cmd
      /\ \/ leader' = leader
         \/ /\ q = {} /\ rs1[pstate] \in Verdict /\ ~leader.replied
            /\ leader' = Told(leader, rs1[pstate])
  BY EventLeader
<1>2. CASE leader.cmd = "quit"
  BY <1>1, <1>2 DEF QuietInv, DropInv
<1>3. CASE leader.cmd # "quit"
  <2>1. rs' = rs1 /\ rs1["abort"] = "not-change" /\ (~Waiting => rs1 = rs)
    BY <1>3 DEF Event, Stays, Removed, QuietInv
  <2>2. ~Waiting => ~Waiting' /\ ~AbortsAll(pstate, rs1[pstate])
    <3>1. leader' = Told(leader, rs1[pstate]) /\ rs1[pstate] \in Verdict /\ ~Waiting => ~Waiting'
      BY ToldFrame DEF Waiting, IdleInv
    <3> QED BY <1>1, <1>3, <2>1, <3>1 DEF QuietInv, Waiting
  <2>3. CASE Stays(q, rs1, f, j)
    <3>1. ctx' = f /\ joined' = j /\ leader' = leader /\ pstate' = pstate
      BY <2>3 DEF Stays
    <3>2. QuietInv'
      BY <2>1, <2>2, <3>1 DEF QuietInv, Waiting
    <3>3. DropInv'
      BY <1>3, <3>1, EventMessage DEF DropInv
    <3> QED BY <3>2, <3>3
  <2>4. CASE Removed(q, rs1, f, j) /\ stop
    <3>1. Waiting /\ ~leader.replied
      BY <2>2, <2>4 DEF ReplyInv
    <3>2. pstate' = "abort" /\ joined' = {}
      BY <2>4, <3>1 DEF Removed
    <3> QED BY <2>1, <3>2 DEF QuietInv, DropInv, AbortsAll
  <2>5. CASE Removed(q, rs1, f, j) /\ ~stop
    <3>1. ctx' = f /\ joined' = j /\ pstate' = pstate
          /\ leader' = IF q = {} /\ rs1[pstate] # "not-change" /\ ~leader.replied
                       THEN Told(leader, rs1[pstate]) ELSE leader
      BY <2>5 DEF Removed
    <3>2. ~Waiting' => ~AbortsAll(pstate, rs1[pstate])
      <4>1. CASE q = {}
        BY <2>5, <4>1
      <4>2. CASE q # {}
        BY <2>2, <3>1, <4>2 DEF Waiting
      <4> QED BY <4>1, <4>2
    <3>3. QuietInv'
      BY <2>1, <3>1, <3>2 DEF QuietInv
    <3>4. DropInv'
      BY <1>3, <3>1, EventMessage DEF DropInv
    <3> QED BY <3>3, <3>4
  <2> QED BY <2>3, <2>4, <2>5 DEF Event
<1> QED BY <1>2, <1>3

\* The connections of the children drop nobody, if they only fail while an answer
\* is awaited.
LEMMA ChildDrop ==
    ASSUME BaseInv, QuietInv, DropInv, Faults \subseteq {"reading"}, NEW c \in Child, ChildNext(c)
    PROVE  QuietInv' /\ DropInv'
<1>1. ctx[c] \in Context /\ TypeOK /\ ctx \in [Child -> Context] /\ joined \subseteq Child
  BY DEF BaseInv, IdleInv, TypeOK
<1>2. PICK q \in SUBSET Child :
         \/ Flushes(c, q) \/ Ends(c, q) \/ Hushes(c, q) \/ Fails(c, q)
         \/ \E r \in Answers : Says(c, q, r)
  BY EventCases DEF BaseInv
<1>3. ASSUME NEW n, c \in joined /\ Kept(ctx[c]) => Kept(n), leader.cmd # "quit", InMessage
      PROVE  \A d \in joined : Kept([ctx EXCEPT ![c] = n][d])
  BY <1>1, <1>3 DEF DropInv
<1>4. Kept(Expired(ctx[c]))
  BY <1>1 DEF Kept, Expired, Context
<1>5. CASE Flushes(c, q)
  <2>1. Kept(ctx[c]) => Kept(Flushed(ctx[c]))
    BY <1>5, FlushedFrame DEF Flushes, BaseInv
  <2>2. Event(c, Flushed(ctx[c]), q, rs, joined)
    BY <1>5 DEF Flushes
  <2> QED BY <1>3, <2>1, <2>2, DropEvent
<1>6. CASE Ends(c, q)
  BY <1>3, <1>4, <1>6, DropEvent DEF Ends
<1>7. CASE Hushes(c, q)
  <2> DEFINE n == [ctx[c] EXCEPT !.timer = "none"]
  <2>1. Kept(n)
    BY <1>1, <1>7 DEF Kept, Hushes, Context
  <2>2. Event(c, n, q, rs, joined)
    BY <1>7 DEF Hushes
  <2> HIDE DEF n
  <2> QED BY <1>3, <2>1, <2>2, DropEvent
<1>8. CASE Fails(c, q)
  <2>1. ctx[c].timer # "none" /\ ctx[c].next = <<>>
    BY <1>8 DEF Fails, Moment
  <2>2. leader.cmd # "quit" => ctx[c].timer = "reading" /\ ~ctx[c].quitted
    BY <1>1, <2>1 DEF BaseInv, CommandInv, Engaged, Idle, Context
  <2>3. leader.cmd # "quit" => Waiting /\ ctx[c].state \in EnvelopeCommand
    BY <2>2, SpeaksToCommand
  <2>4. leader.cmd # "quit" => CompileAt(ctx[c].state, Fallback[c])["abort"] = rs["abort"]
    <3>1. "abort" \in Slot /\ "abort" \notin EnvelopeCommand /\ EnvelopeCommand \subseteq Slot
      BY DEF Slot, EnvelopeCommand
    <3> QED BY <1>1, <2>3, <3>1, FallbackType, CompileAtRank
  <2>5. Event(c, Expired(ctx[c]), q, CompileAt(ctx[c].state, Fallback[c]), joined)
    BY <1>8 DEF Fails
  <2> QED BY <1>3, <1>4, <2>3, <2>4, <2>5, DropEvent
<1>9. ASSUME NEW r \in Answers, Says(c, q, r) PROVE QuietInv' /\ DropInv'
  <2> DEFINE k == ctx[c]
             h == Heard(k, r)
             rs1 == CompileAt(k.state, Effective(c, r))
             j == CASE k.state = "envelope-from" /\ r = "continue" -> joined \cup {c}
                    [] ~Heard(k, r).pmsg -> joined \ {c}
                    [] OTHER -> joined
  <2>1. k.timer = "reading" /\ ~k.quitted /\ Event(c, h, q, rs1, j)
    BY <1>9 DEF Says
  <2>2. /\ Waiting /\ k.state \in EnvelopeCommand /\ k.next = <<>>
        /\ k.state = "envelope-from" => k.pmsg
    BY <2>1, SpeaksToCommand
  <2>3. rs1["abort"] = rs["abort"]
    <3>1. "abort" \in Slot /\ "abort" \notin EnvelopeCommand /\ EnvelopeCommand \subseteq Slot
      BY DEF Slot, EnvelopeCommand
    <3>2. Effective(c, r) \in Status
      BY EffectiveType DEF Status
    <3> QED BY <1>1, <2>2, <3>1, <3>2, CompileAtRank
  <2>4. (h.quitted \/ h.next = k.next) /\ (r = "continue" => h.pmsg = k.pmsg)
    BY <1>1, HeardFrame
  <2>5. h.pmsg => Kept(h)
    BY <2>2, <2>4 DEF Kept
  <2>6. j \subseteq joined \cup {c} /\ (c \in j => h.pmsg)
    BY <2>2, <2>4
  <2> HIDE DEF h, rs1, j, k
  <2>7. ASSUME leader.cmd # "quit", InMessage, NEW d \in j
        PROVE  Kept([ctx EXCEPT ![c] = h][d])
    <3>1. CASE d = c
      BY <1>1, <2>5, <2>6, <2>7, <3>1
    <3>2. CASE d # c
      <4>1. d \in joined /\ d \in Child
        BY <1>1, <2>6, <2>7, <3>2
      <4>2. Kept(ctx[d]) /\ [ctx EXCEPT ![c] = h][d] = ctx[d]
        BY <1>1, <2>7, <3>2, <4>1 DEF DropInv
      <4> QED BY <4>2
    <3> QED BY <3>1, <3>2
  <2> QED BY <2>1, <2>2, <2>3, <2>7, DropEvent
<1> QED BY <1>2, <1>5, <1>6, <1>7, <1>8, <1>9

\* A command drops nobody, if everybody is sent the sender.
LEMMA SendDrop ==
    ASSUME BaseInv, QuietInv, DropInv, "data" \notin StopAt,
           \A c \in Child : "envelope-from" \notin NoStep[c],
           NEW x \in EnvelopeCommand, SendCommand(x)
    PROVE  QuietInv' /\ DropInv'
<1> USE DEF BaseInv
<1>1. PICK stop \in SUBSET Targets(x) : Sent(x, stop)
  BY SendOutcome
<1>2. MaySend(x) /\ MtaFree /\ leader.cmd # "quit" /\ ~Waiting
  BY DEF SendCommand, MaySend, MtaFree
<1>3. \A c \in Child : Idle(ctx[c])
  BY <1>2, FreeIdle
<1>4. /\ x \in {"data", "unknown"} => stop = {}
      /\ phase' = Now /\ ctx' = [c \in Child |-> Served(x, stop, c)]
      /\ rs'[x] = SlotAtOnce(x, stop) /\ leader'.cmd = x /\ pstate' = x
      /\ \A s \in Slot : s # x => rs'[s] = rs[s]
      /\ joined' = IF x = "envelope-from" THEN Skips(x, stop)
                   ELSE IF x = "data" THEN joined \cap Targets(x) ELSE joined
  BY <1>1 DEF Sent
<1>5. QuietInv'
  <2>1. "abort" \in Slot /\ x # "abort"
    BY DEF Slot, EnvelopeCommand
  <2>2. ~AbortsAll(x, SlotAtOnce(x, stop))
    BY DEF AbortsAll, SlotAtOnce
  <2> QED BY <1>2, <1>4, <2>1, <2>2 DEF QuietInv
<1>6. DropInv'
  <2> SUFFICES ASSUME InMessage', NEW c \in joined' PROVE Kept(ctx'[c])
    BY DEF DropInv
  <2>1. CASE x = "envelope-from"
    <3>1. c \in Child /\ x \in NoStep[c]
      BY <1>4, <2>1 DEF Skips, Targets
    <3> QED BY <2>1, <3>1
  <2>2. CASE x \in MessageCommand \cup {"unknown"}
    <3>1. c \in joined /\ (x = "data" => c \in Targets(x)) /\ c \in Child
      BY <1>4, <2>2 DEF MessageCommand, IdleInv, TypeOK
    <3>2. Now \in {"from", "rcpt"}
      <4>1. CASE x \in MessageCommand
        BY <1>2, <4>1 DEF MaySend, MessageCommand
      <4>2. CASE x = "unknown"
        <5>1. Now \in {"connected", "greeted", "from", "rcpt"}
          BY <1>2, <4>2 DEF MaySend
        <5>2. Now' = IF leader'.packets = <<>> THEN Now' ELSE Now
          BY <1>4, <4>2 DEF Now, After, EnvelopeCommand
        <5>3. IF Waiting' THEN Open(x, Now) ELSE Now' \in {"from", "rcpt", "data"}
          BY <1>4 DEF InMessage
        <5>4. Waiting' = (leader'.packets = <<>>)
          BY <1>4 DEF Waiting
        <5> QED BY <4>2, <5>1, <5>2, <5>3, <5>4 DEF Open
      <4> QED BY <2>2, <4>1, <4>2
    <3>3. Kept(ctx[c])
      BY <1>2, <3>1, <3>2 DEF DropInv, InMessage
    <3>4. ctx'[c] = Served(x, stop, c)
      BY <1>4, <3>1
    <3> QED BY <1>3, <1>4, <2>2, <3>1, <3>3, <3>4, ServedFrame
  <2>3. CASE x \in {"connect", "helo"}
    <3>1. ~Open(x, phase')
      BY <2>3 DEF Open, MessageCommand
    <3>2. \A r : After(phase', x, r) \notin {"from", "rcpt", "data"}
      BY <2>3 DEF After
    <3>3. ~InMessage'
      BY <1>4, <3>1, <3>2 DEF InMessage, Now, Waiting
    <3> QED BY <3>3
  <2> QED BY <2>1, <2>2, <2>3 DEF EnvelopeCommand, MessageCommand
<1> QED BY <1>5, <1>6

\* Every step keeps QuietInv and DropInv.
LEMMA DropStep ==
    ASSUME "data" \notin StopAt, Faults \subseteq {"reading"},
           \A c \in Child : "envelope-from" \notin NoStep[c],
           BaseInv, QuietInv, DropInv, [Next]_vars
    PROVE  QuietInv' /\ DropInv'
<1>1. ASSUME NEW x \in EnvelopeCommand, RefuseCommand(x) PROVE QuietInv' /\ DropInv'
  <2>1. /\ MaySend(x) /\ leader.cmd # "quit" /\ ~Waiting /\ phase' = Now
        /\ pstate' = pstate /\ rs' = rs /\ ctx' = ctx /\ joined' = joined
    BY <1>1 DEF RefuseCommand, MaySend, MtaFree
  <2>2. leader' = [cmd |-> x, replied |-> TRUE,
                   packets |-> Append(Append(<<>>, ManagerFallback), ManagerFallback)]
    BY <1>1, ConfigAssumption DEF RefuseCommand, Answer, Return, FallbackStatus
  <2>3. leader'.packets # <<>> /\ leader'.packets[1] = ManagerFallback /\ leader'.cmd = x
    BY <2>2
  <2>4. ManagerFallback # "continue"
    BY ConfigAssumption DEF FallbackStatus
  <2>5. After(Now, x, ManagerFallback) \in {"from", "rcpt", "data"} => Now \in {"from", "rcpt", "data"}
    BY <2>4 DEF After, EnvelopeCommand
  <2>6. InMessage' => InMessage
    BY <2>1, <2>3, <2>5 DEF InMessage, Waiting, Now
  <2> QED BY <2>1, <2>6 DEF QuietInv, DropInv
<1>2. ASSUME NEW x \in EnvelopeCommand, SendCommand(x) PROVE QuietInv' /\ DropInv'
  BY <1>2, SendDrop
<1>3. CASE MtaAbort
  <2>1. leader.cmd # "quit" /\ leader'.cmd = "abort" /\ phase' = "greeted" /\ rs' = rs
        /\ pstate' = "abort"
    BY <1>3 DEF MtaAbort, MtaFree
  <2>2. ~InMessage'
    BY <2>1 DEF InMessage, Waiting, Now, EnvelopeCommand
  <2> QED BY <2>1, <2>2 DEF QuietInv, DropInv, AbortsAll
<1>4. CASE MtaQuit
  BY <1>4 DEF MtaQuit, QuietInv, DropInv, BaseInv, IdleInv, TypeOK
<1>5. ASSUME NEW c \in Child, ChildNext(c) PROVE QuietInv' /\ DropInv'
  BY <1>5, ChildDrop
<1>6. CASE UNCHANGED vars
  BY <1>6 DEF vars, QuietInv, DropInv, InMessage, Waiting, Now
<1> QED BY <1>1, <1>2, <1>3, <1>4, <1>5, <1>6 DEF Next, MtaNext

\* If no applicable condition stops a child at DATA, every child is sent the
\* sender, and connections only fail while an answer is awaited, then every
\* living child that took part in the message the MTA is in still processes it.
\* (A connection that fails later puts its fallback into a slot that was already
\* answered, which aborts the others; an ABORT that is still unflushed when a
\* sender is skipped resets the new message.)
THEOREM NobodyDropped ==
    ASSUME "data" \notin StopAt, Faults \subseteq {"reading"},
           \A c \in Child : "envelope-from" \notin NoStep[c]
    PROVE  Spec => []NobodyDropsOut
<1>1. Init => BaseInv /\ QuietInv /\ DropInv
  <2>1. Init => QuietInv /\ DropInv
    BY DEF Init, QuietInv, DropInv, AbortsAll, Slot
  <2> QED BY <2>1, BaseInit
<1>2. BaseInv /\ QuietInv /\ DropInv /\ [Next]_vars => BaseInv' /\ QuietInv' /\ DropInv'
  BY BaseStep, DropStep
<1>3. DropInv => NobodyDropsOut
  BY DEF DropInv, NobodyDropsOut, InMessage, Kept
<1> QED BY <1>1, <1>2, <1>3, PTL DEF Spec

-----------------------------------------------------------------------------
(* The session keeps the promise of Session *)

\* The vocabulary of Session is this module's.
LEMMA SameWords ==
    /\ Promise!EnvelopeCommand = EnvelopeCommand /\ Promise!Verdict = Verdict
    /\ Promise!Status = Status /\ Promise!Rank = Rank
    /\ \A S : Promise!Strongest(S) = Strongest(S)
<1>1. /\ Promise!EnvelopeCommand = EnvelopeCommand /\ Promise!Verdict = Verdict
      /\ Promise!Status = Status /\ Promise!Rank = Rank
  BY DEF Promise!EnvelopeCommand, EnvelopeCommand, Promise!Verdict, Verdict, Promise!Status,
         Status, Promise!Rank, Rank
<1>2. \A S : Promise!Strongest(S) = Strongest(S)
  BY <1>1 DEF Promise!Strongest, Strongest
<1> QED BY <1>1, <1>2

\* The answers Session allows when the children A said s
LEMMA MayAnswerIs ==
    ASSUME NEW A, NEW s
    PROVE  /\ A = {} => Promise!MayAnswer(A, s) = {ManagerFallback}
           /\ A # {} /\ (\E c \in A : s[c] = "not-change") => Promise!MayAnswer(A, s) = {"none"}
           /\ A # {} /\ (\A c \in A : s[c] # "not-change") =>
                 Promise!MayAnswer(A, s) = {"none", Strongest({s[c] : c \in A})}
BY SameWords DEF Promise!MayAnswer

\* Session need not answer a command that went to somebody.
LEMMA MayWait ==
    ASSUME NEW A, A # {}, NEW s
    PROVE  "none" \in Promise!MayAnswer(A, s)
<1>1. CASE \E c \in A : s[c] = "not-change"
  BY <1>1, MayAnswerIs
<1>2. CASE \A c \in A : s[c] # "not-change"
  BY <1>2, MayAnswerIs
<1> QED BY <1>1, <1>2

\* The slot st stands for what the children A said.
Verdicts(A, s, st) ==
    /\ st = "not-change" \/ \E c \in A : s[c] = st
    /\ \A c \in A : Rank[s[c]] <= Rank[st]

\* A slot that stands for the verdicts is the answer Session gives.
LEMMA SlotAnswers ==
    ASSUME NEW A, A # {}, NEW s, \A c \in A : s[c] \in Verdict, NEW st \in Verdict, Verdicts(A, s, st)
    PROVE  st \in Promise!MayAnswer(A, s)
<1> DEFINE S == {s[c] : c \in A}
<1>1. S \in SUBSET Status /\ st \in S /\ \A t \in S : Rank[t] <= Rank[st]
  BY DEF Verdicts, Status, Verdict
<1>2. Strongest(S) \in S /\ \A t \in S : Rank[t] <= Rank[Strongest(S)]
  BY <1>1, StrongestExists
<1>3. \A t, u \in Status : Rank[t] <= Rank[u] /\ Rank[u] <= Rank[t] => t = u
  BY DEF Rank, Status, Verdict
<1>4. Strongest(S) = st
  BY <1>1, <1>2, <1>3
<1>5. \A c \in A : s[c] # "not-change"
  BY DEF Verdict
<1> QED BY <1>4, <1>5, MayAnswerIs

\* What the MTA was told is "none" while it waits.
LEMMA AnswerIs ==
    ASSUME TypeOK
    PROVE  /\ Waiting => AnswerGiven = "none"
           /\ Promise!Waiting = Waiting
<1>1. leader.packets \in Seq(Verdict)
  BY DEF TypeOK
<1>2. leader.packets # <<>> => leader.packets[1] \in Verdict
  BY <1>1
<1>3. "none" \notin Verdict
  BY DEF Verdict
<1> QED BY <1>2, <1>3, SameWords DEF AnswerGiven, Waiting, Promise!Waiting

\* Compiling one more verdict into the slot and into what its child said.
LEMMA CompileVerdicts ==
    ASSUME NEW A, NEW s \in [Child -> Status], A \subseteq Child, NEW st \in Status,
           Verdicts(A, s, st), NEW c \in A, NEW e \in Verdict
    PROVE  Verdicts(A, [s EXCEPT ![c] = Compile(@, e)], Compile(st, e))
<1> DEFINE t == [s EXCEPT ![c] = Compile(@, e)]
<1>1. e \in Status /\ \A u \in Status : Compile(u, e) = IF Rank[u] < Rank[e] THEN e ELSE u
  BY CompareIsRank DEF Compile, Status
<1>2. \A u \in Status : Rank[u] \in Int
  BY DEF Status, Verdict, Rank
<1>3. Rank[e] > 0 /\ Rank["not-change"] = 0
  BY DEF Rank, Status, Verdict
<1>4. t[c] = Compile(s[c], e) /\ \A d \in A : d # c => t[d] = s[d]
  OBVIOUS
<1>5. \A d \in A : s[d] \in Status /\ Rank[s[d]] <= Rank[st]
  BY DEF Verdicts
<1> HIDE DEF t
<1>6. \A d \in A : Rank[t[d]] <= Rank[Compile(st, e)]
  BY <1>1, <1>2, <1>4, <1>5
<1>7. CASE Rank[st] < Rank[e]
  <2>1. Compile(st, e) = e /\ t[c] = e
    BY <1>1, <1>2, <1>4, <1>5, <1>7
  <2> QED BY <1>6, <2>1 DEF Verdicts, t
<1>8. CASE ~(Rank[st] < Rank[e])
  <2>1. Compile(st, e) = st /\ st # "not-change"
    BY <1>1, <1>2, <1>3, <1>8
  <2>2. PICK d \in A : s[d] = st
    BY <2>1 DEF Verdicts
  <2>3. t[d] = st
    BY <1>1, <1>4, <1>8, <2>2
  <2> QED BY <1>6, <2>1, <2>3 DEF Verdicts, t
<1> QED BY <1>7, <1>8

\* An event while the MTA waits, after which the slot stands for the verdicts:
\* the MTA goes on waiting or gets the strongest of them.
LEMMA EventAnswers ==
    ASSUME BaseInv, HeardInv', TypeOK', Waiting, NEW c \in Child, NEW k, NEW q, NEW rs1, NEW j,
           Event(c, k, q, rs1, j), Verdicts(asked, said', rs1[leader.cmd])
    PROVE  /\ VerdictInv' /\ leader'.cmd = leader.cmd /\ asked' = asked
           /\ AnswerGiven' \in Promise!MayAnswer(asked, said')
<1> USE DEF BaseInv
<1> DEFINE x == leader.cmd
<1>1. /\ x \in EnvelopeCommand /\ leader.packets = <<>> /\ pstate = x /\ asked # {}
  BY DEF ReplyInv, Waiting
<1>2. /\ leader'.cmd = x
      /\ \/ leader' = leader
         \/ /\ q = {} /\ rs1[pstate] \in Verdict /\ ~leader.replied
            /\ leader' = Told(leader, rs1[pstate])
  BY EventLeader
<1>3. asked' = asked /\ rs' = rs1
  BY DEF Event, Stays, Removed
<1>4. CASE leader' = leader
  <2>1. VerdictInv' /\ AnswerGiven' = "none"
    BY <1>1, <1>3, <1>4 DEF VerdictInv, Verdicts, AnswerGiven, Waiting
  <2>2. "none" \in Promise!MayAnswer(asked, said')
    BY <1>1, MayWait
  <2> QED BY <1>2, <1>3, <2>1, <2>2
<1>5. CASE rs1[pstate] \in Verdict /\ leader' = Told(leader, rs1[pstate])
  <2>1. leader'.packets # <<>> /\ leader'.packets[1] = rs1[x] /\ leader'.replied
    BY <1>1, <1>5, ToldFrame DEF IdleInv
  <2>2. VerdictInv' /\ AnswerGiven' = rs1[x]
    BY <1>1, <1>2, <2>1 DEF VerdictInv, AnswerGiven, Waiting
  <2>3. \A d \in asked : said'[d] \in Verdict
    <3>1. \A d \in asked : said'[d] # "not-change"
      BY <1>1, <1>2, <1>3, <2>1 DEF HeardInv
    <3>2. \A d \in asked : said'[d] \in Status
      BY <1>3 DEF TypeOK
    <3> QED BY <3>1, <3>2 DEF Status
  <2>4. rs1[x] \in Promise!MayAnswer(asked, said')
    BY <1>1, <1>5, <2>3, SlotAnswers
  <2> QED BY <1>2, <1>3, <2>2, <2>4
<1> QED BY <1>2, <1>4, <1>5

\* An event while the MTA does not wait changes nothing that Session knows of.
LEMMA EventStutters ==
    ASSUME BaseInv, ~Waiting, NEW c \in Child, NEW k, NEW q, NEW rs1, NEW j,
           Event(c, k, q, rs1, j)
    PROVE  /\ VerdictInv' /\ leader'.cmd = leader.cmd /\ asked' = asked
           /\ AnswerGiven' = AnswerGiven
<1> USE DEF BaseInv
<1> DEFINE x == leader.cmd
<1>1. /\ leader'.cmd = x
      /\ \/ leader' = leader
         \/ /\ q = {} /\ rs1[pstate] \in Verdict /\ ~leader.replied
            /\ leader' = Told(leader, rs1[pstate])
  BY EventLeader
<1>2. asked' = asked
  BY DEF Event
<1>3. CASE leader' = leader
  BY <1>1, <1>2, <1>3 DEF VerdictInv, Waiting, AnswerGiven
<1>4. CASE rs1[pstate] \in Verdict /\ leader' = Told(leader, rs1[pstate])
  <2>1. /\ x \in EnvelopeCommand => leader'.packets # <<>>
        /\ x \in EnvelopeCommand /\ leader.packets # <<>> => leader'.packets[1] = leader.packets[1]
        /\ x \notin EnvelopeCommand => leader'.packets = leader.packets
    BY <1>4, ToldFrame DEF IdleInv
  <2> QED BY <1>1, <1>2, <2>1 DEF VerdictInv, Waiting, AnswerGiven
<1> QED BY <1>1, <1>3, <1>4

\* A step of Session or none
Implements == [Promise!Next]_(Promise!svars)

\* An event of a child's connection is a verdict, the answer, or nothing.
LEMMA ChildImplements ==
    ASSUME BaseInv, HeardInv, VerdictInv, HeardInv', TypeOK', Faults \subseteq {"reading"},
           NEW c \in Child, ChildNext(c)
    PROVE  VerdictInv' /\ Implements
<1>1. ctx[c] \in Context /\ TypeOK /\ rs \in [Slot -> Status] /\ said \in [Child -> Status]
      /\ asked \subseteq Child
  BY DEF BaseInv, IdleInv, TypeOK
<1>2. PICK q \in SUBSET Child :
         \/ Flushes(c, q) \/ Ends(c, q) \/ Hushes(c, q) \/ Fails(c, q)
         \/ \E r \in Answers : Says(c, q, r)
  BY EventCases DEF BaseInv
<1>3. Promise!Waiting = Waiting
  BY <1>1, AnswerIs
<1>4. ASSUME NEW k, NEW rs1, NEW j, Event(c, k, q, rs1, j), ~Waiting, said' = said
      PROVE  VerdictInv' /\ Implements
  <2>1. /\ VerdictInv' /\ leader'.cmd = leader.cmd /\ asked' = asked
        /\ AnswerGiven' = AnswerGiven
    BY <1>4, EventStutters
  <2> QED BY <1>4, <2>1 DEF Implements, Promise!svars
<1>5. ASSUME NEW k, NEW j, Event(c, k, q, rs, j), said' = said
      PROVE  VerdictInv' /\ Implements
  <2>1. CASE ~Waiting
    BY <1>4, <1>5, <2>1
  <2>2. CASE Waiting
    <3>1. Verdicts(asked, said', rs[leader.cmd])
      BY <1>5, <2>2 DEF VerdictInv, Verdicts
    <3>2. /\ VerdictInv' /\ leader'.cmd = leader.cmd /\ asked' = asked
          /\ AnswerGiven' \in Promise!MayAnswer(asked, said)
      BY <1>5, <2>2, <3>1, EventAnswers
    <3>3. Promise!Decide
      BY <1>3, <1>5, <2>2, <3>2 DEF Promise!Decide
    <3> QED BY <3>2, <3>3 DEF Implements, Promise!Next
  <2> QED BY <2>1, <2>2
<1>6. ASSUME NEW k, NEW e \in Verdict, NEW j, Waiting, c \in asked, ctx[c].state = leader.cmd,
             Hear(c, e), Event(c, k, q, CompileAt(ctx[c].state, e), j)
      PROVE  VerdictInv' /\ Implements
  <2> DEFINE x == leader.cmd
             v == Compile(said[c], e)
  <2>1. x \in Slot /\ e \in Status /\ rs[x] \in Status
    BY <1>1, <1>6 DEF Waiting, Slot, Status
  <2>2. CompileAt(ctx[c].state, e)[x] = Compile(rs[x], e)
    BY <1>1, <1>6, <2>1, CompileAtRank
  <2>3. said' = [said EXCEPT ![c] = Compile(@, e)]
    BY <1>6 DEF Hear
  <2>4. Verdicts(asked, said, rs[x])
    BY <1>6 DEF VerdictInv, Verdicts
  <2>5. Verdicts(asked, said', Compile(rs[x], e))
    BY <1>1, <1>6, <2>1, <2>3, <2>4, CompileVerdicts
  <2>6. /\ VerdictInv' /\ leader'.cmd = leader.cmd /\ asked' = asked
        /\ AnswerGiven' \in Promise!MayAnswer(asked, said')
    BY <1>6, <2>2, <2>5, EventAnswers
  <2>7. v \in Verdict /\ Rank[said[c]] <= Rank[v] /\ said' = [said EXCEPT ![c] = v]
    BY <1>1, <2>1, <2>3, CompileType, CompileRank
  <2> HIDE DEF v
  <2>8. Promise!Hear(c)
    BY <1>3, <1>6, <2>6, <2>7, SameWords DEF Promise!Hear
  <2> QED BY <2>6, <2>8 DEF Implements, Promise!Next
<1>7. CASE Flushes(c, q)
  BY <1>5, <1>7 DEF Flushes
<1>8. CASE Ends(c, q)
  BY <1>5, <1>8 DEF Ends
<1>9. CASE Hushes(c, q)
  BY <1>5, <1>9 DEF Hushes
<1>10. ASSUME NEW r \in Answers, Says(c, q, r) PROVE VerdictInv' /\ Implements
  <2>1. Effective(c, r) \in Verdict
    BY EffectiveType
  <2>2. Waiting /\ c \in asked /\ ctx[c].state = leader.cmd
    BY <1>10, SpeaksToCommand DEF Says
  <2> QED BY <1>6, <1>10, <2>1, <2>2 DEF Says
<1>11. CASE Fails(c, q)
  <2>1. ctx[c].timer # "none" /\ ctx[c].next = <<>>
    BY <1>11 DEF Fails, Moment
  <2>2. Fallback[c] \in Verdict
    BY FallbackType
  <2>3. CASE leader.cmd # "quit"
    <3>1. ctx[c].timer = "reading" /\ ~ctx[c].quitted
      BY <1>1, <2>1, <2>3 DEF BaseInv, CommandInv, Engaged, Idle, Context
    <3>2. Waiting /\ c \in asked /\ ctx[c].state = leader.cmd
      BY <3>1, SpeaksToCommand
    <3> QED BY <1>6, <1>11, <2>2, <3>2 DEF Fails
  <2>4. CASE leader.cmd = "quit"
    <3>1. ~Waiting
      BY <2>4 DEF Waiting, EnvelopeCommand
    <3>2. said' = said
      BY <1>1, <1>11, <3>1 DEF Fails, Hear
    <3> QED BY <1>4, <1>11, <3>1, <3>2 DEF Fails
  <2> QED BY <2>3, <2>4
<1> QED BY <1>2, <1>7, <1>8, <1>9, <1>10, <1>11

\* What the stopped and the skipped children say at once is in the slot.
LEMMA AtOnce ==
    ASSUME NEW x \in EnvelopeCommand, NEW stop \in SUBSET Targets(x),
           NEW s, \A c \in Targets(x) : s[c] = SaidAtOnce(x, stop, c)
    PROVE  Verdicts(Targets(x), s, SlotAtOnce(x, stop))
<1>1. Rank["not-change"] = 0 /\ Rank["accept"] = 1 /\ Rank["continue"] = 3
  BY DEF Rank, Status, Verdict
<1>2. Skips(x, stop) \subseteq Targets(x) /\ Skips(x, stop) \cap stop = {}
  BY DEF Skips
<1>3. CASE Skips(x, stop) # {}
  <2>1. PICK c \in Skips(x, stop) : TRUE
    BY <1>3
  <2>2. c \in Targets(x) /\ s[c] = "continue"
    BY <1>2, <2>1 DEF SaidAtOnce
  <2> QED BY <1>1, <1>3, <2>2 DEF Verdicts, SlotAtOnce, SaidAtOnce
<1>4. CASE Skips(x, stop) = {} /\ stop # {}
  <2>1. PICK c \in stop : TRUE
    BY <1>4
  <2>2. c \in Targets(x) /\ s[c] = SlotAtOnce(x, stop)
    BY <1>4, <2>1 DEF SaidAtOnce, SlotAtOnce
  <2> QED BY <1>1, <1>4, <2>2 DEF Verdicts, SlotAtOnce, SaidAtOnce
<1>5. CASE Skips(x, stop) = {} /\ stop = {}
  BY <1>1, <1>5 DEF Verdicts, SlotAtOnce, SaidAtOnce
<1> QED BY <1>3, <1>4, <1>5

\* A command of the MTA is a command of Session.
LEMMA SendImplements ==
    ASSUME BaseInv, HeardInv', TypeOK', "data" \notin StopAt, NEW x \in EnvelopeCommand, SendCommand(x)
    PROVE  VerdictInv' /\ Implements
<1>1. PICK stop \in SUBSET Targets(x) : Sent(x, stop)
  BY SendOutcome DEF BaseInv
<1>2. ~Waiting /\ leader.cmd # "quit" /\ Promise!Waiting = Waiting
  BY AnswerIs DEF SendCommand, MaySend, MtaFree, BaseInv, IdleInv
<1>3. /\ leader'.cmd = x /\ asked' = Targets(x) /\ rs'[x] = SlotAtOnce(x, stop)
      /\ said' = [c \in Child |-> SaidAtOnce(x, stop, c)]
  BY <1>1 DEF Sent
<1>4. Targets(x) \subseteq Child /\ Skips(x, stop) \subseteq Targets(x)
  BY DEF Targets, Skips
<1>5. Verdicts(Targets(x), said', SlotAtOnce(x, stop))
  <2>1. \A c \in Targets(x) : said'[c] = SaidAtOnce(x, stop, c)
    BY <1>3, <1>4
  <2> QED BY <2>1, AtOnce
<1>6. VerdictInv'
  BY <1>3, <1>5 DEF VerdictInv, Verdicts
<1>7. \A c \in Child \ asked' : said'[c] = "not-change"
  BY <1>3, <1>4 DEF SaidAtOnce
<1>8. said' \in [Child -> Status]
  BY DEF TypeOK
<1>9. AnswerGiven' \in Promise!MayAnswer(asked', said')
  <2>1. CASE Targets(x) = {} /\ leader' = [cmd |-> x, replied |-> FALSE, packets |-> <<ManagerFallback>>]
    <3>1. AnswerGiven' = ManagerFallback
      BY <2>1, FirstPackets DEF AnswerGiven
    <3> QED BY <1>3, <2>1, <3>1, MayAnswerIs
  <2>2. CASE Targets(x) # {} /\ leader' = [cmd |-> x, replied |-> FALSE, packets |-> <<>>]
    <3>1. AnswerGiven' = "none"
      BY <2>2 DEF AnswerGiven
    <3> QED BY <1>3, <2>2, <3>1, MayWait
  <2>3. CASE /\ Targets(x) # {} /\ SlotAtOnce(x, stop) = "continue"
             /\ leader' = [cmd |-> x, replied |-> TRUE, packets |-> <<"continue">>]
    <3>1. AnswerGiven' = "continue" /\ leader'.replied
      BY <2>3, FirstPackets DEF AnswerGiven
    <3>2. \A c \in Targets(x) : said'[c] # "not-change"
      BY <1>3, <3>1 DEF HeardInv
    <3>3. \A c \in Targets(x) : said'[c] \in Verdict
      BY <1>4, <1>8, <3>2 DEF Status
    <3>4. "continue" \in Verdict
      BY DEF Verdict
    <3> QED BY <1>3, <1>5, <2>3, <3>1, <3>3, <3>4, SlotAnswers
  <2> QED BY <1>1, <2>1, <2>2, <2>3 DEF Sent
<1>10. Promise!Command(x)
  BY <1>2, <1>3, <1>4, <1>7, <1>8, <1>9, SameWords DEF Promise!Command
<1> QED BY <1>6, <1>10, SameWords DEF Implements, Promise!Next

\* Every step is one of Session, or changes nothing Session knows of.
LEMMA StepImplements ==
    ASSUME "data" \notin StopAt, Faults \subseteq {"reading"},
           BaseInv, HeardInv, VerdictInv, [Next]_vars
    PROVE  VerdictInv' /\ Implements
<1>0. HeardInv' /\ TypeOK'
  BY HeardStep, TypeStep DEF BaseInv, IdleInv
<1>1. Promise!Waiting = Waiting
  BY AnswerIs DEF BaseInv, IdleInv
<1>2. ASSUME NEW x \in EnvelopeCommand, RefuseCommand(x) PROVE VerdictInv' /\ Implements
  <2>1. leader' = [cmd |-> x, replied |-> TRUE,
                   packets |-> Append(Append(<<>>, ManagerFallback), ManagerFallback)]
    BY <1>2, ConfigAssumption DEF RefuseCommand, Answer, Return, FallbackStatus
  <2>2. leader'.packets # <<>> /\ leader'.packets[1] = ManagerFallback /\ leader'.cmd = x
    BY <2>1
  <2>3. VerdictInv' /\ AnswerGiven' = ManagerFallback
    BY <2>2 DEF VerdictInv, Waiting, AnswerGiven
  <2>4. ~Waiting /\ leader.cmd # "quit" /\ asked' = {} /\ said' = [c \in Child |-> "not-change"]
    BY <1>2 DEF RefuseCommand, MaySend, MtaFree
  <2>5. said' \in [Child -> Status] /\ \A c \in Child : said'[c] = "not-change"
    BY <2>4 DEF Status
  <2>6. AnswerGiven' \in Promise!MayAnswer(asked', said')
    BY <2>3, <2>4, MayAnswerIs
  <2>7. Promise!Command(x)
    BY <1>1, <2>2, <2>4, <2>5, <2>6, SameWords DEF Promise!Command
  <2> QED BY <2>3, <2>7, SameWords DEF Implements, Promise!Next
<1>3. ASSUME NEW x \in EnvelopeCommand, SendCommand(x) PROVE VerdictInv' /\ Implements
  BY <1>0, <1>3, SendImplements
<1>4. CASE MtaAbort
  <2>1. /\ ~Waiting /\ leader.cmd # "quit" /\ leader'.cmd = "abort"
        /\ asked' = {} /\ said' = [c \in Child |-> "not-change"]
    BY <1>4 DEF MtaAbort, MtaFree
  <2>2. VerdictInv' /\ AnswerGiven' = "none"
    BY <2>1 DEF VerdictInv, Waiting, AnswerGiven, EnvelopeCommand
  <2>3. Promise!Abort
    BY <1>1, <2>1, <2>2 DEF Promise!Abort
  <2> QED BY <2>2, <2>3 DEF Implements, Promise!Next
<1>5. CASE MtaQuit
  <2>1. leader.cmd # "quit" /\ leader'.cmd = "quit" /\ asked' = asked /\ said' = said
    BY <1>5 DEF MtaQuit, BaseInv, IdleInv, TypeOK
  <2>2. VerdictInv' /\ AnswerGiven' = "none"
    BY <2>1 DEF VerdictInv, Waiting, AnswerGiven, EnvelopeCommand
  <2>3. Promise!Quit
    BY <2>1, <2>2 DEF Promise!Quit
  <2> QED BY <2>2, <2>3 DEF Implements, Promise!Next
<1>6. ASSUME NEW c \in Child, ChildNext(c) PROVE VerdictInv' /\ Implements
  BY <1>0, <1>6, ChildImplements
<1>7. CASE UNCHANGED vars
  BY <1>7 DEF vars, VerdictInv, Waiting, Implements, Promise!svars, AnswerGiven
<1> QED BY <1>2, <1>3, <1>4, <1>5, <1>6, <1>7 DEF Next, MtaNext

\* If no applicable condition stops a child at DATA and connections only fail
\* while an answer is awaited, then to the MTA the children look like one milter:
\* EnvelopePhase implements Session, for every set of children and every
\* configuration.
THEOREM LooksLikeOneMilter ==
    ASSUME "data" \notin StopAt, Faults \subseteq {"reading"}
    PROVE  Spec => OneMilter
<1>1. Init => BaseInv /\ HeardInv /\ VerdictInv /\ Promise!Init
  <2>1. Init => HeardInv /\ VerdictInv
    BY DEF Init, HeardInv, VerdictInv, Waiting, EnvelopeCommand
  <2>2. Init => Promise!Init
    BY DEF Init, Promise!Init, AnswerGiven, EnvelopeCommand
  <2> QED BY <2>1, <2>2, BaseInit
<1>2. BaseInv /\ HeardInv /\ VerdictInv /\ [Next]_vars =>
         BaseInv' /\ HeardInv' /\ VerdictInv' /\ [Promise!Next]_(Promise!svars)
  BY BaseStep, HeardStep, StepImplements DEF BaseInv, Implements
<1> QED BY <1>1, <1>2, PTL DEF Spec, OneMilter, Promise!Spec

-----------------------------------------------------------------------------
(* The MTA never waits for nobody *)

\* A living context has its handlers.
Alive(k) == k.quitted \/ k.attached

\* The manager still hears of a child: an unflushed buffer ends in something other
\* than an ABORT, or the reading timeout runs.
Owes(k) == /\ k.attached
           /\ IF k.next = <<>> THEN k.timer = "reading" ELSE LastWritten(k) # "abort"

AliveInv == \A c \in Child : Alive(ctx[c])

OwedInv == Waiting => queue # {} /\ \A c \in queue : Owes(ctx[c])

\* While the MTA waits for an answer some child is awaited, and of every awaited
\* child an event is due that the fairness of FairSpec speaks of: its buffer is
\* not flushed yet, or it has the command and its reading timeout runs.
AnswerOwed ==
    Waiting => /\ queue # {}
               /\ \A c \in queue : Live(c) /\ (ctx[c].next # <<>> \/ ctx[c].timer = "reading")

\* The operations on a context leave the handlers connected, but for expire_child.
LEMMA AttachedOps ==
    ASSUME NEW k \in Context
    PROVE  /\ Forget(k).attached = k.attached /\ ResetMessage(k).attached = k.attached
           /\ QuitCtx(k).attached = k.attached /\ AbortCtx(k).attached = k.attached
           /\ Expired(k).quitted
           /\ \A x \in EnvelopeCommand :
                 /\ Write(k, x).attached = k.attached /\ Note(x, k).attached = k.attached
                 /\ Begin(x, k).attached = k.attached /\ Skipped(x, k).attached = k.attached
<1>1. /\ Forget(k).attached = k.attached /\ ResetMessage(k).attached = k.attached
      /\ QuitCtx(k).attached = k.attached /\ AbortCtx(k).attached = k.attached
      /\ Expired(k).quitted
  BY DEF Forget, ResetMessage, QuitCtx, AbortCtx, Expired, Context
<1>2. ASSUME NEW x \in EnvelopeCommand
      PROVE  /\ Write(k, x).attached = k.attached /\ Note(x, k).attached = k.attached
             /\ Begin(x, k).attached = k.attached /\ Skipped(x, k).attached = k.attached
  <2>1. Note(x, k) \in Context /\ Begin(x, k) \in Context
    BY ContextOps
  <2>2. Note(x, k).attached = k.attached /\ Write(k, x).attached = k.attached
    BY DEF Note, Write, Context
  <2>3. Begin(x, k).attached = k.attached
    BY <2>1, <2>2 DEF Begin, Context
  <2> QED BY <2>1, <2>2, <2>3 DEF Skipped, Context
<1> QED BY <1>1, <1>2

\* A QUIT is the last packet of the context that wrote it.
LEMMA QuitWritten ==
    ASSUME NEW k \in Context
    PROVE  /\ QuitCtx(k).next # <<>> /\ LastWritten(QuitCtx(k)) = "quit"
           /\ QuitCtx(k).quitted
<1>1. k.next \in Seq(Slot) /\ "quit" \in Slot
  BY DEF Context, Slot
<1>2. QuitCtx(k).next = Append(k.next, "quit") /\ QuitCtx(k).quitted
  BY DEF QuitCtx, Context
<1>3. Append(k.next, "quit") # <<>>
      /\ Append(k.next, "quit")[Len(Append(k.next, "quit"))] = "quit"
  BY <1>1, LastAppended
<1> QED BY <1>2, <1>3 DEF LastWritten

\* A child that answers keeps its handlers; it is quitted only by a QUIT that is
\* still to be flushed.
LEMMA HeardOwes ==
    ASSUME NEW k \in Context, ~k.quitted, NEW r
    PROVE  LET h == Heard(k, r)
           IN  /\ h.attached = k.attached
               /\ h.quitted => h.next # <<>> /\ LastWritten(h) = "quit"
<1> DEFINE idle == [k EXCEPT !.timer = "none"]
           less == [idle EXCEPT !.rcpts = IF @ > 0 THEN @ - 1 ELSE 0, !.rejected = TRUE]
           quits == k.state \in {"connect", "helo", "unknown"}
           h == Heard(k, r)
<1>1. idle \in Context /\ idle.attached = k.attached /\ ~idle.quitted
  BY DEF Context
<1>2. h = IF r = "continue" THEN idle
          ELSE CASE quits -> QuitCtx(IF k.state = "unknown" THEN Forget(idle) ELSE idle)
                 [] k.state = "envelope-recipient" /\ r \in {"reject", "temporary-failure"} -> less
                 [] ~quits /\ (k.state \in {"envelope-from", "data"} \/ r = "accept") ->
                        ResetMessage(idle)
                 [] OTHER -> Forget(idle)
  BY DEF Heard
<1> HIDE DEF idle, h
<1>3. less.attached = k.attached /\ ~less.quitted
  BY <1>1 DEF Context
<1> HIDE DEF less
<1>4. /\ Forget(idle) \in Context /\ Forget(idle).attached = k.attached /\ ~Forget(idle).quitted
      /\ ResetMessage(idle).attached = k.attached /\ ~ResetMessage(idle).quitted
  <2>1. Forget(idle) \in Context /\ Forget(idle).attached = k.attached
        /\ ResetMessage(idle).attached = k.attached
    BY <1>1, ContextOps, AttachedOps
  <2>2. ~Forget(idle).quitted /\ ~ResetMessage(idle).quitted
    BY <1>1 DEF Forget, ResetMessage, Context
  <2> QED BY <2>1, <2>2
<1>5. /\ QuitCtx(idle).attached = k.attached /\ QuitCtx(Forget(idle)).attached = k.attached
      /\ QuitCtx(idle).next # <<>> /\ LastWritten(QuitCtx(idle)) = "quit"
      /\ QuitCtx(Forget(idle)).next # <<>> /\ LastWritten(QuitCtx(Forget(idle))) = "quit"
  BY <1>1, <1>4, AttachedOps, QuitWritten
<1>6. CASE r # "continue" /\ quits
  BY <1>2, <1>5, <1>6 DEF h
<1>7. CASE r = "continue" \/ ~quits
  <2>1. h = idle \/ h = less \/ h = ResetMessage(idle) \/ h = Forget(idle)
    BY <1>2, <1>7
  <2> QED BY <1>1, <1>3, <1>4, <2>1 DEF h
<1> QED BY <1>6, <1>7

\* milter_manager_children_abort leaves the handlers connected.
LEMMA AbortAllAlive ==
    ASSUME NEW f \in [Child -> Context], NEW c \in Child, Alive(f[c])
    PROVE  Alive(AbortAll(f)[c])
<1> DEFINE b == IF f[c].attached /\ (Processing(f[c]) \/ f[c].state = "envelope-from")
                THEN AbortCtx(f[c]) ELSE f[c]
<1>1. AbortAll(f)[c] = IF f[c].quitted THEN b ELSE ResetMessage(b)
  BY DEF AbortAll
<1>2. f[c] \in Context /\ AbortCtx(f[c]) \in Context /\ AbortCtx(f[c]).attached = f[c].attached
  BY ContextOps, AttachedOps
<1>3. b \in Context /\ b.attached = f[c].attached
  BY <1>2
<1> HIDE DEF b
<1>4. AbortAll(f)[c].attached = f[c].attached
  BY <1>1, <1>3, AttachedOps
<1>5. AbortAll(f)[c].quitted = f[c].quitted
  BY AbortAllFrame
<1> QED BY <1>4, <1>5 DEF Alive

\* An event leaves somebody awaited or the MTA answered: once everybody was heard
\* the slot of the command holds a verdict.
LEMMA EventOwed ==
    ASSUME BaseInv, AliveInv, OwedInv, HeardInv', VerdictInv', ReplyInv', TypeOK',
           NEW c \in Child, NEW k, NEW q, NEW rs1, NEW j, Event(c, k, q, rs1, j),
           Alive(k), Waiting /\ c \in q => Owes(k)
    PROVE  AliveInv' /\ OwedInv'
<1> USE DEF BaseInv
<1> DEFINE f == [ctx EXCEPT ![c] = k]
<1>1. /\ f \in [Child -> Context] /\ f[c] = k /\ \A d \in Child : d # c => f[d] = ctx[d]
      /\ ctx' = f \/ (q = {} /\ ctx' = AbortAll(f))
  BY EventContexts
<1> HIDE DEF f
<1>2. \A d \in Child : Alive(f[d])
  BY <1>1 DEF AliveInv
<1>3. AliveInv'
  BY <1>1, <1>2, AbortAllAlive DEF AliveInv
<1>4. queue' = q /\ rs' = rs1 /\ q \subseteq queue /\ queue \subseteq Child
  BY DEF Event, Stays, Removed, IdleInv, TypeOK
<1>5. /\ leader'.cmd = leader.cmd
      /\ \/ leader' = leader
         \/ /\ q = {} /\ rs1[pstate] \in Verdict /\ ~leader.replied
            /\ leader' = Told(leader, rs1[pstate])
  BY EventLeader
<1>6. ASSUME Waiting' PROVE Waiting /\ leader' = leader
  <2>1. leader' = Told(leader, rs1[pstate]) /\ rs1[pstate] \in Verdict
           /\ leader.cmd \in EnvelopeCommand => leader'.packets # <<>>
    BY ToldFrame DEF IdleInv
  <2> QED BY <1>5, <1>6, <2>1 DEF Waiting
<1>7. ASSUME Waiting', q = {} PROVE FALSE
  <2>1. /\ Waiting /\ leader' = leader /\ pstate = leader.cmd /\ ~leader.replied /\ asked' # {}
        /\ leader.cmd \in EnvelopeCommand
    BY <1>6, <1>7 DEF ReplyInv, Waiting
  <2>2. PICK d \in asked' : said'[d] # "not-change"
    BY <1>4, <1>7, <2>1 DEF HeardInv
  <2>3. Rank[said'[d]] <= Rank[rs1[leader.cmd]] /\ said'[d] \in Status /\ rs1[leader.cmd] \in Status
    <3>1. Waiting' /\ leader'.cmd = leader.cmd /\ d \in Child /\ leader.cmd \in Slot
      BY <1>7, <2>1 DEF TypeOK, Slot
    <3>2. Rank[said'[d]] <= Rank[rs'[leader.cmd]]
      BY <3>1 DEF VerdictInv
    <3>3. said'[d] \in Status /\ rs'[leader.cmd] \in Status
      BY <3>1 DEF TypeOK
    <3> QED BY <1>4, <3>2, <3>3
  <2>4. rs1[leader.cmd] # "not-change"
    BY <2>2, <2>3 DEF Rank, Status, Verdict
  <2>5. CASE q = queue
    BY <1>7, <2>1, <2>5 DEF OwedInv
  <2>6. CASE Removed(q, rs1, [ctx EXCEPT ![c] = k], j)
    <3>1. leader' = Told(leader, rs1[pstate])
      BY <1>7, <2>1, <2>4, <2>6 DEF Removed
    <3>2. leader'.replied
      BY <2>1, <3>1 DEF Told, IdleInv, TypeOK
    <3> QED BY <2>1, <3>2
  <2> QED BY <2>5, <2>6 DEF Event
<1>8. ASSUME Waiting', NEW d \in q PROVE Owes(ctx'[d])
  <2>1. ctx' = f /\ Waiting /\ d \in queue /\ d \in Child
    BY <1>1, <1>4, <1>6, <1>8
  <2> QED BY <1>1, <2>1 DEF OwedInv
<1> QED BY <1>3, <1>4, <1>7, <1>8 DEF OwedInv

\* Every event of a connection keeps it: a flushed command starts the reading
\* timeout, and only a child whose QUIT is under way stays awaited when it answers.
LEMMA ChildOwed ==
    ASSUME BaseInv, AliveInv, OwedInv, HeardInv', VerdictInv', ReplyInv', TypeOK',
           NEW c \in Child, ChildNext(c)
    PROVE  AliveInv' /\ OwedInv'
<1> DEFINE k == ctx[c]
<1>1. /\ k \in Context /\ Alive(k) /\ (Waiting /\ c \in queue => Owes(k))
      /\ Waiting /\ k.quitted => k.timer = "none"
  BY DEF BaseInv, IdleInv, TypeOK, AliveInv, OwedInv, CommandInv, Waiting, EnvelopeCommand
<1>2. PICK q \in SUBSET Child :
         \/ Flushes(c, q) \/ Ends(c, q) \/ Hushes(c, q) \/ Fails(c, q)
         \/ \E r \in Answers : Says(c, q, r)
  BY EventCases DEF BaseInv
<1>3. Alive(Expired(k))
  BY <1>1, AttachedOps DEF Alive
<1>4. CASE Ends(c, q)
  BY <1>3, <1>4, EventOwed DEF Ends
<1>5. CASE Fails(c, q)
  BY <1>3, <1>5, EventOwed DEF Fails
<1>6. CASE Flushes(c, q)
  <2> DEFINE n == Flushed(k)
             base == IF \E i \in 1..Len(k.next) : k.next[i] = "abort" THEN ResetMessage(k) ELSE k
  <2>1. q = queue /\ k.next # <<>> /\ LastWritten(k) # "quit" /\ Event(c, n, q, rs, joined)
    BY <1>6 DEF Flushes
  <2>2. base \in Context /\ base.attached = k.attached /\ base.quitted = k.quitted
    <3>1. ResetMessage(k) \in Context /\ ResetMessage(k).attached = k.attached
      BY <1>1, ContextOps, AttachedOps
    <3>2. ResetMessage(k).quitted = k.quitted
      BY <1>1 DEF ResetMessage, Forget, Context
    <3> QED BY <1>1, <3>1, <3>2
  <2>3. /\ n.attached = base.attached /\ n.quitted = base.quitted /\ n.next = <<>>
        /\ LastWritten(k) # "abort" => n.timer = "reading"
    <3> HIDE DEF base
    <3>1. n = [base EXCEPT !.state = LastWritten(k), !.next = <<>>,
                           !.timer = IF LastWritten(k) = "abort" THEN "none" ELSE "reading",
                           !.pmsg = IF LastWritten(k) = "envelope-from" THEN TRUE ELSE @]
      BY DEF Flushed, base
    <3> QED BY <2>2, <3>1 DEF Context
  <2> HIDE DEF n, base
  <2>4. Alive(n) /\ (Waiting /\ c \in q => Owes(n))
    BY <1>1, <2>1, <2>2, <2>3 DEF Alive, Owes
  <2> QED BY <2>1, <2>4, EventOwed
<1>7. CASE Hushes(c, q)
  <2> DEFINE n == [k EXCEPT !.timer = "none"]
  <2>1. q = queue /\ k.quitted /\ Event(c, n, q, rs, joined)
    BY <1>7 DEF Hushes
  <2>2. n.attached = k.attached /\ n.quitted = k.quitted /\ n.next = k.next
    BY <1>1 DEF Context
  <2> HIDE DEF n
  <2>3. Alive(n) /\ (Waiting /\ c \in q => Owes(n))
    BY <1>1, <2>1, <2>2 DEF Alive, Owes, LastWritten
  <2> QED BY <2>1, <2>3, EventOwed
<1>8. ASSUME NEW r \in Answers, Says(c, q, r) PROVE AliveInv' /\ OwedInv'
  <2> DEFINE h == Heard(k, r)
  <2>1. ~k.quitted /\ q = IF h.quitted THEN queue ELSE queue \ {c}
    BY <1>8 DEF Says
  <2>2. h.attached = k.attached /\ (h.quitted => h.next # <<>> /\ LastWritten(h) = "quit")
    BY <1>1, <2>1, HeardOwes
  <2>3. Alive(h) /\ (Waiting /\ c \in q => Owes(h))
    <3> HIDE DEF h
    <3> QED BY <1>1, <2>1, <2>2 DEF Alive, Owes
  <2> QED BY <1>8, <2>3, EventOwed DEF Says
<1> QED BY <1>2, <1>4, <1>5, <1>6, <1>7, <1>8

\* A command that nobody answers at once is awaited from children that have it in
\* their buffers, or a QUIT because they were stopped.
LEMMA SendOwed ==
    ASSUME BaseInv, AliveInv, "data" \notin StopAt, NEW x \in EnvelopeCommand, SendCommand(x)
    PROVE  AliveInv' /\ OwedInv'
<1>1. PICK stop \in SUBSET Targets(x) : Sent(x, stop)
  BY SendOutcome DEF BaseInv
<1>2. MtaFree
  BY DEF SendCommand, MaySend
<1>3. /\ \A d \in Child : Idle(ctx[d])
      /\ x \in {"data", "unknown"} => stop = {}
  BY <1>1, <1>2, FreeIdle DEF BaseInv, Sent
<1>4. /\ ctx' = [c \in Child |-> Served(x, stop, c)] /\ queue' = Awaited(x, stop)
      /\ Waiting' => Awaited(x, stop) # {}
  BY <1>1, FirstPackets DEF Sent, Waiting
<1>5. ASSUME NEW c \in Child
      PROVE  /\ Alive(Served(x, stop, c))
             /\ c \in Awaited(x, stop) => Owes(Served(x, stop, c))
  <2> DEFINE k == ctx[c]
             n == Served(x, stop, c)
             b == [Note(x, k) EXCEPT !.state = x]
  <2>1. k \in Context /\ Alive(k) /\ x # "abort" /\ x \in Slot
    BY DEF BaseInv, IdleInv, TypeOK, AliveInv, EnvelopeCommand, Slot
  <2>2. /\ c \in Sends(x, stop) => n.next # <<>> /\ LastWritten(n) = x
        /\ k.quitted => n.quitted
    BY <1>3, ServedFrame DEF BaseInv
  <2>3. Targets(x) \subseteq {d \in Child : ~ctx[d].quitted}
    BY DEF Targets, Ready, Processing
  <2>4. /\ Note(x, k) \in Context /\ Note(x, k).attached = k.attached
        /\ Begin(x, k) \in Context /\ Begin(x, k).attached = k.attached
        /\ AbortCtx(k).attached = k.attached /\ Skipped(x, k).attached = k.attached
    BY <2>1, ContextOps, AttachedOps
  <2>5. b \in Context /\ b.attached = k.attached
    BY <2>1, <2>4 DEF Context
  <2> HIDE DEF b
  <2>6. /\ AbortCtx(b) \in Context /\ AbortCtx(b).attached = k.attached
        /\ Forget(b).attached = k.attached
    BY <2>5, ContextOps, AttachedOps
  <2>7. /\ QuitCtx(AbortCtx(b)).attached = k.attached /\ Forget(AbortCtx(b)).attached = k.attached
        /\ QuitCtx(AbortCtx(b)).next # <<>> /\ LastWritten(QuitCtx(AbortCtx(b))) = "quit"
    BY <2>6, AttachedOps, QuitWritten
  <2>8. Stopped(x, k).attached = k.attached
        /\ (x \in {"connect", "helo"} => Stopped(x, k) = QuitCtx(AbortCtx(b)))
    BY <2>6, <2>7 DEF Stopped, b
  <2>9. Busy(x, stop) = {}
    BY <1>3, ServedIdle DEF BaseInv, IdleInv
  <2>10. Write(Begin(x, k), x).attached = k.attached
    BY <2>4, AttachedOps
  <2>11. n.attached = k.attached /\ (c \in stop => n = Stopped(x, k))
    <3>1. CASE c \in stop
      <4>1. n = Stopped(x, k)
        <5>1. c \in Targets(x) /\ c \notin Skips(x, stop) /\ c \notin Sends(x, stop)
          BY <3>1 DEF Skips, Sends
        <5> QED BY <2>9, <3>1, <5>1 DEF Served
      <4> QED BY <2>8, <4>1
    <3>2. CASE c \notin stop
      <4>1. n \in {Skipped(x, k), Write(Begin(x, k), x), AbortCtx(k), k}
        BY <2>9, <3>2 DEF Served
      <4> QED BY <2>4, <2>10, <3>2, <4>1
    <3> QED BY <3>1, <3>2
  <2> HIDE DEF n, k
  <2>12. c \in Awaited(x, stop) =>
            c \in Sends(x, stop) \/ (c \in stop /\ x \in {"connect", "helo"})
    BY <1>3 DEF Awaited, EnvelopeCommand
  <2>13. Alive(n)
    BY <2>1, <2>2, <2>11 DEF Alive
  <2>14. c \in Awaited(x, stop) => ~k.quitted
    BY <2>3, <2>12 DEF Sends, k
  <2>15. c \in Awaited(x, stop) => n.next # <<>> /\ LastWritten(n) # "abort" /\ n.attached
    BY <2>1, <2>2, <2>7, <2>8, <2>11, <2>12, <2>14 DEF Alive
  <2> QED BY <2>13, <2>15 DEF Owes, n
<1>6. Awaited(x, stop) \subseteq Child
  BY DEF Awaited, Sends, Targets
<1> QED BY <1>4, <1>5, <1>6 DEF AliveInv, OwedInv

\* Every step keeps it.
LEMMA OwedStep ==
    ASSUME "data" \notin StopAt, Faults \subseteq {"reading"},
           BaseInv, HeardInv, VerdictInv, AliveInv, OwedInv, [Next]_vars
    PROVE  AliveInv' /\ OwedInv'
<1>1. BaseInv' /\ HeardInv' /\ VerdictInv' /\ TypeOK'
  BY BaseStep, HeardStep, StepImplements, TypeStep DEF BaseInv, IdleInv
<1>2. ctx \in [Child -> Context]
  BY DEF BaseInv, IdleInv, TypeOK
<1>3. ASSUME NEW x \in EnvelopeCommand, RefuseCommand(x) PROVE AliveInv' /\ OwedInv'
  <2>1. ctx' = ctx /\ leader' = [cmd |-> x, replied |-> TRUE,
                                 packets |-> Append(Append(<<>>, ManagerFallback), ManagerFallback)]
    BY <1>3, ConfigAssumption DEF RefuseCommand, Answer, Return, FallbackStatus
  <2>2. leader'.packets # <<>>
    BY <2>1
  <2> QED BY <2>1, <2>2 DEF AliveInv, OwedInv, Waiting
<1>4. ASSUME NEW x \in EnvelopeCommand, SendCommand(x) PROVE AliveInv' /\ OwedInv'
  BY <1>4, SendOwed
<1>5. CASE MtaAbort
  <2>1. ctx' = AbortAll(ctx) /\ leader'.cmd = "abort"
    BY <1>5 DEF MtaAbort
  <2> QED BY <1>2, <2>1, AbortAllAlive DEF AliveInv, OwedInv, Waiting, EnvelopeCommand
<1>6. CASE MtaQuit
  <2>1. leader'.cmd = "quit"
    BY <1>6 DEF MtaQuit, BaseInv, IdleInv, TypeOK
  <2>2. ASSUME NEW c \in Child PROVE ctx'[c].quitted
    <3>1. ctx[c] \in Context /\ QuitCtx(ctx[c]).quitted
      BY <1>2, QuitWritten
    <3> QED BY <1>6, <3>1 DEF MtaQuit
  <2> QED BY <2>1, <2>2 DEF AliveInv, Alive, OwedInv, Waiting, EnvelopeCommand
<1>7. ASSUME NEW c \in Child, ChildNext(c) PROVE AliveInv' /\ OwedInv'
  BY <1>1, <1>7, ChildOwed DEF BaseInv
<1>8. CASE UNCHANGED vars
  BY <1>8 DEF vars, AliveInv, OwedInv, Waiting
<1> QED BY <1>3, <1>4, <1>5, <1>6, <1>7, <1>8 DEF Next, MtaNext

\* The MTA never waits for nobody: if no applicable condition stops a child at
\* DATA and connections only fail while an answer is awaited, then as long as the
\* MTA has no answer the reply queue holds a child, and every child in it has a
\* packet to flush or a running reading timeout.  It is the part of Answered that
\* is a safety property: the queue never runs empty without the slot of the
\* command being emitted, and no child is expired or left idle while it is awaited.
\* (A failure before the flush is filed under the previous command and can empty
\* the queue with an empty slot; a child stopped at DATA stays awaited after its
\* ABORT, with no timer.)
THEOREM NeverWaitsForNobody ==
    ASSUME "data" \notin StopAt, Faults \subseteq {"reading"}
    PROVE  Spec => []AnswerOwed
<1> DEFINE Inv == BaseInv /\ HeardInv /\ VerdictInv /\ AliveInv /\ OwedInv
<1>1. Init => Inv
  <2>1. Init => HeardInv /\ VerdictInv /\ AliveInv /\ OwedInv
    BY DEF Init, HeardInv, VerdictInv, AliveInv, Alive, OwedInv, Waiting, EnvelopeCommand
  <2> QED BY <2>1, BaseInit
<1>2. Inv /\ [Next]_vars => Inv'
  BY BaseStep, HeardStep, StepImplements, OwedStep DEF BaseInv
<1>3. Inv => AnswerOwed
  BY DEF AnswerOwed, OwedInv, Owes, Live, BaseInv, ReplyInv, Waiting, EnvelopeCommand
<1> QED BY <1>1, <1>2, <1>3, PTL DEF Spec
=============================================================================
