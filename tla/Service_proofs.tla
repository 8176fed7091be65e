--------------------------- MODULE Service_proofs ---------------------------
(* Machine-checked proofs about Service, for every finite set of connections *)
(* and every configuration the theorems allow.                               *)
EXTENDS Service, Integers, FiniteSetTheorems, TLAPS

-----------------------------------------------------------------------------
(* Types *)

\* The types that hold in every mode: without max_connections the counter of an
\* accept loop may fall below zero.
Typed ==
    /\ setup \in Setups
    /\ main \in {"boot", "prepared", "running", "ended", "exit"}
    /\ thread \in {"none", "new", "running", "quit", "ended"}
    /\ mutex \in {"free", "main", "thread"}
    /\ quitting \in BOOLEAN /\ watching \in BOOLEAN /\ finisher \in BOOLEAN
    /\ n \in Int /\ conn \in [Conns -> Stage]
    /\ acc \in [at : {"idle", "suspended", "accept", "count"}, seen : Int]
    /\ fin \in [at : {"idle", "take", "sub", "check", "lock"}, seen : Int]
    /\ signal \in {"none", "handling", "done"}
    /\ leader \in [Conns -> {"none", "listed", "finished", "freed"}]
    /\ checker \in {"off", "armed", "stale"}

\* single_thread_cb_finished
LEMMA CbFinishedType ==
    ASSUME Typed, NEW c \in Conns, CbFinished(conn, c)
    PROVE  /\ conn' = [conn EXCEPT ![c] = "finished"] /\ conn' \in [Conns -> Stage]
           /\ finisher' \in BOOLEAN
           /\ fin' \in [at : {"idle", "take", "sub", "check", "lock"}, seen : Int]
           /\ (finisher' /\ fin' = fin) \/ (~finisher' /\ fin'.at = "take")
<1>1. conn' = [conn EXCEPT ![c] = "finished"]
  BY DEF CbFinished
<1>2. conn' \in [Conns -> Stage]
  BY <1>1 DEF Typed, Stage
<1>3. \/ finisher' = TRUE /\ fin' = fin
      \/ finisher' = FALSE /\ fin' = [fin EXCEPT !.at = "take"]
  BY DEF CbFinished
<1> QED BY <1>1, <1>2, <1>3 DEF Typed

\* The end of dispose_finished_data
LEMMA DisposedType ==
    ASSUME Typed, NEW left, Disposed(left)
    PROVE  /\ fin' \in [at : {"idle", "take", "sub", "check", "lock"}, seen : Int]
           /\ leader' \in [Conns -> {"none", "listed", "finished", "freed"}]
           /\ left # {} => fin'.at = "take" /\ leader' = leader
           /\ left = {} => fin' = Nobody /\ DisposeFinishedLeaders
BY DEF Disposed, DisposeFinishedLeaders, Typed, Nobody

\* Every step keeps the types.
LEMMA TypedStep ==
    ASSUME Typed, [Next]_vars
    PROVE  Typed'
<1> USE DEF Typed
<1>1. CASE Prepare
  BY <1>1 DEF Prepare
<1>2. CASE Run
  BY <1>2 DEF Run
<1>3. CASE ThreadRun
  BY <1>3 DEF ThreadRun
<1>4. CASE UnlockQuitMutex
  BY <1>4 DEF UnlockQuitMutex
<1>5. ASSUME NEW c \in Conns, Connect(c) \/ TakenElsewhere(c)
      PROVE  Typed'
  BY <1>5 DEF Connect, TakenElsewhere, Stage
<1>6. CASE AcceptReady
  BY <1>6 DEF AcceptReady
<1>7. CASE Resume
  BY <1>7 DEF Resume
<1>8. ASSUME NEW c \in Conns, Accept(c)
      PROVE  Typed'
  BY <1>8 DEF Accept, Stage
<1>9. CASE AcceptNothing \/ AcceptFails
  <2>1. acc' \in [at : {"idle", "suspended", "accept", "count"}, seen : Int]
    BY <1>9 DEF AcceptNothing, AcceptFails, Nobody
  <2>2. watching' \in BOOLEAN
    BY <1>9 DEF AcceptNothing, AcceptFails
  <2> QED BY <1>9, <2>1, <2>2 DEF AcceptNothing, AcceptFails
<1>10. ASSUME NEW c \in Conns, ChannelSetup(c)
       PROVE  /\ conn' \in [Conns -> Stage] /\ finisher' \in BOOLEAN
              /\ fin' \in [at : {"idle", "take", "sub", "check", "lock"}, seen : Int]
              /\ leader' \in [Conns -> {"none", "listed", "finished", "freed"}]
              /\ checker' \in {"off", "armed", "stale"}
  <2>1. CASE Established(c) /\ StartChecker /\ UNCHANGED <<fin, finisher>>
    BY <2>1 DEF Established, StartChecker, Stage
  <2>2. CASE CbFinished(conn, c) /\ UNCHANGED <<leader, checker>>
    BY <2>2, CbFinishedType
  <2> QED BY <1>10, <2>1, <2>2 DEF ChannelSetup
<1>11. ASSUME NEW c \in Conns, AcceptCount(c)
       PROVE  Typed'
  <2>1. n' \in Int /\ acc' \in [at : {"idle", "suspended", "accept", "count"}, seen : Int]
    BY <1>11 DEF AcceptCount, Nobody
  <2>2. /\ conn' \in [Conns -> Stage] /\ finisher' \in BOOLEAN
        /\ fin' \in [at : {"idle", "take", "sub", "check", "lock"}, seen : Int]
        /\ leader' \in [Conns -> {"none", "listed", "finished", "freed"}]
        /\ checker' \in {"off", "armed", "stale"}
    <3>1. CASE mode = "single"
      BY <1>10, <1>11, <3>1 DEF AcceptCount
    <3>2. CASE mode # "single"
      BY <1>11, <3>2 DEF AcceptCount, Stage
    <3> QED BY <3>1, <3>2
  <2> QED BY <1>11, <2>1, <2>2 DEF AcceptCount
<1>12. ASSUME NEW c \in Conns, IdleSetup(c)
       PROVE  Typed'
  BY <1>10, <1>12 DEF IdleSetup
<1>13. ASSUME NEW c \in Conns, Negotiate(c)
       PROVE  Typed'
  BY <1>13 DEF Negotiate, Stage
<1>14. ASSUME NEW c \in Conns, SessionFinishes(c)
       PROVE  Typed'
  <2>1. leader' \in [Conns -> {"none", "listed", "finished", "freed"}] /\ checker' \in {"off", "armed", "stale"}
    BY <1>14 DEF SessionFinishes, LeaderFinished
  <2> QED BY <1>14, <2>1, CbFinishedType DEF SessionFinishes
<1>15. ASSUME NEW gone \in SUBSET Conns, ConnectionCheck(gone)
       PROVE  Typed'
  BY <1>15 DEF ConnectionCheck
<1>16. CASE Finisher \/ FinishRead \/ FinishCheck
  <2>1. CASE Finisher
    <3>1. fin' \in [at : {"idle", "take", "sub", "check", "lock"}, seen : Int]
      BY <2>1 DEF Finisher
    <3>2. finisher' \in BOOLEAN
      BY <2>1 DEF Finisher
    <3> QED BY <2>1, <3>1, <3>2 DEF Finisher
  <2>2. CASE FinishRead
    BY <2>2 DEF FinishRead
  <2>3. CASE FinishCheck
    BY <2>3 DEF FinishCheck
  <2> QED BY <1>16, <2>1, <2>2, <2>3
<1>17. CASE FinishWrite
  <2>1. PICK c \in Finished : 
           /\ conn' = [conn EXCEPT ![c] = "gone"]
           /\ IF quitting THEN fin' = [fin EXCEPT !.at = "check"] /\ UNCHANGED leader
              ELSE Disposed(Finished \ {c})
    BY <1>17 DEF FinishWrite
  <2>2. conn' \in [Conns -> Stage]
    BY <2>1 DEF Stage
  <2>3. /\ fin' \in [at : {"idle", "take", "sub", "check", "lock"}, seen : Int]
        /\ leader' \in [Conns -> {"none", "listed", "finished", "freed"}]
    <3>1. CASE quitting
      BY <2>1, <3>1
    <3>2. CASE ~quitting
      BY <2>1, <3>2, DisposedType
    <3> QED BY <3>1, <3>2
  <2> QED BY <1>17, <2>2, <2>3 DEF FinishWrite
<1>18. CASE FinishQuit
  BY <1>18, DisposedType DEF FinishQuit
<1>19. CASE Signal \/ ThreadEnds \/ Exit
  BY <1>19 DEF Signal, ThreadEnds, Exit
<1>20. CASE HandleSignal \/ MasterGone
  BY <1>20 DEF HandleSignal, MasterGone, Shutdown
<1>21. CASE UNCHANGED vars
  BY <1>21 DEF vars
<1> QED BY <1>1, <1>2, <1>3, <1>4, <1>5, <1>6, <1>7, <1>8, <1>9, <1>11, <1>12, <1>13, <1>14,
           <1>15, <1>16, <1>17, <1>18, <1>19, <1>20, <1>21
        DEF Next, Progress, Starting, Accepting, Serving, Disposing, Stopping

-----------------------------------------------------------------------------
(* Finished sessions *)

\* A finisher is on its way exactly while there is something to dispose of and
\* nobody is at it.
Disposal ==
    /\ NoneForgotten
    /\ finisher => fin.at = "idle" /\ Finished # {}
    /\ fin.at \in {"take", "sub"} => Finished # {}

\* What a step does to the sessions and to their disposal.
LEMMA StepKinds ==
    ASSUME Typed, [Next]_vars
    PROVE  \/ UNCHANGED <<conn, fin, finisher>>
           \/ \E c \in Conns, x \in Stage \ {"finished"} :
                /\ conn[c] # "finished" /\ conn' = [conn EXCEPT ![c] = x]
                /\ UNCHANGED <<fin, finisher>>
           \/ \E c \in Conns : fin.at = "idle" /\ CbFinished(conn, c)
           \/ Finisher \/ FinishRead \/ FinishWrite \/ FinishCheck \/ FinishQuit
<1> DEFINE Quiet == UNCHANGED <<conn, fin, finisher>>
           Moves == \E c \in Conns, x \in Stage \ {"finished"} :
                      /\ conn[c] # "finished" /\ conn' = [conn EXCEPT ![c] = x]
                      /\ UNCHANGED <<fin, finisher>>
           Ends1 == \E c \in Conns : fin.at = "idle" /\ CbFinished(conn, c)
<1>1. ASSUME Starting PROVE Quiet
  BY <1>1 DEF Starting, Prepare, Run, ThreadRun, UnlockQuitMutex
<1>2. ASSUME NEW c \in Conns, Connect(c) \/ TakenElsewhere(c) \/ Accept(c) \/ Negotiate(c)
      PROVE  Moves
  BY <1>2 DEF Connect, TakenElsewhere, Accept, Negotiate, Stage
<1>3. ASSUME AcceptReady \/ Resume \/ AcceptNothing \/ AcceptFails PROVE Quiet
  BY <1>3 DEF AcceptReady, Resume, AcceptNothing, AcceptFails
<1>4. ASSUME NEW c \in Conns, AcceptCount(c)
      PROVE  Moves \/ Ends1
  <2>1. CASE mode = "single"
    <3>1. fin.at = "idle" /\ conn[c] = "accepted" /\ ChannelSetup(c)
      BY <1>4, <2>1 DEF AcceptCount, AcceptorRuns
    <3> QED BY <3>1 DEF ChannelSetup, Established, Stage
  <2>2. CASE mode # "single"
    BY <1>4, <2>2 DEF AcceptCount, Stage
  <2> QED BY <2>1, <2>2
<1>5. ASSUME NEW c \in Conns, IdleSetup(c)
      PROVE  Moves \/ Ends1
  <2>1. fin.at = "idle" /\ conn[c] = "queued" /\ ChannelSetup(c)
    BY <1>5 DEF IdleSetup, MainFree
  <2> QED BY <2>1 DEF ChannelSetup, Established, Stage
<1>6. ASSUME NEW c \in Conns, SessionFinishes(c)
      PROVE  Ends1
  BY <1>6 DEF SessionFinishes, MainFree
<1>7. ASSUME NEW gone \in SUBSET Conns, ConnectionCheck(gone)
      PROVE  Quiet
  BY <1>7 DEF ConnectionCheck
<1>8. ASSUME Signal \/ HandleSignal \/ MasterGone \/ ThreadEnds \/ Exit PROVE Quiet
  BY <1>8 DEF Signal, HandleSignal, MasterGone, ThreadEnds, Exit
<1>9. ASSUME UNCHANGED vars PROVE Quiet
  BY <1>9 DEF vars
<1> HIDE DEF Quiet, Moves, Ends1
<1>10. Quiet \/ Moves \/ Ends1 \/ Disposing
  <2>1. CASE Progress
    <3>1. CASE Accepting
      BY <1>2, <1>3, <1>4, <1>5, <3>1 DEF Accepting
    <3>2. CASE Serving
      BY <1>2, <1>6, <3>2 DEF Serving
    <3>3. CASE Stopping
      BY <1>8, <3>3 DEF Stopping
    <3> QED BY <1>1, <2>1, <3>1, <3>2, <3>3 DEF Progress
  <2>2. CASE AcceptReady \/ AcceptFails \/ Signal \/ MasterGone
    BY <1>3, <1>8, <2>2
  <2> QED BY <1>2, <1>7, <1>9, <2>1, <2>2 DEF Next
<1> QED BY <1>10 DEF Quiet, Moves, Ends1, Disposing

\* Every step keeps Disposal.
LEMMA DisposalStep ==
    ASSUME Typed, Disposal, [Next]_vars
    PROVE  Disposal'
<1> USE DEF Disposal, NoneForgotten, Finished
<1>1. CASE UNCHANGED <<conn, fin, finisher>>
  BY <1>1
<1>2. ASSUME NEW c \in Conns, NEW x \in Stage \ {"finished"},
             conn[c] # "finished", conn' = [conn EXCEPT ![c] = x], UNCHANGED <<fin, finisher>>
      PROVE  Disposal'
  <2>1. Finished' = Finished
    BY <1>2 DEF Typed
  <2> QED BY <1>2, <2>1
<1>3. ASSUME NEW c \in Conns, fin.at = "idle", CbFinished(conn, c)
      PROVE  Disposal'
  <2>1. c \in Finished'
    BY <1>3, CbFinishedType DEF Typed
  <2>2. (finisher' /\ fin' = fin) \/ (~finisher' /\ fin'.at = "take")
    BY <1>3, CbFinishedType
  <2> QED BY <1>3, <2>1, <2>2
<1>4. CASE Finisher
  BY <1>4 DEF Finisher, Typed
<1>5. CASE FinishRead
  BY <1>5 DEF FinishRead, Typed
<1>6. CASE FinishWrite
  <2>1. PICK c \in Finished : 
           /\ conn' = [conn EXCEPT ![c] = "gone"]
           /\ IF quitting THEN fin' = [fin EXCEPT !.at = "check"] /\ UNCHANGED leader
              ELSE Disposed(Finished \ {c})
    BY <1>6 DEF FinishWrite
  <2>2. Finished' = Finished \ {c}
    BY <2>1 DEF Typed
  <2>3. ~finisher'
    BY <1>6 DEF FinishWrite
  <2>4. CASE quitting
    BY <2>1, <2>3, <2>4 DEF Typed
  <2>5. CASE ~quitting
    <3>1. /\ Finished' # {} => fin'.at = "take"
          /\ Finished' = {} => fin'.at = "idle"
      BY <2>1, <2>2, <2>5, DisposedType DEF Nobody
    <3> QED BY <2>3, <3>1
  <2> QED BY <2>4, <2>5
<1>7. CASE FinishCheck
  BY <1>7 DEF FinishCheck, Typed
<1>8. CASE FinishQuit
  <2>1. Disposed(Finished) /\ conn' = conn /\ finisher' = finisher /\ ~finisher
    BY <1>8 DEF FinishQuit
  <2>2. /\ Finished # {} => fin'.at = "take"
        /\ Finished = {} => fin'.at = "idle"
    BY <2>1, DisposedType DEF Nobody
  <2> QED BY <2>1, <2>2
<1> QED BY <1>1, <1>2, <1>3, <1>4, <1>5, <1>6, <1>7, <1>8, StepKinds

-----------------------------------------------------------------------------
(* Leaders *)

\* A session gets its leader when it is established; the leader is finished by
\* the time the session is, and a finished leader of a session that is gone is
\* disposed of before the disposal ends.
LeaderOf(c) ==
    /\ conn[c] \in {"away", "waiting", "elsewhere", "accepted", "queued"} => leader[c] = "none"
    /\ conn[c] \in {"finished", "gone"} => leader[c] # "listed"
    /\ conn[c] = "gone" /\ leader[c] = "finished" => fin.at # "idle"

Leaders == setup.polite /\ \A c \in Conns : LeaderOf(c)

\* A step of one session leaves the leaders of the others alone.
LEMMA OneLeader ==
    ASSUME Typed, Leaders, NEW c \in Conns, setup' = setup,
           conn' \in [Conns -> Stage], leader' \in [Conns -> {"none", "listed", "finished", "freed"}],
           \A d \in Conns \ {c} : conn'[d] = conn[d] /\ leader'[d] = leader[d],
           fin.at = "idle" \/ fin'.at # "idle",
           LeaderOf(c)'
    PROVE  Leaders'
BY DEF Leaders, LeaderOf

\* A session that begins gets its leader, or none if it ends at once.
LEMMA ChannelSetupLeader ==
    ASSUME Typed, Leaders, NEW c \in Conns, conn[c] \in {"accepted", "queued"}, ChannelSetup(c),
           setup' = setup, fin.at = "idle"
    PROVE  Leaders'
<1>1. leader[c] = "none"
  BY DEF Leaders, LeaderOf
<1>2. CASE Established(c)
  BY <1>1, <1>2, OneLeader DEF Established, LeaderOf, Typed, Stage
<1>3. CASE CbFinished(conn, c) /\ UNCHANGED <<leader, checker>>
  <2>1. conn' = [conn EXCEPT ![c] = "finished"] /\ conn' \in [Conns -> Stage]
    BY <1>3, CbFinishedType
  <2> QED BY <1>1, <1>3, <2>1, OneLeader DEF LeaderOf, Typed
<1> QED BY <1>2, <1>3 DEF ChannelSetup

\* dispose_finished_data ends with no finished leader left.
LEMMA DisposedLeaders ==
    ASSUME Typed, Leaders, NEW left, Disposed(left), setup' = setup, conn' \in [Conns -> Stage],
           \A c \in Conns : conn'[c] = conn[c] \/ (conn[c] = "finished" /\ conn'[c] = "gone")
    PROVE  Leaders'
<1>1. CASE left # {}
  BY <1>1, DisposedType DEF Leaders, LeaderOf
<1>2. CASE left = {}
  <2>1. leader' = [c \in Conns |-> IF leader[c] = "finished" THEN "freed" ELSE leader[c]]
    BY <1>2, DisposedType DEF DisposeFinishedLeaders
  <2> QED BY <2>1 DEF Leaders, LeaderOf, Typed
<1> QED BY <1>1, <1>2

\* Every step keeps Leaders, if the MTAs negotiate.
LEMMA LeadersStep ==
    ASSUME Typed, Leaders, [Next]_vars
    PROVE  Leaders'
<1>1. ASSUME UNCHANGED <<setup, conn, fin, leader>>
      PROVE  Leaders'
  BY <1>1 DEF Leaders, LeaderOf
<1>2. CASE Starting
  BY <1>1, <1>2 DEF Starting, Prepare, Run, ThreadRun, UnlockQuitMutex
<1>3. ASSUME NEW c \in Conns, Connect(c) \/ TakenElsewhere(c) \/ Accept(c) \/ Negotiate(c)
      PROVE  Leaders'
  <2>1. UNCHANGED <<setup, fin, leader>>
    BY <1>3 DEF Connect, TakenElsewhere, Accept, Negotiate
  <2>2. \/ conn[c] \in {"away", "waiting"} /\ \E x \in {"waiting", "elsewhere", "accepted"} : conn' = [conn EXCEPT ![c] = x]
        \/ conn[c] = "started" /\ conn' = [conn EXCEPT ![c] = "busy"]
    BY <1>3 DEF Connect, TakenElsewhere, Accept, Negotiate
  <2>3. LeaderOf(c)
    BY DEF Leaders
  <2> QED BY <2>1, <2>2, <2>3, OneLeader DEF LeaderOf, Typed, Stage
<1>4. CASE AcceptReady \/ Resume \/ AcceptNothing \/ AcceptFails
  BY <1>1, <1>4 DEF AcceptReady, Resume, AcceptNothing, AcceptFails
<1>5. ASSUME NEW c \in Conns, AcceptCount(c)
      PROVE  Leaders'
  <2>1. CASE mode = "single"
    BY <1>5, <2>1, ChannelSetupLeader DEF AcceptCount, AcceptorRuns
  <2>2. CASE mode # "single"
    <3>1. LeaderOf(c)
      BY DEF Leaders
    <3> QED BY <1>5, <2>2, <3>1, OneLeader DEF AcceptCount, LeaderOf, Typed, Stage
  <2> QED BY <2>1, <2>2
<1>6. ASSUME NEW c \in Conns, IdleSetup(c)
      PROVE  Leaders'
  BY <1>6, ChannelSetupLeader DEF IdleSetup, MainFree
<1>7. ASSUME NEW c \in Conns, SessionFinishes(c)
      PROVE  Leaders'
  <2>1. conn' = [conn EXCEPT ![c] = "finished"] /\ conn' \in [Conns -> Stage] /\ fin.at = "idle" /\ setup' = setup
    BY <1>7, CbFinishedType DEF SessionFinishes, MainFree
  <2>2. conn[c] = "busy"
    BY <1>7 DEF SessionFinishes, Leaders
  <2>3. CASE leader[c] = "listed"
    <3>1. leader' = [leader EXCEPT ![c] = "finished"]
      BY <1>7, <2>2, <2>3 DEF SessionFinishes, LeaderFinished
    <3> QED BY <2>1, <3>1, OneLeader DEF LeaderOf, Typed
  <2>4. CASE leader[c] # "listed"
    <3>1. leader' = leader
      BY <1>7, <2>4 DEF SessionFinishes
    <3> QED BY <2>1, <2>4, <3>1, OneLeader DEF LeaderOf, Typed
  <2> QED BY <2>3, <2>4
<1>8. ASSUME NEW gone \in SUBSET Conns, ConnectionCheck(gone)
      PROVE  Leaders'
  BY <1>8 DEF ConnectionCheck, Leaders, LeaderOf, Typed
<1>9. CASE Finisher \/ FinishRead \/ FinishCheck
  <2>1. UNCHANGED <<setup, conn, leader>> /\ fin'.at # "idle"
    BY <1>9 DEF Finisher, FinishRead, FinishCheck, Typed
  <2> QED BY <2>1 DEF Leaders, LeaderOf
<1>10. CASE FinishWrite
  <2>1. PICK c \in Finished : 
           /\ conn' = [conn EXCEPT ![c] = "gone"]
           /\ IF quitting THEN fin' = [fin EXCEPT !.at = "check"] /\ UNCHANGED leader
              ELSE Disposed(Finished \ {c})
    BY <1>10 DEF FinishWrite
  <2>2. /\ setup' = setup /\ conn' \in [Conns -> Stage]
        /\ \A d \in Conns : conn'[d] = conn[d] \/ (conn[d] = "finished" /\ conn'[d] = "gone")
    BY <1>10, <2>1 DEF FinishWrite, Finished, Typed, Stage
  <2>3. CASE quitting
    <3>1. fin'.at = "check" /\ leader' = leader
      BY <2>1, <2>3 DEF Typed
    <3> QED BY <2>2, <3>1 DEF Leaders, LeaderOf
  <2>4. CASE ~quitting
    BY <2>1, <2>2, <2>4, DisposedLeaders
  <2> QED BY <2>3, <2>4
<1>11. CASE FinishQuit
  BY <1>11, DisposedLeaders DEF FinishQuit, Typed
<1>12. CASE Signal \/ HandleSignal \/ MasterGone \/ ThreadEnds \/ Exit
  BY <1>1, <1>12 DEF Signal, HandleSignal, MasterGone, ThreadEnds, Exit
<1>13. CASE UNCHANGED vars
  BY <1>1, <1>13 DEF vars
<1> QED BY <1>2, <1>3, <1>4, <1>5, <1>6, <1>7, <1>8, <1>9, <1>10, <1>11, <1>12, <1>13
        DEF Next, Progress, Accepting, Serving, Disposing, Stopping

-----------------------------------------------------------------------------
(* The counter of the sessions *)

\* The configuration does not change.
LEMMA SetupStays ==
    ASSUME [Next]_vars
    PROVE  setup' = setup
BY DEF Next, vars, Progress, Starting, Accepting, Serving, Disposing, Stopping, Prepare, Run,
       ThreadRun, UnlockQuitMutex, Connect, TakenElsewhere, AcceptReady, Resume, Accept,
       AcceptNothing, AcceptFails, AcceptCount, IdleSetup, Negotiate, SessionFinishes,
       ConnectionCheck, Finisher, FinishRead, FinishWrite, FinishCheck, FinishQuit, Signal,
       HandleSignal, MasterGone, ThreadEnds, Exit

\* The configurations in which the counter is right though no lock guards it:
\* one thread, or a limit of one, which keeps the two threads apart.
Regular == mode # "accept-loop" \/ setup.max = 1

Counts ==
    /\ n = Cardinality(Open)
    /\ acc.at = "count" => acc.seen = n
    /\ acc.at \in {"accept", "count"} => ~AtLimit
    /\ fin.at = "sub" => fin.seen = n
    /\ 0 < setup.max => n <= setup.max
    /\ mode # "accept-loop" /\ acc.at # "idle" => fin.at = "idle"

Counting == Regular => Counts

\* The set of the open sessions is finite.
LEMMA OpenFinite ==
    Open \subseteq Conns /\ IsFiniteSet(Open) /\ Cardinality(Open) \in Nat
BY ServiceAssumption, FS_Subset, FS_CardinalityType DEF Open

\* Nobody is counted exactly when no session is open.
LEMMA OpenEmpty ==
    Cardinality(Open) = 0 <=> Open = {}
BY OpenFinite, FS_EmptySet

\* A step that leaves the counter and the open sessions alone.
LEMMA CountsStay ==
    ASSUME Typed, Counts, setup' = setup, n' = n, Open' = Open,
           acc'.at = "count" => acc'.seen = n,
           acc'.at \in {"accept", "count"} => ~AtLimit,
           fin'.at = "sub" => fin'.seen = n,
           mode # "accept-loop" /\ acc'.at # "idle" => fin'.at = "idle"
    PROVE  Counts'
BY DEF Counts, AtLimit, mode

\* While a session is being accepted none is being disposed of.
LEMMA Apart ==
    ASSUME Typed, Disposal, Regular, Counts, fin.at = "sub"
    PROVE  acc.at \notin {"accept", "count"} /\ n > 0 /\ fin.seen = n
<1>1. Finished # {} /\ Finished \subseteq Open
  BY DEF Disposal, Finished, Open
<1>2. n # 0 /\ n \in Nat
  BY <1>1, OpenEmpty, OpenFinite DEF Counts
<1>3. mode = "accept-loop" => AtLimit
  BY <1>2 DEF Regular, AtLimit
<1> QED BY <1>2, <1>3 DEF Counts

\* Every step keeps Counting.
LEMMA CountingStep ==
    ASSUME Typed, Disposal, Counting, [Next]_vars
    PROVE  Counting'
<1> SUFFICES ASSUME Regular, setup' = setup
             PROVE  Counts'
  BY SetupStays DEF Counting, Regular, mode
<1>0. Counts
  BY DEF Counting
<1>1. ASSUME UNCHANGED <<n, conn, acc, fin>>
      PROVE  Counts'
  <2>1. Open' = Open
    BY <1>1 DEF Open
  <2> QED BY <1>0, <1>1, <2>1, CountsStay DEF Counts
<1>2. ASSUME Starting PROVE Counts'
  BY <1>1, <1>2 DEF Starting, Prepare, Run, ThreadRun, UnlockQuitMutex
<1>3. ASSUME NEW c \in Conns, Connect(c) \/ TakenElsewhere(c) \/ Negotiate(c)
      PROVE  Counts'
  <2>1. UNCHANGED <<n, acc, fin>>
    BY <1>3 DEF Connect, TakenElsewhere, Negotiate
  <2>2. Open' = Open
    BY <1>3 DEF Connect, TakenElsewhere, Negotiate, Open, Typed
  <2> QED BY <1>0, <2>1, <2>2, CountsStay DEF Counts
<1>4. ASSUME NEW c \in Conns, Accept(c)
      PROVE  Counts'
  <2>1. Open' = Open
    BY <1>4 DEF Accept, Open, Typed
  <2>2. n' = n /\ fin' = fin /\ acc'.at = "count" /\ acc'.seen = n /\ acc.at = "accept"
    BY <1>4 DEF Accept
  <2> QED BY <1>0, <2>1, <2>2, CountsStay DEF Counts
<1>5. ASSUME AcceptReady \/ Resume \/ AcceptNothing \/ AcceptFails
      PROVE  Counts'
  <2>1. Open' = Open /\ n' = n /\ fin' = fin
    BY <1>5 DEF AcceptReady, Resume, AcceptNothing, AcceptFails, Open
  <2>2. CASE AcceptReady \/ Resume
    <3>1. acc'.at \in {"suspended", "accept"} /\ (acc'.at = "accept" => ~AtLimit)
      BY <2>2 DEF AcceptReady, Resume, Typed
    <3>2. mode # "accept-loop" => fin.at = "idle"
      BY <2>2 DEF AcceptReady, Resume, AcceptorRuns
    <3> QED BY <1>0, <2>1, <3>1, <3>2, CountsStay DEF Counts
  <2>3. CASE AcceptNothing \/ AcceptFails
    <3>1. acc'.at = "idle"
      BY <2>3 DEF AcceptNothing, AcceptFails, Nobody
    <3> QED BY <1>0, <2>1, <3>1, CountsStay DEF Counts
  <2> QED BY <1>5, <2>2, <2>3
<1>6. ASSUME NEW c \in Conns, ChannelSetup(c)
      PROVE  /\ \E x \in {"started", "finished"} : conn' = [conn EXCEPT ![c] = x]
             /\ fin.at = "idle" => fin'.at # "sub"
  BY <1>6, CbFinishedType DEF ChannelSetup, Established
<1>7. ASSUME NEW c \in Conns, AcceptCount(c)
      PROVE  Counts'
  <2>1. acc.at = "count" /\ conn[c] = "accepted" /\ n' = n + 1 /\ acc' = Nobody
    BY <1>0, <1>7 DEF AcceptCount, Counts
  <2>2. \E x \in {"started", "finished", "queued"} : conn' = [conn EXCEPT ![c] = x]
    BY <1>6, <1>7 DEF AcceptCount
  <2>3. Open' = Open \cup {c} /\ c \notin Open
    BY <2>1, <2>2 DEF Open, Typed
  <2>4. Cardinality(Open') = Cardinality(Open) + 1
    BY <2>3, OpenFinite, FS_AddElement
  <2>5. fin'.at # "sub"
    <3>1. CASE mode = "single"
      BY <1>6, <1>7, <3>1 DEF AcceptCount, AcceptorRuns
    <3>2. CASE mode # "single"
      BY <1>0, <1>7, <2>1, <3>2, Apart DEF AcceptCount
    <3> QED BY <3>1, <3>2
  <2>6. 0 < setup.max => n + 1 <= setup.max
    <3>1. setup.max \in Nat
      BY ServiceAssumption DEF Typed, Setup
    <3> QED BY <1>0, <2>1, <3>1 DEF Counts, AtLimit, Typed
  <2>7. n + 1 = Cardinality(Open')
    BY <1>0, <2>4 DEF Counts
  <2> QED BY <2>1, <2>5, <2>6, <2>7 DEF Counts, Nobody
<1>8. ASSUME NEW c \in Conns, IdleSetup(c)
      PROVE  Counts'
  <2>1. /\ n' = n /\ acc' = acc /\ conn[c] = "queued" /\ fin.at = "idle"
        /\ mode # "accept-loop" => acc.at = "idle"
    BY <1>8 DEF IdleSetup, MainFree
  <2>2. fin'.at # "sub" /\ \E x \in {"started", "finished"} : conn' = [conn EXCEPT ![c] = x]
    BY <1>6, <1>8, <2>1 DEF IdleSetup
  <2>3. Open' = Open
    BY <2>1, <2>2 DEF Open, Typed
  <2> QED BY <1>0, <2>1, <2>2, <2>3, CountsStay DEF Counts
<1>9. ASSUME NEW c \in Conns, SessionFinishes(c)
      PROVE  Counts'
  <2>1. /\ n' = n /\ acc' = acc /\ conn[c] \in {"busy", "started"} /\ fin.at = "idle"
        /\ mode # "accept-loop" => acc.at = "idle"
    BY <1>9 DEF SessionFinishes, MainFree
  <2>2. fin'.at # "sub" /\ conn' = [conn EXCEPT ![c] = "finished"]
    BY <1>9, <2>1, CbFinishedType DEF SessionFinishes
  <2>3. Open' = Open
    BY <2>1, <2>2 DEF Open, Typed
  <2> QED BY <1>0, <2>1, <2>2, <2>3, CountsStay DEF Counts
<1>10. ASSUME NEW gone \in SUBSET Conns, ConnectionCheck(gone)
       PROVE  Counts'
  BY <1>1, <1>10 DEF ConnectionCheck
<1>11. ASSUME Finisher \/ FinishRead \/ FinishCheck \/ FinishQuit
       PROVE  Counts'
  <2>1. n' = n /\ acc' = acc /\ Open' = Open
    BY <1>11 DEF Finisher, FinishRead, FinishCheck, FinishQuit, Open
  <2>2. fin'.at = "sub" => fin'.seen = n
    BY <1>11, DisposedType DEF Finisher, FinishRead, FinishCheck, FinishQuit, Typed, Nobody
  <2>3. mode # "accept-loop" => acc.at = "idle"
    BY <1>0, <1>11 DEF Finisher, FinishRead, FinishCheck, FinishQuit, MainFree, Counts
  <2> QED BY <1>0, <2>1, <2>2, <2>3, CountsStay DEF Counts
<1>12. ASSUME FinishWrite
       PROVE  Counts'
  <2>1. PICK c \in Finished : 
           /\ conn' = [conn EXCEPT ![c] = "gone"]
           /\ IF quitting THEN fin' = [fin EXCEPT !.at = "check"] /\ UNCHANGED leader
              ELSE Disposed(Finished \ {c})
    BY <1>12 DEF FinishWrite
  <2>2. fin.at = "sub" /\ acc' = acc /\ n' = fin.seen - 1
    BY <1>12 DEF FinishWrite
  <2>3. acc.at \notin {"accept", "count"} /\ n > 0 /\ fin.seen = n
    BY <1>0, <2>2, Apart
  <2>4. Open' = Open \ {c} /\ c \in Open
    BY <2>1 DEF Open, Finished, Typed
  <2>5. Cardinality(Open') = Cardinality(Open) - 1
    BY <2>4, OpenFinite, FS_RemoveElement
  <2>6. fin'.at # "sub"
    BY <2>1, DisposedType DEF Typed, Nobody
  <2>7. n - 1 = Cardinality(Open') /\ (0 < setup.max => n - 1 <= setup.max)
    <3>1. setup.max \in Nat
      BY ServiceAssumption DEF Typed, Setup
    <3> QED BY <1>0, <2>5, <3>1 DEF Counts, Typed
  <2>8. mode # "accept-loop" => acc.at = "idle"
    BY <1>0, <2>2 DEF Counts
  <2> QED BY <2>2, <2>3, <2>6, <2>7, <2>8 DEF Counts, mode
<1>13. ASSUME Signal \/ HandleSignal \/ MasterGone \/ ThreadEnds \/ Exit PROVE Counts'
  BY <1>1, <1>13 DEF Signal, HandleSignal, MasterGone, ThreadEnds, Exit
<1>14. ASSUME UNCHANGED vars PROVE Counts'
  BY <1>1, <1>14 DEF vars
<1> QED BY <1>2, <1>3, <1>4, <1>5, <1>7, <1>8, <1>9, <1>10, <1>11, <1>12, <1>13, <1>14
        DEF Next, Progress, Accepting, Serving, Disposing, Stopping

-----------------------------------------------------------------------------
(* Shutting down *)

\* One thread, and a signal that comes while the loop runs: the handler finds no
\* session half accepted, and the loop is left only when the counter is zero.
OneThread == mode # "accept-loop" /\ setup.signal = "running"

Settles ==
    /\ \A c, d \in Conns : conn[c] = "accepted" /\ conn[d] = "accepted" => c = d
    /\ \A c \in Conns : conn[c] = "accepted" => acc.at = "count"
    /\ signal = "handling" => main = "running" /\ acc.at = "idle"
    /\ main \in {"ended", "exit"} => n = 0 /\ acc.at = "idle"
    /\ fin.at = "lock" => fin.seen = n

\* Without a signal the loop is never left.
Unstopped == ~quitting /\ signal = "none" /\ main \notin {"ended", "exit"}

Settled ==
    /\ OneThread => Settles
    /\ setup.signal = "never" => Unstopped
    /\ setup.mtas = {} => \A c \in Conns : conn[c] = "away"

\* Where nobody connects nothing is served.
LEMMA NobodyStep ==
    ASSUME Typed, setup.mtas = {}, \A c \in Conns : conn[c] = "away", [Next]_vars
    PROVE  \A c \in Conns : conn'[c] = "away"
<1>1. CASE UNCHANGED conn
  BY <1>1
<1>2. ~(\E c \in Conns : Connect(c) \/ TakenElsewhere(c) \/ Accept(c) \/ AcceptCount(c)
                         \/ IdleSetup(c) \/ Negotiate(c) \/ SessionFinishes(c))
  BY DEF Connect, TakenElsewhere, Accept, AcceptCount, IdleSetup, Negotiate, SessionFinishes
<1>3. ~FinishWrite
  BY DEF FinishWrite, Finished
<1> QED
  BY <1>1, <1>2, <1>3
  DEF Next, vars, Progress, Starting, Accepting, Serving, Disposing, Stopping, Prepare, Run,
      ThreadRun, UnlockQuitMutex, AcceptReady, Resume, AcceptNothing, AcceptFails, ConnectionCheck,
      Finisher, FinishRead, FinishCheck, FinishQuit, Signal, HandleSignal, MasterGone, ThreadEnds, Exit

\* Where no signal comes the process runs on.
LEMMA UnstoppedStep ==
    ASSUME Typed, setup.signal = "never", Unstopped, [Next]_vars
    PROVE  Unstopped'
<1> USE DEF Unstopped
<1>1. ASSUME UNCHANGED <<main, quitting, signal>> PROVE Unstopped'
  BY <1>1
<1>2. CASE Starting
  BY <1>2 DEF Starting, Prepare, Run, ThreadRun, UnlockQuitMutex
<1>3. CASE Accepting
  BY <1>1, <1>3 DEF Accepting, Resume, AcceptNothing, Accept, AcceptCount, IdleSetup
<1>4. CASE Serving
  BY <1>1, <1>4 DEF Serving, Negotiate, SessionFinishes
<1>5. CASE Disposing
  BY <1>1, <1>5 DEF Disposing, Finisher, FinishRead, FinishWrite, FinishCheck, FinishQuit
<1>6. CASE Stopping
  BY <1>1, <1>6 DEF Stopping, HandleSignal, ThreadEnds, Exit
<1>7. CASE AcceptReady \/ AcceptFails \/ Signal \/ MasterGone
  BY <1>1, <1>7 DEF AcceptReady, AcceptFails, Signal, MasterGone
<1>8. ASSUME NEW c \in Conns, Connect(c) \/ TakenElsewhere(c) PROVE Unstopped'
  BY <1>1, <1>8 DEF Connect, TakenElsewhere
<1>9. ASSUME NEW gone \in SUBSET Conns, ConnectionCheck(gone) PROVE Unstopped'
  BY <1>1, <1>9 DEF ConnectionCheck
<1>10. CASE UNCHANGED vars
  BY <1>1, <1>10 DEF vars
<1> QED BY <1>2, <1>3, <1>4, <1>5, <1>6, <1>7, <1>8, <1>9, <1>10 DEF Next, Progress

\* Every step keeps Settles.
LEMMA SettlesStep ==
    ASSUME Typed, Disposal, Counting, OneThread, Settles, [Next]_vars
    PROVE  Settles'
<1>0. Counts /\ Regular
  BY DEF Counting, Regular, OneThread
<1>1. ASSUME UNCHANGED <<main, signal, n, conn, acc, fin>>
      PROVE  Settles'
  BY <1>1 DEF Settles
<1>2. CASE Starting
  BY <1>1, <1>2 DEF Starting, Prepare, Run, ThreadRun, UnlockQuitMutex, OneThread, Settles, Typed
<1>3. ASSUME NEW c \in Conns, Connect(c) \/ TakenElsewhere(c) \/ Negotiate(c)
      PROVE  Settles'
  <2>1. UNCHANGED <<main, signal, n, acc, fin>>
    BY <1>3 DEF Connect, TakenElsewhere, Negotiate
  <2>2. \A d \in Conns : conn'[d] = "accepted" => conn[d] = "accepted"
    BY <1>3 DEF Connect, TakenElsewhere, Negotiate, Typed
  <2> QED BY <2>1, <2>2 DEF Settles
<1>4. ASSUME NEW c \in Conns, Accept(c)
      PROVE  Settles'
  <2>1. UNCHANGED <<main, signal, n, fin>> /\ acc.at = "accept" /\ acc'.at = "count" /\ signal # "handling"
        /\ main \notin {"ended", "exit"}
    BY <1>4 DEF Accept, AcceptorRuns, OneThread, Settles
  <2>2. \A d \in Conns : conn'[d] = "accepted" => d = c
    BY <1>4, <2>1 DEF Accept, Settles, Typed
  <2> QED BY <2>1, <2>2 DEF Settles
<1>5. CASE AcceptReady \/ Resume \/ AcceptNothing \/ AcceptFails
  <2>1. /\ UNCHANGED <<main, signal, n, conn, fin>> /\ acc.at # "count" /\ signal # "handling"
        /\ main \notin {"ended", "exit"}
    BY <1>5 DEF AcceptReady, Resume, AcceptNothing, AcceptFails, AcceptorRuns, OneThread, Settles, Typed
  <2> QED BY <2>1 DEF Settles
<1>6. ASSUME NEW c \in Conns, AcceptCount(c)
      PROVE  Settles'
  <2>1. /\ UNCHANGED <<main, signal>> /\ signal # "handling" /\ conn[c] = "accepted" /\ acc.at = "count"
        /\ fin.at = "idle" /\ main \notin {"ended", "exit"}
    BY <1>6 DEF AcceptCount, AcceptorRuns, OneThread, Settles
  <2>2. \E x \in {"queued", "started", "finished"} : conn' = [conn EXCEPT ![c] = x]
    BY <1>6, CbFinishedType DEF AcceptCount, ChannelSetup, Established
  <2>3. \A d \in Conns : conn'[d] # "accepted"
    BY <2>1, <2>2 DEF Settles, Typed
  <2>4. fin'.at # "lock"
    BY <1>6, <2>1, CbFinishedType DEF AcceptCount, ChannelSetup
  <2> QED BY <2>1, <2>3, <2>4 DEF Settles
<1>7. ASSUME NEW c \in Conns, IdleSetup(c) \/ SessionFinishes(c)
      PROVE  Settles'
  <2>1. /\ UNCHANGED <<main, signal, n, acc>> /\ fin.at = "idle"
    BY <1>7 DEF IdleSetup, SessionFinishes, MainFree
  <2>2. \E x \in {"started", "finished"} : conn' = [conn EXCEPT ![c] = x]
    BY <1>7, CbFinishedType DEF IdleSetup, SessionFinishes, ChannelSetup, Established
  <2>3. \A d \in Conns : conn'[d] = "accepted" => conn[d] = "accepted"
    BY <2>2 DEF Typed
  <2>4. fin'.at # "lock"
    BY <1>7, <2>1, CbFinishedType DEF IdleSetup, SessionFinishes, ChannelSetup
  <2> QED BY <2>1, <2>3, <2>4 DEF Settles
<1>8. ASSUME NEW gone \in SUBSET Conns, ConnectionCheck(gone) PROVE Settles'
  BY <1>1, <1>8 DEF ConnectionCheck
<1>9. CASE Finisher \/ FinishRead \/ FinishCheck
  <2>1. UNCHANGED <<main, signal, n, conn, acc>> /\ (fin'.at = "lock" => fin'.seen = n)
    BY <1>9 DEF Finisher, FinishRead, FinishCheck, Typed
  <2> QED BY <2>1 DEF Settles
<1>10. CASE FinishWrite
  <2>1. PICK c \in Finished : 
           /\ conn' = [conn EXCEPT ![c] = "gone"]
           /\ IF quitting THEN fin' = [fin EXCEPT !.at = "check"] /\ UNCHANGED leader
              ELSE Disposed(Finished \ {c})
    BY <1>10 DEF FinishWrite
  <2>2. UNCHANGED <<main, signal, acc>> /\ fin.at = "sub"
    BY <1>10 DEF FinishWrite
  <2>3. fin'.at # "lock"
    BY <2>1, DisposedType DEF Typed, Nobody
  <2>4. main \notin {"ended", "exit"}
    BY <1>0, <2>2, Apart DEF Settles
  <2>5. \A d \in Conns : conn'[d] = "accepted" => conn[d] = "accepted"
    BY <2>1 DEF Typed
  <2> QED BY <2>2, <2>3, <2>4, <2>5 DEF Settles
<1>11. CASE FinishQuit
  <2>1. /\ UNCHANGED <<signal, n, conn, acc>> /\ signal # "handling" /\ fin.at = "lock"
        /\ main' \in {"ended", "exit"} => main \in {"ended", "exit"} \/ fin.seen = 0
    BY <1>11 DEF FinishQuit
  <2>2. fin'.at # "lock"
    BY <1>11, DisposedType DEF FinishQuit, Nobody
  <2>3. acc.at = "idle" /\ fin.seen = n
    BY <1>0, <2>1 DEF Counts, OneThread, Settles
  <2> QED BY <2>1, <2>2, <2>3 DEF Settles
<1>12. CASE Signal
  BY <1>12 DEF Signal, OneThread, Settles
<1>13. CASE HandleSignal \/ MasterGone
  <2>1. UNCHANGED <<n, conn, acc, fin>> /\ signal' # "handling" /\ acc.at = "idle"
    BY <1>13 DEF HandleSignal, MasterGone, MainFree, OneThread, Settles
  <2>2. main' \in {"ended", "exit"} => main \in {"ended", "exit"} \/ n = 0
    BY <1>13 DEF HandleSignal, MasterGone, Shutdown
  <2> QED BY <2>1, <2>2 DEF Settles
<1>14. CASE ThreadEnds
  BY <1>1, <1>14 DEF ThreadEnds
<1>15. CASE Exit
  BY <1>15 DEF Exit, Settles
<1>16. CASE UNCHANGED vars
  BY <1>1, <1>16 DEF vars
<1> QED BY <1>2, <1>3, <1>4, <1>5, <1>6, <1>7, <1>8, <1>9, <1>10, <1>11, <1>12, <1>13, <1>14, <1>15, <1>16
        DEF Next, Progress, Accepting, Serving, Disposing, Stopping

\* Every step keeps Settled.
LEMMA SettledStep ==
    ASSUME Typed, Disposal, Counting, Settled, [Next]_vars
    PROVE  Settled'
BY SetupStays, NobodyStep, UnstoppedStep, SettlesStep DEF Settled, OneThread, mode

-----------------------------------------------------------------------------
(* The theorems *)

Inv == Typed /\ Disposal /\ Counting /\ Settled

\* The process starts with the invariants.
LEMMA InitInv ==
    ASSUME Init
    PROVE  Inv /\ (setup.polite => Leaders)
<1>1. Typed
  <2>1. conn \in [Conns -> Stage] /\ leader \in [Conns -> {"none", "listed", "finished", "freed"}]
    BY DEF Init, Stage
  <2>2. /\ acc \in [at : {"idle", "suspended", "accept", "count"}, seen : Int]
        /\ fin \in [at : {"idle", "take", "sub", "check", "lock"}, seen : Int]
    BY DEF Init, Nobody
  <2>3. quitting \in BOOLEAN /\ watching \in BOOLEAN /\ finisher \in BOOLEAN
    BY Zenon DEF Init
  <2>4. /\ main \in {"boot", "prepared", "running", "ended", "exit"}
        /\ thread \in {"none", "new", "running", "quit", "ended"}
        /\ mutex \in {"free", "main", "thread"} /\ signal \in {"none", "handling", "done"}
        /\ checker \in {"off", "armed", "stale"} /\ n \in Int
    BY DEF Init
  <2> QED BY <2>1, <2>2, <2>3, <2>4 DEF Init, Typed
<1>2. Finished = {} /\ Open = {}
  BY DEF Init, Finished, Open
<1>3. Disposal
  BY <1>2 DEF Init, Disposal, NoneForgotten, Nobody
<1>4. n = Cardinality(Open) /\ setup.max \in Nat
  BY <1>1, <1>2, FS_EmptySet, ServiceAssumption DEF Init, Typed, Setup
<1>5. Counting
  BY <1>4 DEF Init, Counting, Counts, Nobody
<1>6. Settled
  BY DEF Init, Settled, Settles, Unstopped, Nobody
<1>7. setup.polite => Leaders
  BY DEF Init, Leaders, LeaderOf
<1> QED BY <1>1, <1>3, <1>5, <1>6, <1>7 DEF Inv

\* The counter, the disposal of the finished sessions and the shutdown are in
\* order after every step.
THEOREM SessionsInOrder == Spec => []Inv
<1>1. Init => Inv
  BY InitInv
<1>2. Inv /\ [Next]_vars => Inv'
  BY TypedStep, DisposalStep, CountingStep, SettledStep DEF Inv
<1> QED BY <1>1, <1>2, PTL DEF Spec

\* In every mode, with any max_pending_finished_sessions and whatever the order
\* of the callbacks, a session that is finished has a finisher on its way
\* (single_thread_cb_finished, dispose_finished_data).
THEOREM FinishedAreDisposedOf == Spec => []NoneForgotten
<1>1. Inv => NoneForgotten
  BY DEF Inv, Disposal
<1> QED BY <1>1, SessionsInOrder, PTL

\* max_connections holds in one thread for any limit, and with an accept thread
\* for a limit of one, where ++ and -- of n_processing_sessions never meet; a
\* limit of two fails there by a lost update (accept_connection_fd,
\* milter_client_session_started).
THEOREM LimitHolds ==
    ASSUME \A s \in Setups : s.mode # "accept-loop" \/ s.max \in {0, 1}
    PROVE  Spec => []LimitKept
<1>1. Inv => LimitKept
  <2> SUFFICES ASSUME Inv, 0 < setup.max
               PROVE  Cardinality(Open) <= setup.max
    BY DEF LimitKept
  <2>1. setup.mode # "accept-loop" \/ setup.max \in {0, 1}
    BY DEF Inv, Typed
  <2>2. setup.mode # "accept-loop" \/ setup.max = 1
    BY <2>1
  <2> QED BY <2>2 DEF Inv, Counting, Regular, Counts, mode
<1> QED BY <1>1, SessionsInOrder, PTL

\* A process that leaves its loop has served every connection it accepted: in one
\* thread when the signal finds the loop running, and in every mode when no
\* signal or nobody comes (milter_client_shutdown, finish_processing).
THEOREM ShutdownCutsNone ==
    ASSUME \A s \in Setups : \/ s.signal = "never" \/ s.mtas = {}
                             \/ s.mode # "accept-loop" /\ s.signal = "running"
    PROVE  Spec => []NoneCut
<1>1. Inv => NoneCut
  <2> SUFFICES ASSUME Inv, main = "exit"
               PROVE  Open = {} /\ \A c \in Conns : conn[c] # "accepted"
    BY DEF NoneCut
  <2>1. \/ setup.signal = "never" \/ setup.mtas = {} \/ OneThread
    BY DEF Inv, Typed, OneThread, mode
  <2>2. CASE OneThread
    <3>1. n = 0 /\ acc.at = "idle" /\ n = Cardinality(Open) /\ Settles
      BY <2>2 DEF Inv, Settled, Settles, Counting, Counts, Regular, OneThread
    <3> QED BY <3>1, OpenEmpty DEF Settles
  <2>3. CASE setup.mtas = {}
    BY <2>3 DEF Inv, Settled, Open
  <2>4. CASE setup.signal = "never"
    BY <2>4 DEF Inv, Settled, Unstopped
  <2> QED BY <2>1, <2>2, <2>3, <2>4
<1> QED BY <1>1, SessionsInOrder, PTL

\* If every MTA negotiates before it leaves, the leader of a session that is gone
\* is freed when the disposal ends, whether the session or a connection check
\* finished it (cb_leader_finished, connection_check, dispose_finished_leaders).
THEOREM NoLeaderLeft ==
    ASSUME \A s \in Setups : s.polite
    PROVE  Spec => []LeadersFreed
<1>1. Init => Typed /\ Leaders
  BY InitInv DEF Inv, Init
<1>2. (Typed /\ Leaders) /\ [Next]_vars => (Typed /\ Leaders)'
  BY TypedStep, LeadersStep
<1>3. Typed /\ Leaders => LeadersFreed
  BY DEF Typed, Leaders, LeaderOf, LeadersFreed
<1> QED BY <1>1, <1>2, <1>3, PTL DEF Spec
=============================================================================
