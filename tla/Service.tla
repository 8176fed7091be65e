------------------------------ MODULE Service -------------------------------
(* The process around the sessions: milter-client.c accepts the MTAs'        *)
(* connections, counts the sessions, disposes of the finished ones and shuts *)
(* down on a signal once the last is gone; milter-manager.c keeps a leader   *)
(* for every session and checks periodically that the MTAs' clients are      *)
(* still connected.                                                          *)
(*                                                                           *)
(* Three modes: "single", the default, accepts in the loop that serves the   *)
(* sessions; "worker" is one of n_workers processes on a shared socket;      *)
(* "accept-loop" (MILTER_USE_ACCEPT_LOOP=yes) accepts in a thread of its own,*)
(* so that n_processing_sessions, which no lock guards, is read and written  *)
(* by two threads: each ++ and -- is a read and a write.  A session itself   *)
(* is ClientSide and the modules under it.                                   *)
EXTENDS Naturals, FiniteSets

CONSTANTS
    Conns,      \* the connections of MTAs
    Setups,     \* the ways the process may be configured and used
    MaxPending  \* max_pending_finished_sessions

\* max: max_connections; mtas: who connects; polite: every MTA negotiates before
\* it leaves; emfile: accept may fail; check: connection_check_interval is not 0;
\* signal: when SIGTERM may come.
Setup == [mode : {"single", "worker", "accept-loop"}, max : Nat, mtas : SUBSET Conns,
          polite : BOOLEAN, emfile : BOOLEAN, check : BOOLEAN,
          signal : {"never", "running", "any"}]

ASSUME ServiceAssumption ==
    IsFiniteSet(Conns) /\ Setups \subseteq Setup /\ MaxPending \in Nat

VARIABLES
    setup,      \* the configuration, which does not change
    main,       \* the main thread: where milter_client_run is
    thread,     \* the accept thread
    mutex,      \* the owner of quit_mutex
    quitting,   \* quitting
    watching,   \* the accept watch is in its loop
    n,          \* n_processing_sessions
    conn,       \* conn[c]: how far the connection has come
    acc,        \* accept_connection_fd
    fin,        \* dispose_finished_data
    finisher,   \* finisher_id is set
    signal,     \* SIGTERM
    leader,     \* leader[c]: the leader of the session
    checker     \* periodical_connection_checker_id: "stale" names a source that is gone

vars == <<setup, main, thread, mutex, quitting, watching, n, conn, acc, fin, finisher,
          signal, leader, checker>>

Stage == {"away", "waiting", "elsewhere", "accepted", "queued", "started", "busy",
          "finished", "gone"}

mode == setup.mode

Nobody == [at |-> "idle", seen |-> 0]

\* The sessions that milter_client_session_started was called for, and not yet
\* milter_client_session_finished.
Open == {c \in Conns : conn[c] \in {"queued", "started", "busy", "finished"}}

Finished == {c \in Conns : conn[c] = "finished"}

\* The main loop is free to dispatch: it is in no callback and in no signal handler.
\* In the modes without an accept thread accept_connection_fd is such a callback.
MainFree ==
    /\ main = "running" /\ signal # "handling" /\ fin.at = "idle"
    /\ mode = "accept-loop" \/ acc.at = "idle"

\* The thread that accepts may run.
AcceptorRuns ==
    IF mode = "accept-loop" THEN thread \in {"running", "quit"}
    ELSE main \in {"running", "ended"} /\ signal # "handling" /\ fin.at = "idle"

-----------------------------------------------------------------------------
(* Starting *)

\* milter_client_prepare, run_worker
Prepare ==
    /\ main = "boot" /\ signal # "handling"
    /\ main' = "prepared" /\ watching' = TRUE /\ quitting' = FALSE
    /\ thread' = IF mode = "accept-loop" THEN "new" ELSE "none"
    /\ UNCHANGED <<setup, mutex, n, conn, acc, fin, finisher, signal, leader, checker>>

\* single_thread_single_loop_run, run_worker; single_thread_start_accept, which
\* keeps quit_mutex until the loop runs
Run ==
    /\ main = "prepared" /\ signal # "handling"
    /\ IF mode # "accept-loop"
       THEN main' = "running" /\ UNCHANGED mutex
       ELSE /\ mutex = "free"
            /\ main' = IF quitting THEN "ended" ELSE "running"
            /\ mutex' = IF quitting THEN "free" ELSE "main"
    /\ UNCHANGED <<setup, thread, quitting, watching, n, conn, acc, fin, finisher, signal,
                   leader, checker>>

\* single_thread_accept_loop_run
ThreadRun ==
    /\ thread = "new" /\ mutex = "free"
    /\ thread' = IF quitting THEN "ended" ELSE "running"
    /\ mutex' = IF quitting THEN "free" ELSE "thread"
    /\ UNCHANGED <<setup, main, quitting, watching, n, conn, acc, fin, finisher, signal,
                   leader, checker>>

\* single_thread_cb_idle_unlock_quit_mutex, in either loop
UnlockQuitMutex ==
    /\ \/ mutex = "main" /\ MainFree
       \/ mutex = "thread" /\ thread = "running"
    /\ mutex' = "free"
    /\ UNCHANGED <<setup, main, thread, quitting, watching, n, conn, acc, fin, finisher,
                   signal, leader, checker>>

-----------------------------------------------------------------------------
(* Accepting *)

Connect(c) ==
    /\ conn[c] = "away" /\ c \in setup.mtas
    /\ conn' = [conn EXCEPT ![c] = "waiting"]
    /\ UNCHANGED <<setup, main, thread, mutex, quitting, watching, n, acc, fin, finisher,
                   signal, leader, checker>>

\* Another worker accepts the connection.
TakenElsewhere(c) ==
    /\ mode = "worker" /\ conn[c] = "waiting"
    /\ conn' = [conn EXCEPT ![c] = "elsewhere"]
    /\ UNCHANGED <<setup, main, thread, mutex, quitting, watching, n, acc, fin, finisher,
                   signal, leader, checker>>

AtLimitLate == 0 < setup.max /\ setup.max < n

\* The condition of the loop that suspends accept_connection_fd.
AtLimit == 0 < setup.max /\ setup.max <= n

\* The listening socket is readable: the watch function calls accept_connection_fd.
AcceptReady ==
    /\ AcceptorRuns /\ watching /\ acc.at = "idle"
    /\ IF mode = "accept-loop" THEN thread = "running" ELSE main = "running"
    /\ \E c \in Conns : conn[c] = "waiting"
    /\ acc' = [acc EXCEPT !.at = IF AtLimit THEN "suspended" ELSE "accept"]
    /\ UNCHANGED <<setup, main, thread, mutex, quitting, watching, n, conn, fin, finisher,
                   signal, leader, checker>>

\* g_usleep is over and there is room
Resume ==
    /\ AcceptorRuns /\ acc.at = "suspended" /\ ~AtLimit
    /\ acc' = [acc EXCEPT !.at = "accept"]
    /\ UNCHANGED <<setup, main, thread, mutex, quitting, watching, n, conn, fin, finisher,
                   signal, leader, checker>>

\* accept() succeeds and milter_client_session_started reads the counter.
Accept(c) ==
    /\ AcceptorRuns /\ acc.at = "accept" /\ conn[c] = "waiting"
    /\ conn' = [conn EXCEPT ![c] = "accepted"]
    /\ acc' = [at |-> "count", seen |-> n]
    /\ UNCHANGED <<setup, main, thread, mutex, quitting, watching, n, fin, finisher,
                   signal, leader, checker>>

\* Another worker was faster (EAGAIN on the non-blocking socket).
AcceptNothing ==
    /\ AcceptorRuns /\ mode = "worker" /\ acc.at = "accept"
    /\ \A c \in Conns : conn[c] # "waiting"
    /\ acc' = Nobody
    /\ UNCHANGED <<setup, main, thread, mutex, quitting, watching, n, conn, fin, finisher,
                   signal, leader, checker>>

\* accept() fails (EMFILE): worker_accept_watch_func gives its watch up.
AcceptFails ==
    /\ setup.emfile /\ AcceptorRuns /\ acc.at = "accept"
    /\ acc' = Nobody /\ watching' = (watching /\ mode # "worker")
    /\ UNCHANGED <<setup, main, thread, mutex, quitting, n, conn, fin, finisher, signal,
                   leader, checker>>

CbFinishedOnce(cs, c) ==
    LET pending == Cardinality({d \in Conns \ {c} : cs[d] = "finished"}) + 1
        atOnce == 0 < MaxPending /\ MaxPending < pending
    IN /\ conn' = [cs EXCEPT ![c] = "finished"]
       /\ finisher' = (finisher /\ ~atOnce)
       /\ fin' = IF atOnce THEN [fin EXCEPT !.at = "take"] ELSE fin

\* single_thread_cb_finished for c, when conn is otherwise as in cs: a finisher is
\* scheduled, or the finished sessions are disposed of at once.
CbFinished(cs, c) ==
    LET pending == Cardinality({d \in Conns \ {c} : cs[d] = "finished"}) + 1
        atOnce == 0 < MaxPending /\ MaxPending < pending
    IN /\ conn' = [cs EXCEPT ![c] = "finished"]
       /\ finisher' = ~atOnce
       /\ fin' = IF atOnce THEN [fin EXCEPT !.at = "take"] ELSE fin

\* connection_established: the session gets a leader (setup_context_signals) ..
Established(c) ==
    /\ conn' = [conn EXCEPT ![c] = "started"]
    /\ leader' = [leader EXCEPT ![c] = "listed"]

\* .. and start_periodical_connection_checker, which looks at the id alone
StartChecker ==
    checker' = IF setup.check /\ checker = "off" THEN "armed" ELSE checker

\* single_thread_client_channel_setup; a context that cannot be started is finished
ChannelSetup(c) ==
    \/ Established(c) /\ StartChecker /\ UNCHANGED <<fin, finisher>>
    \/ CbFinished(conn, c) /\ UNCHANGED <<leader, checker>>

\* milter_client_session_started writes the counter; the session is set up at
\* once, or the main loop is asked to (single_thread_process_client_channel)
AcceptCount(c) ==
    /\ AcceptorRuns /\ acc.at = "count" /\ conn[c] = "accepted"
    /\ n' = acc.seen + 1
    /\ acc' = Nobody
    /\ IF mode = "single" THEN ChannelSetup(c)
       ELSE /\ conn' = [conn EXCEPT ![c] = "queued"]
            /\ UNCHANGED <<fin, finisher, leader, checker>>
    /\ UNCHANGED <<setup, main, thread, mutex, quitting, watching, signal>>

\* single_thread_cb_idle_client_channel_setup
IdleSetup(c) ==
    /\ MainFree /\ conn[c] = "queued"
    /\ ChannelSetup(c)
    /\ UNCHANGED <<setup, main, thread, mutex, quitting, watching, n, acc, signal>>

-----------------------------------------------------------------------------
(* A session, its leader and the connection checker *)

\* milter_manager_leader_negotiate: the leader has its children.
Negotiate(c) ==
    /\ MainFree /\ conn[c] = "started"
    /\ conn' = [conn EXCEPT ![c] = "busy"]
    /\ UNCHANGED <<setup, main, thread, mutex, quitting, watching, n, acc, fin, finisher,
                   signal, leader, checker>>

\* cb_leader_finished outside a connection check
LeaderFinished(c) ==
    LET rest == {d \in Conns \ {c} : leader[d] = "listed"}
    IN /\ leader' = [leader EXCEPT ![c] = "finished"]
       /\ checker' = IF rest = {} THEN "off" ELSE checker

\* The client context finishes.  cb_client_finished has the leader quit, which
\* finishes it if it has children; single_thread_cb_finished comes after.
SessionFinishes(c) ==
    /\ MainFree
    /\ conn[c] = "busy" \/ (conn[c] = "started" /\ ~setup.polite)
    /\ IF conn[c] = "busy" /\ leader[c] = "listed"
       THEN LeaderFinished(c) ELSE UNCHANGED <<leader, checker>>
    /\ CbFinished(conn, c)
    /\ UNCHANGED <<setup, main, thread, mutex, quitting, watching, n, acc, signal>>

\* connection_check: the leaders in gone, of the sessions that are waiting for a
\* milter, find their client disconnected, answer the MTA and quit their children,
\* which finishes them (cb_leader_finished in a check leaves the list to the check).
ConnectionCheck(gone) ==
    /\ MainFree /\ checker = "armed"
    /\ \A c \in gone : conn[c] = "busy" /\ leader[c] = "listed"
    /\ leader' = [c \in Conns |-> IF c \in gone THEN "finished" ELSE leader[c]]
    /\ checker' = IF \E c \in Conns \ gone : leader[c] = "listed" THEN "armed" ELSE "stale"
    /\ UNCHANGED <<setup, main, thread, mutex, quitting, watching, n, conn, acc, fin,
                   finisher, signal>>

-----------------------------------------------------------------------------
(* Disposing of finished sessions *)

\* single_thread_finisher
Finisher ==
    /\ MainFree /\ finisher
    /\ finisher' = FALSE /\ fin' = [fin EXCEPT !.at = "take"]
    /\ UNCHANGED <<setup, main, thread, mutex, quitting, watching, n, conn, acc, signal,
                   leader, checker>>

\* finish_processing: milter_client_session_finished reads the counter
FinishRead ==
    /\ fin.at = "take" /\ signal # "handling"
    /\ fin' = [at |-> "sub", seen |-> n]
    /\ UNCHANGED <<setup, main, thread, mutex, quitting, watching, n, conn, acc, finisher,
                   signal, leader, checker>>

\* sessions_finished of the manager: dispose_finished_leaders
DisposeFinishedLeaders ==
    leader' = [c \in Conns |-> IF leader[c] = "finished" THEN "freed" ELSE leader[c]]

DisposedKept(left) ==
    IF left # {} THEN fin' = [fin EXCEPT !.at = "take"] /\ UNCHANGED leader
    ELSE fin' = Nobody /\ UNCHANGED leader

\* The end of dispose_finished_data, when no session of finished_data is left:
\* SESSIONS_FINISHED has the manager dispose of its finished leaders.
Disposed(left) ==
    IF left # {} THEN fin' = [fin EXCEPT !.at = "take"] /\ UNCHANGED leader
    ELSE fin' = Nobody /\ DisposeFinishedLeaders

FinishWriteSilent ==
    /\ fin.at = "sub" /\ signal # "handling"
    /\ n' = fin.seen - 1
    /\ \E c \in Finished :
           /\ conn' = [conn EXCEPT ![c] = "gone"]
           /\ Disposed(Finished \ {c})
    /\ UNCHANGED <<setup, main, thread, mutex, quitting, watching, acc, finisher, signal,
                   checker>>

FinishWriteKeeps ==
    /\ fin.at = "sub" /\ signal # "handling"
    /\ \E c \in Finished :
           /\ conn' = [conn EXCEPT ![c] = "gone"]
           /\ IF quitting THEN fin' = [fin EXCEPT !.at = "check"] /\ UNCHANGED leader
              ELSE Disposed(Finished \ {c})
    /\ UNCHANGED <<setup, main, thread, mutex, quitting, watching, n, acc, finisher, signal,
                   checker>>

\* .. and writes it
FinishWrite ==
    /\ fin.at = "sub" /\ signal # "handling"
    /\ n' = fin.seen - 1
    /\ \E c \in Finished :
           /\ conn' = [conn EXCEPT ![c] = "gone"]
           /\ IF quitting THEN fin' = [fin EXCEPT !.at = "check"] /\ UNCHANGED leader
              ELSE Disposed(Finished \ {c})
    /\ UNCHANGED <<setup, main, thread, mutex, quitting, watching, acc, finisher, signal,
                   checker>>

\* The counter is read before quit_mutex is taken.
FinishCheck ==
    /\ fin.at = "check" /\ signal # "handling"
    /\ fin' = [at |-> "lock", seen |-> n]
    /\ UNCHANGED <<setup, main, thread, mutex, quitting, watching, n, conn, acc, finisher,
                   signal, leader, checker>>

FinishQuit ==
    /\ fin.at = "lock" /\ signal # "handling" /\ mutex = "free"
    /\ main' = IF quitting /\ fin.seen = 0 THEN "ended" ELSE main
    /\ Disposed(Finished)
    /\ UNCHANGED <<setup, thread, mutex, quitting, watching, n, conn, acc, finisher, signal,
                   checker>>

-----------------------------------------------------------------------------
(* Shutting down *)

\* SIGTERM or SIGINT interrupts the main thread, which runs shutdown_client:
\* anywhere, or ("running") neither while it starts nor inside accept_connection_fd.
Signal ==
    /\ signal = "none" /\ main \notin {"ended", "exit"}
    /\ \/ setup.signal = "any"
       \/ setup.signal = "running" /\ main = "running" /\ mutex # "main"
          /\ (mode = "accept-loop" \/ acc.at = "idle")
    /\ signal' = "handling"
    /\ UNCHANGED <<setup, main, thread, mutex, quitting, watching, n, conn, acc, fin,
                   finisher, leader, checker>>

ShutdownAtOnce ==
    /\ mutex = "free" /\ quitting' = TRUE
    /\ IF quitting THEN UNCHANGED <<main, thread, watching>>
       ELSE /\ watching' = FALSE
            /\ thread' = IF thread = "running" THEN "quit" ELSE thread
            /\ main' = IF main = "running" THEN "ended" ELSE main

\* milter_client_shutdown: a loop that does not run yet is not told to quit
\* (milter_event_loop_quit).
Shutdown ==
    /\ mutex = "free" /\ quitting' = TRUE
    /\ IF quitting THEN UNCHANGED <<main, thread, watching>>
       ELSE /\ watching' = FALSE
            /\ thread' = IF thread = "running" THEN "quit" ELSE thread
            /\ main' = IF main = "running" /\ n = 0 THEN "ended" ELSE main

\* shutdown_client
HandleSignal ==
    /\ signal = "handling" /\ Shutdown
    /\ signal' = "done"
    /\ UNCHANGED <<setup, mutex, n, conn, acc, fin, finisher, leader, checker>>

\* worker_watch_master: the master has gone and the control pipe is closed
MasterGone ==
    /\ mode = "worker" /\ MainFree /\ setup.signal # "never" /\ ~quitting /\ Shutdown
    /\ UNCHANGED <<setup, mutex, n, conn, acc, fin, finisher, signal, leader, checker>>

\* The accept loop returns.
ThreadEnds ==
    /\ thread = "quit" /\ acc.at = "idle"
    /\ thread' = "ended"
    /\ UNCHANGED <<setup, main, mutex, quitting, watching, n, conn, acc, fin, finisher,
                   signal, leader, checker>>

\* The main loop has returned, and g_thread_join.
Exit ==
    /\ main = "ended" /\ signal # "handling" /\ fin.at = "idle" /\ acc.at = "idle"
    /\ thread \in {"none", "ended"}
    /\ main' = "exit"
    /\ UNCHANGED <<setup, thread, mutex, quitting, watching, n, conn, acc, fin, finisher,
                   signal, leader, checker>>

-----------------------------------------------------------------------------
Init ==
    /\ setup \in Setups
    /\ main = "boot" /\ thread = "none" /\ mutex = "free" /\ quitting = FALSE
    /\ watching = FALSE /\ n = 0 /\ acc = Nobody /\ fin = Nobody /\ finisher = FALSE
    /\ conn = [c \in Conns |-> "away"] /\ leader = [c \in Conns |-> "none"]
    /\ signal = "none" /\ checker = "off"

Starting == Prepare \/ Run \/ ThreadRun \/ UnlockQuitMutex

Accepting == \/ Resume \/ AcceptNothing
             \/ \E c \in Conns : Accept(c) \/ AcceptCount(c) \/ IdleSetup(c)

Serving == \E c \in Conns : Negotiate(c) \/ SessionFinishes(c)

Disposing == Finisher \/ FinishRead \/ FinishWrite \/ FinishCheck \/ FinishQuit

Stopping == HandleSignal \/ ThreadEnds \/ Exit

Progress == Starting \/ Accepting \/ Serving \/ Disposing \/ Stopping

Next == \/ Progress \/ AcceptReady \/ AcceptFails \/ Signal \/ MasterGone
        \/ \E c \in Conns : Connect(c) \/ TakenElsewhere(c)
        \/ \E gone \in SUBSET Conns : ConnectionCheck(gone)

Spec == Init /\ [][Next]_vars

\* The loops and the threads run: one of the steps that bring the process or a
\* session on is taken in the end.  A session ends, if only by the timeout of its MTA
\* (ClientSide), and accept() does not fail for ever.  No signal needs to come, no
\* connection and no check.
FairSpec == Spec /\ WF_vars(AcceptReady) /\ SF_vars(Progress)

-----------------------------------------------------------------------------
\* The type of every variable.
TypeOK ==
    /\ setup \in Setup
    /\ main \in {"boot", "prepared", "running", "ended", "exit"}
    /\ thread \in {"none", "new", "running", "quit", "ended"}
    /\ mutex \in {"free", "main", "thread"}
    /\ quitting \in BOOLEAN /\ watching \in BOOLEAN /\ finisher \in BOOLEAN
    /\ n \in Nat /\ conn \in [Conns -> Stage]
    /\ acc \in [at : {"idle", "suspended", "accept", "count"}, seen : Nat]
    /\ fin \in [at : {"idle", "take", "sub", "check", "lock"}, seen : Nat]
    /\ signal \in {"none", "handling", "done"}
    /\ leader \in [Conns -> {"none", "listed", "finished", "freed"}]
    /\ checker \in {"off", "armed", "stale"}

\* At most max_connections sessions are open, though the counter that decides is read
\* before accept() and written after it, and a session is still to be set up or still
\* to be disposed of when it is counted.  With an accept thread this holds for a limit
\* of one only: ++ and -- then never meet.  With two, a lost update (++ of the accept
\* thread, -- of the main thread, no lock) lets a third session in.
LimitKept == 0 < setup.max => Cardinality(Open) <= setup.max

\* A shutdown cuts no session short: when the process leaves its main loop, every
\* connection it accepted has been served to its end and disposed of.
NoneCut ==
    main = "exit" => Open = {} /\ \A c \in Conns : conn[c] # "accepted"

\* No finished session waits for ever in finished_data, and none is finished twice:
\* a session that is still to be disposed of has a finisher on its way.
NoneForgotten == Finished # {} => finisher \/ fin.at # "idle"

\* A session that is gone leaves no leader behind.
LeadersFreed ==
    \A c \in Conns : conn[c] = "gone" /\ fin.at = "idle" => leader[c] \in {"none", "freed"}

\* As long as there are sessions, their clients' connections are checked.
Watched ==
    setup.check /\ main = "running" /\ (\E c \in Conns : leader[c] = "listed")
        => checker = "armed"

\* accept_connection_fd sleeps at the limit in the loop that would have to end a
\* session to wake it.
LoopSleeps == mode # "accept-loop" /\ acc.at = "suspended"

\* A connection is accepted and its session served in the end, max_connections
\* reached or not, unless the process shuts down.  At the limit this takes an accept
\* thread: without one the loop that serves the sessions sleeps for good.
Served ==
    \A c \in Conns : conn[c] = "waiting" ~>
        (conn[c] \in {"gone", "elsewhere"} \/ quitting \/ LoopSleeps)

\* After the signal the process ends, as soon as its sessions have.
Ends == (signal = "done") ~> (main = "exit")
=============================================================================
