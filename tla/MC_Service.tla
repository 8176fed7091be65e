---------------------------- MODULE MC_Service ------------------------------
(* The ways the process is run in the instances.                             *)
EXTENDS Service

Default == [mode |-> "single", max |-> 0, mtas |-> Conns, polite |-> TRUE, emfile |-> FALSE,
            check |-> FALSE, signal |-> "running"]

\* The default, one of several workers, each of these with a limit of two, an accept
\* loop with a limit of one, the only limit it keeps, and an accept loop that is told
\* to stop before anybody connects.
Sound ==
    {[Default EXCEPT !.emfile = TRUE, !.check = TRUE],
     [Default EXCEPT !.mode = "worker"],
     [Default EXCEPT !.max = 2, !.signal = "never"],
     [Default EXCEPT !.mode = "worker", !.max = 2, !.signal = "never"],
     [Default EXCEPT !.mode = "accept-loop", !.max = 1, !.signal = "never"],
     [Default EXCEPT !.mode = "accept-loop", !.mtas = {}]}

\* An accept thread with a limit of two.
TwoThreads == {[Default EXCEPT !.mode = "accept-loop", !.max = 2, !.signal = "never"]}

\* The default with max_connections = 1.
Limited == {[Default EXCEPT !.max = 1, !.signal = "never"]}

\* The default with a connection_check_interval.
Checking == {[Default EXCEPT !.check = TRUE, !.signal = "never"]}
=============================================================================
