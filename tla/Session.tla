------------------------------ MODULE Session -------------------------------
(* What milter manager promises the MTA for the commands before DATA: the    *)
(* several child milters look like one milter.  A command goes to a set of   *)
(* children, each of them comes to a verdict that is never weakened, and the *)
(* command is answered once, with the strongest of the verdicts, after       *)
(* everybody was heard.  EnvelopePhase implements this specification.        *)
EXTENDS MilterProtocol

CONSTANTS Child, NoChildStatus   \* the answer when there is nobody to ask

VARIABLES
    cmd,     \* the last command of the MTA
    asked,   \* the children it went to
    said,    \* the verdict of each of them ("not-change": none yet)
    answer   \* what the MTA was told ("none": nothing yet)

svars == <<cmd, asked, said, answer>>

\* The answers a command may have when the children A said s.
MayAnswer(A, s) ==
    CASE A = {} -> {NoChildStatus}
      [] \E c \in A : s[c] = "not-change" -> {"none"}
      [] OTHER -> {"none", Strongest({s[c] : c \in A})}

Waiting == cmd \in EnvelopeCommand /\ answer = "none"

Init ==
    /\ cmd = "negotiate" /\ answer = "none"
    /\ asked = {} /\ said = [c \in Child |-> "not-change"]

\* The MTA sends command x; some children may have a verdict at once.
Command(x) ==
    /\ ~Waiting /\ cmd # "quit"
    /\ cmd' = x
    /\ asked' \in SUBSET Child
    /\ said' \in [Child -> Status]
    /\ \A c \in Child \ asked' : said'[c] = "not-change"
    /\ answer' \in MayAnswer(asked', said')

\* An asked child comes to a verdict, or to a stronger one.
Hear(c) ==
    /\ Waiting /\ c \in asked
    /\ \E v \in Verdict : /\ Rank[said[c]] <= Rank[v]
                          /\ said' = [said EXCEPT ![c] = v]
    /\ answer' \in MayAnswer(asked, said')
    /\ UNCHANGED <<cmd, asked>>

\* The answer is given after the last verdict.
Decide ==
    /\ Waiting
    /\ answer' \in MayAnswer(asked, said)
    /\ UNCHANGED <<cmd, asked, said>>

\* The MTA ends the message, or goes away without waiting for its answer.
Abort ==
    /\ ~Waiting /\ cmd # "quit"
    /\ cmd' = "abort" /\ answer' = "none"
    /\ asked' = {} /\ said' = [c \in Child |-> "not-change"]

Quit == cmd # "quit" /\ cmd' = "quit" /\ answer' = "none" /\ UNCHANGED <<asked, said>>

Next == \/ \E x \in EnvelopeCommand : Command(x)
        \/ \E c \in Child : Hear(c)
        \/ Decide \/ Abort \/ Quit

Spec == Init /\ [][Next]_svars
=============================================================================
