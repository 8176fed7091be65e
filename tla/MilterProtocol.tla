--------------------------- MODULE MilterProtocol ---------------------------
(* The vocabulary of the milter protocol shared by the other modules: reply  *)
(* statuses, the order in which milter manager ranks them, and the commands. *)
EXTENDS Integers

\* MilterStatus, the members a reply slot of the manager can hold.
Verdict == {"continue", "skip", "accept", "temporary-failure", "reject", "discard"}
Status  == Verdict \cup {"not-change"}

\* The statuses that outrank a status, case by case as milter_status_compare
\* lists them.  A status without a case is outranked by every other one.
OutrankedBy ==
    [s \in Verdict |->
        CASE s = "discard"           -> {}
          [] s = "reject"            -> {"discard"}
          [] s = "temporary-failure" -> {"discard", "reject"}
          [] s = "continue"          -> {"discard", "reject", "temporary-failure"}
          [] s = "skip"              -> {"discard", "reject", "temporary-failure",
                                         "continue"}
          [] s = "accept"            -> {"discard", "reject", "temporary-failure",
                                         "skip", "continue"}]

\* milter_status_compare(current, new): negative when new is more important.
Compare(current, new) ==
    IF current = new THEN 0
    ELSE IF current \in Verdict /\ new \notin OutrankedBy[current] THEN 1 ELSE -1

\* milter_manager_children_is_important_status
IsImportant(current, new) == Compare(current, new) < 0

\* compile_reply_status on the value of one slot.
Compile(current, new) == IF IsImportant(current, new) THEN new ELSE current

-----------------------------------------------------------------------------
\* The position of a status in the order, the reference for Compare.
Rank == [s \in Status |->
            CASE s = "not-change" -> 0 [] s = "accept" -> 1 [] s = "skip" -> 2
              [] s = "continue" -> 3 [] s = "temporary-failure" -> 4
              [] s = "reject" -> 5 [] s = "discard" -> 6]

\* The highest ranked member of a non-empty set of statuses.
Strongest(S) == CHOOSE s \in S : \A t \in S : Rank[t] <= Rank[s]

\* Commands of the envelope phase; each is also a state of a server context and
\* of the manager's reply slots.
EnvelopeCommand == {"connect", "helo", "envelope-from", "envelope-recipient",
                    "data", "unknown"}
=============================================================================
