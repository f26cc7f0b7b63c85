------------------------- MODULE OperationContract -------------------------
(***************************************************************************)
(* What the long-running-operation registry of pkg/orchestrator promises   *)
(* its pollers, with no store, no lock and no process in it.  A poll of    *)
(* one operation name answers that the name is unknown, that the work is   *)
(* still active, that the work was interrupted by a restart, or the        *)
(* terminal result.  The promise is about the order of those answers: a    *)
(* terminal answer is never followed by "active", an interruption may only *)
(* be superseded by a result, and a result is never replaced by another    *)
(* one, however often the daemon restarts.                                 *)
(***************************************************************************)
CONSTANTS Names,        \* operation names
          Results,      \* terminal results: a response or an error
          Unknown, Active, Interrupted   \* the other three answers

VARIABLES answer,       \* what a poll of each name answers now
          settled       \* the strongest terminal answer ever given; Unknown if none

vars == <<answer, settled>>

Answers == Results \cup {Unknown, Active, Interrupted}

\* The answers a poll may give once `s` is the strongest answer given so far.
MayFollow(s) ==
    IF s = Unknown THEN Answers
    ELSE IF s = Interrupted THEN Results \cup {Unknown, Interrupted}
    ELSE {Unknown, s}

Init ==
    /\ answer = [n \in Names |-> Unknown]
    /\ settled = [n \in Names |-> Unknown]

\* Any number of answers may change at once: a restart changes them all.
Next ==
    /\ answer' \in [Names -> Answers]
    /\ \A n \in Names : answer'[n] \in MayFollow(settled[n])
    /\ settled' = [n \in Names |->
                     IF answer'[n] \in {Unknown, Active} THEN settled[n]
                     ELSE answer'[n]]

Spec == Init /\ [][Next]_vars
=============================================================================
