---------------------------- MODULE MCCloudTasks ----------------------------
\* TLC instances of CloudTasks: tasks that meet have names of their own, or
\* share one name.  A crew says what a behaviour is about: "alone", t0 or t1 with
\* one handler under every disruption; "racing", t2 and t3, one of them not
\* delivered, whose creations by c1 race deletions by c2 over a store that may
\* fail; "all", whatever the constants allow.
EXTENDS CloudTasks

CONSTANTS t0, t1, t2, t3, n1, n2, c1, c2, Crews
VARIABLE crew

OwnNames == [t \in Tasks |-> IF t = t2 THEN n2 ELSE n1]
OneName == [t \in Tasks |-> n1]

\* attemptCount in the bodies: below zero, none, and beyond the budget.
BodyAttempts == [t \in Tasks |-> CASE t = t0 -> -1 [] t = t1 -> 5 [] OTHER -> 0]
NoAttempts == [t \in Tasks |-> 0]

Alone == th'[c2] = th[c2] /\ created' \in {{}, {t0}, {t1}}

Racing ==
    /\ up' /\ ~closed'
    /\ th'[c1].op \notin {"deleteTask", "deleteQueue"}
    /\ th'[c2].op \notin {"createTask", "createQueue"}
    /\ \A n \in Names : th'[<<n, 2>>] = th[<<n, 2>>]
    /\ created' # created => queue
    /\ created' \in {{}, {t3}, {t2, t3}}

MCInit == Init /\ crew \in Crews
MCNext ==
    /\ Next
    /\ crew = "alone" => Alone
    /\ crew = "racing" => Racing
    /\ UNCHANGED crew
MCSpec == MCInit /\ [][MCNext]_<<vars, crew>> /\ Fairness
=============================================================================
