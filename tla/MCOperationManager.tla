------------------------ MODULE MCOperationManager ------------------------
\* TLC instance of OperationManager: one scoped, typed name with all the data
\* the code branches on, or that name beside a plain one that shares the
\* snapshot and persistMu with it.
EXTENDS OperationManager

CONSTANTS n1, n2
VARIABLE both

Plain(n, op) ==
    op # NoOp => /\ op.meta = NoMeta /\ op.end <= 1
                 /\ op.res.body \in {NoBody, Typed(NoBody), Interruption}
                 /\ n = n2 => op.res.code # 13

MCInit == Init /\ both \in BOOLEAN

MCNext ==
    /\ Next
    /\ ~both => n2 \notin used'
    /\ both => \A n \in Names : Plain(n, ops'[n])
    /\ both /\ Finalizing' => Plain(cs'.n, cs'.op)
    /\ run'[n2] \in {"none", "new"}
    /\ UNCHANGED both

MCSpec == MCInit /\ [][MCNext]_<<vars, both>> /\ Fairness
=============================================================================
