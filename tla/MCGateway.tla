----------------------------- MODULE MCGateway ------------------------------
(* The gateway on a small instance: one lazily started emulator, one durable *)
(* one and a shim.  Two requests fill the default bucket, one the lazy       *)
(* domain's.                                                                 *)
EXTENDS Gateway, TLC
CONSTANTS lazy, durable, shim
MCRules ==
    (<<"default">> :> [limit |-> 2, window |-> 1]) @@ (<<"service", lazy>> :> [limit |-> 1, window |-> 1])
MCTargets ==
    {[domain |-> d, route |-> "list", project |-> "p", mutation |-> TRUE] : d \in {lazy, durable}}
    \union {[domain |-> shim, route |-> "list", project |-> "p", mutation |-> FALSE]}
=============================================================================
