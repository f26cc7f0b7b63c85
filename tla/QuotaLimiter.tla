---------------------------- MODULE QuotaLimiter ----------------------------
(***************************************************************************)
(* The request quotas of pkg/router/quota.go: fixed-window buckets, several *)
(* of which may match one request.  All of them must have room before any   *)
(* is charged.  The clock is read before the mutex is taken, so a decision  *)
(* may be made for a time another request's decision has already passed.    *)
(***************************************************************************)
EXTENDS Naturals, Sequences, FiniteSets
CONSTANTS
    Rules,      \* [key -> [limit, window]]: the configured buckets
    MaxTime     \* the model's last instant
VARIABLES
    now,        \* the clock
    buckets,    \* QuotaLimiter.buckets
    passed      \* history: per bucket and end of window, the requests let through
quotaVars == <<now, buckets, passed>>

ASSUME RulesAssumption ==
    \A k \in DOMAIN Rules : Rules[k].limit \in Nat \ {0} /\ Rules[k].window \in Nat \ {0}

(* The keys a request matches, in the order Allow looks at them.  A route    *)
(* rule of the service is preferred to one for the bare route.               *)
matched(service, route, project) ==
    LET routes == {k \in {<<"route", service, route>>} : k \in DOMAIN Rules}
        plain == {k \in {<<"route", route>>} : k \in DOMAIN Rules /\ routes = {}}
        others == {<<"service", service>>, <<"project", project>>, <<"default">>}
    IN  (routes \union plain \union others) \cap DOMAIN Rules

(* The bucket of k as a decision for time t sees it.                         *)
quotaBucket(k, t) ==
    IF k \in DOMAIN buckets /\ t < buckets[k].reset
    THEN buckets[k]
    ELSE [count |-> 0, reset |-> t + Rules[k].window]

Charge(keys, t) ==
    buckets' = [k \in DOMAIN buckets \union keys |->
                  IF k \in keys
                  THEN [quotaBucket(k, t) EXCEPT !.count = @ + 1]
                  ELSE buckets[k]]

(* In the fault the limit is passed by one.                                  *)
FullBeyond(k, t) == quotaBucket(k, t).count > Rules[k].limit
Full(k, t) == quotaBucket(k, t).count >= Rules[k].limit

Allow(keys, t, allowed, refused) ==
    \/ /\ \A k \in keys : ~Full(k, t)
       /\ Charge(keys, t)
       /\ allowed
    \/ /\ \E k \in keys : Full(k, t)
       /\ UNCHANGED buckets
       /\ refused

(* History: a request that matched keys was let through.                     *)
Pass(keys, t) ==
    passed' = [w \in DOMAIN passed \union {<<k, quotaBucket(k, t).reset>> : k \in keys} |->
                 LET n == IF w \in DOMAIN passed THEN passed[w] ELSE 0
                 IN  IF w[1] \in keys /\ w[2] = quotaBucket(w[1], t).reset THEN n + 1 ELSE n]

Tick == now < MaxTime /\ now' = now + 1 /\ UNCHANGED <<buckets, passed>>

NewQuotaLimiter == buckets = <<>> /\ passed = <<>>
QuotaInit == now = 0 /\ NewQuotaLimiter

(* quota.go:100: in every window of every bucket at most its limit of        *)
(* requests is let through, and the windows of a bucket do not overlap, also *)
(* when decisions are made out of the order in which the clock was read.     *)
QuotaHolds ==
    \A w \in DOMAIN passed :
        /\ passed[w] <= Rules[w[1]].limit
        /\ \A v \in DOMAIN passed :
              v[1] = w[1] /\ v[2] > w[2] => v[2] - w[2] >= Rules[w[1]].window

(* quota.go:142: a bucket is charged exactly for the requests let through in *)
(* its window: one refused by another bucket costs it nothing.               *)
RefusalsAreFree ==
    \A k \in DOMAIN buckets : buckets[k].count = passed[<<k, buckets[k].reset>>]

(* Allow grants what the rules grant: no window lets more through, and no    *)
(* refusal uses up a grant.                                                  *)
QuotaExact == QuotaHolds /\ RefusalsAreFree
=============================================================================
