----------------------------- MODULE Telemetry ------------------------------
(* Shims that collect traces, errors, series and log entries. Each section   *)
(* is one shim with a next-state relation of its own; the sections share no  *)
(* state.                                                                    *)
EXTENDS ShimState

CONSTANTS
    MaxRetained,   \* maxRetainedEventsPerGroup
    MaxEvents,   \* bound on the count of a group
    MaxSeries,
    MaxCollected,   \* the caps: 10000 and 120 in the code
    MaxEntries,   \* maxSize: the entries kept
    MaxDeliveries   \* bound on the delivery ids used

-----------------------------------------------------------------------------
(* pkg/shims/cloudtrace: a batch of spans adds to the traces they belong to. *)
(* The value of a trace is the set of its spans.                             *)

Traces == {<<"trace", None, i>> : i \in Ids}
Spans(doc, t) == IF t \in DOMAIN doc THEN doc[t] ELSE {}

(* batchWrite puts every trace back when the save fails.                     *)
batchWrite(h) ==
    \E spans \in [Traces -> SUBSET SubIds] :
        LET S == {t \in Traces : spans[t] # {}}
        IN  /\ S # {}
            /\ CommitLocked(h, [t \in Live \union S |->
                                   IF t \in S THEN Spans(mem, t) \union spans[t] ELSE mem[t]], Traces)

cloudtrace_loadState == StartWith(disk, "unread")

cloudtrace_persistState(h) == SaveOk(h) \/ SaveFails(h)

CloudTraceNext ==
    \/ \E h \in Handlers : batchWrite(h)
    \/ \E h \in Handlers : cloudtrace_persistState(h) \/ Rollback(h)
    \/ cloudtrace_loadState

-----------------------------------------------------------------------------
(* pkg/shims/errorreporting: events grouped by their message.  A group       *)
(* counts its events and keeps the last ones.                                *)

Groups == {<<"group", None, i>> : i \in Ids}
Group(doc, g) == IF g \in DOMAIN doc THEN doc[g] ELSE [count |-> 0, retained |-> <<>>]
Last(s, n) == SubSeq(s, Len(s) + 1 - (IF Len(s) < n THEN Len(s) ELSE n), Len(s))

(* Everything is refused once a save has failed (persistenceErr).            *)
reportEvent(h) ==
    \E g \in Groups, b \in Bodies :
        LET old == Group(mem, g)
        IN  /\ degraded \in {"no", "unread"} /\ old.count < MaxEvents
            /\ CommitLocked(h, Put(mem, g, [count |-> old.count + 1,
                                            retained |-> Last(Append(old.retained, b), MaxRetained)]),
                            Groups)

errorreporting_loadState == StartWith(disk, "unread")

errorreporting_persistState(h) == SaveOk(h) \/ SaveFails(h)

ErrorReportingNext ==
    \/ \E h \in Handlers : reportEvent(h)
    \/ \E h \in Handlers : errorreporting_persistState(h) \/ Rollback(h)
    \/ errorreporting_loadState

validateErrorReportingMetadata(doc) ==
    \A g \in Of("group", doc) : doc[g].count >= Len(doc[g].retained)

-----------------------------------------------------------------------------
(* pkg/shims/monitoring: metric descriptors, the points a project wrote and  *)
(* the points the collector sampled, each list capped at its newest ones.    *)
(* commitMutation holds persistMu throughout.                                *)

Descriptors == {<<"descriptor", None, i>> : i \in Ids}
Written == <<"series", None, "project">>
Collected == <<"series", None, "_minisky">>
Points(n) == IF n \in Live THEN mem[n] ELSE <<>>
Newest(s, max) == IF Len(s) > max THEN SubSeq(s, Len(s) - max + 1, Len(s)) ELSE s

createDescriptor(h) == \E n \in Descriptors \ Live, b \in Bodies : CommitLocked(h, Put(mem, n, b), {n})
deleteDescriptor(h) == \E n \in Descriptors \cap Live : CommitLocked(h, Drop(mem, {n}), {n})
handleTimeSeries(h) ==
    \E b \in Bodies :
        CommitLocked(h, Put(mem, Written, Newest(Append(Points(Written), b), MaxSeries)), {Written})
(* StartCollector: a goroutine; two samples for a running container.         *)
StartCollector(h) ==
    \E b \in Bodies :
        CommitLocked(h, Put(mem, Collected, Newest(Points(Collected) \o <<b, b>>, MaxCollected)),
                     {Collected})

MonitoringNewAPIWithStore == StartWith(disk, "closed")

monitoring_persist(h) == SaveOk(h) \/ SaveFails(h)
monitoring_commitMutation(h) == monitoring_persist(h) \/ Rollback(h)

MonitoringNext ==
    \/ \E h \in Handlers :
          createDescriptor(h) \/ deleteDescriptor(h) \/ handleTimeSeries(h) \/ StartCollector(h)
    \/ \E h \in Handlers : monitoring_commitMutation(h)
    \/ MonitoringNewAPIWithStore

-----------------------------------------------------------------------------
(* pkg/shims/logging: log entries, sinks and the deliveries still pending    *)
(* for them.  A write saves its entries together with one pending delivery   *)
(* per matching sink, then delivers each and removes it from the pending     *)
(* ones.  backend holds the deliveries that reached a destination.           *)

Sinks == {<<"sink", None, i>> : i \in Ids}
Log == <<"log", None, "entries">>
Entries == IF Log \in Live THEN mem[Log] ELSE <<>>
Kept(s) == IF Len(s) > MaxEntries THEN SubSeq(s, Len(s) - MaxEntries + 1, Len(s)) ELSE s
Pending(doc) == Of("delivery", doc)

(* commitMutation: change, save, undo when that fails; rest is done after    *)
(* either, after only when the save succeeded.                               *)
Locked(h, doc, S, rest, after) ==
    PersistMuFree /\ Change(h, doc, S, persistMu, <<Save(<<Undo>> \o rest)>> \o rest \o after)
logging_commitMutation(h, doc, S, rest, after) == MayStart(h) /\ Locked(h, doc, S, rest, after)
release == <<"release", Keep>>

createSink(h) == \E n \in Sinks \ Live, b \in Bodies : logging_commitMutation(h, Put(mem, n, b), {n}, <<>>, <<>>)
patchSink(h) == \E n \in Sinks \cap Live, b \in Bodies : logging_commitMutation(h, Put(mem, n, b), {n}, <<>>, <<>>)

(* deliveryMu: one delivery at a time, and none while a sink is deleted.     *)
DeliveryMuFree ==
    \A g \in Handlers : \A i \in DOMAIN call[g].todo : call[g].todo[i][1] \notin {"sent", "release"}
deleteSink(h) ==
    \E n \in Sinks \cap Live :
        LET S == {n} \union {d \in Pending(mem) : d[2] = n}
        IN  DeliveryMuFree /\ logging_commitMutation(h, Drop(mem, S), S, <<release>>, <<>>)

(* A delivery is named by its sink and a fresh id, and keeps the sink's      *)
(* destination of the time of the write.                                     *)
Used == {d[3] : d \in Pending(mem) \union Pending(disk) \union backend}
            \union {d[3] : d \in UNION {{n \in Touches(g) : n[1] = "delivery"} : g \in Handlers}}
handleWrite(h) ==
    \E b \in Bodies, matching \in SUBSET (Sinks \cap Live), k \in (1..MaxDeliveries) \ Used :
        LET new == {<<"delivery", n, k>> : n \in matching}
            doc == [n \in Live \union new \union {Log} |->
                       IF n \in new THEN mem[n[2]]
                       ELSE IF n = Log THEN Kept(Append(Entries, b)) ELSE mem[n]]
        IN  /\ \A j \in (1..MaxDeliveries) \ Used : k <= j
            /\ logging_commitMutation(h, doc, new \union {Log}, <<>>, <<<<"deliver", Keep, new>>>>)
PushLog(h) ==
    \E b \in Bodies : logging_commitMutation(h, Put(mem, Log, Kept(Append(Entries, b))), {Log}, <<>>, <<>>)
Reset(h) == logging_commitMutation(h, Put(mem, Log, <<>>), {Log}, <<>>, <<>>)

(* deliverPending: skipped when it is pending no more; an error leaves it    *)
(* pending until the next start.                                             *)
deliverPending(h) ==
    /\ At(h, "deliver") /\ DeliveryMuFree
    /\ LET left == Head(call[h].todo)[3]
       IN  IF left = {} THEN Follow(h, <<>>) /\ UNCHANGED backend
           ELSE \E d \in left :
                   LET rest == <<"deliver", Keep, left \ {d}>>
                   IN  \/ d \in Live /\ d[2] \in Live
                          /\ backend' = backend \union {d}
                          /\ Follow(h, <<<<"sent", Keep, d>>, rest>>)
                       \/ Follow(h, <<rest>>) /\ UNCHANGED backend
    /\ UNCHANGED <<mem, disk, degraded, unsaved>>
removePending(h) ==
    /\ At(h, "sent")
    /\ LET d == Head(call[h].todo)[3]
       IN  Locked(h, Drop(mem, {d}), {d}, <<release>> \o Tail(call[h].todo), <<>>)
releaseDeliveryMu(h) ==
    /\ At(h, "release")
    /\ Proceed(h)
    /\ UNCHANGED <<mem, disk, degraded, unsaved, backend>>

(* ReplayPendingDeliveries: after every start, once, what is still pending.  *)
LoggingNewAPIWithStore ==
    /\ unsaved' = {}
    /\ \/ /\ mem' = disk /\ degraded' = "no"
          /\ \E h \in Handlers :
                call' = [g \in Handlers |->
                            IF g = h /\ Pending(disk) # {}
                            THEN [Idle EXCEPT !.todo = <<<<"deliver", Keep, Pending(disk)>>>>] ELSE Idle]
       \/ mem' = Nothing /\ degraded' = "closed" /\ call' = [g \in Handlers |-> Idle]
    /\ UNCHANGED <<disk, backend>>

logging_persist(h) == SaveOk(h) \/ SaveFails(h)

LoggingNext ==
    \/ \E h \in Handlers :
          \/ createSink(h) \/ patchSink(h) \/ deleteSink(h)
          \/ handleWrite(h) \/ PushLog(h) \/ Reset(h)
          \/ deliverPending(h) \/ removePending(h) \/ releaseDeliveryMu(h)
    \/ \E h \in Handlers : logging_persist(h) \/ Rollback(h)
    \/ LoggingNewAPIWithStore

(* At least once: a delivery that was accepted with its entry stays pending  *)
(* on disk until it has reached its destination or its sink is deleted.  (A  *)
(* refused write that was left on disk may go with the next save.)           *)
NoDeliveryLost ==
    \A d \in Pending(disk) :
       d \notin DOMAIN disk' => d \in backend \/ d[2] \notin DOMAIN disk' \/ degraded = "torn"
(* No delivery after the answer to the deletion of its sink.                 *)
NoDeliveryAfterDelete ==
    \A d \in backend' \ backend : d[2] \in Live /\ (degraded = "no" => d[2] \in DOMAIN disk)
=============================================================================
