----------------------------- MODULE EntryStore -----------------------------
(***************************************************************************)
(* What pkg/state promises to the clients of one profile: a durable map    *)
(* from entry names to payloads.  Every call takes effect at most once, at *)
(* one instant between its invocation and its return; a call that returns  *)
(* without an error has taken effect on stable storage; a call that        *)
(* returns an error may or may not have taken effect.                      *)
(***************************************************************************)
CONSTANTS
    Threads,    \* callers, each with at most one call open
    Entries,    \* entry names
    Requests,   \* requests [op, e, v] a caller may make
    Absent      \* the payload of an entry that is not stored

VARIABLES
    doc,    \* the document every process sees
    safe,   \* the document stable storage is known to hold
    call,   \* the open call of each thread, or NoCall
    ret     \* the outcome of each thread's last call, once it returned

avars == <<doc, safe, call, ret>>

NoCall == [st |-> "none"]
Empty == [e \in Entries |-> Absent]

Reads(c) == c.op \in {"load", "export"}

Effect(c, d) ==
    CASE c.op = "save"   -> [d EXCEPT ![c.e] = c.v]
      [] c.op = "delete" -> [d EXCEPT ![c.e] = Absent]
      [] c.op = "import" -> c.v
      [] Reads(c)        -> d

\* A read, or the deletion of an entry that is not there, writes nothing.
Writes(c, d) == c.op \in {"save", "import"} \/ Effect(c, d) # d

Init ==
    /\ doc = Empty /\ safe = Empty
    /\ call = [t \in Threads |-> NoCall]
    /\ ret = [t \in Threads |-> "none"]

Invoke(t) ==
    /\ call[t] = NoCall
    /\ \E r \in Requests :
          call' = [call EXCEPT ![t] = [req |-> r, st |-> "open", got |-> Empty]]
    /\ ret' = [ret EXCEPT ![t] = "none"]
    /\ UNCHANGED <<doc, safe>>

Refuse(t) ==
    /\ call[t] = NoCall
    /\ ret' = [ret EXCEPT ![t] = "err"]
    /\ UNCHANGED <<doc, safe, call>>

Apply(t) ==
    /\ call[t].st = "open"
    /\ doc' = Effect(call[t].req, doc)
    /\ call' = [call EXCEPT
          ![t].st = IF Writes(call[t].req, doc) THEN "applied" ELSE "settled",
          ![t].got = IF Reads(call[t].req) THEN doc ELSE Empty]
    /\ UNCHANGED <<safe, ret>>

Settle(t) ==
    /\ call[t].st = "applied"
    /\ safe' = doc
    /\ call' = [call EXCEPT ![t].st = "settled"]
    /\ UNCHANGED <<doc, ret>>

Return(t) ==
    /\ call[t] # NoCall
    /\ call' = [call EXCEPT ![t] = NoCall]
    /\ \/ call[t].st = "settled" /\ ret' = [ret EXCEPT ![t] = "ok"]
       \/ ret' = [ret EXCEPT ![t] = "err"]
    /\ UNCHANGED <<doc, safe>>

\* The processes of some threads die.
Vanish(T) ==
    /\ call' = [t \in Threads |-> IF t \in T THEN NoCall ELSE call[t]]
    /\ ret' = [t \in Threads |-> IF t \in T THEN "none" ELSE ret[t]]

Crash == \E T \in SUBSET Threads : Vanish(T) /\ UNCHANGED <<doc, safe>>

\* A power failure loses at most what was not settled.
PowerLoss ==
    /\ Vanish(Threads)
    /\ doc' \in {doc, safe}
    /\ safe' = doc'

Next ==
    \/ \E t \in Threads : Invoke(t) \/ Refuse(t) \/ Apply(t) \/ Settle(t) \/ Return(t)
    \/ Crash
    \/ PowerLoss

Spec == Init /\ [][Next]_avars
=============================================================================
