-------------------------- MODULE ShimState_proofs --------------------------
(***************************************************************************)
(* Proofs about the save discipline of the metadata shims.                 *)
(*                                                                         *)
(* Discipline below says by which steps a shim may change its state: a     *)
(* handler that has nothing left to save changes some maps and from then   *)
(* on owes a save or a rollback of them; the calls of ShimStep and         *)
(* OperationStep are made in the order of what it owes; a start reads the  *)
(* entry.  The invariant Covered, inductive together with Shape, says that *)
(* as long as no save has failed every resource in which memory and entry  *)
(* differ is either recorded as unsaved or touched by a handler that still *)
(* owes.  It is proved once, for the discipline; a lemma per shim          *)
(* (ServiceDirectorySteps and so on) then shows that every handler, worker *)
(* and start of that shim is a step of the discipline.                     *)
(*                                                                         *)
(* A shim has a process-wide entry of its own, so the disjunction of the   *)
(* shims' next-state actions has the behaviours of every one of them.      *)
(*                                                                         *)
(* The second part, from Committing on, is about what single shims         *)
(* promise.  Behind a guarded store a request of theirs is taken back only *)
(* after a failed save, and after that nothing is saved until the next     *)
(* start (Copied); so a promise about the entry, and the same one about    *)
(* memory while no save has failed, are kept together (ServiceDirectorySound *)
(* and so on) however the requests overlap.  The caps of a shim are taken  *)
(* to be natural numbers.                                                  *)
(***************************************************************************)
EXTENDS ServiceNetworking, AccessPolicies, AIServices, Telemetry, FiniteSetTheorems,
        SequenceTheorems, TLAPS

(* Follow, Restore and Value, as the proofs use them.                        *)
LEMMA RestoreValue ==
    ASSUME NEW doc, NEW old, NEW n
    PROVE  Value(Restore(doc, old), n) = IF n \in DOMAIN old THEN old[n] ELSE Value(doc, n)
  BY DEF Value, Restore

LEMMA PutValue ==
    ASSUME NEW doc, NEW n, NEW v, NEW m, m # n
    PROVE  Value(Put(doc, n, v), m) = Value(doc, m)
  BY DEF Value, Put

LEMMA DropValue ==
    ASSUME NEW doc, NEW S, NEW m, m \notin S
    PROVE  Value(Drop(doc, S), m) = Value(doc, m)
  BY DEF Value, Drop

-----------------------------------------------------------------------------
(* What a handler has left to do.  The ones in Owing have yet to save or   *)
(* to take their change back; the others have nothing of their own to save.  *)
Owing ==
    { Revert, Compensate, <<Save(Keep)>>, <<Save(Revert)>>, <<Save(Compensate)>>,
      <<Save(Compensate), Finalize(Compensate)>>,
      <<Save(Keep), Register(Keep)>>, <<Save(Revert), Register(Keep)>>,
      <<Save(Revert), Register(Compensate)>>,
      <<Register(Revert), Save(Revert)>>, <<Register(Revert), Save(Compensate)>>,
      FinishMutation }
Inserting == <<<<"insert", Keep>>>>
Clear == { Keep, Inserting, <<Finalize(Compensate)>>, <<Register(Keep)>>, <<Register(Compensate)>> }
Programs == Owing \cup Clear

LEMMA Sequences ==
    ASSUME NEW a, NEW b, NEW c
    PROVE  /\ Head(<<a>>) = a /\ Tail(<<a>>) = <<>> /\ Len(<<a>>) = 1
           /\ Head(<<a, b>>) = a /\ Tail(<<a, b>>) = <<b>> /\ Len(<<a, b>>) = 2
           /\ Head(<<a, b, c>>) = a /\ Tail(<<a, b, c>>) = <<b, c>> /\ Len(<<a, b, c>>) = 3
           /\ <<a>> # <<>> /\ <<a, b>> # <<>> /\ <<a, b, c>> # <<>>
<1>1. Head(<<a>>) = a /\ Tail(<<a>>) = <<>> /\ Len(<<a>>) = 1
  OBVIOUS
<1>2. Head(<<a, b>>) = a /\ Tail(<<a, b>>) = <<b>> /\ Len(<<a, b>>) = 2
  OBVIOUS
<1>3. Head(<<a, b, c>>) = a /\ Tail(<<a, b, c>>) = <<b, c>> /\ Len(<<a, b, c>>) = 3
  OBVIOUS
<1>4. Len(<<>>) = 0
  OBVIOUS
<1> QED
  BY <1>1, <1>2, <1>3, <1>4

LEMMA StepParts ==
    ASSUME NEW e
    PROVE  /\ Save(e)[1] = "save" /\ Save(e)[2] = e
           /\ Register(e)[1] = "register" /\ Register(e)[2] = e
           /\ Finalize(e)[1] = "finalize" /\ Finalize(e)[2] = e
           /\ Undo[1] = "undo" /\ Undo[2] = <<>>
  BY DEF Save, Register, Finalize, Undo

LEMMA Listed ==
    /\ <<>> \in Clear /\ Revert \in Owing /\ Compensate \in Owing
    /\ <<Save(Keep)>> \in Owing /\ <<Save(Revert)>> \in Owing /\ <<Save(Compensate)>> \in Owing
    /\ <<Save(Compensate), Finalize(Compensate)>> \in Owing
    /\ <<Finalize(Compensate)>> \in Clear /\ <<Register(Keep)>> \in Clear /\ <<Register(Compensate)>> \in Clear
    /\ Clear \subseteq Programs /\ Owing \subseteq Programs
  BY DEF Clear, Owing, Programs, Keep

Follows(P) ==
    /\ Tail(P) \in Programs /\ Head(P)[2] \in Programs
    /\ P \in Owing /\ Head(P)[1] \in {"register", "finalize"} =>
          Tail(P) \in Owing /\ Head(P)[2] \in Owing
    /\ (\E i \in 2..Len(P) : P[i][1] = "save") /\ Head(P)[1] = "undo" => Tail(P) \in Owing
    /\ Head(P)[1] \in {"save", "register", "finalize", "undo", "insert"}

LEMMA ProgramSteps ==
    ASSUME NEW P \in Programs, P # <<>>
    PROVE  Follows(P)
<1>1. Keep = <<>> /\ <<>> \in Programs /\ Revert \in Programs /\ Compensate \in Programs
  BY Listed DEF Keep
<1>2. CASE P = Revert
  <2>1. Head(P) = Undo /\ Tail(P) = <<>> /\ Len(P) = 1
    BY <1>2, Sequences DEF Revert
  <2>2. Head(P)[1] = "undo" /\ Head(P)[2] \in Programs /\ Tail(P) \in Programs
    BY <1>1, <2>1, StepParts
  <2>3. 2..Len(P) = {}
    BY <2>1
  <2> QED
    BY <2>2, <2>3 DEF Follows
<1>3. CASE P = Compensate
  <2>1. Head(P) = Undo /\ Tail(P) = <<Save(Keep)>>
    BY <1>3, Sequences DEF Compensate
  <2>2. Head(P)[1] = "undo" /\ Head(P)[2] \in Programs
    BY <1>1, <2>1, StepParts
  <2>3. Tail(P) \in Owing /\ Tail(P) \in Programs
    BY <2>1, Listed
  <2> QED
    BY <2>2, <2>3 DEF Follows
<1>4. ASSUME NEW e \in {Keep, Revert, Compensate}, P = <<Save(e)>> PROVE Follows(P)
  <2>1. Head(P) = Save(e) /\ Tail(P) = <<>>
    BY <1>4, Sequences
  <2>2. Head(P)[1] = "save" /\ Head(P)[2] = e
    BY <2>1, StepParts
  <2>3. e \in Programs /\ Tail(P) \in Programs
    BY <1>1, <2>1
  <2> QED
    BY <2>2, <2>3 DEF Follows
<1>5. ASSUME NEW e \in {Keep, Revert, Compensate}, NEW s \in {Finalize(Compensate), Register(Keep), Register(Compensate)},
             P = <<Save(e), s>>
      PROVE  Follows(P)
  <2>1. Head(P) = Save(e) /\ Tail(P) = <<s>>
    BY <1>5, Sequences
  <2>2. Head(P)[1] = "save" /\ Head(P)[2] \in Programs
    BY <1>1, <2>1, StepParts
  <2>3. Tail(P) \in Programs
    BY <2>1, Listed
  <2> QED
    BY <2>2, <2>3 DEF Follows
<1>6. ASSUME NEW e \in {Revert, Compensate}, P = <<Register(Revert), Save(e)>> PROVE Follows(P)
  <2>1. Head(P) = Register(Revert) /\ Tail(P) = <<Save(e)>>
    BY <1>6, Sequences
  <2>2. Head(P)[1] = "register" /\ Head(P)[2] = Revert
    BY <2>1, StepParts
  <2>3. Tail(P) \in Owing /\ Revert \in Owing /\ Owing \subseteq Programs
    BY <2>1, Listed
  <2> QED
    BY <2>2, <2>3 DEF Follows
<1>7. CASE P = FinishMutation
  <2>1. Head(P) = Register(Revert) /\ Tail(P) = <<Save(Compensate), Finalize(Compensate)>>
    BY <1>7, Sequences DEF FinishMutation
  <2>2. Head(P)[1] = "register" /\ Head(P)[2] = Revert
    BY <2>1, StepParts
  <2>3. Tail(P) \in Owing /\ Revert \in Owing /\ Owing \subseteq Programs
    BY <2>1, Listed
  <2> QED
    BY <2>2, <2>3 DEF Follows
<1>8. ASSUME NEW e \in {Keep, Compensate}, NEW s \in {Finalize(e), Register(e)}, P = <<s>> PROVE Follows(P)
  <2>1. Head(P) = s /\ Tail(P) = <<>> /\ Len(P) = 1
    BY <1>8, Sequences
  <2>2. Head(P)[1] \in {"finalize", "register"} /\ Head(P)[2] = e
    BY <2>1, StepParts
  <2>3. P \notin Owing
    <3>1. \A f : P # <<Save(f)>> /\ P # Revert
      BY <2>1, <2>2, Sequences, StepParts DEF Revert
    <3>2. \A a, b, c : P # <<a, b>> /\ P # <<a, b, c>>
      BY <2>1, Sequences
    <3> QED
      BY <3>1, <3>2 DEF Owing, Compensate, FinishMutation
  <2> QED
    BY <1>1, <2>1, <2>2, <2>3 DEF Follows
<1>9. CASE P = Inserting
  <2>1. Head(P)[1] = "insert" /\ Head(P)[2] = <<>> /\ Tail(P) = <<>>
    BY <1>1, <1>9, Sequences DEF Inserting
  <2>2. ~("insert" \in {"register", "finalize"}) /\ "insert" # "undo"
    OBVIOUS
  <2> QED
    BY <1>1, <2>1, <2>2 DEF Follows
<1> QED
  BY <1>1, <1>2, <1>3, <1>4, <1>5, <1>6, <1>7, <1>8, <1>9 DEF Programs, Owing, Clear

LEMMA OwingHeads ==
    ASSUME NEW P \in Owing
    PROVE  Head(P)[1] \in {"save", "register", "undo"}
<1>1. ASSUME NEW a, NEW b, NEW c PROVE Head(<<a>>) = a /\ Head(<<a, b>>) = a /\ Head(<<a, b, c>>) = a
  BY Sequences
<1>2. \/ Head(P) = Undo \/ \E e : Head(P) = Save(e) \/ Head(P) = Register(e)
  BY <1>1 DEF Owing, Revert, Compensate, FinishMutation
<1> QED
  BY <1>2, StepParts

LEMMA NotOwing == <<>> \notin Owing /\ Inserting \notin Owing
<1>1. <<>> \notin Owing
  BY Sequences DEF Owing, Revert, Compensate, FinishMutation
<1>2. Inserting \notin Owing
  <2>1. Head(Inserting)[1] = "insert" /\ Len(Inserting) = 1
    BY Sequences DEF Inserting
  <2>2. \A f : Inserting # <<Save(f)>> /\ Inserting # Revert
    BY <2>1, Sequences, StepParts DEF Revert
  <2>3. \A a, b, c : Inserting # <<a, b>> /\ Inserting # <<a, b, c>>
    BY <2>1, Sequences
  <2> QED
    BY <2>2, <2>3 DEF Owing, Compensate, FinishMutation
<1> QED
  BY <1>1, <1>2

-----------------------------------------------------------------------------
(* The discipline: the steps by which the shims below change their state.    *)

(* A handler changes the maps in S, and counters, and has yet to save.       *)
Begins(h, doc, S, todo) ==
    /\ call[h].todo \notin Owing
    /\ todo \in Owing \/ (todo = <<>> /\ S = {})
    /\ \A n : n[1] # "next" /\ n \notin S => Value(doc, n) = Value(mem, n)
    /\ \E on : Change(h, doc, S, on, todo)

(* A handler has only looked, or found that there is nothing to do.          *)
Looks(h) ==
    /\ call[h].todo \notin Owing
    /\ \/ \E on : call' = [call EXCEPT ![h] = [todo |-> Inserting, undo |-> Nothing, on |-> on]]
       \/ Follow(h, <<>>)
    /\ UNCHANGED <<mem, disk, degraded, unsaved, backend>>

Starts == \E unreadable \in {"unread", "closed"} : StartWith(disk, unreadable)

Discipline ==
    \/ \E h \in Handlers : \/ \E doc, S, todo : Begins(h, doc, S, todo)
                           \/ Looks(h)
    \/ ShimStep \/ OperationStep \/ Starts

-----------------------------------------------------------------------------
(* SettledIsDurable, made inductive: as long as no save has failed, whatever *)
(* differs between memory and entry is unsaved, or changed by a handler that *)
(* will still save it or take it back.                                       *)
Shape ==
    /\ call = [h \in Handlers |-> call[h]]
    /\ \A h \in Handlers :
          /\ call[h] = [todo |-> call[h].todo, undo |-> call[h].undo, on |-> call[h].on]
          /\ call[h].todo \in Programs
Attended(n) == n \in unsaved \/ \E h \in Handlers : n \in Touches(h) /\ call[h].todo \in Owing
Covered ==
    degraded = "no" =>
        \A n : n[1] # "next" /\ Value(mem, n) # Value(disk, n) => Attended(n)

LEMMA ShapeSet ==
    ASSUME Shape, NEW h \in Handlers, NEW r,
           r = [todo |-> r.todo, undo |-> r.undo, on |-> r.on], r.todo \in Programs,
           call' = [call EXCEPT ![h] = r]
    PROVE  /\ Shape'
           /\ call'[h] = r
           /\ \A g \in Handlers \ {h} : call'[g] = call[g]
<1>1. /\ call' = [g \in Handlers |-> call'[g]]
      /\ call'[h] = r
      /\ \A g \in Handlers \ {h} : call'[g] = call[g]
  BY DEF Shape
<1>2. ASSUME NEW g \in Handlers
      PROVE  /\ call'[g] = [todo |-> call'[g].todo, undo |-> call'[g].undo, on |-> call'[g].on]
             /\ call'[g].todo \in Programs
  <2>1. CASE g = h
    BY <1>1, <2>1
  <2>2. CASE g # h
    BY <1>1, <2>2 DEF Shape
  <2> QED
    BY <2>1, <2>2
<1> QED
  BY <1>1, <1>2 DEF Shape

(* A record of call, and one that differs from it.                           *)
LEMMA CallRecord ==
    ASSUME NEW a, NEW b, NEW c, NEW x
    PROVE  [[todo |-> a, undo |-> b, on |-> c] EXCEPT !.todo = x] = [todo |-> x, undo |-> b, on |-> c]
  OBVIOUS

(* A handler goes on with todo; with nothing left to do it touches nothing.  *)
LEMMA FollowEffect ==
    ASSUME Shape, NEW h \in Handlers, NEW todo \in Programs, Follow(h, todo)
    PROVE  /\ Shape'
           /\ call'[h].todo = todo
           /\ todo # <<>> => call'[h].undo = call[h].undo
           /\ \A g \in Handlers \ {h} : call'[g] = call[g]
<1>1. PICK r : r = IF todo = <<>> THEN Idle ELSE [call[h] EXCEPT !.todo = todo]
  OBVIOUS
<1>2. call' = [call EXCEPT ![h] = r]
  BY <1>1 DEF Follow, Shape
<1>3. /\ r = [todo |-> r.todo, undo |-> r.undo, on |-> r.on] /\ r.todo = todo
      /\ todo # <<>> => r.undo = call[h].undo
  <2>1. CASE todo = <<>>
    BY <1>1, <2>1 DEF Idle
  <2>2. CASE todo # <<>>
    <3>1. r = [[todo |-> call[h].todo, undo |-> call[h].undo, on |-> call[h].on] EXCEPT !.todo = todo]
      BY <1>1, <2>2 DEF Shape
    <3>2. r = [todo |-> todo, undo |-> call[h].undo, on |-> call[h].on]
      BY <3>1, CallRecord
    <3> QED
      BY <3>2
  <2> QED
    BY <2>1, <2>2
<1> QED
  BY <1>2, <1>3, ShapeSet

LEMMA IdleShape ==
    ASSUME call = [h \in Handlers |-> Idle]
    PROVE  Shape
  BY Listed DEF Shape, Idle

LEMMA BeginsCovers ==
    ASSUME Shape, Covered, NEW h \in Handlers, NEW doc, NEW S, NEW todo, Begins(h, doc, S, todo)
    PROVE  Shape' /\ Covered'
<1>1. PICK on : Change(h, doc, S, on, todo)
  BY DEF Begins
<1>2. /\ mem' = doc /\ UNCHANGED <<disk, degraded, unsaved>>
      /\ call' = [call EXCEPT ![h] = [todo |-> todo, undo |-> Before(S), on |-> on]]
  BY <1>1 DEF Change
<1>3. todo \in Programs /\ call[h].todo \notin Owing
  BY Listed DEF Begins
<1>4. /\ Shape'
      /\ call'[h] = [todo |-> todo, undo |-> Before(S), on |-> on]
      /\ \A g \in Handlers \ {h} : call'[g] = call[g]
  <2>1. PICK r : r = [todo |-> todo, undo |-> Before(S), on |-> on]
    OBVIOUS
  <2>2. call' = [call EXCEPT ![h] = r] /\ r = [todo |-> r.todo, undo |-> r.undo, on |-> r.on] /\ r.todo \in Programs
    BY <1>2, <1>3, <2>1
  <2>3. Shape' /\ call'[h] = r /\ \A g \in Handlers \ {h} : call'[g] = call[g]
    BY <2>2, ShapeSet
  <2> QED
    BY <2>1, <2>3
<1>5. Touches(h)' = S /\ call'[h].todo = todo
  BY <1>4 DEF Touches, Before
<1>6. Covered'
  <2> SUFFICES ASSUME degraded' = "no", NEW n, n[1] # "next", Value(mem', n) # Value(disk', n)
               PROVE  Attended(n)'
    BY DEF Covered
  <2>1. CASE n \in S
    <3>1. todo \in Owing
      BY <2>1 DEF Begins
    <3> QED
      BY <1>5, <2>1, <3>1 DEF Attended
  <2>2. CASE n \notin S
    <3>1. Value(mem, n) # Value(disk, n)
      BY <1>2, <2>2 DEF Begins
    <3>2. Attended(n)
      BY <1>2, <3>1 DEF Covered
    <3> QED
      BY <1>2, <1>3, <1>4, <3>2 DEF Attended, Touches
  <2> QED
    BY <2>1, <2>2
<1> QED
  BY <1>4, <1>6

LEMMA LooksCovers ==
    ASSUME Shape, Covered, NEW h \in Handlers, Looks(h)
    PROVE  Shape' /\ Covered'
<1>1. UNCHANGED <<mem, disk, degraded, unsaved>> /\ call[h].todo \notin Owing
  BY DEF Looks
<1>2. Shape' /\ \A g \in Handlers \ {h} : call'[g] = call[g]
  <2>1. CASE Follow(h, <<>>)
    BY <2>1, Listed, FollowEffect
  <2>2. ASSUME NEW on, call' = [call EXCEPT ![h] = [todo |-> Inserting, undo |-> Nothing, on |-> on]]
        PROVE  Shape' /\ \A g \in Handlers \ {h} : call'[g] = call[g]
    <3>2. Inserting \in Programs
      BY DEF Programs, Clear
    <3>3. PICK r : r = [todo |-> Inserting, undo |-> Nothing, on |-> on]
      OBVIOUS
    <3>4. call' = [call EXCEPT ![h] = r] /\ r = [todo |-> r.todo, undo |-> r.undo, on |-> r.on] /\ r.todo \in Programs
      BY <2>2, <3>2, <3>3
    <3> QED
      BY <3>4, ShapeSet
  <2> QED
    BY <2>1, <2>2 DEF Looks
<1> QED
  BY <1>1, <1>2 DEF Covered, Attended, Touches

LEMMA SaveCovers ==
    ASSUME Shape, Covered, NEW h \in Handlers, SaveOk(h) \/ SaveFails(h)
    PROVE  Shape' /\ Covered'
<1>1. call[h].todo \in Programs /\ call[h].todo # <<>>
  BY DEF SaveOk, SaveFails, At, Shape
<1>2. Follows(call[h].todo)
  BY <1>1, ProgramSteps
<1>3. Shape'
  BY <1>2, FollowEffect DEF Follows, SaveOk, SaveFails, Proceed, Fail
<1>4. CASE SaveOk(h)
  <2>1. disk' = mem /\ mem' = mem
    BY <1>4 DEF SaveOk
  <2> QED
    BY <1>3, <2>1 DEF Covered
<1>5. CASE SaveFails(h)
  <2>1. degraded' # "no"
    BY <1>5 DEF SaveFails, Writable, Failure
  <2> QED
    BY <1>3, <2>1 DEF Covered
<1> QED
  BY <1>4, <1>5

LEMMA RollbackCovers ==
    ASSUME Shape, Covered, NEW h \in Handlers, Rollback(h)
    PROVE  Shape' /\ Covered'
<1>1. call[h].todo \in Programs /\ call[h].todo # <<>> /\ Head(call[h].todo)[1] = "undo"
  BY DEF Rollback, At, Shape
<1>2. Follows(call[h].todo)
  BY <1>1, ProgramSteps
<1>3. /\ Shape' /\ call'[h].todo = Tail(call[h].todo)
      /\ call'[h].todo # <<>> => call'[h].undo = call[h].undo
      /\ \A g \in Handlers \ {h} : call'[g] = call[g]
  BY <1>2, FollowEffect DEF Follows, Rollback, Proceed
<1>4. Covered'
  <2> SUFFICES ASSUME degraded' = "no", NEW n, n[1] # "next", Value(mem', n) # Value(disk', n)
               PROVE  Attended(n)'
    BY DEF Covered
  <2>1. /\ disk' = disk /\ degraded = "no" /\ mem' = Restore(mem, call[h].undo)
        /\ unsaved' = IF \E i \in 2..Len(call[h].todo) : call[h].todo[i][1] = "save" THEN unsaved
                      ELSE unsaved \union DOMAIN call[h].undo
    BY DEF Rollback
  <2>2. CASE n \in Touches(h)
    <3>1. CASE \E i \in 2..Len(call[h].todo) : call[h].todo[i][1] = "save"
      <4>1. Tail(call[h].todo) \in Owing
        BY <1>1, <1>2, <3>1 DEF Follows
      <4>2. call'[h].todo \in Owing /\ call'[h].undo = call[h].undo
        BY <1>3, <4>1, NotOwing
      <4> QED
        BY <2>2, <4>2 DEF Attended, Touches
    <3>2. CASE ~\E i \in 2..Len(call[h].todo) : call[h].todo[i][1] = "save"
      BY <2>1, <2>2, <3>2 DEF Attended, Touches
    <3> QED
      BY <3>1, <3>2
  <2>3. CASE n \notin Touches(h)
    <3>1. Value(mem', n) = Value(mem, n)
      BY <2>1, <2>3, RestoreValue DEF Touches
    <3>2. Attended(n)
      BY <2>1, <3>1 DEF Covered
    <3>3. unsaved \subseteq unsaved'
      BY <2>1
    <3> QED
      BY <1>3, <2>3, <3>2, <3>3 DEF Attended, Touches
  <2> QED
    BY <2>2, <2>3
<1> QED
  BY <1>3, <1>4

LEMMA OperationCovers ==
    ASSUME Shape, Covered, NEW h \in Handlers, OperationWrite(h)
    PROVE  Shape' /\ Covered'
<1>1. call[h].todo \in Programs /\ call[h].todo # <<>> /\ Head(call[h].todo)[1] \in {"register", "finalize"}
  BY DEF OperationWrite, At, Shape
<1>2. Follows(call[h].todo) /\ UNCHANGED <<mem, disk, degraded, unsaved>>
  BY <1>1, ProgramSteps DEF OperationWrite
<1>3. PICK todo \in Programs : /\ Follow(h, todo)
                               /\ call[h].todo \in Owing => todo \in Owing
  BY <1>1, <1>2 DEF Follows, OperationWrite, Proceed, Fail
<1>4. /\ Shape' /\ call'[h].todo = todo
      /\ todo # <<>> => call'[h].undo = call[h].undo
      /\ \A g \in Handlers \ {h} : call'[g] = call[g]
  BY <1>3, FollowEffect
<1>5. ASSUME NEW n, Attended(n) PROVE Attended(n)'
  <2>1. CASE n \in unsaved
    BY <1>2, <2>1 DEF Attended
  <2>2. ASSUME NEW g \in Handlers, n \in Touches(g), call[g].todo \in Owing PROVE Attended(n)'
    <3>1. CASE g = h
      BY <1>3, <1>4, <2>2, <3>1, NotOwing DEF Attended, Touches
    <3>2. CASE g # h
      BY <1>4, <2>2, <3>2 DEF Attended, Touches
    <3> QED
      BY <3>1, <3>2
  <2> QED
    BY <1>5, <2>1, <2>2 DEF Attended
<1> QED
  BY <1>2, <1>4, <1>5 DEF Covered

LEMMA StartsCover ==
    ASSUME Starts
    PROVE  Shape' /\ Covered'
<1>1. PICK unreadable \in {"unread", "closed"} : StartWith(disk, unreadable)
  BY DEF Starts
<1>2. call' = [h \in Handlers |-> Idle] /\ disk' = disk /\ (mem' = disk \/ degraded' # "no")
  BY <1>1 DEF StartWith
<1>3. Shape'
  BY <1>2, Listed DEF Shape, Idle
<1>4. Covered'
  BY <1>2 DEF Covered
<1> QED
  BY <1>3, <1>4

LEMMA DisciplineInit == ShimInit => Shape /\ Covered
<1> SUFFICES ASSUME ShimInit PROVE Shape /\ Covered
  OBVIOUS
<1>1. Shape
  BY IdleShape DEF ShimInit
<1>2. Covered
  BY DEF ShimInit, Covered
<1> QED
  BY <1>1, <1>2

LEMMA DisciplineStep == Shape /\ Covered /\ [Discipline]_shimVars => Shape' /\ Covered'
<1> SUFFICES ASSUME Shape, Covered, [Discipline]_shimVars PROVE Shape' /\ Covered'
  OBVIOUS
<1>1. CASE UNCHANGED shimVars
  BY <1>1 DEF shimVars, Shape, Covered, Attended, Touches
<1> QED
  BY <1>1, BeginsCovers, LooksCovers, SaveCovers, RollbackCovers, OperationCovers, StartsCover
  DEF Discipline, ShimStep, OperationStep

LEMMA CoveredIsDurable == Covered => SettledIsDurable
  BY DEF Covered, SettledIsDurable, Settled, Attended, Resources

(* With a guarded store only the first save that fails can change the entry  *)
(* without the maps being the ones Covered speaks of.                        *)
LEMMA DisciplineDisk ==
    ASSUME Guarded, Shape, Covered, [Discipline]_shimVars
    PROVE  OnlyHandlersChangeDisk
<1>1. disk' = disk \/ (degraded = "no" /\ disk' = mem)
  BY DEF Discipline, Begins, Change, Looks, ShimStep, SaveOk, SaveFails, Rollback, Writable,
         OperationStep, OperationWrite, Starts, StartWith, shimVars
<1>2. CASE degraded = "no" /\ disk' = mem
  BY <1>2 DEF Covered, OnlyHandlersChangeDisk, Resources, Attended, Settled
<1> QED
  BY <1>1, <1>2 DEF OnlyHandlersChangeDisk

-----------------------------------------------------------------------------
(* The handlers of the shims are steps of the discipline.                    *)

LEMMA HandleBegins ==
    ASSUME NEW h \in Handlers, NEW doc, NEW S, NEW todo \in Owing,
           \A n : n[1] # "next" /\ n \notin S => Value(doc, n) = Value(mem, n),
           NEW on, MayStart(h), Change(h, doc, S, on, todo)
    PROVE  Discipline
<1>1. call[h].todo \notin Owing
  BY NotOwing DEF MayStart, Idle
<1>2. Begins(h, doc, S, todo)
  BY <1>1 DEF Begins
<1> QED
  BY <1>2 DEF Discipline

LEMMA PutBegins ==
    ASSUME NEW h \in Handlers, NEW n, NEW v, NEW todo \in Owing, Handle(h, Put(mem, n, v), {n}, todo)
    PROVE  Discipline
<1>1. \A m : m[1] # "next" /\ m \notin {n} => Value(Put(mem, n, v), m) = Value(mem, m)
  BY PutValue
<1> QED
  BY <1>1, HandleBegins DEF Handle

LEMMA DropBegins ==
    ASSUME NEW h \in Handlers, NEW S, NEW todo \in Owing, Handle(h, Drop(mem, S), S, todo)
    PROVE  Discipline
<1>1. \A m : m[1] # "next" /\ m \notin S => Value(Drop(mem, S), m) = Value(mem, m)
  BY DropValue
<1> QED
  BY <1>1, HandleBegins DEF Handle

LEMMA CommitBegins ==
    ASSUME NEW h \in Handlers, NEW doc, NEW S, Commit(h, doc, S) \/ CommitLocked(h, doc, S),
           \A n : n[1] # "next" /\ n \notin S => Value(doc, n) = Value(mem, n)
    PROVE  Discipline
<1>1. <<Save(Revert)>> \in Owing
  BY Listed
<1>2. CASE Commit(h, doc, S)
  BY <1>1, <1>2, HandleBegins DEF Commit, Handle
<1>3. CASE CommitLocked(h, doc, S)
  BY <1>1, <1>3, HandleBegins DEF CommitLocked
<1> QED
  BY <1>2, <1>3

LEMMA SimpleBegins ==
    ASSUME NEW h \in Handlers, NEW n, NEW v, NEW S,
           \/ Create(h, n, v) \/ Update(h, n, v) \/ Delete(h, n) \/ DeleteAll(h, n, S)
           \/ CommitLocked(h, Put(mem, n, v), {n}) \/ CommitLocked(h, Drop(mem, {n}), {n})
    PROVE  Discipline
<1>1. \A m : m[1] # "next" /\ m \notin {n} => Value(Put(mem, n, v), m) = Value(mem, m)
  BY PutValue
<1>2. \A T : \A m : m[1] # "next" /\ m \notin T => Value(Drop(mem, T), m) = Value(mem, m)
  BY DropValue
<1>3. CASE Create(h, n, v) \/ Update(h, n, v)
  BY <1>1, <1>3, CommitBegins DEF Create, Update
<1>4. CASE Delete(h, n) \/ DeleteAll(h, n, S)
  BY <1>2, <1>4, CommitBegins DEF Delete, DeleteAll
<1>5. CASE CommitLocked(h, Put(mem, n, v), {n}) \/ CommitLocked(h, Drop(mem, {n}), {n})
  BY <1>1, <1>2, <1>5, CommitBegins
<1> QED
  BY <1>3, <1>4, <1>5

LEMMA SharedSteps ==
    ASSUME \/ \E h \in Handlers : SaveOk(h) \/ SaveFails(h) \/ Rollback(h) \/ OperationWrite(h)
           \/ StartWith(disk, "unread") \/ StartWith(disk, "closed")
    PROVE  Discipline
  BY DEF Discipline, ShimStep, OperationStep, Starts

LEMMA MoreListed ==
    /\ Creation \in Owing /\ FinishMutation \in Owing
    /\ <<Save(Keep), Register(Keep)>> \in Owing /\ <<Save(Revert), Register(Keep)>> \in Owing
    /\ <<Save(Revert), Register(Compensate)>> \in Owing
    /\ <<Register(Revert), Save(Compensate)>> \in Owing
  BY DEF Owing, Creation

LEMMA ServiceDirectorySteps == ServiceDirectoryNext => Discipline
<1> SUFFICES ASSUME ServiceDirectoryNext PROVE Discipline
  OBVIOUS
<1> QED
  BY SimpleBegins, SharedSteps
  DEF ServiceDirectoryNext, createNamespace, patchNamespace, deleteNamespace, createService, patchService,
      deleteService, createEndpoint, patchEndpoint, deleteEndpoint, servicedirectory_persistState,
      servicedirectory_loadState

LEMMA ServiceMeshSteps == ServiceMeshNext => Discipline
<1> SUFFICES ASSUME ServiceMeshNext PROVE Discipline
  OBVIOUS
<1>1. ASSUME NEW h \in Handlers, createMesh(h) \/ patchMesh(h) \/ deleteMesh(h) PROVE Discipline
  BY <1>1, PutBegins, DropBegins, MoreListed DEF createMesh, patchMesh, deleteMesh
<1>2. ASSUME NEW h \in Handlers, createHttpRoute(h) \/ patchHttpRoute(h) \/ deleteHttpRoute(h) PROVE Discipline
  BY <1>2, PutBegins, DropBegins, MoreListed DEF createHttpRoute, patchHttpRoute, deleteHttpRoute
<1> QED
  BY <1>1, <1>2, SharedSteps DEF ServiceMeshNext, servicemesh_loadState, ShimStep, OperationStep

LEMMA ApiGatewaySteps == ApiGatewayNext => Discipline
<1> SUFFICES ASSUME ApiGatewayNext PROVE Discipline
  OBVIOUS
<1>1. ASSUME NEW h \in Handlers, NEW n, NEW v, NEW async \in BOOLEAN,
             finishMutation(h, Put(mem, n, v), {n}, async) \/ finishMutation(h, Drop(mem, {n}), {n}, async)
      PROVE  Discipline
  <2>1. PICK todo \in Owing : Handle(h, Put(mem, n, v), {n}, todo) \/ Handle(h, Drop(mem, {n}), {n}, todo)
    BY <1>1, MoreListed DEF finishMutation
  <2> QED
    BY <2>1, PutBegins, DropBegins
<1>2. ASSUME NEW h \in Handlers, createApi(h) \/ patchApi(h) \/ deleteApi(h) PROVE Discipline
  BY <1>1, <1>2 DEF createApi, patchApi, deleteApi
<1>3. ASSUME NEW h \in Handlers, createGateway(h) \/ patchGateway(h) \/ deleteGateway(h) PROVE Discipline
  BY <1>1, <1>3 DEF createGateway, patchGateway, deleteGateway
<1>4. ASSUME NEW h \in Handlers, createConfig(h) \/ deleteConfig(h) PROVE Discipline
  BY <1>4, SimpleBegins DEF createConfig, deleteConfig
<1> QED
  BY <1>2, <1>3, <1>4, SharedSteps DEF ApiGatewayNext, apigateway_persistState, apigateway_loadState, OperationStep

LEMMA CloudEndpointsSteps == CloudEndpointsNext => Discipline
<1> SUFFICES ASSUME CloudEndpointsNext PROVE Discipline
  OBVIOUS
<1>1. ASSUME NEW h \in Handlers, report(h) PROVE Discipline
  <2>1. PICK S : CommitLocked(h, [n \in Live |-> IF n \in S THEN [mem[n] EXCEPT !.reported = TRUE]
                                                ELSE mem[n]], S)
    BY <1>1 DEF report
  <2>2. PICK doc : doc = [n \in Live |-> IF n \in S THEN [mem[n] EXCEPT !.reported = TRUE] ELSE mem[n]]
    OBVIOUS
  <2>3. \A n : n[1] # "next" /\ n \notin S => Value(doc, n) = Value(mem, n)
    BY <2>2 DEF Value, Live
  <2> QED
    BY <2>1, <2>2, <2>3, CommitBegins
<1> QED
  BY <1>1, SimpleBegins, SharedSteps
  DEF CloudEndpointsNext, routeConfigs, routeRollouts, check, saveSnapshot, cloudendpoints_loadState

LEMMA DNSSteps == DNSNext => Discipline
<1> SUFFICES ASSUME DNSNext PROVE Discipline
  OBVIOUS
<1>1. ASSUME NEW h \in Handlers, createZone(h) PROVE Discipline
  <2>1. PICK z, b : Commit(h, withZone(z, b), Made(z))
    BY <1>1 DEF createZone
  <2>2. \A n : n \notin Made(z) => Value(withZone(z, b), n) = Value(mem, n)
    BY DEF withZone, Made, Value, Live
  <2> QED
    BY <2>1, <2>2, CommitBegins
<1>2. ASSUME NEW h \in Handlers, createChange(h) PROVE Discipline
  <2>1. PICK z, A, b, D : Commit(h, withChange(z, A, D, b), Additions(z, A) \union Recorded(z) \union D)
    BY <1>2 DEF createChange
  <2>2. \A n : n \notin Additions(z, A) \union Recorded(z) \union D => Value(withChange(z, A, D, b), n) = Value(mem, n)
    BY DEF withChange, Recorded, Value, Live
  <2> QED
    BY <2>1, <2>2, CommitBegins
<1>3. ASSUME NEW h \in Handlers, putRRSet(h) PROVE Discipline
  <2>1. PICK n, b : Commit(h, Put(mem, n, b), {n})
    BY <1>3 DEF putRRSet
  <2>2. \A m : m \notin {n} => Value(Put(mem, n, b), m) = Value(mem, m)
    BY PutValue
  <2> QED
    BY <2>1, <2>2, CommitBegins
<1> QED
  BY <1>1, <1>2, <1>3, SimpleBegins, SharedSteps
  DEF DNSNext, patchZone, deleteZone, createRRSet, deleteRRSet, persistOrRollback, persistMetadata, NewAPI

LEMMA AccessContextManagerSteps == Shape /\ AccessContextManagerNext => Discipline
<1> SUFFICES ASSUME Shape, AccessContextManagerNext PROVE Discipline
  OBVIOUS
<1>1. ASSUME NEW h \in Handlers, createAccessPolicy(h) PROVE Discipline
  <2>1. PICK n, b : CommitOperation(h, Put(Put(mem, seqNum, PolicyNumber(mem) + 1), n, b), {n})
    BY <1>1 DEF createAccessPolicy
  <2>2. PICK doc : doc = Put(Put(mem, seqNum, PolicyNumber(mem) + 1), n, b)
    OBVIOUS
  <2>3. \A m : m[1] # "next" => m # seqNum
    BY DEF seqNum
  <2>4. \A m : m[1] # "next" /\ m \notin {n} => Value(doc, m) = Value(mem, m)
    BY <2>2, <2>3, PutValue
  <2> QED
    BY <2>1, <2>2, <2>4, HandleBegins, MoreListed DEF CommitOperation, Handle
<1>2. ASSUME NEW h \in Handlers, NEW n, NEW v, NEW S,
             CommitOperation(h, Put(mem, n, v), {n}) \/ CommitOperation(h, Drop(mem, S), S)
      PROVE  Discipline
  BY <1>2, PutBegins, DropBegins, MoreListed DEF CommitOperation
<1>3. ASSUME NEW h \in Handlers, patchAccessPolicy(h) \/ deleteAccessPolicy(h) PROVE Discipline
  BY <1>2, <1>3 DEF patchAccessPolicy, deleteAccessPolicy
<1>4. ASSUME NEW h \in Handlers, createServicePerimeter(h) \/ createAccessLevel(h) PROVE Discipline
  <2>1. PICK n : Look(h, n, Inserting)
    BY <1>4 DEF createServicePerimeter, createAccessLevel, Inserting
  <2>2. call[h].todo = <<>>
    BY <2>1 DEF Look, MayStart, Idle
  <2>3. call' = [call EXCEPT ![h] = [todo |-> Inserting, undo |-> Nothing, on |-> n]]
        /\ UNCHANGED <<mem, disk, degraded, unsaved, backend>>
    BY <2>1 DEF Look
  <2>4. Looks(h)
    BY <2>2, <2>3, NotOwing DEF Looks
  <2> QED
    BY <2>4 DEF Discipline
<1>5. ASSUME NEW h \in Handlers, Insert(h) PROVE Discipline
  <2>1. call[h].todo \notin Owing
    <3>1. call[h].todo # <<>> /\ Head(call[h].todo)[1] = "insert" /\ call[h].todo \in Programs
      BY <1>5 DEF Insert, At, Shape
    <3> QED
      BY <3>1, OwingHeads
  <2>2. \A n, b : \A m : m[1] # "next" /\ m \notin {n} => Value(Put(mem, n, b), m) = Value(mem, m)
    BY PutValue
  <2>3. \/ Looks(h)
        \/ \E n, b : Change(h, Put(mem, n, b), {n}, None, FinishMutation)
    BY <1>5, <2>1 DEF Insert, Looks
  <2>4. ASSUME NEW n, NEW b, Change(h, Put(mem, n, b), {n}, None, FinishMutation) PROVE Discipline
    <3>1. Begins(h, Put(mem, n, b), {n}, FinishMutation)
      BY <2>1, <2>2, <2>4, MoreListed DEF Begins
    <3> QED
      BY <3>1 DEF Discipline
  <2> QED
    BY <2>3, <2>4 DEF Discipline
<1>6. ASSUME NEW h \in Handlers,
             \/ patchServicePerimeter(h) \/ deleteServicePerimeter(h) \/ patchAccessLevel(h) \/ deleteAccessLevel(h)
      PROVE  Discipline
  BY <1>2, <1>6 DEF patchServicePerimeter, deleteServicePerimeter, patchAccessLevel, deleteAccessLevel
<1> QED
  BY <1>1, <1>3, <1>4, <1>5, <1>6, SharedSteps
  DEF AccessContextManagerNext, accesscontextmanager_persistState, accesscontextmanager_loadState, OperationStep

LEMMA OrgPolicySteps == OrgPolicyNext => Discipline
<1> SUFFICES ASSUME OrgPolicyNext PROVE Discipline
  OBVIOUS
<1>1. ASSUME NEW h \in Handlers, orgpolicy_patchPolicy(h) PROVE Discipline
  BY <1>1, PutBegins, Listed DEF orgpolicy_patchPolicy
<1> QED
  BY <1>1, SimpleBegins, SharedSteps
  DEF OrgPolicyNext, orgpolicy_createPolicy, orgpolicy_deletePolicy, orgpolicy_persistState, orgpolicy_loadState

LEMMA NetworkSecuritySteps == NetworkSecurityNext => Discipline
<1> SUFFICES ASSUME NetworkSecurityNext PROVE Discipline
  OBVIOUS
<1>1. ASSUME NEW h \in Handlers, NEW n, NEW v, NEW async \in BOOLEAN,
             \/ networksecurity_finishMutation(h, Put(mem, n, v), {n}, async)
             \/ networksecurity_finishMutation(h, Drop(mem, {n}), {n}, async)
      PROVE  Discipline
  <2>1. PICK todo \in Owing : Handle(h, Put(mem, n, v), {n}, todo) \/ Handle(h, Drop(mem, {n}), {n}, todo)
    BY <1>1, MoreListed DEF networksecurity_finishMutation
  <2> QED
    BY <2>1, PutBegins, DropBegins
<1>2. ASSUME NEW h \in Handlers,
             networksecurity_createPolicy(h) \/ networksecurity_patchPolicy(h) \/ networksecurity_deletePolicy(h)
      PROVE  Discipline
  BY <1>1, <1>2 DEF networksecurity_createPolicy, networksecurity_patchPolicy, networksecurity_deletePolicy
<1> QED
  BY <1>2, SharedSteps DEF NetworkSecurityNext, networksecurity_persistState, networksecurity_loadState, OperationStep

LEMMA PrivateCASteps == PrivateCANext => Discipline
<1> SUFFICES ASSUME PrivateCANext PROVE Discipline
  OBVIOUS
<1> QED
  BY SimpleBegins, SharedSteps DEF PrivateCANext, Issue, Revoke, persist, PrivateCANewAPIWithStore

LEMMA DocumentAISteps == DocumentAINext => Discipline
<1> SUFFICES ASSUME DocumentAINext PROVE Discipline
  OBVIOUS
<1>1. ASSUME NEW doc, NEW m, m[1] # "next" PROVE Value(DocumentAINumbered(doc), m) = Value(doc, m)
  <2>1. m # documentai_seq
    BY <1>1 DEF documentai_seq
  <2> QED
    BY <2>1, PutValue DEF DocumentAINumbered
<1>2. ASSUME NEW h \in Handlers, createProcessor(h) PROVE Discipline
  <2>1. PICK n : Commit(h, DocumentAINumbered(Put(mem, n, "ENABLED")), {n})
    BY <1>2 DEF createProcessor
  <2>2. \A m : m[1] # "next" /\ m \notin {n} => Value(DocumentAINumbered(Put(mem, n, "ENABLED")), m) = Value(mem, m)
    BY <1>1, PutValue
  <2> QED
    BY <2>1, <2>2, CommitBegins
<1>3. ASSUME NEW h \in Handlers, deleteProcessor(h) PROVE Discipline
  <2>1. PICK n, o : Commit(h, DocumentAINumbered(Put(Drop(mem, {n}), o, n)), {n, o})
    BY <1>3 DEF deleteProcessor
  <2>2. \A m : m[1] # "next" /\ m \notin {n, o} => Value(DocumentAINumbered(Put(Drop(mem, {n}), o, n)), m) = Value(mem, m)
    BY <1>1, PutValue, DropValue
  <2> QED
    BY <2>1, <2>2, CommitBegins
<1> QED
  BY <1>2, <1>3, SharedSteps DEF DocumentAINext, documentai_persist, rehydrate

LEMMA DialogflowCXSteps == DialogflowCXNext => Discipline
<1> SUFFICES ASSUME DialogflowCXNext PROVE Discipline
  OBVIOUS
<1>1. ASSUME NEW h \in Handlers, createAgent(h) PROVE Discipline
  <2>1. PICK n, b : Commit(h, Put(Put(mem, n, b), dialogflowcx_seq, DialogflowCXIssued + 1), {n})
    BY <1>1 DEF createAgent
  <2>2. \A m : m[1] # "next" => m # dialogflowcx_seq
    BY DEF dialogflowcx_seq
  <2>3. \A m : m[1] # "next" /\ m \notin {n} =>
            Value(Put(Put(mem, n, b), dialogflowcx_seq, DialogflowCXIssued + 1), m) = Value(mem, m)
    BY <2>2, PutValue
  <2> QED
    BY <2>1, <2>3, CommitBegins
<1> QED
  BY <1>1, SimpleBegins, SharedSteps DEF DialogflowCXNext, deleteAgent, dialogflowcx_persist, DialogflowCXNewAPIWithStore

LEMMA AIPlatformSteps == AIPlatformNext => Discipline
<1> SUFFICES ASSUME AIPlatformNext PROVE Discipline
  OBVIOUS
<1>1. ASSUME NEW doc, NEW k, NEW target, NEW m, m[1] # "next", m # <<"operation", None, k>>
      PROVE  Value(newOperationLocked(doc, k, target), m) = Value(doc, m)
  <2>1. m # aiplatform_seq
    BY <1>1 DEF aiplatform_seq
  <2> QED
    BY <1>1, <2>1, PutValue DEF newOperationLocked
<1>2. ASSUME NEW h \in Handlers, NEW kind, NEW limit, create(h, kind, limit) PROVE Discipline
  <2>1. PICK n, k, b : Commit(h, newOperationLocked(Put(mem, n, b), k, n), {n, <<"operation", None, k>>})
    BY <1>2 DEF create
  <2>2. \A m : m[1] # "next" /\ m \notin {n, <<"operation", None, k>>} =>
            Value(newOperationLocked(Put(mem, n, b), k, n), m) = Value(mem, m)
    BY <1>1, PutValue
  <2> QED
    BY <2>1, <2>2, CommitBegins
<1>3. ASSUME NEW h \in Handlers, deleteResource(h) PROVE Discipline
  <2>1. PICK n, k : Commit(h, newOperationLocked(Drop(mem, {n}), k, n), {n, <<"operation", None, k>>})
    BY <1>3 DEF deleteResource
  <2>2. \A m : m[1] # "next" /\ m \notin {n, <<"operation", None, k>>} =>
            Value(newOperationLocked(Drop(mem, {n}), k, n), m) = Value(mem, m)
    BY <1>1, DropValue
  <2> QED
    BY <2>1, <2>2, CommitBegins
<1> QED
  BY <1>2, <1>3, SharedSteps DEF AIPlatformNext, createIndex, uploadModel, aiplatform_persist, AIPlatformNewAPIWithStore

LEMMA DLPSteps == DLPNext => Discipline
<1> SUFFICES ASSUME DLPNext PROVE Discipline
  OBVIOUS
<1>1. ASSUME NEW h \in Handlers, createTemplate(h) PROVE Discipline
  <2> DEFINE counted == Put(mem, counter, Counted(mem) + 1)
  <2>1. PICK n, b : Handle(h, counted, {}, <<>>) \/ Commit(h, Put(counted, n, b), {n})
    BY <1>1 DEF createTemplate
  <2>2. \A m : m[1] # "next" => m # counter
    BY DEF counter
  <2>3. \A m : m[1] # "next" => Value(counted, m) = Value(mem, m)
    BY <2>2, PutValue
  <2>4. CASE Handle(h, counted, {}, <<>>)
    <3>1. call[h].todo = <<>> /\ Change(h, counted, {}, None, <<>>)
      BY <2>4 DEF Handle, MayStart, Idle
    <3>2. Begins(h, counted, {}, <<>>)
      BY <2>3, <3>1, NotOwing DEF Begins
    <3> QED
      BY <3>2 DEF Discipline
  <2>5. CASE Commit(h, Put(counted, n, b), {n})
    <3>1. \A m : m[1] # "next" /\ m \notin {n} => Value(Put(counted, n, b), m) = Value(mem, m)
      BY <2>3, PutValue
    <3> QED
      BY <2>5, <3>1, CommitBegins
  <2> QED
    BY <2>1, <2>4, <2>5
<1>2. ASSUME NEW h \in Handlers, patchTemplate(h) PROVE Discipline
  BY <1>2, PutBegins, Listed DEF patchTemplate
<1> QED
  BY <1>1, <1>2, SimpleBegins, SharedSteps DEF DLPNext, deleteTemplate, persistState, loadState

LEMMA CloudTraceSteps == CloudTraceNext => Discipline
<1> SUFFICES ASSUME CloudTraceNext PROVE Discipline
  OBVIOUS
<1>1. ASSUME NEW h \in Handlers, batchWrite(h) PROVE Discipline
  <2>1. PICK spans, S :
            /\ S \subseteq Traces
            /\ CommitLocked(h, [t \in Live \union S |->
                                  IF t \in S THEN Spans(mem, t) \union spans[t] ELSE mem[t]], Traces)
    BY <1>1 DEF batchWrite
  <2>2. PICK doc : doc = [t \in Live \union S |-> IF t \in S THEN Spans(mem, t) \union spans[t] ELSE mem[t]]
    OBVIOUS
  <2>3. \A n : n[1] # "next" /\ n \notin Traces => Value(doc, n) = Value(mem, n)
    BY <2>1, <2>2 DEF Value, Live
  <2> QED
    BY <2>1, <2>2, <2>3, CommitBegins
<1> QED
  BY <1>1, SharedSteps DEF CloudTraceNext, cloudtrace_persistState, cloudtrace_loadState

LEMMA ErrorReportingSteps == ErrorReportingNext => Discipline
<1> SUFFICES ASSUME ErrorReportingNext PROVE Discipline
  OBVIOUS
<1>1. ASSUME NEW h \in Handlers, reportEvent(h) PROVE Discipline
  <2>0. PICK g \in Groups : \E v : CommitLocked(h, Put(mem, g, v), Groups)
    BY <1>1 DEF reportEvent
  <2>1. PICK v : CommitLocked(h, Put(mem, g, v), Groups)
    BY <2>0
  <2>2. \A n : n[1] # "next" /\ n \notin Groups => Value(Put(mem, g, v), n) = Value(mem, n)
    BY PutValue
  <2> QED
    BY <2>1, <2>2, CommitBegins
<1> QED
  BY <1>1, SharedSteps DEF ErrorReportingNext, errorreporting_persistState, errorreporting_loadState

LEMMA MonitoringSteps == MonitoringNext => Discipline
<1> SUFFICES ASSUME MonitoringNext PROVE Discipline
  OBVIOUS
<1> QED
  BY SimpleBegins, SharedSteps
  DEF MonitoringNext, createDescriptor, deleteDescriptor, handleTimeSeries, StartCollector,
      monitoring_commitMutation, monitoring_persist, MonitoringNewAPIWithStore

-----------------------------------------------------------------------------
(* The shims that follow the discipline.                                     *)
GuardedShims ==
    \/ ServiceDirectoryNext \/ ServiceMeshNext \/ ApiGatewayNext \/ CloudEndpointsNext
    \/ AccessContextManagerNext \/ OrgPolicyNext \/ NetworkSecurityNext \/ PrivateCANext
    \/ DocumentAINext \/ DialogflowCXNext \/ AIPlatformNext \/ DLPNext
    \/ CloudTraceNext \/ ErrorReportingNext
DisciplinedShims == GuardedShims \/ DNSNext \/ MonitoringNext

LEMMA ShimsFollow ==
    ASSUME Shape, [DisciplinedShims]_shimVars
    PROVE  [Discipline]_shimVars
  BY ServiceDirectorySteps, ServiceMeshSteps, ApiGatewaySteps, CloudEndpointsSteps, DNSSteps,
     AccessContextManagerSteps, OrgPolicySteps, NetworkSecuritySteps, PrivateCASteps,
     DocumentAISteps, DialogflowCXSteps, AIPlatformSteps, DLPSteps,
     CloudTraceSteps, ErrorReportingSteps, MonitoringSteps
  DEF DisciplinedShims, GuardedShims

(* saveState and the rollbacks of sixteen shims: what a request was told is  *)
(* on disk as in memory, for any number of concurrent requests and resources *)
(* and with or without the guard, as long as no save has failed.             *)
THEOREM SettledIsDurableHolds ==
    ShimInit /\ [][DisciplinedShims]_shimVars => []SettledIsDurable
<1>1. Shape /\ Covered /\ [DisciplinedShims]_shimVars => Shape' /\ Covered'
  BY ShimsFollow, DisciplineStep
<1> QED
  BY DisciplineInit, CoveredIsDurable, <1>1, PTL

(* guard.go: behind a guarded store the entry of a resource changes only     *)
(* while a request changes that resource; in particular no save after a      *)
(* failed one, or after a start that could not read the entry, touches it.   *)
THEOREM DiskChangesAreRequestedHolds ==
    Guarded => (ShimInit /\ [][GuardedShims]_shimVars => [][OnlyHandlersChangeDisk]_shimVars)
<1> SUFFICES ASSUME Guarded PROVE ShimInit /\ [][GuardedShims]_shimVars => [][OnlyHandlersChangeDisk]_shimVars
  OBVIOUS
<1>1. Shape /\ Covered /\ [GuardedShims]_shimVars => Shape' /\ Covered'
  BY ShimsFollow, DisciplineStep DEF DisciplinedShims
<1>2. Shape /\ Covered /\ [GuardedShims]_shimVars => [OnlyHandlersChangeDisk]_shimVars
  BY ShimsFollow, DisciplineDisk DEF DisciplinedShims
<1> QED
  BY DisciplineInit, <1>1, <1>2, PTL

-----------------------------------------------------------------------------
(* Shims whose requests are single commits.  Behind a guarded store a change *)
(* is taken back only after a save has failed, and after that nothing is     *)
(* saved until the next start: what is taken back meanwhile, over changes    *)
(* that other requests have made since, is never seen by anything durable.   *)
CommitPrograms == {<<>>, Revert, <<Save(Keep)>>, <<Save(Revert)>>}
Committing ==
    /\ \A h \in Handlers : call[h].todo \in CommitPrograms
    /\ degraded = "no" => \A h \in Handlers : call[h].todo # Revert
CommitStep ==
    \/ \E h \in Handlers : SaveOk(h) \/ SaveFails(h) \/ Rollback(h)
    \/ StartWith(disk, "unread") \/ StartWith(disk, "closed")
    \/ UNCHANGED shimVars
(* How memory and entry are copied to each other between two requests.       *)
Copied ==
    /\ disk' = disk \/ (degraded = "no" /\ disk' = mem)
    /\ degraded' = "no" => (degraded = "no" /\ mem' = mem) \/ (disk' = disk /\ mem' = disk)

LEMMA CommitListed ==
    /\ CommitPrograms \subseteq Programs /\ Revert # <<>> /\ \A e : <<Save(e)>> # Revert
    /\ \A P \in CommitPrograms : P # <<>> =>
          /\ Tail(P) = <<>> /\ Head(P)[2] \in {<<>>, Revert}
          /\ Head(P)[1] = "undo" => P = Revert
<1>1. CommitPrograms \subseteq Programs
  BY Listed DEF CommitPrograms
<1>2. /\ \A e : Head(<<Save(e)>>)[1] = "save" /\ Head(<<Save(e)>>)[2] = e /\ Tail(<<Save(e)>>) = <<>>
      /\ Head(Revert)[1] = "undo" /\ Head(Revert)[2] = <<>> /\ Tail(Revert) = <<>> /\ Revert # <<>>
  <2>1. \A e : Head(<<Save(e)>>) = Save(e) /\ Tail(<<Save(e)>>) = <<>>
    BY Sequences
  <2>2. Head(Revert) = Undo /\ Tail(Revert) = <<>> /\ Revert # <<>>
    BY Sequences DEF Revert
  <2> QED
    BY <2>1, <2>2, StepParts
<1> QED
  BY <1>1, <1>2 DEF CommitPrograms, Keep

LEMMA CommitSteps ==
    ASSUME Guarded, Shape, Committing, CommitStep
    PROVE  Committing' /\ Copied
<1>1. CASE UNCHANGED shimVars
  BY <1>1 DEF shimVars, Committing, Copied
<1>2. CASE StartWith(disk, "unread") \/ StartWith(disk, "closed")
  <2>1. call' = [h \in Handlers |-> Idle] /\ Idle.todo = <<>>
    BY <1>2 DEF StartWith, Idle
  <2>2. Committing'
    BY <2>1, CommitListed DEF Committing, CommitPrograms
  <2>3. Copied
    BY <1>2 DEF StartWith, Copied
  <2> QED
    BY <2>2, <2>3
<1>3. ASSUME NEW h \in Handlers, SaveOk(h) \/ SaveFails(h) \/ Rollback(h) PROVE Committing' /\ Copied
  <2>1. call[h].todo # <<>> /\ call[h].todo \in CommitPrograms
    BY <1>3 DEF SaveOk, SaveFails, Rollback, At, Committing
  <2>2. PICK todo \in {<<>>, Revert} : Follow(h, todo) /\ (todo = Revert => degraded' # "no")
    <3>1. CASE SaveOk(h)
      BY <2>1, <3>1, CommitListed DEF SaveOk, Proceed
    <3>2. CASE SaveFails(h)
      BY <2>1, <3>2, CommitListed DEF SaveFails, Fail, Writable, Failure
    <3>3. CASE Rollback(h)
      BY <2>1, <3>3, CommitListed DEF Rollback, Proceed
    <3> QED
      BY <1>3, <3>1, <3>2, <3>3
  <2>3. call'[h].todo = todo /\ \A g \in Handlers \ {h} : call'[g] = call[g]
    BY <2>2, FollowEffect, CommitListed DEF CommitPrograms
  <2>4. degraded' = "no" => degraded = "no" /\ mem' = mem
    <3>1. CASE Rollback(h)
      <4>1. Head(call[h].todo)[1] = "undo" /\ degraded' = degraded
        BY <3>1 DEF Rollback, At
      <4>2. call[h].todo = Revert
        BY <2>1, <4>1, CommitListed
      <4> QED
        BY <4>1, <4>2 DEF Committing
    <3> QED
      BY <1>3, <3>1 DEF SaveOk, SaveFails, Writable, Failure
  <2>5. disk' = disk \/ (degraded = "no" /\ disk' = mem)
    BY <1>3 DEF SaveOk, SaveFails, Rollback, Writable
  <2>6. Committing'
    BY <2>2, <2>3, <2>4, CommitListed DEF Committing, CommitPrograms
  <2> QED
    BY <2>4, <2>5, <2>6 DEF Copied
<1> QED
  BY <1>1, <1>2, <1>3 DEF CommitStep

LEMMA CommitRequests ==
    ASSUME Shape, Committing, NEW h \in Handlers, NEW doc, NEW S, NEW on,
           NEW todo \in {<<>>, <<Save(Keep)>>, <<Save(Revert)>>}, Change(h, doc, S, on, todo)
    PROVE  Committing' /\ mem' = doc /\ disk' = disk /\ degraded' = degraded
<1>1. mem' = doc /\ disk' = disk /\ degraded' = degraded /\ todo \in CommitPrograms /\ todo # Revert
  BY CommitListed DEF Change, CommitPrograms
<1>2. PICK r : r = [todo |-> todo, undo |-> Before(S), on |-> on]
  OBVIOUS
<1>3. r = [todo |-> r.todo, undo |-> r.undo, on |-> r.on] /\ r.todo = todo /\ call' = [call EXCEPT ![h] = r]
  BY <1>2 DEF Change
<1>4. call'[h].todo = todo /\ \A g \in Handlers \ {h} : call'[g] = call[g]
  BY <1>1, <1>3, CommitListed, ShapeSet
<1> QED
  BY <1>1, <1>4 DEF Committing

LEMMA CommitInit == ShimInit => Committing
  BY DEF ShimInit, Committing, CommitPrograms, Idle, Revert

-----------------------------------------------------------------------------
(* servicedirectory: parents outlive their children, in memory and on disk.  *)
Parented(doc) ==
    \A m \in DOMAIN doc : m[1] = "namespace" \/ (m[2] \in DOMAIN doc /\ m[2][1] \in {"namespace", "service"})
ServiceDirectorySound ==
    Shape /\ Covered /\ Committing /\ Parented(disk) /\ (degraded = "no" => Parented(mem))

LEMMA ParentedChanges ==
    ASSUME NEW n, Parented(mem)
    PROVE  /\ \A v : \/ n \in Live \/ n[1] = "namespace"
                     \/ n[2] \in Live /\ n[2][1] \in {"namespace", "service"}
                     => Parented(Put(mem, n, v))
           /\ Under(n, mem) = {} \/ n[1] = "endpoint" => Parented(Drop(mem, {n}))
  BY DEF Parented, Under, Live, Put, Drop

LEMMA ServiceDirectoryKept ==
    ASSUME Guarded, ServiceDirectorySound, [ServiceDirectoryNext]_shimVars
    PROVE  ServiceDirectorySound'
<1>1. Shape' /\ Covered'
  BY ServiceDirectorySteps, DisciplineStep DEF ServiceDirectorySound, Discipline
<1>2. CASE CommitStep
  BY <1>1, <1>2, CommitSteps DEF ServiceDirectorySound, Copied
<1>3. ASSUME NEW h \in Handlers, NEW n, NEW v,
             \/ (Create(h, n, v) \/ Update(h, n, v)) /\ (Parented(mem) => Parented(Put(mem, n, v)))
             \/ Delete(h, n) /\ (Parented(mem) => Parented(Drop(mem, {n})))
      PROVE  ServiceDirectorySound'
  <2>1. PICK doc : Change(h, doc, {n}, None, <<Save(Revert)>>) /\ (Parented(mem) => Parented(doc))
    BY <1>3 DEF Create, Update, Delete, Commit, Handle
  <2> QED
    BY <1>1, <2>1, CommitRequests DEF ServiceDirectorySound
<1>4. ASSUME NEW h \in Handlers, createNamespace(h) \/ patchNamespace(h) \/ deleteNamespace(h)
      PROVE  ServiceDirectorySound'
  <2>1. PICK n, v : /\ n[1] = "namespace"
                    /\ Create(h, n, v) \/ Update(h, n, v) \/ (Under(n, mem) = {} /\ Delete(h, n))
    BY <1>4 DEF createNamespace, patchNamespace, deleteNamespace, Namespaces
  <2> QED
    BY <1>3, <2>1, ParentedChanges
<1>5. ASSUME NEW h \in Handlers, createService(h) \/ patchService(h) \/ deleteService(h)
      PROVE  ServiceDirectorySound'
  <2>1. PICK n, v : \/ n[2] \in Live /\ n[2][1] = "namespace" /\ Create(h, n, v)
                    \/ n \in Live /\ Update(h, n, v)
                    \/ Under(n, mem) = {} /\ Delete(h, n)
    <3>1. \A s \in Services : s[2][1] = "namespace"
      BY DEF Services, Namespaces
    <3>2. CASE createService(h)
      BY <3>1, <3>2 DEF createService
    <3>3. CASE patchService(h)
      BY <3>3 DEF patchService, Update
    <3>4. CASE deleteService(h)
      BY <3>4 DEF deleteService
    <3> QED
      BY <1>5, <3>2, <3>3, <3>4
  <2> QED
    BY <1>3, <2>1, ParentedChanges
<1>6. ASSUME NEW h \in Handlers, createEndpoint(h) \/ patchEndpoint(h) \/ deleteEndpoint(h)
      PROVE  ServiceDirectorySound'
  <2>1. PICK n, v : \/ n[2] \in Live /\ n[2][1] = "service" /\ Create(h, n, v)
                    \/ n \in Live /\ Update(h, n, v)
                    \/ n[1] = "endpoint" /\ Delete(h, n)
    BY <1>6 DEF createEndpoint, patchEndpoint, deleteEndpoint, Update, Endpoints, Services
  <2> QED
    BY <1>3, <2>1, ParentedChanges
<1> QED
  BY <1>2, <1>4, <1>5, <1>6 DEF ServiceDirectoryNext, servicedirectory_persistState, servicedirectory_loadState, CommitStep

(* servicedirectory, validateServiceDirectoryMetadata: the entry is one an    *)
(* import accepts; no service or endpoint outlives its parent, whatever      *)
(* requests overlap.                                                         *)
THEOREM ServiceDirectoryImportable ==
    Guarded => (ShimInit /\ [][ServiceDirectoryNext]_shimVars => []validateServiceDirectoryMetadata(disk))
<1> SUFFICES ASSUME Guarded PROVE ShimInit /\ [][ServiceDirectoryNext]_shimVars => []validateServiceDirectoryMetadata(disk)
  OBVIOUS
<1>1. ShimInit => ServiceDirectorySound
  BY DisciplineInit, CommitInit DEF ShimInit, ServiceDirectorySound, Parented, Nothing
<1>2. ServiceDirectorySound /\ [ServiceDirectoryNext]_shimVars => ServiceDirectorySound'
  BY ServiceDirectoryKept
<1>3. ServiceDirectorySound => validateServiceDirectoryMetadata(disk)
  BY DEF ServiceDirectorySound, Parented, validateServiceDirectoryMetadata, Of
<1> QED
  BY <1>1, <1>2, <1>3, PTL

-----------------------------------------------------------------------------
(* cloudendpoints: a rollout has its configuration.                          *)
CloudEndpointsSound ==
    /\ Shape /\ Covered /\ Committing
    /\ validateCloudEndpointsMetadata(disk)
    /\ degraded = "no" => validateCloudEndpointsMetadata(mem)

LEMMA CloudEndpointsKept ==
    ASSUME Guarded, CloudEndpointsSound, [CloudEndpointsNext]_shimVars
    PROVE  CloudEndpointsSound'
<1>1. Shape' /\ Covered'
  BY CloudEndpointsSteps, DisciplineStep DEF CloudEndpointsSound
<1>2. CASE CommitStep
  BY <1>1, <1>2, CommitSteps DEF CloudEndpointsSound, Copied
<1>3. ASSUME NEW h \in Handlers, NEW doc, NEW S, CommitLocked(h, doc, S),
             validateCloudEndpointsMetadata(mem) => validateCloudEndpointsMetadata(doc)
      PROVE  CloudEndpointsSound'
  BY <1>1, <1>3, CommitRequests DEF CloudEndpointsSound, CommitLocked
<1>4. ASSUME NEW n, NEW v, validateCloudEndpointsMetadata(mem),
             n[1] # "rollout" \/ (v \in Live /\ v[2] = n[2])
      PROVE  validateCloudEndpointsMetadata(Put(mem, n, v))
  BY <1>4 DEF validateCloudEndpointsMetadata, Of, Live, Put
<1>5. ASSUME NEW h \in Handlers, routeConfigs(h) \/ routeRollouts(h) \/ check(h) PROVE CloudEndpointsSound'
  <2>1. PICK n, v : CommitLocked(h, Put(mem, n, v), {n}) /\ (n[1] # "rollout" \/ (v \in Live /\ v[2] = n[2]))
    <3>1. /\ \A n \in CloudEndpointsConfigs : n[1] = "config"
          /\ \A n \in Operations : n[1] = "operation"
      BY DEF CloudEndpointsConfigs, Operations
    <3>2. CASE routeConfigs(h)
      BY <3>1, <3>2 DEF routeConfigs
    <3>3. CASE routeRollouts(h)
      BY <3>3 DEF routeRollouts
    <3>4. CASE check(h)
      <4>1. PICK n \in Operations : \E v : CommitLocked(h, Put(mem, n, v), {n})
        BY <3>4 DEF check
      <4> QED
        BY <3>1, <4>1
    <3> QED
      BY <1>5, <3>2, <3>3, <3>4
  <2> QED
    BY <1>3, <1>4, <2>1
<1>6. ASSUME NEW h \in Handlers, report(h) PROVE CloudEndpointsSound'
  <2>1. PICK S \in SUBSET Operations :
          CommitLocked(h, [n \in Live |-> IF n \in S THEN [mem[n] EXCEPT !.reported = TRUE] ELSE mem[n]], S)
    BY <1>6 DEF report
  <2>2. PICK doc : doc = [n \in Live |-> IF n \in S THEN [mem[n] EXCEPT !.reported = TRUE] ELSE mem[n]]
    OBVIOUS
  <2>3. \A n \in S : n[1] = "operation"
    BY DEF Operations
  <2>4. DOMAIN doc = DOMAIN mem /\ \A n \in DOMAIN mem : n[1] = "rollout" => doc[n] = mem[n]
    BY <2>2, <2>3 DEF Live
  <2>5. validateCloudEndpointsMetadata(mem) => validateCloudEndpointsMetadata(doc)
    BY <2>4 DEF validateCloudEndpointsMetadata, Of
  <2> QED
    BY <1>3, <2>1, <2>2, <2>5
<1> QED
  BY <1>2, <1>5, <1>6 DEF CloudEndpointsNext, saveSnapshot, cloudendpoints_loadState, CommitStep

(* cloudendpoints, saveSnapshot: the entry is one an import accepts; no      *)
(* rollout is saved whose configuration is not, or is another service's.     *)
THEOREM CloudEndpointsImportable ==
    Guarded => (ShimInit /\ [][CloudEndpointsNext]_shimVars => []validateCloudEndpointsMetadata(disk))
<1> SUFFICES ASSUME Guarded PROVE ShimInit /\ [][CloudEndpointsNext]_shimVars => []validateCloudEndpointsMetadata(disk)
  OBVIOUS
<1>1. ShimInit => CloudEndpointsSound
  BY DisciplineInit, CommitInit DEF ShimInit, CloudEndpointsSound, validateCloudEndpointsMetadata, Of, Nothing
<1>2. CloudEndpointsSound /\ [CloudEndpointsNext]_shimVars => CloudEndpointsSound'
  BY CloudEndpointsKept
<1>3. CloudEndpointsSound => validateCloudEndpointsMetadata(disk)
  BY DEF CloudEndpointsSound
<1> QED
  BY <1>1, <1>2, <1>3, PTL

-----------------------------------------------------------------------------
(* privateca: what is revoked on disk is revoked in memory.                  *)
RevocationsKnown ==
    degraded = "no" => \A n \in DOMAIN disk : disk[n] = "revoked" => n \in DOMAIN mem /\ mem[n] = "revoked"
PrivateCASound == Shape /\ Covered /\ Committing /\ RevocationsKnown

LEMMA PrivateCAKept ==
    ASSUME Guarded, PrivateCASound, [PrivateCANext]_shimVars
    PROVE  PrivateCASound' /\ RevokedForever
<1>1. Shape' /\ Covered'
  BY PrivateCASteps, DisciplineStep DEF PrivateCASound
<1>2. CASE CommitStep
  <2>1. Committing' /\ Copied
    BY <1>2, CommitSteps DEF PrivateCASound
  <2>2. RevocationsKnown'
    BY <2>1 DEF PrivateCASound, RevocationsKnown, Copied
  <2>3. RevokedForever
    BY <2>1 DEF PrivateCASound, RevocationsKnown, Copied, RevokedForever, Value
  <2> QED
    BY <1>1, <2>1, <2>2, <2>3 DEF PrivateCASound
<1>3. ASSUME NEW h \in Handlers, Issue(h) \/ Revoke(h) PROVE PrivateCASound' /\ RevokedForever
  <2>1. PICK n, v : /\ n \notin Live \/ v = "revoked"
                    /\ Change(h, Put(mem, n, v), {n}, None, <<Save(Revert)>>)
    BY <1>3 DEF Issue, Revoke, Create, Update, Commit, Handle
  <2>2. Committing' /\ mem' = Put(mem, n, v) /\ disk' = disk /\ degraded' = degraded
    BY <2>1, CommitRequests DEF PrivateCASound
  <2>3. RevocationsKnown'
    BY <2>1, <2>2 DEF PrivateCASound, RevocationsKnown, Put, Live
  <2> QED
    BY <1>1, <2>2, <2>3 DEF PrivateCASound, RevokedForever, Value
<1> QED
  BY <1>2, <1>3 DEF PrivateCANext, persist, PrivateCANewAPIWithStore, CommitStep

(* privateca, Revoke: a revocation that was saved is never undone, by the    *)
(* rollback of another request or a start either.                            *)
THEOREM RevokedForeverHolds ==
    Guarded => (ShimInit /\ [][PrivateCANext]_shimVars => [][RevokedForever]_shimVars)
<1> SUFFICES ASSUME Guarded PROVE ShimInit /\ [][PrivateCANext]_shimVars => [][RevokedForever]_shimVars
  OBVIOUS
<1>1. ShimInit => PrivateCASound
  BY DisciplineInit, CommitInit DEF ShimInit, PrivateCASound, RevocationsKnown, Nothing
<1>2. PrivateCASound /\ [PrivateCANext]_shimVars => PrivateCASound' /\ [RevokedForever]_shimVars
  BY PrivateCAKept
<1> QED
  BY <1>1, <1>2, PTL

-----------------------------------------------------------------------------
(* Shims that number their resources.  The number of the next one is in a    *)
(* counter that is saved with the maps and that no rollback takes back.      *)
Bounded(S, max) == IsFiniteSet(S) /\ Cardinality(S) <= max

LEMMA BoundedSets ==
    ASSUME NEW S, NEW T, NEW n, NEW max \in Nat, Bounded(S, max)
    PROVE  /\ T \subseteq S => Bounded(T, max)
           /\ Cardinality(S) < max => Bounded(S \union {n}, max)
<1>1. ASSUME T \subseteq S PROVE Bounded(T, max)
  BY <1>1, FS_Subset, FS_CardinalityType DEF Bounded
<1>2. ASSUME Cardinality(S) < max PROVE Bounded(S \union {n}, max)
  <2>1. IsFiniteSet(S \union {n}) /\ Cardinality(S \union {n}) \in {Cardinality(S), Cardinality(S) + 1}
    BY FS_AddElement DEF Bounded
  <2>2. Cardinality(S) \in Nat
    BY FS_CardinalityType DEF Bounded
  <2> QED
    BY <1>2, <2>1, <2>2 DEF Bounded
<1> QED
  BY <1>1, <1>2

(* dialogflowcx.                                                             *)
LastAgent(doc) == IF dialogflowcx_seq \in DOMAIN doc THEN doc[dialogflowcx_seq] ELSE 0
AgentsNumbered(doc) ==
    /\ LastAgent(doc) \in Nat /\ Bounded(Of("agent", doc), MaxAgents)
    /\ \A n \in Of("agent", doc) : n[3] \in Nat /\ n[3] <= LastAgent(doc)
DialogflowCXSound ==
    /\ Shape /\ Covered /\ Committing /\ AgentsNumbered(disk)
    /\ degraded = "no" =>
          /\ AgentsNumbered(mem) /\ LastAgent(disk) <= LastAgent(mem)
          /\ \A n \in Of("agent", disk) \cap Of("agent", mem) : disk[n] = mem[n]

LEMMA DialogflowCXKept ==
    ASSUME Guarded, MaxAgents \in Nat, DialogflowCXSound, [DialogflowCXNext]_shimVars
    PROVE  DialogflowCXSound' /\ NoAgentReplaced
<1>1. Shape' /\ Covered'
  BY DialogflowCXSteps, DisciplineStep DEF DialogflowCXSound
<1>2. CASE CommitStep
  <2>1. Committing' /\ Copied
    BY <1>2, CommitSteps DEF DialogflowCXSound
  <2>2. disk' = disk \/ (degraded = "no" /\ disk' = mem)
    BY <2>1 DEF Copied
  <2>3. NoAgentReplaced
    BY <2>2 DEF DialogflowCXSound, NoAgentReplaced
  <2>4. CASE degraded' # "no"
    <3>1. CASE disk' = disk
      BY <1>1, <2>1, <2>3, <2>4, <3>1 DEF DialogflowCXSound
    <3>2. CASE degraded = "no" /\ disk' = mem
      BY <1>1, <2>1, <2>3, <2>4, <3>2 DEF DialogflowCXSound
    <3> QED
      BY <2>2, <3>1, <3>2
  <2>5. CASE degraded = "no" /\ mem' = mem
    <3>1. AgentsNumbered(mem) /\ LastAgent(mem) <= LastAgent(mem)
      BY <2>5 DEF DialogflowCXSound, AgentsNumbered
    <3>2. CASE disk' = disk
      BY <1>1, <2>1, <2>3, <2>5, <3>2 DEF DialogflowCXSound
    <3>3. CASE disk' = mem
      BY <1>1, <2>1, <2>3, <2>5, <3>1, <3>3 DEF DialogflowCXSound
    <3> QED
      BY <2>2, <3>2, <3>3
  <2>6. CASE disk' = disk /\ mem' = disk
    <3>1. LastAgent(disk) <= LastAgent(disk)
      BY DEF DialogflowCXSound, AgentsNumbered
    <3> QED
      BY <1>1, <2>1, <2>3, <2>6, <3>1 DEF DialogflowCXSound
  <2> QED
    BY <2>1, <2>4, <2>5, <2>6 DEF Copied
<1>3. ASSUME NEW h \in Handlers, createAgent(h) PROVE DialogflowCXSound' /\ NoAgentReplaced
  <2>1. PICK n, doc, b :
          /\ n = <<"agent", None, LastAgent(mem) + 1>> /\ Cardinality(Of("agent", mem)) < MaxAgents
          /\ doc = Put(Put(mem, n, b), dialogflowcx_seq, LastAgent(mem) + 1)
          /\ Commit(h, doc, {n})
    BY <1>3 DEF createAgent, DialogflowCXIssued, LastAgent, Live
  <2>2. Committing' /\ mem' = doc /\ disk' = disk /\ degraded' = degraded
    BY <2>1, CommitRequests DEF Commit, Handle, DialogflowCXSound
  <2>3. n[1] = "agent" /\ n[3] = LastAgent(mem) + 1 /\ dialogflowcx_seq[1] = "next" /\ n # dialogflowcx_seq
    BY <2>1 DEF dialogflowcx_seq
  <2>4. /\ Of("agent", doc) = Of("agent", mem) \union {n} /\ LastAgent(doc) = LastAgent(mem) + 1
        /\ \A m \in Of("agent", mem) : m # n => doc[m] = mem[m]
    BY <2>1, <2>3 DEF Put, Of, LastAgent
  <2>5. ASSUME degraded = "no" PROVE AgentsNumbered(doc) /\ LastAgent(disk) <= LastAgent(doc)
    <3>1. AgentsNumbered(mem) /\ AgentsNumbered(disk) /\ LastAgent(disk) <= LastAgent(mem)
      BY <2>5 DEF DialogflowCXSound
    <3>2. Bounded(Of("agent", doc), MaxAgents)
      BY <2>1, <2>4, <3>1, BoundedSets DEF AgentsNumbered
    <3> QED
      BY <2>3, <2>4, <3>1, <3>2 DEF AgentsNumbered
  <2>6. ASSUME degraded = "no", NEW m \in Of("agent", disk) \cap Of("agent", doc) PROVE disk[m] = doc[m]
    <3>1. m # n
      BY <2>3, <2>6 DEF DialogflowCXSound, AgentsNumbered
    <3> QED
      BY <2>4, <2>6, <3>1 DEF DialogflowCXSound
  <2> QED
    BY <1>1, <2>2, <2>5, <2>6 DEF DialogflowCXSound, NoAgentReplaced
<1>4. ASSUME NEW h \in Handlers, deleteAgent(h) PROVE DialogflowCXSound' /\ NoAgentReplaced
  <2>1. PICK n, doc : n[1] = "agent" /\ doc = Drop(mem, {n}) /\ Commit(h, doc, {n})
    BY <1>4 DEF deleteAgent, Delete, Of
  <2>2. Committing' /\ mem' = doc /\ disk' = disk /\ degraded' = degraded
    BY <2>1, CommitRequests DEF Commit, Handle, DialogflowCXSound
  <2>3. /\ Of("agent", doc) \subseteq Of("agent", mem) /\ LastAgent(doc) = LastAgent(mem)
        /\ \A m \in Of("agent", doc) : doc[m] = mem[m]
    BY <2>1 DEF Drop, Of, LastAgent, dialogflowcx_seq
  <2>4. degraded = "no" => AgentsNumbered(doc)
    BY <2>3, BoundedSets DEF DialogflowCXSound, AgentsNumbered
  <2> QED
    BY <1>1, <2>2, <2>3, <2>4 DEF DialogflowCXSound, NoAgentReplaced
<1> QED
  BY <1>2, <1>3, <1>4 DEF DialogflowCXNext, dialogflowcx_persist, DialogflowCXNewAPIWithStore, CommitStep

LEMMA DialogflowCXInit == MaxAgents \in Nat /\ ShimInit => DialogflowCXSound
<1> SUFFICES ASSUME MaxAgents \in Nat, ShimInit PROVE DialogflowCXSound
  OBVIOUS
<1>1. Of("agent", Nothing) = {} /\ LastAgent(Nothing) = 0
  BY DEF Of, Nothing, LastAgent
<1>2. AgentsNumbered(Nothing)
  BY <1>1, FS_EmptySet DEF AgentsNumbered, Bounded
<1> QED
  BY <1>1, <1>2, DisciplineInit, CommitInit DEF ShimInit, DialogflowCXSound

(* dialogflowcx, validateMetadata: the entry never has more agents than an   *)
(* import accepts.                                                           *)
THEOREM DialogflowCXImportable ==
    Guarded /\ MaxAgents \in Nat =>
        (ShimInit /\ [][DialogflowCXNext]_shimVars => []dialogflowcx_validateMetadata(disk))
<1> SUFFICES ASSUME Guarded, MaxAgents \in Nat
             PROVE  ShimInit /\ [][DialogflowCXNext]_shimVars => []dialogflowcx_validateMetadata(disk)
  OBVIOUS
<1>1. DialogflowCXSound /\ [DialogflowCXNext]_shimVars => DialogflowCXSound'
  BY DialogflowCXKept
<1>2. DialogflowCXSound => dialogflowcx_validateMetadata(disk)
  BY DEF DialogflowCXSound, AgentsNumbered, Bounded, dialogflowcx_validateMetadata
<1> QED
  BY <1>1, <1>2, DialogflowCXInit, PTL

(* dialogflowcx, createAgent: the number of an agent that was saved is never *)
(* given to another one, by a process that starts after a refused save and a *)
(* crash either.                                                             *)
THEOREM NoAgentReplacedHolds ==
    Guarded /\ MaxAgents \in Nat => (ShimInit /\ [][DialogflowCXNext]_shimVars => [][NoAgentReplaced]_shimVars)
<1> SUFFICES ASSUME Guarded, MaxAgents \in Nat
             PROVE  ShimInit /\ [][DialogflowCXNext]_shimVars => [][NoAgentReplaced]_shimVars
  OBVIOUS
<1>1. DialogflowCXSound /\ [DialogflowCXNext]_shimVars => DialogflowCXSound' /\ [NoAgentReplaced]_shimVars
  BY DialogflowCXKept
<1> QED
  BY <1>1, DialogflowCXInit, PTL

(* documentai.                                                               *)
ProcessorsNumbered(doc) ==
    /\ DocumentAIIssued(doc) \in Nat
    /\ Bounded(Of("processor", doc), MaxProcessors) /\ Bounded(Of("operation", doc), MaxOperations)
    /\ \A n \in Of("processor", doc) : n[3] \in Nat /\ n[3] <= DocumentAIIssued(doc)
DocumentAISound ==
    /\ Shape /\ Covered /\ Committing /\ ProcessorsNumbered(disk)
    /\ degraded = "no" => ProcessorsNumbered(mem)

LEMMA DocumentAIKept ==
    ASSUME Guarded, MaxProcessors \in Nat, MaxOperations \in Nat, DocumentAISound, [DocumentAINext]_shimVars
    PROVE  DocumentAISound'
<1>1. Shape' /\ Covered'
  BY DocumentAISteps, DisciplineStep DEF DocumentAISound
<1>2. CASE CommitStep
  BY <1>1, <1>2, CommitSteps DEF DocumentAISound, Copied
<1>3. documentai_seq[1] = "next"
  BY DEF documentai_seq
<1>4. ASSUME NEW h \in Handlers, NEW doc, NEW S, Commit(h, doc, S),
             ProcessorsNumbered(mem) => ProcessorsNumbered(doc)
      PROVE  DocumentAISound'
  BY <1>1, <1>4, CommitRequests DEF Commit, Handle, DocumentAISound
<1>5. ASSUME NEW h \in Handlers, createProcessor(h) PROVE DocumentAISound'
  <2>1. PICK n, doc :
          /\ n = <<"processor", None, DocumentAIIssued(mem) + 1>> /\ Cardinality(Of("processor", mem)) < MaxProcessors
          /\ doc = Put(Put(mem, n, "ENABLED"), documentai_seq, DocumentAIIssued(mem) + 1)
          /\ Commit(h, doc, {n})
    BY <1>5 DEF createProcessor, DocumentAINumbered
  <2>2. n[1] = "processor" /\ n[3] = DocumentAIIssued(mem) + 1
    BY <2>1
  <2>3. /\ Of("processor", doc) = Of("processor", mem) \union {n} /\ Of("operation", doc) = Of("operation", mem)
        /\ DocumentAIIssued(doc) = DocumentAIIssued(mem) + 1
    BY <1>3, <2>1, <2>2 DEF Put, Of, DocumentAIIssued
  <2>4. ASSUME ProcessorsNumbered(mem) PROVE ProcessorsNumbered(doc)
    <3>1. Bounded(Of("processor", doc), MaxProcessors)
      BY <2>1, <2>3, <2>4, BoundedSets DEF ProcessorsNumbered
    <3> QED
      BY <2>2, <2>3, <2>4, <3>1 DEF ProcessorsNumbered
  <2> QED
    BY <1>4, <2>1, <2>4
<1>6. ASSUME NEW h \in Handlers, deleteProcessor(h) PROVE DocumentAISound'
  <2>1. PICK n, o, doc :
          /\ n \in Of("processor", mem) /\ Cardinality(Of("operation", mem)) < MaxOperations
          /\ o = <<"operation", None, DocumentAIIssued(mem) + 1>>
          /\ doc = Put(Put(Drop(mem, {n}), o, n), documentai_seq, DocumentAIIssued(mem) + 1)
          /\ Commit(h, doc, {n, o})
    BY <1>6 DEF deleteProcessor, DocumentAINumbered
  <2>2. o[1] = "operation" /\ n[1] = "processor"
    BY <2>1 DEF Of
  <2>3. /\ Of("processor", doc) \subseteq Of("processor", mem) /\ Of("operation", doc) = Of("operation", mem) \union {o}
        /\ DocumentAIIssued(doc) = DocumentAIIssued(mem) + 1
    BY <1>3, <2>1, <2>2 DEF Put, Drop, Of, DocumentAIIssued
  <2>4. ASSUME ProcessorsNumbered(mem) PROVE ProcessorsNumbered(doc)
    <3>1. Bounded(Of("processor", doc), MaxProcessors) /\ Bounded(Of("operation", doc), MaxOperations)
      BY <2>1, <2>3, <2>4, BoundedSets DEF ProcessorsNumbered
    <3> QED
      BY <2>3, <2>4, <3>1 DEF ProcessorsNumbered
  <2> QED
    BY <1>4, <2>1, <2>4
<1> QED
  BY <1>2, <1>5, <1>6 DEF DocumentAINext, documentai_persist, rehydrate, CommitStep

(* documentai, validateDocumentAIMetadata: the entry never has more           *)
(* processors or operations than an import accepts, nor a processor the      *)
(* counter has yet to reach.                                                 *)
THEOREM DocumentAIImportable ==
    Guarded /\ MaxProcessors \in Nat /\ MaxOperations \in Nat =>
        (ShimInit /\ [][DocumentAINext]_shimVars => []validateDocumentAIMetadata(disk))
<1> SUFFICES ASSUME Guarded, MaxProcessors \in Nat, MaxOperations \in Nat
             PROVE  ShimInit /\ [][DocumentAINext]_shimVars => []validateDocumentAIMetadata(disk)
  OBVIOUS
<1>1. ShimInit => DocumentAISound
  <2>1. \A kind : Of(kind, Nothing) = {}
    BY DEF Of, Nothing
  <2>2. ProcessorsNumbered(Nothing)
    BY <2>1, FS_EmptySet DEF ProcessorsNumbered, Bounded, DocumentAIIssued, Nothing
  <2> QED
    BY <2>2, DisciplineInit, CommitInit DEF ShimInit, DocumentAISound
<1>2. DocumentAISound /\ [DocumentAINext]_shimVars => DocumentAISound'
  BY DocumentAIKept
<1>3. DocumentAISound => validateDocumentAIMetadata(disk)
  BY DEF DocumentAISound, ProcessorsNumbered, Bounded, validateDocumentAIMetadata
<1> QED
  BY <1>1, <1>2, <1>3, PTL

-----------------------------------------------------------------------------
(* dlp: the counter names templates, and requests name them in its form.     *)
TemplatesCounted(doc) ==
    /\ Counted(doc) \in Nat
    /\ \A n \in Of("template", doc) : n[3] \in TemplateIds \/ (n[3] \in Nat /\ n[3] <= Counted(doc))
DLPSound ==
    Shape /\ Covered /\ Committing /\ TemplatesCounted(disk) /\ (degraded = "no" => TemplatesCounted(mem))

LEMMA DLPKept ==
    ASSUME Guarded, DLPSound, [DLPNext]_shimVars
    PROVE  DLPSound'
<1>1. Shape' /\ Covered'
  BY DLPSteps, DisciplineStep DEF DLPSound
<1>2. CASE CommitStep
  BY <1>1, <1>2, CommitSteps DEF DLPSound, Copied
<1>3. counter[1] = "next"
  BY DEF counter
<1>4. ASSUME NEW h \in Handlers, NEW doc, NEW S, NEW todo \in {<<>>, <<Save(Keep)>>, <<Save(Revert)>>},
             Handle(h, doc, S, todo), TemplatesCounted(mem) => TemplatesCounted(doc)
      PROVE  DLPSound'
  BY <1>1, <1>4, CommitRequests DEF Handle, DLPSound
<1>5. ASSUME NEW h \in Handlers, createTemplate(h) PROVE DLPSound'
  <2>1. PICK n, b, counted :
          /\ n[1] = "template" /\ n[3] \in {Counted(mem) + 1} \union TemplateIds
          /\ counted = Put(mem, counter, Counted(mem) + 1)
          /\ Handle(h, counted, {}, <<>>) \/ Handle(h, Put(counted, n, b), {n}, <<Save(Revert)>>)
    <3>1. PICK k, b, counted, n :
            /\ k \in {Counted(mem) + 1} \union TemplateIds
            /\ n = <<"template", None, k>> /\ counted = Put(mem, counter, Counted(mem) + 1)
            /\ Handle(h, counted, {}, <<>>) \/ Handle(h, Put(counted, n, b), {n}, <<Save(Revert)>>)
      BY <1>5 DEF createTemplate, Commit
    <3>2. n[1] = "template" /\ n[3] = k
      BY <3>1
    <3> QED
      BY <3>1, <3>2
  <2>2. /\ Of("template", counted) = Of("template", mem) /\ Counted(counted) = Counted(mem) + 1
        /\ Of("template", Put(counted, n, b)) = Of("template", mem) \union {n}
        /\ Counted(Put(counted, n, b)) = Counted(mem) + 1
    BY <1>3, <2>1 DEF Put, Of, Counted
  <2>3. TemplatesCounted(mem) =>
            \A m \in Of("template", mem) \union {n} :
                m[3] \in TemplateIds \/ (m[3] \in Nat /\ m[3] <= Counted(mem) + 1)
    <3> SUFFICES ASSUME TemplatesCounted(mem), NEW m \in Of("template", mem) \union {n}, m[3] \notin TemplateIds
                 PROVE  m[3] \in Nat /\ m[3] <= Counted(mem) + 1
      OBVIOUS
    <3> QED
      BY <2>1 DEF TemplatesCounted
  <2>4. TemplatesCounted(mem) => TemplatesCounted(counted) /\ TemplatesCounted(Put(counted, n, b))
    BY <2>2, <2>3 DEF TemplatesCounted
  <2> QED
    BY <1>4, <2>1, <2>4
<1>6. ASSUME NEW h \in Handlers, patchTemplate(h) \/ deleteTemplate(h) PROVE DLPSound'
  <2>1. \E n, doc, todo :
          /\ n \in Of("template", mem) /\ todo \in {<<Save(Keep)>>, <<Save(Revert)>>} /\ Handle(h, doc, {n}, todo)
          /\ doc = Drop(mem, {n}) \/ \E b : doc = Put(mem, n, b)
    <3>1. CASE patchTemplate(h)
      <4>1. PICK n \in Of("template", mem), b \in Bodies : Handle(h, Put(mem, n, b), {n}, <<Save(Keep)>>)
        BY <3>1 DEF patchTemplate
      <4> QED
        BY <4>1
    <3>2. CASE deleteTemplate(h)
      <4>1. PICK n \in Of("template", mem) : Handle(h, Drop(mem, {n}), {n}, <<Save(Revert)>>)
        BY <3>2 DEF deleteTemplate, Delete, Commit
      <4> QED
        BY <4>1
    <3> QED
      BY <1>6, <3>1, <3>2
  <2>2. PICK n, doc, todo :
          /\ n \in Of("template", mem) /\ todo \in {<<Save(Keep)>>, <<Save(Revert)>>} /\ Handle(h, doc, {n}, todo)
          /\ doc = Drop(mem, {n}) \/ \E b : doc = Put(mem, n, b)
    BY <2>1
  <2>3. Of("template", doc) \subseteq Of("template", mem) /\ Counted(doc) = Counted(mem)
    BY <1>3, <2>2 DEF Put, Drop, Of, Counted
  <2>4. TemplatesCounted(mem) => TemplatesCounted(doc)
    BY <2>3 DEF TemplatesCounted
  <2> QED
    BY <1>4, <2>2, <2>4
<1> QED
  BY <1>2, <1>5, <1>6 DEF DLPNext, persistState, loadState, CommitStep

(* dlp, createTemplate and snapshotTemplates: the saved counter is behind no *)
(* template that the counter has named, whatever templateIds requests bring; *)
(* only a template that a request named can be ahead of it and make an       *)
(* import refuse the entry.                                                  *)
THEOREM DLPOnlyChosenCollide ==
    Guarded => (ShimInit /\ [][DLPNext]_shimVars => []OnlyChosenCollide(disk))
<1> SUFFICES ASSUME Guarded PROVE ShimInit /\ [][DLPNext]_shimVars => []OnlyChosenCollide(disk)
  OBVIOUS
<1>1. ShimInit => DLPSound
  BY DisciplineInit, CommitInit DEF ShimInit, DLPSound, TemplatesCounted, Counted, Of, Nothing
<1>2. DLPSound /\ [DLPNext]_shimVars => DLPSound'
  BY DLPKept
<1>3. DLPSound => OnlyChosenCollide(disk)
  <2> SUFFICES ASSUME TemplatesCounted(disk) PROVE OnlyChosenCollide(disk)
    BY DEF DLPSound
  <2> DEFINE rest == Drop(disk, Chosen(disk))
  <2>1. counter \notin Chosen(disk) /\ Counted(rest) = Counted(disk)
    BY DEF counter, Chosen, Of, Drop, Counted
  <2>2. \A n \in Of("template", rest) : n \in Of("template", disk) /\ n[3] \notin TemplateIds
    BY DEF Chosen, Of, Drop
  <2> QED
    BY <2>1, <2>2 DEF TemplatesCounted, OnlyChosenCollide, validateDLPMetadata
<1> QED
  BY <1>1, <1>2, <1>3, PTL

-----------------------------------------------------------------------------
(* aiplatform: indexes, models and operations are numbered by one counter.   *)
OperationsNumbered(doc) ==
    /\ AIPlatformIssued(doc) \in Nat /\ Bounded(Of("operation", doc), maxStoredOperations)
    /\ Bounded(Of("index", doc), maxIndexes) /\ Bounded(Of("model", doc), maxModels)
AIPlatformSound ==
    /\ Shape /\ Covered /\ Committing /\ OperationsNumbered(disk)
    /\ degraded = "no" =>
          /\ OperationsNumbered(mem) /\ AIPlatformIssued(disk) <= AIPlatformIssued(mem)
          /\ \A n \in Resources(mem) \ Resources(disk) : n[3] > AIPlatformIssued(disk)

LEMMA NewOperation ==
    ASSUME NEW doc, NEW k, NEW target
    PROVE  LET new == newOperationLocked(doc, k, target)
               o == <<"operation", None, k>>
           IN  /\ AIPlatformIssued(new) = k
               /\ Resources(new) = Resources(doc) \union {o}
               /\ \A kind : Of(kind, new) = IF kind = "operation" THEN Of(kind, doc) \union {o}
                                            ELSE IF kind = "next" THEN Of(kind, doc) \union {aiplatform_seq}
                                            ELSE Of(kind, doc)
<1>1. aiplatform_seq[1] = "next" /\ <<"operation", None, k>>[1] = "operation"
  BY DEF aiplatform_seq
<1> QED
  BY <1>1 DEF newOperationLocked, Put, Of, Resources, AIPlatformIssued

LEMMA AIPlatformKept ==
    ASSUME Guarded, maxIndexes \in Nat, maxModels \in Nat, maxStoredOperations \in Nat,
           AIPlatformSound, [AIPlatformNext]_shimVars
    PROVE  AIPlatformSound' /\ [NamesNotReused]_shimVars
<1>1. Shape' /\ Covered'
  BY AIPlatformSteps, DisciplineStep DEF AIPlatformSound
<1>2. CASE CommitStep
  <2>1. Committing' /\ Copied
    BY <1>2, CommitSteps DEF AIPlatformSound
  <2>2. NamesNotReused
    BY <2>1 DEF Copied, AIPlatformSound, NamesNotReused
  <2>3. CASE degraded' # "no"
    <3>1. OperationsNumbered(disk')
      BY <2>1 DEF Copied, AIPlatformSound
    <3> QED
      BY <1>1, <2>1, <2>2, <2>3, <3>1 DEF AIPlatformSound
  <2>4. CASE degraded' = "no"
    <3>1. \A d \in {disk, mem} : OperationsNumbered(d) =>
              AIPlatformIssued(d) <= AIPlatformIssued(d) /\ Resources(d) \ Resources(d) = {}
      BY DEF OperationsNumbered
    <3>2. (disk' = disk /\ mem' = mem /\ degraded = "no") \/ (disk' = mem /\ mem' = mem /\ degraded = "no")
              \/ (disk' = disk /\ mem' = disk)
      BY <2>1, <2>4 DEF Copied
    <3>3. CASE disk' = disk /\ mem' = mem /\ degraded = "no"
      BY <1>1, <2>1, <2>2, <3>3 DEF AIPlatformSound
    <3>4. CASE disk' = mem /\ mem' = mem /\ degraded = "no"
      BY <1>1, <2>1, <2>2, <3>1, <3>4 DEF AIPlatformSound
    <3>5. CASE disk' = disk /\ mem' = disk
      BY <1>1, <2>1, <2>2, <3>1, <3>5 DEF AIPlatformSound
    <3> QED
      BY <3>2, <3>3, <3>4, <3>5
  <2> QED
    BY <2>3, <2>4
<1>3. ASSUME NEW h \in Handlers, NEW doc, NEW S, Commit(h, doc, S),
             degraded = "no" => /\ OperationsNumbered(doc) /\ AIPlatformIssued(disk) <= AIPlatformIssued(doc)
                                /\ \A n \in Resources(doc) \ Resources(disk) : n[3] > AIPlatformIssued(disk)
      PROVE  AIPlatformSound' /\ [NamesNotReused]_shimVars
  <2>1. Committing' /\ mem' = doc /\ disk' = disk /\ degraded' = degraded
    BY <1>3, CommitRequests DEF Commit, Handle, AIPlatformSound
  <2> QED
    BY <1>1, <1>3, <2>1 DEF AIPlatformSound, NamesNotReused
<1>4. ASSUME NEW h \in Handlers, NEW kind \in {"index", "model"}, NEW limit,
             limit = IF kind = "index" THEN maxIndexes ELSE maxModels, create(h, kind, limit)
      PROVE  AIPlatformSound' /\ [NamesNotReused]_shimVars
  <2>1. PICK k, n, b, o, doc :
          /\ k = AIPlatformIssued(mem) + 1 /\ n = <<kind, None, k>> /\ o = <<"operation", None, k + 1>>
          /\ Cardinality(Of(kind, mem)) < limit /\ Cardinality(Of("operation", mem)) < maxStoredOperations
          /\ doc = newOperationLocked(Put(mem, n, b), k + 1, n)
          /\ Commit(h, doc, {n, o})
    BY <1>4 DEF create, AIPlatformOperations
  <2>2. n[1] = kind /\ n[3] = k /\ o[3] = k + 1
    BY <2>1
  <2>3. /\ AIPlatformIssued(doc) = k + 1 /\ Resources(doc) = Resources(mem) \union {n, o}
        /\ Of("operation", doc) = Of("operation", mem) \union {o} /\ Of(kind, doc) = Of(kind, mem) \union {n}
        /\ \A other \in {"index", "model"} \ {kind} : Of(other, doc) = Of(other, mem)
    <3>1. /\ Resources(Put(mem, n, b)) = Resources(mem) \union {n}
          /\ Of("operation", Put(mem, n, b)) = Of("operation", mem)
          /\ Of(kind, Put(mem, n, b)) = Of(kind, mem) \union {n}
          /\ \A other \in {"index", "model"} \ {kind} : Of(other, Put(mem, n, b)) = Of(other, mem)
      BY <1>4, <2>2 DEF Put, Of, Resources
    <3> QED
      BY <1>4, <2>1, <3>1, NewOperation
  <2>4. ASSUME degraded = "no"
        PROVE  /\ OperationsNumbered(doc) /\ AIPlatformIssued(disk) <= AIPlatformIssued(doc)
               /\ \A m \in Resources(doc) \ Resources(disk) : m[3] > AIPlatformIssued(disk)
    <3>1. /\ OperationsNumbered(mem) /\ AIPlatformIssued(disk) <= AIPlatformIssued(mem)
          /\ AIPlatformIssued(disk) \in Nat /\ AIPlatformIssued(mem) \in Nat
      BY <2>4 DEF AIPlatformSound, OperationsNumbered
    <3>2. Bounded(Of("operation", doc), maxStoredOperations)
      <4>1. Bounded(Of("operation", mem), maxStoredOperations) /\ Cardinality(Of("operation", mem)) < maxStoredOperations
        BY <2>1, <3>1 DEF OperationsNumbered
      <4>2. Bounded(Of("operation", mem) \union {o}, maxStoredOperations)
        BY <4>1, BoundedSets
      <4> QED
        BY <2>3, <4>2
    <3>3. Bounded(Of("index", doc), maxIndexes) /\ Bounded(Of("model", doc), maxModels)
      <4>1. Bounded(Of("index", mem), maxIndexes) /\ Bounded(Of("model", mem), maxModels)
        BY <3>1 DEF OperationsNumbered
      <4>2. Bounded(Of(kind, mem), limit) /\ Cardinality(Of(kind, mem)) < limit /\ limit \in Nat
        BY <1>4, <2>1, <4>1
      <4>3. Bounded(Of(kind, mem) \union {n}, limit)
        BY <4>2, BoundedSets
      <4> QED
        BY <1>4, <2>3, <4>1, <4>3
    <3>4. ASSUME NEW m \in Resources(doc) \ Resources(disk) PROVE m[3] > AIPlatformIssued(disk)
      <4>1. m \in Resources(mem) \/ m \in {n, o}
        BY <2>3, <3>4
      <4>2. CASE m \in Resources(mem)
        BY <2>4, <3>4, <4>2 DEF AIPlatformSound
      <4>3. CASE m \in {n, o}
        BY <2>1, <2>2, <3>1, <4>3
      <4> QED
        BY <4>1, <4>2, <4>3
    <3> QED
      BY <2>1, <2>3, <3>1, <3>2, <3>3, <3>4 DEF OperationsNumbered
  <2> QED
    BY <1>3, <2>1, <2>4
<1>5. ASSUME NEW h \in Handlers, deleteResource(h) PROVE AIPlatformSound' /\ [NamesNotReused]_shimVars
  <2>1. PICK k, n, o, doc :
          /\ k = AIPlatformIssued(mem) + 1 /\ o = <<"operation", None, k>>
          /\ n \in Of("index", mem) \union Of("model", mem) /\ Cardinality(Of("operation", mem)) < maxStoredOperations
          /\ doc = newOperationLocked(Drop(mem, {n}), k, n)
          /\ Commit(h, doc, {n, o})
    BY <1>5 DEF deleteResource, AIPlatformOperations
  <2>2. n[1] \in {"index", "model"} /\ o[3] = k
    BY <2>1 DEF Of
  <2>3. /\ AIPlatformIssued(doc) = k /\ Resources(doc) \subseteq Resources(mem) \union {o}
        /\ Of("operation", doc) = Of("operation", mem) \union {o}
        /\ Of("index", doc) \subseteq Of("index", mem) /\ Of("model", doc) \subseteq Of("model", mem)
    <3>1. /\ Resources(Drop(mem, {n})) \subseteq Resources(mem)
          /\ Of("operation", Drop(mem, {n})) = Of("operation", mem)
          /\ Of("index", Drop(mem, {n})) \subseteq Of("index", mem)
          /\ Of("model", Drop(mem, {n})) \subseteq Of("model", mem)
      BY <2>2 DEF Drop, Of, Resources
    <3>2. /\ AIPlatformIssued(doc) = k /\ Resources(doc) = Resources(Drop(mem, {n})) \union {o}
          /\ Of("operation", doc) = Of("operation", Drop(mem, {n})) \union {o}
          /\ Of("index", doc) = Of("index", Drop(mem, {n})) /\ Of("model", doc) = Of("model", Drop(mem, {n}))
      BY <2>1, NewOperation
    <3> QED
      BY <3>1, <3>2
  <2>4. ASSUME degraded = "no"
        PROVE  /\ OperationsNumbered(doc) /\ AIPlatformIssued(disk) <= AIPlatformIssued(doc)
               /\ \A m \in Resources(doc) \ Resources(disk) : m[3] > AIPlatformIssued(disk)
    <3>1. /\ OperationsNumbered(mem) /\ AIPlatformIssued(disk) <= AIPlatformIssued(mem)
          /\ AIPlatformIssued(disk) \in Nat /\ AIPlatformIssued(mem) \in Nat
      BY <2>4 DEF AIPlatformSound, OperationsNumbered
    <3>2. /\ Bounded(Of("operation", doc), maxStoredOperations)
          /\ Bounded(Of("index", doc), maxIndexes) /\ Bounded(Of("model", doc), maxModels)
      <4>1. /\ Bounded(Of("operation", mem), maxStoredOperations) /\ Cardinality(Of("operation", mem)) < maxStoredOperations
            /\ Bounded(Of("index", mem), maxIndexes) /\ Bounded(Of("model", mem), maxModels)
        BY <2>1, <3>1 DEF OperationsNumbered
      <4>2. Bounded(Of("operation", mem) \union {o}, maxStoredOperations)
        BY <4>1, BoundedSets
      <4>3. Bounded(Of("index", doc), maxIndexes) /\ Bounded(Of("model", doc), maxModels)
        BY <2>3, <4>1, BoundedSets
      <4> QED
        BY <2>3, <4>2, <4>3
    <3>3. ASSUME NEW m \in Resources(doc) \ Resources(disk) PROVE m[3] > AIPlatformIssued(disk)
      <4>1. m \in Resources(mem) \/ m \in {o}
        BY <2>3, <3>3
      <4>2. CASE m \in Resources(mem)
        BY <2>4, <3>3, <4>2 DEF AIPlatformSound
      <4>3. CASE m \in {o}
        BY <2>1, <2>2, <3>1, <4>3
      <4> QED
        BY <4>1, <4>2, <4>3
    <3>4. AIPlatformIssued(doc) \in Nat /\ AIPlatformIssued(disk) <= AIPlatformIssued(doc)
      BY <2>1, <2>3, <3>1
    <3> QED
      BY <3>2, <3>3, <3>4 DEF OperationsNumbered
  <2> QED
    BY <1>3, <2>1, <2>4
<1>6. ASSUME NEW h \in Handlers, createIndex(h) \/ uploadModel(h) PROVE AIPlatformSound' /\ [NamesNotReused]_shimVars
  BY <1>4, <1>6 DEF createIndex, uploadModel
<1> QED
  BY <1>2, <1>5, <1>6 DEF AIPlatformNext, aiplatform_persist, AIPlatformNewAPIWithStore, CommitStep

LEMMA AIPlatformInit ==
    maxIndexes \in Nat /\ maxModels \in Nat /\ maxStoredOperations \in Nat /\ ShimInit => AIPlatformSound
<1> SUFFICES ASSUME maxIndexes \in Nat, maxModels \in Nat, maxStoredOperations \in Nat, ShimInit
             PROVE  AIPlatformSound
  OBVIOUS
<1>1. /\ \A kind : Of(kind, Nothing) = {}
      /\ AIPlatformIssued(Nothing) = 0 /\ Resources(Nothing) = {}
  BY DEF Of, Nothing, AIPlatformIssued, Resources
<1>2. OperationsNumbered(Nothing)
  BY <1>1, FS_EmptySet DEF OperationsNumbered, Bounded
<1> QED
  BY <1>1, <1>2, DisciplineInit, CommitInit DEF ShimInit, AIPlatformSound

(* aiplatform, validateMetadata: the entry never has more indexes, models or *)
(* operations than an import accepts.                                        *)
THEOREM AIPlatformImportable ==
    Guarded /\ maxIndexes \in Nat /\ maxModels \in Nat /\ maxStoredOperations \in Nat =>
        (ShimInit /\ [][AIPlatformNext]_shimVars => []aiplatform_validateMetadata(disk))
<1> SUFFICES ASSUME Guarded, maxIndexes \in Nat, maxModels \in Nat, maxStoredOperations \in Nat
             PROVE  ShimInit /\ [][AIPlatformNext]_shimVars => []aiplatform_validateMetadata(disk)
  OBVIOUS
<1>1. AIPlatformSound /\ [AIPlatformNext]_shimVars => AIPlatformSound'
  BY AIPlatformKept
<1>2. AIPlatformSound => aiplatform_validateMetadata(disk)
  BY DEF AIPlatformSound, OperationsNumbered, Bounded, aiplatform_validateMetadata, AIPlatformOperations
<1> QED
  BY <1>1, <1>2, AIPlatformInit, PTL

(* aiplatform, newOperationLocked: a number that was saved is never given to *)
(* another index, model or operation, by a process that starts after a       *)
(* refused save either.                                                      *)
THEOREM NamesNotReusedHolds ==
    Guarded /\ maxIndexes \in Nat /\ maxModels \in Nat /\ maxStoredOperations \in Nat =>
        (ShimInit /\ [][AIPlatformNext]_shimVars => [][NamesNotReused]_shimVars)
<1> SUFFICES ASSUME Guarded, maxIndexes \in Nat, maxModels \in Nat, maxStoredOperations \in Nat
             PROVE  ShimInit /\ [][AIPlatformNext]_shimVars => [][NamesNotReused]_shimVars
  OBVIOUS
<1>1. AIPlatformSound /\ [AIPlatformNext]_shimVars => AIPlatformSound' /\ [NamesNotReused]_shimVars
  BY AIPlatformKept
<1> QED
  BY <1>1, AIPlatformInit, PTL

-----------------------------------------------------------------------------
(* errorreporting: a group keeps the newest of the events it has counted.    *)
EventsCounted(doc) ==
    \A g \in Of("group", doc) :
        /\ doc[g].count \in Nat /\ doc[g].retained \in Seq(Bodies) /\ Len(doc[g].retained) <= doc[g].count
ErrorReportingSound ==
    Shape /\ Covered /\ Committing /\ EventsCounted(disk) /\ (degraded = "no" => EventsCounted(mem))

LEMMA LastEvents ==
    ASSUME NEW s \in Seq(Bodies), NEW b \in Bodies, NEW n \in Nat
    PROVE  /\ Last(Append(s, b), n) \in Seq(Bodies)
           /\ Len(Last(Append(s, b), n)) <= Len(s) + 1
<1>1. PICK t : t = Append(s, b)
  OBVIOUS
<1>2. t \in Seq(Bodies) /\ Len(t) = Len(s) + 1 /\ Len(s) \in Nat
  BY <1>1, AppendProperties, LenProperties
<1>3. PICK k : k = IF Len(t) < n THEN Len(t) ELSE n
  OBVIOUS
<1>4. k \in Nat /\ k <= Len(t) /\ Len(t) + 1 - k \in Int /\ Len(t) + 1 - k >= 1
  BY <1>2, <1>3
<1>5. \A i \in Len(t) + 1 - k .. Len(t) : t[i] \in Bodies
  BY <1>2, <1>4, ElementOfSeq
<1>6. /\ SubSeq(t, Len(t) + 1 - k, Len(t)) \in Seq(Bodies)
      /\ Len(SubSeq(t, Len(t) + 1 - k, Len(t))) =
            IF Len(t) + 1 - k <= Len(t) THEN Len(t) - (Len(t) + 1 - k) + 1 ELSE 0
  <2>1. Len(t) \in Int
    BY <1>2
  <2> QED
    BY <1>4, <1>5, <2>1, SubSeqProperties
<1>7. Last(t, n) = SubSeq(t, Len(t) + 1 - k, Len(t))
  BY <1>3 DEF Last
<1>8. Len(Last(t, n)) <= Len(s) + 1
  BY <1>2, <1>4, <1>6, <1>7
<1> QED
  BY <1>1, <1>6, <1>7, <1>8

LEMMA ErrorReportingKept ==
    ASSUME Guarded, MaxRetained \in Nat, ErrorReportingSound, [ErrorReportingNext]_shimVars
    PROVE  ErrorReportingSound'
<1>1. Shape' /\ Covered'
  BY ErrorReportingSteps, DisciplineStep DEF ErrorReportingSound
<1>2. CASE CommitStep
  BY <1>1, <1>2, CommitSteps DEF ErrorReportingSound, Copied
<1>3. ASSUME NEW h \in Handlers, reportEvent(h) PROVE ErrorReportingSound'
  <2>1. PICK g \in Groups, b \in Bodies :
          LET old == Group(mem, g)
          IN  CommitLocked(h, Put(mem, g, [count |-> old.count + 1,
                                           retained |-> Last(Append(old.retained, b), MaxRetained)]), Groups)
    BY <1>3 DEF reportEvent
  <2>2. PICK old, new, doc :
          /\ old = Group(mem, g)
          /\ new = [count |-> old.count + 1, retained |-> Last(Append(old.retained, b), MaxRetained)]
          /\ doc = Put(mem, g, new) /\ CommitLocked(h, doc, Groups)
    BY <2>1
  <2>3. Committing' /\ mem' = doc /\ disk' = disk /\ degraded' = degraded
    BY <2>2, CommitRequests DEF CommitLocked, ErrorReportingSound
  <2>4. ASSUME EventsCounted(mem) PROVE EventsCounted(doc)
    <3>1. g[1] = "group"
      BY DEF Groups
    <3>2. old.count \in Nat /\ old.retained \in Seq(Bodies) /\ Len(old.retained) <= old.count
      <4>1. CASE g \in DOMAIN mem
        BY <2>2, <2>4, <3>1, <4>1 DEF Group, EventsCounted, Of
      <4>2. CASE g \notin DOMAIN mem
        <5>1. old = [count |-> 0, retained |-> <<>>]
          BY <2>2, <4>2 DEF Group
        <5>2. <<>> \in Seq(Bodies) /\ Len(<<>>) = 0
          BY EmptySeq
        <5> QED
          BY <5>1, <5>2
      <4> QED
        BY <4>1, <4>2
    <3>3. /\ new.count = old.count + 1 /\ new.retained \in Seq(Bodies)
          /\ Len(new.retained) <= Len(old.retained) + 1
      BY <2>2, <3>2, LastEvents
    <3>4. new.count \in Nat /\ Len(new.retained) <= new.count
      <4>1. Len(old.retained) \in Nat /\ Len(new.retained) \in Nat
        BY <3>2, <3>3, LenProperties
      <4> QED
        BY <3>2, <3>3, <4>1
    <3>5. /\ Of("group", doc) \subseteq Of("group", mem) \union {g} /\ doc[g] = new
          /\ \A m \in Of("group", doc) : m # g => doc[m] = mem[m]
      BY <2>2 DEF Put, Of
    <3> QED
      BY <2>4, <3>3, <3>4, <3>5 DEF EventsCounted
  <2> QED
    BY <1>1, <2>3, <2>4 DEF ErrorReportingSound
<1> QED
  BY <1>2, <1>3 DEF ErrorReportingNext, errorreporting_persistState, errorreporting_loadState, CommitStep

(* errorreporting, validateErrorReportingMetadata: a saved group has counted *)
(* at least the events it keeps, so that an import accepts it.               *)
THEOREM ErrorReportingImportable ==
    Guarded /\ MaxRetained \in Nat =>
        (ShimInit /\ [][ErrorReportingNext]_shimVars => []validateErrorReportingMetadata(disk))
<1> SUFFICES ASSUME Guarded, MaxRetained \in Nat
             PROVE  ShimInit /\ [][ErrorReportingNext]_shimVars => []validateErrorReportingMetadata(disk)
  OBVIOUS
<1>1. ShimInit => ErrorReportingSound
  BY DisciplineInit, CommitInit DEF ShimInit, ErrorReportingSound, EventsCounted, Of, Nothing
<1>2. ErrorReportingSound /\ [ErrorReportingNext]_shimVars => ErrorReportingSound'
  BY ErrorReportingKept
<1>3. ErrorReportingSound => validateErrorReportingMetadata(disk)
  <2>1. \A s \in Seq(Bodies) : Len(s) \in Nat
    BY LenProperties
  <2> QED
    BY <2>1 DEF ErrorReportingSound, EventsCounted, validateErrorReportingMetadata
<1> QED
  BY <1>1, <1>2, <1>3, PTL
=============================================================================
