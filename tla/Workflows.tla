----------------------------- MODULE Workflows ------------------------------
(* pkg/shims/workflows: workflows, their executions, and the admissions of   *)
(* the executions that Eventarc asks for, which make a delivery repeatable.  *)
(* The end of the operation, which nobody waits for, is left out.            *)
(* eventExecutionMu (call.on) is held by such an execution until it has      *)
(* ended, and by a deletion.  backend records which executions have run      *)
(* their steps: what those call cannot be taken back.                        *)
EXTENDS PlannedState

CONSTANT MaxRevision    \* bound: the revisions handed out

Workflow(i) == <<"workflow", None, i>>
Workflows == {Workflow(i) : i \in Ids}
Execution(w, d) == <<"execution", w, d>>
Executions(w, doc) == {n \in Under(w, doc) : n[1] = "execution"}
eventAdmission(w, d) == <<"admission", w, d>>
revCounter == <<"next", None, "revision">>
Ran(w, d, wf) == <<"ran", w, d, wf.made>>

eventExecutionMu == <<"eventExecutionMu">>
EventExecutionMuFree == \A g \in Handlers : call[g].on # eventExecutionMu
On(h) == Head(call[h].todo)[3]
Id(h) == Head(call[h].todo)[4]
Wf(h) == Head(call[h].todo)[5]    \* the copy of the workflow it works with
Step(s, w, d, x) == <<s, Keep, w, d, x>>

(* A failed save is followed by a second one, of the maps as they were; the  *)
(* readback after that one meets the guard's sticky error.                   *)
compensateState == <<Undo, Save(Keep)>>

-----------------------------------------------------------------------------
(* Workflows.  made is the revision a workflow was created with.             *)
nextRevisionID == IF revCounter \in Live THEN mem[revCounter] + 1 ELSE 1
Revised(n, made) ==
    Put(Put(mem, n, [made |-> made, revision |-> nextRevisionID]), revCounter, nextRevisionID)
createWorkflow(h) ==
    \E n \in Workflows \ Live :
        /\ nextRevisionID <= MaxRevision
        /\ Handle(h, Revised(n, nextRevisionID), {n}, <<Register(Revert), Save(compensateState)>>)
(* A refused registration leaves the counter as it is.                       *)
patchWorkflow(h) ==
    \E n \in Workflows \cap Live :
        /\ nextRevisionID <= MaxRevision
        /\ Handle(h, Revised(n, mem[n].made), {n, revCounter},
                  <<Register(<<Step("putback", n, None, mem[n])>>), Save(compensateState)>>)
putBack(h) ==
    /\ At(h, "putback")
    /\ mem' = Put(mem, On(h), Wf(h))
    /\ unsaved' = IF degraded = "no" THEN unsaved \union {On(h)} ELSE unsaved
    /\ Proceed(h)
    /\ UNCHANGED <<disk, degraded, backend>>
deleteWorkflow(h) ==
    \E n \in Workflows \cap Live :
        LET S == {n} \union Under(n, mem)
        IN  /\ MayStart(h) /\ EventExecutionMuFree
            /\ Change(h, Drop(mem, S), S, eventExecutionMu,
                      <<Register(Revert), Save(compensateState)>>)

-----------------------------------------------------------------------------
(* Executions.                                                               *)
Active(n) == n \in Live /\ mem[n].state = "ACTIVE"
Admitted(w, d) == Value(mem, eventAdmission(w, d)) = "ADMITTED"
Begun(wf) == [state |-> "ACTIVE", revision |-> wf.revision]

(* The workflow is looked up before the execution is entered, and not again. *)
createExecution(h) == \E n \in Workflows \cap Live : Look(h, None, <<Step("enter", n, None, mem[n])>>)
enterExecution(h) ==
    \E x \in SubIds :
        LET n == Execution(On(h), x)
        IN  /\ At(h, "enter")
            /\ n \notin Live \union DOMAIN disk \union unsaved
            /\ \A g \in Handlers \ {h} : n \notin Touches(g) /\ \A i \in DOMAIN call[g].todo : Len(call[g].todo[i]) > 3 => call[g].todo[i][4] # x
            /\ mem' = Put(mem, n, Begun(Wf(h)))
            /\ call' = [call EXCEPT ![h].undo = [m \in {n} |-> None],
                                    ![h].todo = <<Save(compensateState), Step("outcome", On(h), x, FALSE)>>]
            /\ UNCHANGED <<disk, degraded, unsaved, backend>>

(* The snapshot with the execution cancelled is saved before the execution   *)
(* is, and an execution that ended meanwhile is saved again as it is.        *)
cancelExecution(h) ==
    \E n \in {m \in UNION {Executions(w, mem) : w \in Workflows} : Active(m)} :
        LET admission == eventAdmission(n[2], n[3])
            next == Put(Drop(mem, {admission}), n, [mem[n] EXCEPT !.state = "CANCELLED"])
        IN  /\ MayStart(h) /\ PersistMuFree
            /\ call' = [call EXCEPT ![h] = [todo |-> <<<<"copy", Keep, next>>, <<"cancelled", Keep, n>>>>,
                                            undo |-> Before({n, admission} \cap Live), on |-> persistMu]]
            /\ UNCHANGED <<mem, disk, degraded, unsaved, backend>>
publishCancelled(h) ==
    LET n == On(h)
    IN  /\ At(h, "cancelled")
        /\ \/ Active(n) /\ mem' = Put(Drop(mem, {eventAdmission(n[2], n[3])}), n, [mem[n] EXCEPT !.state = "CANCELLED"])
              /\ Proceed(h)
           \/ ~Active(n) /\ UNCHANGED mem /\ Follow(h, <<Save(Keep)>>)
        /\ UNCHANGED <<disk, degraded, unsaved, backend>>

(* An execution that Eventarc asks for: entered and admitted, or found again *)
(* after a restart; marked as running; run; and only then answered.          *)
Answer(w, d, ok) == <<Step("answer", w, d, ok)>>
CreateExecutionFromEvent(h, w, d) ==
    EventExecutionMuFree /\ Look(h, eventExecutionMu, <<Step("admit", w, d, None)>>)
(* The workflow is copied in one section, the execution entered in another.  *)
findExecution(h) ==
    LET w == On(h)
        d == Id(h)
        n == Execution(w, d)
        resumable == Admitted(w, d) /\ mem[n].revision = mem[w].revision
    IN  /\ At(h, "admit")
        /\ Follow(h, IF w \notin Live THEN Answer(w, d, FALSE)
                     ELSE IF n \notin Live THEN <<Step("enterEvent", w, d, mem[w])>>
                     ELSE IF Active(n) /\ resumable THEN <<Step("begin", w, d, mem[w])>>
                     ELSE Answer(w, d, mem[n].state = "SUCCEEDED"))
        /\ UNCHANGED <<mem, disk, degraded, unsaved, backend>>
admitExecution(h) ==
    LET w == On(h)
        d == Id(h)
        S == {Execution(w, d), eventAdmission(w, d)}
    IN  /\ At(h, "enterEvent")
        /\ mem' = Put(Put(mem, Execution(w, d), Begun(Wf(h))), eventAdmission(w, d), "ADMITTED")
        /\ call' = [call EXCEPT ![h].undo = [m \in S |-> None],
                                ![h].todo = <<Save(<<Undo, Save(Answer(w, d, FALSE))>> \o Answer(w, d, FALSE)),
                                              Step("begin", w, d, Wf(h))>>]
        /\ UNCHANGED <<disk, degraded, unsaved, backend>>
(* In the fault the execution is not marked before it runs.                  *)
beginUnmarked(h) ==
    /\ At(h, "begin")
    /\ Follow(h, <<Step("run", On(h), Id(h), Wf(h)), Step("outcome", On(h), Id(h), TRUE)>>)
    /\ UNCHANGED <<mem, disk, degraded, unsaved, backend>>
beginExecution(h) ==
    LET w == On(h)
        d == Id(h)
        admission == eventAdmission(w, d)
    IN  /\ At(h, "begin")
        /\ \/ ~Admitted(w, d) /\ Follow(h, Answer(w, d, FALSE)) /\ UNCHANGED mem
           \/ Admitted(w, d) /\ Record(h, Put(mem, admission, "RUNNING"), {admission},
                                       <<Save(<<Save(Answer(w, d, FALSE))>> \o Answer(w, d, FALSE)),
                                         Step("run", w, d, Wf(h)), Step("outcome", w, d, TRUE)>>)
        /\ UNCHANGED <<disk, degraded, unsaved, backend>>
runWorkflow(h) ==
    /\ At(h, "run")
    /\ backend' = backend \union {Ran(On(h), Id(h), Wf(h))}
    /\ Proceed(h)
    /\ UNCHANGED <<mem, disk, degraded, unsaved>>
(* The outcome is kept only while the execution is still ACTIVE.             *)
executeWorkflow(h) ==
    LET w == On(h)
        d == Id(h)
        n == Execution(w, d)
        S == {n, eventAdmission(w, d)}
        answer(ok) == IF Head(call[h].todo)[5] THEN Answer(w, d, ok) ELSE <<>>
        rest(ok) == <<Save(answer(FALSE))>> \o answer(ok)
        unadmitted == Drop(mem, {eventAdmission(w, d)})
    IN  /\ At(h, "outcome")
        /\ \/ /\ Active(n)
              /\ \E result \in {"SUCCEEDED", "FAILED"} :
                    Record(h, Put(unadmitted, n, [mem[n] EXCEPT !.state = result]), S, rest(result = "SUCCEEDED"))
           \/ ~Active(n) /\ Record(h, unadmitted, S, rest(FALSE))
        /\ UNCHANGED <<disk, degraded, unsaved, backend>>
answerEvent(h) == At(h, "answer") /\ Proceed(h) /\ UNCHANGED <<mem, disk, degraded, unsaved, backend>>

-----------------------------------------------------------------------------
(* What an import must satisfy.  A start does not ask for it.                *)
validateWorkflowsMetadata(doc) ==
    /\ \A n \in DOMAIN doc : n[1] = "execution" => n[2] \in DOMAIN doc
    /\ \A n \in DOMAIN doc : n[1] = "workflow" => revCounter \in DOMAIN doc /\ doc[n].revision <= doc[revCounter]
    /\ \A n \in DOMAIN doc : n[1] = "admission" =>
          Execution(n[2], n[3]) \in DOMAIN doc /\ doc[Execution(n[2], n[3])].state = "ACTIVE"
(* An execution that had not ended fails, unless it was only admitted, and   *)
(* by the present revision.                                                  *)
Interrupted(doc) ==
    {n \in DOMAIN doc : /\ n[1] = "execution" /\ doc[n].state = "ACTIVE"
                        /\ ~(/\ Value(doc, eventAdmission(n[2], n[3])) = "ADMITTED"
                             /\ n[2] \in DOMAIN doc /\ doc[n[2]].revision = doc[n].revision)}
loadState ==
    LET S == Interrupted(disk)
        kept == Drop(disk, {eventAdmission(n[2], n[3]) : n \in S})
        next == [n \in DOMAIN kept |-> IF n \in S THEN [kept[n] EXCEPT !.state = "FAILED"] ELSE kept[n]]
    IN  /\ call' = [h \in Handlers |-> Idle] /\ unsaved' = {}
        /\ \/ mem' = next /\ disk' = next /\ degraded' = "no"
           \/ S # {} /\ mem' = next /\ \/ disk' = disk /\ degraded' = "clean"
                                       \/ disk' = next /\ degraded' = "torn"
           \/ mem' = Nothing /\ degraded' = "unread" /\ UNCHANGED disk
        /\ UNCHANGED backend

persistState(h) == SaveOk(h) \/ SaveFails(h)

FlowRequest(h) ==
    createWorkflow(h) \/ patchWorkflow(h) \/ deleteWorkflow(h) \/ createExecution(h) \/ cancelExecution(h)
FlowStep(h) ==
    \/ putBack(h) \/ enterExecution(h) \/ publishCancelled(h) \/ saveCopy(h)
    \/ findExecution(h) \/ admitExecution(h) \/ beginExecution(h) \/ runWorkflow(h) \/ executeWorkflow(h)
    \/ persistState(h) \/ Rollback(h) \/ OperationWrite(h)

Next ==
    \/ \E h \in Handlers : FlowRequest(h) \/ FlowStep(h) \/ answerEvent(h)
    \/ \E h \in Handlers, w \in Workflows, d \in Bodies : CreateExecutionFromEvent(h, w, d)
    \/ loadState

(* The steps of a workflow run at most once for a delivery, however often    *)
(* the delivery is repeated, the daemon dies or the workflow is revised,     *)
(* unless the workflow is deleted, and its executions with it.               *)
RunsOnce ==
    \A h \in Handlers : At(h, "run") /\ call'[h].todo = Tail(call[h].todo)
                          => Ran(On(h), Id(h), Wf(h)) \notin backend
(* An execution that has ended, and whose end no handler has still to save,  *)
(* never changes again, a restart included: a cancellation and the outcome   *)
(* do not replace each other.                                                *)
EndedStays ==
    \A n \in UNION {Executions(w, mem) : w \in Workflows} :
       (/\ degraded = "no" /\ Settled(n) /\ n \notin unsaved
        /\ n \in DOMAIN mem' /\ mem[n].state # "ACTIVE") => mem'[n] = mem[n]
=============================================================================
