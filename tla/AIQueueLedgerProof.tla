-------------------------- MODULE AIQueueLedgerProof --------------------------
(***************************************************************************)
(* The AI queue implements the ledger of jobs: a proof that every initial   *)
(* state of the queue is one of the ledger and every step of the queue is a *)
(* step of the ledger or changes nothing in it.                             *)
(***************************************************************************)
EXTENDS AIQueueProof, AIQueueLedger

\* The bounds on crashes and failing calls are kept, so the attempts of a row,
\* and with them the names of answers, stay in a finite set.
WithinBounds == crashes <= MaxCrashes /\ faults <= MaxFaults

LEMMA InitWithinBounds == Init => WithinBounds
  BY BoundAssumption DEF Init, WithinBounds

LEMMA StepWithinBounds == TypeOK /\ WithinBounds /\ [Next]_vars => WithinBounds'
  <1> SUFFICES ASSUME TypeOK, WithinBounds, [Next]_vars
               PROVE  WithinBounds'
    OBVIOUS
  <1> QED
    BY BudgetMoves, BoundAssumption DEF TypeOK, WithinBounds

\* Nothing the ledger sees changes.
LEMMA Stutter ==
  ASSUME UNCHANGED <<aiJobs, responses>>
  PROVE  UNCHANGED <<LedgerJobs, LedgerAnswers>>
  BY DEF LedgerJobs, LedgerAnswers

\* A new row is new work.
LEMMA EnqueueSaveAccepts ==
  ASSUME IInv, NEW c \in Client, NEW j \in JobId, EnqueueSave(c, j)
  PROVE  Ledger!Accept(j, Binding(creq[c]))
  <1>1. /\ j \notin DOMAIN aiJobs
        /\ aiJobs' = Upsert(aiJobs, j, NewRow(creq[c]))
        /\ responses' = responses
        /\ ReusableJobs(creq[c]) = {}
    BY DEF EnqueueSave, SetJob, IInv, EnqueueInv
  <1>2. j \notin DOMAIN LedgerJobs
    BY <1>1 DEF LedgerJobs
  <1>3. \A i \in DOMAIN aiJobs :
          Binding(aiJobs[i]) = Binding(creq[c]) => aiJobs[i].status = "failed"
    BY <1>1 DEF ReusableJobs, Reusable, IInv, TypeOK, AIJob, Status
  <1>4. Ledger!Live(Binding(creq[c])) = {}
    BY <1>3 DEF Ledger!Live, LedgerJobs, Phase
  <1>5. LedgerJobs' = Upsert(LedgerJobs, j,
           [work |-> Binding(creq[c]), phase |-> "waiting", answer |-> None])
    <2>1. /\ DOMAIN LedgerJobs' = DOMAIN LedgerJobs \cup {j}
          /\ \A i \in DOMAIN LedgerJobs : i # j => LedgerJobs'[i] = LedgerJobs[i]
      BY <1>1 DEF LedgerJobs, Upsert
    <2>2. LedgerJobs'[j] =
            [work |-> Binding(creq[c]), phase |-> "waiting", answer |-> None]
      BY <1>1 DEF LedgerJobs, Upsert, NewRow, Phase, Binding
    <2>3. QED
      BY <1>2, <2>1, <2>2 DEF Upsert, LedgerJobs
  <1>6. LedgerAnswers' = LedgerAnswers
    BY <1>1 DEF LedgerAnswers
  <1>7. QED
    BY <1>2, <1>4, <1>5, <1>6 DEF Ledger!Accept, Ledger!Upsert, Upsert

\* One row is rewritten and keeps its binding.
LEMMA RowRewritten ==
  ASSUME NEW j \in DOMAIN aiJobs, NEW row,
         Binding(row) = Binding(aiJobs[j]),
         aiJobs' = Upsert(aiJobs, j, row)
  PROVE  /\ j \in DOMAIN LedgerJobs
         /\ LedgerJobs' = [LedgerJobs EXCEPT
              ![j].phase = Phase(row.status), ![j].answer = row.response]
  <1>1. /\ DOMAIN LedgerJobs' = DOMAIN LedgerJobs
        /\ \A i \in DOMAIN LedgerJobs : i # j => LedgerJobs'[i] = LedgerJobs[i]
    BY DEF LedgerJobs, Upsert
  <1>2. LedgerJobs'[j] = [work |-> Binding(aiJobs[j]), phase |-> Phase(row.status),
                          answer |-> row.response]
    BY DEF LedgerJobs, Upsert
  <1>3. LedgerJobs[j] = [work |-> Binding(aiJobs[j]),
                         phase |-> Phase(aiJobs[j].status),
                         answer |-> aiJobs[j].response]
    BY DEF LedgerJobs
  <1>4. QED
    BY <1>1, <1>2, <1>3 DEF LedgerJobs

\* ... and keeps its answer as well.
LEMMA PhaseRewritten ==
  ASSUME NEW j \in DOMAIN aiJobs, NEW row,
         Binding(row) = Binding(aiJobs[j]),
         row.response = aiJobs[j].response,
         aiJobs' = Upsert(aiJobs, j, row)
  PROVE  LedgerJobs' = [LedgerJobs EXCEPT ![j].phase = Phase(row.status)]
  <1>1. /\ DOMAIN LedgerJobs' = DOMAIN LedgerJobs
        /\ \A i \in DOMAIN LedgerJobs : i # j => LedgerJobs'[i] = LedgerJobs[i]
    BY DEF LedgerJobs, Upsert
  <1>2. LedgerJobs'[j] = [work |-> Binding(aiJobs[j]), phase |-> Phase(row.status),
                          answer |-> aiJobs[j].response]
    BY DEF LedgerJobs, Upsert
  <1>3. LedgerJobs[j] = [work |-> Binding(aiJobs[j]),
                         phase |-> Phase(aiJobs[j].status),
                         answer |-> aiJobs[j].response]
    BY DEF LedgerJobs
  <1>4. QED
    BY <1>1, <1>2, <1>3 DEF LedgerJobs

LEMMA ClaimBegins ==
  ASSUME IInv, NEW w \in Worker, NEW j \in JobId, Claim(w, j)
  PROVE  Ledger!Begin(j)
  <1>1. /\ j \in DOMAIN aiJobs
        /\ aiJobs[j].status \in {"queued", "retry_wait"}
        /\ aiJobs' = Upsert(aiJobs, j, ClaimedRow(aiJobs[j]))
        /\ responses' = responses
        /\ aiJobs[j] \in AIJob
    BY ClaimEffect DEF IInv, TypeOK
  <1>2. LedgerJobs' = [LedgerJobs EXCEPT ![j].phase = "running"]
    BY <1>1, ClaimedRowFields, PhaseRewritten DEF Phase
  <1>3. j \in DOMAIN LedgerJobs /\ LedgerJobs[j].phase = "waiting"
    BY <1>1 DEF LedgerJobs, Phase
  <1>4. QED
    BY <1>1, <1>2, <1>3 DEF Ledger!Begin, LedgerAnswers

\* The row a worker holds is a running job of the ledger.
LEMMA HeldRuns ==
  ASSUME IInv, NEW w \in Worker, pc[w] \in Working
  PROVE  /\ held[w] \in JobId
         /\ held[w] \in DOMAIN aiJobs
         /\ aiJobs[held[w]] \in AIJob
         /\ aiJobs[held[w]].status = "running"
         /\ held[w] \in DOMAIN LedgerJobs
         /\ LedgerJobs[held[w]].phase = "running"
         /\ LedgerJobs[held[w]].work = Binding(aiJobs[held[w]])
  BY DEF IInv, TypeOK, OwnershipInv, ExclusiveExecution, LedgerJobs, Phase

\* The answers a claim can give have names the ledger knows.
LEMMA AnswerIdKnown ==
  ASSUME IInv, WithinBounds, NEW w \in Worker, pc[w] \in Working
  PROVE  <<held[w], tries[w]>>
           \in JobId \X (1 .. MaxAttempts + MaxCrashes + MaxFaults)
  <1>1. /\ tries[w] \in Nat /\ tries[w] >= 1
        /\ tries[w] <= MaxAttempts + crashes + faults
    BY DEF IInv, TypeOK, OwnershipInv, ExclusiveExecution, BudgetInv,
           AttemptsWithinBudget
  <1>2. tries[w] <= MaxAttempts + MaxCrashes + MaxFaults
    BY <1>1, PoolAssumption, BoundAssumption DEF WithinBounds, IInv, TypeOK
  <1>3. QED
    BY <1>1, <1>2, HeldRuns, PoolAssumption, BoundAssumption

LEMMA SaveResponseAnswers ==
  ASSUME IInv, NEW w \in Worker, SaveResponse(w)
  PROVE  Ledger!Answer(held[w], <<held[w], tries[w]>>)
  <1> DEFINE resp == [id |-> <<held[w], tries[w]>>, doc |-> packet[w][1],
                      rev |-> packet[w][2], recipe |-> aiJobs[held[w]].recipe]
  <1>1. /\ pc[w] = "save"
        /\ aiJobs' = aiJobs
        /\ responses' = responses \cup {resp}
    BY DEF SaveResponse
  <1>2. packet[w] = <<aiJobs[held[w]].doc, aiJobs[held[w]].rev>>
    BY <1>1 DEF IInv, AnswerInv
  <1>3. Binding(resp) = Binding(aiJobs[held[w]])
    BY <1>2 DEF Binding
  <1>4. LedgerAnswers' =
          LedgerAnswers \cup {<<<<held[w], tries[w]>>, Binding(aiJobs[held[w]])>>}
    BY <1>1, <1>3 DEF LedgerAnswers
  <1>5. LedgerJobs' = LedgerJobs
    BY <1>1 DEF LedgerJobs
  <1>6. QED
    BY <1>1, <1>4, <1>5, HeldRuns DEF Ledger!Answer, Working

LEMMA FinishCompletes ==
  ASSUME IInv, NEW w \in Worker, Finish(w)
  PROVE  Ledger!Complete(held[w], <<held[w], tries[w]>>)
  <1> DEFINE id == <<held[w], tries[w]>>
             row == DoneRow(aiJobs[held[w]], id)
  <1>1. /\ pc[w] = "finish" /\ pc[w] \in Working
        /\ aiJobs' = Upsert(aiJobs, held[w], row)
        /\ responses' = responses
    BY DEF Finish, SetJob, Working
  <1>2. /\ Binding(row) = Binding(aiJobs[held[w]])
        /\ row.status = "done"
        /\ row.response = id
    BY <1>1, HeldRuns DEF DoneRow, Binding, AIJob
  <1>3. LedgerJobs' = [LedgerJobs EXCEPT
          ![held[w]].phase = "done", ![held[w]].answer = id]
    BY <1>1, <1>2, HeldRuns, RowRewritten DEF Phase
  <1>4. <<id, Binding(aiJobs[held[w]])>> \in LedgerAnswers
    BY <1>1 DEF IInv, AnswerInv, LedgerAnswers
  <1>5. LedgerAnswers' = LedgerAnswers
    BY <1>1 DEF LedgerAnswers
  <1>6. QED
    BY <1>1, <1>3, <1>4, <1>5, HeldRuns DEF Ledger!Complete

LEMMA FailGivesUp ==
  ASSUME IInv, NEW w \in Worker, Fail(w)
  PROVE  Ledger!GiveUp(held[w])
  <1> DEFINE row == FailRow(aiJobs[held[w]])
  <1>1. /\ pc[w] \in Working
        /\ aiJobs' = Upsert(aiJobs, held[w], row)
        /\ responses' = responses
    BY DEF Fail, SetJob, Working
  <1>2. /\ Binding(row) = Binding(aiJobs[held[w]])
        /\ row.status = "failed"
        /\ row.response = aiJobs[held[w]].response
    BY <1>1, HeldRuns DEF FailRow, Binding, AIJob
  <1>3. LedgerJobs' = [LedgerJobs EXCEPT ![held[w]].phase = "failed"]
    BY <1>1, <1>2, HeldRuns, PhaseRewritten DEF Phase
  <1>4. QED
    BY <1>1, <1>3, HeldRuns DEF Ledger!GiveUp, LedgerAnswers

LEMMA RetryGivesBack ==
  ASSUME IInv, NEW w \in Worker, Retry(w)
  PROVE  Ledger!GiveBack({held[w]})
  <1> DEFINE row == RetryRow(aiJobs[held[w]], tries[w])
             j == held[w]
  <1>1. /\ pc[w] \in Working
        /\ aiJobs' = Upsert(aiJobs, j, row)
        /\ responses' = responses
    BY DEF Retry, SetJob, Working
  <1>2. /\ Binding(row) = Binding(aiJobs[j])
        /\ row.status = "retry_wait"
        /\ row.response = aiJobs[j].response
    BY <1>1, HeldRuns DEF RetryRow, Binding, AIJob
  <1>3. LedgerJobs' = [LedgerJobs EXCEPT ![j].phase = "waiting"]
    BY <1>1, <1>2, HeldRuns, PhaseRewritten DEF Phase
  <1>4. LedgerJobs' = [i \in DOMAIN LedgerJobs |->
          IF i \in {j} THEN [LedgerJobs[i] EXCEPT !.phase = "waiting"]
                       ELSE LedgerJobs[i]]
    BY <1>1, <1>3, HeldRuns DEF LedgerJobs
  <1>5. QED
    BY <1>1, <1>4, HeldRuns DEF Ledger!GiveBack, LedgerAnswers

\* A new process hands back everything the old one was executing.
LEMMA RestartGivesBack ==
  ASSUME IInv, Restart
  PROVE  \/ \E back \in SUBSET JobId : Ledger!GiveBack(back)
         \/ UNCHANGED <<LedgerJobs, LedgerAnswers>>
  <1> DEFINE back == {j \in DOMAIN aiJobs : aiJobs[j].status = "running"}
  <1>1. /\ aiJobs' = Requeued
        /\ responses' = responses
        /\ DOMAIN aiJobs \subseteq JobId
        /\ \A j \in DOMAIN aiJobs : aiJobs[j] \in AIJob
    BY DEF Restart, Started, IInv, TypeOK
  <1>2. CASE back = {}
    <2>1. aiJobs' = aiJobs
      BY <1>1, <1>2 DEF Requeued, IInv, TypeOK
    <2>2. QED
      BY <1>1, <2>1, Stutter
  <1>3. CASE back # {}
    <2>1. \A j \in back : j \in DOMAIN LedgerJobs /\ LedgerJobs[j].phase = "running"
      BY DEF LedgerJobs, Phase
    <2>2. DOMAIN LedgerJobs' = DOMAIN LedgerJobs /\ DOMAIN LedgerJobs = DOMAIN aiJobs
      BY <1>1 DEF LedgerJobs, Requeued
    <2>3. ASSUME NEW j \in DOMAIN aiJobs
          PROVE  LedgerJobs'[j] =
                   IF j \in back THEN [LedgerJobs[j] EXCEPT !.phase = "waiting"]
                                 ELSE LedgerJobs[j]
      <3>1. CASE j \in back
        <4>1. /\ aiJobs'[j].status = "queued"
              /\ Binding(aiJobs'[j]) = Binding(aiJobs[j])
              /\ aiJobs'[j].response = aiJobs[j].response
              /\ j \in DOMAIN aiJobs'
          BY <1>1, <3>1 DEF Requeued, Binding, AIJob
        <4>2. LedgerJobs'[j] = [work |-> Binding(aiJobs[j]), phase |-> "waiting",
                                answer |-> aiJobs[j].response]
          BY <4>1 DEF LedgerJobs, Phase
        <4>3. LedgerJobs[j] = [work |-> Binding(aiJobs[j]), phase |-> "running",
                               answer |-> aiJobs[j].response]
          BY <3>1 DEF LedgerJobs, Phase
        <4>4. QED
          BY <3>1, <4>2, <4>3
      <3>2. CASE j \notin back
        <4>1. j \in DOMAIN aiJobs' /\ aiJobs'[j] = aiJobs[j]
          BY <1>1, <3>2 DEF Requeued
        <4>2. QED
          BY <3>2, <4>1 DEF LedgerJobs
      <3>3. QED
        BY <3>1, <3>2
    <2>4. LedgerJobs' = [j \in DOMAIN LedgerJobs |->
            IF j \in back THEN [LedgerJobs[j] EXCEPT !.phase = "waiting"]
                          ELSE LedgerJobs[j]]
      BY <2>2, <2>3 DEF LedgerJobs
    <2>5. LedgerAnswers' = LedgerAnswers
      BY <1>1 DEF LedgerAnswers
    <2>6. Ledger!GiveBack(back)
      BY <1>3, <2>1, <2>4, <2>5 DEF Ledger!GiveBack
    <2>7. back \in SUBSET JobId
      BY <1>1
    <2>8. QED
      BY <2>6, <2>7
  <1>4. QED
    BY <1>2, <1>3

-------------------------------------------------------------------------------

LEMMA InitRefines == Init => Ledger!Init
  BY DEF Init, Ledger!Init, LedgerJobs, LedgerAnswers, NoRows, Ledger!NoRows

LEMMA StepRefines ==
  IInv /\ WithinBounds /\ [Next]_vars => [Ledger!Next]_(Ledger!vars)
  <1> SUFFICES ASSUME IInv, WithinBounds, [Next]_vars
               PROVE  Ledger!Next \/ UNCHANGED <<LedgerJobs, LedgerAnswers>>
    BY DEF Ledger!vars
  <1>1. CASE UNCHANGED <<aiJobs, responses>>
    BY <1>1, Stutter
  <1>2. ASSUME NEW c \in Client, NEW j \in JobId, EnqueueSave(c, j)
        PROVE  Ledger!Next
    <2>1. Binding(creq[c]) \in Doc \X Rev \X Recipe
      BY <1>2 DEF EnqueueSave, IInv, EnqueueInv, Request, Binding
    <2>2. QED
      BY <1>2, <2>1, EnqueueSaveAccepts DEF Ledger!Next
  <1>3. ASSUME NEW w \in Worker, NEW j \in JobId, Claim(w, j)
        PROVE  Ledger!Next
    BY <1>3, ClaimBegins DEF Ledger!Next
  <1>4. ASSUME NEW w \in Worker, Proceed(w)
        PROVE  Ledger!Next \/ UNCHANGED <<LedgerJobs, LedgerAnswers>>
    <2>1. CASE SaveResponse(w)
      <3>1. pc[w] \in Working
        BY <2>1 DEF SaveResponse, Working
      <3>2. QED
        BY <2>1, <3>1, SaveResponseAnswers, AnswerIdKnown, HeldRuns DEF Ledger!Next
    <2>2. CASE ~SaveResponse(w)
      <3>1. UNCHANGED <<aiJobs, responses>>
        BY <1>4, <2>2 DEF Proceed, LoadPacket, LoadError, CallModel,
                          SaveResponseFault, tables
      <3>2. QED
        BY <3>1, Stutter
    <2>3. QED
      BY <2>1, <2>2
  <1>5. ASSUME NEW w \in Worker, Settle(w)
        PROVE  Ledger!Next
    <2>1. pc[w] \in Working
      BY <1>5 DEF Settle, Finish, Retry, Fail, Working
    <2>2. CASE Finish(w)
      BY <2>1, <2>2, FinishCompletes, AnswerIdKnown, HeldRuns DEF Ledger!Next
    <2>3. CASE Retry(w)
      BY <2>1, <2>3, RetryGivesBack, HeldRuns DEF Ledger!Next
    <2>4. CASE Fail(w)
      BY <2>1, <2>4, FailGivesUp, HeldRuns DEF Ledger!Next
    <2>5. QED
      BY <1>5, <2>2, <2>3, <2>4 DEF Settle
  <1>6. CASE OtherStep
    BY <1>6, OtherUnchanged, Stutter
  <1>7. ASSUME NEW w \in Worker, Idle(w) \/ Drop(w)
        PROVE  UNCHANGED <<aiJobs, responses>>
    BY <1>7 DEF Idle, NoClaim, Sleep, WakeUp, TickerFires, StopWorker, Drop, FinishFault,
                SettleFault, tables
  <1>8. CASE CloseReturns \/ Crash \/ RestartFault
    BY <1>8, Stutter DEF CloseReturns, Crash, RestartFault, Started, tables
  <1>9. CASE Restart
    BY <1>9, RestartGivesBack DEF Ledger!Next
  <1>10. QED
    BY <1>1, <1>2, <1>3, <1>4, <1>5, <1>6, <1>7, <1>8, <1>9, Cases

\* The queue implements the ledger: whatever workers, handlers, crashes and
\* failing calls do, callers see jobs accepted once per piece of work, executed
\* one execution at a time and done only with an answer to their own work.
THEOREM Implements == Spec => LedgerSpec
  <1>1. Spec => []WithinBounds
    <2>1. TypeOK /\ WithinBounds /\ [Next]_vars => WithinBounds'
      BY StepWithinBounds
    <2>2. QED
      BY <2>1, InitWithinBounds, TypeCorrect, PTL DEF Spec
  <1>2. QED
    BY <1>1, InitRefines, StepRefines, Inductive, PTL
       DEF Spec, LedgerSpec, Ledger!Spec

===============================================================================
