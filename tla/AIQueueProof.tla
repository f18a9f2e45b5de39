----------------------------- MODULE AIQueueProof -----------------------------
(***************************************************************************)
(* Proofs about the AI queue for every number of documents, revisions,      *)
(* rows, workers, handlers, attempts, crashes and failing store calls.      *)
(***************************************************************************)
EXTENDS AIQueueInvariant, FiniteSetTheorems, TLAPS

-------------------------------------------------------------------------------
(* Tables and times.                                                         *)

\* Writing a well-typed row into a well-typed table gives a well-typed table.
LEMMA UpsertType ==
  ASSUME NEW Key, NEW Row, NEW table,
         DOMAIN table \subseteq Key, table \in [DOMAIN table -> Row],
         NEW key \in Key, NEW row \in Row
  PROVE  /\ DOMAIN Upsert(table, key, row) \subseteq Key
         /\ Upsert(table, key, row) \in [DOMAIN Upsert(table, key, row) -> Row]
  BY DEF Upsert

\* A retry is scheduled after a natural number of ticks.
LEMMA RetryDelayType ==
  ASSUME NEW attempt \in Nat
  PROVE  RetryDelay(attempt) \in Nat
  <1>1. TicksPerSecond \in Nat
    BY TicksPerSecondAssumption
  <1>2. \A i \in 1 .. 6 : BackoffSeconds[i] \in Nat
    BY DEF BackoffSeconds
  <1>3. \A m, n \in Nat : m * n \in Nat
    OBVIOUS
  <1>4. QED
    BY <1>1, <1>2, <1>3 DEF RetryDelay

\* Whatever the text of an instant says inside a second, it never puts a later
\* second first.
LEMMA TextKeepsSeconds ==
  ASSUME NEW t \in Nat, NEW u \in Nat, TextLeq(t, u)
  PROVE  Second(t) <= Second(u)
  <1> DEFINE T == TicksPerSecond
             a == t \div T
             b == u \div T
             f == IF t % T = 0 THEN T ELSE t % T
             g == IF u % T = 0 THEN T ELSE u % T
  <1>1. T \in Nat /\ T >= 1
    BY TicksPerSecondAssumption
  <1>2. a \in Int /\ b \in Int /\ t % T \in 0 .. T - 1 /\ u % T \in 0 .. T - 1
    BY <1>1
  <1>3. f \in Int /\ g \in Int /\ f >= 1 /\ g <= T
    BY <1>1, <1>2
  <1>4. a * (T + 1) + f <= b * (T + 1) + g
    BY DEF TextLeq, TextRank, Second
  <1> HIDE DEF T, a, b, f, g
  <1>5. ASSUME a > b
        PROVE  FALSE
    <2>1. PICK c \in Nat : a = b + 1 + c
      <3>1. a - b - 1 \in Nat /\ a = b + 1 + (a - b - 1)
        BY <1>2, <1>5
      <3>2. QED
        BY <3>1
    <2>2. a * (T + 1) = b * (T + 1) + (T + 1) + c * (T + 1)
      BY <1>1, <1>2, <2>1
    <2>3. c * (T + 1) >= 0 /\ c * (T + 1) \in Int /\ b * (T + 1) \in Int
      BY <1>1, <1>2, <2>1
    <2>4. QED
      BY <1>1, <1>3, <1>4, <2>2, <2>3
  <1>6. a <= b
    BY <1>2, <1>5
  <1>7. QED
    BY <1>6 DEF Second, a, b, T

-------------------------------------------------------------------------------
(* Types.                                                                    *)

LEMMA InitTypeOK == Init => TypeOK
  BY DEF Init, TypeOK, NoRows, WorkerPc, ClientPc, HubState, ErrorCode


\* The row a step writes is a well-typed row.
LEMMA RowType ==
  ASSUME TypeOK, NEW row \in AIJob
  PROVE  /\ ClaimedRow(row) \in AIJob
         /\ FailRow(row) \in AIJob
         /\ \A n \in Nat : RetryRow(row, n) \in AIJob
         /\ \A id \in ResponseId : DoneRow(row, id) \in AIJob
  <1>1. ClaimedRow(row) \in AIJob
    <2>1. row.attempts + 1 \in Nat
      BY DEF AIJob
    <2> DEFINE n == row.attempts + 1
    <2>2. n \in Nat
      BY <2>1
    <2>3. [row EXCEPT !.status = "running", !.attempts = n, !.nextRetryAt = NoTime]
            \in AIJob
      <3> HIDE DEF n
      <3> QED
        BY <2>2 DEF AIJob, Status
    <2>4. QED
      BY <2>3 DEF ClaimedRow
  <1>2. FailRow(row) \in AIJob
    BY DEF AIJob, FailRow, Status
  <1>3. ASSUME NEW n \in Nat
        PROVE  RetryRow(row, n) \in AIJob
    <2>1. now + RetryDelay(n) \in Nat
      BY RetryDelayType DEF TypeOK
    <2>2. QED
      BY <2>1 DEF AIJob, RetryRow, Status
  <1>4. ASSUME NEW id \in ResponseId
        PROVE  DoneRow(row, id) \in AIJob
    BY DEF AIJob, DoneRow, Status
  <1>5. QED
    BY <1>1, <1>2, <1>3, <1>4

LEMMA NewRowType ==
  ASSUME NEW req \in Request
  PROVE  NewRow(req) \in AIJob
  BY DEF Request, NewRow, AIJob, Status, NoTime

LEMMA SetJobType ==
  ASSUME TypeOK, NEW j \in JobId, NEW row \in AIJob, SetJob(j, row)
  PROVE  DOMAIN aiJobs' \subseteq JobId /\ aiJobs' \in [DOMAIN aiJobs' -> AIJob]
  BY UpsertType DEF SetJob, TypeOK

\* The owner of a row knows what a process knows by itself.
LEMMA OwnersArePools == OwnershipInv /\ AnswerInv /\ EnqueueInv => PoolInv
  BY DEF OwnershipInv, ExclusiveExecution, EnqueueInv, PoolInv

\* Whatever copy of a row a worker takes it by.
LEMMA TakeType ==
  ASSUME TypeOK, NEW w \in Worker, NEW j \in DOMAIN aiJobs, NEW n \in Nat,
         Take(w, j, n)
  PROVE  TypeOK'
  <1>1. j \in JobId /\ aiJobs[j] \in AIJob /\ n + 1 \in Nat
    BY DEF TypeOK
  <1>2. ClaimedRow(aiJobs[j]) \in AIJob
    BY <1>1, RowType
  <1>3. /\ DOMAIN aiJobs' \subseteq JobId
        /\ aiJobs' \in [DOMAIN aiJobs' -> AIJob]
    BY <1>1, <1>2, SetJobType DEF Take
  <1>4. /\ pc' \in [Worker -> WorkerPc]
        /\ held' \in [Worker -> JobId \cup {None}]
        /\ tries' \in [Worker -> Nat]
    BY <1>1 DEF Take, TypeOK, WorkerPc, Working
  <1>5. QED
    BY <1>3, <1>4 DEF Take, TypeOK, process, clients, budget, StoreWorks

\* Types survive every step, whoever else writes the rows.
LEMMA TypeStep == TypeOK /\ PoolInv /\ [Next]_vars => TypeOK'
  <1> SUFFICES ASSUME TypeOK, PoolInv, [Next]_vars
               PROVE  TypeOK'
    OBVIOUS
  <1> USE DEF tables, workers, clients, process, budget, StoreWorks, StoreFails
  <1>1. ASSUME NEW d \in Doc, NEW r \in Rev, SavePacket(d, r)
        PROVE  TypeOK'
    BY <1>1, UpsertType DEF SavePacket, TypeOK
  <1>2. ASSUME NEW d \in Doc, NEW r \in Rev, SavePacketFault(d, r)
        PROVE  TypeOK'
    <2>1. /\ DOMAIN packets' \subseteq Rev
          /\ packets' \in [DOMAIN packets' -> Doc]
      BY <1>2, UpsertType DEF SavePacketFault, TypeOK
    <2>2. QED
      BY <1>2, <2>1 DEF SavePacketFault, TypeOK
  <1>3. ASSUME NEW c \in Client, NEW d \in Doc, NEW k \in Recipe, EnqueueRead(c, d, k)
        PROVE  TypeOK'
    BY <1>3 DEF EnqueueRead, TypeOK, ClientPc, Request
  <1>4. ASSUME NEW c \in Client, EnqueueFind(c)
        PROVE  TypeOK'
    <2>1. [creq[c] EXCEPT !.createdAt = now] \in Request
      BY <1>4 DEF EnqueueFind, PoolInv, Request, TypeOK
    <2>2. cpc' \in [Client -> ClientPc] /\ creq' \in [Client -> Request \cup {None}]
      BY <1>4, <2>1 DEF EnqueueFind, TypeOK, ClientPc
    <2>3. QED
      BY <1>4, <2>2 DEF EnqueueFind, TypeOK
  <1>5. ASSUME NEW c \in Client, NEW j \in JobId, EnqueueSave(c, j)
        PROVE  TypeOK'
    <2>1. NewRow(creq[c]) \in AIJob
      BY <1>5, NewRowType DEF EnqueueSave, PoolInv, TypeOK
    <2>2. /\ DOMAIN aiJobs' \subseteq JobId
          /\ aiJobs' \in [DOMAIN aiJobs' -> AIJob]
      BY <1>5, <2>1, SetJobType DEF EnqueueSave
    <2>3. cpc' \in [Client -> ClientPc]
      BY <1>5 DEF EnqueueSave, TypeOK, ClientPc
    <2>4. QED
      BY <1>5, <2>2, <2>3 DEF EnqueueSave, TypeOK
  <1>6. ASSUME NEW c \in Client, EnqueueNotify(c)
        PROVE  TypeOK'
    BY <1>6 DEF EnqueueNotify, TypeOK, ClientPc
  <1>7. ASSUME NEW c \in Client, EnqueueFault(c)
        PROVE  TypeOK'
    BY <1>7 DEF EnqueueFault, TypeOK, ClientPc
  <1>8. ASSUME NEW w \in Worker, NEW j \in JobId, Claim(w, j)
        PROVE  TypeOK'
    <2>1. j \in DOMAIN aiJobs /\ aiJobs[j].attempts \in Nat
      BY <1>8 DEF Claim, FirstEligible, Eligible, TypeOK, AIJob
    <2>2. QED
      BY <1>8, <2>1, TakeType DEF Claim
  <1>9. ASSUME NEW w \in Worker, NoClaim(w)
        PROVE  TypeOK'
    BY <1>9 DEF NoClaim, Sleep, Goto, TypeOK, WorkerPc, Working
  <1>10. ASSUME NEW w \in Worker, LoadPacket(w)
        PROVE  TypeOK'
    <2> DEFINE rev == aiJobs[held[w]].rev
    <2>1. rev \in Rev /\ rev \in DOMAIN packets
      BY <1>10 DEF LoadPacket, RevisionError, PoolInv, TypeOK, Working, AIJob
    <2>2. <<packets[rev], rev>> \in Doc \X Rev
      BY <2>1 DEF TypeOK
    <2>3. packet' \in [Worker -> (Doc \X Rev) \cup {None}]
      BY <1>10, <2>2 DEF LoadPacket, TypeOK
    <2>4. QED
      BY <1>10, <2>3 DEF LoadPacket, TypeOK, WorkerPc, Working
  <1>11. ASSUME NEW w \in Worker, LoadError(w)
        PROVE  TypeOK'
    BY <1>11 DEF LoadError, Give, RevisionError, TypeOK, WorkerPc, Working, ErrorCode
  <1>12. ASSUME NEW w \in Worker, CallModel(w)
        PROVE  TypeOK'
    BY <1>12 DEF CallModel, Give, Goto, TypeOK, WorkerPc, Working, ErrorCode
  <1>13. ASSUME NEW w \in Worker, SaveResponse(w)
         PROVE  TypeOK'
    <2> DEFINE resp == [id |-> <<held[w], tries[w]>>, doc |-> packet[w][1],
                        rev |-> packet[w][2], recipe |-> aiJobs[held[w]].recipe]
    <2>1. held[w] \in DOMAIN aiJobs /\ aiJobs[held[w]] \in AIJob /\ tries[w] \in Nat
      BY <1>13 DEF SaveResponse, PoolInv, TypeOK, Working
    <2>2. packet[w] = <<aiJobs[held[w]].doc, aiJobs[held[w]].rev>>
      BY <1>13 DEF SaveResponse, PoolInv, AnswerInv
    <2>3. resp \in AIResponse
      BY <2>1, <2>2 DEF AIResponse, AIJob, ResponseId, TypeOK
    <2>4. responses' \subseteq AIResponse
      BY <1>13, <2>3 DEF SaveResponse, TypeOK
    <2>5. QED
      BY <1>13, <2>4 DEF SaveResponse, Goto, TypeOK, WorkerPc, Working
  <1>14. ASSUME NEW w \in Worker, SaveResponseFault(w)
         PROVE  TypeOK'
    BY <1>14 DEF SaveResponseFault, Give, TypeOK, WorkerPc, Working, ErrorCode
  <1>15. ASSUME NEW w \in Worker, pc[w] \in Working
         PROVE  /\ held[w] \in DOMAIN aiJobs
                /\ aiJobs[held[w]] \in AIJob
                /\ tries[w] \in Nat
                /\ <<held[w], tries[w]>> \in ResponseId
    BY <1>15 DEF PoolInv, TypeOK, ResponseId
  <1>16. ASSUME NEW w \in Worker, Release(w)
         PROVE  /\ pc' \in [Worker -> WorkerPc]
                /\ held' \in [Worker -> JobId \cup {None}]
                /\ tries' \in [Worker -> Nat]
                /\ packet' \in [Worker -> (Doc \X Rev) \cup {None}]
                /\ problem' \in [Worker -> ErrorCode]
    BY <1>16 DEF Release, AfterJob, TypeOK, WorkerPc, ErrorCode
  <1>17. ASSUME NEW j \in DOMAIN aiJobs, NEW row \in AIJob, SetJob(j, row)
         PROVE  DOMAIN aiJobs' \subseteq JobId /\ aiJobs' \in [DOMAIN aiJobs' -> AIJob]
    BY <1>17, UpsertType DEF SetJob, TypeOK
  <1>18. ASSUME NEW w \in Worker, Finish(w)
         PROVE  TypeOK'
    <2>1. DOMAIN aiJobs' \subseteq JobId /\ aiJobs' \in [DOMAIN aiJobs' -> AIJob]
      BY <1>15, <1>17, <1>18, RowType DEF Finish, Working
    <2>2. QED
      BY <1>16, <1>18, <2>1 DEF Finish, TypeOK
  <1>19. ASSUME NEW w \in Worker, FinishFault(w)
         PROVE  TypeOK'
    BY <1>16, <1>19 DEF FinishFault, TypeOK
  <1>20. ASSUME NEW w \in Worker, Retry(w)
         PROVE  TypeOK'
    <2>1. DOMAIN aiJobs' \subseteq JobId /\ aiJobs' \in [DOMAIN aiJobs' -> AIJob]
      BY <1>15, <1>17, <1>20, RowType DEF Retry, Working
    <2>2. QED
      BY <1>16, <1>20, <2>1 DEF Retry, TypeOK
  <1>21. ASSUME NEW w \in Worker, Fail(w)
         PROVE  TypeOK'
    <2>1. DOMAIN aiJobs' \subseteq JobId /\ aiJobs' \in [DOMAIN aiJobs' -> AIJob]
      BY <1>15, <1>17, <1>21, RowType DEF Fail, Working
    <2>2. QED
      BY <1>16, <1>21, <2>1 DEF Fail, TypeOK
  <1>22. ASSUME NEW w \in Worker, SettleFault(w)
         PROVE  TypeOK'
    BY <1>16, <1>22 DEF SettleFault, TypeOK
  <1>23. ASSUME NEW w \in Worker, WakeUp(w) \/ TickerFires(w) \/ StopWorker(w)
         PROVE  TypeOK'
    BY <1>23 DEF WakeUp, TickerFires, StopWorker, Goto, TypeOK, WorkerPc
  <1>24. ASSUME Tick \/ Close
         PROVE  TypeOK'
    BY <1>24 DEF Tick, Close, TypeOK, HubState
  <1>25. ASSUME CloseReturns \/ Crash
         PROVE  TypeOK'
    <2>1. /\ hub' = "down"
          /\ wake' = FALSE
          /\ pc' = [w \in Worker |-> "dead"]
          /\ held' = [w \in Worker |-> None]
          /\ tries' = [w \in Worker |-> 0]
          /\ packet' = [w \in Worker |-> None]
          /\ problem' = [w \in Worker |-> "ok"]
          /\ cpc' = [c \in Client |-> "idle"]
          /\ creq' = [c \in Client |-> None]
      BY <1>25 DEF CloseReturns, Crash, VolatileLost
    <2>2. crashes' \in Nat /\ faults' \in Nat
      BY <1>25 DEF CloseReturns, Crash, TypeOK
    <2>3. UNCHANGED <<now, tables, configured>>
      BY <1>25 DEF CloseReturns, Crash
    <2>4. QED
      BY <2>1, <2>2, <2>3 DEF TypeOK, HubState, WorkerPc, ClientPc, ErrorCode
  <1>26. ASSUME Restart \/ RestartFault
         PROVE  TypeOK'
    <2>1. \A j \in DOMAIN aiJobs : [aiJobs[j] EXCEPT !.status = "queued"] \in AIJob
      BY DEF TypeOK, AIJob, Status
    <2>2. DOMAIN aiJobs' \subseteq JobId /\ aiJobs' \in [DOMAIN aiJobs' -> AIJob]
      <3>1. DOMAIN Requeued = DOMAIN aiJobs /\ Requeued \in [DOMAIN aiJobs -> AIJob]
        BY <2>1 DEF Requeued, TypeOK
      <3>2. aiJobs' = Requeued \/ aiJobs' = aiJobs
        BY <1>26 DEF Restart, RestartFault
      <3>3. QED
        BY <3>1, <3>2 DEF TypeOK
    <2>3. QED
      <3>1. /\ hub' = "up"
            /\ configured' \in BOOLEAN
            /\ wake' = TRUE
            /\ pc' = [w \in Worker |-> "claim"]
            /\ UNCHANGED <<now, documents, packets, responses, held, tries, packet,
                           problem, clients>>
        BY <1>26 DEF Restart, RestartFault, Started
      <3>2. crashes' \in Nat /\ faults' \in Nat
        BY <1>26 DEF Restart, RestartFault, TypeOK
      <3>3. QED
        BY <2>2, <3>1, <3>2 DEF TypeOK, HubState, WorkerPc
  <1>27. CASE UNCHANGED vars
    BY <1>27 DEF vars, TypeOK
  <1>28. QED
    BY <1>1, <1>2, <1>3, <1>4, <1>5, <1>6, <1>7, <1>8, <1>9, <1>10, <1>11,
       <1>12, <1>13, <1>14, <1>18, <1>19, <1>20, <1>21, <1>22, <1>23, <1>24,
       <1>25, <1>26, <1>27
       DEF Next, CaptureStep, EnqueueCall, EnqueueStep, WorkerStep, WorkerFault

-------------------------------------------------------------------------------
(* Ownership.                                                                *)

\* A step of this kind touches neither the rows nor the workers.
OtherStep ==
  \/ CaptureStep
  \/ \E c \in Client : EnqueueCall(c) \/ EnqueueFind(c) \/ EnqueueNotify(c)
                         \/ EnqueueFault(c)
  \/ Tick \/ Close \/ UNCHANGED vars

\* A worker goes on inside execute without writing its row.
Proceed(w) ==
  LoadPacket(w) \/ LoadError(w) \/ CallModel(w) \/ SaveResponse(w)
    \/ SaveResponseFault(w)

\* A worker moves between its claim loop and its select.
Idle(w) == NoClaim(w) \/ WakeUp(w) \/ TickerFires(w) \/ StopWorker(w)

\* A worker lets go of its row: settled, or left running by a failing call.
Settle(w) == Finish(w) \/ Retry(w) \/ Fail(w)
Drop(w) == FinishFault(w) \/ SettleFault(w)

\* The cases of a step that the proofs below go through.
LEMMA Cases ==
  ASSUME [Next]_vars
  PROVE  \/ OtherStep
         \/ \E c \in Client, j \in JobId : EnqueueSave(c, j)
         \/ \E w \in Worker, j \in JobId : Claim(w, j)
         \/ \E w \in Worker : Proceed(w) \/ Idle(w) \/ Settle(w) \/ Drop(w)
         \/ CloseReturns \/ Crash
         \/ Restart \/ RestartFault
  BY DEF Next, OtherStep, CaptureStep, EnqueueStep, EnqueueCall, WorkerStep,
         WorkerFault, Proceed, Idle, Settle, Drop

LEMMA OtherUnchanged ==
  ASSUME OtherStep
  PROVE  UNCHANGED <<aiJobs, responses, workers>>
  BY DEF OtherStep, CaptureStep, SavePacket, SavePacketFault, EnqueueCall,
         EnqueueRead, EnqueueFind, EnqueueNotify, EnqueueFault, Tick, Close,
         vars, tables, workers, clients, process

\* The worker of a Proceed step stays inside execute and keeps its row.
LEMMA ProceedEffect ==
  ASSUME TypeOK, NEW w \in Worker, Proceed(w)
  PROVE  /\ pc[w] \in Working /\ pc'[w] \in Working
         /\ pc' = [pc EXCEPT ![w] = pc'[w]]
         /\ UNCHANGED <<aiJobs, held, tries, hub, cpc, creq, crashes>>
  BY DEF Proceed, LoadPacket, LoadError, CallModel, SaveResponse,
         SaveResponseFault, Goto, Give, Working, TypeOK, tables, process, clients,
         budget, StoreWorks, StoreFails

LEMMA IdleEffect ==
  ASSUME TypeOK, NEW w \in Worker, Idle(w)
  PROVE  /\ pc[w] \notin Working /\ pc'[w] \notin Working
         /\ pc[w] # "dead"
         /\ pc' = [pc EXCEPT ![w] = pc'[w]]
         /\ UNCHANGED <<tables, held, tries, packet, hub, clients, crashes>>
  BY DEF Idle, NoClaim, Sleep, WakeUp, TickerFires, StopWorker, Goto, Working, TypeOK,
         tables, process, clients, budget, StoreWorks, StoreFails

\* A worker that lets go of its row is back in its claim loop, without a row.
LEMMA ReleaseEffect ==
  ASSUME TypeOK, NEW w \in Worker, Settle(w) \/ Drop(w)
  PROVE  /\ pc[w] \in {"finish", "settle"}
         /\ pc' = [pc EXCEPT ![w] = "claim"]
         /\ held' = [held EXCEPT ![w] = None]
         /\ tries' = [tries EXCEPT ![w] = 0]
         /\ packet' = [packet EXCEPT ![w] = None]
         /\ UNCHANGED <<responses, hub, cpc, creq, crashes>>
  BY DEF Settle, Drop, Finish, Retry, Fail, FinishFault, SettleFault, Release,
         AfterJob, TypeOK, tables, process, clients, budget, StoreWorks, StoreFails

\* A step counts at most one crash or one failing call, while the bound lets it.
LEMMA BudgetMoves ==
  ASSUME [Next]_vars
  PROVE  \/ UNCHANGED <<crashes, faults>>
         \/ crashes < MaxCrashes /\ crashes' = crashes + 1 /\ faults' = faults
         \/ faults < MaxFaults /\ crashes' = crashes /\ faults' = faults + 1
  <1> DEFINE Moves ==
        \/ UNCHANGED <<crashes, faults>>
        \/ crashes < MaxCrashes /\ crashes' = crashes + 1 /\ faults' = faults
        \/ faults < MaxFaults /\ crashes' = crashes /\ faults' = faults + 1
  <1>1. StoreWorks \/ StoreFails \/ UNCHANGED budget => Moves
    BY DEF StoreWorks, StoreFails, budget
  <1>2. UNCHANGED vars => Moves
    BY DEF vars, budget
  <1>3. Tick \/ Close \/ CloseReturns \/ Crash \/ Restart \/ RestartFault => Moves
    BY <1>1 DEF Tick, Close, CloseReturns, Crash, Restart, RestartFault, budget
  <1> HIDE DEF Moves
  <1>4. ASSUME OtherStep
        PROVE  Moves
    BY <1>1, <1>2, <1>3, <1>4
    DEF OtherStep, CaptureStep, SavePacket, SavePacketFault, EnqueueCall,
        EnqueueRead, EnqueueFind, EnqueueNotify, EnqueueFault
  <1>5. ASSUME NEW c \in Client, NEW j \in JobId, EnqueueSave(c, j)
        PROVE  Moves
    BY <1>1, <1>5 DEF EnqueueSave
  <1>6. ASSUME NEW w \in Worker, NEW j \in JobId, Claim(w, j)
        PROVE  Moves
    BY <1>1, <1>6 DEF Claim, Take
  <1>7. ASSUME NEW w \in Worker, Proceed(w)
        PROVE  Moves
    BY <1>1, <1>7
    DEF Proceed, LoadPacket, LoadError, CallModel, SaveResponse, SaveResponseFault
  <1>8. ASSUME NEW w \in Worker, Idle(w)
        PROVE  Moves
    BY <1>1, <1>8 DEF Idle, NoClaim, WakeUp, TickerFires, StopWorker
  <1>9. ASSUME NEW w \in Worker, Settle(w) \/ Drop(w)
        PROVE  Moves
    BY <1>1, <1>9
    DEF Settle, Drop, Finish, Retry, Fail, FinishFault, SettleFault, SetJob
  <1>10. QED
    BY <1>3, <1>4, <1>5, <1>6, <1>7, <1>8, <1>9, Cases DEF Moves

\* What a settled row looks like.
SettledRow(w, row) ==
  \/ /\ pc[w] = "finish"
     /\ row = DoneRow(aiJobs[held[w]], <<held[w], tries[w]>>)
  \/ /\ pc[w] = "settle"
     /\ tries[w] < MaxAttempts
     /\ row = RetryRow(aiJobs[held[w]], tries[w])
  \/ /\ pc[w] = "settle"
     /\ ~(tries[w] < MaxAttempts)
     /\ row = FailRow(aiJobs[held[w]])

LEMMA SettleEffect ==
  ASSUME NEW w \in Worker, Settle(w)
  PROVE  /\ \E row : SettledRow(w, row) /\ aiJobs' = Upsert(aiJobs, held[w], row)
         /\ UNCHANGED <<crashes, faults>>
  BY DEF Settle, Finish, Retry, Fail, SetJob, SettledRow, MayRetry, StoreWorks, budget

\* Its binding and its attempts are those the row had.
LEMMA SettledRowFields ==
  ASSUME TypeOK, PoolInv, NEW w \in Worker, pc[w] \in Working,
         NEW row, SettledRow(w, row)
  PROVE  /\ Binding(row) = Binding(aiJobs[held[w]])
         /\ row.attempts = aiJobs[held[w]].attempts
         /\ row.status \in {"done", "retry_wait", "failed"}
  <1>1. held[w] \in DOMAIN aiJobs /\ aiJobs[held[w]] \in AIJob
    BY DEF TypeOK, PoolInv
  <1>2. DEFINE old == aiJobs[held[w]]
  <1>3. /\ row.status \in {"done", "retry_wait", "failed"}
        /\ row.doc = old.doc /\ row.rev = old.rev /\ row.recipe = old.recipe
        /\ row.attempts = old.attempts
    <2>1. CASE row = DoneRow(old, <<held[w], tries[w]>>)
      BY <1>1, <2>1 DEF DoneRow, AIJob
    <2>2. CASE row = RetryRow(old, tries[w])
      BY <1>1, <2>2 DEF RetryRow, AIJob
    <2>3. CASE row = FailRow(old)
      BY <1>1, <2>3 DEF FailRow, AIJob
    <2>4. QED
      BY <2>1, <2>2, <2>3 DEF SettledRow
  <1>4. QED
    BY <1>3 DEF Binding

\* A row that is taken was waiting, and nothing but its status, its attempts and
\* its retry time changes.
LEMMA TakeEffect ==
  ASSUME TypeOK, NEW w \in Worker, NEW j \in JobId, NEW n \in Nat, Take(w, j, n)
  PROVE  /\ pc[w] = "claim"
         /\ aiJobs[j].status \in {"queued", "retry_wait"}
         /\ aiJobs' = Upsert(aiJobs, j, ClaimedRow(aiJobs[j]))
         /\ pc' = [pc EXCEPT ![w] = "load"]
         /\ held' = [held EXCEPT ![w] = j]
         /\ tries' = [tries EXCEPT ![w] = n + 1]
         /\ UNCHANGED <<responses, packet, process, clients, budget>>
  BY DEF Take, SetJob, budget, StoreWorks

\* A claim takes a row by the copy it has just selected.
LEMMA ClaimTakes ==
  ASSUME TypeOK, NEW w \in Worker, NEW j \in JobId, Claim(w, j)
  PROVE  /\ j \in DOMAIN aiJobs
         /\ aiJobs[j].attempts \in Nat
         /\ Take(w, j, aiJobs[j].attempts)
  BY DEF Claim, FirstEligible, Eligible, TypeOK, AIJob

LEMMA ClaimEffect ==
  ASSUME TypeOK, NEW w \in Worker, NEW j \in JobId, Claim(w, j)
  PROVE  /\ pc[w] = "claim"
         /\ j \in DOMAIN aiJobs
         /\ aiJobs[j].status \in {"queued", "retry_wait"}
         /\ aiJobs' = Upsert(aiJobs, j, ClaimedRow(aiJobs[j]))
         /\ pc' = [pc EXCEPT ![w] = "load"]
         /\ held' = [held EXCEPT ![w] = j]
         /\ tries' = [tries EXCEPT ![w] = aiJobs[j].attempts + 1]
         /\ UNCHANGED <<responses, packet, hub, clients, budget>>
  BY ClaimTakes, TakeEffect DEF process

LEMMA ClaimedRowFields ==
  ASSUME NEW row \in AIJob
  PROVE  /\ Binding(ClaimedRow(row)) = Binding(row)
         /\ ClaimedRow(row).status = "running"
         /\ ClaimedRow(row).attempts = row.attempts + 1
         /\ ClaimedRow(row).response = row.response
  BY DEF ClaimedRow, Binding, AIJob

\* Who holds which row survives every step: a row is claimed only while it
\* waits, and a waiting row is held by nobody.
LEMMA OwnershipStep ==
  TypeOK /\ OwnershipInv /\ DownInv /\ [Next]_vars => OwnershipInv'
  <1> SUFFICES ASSUME TypeOK, OwnershipInv, DownInv, [Next]_vars
               PROVE  OwnershipInv'
    OBVIOUS
  <1>1. CASE OtherStep
    BY <1>1, OtherUnchanged DEF OwnershipInv, ExclusiveExecution, workers
  <1>2. ASSUME NEW c \in Client, NEW j \in JobId, EnqueueSave(c, j)
        PROVE  OwnershipInv'
    <2>1. /\ UNCHANGED workers
          /\ \A i \in DOMAIN aiJobs : i \in DOMAIN aiJobs' /\ aiJobs'[i] = aiJobs[i]
      BY <1>2 DEF EnqueueSave, SetJob, Upsert
    <2>2. QED
      BY <2>1 DEF OwnershipInv, ExclusiveExecution, workers
  <1>3. ASSUME NEW w \in Worker, NEW j \in JobId, Claim(w, j)
        PROVE  OwnershipInv'
    <2>1. aiJobs[j] \in AIJob /\ aiJobs[j].attempts \in Nat /\ j # None
      BY <1>3, ClaimEffect, NoneAssumption DEF TypeOK, AIJob
    <2>2. /\ j \in DOMAIN aiJobs'
          /\ aiJobs'[j].status = "running"
          /\ aiJobs'[j].attempts = aiJobs[j].attempts + 1
          /\ \A i \in DOMAIN aiJobs :
               i \in DOMAIN aiJobs' /\ (i # j => aiJobs'[i] = aiJobs[i])
      <3>1. j \in DOMAIN aiJobs /\ aiJobs' = Upsert(aiJobs, j, ClaimedRow(aiJobs[j]))
        BY <1>3, ClaimEffect
      <3>2. /\ ClaimedRow(aiJobs[j]).status = "running"
            /\ ClaimedRow(aiJobs[j]).attempts = aiJobs[j].attempts + 1
        BY <2>1, ClaimedRowFields
      <3>3. QED
        BY <3>1, <3>2 DEF Upsert
    <2>3. \A v \in Worker : held[v] # j
      BY <1>3, <2>1, ClaimEffect DEF OwnershipInv, ExclusiveExecution
    <2>4. \A v \in Worker : v # w => pc'[v] = pc[v] /\ held'[v] = held[v] /\ tries'[v] = tries[v]
      BY <1>3, ClaimEffect DEF TypeOK
    <2>5. pc'[w] = "load" /\ held'[w] = j /\ tries'[w] = aiJobs[j].attempts + 1
      BY <1>3, ClaimEffect DEF TypeOK
    <2>6. ExclusiveExecution'
      BY <2>2, <2>3, <2>4, <2>5 DEF OwnershipInv, ExclusiveExecution
    <2>7. QED
      BY <2>1, <2>4, <2>5, <2>6 DEF OwnershipInv, Working
  <1>4. ASSUME NEW w \in Worker, Proceed(w)
        PROVE  OwnershipInv'
    BY <1>4, ProceedEffect DEF OwnershipInv, ExclusiveExecution, TypeOK
  <1>5. ASSUME NEW w \in Worker, Idle(w)
        PROVE  OwnershipInv'
    BY <1>5, IdleEffect DEF OwnershipInv, ExclusiveExecution, TypeOK, tables
  <1>6. ASSUME NEW w \in Worker, Settle(w) \/ Drop(w)
        PROVE  OwnershipInv'
    <2>1. /\ held'[w] = None /\ pc'[w] = "claim"
          /\ \A v \in Worker : v # w => pc'[v] = pc[v] /\ held'[v] = held[v]
                                          /\ tries'[v] = tries[v]
      BY <1>6, ReleaseEffect DEF TypeOK
    <2>2. \A v \in Worker : v # w /\ held[v] # None => held[v] # held[w]
      BY DEF OwnershipInv, ExclusiveExecution
    <2>3. \A i \in DOMAIN aiJobs : i # held[w] =>
            i \in DOMAIN aiJobs' /\ aiJobs'[i] = aiJobs[i]
      <3>1. CASE Settle(w)
        <4>1. PICK row : aiJobs' = Upsert(aiJobs, held[w], row)
          BY <3>1, SettleEffect
        <4>2. QED
          BY <4>1 DEF Upsert
      <3>2. CASE Drop(w)
        BY <3>2 DEF Drop, FinishFault, SettleFault, tables
      <3>3. QED
        BY <1>6, <3>1, <3>2
    <2>4. ExclusiveExecution'
      BY <2>1, <2>2, <2>3 DEF OwnershipInv, ExclusiveExecution
    <2>5. QED
      BY <2>1, <2>4 DEF OwnershipInv, Working
  <1>7. CASE CloseReturns \/ Crash
    BY <1>7 DEF CloseReturns, Crash, VolatileLost, OwnershipInv, ExclusiveExecution,
                Working
  <1>8. CASE Restart \/ RestartFault
    <2>1. \A w \in Worker : held[w] = None
      BY <1>8 DEF Restart, RestartFault, DownInv, OwnershipInv, Working
    <2>2. \A w \in Worker : held'[w] = None /\ pc'[w] = "claim"
      BY <1>8, <2>1 DEF Restart, RestartFault, Started
    <2>3. QED
      BY <2>2 DEF OwnershipInv, ExclusiveExecution, Working
  <1>9. QED
    BY <1>1, <1>2, <1>3, <1>4, <1>5, <1>6, <1>7, <1>8, Cases

-------------------------------------------------------------------------------
(* Rows.                                                                     *)

\* What a step may do to a row that exists: a worker claims it, a worker that
\* holds it settles it, or a new process requeues it.
LEMMA RowMoves ==
  ASSUME TypeOK, PoolInv, [Next]_vars, NEW i \in DOMAIN aiJobs
  PROVE  /\ i \in DOMAIN aiJobs'
         /\ \/ aiJobs'[i] = aiJobs[i]
            \/ \E w \in Worker :
                 Claim(w, i) /\ aiJobs'[i] = ClaimedRow(aiJobs[i])
            \/ \E w \in Worker :
                 Settle(w) /\ held[w] = i /\ SettledRow(w, aiJobs'[i])
            \/ /\ Restart
               /\ aiJobs[i].status = "running"
               /\ aiJobs'[i] = [aiJobs[i] EXCEPT !.status = "queued"]
  <1>1. CASE aiJobs' = aiJobs
    BY <1>1
  <1>2. ASSUME NEW c \in Client, NEW j \in JobId, EnqueueSave(c, j)
        PROVE  i \in DOMAIN aiJobs' /\ aiJobs'[i] = aiJobs[i]
    BY <1>2 DEF EnqueueSave, SetJob, Upsert
  <1>3. ASSUME NEW w \in Worker, NEW j \in JobId, Claim(w, j)
        PROVE  /\ i \in DOMAIN aiJobs'
               /\ aiJobs'[i] = IF i = j THEN ClaimedRow(aiJobs[i]) ELSE aiJobs[i]
    <2>1. aiJobs' = Upsert(aiJobs, j, ClaimedRow(aiJobs[j]))
      BY <1>3, ClaimEffect
    <2>2. QED
      BY <2>1 DEF Upsert
  <1>4. ASSUME NEW w \in Worker, Settle(w)
        PROVE  /\ i \in DOMAIN aiJobs'
               /\ \/ aiJobs'[i] = aiJobs[i]
                  \/ held[w] = i /\ SettledRow(w, aiJobs'[i])
    <2>1. PICK row : SettledRow(w, row) /\ aiJobs' = Upsert(aiJobs, held[w], row)
      BY <1>4, SettleEffect
    <2>2. /\ i \in DOMAIN aiJobs'
          /\ aiJobs'[i] = IF i = held[w] THEN row ELSE aiJobs[i]
      BY <2>1 DEF Upsert
    <2>3. QED
      BY <2>1, <2>2
  <1>5. CASE RestartFault
    BY <1>1, <1>5 DEF RestartFault
  <1>6. CASE Restart
    BY <1>6 DEF Restart, Requeued
  <1>7. ASSUME OtherStep \/ (\E w \in Worker : Proceed(w) \/ Idle(w) \/ Drop(w))
                 \/ CloseReturns \/ Crash
        PROVE  aiJobs' = aiJobs
    BY <1>7, OtherUnchanged, ProceedEffect, IdleEffect
       DEF Drop, FinishFault, SettleFault, CloseReturns, Crash, tables
  <1>8. QED
    BY <1>1, <1>2, <1>3, <1>4, <1>5, <1>6, <1>7, Cases

\* Only an Enqueue adds a row.
LEMMA RowsAdded ==
  ASSUME TypeOK, PoolInv, [Next]_vars
  PROVE  \/ DOMAIN aiJobs' = DOMAIN aiJobs
         \/ \E c \in Client, j \in JobId : EnqueueSave(c, j)
  <1>1. ASSUME NEW w \in Worker, NEW j \in JobId, Claim(w, j)
        PROVE  DOMAIN aiJobs' = DOMAIN aiJobs
    BY <1>1, ClaimEffect DEF Upsert
  <1>2. ASSUME NEW w \in Worker, Settle(w)
        PROVE  DOMAIN aiJobs' = DOMAIN aiJobs
    <2>1. held[w] \in DOMAIN aiJobs
      BY <1>2, ReleaseEffect DEF PoolInv, Working
    <2>2. PICK row : aiJobs' = Upsert(aiJobs, held[w], row)
      BY <1>2, SettleEffect
    <2>3. QED
      BY <2>1, <2>2 DEF Upsert
  <1>3. CASE Restart \/ RestartFault
    BY <1>3 DEF Restart, RestartFault, Requeued
  <1>4. ASSUME OtherStep \/ (\E w \in Worker : Proceed(w) \/ Idle(w) \/ Drop(w))
                 \/ CloseReturns \/ Crash
        PROVE  aiJobs' = aiJobs
    BY <1>4, OtherUnchanged, ProceedEffect, IdleEffect
       DEF Drop, FinishFault, SettleFault, CloseReturns, Crash, tables
  <1>5. QED
    BY <1>1, <1>2, <1>3, <1>4, Cases

\* A row is never deleted or bound to something else.
LEMMA BindingKept ==
  ASSUME TypeOK, PoolInv, [Next]_vars, NEW i \in DOMAIN aiJobs
  PROVE  i \in DOMAIN aiJobs' /\ Binding(aiJobs'[i]) = Binding(aiJobs[i])
  <1>1. aiJobs[i] \in AIJob
    BY DEF TypeOK
  <1>2. Binding(ClaimedRow(aiJobs[i])) = Binding(aiJobs[i])
    BY <1>1, ClaimedRowFields
  <1>3. Binding([aiJobs[i] EXCEPT !.status = "queued"]) = Binding(aiJobs[i])
    BY <1>1 DEF Binding, AIJob
  <1>4. ASSUME NEW w \in Worker, Settle(w), held[w] = i, SettledRow(w, aiJobs'[i])
        PROVE  Binding(aiJobs'[i]) = Binding(aiJobs[i])
    BY <1>4, ReleaseEffect, SettledRowFields DEF Working
  <1>5. QED
    BY <1>2, <1>3, <1>4, RowMoves

\* A settled row does not change: while its worker holds a row, nobody else
\* settles it, so a row that is settled by a step was running.
LEMMA RowsStep ==
  ASSUME TypeOK, PoolInv, OwnershipInv, [Next]_vars
  PROVE  /\ \A i \in DOMAIN aiJobs :
              /\ i \in DOMAIN aiJobs'
              /\ Binding(aiJobs'[i]) = Binding(aiJobs[i])
              /\ aiJobs[i].status \in Terminal => aiJobs'[i] = aiJobs[i]
         /\ \/ DOMAIN aiJobs' = DOMAIN aiJobs
            \/ \E c \in Client, j \in JobId : EnqueueSave(c, j)
  <1>1. ASSUME NEW i \in DOMAIN aiJobs, aiJobs[i].status \in Terminal
        PROVE  aiJobs'[i] = aiJobs[i]
    <2>1. ASSUME NEW w \in Worker, Claim(w, i)
          PROVE  FALSE
      BY <1>1, <2>1, ClaimEffect DEF Terminal, TypeOK
    <2>2. ASSUME NEW w \in Worker, Settle(w), held[w] = i
          PROVE  FALSE
      <3>1. held[w] # None
        BY <2>2, ReleaseEffect DEF OwnershipInv, Working
      <3>2. aiJobs[i].status = "running"
        BY <2>2, <3>1 DEF OwnershipInv, ExclusiveExecution
      <3>3. QED
        BY <1>1, <3>2 DEF Terminal
    <2>3. aiJobs[i].status # "running"
      BY <1>1 DEF Terminal
    <2>4. QED
      BY <2>1, <2>2, <2>3, RowMoves
  <1>2. QED
    BY <1>1, BindingKept, RowsAdded

\* A row that answers requests after a step answered the same ones before it,
\* unless it is the row the step stored.
LEMMA ReusableStep ==
  ASSUME TypeOK, TypeOK', PoolInv, OwnershipInv, [Next]_vars, NEW i \in DOMAIN aiJobs
  PROVE  /\ aiJobs'[i].status \in Reusable => aiJobs[i].status \in Reusable
         /\ Binding(aiJobs'[i]) = Binding(aiJobs[i])
  <1>1. aiJobs[i] \in AIJob
    BY DEF TypeOK
  <1>2. QED
    BY <1>1, RowsStep DEF Reusable, Terminal, AIJob, Status

\* The row an Enqueue stores is the only one for its work.
LEMMA UniqueStep ==
  TypeOK /\ TypeOK' /\ PoolInv /\ OwnershipInv /\ EnqueueInv /\ UniqueLiveJob
    /\ [Next]_vars => UniqueLiveJob'
  <1> SUFFICES ASSUME TypeOK, TypeOK', PoolInv, OwnershipInv, EnqueueInv,
                      UniqueLiveJob, [Next]_vars
               PROVE  UniqueLiveJob'
    OBVIOUS
  <1>1. CASE DOMAIN aiJobs' = DOMAIN aiJobs
    BY <1>1, ReusableStep DEF UniqueLiveJob
  <1>2. ASSUME NEW c \in Client, NEW j \in JobId, EnqueueSave(c, j)
        PROVE  UniqueLiveJob'
    <2>1. /\ DOMAIN aiJobs' = DOMAIN aiJobs \cup {j}
          /\ aiJobs'[j] = NewRow(creq[c])
          /\ ReusableJobs(creq[c]) = {}
      BY <1>2 DEF EnqueueSave, SetJob, Upsert, EnqueueInv
    <2>2. Binding(aiJobs'[j]) = Binding(creq[c])
      BY <2>1 DEF NewRow, Binding
    <2>3. \A i \in DOMAIN aiJobs : aiJobs'[i].status \in Reusable =>
            Binding(aiJobs'[i]) # Binding(aiJobs'[j])
      BY <2>1, <2>2, ReusableStep DEF ReusableJobs
    <2>4. QED
      BY <2>1, <2>3, ReusableStep DEF UniqueLiveJob
  <1>3. QED
    BY <1>1, <1>2, RowsStep

-------------------------------------------------------------------------------
(* Handlers and the process.                                                 *)

\* A step of the system that is not a step of Enqueue leaves every handler
\* where it is, or the process ends and no handler is left.
LEMMA ClientsStep ==
  ASSUME [Next]_vars, TypeOK
  PROVE  \/ UNCHANGED clients
         \/ \A c \in Client : cpc'[c] = "idle"
         \/ \E c \in Client :
              (\E d \in Doc, k \in Recipe : EnqueueRead(c, d, k)) \/ EnqueueFind(c)
                \/ (\E j \in JobId : EnqueueSave(c, j)) \/ EnqueueNotify(c)
                \/ EnqueueFault(c)
  <1>1. CASE CaptureStep \/ Tick \/ Close \/ UNCHANGED vars
    BY <1>1 DEF CaptureStep, SavePacket, SavePacketFault, Tick, Close, vars
  <1>2. CASE \E c \in Client : EnqueueCall(c) \/ EnqueueFind(c) \/ EnqueueNotify(c)
                                  \/ EnqueueFault(c)
    BY <1>2 DEF EnqueueCall
  <1>3. CASE \E w \in Worker, j \in JobId : Claim(w, j)
    BY <1>3, ClaimEffect
  <1>4. CASE \E w \in Worker : Proceed(w) \/ Idle(w) \/ Settle(w) \/ Drop(w)
    BY <1>4, ProceedEffect, IdleEffect, ReleaseEffect DEF clients
  <1>5. CASE CloseReturns \/ Crash \/ Restart \/ RestartFault
    BY <1>5 DEF CloseReturns, Crash, VolatileLost, Restart, RestartFault, Started
  <1>6. QED
    BY <1>1, <1>2, <1>3, <1>4, <1>5, Cases DEF OtherStep

LEMMA EnqueueInvStep ==
  TypeOK /\ TypeOK' /\ PoolInv /\ OwnershipInv /\ EnqueueInv /\ [Next]_vars
    => EnqueueInv'
  <1> SUFFICES ASSUME TypeOK, TypeOK', PoolInv, OwnershipInv, EnqueueInv, [Next]_vars
               PROVE  EnqueueInv'
    OBVIOUS
  <1>1. CASE UNCHANGED clients
    <2>1. DOMAIN aiJobs' = DOMAIN aiJobs
      BY <1>1, RowsStep DEF EnqueueSave, clients, TypeOK
    <2>2. \A c \in Client : cpc'[c] = "save" => ReusableJobs(creq[c])' = {}
      BY <1>1, <2>1, ReusableStep DEF ReusableJobs, EnqueueInv, clients
    <2>3. QED
      BY <1>1, <2>2 DEF EnqueueInv, clients
  <1>2. CASE \A c \in Client : cpc'[c] = "idle"
    BY <1>2 DEF EnqueueInv
  <1>3. ASSUME NEW c \in Client, NEW d \in Doc, NEW k \in Recipe, EnqueueRead(c, d, k)
        PROVE  EnqueueInv'
    <2>1. \A e \in Client : cpc[e] = "idle"
      BY <1>3 DEF EnqueueRead, EnqueueMuFree
    <2>2. /\ cpc'[c] = "find"
          /\ \A e \in Client : e # c => cpc'[e] = "idle"
      BY <1>3, <2>1 DEF EnqueueRead, TypeOK
    <2>3. creq'[c] \in Request
      BY <1>3 DEF EnqueueRead, TypeOK, Request
    <2>4. QED
      BY <2>2, <2>3 DEF EnqueueInv
  <1>4. ASSUME NEW c \in Client,
               EnqueueFind(c) \/ (\E j \in JobId : EnqueueSave(c, j))
                 \/ EnqueueNotify(c) \/ EnqueueFault(c)
        PROVE  EnqueueInv'
    <2>1. cpc[c] # "idle"
      BY <1>4 DEF EnqueueFind, EnqueueSave, EnqueueNotify, EnqueueFault
    <2>2. \A e \in Client : e # c => cpc[e] = "idle"
      BY <2>1 DEF EnqueueInv
    <2>3. \A e \in Client : e # c => cpc'[e] = "idle"
      BY <1>4, <2>2 DEF EnqueueFind, EnqueueSave, EnqueueNotify, EnqueueFault, TypeOK
    <2>4. cpc'[c] = "save" => EnqueueFind(c) /\ ReusableJobs(creq[c]) = {}
      BY <1>4 DEF EnqueueFind, EnqueueSave, EnqueueNotify, EnqueueFault, TypeOK
    <2>5. ASSUME cpc'[c] # "idle"
          PROVE  creq'[c] \in Request
      <3>1. creq[c] \in Request
        BY <2>1 DEF EnqueueInv
      <3>2. [creq[c] EXCEPT !.createdAt = now] \in Request
        BY <3>1 DEF Request, TypeOK
      <3>3. QED
        BY <1>4, <2>5, <3>1, <3>2
           DEF EnqueueFind, EnqueueSave, EnqueueNotify, EnqueueFault, TypeOK
    <2>6. ASSUME cpc'[c] = "save"
          PROVE  ReusableJobs(creq[c])' = {}
      <3>1. /\ creq'[c] = [creq[c] EXCEPT !.createdAt = now]
            /\ aiJobs' = aiJobs
            /\ creq[c] \in Request
        BY <2>1, <2>4, <2>6 DEF EnqueueFind, TypeOK, EnqueueInv, tables
      <3>2. Binding(creq'[c]) = Binding(creq[c])
        BY <3>1 DEF Binding, Request
      <3>3. QED
        BY <2>4, <2>6, <3>1, <3>2 DEF ReusableJobs
    <2>7. QED
      BY <2>3, <2>5, <2>6 DEF EnqueueInv
  <1>5. QED
    BY <1>1, <1>2, <1>3, <1>4, ClientsStep

\* No goroutine runs in a process that has ended.
LEMMA DownStep == TypeOK /\ DownInv /\ [Next]_vars => DownInv'
  <1> SUFFICES ASSUME TypeOK, DownInv, [Next]_vars, hub' = "down"
               PROVE  /\ \A w \in Worker : pc'[w] = "dead"
                      /\ \A c \in Client : cpc'[c] = "idle"
    BY DEF DownInv
  <1>1. CASE CloseReturns \/ Crash
    BY <1>1 DEF CloseReturns, Crash, VolatileLost
  <1>2. CASE Restart \/ RestartFault
    BY <1>2 DEF Restart, RestartFault, Started
  <1>3. CASE OtherStep
    <2>1. UNCHANGED workers /\ hub' = hub
      BY <1>3, OtherUnchanged
      DEF OtherStep, CaptureStep, SavePacket, SavePacketFault, EnqueueCall,
          EnqueueRead, EnqueueFind, EnqueueNotify, EnqueueFault, Tick, Close,
          vars, process
    <2>2. /\ \A w \in Worker : pc[w] = "dead"
          /\ \A c \in Client : cpc[c] = "idle"
      BY <2>1 DEF DownInv
    <2>3. UNCHANGED clients
      BY <1>3, <2>1, <2>2
      DEF OtherStep, CaptureStep, SavePacket, SavePacketFault, EnqueueCall,
          EnqueueRead, EnqueueFind, EnqueueNotify, EnqueueFault, Tick, Close,
          vars, Alive
    <2>4. QED
      BY <2>1, <2>2, <2>3 DEF workers, clients
  <1>4. ASSUME NEW c \in Client, NEW j \in JobId, EnqueueSave(c, j)
        PROVE  FALSE
    BY <1>4 DEF EnqueueSave, process, DownInv
  <1>5. ASSUME NEW w \in Worker, NEW j \in JobId, Claim(w, j)
        PROVE  FALSE
    BY <1>5 DEF Claim, Take, process, DownInv
  <1>6. ASSUME NEW w \in Worker, Proceed(w) \/ Idle(w) \/ Settle(w) \/ Drop(w)
        PROVE  FALSE
    BY <1>6, ProceedEffect, IdleEffect, ReleaseEffect DEF DownInv, Working
  <1>7. QED
    BY <1>1, <1>2, <1>3, <1>4, <1>5, <1>6, Cases

-------------------------------------------------------------------------------
(* Answers.                                                                  *)

\* Responses are only added.
LEMMA ResponsesGrow ==
  ASSUME TypeOK, [Next]_vars
  PROVE  responses \subseteq responses'
  <1>1. ASSUME NEW w \in Worker, Proceed(w)
        PROVE  responses \subseteq responses'
    BY <1>1 DEF Proceed, LoadPacket, LoadError, CallModel, SaveResponse,
                SaveResponseFault, tables
  <1>2. ASSUME NEW w \in Worker, Idle(w) \/ Settle(w) \/ Drop(w)
        PROVE  responses' = responses
    BY <1>2, IdleEffect, ReleaseEffect DEF tables
  <1>3. ASSUME NEW w \in Worker, NEW j \in JobId, Claim(w, j)
        PROVE  responses' = responses
    BY <1>3 DEF Claim, Take
  <1>4. QED
    BY <1>1, <1>2, <1>3, Cases, OtherUnchanged
       DEF EnqueueSave, CloseReturns, Crash, Restart, RestartFault, Started, tables

\* A worker that keeps its row keeps what AnswerInv says of it.
LEMMA AnswerStep ==
  TypeOK /\ PoolInv /\ [Next]_vars => AnswerInv'
  <1> SUFFICES ASSUME TypeOK, PoolInv, AnswerInv, [Next]_vars
               PROVE  AnswerInv'
    BY DEF PoolInv
  <1> DEFINE Sent(w) ==
        packet[w] = <<aiJobs[held[w]].doc, aiJobs[held[w]].rev>>
  <1> DEFINE Stored(w) ==
        \E resp \in responses :
          /\ resp.id = <<held[w], tries[w]>>
          /\ Binding(resp) = Binding(aiJobs[held[w]])
  <1>1. ASSUME NEW w \in Worker, pc[w] \in Working,
               held'[w] = held[w], tries'[w] = tries[w], packet'[w] = packet[w]
        PROVE  (Sent(w) => Sent(w)') /\ (Stored(w) => Stored(w)')
    <2>1. held[w] \in DOMAIN aiJobs
      BY <1>1 DEF PoolInv
    <2>2. Binding(aiJobs'[held[w]]) = Binding(aiJobs[held[w]])
      BY <2>1, BindingKept
    <2>3. /\ aiJobs'[held[w]].doc = aiJobs[held[w]].doc
          /\ aiJobs'[held[w]].rev = aiJobs[held[w]].rev
      BY <2>2 DEF Binding
    <2>4. QED
      BY <1>1, <2>2, <2>3, ResponsesGrow
  <1>2. ASSUME \A v \in Worker : \/ pc'[v] \notin {"call", "save", "finish"}
                                 \/ /\ pc'[v] = pc[v]
                                    /\ held'[v] = held[v]
                                    /\ tries'[v] = tries[v]
                                    /\ packet'[v] = packet[v]
        PROVE  AnswerInv'
    BY <1>1, <1>2 DEF AnswerInv, Working
  <1>3. CASE OtherStep \/ \E c \in Client, j \in JobId : EnqueueSave(c, j)
    BY <1>2, <1>3, OtherUnchanged DEF EnqueueSave, workers
  <1>4. ASSUME NEW w \in Worker, NEW j \in JobId, Claim(w, j)
        PROVE  AnswerInv'
    BY <1>2, <1>4, ClaimEffect DEF TypeOK
  <1>5. ASSUME NEW w \in Worker, Idle(w)
        PROVE  AnswerInv'
    BY <1>2, <1>5, IdleEffect DEF TypeOK, Working
  <1>6. ASSUME NEW w \in Worker, Settle(w) \/ Drop(w)
        PROVE  AnswerInv'
    BY <1>2, <1>6, ReleaseEffect DEF TypeOK
  <1>7. CASE CloseReturns \/ Crash \/ Restart \/ RestartFault
    BY <1>2, <1>7 DEF CloseReturns, Crash, VolatileLost, Restart, RestartFault, Started
  <1>8. ASSUME NEW w \in Worker, Proceed(w)
        PROVE  AnswerInv'
    <2>1. /\ held[w] \in DOMAIN aiJobs /\ aiJobs[held[w]] \in AIJob
          /\ UNCHANGED <<aiJobs, held, tries>>
          /\ \A v \in Worker : v # w => pc'[v] = pc[v]
      BY <1>8, ProceedEffect DEF PoolInv, TypeOK
    <2>2. \A v \in Worker : v # w => packet'[v] = packet[v]
      BY <1>8 DEF Proceed, LoadPacket, LoadError, CallModel, SaveResponse,
                  SaveResponseFault, Give, Goto, TypeOK
    <2>3. ASSUME NEW v \in Worker, v # w
          PROVE  /\ pc'[v] \in {"call", "save"} => Sent(v)'
                 /\ pc'[v] = "finish" => Stored(v)'
      <3>1. pc'[v] = pc[v] /\ held'[v] = held[v] /\ tries'[v] = tries[v]
        BY <2>1, <2>3
      <3>2. packet'[v] = packet[v]
        BY <2>2, <2>3
      <3>3. CASE pc[v] \in Working
        <4>1. (Sent(v) => Sent(v)') /\ (Stored(v) => Stored(v)')
          BY <1>1, <3>1, <3>2, <3>3
        <4>2. /\ pc[v] \in {"call", "save"} => Sent(v)
              /\ pc[v] = "finish" => Stored(v)
          BY DEF AnswerInv
        <4>3. QED
          BY <3>1, <4>1, <4>2
      <3>4. CASE pc[v] \notin Working
        BY <3>1, <3>4 DEF Working
      <3>5. QED
        BY <3>3, <3>4
    <2>4. CASE LoadPacket(w)
      <3>1. RevisionError(aiJobs[held[w]]) = "ok"
        BY <2>4 DEF LoadPacket
      <3>2. packets[aiJobs[held[w]].rev] = aiJobs[held[w]].doc
        BY <3>1 DEF RevisionError, BelongsTo
      <3>3. pc'[w] = "call" /\ packet'[w] = <<packets[aiJobs[held[w]].rev], aiJobs[held[w]].rev>>
        BY <2>4 DEF LoadPacket, TypeOK
      <3>4. QED
        BY <2>1, <2>3, <3>2, <3>3 DEF AnswerInv
    <2>5. CASE LoadError(w) \/ SaveResponseFault(w)
      BY <2>3, <2>5 DEF LoadError, SaveResponseFault, Give, TypeOK, AnswerInv
    <2>6. CASE CallModel(w)
      <3>1. Sent(w) /\ packet' = packet /\ pc'[w] \in {"save", "settle"}
        BY <2>6 DEF CallModel, Give, Goto, TypeOK, AnswerInv
      <3>2. QED
        BY <2>1, <2>3, <3>1 DEF AnswerInv
    <2>7. CASE SaveResponse(w)
      <3> DEFINE resp == [id |-> <<held[w], tries[w]>>, doc |-> packet[w][1],
                          rev |-> packet[w][2], recipe |-> aiJobs[held[w]].recipe]
      <3>1. Sent(w) /\ pc'[w] = "finish" /\ resp \in responses'
        BY <2>7 DEF SaveResponse, Goto, TypeOK, AnswerInv
      <3>2. resp.id = <<held[w], tries[w]>> /\ Binding(resp) = Binding(aiJobs[held[w]])
        BY <3>1 DEF Binding
      <3>3. Stored(w)'
        BY <2>1, <3>1, <3>2
      <3>4. QED
        BY <2>3, <3>1, <3>3 DEF AnswerInv
    <2>8. QED
      BY <1>8, <2>4, <2>5, <2>6, <2>7 DEF Proceed
  <1>9. QED
    BY <1>3, <1>4, <1>5, <1>6, <1>7, <1>8, Cases

\* A row becomes done in Finish only, and Finish names the stored response.
LEMMA DoneStep ==
  TypeOK /\ PoolInv /\ DoneHasItsResponse /\ [Next]_vars => DoneHasItsResponse'
  <1> SUFFICES ASSUME TypeOK, PoolInv, AnswerInv, DoneHasItsResponse, [Next]_vars
               PROVE  DoneHasItsResponse'
    BY DEF PoolInv
  <1> DEFINE Answered(j) ==
        aiJobs[j].status = "done" =>
          \E resp \in responses :
            /\ resp.id = aiJobs[j].response
            /\ Binding(resp) = Binding(aiJobs[j])
  <1>1. ASSUME NEW i \in DOMAIN aiJobs, aiJobs'[i] = aiJobs[i]
        PROVE  Answered(i)'
    BY <1>1, ResponsesGrow DEF DoneHasItsResponse
  <1>2. ASSUME NEW i \in DOMAIN aiJobs', aiJobs'[i].status # "done"
        PROVE  Answered(i)'
    BY <1>2
  <1>3. CASE OtherStep \/ (\E w \in Worker : Proceed(w) \/ Idle(w) \/ Drop(w))
               \/ CloseReturns \/ Crash
    <2>1. aiJobs' = aiJobs
      BY <1>3, OtherUnchanged, ProceedEffect, IdleEffect
         DEF Drop, FinishFault, SettleFault, CloseReturns, Crash, tables
    <2>2. QED
      BY <1>1, <2>1 DEF DoneHasItsResponse
  <1>4. ASSUME NEW c \in Client, NEW j \in JobId, EnqueueSave(c, j)
        PROVE  DoneHasItsResponse'
    <2>1. \A i \in DOMAIN aiJobs' :
            \/ i \in DOMAIN aiJobs /\ aiJobs'[i] = aiJobs[i]
            \/ aiJobs'[i].status # "done"
      BY <1>4 DEF EnqueueSave, SetJob, Upsert, NewRow
    <2>2. QED
      BY <1>1, <1>2, <2>1 DEF DoneHasItsResponse
  <1>5. ASSUME NEW w \in Worker, NEW j \in JobId, Claim(w, j)
        PROVE  DoneHasItsResponse'
    <2>1. /\ j \in DOMAIN aiJobs /\ ClaimedRow(aiJobs[j]).status = "running"
          /\ aiJobs' = Upsert(aiJobs, j, ClaimedRow(aiJobs[j]))
      BY <1>5, ClaimEffect, ClaimedRowFields DEF TypeOK
    <2>2. \A i \in DOMAIN aiJobs' :
            \/ i \in DOMAIN aiJobs /\ aiJobs'[i] = aiJobs[i]
            \/ aiJobs'[i].status # "done"
      BY <2>1 DEF Upsert
    <2>3. QED
      BY <1>1, <1>2, <2>2 DEF DoneHasItsResponse
  <1>6. CASE Restart \/ RestartFault
    <2>1. aiJobs' = Requeued \/ aiJobs' = aiJobs
      BY <1>6 DEF Restart, RestartFault
    <2>2. \A i \in DOMAIN aiJobs' :
            i \in DOMAIN aiJobs /\ (aiJobs'[i] = aiJobs[i] \/ aiJobs'[i].status # "done")
      BY <2>1 DEF Requeued, TypeOK, AIJob
    <2>3. QED
      BY <1>1, <1>2, <2>2 DEF DoneHasItsResponse
  <1>7. ASSUME NEW w \in Worker, Settle(w)
        PROVE  DoneHasItsResponse'
    <2>1. PICK row : SettledRow(w, row) /\ aiJobs' = Upsert(aiJobs, held[w], row)
      BY <1>7, SettleEffect
    <2>2. pc[w] \in Working /\ held[w] \in DOMAIN aiJobs /\ aiJobs[held[w]] \in AIJob
      BY <1>7, ReleaseEffect DEF PoolInv, Working, TypeOK
    <2>3. \A i \in DOMAIN aiJobs' :
            i \in DOMAIN aiJobs /\ (i # held[w] => aiJobs'[i] = aiJobs[i])
      BY <2>1, <2>2 DEF Upsert
    <2>4. aiJobs'[held[w]] = row
      BY <2>1, <2>2 DEF Upsert
    <2>5. CASE pc[w] = "finish"
      <3>1. row.response = <<held[w], tries[w]>>
        BY <2>1, <2>2, <2>5 DEF SettledRow, DoneRow, AIJob
      <3>2. Binding(row) = Binding(aiJobs[held[w]])
        BY <2>1, <2>2, SettledRowFields
      <3>3. PICK resp \in responses :
              /\ resp.id = <<held[w], tries[w]>>
              /\ Binding(resp) = Binding(aiJobs[held[w]])
        BY <2>5 DEF AnswerInv
      <3>4. PICK j \in DOMAIN aiJobs : j = held[w]
        BY <2>2
      <3>5. Answered(j)'
        BY <2>4, <3>1, <3>2, <3>3, <3>4, ResponsesGrow
      <3>6. QED
        BY <1>1, <2>3, <3>4, <3>5 DEF DoneHasItsResponse
    <2>6. CASE pc[w] # "finish"
      <3>1. row.status # "done"
        BY <2>1, <2>2, <2>6 DEF SettledRow, RetryRow, FailRow, AIJob
      <3>2. QED
        BY <1>1, <1>2, <2>3, <2>4, <3>1 DEF DoneHasItsResponse
    <2>7. QED
      BY <2>5, <2>6
  <1>8. QED
    BY <1>3, <1>4, <1>5, <1>6, <1>7, Cases

-------------------------------------------------------------------------------
(* Attempts.                                                                 *)

\* A retry is granted and a failure declared by the counter of the worker that
\* owns the row, which is the counter of the row.
LEMMA RetryDisciplineStep ==
  TypeOK /\ PoolInv /\ OwnershipInv /\ RetryDiscipline /\ [Next]_vars => RetryDiscipline'
  <1> SUFFICES ASSUME TypeOK, PoolInv, OwnershipInv, RetryDiscipline, [Next]_vars
               PROVE  RetryDiscipline'
    OBVIOUS
  <1> DEFINE Disciplined(row) ==
        /\ row.status = "retry_wait" => row.attempts \in 1 .. (MaxAttempts - 1)
        /\ row.status = "failed" => row.attempts >= MaxAttempts
  <1>1. ASSUME \A i \in DOMAIN aiJobs' :
                 \/ i \in DOMAIN aiJobs /\ aiJobs'[i] = aiJobs[i]
                 \/ aiJobs'[i].status \notin {"retry_wait", "failed"}
                 \/ Disciplined(aiJobs'[i])
        PROVE  RetryDiscipline'
    BY <1>1 DEF RetryDiscipline
  <1>2. CASE OtherStep \/ (\E w \in Worker : Proceed(w) \/ Idle(w) \/ Drop(w))
               \/ CloseReturns \/ Crash
    <2>1. aiJobs' = aiJobs
      BY <1>2, OtherUnchanged, ProceedEffect, IdleEffect
         DEF Drop, FinishFault, SettleFault, CloseReturns, Crash, tables
    <2>2. QED
      BY <1>1, <2>1
  <1>3. ASSUME NEW c \in Client, NEW j \in JobId, EnqueueSave(c, j)
        PROVE  RetryDiscipline'
    BY <1>1, <1>3 DEF EnqueueSave, SetJob, Upsert, NewRow
  <1>4. ASSUME NEW w \in Worker, NEW j \in JobId, Claim(w, j)
        PROVE  RetryDiscipline'
    <2>1. /\ j \in DOMAIN aiJobs /\ ClaimedRow(aiJobs[j]).status = "running"
          /\ aiJobs' = Upsert(aiJobs, j, ClaimedRow(aiJobs[j]))
      BY <1>4, ClaimEffect, ClaimedRowFields DEF TypeOK
    <2>2. QED
      BY <1>1, <2>1 DEF Upsert
  <1>5. CASE Restart \/ RestartFault
    <2>1. aiJobs' = Requeued \/ aiJobs' = aiJobs
      BY <1>5 DEF Restart, RestartFault
    <2>2. \A i \in DOMAIN aiJobs' :
            i \in DOMAIN aiJobs /\ (aiJobs'[i] = aiJobs[i] \/ aiJobs'[i].status = "queued")
      BY <2>1 DEF Requeued, TypeOK, AIJob
    <2>3. QED
      BY <1>1, <2>2
  <1>6. ASSUME NEW w \in Worker, Settle(w)
        PROVE  RetryDiscipline'
    <2>1. PICK row : SettledRow(w, row) /\ aiJobs' = Upsert(aiJobs, held[w], row)
      BY <1>6, SettleEffect
    <2>2. /\ pc[w] \in Working /\ held[w] \in DOMAIN aiJobs
          /\ aiJobs[held[w]] \in AIJob
          /\ aiJobs[held[w]].attempts = tries[w]
          /\ tries[w] \in Nat /\ tries[w] >= 1
      BY <1>6, ReleaseEffect DEF OwnershipInv, ExclusiveExecution, Working, TypeOK
    <2>3. row.attempts = tries[w]
      BY <2>1, <2>2, SettledRowFields
    <2>4. \/ row.status = "done"
          \/ row.status = "retry_wait" /\ tries[w] < MaxAttempts
          \/ row.status = "failed" /\ ~(tries[w] < MaxAttempts)
      BY <2>1, <2>2 DEF SettledRow, DoneRow, RetryRow, FailRow, AIJob
    <2>5. Disciplined(row)
      BY <2>2, <2>3, <2>4, PoolAssumption
    <2>6. QED
      BY <1>1, <2>1, <2>2, <2>5 DEF Upsert
  <1>7. QED
    BY <1>2, <1>3, <1>4, <1>5, <1>6, Cases

\* A row that waits or runs without an owner has an attempt left for the crash
\* or the failed call that will be charged to it.
LEMMA BudgetStep ==
  TypeOK /\ PoolInv /\ OwnershipInv /\ DownInv /\ RetryDiscipline /\ BudgetInv /\ [Next]_vars
    => BudgetInv'
  <1> SUFFICES ASSUME TypeOK, PoolInv, OwnershipInv, DownInv, RetryDiscipline, BudgetInv,
                      [Next]_vars
               PROVE  BudgetInv'
    OBVIOUS
  <1> DEFINE limit == MaxAttempts + crashes + faults
             Bounded(i) ==
               /\ aiJobs[i].attempts <= limit
               /\ aiJobs[i].status = "queued" \/ Orphan(i)
                    => aiJobs[i].attempts < limit
  <1>1. /\ limit \in Nat /\ limit >= MaxAttempts /\ MaxAttempts \in Nat \ {0}
        /\ \A i \in DOMAIN aiJobs : aiJobs[i] \in AIJob /\ aiJobs[i].attempts \in Nat
    BY PoolAssumption DEF TypeOK, AIJob
  <1>2. \A i \in DOMAIN aiJobs : Bounded(i)
    BY DEF BudgetInv, AttemptsWithinBudget
  <1>3. ASSUME \A i \in DOMAIN aiJobs' : Bounded(i)'
        PROVE  BudgetInv'
    BY <1>3 DEF BudgetInv, AttemptsWithinBudget
  <1>4. limit' \in Nat /\ limit' >= limit
    BY <1>1, BudgetMoves DEF TypeOK
  \* Nobody new loses a row: what is bounded stays bounded.
  <1>5. ASSUME NEW i \in DOMAIN aiJobs, aiJobs'[i] = aiJobs[i],
               limit' > limit \/ \A w \in Worker : held[w] = i => held'[w] = i
        PROVE  Bounded(i)'
    <2>1. aiJobs[i].attempts <= limit /\ aiJobs[i].attempts \in Nat
      BY <1>1, <1>2
    <2>2. CASE limit' > limit
      BY <1>1, <1>4, <1>5, <2>1, <2>2
    <2>3. CASE \A w \in Worker : held[w] = i => held'[w] = i
      <3>1. Orphan(i)' => Orphan(i)
        BY <1>5, <2>3 DEF Orphan
      <3>2. QED
        BY <1>1, <1>2, <1>4, <1>5, <2>1, <3>1
    <2>4. QED
      BY <1>5, <2>2, <2>3
  <1>6. CASE OtherStep \/ \E w \in Worker : Proceed(w) \/ Idle(w)
    <2>1. aiJobs' = aiJobs /\ held' = held
      BY <1>6, OtherUnchanged, ProceedEffect, IdleEffect DEF tables, workers
    <2>2. QED
      BY <1>3, <1>5, <2>1
  <1>7. ASSUME NEW c \in Client, NEW j \in JobId, EnqueueSave(c, j)
        PROVE  BudgetInv'
    <2>1. /\ DOMAIN aiJobs' = DOMAIN aiJobs \cup {j}
          /\ held' = held
          /\ \A i \in DOMAIN aiJobs : aiJobs'[i] = aiJobs[i]
          /\ aiJobs'[j].attempts = 0
      BY <1>7 DEF EnqueueSave, SetJob, Upsert, NewRow, workers
    <2>2. Bounded(j)'
      BY <1>1, <1>4, <2>1
    <2>3. QED
      BY <1>3, <1>5, <2>1, <2>2
  <1>8. ASSUME NEW w \in Worker, NEW j \in JobId, Claim(w, j)
        PROVE  BudgetInv'
    <2>1. /\ j \in DOMAIN aiJobs
          /\ aiJobs[j].status \in {"queued", "retry_wait"}
          /\ aiJobs' = Upsert(aiJobs, j, ClaimedRow(aiJobs[j]))
          /\ held' = [held EXCEPT ![w] = j]
          /\ pc[w] = "claim"
      BY <1>8, ClaimEffect
    <2>2. /\ ClaimedRow(aiJobs[j]).status = "running"
          /\ ClaimedRow(aiJobs[j]).attempts = aiJobs[j].attempts + 1
      BY <1>1, <2>1, ClaimedRowFields
    <2>3. /\ DOMAIN aiJobs' = DOMAIN aiJobs
          /\ \A i \in DOMAIN aiJobs : i # j => aiJobs'[i] = aiJobs[i]
          /\ aiJobs'[j] = ClaimedRow(aiJobs[j])
      BY <2>1 DEF Upsert
    <2>4. held[w] = None /\ held'[w] = j
      BY <2>1 DEF OwnershipInv, Working, TypeOK
    <2>5. \A i \in DOMAIN aiJobs : \A v \in Worker : held[v] = i => held'[v] = i
      BY <2>1, <2>4, NoneAssumption DEF TypeOK
    <2>6. aiJobs[j].attempts < limit
      <3>1. CASE aiJobs[j].status = "queued"
        BY <1>2, <2>1, <3>1
      <3>2. CASE aiJobs[j].status = "retry_wait"
        BY <1>1, <2>1, <3>2 DEF RetryDiscipline
      <3>3. QED
        BY <2>1, <3>1, <3>2
    <2>7. Bounded(j)'
      <3>1. ~Orphan(j)'
        BY <2>4 DEF Orphan
      <3>2. aiJobs'[j].attempts <= limit' /\ aiJobs'[j].status = "running"
        BY <1>1, <1>4, <2>1, <2>2, <2>3, <2>6
      <3>3. QED
        BY <3>1, <3>2
    <2>8. QED
      BY <1>3, <1>5, <2>3, <2>5, <2>7
  <1>9. ASSUME NEW w \in Worker, Settle(w)
        PROVE  BudgetInv'
    <2>1. PICK row : SettledRow(w, row) /\ aiJobs' = Upsert(aiJobs, held[w], row)
      BY <1>9, SettleEffect
    <2>2. PICK j \in DOMAIN aiJobs : j = held[w]
      BY <1>9, ReleaseEffect DEF OwnershipInv, ExclusiveExecution, Working
    <2>3. /\ row.attempts = aiJobs[j].attempts
          /\ row.status \in {"done", "retry_wait", "failed"}
      BY <1>9, <2>1, <2>2, ReleaseEffect, SettledRowFields DEF Working
    <2>4. /\ DOMAIN aiJobs' = DOMAIN aiJobs
          /\ \A i \in DOMAIN aiJobs : i # j => aiJobs'[i] = aiJobs[i]
          /\ aiJobs'[j] = row
      BY <2>1, <2>2 DEF Upsert
    <2>5. \A i \in DOMAIN aiJobs : i # j =>
            \A v \in Worker : held[v] = i => held'[v] = i
      BY <1>9, <2>2, ReleaseEffect DEF TypeOK
    <2>6. Bounded(j)'
      BY <1>1, <1>2, <1>4, <2>3, <2>4 DEF Orphan
    <2>7. QED
      BY <1>3, <1>5, <2>4, <2>5, <2>6
  <1>10. ASSUME aiJobs' = aiJobs, limit' > limit
         PROVE  BudgetInv'
    BY <1>3, <1>5, <1>10
  <1>11. ASSUME NEW w \in Worker, Drop(w)
         PROVE  BudgetInv'
    BY <1>1, <1>10, <1>11 DEF Drop, FinishFault, SettleFault, StoreFails, tables, TypeOK
  <1>12. CASE Crash
    BY <1>1, <1>10, <1>12 DEF Crash, tables, TypeOK
  <1>13. CASE CloseReturns
    <2>1. \A w \in Worker : held[w] = None
      BY <1>13 DEF CloseReturns, OwnershipInv, Working
    <2>2. \A i \in DOMAIN aiJobs : \A w \in Worker : held[w] # i
      BY <2>1, NoneAssumption DEF TypeOK
    <2>3. QED
      BY <1>3, <1>5, <1>13, <2>2 DEF CloseReturns, tables
  <1>14. CASE Restart \/ RestartFault
    <2>1. \A w \in Worker : held[w] = None
      BY <1>14 DEF Restart, RestartFault, DownInv, OwnershipInv, Working
    <2>2. \A i \in DOMAIN aiJobs : \A w \in Worker : held[w] # i
      BY <2>1, NoneAssumption DEF TypeOK
    <2>3. CASE aiJobs' = aiJobs
      BY <1>3, <1>5, <2>2, <2>3
    <2>4. CASE aiJobs' = Requeued
      <3>1. DOMAIN aiJobs' = DOMAIN aiJobs
        BY <2>4 DEF Requeued
      <3>2. ASSUME NEW i \in DOMAIN aiJobs, aiJobs[i].status = "running"
            PROVE  Bounded(i)'
        <4>1. aiJobs[i].attempts < limit
          BY <1>2, <2>2, <3>2 DEF Orphan
        <4>2. aiJobs'[i].attempts = aiJobs[i].attempts
          BY <1>1, <2>4, <3>2 DEF Requeued, AIJob
        <4>3. QED
          BY <1>1, <1>4, <4>1, <4>2
      <3>3. ASSUME NEW i \in DOMAIN aiJobs, aiJobs[i].status # "running"
            PROVE  Bounded(i)'
        BY <1>5, <2>2, <2>4, <3>3 DEF Requeued
      <3>4. QED
        BY <1>3, <3>1, <3>2, <3>3
    <2>5. QED
      BY <1>14, <2>3, <2>4 DEF Restart, RestartFault
  <1>15. QED
    BY <1>6, <1>7, <1>8, <1>9, <1>11, <1>12, <1>13, <1>14, Cases

-------------------------------------------------------------------------------
(* Orphans and wake-ups.                                                     *)

\* Without a failed call a worker gives up a row only by settling it, and a new
\* process requeues what its predecessor left.
LEMMA RunningHasWorkerStep ==
  TypeOK /\ PoolInv /\ OwnershipInv /\ DownInv /\ RunningHasWorker /\ [Next]_vars
    => RunningHasWorker'
  <1> SUFFICES ASSUME TypeOK, PoolInv, OwnershipInv, DownInv, RunningHasWorker, [Next]_vars,
                      hub' # "down", faults' = 0,
                      NEW j \in DOMAIN aiJobs', aiJobs'[j].status = "running"
               PROVE  \E w \in Worker : held'[w] = j
    BY DEF RunningHasWorker, Alive
  <1>1. ASSUME hub # "down", faults = 0, j \in DOMAIN aiJobs, aiJobs'[j] = aiJobs[j],
               \A w \in Worker : held[w] = j => held'[w] = j
        PROVE  \E w \in Worker : held'[w] = j
    BY <1>1 DEF RunningHasWorker, Alive
  <1>2. CASE OtherStep \/ \E w \in Worker : Proceed(w) \/ Idle(w)
    <2>1. aiJobs' = aiJobs /\ held' = held
      BY <1>2, OtherUnchanged, ProceedEffect, IdleEffect DEF tables, workers
    <2>2. faults = 0
      BY <1>2 DEF OtherStep, CaptureStep, SavePacket, SavePacketFault, EnqueueCall,
                  EnqueueRead, EnqueueFind, EnqueueNotify, EnqueueFault, Proceed,
                  Idle, NoClaim, Sleep, LoadPacket, LoadError, CallModel, SaveResponse,
                  SaveResponseFault, WakeUp, TickerFires, StopWorker, Tick, Close,
                  vars, budget, StoreWorks, StoreFails, TypeOK
    <2>3. hub # "down"
      BY <1>2, ProceedEffect, IdleEffect
         DEF OtherStep, CaptureStep, SavePacket, SavePacketFault, EnqueueCall,
             EnqueueRead, EnqueueFind, EnqueueNotify, EnqueueFault, Tick, Close,
             vars, process
    <2>4. QED
      BY <1>1, <2>1, <2>2, <2>3
  <1>3. ASSUME NEW c \in Client, NEW i \in JobId, EnqueueSave(c, i)
        PROVE  \E w \in Worker : held'[w] = j
    <2>1. /\ hub # "down" /\ faults = 0 /\ held' = held
          /\ j \in DOMAIN aiJobs \cup {i}
          /\ aiJobs'[i].status = "queued"
          /\ j # i => aiJobs'[j] = aiJobs[j]
      BY <1>3 DEF EnqueueSave, SetJob, Upsert, NewRow, Alive, workers, StoreWorks, budget
    <2>2. QED
      BY <1>1, <2>1
  <1>4. ASSUME NEW w \in Worker, NEW i \in JobId, Claim(w, i)
        PROVE  \E v \in Worker : held'[v] = j
    <2>1. /\ hub # "down" /\ faults = 0 /\ held' = [held EXCEPT ![w] = i]
          /\ aiJobs' = Upsert(aiJobs, i, ClaimedRow(aiJobs[i]))
          /\ pc[w] = "claim" /\ i \in DOMAIN aiJobs
      BY <1>4, ClaimEffect DEF budget
    <2>2. CASE j = i
      BY <2>1, <2>2 DEF TypeOK
    <2>3. CASE j # i
      <3>1. j \in DOMAIN aiJobs /\ aiJobs'[j] = aiJobs[j]
        BY <2>1, <2>3 DEF Upsert
      <3>2. \A v \in Worker : held[v] = j => held'[v] = j
        BY <2>1, <3>1, NoneAssumption DEF OwnershipInv, Working, TypeOK
      <3>3. QED
        BY <1>1, <2>1, <3>1, <3>2
    <2>4. QED
      BY <2>2, <2>3
  <1>5. ASSUME NEW w \in Worker, Settle(w)
        PROVE  \E v \in Worker : held'[v] = j
    <2>1. PICK row : SettledRow(w, row) /\ aiJobs' = Upsert(aiJobs, held[w], row)
      BY <1>5, SettleEffect
    <2>2. /\ held[w] \in DOMAIN aiJobs
          /\ row.status # "running"
      BY <1>5, <2>1, ReleaseEffect, SettledRowFields
         DEF OwnershipInv, ExclusiveExecution, Working
    <2>3. j # held[w] /\ j \in DOMAIN aiJobs /\ aiJobs'[j] = aiJobs[j]
      BY <2>1, <2>2 DEF Upsert
    <2>4. \A v \in Worker : held[v] = j => held'[v] = j
      BY <1>5, <2>3, ReleaseEffect DEF TypeOK
    <2>5. hub # "down" /\ faults = 0
      BY <1>5, ReleaseEffect, SettleEffect
    <2>6. QED
      BY <1>1, <2>3, <2>4, <2>5
  <1>6. ASSUME NEW w \in Worker, Drop(w)
        PROVE  FALSE
    BY <1>6 DEF Drop, FinishFault, SettleFault, StoreFails, TypeOK
  <1>7. CASE CloseReturns \/ Crash
    BY <1>7 DEF CloseReturns, Crash, VolatileLost
  <1>8. CASE Restart \/ RestartFault
    <2>1. aiJobs' = Requeued
      BY <1>8 DEF Restart, RestartFault, StoreFails, TypeOK
    <2>2. QED
      BY <2>1 DEF Requeued, TypeOK, AIJob
  <1>9. QED
    BY <1>2, <1>3, <1>4, <1>5, <1>6, <1>7, <1>8, Cases

\* The last worker falls asleep only when nothing is claimable, and whoever
\* stores or requeues a row has a token still to send.
LEMMA NoLostWakeupStep ==
  TypeOK /\ NoLostWakeup /\ [Next]_vars => NoLostWakeup'
  <1> SUFFICES ASSUME TypeOK, NoLostWakeup, [Next]_vars,
                      hub' = "up", faults' = 0,
                      NEW j \in DOMAIN aiJobs', aiJobs'[j].status = "queued",
                      \A w \in Worker : pc'[w] = "select"
               PROVE  wake' \/ \E c \in Client : cpc'[c] = "notify"
    BY DEF NoLostWakeup
  <1>1. PICK w0 \in Worker : TRUE
    BY PoolAssumption
  <1>2. ASSUME hub = "up", faults = 0, j \in DOMAIN aiJobs,
               aiJobs[j].status = "queued", \A w \in Worker : pc[w] = "select",
               wake' = wake,
               \A c \in Client : cpc[c] = "notify" => cpc'[c] = "notify"
        PROVE  wake' \/ \E c \in Client : cpc'[c] = "notify"
    BY <1>2 DEF NoLostWakeup
  <1>3. CASE OtherStep
    <2>1. CASE \E c \in Client : EnqueueNotify(c)
      BY <2>1 DEF EnqueueNotify
    <2>2. CASE ~ \E c \in Client : EnqueueNotify(c)
      <3>1. aiJobs' = aiJobs /\ pc' = pc
        BY <1>3, OtherUnchanged DEF workers
      <3>2. /\ wake' = wake /\ hub = "up" /\ faults = 0
            /\ \A c \in Client : cpc[c] = "notify" => cpc'[c] = "notify"
        BY <1>3, <2>2
           DEF OtherStep, CaptureStep, SavePacket, SavePacketFault, EnqueueCall,
               EnqueueRead, EnqueueMuFree, EnqueueFind, EnqueueFault, Tick, Close,
               StoreWorks, StoreFails, vars, process, clients, budget, TypeOK
      <3>3. QED
        BY <1>2, <3>1, <3>2
    <2>3. QED
      BY <2>1, <2>2
  <1>4. ASSUME NEW c \in Client, NEW i \in JobId, EnqueueSave(c, i)
        PROVE  \E e \in Client : cpc'[e] = "notify"
    BY <1>4 DEF EnqueueSave, TypeOK
  <1>5. ASSUME NEW w \in Worker, Idle(w)
        PROVE  wake' \/ \E c \in Client : cpc'[c] = "notify"
    <2>1. NoClaim(w)
      BY <1>5 DEF Idle, WakeUp, TickerFires, StopWorker, Goto, TypeOK
    <2>2. Eligible = {} /\ aiJobs' = aiJobs
      BY <2>1 DEF NoClaim, Sleep, StoreFails, TypeOK, tables
    <2>3. QED
      BY <2>2 DEF Eligible, Claimable
  <1>6. ASSUME NEW w \in Worker,
               (\E i \in JobId : Claim(w, i)) \/ Proceed(w) \/ Settle(w) \/ Drop(w)
        PROVE  FALSE
    <2>1. pc'[w] # "select"
      BY <1>6, ClaimEffect, ProceedEffect, ReleaseEffect DEF TypeOK, Working
    <2>2. QED
      BY <2>1
  <1>7. CASE CloseReturns \/ Crash \/ Restart \/ RestartFault
    BY <1>7 DEF CloseReturns, Crash, VolatileLost, Restart, RestartFault, Started
  <1>8. QED
    BY <1>3, <1>4, <1>5, <1>6, <1>7, Cases

-------------------------------------------------------------------------------
(* One process among others.                                                 *)

\* What a process knows by itself survives its own steps.
LEMMA PoolStep ==
  TypeOK /\ PoolInv /\ DownInv /\ [Next]_vars => PoolInv'
  <1> SUFFICES ASSUME TypeOK, PoolInv, DownInv, [Next]_vars
               PROVE  /\ \A w \in Worker : pc'[w] \in Working =>
                           held'[w] \in DOMAIN aiJobs' /\ tries'[w] >= 1
                      /\ \A w \in Worker : pc'[w] \notin Working => held'[w] = None
                      /\ \A c \in Client : cpc'[c] # "idle" => creq'[c] \in Request
    BY AnswerStep DEF PoolInv
  <1> DEFINE Knows(w) ==
        /\ pc[w] \in Working => held[w] \in DOMAIN aiJobs /\ tries[w] >= 1
        /\ pc[w] \notin Working => held[w] = None
  <1>1. \A w \in Worker : Knows(w)
    BY DEF PoolInv
  <1>2. ASSUME NEW w \in Worker, pc'[w] = pc[w], held'[w] = held[w],
               tries'[w] = tries[w]
        PROVE  Knows(w)'
    BY <1>1, <1>2, BindingKept
  <1>3. \A w \in Worker : Knows(w)'
    <2>1. CASE UNCHANGED workers
      BY <1>2, <2>1 DEF workers
    <2>2. ASSUME NEW w \in Worker, NEW j \in JobId, Claim(w, j)
          PROVE  \A v \in Worker : Knows(v)'
      <3>1. /\ pc' = [pc EXCEPT ![w] = "load"]
            /\ held' = [held EXCEPT ![w] = j]
            /\ tries' = [tries EXCEPT ![w] = aiJobs[j].attempts + 1]
            /\ j \in DOMAIN aiJobs /\ aiJobs[j] \in AIJob
        BY <2>2, ClaimEffect DEF TypeOK
      <3>2. j \in DOMAIN aiJobs' /\ aiJobs[j].attempts + 1 >= 1
        BY <3>1, BindingKept DEF AIJob
      <3>3. Knows(w)'
        BY <3>1, <3>2 DEF Working, TypeOK
      <3>4. QED
        BY <1>2, <3>1, <3>3 DEF TypeOK
    <2>3. ASSUME NEW w \in Worker, Proceed(w)
          PROVE  \A v \in Worker : Knows(v)'
      BY <1>1, <1>2, <2>3, ProceedEffect DEF TypeOK
    <2>4. ASSUME NEW w \in Worker, Idle(w)
          PROVE  \A v \in Worker : Knows(v)'
      BY <1>1, <1>2, <2>4, IdleEffect DEF TypeOK
    <2>5. ASSUME NEW w \in Worker, Settle(w) \/ Drop(w)
          PROVE  \A v \in Worker : Knows(v)'
      BY <1>2, <2>5, ReleaseEffect DEF TypeOK, Working
    <2>6. CASE CloseReturns \/ Crash
      BY <2>6 DEF CloseReturns, Crash, VolatileLost, Working
    <2>7. CASE Restart \/ RestartFault
      <3>1. \A w \in Worker : pc[w] = "dead" /\ held[w] = None
        BY <1>1, <2>7 DEF Restart, RestartFault, DownInv, Working
      <3>2. QED
        BY <2>7, <3>1 DEF Restart, RestartFault, Started, Working
    <2>8. QED
      BY <2>1, <2>2, <2>3, <2>4, <2>5, <2>6, <2>7, Cases, OtherUnchanged
      DEF EnqueueSave
  <1>4. \A c \in Client : cpc'[c] # "idle" => creq'[c] \in Request
    <2>1. ASSUME NEW c \in Client, cpc[c] # "idle"
          PROVE  creq[c] \in Request /\ [creq[c] EXCEPT !.createdAt = now] \in Request
      BY <2>1 DEF PoolInv, Request, TypeOK
    <2>2. CASE UNCHANGED clients
      BY <2>1, <2>2 DEF clients
    <2>3. ASSUME NEW c \in Client, NEW d \in Doc, NEW k \in Recipe,
                 EnqueueRead(c, d, k)
          PROVE  \A e \in Client : cpc'[e] # "idle" => creq'[e] \in Request
      BY <2>1, <2>3 DEF EnqueueRead, TypeOK, Request
    <2>4. ASSUME NEW c \in Client,
                 EnqueueFind(c) \/ (\E j \in JobId : EnqueueSave(c, j))
                   \/ EnqueueNotify(c) \/ EnqueueFault(c)
          PROVE  \A e \in Client : cpc'[e] # "idle" => creq'[e] \in Request
      BY <2>1, <2>4 DEF EnqueueFind, EnqueueSave, EnqueueNotify, EnqueueFault, TypeOK
    <2>5. QED
      BY <2>2, <2>3, <2>4, ClientsStep
  <1>5. QED
    BY <1>3, <1>4

\* Whoever else works on the tables deletes no row, binds none to something else
\* and takes no response back.
TablesGrow ==
  /\ \A i \in DOMAIN aiJobs :
       i \in DOMAIN aiJobs' /\ Binding(aiJobs'[i]) = Binding(aiJobs[i])
  /\ responses \subseteq responses'

LEMMA StepGrows ==
  ASSUME TypeOK, PoolInv, [Next]_vars
  PROVE  TablesGrow
  BY BindingKept, ResponsesGrow DEF TablesGrow

\* What a process knows by itself survives the steps of others.
LEMMA PoolFrame ==
  ASSUME TypeOK, PoolInv, DownInv, TablesGrow,
         UNCHANGED <<hub, wake, workers, clients>>
  PROVE  PoolInv' /\ DownInv'
  <1>1. DownInv'
    BY DEF DownInv, workers, clients
  <1>2. AnswerInv'
    <2> SUFFICES ASSUME NEW w \in Worker, pc[w] \in {"call", "save", "finish"}
                 PROVE  /\ pc[w] \in {"call", "save"} =>
                             packet[w] = <<aiJobs'[held[w]].doc, aiJobs'[held[w]].rev>>
                        /\ pc[w] = "finish" =>
                             \E resp \in responses' :
                               /\ resp.id = <<held[w], tries[w]>>
                               /\ Binding(resp) = Binding(aiJobs'[held[w]])
      BY DEF AnswerInv, workers
    <2>1. held[w] \in DOMAIN aiJobs
      BY DEF PoolInv, Working
    <2>2. Binding(aiJobs'[held[w]]) = Binding(aiJobs[held[w]])
      BY <2>1 DEF TablesGrow
    <2>3. /\ aiJobs'[held[w]].doc = aiJobs[held[w]].doc
          /\ aiJobs'[held[w]].rev = aiJobs[held[w]].rev
      BY <2>2 DEF Binding
    <2>4. QED
      BY <2>2, <2>3 DEF PoolInv, AnswerInv, TablesGrow
  <1>3. QED
    BY <1>1, <1>2 DEF PoolInv, TablesGrow, workers, clients

\* A row that is taken keeps its binding, and is not done.
LEMMA TakeGrows ==
  ASSUME TypeOK, DoneHasItsResponse, NEW w \in Worker, NEW j \in DOMAIN aiJobs,
         NEW n \in Nat, Take(w, j, n)
  PROVE  /\ TablesGrow
         /\ DoneHasItsResponse'
         /\ DOMAIN aiJobs' = DOMAIN aiJobs
         /\ aiJobs'[j].attempts = aiJobs[j].attempts + 1
         /\ \A i \in DOMAIN aiJobs : i # j => aiJobs'[i] = aiJobs[i]
  <1>1. j \in JobId /\ aiJobs[j] \in AIJob
    BY DEF TypeOK
  <1>2. aiJobs' = Upsert(aiJobs, j, ClaimedRow(aiJobs[j])) /\ responses' = responses
    BY <1>1, TakeEffect
  <1>3. /\ DOMAIN aiJobs' = DOMAIN aiJobs
        /\ aiJobs'[j] = ClaimedRow(aiJobs[j])
        /\ \A i \in DOMAIN aiJobs : i # j => aiJobs'[i] = aiJobs[i]
    BY <1>2 DEF Upsert
  <1>4. /\ Binding(aiJobs'[j]) = Binding(aiJobs[j])
        /\ aiJobs'[j].attempts = aiJobs[j].attempts + 1
        /\ aiJobs'[j].status = "running"
    BY <1>1, <1>3, ClaimedRowFields
  <1>5. TablesGrow
    BY <1>2, <1>3, <1>4 DEF TablesGrow
  <1>6. DoneHasItsResponse'
    BY <1>2, <1>3, <1>4 DEF DoneHasItsResponse
  <1>7. QED
    BY <1>3, <1>4, <1>5, <1>6

\* What a process knows by itself survives that it takes a row by an old copy.
LEMMA TakePool ==
  ASSUME TypeOK, PoolInv, DownInv, DoneHasItsResponse, NEW w \in Worker,
         NEW j \in DOMAIN aiJobs, NEW n \in Nat, Take(w, j, n)
  PROVE  PoolInv' /\ DownInv'
  <1>1. j \in JobId /\ n + 1 >= 1
    BY DEF TypeOK
  <1>2. /\ pc[w] = "claim"
        /\ pc' = [pc EXCEPT ![w] = "load"]
        /\ held' = [held EXCEPT ![w] = j]
        /\ tries' = [tries EXCEPT ![w] = n + 1]
        /\ UNCHANGED <<responses, packet, process, clients>>
    BY <1>1, TakeEffect
  <1>3. TablesGrow /\ DOMAIN aiJobs' = DOMAIN aiJobs
    BY TakeGrows
  <1>4. DownInv'
    BY <1>2 DEF DownInv, process, clients
  <1>5. \A v \in Worker : v # w =>
          pc'[v] = pc[v] /\ held'[v] = held[v] /\ tries'[v] = tries[v]
    BY <1>2 DEF TypeOK
  <1>6. pc'[w] = "load" /\ held'[w] = j /\ tries'[w] = n + 1
    BY <1>2 DEF TypeOK
  <1>7. AnswerInv'
    <2> SUFFICES ASSUME NEW v \in Worker, pc'[v] \in {"call", "save", "finish"}
                 PROVE  /\ pc'[v] \in {"call", "save"} =>
                             packet'[v] = <<aiJobs'[held'[v]].doc, aiJobs'[held'[v]].rev>>
                        /\ pc'[v] = "finish" =>
                             \E resp \in responses' :
                               /\ resp.id = <<held'[v], tries'[v]>>
                               /\ Binding(resp) = Binding(aiJobs'[held'[v]])
      BY DEF AnswerInv
    <2>1. /\ v # w
          /\ pc'[v] = pc[v] /\ held'[v] = held[v] /\ tries'[v] = tries[v]
      BY <1>5, <1>6
    <2>2. held[v] \in DOMAIN aiJobs
      BY <2>1 DEF PoolInv, Working
    <2>3. Binding(aiJobs'[held[v]]) = Binding(aiJobs[held[v]])
      BY <1>3, <2>2 DEF TablesGrow
    <2>4. /\ aiJobs'[held[v]].doc = aiJobs[held[v]].doc
          /\ aiJobs'[held[v]].rev = aiJobs[held[v]].rev
      BY <2>3 DEF Binding
    <2>5. packet' = packet /\ responses' = responses
      BY <1>2
    <2>6. /\ pc[v] \in {"call", "save"} =>
               packet[v] = <<aiJobs[held[v]].doc, aiJobs[held[v]].rev>>
          /\ pc[v] = "finish" =>
               \E resp \in responses :
                 /\ resp.id = <<held[v], tries[v]>>
                 /\ Binding(resp) = Binding(aiJobs[held[v]])
      BY DEF PoolInv, AnswerInv
    <2>7. QED
      BY <2>1, <2>3, <2>4, <2>5, <2>6
  <1>8. QED
    BY <1>1, <1>2, <1>3, <1>4, <1>5, <1>6, <1>7 DEF PoolInv, Working, clients

\* It survives that a claim ends without a row.
LEMMA SleepPool ==
  ASSUME TypeOK, PoolInv, DownInv, NEW w \in Worker, Sleep(w), StoreWorks
  PROVE  /\ TypeOK' /\ PoolInv' /\ DownInv'
         /\ pc' = [pc EXCEPT ![w] = "select"]
         /\ UNCHANGED <<tables, held, tries>>
  <1>1. /\ pc[w] = "claim"
        /\ pc' = [pc EXCEPT ![w] = "select"]
        /\ UNCHANGED <<now, tables, process, wake, clients, budget, held, tries,
                       packet, problem>>
    BY DEF Sleep, Goto, StoreWorks
  <1>2. TypeOK'
    BY <1>1 DEF TypeOK, WorkerPc, Working, tables, process, clients, budget
  <1>3. PoolInv'
    BY <1>1 DEF TypeOK, PoolInv, AnswerInv, Working, tables, clients
  <1>4. DownInv'
    BY <1>1 DEF DownInv, process, clients
  <1>5. QED
    BY <1>1, <1>2, <1>3, <1>4

\* Only a claim counts an attempt.
LEMMA AttemptsKept ==
  ASSUME TypeOK, PoolInv, NEW i \in DOMAIN aiJobs,
         \/ OtherStep
         \/ \E c \in Client, j \in JobId : EnqueueSave(c, j)
         \/ \E w \in Worker : Proceed(w) \/ Idle(w) \/ Settle(w) \/ Drop(w)
         \/ Restart \/ RestartFault
  PROVE  aiJobs'[i].attempts = aiJobs[i].attempts
  <1>1. CASE OtherStep \/ (\E w \in Worker : Proceed(w) \/ Idle(w) \/ Drop(w))
               \/ RestartFault
    <2>1. aiJobs' = aiJobs
      BY <1>1, OtherUnchanged, ProceedEffect, IdleEffect
         DEF Drop, FinishFault, SettleFault, RestartFault, tables
    <2>2. QED
      BY <2>1
  <1>2. CASE \E c \in Client, j \in JobId : EnqueueSave(c, j)
    BY <1>2 DEF EnqueueSave, SetJob, Upsert
  <1>3. CASE Restart
    BY <1>3 DEF Restart, Requeued, TypeOK, AIJob
  <1>4. ASSUME NEW w \in Worker, Settle(w)
        PROVE  aiJobs'[i].attempts = aiJobs[i].attempts
    <2>1. PICK row : SettledRow(w, row) /\ aiJobs' = Upsert(aiJobs, held[w], row)
      BY <1>4, SettleEffect
    <2>2. row.attempts = aiJobs[held[w]].attempts
      BY <1>4, <2>1, ReleaseEffect, SettledRowFields DEF Working
    <2>3. CASE i = held[w]
      <3>1. aiJobs'[i] = row
        BY <2>1, <2>3 DEF Upsert
      <3>2. QED
        BY <2>2, <2>3, <3>1
    <2>4. CASE i # held[w]
      BY <2>1, <2>4 DEF Upsert
    <2>5. QED
      BY <2>3, <2>4
  <1>5. QED
    BY <1>1, <1>2, <1>3, <1>4

\* Only a claim makes a waiting row run, and not before the second it is due in.
LEMMA RetryStarts ==
  ASSUME TypeOK, PoolInv, [Next]_vars, NEW j \in DOMAIN aiJobs,
         aiJobs[j].status = "retry_wait", aiJobs'[j].status = "running",
         aiJobs[j].nextRetryAt \in Nat
  PROVE  Second(aiJobs[j].nextRetryAt) <= Second(now)
  <1>1. ASSUME NEW w \in Worker, Claim(w, j)
        PROVE  Second(aiJobs[j].nextRetryAt) <= Second(now)
    <2>1. Due(aiJobs[j])
      BY <1>1 DEF Claim, FirstEligible, Eligible, Claimable
    <2>2. TextLeq(aiJobs[j].nextRetryAt, now) /\ now \in Nat
      BY <2>1 DEF Due, NoTime, TypeOK
    <2>3. QED
      BY <2>2, TextKeepsSeconds
  <1>2. ASSUME NEW w \in Worker, Settle(w), held[w] = j, SettledRow(w, aiJobs'[j])
        PROVE  FALSE
    BY <1>2, ReleaseEffect, SettledRowFields DEF Working
  <1>3. QED
    BY <1>1, <1>2, RowMoves

\* Whatever waits for a retry was given a time.
LEMMA RetryTimes ==
  ASSUME TypeOK, PoolInv, [Next]_vars, NEW j \in DOMAIN aiJobs',
         aiJobs'[j].status = "retry_wait"
  PROVE  \/ j \in DOMAIN aiJobs /\ aiJobs'[j] = aiJobs[j]
         \/ aiJobs'[j].nextRetryAt \in Nat
  <1>1. CASE j \in DOMAIN aiJobs
    <2>1. aiJobs[j] \in AIJob
      BY <1>1 DEF TypeOK
    <2>2. ASSUME NEW w \in Worker, Settle(w), held[w] = j, SettledRow(w, aiJobs'[j])
          PROVE  aiJobs'[j].nextRetryAt \in Nat
      <3>1. now + RetryDelay(tries[w]) \in Nat
        BY RetryDelayType DEF TypeOK
      <3>2. aiJobs'[j] = RetryRow(aiJobs[j], tries[w])
        BY <2>1, <2>2 DEF SettledRow, DoneRow, FailRow, AIJob
      <3>3. QED
        BY <2>1, <3>1, <3>2 DEF RetryRow, AIJob
    <2>3. ClaimedRow(aiJobs[j]).status = "running"
      BY <2>1, ClaimedRowFields
    <2>4. [aiJobs[j] EXCEPT !.status = "queued"].status = "queued"
      BY <2>1 DEF AIJob
    <2>5. QED
      BY <1>1, <2>2, <2>3, <2>4, RowMoves
  <1>2. CASE j \notin DOMAIN aiJobs
    <2>1. PICK c \in Client, i \in JobId : EnqueueSave(c, i)
      BY <1>2, RowsAdded
    <2>2. aiJobs'[j] = NewRow(creq[c])
      BY <1>2, <2>1 DEF EnqueueSave, SetJob, Upsert
    <2>3. QED
      BY <2>2 DEF NewRow
  <1>3. QED
    BY <1>1, <1>2

\* Whoever serves requests or works on rows does not start or end the process.
LEMMA ServingKeepsHub ==
  ASSUME \/ CaptureStep
         \/ \E c \in Client : EnqueueCall(c) \/ EnqueueStep(c) \/ EnqueueFault(c)
         \/ \E w \in Worker : WorkerStep(w) \/ WorkerFault(w)
         \/ Tick
  PROVE  UNCHANGED process
  <1>1. ASSUME NEW c \in Client, EnqueueCall(c) \/ EnqueueStep(c) \/ EnqueueFault(c)
        PROVE  UNCHANGED process
    BY <1>1 DEF EnqueueCall, EnqueueStep, EnqueueRead, EnqueueFind, EnqueueSave,
                EnqueueNotify, EnqueueFault
  <1>2. ASSUME NEW w \in Worker, WorkerStep(w) \/ WorkerFault(w)
        PROVE  UNCHANGED process
    BY <1>2 DEF WorkerStep, WorkerFault, Claim, Take, NoClaim, Sleep, LoadPacket,
                LoadError, CallModel, SaveResponse, Finish, Retry, Fail, WakeUp, TickerFires,
                SaveResponseFault, FinishFault, SettleFault
  <1>3. QED
    BY <1>1, <1>2 DEF CaptureStep, SavePacket, SavePacketFault, Tick

-------------------------------------------------------------------------------
(* The account of a row.                                                     *)

LEMMA BackersFinite ==
  ASSUME IsFiniteSet(Worker), NEW S \in SUBSET Worker
  PROVE  IsFiniteSet(S) /\ Cardinality(S) \in Nat
  BY FS_Subset, FS_CardinalityType

\* Fewer workers are not charged more.
LEMMA FewerBackers ==
  ASSUME IsFiniteSet(Worker), NEW S \in SUBSET Worker, NEW T \in SUBSET S
  PROVE  Cardinality(T) <= Cardinality(S)
  BY FS_Subset

\* The three parts of the account are natural numbers.
LEMMA ChargeType ==
  ASSUME IsFiniteSet(Worker), TypeOK, NEW j \in DOMAIN aiJobs
  PROVE  /\ Cardinality(Backers(j)) \in Nat
         /\ Waiting(j) \in 0 .. 1
         /\ Spent(j) \in Nat
         /\ aiJobs[j] \in AIJob /\ aiJobs[j].attempts \in Nat
  <1>1. aiJobs[j] \in AIJob /\ aiJobs[j].attempts \in Nat
    BY DEF TypeOK, AIJob
  <1>2. Cardinality(Backers(j)) \in Nat
    BY BackersFinite DEF Backers
  <1>3. Spent(j) \in Nat
    BY <1>1, PoolAssumption DEF Spent
  <1>4. QED
    BY <1>1, <1>2, <1>3 DEF Waiting

\* A claim trades the place in the queue for a worker, or for an attempt when the
\* worker may not retry any more.  It is charged both when the copy it was made by
\* would grant a retry and the row itself has none left.
LEMMA TakeCharge ==
  ASSUME IsFiniteSet(Worker), TypeOK, PoolInv, NEW w \in Worker,
         NEW j \in DOMAIN aiJobs, NEW n \in Nat, n <= aiJobs[j].attempts,
         Take(w, j, n)
  PROVE  Charge(j)' <=
           Charge(j) + IF n + 1 < MaxAttempts /\ aiJobs[j].attempts + 1 >= MaxAttempts
                         THEN 1 ELSE 0
  <1>1. /\ j \in JobId
        /\ pc[w] = "claim"
        /\ aiJobs[j].status \in {"queued", "retry_wait"}
        /\ aiJobs' = Upsert(aiJobs, j, ClaimedRow(aiJobs[j]))
        /\ held' = [held EXCEPT ![w] = j]
        /\ tries' = [tries EXCEPT ![w] = n + 1]
    BY TakeEffect DEF TypeOK
  <1>2. /\ Cardinality(Backers(j)) \in Nat
        /\ aiJobs[j] \in AIJob /\ aiJobs[j].attempts \in Nat
        /\ Spent(j) \in Nat
    BY ChargeType
  <1>3. aiJobs'[j] = ClaimedRow(aiJobs[j])
    BY <1>1 DEF Upsert
  <1>4. /\ aiJobs'[j].status = "running"
        /\ aiJobs'[j].attempts = aiJobs[j].attempts + 1
    BY <1>2, <1>3, ClaimedRowFields
  <1>5. Waiting(j) = 1 /\ Waiting(j)' = 0
    BY <1>1, <1>4 DEF Waiting
  <1>6. w \notin Backers(j)
    BY <1>1, NoneAssumption DEF PoolInv, Working, Backers
  <1>7. /\ Spent(j)' \in Nat /\ Spent(j)' <= Spent(j) + 1
        /\ aiJobs[j].attempts + 1 < MaxAttempts => Spent(j) = 0 /\ Spent(j)' = 0
    BY <1>2, <1>4, PoolAssumption DEF Spent
  <1>8. CASE n + 1 < MaxAttempts
    <2>1. Backers(j)' = Backers(j) \cup {w}
      BY <1>1, <1>8 DEF Backers, TypeOK
    <2>2. Cardinality(Backers(j))' = Cardinality(Backers(j)) + 1
      <3>1. IsFiniteSet(Backers(j))
        BY BackersFinite DEF Backers
      <3>2. QED
        BY <1>6, <2>1, <3>1, FS_AddElement
    <2>3. QED
      BY <1>2, <1>5, <1>7, <1>8, <2>2, PoolAssumption DEF Charge
  <1>9. CASE ~(n + 1 < MaxAttempts)
    <2>1. Backers(j)' = Backers(j)
      BY <1>1, <1>6, <1>9 DEF Backers, TypeOK
    <2>2. QED
      BY <1>2, <1>5, <1>7, <1>9, <2>1 DEF Charge
  <1>10. QED
    BY <1>8, <1>9

\* No other row is charged for it.
LEMMA TakeOthers ==
  ASSUME TypeOK, PoolInv, NEW w \in Worker, NEW j \in DOMAIN aiJobs, NEW n \in Nat,
         Take(w, j, n), NEW i \in DOMAIN aiJobs, i # j
  PROVE  Charge(i)' = Charge(i)
  <1>1. /\ pc[w] = "claim"
        /\ aiJobs' = Upsert(aiJobs, j, ClaimedRow(aiJobs[j]))
        /\ held' = [held EXCEPT ![w] = j]
        /\ tries' = [tries EXCEPT ![w] = n + 1]
    BY TakeEffect DEF TypeOK
  <1>2. held[w] = None /\ i # None
    BY <1>1, NoneAssumption DEF PoolInv, Working, TypeOK
  <1>3. Backers(i)' = Backers(i)
    BY <1>1, <1>2 DEF Backers, TypeOK
  <1>4. aiJobs'[i] = aiJobs[i]
    BY <1>1 DEF Upsert
  <1>5. QED
    BY <1>3, <1>4 DEF Charge, Waiting, Spent

\* A claim by the copy it has just selected only moves the charge.
LEMMA ClaimCharge ==
  ASSUME IsFiniteSet(Worker), TypeOK, PoolInv, NEW w \in Worker, NEW j \in JobId,
         Claim(w, j)
  PROVE  Charge(j)' <= Charge(j)
  <1>1. /\ j \in DOMAIN aiJobs
        /\ aiJobs[j].attempts \in Nat
        /\ Take(w, j, aiJobs[j].attempts)
    BY ClaimTakes
  <1>2. Charge(j)' <= Charge(j) + 0
    BY <1>1, TakeCharge, PoolAssumption
  <1>3. Charge(j) \in Nat
    BY <1>1, ChargeType DEF Charge
  <1>4. QED
    BY <1>2, <1>3

\* A retry trades the worker for a place in the queue; otherwise the row is
\* given up or done.
LEMMA SettleCharge ==
  ASSUME IsFiniteSet(Worker), TypeOK, PoolInv, NEW w \in Worker, NEW j \in DOMAIN aiJobs,
         Settle(w), held[w] = j, SettledRow(w, aiJobs'[j])
  PROVE  Charge(j)' <= Charge(j)
  <1>1. /\ Cardinality(Backers(j)) \in Nat
        /\ Waiting(j) \in 0 .. 1
        /\ Spent(j) \in Nat
        /\ aiJobs[j] \in AIJob /\ aiJobs[j].attempts \in Nat
    BY ChargeType
  <1>2. /\ aiJobs'[j].attempts = aiJobs[j].attempts
        /\ aiJobs'[j].status \in {"done", "retry_wait", "failed"}
    BY ReleaseEffect, SettledRowFields DEF Working
  <1>3. Spent(j)' = Spent(j)
    BY <1>2 DEF Spent
  <1>4. Backers(j)' = Backers(j) \ {w}
    BY ReleaseEffect, NoneAssumption DEF Backers, TypeOK
  <1>5. Cardinality(Backers(j))' \in Nat
    BY <1>4, BackersFinite DEF Backers
  <1>6. CASE tries[w] < MaxAttempts
    <2>1. w \in Backers(j) /\ IsFiniteSet(Backers(j))
      BY <1>6, BackersFinite DEF Backers
    <2>2. Cardinality(Backers(j))' = Cardinality(Backers(j)) - 1
      BY <1>4, <2>1, FS_RemoveElement
    <2>3. Waiting(j)' \in 0 .. 1
      BY DEF Waiting
    <2>4. QED
      BY <1>1, <1>3, <2>2, <2>3 DEF Charge
  <1>7. CASE ~(tries[w] < MaxAttempts)
    <2>1. aiJobs'[j].status # "retry_wait"
      BY <1>1, <1>7 DEF SettledRow, DoneRow, FailRow, AIJob
    <2>2. Waiting(j)' = 0
      BY <1>2, <2>1 DEF Waiting
    <2>3. Cardinality(Backers(j))' <= Cardinality(Backers(j))
      BY <1>4, FewerBackers DEF Backers
    <2>4. QED
      BY <1>1, <1>3, <1>5, <2>2, <2>3 DEF Charge
  <1>8. QED
    BY <1>6, <1>7

\* No step but the requeue of a new process makes a claim possible that was not.
LEMMA AccountStep ==
  ASSUME IsFiniteSet(Worker), TypeOK, PoolInv, DownInv, [Next]_vars,
         NEW j \in DOMAIN aiJobs
  PROVE  \/ Charge(j)' <= Charge(j)
         \/ Restart /\ Charge(j)' <= Charge(j) + 1
  <1>1. /\ Cardinality(Backers(j)) \in Nat
        /\ Waiting(j) \in 0 .. 1
        /\ Spent(j) \in Nat
        /\ aiJobs[j] \in AIJob /\ aiJobs[j].attempts \in Nat
    BY ChargeType
  <1>2. ASSUME aiJobs'[j] = aiJobs[j], Backers(j)' \subseteq Backers(j)
        PROVE  Charge(j)' <= Charge(j)
    <2>1. /\ Cardinality(Backers(j))' \in Nat
          /\ Cardinality(Backers(j))' <= Cardinality(Backers(j))
      BY <1>2, FewerBackers, BackersFinite DEF Backers
    <2>2. Waiting(j)' = Waiting(j) /\ Spent(j)' = Spent(j)
      BY <1>2 DEF Waiting, Spent
    <2>3. QED
      BY <1>1, <2>1, <2>2 DEF Charge
  <1>3. ASSUME NEW w \in Worker, Claim(w, j)
        PROVE  Charge(j)' <= Charge(j)
    <2>1. j \in JobId
      BY DEF TypeOK
    <2>2. QED
      BY <1>3, <2>1, ClaimCharge
  <1>4. ASSUME NEW w \in Worker, Settle(w), held[w] = j, SettledRow(w, aiJobs'[j])
        PROVE  Charge(j)' <= Charge(j)
    BY <1>4, SettleCharge
  <1>5. CASE /\ Restart
             /\ aiJobs[j].status = "running"
             /\ aiJobs'[j] = [aiJobs[j] EXCEPT !.status = "queued"]
    <2>1. Backers(j)' = Backers(j)
      BY <1>5 DEF Restart, Started, Backers
    <2>2. aiJobs'[j].attempts = aiJobs[j].attempts
      BY <1>1, <1>5 DEF AIJob
    <2>3. Spent(j)' = Spent(j) /\ Waiting(j) = 0 /\ Waiting(j)' \in 0 .. 1
      BY <1>5, <2>2 DEF Spent, Waiting
    <2>4. Charge(j)' <= Charge(j) + 1
      BY <1>1, <2>1, <2>3 DEF Charge
    <2>5. QED
      BY <1>5, <2>4
  <1>6. CASE aiJobs'[j] = aiJobs[j]
    <2>1. CASE \E w \in Worker : Claim(w, j)
      BY <1>3, <2>1
    <2>2. CASE ~ \E w \in Worker : Claim(w, j)
      <3>1. Backers(j)' \subseteq Backers(j)
        <4>1. CASE UNCHANGED <<held, tries>>
          BY <4>1 DEF Backers
        <4>2. ASSUME NEW w \in Worker, NEW i \in JobId, Claim(w, i)
              PROVE  Backers(j)' \subseteq Backers(j)
          <5>1. i # j
            BY <2>2, <4>2
          <5>2. QED
            BY <4>2, <5>1, ClaimEffect DEF Backers, TypeOK
        <4>3. ASSUME NEW w \in Worker, Settle(w) \/ Drop(w)
              PROVE  Backers(j)' \subseteq Backers(j)
          BY <4>3, ReleaseEffect, NoneAssumption DEF Backers, TypeOK
        <4>4. CASE CloseReturns \/ Crash
          BY <4>4, NoneAssumption
          DEF CloseReturns, Crash, VolatileLost, Backers, TypeOK
        <4>5. CASE Restart \/ RestartFault
          BY <4>1, <4>5 DEF Restart, RestartFault, Started
        <4>6. QED
          BY <4>1, <4>2, <4>3, <4>4, <4>5, Cases, OtherUnchanged, ProceedEffect,
             IdleEffect DEF EnqueueSave, workers
      <3>2. QED
        BY <1>2, <1>6, <3>1
    <2>3. QED
      BY <2>1, <2>2
  <1>7. QED
    BY <1>3, <1>4, <1>5, <1>6, RowMoves

\* A new row may be claimed once.
LEMMA AccountOpened ==
  ASSUME IsFiniteSet(Worker), TypeOK, PoolInv, DownInv, [Next]_vars,
         NEW j \in DOMAIN aiJobs', j \notin DOMAIN aiJobs
  PROVE  Charge(j)' <= 1
  <1>1. PICK c \in Client, i \in JobId : EnqueueSave(c, i)
    BY RowsAdded
  <1>2. aiJobs'[j] = NewRow(creq[c]) /\ UNCHANGED <<held, tries>>
    BY <1>1 DEF EnqueueSave, SetJob, Upsert, workers
  <1>3. j \in JobId
    BY TypeStep DEF TypeOK
  <1>4. Backers(j)' = {}
    BY <1>2, <1>3, NoneAssumption DEF Backers, PoolInv
  <1>5. Cardinality(Backers(j))' = 0
    BY <1>4, FS_EmptySet
  <1>6. aiJobs'[j].attempts = 0 /\ aiJobs'[j].status = "queued"
    BY <1>2 DEF NewRow
  <1>7. Waiting(j)' = 1 /\ Spent(j)' = 0
    BY <1>6, PoolAssumption DEF Waiting, Spent
  <1>8. QED
    BY <1>5, <1>7 DEF Charge

\* The account is a natural number before and after a step.
LEMMA ChargeNat ==
  ASSUME IsFiniteSet(Worker), TypeOK, TypeOK', NEW j \in DOMAIN aiJobs'
  PROVE  /\ Charge(j)' \in Nat
         /\ j \in DOMAIN aiJobs => Charge(j) \in Nat
  <1>1. Cardinality(Backers(j))' \in Nat
    BY BackersFinite DEF Backers
  <1>2. aiJobs'[j].attempts \in Nat
    BY DEF TypeOK, AIJob
  <1>3. Waiting(j)' \in Nat /\ Spent(j)' \in Nat
    BY <1>2, PoolAssumption DEF Waiting, Spent
  <1>4. j \in DOMAIN aiJobs => Charge(j) \in Nat
    BY ChargeType DEF Charge
  <1>5. QED
    BY <1>1, <1>3, <1>4 DEF Charge

\* What the account is for.
LEMMA ChargeBounds ==
  ASSUME IsFiniteSet(Worker), TypeOK, NEW j \in DOMAIN aiJobs, NEW n \in Nat,
         Charge(j) <= 1 + n
  PROVE  aiJobs[j].attempts <= MaxAttempts + n
  <1>1. /\ Cardinality(Backers(j)) \in Nat
        /\ Waiting(j) \in 0 .. 1
        /\ Spent(j) \in Nat
        /\ aiJobs[j].attempts \in Nat
    BY ChargeType
  <1>2. Spent(j) <= 1 + n
    BY <1>1 DEF Charge
  <1>3. QED
    BY <1>1, <1>2, PoolAssumption DEF Spent

-------------------------------------------------------------------------------
(* The theorems.                                                             *)

LEMMA InitIInv == Init => IInv
  <1> SUFFICES ASSUME Init
               PROVE  IInv
    OBVIOUS
  <1>1. DOMAIN aiJobs = {}
    BY DEF Init, NoRows
  <1>2. OwnershipInv /\ AnswerInv /\ EnqueueInv /\ DownInv
    BY DEF Init, OwnershipInv, ExclusiveExecution, AnswerInv, EnqueueInv, DownInv,
           Working
  <1>3. UniqueLiveJob /\ DoneHasItsResponse /\ RetryDiscipline /\ RunningHasWorker
          /\ NoLostWakeup /\ BudgetInv /\ RetryTimeInv
    BY <1>1 DEF RetryTimeInv, UniqueLiveJob, DoneHasItsResponse, RetryDiscipline, RunningHasWorker,
                NoLostWakeup, BudgetInv, AttemptsWithinBudget
  <1>4. QED
    BY <1>2, <1>3, InitTypeOK DEF IInv

LEMMA RetryTimeStep ==
  TypeOK /\ PoolInv /\ RetryTimeInv /\ [Next]_vars => RetryTimeInv'
  BY RetryTimes DEF RetryTimeInv

LEMMA StepIInv == IInv /\ [Next]_vars => IInv'
  BY OwnersArePools, TypeStep, OwnershipStep, AnswerStep, EnqueueInvStep, DownStep, UniqueStep,
     DoneStep, RetryDisciplineStep, RunningHasWorkerStep, NoLostWakeupStep,
     BudgetStep, RetryTimeStep DEF IInv

\* The invariant holds in every reachable state, whatever the number of
\* documents, rows, workers, handlers, attempts, crashes and failed calls.
THEOREM Inductive == Spec => []IInv
  BY InitIInv, StepIInv, PTL DEF Spec

\* Every variable of the queue keeps its type.
THEOREM TypeCorrect == Spec => []TypeOK
  <1>1. IInv => TypeOK
    BY DEF IInv
  <1>2. QED
    BY <1>1, Inductive, PTL

\* The same work never has two live rows.
THEOREM NoDuplicateWork == Spec => []UniqueLiveJob
  <1>1. IInv => UniqueLiveJob
    BY DEF IInv
  <1>2. QED
    BY <1>1, Inductive, PTL

\* No row is ever in the hands of two workers, nor settled under its owner.
THEOREM OneOwner == Spec => []ExclusiveExecution
  <1>1. IInv => ExclusiveExecution
    BY DEF IInv, OwnershipInv
  <1>2. QED
    BY <1>1, Inductive, PTL

\* A done row has a stored response to the revision it was bound to.
THEOREM DoneIsAnswered == Spec => []DoneHasItsResponse
  <1>1. IInv => DoneHasItsResponse
    BY DEF IInv
  <1>2. QED
    BY <1>1, Inductive, PTL

\* No row is given up early, retried late or, crashes and failed calls aside,
\* executed more often than allowed.
THEOREM AttemptsBounded == Spec => [](RetryDiscipline /\ AttemptsWithinBudget)
  <1>1. IInv => RetryDiscipline /\ AttemptsWithinBudget
    BY DEF IInv, BudgetInv
  <1>2. QED
    BY <1>1, Inductive, PTL

\* A call of the model beyond the limit is paid for by a crash or a failed call.
THEOREM AttemptsPaidFor == Spec => []AttemptsWithinBudget
  BY AttemptsBounded, PTL

\* Without failed calls no running row is forgotten, before and after crashes.
THEOREM NoOrphan == Spec => []RunningHasWorker
  <1>1. IInv => RunningHasWorker
    BY DEF IInv
  <1>2. QED
    BY <1>1, Inductive, PTL

\* The wake channel loses no wake-up, whatever the size of the pool.
THEOREM WakeupKept == Spec => []NoLostWakeup
  <1>1. IInv => NoLostWakeup
    BY DEF IInv
  <1>2. QED
    BY <1>1, Inductive, PTL

\* Settled rows are never written again.
THEOREM SettledForGood == Spec => TerminalIsFinal
  <1>1. IInv /\ [Next]_vars =>
          [\A j \in DOMAIN aiJobs : aiJobs[j].status \in Terminal =>
             aiJobs'[j] = aiJobs[j]]_vars
    BY OwnersArePools, RowsStep DEF IInv
  <1>2. QED
    BY <1>1, Inductive, PTL DEF Spec, TerminalIsFinal

\* No retry starts before the second it is due in.
THEOREM RetriesAwait == Spec => RetriesAwaitTheirSecond
  <1>1. IInv /\ [Next]_vars =>
          [\A j \in DOMAIN aiJobs :
             aiJobs[j].status = "retry_wait" /\ aiJobs'[j].status = "running"
               => Second(aiJobs[j].nextRetryAt) <= Second(now)]_vars
    BY OwnersArePools, RetryStarts DEF IInv, RetryTimeInv
  <1>2. QED
    BY <1>1, Inductive, PTL DEF Spec, RetriesAwaitTheirSecond
===============================================================================
