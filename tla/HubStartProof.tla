----------------------------- MODULE HubStartProof -----------------------------
(***************************************************************************)
(* Proofs about a second Hub on the tables of a running one, for every      *)
(* number of rows, workers in each pool, attempts, failing calls and starts *)
(* of the second Hub.  What one process keeps and charges is not proved     *)
(* again: AIQueueProof is taken twice, for the first process as it is and   *)
(* for the second as an instance.                                           *)
(***************************************************************************)
EXTENDS HubStartInvariant, AIQueueProof

SecondHub == INSTANCE AIQueueProof WITH
  Worker <- OtherWorker, hub <- hub2, configured <- configured2, wake <- wake2,
  pc <- pc2, held <- held2, tries <- tries2, packet <- packet2,
  problem <- problem2, cpc <- cpc2, creq <- creq2

-------------------------------------------------------------------------------
(* One process under two names.  HubStart knows the second process as Other;  *)
(* the lemmas about it are those of SecondHub.                                *)

\* What is said of the second process under either name.
LEMMA SameTypes == Other!TypeOK <=> SecondHub!TypeOK
  BY DEF Other!TypeOK, SecondHub!TypeOK, Other!AIJob, SecondHub!AIJob,
         Other!Status, SecondHub!Status, Other!ResponseId, SecondHub!ResponseId,
         Other!AIResponse, SecondHub!AIResponse, Other!Request, SecondHub!Request,
         Other!ErrorCode, SecondHub!ErrorCode, Other!HubState, SecondHub!HubState,
         Other!WorkerPc, SecondHub!WorkerPc, Other!Working, SecondHub!Working,
         Other!ClientPc, SecondHub!ClientPc, Other!NoTime, SecondHub!NoTime

LEMMA SamePool ==
  /\ Other!PoolInv <=> SecondHub!PoolInv
  /\ Other!DownInv <=> SecondHub!DownInv
  BY DEF Other!PoolInv, SecondHub!PoolInv, Other!AnswerInv, SecondHub!AnswerInv,
         Other!Working, SecondHub!Working, Other!Binding, SecondHub!Binding,
         Other!Request, SecondHub!Request, Other!DownInv, SecondHub!DownInv

\* An instance has its own names for the operators of FiniteSets, too.
LEMMA SameFiniteness ==
  ASSUME NEW S
  PROVE  IsFiniteSet(S) <=> SecondHub!IsFiniteSet(S)
  BY DEF IsFiniteSet, SecondHub!IsFiniteSet

LEMMA SameCardinality ==
  ASSUME NEW S
  PROVE  SecondHub!Cardinality(S) = Cardinality(S)
  BY DEF Cardinality, SecondHub!Cardinality

LEMMA SameTables ==
  /\ SecondHub!DoneHasItsResponse <=> DoneHasItsResponse
  /\ SecondHub!TablesGrow <=> TablesGrow
  BY DEF SecondHub!DoneHasItsResponse, DoneHasItsResponse, SecondHub!TablesGrow,
         TablesGrow, SecondHub!Binding, Binding

\* The assumptions on the constants hold for the second process, too.
LEMMA SameAssumptions ==
  /\ TicksPerSecond \in Nat \ {0}
  /\ OtherWorker # {} /\ MaxAttempts \in Nat \ {0}
  /\ None \notin JobId /\ None \notin Doc \X Rev
  /\ MaxClock \in Nat /\ MaxCrashes \in Nat /\ MaxFaults \in Nat
  BY TicksPerSecondAssumption, PoolAssumption, NoneAssumption, BoundAssumption,
     HubStartAssumption

\* A step of its workers that is not a claim is a step of the instance.
LEMMA SameWork ==
  ASSUME NEW w \in OtherWorker, Other!Call(w) \/ Other!Local(w)
  PROVE  \/ SecondHub!Proceed(w) \/ SecondHub!Idle(w)
         \/ SecondHub!Settle(w) \/ SecondHub!Drop(w)
  <1>1. Other!NoClaim(w) => SecondHub!NoClaim(w)
    BY DEF Other!NoClaim, SecondHub!NoClaim, Other!Sleep, SecondHub!Sleep,
           Other!Eligible, SecondHub!Eligible,
           Other!Claimable, SecondHub!Claimable, Other!Due, SecondHub!Due,
           Other!TextLeq, SecondHub!TextLeq, Other!TextRank,
           SecondHub!TextRank, Other!Second, SecondHub!Second, Other!NoTime,
           SecondHub!NoTime, Other!Goto, SecondHub!Goto, Other!StoreWorks,
           SecondHub!StoreWorks, Other!StoreFails, SecondHub!StoreFails,
           Other!budget, SecondHub!budget, Other!process, SecondHub!process,
           Other!clients, SecondHub!clients, Other!tables, SecondHub!tables
  <1>2. /\ Other!LoadPacket(w) => SecondHub!LoadPacket(w)
        /\ Other!LoadError(w) => SecondHub!LoadError(w)
    BY DEF Other!LoadPacket, SecondHub!LoadPacket, Other!LoadError, SecondHub!LoadError,
           Other!RevisionError, SecondHub!RevisionError, Other!BelongsTo,
           SecondHub!BelongsTo, Other!Give, SecondHub!Give, Other!StoreWorks,
           SecondHub!StoreWorks, Other!StoreFails, SecondHub!StoreFails,
           Other!budget, SecondHub!budget, Other!process, SecondHub!process,
           Other!clients, SecondHub!clients, Other!tables, SecondHub!tables
  <1>3. /\ Other!CallModel(w) => SecondHub!CallModel(w)
        /\ Other!SaveResponse(w) => SecondHub!SaveResponse(w)
        /\ Other!SaveResponseFault(w) => SecondHub!SaveResponseFault(w)
    BY DEF Other!CallModel, SecondHub!CallModel, Other!SaveResponse,
           SecondHub!SaveResponse, Other!SaveResponseFault,
           SecondHub!SaveResponseFault, Other!Goto, SecondHub!Goto,
           Other!Give, SecondHub!Give, Other!StoreWorks, SecondHub!StoreWorks,
           Other!StoreFails, SecondHub!StoreFails, Other!budget,
           SecondHub!budget, Other!process, SecondHub!process, Other!clients,
           SecondHub!clients, Other!tables, SecondHub!tables
  <1>4. /\ Other!Finish(w) => SecondHub!Finish(w)
        /\ Other!FinishFault(w) => SecondHub!FinishFault(w)
    BY DEF Other!Finish, SecondHub!Finish, Other!FinishFault, SecondHub!FinishFault,
           Other!SetJob, SecondHub!SetJob, Other!Upsert, SecondHub!Upsert,
           Other!DoneRow, SecondHub!DoneRow, Other!NoTime, SecondHub!NoTime,
           Other!Release, SecondHub!Release, Other!AfterJob,
           SecondHub!AfterJob, Other!StoreWorks, SecondHub!StoreWorks,
           Other!StoreFails, SecondHub!StoreFails, Other!budget,
           SecondHub!budget, Other!process, SecondHub!process, Other!clients,
           SecondHub!clients, Other!tables, SecondHub!tables
  <1>5. /\ Other!Retry(w) => SecondHub!Retry(w)
        /\ Other!Fail(w) => SecondHub!Fail(w)
        /\ Other!SettleFault(w) => SecondHub!SettleFault(w)
    BY DEF Other!Retry, SecondHub!Retry, Other!Fail, SecondHub!Fail, Other!SettleFault,
           SecondHub!SettleFault, Other!MayRetry, SecondHub!MayRetry,
           Other!SetJob, SecondHub!SetJob, Other!Upsert, SecondHub!Upsert,
           Other!RetryRow, SecondHub!RetryRow, Other!RetryDelay,
           SecondHub!RetryDelay, Other!BackoffSeconds,
           SecondHub!BackoffSeconds, Other!FailRow, SecondHub!FailRow,
           Other!NoTime, SecondHub!NoTime, Other!Release, SecondHub!Release,
           Other!AfterJob, SecondHub!AfterJob, Other!StoreWorks,
           SecondHub!StoreWorks, Other!StoreFails, SecondHub!StoreFails,
           Other!budget, SecondHub!budget, Other!process, SecondHub!process,
           Other!clients, SecondHub!clients, Other!tables, SecondHub!tables
  <1>6. /\ Other!WakeUp(w) => SecondHub!WakeUp(w)
        /\ Other!TickerFires(w) => SecondHub!TickerFires(w)
    BY DEF Other!WakeUp, SecondHub!WakeUp, Other!TickerFires, SecondHub!TickerFires,
           Other!Goto, SecondHub!Goto, Other!budget, SecondHub!budget,
           Other!process, SecondHub!process, Other!clients, SecondHub!clients,
           Other!tables, SecondHub!tables
  <1>7. QED
    BY <1>1, <1>2, <1>3, <1>4, <1>5, <1>6
    DEF Other!Call, Other!Local, Other!WorkerFault, SecondHub!Proceed,
        SecondHub!Idle, SecondHub!Settle, SecondHub!Drop

\* So are the two ends of a claim.
LEMMA SameTake ==
  ASSUME NEW w \in OtherWorker, NEW j, NEW n, Other!Take(w, j, n)
  PROVE  SecondHub!Take(w, j, n)
  BY DEF Other!Take, SecondHub!Take, Other!SetJob, SecondHub!SetJob, Other!Upsert,
         SecondHub!Upsert, Other!ClaimedRow, SecondHub!ClaimedRow, Other!NoTime,
         SecondHub!NoTime, Other!StoreWorks, SecondHub!StoreWorks, Other!budget,
         SecondHub!budget, Other!process, SecondHub!process, Other!clients,
         SecondHub!clients

LEMMA SameSleep ==
  ASSUME NEW w \in OtherWorker, Other!Sleep(w)
  PROVE  /\ Other!StoreFails => SecondHub!NoClaim(w)
         /\ Other!StoreWorks => SecondHub!Sleep(w) /\ SecondHub!StoreWorks
  BY DEF Other!Sleep, SecondHub!Sleep, SecondHub!NoClaim, Other!Goto, SecondHub!Goto,
         Other!StoreWorks, SecondHub!StoreWorks, Other!StoreFails,
         SecondHub!StoreFails, Other!budget, SecondHub!budget, Other!process,
         SecondHub!process, Other!clients, SecondHub!clients, Other!tables,
         SecondHub!tables

\* So is its start.
LEMMA SameStart ==
  /\ Other!Restart => SecondHub!Restart
  /\ Other!RestartFault => SecondHub!RestartFault
  BY DEF Other!Restart, SecondHub!Restart, Other!RestartFault, SecondHub!RestartFault,
         Other!Started, SecondHub!Started, Other!Requeued, SecondHub!Requeued,
         Other!StoreWorks, SecondHub!StoreWorks, Other!StoreFails,
         SecondHub!StoreFails, Other!budget, SecondHub!budget, Other!clients,
         SecondHub!clients

\* The steps of the first Hub: a claim in two statements, and steps that change no
\* count of attempts and leave a claim between its statements alone.
LEMMA FirstCases ==
  ASSUME StartIInv, FirstWorks
  PROVE  \/ /\ [Next]_vars /\ ~Restart /\ UNCHANGED <<hub, reading>>
            /\ reading # None => pc'[reading.by] = pc[reading.by]
            /\ \A i \in DOMAIN aiJobs : aiJobs'[i].attempts = aiJobs[i].attempts
         \/ \E w \in Worker, j \in JobId : Select(w, j)
         \/ \E w \in Worker : Update(w)
  <1> DEFINE Quiet == OtherStep \/ (\E c \in Client, j \in JobId : EnqueueSave(c, j))
             Works == \E w \in Worker : Proceed(w) \/ Idle(w) \/ Settle(w) \/ Drop(w)
  <1>1. ASSUME Quiet \/ Works
        PROVE  \A i \in DOMAIN aiJobs : aiJobs'[i].attempts = aiJobs[i].attempts
    BY <1>1, AttemptsKept DEF StartIInv
  <1>2. ~Restart
    BY DEF StartIInv, Restart
  <1>3. CASE Serve \/ (Tick /\ UNCHANGED reading)
    <2>1. Quiet
      BY <1>3 DEF Serve, OtherStep, EnqueueStep
    <2>2. UNCHANGED workers
      BY <2>1, OtherUnchanged DEF EnqueueSave
    <2>3. Next /\ UNCHANGED process
      BY <1>3, ServingKeepsHub DEF Serve, Next, EnqueueStep
    <2>4. QED
      BY <1>1, <1>2, <1>3, <2>1, <2>2, <2>3 DEF workers, process, Serve
  <1>4. ASSUME NEW w \in Worker, Call(w) \/ Local(w)
        PROVE  Works /\ Next /\ UNCHANGED process
    <2>1. Works
      BY <1>4 DEF Call, Local, WorkerFault, Proceed, Idle, Settle, Drop
    <2>2. WorkerStep(w) \/ WorkerFault(w)
      BY <1>4 DEF Call, Local, WorkerStep
    <2>3. QED
      BY <2>1, <2>2, ServingKeepsHub DEF Next
  <1>5. ASSUME NEW w \in Worker, StoreMuFree, Call(w), UNCHANGED reading
        PROVE  reading # None => pc'[reading.by] = pc[reading.by]
    BY <1>5 DEF StoreMuFree
  <1>6. ASSUME NEW w \in Worker, Local(w), reading # None
        PROVE  pc'[reading.by] = pc[reading.by]
    <2>1. reading.by \in Worker /\ pc[reading.by] = "claim"
      BY <1>6 DEF StartIInv, ReadingInv, Reading
    <2>2. /\ pc[w] \in {"call", "select"}
          /\ \E l : pc' = [pc EXCEPT ![w] = l]
      BY <1>6 DEF Local, CallModel, WakeUp, TickerFires, Goto, Give
    <2>3. QED
      BY <2>1, <2>2 DEF StartIInv, TypeOK
  <1>7. QED
    BY <1>1, <1>2, <1>3, <1>4, <1>5, <1>6 DEF FirstWorks, Work, process

\* The steps of the workers of the second one.
LEMMA SecondCases ==
  ASSUME StartIInv, NEW w \in OtherWorker, SecondWorks(w)
  PROVE  \/ /\ [SecondHub!Next]_(SecondHub!vars) /\ ~SecondHub!Restart
            /\ UNCHANGED <<hub2, reading2>>
            /\ reading2 # None => pc2'[reading2.by] = pc2[reading2.by]
            /\ \A i \in DOMAIN aiJobs : aiJobs'[i].attempts = aiJobs[i].attempts
         \/ \E j \in JobId : Other!Select(w, j)
         \/ Other!Update(w)
  <1>1. ASSUME Other!Call(w) \/ Other!Local(w)
        PROVE  /\ SecondHub!Next /\ UNCHANGED SecondHub!process
               /\ \A i \in DOMAIN aiJobs : aiJobs'[i].attempts = aiJobs[i].attempts
    <2>1. \/ SecondHub!Proceed(w) \/ SecondHub!Idle(w)
          \/ SecondHub!Settle(w) \/ SecondHub!Drop(w)
      BY <1>1, SameWork
    <2>2. SecondHub!TypeOK /\ SecondHub!PoolInv
      BY SameTypes, SamePool DEF StartIInv
    <2>3. \A i \in DOMAIN aiJobs : aiJobs'[i].attempts = aiJobs[i].attempts
      BY <2>1, <2>2, SecondHub!AttemptsKept, SameAssumptions
      DEF SecondHub!TicksPerSecondAssumption, SecondHub!PoolAssumption,
          SecondHub!NoneAssumption, SecondHub!BoundAssumption
    <2>4. UNCHANGED SecondHub!process
      BY <1>1
      DEF Other!Call, Other!Local, Other!NoClaim, Other!Sleep, Other!LoadPacket,
          Other!LoadError, Other!SaveResponse, Other!Finish, Other!Retry, Other!Fail,
          Other!WorkerFault, Other!SaveResponseFault, Other!FinishFault,
          Other!SettleFault, Other!CallModel, Other!WakeUp, Other!TickerFires,
          Other!process, SecondHub!process
    <2>5. \/ SecondHub!WorkerStep(w) \/ SecondHub!WorkerFault(w)
          \/ SecondHub!StopWorker(w)
      BY <2>1
      DEF SecondHub!Proceed, SecondHub!Idle, SecondHub!Settle, SecondHub!Drop,
          SecondHub!WorkerStep, SecondHub!WorkerFault
    <2>6. QED
      BY <2>3, <2>4, <2>5 DEF SecondHub!Next
  <1>2. ASSUME Other!Local(w), reading2 # None
        PROVE  pc2'[reading2.by] = pc2[reading2.by]
    <2>1. reading2.by \in OtherWorker /\ pc2[reading2.by] = "claim"
      BY <1>2 DEF StartIInv, Other!ReadingInv, Other!Reading
    <2>2. /\ pc2[w] \in {"call", "select"}
          /\ \E l : pc2' = [pc2 EXCEPT ![w] = l]
      BY <1>2 DEF Other!Local, Other!CallModel, Other!WakeUp, Other!TickerFires,
                  Other!Goto, Other!Give
    <2>3. QED
      BY <2>1, <2>2 DEF StartIInv, Other!TypeOK
  <1>3. hub2 # "down"
    <2>1. pc2[w] # "dead"
      BY DEF SecondWorks, Other!Work, Other!Select, Other!Update, Other!Take,
             Other!Sleep, Other!Call, Other!Local, Other!NoClaim, Other!LoadPacket,
             Other!LoadError, Other!SaveResponse, Other!Finish, Other!Retry,
             Other!Fail, Other!WorkerFault, Other!SaveResponseFault,
             Other!FinishFault, Other!SettleFault, Other!CallModel, Other!WakeUp,
             Other!TickerFires
    <2>2. QED
      BY <2>1 DEF StartIInv, Other!DownInv
  <1>4. ~SecondHub!Restart
    BY <1>3 DEF SecondHub!Restart
  <1>5. QED
    BY <1>1, <1>2, <1>4
    DEF SecondWorks, Other!Work, Other!StoreMuFree, SecondHub!process

-------------------------------------------------------------------------------
(* The account.                                                              *)

LEMMA SameTypesNext == Other!TypeOK' <=> SecondHub!TypeOK'
  BY SameTypes, PTL

LEMMA SamePoolNext ==
  /\ Other!PoolInv' <=> SecondHub!PoolInv'
  /\ Other!DownInv' <=> SecondHub!DownInv'
  BY SamePool, PTL

LEMMA SameDoneNext == SecondHub!DoneHasItsResponse' <=> DoneHasItsResponse'
  BY SameTables, PTL

\* The workers of the second pool that count for a row.
LEMMA OtherBackers ==
  ASSUME NEW j
  PROVE  /\ Cardinality(Other!Backers(j)) \in Nat
         /\ Cardinality(Other!Backers(j))' \in Nat
  <1>1. ASSUME NEW S \in SUBSET OtherWorker
        PROVE  Cardinality(S) \in Nat
    BY HubStartAssumption, FS_Subset, FS_CardinalityType
  <1>2. /\ Other!Backers(j) \in SUBSET OtherWorker
        /\ Other!Backers(j)' \in SUBSET OtherWorker
    BY DEF Other!Backers
  <1>3. QED
    BY <1>1, <1>2

\* The account under either name of the second process.
LEMMA ChargeUnderBothNames ==
  ASSUME NEW j
  PROVE  /\ SecondHub!Charge(j) =
              Cardinality(Other!Backers(j)) + Waiting(j) + Spent(j)
         /\ SecondHub!Charge(j)' =
              Cardinality(Other!Backers(j))' + Waiting(j)' + Spent(j)'
  <1>1. /\ SecondHub!Backers(j) = Other!Backers(j)
        /\ SecondHub!Backers(j)' = Other!Backers(j)'
    BY DEF SecondHub!Backers, Other!Backers
  <1>2. /\ SecondHub!Cardinality(Other!Backers(j)) = Cardinality(Other!Backers(j))
        /\ SecondHub!Cardinality(Other!Backers(j)') = Cardinality(Other!Backers(j)')
    BY SameCardinality
  <1>3. /\ SecondHub!Waiting(j) = Waiting(j) /\ SecondHub!Waiting(j)' = Waiting(j)'
        /\ SecondHub!Spent(j) = Spent(j) /\ SecondHub!Spent(j)' = Spent(j)'
    BY DEF SecondHub!Waiting, Waiting, SecondHub!Spent, Spent
  <1>4. QED
    BY <1>1, <1>2, <1>3 DEF SecondHub!Charge

\* Of a row that exists before a step, or after it.
LEMMA TotalType ==
  ASSUME TypeOK, NEW j \in DOMAIN aiJobs
  PROVE  /\ TotalCharge(j) \in Nat /\ Charge(j) \in Nat
         /\ Cardinality(Backers(j)) \in Nat /\ Waiting(j) \in 0 .. 1 /\ Spent(j) \in Nat
         /\ aiJobs[j].attempts \in Nat
  BY ChargeType, OtherBackers, HubStartAssumption DEF TotalCharge, Charge

LEMMA TotalTypeNext ==
  ASSUME TypeOK', NEW j \in DOMAIN aiJobs'
  PROVE  /\ TotalCharge(j)' \in Nat /\ Charge(j)' \in Nat
         /\ Cardinality(Backers(j))' \in Nat /\ Waiting(j)' \in 0 .. 1
         /\ Spent(j)' \in Nat
  <1>1. aiJobs'[j].attempts \in Nat
    BY DEF TypeOK, AIJob
  <1>2. Waiting(j)' \in 0 .. 1 /\ Spent(j)' \in Nat
    BY <1>1, PoolAssumption DEF Waiting, Spent
  <1>3. Cardinality(Backers(j))' \in Nat
    BY HubStartAssumption, BackersFinite DEF Backers
  <1>4. QED
    BY <1>2, <1>3, OtherBackers DEF TotalCharge, Charge

\* Copies count one each, and only of rows that exist.
LEMMA OutdatedType ==
  ASSUME ReadingInv, Other!ReadingInv, NEW j
  PROVE  /\ Outdated(j) \in 0 .. 1 /\ Other!Outdated(j) \in 0 .. 1
         /\ j \notin DOMAIN aiJobs => Outdated(j) = 0 /\ Other!Outdated(j) = 0
  BY DEF Outdated, Other!Outdated, ReadingInv, Other!ReadingInv

\* A row that nobody claims, and that a start may have put back into the queue.
LEMMA KeptBalance ==
  ASSUME NEW a \in Nat, NEW t \in Nat, NEW t2 \in Nat, NEW o \in Nat, NEW o2 \in Nat,
         NEW s \in Nat, NEW n \in 0 .. 1, Balanced(a, t, o, s), t2 <= t + n,
         a < MaxAttempts - 1 \/ o2 <= o
  PROVE  Balanced(a, t2, o2, s + n)
  BY PoolAssumption DEF Balanced

\* A row that is claimed by a copy of n attempts, while o other copies are selected.
LEMMA TakenBalance ==
  ASSUME NEW a \in Nat, NEW t \in Nat, NEW t2 \in Nat, NEW o \in 0 .. 1, NEW s \in Nat,
         NEW n \in Nat, n <= a, s = 0 => n = a /\ o = 0,
         Balanced(a, t, (IF n + 1 < MaxAttempts THEN 1 ELSE 0) + o, s),
         t2 <= t + IF n + 1 < MaxAttempts /\ a + 1 >= MaxAttempts THEN 1 ELSE 0
  PROVE  Balanced(a + 1, t2, o, s)
  BY PoolAssumption DEF Balanced

-------------------------------------------------------------------------------
(* The invariant.                                                            *)

\* Rows stay, and their attempts never decrease.
AttemptsGrow ==
  /\ TablesGrow
  /\ \A i \in DOMAIN aiJobs : aiJobs'[i].attempts \in {aiJobs[i].attempts,
                                                        aiJobs[i].attempts + 1}

\* The second process keeps what it knows while the first one works.
LEMMA SecondFrame ==
  ASSUME StartIInv, TypeOK', AttemptsGrow, UNCHANGED secondProcess
  PROVE  Other!TypeOK' /\ Other!PoolInv' /\ Other!DownInv' /\ Other!ReadingInv'
  <1> USE DEF StartIInv
  <1>1. Other!TypeOK'
    BY DEF TypeOK, Other!TypeOK, secondProcess, AIJob, Other!AIJob, Status,
           Other!Status, ResponseId, Other!ResponseId, AIResponse, Other!AIResponse,
           Request, Other!Request, NoTime, Other!NoTime
  <1>2. Other!PoolInv' /\ Other!DownInv'
    <2>1. SecondHub!TypeOK /\ SecondHub!PoolInv /\ SecondHub!DownInv
      BY SameTypes, SamePool
    <2>2. SecondHub!TablesGrow
      BY SameTables DEF AttemptsGrow
    <2>3. UNCHANGED <<hub2, wake2, SecondHub!workers, SecondHub!clients>>
      BY DEF secondProcess, SecondHub!workers, SecondHub!clients
    <2>4. SecondHub!PoolInv' /\ SecondHub!DownInv'
      BY <2>1, <2>2, <2>3, SecondHub!PoolFrame, SameAssumptions
      DEF SecondHub!TicksPerSecondAssumption, SecondHub!PoolAssumption,
          SecondHub!NoneAssumption, SecondHub!BoundAssumption
    <2>5. QED
      BY <2>4, SamePoolNext
  <1>3. Other!ReadingInv'
    <2>1. \A i \in DOMAIN aiJobs :
            /\ i \in DOMAIN aiJobs' /\ aiJobs[i].attempts \in Nat
            /\ aiJobs[i].attempts <= aiJobs'[i].attempts
      BY DEF AttemptsGrow, TablesGrow, TypeOK, AIJob
    <2>2. pc2' = pc2 /\ reading2' = reading2
      BY DEF secondProcess
    <2>3. ASSUME reading2 # None
          PROVE  /\ reading2.job \in DOMAIN aiJobs'
                 /\ reading2.attempts <= aiJobs'[reading2.job].attempts
      <3>1. /\ reading2 \in Other!Reading /\ reading2.job \in DOMAIN aiJobs
            /\ reading2.attempts <= aiJobs[reading2.job].attempts
        BY <2>3 DEF Other!ReadingInv
      <3>2. reading2.attempts \in Nat
        BY <3>1 DEF Other!Reading
      <3>3. aiJobs'[reading2.job].attempts \in Nat
        BY <2>1, <3>1 DEF AttemptsGrow
      <3>4. QED
        BY <2>1, <3>1, <3>2, <3>3
    <2>4. QED
      BY <2>2, <2>3 DEF Other!ReadingInv, Other!Reading
  <1>4. QED
    BY <1>1, <1>2, <1>3

\* So does the first one.
LEMMA FirstFrame ==
  ASSUME StartIInv, Other!TypeOK', AttemptsGrow, UNCHANGED firstProcess
  PROVE  TypeOK' /\ PoolInv' /\ DownInv' /\ ReadingInv'
  <1> USE DEF StartIInv
  <1>1. TypeOK'
    BY DEF TypeOK, Other!TypeOK, firstProcess, process, workers, clients, AIJob,
           Other!AIJob, Status, Other!Status, ResponseId, Other!ResponseId, AIResponse,
           Other!AIResponse, Request, Other!Request, NoTime, Other!NoTime
  <1>2. PoolInv' /\ DownInv'
    <2>1. UNCHANGED <<hub, wake, workers, clients>>
      BY DEF firstProcess, process
    <2>2. QED
      BY <2>1, PoolFrame DEF AttemptsGrow
  <1>3. ReadingInv'
    <2>1. \A i \in DOMAIN aiJobs :
            /\ i \in DOMAIN aiJobs' /\ aiJobs[i].attempts \in Nat
            /\ aiJobs[i].attempts <= aiJobs'[i].attempts
      BY DEF AttemptsGrow, TablesGrow, TypeOK, AIJob
    <2>2. pc' = pc /\ reading' = reading
      BY DEF firstProcess, workers
    <2>3. ASSUME reading # None
          PROVE  /\ reading.job \in DOMAIN aiJobs'
                 /\ reading.attempts <= aiJobs'[reading.job].attempts
      <3>1. /\ reading \in Reading /\ reading.job \in DOMAIN aiJobs
            /\ reading.attempts <= aiJobs[reading.job].attempts
        BY <2>3 DEF ReadingInv
      <3>2. reading.attempts \in Nat
        BY <3>1 DEF Reading
      <3>3. aiJobs'[reading.job].attempts \in Nat
        BY <2>1, <3>1 DEF AttemptsGrow
      <3>4. QED
        BY <2>1, <3>1, <3>2, <3>3
    <2>4. QED
      BY <2>2, <2>3 DEF ReadingInv, Reading
  <1>4. QED
    BY <1>1, <1>2, <1>3

\* A row that existed, when the step counts no attempt for it.
LEMMA KeptAccount ==
  ASSUME StartIInv, TypeOK', ReadingInv', Other!ReadingInv', NEW j \in DOMAIN aiJobs,
         j \in DOMAIN aiJobs', aiJobs'[j].attempts = aiJobs[j].attempts,
         NEW n \in 0 .. 1, starts' = starts + n, TotalCharge(j)' <= TotalCharge(j) + n,
         \/ aiJobs[j].attempts < MaxAttempts - 1
         \/ /\ Outdated(j)' <= Outdated(j)
            /\ Other!Outdated(j)' <= Other!Outdated(j)
  PROVE  Balanced(aiJobs[j].attempts, TotalCharge(j), Outdated(j) + Other!Outdated(j),
                  starts)'
  <1>1. Outdated(j) \in 0 .. 1 /\ Other!Outdated(j) \in 0 .. 1
    BY OutdatedType DEF StartIInv
  <1>2. Outdated(j)' \in 0 .. 1 /\ Other!Outdated(j)' \in 0 .. 1
    BY DEF Outdated, Other!Outdated
  <1>3. /\ aiJobs[j].attempts \in Nat /\ TotalCharge(j) \in Nat
        /\ TotalCharge(j)' \in Nat /\ starts \in Nat
    BY TotalType, TotalTypeNext DEF StartIInv
  <1>4. Balanced(aiJobs[j].attempts, TotalCharge(j),
                 Outdated(j) + Other!Outdated(j), starts)
    BY DEF StartIInv, ChargeInv
  <1>5. /\ Outdated(j) + Other!Outdated(j) \in Nat
        /\ Outdated(j)' + Other!Outdated(j)' \in Nat
        /\ \/ aiJobs[j].attempts < MaxAttempts - 1
           \/ Outdated(j)' + Other!Outdated(j)' <= Outdated(j) + Other!Outdated(j)
    BY <1>1, <1>2
  <1>6. Balanced(aiJobs[j].attempts, TotalCharge(j)',
                 Outdated(j)' + Other!Outdated(j)', starts + n)
    BY <1>3, <1>4, <1>5, KeptBalance
  <1>7. QED
    BY <1>6 DEF Balanced

\* A row that a step has added.
LEMMA AddedAccount ==
  ASSUME StartIInv, NEW j, j \notin DOMAIN aiJobs, starts' \in Nat,
         TotalCharge(j)' \in Nat, TotalCharge(j)' <= 1,
         Outdated(j)' = Outdated(j), Other!Outdated(j)' = Other!Outdated(j)
  PROVE  Balanced(aiJobs[j].attempts, TotalCharge(j), Outdated(j) + Other!Outdated(j),
                  starts)'
  <1>1. Outdated(j)' = 0 /\ Other!Outdated(j)' = 0
    BY OutdatedType DEF StartIInv
  <1>2. QED
    BY <1>1 DEF Balanced

\* A step of the first Hub that counts no attempt.
LEMMA QuietFirst ==
  ASSUME StartIInv, TypeOK', PoolInv', DownInv', DoneHasItsResponse', TablesGrow,
         UNCHANGED <<hub, secondProcess, starts>>,
         \A i \in DOMAIN aiJobs : /\ aiJobs'[i].attempts = aiJobs[i].attempts
                                  /\ Charge(i)' <= Charge(i),
         \A i \in DOMAIN aiJobs' : i \notin DOMAIN aiJobs => Charge(i)' <= 1,
         \/ reading' = None
         \/ /\ reading' = reading
            /\ reading # None => pc'[reading.by] = pc[reading.by]
  PROVE  StartIInv'
  <1> USE DEF StartIInv
  <1>1. AttemptsGrow
    BY DEF AttemptsGrow
  <1>2. Other!TypeOK' /\ Other!PoolInv' /\ Other!DownInv' /\ Other!ReadingInv'
    BY <1>1, SecondFrame
  <1>3. /\ ReadingInv'
        /\ reading' # None => reading' = reading /\ reading.job \in DOMAIN aiJobs
    BY DEF ReadingInv, Reading, TablesGrow
  <1>4. AloneInv'
    BY <1>3 DEF AloneInv, secondProcess
  <1>5. ASSUME NEW j
        PROVE  /\ TotalCharge(j) = Charge(j) + Cardinality(Other!Backers(j))
               /\ TotalCharge(j)' = Charge(j)' + Cardinality(Other!Backers(j))
               /\ Outdated(j)' <= Outdated(j) /\ Other!Outdated(j)' = Other!Outdated(j)
               /\ Other!Outdated(j) \in 0 .. 1
    <2>1. Other!Backers(j)' = Other!Backers(j)
      BY DEF secondProcess, Other!Backers
    <2>2. Other!Outdated(j)' = Other!Outdated(j) /\ Outdated(j)' <= Outdated(j)
      BY DEF secondProcess, Other!Outdated, Outdated
    <2>3. QED
      BY <2>1, <2>2, OutdatedType DEF TotalCharge
  <1>6. ASSUME NEW j \in DOMAIN aiJobs'
        PROVE  Balanced(aiJobs[j].attempts, TotalCharge(j),
                        Outdated(j) + Other!Outdated(j), starts)'
    <2>1. Charge(j)' \in Nat /\ TotalCharge(j)' \in Nat
      BY TotalTypeNext
    <2>2. CASE j \in DOMAIN aiJobs
      <3>1. Charge(j) \in Nat /\ TotalCharge(j) \in Nat
        BY <2>2, TotalType
      <3>2. TotalCharge(j)' <= TotalCharge(j) + 0
        BY <1>5, <2>1, <2>2, <3>1, OtherBackers
      <3>3. Other!Outdated(j)' <= Other!Outdated(j) /\ starts' = starts + 0
        BY <1>5
      <3>4. QED
        BY <1>2, <1>3, <1>5, <2>2, <3>2, <3>3, KeptAccount
    <2>3. CASE j \notin DOMAIN aiJobs
      <3>1. Other!Backers(j) = {}
        <4>1. j \in JobId
          BY DEF TypeOK
        <4>2. QED
          BY <2>3, <4>1, NoneAssumption DEF Other!Backers, Other!PoolInv
      <3>2. Cardinality(Other!Backers(j)) = 0
        BY <3>1, FS_EmptySet
      <3>3. TotalCharge(j)' <= 1
        BY <1>5, <2>1, <2>3, <3>2
      <3>4. Outdated(j)' = Outdated(j)
        BY <2>3 DEF Outdated, ReadingInv
      <3>5. QED
        BY <1>5, <2>1, <2>3, <3>3, <3>4, AddedAccount
    <2>4. QED
      BY <2>2, <2>3
  <1>7. ChargeInv'
    BY <1>6 DEF ChargeInv
  <1>8. QED
    BY <1>2, <1>3, <1>4, <1>7

\* A step of the second Hub that counts no attempt, a start of it and its end.
LEMMA QuietSecond ==
  ASSUME StartIInv, Other!TypeOK', Other!PoolInv', Other!DownInv', DoneHasItsResponse',
         TablesGrow, UNCHANGED firstProcess,
         NEW n \in 0 .. 1, starts' = starts + n, starts' = 0 => hub2' = "down",
         \A i \in DOMAIN aiJobs :
           /\ aiJobs'[i].attempts = aiJobs[i].attempts
           /\ SecondHub!Charge(i)' <= SecondHub!Charge(i) + n,
         \A i \in DOMAIN aiJobs' : i \notin DOMAIN aiJobs => SecondHub!Charge(i)' <= 1,
         \/ reading2' = None
         \/ /\ reading2' = reading2
            /\ reading2 # None => pc2'[reading2.by] = pc2[reading2.by]
  PROVE  StartIInv'
  <1> USE DEF StartIInv
  <1>1. AttemptsGrow
    BY DEF AttemptsGrow
  <1>2. TypeOK' /\ PoolInv' /\ DownInv' /\ ReadingInv'
    BY <1>1, FirstFrame
  <1>3. Other!ReadingInv'
    BY DEF Other!ReadingInv, Other!Reading, TablesGrow
  <1>4. AloneInv'
    BY DEF AloneInv, firstProcess, ReadingInv
  <1>5. ASSUME NEW j
        PROVE  /\ Cardinality(Backers(j))' = Cardinality(Backers(j))
               /\ Outdated(j)' = Outdated(j) /\ Other!Outdated(j)' <= Other!Outdated(j)
               /\ Outdated(j) \in 0 .. 1
    <2>1. Backers(j)' = Backers(j)
      BY DEF firstProcess, workers, Backers
    <2>2. Outdated(j)' = Outdated(j) /\ Other!Outdated(j)' <= Other!Outdated(j)
      BY DEF firstProcess, Outdated, Other!Outdated
    <2>3. QED
      BY <2>1, <2>2, OutdatedType
  <1>6. ASSUME NEW j \in DOMAIN aiJobs'
        PROVE  Balanced(aiJobs[j].attempts, TotalCharge(j),
                        Outdated(j) + Other!Outdated(j), starts)'
    <2>1. /\ Cardinality(Backers(j))' \in Nat /\ Waiting(j)' \in 0 .. 1
          /\ Spent(j)' \in Nat /\ TotalCharge(j)' \in Nat
      BY <1>2, TotalTypeNext
    <2>2. /\ Cardinality(Other!Backers(j)) \in Nat
          /\ Cardinality(Other!Backers(j))' \in Nat
      BY OtherBackers
    <2>3. TotalCharge(j)' = Cardinality(Backers(j))' + SecondHub!Charge(j)'
      BY <2>1, <2>2, ChargeUnderBothNames DEF TotalCharge, Charge
    <2>4. SecondHub!Charge(j)' \in Nat
      BY <2>1, <2>2, ChargeUnderBothNames
    <2>5. CASE j \in DOMAIN aiJobs
      <3>1. /\ Cardinality(Backers(j)) \in Nat /\ Waiting(j) \in 0 .. 1
            /\ Spent(j) \in Nat
        BY <2>5, TotalType
      <3>2. /\ TotalCharge(j) = Cardinality(Backers(j)) + SecondHub!Charge(j)
            /\ SecondHub!Charge(j) \in Nat
        BY <2>2, <3>1, ChargeUnderBothNames DEF TotalCharge, Charge
      <3>3. TotalCharge(j)' <= TotalCharge(j) + n
        BY <1>5, <2>3, <2>4, <2>5, <3>1, <3>2
      <3>4. Outdated(j)' <= Outdated(j)
        BY <1>5
      <3>5. QED
        BY <1>2, <1>3, <1>5, <2>5, <3>3, <3>4, KeptAccount
    <2>6. CASE j \notin DOMAIN aiJobs
      <3>1. Backers(j) = {}
        <4>1. j \in JobId
          BY <1>2 DEF TypeOK
        <4>2. QED
          BY <2>6, <4>1, NoneAssumption DEF Backers, PoolInv
      <3>2. Cardinality(Backers(j))' = 0
        <4>1. Cardinality(Backers(j)) = 0
          BY <3>1, FS_EmptySet
        <4>2. QED
          BY <1>5, <4>1
      <3>3. SecondHub!Charge(j)' <= 1
        BY <2>6
      <3>4. TotalCharge(j)' <= 1
        BY <2>3, <2>4, <3>2, <3>3
      <3>5. Other!Outdated(j)' = Other!Outdated(j)
        BY <2>6 DEF Other!Outdated, Other!ReadingInv
      <3>6. QED
        BY <1>5, <2>1, <2>6, <3>4, <3>5, AddedAccount
    <2>7. QED
      BY <2>5, <2>6
  <1>7. ChargeInv'
    BY <1>6 DEF ChargeInv
  <1>8. QED
    BY <1>2, <1>3, <1>4, <1>7 DEF firstProcess, process

\* The SELECT of the first Hub: a copy just made is not outdated.
LEMMA FirstSelects ==
  ASSUME StartIInv, NEW w \in Worker, NEW j \in JobId, Select(w, j),
         UNCHANGED <<secondProcess, starts>>
  PROVE  StartIInv'
  <1> USE DEF StartIInv
  <1>1. /\ reading = None /\ pc[w] = "claim" /\ j \in DOMAIN aiJobs
        /\ reading' = [by |-> w, job |-> j, attempts |-> aiJobs[j].attempts]
        /\ UNCHANGED <<vars, tables, workers, process, wake, clients, budget>>
    BY DEF Select, StoreMuFree, FirstEligible, Eligible, vars, tables, workers,
           process, clients, budget
  <1>2. aiJobs[j].attempts \in Nat
    BY <1>1, TotalType
  <1>3. /\ TypeOK' /\ PoolInv' /\ DownInv' /\ DoneHasItsResponse' /\ hub' = hub
        /\ AttemptsGrow
    <2>1. [Next]_vars
      BY <1>1
    <2>2. TypeOK' /\ PoolInv' /\ DownInv' /\ DoneHasItsResponse' /\ TablesGrow
      BY <2>1, TypeStep, PoolStep, DownStep, DoneStep, StepGrows
    <2>3. QED
      BY <1>1, <2>2 DEF AttemptsGrow, tables, process
  <1>4. Other!TypeOK' /\ Other!PoolInv' /\ Other!DownInv' /\ Other!ReadingInv'
    BY <1>3, SecondFrame
  <1>5. ReadingInv'
    BY <1>1, <1>2 DEF ReadingInv, Reading, tables, workers
  <1>6. AloneInv'
    BY <1>1 DEF AloneInv, secondProcess, tables
  <1>7. ASSUME NEW i \in DOMAIN aiJobs'
        PROVE  Balanced(aiJobs[i].attempts, TotalCharge(i),
                        Outdated(i) + Other!Outdated(i), starts)'
    <2>1. i \in DOMAIN aiJobs /\ aiJobs'[i].attempts = aiJobs[i].attempts
      BY <1>1 DEF tables
    <2>2. TotalCharge(i)' = TotalCharge(i)
      <3>1. Charge(i)' = Charge(i)
        BY <1>1 DEF Charge, Backers, Waiting, Spent, workers, tables
      <3>2. Other!Backers(i)' = Other!Backers(i)
        BY DEF secondProcess, Other!Backers
      <3>3. QED
        BY <3>1, <3>2 DEF TotalCharge
    <2>3. TotalCharge(i)' <= TotalCharge(i) + 0 /\ starts' = starts + 0
      BY <2>1, <2>2, TotalType
    <2>4. Other!Outdated(i)' <= Other!Outdated(i) /\ Outdated(i) = 0
      BY <1>1 DEF secondProcess, Other!Outdated, Outdated
    <2>5. \/ aiJobs[i].attempts < MaxAttempts - 1
          \/ Outdated(i)' <= Outdated(i)
      BY <1>1, <1>2, <2>1, <2>4, PoolAssumption DEF Outdated
    <2>6. QED
      BY <1>1, <1>3, <1>4, <1>5, <2>1, <2>3, <2>4, <2>5, KeptAccount
  <1>8. ChargeInv'
    BY <1>7 DEF ChargeInv
  <1>9. QED
    BY <1>3, <1>4, <1>5, <1>6, <1>8

LEMMA SecondSelects ==
  ASSUME StartIInv, NEW w \in OtherWorker, NEW j \in JobId, Other!Select(w, j),
         UNCHANGED <<firstProcess, starts>>
  PROVE  StartIInv'
  <1> USE DEF StartIInv
  <1>1. /\ reading2 = None /\ pc2[w] = "claim" /\ j \in DOMAIN aiJobs
        /\ reading2' = [by |-> w, job |-> j, attempts |-> aiJobs[j].attempts]
        /\ UNCHANGED <<now, tables, hub2, configured2, wake2, pc2, held2, tries2, packet2,
                       problem2, cpc2, creq2, budget>>
    BY DEF Other!Select, Other!StoreMuFree, Other!FirstEligible, Other!Eligible,
           Other!vars, tables, Other!tables, Other!workers, Other!process,
           Other!clients, budget, Other!budget
  <1>2. aiJobs[j].attempts \in Nat
    BY <1>1, TotalType
  <1>3. /\ Other!TypeOK' /\ Other!PoolInv' /\ Other!DownInv' /\ DoneHasItsResponse'
        /\ AttemptsGrow
    BY <1>1 DEF tables, budget, Other!TypeOK, Other!PoolInv, Other!DownInv,
                Other!AnswerInv, DoneHasItsResponse, AttemptsGrow, TablesGrow
  <1>4. TypeOK' /\ PoolInv' /\ DownInv' /\ ReadingInv'
    BY <1>3, FirstFrame
  <1>5. Other!ReadingInv'
    BY <1>1, <1>2 DEF Other!ReadingInv, Other!Reading, tables
  <1>6. AloneInv'
    BY <1>1 DEF AloneInv, firstProcess, tables
  <1>7. ASSUME NEW i \in DOMAIN aiJobs'
        PROVE  Balanced(aiJobs[i].attempts, TotalCharge(i),
                        Outdated(i) + Other!Outdated(i), starts)'
    <2>1. i \in DOMAIN aiJobs /\ aiJobs'[i].attempts = aiJobs[i].attempts
      BY <1>1 DEF tables
    <2>2. TotalCharge(i)' = TotalCharge(i)
      <3>1. Charge(i)' = Charge(i)
        BY <1>1 DEF Charge, Backers, Waiting, Spent, firstProcess, workers, tables
      <3>2. Other!Backers(i)' = Other!Backers(i)
        BY <1>1 DEF Other!Backers
      <3>3. QED
        BY <3>1, <3>2 DEF TotalCharge
    <2>3. TotalCharge(i)' <= TotalCharge(i) + 0 /\ starts' = starts + 0
      BY <2>1, <2>2, TotalType
    <2>4. Outdated(i)' <= Outdated(i) /\ Other!Outdated(i) = 0
      BY <1>1 DEF firstProcess, Other!Outdated, Outdated
    <2>5. \/ aiJobs[i].attempts < MaxAttempts - 1
          \/ Other!Outdated(i)' <= Other!Outdated(i)
      BY <1>1, <1>2, <2>1, <2>4, PoolAssumption DEF Other!Outdated
    <2>6. QED
      BY <1>1, <1>3, <1>4, <1>5, <2>1, <2>3, <2>4, <2>5, KeptAccount
  <1>8. ChargeInv'
    BY <1>7 DEF ChargeInv
  <1>9. QED
    BY <1>3, <1>4, <1>5, <1>6, <1>8 DEF firstProcess, process

\* The UPDATE of the first Hub that takes the row it had selected.
LEMMA FirstTakes ==
  ASSUME StartIInv, NEW w \in Worker, reading # None,
         Take(w, reading.job, reading.attempts), reading' = None,
         UNCHANGED <<secondProcess, starts>>
  PROVE  StartIInv'
  <1> USE DEF StartIInv
  <1>1. PICK j \in DOMAIN aiJobs, n \in Nat :
          j = reading.job /\ n = reading.attempts /\ n <= aiJobs[j].attempts
    BY DEF ReadingInv, Reading
  <1> DEFINE retries == IF n + 1 < MaxAttempts THEN 1 ELSE 0
  <1>2. Take(w, j, n)
    BY <1>1
  <1>3. TypeOK' /\ PoolInv' /\ DownInv'
    BY <1>1, <1>2, TakeType, TakePool
  <1>4. /\ TablesGrow /\ DoneHasItsResponse' /\ DOMAIN aiJobs' = DOMAIN aiJobs
        /\ aiJobs'[j].attempts = aiJobs[j].attempts + 1
        /\ \A i \in DOMAIN aiJobs : i # j => aiJobs'[i] = aiJobs[i]
    BY <1>1, <1>2, TakeGrows
  <1>5. AttemptsGrow
    BY <1>4 DEF AttemptsGrow
  <1>6. Other!TypeOK' /\ Other!PoolInv' /\ Other!DownInv' /\ Other!ReadingInv'
    BY <1>3, <1>5, SecondFrame
  <1>7. ReadingInv' /\ AloneInv' /\ hub' = hub
    BY <1>2 DEF ReadingInv, AloneInv, secondProcess, Take, process
  <1>8. ASSUME NEW i
        PROVE  /\ Cardinality(Other!Backers(i))' = Cardinality(Other!Backers(i))
               /\ Other!Outdated(i)' = Other!Outdated(i) /\ Outdated(i)' = 0
               /\ Other!Outdated(i) \in 0 .. 1
    <2>1. Other!Backers(i)' = Other!Backers(i)
      BY DEF secondProcess, Other!Backers
    <2>2. QED
      BY <2>1, OutdatedType DEF secondProcess, Other!Outdated, Outdated
  <1>9. Balanced(aiJobs[j].attempts, TotalCharge(j), Outdated(j) + Other!Outdated(j),
                 starts)'
    <2>1. /\ Charge(j) \in Nat /\ TotalCharge(j) \in Nat /\ aiJobs[j].attempts \in Nat
          /\ Charge(j)' \in Nat /\ TotalCharge(j)' \in Nat
      BY <1>1, <1>3, <1>4, TotalType, TotalTypeNext
    <2>2. Charge(j)' <= Charge(j)
            + IF n + 1 < MaxAttempts /\ aiJobs[j].attempts + 1 >= MaxAttempts
                THEN 1 ELSE 0
      BY <1>1, <1>2, TakeCharge, HubStartAssumption
    <2>3. TotalCharge(j)' <= TotalCharge(j)
            + IF n + 1 < MaxAttempts /\ aiJobs[j].attempts + 1 >= MaxAttempts
                THEN 1 ELSE 0
      BY <1>8, <2>1, <2>2, OtherBackers, PoolAssumption DEF TotalCharge
    <2>4. Outdated(j) = retries
      BY <1>1 DEF Outdated
    <2>5. Balanced(aiJobs[j].attempts, TotalCharge(j), retries + Other!Outdated(j),
                   starts)
      BY <1>1, <2>4 DEF ChargeInv
    <2>6. starts = 0 => n = aiJobs[j].attempts /\ Other!Outdated(j) = 0
      <3>1. starts = 0 => n = aiJobs[j].attempts /\ hub2 = "down"
        BY <1>1 DEF AloneInv
      <3>2. hub2 = "down" => reading2 = None
        BY DEF Other!DownInv, Other!ReadingInv, Other!Reading
      <3>3. QED
        BY <3>1, <3>2 DEF Other!Outdated
    <2>7. Balanced(aiJobs[j].attempts + 1, TotalCharge(j)', Other!Outdated(j), starts)
      BY <1>1, <1>8, <2>1, <2>3, <2>5, <2>6, TakenBalance
    <2>8. 0 + Other!Outdated(j) = Other!Outdated(j)
      BY <1>8
    <2>9. QED
      BY <1>4, <1>8, <2>7, <2>8 DEF Balanced
  <1>10. ASSUME NEW i \in DOMAIN aiJobs, i # j
         PROVE  Balanced(aiJobs[i].attempts, TotalCharge(i),
                         Outdated(i) + Other!Outdated(i), starts)'
    <2>1. Charge(i)' = Charge(i) /\ TotalCharge(i) \in Nat
      BY <1>1, <1>2, <1>10, TakeOthers, TotalType
    <2>2. TotalCharge(i)' <= TotalCharge(i) + 0 /\ starts' = starts + 0
      BY <1>8, <2>1 DEF TotalCharge
    <2>3. Outdated(i)' <= Outdated(i) /\ Other!Outdated(i)' <= Other!Outdated(i)
      BY <1>8, OutdatedType
    <2>4. QED
      BY <1>3, <1>4, <1>6, <1>7, <1>10, <2>2, <2>3, KeptAccount
  <1>11. ChargeInv'
    BY <1>4, <1>9, <1>10 DEF ChargeInv
  <1>12. QED
    BY <1>3, <1>4, <1>6, <1>7, <1>11

LEMMA SecondTakes ==
  ASSUME StartIInv, NEW w \in OtherWorker, reading2 # None,
         Other!Take(w, reading2.job, reading2.attempts), reading2' = None,
         UNCHANGED <<firstProcess, starts>>
  PROVE  StartIInv'
  <1> USE DEF StartIInv
  <1>1. PICK j \in DOMAIN aiJobs, n \in Nat :
          j = reading2.job /\ n = reading2.attempts /\ n <= aiJobs[j].attempts
    BY DEF Other!ReadingInv, Other!Reading
  <1> DEFINE retries == IF n + 1 < MaxAttempts THEN 1 ELSE 0
  <1>2. SecondHub!Take(w, j, n)
    BY <1>1, SameTake
  <1>3. /\ SecondHub!TypeOK /\ SecondHub!PoolInv /\ SecondHub!DownInv
        /\ SecondHub!DoneHasItsResponse /\ SecondHub!IsFiniteSet(OtherWorker)
    BY SameTypes, SamePool, SameTables, SameFiniteness, HubStartAssumption
  <1>4. SecondHub!TypeOK' /\ SecondHub!PoolInv' /\ SecondHub!DownInv'
    BY <1>1, <1>2, <1>3, SecondHub!TakeType, SecondHub!TakePool, SameAssumptions
    DEF SecondHub!TicksPerSecondAssumption, SecondHub!PoolAssumption,
        SecondHub!NoneAssumption, SecondHub!BoundAssumption
  <1>5. /\ TablesGrow /\ DoneHasItsResponse' /\ DOMAIN aiJobs' = DOMAIN aiJobs
        /\ aiJobs'[j].attempts = aiJobs[j].attempts + 1
        /\ \A i \in DOMAIN aiJobs : i # j => aiJobs'[i] = aiJobs[i]
    <2>1. /\ SecondHub!TablesGrow /\ SecondHub!DoneHasItsResponse'
          /\ DOMAIN aiJobs' = DOMAIN aiJobs
          /\ aiJobs'[j].attempts = aiJobs[j].attempts + 1
          /\ \A i \in DOMAIN aiJobs : i # j => aiJobs'[i] = aiJobs[i]
      BY <1>1, <1>2, <1>3, SecondHub!TakeGrows, SameAssumptions
      DEF SecondHub!TicksPerSecondAssumption, SecondHub!PoolAssumption,
          SecondHub!NoneAssumption, SecondHub!BoundAssumption
    <2>2. QED
      BY <2>1, SameTables, SameDoneNext
  <1>6. AttemptsGrow
    BY <1>5 DEF AttemptsGrow
  <1>7. Other!TypeOK' /\ Other!PoolInv' /\ Other!DownInv'
    BY <1>4, SameTypesNext, SamePoolNext
  <1>8. TypeOK' /\ PoolInv' /\ DownInv' /\ ReadingInv'
    BY <1>6, <1>7, FirstFrame
  <1>9. starts # 0
    <2>1. pc2[w] = "claim"
      BY <1>2 DEF SecondHub!Take
    <2>2. hub2 # "down"
      BY <2>1 DEF Other!DownInv
    <2>3. QED
      BY <2>2 DEF AloneInv
  <1>10. Other!ReadingInv' /\ AloneInv' /\ hub' = hub
    BY <1>9 DEF Other!ReadingInv, AloneInv, firstProcess, process
  <1>11. ASSUME NEW i
         PROVE  /\ Cardinality(Backers(i))' = Cardinality(Backers(i))
                /\ Outdated(i)' = Outdated(i) /\ Other!Outdated(i)' = 0
                /\ Outdated(i) \in 0 .. 1
    <2>1. Backers(i)' = Backers(i)
      BY DEF firstProcess, workers, Backers
    <2>2. QED
      BY <2>1, OutdatedType DEF firstProcess, Other!Outdated, Outdated
  <1>12. ASSUME NEW i \in DOMAIN aiJobs
         PROVE  /\ TotalCharge(i) \in Nat /\ aiJobs[i].attempts \in Nat
                /\ TotalCharge(i)' \in Nat
                /\ SecondHub!Charge(i) \in Nat /\ SecondHub!Charge(i)' \in Nat
                /\ Cardinality(Backers(i)) \in Nat
                /\ TotalCharge(i) = Cardinality(Backers(i)) + SecondHub!Charge(i)
                /\ TotalCharge(i)' = Cardinality(Backers(i)) + SecondHub!Charge(i)'
    <2>1. /\ Cardinality(Backers(i)) \in Nat /\ Waiting(i) \in 0 .. 1
          /\ Spent(i) \in Nat /\ TotalCharge(i) \in Nat /\ aiJobs[i].attempts \in Nat
      BY TotalType
    <2>2. /\ Cardinality(Backers(i))' \in Nat /\ Waiting(i)' \in 0 .. 1
          /\ Spent(i)' \in Nat /\ TotalCharge(i)' \in Nat
      BY <1>5, <1>8, TotalTypeNext
    <2>3. /\ Cardinality(Other!Backers(i)) \in Nat
          /\ Cardinality(Other!Backers(i))' \in Nat
      BY OtherBackers
    <2>4. /\ TotalCharge(i) = Cardinality(Backers(i)) + SecondHub!Charge(i)
          /\ SecondHub!Charge(i) \in Nat
      BY <2>1, <2>3, ChargeUnderBothNames DEF TotalCharge, Charge
    <2>5. /\ TotalCharge(i)' = Cardinality(Backers(i))' + SecondHub!Charge(i)'
          /\ SecondHub!Charge(i)' \in Nat
      BY <2>2, <2>3, ChargeUnderBothNames DEF TotalCharge, Charge
    <2>6. QED
      BY <1>11, <2>1, <2>2, <2>4, <2>5
  <1>13. Balanced(aiJobs[j].attempts, TotalCharge(j), Outdated(j) + Other!Outdated(j),
                  starts)'
    <2>1. SecondHub!Charge(j)' <= SecondHub!Charge(j)
            + IF n + 1 < MaxAttempts /\ aiJobs[j].attempts + 1 >= MaxAttempts
                THEN 1 ELSE 0
      BY <1>1, <1>2, <1>3, SecondHub!TakeCharge, SameAssumptions
      DEF SecondHub!TicksPerSecondAssumption, SecondHub!PoolAssumption,
          SecondHub!NoneAssumption, SecondHub!BoundAssumption
    <2>2. TotalCharge(j)' <= TotalCharge(j)
            + IF n + 1 < MaxAttempts /\ aiJobs[j].attempts + 1 >= MaxAttempts
                THEN 1 ELSE 0
      BY <1>1, <1>12, <2>1, PoolAssumption
    <2>3. Other!Outdated(j) = retries
      BY <1>1 DEF Other!Outdated
    <2>4. Balanced(aiJobs[j].attempts, TotalCharge(j), retries + Outdated(j), starts)
      <3>1. Outdated(j) + retries = retries + Outdated(j)
        BY <1>11
      <3>2. QED
        BY <1>1, <2>3, <3>1 DEF ChargeInv
    <2>5. Balanced(aiJobs[j].attempts + 1, TotalCharge(j)', Outdated(j), starts)
      BY <1>1, <1>9, <1>11, <1>12, <2>2, <2>4, TakenBalance
    <2>6. Outdated(j) + 0 = Outdated(j)
      BY <1>11
    <2>7. QED
      BY <1>5, <1>11, <2>5, <2>6 DEF Balanced
  <1>14. ASSUME NEW i \in DOMAIN aiJobs, i # j
         PROVE  Balanced(aiJobs[i].attempts, TotalCharge(i),
                         Outdated(i) + Other!Outdated(i), starts)'
    <2>1. SecondHub!Charge(i)' = SecondHub!Charge(i)
      BY <1>1, <1>2, <1>3, <1>14, SecondHub!TakeOthers, SameAssumptions
      DEF SecondHub!TicksPerSecondAssumption, SecondHub!PoolAssumption,
          SecondHub!NoneAssumption, SecondHub!BoundAssumption
    <2>2. TotalCharge(i)' <= TotalCharge(i) + 0 /\ starts' = starts + 0
      BY <1>12, <2>1
    <2>3. Outdated(i)' <= Outdated(i) /\ Other!Outdated(i)' <= Other!Outdated(i)
      BY <1>11, OutdatedType
    <2>4. QED
      BY <1>5, <1>8, <1>10, <1>14, <2>2, <2>3, KeptAccount
  <1>15. ChargeInv'
    BY <1>5, <1>13, <1>14 DEF ChargeInv
  <1>16. QED
    BY <1>5, <1>7, <1>8, <1>10, <1>15

-------------------------------------------------------------------------------
(* The steps of two Hubs.                                                    *)

LEMMA FirstStep ==
  ASSUME StartIInv, FirstWorks
  PROVE  StartIInv'
  <1> USE DEF StartIInv
  <1>1. UNCHANGED <<secondProcess, starts>>
    BY DEF FirstWorks
  <1>2. ASSUME [Next]_vars, ~Restart, UNCHANGED hub,
               \A i \in DOMAIN aiJobs : aiJobs'[i].attempts = aiJobs[i].attempts,
               \/ reading' = None
               \/ /\ reading' = reading
                  /\ reading # None => pc'[reading.by] = pc[reading.by]
        PROVE  StartIInv'
    <2>1. TypeOK' /\ PoolInv' /\ DownInv' /\ DoneHasItsResponse' /\ TablesGrow
      BY <1>2, TypeStep, PoolStep, DownStep, DoneStep, StepGrows
    <2>2. \A i \in DOMAIN aiJobs : Charge(i)' <= Charge(i)
      BY <1>2, AccountStep, HubStartAssumption
    <2>3. \A i \in DOMAIN aiJobs' : i \notin DOMAIN aiJobs => Charge(i)' <= 1
      BY <1>2, AccountOpened, HubStartAssumption
    <2>4. QED
      BY <1>1, <1>2, <2>1, <2>2, <2>3, QuietFirst
  <1>3. ASSUME NEW w \in Worker, Update(w)
        PROVE  StartIInv'
    <2>1. reading # None /\ reading' = None
      BY <1>3 DEF Update, StoreMuFree
    <2>2. CASE Take(w, reading.job, reading.attempts)
      BY <1>1, <2>1, <2>2, FirstTakes
    <2>3. CASE Sleep(w) /\ StoreWorks
      <3>1. /\ TypeOK' /\ PoolInv' /\ DownInv' /\ UNCHANGED <<tables, held, tries, hub>>
        BY <2>3, SleepPool DEF Sleep, process
      <3>2. /\ DoneHasItsResponse' /\ TablesGrow /\ UNCHANGED aiJobs
        BY <3>1 DEF tables, DoneHasItsResponse, TablesGrow
      <3>3. \A i \in DOMAIN aiJobs : Charge(i)' = Charge(i) /\ Charge(i) \in Nat
        BY <3>1, <3>2, TotalType DEF Charge, Backers, Waiting, Spent
      <3>4. \A i \in DOMAIN aiJobs : Charge(i)' <= Charge(i)
        BY <3>3
      <3>5. QED
        BY <1>1, <2>1, <3>1, <3>2, <3>4, QuietFirst
    <2>4. CASE Sleep(w) /\ StoreFails
      <3>1. NoClaim(w)
        BY <2>4 DEF NoClaim
      <3>2. [Next]_vars /\ ~Restart /\ UNCHANGED <<hub, aiJobs>>
        BY <2>4, <3>1 DEF Next, WorkerStep, Sleep, process, tables, Restart
      <3>3. QED
        BY <1>2, <2>1, <3>2
    <2>5. QED
      BY <1>3, <2>2, <2>3, <2>4 DEF Update
  <1>4. QED
    BY <1>1, <1>2, <1>3, FirstCases, FirstSelects

LEMMA SecondStep ==
  ASSUME StartIInv, NEW w \in OtherWorker, SecondWorks(w)
  PROVE  StartIInv'
  <1> USE DEF StartIInv
  <1>1. UNCHANGED <<firstProcess, starts>> /\ starts' = starts + 0
    BY DEF SecondWorks
  <1>2. /\ SecondHub!TypeOK /\ SecondHub!PoolInv /\ SecondHub!DownInv
        /\ SecondHub!DoneHasItsResponse /\ SecondHub!IsFiniteSet(OtherWorker)
    BY SameTypes, SamePool, SameTables, SameFiniteness, HubStartAssumption
  <1>3. ASSUME [SecondHub!Next]_(SecondHub!vars), ~SecondHub!Restart, UNCHANGED hub2,
               \A i \in DOMAIN aiJobs : aiJobs'[i].attempts = aiJobs[i].attempts,
               \/ reading2' = None
               \/ /\ reading2' = reading2
                  /\ reading2 # None => pc2'[reading2.by] = pc2[reading2.by]
        PROVE  StartIInv'
    <2>1. /\ SecondHub!TypeOK' /\ SecondHub!PoolInv' /\ SecondHub!DownInv'
          /\ SecondHub!DoneHasItsResponse' /\ SecondHub!TablesGrow
      BY <1>2, <1>3, SecondHub!TypeStep, SecondHub!PoolStep, SecondHub!DownStep,
         SecondHub!DoneStep, SecondHub!StepGrows, SameAssumptions
      DEF SecondHub!TicksPerSecondAssumption, SecondHub!PoolAssumption,
          SecondHub!NoneAssumption, SecondHub!BoundAssumption
    <2>2. /\ Other!TypeOK' /\ Other!PoolInv' /\ Other!DownInv'
          /\ DoneHasItsResponse' /\ TablesGrow
      BY <2>1, SameTypesNext, SamePoolNext, SameDoneNext, SameTables
    <2>3. \A i \in DOMAIN aiJobs : SecondHub!Charge(i)' <= SecondHub!Charge(i)
      BY <1>2, <1>3, SecondHub!AccountStep, SameAssumptions
      DEF SecondHub!TicksPerSecondAssumption, SecondHub!PoolAssumption,
          SecondHub!NoneAssumption, SecondHub!BoundAssumption
    <2>4. \A i \in DOMAIN aiJobs : SecondHub!Charge(i)' <= SecondHub!Charge(i) + 0
      <3>1. \A i \in DOMAIN aiJobs : SecondHub!Charge(i) \in Nat
        BY TotalType, OtherBackers, ChargeUnderBothNames
      <3>2. QED
        BY <2>3, <3>1
    <2>5. \A i \in DOMAIN aiJobs' : i \notin DOMAIN aiJobs => SecondHub!Charge(i)' <= 1
      BY <1>2, <1>3, SecondHub!AccountOpened, SameAssumptions
      DEF SecondHub!TicksPerSecondAssumption, SecondHub!PoolAssumption,
          SecondHub!NoneAssumption, SecondHub!BoundAssumption
    <2>6. starts' = 0 => hub2' = "down"
      BY <1>1, <1>3 DEF AloneInv
    <2>7. QED
      BY <1>1, <1>3, <2>2, <2>4, <2>5, <2>6, QuietSecond
  <1>4. CASE Other!Update(w)
    <2>1. reading2 # None /\ reading2' = None
      BY <1>4 DEF Other!Update, Other!StoreMuFree
    <2>2. CASE Other!Take(w, reading2.job, reading2.attempts)
      BY <1>1, <2>1, <2>2, SecondTakes
    <2>3. CASE Other!Sleep(w) /\ Other!StoreWorks
      <3>1. SecondHub!Sleep(w) /\ SecondHub!StoreWorks
        BY <2>3, SameSleep
      <3>2. /\ SecondHub!TypeOK' /\ SecondHub!PoolInv' /\ SecondHub!DownInv'
            /\ UNCHANGED <<SecondHub!tables, held2, tries2>>
        BY <1>2, <3>1, SecondHub!SleepPool, SameAssumptions
        DEF SecondHub!TicksPerSecondAssumption, SecondHub!PoolAssumption,
            SecondHub!NoneAssumption, SecondHub!BoundAssumption
      <3>3. /\ Other!TypeOK' /\ Other!PoolInv' /\ Other!DownInv'
            /\ UNCHANGED <<tables, hub2>>
        BY <2>3, <3>2, SameTypesNext, SamePoolNext
        DEF SecondHub!tables, tables, Other!Sleep, Other!process
      <3>4. /\ DoneHasItsResponse' /\ TablesGrow /\ UNCHANGED aiJobs
        BY <3>3 DEF tables, DoneHasItsResponse, TablesGrow
      <3>5. ASSUME NEW i \in DOMAIN aiJobs
            PROVE  SecondHub!Charge(i)' <= SecondHub!Charge(i) + 0
        <4>1. SecondHub!Charge(i)' = SecondHub!Charge(i)
          BY <3>2, <3>4
          DEF SecondHub!Charge, SecondHub!Backers, SecondHub!Waiting, SecondHub!Spent
        <4>2. SecondHub!Charge(i) \in Nat
          BY TotalType, OtherBackers, ChargeUnderBothNames
        <4>3. QED
          BY <4>1, <4>2
      <3>6. starts' = 0 => hub2' = "down"
        BY <1>1, <3>3 DEF AloneInv
      <3>7. QED
        BY <1>1, <2>1, <3>3, <3>4, <3>5, <3>6, QuietSecond
    <2>4. CASE Other!Sleep(w) /\ Other!StoreFails
      <3>1. SecondHub!NoClaim(w)
        BY <2>4, SameSleep
      <3>2. UNCHANGED <<hub2, aiJobs>> /\ pc2[w] = "claim"
        BY <2>4 DEF Other!Sleep, Other!process, Other!tables
      <3>3. hub2 # "down"
        BY <3>2 DEF Other!DownInv
      <3>4. [SecondHub!Next]_(SecondHub!vars) /\ ~SecondHub!Restart
        BY <3>1, <3>3 DEF SecondHub!Next, SecondHub!WorkerStep, SecondHub!Restart
      <3>5. QED
        BY <1>3, <2>1, <3>2, <3>4
    <2>5. QED
      BY <1>4, <2>2, <2>3, <2>4 DEF Other!Update
  <1>5. QED
    BY <1>1, <1>3, <1>4, SecondCases, SecondSelects

\* A start charges every row at most once: its requeue may put a row that the first
\* Hub is running back into the queue.
LEMMA StartStep ==
  ASSUME StartIInv, SecondStarts
  PROVE  StartIInv'
  <1> USE DEF StartIInv
  <1>1. /\ UNCHANGED <<firstProcess, reading2>> /\ starts' = starts + 1
        /\ SecondHub!Restart \/ SecondHub!RestartFault
    BY SameStart DEF SecondStarts
  <1>2. /\ SecondHub!TypeOK /\ SecondHub!PoolInv /\ SecondHub!DownInv
        /\ SecondHub!DoneHasItsResponse /\ SecondHub!IsFiniteSet(OtherWorker)
        /\ [SecondHub!Next]_(SecondHub!vars)
    BY <1>1, SameTypes, SamePool, SameTables, SameFiniteness, HubStartAssumption
    DEF SecondHub!Next
  <1>3. /\ SecondHub!TypeOK' /\ SecondHub!PoolInv' /\ SecondHub!DownInv'
        /\ SecondHub!DoneHasItsResponse' /\ SecondHub!TablesGrow
    BY <1>2, SecondHub!TypeStep, SecondHub!PoolStep, SecondHub!DownStep,
       SecondHub!DoneStep, SecondHub!StepGrows, SameAssumptions
    DEF SecondHub!TicksPerSecondAssumption, SecondHub!PoolAssumption,
        SecondHub!NoneAssumption, SecondHub!BoundAssumption
  <1>4. /\ Other!TypeOK' /\ Other!PoolInv' /\ Other!DownInv'
        /\ DoneHasItsResponse' /\ TablesGrow
    BY <1>3, SameTypesNext, SamePoolNext, SameDoneNext, SameTables
  <1>5. reading2' = None
    <2>1. hub2 = "down"
      BY <1>1 DEF SecondHub!Restart, SecondHub!RestartFault
    <2>2. QED
      BY <1>1, <2>1 DEF Other!DownInv, Other!ReadingInv, Other!Reading
  <1>6. \A i \in DOMAIN aiJobs : aiJobs'[i].attempts = aiJobs[i].attempts
    BY <1>1, <1>2, SecondHub!AttemptsKept, SameAssumptions
    DEF SecondHub!TicksPerSecondAssumption, SecondHub!PoolAssumption,
        SecondHub!NoneAssumption, SecondHub!BoundAssumption
  <1>7. ASSUME NEW i \in DOMAIN aiJobs
        PROVE  SecondHub!Charge(i)' <= SecondHub!Charge(i) + 1
    <2>1. \/ SecondHub!Charge(i)' <= SecondHub!Charge(i)
          \/ SecondHub!Charge(i)' <= SecondHub!Charge(i) + 1
      BY <1>2, SecondHub!AccountStep, SameAssumptions
      DEF SecondHub!TicksPerSecondAssumption, SecondHub!PoolAssumption,
          SecondHub!NoneAssumption, SecondHub!BoundAssumption
    <2>2. i \in DOMAIN aiJobs'
      BY <1>4 DEF TablesGrow
    <2>3. SecondHub!Charge(i) \in Nat
      BY TotalType, OtherBackers, ChargeUnderBothNames
    <2>4. TypeOK'
      BY <1>4, <1>6, FirstFrame, <1>1 DEF AttemptsGrow
    <2>5. SecondHub!Charge(i)' \in Nat
      BY <2>2, <2>4, TotalTypeNext, OtherBackers, ChargeUnderBothNames
    <2>6. QED
      BY <2>1, <2>3, <2>5
  <1>8. \A i \in DOMAIN aiJobs' : i \notin DOMAIN aiJobs => SecondHub!Charge(i)' <= 1
    BY <1>2, SecondHub!AccountOpened, SameAssumptions
    DEF SecondHub!TicksPerSecondAssumption, SecondHub!PoolAssumption,
        SecondHub!NoneAssumption, SecondHub!BoundAssumption
  <1>9. QED
    BY <1>1, <1>4, <1>5, <1>6, <1>7, <1>8, QuietSecond

\* The second Hub ends: nothing is left of it but what it wrote.
LEMMA BindFailsStep ==
  ASSUME StartIInv, BindFails
  PROVE  StartIInv'
  <1> USE DEF StartIInv
  <1>1. /\ UNCHANGED <<now, tables, budget, configured2, firstProcess>>
        /\ starts' = starts + 0
        /\ hub2' = "down" /\ wake2' = FALSE
        /\ pc2' = [w \in OtherWorker |-> "dead"]
        /\ held2' = [w \in OtherWorker |-> None]
        /\ tries2' = [w \in OtherWorker |-> 0]
        /\ packet2' = [w \in OtherWorker |-> None]
        /\ problem2' = [w \in OtherWorker |-> "ok"]
        /\ cpc2' = [c \in Client |-> "idle"]
        /\ creq2' = [c \in Client |-> None]
        /\ reading2' = None
    BY DEF BindFails, Other!Ends, Other!VolatileLost
  <1>2. Other!TypeOK'
    BY <1>1
    DEF tables, budget, Other!TypeOK, Other!HubState, Other!WorkerPc,
        Other!ErrorCode, Other!ClientPc
  <1>3. Other!PoolInv' /\ Other!DownInv'
    BY <1>1 DEF Other!PoolInv, Other!AnswerInv, Other!DownInv, Other!Working
  <1>4. DoneHasItsResponse' /\ TablesGrow /\ aiJobs' = aiJobs
    BY <1>1 DEF tables, DoneHasItsResponse, TablesGrow
  <1>5. ASSUME NEW i \in DOMAIN aiJobs
        PROVE  SecondHub!Charge(i)' <= SecondHub!Charge(i) + 0
    <2>1. Other!Backers(i)' = {}
      <3>1. i # None
        BY NoneAssumption DEF TypeOK
      <3>2. QED
        BY <1>1, <3>1 DEF Other!Backers
    <2>2. Cardinality(Other!Backers(i))' = 0
      BY <2>1, FS_EmptySet
    <2>3. Waiting(i)' = Waiting(i) /\ Spent(i)' = Spent(i)
      BY <1>4 DEF Waiting, Spent
    <2>4. Waiting(i) \in 0 .. 1 /\ Spent(i) \in Nat
      BY TotalType
    <2>5. QED
      BY <2>2, <2>3, <2>4, OtherBackers, ChargeUnderBothNames
  <1>6. QED
    BY <1>1, <1>2, <1>3, <1>4, <1>5, QuietSecond

LEMMA InitStartIInv == StartInit => StartIInv
  <1> SUFFICES ASSUME StartInit
               PROVE  StartIInv
    OBVIOUS
  <1>1. DOMAIN aiJobs = {}
    BY DEF StartInit, Init, NoRows
  <1>2. TypeOK /\ PoolInv /\ DownInv
    BY InitIInv, OwnersArePools DEF StartInit, IInv
  <1>3. Other!TypeOK
    BY <1>2
    DEF StartInit, SecondDown, TypeOK, Other!TypeOK, AIJob, Other!AIJob, Status,
        Other!Status, ResponseId, Other!ResponseId, AIResponse, Other!AIResponse,
        NoTime, Other!NoTime, Other!HubState, Other!WorkerPc, Other!ErrorCode,
        Other!ClientPc
  <1>4. Other!PoolInv /\ Other!DownInv
    BY DEF StartInit, SecondDown, Other!PoolInv, Other!AnswerInv, Other!DownInv,
           Other!Working
  <1>5. ReadingInv /\ Other!ReadingInv /\ AloneInv
    BY DEF StartInit, SecondDown, ReadingInv, Other!ReadingInv, AloneInv
  <1>6. QED
    BY <1>1, <1>2, <1>3, <1>4, <1>5
    DEF StartInit, Init, StartIInv, DoneHasItsResponse, ChargeInv

\* A step in which nothing changes.
LEMMA StutterStep ==
  ASSUME StartIInv, UNCHANGED bothVars
  PROVE  StartIInv'
  <1> USE DEF StartIInv
  <1>1. /\ [Next]_vars /\ hub' = hub /\ reading' = reading /\ pc' = pc
        /\ aiJobs' = aiJobs /\ UNCHANGED <<secondProcess, starts>>
    BY DEF bothVars, vars, process, workers, tables
  <1>2. ~Restart
    BY DEF Restart
  <1>3. TypeOK' /\ PoolInv' /\ DownInv' /\ DoneHasItsResponse' /\ TablesGrow
    BY <1>1, TypeStep, PoolStep, DownStep, DoneStep, StepGrows
  <1>4. \A i \in DOMAIN aiJobs : Charge(i)' <= Charge(i)
    BY <1>1, <1>2, AccountStep, HubStartAssumption
  <1>5. QED
    BY <1>1, <1>3, <1>4, QuietFirst

LEMMA StepStartIInv == StartIInv /\ [StartNext]_bothVars => StartIInv'
  BY FirstStep, SecondStep, StartStep, BindFailsStep, StutterStep DEF StartNext

-------------------------------------------------------------------------------
(* The theorems.                                                             *)

\* Each process keeps what it knows of the rows in its hands, and what both may
\* still claim is accounted for, however the steps of the two interleave and
\* however old the copy is by which a claim takes its row.
THEOREM StartInductive == StartSpec => []StartIInv
  BY InitStartIInv, StepStartIInv, PTL DEF StartSpec

\* A start of a second Hub costs a row at most one model call, and all of them one
\* more, for the copy that was selected before the row reached its last attempt.
THEOREM StartsPaidFor == StartSpec => []AttemptsWithinStarts
  <1>1. StartIInv => AttemptsWithinStarts
    <2> SUFFICES ASSUME StartIInv, NEW j \in DOMAIN aiJobs
                 PROVE  aiJobs[j].attempts <=
                          IF starts = 0 THEN MaxAttempts ELSE MaxAttempts + starts + 1
      BY DEF AttemptsWithinStarts
    <2> DEFINE extra == starts + IF starts = 0 THEN 0 ELSE 1
    <2>1. TypeOK /\ starts \in Nat /\ extra \in Nat
      BY DEF StartIInv
    <2>2. /\ TotalCharge(j) \in Nat /\ Charge(j) \in Nat /\ aiJobs[j].attempts \in Nat
          /\ TotalCharge(j) = Charge(j) + Cardinality(Other!Backers(j))
      BY <2>1, TotalType DEF TotalCharge
    <2>3. Outdated(j) \in 0 .. 1 /\ Other!Outdated(j) \in 0 .. 1
      BY OutdatedType DEF StartIInv
    <2>4. TotalCharge(j) <= 1 + extra
      BY <2>1, <2>2, <2>3, PoolAssumption DEF StartIInv, ChargeInv, Balanced
    <2>5. Charge(j) <= 1 + extra
      BY <2>1, <2>2, <2>4, OtherBackers
    <2>6. aiJobs[j].attempts <= MaxAttempts + extra
      BY <2>1, <2>5, ChargeBounds, HubStartAssumption
    <2>7. QED
      BY <2>1, <2>6, PoolAssumption
  <1>2. QED
    BY <1>1, StartInductive, PTL

\* A done row names a stored response to its revision, whichever process saved it
\* and whichever settled the row.
THEOREM DoneIsAnsweredByEither == StartSpec => []DoneHasItsResponse
  <1>1. StartIInv => DoneHasItsResponse
    BY DEF StartIInv
  <1>2. QED
    BY <1>1, StartInductive, PTL
================================================================================
