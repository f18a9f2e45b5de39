--------------------------- MODULE CaptureQueueProof ---------------------------
(***************************************************************************)
(* Proofs about the capture queue for every number of jobs, workers,        *)
(* handlers, documents, crashes and failing calls.  What the packet store   *)
(* promises is not proved again: every step of the queue is a use of the    *)
(* store, and whoever uses the store keeps its invariant                    *)
(* (PacketStoreProof, UseKeepsInv).  The last part proves that the queue    *)
(* implements the ledger of capture jobs.                                   *)
(***************************************************************************)
EXTENDS CaptureQueueInvariant, CaptureQueueLedger, TLAPS

Store == INSTANCE PacketStoreProof WITH Caller <- Worker \cup Browser

IInv == Store!IInv /\ QueueInv

-------------------------------------------------------------------------------
(* The packet store, as the queue and the browser use it.                    *)

\* The assumptions of the store.
LEMMA StoreAssumptions ==
  /\ FineClock \in BOOLEAN
  /\ None \notin Worker \cup Browser
  /\ None \notin Store!Packet /\ None \notin Store!Result
  BY CaptureClockAssumption, CaptureNoneAssumption
  DEF Packets!Packet, Packets!Result, Packets!Rev, Store!Packet, Store!Result, Store!Rev

\* The types of the store, under both names.
LEMMA SameTypes == Store!TypeOK <=> Packets!TypeOK
  BY DEF Store!TypeOK, Packets!TypeOK, Store!Rev, Packets!Rev, Store!PacketFile,
         Packets!PacketFile, Store!Row, Packets!Row, Store!Inside, Packets!Inside,
         Store!Packet, Packets!Packet, Store!Result, Packets!Result

\* The counters of a step.
LEMMA Counters ==
  ASSUME TypeOK, [Next]_vars
  PROVE  /\ captures' \in Nat /\ crashes' \in Nat /\ faults' \in Nat
         /\ faults' = 0 => faults = 0
  <1> DEFINE Count ==
        /\ captures' = captures \/ captures' = captures + 1
        /\ crashes' = crashes \/ crashes' = crashes + 1
        /\ faults' = faults \/ faults' = faults + 1
  <1> USE DEF packetVars, budget, Works, Fails, Packets!Fails
  <1>0. captures \in Nat /\ crashes \in Nat /\ faults \in Nat
    BY DEF TypeOK, Packets!TypeOK
  <1>1. ASSUME NEW c \in Worker \cup Browser, StoreStep(c) \/ StoreFault(c)
        PROVE  Count
    BY <1>1
    DEF StoreStep, StoreFault, Packets!SaveStep, Packets!StoreStep, Packets!Lookup,
        Packets!WriteFile, Packets!WriteRow, Packets!StoreFault,
        Packets!LookupFault, Packets!WriteFileFault, Packets!WriteRowFault,
        Packets!budget
  <1>2. ASSUME NEW w \in Worker,
               WorkerStep(w) \/ GetJobFault(w) \/ StopWorker(w), ~StoreStep(w)
        PROVE  Count
    BY <1>2
    DEF WorkerStep, Claim, NoClaim, GetJob, GetJobFault, Save, SaveLast,
        SavePlanning, Plan, PlanError, SaveRunning, Run, SaveNormalizing,
        Normalize, NormalizeError, Stored, StoreError, SaveStored, SaveDone,
        SaveFailed, WakeUp, TickerFires, StopWorker, Packets!Begin,
        Packets!Take, Packets!budget
  <1>3. ASSUME NEW s \in Submitter, SubmitCall(s) \/ SubmitStep(s) \/ SubmitFault(s)
        PROVE  Count
    BY <1>3 DEF SubmitCall, SubmitStep, SubmitSave, SubmitNotify, SubmitFault
  <1>4. ASSUME NEW b \in Browser, NEW d \in Doc, NEW h \in Hash, BrowserCapture(b, d, h)
        PROVE  Count
    BY <1>4 DEF BrowserCapture, Packets!CaptureSnapshot, Packets!Begin, Packets!budget
  <1>5. ASSUME NEW b \in Browser, BrowserReply(b)
        PROVE  Count
    BY <1>5 DEF BrowserReply, Packets!Reply, Packets!Take, Packets!budget
  <1>6. ASSUME Tick \/ Close \/ CloseReturns \/ Crash \/ Restart \/ RestartFault
        PROVE  Count
    BY <1>6 DEF Tick, Packets!Tick, Packets!budget, Close, CloseReturns, Crash,
                VolatileLost, Restart, RestartFault, Started
  <1>7. ASSUME UNCHANGED vars
        PROVE  Count
    BY <1>7 DEF vars
  <1>8. Count
    BY <1>1, <1>2, <1>3, <1>4, <1>5, <1>6, <1>7 DEF Next, BrowserStep
  <1>9. QED
    BY <1>0, <1>8

\* Every step of the queue is a use of the store.
LEMMA StoreUsed ==
  ASSUME TypeOK, [Next]_vars
  PROVE  Store!Use
  <1> USE DEF packetVars
  <1>1. captures' \in Nat /\ crashes' \in Nat /\ faults' \in Nat
    BY Counters
  <1>2. CASE Store!Untouched
    BY <1>1, <1>2 DEF Store!Use
  <1>3. ASSUME NEW c \in Worker \cup Browser, StoreStep(c) \/ StoreFault(c)
        PROVE  Store!Use
    <2>1. Store!StoreStep(c) \/ Store!StoreFault(c)
      BY <1>3
      DEF StoreStep, StoreFault, Packets!SaveStep, Packets!StoreStep,
          Packets!StoreFault, Store!StoreStep, Store!StoreFault, Packets!Lookup,
          Packets!WriteFile, Packets!WriteRow, Store!Lookup, Store!WriteFile,
          Store!WriteRow, Packets!LookupFault, Packets!WriteFileFault,
          Packets!WriteRowFault, Store!LookupFault, Store!WriteFileFault,
          Store!WriteRowFault, Packets!MuFree, Store!MuFree, Packets!Unchanged,
          Store!Unchanged, Packets!SaveReturns, Store!SaveReturns,
          Packets!Unlocked, Store!Unlocked, Packets!Saved, Store!Saved,
          Packets!Deduped, Store!Deduped, Packets!Error, Store!Error,
          Packets!LatestRevision, Store!LatestRevision, Packets!disk, Store!disk,
          Packets!budget, Store!budget, Packets!Upsert, Store!Upsert,
          Packets!FileOf, Store!FileOf, Packets!Fails, Store!Fails,
          Packets!CutOff, Store!CutOff, Packets!AfterWriteError,
          Store!AfterWriteError
    <2>2. QED
      BY <1>1, <2>1 DEF Store!Use
  <1>4. ASSUME NEW c \in Worker \cup Browser, NEW d \in Doc, NEW h \in Hash,
               Packets!Begin(c, d, h)
        PROVE  Store!Use
    <2>1. Store!Begin(c, d, h)
      BY <1>4 DEF Packets!Begin, Store!Begin, Packets!ReadClock, Store!ReadClock,
                  Packets!RevisionID, Store!RevisionID, Packets!disk, Store!disk,
                  Packets!budget, Store!budget
    <2>2. QED
      BY <1>1, <2>1 DEF Store!Use
  <1>5. ASSUME NEW c \in Worker \cup Browser, Packets!Take(c),
               UNCHANGED receipts \/ Packets!Reply(c)
        PROVE  Store!Use
    <2>1. Store!Leave(c)
      BY <1>5 DEF Packets!Take, Store!Take, Packets!Reply, Store!Leave,
                  Packets!Receipt, Store!Receipt, Packets!disk, Store!disk,
                  Packets!budget, Store!budget
    <2>2. QED
      BY <1>1, <2>1 DEF Store!Use
  <1>6. CASE VolatileLost
    <2>1. Store!Die
      BY <1>6 DEF VolatileLost, Packets!Die, Store!Die, Packets!CutOff, Store!CutOff,
                  Packets!Upsert, Store!Upsert, Packets!FileOf, Store!FileOf
    <2>2. QED
      BY <1>1, <2>1 DEF Store!Use
  <1>7. CASE now' = now + 1 /\ UNCHANGED <<files, documents, mu, spc, packet, result, receipts>>
    <2>1. Store!AnInstantPasses
      BY <1>7 DEF Store!AnInstantPasses, Store!disk, Store!callers
    <2>2. QED
      BY <1>1, <2>1 DEF Store!Use
  <1> USE DEF Store!Untouched, Store!disk, Store!callers
  <1>8. ASSUME NEW w \in Worker,
               WorkerStep(w) \/ GetJobFault(w) \/ StopWorker(w) \/ StoreFault(w)
        PROVE  Store!Use
    BY <1>2, <1>3, <1>4, <1>5, <1>8
    DEF WorkerStep, Claim, NoClaim, GetJob, GetJobFault, Save, SaveLast,
        SavePlanning, Plan, PlanError, SaveRunning, Run, SaveNormalizing,
        Normalize, NormalizeError, Stored, StoreError, SaveStored, SaveDone,
        SaveFailed, WakeUp, TickerFires, StopWorker
  <1>9. ASSUME NEW s \in Submitter, SubmitCall(s) \/ SubmitStep(s) \/ SubmitFault(s)
        PROVE  Store!Use
    BY <1>2, <1>7, <1>9
    DEF SubmitCall, SubmitStep, SubmitSave, SubmitNotify, SubmitFault,
        Packets!ReadClock
  <1>10. ASSUME NEW b \in Browser, BrowserStep(b) \/ StoreFault(b)
         PROVE  Store!Use
    BY <1>3, <1>5, <1>10 DEF BrowserStep, BrowserReply, Packets!Reply
  <1>11. ASSUME NEW b \in Browser, NEW d \in Doc, NEW h \in Hash, BrowserCapture(b, d, h)
         PROVE  Store!Use
    BY <1>4, <1>11 DEF BrowserCapture, Packets!CaptureSnapshot
  <1>12. CASE Tick
    BY <1>7, <1>12 DEF Tick, Packets!Tick, Packets!disk, Packets!callers
  <1>13. CASE Close \/ CloseReturns \/ Crash \/ Restart \/ RestartFault
    BY <1>2, <1>6, <1>13 DEF Close, CloseReturns, Crash, Restart, RestartFault, Started
  <1>14. CASE UNCHANGED vars
    BY <1>2, <1>14 DEF vars
  <1>15. QED
    BY <1>8, <1>9, <1>10, <1>11, <1>12, <1>13, <1>14 DEF Next

\* The store keeps its invariant while the queue uses it.
LEMMA StoreStepInv ==
  ASSUME Store!IInv, TypeOK, [Next]_vars
  PROVE  Store!IInv'
  BY StoreUsed, Store!UseKeepsInv, StoreAssumptions
  DEF Store!ClockAssumption, Store!NobodyAssumption

\* What a worker finds when the store has answered.
LEMMA Returned ==
  ASSUME Store!IInv, NEW w \in Worker, Packets!Take(w)
  PROVE  /\ packet[w].doc \in Doc
         /\ result[w].ok => result[w].rev \in Nat
         /\ FineClock /\ result[w].ok =>
              /\ result[w].rev \in DOMAIN files
              /\ files[result[w].rev].whole
              /\ files[result[w].rev].doc = packet[w].doc
  <1>1. w \in Worker \cup Browser /\ spc[w] = "returned"
    BY DEF Packets!Take
  <1>2. packet[w] \in Store!Packet /\ result[w] \in Store!Result
    BY <1>1 DEF Store!IInv, Store!TypeOK, Store!CallInv
  <1>3. FineClock /\ result[w].ok =>
          Store!Holds(result[w].rev, packet[w].doc, packet[w].hash)
    BY <1>1 DEF Store!IInv, Store!ContentInv, Store!WrittenInv
  <1>4. result[w].ok => result[w].rev \in Nat
    BY <1>2 DEF Store!Result, Store!Rev
  <1>5. packet[w].doc \in Doc
    BY <1>2 DEF Store!Packet
  <1>6. QED
    BY <1>3, <1>4, <1>5 DEF Store!Holds

-------------------------------------------------------------------------------
(* What a step of a worker does to the rows and to its copy of one.          *)

\* No other worker and no Submit call moves.
Alone(w) ==
  /\ wpc' = [wpc EXCEPT ![w] = wpc'[w]]
  /\ held' = [held EXCEPT ![w] = held'[w]]
  /\ job' = [job EXCEPT ![w] = job'[w]]
  /\ UNCHANGED <<hub, submitters>>

InProcess == Working \ {"get"}

\* A stage: the copy goes on, and the row follows unless the write fails.
Advances(w, copy) ==
  /\ wpc[w] \in InProcess /\ wpc'[w] \in InProcess
  /\ copy \in Job /\ copy.status \in Active
  /\ Stage(job[w].status) <= Stage(copy.status)
  /\ held'[w] = held[w] /\ job'[w] = copy
  /\ jobs' \in {jobs, Upsert(jobs, held[w], copy)}
  /\ UNCHANGED wake

\* The last stage: the worker lets go of the row.
Settles(w, copy) ==
  /\ wpc[w] \in InProcess /\ wpc'[w] = "claim"
  /\ copy \in Job /\ copy.status \in Terminal
  /\ held'[w] = None /\ job'[w] = None
  /\ \/ jobs' = Upsert(jobs, held[w], copy)
     \/ jobs' = jobs /\ faults' = faults + 1
  /\ UNCHANGED wake

Drops(w) ==
  /\ wpc[w] = "get" /\ wpc'[w] = "claim"
  /\ held'[w] = None /\ job'[w] = None
  /\ faults' = faults + 1
  /\ UNCHANGED <<jobs, wake>>

\* Between two jobs.
Idles(w) ==
  /\ wpc[w] \in {"claim", "select"} /\ wpc'[w] \in {"claim", "select", "stopped"}
  /\ UNCHANGED <<held, job, jobs>>
  /\ UNCHANGED wake \/ (wake' = FALSE /\ wpc'[w] = "claim")
  /\ wpc'[w] = "select" => Queued = {} \/ faults' = faults + 1
  /\ wpc'[w] = "stopped" => hub = "closing"

WorkerActs(w) ==
  WorkerStep(w) \/ GetJobFault(w) \/ StoreFault(w) \/ StopWorker(w)

LEMMA WorkerAlone ==
  ASSUME TypeOK, NEW w \in Worker, WorkerActs(w)
  PROVE  Alone(w)
  <1>1. wpc = [wpc EXCEPT ![w] = wpc[w]] /\ held = [held EXCEPT ![w] = held[w]]
          /\ job = [job EXCEPT ![w] = job[w]]
    BY DEF TypeOK
  <1> USE DEF Alone, workers, submitters, Goto
  <1>2. CASE StoreStep(w) \/ StoreFault(w)
    BY <1>1, <1>2 DEF StoreStep, StoreFault, queueVars
  <1>3. CASE \E j \in JobId : Claim(w, j)
    BY <1>1, <1>3 DEF TypeOK, Claim
  <1>4. CASE GetJob(w) \/ GetJobFault(w) \/ SaveDone(w) \/ SaveFailed(w)
    BY <1>1, <1>4 DEF TypeOK, GetJob, GetJobFault, Release, SaveDone, SaveFailed, SaveLast
  <1>5. CASE SavePlanning(w) \/ Plan(w) \/ SaveRunning(w) \/ SaveNormalizing(w)
               \/ SaveStored(w)
    BY <1>1, <1>5 DEF TypeOK, SavePlanning, Plan, SaveRunning, SaveNormalizing,
                      SaveStored, Save
  <1>6. ASSUME NEW code, FailWith(w, code)
        PROVE  Alone(w)
    <2> DEFINE copy == [job[w] EXCEPT !.code = code]
    <2>1. job' = [job EXCEPT ![w] = copy] /\ w \in Worker
      BY <1>6 DEF FailWith
    <2> HIDE DEF copy
    <2>2. job' = [job EXCEPT ![w] = job'[w]]
      BY <2>1 DEF TypeOK
    <2>3. QED
      BY <1>1, <1>6, <2>2 DEF FailWith, TypeOK
  <1>7. CASE Normalize(w) \/ Stored(w)
    BY <1>1, <1>7 DEF TypeOK, Normalize, Stored
  <1>8. CASE NoClaim(w) \/ WakeUp(w) \/ TickerFires(w) \/ StopWorker(w)
    BY <1>1, <1>8 DEF TypeOK, NoClaim, WakeUp, TickerFires, StopWorker
  <1>9. CASE Run(w)
    BY <1>1, <1>6, <1>9 DEF TypeOK, Run
  <1>10. QED
    BY <1>2, <1>3, <1>4, <1>5, <1>6, <1>7, <1>8, <1>9
    DEF WorkerActs, WorkerStep, PlanError, NormalizeError, StoreError

\* Every step of a worker has one of these shapes.
Shaped(w) ==
  \/ \E j \in JobId : Claim(w, j)
  \/ GetJob(w)
  \/ Drops(w)
  \/ \E copy : Advances(w, copy) \/ Settles(w, copy)
  \/ Idles(w)
  \/ UNCHANGED queueVars

\* A worker in process has a copy of the row it holds.
LEMMA InHand ==
  ASSUME QueueInv, NEW w \in Worker, wpc[w] \in Working
  PROVE  /\ held[w] \in JobId /\ held[w] # None
         /\ held[w] \in DOMAIN jobs /\ jobs[held[w]] \in Job
         /\ jobs[held[w]].status \in Active
         /\ wpc[w] # "get" => job[w] \in Job
  BY DEF QueueInv, TypeOK, HandsInv, OneWorkerPerJob

\* The write of a stage.
LEMMA SaveAdvances ==
  ASSUME QueueInv, NEW w \in Worker, NEW copy \in Job,
         wpc[w] \in InProcess, wpc'[w] \in InProcess, copy.status \in Active,
         Stage(job[w].status) <= Stage(copy.status),
         Save(w, copy)
  PROVE  Advances(w, copy)
  BY DEF Save, SaveJob, Advances, QueueInv, TypeOK

LEMMA FailAdvances ==
  ASSUME QueueInv, NEW w \in Worker, NEW code \in ErrorCode,
         wpc[w] \in InProcess, FailWith(w, code)
  PROVE  Shaped(w)
  <1> DEFINE copy == [job[w] EXCEPT !.code = code]
  <1>1. job[w] \in Job /\ job[w].status \in Active
    BY InHand DEF InProcess, QueueInv, CopyInv, Copied, Working, Active
  <1>2. copy \in Job /\ copy.status = job[w].status
    BY <1>1 DEF Job
  <1>3. /\ job'[w] = copy /\ wpc'[w] = "fail"
        /\ UNCHANGED <<jobs, held, wake>>
    BY DEF FailWith, Goto, QueueInv, TypeOK, WorkerPc
  <1> HIDE DEF copy
  <1>4. Stage(job[w].status) <= Stage(copy.status)
    BY <1>1, <1>2 DEF Stage, Active
  <1>5. Advances(w, copy)
    BY <1>1, <1>2, <1>3, <1>4 DEF Advances, InProcess, Working
  <1>6. QED
    BY <1>5 DEF Shaped

LEMMA StoredAdvances ==
  ASSUME Store!IInv, QueueInv, NEW w \in Worker, Stored(w)
  PROVE  Shaped(w)
  <1> DEFINE copy == [job[w] EXCEPT !.doc = packet[w].doc, !.rev = result[w].rev]
  <1>1. wpc[w] = "store" /\ job[w] \in Job /\ job[w].status \in Active
    BY InHand DEF Stored, QueueInv, CopyInv, Copied, Working, Active
  <1>2. packet[w].doc \in Doc /\ result[w].rev \in Nat
    BY Returned DEF Stored
  <1>3. copy \in Job /\ copy.status = job[w].status
    BY <1>1, <1>2 DEF Job
  <1>4. job' = [job EXCEPT ![w] = copy]
    BY DEF Stored, ReturnedRevision
  <1> HIDE DEF copy
  <1>5. /\ job'[w] = copy /\ wpc'[w] \in {"stored", "done"}
        /\ UNCHANGED <<jobs, held, wake>>
    BY <1>4 DEF Stored, Goto, QueueInv, TypeOK
  <1>6. Stage(job[w].status) <= Stage(copy.status)
    BY <1>1, <1>3 DEF Stage, Active
  <1>7. Advances(w, copy)
    BY <1>1, <1>3, <1>5, <1>6 DEF Advances, InProcess, Working
  <1>8. QED
    BY <1>7 DEF Shaped

LEMMA WorkerShaped ==
  ASSUME Store!IInv, QueueInv, NEW w \in Worker, WorkerActs(w)
  PROVE  Shaped(w)
  <1>1. ASSUME NEW copy \in Job, wpc[w] \in InProcess, wpc'[w] \in InProcess,
               copy.status \in Active, Stage(job[w].status) <= Stage(copy.status),
               Save(w, copy)
        PROVE  Shaped(w)
    BY <1>1, SaveAdvances DEF Shaped
  <1>2. CASE SavePlanning(w)
    <2> DEFINE copy == [job[w] EXCEPT !.status = "planning"]
    <2>1. job[w] \in Job /\ job[w].status = "planning"
      BY <1>2, InHand DEF SavePlanning, Working, QueueInv, CopyInv, Copied
    <2>2. copy \in Job /\ copy.status = "planning"
      BY <2>1 DEF Job, Status, Active
    <2>3. wpc[w] \in InProcess /\ wpc'[w] \in InProcess
      BY <1>2 DEF SavePlanning, Goto, InProcess, Working, QueueInv, TypeOK
    <2>4. Save(w, copy)
      BY <1>2 DEF SavePlanning
    <2> HIDE DEF copy
    <2>5. QED
      BY <1>1, <2>1, <2>2, <2>3, <2>4 DEF Stage, Active
  <1>3. CASE Plan(w)
    <2>1. job[w] \in Job /\ job[w].status = "planning"
      BY <1>3, InHand DEF Plan, Working, QueueInv, CopyInv, Copied
    <2>2. wpc[w] \in InProcess /\ wpc'[w] \in InProcess
      BY <1>3 DEF Plan, Goto, InProcess, Working, QueueInv, TypeOK
    <2>3. QED
      BY <1>1, <1>3, <2>1, <2>2 DEF Plan, Stage, Active
  <1>4. CASE SaveRunning(w)
    <2> DEFINE copy == [job[w] EXCEPT !.status = "running"]
    <2>1. job[w] \in Job /\ job[w].status = "planning"
      BY <1>4, InHand DEF SaveRunning, Working, QueueInv, CopyInv, Copied
    <2>2. copy \in Job /\ copy.status = "running"
      BY <2>1 DEF Job, Status, Active
    <2>3. wpc[w] \in InProcess /\ wpc'[w] \in InProcess
      BY <1>4 DEF SaveRunning, Goto, InProcess, Working, QueueInv, TypeOK
    <2>4. Save(w, copy)
      BY <1>4 DEF SaveRunning
    <2> HIDE DEF copy
    <2>5. QED
      BY <1>1, <2>1, <2>2, <2>3, <2>4 DEF Stage, Active
  <1>5. CASE SaveNormalizing(w)
    <2> DEFINE copy == [job[w] EXCEPT !.status = "normalizing"]
    <2>1. job[w] \in Job /\ job[w].status = "running"
      BY <1>5, InHand DEF SaveNormalizing, Working, QueueInv, CopyInv, Copied
    <2>2. copy \in Job /\ copy.status = "normalizing"
      BY <2>1 DEF Job, Status, Active
    <2>3. wpc[w] \in InProcess /\ wpc'[w] \in InProcess
      BY <1>5 DEF SaveNormalizing, Goto, InProcess, Working, QueueInv, TypeOK
    <2>4. Save(w, copy)
      BY <1>5 DEF SaveNormalizing
    <2> HIDE DEF copy
    <2>5. QED
      BY <1>1, <2>1, <2>2, <2>3, <2>4 DEF Stage, Active
  <1>6. CASE SaveStored(w)
    <2> DEFINE copy == [job[w] EXCEPT !.status = "stored"]
    <2>1. job[w] \in Job /\ job[w].status = "normalizing"
      BY <1>6, InHand DEF SaveStored, Working, QueueInv, CopyInv, Copied
    <2>2. copy \in Job /\ copy.status = "stored"
      BY <2>1 DEF Job, Status, Active
    <2>3. wpc[w] \in InProcess /\ wpc'[w] \in InProcess
      BY <1>6 DEF SaveStored, Goto, InProcess, Working, QueueInv, TypeOK
    <2>4. Save(w, copy)
      BY <1>6 DEF SaveStored
    <2> HIDE DEF copy
    <2>5. QED
      BY <1>1, <2>1, <2>2, <2>3, <2>4 DEF Stage, Active
  <1>7. CASE PlanError(w) \/ NormalizeError(w) \/ StoreError(w)
    BY <1>7, FailAdvances
    DEF PlanError, NormalizeError, StoreError, InProcess, Working, ErrorCode
  <1>8. CASE Run(w) /\ wpc'[w] = "normalizing" /\ UNCHANGED <<jobs, wake, held, job>>
    <2>1. job[w] \in Job /\ job[w].status = "running" /\ wpc[w] = "run"
      BY <1>8, InHand DEF Run, Working, QueueInv, CopyInv, Copied
    <2>2. Advances(w, job[w])
      BY <1>8, <2>1 DEF Advances, InProcess, Working, Active, Stage
    <2>3. QED
      BY <2>2 DEF Shaped
  <1>9. CASE Run(w) /\ \E code \in {"runner_failed", "runner_timeout"} : FailWith(w, code)
    BY <1>9, FailAdvances DEF Run, InProcess, Working, ErrorCode
  <1>10. CASE Run(w)
    <2>1. Goto(w, "normalizing") => wpc'[w] = "normalizing"
      BY DEF Goto, QueueInv, TypeOK
    <2>2. QED
      BY <1>8, <1>9, <1>10, <2>1 DEF Run
  <1>11. CASE Normalize(w)
    <2>1. job[w] \in Job /\ job[w].status = "normalizing" /\ wpc[w] = "normalize"
      BY <1>11, InHand DEF Normalize, Working, QueueInv, CopyInv, Copied
    <2>2. wpc'[w] = "store" /\ UNCHANGED <<jobs, wake, held, job>>
      BY <1>11 DEF Normalize, Goto, QueueInv, TypeOK
    <2>3. Advances(w, job[w])
      BY <2>1, <2>2 DEF Advances, InProcess, Working, Active, Stage
    <2>4. QED
      BY <2>3 DEF Shaped
  <1>12. ASSUME NEW copy \in Job, wpc[w] \in InProcess, copy.status \in Terminal,
                SaveLast(w, copy)
         PROVE  Shaped(w)
    <2>1. Settles(w, copy)
      BY <1>12 DEF SaveLast, SaveJob, Release, Goto, Settles, QueueInv, TypeOK,
                   Fails, Packets!Fails
    <2>2. QED
      BY <2>1 DEF Shaped
  <1>13. CASE SaveDone(w)
    <2> DEFINE copy == [job[w] EXCEPT !.status = "done", !.code = "ok"]
    <2>1. job[w] \in Job /\ wpc[w] \in InProcess
      BY <1>13, InHand DEF SaveDone, Working, InProcess
    <2>2. copy \in Job /\ copy.status \in Terminal
      BY <2>1 DEF Job, Status, Terminal, ErrorCode
    <2>3. SaveLast(w, copy)
      BY <1>13 DEF SaveDone
    <2> HIDE DEF copy
    <2>4. QED
      BY <1>12, <2>1, <2>2, <2>3
  <1>14. CASE SaveFailed(w)
    <2> DEFINE copy == [job[w] EXCEPT !.status = "failed"]
    <2>1. job[w] \in Job /\ wpc[w] \in InProcess
      BY <1>14, InHand DEF SaveFailed, Working, InProcess
    <2>2. copy \in Job /\ copy.status \in Terminal
      BY <2>1 DEF Job, Status, Terminal
    <2>3. SaveLast(w, copy)
      BY <1>14 DEF SaveFailed, FailedCopy
    <2> HIDE DEF copy
    <2>4. QED
      BY <1>12, <2>1, <2>2, <2>3
  <1>15. CASE GetJobFault(w)
    BY <1>15 DEF GetJobFault, Release, Goto, Shaped, Drops, Fails, Packets!Fails,
                 QueueInv, TypeOK
  <1>16. CASE NoClaim(w) \/ WakeUp(w) \/ TickerFires(w) \/ StopWorker(w)
    <2> USE DEF Idles, Goto
    <2>1. wpc \in [Worker -> WorkerPc]
      BY DEF QueueInv, TypeOK
    <2>2. CASE NoClaim(w)
      <3>1. wpc[w] = "claim" /\ wpc'[w] = "select" /\ UNCHANGED <<held, job, jobs, wake>>
        BY <2>1, <2>2 DEF NoClaim
      <3>2. Queued = {} \/ faults' = faults + 1
        BY <2>2 DEF NoClaim, Fails, Packets!Fails
      <3>3. Idles(w)
        BY <3>1, <3>2
      <3>4. QED
        BY <3>3 DEF Shaped
    <2>3. CASE WakeUp(w)
      <3>1. Idles(w)
        BY <2>1, <2>3 DEF WakeUp
      <3>2. QED
        BY <3>1 DEF Shaped
    <2>4. CASE TickerFires(w) \/ StopWorker(w)
      <3>1. Idles(w)
        BY <2>1, <2>4 DEF TickerFires, StopWorker
      <3>2. QED
        BY <3>1 DEF Shaped
    <2>5. QED
      BY <1>16, <2>2, <2>3, <2>4
  <1>17. CASE StoreStep(w) \/ StoreFault(w)
    BY <1>17 DEF StoreStep, StoreFault, Shaped
  <1>18. QED
    BY <1>2, <1>3, <1>4, <1>5, <1>6, <1>7, <1>10, <1>11, <1>13, <1>14, <1>15, <1>16,
       <1>17, StoredAdvances
    DEF WorkerActs, WorkerStep, Shaped

-------------------------------------------------------------------------------
(* The steps of the queue.                                                    *)

Submits(s) ==
  SubmitCall(s) \/ SubmitFault(s) \/ SubmitNotify(s) \/ \E j \in JobId : SubmitSave(s, j)

LEMMA Cases ==
  ASSUME [Next]_vars
  PROVE  \/ \E s \in Submitter : Submits(s)
         \/ \E w \in Worker : WorkerActs(w)
         \/ UNCHANGED queueVars
         \/ Close \/ VolatileLost \/ Restart \/ RestartFault
  BY DEF Next, vars, queueVars, SubmitStep, Submits, WorkerActs, BrowserCapture,
         BrowserStep, BrowserReply, StoreStep, StoreFault, Tick, CloseReturns, Crash

\* A claim takes a row that waits, and nobody holds that one.
LEMMA ClaimEffect ==
  ASSUME QueueInv, NEW w \in Worker, NEW j \in JobId, Claim(w, j)
  PROVE  /\ j \in DOMAIN jobs /\ jobs[j] \in Job /\ jobs[j].status = "queued"
         /\ Claimed(jobs[j]) \in Job /\ Claimed(jobs[j]).status = "planning"
         /\ jobs' = Upsert(jobs, j, Claimed(jobs[j]))
         /\ \A v \in Worker : held[v] # j
         /\ wpc[w] = "claim" /\ wpc'[w] = "get"
         /\ held'[w] = j /\ job'[w] = None
         /\ UNCHANGED wake
  <1>1. j \in DOMAIN jobs /\ jobs[j] \in Job /\ jobs[j].status = "queued"
    BY DEF Claim, FirstQueued, Queued, QueueInv, TypeOK
  <1>2. \A v \in Worker : held[v] # j
    BY <1>1, CapturePoolAssumption DEF QueueInv, OneWorkerPerJob, Active
  <1>3. Claimed(jobs[j]) \in Job /\ Claimed(jobs[j]).status = "planning"
    BY <1>1 DEF Claimed, Job, Status, Active
  <1>4. job[w] = None
    BY DEF QueueInv, HandsInv, Claim, Working
  <1>5. QED
    BY <1>1, <1>2, <1>3, <1>4 DEF Claim, SaveJob, Goto, QueueInv, TypeOK

\* A new row.
LEMMA SubmitEffect ==
  ASSUME QueueInv, NEW s \in Submitter, NEW j \in JobId, SubmitSave(s, j)
  PROVE  /\ j \notin DOMAIN jobs
         /\ jobs' = Upsert(jobs, j, NewJob(created[s]))
         /\ NewJob(created[s]) \in Job
         /\ hpc'[s] = "notify"
         /\ UNCHANGED <<hub, wake, workers>>
  BY DEF SubmitSave, SaveJob, NewJob, Job, Status, ErrorCode, QueueInv, TypeOK

LEMMA RowsType ==
  ASSUME TypeOK, NEW j \in JobId, NEW row \in Job, jobs' = Upsert(jobs, j, row)
  PROVE  DOMAIN jobs' \subseteq JobId /\ jobs' \in [DOMAIN jobs' -> Job]
  BY DEF TypeOK, Upsert

\* A new process takes the rows that were worked on back to the queue.
LEMMA RequeuedRows ==
  ASSUME TypeOK, NEW j \in DOMAIN jobs
  PROVE  /\ DOMAIN Requeued = DOMAIN jobs
         /\ jobs[j].status \in Active =>
              Requeued[j] = [jobs[j] EXCEPT !.status = "queued"]
         /\ jobs[j].status \notin Active => Requeued[j] = jobs[j]
         /\ Requeued[j] \in Job /\ Requeued[j].status \notin Active
  <1>1. jobs[j] \in Job
    BY DEF TypeOK
  <1>2. [jobs[j] EXCEPT !.status = "queued"] \in Job
    BY <1>1 DEF Job, Status
  <1>3. [jobs[j] EXCEPT !.status = "queued"].status = "queued"
    BY <1>1 DEF Job
  <1>4. QED
    BY <1>1, <1>2, <1>3 DEF Requeued, Active

LEMMA TypeStep ==
  ASSUME Store!IInv, QueueInv, [Next]_vars
  PROVE  TypeOK'
  <1>1. Packets!TypeOK'
    <2>1. Store!TypeOK'
      BY StoreStepInv DEF QueueInv, Store!IInv
    <2>2. QED
      BY <2>1
      DEF Store!TypeOK, Packets!TypeOK, Store!Rev, Packets!Rev, Store!PacketFile,
          Packets!PacketFile, Store!Row, Packets!Row, Store!Inside, Packets!Inside,
          Store!Packet, Packets!Packet, Store!Result, Packets!Result
  <1>2. CASE UNCHANGED queueVars
    BY <1>1, <1>2 DEF QueueInv, TypeOK, queueVars, workers, submitters
  <1>3. ASSUME NEW w \in Worker, WorkerActs(w)
        PROVE  TypeOK'
    <2>1. Alone(w) /\ Shaped(w)
      BY <1>3, WorkerAlone, WorkerShaped DEF QueueInv
    <2>2. CASE UNCHANGED queueVars
      BY <1>2, <2>2
    <2>3. /\ wpc'[w] \in WorkerPc
          /\ held'[w] \in JobId \cup {None}
          /\ job'[w] \in Job \cup {None}
          /\ wake' \in BOOLEAN
      <3>1. CASE \E j \in JobId : Claim(w, j)
        BY <3>1, ClaimEffect DEF WorkerPc, Working, QueueInv, TypeOK
      <3>2. CASE GetJob(w)
        BY <3>2, InHand DEF GetJob, Goto, WorkerPc, Working, QueueInv, TypeOK
      <3>3. CASE Drops(w) \/ \E copy : Advances(w, copy) \/ Settles(w, copy)
        BY <3>3 DEF Drops, Advances, Settles, InProcess, WorkerPc, Working,
                    QueueInv, TypeOK
      <3>4. CASE Idles(w)
        BY <3>4 DEF Idles, WorkerPc, QueueInv, TypeOK
      <3>5. CASE UNCHANGED queueVars
        BY <3>5 DEF queueVars, workers, QueueInv, TypeOK
      <3>6. QED
        BY <2>1, <3>1, <3>2, <3>3, <3>4, <3>5 DEF Shaped
    <2>4. DOMAIN jobs' \subseteq JobId /\ jobs' \in [DOMAIN jobs' -> Job]
      <3>1. CASE \E j \in JobId : Claim(w, j)
        BY <3>1, ClaimEffect, RowsType DEF QueueInv
      <3>2. CASE UNCHANGED jobs
        BY <3>2 DEF QueueInv, TypeOK
      <3>3. ASSUME NEW copy, Advances(w, copy) \/ Settles(w, copy)
            PROVE  DOMAIN jobs' \subseteq JobId /\ jobs' \in [DOMAIN jobs' -> Job]
        BY <3>2, <3>3, InHand, RowsType
        DEF Advances, Settles, InProcess, QueueInv
      <3>4. QED
        BY <2>1, <3>1, <3>2, <3>3
        DEF Shaped, GetJob, Drops, Idles, queueVars
    <2>5. QED
      BY <1>1, <2>1, <2>3, <2>4 DEF Alone, submitters, QueueInv, TypeOK
  <1>4. ASSUME NEW s \in Submitter, Submits(s)
        PROVE  TypeOK'
    <2>1. CASE \E j \in JobId : SubmitSave(s, j)
      <3>1. PICK j \in JobId : SubmitSave(s, j)
        BY <2>1
      <3>2. DOMAIN jobs' \subseteq JobId /\ jobs' \in [DOMAIN jobs' -> Job]
        BY <3>1, SubmitEffect, RowsType DEF QueueInv
      <3>3. QED
        BY <1>1, <3>1, <3>2 DEF SubmitSave, QueueInv, TypeOK, workers
    <2>2. CASE SubmitCall(s)
      BY <1>1, <2>2 DEF SubmitCall, QueueInv, TypeOK, Packets!TypeOK, workers
    <2>3. CASE SubmitFault(s)
      BY <1>1, <2>3 DEF SubmitFault, QueueInv, TypeOK, workers
    <2>4. CASE SubmitNotify(s)
      BY <1>1, <2>4 DEF SubmitNotify, WakeOnSubmit, QueueInv, TypeOK, workers
    <2>5. QED
      BY <1>4, <2>1, <2>2, <2>3, <2>4 DEF Submits
  <1>5. CASE Close
    BY <1>1, <1>5 DEF Close, QueueInv, TypeOK, workers, submitters
  <1>6. CASE VolatileLost
    BY <1>1, <1>6 DEF VolatileLost, QueueInv, TypeOK, WorkerPc
  <1>7. CASE Restart \/ RestartFault
    <2>1. DOMAIN jobs' \subseteq JobId /\ jobs' \in [DOMAIN jobs' -> Job]
      <3>1. CASE RestartFault
        BY <3>1 DEF RestartFault, QueueInv, TypeOK
      <3>2. CASE Restart
        <4>1. jobs' = Requeued
          BY <3>2 DEF Restart
        <4>2. Requeued \in [DOMAIN jobs -> Job]
          BY RequeuedRows DEF Requeued, QueueInv
        <4>3. QED
          BY <4>1, <4>2 DEF QueueInv, TypeOK
      <3>3. QED
        BY <1>7, <3>1, <3>2
    <2>2. QED
      BY <1>1, <1>7, <2>1 DEF Restart, RestartFault, Started, QueueInv, TypeOK,
                              submitters, WorkerPc
  <1>8. QED
    BY <1>2, <1>3, <1>4, <1>5, <1>6, <1>7, Cases

-------------------------------------------------------------------------------
(* Who holds what.                                                            *)

\* A Submit call leaves the rows that are there alone.
LEMMA SubmitKeepsRows ==
  ASSUME NEW s \in Submitter, Submits(s)
  PROVE  \A j \in DOMAIN jobs : j \in DOMAIN jobs' /\ jobs'[j] = jobs[j]
  <1>1. ASSUME NEW i \in JobId, SubmitSave(s, i)
        PROVE  \A j \in DOMAIN jobs : j \in DOMAIN jobs' /\ jobs'[j] = jobs[j]
    <2>1. i \notin DOMAIN jobs /\ jobs' = Upsert(jobs, i, NewJob(created[s]))
      BY <1>1 DEF SubmitSave, SaveJob
    <2>2. QED
      BY <2>1 DEF Upsert
  <1>2. QED
    BY <1>1 DEF Submits, SubmitCall, SubmitFault, SubmitNotify

\* A step of a worker leaves the others, and the rows they hold, alone.
LEMMA Others ==
  ASSUME Store!IInv, QueueInv, NEW w \in Worker, WorkerActs(w), NEW v \in Worker \ {w}
  PROVE  /\ wpc'[v] = wpc[v] /\ held'[v] = held[v] /\ job'[v] = job[v]
         /\ held[v] # None => /\ held'[w] # held[v]
                              /\ held[v] \in DOMAIN jobs'
                              /\ jobs'[held[v]] = jobs[held[v]]
  <1>1. Alone(w) /\ Shaped(w)
    BY WorkerAlone, WorkerShaped DEF QueueInv
  <1>2. wpc'[v] = wpc[v] /\ held'[v] = held[v] /\ job'[v] = job[v]
    BY <1>1 DEF Alone, QueueInv, TypeOK
  <1>3. ASSUME held[v] # None
        PROVE  /\ held'[w] # held[v]
               /\ held[v] \in DOMAIN jobs'
               /\ jobs'[held[v]] = jobs[held[v]]
    <2>1. held[v] \in DOMAIN jobs /\ held[w] # held[v]
      BY <1>3 DEF QueueInv, OneWorkerPerJob
    <2>2. ASSUME NEW j \in JobId, Claim(w, j)
          PROVE  /\ held'[w] # held[v]
                 /\ held[v] \in DOMAIN jobs'
                 /\ jobs'[held[v]] = jobs[held[v]]
      <3>1. /\ held[v] # j /\ held'[w] = j
            /\ jobs' = Upsert(jobs, j, Claimed(jobs[j]))
        BY <2>2, ClaimEffect
      <3>2. QED
        BY <2>1, <3>1 DEF Upsert
    <2>3. CASE \E copy : Advances(w, copy) \/ Settles(w, copy)
      BY <1>3, <2>1, <2>3 DEF Advances, Settles, Upsert
    <2>4. CASE GetJob(w) \/ Drops(w) \/ Idles(w) \/ UNCHANGED queueVars
      BY <1>3, <2>1, <2>4 DEF GetJob, Drops, Idles, queueVars, workers
    <2>5. QED
      BY <1>1, <2>2, <2>3, <2>4 DEF Shaped
  <1>4. QED
    BY <1>2, <1>3

\* What a worker may say of the row in its hands.
InHands(w) ==
  /\ wpc[w] \in Working <=> held[w] # None
  /\ wpc[w] \in InProcess <=> job[w] # None
  /\ held[w] # None => held[w] \in DOMAIN jobs /\ jobs[held[w]].status \in Active
  /\ job[w] # None => Stage(jobs[held[w]].status) <= Stage(job[w].status)

LEMMA AllInHands ==
  ASSUME QueueInv
  PROVE  \A w \in Worker : InHands(w)
  BY DEF QueueInv, HandsInv, OneWorkerPerJob, InHands, InProcess

\* The row that was just written is no further than the copy.
LEMMA Mine ==
  ASSUME Store!IInv, QueueInv, NEW w \in Worker, WorkerActs(w)
  PROVE  InHands(w)'
  <1>1. Shaped(w) /\ InHands(w)
    BY WorkerShaped, AllInHands DEF QueueInv
  <1>2. ASSUME NEW j \in JobId, Claim(w, j)
        PROVE  InHands(w)'
    <2>1. /\ wpc'[w] = "get" /\ held'[w] = j /\ job'[w] = None
          /\ jobs' = Upsert(jobs, j, Claimed(jobs[j]))
          /\ Claimed(jobs[j]).status = "planning"
      BY <1>2, ClaimEffect
    <2>2. j \in DOMAIN jobs' /\ jobs'[j].status = "planning"
      BY <2>1 DEF Upsert
    <2>3. QED
      BY <2>1, <2>2, CapturePoolAssumption DEF InHands, InProcess, Working, Active
  <1>3. CASE GetJob(w)
    <2>1. /\ wpc[w] = "get" /\ wpc'[w] = "planning"
          /\ held'[w] = held[w] /\ jobs' = jobs /\ job'[w] = jobs[held[w]]
      BY <1>3 DEF GetJob, Goto, QueueInv, TypeOK
    <2>2. jobs[held[w]] \in Job /\ jobs[held[w]].status = "planning"
      BY <2>1, InHand DEF Working, QueueInv, CopyInv, Copied
    <2>3. QED
      BY <1>1, <2>1, <2>2, CaptureNoneAssumption
      DEF InHands, InProcess, Working, Active, Stage
  <1>4. CASE Drops(w)
    BY <1>4 DEF Drops, InHands, InProcess, Working
  <1>5. ASSUME NEW copy, Advances(w, copy)
        PROVE  InHands(w)'
    <2>1. held[w] # None /\ held'[w] = held[w] /\ job'[w] = copy /\ copy # None
            /\ wpc[w] \in InProcess /\ wpc'[w] \in InProcess
      BY <1>1, <1>5, CaptureNoneAssumption DEF Advances, InHands, InProcess
    <2>2. CASE jobs' = jobs
      <3>1. /\ jobs[held[w]] \in Job /\ job[w] \in Job
            /\ Stage(jobs[held[w]].status) <= Stage(job[w].status)
        BY <2>1, InHand, <1>1, CaptureNoneAssumption DEF InHands, InProcess
      <3>2. Stage(job[w].status) <= Stage(copy.status)
        BY <1>5 DEF Advances
      <3>3. Stage(jobs[held[w]].status) <= Stage(copy.status)
        BY <3>1, <3>2 DEF Stage
      <3>4. QED
        BY <1>1, <2>1, <2>2, <3>3 DEF InHands, InProcess
    <2>3. CASE jobs' = Upsert(jobs, held[w], copy)
      <3>1. held[w] \in DOMAIN jobs' /\ jobs'[held[w]] = copy
        BY <2>3 DEF Upsert
      <3>2. copy.status \in Active /\ Stage(copy.status) <= Stage(copy.status)
        BY <1>5 DEF Advances, Stage
      <3>3. QED
        BY <2>1, <3>1, <3>2 DEF InHands, InProcess
    <2>4. QED
      BY <1>5, <2>2, <2>3 DEF Advances
  <1>6. ASSUME NEW copy, Settles(w, copy)
        PROVE  InHands(w)'
    BY <1>6 DEF Settles, InHands, InProcess, Working
  <1>7. CASE Idles(w)
    BY <1>1, <1>7 DEF Idles, InHands, InProcess, Working
  <1>8. CASE UNCHANGED queueVars
    BY <1>1, <1>8 DEF queueVars, workers, InHands
  <1>9. QED
    BY <1>1, <1>2, <1>3, <1>4, <1>5, <1>6, <1>7, <1>8 DEF Shaped

\* A row is in one pair of hands, and these are in process.
LEMMA HandsStep ==
  ASSUME Store!IInv, QueueInv, [Next]_vars
  PROVE  HandsInv' /\ OneWorkerPerJob'
  <1>1. ASSUME \A w \in Worker : InHands(w)',
               \A v, w \in Worker : held'[v] # None /\ held'[v] = held'[w] => v = w
        PROVE  HandsInv' /\ OneWorkerPerJob'
    BY <1>1 DEF HandsInv, OneWorkerPerJob, InHands, InProcess
  <1>2. /\ \A w \in Worker : InHands(w)
        /\ \A v, w \in Worker : held[v] # None /\ held[v] = held[w] => v = w
    BY AllInHands DEF QueueInv, OneWorkerPerJob
  <1>3. CASE UNCHANGED queueVars \/ Close
    BY <1>1, <1>2, <1>3 DEF queueVars, workers, Close, InHands
  <1>4. ASSUME NEW w \in Worker, WorkerActs(w)
        PROVE  HandsInv' /\ OneWorkerPerJob'
    <2>1. ASSUME NEW v \in Worker
          PROVE  InHands(v)'
      <3>1. CASE v = w
        BY <1>4, <3>1, Mine
      <3>2. CASE v # w
        <4>1. /\ wpc'[v] = wpc[v] /\ held'[v] = held[v] /\ job'[v] = job[v]
              /\ held[v] # None => /\ held[v] \in DOMAIN jobs'
                                   /\ jobs'[held[v]] = jobs[held[v]]
          BY <1>4, <3>2, Others
        <4>2. job[v] # None => held[v] # None
          BY DEF QueueInv, HandsInv
        <4>3. QED
          BY <1>2, <4>1, <4>2 DEF InHands
      <3>3. QED
        BY <3>1, <3>2
    <2>2. ASSUME NEW u \in Worker, NEW v \in Worker, held'[u] # None, held'[u] = held'[v]
          PROVE  u = v
      <3>1. CASE u # w /\ v # w
        BY <1>2, <1>4, <2>2, <3>1, Others
      <3>2. CASE u = w \/ v = w
        BY <1>4, <2>2, <3>2, Others
      <3>3. QED
        BY <3>1, <3>2
    <2>3. QED
      BY <1>1, <2>1, <2>2
  <1>5. ASSUME NEW s \in Submitter, Submits(s)
        PROVE  HandsInv' /\ OneWorkerPerJob'
    <2>1. UNCHANGED workers
      BY <1>5 DEF Submits, SubmitCall, SubmitFault, SubmitNotify, SubmitSave
    <2>2. \A j \in DOMAIN jobs : j \in DOMAIN jobs' /\ jobs'[j] = jobs[j]
      BY <1>5, SubmitKeepsRows
    <2>3. \A w \in Worker : job[w] # None => held[w] # None
      BY DEF QueueInv, HandsInv
    <2>4. QED
      BY <1>1, <1>2, <2>1, <2>2, <2>3 DEF workers, InHands
  <1>6. CASE VolatileLost
    BY <1>1, <1>6 DEF VolatileLost, InHands, Working, InProcess
  <1>7. CASE Restart \/ RestartFault
    <2>1. \A w \in Worker : wpc[w] = "dead"
      BY <1>7 DEF Restart, RestartFault, QueueInv, DownInv
    <2>2. \A w \in Worker : wpc'[w] = "claim" /\ held'[w] = None /\ job'[w] = None
      BY <1>2, <1>7, <2>1 DEF Restart, RestartFault, Started, InHands, Working, InProcess
    <2>3. QED
      BY <1>1, <2>2 DEF InHands, Working, InProcess
  <1>8. QED
    BY <1>3, <1>4, <1>5, <1>6, <1>7, Cases

\* Stages are entered in their order, and a copy carries the last one.
LEMMA MyCopy ==
  ASSUME QueueInv, NEW w \in Worker, WorkerActs(w)
  PROVE  Copied(w)'
  <1>0. /\ wpc \in [Worker -> WorkerPc] /\ job \in [Worker -> Job \cup {None}]
        /\ held \in [Worker -> JobId \cup {None}]
        /\ Copied(w)
    BY DEF QueueInv, TypeOK, CopyInv, Copied
  <1>1. wpc[w] \in InProcess => job[w] \in Job
    BY InHand DEF InProcess
  <1> USE DEF Goto
  <1>2. ASSUME NEW j \in JobId, Claim(w, j)
        PROVE  Copied(w)'
    <2>1. /\ wpc'[w] = "get" /\ held'[w] = j
          /\ jobs' = Upsert(jobs, j, Claimed(jobs[j]))
          /\ Claimed(jobs[j]).status = "planning"
      BY <1>2, ClaimEffect
    <2>2. jobs'[j].status = "planning"
      BY <2>1 DEF Upsert
    <2>3. QED
      BY <2>1, <2>2 DEF Copied
  <1>3. CASE GetJob(w)
    BY <1>0, <1>3 DEF GetJob, Copied
  <1>4. CASE SavePlanning(w)
    <2>1. wpc'[w] = "plan" /\ job'[w] = [job[w] EXCEPT !.status = "planning"]
      BY <1>0, <1>4 DEF SavePlanning, Save
    <2>2. job[w] \in Job
      BY <1>1, <1>4 DEF SavePlanning, InProcess, Working
    <2>3. QED
      BY <2>1, <2>2 DEF Copied, Job
  <1>5. CASE Plan(w)
    BY <1>0, <1>5 DEF Plan, Save, Copied
  <1>6. CASE SaveRunning(w)
    <2>1. wpc'[w] = "run" /\ job'[w] = [job[w] EXCEPT !.status = "running"]
      BY <1>0, <1>6 DEF SaveRunning, Save
    <2>2. job[w] \in Job
      BY <1>1, <1>6 DEF SaveRunning, InProcess, Working
    <2>3. QED
      BY <2>1, <2>2 DEF Copied, Job
  <1>7. CASE SaveNormalizing(w)
    <2>1. wpc'[w] = "normalize" /\ job'[w] = [job[w] EXCEPT !.status = "normalizing"]
      BY <1>0, <1>7 DEF SaveNormalizing, Save
    <2>2. job[w] \in Job
      BY <1>1, <1>7 DEF SaveNormalizing, InProcess, Working
    <2>3. QED
      BY <2>1, <2>2 DEF Copied, Job
  <1>8. CASE SaveStored(w)
    <2>1. wpc'[w] = "done" /\ job'[w] = [job[w] EXCEPT !.status = "stored"]
      BY <1>0, <1>8 DEF SaveStored, Save
    <2>2. job[w] \in Job
      BY <1>1, <1>8 DEF SaveStored, InProcess, Working
    <2>3. QED
      BY <2>1, <2>2 DEF Copied, Job
  <1>9. ASSUME NEW code, wpc[w] \in InProcess, FailWith(w, code)
        PROVE  Copied(w)'
    <2> DEFINE copy == [job[w] EXCEPT !.code = code]
    <2>1. job[w] \in Job /\ job[w].status \in Active
      BY <1>0, <1>1, <1>9 DEF Copied, InProcess, Working, Active
    <2>2. copy.status = job[w].status
      BY <2>1 DEF Job
    <2>3. job' = [job EXCEPT ![w] = copy] /\ wpc'[w] = "fail"
      BY <1>0, <1>9 DEF FailWith
    <2> HIDE DEF copy
    <2>4. job'[w] = copy
      BY <1>0, <2>3
    <2>5. QED
      BY <2>1, <2>2, <2>3, <2>4 DEF Copied
  <1>10. CASE PlanError(w) \/ NormalizeError(w) \/ StoreError(w)
    BY <1>9, <1>10 DEF PlanError, NormalizeError, StoreError, InProcess, Working
  <1>11. CASE Run(w)
    <2>1. wpc[w] \in InProcess
      BY <1>11 DEF Run, InProcess, Working
    <2>2. CASE Goto(w, "normalizing") /\ UNCHANGED <<jobs, hub, wake, held, job, submitters>>
      BY <1>0, <1>11, <2>2 DEF Run, Copied
    <2>3. QED
      BY <1>9, <1>11, <2>1, <2>2 DEF Run
  <1>12. CASE Normalize(w)
    BY <1>0, <1>12 DEF Normalize, Copied
  <1>13. CASE Stored(w)
    <2> DEFINE copy == [job[w] EXCEPT !.doc = packet[w].doc, !.rev = result[w].rev]
    <2>1. job[w] \in Job /\ job[w].status = "normalizing"
      BY <1>0, <1>1, <1>13 DEF Stored, Copied, InProcess, Working
    <2>2. copy.status = "normalizing"
      BY <2>1 DEF Job
    <2>3. job' = [job EXCEPT ![w] = copy]
      BY <1>13 DEF Stored, ReturnedRevision
    <2> HIDE DEF copy
    <2>4. job'[w] = copy /\ wpc'[w] \in {"stored", "done"}
      BY <1>0, <1>13, <2>3 DEF Stored
    <2>5. QED
      BY <2>2, <2>4 DEF Copied
  <1>14. CASE GetJobFault(w) \/ SaveDone(w) \/ SaveFailed(w)
    <2>1. wpc'[w] = "claim"
      BY <1>0, <1>14 DEF GetJobFault, SaveDone, SaveFailed, SaveLast, Release
    <2>2. QED
      BY <2>1 DEF Copied
  <1>15. CASE NoClaim(w) \/ WakeUp(w) \/ TickerFires(w) \/ StopWorker(w)
    <2>1. wpc'[w] \in {"claim", "select", "stopped"}
      BY <1>0, <1>15 DEF NoClaim, WakeUp, TickerFires, StopWorker
    <2>2. QED
      BY <2>1 DEF Copied
  <1>16. CASE StoreStep(w) \/ StoreFault(w)
    BY <1>0, <1>16 DEF StoreStep, StoreFault, queueVars, workers, Copied
  <1>17. QED
    BY <1>2, <1>3, <1>4, <1>5, <1>6, <1>7, <1>8, <1>10, <1>11, <1>12, <1>13, <1>14,
       <1>15, <1>16
    DEF WorkerActs, WorkerStep

LEMMA CopyStep ==
  ASSUME Store!IInv, QueueInv, [Next]_vars
  PROVE  CopyInv'
  <1>1. ASSUME \A w \in Worker : Copied(w)'
        PROVE  CopyInv'
    BY <1>1 DEF CopyInv
  <1>2. \A w \in Worker : Copied(w)
    BY DEF QueueInv, CopyInv
  <1>3. CASE UNCHANGED queueVars \/ Close
    BY <1>1, <1>2, <1>3 DEF queueVars, workers, Close, Copied
  <1>4. ASSUME NEW w \in Worker, WorkerActs(w)
        PROVE  CopyInv'
    <2>1. ASSUME NEW v \in Worker
          PROVE  Copied(v)'
      <3>1. CASE v = w
        BY <1>4, <3>1, MyCopy
      <3>2. CASE v # w
        <4>1. /\ wpc'[v] = wpc[v] /\ held'[v] = held[v] /\ job'[v] = job[v]
              /\ held[v] # None => jobs'[held[v]] = jobs[held[v]]
          BY <1>4, <3>2, Others
        <4>2. wpc[v] = "get" => held[v] # None
          BY InHand DEF Working
        <4>3. QED
          BY <1>2, <4>1, <4>2 DEF Copied
      <3>3. QED
        BY <3>1, <3>2
    <2>2. QED
      BY <1>1, <2>1
  <1>5. ASSUME NEW s \in Submitter, Submits(s)
        PROVE  CopyInv'
    <2>1. UNCHANGED workers
      BY <1>5 DEF Submits, SubmitCall, SubmitFault, SubmitNotify, SubmitSave
    <2>2. \A w \in Worker : wpc[w] = "get" => held[w] \in DOMAIN jobs
      BY InHand DEF Working
    <2>3. \A j \in DOMAIN jobs : jobs'[j] = jobs[j]
      BY <1>5, SubmitKeepsRows
    <2>4. QED
      BY <1>1, <1>2, <2>1, <2>2, <2>3 DEF workers, Copied
  <1>6. CASE VolatileLost \/ Restart \/ RestartFault
    BY <1>1, <1>6 DEF VolatileLost, Restart, RestartFault, Started, Copied
  <1>7. QED
    BY <1>3, <1>4, <1>5, <1>6, Cases

-------------------------------------------------------------------------------
(* What the queue promises.                                                   *)

\* The goroutines of a process die with it.
LEMMA DownStep ==
  ASSUME Store!IInv, QueueInv, [Next]_vars
  PROVE  DownInv'
  <1> USE DEF DownInv
  <1>0. DownInv
    BY DEF QueueInv
  <1>1. CASE UNCHANGED queueVars
    BY <1>0, <1>1 DEF queueVars, workers, submitters
  <1>2. ASSUME NEW w \in Worker, WorkerActs(w)
        PROVE  DownInv'
    <2>1. Shaped(w) /\ UNCHANGED <<hub, submitters>>
      BY <1>2, WorkerShaped, WorkerAlone DEF QueueInv, Alone
    <2>2. CASE hub = "down"
      <3>1. UNCHANGED queueVars
        BY <1>0, <2>1, <2>2
        DEF Shaped, Claim, GetJob, Drops, Advances, Settles, Idles, InProcess, Working
      <3>2. QED
        BY <1>1, <3>1
    <2>3. CASE hub # "down"
      BY <2>1, <2>3
    <2>4. QED
      BY <2>2, <2>3
  <1>3. ASSUME NEW s \in Submitter, Submits(s)
        PROVE  DownInv'
    BY <1>0, <1>3 DEF Submits, SubmitCall, SubmitFault, SubmitNotify, SubmitSave, Alive
  <1>4. CASE Close \/ VolatileLost \/ Restart \/ RestartFault
    BY <1>4 DEF Close, VolatileLost, Restart, RestartFault, Started
  <1>5. QED
    BY <1>1, <1>2, <1>3, <1>4, Cases

\* Only a failed call or a dead process leaves a row without a worker.
LEMMA ActiveStep ==
  ASSUME Store!IInv, QueueInv, [Next]_vars
  PROVE  ActiveHasWorker'
  <1> SUFFICES ASSUME hub' # "down", faults' = 0, NEW j \in DOMAIN jobs',
                      jobs'[j].status \in Active
               PROVE  \E w \in Worker : held'[w] = j
    BY DEF ActiveHasWorker, Alive
  <1>1. faults \in Nat /\ faults = 0
    BY Counters DEF QueueInv, TypeOK, Packets!TypeOK
  <1>2. ASSUME hub # "down", j \in DOMAIN jobs, jobs[j].status \in Active
        PROVE  \E w \in Worker : held[w] = j
    BY <1>1, <1>2 DEF QueueInv, ActiveHasWorker, Alive
  <1>3. CASE UNCHANGED queueVars \/ Close
    BY <1>2, <1>3 DEF queueVars, workers, Close
  <1>4. ASSUME NEW w \in Worker, WorkerActs(w)
        PROVE  \E v \in Worker : held'[v] = j
    <2>1. Shaped(w) /\ UNCHANGED hub
      BY <1>4, WorkerShaped, WorkerAlone DEF QueueInv, Alone
    <2>2. ASSUME j \in DOMAIN jobs, jobs[j].status \in Active,
                 held[w] = j => held'[w] = j
          PROVE  \E v \in Worker : held'[v] = j
      BY <1>2, <1>4, <2>1, <2>2, Others
    <2>3. ASSUME NEW i \in JobId, Claim(w, i)
          PROVE  \E v \in Worker : held'[v] = j
      <3>1. /\ held'[w] = i /\ jobs' = Upsert(jobs, i, Claimed(jobs[i]))
            /\ i \in DOMAIN jobs /\ \A v \in Worker : held[v] # i
        BY <2>3, ClaimEffect
      <3>2. CASE j = i
        BY <3>1, <3>2
      <3>3. CASE j # i
        <4>1. j \in DOMAIN jobs /\ jobs'[j] = jobs[j]
          BY <3>1, <3>3 DEF Upsert
        <4>2. held[w] # j
          BY <2>3, <4>1, CapturePoolAssumption
          DEF Claim, Working, QueueInv, HandsInv, TypeOK
        <4>3. QED
          BY <2>2, <4>1, <4>2
      <3>4. QED
        BY <3>2, <3>3
    <2>4. ASSUME NEW copy, Advances(w, copy)
          PROVE  \E v \in Worker : held'[v] = j
      <3>1. held[w] \in DOMAIN jobs /\ jobs[held[w]].status \in Active
        BY <2>4, InHand DEF Advances, InProcess
      <3>2. j \in DOMAIN jobs /\ jobs[j].status \in Active
        BY <2>4, <3>1 DEF Advances, Upsert
      <3>3. QED
        BY <2>2, <2>4, <3>2 DEF Advances
    <2>5. ASSUME NEW copy, Settles(w, copy)
          PROVE  \E v \in Worker : held'[v] = j
      <3>1. held[w] \in DOMAIN jobs /\ jobs' = Upsert(jobs, held[w], copy)
        BY <1>1, <2>5, InHand DEF Settles, InProcess
      <3>2. copy.status \notin Active
        BY <2>5 DEF Settles, Active, Terminal
      <3>3. j # held[w] /\ j \in DOMAIN jobs /\ jobs'[j] = jobs[j]
        BY <3>1, <3>2 DEF Upsert
      <3>4. QED
        BY <2>2, <3>3
    <2>6. CASE GetJob(w) \/ Idles(w) \/ UNCHANGED queueVars
      BY <2>2, <2>6 DEF GetJob, Idles, queueVars, workers
    <2>7. ~Drops(w)
      BY <1>1 DEF Drops
    <2>8. QED
      BY <2>1, <2>3, <2>4, <2>5, <2>6, <2>7 DEF Shaped
  <1>5. ASSUME NEW s \in Submitter, Submits(s)
        PROVE  \E w \in Worker : held'[w] = j
    <2>1. hub' = hub /\ held' = held
      BY <1>5 DEF Submits, SubmitCall, SubmitFault, SubmitNotify, SubmitSave, workers
    <2>2. CASE j \in DOMAIN jobs
      BY <1>2, <1>5, <2>1, <2>2, SubmitKeepsRows
    <2>3. CASE j \notin DOMAIN jobs
      <3>1. PICK i \in JobId : SubmitSave(s, i)
        BY <1>5, <2>3 DEF Submits, SubmitCall, SubmitFault, SubmitNotify
      <3>2. jobs' = Upsert(jobs, i, NewJob(created[s]))
        BY <3>1 DEF SubmitSave, SaveJob
      <3>3. jobs'[j] = NewJob(created[s])
        BY <2>3, <3>2 DEF Upsert
      <3>4. QED
        BY <3>3 DEF NewJob, Active
    <2>4. QED
      BY <2>2, <2>3
  <1>6. ~VolatileLost
    BY DEF VolatileLost
  <1>7. ~RestartFault
    BY <1>1 DEF RestartFault, Fails, Packets!Fails
  <1>8. ~Restart
    <2>1. ASSUME Restart
          PROVE  FALSE
      <3>1. jobs' = Requeued /\ j \in DOMAIN Requeued
        BY <2>1 DEF Restart
      <3>2. j \in DOMAIN jobs
        BY <3>1 DEF Requeued
      <3>3. Requeued[j].status \notin Active
        BY <3>2, RequeuedRows DEF QueueInv
      <3>4. QED
        BY <3>1, <3>3
    <2>2. QED
      BY <2>1
  <1>9. QED
    BY <1>3, <1>4, <1>5, <1>6, <1>7, <1>8, Cases

\* A worker goes to sleep only when it found no job, and a new job rings after
\* it is stored.
LEMMA WakeStep ==
  ASSUME Store!IInv, QueueInv, [Next]_vars
  PROVE  NoLostWakeup'
  <1> SUFFICES ASSUME hub' = "up", faults' = 0, Queued' # {},
                      \A w \in Worker : wpc'[w] = "select"
               PROVE  wake' \/ \E s \in Submitter : hpc'[s] = "notify"
    BY DEF NoLostWakeup
  <1>1. faults \in Nat /\ faults = 0
    BY Counters DEF QueueInv, TypeOK, Packets!TypeOK
  <1>2. ASSUME hub = "up", Queued # {}, \A w \in Worker : wpc[w] = "select"
        PROVE  wake \/ \E s \in Submitter : hpc[s] = "notify"
    BY <1>1, <1>2 DEF QueueInv, NoLostWakeup
  <1>3. CASE UNCHANGED queueVars
    BY <1>2, <1>3 DEF queueVars, workers, submitters, Queued
  <1>4. ASSUME NEW w \in Worker, WorkerActs(w)
        PROVE  wake' \/ \E s \in Submitter : hpc'[s] = "notify"
    <2>1. Shaped(w) /\ Alone(w)
      BY <1>4, WorkerShaped, WorkerAlone DEF QueueInv
    <2>2. wpc'[w] = "select"
      OBVIOUS
    <2>3. CASE Idles(w)
      <3>1. wpc[w] = "select"
        <4>1. Queued = {} => Queued' = {}
          BY <2>3 DEF Idles, Queued
        <4>2. Queued # {}
          BY <4>1
        <4>3. QED
          BY <1>1, <2>2, <2>3, <4>2 DEF Idles
      <3>2. QED
        BY <1>1, <2>2, <2>3 DEF Idles, Queued
    <2>4. CASE UNCHANGED queueVars
      BY <1>3, <2>4
    <2>5. QED
      BY <2>1, <2>2, <2>3, <2>4
      DEF Shaped, Claim, GetJob, Goto, Drops, Advances, Settles, InProcess, Working,
          QueueInv, TypeOK
  <1>5. ASSUME NEW s \in Submitter, Submits(s)
        PROVE  wake' \/ \E r \in Submitter : hpc'[r] = "notify"
    <2>1. UNCHANGED <<hub, workers>> /\ hpc \in [Submitter -> {"idle", "save", "notify"}]
      BY <1>5 DEF Submits, SubmitCall, SubmitFault, SubmitNotify, SubmitSave,
                  QueueInv, TypeOK
    <2>2. CASE \E j \in JobId : SubmitSave(s, j)
      BY <2>1, <2>2 DEF SubmitSave
    <2>3. CASE SubmitNotify(s)
      BY <2>3 DEF SubmitNotify, WakeOnSubmit
    <2>4. CASE SubmitCall(s)
      BY <1>2, <2>1, <2>4 DEF SubmitCall, workers, Queued
    <2>5. CASE SubmitFault(s)
      BY <1>1, <2>5 DEF SubmitFault, Fails, Packets!Fails
    <2>6. QED
      BY <1>5, <2>2, <2>3, <2>4, <2>5 DEF Submits
  <1>6. CASE Close \/ VolatileLost \/ Restart \/ RestartFault
    BY <1>6 DEF Close, VolatileLost, Restart, RestartFault, Started
  <1>7. QED
    BY <1>3, <1>4, <1>5, <1>6, Cases

\* On a clock that moves between two readings complete files stay, so what the
\* store returned to a worker is still there when the worker writes it down.
LEMMA PublishedStep ==
  ASSUME Store!IInv, QueueInv, FineClock, [Next]_vars
  PROVE  PublishedInv'
  <1>0. \A r \in DOMAIN files : r \in DOMAIN files' /\ files'[r] = files[r]
    BY StoreUsed, Store!FilesStep, StoreAssumptions
    DEF Store!ClockAssumption, Store!NobodyAssumption, Store!IInv, Store!ContentInv,
        QueueInv
  <1> DEFINE Published(w) ==
        wpc[w] \in {"stored", "done"} =>
          /\ job[w].rev \in DOMAIN files
          /\ files[job[w].rev].whole
          /\ files[job[w].rev].doc = job[w].doc
  <1>1. \A w \in Worker : Published(w)
    BY DEF QueueInv, PublishedInv
  <1>2. ASSUME NEW w \in Worker, wpc'[w] = wpc[w], job'[w] = job[w]
        PROVE  Published(w)'
    BY <1>0, <1>1, <1>2
  <1>3. CASE UNCHANGED workers
    BY <1>2, <1>3 DEF workers, PublishedInv
  <1>4. ASSUME NEW w \in Worker, WorkerActs(w)
        PROVE  PublishedInv'
    <2>1. ASSUME NEW v \in Worker, v # w
          PROVE  Published(v)'
      BY <1>2, <1>4, <2>1, Others
    <2>2. /\ wpc \in [Worker -> WorkerPc] /\ job \in [Worker -> Job \cup {None}]
          /\ wpc[w] \in InProcess => job[w] \in Job
      BY InHand DEF InProcess, QueueInv, TypeOK
    <2>3. CASE Stored(w)
      <3> DEFINE copy == [job[w] EXCEPT !.doc = packet[w].doc, !.rev = result[w].rev]
      <3>1. job[w] \in Job
        BY <2>2, <2>3 DEF Stored, InProcess, Working
      <3>2. copy.doc = packet[w].doc /\ copy.rev = result[w].rev
        BY <3>1 DEF Job
      <3>3. job' = [job EXCEPT ![w] = copy]
        BY <2>3 DEF Stored, ReturnedRevision
      <3> HIDE DEF copy
      <3>4. job'[w] = copy
        BY <2>2, <3>3
      <3>5. /\ result[w].rev \in DOMAIN files
            /\ files[result[w].rev].whole
            /\ files[result[w].rev].doc = packet[w].doc
        BY <2>3, Returned DEF Stored
      <3>6. Published(w)'
        BY <1>0, <3>2, <3>4, <3>5
      <3>7. QED
        BY <2>1, <3>6 DEF PublishedInv
    <2>4. CASE SaveStored(w)
      <3>1. wpc[w] = "stored" /\ job'[w] = [job[w] EXCEPT !.status = "stored"]
        BY <2>2, <2>4 DEF SaveStored, Save
      <3>2. job'[w].rev = job[w].rev /\ job'[w].doc = job[w].doc
        BY <2>2, <3>1 DEF Job, InProcess, Working
      <3>3. Published(w)'
        BY <1>0, <1>1, <3>1, <3>2
      <3>4. QED
        BY <2>1, <3>3 DEF PublishedInv
    <2>5. CASE ~Stored(w) /\ ~SaveStored(w)
      <3>1. wpc'[w] \notin {"stored", "done"} \/ UNCHANGED queueVars
        BY <1>4, <2>2, <2>5
        DEF WorkerActs, WorkerStep, Claim, NoClaim, GetJob, GetJobFault, Save,
            SaveLast, Release, SavePlanning, Plan, PlanError, SaveRunning, Run,
            SaveNormalizing, Normalize, NormalizeError, StoreError, SaveDone,
            SaveFailed, FailWith, WakeUp, TickerFires, StopWorker, StoreStep,
            StoreFault, Goto
      <3>2. QED
        BY <1>3, <2>1, <3>1 DEF PublishedInv, queueVars
    <2>6. QED
      BY <2>3, <2>4, <2>5
  <1>5. ASSUME NEW s \in Submitter, Submits(s)
        PROVE  UNCHANGED workers
    BY <1>5 DEF Submits, SubmitCall, SubmitFault, SubmitNotify, SubmitSave
  <1>6. CASE VolatileLost \/ Restart \/ RestartFault
    BY <1>6 DEF VolatileLost, Restart, RestartFault, Started, PublishedInv
  <1>7. QED
    BY <1>3, <1>4, <1>5, <1>6, Cases DEF queueVars, Close

-------------------------------------------------------------------------------
(* Theorems.                                                                  *)

LEMMA InitInv == Init => IInv
  <1> SUFFICES ASSUME Init PROVE IInv
    OBVIOUS
  <1>1. Store!IInv
    <2>1. Store!Init
      BY DEF Init, Packets!Init, Store!Init, Packets!NoRows, Store!NoRows
    <2>2. QED
      BY <2>1, Store!InitInv, StoreAssumptions
      DEF Store!ClockAssumption, Store!NobodyAssumption
  <1>2. TypeOK
    <2>1. Packets!TypeOK
      BY <1>1, SameTypes DEF Store!IInv
    <2>2. QED
      BY <2>1 DEF Init, TypeOK, NoRows, WorkerPc
  <1>3. HandsInv /\ CopyInv /\ DownInv /\ OneWorkerPerJob /\ PublishedInv
    BY DEF Init, HandsInv, CopyInv, Copied, DownInv, OneWorkerPerJob, PublishedInv,
           Working
  <1>4. ActiveHasWorker /\ NoLostWakeup
    BY CapturePoolAssumption DEF Init, ActiveHasWorker, NoLostWakeup, NoRows, Queued
  <1>5. QED
    BY <1>1, <1>2, <1>3, <1>4 DEF IInv, QueueInv

\* The invariant of the store and that of the queue hold together in every
\* reachable state.
THEOREM Inductive == Spec => []IInv
  <1>1. IInv /\ [Next]_vars => IInv'
    <2> SUFFICES ASSUME IInv, [Next]_vars PROVE IInv'
      OBVIOUS
    <2>1. Store!IInv'
      BY StoreStepInv DEF IInv, QueueInv
    <2>2. QueueInv'
      BY TypeStep, HandsStep, CopyStep, DownStep, ActiveStep, WakeStep, PublishedStep
      DEF IInv, QueueInv
    <2>3. QED
      BY <2>1, <2>2 DEF IInv
  <1>2. QED
    BY InitInv, <1>1, PTL DEF Spec

\* Every variable of the capture queue keeps its type.
THEOREM TypeCorrect == Spec => []TypeOK
  <1>1. IInv => TypeOK
    BY DEF IInv, QueueInv
  <1>2. QED
    BY <1>1, Inductive, PTL

\* One worker at a time has a job, nobody settles it meanwhile, and its row is
\* never ahead of what its worker has done.
THEOREM OneWorker == Spec => []OneWorkerPerJob
  <1>1. IInv => OneWorkerPerJob
    BY DEF IInv, QueueInv
  <1>2. QED
    BY <1>1, Inductive, PTL

\* As long as no store call failed, a live Hub has no orphan.
THEOREM NoOrphan == Spec => []ActiveHasWorker
  <1>1. IInv => ActiveHasWorker
    BY DEF IInv, QueueInv
  <1>2. QED
    BY <1>1, Inductive, PTL

\* As long as no store call failed, no job is left to the ticker.
THEOREM WakeupKept == Spec => []NoLostWakeup
  <1>1. IInv => NoLostWakeup
    BY DEF IInv, QueueInv
  <1>2. QED
    BY <1>1, Inductive, PTL

\* Whatever the text of an instant says inside a second, it never puts a later
\* second first.
LEMMA TextKeepsSeconds ==
  ASSUME NEW t \in Nat, NEW u \in Nat, TextLeq(t, u)
  PROVE  Second(t) <= Second(u)
  <1> DEFINE T == TicksPerSecond
             a == t \div T
             b == u \div T
             f == IF t % T = 0 THEN T ELSE t % T
             g == IF u % T = 0 THEN T ELSE u % T
  <1>1. T \in Nat /\ T >= 1
    BY TicksPerSecondAssumption
  <1>2. a \in Int /\ b \in Int /\ t % T \in 0 .. T - 1 /\ u % T \in 0 .. T - 1
    BY <1>1
  <1>3. f \in Int /\ g \in Int /\ f >= 1 /\ g <= T
    BY <1>1, <1>2
  <1>4. a * (T + 1) + f <= b * (T + 1) + g
    BY DEF TextLeq, TextRank, Second
  <1> HIDE DEF T, a, b, f, g
  <1>5. ASSUME a > b
        PROVE  FALSE
    <2>1. PICK c \in Nat : a = b + 1 + c
      <3>1. a - b - 1 \in Nat /\ a = b + 1 + (a - b - 1)
        BY <1>2, <1>5
      <3>2. QED
        BY <3>1
    <2>2. a * (T + 1) = b * (T + 1) + (T + 1) + c * (T + 1)
      BY <1>1, <1>2, <2>1
    <2>3. c * (T + 1) >= 0 /\ c * (T + 1) \in Int /\ b * (T + 1) \in Int
      BY <1>1, <1>2, <2>1
    <2>4. QED
      BY <1>1, <1>3, <1>4, <2>2, <2>3
  <1>6. a <= b
    BY <1>2, <1>5
  <1>7. QED
    BY <1>6 DEF Second, a, b, T

\* A job is never overtaken by one that was created in a later second.
THEOREM ClaimsInOrder == Spec => NoLaterSecondFirst
  <1>1. IInv /\ [Next]_vars =>
          [\A j \in DOMAIN jobs :
             jobs[j].status = "queued" /\ jobs'[j].status = "planning" =>
               \A i \in Queued :
                 Second(jobs[j].createdAt) <= Second(jobs[i].createdAt)]_vars
    <2> SUFFICES ASSUME IInv, Next, NEW j \in DOMAIN jobs, jobs[j].status = "queued",
                        jobs'[j].status = "planning", NEW i \in Queued
                 PROVE  Second(jobs[j].createdAt) <= Second(jobs[i].createdAt)
      BY DEF IInv
    <2> USE DEF IInv
    <2>1. \E w \in Worker : WorkerActs(w)
      <3>1. ASSUME NEW s \in Submitter, Submits(s) PROVE FALSE
        BY <3>1, SubmitKeepsRows
      <3>2. ~Restart
        <4>1. Requeued[j] = jobs[j]
          BY RequeuedRows DEF QueueInv, Active
        <4>2. QED
          BY <4>1 DEF Restart
      <3>3. QED
        BY <3>1, <3>2, Cases
        DEF queueVars, Close, VolatileLost, RestartFault
    <2>2. PICK w \in Worker : WorkerActs(w)
      BY <2>1
    <2>3. Shaped(w)
      BY <2>2, WorkerShaped
    <2>4. \E k \in JobId : Claim(w, k)
      <3>1. ASSUME NEW copy, Advances(w, copy) \/ Settles(w, copy)
            PROVE  FALSE
        <4>1. held[w] \in DOMAIN jobs /\ jobs[held[w]].status \in Active
          BY <3>1, InHand DEF Advances, Settles, InProcess
        <4>2. j # held[w]
          BY <4>1 DEF Active
        <4>3. jobs'[j] = jobs[j]
          BY <3>1, <4>2 DEF Advances, Settles, Upsert
        <4>4. QED
          BY <4>3
      <3>2. QED
        BY <2>3, <3>1 DEF Shaped, GetJob, Drops, Idles, queueVars
    <2>5. PICK k \in JobId : Claim(w, k)
      BY <2>4
    <2>6. j = k
      <3>1. jobs' = Upsert(jobs, k, Claimed(jobs[k]))
        BY <2>5, ClaimEffect
      <3>2. QED
        BY <3>1 DEF Upsert
    <2>7. TextLeq(jobs[j].createdAt, jobs[i].createdAt)
      BY <2>5, <2>6 DEF Claim, FirstQueued
    <2>8. jobs[j].createdAt \in Nat /\ jobs[i].createdAt \in Nat
      BY DEF QueueInv, TypeOK, Job, Queued
    <2>9. QED
      BY <2>7, <2>8, TextKeepsSeconds
  <1>2. QED
    BY <1>1, Inductive, PTL DEF Spec, NoLaterSecondFirst

\* With workers and browsers storing packets at a time, a row still moves only to
\* other content, on any clock.
THEOREM StoreNoEqualSuccessor == Spec => Packets!NoRepeatedRevision
  <1>1. IInv /\ [Next]_vars =>
          [\A d \in DOMAIN documents :
             documents'[d] # documents[d] =>
               documents'[d].hash # documents[d].hash]_(Packets!vars)
    <2> SUFFICES ASSUME IInv, [Next]_vars, NEW d \in DOMAIN documents,
                        documents'[d] # documents[d]
                 PROVE  documents'[d].hash # documents[d].hash
      OBVIOUS
    <2>1. QED
      BY StoreUsed, Store!UseKeepsRows, StoreAssumptions
      DEF IInv, QueueInv, Store!ClockAssumption, Store!NobodyAssumption
  <1>2. QED
    BY <1>1, Inductive, PTL DEF Spec, Packets!NoRepeatedRevision

\* ... and on a clock that moves between two readings every row points to a
\* complete file of its content, receipts stay true and complete files are never
\* written again.
THEOREM StoreKeepsPackets ==
  ASSUME FineClock
  PROVE  Spec => /\ []Packets!PointerIsReadable
                 /\ []Packets!ReceiptsHold
                 /\ Packets!FilesImmutable
  <1>1. IInv => Packets!PointerIsReadable /\ Packets!ReceiptsHold
    BY DEF IInv, Store!IInv, Store!ContentInv, Packets!PointerIsReadable,
           Store!PointerIsReadable, Packets!ReceiptsHold, Store!ReceiptsHold,
           Packets!Holds, Store!Holds
  <1>2. IInv /\ [Next]_vars =>
          [\A r \in DOMAIN files : files[r].whole => files'[r] = files[r]]_(Packets!vars)
    BY StoreUsed, Store!FilesStep, StoreAssumptions
    DEF IInv, QueueInv, Store!IInv, Store!ContentInv, Store!ClockAssumption,
        Store!NobodyAssumption
  <1>3. QED
    BY <1>1, <1>2, Inductive, PTL DEF Spec, Packets!FilesImmutable

-------------------------------------------------------------------------------
(* The ledger of capture jobs.  Every initial state of the queue is one of the *)
(* ledger, and every step of the queue is a step of the ledger or changes      *)
(* nothing in it.  The clock moves between two readings: on a coarser one a    *)
(* packet may be written over, and the ledger loses none.                      *)

\* What the ledger says of a row.
Entry(row) ==
  [phase |-> Phase(row.status),
   packet |-> IF row.status = "done" THEN <<row.doc, row.rev>> ELSE None]

LEMMA Entries ==
  /\ DOMAIN LedgerJobs = DOMAIN jobs
  /\ \A j \in DOMAIN jobs : LedgerJobs[j] = Entry(jobs[j])
  BY DEF LedgerJobs, Entry

\* One row is written.
LEMMA EntryWritten ==
  ASSUME NEW j, NEW row, jobs' = Upsert(jobs, j, row)
  PROVE  LedgerJobs' = Upsert(LedgerJobs, j, Entry(row))
  BY DEF LedgerJobs, Entry, Upsert

\* An entry that is there is overwritten.
LEMMA EntryReplaced ==
  ASSUME NEW j \in DOMAIN LedgerJobs, NEW entry,
         LedgerJobs' = Upsert(LedgerJobs, j, entry)
  PROVE  LedgerJobs' = [LedgerJobs EXCEPT ![j] = entry]
  <1>1. LedgerJobs = [k \in DOMAIN LedgerJobs |-> LedgerJobs[k]]
    BY DEF LedgerJobs
  <1>2. QED
    BY <1>1 DEF Upsert

\* A row without a packet that is written with another phase, and no packet.
LEMMA PhaseWritten ==
  ASSUME NEW j \in DOMAIN LedgerJobs, NEW p, NEW q,
         LedgerJobs[j] = [phase |-> p, packet |-> None],
         LedgerJobs' = Upsert(LedgerJobs, j, [phase |-> q, packet |-> None])
  PROVE  LedgerJobs' = [LedgerJobs EXCEPT ![j].phase = q]
  <1>1. [LedgerJobs[j] EXCEPT !.phase = q] = [phase |-> q, packet |-> None]
    OBVIOUS
  <1>2. QED
    BY <1>1, EntryReplaced

\* A row that is worked on shows no packet; a waiting or a failed one neither.
LEMMA EntryPhases ==
  ASSUME NEW row \in Job
  PROVE  /\ row.status = "queued" => Entry(row) = [phase |-> "waiting", packet |-> None]
         /\ row.status \in Active => Entry(row) = [phase |-> "active", packet |-> None]
         /\ row.status = "failed" => Entry(row) = [phase |-> "failed", packet |-> None]
         /\ row.status = "done" => Entry(row) = [phase |-> "done", packet |-> <<row.doc, row.rev>>]
  BY DEF Entry, Phase, Active

\* On a clock that moves between two readings packets are only added.
LEMMA PacketsOnlyAdded ==
  ASSUME IInv, FineClock, [Next]_vars
  PROVE  LedgerPackets \subseteq LedgerPackets' /\ LedgerPackets' \subseteq Doc \X Nat
  <1>1. \A r \in DOMAIN files : r \in DOMAIN files' /\ files'[r] = files[r]
    BY StoreUsed, Store!FilesStep, StoreAssumptions
    DEF IInv, QueueInv, Store!IInv, Store!ContentInv, Store!ClockAssumption,
        Store!NobodyAssumption
  <1>2. TypeOK'
    BY TypeStep DEF IInv
  <1>3. \A r \in DOMAIN files' : r \in Nat /\ files'[r].doc \in Doc
    BY <1>2 DEF TypeOK, Packets!TypeOK, Packets!Rev, Packets!PacketFile
  <1>4. QED
    BY <1>1, <1>3 DEF LedgerPackets

\* A step that leaves the table alone stores packets or does nothing.
LEMMA PublishStep ==
  ASSUME IInv, FineClock, [Next]_vars, UNCHANGED jobs
  PROVE  Ledger!Next
  <1>1. LedgerJobs' = LedgerJobs
    BY DEF LedgerJobs
  <1>2. QED
    BY <1>1, PacketsOnlyAdded DEF Ledger!Next, Ledger!Publish

LEMMA SubmitAccepts ==
  ASSUME IInv, NEW s \in Submitter, NEW j \in JobId, SubmitSave(s, j)
  PROVE  Ledger!Accept(j)
  <1>1. /\ j \notin DOMAIN jobs
        /\ jobs' = Upsert(jobs, j, NewJob(created[s]))
        /\ NewJob(created[s]) \in Job
    BY SubmitEffect DEF IInv
  <1>2. NewJob(created[s]).status = "queued"
    BY DEF NewJob
  <1>3. LedgerJobs' = Upsert(LedgerJobs, j, [phase |-> "waiting", packet |-> None])
    BY <1>1, <1>2, EntryWritten, EntryPhases
  <1>4. LedgerPackets' = LedgerPackets
    BY DEF SubmitSave, packetVars, LedgerPackets
  <1>5. QED
    BY <1>1, <1>3, <1>4, Entries DEF Ledger!Accept, Ledger!Upsert, Upsert

LEMMA ClaimBegins ==
  ASSUME IInv, NEW w \in Worker, NEW j \in JobId, Claim(w, j)
  PROVE  Ledger!Begin(j)
  <1>1. /\ j \in DOMAIN jobs /\ jobs[j] \in Job /\ jobs[j].status = "queued"
        /\ Claimed(jobs[j]) \in Job /\ Claimed(jobs[j]).status = "planning"
        /\ jobs' = Upsert(jobs, j, Claimed(jobs[j]))
    BY ClaimEffect DEF IInv
  <1>2. j \in DOMAIN LedgerJobs /\ LedgerJobs[j] = [phase |-> "waiting", packet |-> None]
    BY <1>1, Entries, EntryPhases
  <1>3. LedgerJobs' = Upsert(LedgerJobs, j, [phase |-> "active", packet |-> None])
    BY <1>1, EntryWritten, EntryPhases DEF Active
  <1>4. LedgerJobs' = [LedgerJobs EXCEPT ![j].phase = "active"]
    BY <1>2, <1>3, PhaseWritten
  <1>5. LedgerPackets' = LedgerPackets
    BY DEF Claim, packetVars, LedgerPackets
  <1>6. QED
    BY <1>2, <1>4, <1>5 DEF Ledger!Begin

\* The row in a worker's hands is worked on in the ledger.
LEMMA HeldIsActive ==
  ASSUME IInv, NEW w \in Worker, wpc[w] \in InProcess
  PROVE  /\ held[w] \in JobId
         /\ held[w] \in DOMAIN LedgerJobs
         /\ LedgerJobs[held[w]] = [phase |-> "active", packet |-> None]
  BY InHand, Entries, EntryPhases DEF IInv, InProcess

\* A stage is nothing to the ledger.
LEMMA AdvanceStutters ==
  ASSUME IInv, NEW w \in Worker, NEW copy, Advances(w, copy)
  PROVE  LedgerJobs' = LedgerJobs
  <1>1. CASE jobs' = jobs
    BY <1>1 DEF LedgerJobs
  <1>2. CASE jobs' = Upsert(jobs, held[w], copy)
    <2>1. LedgerJobs' = Upsert(LedgerJobs, held[w], [phase |-> "active", packet |-> None])
      BY <1>2, EntryWritten, EntryPhases DEF Advances
    <2>2. /\ held[w] \in DOMAIN LedgerJobs
          /\ LedgerJobs[held[w]] = [phase |-> "active", packet |-> None]
      BY HeldIsActive DEF Advances
    <2>3. QED
      BY <2>1, <2>2 DEF Upsert, LedgerJobs
  <1>3. QED
    BY <1>1, <1>2 DEF Advances

LEMMA DoneCompletes ==
  ASSUME IInv, FineClock, NEW w \in Worker, SaveDone(w), jobs' # jobs
  PROVE  \E p \in LedgerPackets : Ledger!Complete(held[w], p)
  <1> DEFINE row == [job[w] EXCEPT !.status = "done", !.code = "ok"]
             p == <<job[w].doc, job[w].rev>>
  <1>1. wpc[w] \in InProcess /\ job[w] \in Job
    BY InHand DEF SaveDone, InProcess, Working, IInv
  <1>2. row \in Job /\ row.status = "done" /\ row.doc = job[w].doc /\ row.rev = job[w].rev
    BY <1>1 DEF Job, Status, Terminal, ErrorCode
  <1>3. jobs' = Upsert(jobs, held[w], row)
    BY DEF SaveDone, SaveLast, SaveJob
  <1>4. p \in LedgerPackets
    BY DEF IInv, QueueInv, PublishedInv, SaveDone, LedgerPackets
  <1> HIDE DEF row
  <1>5. LedgerJobs' = Upsert(LedgerJobs, held[w], [phase |-> "done", packet |-> p])
    BY <1>2, <1>3, EntryWritten, EntryPhases
  <1>6. LedgerJobs' = [LedgerJobs EXCEPT ![held[w]] = [phase |-> "done", packet |-> p]]
    BY <1>1, <1>5, HeldIsActive, EntryReplaced
  <1>7. LedgerPackets' = LedgerPackets
    BY DEF SaveDone, SaveLast, packetVars, LedgerPackets
  <1>8. held[w] \in DOMAIN LedgerJobs /\ LedgerJobs[held[w]].phase = "active"
    BY <1>1, HeldIsActive
  <1> HIDE DEF p
  <1>9. Ledger!Complete(held[w], p)
    BY <1>6, <1>7, <1>8 DEF Ledger!Complete
  <1>10. QED
    BY <1>4, <1>9

LEMMA FailedFails ==
  ASSUME IInv, NEW w \in Worker, SaveFailed(w), jobs' # jobs
  PROVE  Ledger!Fail(held[w])
  <1> DEFINE row == [job[w] EXCEPT !.status = "failed"]
  <1>1. wpc[w] \in InProcess /\ job[w] \in Job
    BY InHand DEF SaveFailed, InProcess, Working, IInv
  <1>2. row \in Job /\ row.status = "failed"
    BY <1>1 DEF Job, Status, Terminal
  <1>3. jobs' = Upsert(jobs, held[w], row)
    BY DEF SaveFailed, SaveLast, SaveJob, FailedCopy
  <1> HIDE DEF row
  <1>4. LedgerJobs' = Upsert(LedgerJobs, held[w], [phase |-> "failed", packet |-> None])
    BY <1>2, <1>3, EntryWritten, EntryPhases
  <1>5. LedgerJobs' = [LedgerJobs EXCEPT ![held[w]].phase = "failed"]
    BY <1>1, <1>4, HeldIsActive, PhaseWritten
  <1>6. LedgerPackets' = LedgerPackets
    BY DEF SaveFailed, SaveLast, packetVars, LedgerPackets
  <1>7. QED
    BY <1>1, <1>5, <1>6, HeldIsActive DEF Ledger!Fail

\* A new process hands back what the old one was working on.
LEMMA RestartGivesBack ==
  ASSUME IInv, Restart
  PROVE  (\E back \in SUBSET JobId : Ledger!GiveBack(back)) \/ UNCHANGED jobs
  <1> DEFINE back == {j \in DOMAIN jobs : jobs[j].status \in Active}
  <1>1. /\ jobs' = Requeued /\ DOMAIN Requeued = DOMAIN jobs
        /\ DOMAIN jobs \subseteq JobId /\ \A j \in DOMAIN jobs : jobs[j] \in Job
        /\ jobs \in [DOMAIN jobs -> Job]
    BY DEF Restart, Requeued, IInv, QueueInv, TypeOK
  <1>2. CASE back = {}
    BY <1>1, <1>2 DEF Requeued
  <1>3. CASE back # {}
    <2>1. \A j \in back : j \in DOMAIN LedgerJobs /\ LedgerJobs[j].phase = "active"
      BY <1>1, Entries, EntryPhases
    <2>2. ASSUME NEW j \in DOMAIN jobs
          PROVE  LedgerJobs'[j] =
                   IF j \in back THEN [LedgerJobs[j] EXCEPT !.phase = "waiting"]
                                 ELSE LedgerJobs[j]
      <3>1. j \in DOMAIN jobs' /\ LedgerJobs'[j] = Entry(jobs'[j])
        BY <1>1 DEF LedgerJobs, Entry
      <3>2. CASE j \in back
        <4>1. jobs'[j] \in Job /\ jobs'[j].status = "queued"
          BY <1>1, <3>2, RequeuedRows DEF IInv, QueueInv, Job
        <4>2. LedgerJobs'[j] = [phase |-> "waiting", packet |-> None]
          BY <3>1, <4>1, EntryPhases
        <4>3. LedgerJobs[j] = [phase |-> "active", packet |-> None]
          BY <1>1, <3>2, Entries, EntryPhases
        <4>4. QED
          BY <3>2, <4>2, <4>3
      <3>3. CASE j \notin back
        <4>1. jobs'[j] = jobs[j]
          BY <1>1, <3>3, RequeuedRows DEF IInv, QueueInv
        <4>2. QED
          BY <3>1, <3>3, <4>1, Entries
      <3>4. QED
        BY <3>2, <3>3
    <2>3. LedgerJobs' = [j \in DOMAIN LedgerJobs |->
            IF j \in back THEN [LedgerJobs[j] EXCEPT !.phase = "waiting"]
                          ELSE LedgerJobs[j]]
      BY <1>1, <2>2 DEF LedgerJobs
    <2>4. LedgerPackets' = LedgerPackets
      BY DEF Restart, Started, packetVars, LedgerPackets
    <2>5. Ledger!GiveBack(back) /\ back \in SUBSET JobId
      BY <1>1, <1>3, <2>1, <2>3, <2>4 DEF Ledger!GiveBack
    <2>6. QED
      BY <2>5
  <1>4. QED
    BY <1>2, <1>3

-------------------------------------------------------------------------------

LEMMA InitRefines == Init => Ledger!Init
  BY DEF Init, Packets!Init, Ledger!Init, LedgerJobs, LedgerPackets, NoRows,
         Ledger!NoRows, Packets!NoRows

LEMMA StepRefines ==
  ASSUME IInv, FineClock, [Next]_vars
  PROVE  Ledger!Next
  <1>1. CASE UNCHANGED jobs
    BY <1>1, PublishStep
  <1>2. ASSUME NEW s \in Submitter, Submits(s)
        PROVE  Ledger!Next
    BY <1>1, <1>2, SubmitAccepts
    DEF Submits, SubmitCall, SubmitFault, SubmitNotify, Ledger!Next
  <1>3. ASSUME NEW w \in Worker, WorkerActs(w)
        PROVE  Ledger!Next
    <2>1. Shaped(w)
      BY <1>3, WorkerShaped DEF IInv
    <2>2. ASSUME NEW j \in JobId, Claim(w, j)
          PROVE  Ledger!Next
      BY <2>2, ClaimBegins DEF Ledger!Next
    <2>3. ASSUME NEW copy, Advances(w, copy)
          PROVE  Ledger!Next
      BY <2>3, AdvanceStutters, PacketsOnlyAdded DEF Ledger!Next, Ledger!Publish
    <2>4. ASSUME NEW copy, Settles(w, copy), jobs' # jobs
          PROVE  Ledger!Next
      <3>1. SaveDone(w) \/ SaveFailed(w)
        BY <1>3, <2>4
        DEF Settles, InProcess, Working, WorkerActs, WorkerStep, Claim, NoClaim,
            GetJob, GetJobFault, Save, SavePlanning, Plan, PlanError, SaveRunning,
            Run, SaveNormalizing, Normalize, NormalizeError, Stored, StoreError,
            SaveStored, FailWith, WakeUp, TickerFires, StopWorker, StoreStep,
            StoreFault, queueVars, Goto, IInv, QueueInv, TypeOK
      <3>2. held[w] \in JobId
        BY <2>4, HeldIsActive DEF Settles
      <3>3. QED
        BY <2>4, <3>1, <3>2, DoneCompletes, FailedFails DEF Ledger!Next
    <2>5. QED
      BY <1>1, <2>1, <2>2, <2>3, <2>4 DEF Shaped, GetJob, Drops, Idles, queueVars
  <1>4. CASE Restart
    BY <1>1, <1>4, RestartGivesBack DEF Ledger!Next
  <1>5. QED
    BY <1>1, <1>2, <1>3, <1>4, Cases DEF queueVars, Close, VolatileLost, RestartFault

\* The capture queue implements the ledger: whole-row writes from a worker's
\* copy, dropped errors of SaveJob, packets found again and restarts never settle
\* a job twice, never take a settled job back, and never let a job be done without
\* a stored packet.
THEOREM Implements == ASSUME FineClock PROVE Spec => LedgerSpec
  <1>1. Init => Ledger!Init
    BY InitRefines
  <1>2. IInv /\ [Next]_vars => [Ledger!Next]_(Ledger!vars)
    BY StepRefines
  <1>3. QED
    BY <1>1, <1>2, Inductive, PTL DEF Spec, LedgerSpec, Ledger!Spec
===============================================================================
