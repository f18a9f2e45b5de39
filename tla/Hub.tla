---------------------------------- MODULE Hub ----------------------------------
(***************************************************************************)
(* A capture as the user sees it: a browser client posts a snapshot, the    *)
(* Hub saves the packet and then queues AI work for the document            *)
(* (internal/api/server.go, handleCapture), and the client gets a receipt.  *)
(*                                                                         *)
(* The packet store is PacketStore.  The AI queue is AIJobLedger, which it  *)
(* implements (AIQueueLedger); its Enqueue is taken apart here, because it  *)
(* reads the document again.  The userscript sends a POST a second time,    *)
(* through the privileged channel, when fetch fails: the first one may have *)
(* reached the Hub all the same, now, later or never.                       *)
(***************************************************************************)
EXTENDS Naturals, Sequences, FiniteSets, SqlTable

CONSTANTS
  Client,       \* tabs with the userscript
  Handler,      \* HTTP handlers that run at a time
  Doc, Hash, None, MaxCrashes, MaxFaults,
  MaxRequests,  \* bound: captures and requests for AI work
  MaxDrops      \* bound: connections that break while the Hub is well

VARIABLES
  waiting,      \* the request a client waits for
  network,      \* requests on their way to the Hub
  requests,     \* requests so far
  drops,        \* broken connections so far
  configured,   \* Dispatcher.Configured(): this process has a key
  hpc,          \* where each handler is
  serves,       \* the request of each handler
  answer,       \* the answer a handler prepares
  bound,        \* the revision a handler is about to queue
  enqueueMu,    \* the handler that holds enqueueMu
  jobs,         \* the ledger of AI jobs
  answers,      \* the recorded model answers
  written,      \* history: the rows of documents in the order they were written
  replies       \* history: the answers to captures that were saved

VARIABLES  \* of the packet store
  now, files, documents, mu, spc, packet, result, receipts, captures,
  crashes, faults

\* No two captures read the same instant, as the revision ids require.
Packets == INSTANCE PacketStore
             WITH Caller <- Handler, MaxCaptures <- MaxRequests,
                  FineClock <- TRUE, MaxClock <- 0

\* None stands for no request, nobody, no packet, no result, no revision and no job.
ASSUME HubAssumption ==
  /\ None \notin Handler
  /\ None \notin Nat
  /\ None \notin Packets!Packet
  /\ None \notin Packets!Result

Work == Doc \X Nat

\* Ids of ai_jobs rows, named in the order in which they are made.
JobId == Nat

Ledger == INSTANCE AIJobLedger
            WITH Job <- JobId, AnswerId <- JobId, NoAnswer <- None

clients == <<waiting, network>>
bounds == <<requests, drops>>
queueing == <<bound, enqueueMu, configured>>
handlers == <<hpc, serves, answer, queueing>>
ledger == <<jobs, answers>>
store == <<now, files, documents, mu, spc, packet, result, receipts, captures>>
budget == <<crashes, faults>>
recorded == <<written, replies>>

vars == <<clients, bounds, handlers, ledger, store, budget, recorded>>

-------------------------------------------------------------------------------
(* The client: captureSnapshot, and request of the userscript host.          *)
(*                                                                           *)
(* What travels: a capture is [id, from, via, doc, hash, auto], on the channel  *)
(* via, "fetch" or "privileged"; a wish for AI work, POST /ai/jobs, is           *)
(* [id, doc].  The answer of a handler is [rev, job], with rev None when the     *)
(* packet was not saved and job None when no AI work was queued.                *)

NewRequest == requests < MaxRequests /\ requests' = requests + 1

Send(c, d, h, auto) ==
  /\ waiting[c] = None
  /\ NewRequest
  /\ LET req == [id |-> requests, from |-> c, via |-> "fetch", doc |-> d,
                 hash |-> h, auto |-> auto] IN
       /\ waiting' = [waiting EXCEPT ![c] = req]
       /\ network' = network \cup {req}
  /\ UNCHANGED <<drops, handlers, ledger, store, budget, recorded>>

\* The connection of a client is gone.  When fetch rejects, the same request
\* goes out on the privileged channel, once.  (An answer cut off after its head
\* ends the capture as a whole one does: see Respond.)
Breaks(c, lost) ==
  /\ IF waiting[c].via = "fetch"
       THEN LET again == [waiting[c] EXCEPT !.via = "privileged"] IN
            /\ waiting' = [waiting EXCEPT ![c] = again]
            /\ network' = (network \ lost) \cup {again}
       ELSE /\ waiting' = [waiting EXCEPT ![c] = None]
            /\ network' = network \ lost
  /\ UNCHANGED <<handlers, ledger, store, budget, recorded, requests>>

\* The request may be lost or still arrive; its answer finds nobody.
Drop(c) ==
  /\ waiting[c] # None
  /\ drops < MaxDrops
  /\ drops' = drops + 1
  /\ \E lost \in SUBSET ({waiting[c]} \cap network) : Breaks(c, lost)

\* The process that was to serve the request is gone.
Reset(c) ==
  /\ waiting[c] # None
  /\ waiting[c] \notin network
  /\ \A h \in Handler : serves[h] # waiting[c]
  /\ Breaks(c, {})
  /\ UNCHANGED drops

-------------------------------------------------------------------------------
(* handleCapture: save the packet.                                           *)

Goto(h, pc) == hpc' = [hpc EXCEPT ![h] = pc]

Deliver(h) ==
  /\ hpc[h] = "free"
  /\ \E req \in network :
       /\ network' = network \ {req}
       /\ serves' = [serves EXCEPT ![h] = req]
       /\ Packets!Begin(h, req.doc, req.hash)
  /\ Goto(h, "save")
  /\ UNCHANGED <<waiting, answer, queueing, ledger, captures, recorded, bounds>>

\* History: a new row of documents.
RowWritten(h) ==
  written' = IF documents' = documents
               THEN written
               ELSE Append(written, [doc |-> serves[h].doc, hash |-> serves[h].hash,
                                     rev |-> documents'[serves[h].doc].rev])

SaveStep(h) ==
  /\ Packets!SaveStep(h)
  /\ RowWritten(h)
  /\ UNCHANGED <<clients, handlers, ledger, replies, bounds>>

SaveFault(h) ==
  /\ Packets!StoreFault(h)
  /\ UNCHANGED <<clients, handlers, ledger, captures, recorded, bounds>>

\* The receipt is followed by AI work if the request asks for it.
QueuesAI(h) == result[h].ok /\ serves[h].auto

SnapshotReturns(h) ==
  /\ Packets!Reply(h)
  /\ answer' = [answer EXCEPT ![h].rev = result[h].rev]
  /\ Goto(h, IF QueuesAI(h) THEN "enqueue" ELSE "reply")
  /\ UNCHANGED <<clients, serves, queueing, ledger, recorded, bounds>>

-------------------------------------------------------------------------------
(* Enqueue: bind the AI work to the latest revision of the document.          *)

\* handleAIEnqueue: a request for a document, whatever its revision is.
Ask(h, d) ==
  /\ hpc[h] = "free"
  /\ NewRequest
  /\ serves' = [serves EXCEPT ![h] = [id |-> requests, doc |-> d]]
  /\ Goto(h, "enqueue")
  /\ UNCHANGED <<clients, answer, queueing, ledger, store, budget, recorded, drops>>

\* The lock; then NormalizeRequest and GetPacketByDocumentID.
Locks(h) == hpc[h] = "enqueue" /\ enqueueMu = None

Reads(h) == Locks(h) /\ configured /\ mu = None

Finds(h) == hpc[h] = "find" /\ mu = None

LatestRevision(h) == documents[serves[h].doc].rev

EnqueueRead(h) ==
  /\ Reads(h)
  /\ serves[h].doc \in DOMAIN documents
  /\ enqueueMu' = h
  /\ bound' = [bound EXCEPT ![h] = LatestRevision(h)]
  /\ Goto(h, "find")
  /\ UNCHANGED <<clients, serves, answer, configured, ledger, store, budget, recorded,
                 bounds>>

\* Mutant: a return without the unlock.
StillLocked(h) == h

Unlocked(h) == None

EnqueueReturns(h, j) ==
  /\ answer' = [answer EXCEPT ![h].job = j]
  /\ bound' = [bound EXCEPT ![h] = None]
  /\ enqueueMu' = Unlocked(h)
  /\ Goto(h, "reply")
  /\ UNCHANGED <<clients, serves, configured, store, recorded, bounds>>

EnqueueNotConfigured(h) ==
  /\ Locks(h)
  /\ ~configured
  /\ EnqueueReturns(h, None)
  /\ UNCHANGED <<ledger, budget>>

EnqueueNotFound(h) ==
  /\ Reads(h)
  /\ serves[h].doc \notin DOMAIN documents
  /\ EnqueueReturns(h, None)
  /\ UNCHANGED <<ledger, budget>>

\* An error of Enqueue is only reported: the packet stays saved.
EnqueueFault(h) ==
  /\ Reads(h) \/ Finds(h)
  /\ Packets!Fails
  /\ EnqueueReturns(h, None)
  /\ UNCHANGED ledger

\* Mutant: the lookup forgets the revision.
SameDocument(h) ==
  {j \in DOMAIN jobs : jobs[j].work[1] = serves[h].doc /\ jobs[j].phase # "failed"}

\* FindReusableAIJob.
Reusable(h) == Ledger!Live(<<serves[h].doc, bound[h]>>)

EnqueueReuse(h) ==
  /\ Finds(h)
  /\ \E j \in Reusable(h) : EnqueueReturns(h, j)
  /\ UNCHANGED <<ledger, budget>>

EnqueueAccept(h) ==
  /\ Finds(h)
  /\ Reusable(h) = {}
  /\ LET j == Cardinality(DOMAIN jobs) IN
       Ledger!Accept(j, <<serves[h].doc, bound[h]>>) /\ EnqueueReturns(h, j)
  /\ UNCHANGED budget

EnqueueStep(h) ==
  \/ EnqueueNotConfigured(h) \/ EnqueueRead(h) \/ EnqueueNotFound(h)
  \/ EnqueueReuse(h) \/ EnqueueAccept(h)

-------------------------------------------------------------------------------
(* The answer.                                                                *)

NoAnswer == [rev |-> None, job |-> None]

\* A client that still waits for this request is served.
Respond(h) ==
  /\ hpc[h] = "reply"
  /\ Goto(h, "free")
  /\ serves' = [serves EXCEPT ![h] = None]
  /\ answer' = [answer EXCEPT ![h] = NoAnswer]
  /\ waiting' =
       [c \in Client |-> IF waiting[c] = serves[h] THEN None ELSE waiting[c]]
  /\ replies' = IF answer[h].rev = None THEN replies
                  ELSE replies \cup {[id |-> serves[h].id, doc |-> serves[h].doc,
                                      hash |-> serves[h].hash, auto |-> serves[h].auto,
                                      rev |-> answer[h].rev, job |-> answer[h].job]}
  /\ UNCHANGED <<network, queueing, ledger, store, budget, written, bounds>>

-------------------------------------------------------------------------------
(* The rest of the Hub.                                                       *)

\* The workers of the AI queue; the response of a job is named by the job.
QueueStep(j) ==
  /\ \/ Ledger!Begin(j)
     \/ Ledger!GiveUp(j)
     \/ Ledger!GiveBack({j})
     \/ Ledger!Answer(j, j)
     \/ Ledger!Complete(j, j)
  /\ UNCHANGED <<clients, handlers, store, budget, recorded, bounds>>

Running == {j \in DOMAIN jobs : jobs[j].phase = "running"}

\* The process dies with its connections, and is started again, perhaps without
\* a key.
Crash ==
  /\ crashes < MaxCrashes
  /\ crashes' = crashes + 1
  /\ Packets!Die
  /\ IF Running = {} THEN UNCHANGED ledger ELSE Ledger!GiveBack(Running)
  /\ hpc' = [h \in Handler |-> "free"]
  /\ serves' = [h \in Handler |-> None]
  /\ answer' = [h \in Handler |-> NoAnswer]
  /\ bound' = [h \in Handler |-> None]
  /\ enqueueMu' = None
  /\ configured' \in BOOLEAN
  /\ \E lost \in SUBSET network : network' = network \ lost
  /\ UNCHANGED <<waiting, captures, faults, recorded, bounds>>

Init ==
  /\ Packets!Init
  /\ Ledger!Init
  /\ waiting = [c \in Client |-> None]
  /\ network = {}
  /\ requests = 0
  /\ drops = 0
  /\ hpc = [h \in Handler |-> "free"]
  /\ serves = [h \in Handler |-> None]
  /\ answer = [h \in Handler |-> NoAnswer]
  /\ bound = [h \in Handler |-> None]
  /\ enqueueMu = None
  /\ configured \in BOOLEAN
  /\ written = <<>>
  /\ replies = {}

Next ==
  \/ \E c \in Client, d \in Doc, h \in Hash, auto \in BOOLEAN : Send(c, d, h, auto)
  \/ \E c \in Client : Drop(c) \/ Reset(c)
  \/ \E h \in Handler :
       \/ Deliver(h) \/ SaveStep(h) \/ SaveFault(h) \/ SnapshotReturns(h)
       \/ EnqueueStep(h) \/ EnqueueFault(h) \/ Respond(h)
  \/ \E h \in Handler, d \in Doc : Ask(h, d)
  \/ \E j \in DOMAIN jobs : QueueStep(j)
  \/ Crash

Spec == Init /\ [][Next]_vars

-------------------------------------------------------------------------------
(* Safety.                                                                    *)

\* When a revision became the latest one of its document.
Positions(d, r) == {i \in DOMAIN written : written[i].doc = d /\ written[i].rev = r}

\* A capture that asked for AI work gets it unless the Hub has no key or a store
\* call fails, and the job of a receipt never analyses a revision that was
\* replaced before the one of the receipt was saved (ARCHITECTURE.md:102-105),
\* whatever is captured meanwhile or sent twice.
JobCoversReceipt ==
  \A r \in replies :
    /\ r.auto /\ configured /\ crashes = 0 /\ faults = 0 => r.job # None
    /\ r.job # None =>
         /\ jobs[r.job].work[1] = r.doc
         /\ \E i \in Positions(r.doc, r.rev),
               k \in Positions(r.doc, jobs[r.job].work[2]) : i <= k

\* A capture that was sent twice is stored once: both answers name one revision,
\* unless the document changed in between (network-error fallback of
\* packages/runtime/src/types.ts).
ResentAnswersAgree ==
  \A r, s \in replies :
    r.id = s.id /\ r.rev # s.rev =>
      \E i \in DOMAIN written :
        written[i].doc = r.doc /\ written[i].hash # r.hash

\* No order of enqueueMu and store.mu blocks the Hub: while a handler serves a
\* request, some handler can go on.
HandlersAdvance ==
  (\E h \in Handler : hpc[h] # "free") =>
    \E h \in Handler :
      \/ ENABLED SaveStep(h) \/ ENABLED SnapshotReturns(h)
      \/ ENABLED EnqueueStep(h) \/ ENABLED Respond(h)

-------------------------------------------------------------------------------
(* What the documents say and the code does not keep.                         *)

\* "same revision_id ... same recipe/model AI job reused" (TASKS.md:74-76).
SameRevisionSameJob ==
  \A r, s \in replies :
    /\ r.doc = s.doc /\ r.rev = s.rev
    /\ r.job # None /\ s.job # None
    /\ jobs[r.job].phase # "failed" /\ jobs[s.job].phase # "failed"
    => r.job = s.job
===============================================================================
