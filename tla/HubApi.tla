--------------------------------- MODULE HubApi ---------------------------------
(***************************************************************************)
(* The Hub as a client that polls sees it: the handlers of                  *)
(* internal/api/server.go over a ledger of capture jobs, the documents and   *)
(* a ledger of AI jobs.  CaptureQueue and AIQueue implement such ledgers     *)
(* (CaptureQueueLedger, AIQueueLedger); here a capture job also has a URL,   *)
(* and its result follows from the adapters.                                 *)
(*                                                                         *)
(* Nothing says that a job is ever settled.  The process may die; the        *)
(* tables stay, and interrupted jobs wait again.                             *)
(***************************************************************************)
EXTENDS Adapters, SqlTable

CONSTANTS
  ListLimit,    \* the length of a list of jobs a client asks for
  MaxJobs,      \* bound: capture jobs, and AI jobs
  MaxCaptures,  \* bound: captures by others that change a document
  MaxCrashes,   \* bound: crashes of the Hub
  MaxFaults     \* bound: requests that fail while the Hub is up

\* ListJobs takes any other limit for 100.
ASSUME HubApiAssumption == ListLimit \in 1 .. 500

VARIABLES
  hub,          \* the process: up or down
  jobs,         \* capture jobs
  documents,    \* document -> latest revision
  revisions,    \* packets stored so far; a revision is numbered by its storing
  aiJobs,       \* AI jobs
  captures, crashes, faults

tables == <<jobs, documents, revisions, aiJobs>>
bounds == <<captures, crashes, faults>>
hubVars == <<tables, hub, bounds>>

Terminal == {"done", "failed"}

-------------------------------------------------------------------------------
(* The handlers: what they store and what they answer.                        *)

\* Ids in the order in which the rows are made.
NewId(table) == Cardinality(DOMAIN table) + 1

Error == [ok |-> FALSE]
Accepted(id) == [ok |-> TRUE, id |-> id]
Shows(value) == [ok |-> TRUE, value |-> value]

\* handleCreateJob: every accepted URL is a new job.
CreateJob(u) ==
  /\ NewId(jobs) <= MaxJobs
  /\ jobs' = Upsert(jobs, NewId(jobs),
       [url |-> u, phase |-> "queued", doc |-> None, rev |-> None, code |-> "none"])
  /\ UNCHANGED <<documents, revisions, aiJobs>>

CreateAnswer == Accepted(NewId(jobs))

\* handleGetJob.
JobRow(j) == IF j \in DOMAIN jobs THEN Shows(jobs[j]) ELSE Error

\* handleGetDoc.
Document(d) ==
  IF d \in DOMAIN documents THEN Shows([doc |-> d, rev |-> documents[d]]) ELSE Error

\* handleListDocAI.
Responses(d) ==
  {a \in DOMAIN aiJobs : aiJobs[a].doc = d /\ aiJobs[a].phase = "done"}

\* handleListJobs: the newest rows, as many as are asked for.
Newest(n) == {j \in DOMAIN jobs : NewId(jobs) - j <= n}
JobList == [j \in Newest(ListLimit) |-> jobs[j].phase]

LiveAI(d) ==
  {a \in DOMAIN aiJobs :
     aiJobs[a].doc = d /\ aiJobs[a].rev = documents[d] /\ aiJobs[a].phase # "failed"}

\* handleAIEnqueue: the latest revision of the document is bound, by a job that is
\* there or by a new one.
QueueAI(d) ==
  /\ IF LiveAI(d) = {}
       THEN /\ NewId(aiJobs) <= MaxJobs
            /\ aiJobs' = Upsert(aiJobs, NewId(aiJobs),
                 [doc |-> d, rev |-> documents[d], phase |-> "queued"])
       ELSE UNCHANGED aiJobs
  /\ UNCHANGED <<jobs, documents, revisions>>

QueueAnswer(d) ==
  Accepted(IF LiveAI(d) = {} THEN NewId(aiJobs) ELSE CHOOSE a \in LiveAI(d) : TRUE)

\* A request fails: the connection breaks, the store fails, or handleAIEnqueue has
\* no key for the model.
Fault ==
  /\ faults < MaxFaults
  /\ faults' = faults + 1
  /\ UNCHANGED <<tables, captures, crashes>>

-------------------------------------------------------------------------------
(* The rest of the Hub.                                                       *)

JobStarts(j) ==
  /\ hub = "up"
  /\ jobs[j].phase = "queued"
  /\ jobs' = [jobs EXCEPT ![j].phase = "active"]
  /\ UNCHANGED <<documents, revisions, aiJobs, hub, bounds>>

JobFails(j, run) ==
  /\ hub = "up"
  /\ jobs[j].phase = "active"
  /\ \E code \in ErrorsOf(jobs[j].url, run) \ {"ok"} :
       jobs' = [jobs EXCEPT ![j].phase = "failed", ![j].code = code]
  /\ UNCHANGED <<documents, revisions, aiJobs, hub, bounds>>

\* The packet is new, or its content is that of the latest revision.
JobSucceeds(j, run) ==
  LET d == DocumentOf(jobs[j].url, run.out) IN
    /\ hub = "up"
    /\ jobs[j].phase = "active"
    /\ "ok" \in ErrorsOf(jobs[j].url, run)
    /\ \/ /\ revisions' = revisions + 1
          /\ documents' = Upsert(documents, d, revisions')
       \/ /\ d \in DOMAIN documents
          /\ UNCHANGED <<revisions, documents>>
    /\ jobs' = [jobs EXCEPT ![j].phase = "done", ![j].doc = d,
                            ![j].rev = documents'[d]]
    /\ UNCHANGED <<aiJobs, hub, bounds>>

\* Somebody else captures a document that one of the jobs has captured.
DocumentChanges(d) ==
  /\ hub = "up"
  /\ captures < MaxCaptures
  /\ captures' = captures + 1
  /\ revisions' = revisions + 1
  /\ documents' = Upsert(documents, d, revisions')
  /\ UNCHANGED <<jobs, aiJobs, hub, crashes, faults>>

AISettles(a) ==
  /\ hub = "up"
  /\ aiJobs[a].phase = "queued"
  /\ \E phase \in Terminal : aiJobs' = [aiJobs EXCEPT ![a].phase = phase]
  /\ UNCHANGED <<jobs, documents, revisions, hub, bounds>>

Crash ==
  /\ hub = "up"
  /\ crashes < MaxCrashes
  /\ crashes' = crashes + 1
  /\ hub' = "down"
  /\ UNCHANGED <<tables, captures, faults>>

Restart ==
  /\ hub = "down"
  /\ hub' = "up"
  /\ jobs' = [j \in DOMAIN jobs |->
       IF jobs[j].phase = "active" THEN [jobs[j] EXCEPT !.phase = "queued"]
                                   ELSE jobs[j]]
  /\ UNCHANGED <<documents, revisions, aiJobs, bounds>>

HubStep ==
  \/ \E j \in DOMAIN jobs : JobStarts(j)
  \/ \E j \in DOMAIN jobs, run \in ToolRun : JobFails(j, run) \/ JobSucceeds(j, run)
  \/ \E d \in {jobs[j].doc : j \in DOMAIN jobs} \ {None} : DocumentChanges(d)
  \/ \E a \in DOMAIN aiJobs : AISettles(a)
  \/ Crash
  \/ Restart

\* The jobs and documents that are there at first; others may capture, and the Hub
\* crash.
HubInit(earlier, first, restless) ==
  /\ hub = "up"
  /\ jobs = earlier
  /\ documents = [d \in first |-> 0]
  /\ revisions = 0
  /\ aiJobs = NoRows
  /\ captures = IF restless THEN 0 ELSE MaxCaptures
  /\ crashes = IF restless THEN 0 ELSE MaxCrashes
  /\ faults = 0

-------------------------------------------------------------------------------

\* What can go wrong after the plan: opencli, what it prints, the store.
LateCodes == {"runner_failed", "runner_timeout", "normalize_failed", "store_failed"}

\* The order of the adapters keeps fixtures out of the web and the web out of the
\* fixtures (cmd/hub/main.go:55, "must not steal real site URLs" in
\* adapter/fake/fake.go): while opencli and the store work, a web page fails only
\* because its URL is a Zhihu URL that names no text, or because the page has none.
WebPagesAreRead ==
  \A j \in DOMAIN jobs :
    jobs[j].url \in Web /\ jobs[j].phase = "failed" =>
      \/ jobs[j].code = "plan_failed" /\ jobs[j].url \in Zhihu
      \/ jobs[j].code \in LateCodes
================================================================================
