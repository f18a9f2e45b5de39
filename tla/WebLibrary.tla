------------------------------- MODULE WebLibrary -------------------------------
(***************************************************************************)
(* The web page of the Hub (web/src/App.tsx): a list of documents, a reader  *)
(* for one of them with its AI results, and a list of capture jobs, kept up  *)
(* to date by a timer.                                                      *)
(*                                                                         *)
(* Every request is answered when the Hub gets to it and its answer applied   *)
(* when it arrives, in any order: answers to what the user has left, and     *)
(* older answers after newer ones.  What the page shows may be wrong for a    *)
(* while, but must not stay so.                                             *)
(***************************************************************************)
EXTENDS HubApi

CONSTANTS
  Typed,        \* bound: the URLs the user types
  Slot,         \* bound: requests of the page under way at a time
  MaxPageJobs   \* bound: capture and AI jobs in all, for the page to make one

ASSUME WebLibraryAssumption == Typed \subseteq Url

VARIABLES
  tab,          \* library, activity, or closed
  docs,         \* the list of documents
  docId,        \* the selected document
  doc,          \* the document in the reader
  results,      \* the AI results under it: [doc, done]
  loading,      \* the slot of the latest loadDoc under way: docLoadSeq.current
  failed,       \* the latest one failed
  list,         \* the list of capture jobs
  flight        \* the requests under way

selection == <<tab, docs, docId>>
reader == <<doc, results, loading, failed>>
pageVars == <<selection, reader, list, flight>>

\* The documents there are when the page is opened, and the one job: the other
\* document came from a browser.
Library == {<<"page", "page">>, <<"article", "article">>}

Earlier ==
  Upsert(NoRows, 1, [url |-> "page", phase |-> "done", doc |-> <<"page", "page">>,
                     rev |-> 0, code |-> "none"])

-------------------------------------------------------------------------------
(* Requests.  The two GETs of a load wait for each other; the document is that    *)
(* of the request, so its answer is that of listDocAi.                        *)

NewRequest(op, d) == [op |-> op, doc |-> d, answer |-> None]

Free(s) == flight[s] = None
UnderWay(op) == \E s \in Slot : ~Free(s) /\ flight[s].op = op

PageJobs == Cardinality(DOMAIN jobs) + Cardinality(DOMAIN aiJobs)

FreeSlots == {s \in Slot : Free(s)}

\* Slots are alike.
NextSlot == CHOOSE s \in FreeSlots : TRUE

Send(op, d) ==
  /\ FreeSlots # {}
  /\ flight' = [flight EXCEPT ![NextSlot] = NewRequest(op, d)]

ResultsOf(d) == [doc |-> d, done |-> Responses(d)]

AnswerOf(req) ==
  CASE req.op = "docs" -> DOMAIN documents
    [] req.op = "jobs" -> JobList
    [] req.op \in {"load", "results"} -> ResultsOf(req.doc)
    [] req.op = "create" -> CreateAnswer
    [] req.op = "ai" -> QueueAnswer(req.doc)

Answer(s) ==
  /\ ~Free(s)
  /\ hub = "up"
  /\ flight[s].answer = None
  /\ flight' = [flight EXCEPT ![s].answer = AnswerOf(flight[s])]
  /\ CASE flight[s].op = "create" -> \E u \in Typed : CreateJob(u)
       [] flight[s].op = "ai" -> QueueAI(flight[s].doc)
       [] OTHER -> UNCHANGED tables
  /\ UNCHANGED <<selection, reader, list, hub, bounds>>

Done(s) == flight' = [flight EXCEPT ![s] = None]

-------------------------------------------------------------------------------
(* The user.                                                                  *)

\* The effect of a new docId: loadDoc.
LoadIn(s, d) ==
  /\ flight' = [flight EXCEPT ![s] = NewRequest("load", d)]
  /\ loading' = s
  /\ failed' = FALSE
  /\ UNCHANGED <<doc, results>>

Select(d) ==
  /\ tab = "library"
  /\ d \in docs \ {docId}
  /\ docId' = d
  /\ FreeSlots # {}
  /\ LoadIn(NextSlot, d)
  /\ UNCHANGED <<tab, docs, list, hubVars>>

Turn(t) ==
  /\ tab \notin {"closed", t}
  /\ tab' = t
  /\ UNCHANGED <<docs, docId, reader, list, flight, hubVars>>

\* refreshAll: the documents and the jobs.
Refreshing ==
  LET s == CHOOSE s \in Slot : TRUE  t == CHOOSE t \in Slot \ {s} : TRUE IN
    [r \in Slot |-> CASE r = s -> NewRequest("docs", None)
                      [] r = t -> NewRequest("jobs", None)
                      [] OTHER -> None]

\* The refresh button.
Refresh ==
  /\ tab # "closed"
  /\ FreeSlots = Slot
  /\ flight' = Refreshing
  /\ UNCHANGED <<selection, reader, list, hubVars>>

Capture ==
  /\ tab # "closed"
  /\ PageJobs < MaxPageJobs
  /\ ~UnderWay("create") /\ ~UnderWay("ai")
  /\ Send("create", None)
  /\ UNCHANGED <<selection, reader, list, hubVars>>

RunAi ==
  /\ tab = "library" /\ docId # None
  /\ PageJobs < MaxPageJobs
  /\ ~UnderWay("create") /\ ~UnderWay("ai")
  /\ Send("ai", docId)
  /\ UNCHANGED <<selection, reader, list, hubVars>>

\* Mutant: the timer looks after the library only.
PolledInLibrary == IF tab = "library" /\ docId # None THEN "results" ELSE "none"

\* What the timer asks for every 3.5 seconds.
PolledOp ==
  CASE tab = "activity" -> "jobs"
    [] tab = "library" /\ docId # None -> "results"
    [] OTHER -> "none"

Interval ==
  /\ PolledOp # "none"
  /\ Send(PolledOp, IF PolledOp = "results" THEN docId ELSE None)
  /\ UNCHANGED <<selection, reader, list, hubVars>>

-------------------------------------------------------------------------------
(* Answers arrive.                                                            *)

Arrived(s, op) == ~Free(s) /\ flight[s].op = op /\ flight[s].answer # None

\* The first document is selected if none is.
DocsArrive(s) ==
  /\ Arrived(s, "docs")
  /\ docs' = flight[s].answer
  /\ IF docId # None \/ docs' = {}
       THEN Done(s) /\ UNCHANGED <<docId, reader>>
       ELSE \E d \in docs' : docId' = d /\ LoadIn(s, d)
  /\ UNCHANGED <<tab, list, hubVars>>

\* Mutant: loadDoc does not compare its number with the latest.
AnyLoad(s) == TRUE

IsLatestLoad(s) == loading = s

LoadArrives(s) ==
  /\ Arrived(s, "load")
  /\ IF IsLatestLoad(s)
       THEN doc' = flight[s].doc /\ results' = flight[s].answer /\ loading' = None
       ELSE UNCHANGED <<doc, results, loading>>
  /\ Done(s)
  /\ UNCHANGED <<selection, failed, list, hubVars>>

\* Whatever is shown by now.
ResultsArrive(s) ==
  /\ Arrived(s, "results")
  /\ results' = flight[s].answer
  /\ Done(s)
  /\ UNCHANGED <<selection, doc, loading, failed, list, hubVars>>

JobsArrive(s) ==
  /\ Arrived(s, "jobs")
  /\ list' = flight[s].answer
  /\ Done(s)
  /\ UNCHANGED <<selection, reader, hubVars>>

\* capture() puts the new job on top and turns to the list.
JobCreated(s) ==
  /\ Arrived(s, "create")
  /\ list' = Upsert(list, flight[s].answer.id, "queued")
  /\ tab' = "activity"
  /\ Done(s)
  /\ UNCHANGED <<docs, docId, reader, hubVars>>

AIQueued(s) ==
  /\ Arrived(s, "ai")
  /\ Done(s)
  /\ UNCHANGED <<selection, reader, list, hubVars>>

\* The Hub is down or fails, which is one to api(); only the latest load tells the
\* user.
Fails(s) ==
  /\ ~Free(s)
  /\ Fault
  /\ Done(s)
  /\ IF flight[s].op = "load" /\ IsLatestLoad(s)
       THEN failed' = TRUE /\ loading' = None
       ELSE UNCHANGED <<failed, loading>>
  /\ UNCHANGED <<selection, doc, results, list, hub>>

-------------------------------------------------------------------------------

SlotStep(s) ==
  \/ Answer(s)
  \/ DocsArrive(s) \/ LoadArrives(s) \/ ResultsArrive(s) \/ JobsArrive(s)
  \/ JobCreated(s) \/ AIQueued(s)
  \/ Fails(s)

UserStep ==
  \/ \E d \in docs : Select(d)
  \/ Capture
  \/ RunAi
  \/ \E t \in {"library", "activity"} : Turn(t)
  \/ Refresh

PageStep == UserStep \/ Interval \/ \E s \in Slot : SlotStep(s)

\* The page is opened: refreshAll; or it is not there.
PageInit(open) ==
  /\ tab = IF open THEN "library" ELSE "closed"
  /\ docs = {}
  /\ docId = None
  /\ doc = None
  /\ results = [doc |-> None, done |-> {}]
  /\ loading = None
  /\ failed = FALSE
  /\ list = NoRows
  /\ flight = IF open THEN Refreshing ELSE [s \in Slot |-> None]

-------------------------------------------------------------------------------

\* When the user stays with a document that could be loaded, the reader finally
\* shows it with its own results, all of them ("results appear by themselves",
\* App.tsx:81), although the timer applies answers for documents that were left
\* and loads of several documents overtake each other.
ReaderSettles ==
  \A d \in Library :
    <>[](tab = "library" /\ docId = d /\ ~failed) =>
      <>[](doc = d /\ results = ResultsOf(d))

\* When the user stays with the list of jobs, it finally shows the newest jobs, as
\* many as the page asks for, each as it is, although an older list may arrive after
\* a newer one and capture() puts its job on top of whatever is shown.
ListSettles == <>[](tab = "activity") => <>[](list = JobList)
================================================================================
