--------------------------- MODULE HubClientsInvariant ---------------------------
(***************************************************************************)
(* The inductive invariant of the clients that poll the Hub.  The tables of  *)
(* the Hub promise a little (HubInv), which holds whoever asks; the rest says *)
(* what every call knows of them.                                           *)
(***************************************************************************)
EXTENDS HubClients

Phase == {"queued", "active"} \cup Terminal

DocumentKind == {"answer", "article", "page", None}

Code ==
  {"none", "adapter_not_found", "plan_failed", "no_command", "runner_failed",
   "runner_timeout", "normalize_failed", "store_failed"}

JobType ==
  [url : Url, phase : Phase, doc : (Url \X DocumentKind) \cup {None},
   rev : Nat \cup {None}, code : Code]

\* Ids in the order in which the rows are made: the next one is free.
Numbered(table) ==
  /\ IsFiniteSet(DOMAIN table)
  /\ DOMAIN table = 1 .. Cardinality(DOMAIN table)

TablesInv ==
  /\ Numbered(jobs) /\ jobs \in [DOMAIN jobs -> JobType]
  /\ Numbered(aiJobs)
  /\ \A a \in DOMAIN aiJobs :
       aiJobs[a] = [doc |-> aiJobs[a].doc, rev |-> aiJobs[a].rev,
                    phase |-> aiJobs[a].phase]
  /\ revisions \in Nat
  /\ \A d \in DOMAIN documents : documents[d] \in 0 .. revisions

\* A done job names a document that is there, in a revision it has had.
DoneInv ==
  \A j \in DOMAIN jobs : jobs[j].phase = "done" =>
    /\ jobs[j].doc \in DOMAIN documents
    /\ jobs[j].rev \in 0 .. documents[jobs[j].doc]

HubInv == TablesInv /\ DoneInv /\ WebPagesAreRead

-------------------------------------------------------------------------------

\* Either there are calls and no page, or the other way round.
Calling ==
  /\ kind \in [Caller -> {"cli", "userscript"}]
  /\ asked \in [Caller -> Url]
  /\ tab = "closed"
  /\ flight = [s \in Slot |-> None]

NotCalling ==
  /\ asked = [c \in Caller |-> None]
  /\ cpc = [c \in Caller |-> "ended"]
  /\ link = [c \in Caller |-> "none"]
  /\ report = [c \in Caller |-> Unsettled]
  /\ strays = {}

CallTypes ==
  /\ cpc \in [Caller -> Posts \cup Gets \cup {"sleep", "ended"}]
  /\ link \in [Caller -> {"none", "sent", "answered"}]
  /\ again \in [Caller -> BOOLEAN]
  /\ DOMAIN reply = Caller
  /\ DOMAIN ticket = Caller
  /\ DOMAIN report = Caller
  /\ strays \subseteq Caller \X Posts \X BOOLEAN

\* The call has a job of its own.
HasTicket(c) == ticket[c] \in DOMAIN jobs /\ jobs[ticket[c]].url = asked[c]

TicketInv(c) ==
  /\ cpc[c] \in {"poll", "sleep", "doc", "ai"} => HasTicket(c)
  /\ cpc[c] \in {"doc", "ai"} => jobs[ticket[c]].phase = "done"

\* An AI job about the document of the call's job, no older than its revision.
Covers(c, a) ==
  /\ a \in DOMAIN aiJobs
  /\ aiJobs[a].doc = jobs[ticket[c]].doc
  /\ aiJobs[a].rev >= jobs[ticket[c]].rev

\* A settled job has not changed since it was read.
AnswerInv(c) ==
  link[c] = "answered" /\ reply[c].ok =>
    /\ cpc[c] = "create" =>
         reply[c].id \in DOMAIN jobs /\ jobs[reply[c].id].url = asked[c]
    /\ cpc[c] = "poll" =>
         (IsTerminal(reply[c].value) => reply[c].value = jobs[ticket[c]])
    /\ cpc[c] = "ai" => Covers(c, reply[c].id)

ReportInv(c) ==
  /\ cpc[c] \notin {"doc", "ended"} => report[c] = Unsettled
  /\ report[c].status \notin {"none", "timeout", "error"} =>
       /\ HasTicket(c)
       /\ jobs[ticket[c]].phase = report[c].status
       /\ report[c].status \in Terminal
       /\ report[c].ai # None =>
            jobs[ticket[c]].phase = "done" /\ Covers(c, report[c].ai)

\* A post left behind is one the call does not wait for.
StrayInv ==
  \A c \in Caller, b \in BOOLEAN :
    <<c, "create", b>> \in strays /\ cpc[c] = "create" => ~b /\ again[c]

CallsInv ==
  /\ CallTypes
  /\ StrayInv
  /\ \A c \in Caller : TicketInv(c) /\ AnswerInv(c) /\ ReportInv(c)

-------------------------------------------------------------------------------
(* How many jobs a call can make: every post it may still have performed counts. *)

\* The first post of c, and the second one.
MayPerform(c, b) ==
  \/ <<c, "create", b>> \in strays
  \/ cpc[c] = "create" /\ link[c] \in {"none", "sent"} /\ again[c] = b
  \/ cpc[c] = "create" /\ b /\ ~again[c] /\ kind[c] = "userscript"

JobsFor(u) == {j \in DOMAIN jobs : jobs[j].url = u}
CallsFor(u) == {c \in Caller : asked[c] = u}
Scripts(u) == {c \in Caller : asked[c] = u /\ kind[c] = "userscript"}

Pending(u, b) == {c \in Caller : asked[c] = u /\ MayPerform(c, b)}

BudgetInv ==
  \A u \in Url :
    Cardinality(JobsFor(u)) + Cardinality(Pending(u, FALSE)) + Cardinality(Pending(u, TRUE))
      <= Cardinality(CallsFor(u)) + Cardinality(Scripts(u))

IInv ==
  /\ HubInv
  /\ \/ Calling /\ CallsInv /\ BudgetInv
     \/ NotCalling
================================================================================
