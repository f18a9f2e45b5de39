------------------------------ MODULE CaptureClient ------------------------------
(***************************************************************************)
(* Clients that have a URL captured and wait for the result: the command     *)
(* line (cmd/capture/main.go) and capturePage of the userscript's Hub client *)
(* (packages/hub-client/src/index.ts).                                       *)
(*                                                                         *)
(* Both post a job and poll it until it is settled, until a request fails,   *)
(* or until their own deadline.  The command line gives up at the first      *)
(* failed request.  The userscript sends a request once more when the        *)
(* connection breaks, and a GET also when the answer is an error; a request   *)
(* it gave up, or the command line did, may still be served.                 *)
(***************************************************************************)
EXTENDS HubApi

CONSTANT Caller

ASSUME CaptureClientAssumption == IsFiniteSet(Caller)

VARIABLES
  kind,         \* the program: cli or userscript
  asked,        \* the URL of the call
  cpc,          \* where the call is
  link,         \* its request: none, sent, answered
  again,        \* the request is sent for the second time
  reply,        \* its answer
  ticket,       \* the id of the job
  overdue,      \* the deadline of waitJob is over
  report,       \* what the call returned
  strays        \* posts nobody waits for any more

call == <<kind, asked>>
request == <<cpc, link, again, reply>>
outcome == <<ticket, overdue, report>>
clientVars == <<call, request, outcome, strays>>

\* The requests of a call, by the place it waits in.
Posts == {"create", "ai"}
Gets == {"poll", "doc"}

Unsettled == [status |-> "none", ai |-> None]

-------------------------------------------------------------------------------
(* A request.                                                                 *)

Ask(c) ==
  /\ cpc[c] \in Posts \cup Gets
  /\ link[c] = "none"
  /\ link' = [link EXCEPT ![c] = "sent"]
  /\ UNCHANGED <<call, cpc, again, reply, outcome, strays, hubVars>>

\* What the Hub does with a post.
Perform(c, post) ==
  IF post = "create" THEN CreateJob(asked[c]) ELSE QueueAI(jobs[ticket[c]].doc)

AnswerTo(c) ==
  CASE cpc[c] = "create" -> CreateAnswer
    [] cpc[c] = "poll" -> JobRow(ticket[c])
    [] cpc[c] = "doc" -> Document(jobs[ticket[c]].doc)
    [] cpc[c] = "ai" -> QueueAnswer(jobs[ticket[c]].doc)

Answered(c, answer) ==
  /\ hub = "up"
  /\ link[c] = "sent"
  /\ link' = [link EXCEPT ![c] = "answered"]
  /\ reply' = [reply EXCEPT ![c] = answer]
  /\ UNCHANGED <<call, cpc, again, outcome, strays>>

Serve(c) ==
  /\ Answered(c, AnswerTo(c))
  /\ IF cpc[c] \in Posts THEN Perform(c, cpc[c]) ELSE UNCHANGED tables
  /\ UNCHANGED <<hub, bounds>>

ServeFault(c) ==
  /\ Answered(c, Error)
  /\ Fault
  /\ UNCHANGED hub

\* The call goes on.
Continue(c, pc) ==
  /\ cpc' = [cpc EXCEPT ![c] = pc]
  /\ link' = [link EXCEPT ![c] = "none"]
  /\ again' = [again EXCEPT ![c] = FALSE]
  /\ reply' = [reply EXCEPT ![c] = None]

Report(c, status, ai) ==
  report' = [report EXCEPT ![c] = [status |-> status, ai |-> ai]]

Return(c, status, ai) == Continue(c, "ended") /\ Report(c, status, ai)

\* Mutant: every failure is tried again.
ResendsAlways(c) == kind[c] = "userscript"

Resends(c) == kind[c] = "userscript" /\ ~again[c]

Resend(c) ==
  /\ Resends(c)
  /\ again' = [again EXCEPT ![c] = TRUE]
  /\ link' = [link EXCEPT ![c] = "none"]
  /\ reply' = [reply EXCEPT ![c] = None]
  /\ UNCHANGED <<cpc, outcome>>

\* The request ends with an error; the document is only shown if it comes.
GiveUp(c) ==
  /\ IF cpc[c] = "doc" THEN Continue(c, "ended") /\ UNCHANGED report
                       ELSE Return(c, "error", None)
  /\ UNCHANGED <<ticket, overdue>>

\* The connection breaks: the Hub is down, the network fails, or the 180 seconds
\* of the command line's HTTP client are over.  A post may be on its way.
Break(c) ==
  /\ link[c] # "none"
  /\ \/ hub = "down" /\ UNCHANGED <<tables, bounds>>
     \/ hub = "up" /\ Fault
  /\ \/ Resend(c)
     \/ ~Resends(c) /\ GiveUp(c)
     \/ link[c] = "answered" /\ GiveUp(c)    \* within the body of the answer
  /\ \/ UNCHANGED strays
     \/ /\ link[c] = "sent" /\ cpc[c] \in Posts /\ hub = "up"
        /\ strays' = strays \cup {<<c, cpc[c], again[c]>>}
  /\ UNCHANGED <<call, hub>>

StrayArrives(s) ==
  /\ strays' = strays \ {s}
  /\ \/ hub = "up" /\ Perform(s[1], s[2])
     \/ UNCHANGED tables
  /\ UNCHANGED <<call, request, outcome, hub, bounds>>

-------------------------------------------------------------------------------
(* What the call does with an answer.                                         *)

Receives(c, pc) == link[c] = "answered" /\ cpc[c] = pc

\* A GET is sent again, anything else fails.
Refused(c) ==
  /\ link[c] = "answered"
  /\ ~reply[c].ok
  /\ IF cpc[c] \in Gets /\ Resends(c) THEN Resend(c) ELSE GiveUp(c)
  /\ UNCHANGED <<call, strays, hubVars>>

Created(c) ==
  /\ Receives(c, "create")
  /\ reply[c].ok
  /\ ticket' = [ticket EXCEPT ![c] = reply[c].id]
  /\ Continue(c, "poll")
  /\ UNCHANGED <<call, overdue, report, strays, hubVars>>

\* Mutant: a job that has left the queue counts as settled.
LeftQueue(row) == row.phase # "queued"

\* IsTerminal, isTerminalJobStatus.
IsTerminal(row) == row.phase \in Terminal

\* Mutant: the deadline is not looked at.
NeverLate(c) == FALSE

TooLate(c) == overdue[c]

\* A settled job.  The command line prints the document of a done one; the
\* userscript may queue AI work for it (the setting autoAi).
Settled(c) ==
  LET row == reply[c].value IN
    IF kind[c] = "cli"
      THEN /\ Report(c, row.phase, None)
           /\ Continue(c, IF row.phase = "done" THEN "doc" ELSE "ended")
      ELSE \/ Return(c, row.phase, None)
           \/ row.phase = "done" /\ Continue(c, "ai") /\ UNCHANGED report

Polled(c) ==
  /\ Receives(c, "poll")
  /\ reply[c].ok
  /\ IF IsTerminal(reply[c].value) THEN Settled(c)
     ELSE IF TooLate(c) THEN Return(c, "timeout", None)
     ELSE Continue(c, "sleep") /\ UNCHANGED report
  /\ UNCHANGED <<call, ticket, overdue, strays, hubVars>>

WakesUp(c) ==
  /\ cpc[c] = "sleep"
  /\ Continue(c, "poll")
  /\ UNCHANGED <<call, outcome, strays, hubVars>>

DocumentShown(c) ==
  /\ Receives(c, "doc")
  /\ reply[c].ok
  /\ Continue(c, "ended")
  /\ UNCHANGED <<call, outcome, strays, hubVars>>

Queued(c) ==
  /\ Receives(c, "ai")
  /\ reply[c].ok
  /\ Return(c, "done", reply[c].id)
  /\ UNCHANGED <<call, ticket, overdue, strays, hubVars>>

DeadlinePasses(c) ==
  /\ cpc[c] \in {"poll", "sleep"}
  /\ ~overdue[c]
  /\ overdue' = [overdue EXCEPT ![c] = TRUE]
  /\ UNCHANGED <<call, request, ticket, report, strays, hubVars>>

-------------------------------------------------------------------------------

CallStep(c) ==
  \/ Ask(c) \/ Serve(c)
  \/ Refused(c) \/ Created(c) \/ Polled(c) \/ WakesUp(c) \/ DocumentShown(c) \/ Queued(c)
  \/ hub = "down" /\ Break(c)

ClientStep ==
  \/ \E c \in Caller :
       CallStep(c) \/ ServeFault(c) \/ DeadlinePasses(c) \/ (hub = "up" /\ Break(c))
  \/ \E s \in strays : StrayArrives(s)

\* Every caller asks for one URL, or there is no call.
ClientInit(calling) ==
  /\ IF calling
       THEN /\ kind \in [Caller -> {"cli", "userscript"}]
            /\ asked \in [Caller -> Url]
            /\ cpc = [c \in Caller |-> "create"]
       ELSE /\ kind = [c \in Caller |-> None]
            /\ asked = [c \in Caller |-> None]
            /\ cpc = [c \in Caller |-> "ended"]
  /\ link = [c \in Caller |-> "none"]
  /\ again = [c \in Caller |-> FALSE]
  /\ reply = [c \in Caller |-> None]
  /\ ticket = [c \in Caller |-> None]
  /\ overdue = [c \in Caller |-> FALSE]
  /\ report = [c \in Caller |-> Unsettled]
  /\ strays = {}

-------------------------------------------------------------------------------

\* What a call reports is so and stays so, whatever was sent twice, answered late
\* or captured meanwhile: the job is its own and settled that way, and the AI job
\* is about the document of that job, in the revision of the job or one stored
\* later (waitJob of cmd/capture/main.go:164, capturePage).
ReportsAreTrue ==
  \A c \in Caller : report[c].status \notin {"none", "timeout", "error"} =>
    LET row == jobs[ticket[c]]  ai == report[c].ai IN
      /\ row.url = asked[c]
      /\ row.phase = report[c].status
      /\ row.phase \in Terminal
      /\ ai # None => /\ aiJobs[ai].doc = row.doc
                      /\ aiJobs[ai].rev >= row.rev

\* A call makes one job; the resend of the userscript may make one more, which
\* nobody will ever ask for (POST /jobs has no deduplication).
JobsPerCall ==
  \A u \in {asked[c] : c \in Caller} :
    Cardinality({j \in DOMAIN jobs : jobs[j].url = u}) <=
      Cardinality({c \in Caller : asked[c] = u})
        + Cardinality({c \in Caller : asked[c] = u /\ kind[c] = "userscript"})

\* Every call returns, also when the Hub goes down or never settles the job: the
\* deadline ends the polling, and no request waits for ever.
EveryCallReturns == \A c \in Caller : cpc[c] = "create" ~> cpc[c] = "ended"
================================================================================
