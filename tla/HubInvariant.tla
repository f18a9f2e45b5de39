------------------------------ MODULE HubInvariant ------------------------------
(***************************************************************************)
(* The inductive invariant of the HTTP handlers on their packet store and   *)
(* ledger of AI jobs: what a handler has in hand was a row of documents, in  *)
(* the order in which rows were written, whoever else captures meanwhile.    *)
(***************************************************************************)
EXTENDS Hub

Request ==
  [id : Nat, from : Client, via : {"fetch", "privileged"}, doc : Doc, hash : Hash,
   auto : BOOLEAN]

JobRow == [work : Work, phase : {"waiting", "running", "done", "failed"},
           answer : Nat \cup {None}]

Types ==
  /\ waiting \in [Client -> Request \cup {None}]
  /\ network \subseteq Request
  /\ requests \in Nat
  /\ configured \in BOOLEAN
  /\ hpc \in [Handler -> {"free", "save", "enqueue", "find", "reply"}]
  /\ DOMAIN serves = Handler
  /\ answer \in [Handler -> [rev : Nat \cup {None}, job : Nat \cup {None}]]
  /\ bound \in [Handler -> Nat \cup {None}]
  /\ enqueueMu \in Handler \cup {None}
  /\ IsFiniteSet(DOMAIN jobs)
  /\ DOMAIN jobs \subseteq JobId
  /\ jobs \in [DOMAIN jobs -> JobRow]
  /\ written \in Seq([doc : Doc, hash : Hash, rev : Nat])
  /\ replies \subseteq [id : Nat, doc : Doc, hash : Hash, auto : BOOLEAN,
                        rev : Nat, job : Nat \cup {None}]

\* The handler serves a capture, and may still answer it with a revision.
Captures(h) == hpc[h] = "save" \/ answer[h].rev # None

HandlerInv(h) ==
  /\ spc[h] # "idle" <=> hpc[h] = "save"
  /\ hpc[h] \in {"free", "save"} => answer[h] = NoAnswer
  /\ hpc[h] = "save" => packet[h].doc = serves[h].doc /\ packet[h].hash = serves[h].hash
  /\ Captures(h) => serves[h] \in Request
  /\ hpc[h] # "free" => serves[h].doc \in Doc
  /\ hpc[h] = "find" => bound[h] # None
  /\ hpc[h] # "reply" => answer[h].job = None
  /\ answer[h].job # None => answer[h].job \in DOMAIN jobs

HandlersInv == \A h \in Handler : HandlerInv(h)

\* The lock of Enqueue is held between its two calls of the store, and there only.
EnqueueLockInv == \A h \in Handler : enqueueMu = h <=> hpc[h] = "find"

-------------------------------------------------------------------------------
(* Requests.                                                                  *)

\* Every request for a capture, wherever it is, and every answer to one.
Asked ==
  network \cup replies
    \cup {waiting[c] : c \in {b \in Client : waiting[b] # None}}
    \cup {serves[h] : h \in {g \in Handler : Captures(g)}}

\* A request and its second copy ask for the same capture.
NamesInv ==
  \A x, y \in Asked :
    /\ x.id < requests
    /\ x.id = y.id => x.doc = y.doc /\ x.hash = y.hash

-------------------------------------------------------------------------------
(* The order of revisions.                                                    *)

\* A revision with this content has been the latest one.
Recorded(d, h, r) ==
  \E i \in DOMAIN written : written[i] = [doc |-> d, hash |-> h, rev |-> r]

\* Revision b was the latest one when r was, or later.
Since(d, r, b) == \E i \in Positions(d, r), k \in Positions(d, b) : i <= k

\* The row of a document is the last one that was written.
LatestInv ==
  /\ \A i \in DOMAIN written : written[i].doc \in DOMAIN documents
  /\ \A d \in DOMAIN documents :
       \E i \in DOMAIN written :
         /\ written[i] = [doc |-> d, hash |-> documents[d].hash, rev |-> documents[d].rev]
         /\ \A k \in DOMAIN written : written[k].doc = d => k <= i

\* Every revision that ever was the latest one is still in a complete file.
KeptInv ==
  \A i \in DOMAIN written : Packets!Holds(written[i].rev, written[i].doc, written[i].hash)

\* The same content is written again only after other content of the document.
AlternatesInv ==
  \A i, k \in DOMAIN written :
    /\ i # k
    /\ written[i].doc = written[k].doc
    /\ written[i].hash = written[k].hash
    => \E m \in DOMAIN written :
         written[m].doc = written[i].doc /\ written[m].hash # written[i].hash

\* What a handler knows of the revision it answers with, and of the job.
AnswerOf(h) ==
  /\ spc[h] = "returned" /\ result[h].ok =>
       Recorded(serves[h].doc, serves[h].hash, result[h].rev)
  /\ answer[h].rev # None =>
       /\ Recorded(serves[h].doc, serves[h].hash, answer[h].rev)
       /\ hpc[h] = "find" => Since(serves[h].doc, answer[h].rev, bound[h])
       /\ answer[h].job # None =>
            /\ jobs[answer[h].job].work[1] = serves[h].doc
            /\ Since(serves[h].doc, answer[h].rev, jobs[answer[h].job].work[2])
       /\ hpc[h] = "reply" /\ serves[h].auto /\ configured /\ crashes = 0 /\ faults = 0
            => answer[h].job # None

AnswerInv == \A h \in Handler : AnswerOf(h)

RepliesInv ==
  \A r \in replies :
    /\ Recorded(r.doc, r.hash, r.rev)
    /\ r.job # None => r.job \in DOMAIN jobs

HubInv ==
  /\ Types
  /\ HandlersInv
  /\ EnqueueLockInv
  /\ NamesInv
  /\ LatestInv
  /\ KeptInv
  /\ AlternatesInv
  /\ AnswerInv
  /\ RepliesInv
  /\ JobCoversReceipt
=================================================================================
