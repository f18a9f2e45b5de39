---------------------------- MODULE HubClientsProof ----------------------------
(***************************************************************************)
(* The proofs about the clients that poll: the invariant of                 *)
(* HubClientsInvariant is inductive.  First what the tables of the Hub        *)
(* promise whoever asks, then what a call makes of it.                       *)
(***************************************************************************)
EXTENDS HubClientsInvariant, FiniteSetTheorems, TLAPS

-------------------------------------------------------------------------------
(* The adapters.                                                              *)

\* A page of Zhihu goes to the Zhihu adapter, another page to the catch-all.
LEMMA WebIsPicked ==
  ASSUME NEW u \in Web
  PROVE  Pick(u) = IF u \in Zhihu THEN "zhihu" ELSE "web"
<1>1. /\ DOMAIN Registry = 1 .. 3
      /\ Registry[1] = "zhihu" /\ Registry[2] = "web" /\ Registry[3] = "fake"
  BY DEF Registry
<1>2. /\ Takes["zhihu"] = Zhihu /\ Takes["web"] = Web
      /\ Takes["fake"] = {"fixture", "demo"}
  BY DEF Takes
<1>3. 2 \in Able(u) /\ Able(u) \subseteq 1 .. 3
  BY <1>1, <1>2 DEF Able
<1>4. 1 \in Able(u) <=> u \in Zhihu
  BY <1>1, <1>2 DEF Able
<1>5. ASSUME NEW least \in Able(u), \A i \in Able(u) : least <= i
      PROVE  Min(Able(u)) = least
  <2>1. \A m \in Able(u) : (\A i \in Able(u) : m <= i) => m = least
    BY <1>3, <1>5
  <2> QED  BY <1>5, <2>1 DEF Min
<1>6. CASE u \in Zhihu
  <2>1. Min(Able(u)) = 1
    BY <1>3, <1>4, <1>5, <1>6
  <2> QED  BY <1>1, <1>3, <1>6, <2>1 DEF Pick
<1>7. CASE u \notin Zhihu
  <2>1. \A i \in Able(u) : 2 <= i
    BY <1>3, <1>4, <1>7
  <2>2. Min(Able(u)) = 2
    BY <1>3, <1>5, <2>1
  <2> QED  BY <1>1, <1>3, <1>7, <2>2 DEF Pick
<1> QED  BY <1>6, <1>7

\* Why the capture of a web page fails.
LEMMA WebFailures ==
  ASSUME NEW u \in Web, NEW run, NEW code \in ErrorsOf(u, run) \ {"ok"}
  PROVE  (code = "plan_failed" /\ u \in Zhihu) \/ code \in LateCodes
<1>1. Pick(u) # None /\ Pick(u) # "fake"
  BY WebIsPicked, AdaptersAssumption
<1>2. Kind(u) = None => u \in Zhihu
  BY WebIsPicked, AdaptersAssumption DEF Kind
<1>3. HasCommand(u)
  BY <1>1 DEF HasCommand
<1>4. CASE Kind(u) = None
  BY <1>1, <1>2, <1>4 DEF ErrorsOf
<1>5. CASE Kind(u) # None
  BY <1>1, <1>3, <1>5 DEF ErrorsOf, LateCodes
<1> QED  BY <1>4, <1>5

LEMMA ErrorIsCode ==
  ASSUME NEW u, NEW run, NEW code \in ErrorsOf(u, run) \ {"ok"}
  PROVE  code \in Code
  BY DEF ErrorsOf, Code

LEMMA KindIsKind ==
  ASSUME NEW u
  PROVE  Kind(u) \in DocumentKind
  BY DEF Kind, DocumentKind

LEMMA DocumentIsTyped ==
  ASSUME NEW u \in Url, NEW out
  PROVE  DocumentOf(u, out) \in Url \X DocumentKind
  BY KindIsKind DEF DocumentOf, Url, Web, Zhihu

-------------------------------------------------------------------------------
(* The tables.                                                                *)

\* The number of the next row is free, and the rows stay numbered.
LEMMA NextNumber ==
  ASSUME NEW table, Numbered(table), NEW row
  PROVE  /\ NewId(table) \in Nat
         /\ NewId(table) \notin DOMAIN table
         /\ Numbered(Upsert(table, NewId(table), row))
<1>1. IsFiniteSet(DOMAIN table) /\ DOMAIN table = 1 .. Cardinality(DOMAIN table)
  BY DEF Numbered
<1>2. Cardinality(DOMAIN table) \in Nat
  BY <1>1, FS_CardinalityType
<1>3. NewId(table) \in Nat /\ NewId(table) \notin DOMAIN table
  BY <1>1, <1>2 DEF NewId
<1>4. DOMAIN Upsert(table, NewId(table), row) = DOMAIN table \cup {NewId(table)}
  BY DEF Upsert
<1>5. /\ IsFiniteSet(DOMAIN table \cup {NewId(table)})
      /\ Cardinality(DOMAIN table \cup {NewId(table)}) = Cardinality(DOMAIN table) + 1
  BY <1>1, <1>3, FS_AddElement
<1>6. DOMAIN table \cup {NewId(table)} = 1 .. Cardinality(DOMAIN table) + 1
  BY <1>1, <1>2 DEF NewId
<1> QED  BY <1>3, <1>4, <1>5, <1>6 DEF Numbered

\* What no step takes back: a job keeps its URL, and everything once it is settled;
\* an AI job keeps its document and revision.
Grows ==
  /\ \A j \in DOMAIN jobs :
       /\ j \in DOMAIN jobs'
       /\ jobs'[j].url = jobs[j].url
       /\ jobs[j].phase \in Terminal => jobs'[j] = jobs[j]
  /\ \A a \in DOMAIN aiJobs :
       /\ a \in DOMAIN aiJobs'
       /\ aiJobs'[a].doc = aiJobs[a].doc
       /\ aiJobs'[a].rev = aiJobs[a].rev

\* The step makes a job for u, or none.
Makes(u) == CreateJob(u)
MakesNone == DOMAIN jobs' = DOMAIN jobs

LEMMA UntouchedGrows ==
  ASSUME HubInv, UNCHANGED tables
  PROVE  HubInv' /\ Grows /\ MakesNone
<1>1. jobs' = jobs /\ aiJobs' = aiJobs /\ documents' = documents /\ revisions' = revisions
  BY DEF tables
<1>2. Grows /\ MakesNone
  BY <1>1 DEF Grows, MakesNone
<1> QED  BY <1>1, <1>2 DEF HubInv, TablesInv, DoneInv, WebPagesAreRead, Numbered

LEMMA CreateGrows ==
  ASSUME HubInv, NEW u \in Url, CreateJob(u)
  PROVE  /\ HubInv' /\ Grows
         /\ DOMAIN jobs' = DOMAIN jobs \cup {NewId(jobs)}
         /\ NewId(jobs) \notin DOMAIN jobs
         /\ jobs'[NewId(jobs)].url = u
<1> DEFINE id == NewId(jobs)
           row == [url |-> u, phase |-> "queued", doc |-> None, rev |-> None,
                   code |-> "none"]
<1>1. /\ jobs' = Upsert(jobs, id, row)
      /\ UNCHANGED <<documents, revisions, aiJobs>>
  BY DEF CreateJob
<1>2. id \notin DOMAIN jobs /\ Numbered(jobs')
  BY <1>1, NextNumber DEF HubInv, TablesInv
<1>3. row \in JobType
  BY DEF JobType, Phase, Code
<1> HIDE DEF id, row
<1>4. /\ DOMAIN jobs' = DOMAIN jobs \cup {id}
      /\ jobs'[id] = row
      /\ \A j \in DOMAIN jobs : jobs'[j] = jobs[j]
  BY <1>1, <1>2 DEF Upsert
<1>5. row.url = u /\ row.phase = "queued"
  BY DEF row
<1>6. jobs' \in [DOMAIN jobs' -> JobType]
  <2>1. \A j \in DOMAIN jobs' : jobs'[j] \in JobType
    BY <1>3, <1>4 DEF HubInv, TablesInv
  <2> QED  BY <1>1, <2>1 DEF Upsert
<1>7. TablesInv'
  BY <1>1, <1>2, <1>6 DEF HubInv, TablesInv, Numbered
<1>8. DoneInv'
  BY <1>1, <1>4, <1>5 DEF HubInv, DoneInv
<1>9. WebPagesAreRead'
  BY <1>4, <1>5 DEF HubInv, WebPagesAreRead
<1>10. Grows
  BY <1>1, <1>4 DEF Grows
<1> QED  BY <1>2, <1>4, <1>5, <1>7, <1>8, <1>9, <1>10 DEF HubInv, id

LEMMA QueueGrows ==
  ASSUME HubInv, NEW d, QueueAI(d)
  PROVE  HubInv' /\ Grows /\ MakesNone
<1> DEFINE id == NewId(aiJobs)
           row == [doc |-> d, rev |-> documents[d], phase |-> "queued"]
<1>1. UNCHANGED <<jobs, documents, revisions>>
  BY DEF QueueAI
<1>2. CASE LiveAI(d) # {}
  <2>1. UNCHANGED tables
    BY <1>1, <1>2 DEF QueueAI, tables
  <2> QED  BY <2>1, UntouchedGrows
<1>3. CASE LiveAI(d) = {}
  <2>1. aiJobs' = Upsert(aiJobs, id, row)
    BY <1>3 DEF QueueAI
  <2>2. id \notin DOMAIN aiJobs /\ Numbered(aiJobs')
    BY <2>1, NextNumber DEF HubInv, TablesInv
  <2>3. row = [doc |-> row.doc, rev |-> row.rev, phase |-> row.phase]
    OBVIOUS
  <2> HIDE DEF id, row
  <2>4. /\ DOMAIN aiJobs' = DOMAIN aiJobs \cup {id}
        /\ aiJobs'[id] = row
        /\ \A a \in DOMAIN aiJobs : aiJobs'[a] = aiJobs[a]
    BY <2>1, <2>2 DEF Upsert
  <2>5. \A a \in DOMAIN aiJobs' :
          aiJobs'[a] = [doc |-> aiJobs'[a].doc, rev |-> aiJobs'[a].rev,
                        phase |-> aiJobs'[a].phase]
    <3> TAKE a \in DOMAIN aiJobs'
    <3>1. CASE a = id
      BY <2>3, <2>4, <3>1
    <3>2. CASE a \in DOMAIN aiJobs
      <4>1. aiJobs[a] = [doc |-> aiJobs[a].doc, rev |-> aiJobs[a].rev,
                         phase |-> aiJobs[a].phase]
        BY <3>2 DEF HubInv, TablesInv
      <4> QED  BY <2>4, <3>2, <4>1
    <3> QED  BY <2>4, <3>1, <3>2
  <2>6. TablesInv'
    BY <1>1, <2>2, <2>5 DEF HubInv, TablesInv, Numbered
  <2>7. DoneInv' /\ WebPagesAreRead'
    BY <1>1 DEF HubInv, DoneInv, WebPagesAreRead
  <2>8. Grows /\ MakesNone
    BY <1>1, <2>4 DEF Grows, MakesNone
  <2> QED  BY <2>6, <2>7, <2>8 DEF HubInv
<1> QED  BY <1>2, <1>3

-------------------------------------------------------------------------------
(* The Hub's own steps.                                                       *)

\* One row of jobs changes, and it was not settled; documents only gain revisions.
LEMMA JobChangeGrows ==
  ASSUME HubInv, NEW j \in DOMAIN jobs, NEW row \in JobType,
         jobs' = [jobs EXCEPT ![j] = row],
         jobs[j].phase \notin Terminal, row.url = jobs[j].url,
         row.phase = "done" => /\ row.doc \in DOMAIN documents'
                               /\ row.rev \in 0 .. documents'[row.doc],
         row.phase = "failed" /\ row.url \in Web =>
           (row.code = "plan_failed" /\ row.url \in Zhihu) \/ row.code \in LateCodes,
         aiJobs' = aiJobs,
         revisions' \in Nat,
         \A d \in DOMAIN documents' : documents'[d] \in 0 .. revisions',
         \A d \in DOMAIN documents :
           d \in DOMAIN documents' /\ documents[d] <= documents'[d]
  PROVE  HubInv' /\ Grows /\ MakesNone
<1>1. jobs \in [DOMAIN jobs -> JobType]
  BY DEF HubInv, TablesInv
<1>2. /\ DOMAIN jobs' = DOMAIN jobs
      /\ jobs'[j] = row
      /\ \A k \in DOMAIN jobs : k # j => jobs'[k] = jobs[k]
      /\ jobs' \in [DOMAIN jobs' -> JobType]
  BY <1>1
<1>3. TablesInv'
  BY <1>2 DEF HubInv, TablesInv, Numbered
<1>4. DoneInv'
  <2> SUFFICES ASSUME NEW k \in DOMAIN jobs, jobs'[k].phase = "done"
               PROVE  /\ jobs'[k].doc \in DOMAIN documents'
                      /\ jobs'[k].rev \in 0 .. documents'[jobs'[k].doc]
    BY <1>2 DEF DoneInv
  <2>1. CASE k = j
    BY <1>2, <2>1
  <2>2. CASE k # j
    <3> DEFINE d == jobs[k].doc
    <3>1. jobs'[k] = jobs[k]
      BY <1>2, <2>2
    <3>2. d \in DOMAIN documents /\ jobs[k].rev \in 0 .. documents[d]
      BY <3>1 DEF HubInv, DoneInv
    <3>3. documents[d] \in Nat /\ documents'[d] \in Nat /\ documents[d] <= documents'[d]
      BY <3>2 DEF HubInv, TablesInv
    <3> QED  BY <3>1, <3>2, <3>3
  <2> QED  BY <2>1, <2>2
<1>5. WebPagesAreRead'
  <2> SUFFICES ASSUME NEW k \in DOMAIN jobs, jobs'[k].url \in Web,
                      jobs'[k].phase = "failed"
               PROVE  \/ jobs'[k].code = "plan_failed" /\ jobs'[k].url \in Zhihu
                      \/ jobs'[k].code \in LateCodes
    BY <1>2 DEF WebPagesAreRead
  <2>1. CASE k = j
    BY <1>2, <2>1
  <2>2. CASE k # j
    BY <1>2, <2>2 DEF HubInv, WebPagesAreRead
  <2> QED  BY <2>1, <2>2
<1>6. Grows /\ MakesNone
  BY <1>2 DEF Grows, MakesNone
<1> QED  BY <1>3, <1>4, <1>5, <1>6 DEF HubInv

LEMMA StartGrows ==
  ASSUME HubInv, NEW j \in DOMAIN jobs, JobStarts(j)
  PROVE  HubInv' /\ Grows /\ MakesNone
<1> DEFINE row == [jobs[j] EXCEPT !.phase = "active"]
<1>1. jobs[j] \in JobType
  BY DEF HubInv, TablesInv
<1>2. row \in JobType /\ row.url = jobs[j].url /\ row.phase = "active"
  BY <1>1 DEF JobType, Phase
<1>3. jobs' = [jobs EXCEPT ![j] = row]
  BY DEF JobStarts
<1>4. /\ jobs[j].phase = "queued"
      /\ UNCHANGED <<documents, revisions, aiJobs>>
  BY DEF JobStarts
<1>5. /\ revisions' \in Nat
      /\ \A d \in DOMAIN documents' : documents'[d] \in 0 .. revisions'
      /\ \A d \in DOMAIN documents :
           d \in DOMAIN documents' /\ documents[d] <= documents'[d]
  BY <1>4 DEF HubInv, TablesInv
<1> HIDE DEF row
<1>6. jobs[j].phase \notin Terminal /\ row.phase # "done" /\ row.phase # "failed"
  BY <1>2, <1>4 DEF Terminal
<1> QED  BY <1>2, <1>3, <1>4, <1>5, <1>6, JobChangeGrows

LEMMA FailGrows ==
  ASSUME HubInv, NEW j \in DOMAIN jobs, NEW run \in ToolRun, JobFails(j, run)
  PROVE  HubInv' /\ Grows /\ MakesNone
<1>1. jobs[j] \in JobType
  BY DEF HubInv, TablesInv
<1>2. /\ jobs[j].phase = "active"
      /\ UNCHANGED <<documents, revisions, aiJobs>>
  BY DEF JobFails
<1> PICK error \in ErrorsOf(jobs[j].url, run) \ {"ok"} :
      jobs' = [jobs EXCEPT ![j].phase = "failed", ![j].code = error]
  BY DEF JobFails
<1> DEFINE row == [jobs[j] EXCEPT !.phase = "failed", !.code = error]
<1>3. jobs' = [jobs EXCEPT ![j] = row]
  OBVIOUS
<1>4. error \in Code
  BY ErrorIsCode
<1>5. jobs[j].url \in Web =>
        (error = "plan_failed" /\ jobs[j].url \in Zhihu) \/ error \in LateCodes
  BY WebFailures
<1>6. /\ row \in JobType /\ row.url = jobs[j].url
      /\ row.phase = "failed" /\ row.code = error
  BY <1>1, <1>4 DEF JobType, Phase, Terminal
<1>7. /\ revisions' \in Nat
      /\ \A d \in DOMAIN documents' : documents'[d] \in 0 .. revisions'
      /\ \A d \in DOMAIN documents :
           d \in DOMAIN documents' /\ documents[d] <= documents'[d]
  BY <1>2 DEF HubInv, TablesInv
<1> HIDE DEF row
<1>8. jobs[j].phase \notin Terminal /\ row.phase # "done"
  BY <1>2, <1>6 DEF Terminal
<1> QED  BY <1>2, <1>3, <1>5, <1>6, <1>7, <1>8, JobChangeGrows

\* A document gets its next revision.
LEMMA NewRevision ==
  ASSUME HubInv, NEW d, revisions' = revisions + 1,
         documents' = Upsert(documents, d, revisions')
  PROVE  /\ revisions' \in Nat
         /\ \A e \in DOMAIN documents' : documents'[e] \in 0 .. revisions'
         /\ \A e \in DOMAIN documents :
              e \in DOMAIN documents' /\ documents[e] <= documents'[e]
         /\ d \in DOMAIN documents' /\ documents'[d] = revisions'
<1>1. /\ revisions \in Nat
      /\ \A e \in DOMAIN documents : documents[e] \in 0 .. revisions
  BY DEF HubInv, TablesInv
<1>2. /\ DOMAIN documents' = DOMAIN documents \cup {d}
      /\ \A e \in DOMAIN documents' :
           documents'[e] = IF e = d THEN revisions + 1 ELSE documents[e]
  BY DEF Upsert
<1> QED  BY <1>1, <1>2

LEMMA SuccessGrows ==
  ASSUME HubInv, NEW j \in DOMAIN jobs, NEW run \in ToolRun, JobSucceeds(j, run)
  PROVE  HubInv' /\ Grows /\ MakesNone
<1> DEFINE d == DocumentOf(jobs[j].url, run.out)
           row == [jobs[j] EXCEPT !.phase = "done", !.doc = d, !.rev = documents'[d]]
<1>1. jobs[j] \in JobType /\ jobs[j].url \in Url
  BY DEF HubInv, TablesInv, JobType
<1>2. d \in Url \X DocumentKind
  BY <1>1, DocumentIsTyped
<1>3. /\ jobs[j].phase = "active"
      /\ aiJobs' = aiJobs
      /\ \/ revisions' = revisions + 1 /\ documents' = Upsert(documents, d, revisions')
         \/ d \in DOMAIN documents /\ UNCHANGED <<revisions, documents>>
  BY DEF JobSucceeds
<1>4. jobs' = [jobs EXCEPT ![j] = row]
  BY DEF JobSucceeds
<1> HIDE DEF d
<1>5. /\ revisions' \in Nat
      /\ \A e \in DOMAIN documents' : documents'[e] \in 0 .. revisions'
      /\ \A e \in DOMAIN documents :
           e \in DOMAIN documents' /\ documents[e] <= documents'[e]
      /\ d \in DOMAIN documents'
  <2>1. CASE revisions' = revisions + 1 /\ documents' = Upsert(documents, d, revisions')
    BY <2>1, NewRevision
  <2>2. CASE d \in DOMAIN documents /\ UNCHANGED <<revisions, documents>>
    BY <2>2 DEF HubInv, TablesInv
  <2> QED  BY <1>3, <2>1, <2>2
<1>6. documents'[d] \in Nat /\ documents'[d] \in 0 .. documents'[d]
  BY <1>5
<1>7. /\ row \in JobType /\ row.url = jobs[j].url
      /\ row.phase = "done" /\ row.doc = d /\ row.rev = documents'[d]
  BY <1>1, <1>2, <1>6 DEF JobType, Phase, Terminal
<1> HIDE DEF row
<1> QED  BY <1>3, <1>4, <1>5, <1>6, <1>7, JobChangeGrows DEF Terminal

\* Somebody else captures a document: what a done job names stays there.
LEMMA DocumentGrows ==
  ASSUME HubInv, NEW d, DocumentChanges(d)
  PROVE  HubInv' /\ Grows /\ MakesNone
<1>1. /\ revisions' = revisions + 1
      /\ documents' = Upsert(documents, d, revisions')
      /\ UNCHANGED <<jobs, aiJobs>>
  BY DEF DocumentChanges
<1>2. /\ revisions' \in Nat
      /\ \A e \in DOMAIN documents' : documents'[e] \in 0 .. revisions'
      /\ \A e \in DOMAIN documents :
           e \in DOMAIN documents' /\ documents[e] <= documents'[e]
  BY <1>1, NewRevision
<1>3. TablesInv' /\ WebPagesAreRead'
  BY <1>1, <1>2 DEF HubInv, TablesInv, WebPagesAreRead, Numbered
<1>4. DoneInv'
  <2> SUFFICES ASSUME NEW j \in DOMAIN jobs, jobs[j].phase = "done"
               PROVE  /\ jobs[j].doc \in DOMAIN documents'
                      /\ jobs[j].rev \in 0 .. documents'[jobs[j].doc]
    BY <1>1 DEF DoneInv
  <2> DEFINE e == jobs[j].doc
  <2>1. e \in DOMAIN documents /\ jobs[j].rev \in 0 .. documents[e]
    BY DEF HubInv, DoneInv
  <2>2. documents[e] \in Nat /\ documents'[e] \in Nat /\ documents[e] <= documents'[e]
    BY <1>2, <2>1 DEF HubInv, TablesInv
  <2> QED  BY <1>2, <2>1, <2>2
<1>5. Grows /\ MakesNone
  BY <1>1 DEF Grows, MakesNone
<1> QED  BY <1>3, <1>4, <1>5 DEF HubInv

LEMMA SettleGrows ==
  ASSUME HubInv, NEW a \in DOMAIN aiJobs, AISettles(a)
  PROVE  HubInv' /\ Grows /\ MakesNone
<1>1. PICK phase \in Terminal : aiJobs' = [aiJobs EXCEPT ![a].phase = phase]
  BY DEF AISettles
<1>2. UNCHANGED <<jobs, documents, revisions>>
  BY DEF AISettles
<1> DEFINE row == [doc |-> aiJobs[a].doc, rev |-> aiJobs[a].rev, phase |-> phase]
<1>3. aiJobs' = [aiJobs EXCEPT ![a] = row]
  <2>1. aiJobs[a] = [doc |-> aiJobs[a].doc, rev |-> aiJobs[a].rev,
                     phase |-> aiJobs[a].phase]
    BY DEF HubInv, TablesInv
  <2>2. [aiJobs[a] EXCEPT !.phase = phase] = row
    BY <2>1
  <2> QED  BY <1>1, <2>2
<1>4. row = [doc |-> row.doc, rev |-> row.rev, phase |-> row.phase]
      /\ row.doc = aiJobs[a].doc /\ row.rev = aiJobs[a].rev
  OBVIOUS
<1> HIDE DEF row
<1>5. /\ DOMAIN aiJobs' = DOMAIN aiJobs
      /\ aiJobs'[a] = row
      /\ \A b \in DOMAIN aiJobs : b # a => aiJobs'[b] = aiJobs[b]
  BY <1>3
<1>6. \A b \in DOMAIN aiJobs' :
        aiJobs'[b] = [doc |-> aiJobs'[b].doc, rev |-> aiJobs'[b].rev,
                      phase |-> aiJobs'[b].phase]
  <2> TAKE b \in DOMAIN aiJobs'
  <2>1. CASE b = a
    BY <1>4, <1>5, <2>1
  <2>2. CASE b # a
    <3>1. aiJobs[b] = [doc |-> aiJobs[b].doc, rev |-> aiJobs[b].rev,
                       phase |-> aiJobs[b].phase]
      BY <1>5 DEF HubInv, TablesInv
    <3> QED  BY <1>5, <2>2, <3>1
  <2> QED  BY <2>1, <2>2
<1>7. TablesInv'
  BY <1>2, <1>5, <1>6 DEF HubInv, TablesInv, Numbered
<1>8. DoneInv' /\ WebPagesAreRead'
  BY <1>2 DEF HubInv, DoneInv, WebPagesAreRead
<1>9. Grows /\ MakesNone
  BY <1>2, <1>4, <1>5 DEF Grows, MakesNone
<1> QED  BY <1>7, <1>8, <1>9 DEF HubInv

\* A restart requeues what was interrupted and nothing else.
LEMMA RestartGrows ==
  ASSUME HubInv, Restart
  PROVE  HubInv' /\ Grows /\ MakesNone
<1>1. /\ jobs' = [j \in DOMAIN jobs |->
             IF jobs[j].phase = "active" THEN [jobs[j] EXCEPT !.phase = "queued"]
                                         ELSE jobs[j]]
      /\ UNCHANGED <<documents, revisions, aiJobs>>
  BY DEF Restart
<1>2. \A j \in DOMAIN jobs :
        /\ jobs'[j] \in JobType
        /\ jobs'[j].url = jobs[j].url
        /\ jobs'[j] = jobs[j] \/ (jobs[j].phase = "active" /\ jobs'[j].phase = "queued")
  <2> TAKE j \in DOMAIN jobs
  <2>1. jobs[j] \in JobType
    BY DEF HubInv, TablesInv
  <2>2. CASE jobs[j].phase = "active"
    <3>1. jobs'[j] = [jobs[j] EXCEPT !.phase = "queued"]
      BY <1>1, <2>2
    <3> QED  BY <2>1, <2>2, <3>1 DEF JobType, Phase
  <2>3. CASE jobs[j].phase # "active"
    BY <1>1, <2>1, <2>3
  <2> QED  BY <2>2, <2>3
<1>3. DOMAIN jobs' = DOMAIN jobs /\ jobs' \in [DOMAIN jobs' -> JobType]
  BY <1>1, <1>2
<1>4. TablesInv'
  BY <1>1, <1>3 DEF HubInv, TablesInv, Numbered
<1>5. DoneInv'
  BY <1>1, <1>2, <1>3 DEF HubInv, DoneInv
<1>6. WebPagesAreRead'
  BY <1>2, <1>3 DEF HubInv, WebPagesAreRead
<1>7. Grows /\ MakesNone
  BY <1>1, <1>2, <1>3 DEF Grows, MakesNone, Terminal
<1> QED  BY <1>4, <1>5, <1>6, <1>7 DEF HubInv

\* Nothing the Hub does by itself makes a job or takes back what it has told.
LEMMA HubGrows ==
  ASSUME HubInv, HubStep
  PROVE  HubInv' /\ Grows /\ MakesNone
<1>1. CASE \E j \in DOMAIN jobs : JobStarts(j)
  BY <1>1, StartGrows
<1>2. CASE \E j \in DOMAIN jobs, run \in ToolRun : JobFails(j, run) \/ JobSucceeds(j, run)
  BY <1>2, FailGrows, SuccessGrows
<1>3. CASE \E d \in {jobs[j].doc : j \in DOMAIN jobs} \ {None} : DocumentChanges(d)
  BY <1>3, DocumentGrows
<1>4. CASE \E a \in DOMAIN aiJobs : AISettles(a)
  BY <1>4, SettleGrows
<1>5. CASE Crash
  <2>1. UNCHANGED tables
    BY <1>5 DEF Crash
  <2> QED  BY <2>1, UntouchedGrows
<1>6. CASE Restart
  BY <1>6, RestartGrows
<1> QED  BY <1>1, <1>2, <1>3, <1>4, <1>5, <1>6 DEF HubStep

-------------------------------------------------------------------------------
(* The page.                                                                  *)

\* The page makes jobs for what is typed, asks for AI work, or only reads.
LEMMA PageUses ==
  ASSUME PageStep
  PROVE  (\E u \in Url : CreateJob(u)) \/ (\E d : QueueAI(d)) \/ UNCHANGED tables
<1>1. CASE UserStep
  <2>1. UNCHANGED hubVars
    BY <1>1 DEF UserStep, Select, Capture, RunAi, Turn, Refresh
  <2> QED  BY <2>1 DEF hubVars
<1>2. CASE Interval
  BY <1>2 DEF Interval, hubVars
<1>3. CASE \E s \in Slot : SlotStep(s)
  <2>1. PICK s \in Slot : SlotStep(s)
    BY <1>3
  <2>2. CASE Answer(s)
    <3>1. CASE flight[s].op = "create"
      BY <2>2, <3>1, WebLibraryAssumption DEF Answer
    <3>2. CASE flight[s].op = "ai"
      BY <2>2, <3>2 DEF Answer
    <3>3. CASE flight[s].op \notin {"create", "ai"}
      BY <2>2, <3>3 DEF Answer
    <3> QED  BY <3>1, <3>2, <3>3
  <2>3. CASE Fails(s)
    BY <2>3 DEF Fails, Fault
  <2>4. CASE \/ DocsArrive(s) \/ LoadArrives(s) \/ ResultsArrive(s)
             \/ JobsArrive(s) \/ JobCreated(s) \/ AIQueued(s)
    BY <2>4 DEF DocsArrive, LoadArrives, ResultsArrive, JobsArrive, JobCreated,
                AIQueued, hubVars
  <2> QED  BY <2>1, <2>2, <2>3, <2>4 DEF SlotStep
<1> QED  BY <1>1, <1>2, <1>3 DEF PageStep

\* While there are calls the page is closed and does nothing.
LEMMA NoPageStep ==
  ASSUME Calling
  PROVE  ~PageStep
<1>1. ~UserStep
  BY DEF Calling, UserStep, Select, Capture, RunAi, Turn, Refresh
<1>2. ~Interval
  BY DEF Calling, Interval, PolledOp
<1>3. \A s \in Slot : ~SlotStep(s)
  <2> TAKE s \in Slot
  <2>1. Free(s)
    BY DEF Calling, Free
  <2> QED  BY <2>1 DEF SlotStep, Answer, DocsArrive, LoadArrives, ResultsArrive,
              JobsArrive, JobCreated, AIQueued, Fails, Arrived
<1> QED  BY <1>1, <1>2, <1>3 DEF PageStep

\* Without calls there is nothing a call could do.
LEMMA NoClientStep ==
  ASSUME NotCalling
  PROVE  ~ClientStep
<1>1. ASSUME NEW c \in Caller
      PROVE  ~CallStep(c) /\ ~ServeFault(c) /\ ~DeadlinePasses(c) /\ ~Break(c)
  <2>1. cpc[c] = "ended" /\ link[c] = "none"
    BY DEF NotCalling
  <2> QED  BY <2>1 DEF CallStep, Ask, Serve, ServeFault, Answered, Refused, Created,
              Receives, Polled, WakesUp, DocumentShown, Queued, DeadlinePasses, Break,
              Posts, Gets
<1>2. strays = {}
  BY DEF NotCalling
<1> QED  BY <1>1, <1>2 DEF ClientStep

-------------------------------------------------------------------------------
(* What a call knows of its job.                                              *)

Knows(c) == TicketInv(c) /\ AnswerInv(c) /\ ReportInv(c)

\* The step is not one of the call d.
Rests(d) ==
  /\ cpc'[d] = cpc[d] /\ link'[d] = link[d] /\ again'[d] = again[d]
  /\ reply'[d] = reply[d] /\ ticket'[d] = ticket[d] /\ report'[d] = report[d]

LEMMA TicketStays ==
  ASSUME Grows, UNCHANGED asked, NEW d \in Caller, HasTicket(d), ticket'[d] = ticket[d]
  PROVE  /\ HasTicket(d)'
         /\ jobs[ticket[d]].phase \in Terminal => jobs'[ticket'[d]] = jobs[ticket[d]]
  BY DEF Grows, HasTicket

LEMMA CoverStays ==
  ASSUME Grows, NEW d \in Caller, NEW a, Covers(d, a),
         jobs'[ticket'[d]] = jobs[ticket[d]]
  PROVE  Covers(d, a)'
  BY DEF Grows, Covers

\* What a call has been told stays so while the tables grow.
LEMMA KnowledgeStays ==
  ASSUME Grows, UNCHANGED asked, NEW d \in Caller, Rests(d), Knows(d)
  PROVE  Knows(d)'
<1>1. TicketInv(d)'
  BY TicketStays DEF TicketInv, Rests, Knows, Terminal
<1>2. AnswerInv(d)'
  <2> SUFFICES ASSUME link[d] = "answered", reply[d].ok
               PROVE  /\ cpc[d] = "create" =>
                           /\ reply[d].id \in DOMAIN jobs'
                           /\ jobs'[reply[d].id].url = asked'[d]
                      /\ cpc[d] = "poll" =>
                           (IsTerminal(reply[d].value) =>
                              reply[d].value = jobs'[ticket'[d]])
                      /\ cpc[d] = "ai" => Covers(d, reply[d].id)'
    BY Zenon DEF AnswerInv, Rests, IsTerminal
  <2>1. AnswerInv(d) /\ TicketInv(d)
    BY DEF Knows
  <2>2. ASSUME cpc[d] = "create"
        PROVE  reply[d].id \in DOMAIN jobs' /\ jobs'[reply[d].id].url = asked'[d]
    BY <2>1, <2>2 DEF AnswerInv, Grows
  <2>3. ASSUME cpc[d] = "poll", IsTerminal(reply[d].value)
        PROVE  reply[d].value = jobs'[ticket'[d]]
    <3>1. reply[d].value = jobs[ticket[d]] /\ HasTicket(d)
      BY <2>1, <2>3 DEF AnswerInv, TicketInv
    <3>2. jobs[ticket[d]].phase \in Terminal
      BY <2>3, <3>1 DEF IsTerminal
    <3> QED  BY <3>1, <3>2, TicketStays DEF Rests
  <2>4. ASSUME cpc[d] = "ai" PROVE Covers(d, reply[d].id)'
    <3>1. Covers(d, reply[d].id) /\ HasTicket(d) /\ jobs[ticket[d]].phase = "done"
      BY <2>1, <2>4 DEF AnswerInv, TicketInv
    <3>2. jobs'[ticket'[d]] = jobs[ticket[d]]
      BY <3>1, TicketStays DEF Rests, Terminal
    <3>3. \A a : Covers(d, a) => Covers(d, a)'
      BY <3>2, CoverStays
    <3>4. reply'[d] = reply[d]
      BY DEF Rests
    <3> QED  BY <3>1, <3>3, <3>4
  <2> QED  BY <2>2, <2>3, <2>4
<1>3. ReportInv(d)'
  <2>1. ReportInv(d) /\ report'[d] = report[d] /\ cpc'[d] = cpc[d] /\ ticket'[d] = ticket[d]
    BY DEF Knows, Rests
  <2>2. CASE report[d].status \in {"none", "timeout", "error"}
    BY <2>1, <2>2 DEF ReportInv
  <2>3. CASE report[d].status \notin {"none", "timeout", "error"}
    <3>1. /\ HasTicket(d)
          /\ jobs[ticket[d]].phase = report[d].status
          /\ report[d].status \in Terminal
      BY <2>1, <2>3 DEF ReportInv
    <3>2. HasTicket(d)' /\ jobs'[ticket'[d]] = jobs[ticket[d]]
      BY <2>1, <3>1, TicketStays
    <3>3. report[d].ai # None => Covers(d, report[d].ai)'
      BY <2>1, <2>3, <3>2, CoverStays DEF ReportInv
    <3> QED  BY <2>1, <2>3, <3>1, <3>2, <3>3 DEF ReportInv
  <2> QED  BY <2>2, <2>3
<1> QED  BY <1>1, <1>2, <1>3 DEF Knows

Place == Posts \cup Gets \cup {"sleep", "ended"}

LEMMA ContinueIs ==
  ASSUME CallTypes, NEW c \in Caller, NEW pc \in Place, Continue(c, pc)
  PROVE  /\ cpc' \in [Caller -> Place]
         /\ link' \in [Caller -> {"none", "sent", "answered"}]
         /\ again' \in [Caller -> BOOLEAN]
         /\ DOMAIN reply' = Caller
         /\ cpc'[c] = pc /\ link'[c] = "none"
         /\ \A d \in Caller \ {c} :
              /\ cpc'[d] = cpc[d] /\ link'[d] = link[d]
              /\ again'[d] = again[d] /\ reply'[d] = reply[d]
  BY DEF CallTypes, Continue, Place

LEMMA ReportIs ==
  ASSUME CallTypes, NEW c \in Caller, NEW status, NEW ai, Report(c, status, ai)
  PROVE  /\ DOMAIN report' = Caller
         /\ report'[c].status = status /\ report'[c].ai = ai
         /\ \A d \in Caller \ {c} : report'[d] = report[d]
  BY DEF CallTypes, Report

LEMMA ResendIs ==
  ASSUME CallTypes, NEW c \in Caller, Resend(c)
  PROVE  /\ link' \in [Caller -> {"none", "sent", "answered"}]
         /\ again' \in [Caller -> BOOLEAN]
         /\ DOMAIN reply' = Caller
         /\ link'[c] = "none"
         /\ ~again[c] /\ again'[c]
         /\ cpc' = cpc /\ ticket' = ticket /\ report' = report
         /\ \A d \in Caller \ {c} :
              link'[d] = link[d] /\ again'[d] = again[d] /\ reply'[d] = reply[d]
<1>1. /\ link' = [link EXCEPT ![c] = "none"]
      /\ again' = [again EXCEPT ![c] = TRUE]
      /\ reply' = [reply EXCEPT ![c] = None]
      /\ UNCHANGED <<cpc, ticket, report>>
  BY DEF Resend, outcome
<1>2. ~again[c]
  BY DEF Resend, Resends
<1> QED  BY <1>1, <1>2 DEF CallTypes

\* Nothing but the call c takes a step, and the tables grow.
CallMoves(c) ==
  /\ Grows
  /\ UNCHANGED call
  /\ \A d \in Caller \ {c} : Rests(d)

LEMMA OthersKnow ==
  ASSUME CallsInv, NEW c \in Caller, CallMoves(c), CallTypes', StrayInv', Knows(c)'
  PROVE  CallsInv'
<1>1. \A d \in Caller \ {c} : Knows(d)'
  BY KnowledgeStays DEF CallsInv, Knows, CallMoves, call
<1> QED  BY <1>1 DEF CallsInv, Knows

\* A post of c may be left behind, and no other one.
LeavesPost(c) == strays' \subseteq strays \cup {<<c, op, again[c]>> : op \in Posts}

LEMMA LeftIs ==
  ASSUME CallTypes, NEW c \in Caller, LeavesPost(c)
  PROVE  /\ strays' \subseteq Caller \X Posts \X BOOLEAN
         /\ \A d \in Caller, b \in BOOLEAN :
              <<d, "create", b>> \in strays' =>
                <<d, "create", b>> \in strays \/ (d = c /\ b = again[c])
<1>1. again[c] \in BOOLEAN
  BY DEF CallTypes
<1> QED  BY <1>1 DEF CallTypes, LeavesPost

\* What is left to show when a call goes on: its ticket and its report.
LEMMA ContinueKnows ==
  ASSUME CallsInv, NEW c \in Caller, NEW pc \in Place \ {"create"}, Continue(c, pc),
         Grows, UNCHANGED call, LeavesPost(c),
         DOMAIN ticket' = Caller, DOMAIN report' = Caller,
         \A d \in Caller \ {c} : ticket'[d] = ticket[d] /\ report'[d] = report[d],
         TicketInv(c)', ReportInv(c)'
  PROVE  CallsInv'
<1>1. CallTypes /\ StrayInv
  BY DEF CallsInv
<1>2. /\ cpc' \in [Caller -> Place]
      /\ link' \in [Caller -> {"none", "sent", "answered"}]
      /\ again' \in [Caller -> BOOLEAN]
      /\ DOMAIN reply' = Caller
      /\ cpc'[c] = pc /\ link'[c] = "none"
      /\ \A d \in Caller \ {c} :
           /\ cpc'[d] = cpc[d] /\ link'[d] = link[d]
           /\ again'[d] = again[d] /\ reply'[d] = reply[d]
  BY <1>1, ContinueIs
<1>3. CallTypes'
  BY <1>1, <1>2, LeftIs DEF CallTypes, Place
<1>4. StrayInv'
  <2> SUFFICES ASSUME NEW d \in Caller, NEW b \in BOOLEAN,
                      <<d, "create", b>> \in strays', cpc'[d] = "create"
               PROVE  ~b /\ again'[d]
    BY DEF StrayInv
  <2>1. d # c
    BY <1>2
  <2>2. <<d, "create", b>> \in strays
    BY <1>1, <2>1, LeftIs
  <2> QED  BY <1>1, <1>2, <2>1, <2>2 DEF StrayInv
<1>5. AnswerInv(c)'
  BY <1>2 DEF AnswerInv
<1>6. CallMoves(c)
  BY <1>2 DEF CallMoves, Rests
<1> QED  BY <1>3, <1>4, <1>5, <1>6, OthersKnow DEF Knows

\* A request that is sent again asks for the same, and a post that was left behind is
\* the first one.
LEMMA ResendKnows ==
  ASSUME CallsInv, NEW c \in Caller, Resend(c), UNCHANGED tables, UNCHANGED call,
         LeavesPost(c), Grows
  PROVE  CallsInv'
<1>1. CallTypes /\ StrayInv /\ Knows(c)
  BY DEF CallsInv, Knows
<1>2. /\ link' \in [Caller -> {"none", "sent", "answered"}]
      /\ again' \in [Caller -> BOOLEAN]
      /\ DOMAIN reply' = Caller
      /\ link'[c] = "none"
      /\ ~again[c] /\ again'[c]
      /\ cpc' = cpc /\ ticket' = ticket /\ report' = report
      /\ \A d \in Caller \ {c} :
           link'[d] = link[d] /\ again'[d] = again[d] /\ reply'[d] = reply[d]
  BY <1>1, ResendIs
<1>3. CallTypes'
  BY <1>1, <1>2, LeftIs DEF CallTypes
<1>4. StrayInv'
  <2> SUFFICES ASSUME NEW d \in Caller, NEW b \in BOOLEAN,
                      <<d, "create", b>> \in strays', cpc'[d] = "create"
               PROVE  ~b /\ again'[d]
    BY DEF StrayInv
  <2>1. CASE d = c
    <3>1. <<d, "create", b>> \notin strays
      BY <1>1, <1>2, <2>1 DEF StrayInv
    <3>2. b = again[c]
      BY <1>1, <3>1, LeftIs
    <3> QED  BY <1>2, <2>1, <3>2
  <2>2. CASE d # c
    <3>1. <<d, "create", b>> \in strays
      BY <1>1, <2>2, LeftIs
    <3>2. ~b /\ again[d]
      BY <1>1, <1>2, <3>1 DEF StrayInv
    <3> QED  BY <1>2, <2>2, <3>2
  <2> QED  BY <2>1, <2>2
<1>5. jobs' = jobs /\ aiJobs' = aiJobs /\ asked' = asked
  BY DEF tables, call
<1>6. TicketInv(c)' /\ ReportInv(c)'
  BY <1>1, <1>2, <1>5 DEF Knows, TicketInv, ReportInv, HasTicket, Covers
<1>7. AnswerInv(c)'
  BY <1>2 DEF AnswerInv
<1>8. CallMoves(c)
  BY <1>2 DEF CallMoves, Rests
<1> QED  BY <1>3, <1>4, <1>6, <1>7, <1>8, OthersKnow DEF Knows

\* A request fails for good.
LEMMA GiveUpKnows ==
  ASSUME CallsInv, NEW c \in Caller, GiveUp(c), UNCHANGED tables, UNCHANGED call,
         LeavesPost(c), Grows
  PROVE  CallsInv'
<1>1. CallTypes /\ Knows(c)
  BY DEF CallsInv, Knows
<1>2. ticket' = ticket /\ jobs' = jobs /\ aiJobs' = aiJobs /\ asked' = asked
  BY DEF GiveUp, tables, call
<1>3. Continue(c, "ended")
  BY DEF GiveUp, Return
<1>4. cpc'[c] = "ended"
  BY <1>1, <1>3, ContinueIs DEF Place
<1>5. /\ DOMAIN report' = Caller
      /\ \A d \in Caller \ {c} : report'[d] = report[d]
      /\ report'[c] = report[c] \/ report'[c].status = "error"
  <2>1. CASE cpc[c] = "doc"
    BY <1>1, <2>1 DEF GiveUp, CallTypes
  <2>2. CASE cpc[c] # "doc"
    BY <1>1, <2>2, ReportIs DEF GiveUp, Return
  <2> QED  BY <2>1, <2>2
<1>6. TicketInv(c)'
  BY <1>4 DEF TicketInv
<1>7. ReportInv(c)'
  BY <1>1, <1>2, <1>4, <1>5 DEF Knows, ReportInv, HasTicket, Covers
<1>8. DOMAIN ticket' = Caller /\ \A d \in Caller \ {c} : ticket'[d] = ticket[d]
  BY <1>1, <1>2 DEF CallTypes
<1> QED  BY <1>3, <1>5, <1>6, <1>7, <1>8, ContinueKnows DEF Place

LEMMA BreakKnows ==
  ASSUME HubInv, CallsInv, NEW c \in Caller, Break(c)
  PROVE  CallsInv' /\ HubInv' /\ MakesNone
<1>1. UNCHANGED tables /\ UNCHANGED call
  BY DEF Break, Fault
<1>2. HubInv' /\ Grows /\ MakesNone
  BY <1>1, UntouchedGrows
<1>3. LeavesPost(c)
  BY DEF Break, LeavesPost, Posts
<1>4. Resend(c) \/ GiveUp(c)
  BY DEF Break
<1> QED  BY <1>1, <1>2, <1>3, <1>4, ResendKnows, GiveUpKnows

LEMMA RefusedKnows ==
  ASSUME HubInv, CallsInv, NEW c \in Caller, Refused(c)
  PROVE  CallsInv' /\ HubInv' /\ MakesNone
<1>1. UNCHANGED tables /\ UNCHANGED call /\ UNCHANGED strays
  BY DEF Refused, hubVars
<1>2. HubInv' /\ Grows /\ MakesNone
  BY <1>1, UntouchedGrows
<1>3. LeavesPost(c)
  BY <1>1 DEF LeavesPost
<1>4. Resend(c) \/ GiveUp(c)
  BY DEF Refused
<1> QED  BY <1>1, <1>2, <1>3, <1>4, ResendKnows, GiveUpKnows

-------------------------------------------------------------------------------
(* The request.                                                               *)

LEMMA AskKnows ==
  ASSUME HubInv, CallsInv, NEW c \in Caller, Ask(c)
  PROVE  CallsInv' /\ HubInv' /\ MakesNone
<1>1. /\ link' = [link EXCEPT ![c] = "sent"]
      /\ UNCHANGED <<call, cpc, again, reply, ticket, report, strays>>
      /\ UNCHANGED tables
  BY DEF Ask, outcome, hubVars
<1>2. HubInv' /\ Grows /\ MakesNone
  BY <1>1, UntouchedGrows
<1>3. CallTypes /\ Knows(c) /\ StrayInv
  BY DEF CallsInv, Knows
<1>4. CallTypes' /\ StrayInv'
  BY <1>1, <1>3 DEF CallTypes, StrayInv
<1>5. link'[c] = "sent" /\ \A d \in Caller \ {c} : link'[d] = link[d]
  BY <1>1, <1>3 DEF CallTypes
<1>6. jobs' = jobs /\ aiJobs' = aiJobs /\ asked' = asked
  BY <1>1 DEF tables, call
<1>7. Knows(c)'
  BY <1>1, <1>3, <1>5, <1>6 DEF Knows, TicketInv, AnswerInv, ReportInv, HasTicket, Covers
<1>8. CallMoves(c)
  BY <1>1, <1>2, <1>5 DEF CallMoves, Rests
<1> QED  BY <1>2, <1>4, <1>7, <1>8, OthersKnow

\* An answer, whatever the Hub did to prepare it.
LEMMA AnsweredKnows ==
  ASSUME CallsInv, Grows, NEW c \in Caller, NEW answer, Answered(c, answer),
         answer.ok =>
           /\ cpc[c] = "create" =>
                answer.id \in DOMAIN jobs' /\ jobs'[answer.id].url = asked[c]
           /\ cpc[c] = "poll" =>
                (IsTerminal(answer.value) => answer.value = jobs'[ticket[c]])
           /\ cpc[c] = "ai" =>
                /\ answer.id \in DOMAIN aiJobs'
                /\ aiJobs'[answer.id].doc = jobs'[ticket[c]].doc
                /\ aiJobs'[answer.id].rev >= jobs'[ticket[c]].rev
  PROVE  CallsInv'
<1>1. /\ link' = [link EXCEPT ![c] = "answered"]
      /\ reply' = [reply EXCEPT ![c] = answer]
      /\ UNCHANGED <<call, cpc, again, ticket, report, strays>>
  BY DEF Answered, outcome
<1>2. CallTypes /\ Knows(c) /\ StrayInv
  BY DEF CallsInv, Knows
<1>3. /\ link' \in [Caller -> {"none", "sent", "answered"}]
      /\ DOMAIN reply' = Caller /\ reply'[c] = answer
      /\ \A d \in Caller \ {c} : link'[d] = link[d] /\ reply'[d] = reply[d]
  BY <1>1, <1>2 DEF CallTypes
<1>4. CallTypes' /\ StrayInv'
  BY <1>1, <1>2, <1>3 DEF CallTypes, StrayInv
<1>5. asked' = asked
  BY <1>1 DEF call
\* But for its answer the call stands where it stood.
<1>6. TicketInv(c)' /\ ReportInv(c)'
  <2>1. TicketInv(c)'
    BY <1>1, <1>2, <1>5, TicketStays DEF TicketInv, Knows, Terminal
  <2>2. ReportInv(c)'
    <3>1. CASE report[c].status \in {"none", "timeout", "error"}
      BY <1>1, <1>2, <3>1 DEF Knows, ReportInv
    <3>2. CASE report[c].status \notin {"none", "timeout", "error"}
      <4>1. /\ HasTicket(c)
            /\ jobs[ticket[c]].phase = report[c].status
            /\ report[c].status \in Terminal
        BY <1>2, <3>2 DEF Knows, ReportInv
      <4>2. HasTicket(c)' /\ jobs'[ticket'[c]] = jobs[ticket[c]]
        BY <1>1, <1>5, <4>1, TicketStays
      <4>3. report[c].ai # None => Covers(c, report[c].ai)'
        BY <1>1, <1>2, <3>2, <4>2, CoverStays DEF Knows, ReportInv
      <4>4. report[c].ai # None => jobs'[ticket'[c]].phase = "done"
        BY <1>2, <3>2, <4>2 DEF Knows, ReportInv
      <4>5. cpc[c] \notin {"doc", "ended"} => report[c] = Unsettled
        BY <1>2 DEF Knows, ReportInv
      <4>6. report' = report /\ cpc' = cpc
        BY <1>1
      <4> QED  BY <4>1, <4>2, <4>3, <4>4, <4>5, <4>6 DEF ReportInv
    <3> QED  BY <3>1, <3>2
  <2> QED  BY <2>1, <2>2
<1>7. AnswerInv(c)'
  <2> SUFFICES ASSUME answer.ok
               PROVE  /\ cpc[c] = "create" =>
                           answer.id \in DOMAIN jobs' /\ jobs'[answer.id].url = asked[c]
                      /\ cpc[c] = "poll" =>
                           (IsTerminal(answer.value) => answer.value = jobs'[ticket[c]])
                      /\ cpc[c] = "ai" => Covers(c, answer.id)'
    BY <1>1, <1>3, <1>5, Zenon DEF AnswerInv, IsTerminal
  <2>1. ASSUME cpc[c] = "ai" PROVE Covers(c, answer.id)'
    <3>1. ticket' = ticket
      BY <1>1
    <3>2. /\ answer.id \in DOMAIN aiJobs'
          /\ aiJobs'[answer.id].doc = jobs'[ticket[c]].doc
          /\ aiJobs'[answer.id].rev >= jobs'[ticket[c]].rev
      BY <2>1, Zenon
    <3> QED  BY <3>1, <3>2 DEF Covers
  <2> QED  BY <2>1, Zenon
<1>8. CallMoves(c)
  BY <1>1, <1>3 DEF CallMoves, Rests
<1> QED  BY <1>4, <1>6, <1>7, <1>8, OthersKnow DEF Knows

\* The job queued for a document is about it, in its latest revision.
LEMMA QueuedIsLatest ==
  ASSUME HubInv, NEW d, QueueAI(d)
  PROVE  LET id == QueueAnswer(d).id IN
           /\ id \in DOMAIN aiJobs'
           /\ aiJobs'[id].doc = d
           /\ aiJobs'[id].rev = documents[d]
<1> DEFINE id == QueueAnswer(d).id
<1>1. CASE LiveAI(d) = {}
  <2>1. id = NewId(aiJobs)
    BY <1>1 DEF QueueAnswer, Accepted
  <2>2. aiJobs' = Upsert(aiJobs, id, [doc |-> d, rev |-> documents[d], phase |-> "queued"])
    BY <1>1, <2>1 DEF QueueAI
  <2> HIDE DEF id
  <2> QED  BY <2>2 DEF Upsert, id
<1>2. CASE LiveAI(d) # {}
  <2>1. id = (CHOOSE a \in LiveAI(d) : TRUE)
    BY <1>2 DEF QueueAnswer, Accepted
  <2>2. aiJobs' = aiJobs
    BY <1>2 DEF QueueAI
  <2> HIDE DEF id
  <2>3. id \in LiveAI(d)
    BY <1>2, <2>1
  <2> QED  BY <2>2, <2>3 DEF LiveAI, id
<1> QED  BY <1>1, <1>2

\* What a post does to the tables.
LEMMA PerformGrows ==
  ASSUME HubInv, Calling, NEW c \in Caller, NEW post \in Posts, Perform(c, post)
  PROVE  /\ HubInv' /\ Grows
         /\ post = "create" => CreateJob(asked[c])
         /\ post = "ai" => MakesNone
<1>1. CASE post = "create"
  <2>1. asked[c] \in Url /\ CreateJob(asked[c])
    BY <1>1 DEF Calling, Perform
  <2> QED  BY <1>1, <2>1, CreateGrows
<1>2. CASE post = "ai"
  <2>1. QueueAI(jobs[ticket[c]].doc)
    BY <1>2 DEF Perform
  <2> QED  BY <1>2, <2>1, QueueGrows
<1> QED  BY <1>1, <1>2 DEF Posts

LEMMA ServeKnows ==
  ASSUME HubInv, Calling, CallsInv, NEW c \in Caller, Serve(c)
  PROVE  /\ CallsInv' /\ HubInv'
         /\ cpc[c] = "create" => CreateJob(asked[c])
         /\ cpc[c] # "create" => MakesNone
<1> DEFINE answer == AnswerTo(c)
<1>1. Answered(c, answer)
  BY DEF Serve
<1>2. TicketInv(c)
  BY DEF CallsInv
<1>3. CASE cpc[c] = "create"
  <2>1. CreateJob(asked[c]) /\ asked[c] \in Url
    BY <1>3 DEF Serve, Perform, Posts, Calling
  <2>2. answer.id = NewId(jobs)
    BY <1>3 DEF AnswerTo, CreateAnswer, Accepted
  <2> HIDE DEF answer
  <2>3. /\ HubInv' /\ Grows
        /\ answer.id \in DOMAIN jobs' /\ jobs'[answer.id].url = asked[c]
    BY <2>1, <2>2, CreateGrows
  <2>4. CallsInv'
    BY <1>1, <1>3, <2>3, AnsweredKnows
  <2> QED  BY <1>3, <2>1, <2>3, <2>4
<1>4. CASE cpc[c] = "ai"
  <2> DEFINE d == jobs[ticket[c]].doc
  <2>1. QueueAI(d)
    BY <1>4 DEF Serve, Perform, Posts
  <2>2. answer = QueueAnswer(d)
    BY <1>4 DEF AnswerTo
  <2>3. /\ HubInv' /\ Grows /\ MakesNone
        /\ answer.id \in DOMAIN aiJobs'
        /\ aiJobs'[answer.id].doc = d
        /\ aiJobs'[answer.id].rev = documents[d]
    BY <2>1, <2>2, QueueGrows, QueuedIsLatest
  <2>4. HasTicket(c) /\ jobs[ticket[c]].phase = "done"
    BY <1>2, <1>4 DEF TicketInv
  <2>5. documents[d] \in Nat /\ jobs[ticket[c]].rev \in 0 .. documents[d]
    BY <2>4 DEF HubInv, TablesInv, DoneInv, HasTicket
  <2>6. jobs' = jobs
    BY <2>1 DEF QueueAI
  <2> HIDE DEF answer
  <2>7. /\ answer.id \in DOMAIN aiJobs'
        /\ aiJobs'[answer.id].doc = jobs'[ticket[c]].doc
        /\ aiJobs'[answer.id].rev >= jobs'[ticket[c]].rev
    BY <2>3, <2>5, <2>6
  <2>8. CallsInv'
    BY <1>1, <1>4, <2>3, <2>7, AnsweredKnows
  <2> QED  BY <1>4, <2>3, <2>8
<1>5. CASE cpc[c] \notin Posts
  <2>1. UNCHANGED tables
    BY <1>5 DEF Serve
  <2>2. HubInv' /\ Grows /\ MakesNone /\ jobs' = jobs
    BY <2>1, UntouchedGrows DEF tables
  <2>3. ASSUME cpc[c] = "poll" PROVE answer.value = jobs'[ticket[c]]
    <3>1. HasTicket(c) /\ answer = JobRow(ticket[c])
      BY <1>2, <2>3 DEF TicketInv, AnswerTo
    <3>2. answer.value = jobs[ticket[c]]
      BY <3>1 DEF HasTicket, JobRow, Shows
    <3> QED  BY <2>2, <3>2
  <2> HIDE DEF answer
  <2>4. CallsInv'
    BY <1>1, <1>5, <2>2, <2>3, AnsweredKnows DEF Posts
  <2> QED  BY <1>5, <2>2, <2>4 DEF Posts
<1> QED  BY <1>3, <1>4, <1>5 DEF Posts

LEMMA ServeFaultKnows ==
  ASSUME HubInv, CallsInv, NEW c \in Caller, ServeFault(c)
  PROVE  CallsInv' /\ HubInv' /\ MakesNone
<1>1. Answered(c, Error) /\ UNCHANGED tables
  BY DEF ServeFault, Fault
<1>2. HubInv' /\ Grows /\ MakesNone
  BY <1>1, UntouchedGrows
<1>3. ~Error.ok
  BY DEF Error
<1> HIDE DEF Error
<1> QED  BY <1>1, <1>2, <1>3, AnsweredKnows

-------------------------------------------------------------------------------
(* The call goes on with an answer.                                           *)

\* The call has no report yet while it waits for an answer to one of these.
LEMMA NoReportYet ==
  ASSUME CallsInv, NEW c \in Caller, cpc[c] \notin {"doc", "ended"}
  PROVE  report[c] = Unsettled
  BY DEF CallsInv, ReportInv

LEMMA CreatedKnows ==
  ASSUME HubInv, CallsInv, NEW c \in Caller, Created(c)
  PROVE  CallsInv' /\ HubInv' /\ MakesNone
<1>1. /\ link[c] = "answered" /\ cpc[c] = "create"
      /\ ticket' = [ticket EXCEPT ![c] = reply[c].id]
      /\ Continue(c, "poll")
      /\ UNCHANGED <<call, report, strays>> /\ UNCHANGED tables
  BY DEF Created, Receives, hubVars
<1>2. reply[c].ok
  BY DEF Created
<1>3. HubInv' /\ Grows /\ MakesNone
  BY <1>1, UntouchedGrows
<1>4. CallTypes /\ AnswerInv(c)
  BY DEF CallsInv
<1>5. reply[c].id \in DOMAIN jobs /\ jobs[reply[c].id].url = asked[c]
  BY <1>1, <1>2, <1>4, Zenon DEF AnswerInv
<1>6. /\ DOMAIN ticket' = Caller /\ ticket'[c] = reply[c].id
      /\ \A d \in Caller \ {c} : ticket'[d] = ticket[d]
  BY <1>1, <1>4 DEF CallTypes
<1>7. cpc'[c] = "poll"
  BY <1>1, <1>4, ContinueIs DEF Place, Gets
<1>8. jobs' = jobs /\ asked' = asked
  BY <1>1 DEF tables, call
<1>9. TicketInv(c)'
  BY <1>5, <1>6, <1>7, <1>8 DEF TicketInv, HasTicket
<1>10. ReportInv(c)'
  BY <1>1, NoReportYet DEF ReportInv, Unsettled
<1>11. LeavesPost(c) /\ DOMAIN report' = Caller
       /\ \A d \in Caller \ {c} : report'[d] = report[d]
  BY <1>1, <1>4 DEF LeavesPost, CallTypes
<1>12. "poll" \in Place \ {"create"}
  BY DEF Place, Gets
<1> QED  BY <1>1, <1>3, <1>6, <1>9, <1>10, <1>11, <1>12, ContinueKnows

\* Where a call that keeps its ticket and its report may go.
LEMMA GoesOn ==
  ASSUME HubInv, CallsInv, NEW c \in Caller, NEW pc \in Place \ {"create"},
         Continue(c, pc), UNCHANGED <<call, ticket, strays>>, UNCHANGED tables,
         DOMAIN report' = Caller, \A d \in Caller \ {c} : report'[d] = report[d],
         TicketInv(c)', ReportInv(c)'
  PROVE  CallsInv' /\ HubInv' /\ MakesNone
<1>1. HubInv' /\ Grows /\ MakesNone
  BY UntouchedGrows
<1>2. DOMAIN ticket' = Caller /\ \A d \in Caller \ {c} : ticket'[d] = ticket[d]
  BY DEF CallsInv, CallTypes
<1>3. LeavesPost(c)
  BY DEF LeavesPost
<1> QED  BY <1>1, <1>2, <1>3, ContinueKnows

LEMMA PolledKnows ==
  ASSUME HubInv, CallsInv, NEW c \in Caller, Polled(c)
  PROVE  CallsInv' /\ HubInv' /\ MakesNone
<1> DEFINE row == reply[c].value
<1>1. /\ link[c] = "answered" /\ cpc[c] = "poll"
      /\ UNCHANGED <<call, ticket, strays>> /\ UNCHANGED tables
  BY DEF Polled, Receives, hubVars
<1>2. reply[c].ok
  BY DEF Polled
<1>3. CallTypes /\ AnswerInv(c) /\ TicketInv(c) /\ report[c] = Unsettled
  BY <1>1, NoReportYet DEF CallsInv
<1>4. IsTerminal(row) => row = jobs[ticket[c]]
  BY <1>1, <1>2, <1>3, Zenon DEF AnswerInv
<1>5. HasTicket(c)
  BY <1>1, <1>3 DEF TicketInv
<1>6. jobs' = jobs /\ aiJobs' = aiJobs /\ asked' = asked /\ ticket' = ticket
  BY <1>1 DEF tables, call
<1>7. HasTicket(c)'
  BY <1>5, <1>6 DEF HasTicket
<1>8. /\ "doc" \in Place \ {"create"} /\ "ai" \in Place \ {"create"}
      /\ "sleep" \in Place \ {"create"} /\ "ended" \in Place \ {"create"}
  BY DEF Place, Posts, Gets
\* The call goes to pc and reports that the job has the status, or nothing.
<1>9. ASSUME NEW pc \in {"doc", "ai", "sleep", "ended"}, Continue(c, pc),
             pc \in {"doc", "ai"} => IsTerminal(row) /\ row.phase = "done",
             \/ report' = report /\ pc \in {"ai", "sleep"}
             \/ /\ IsTerminal(row) /\ Report(c, row.phase, None) /\ pc \in {"doc", "ended"}
             \/ Report(c, "timeout", None) /\ pc = "ended"
      PROVE  CallsInv' /\ HubInv' /\ MakesNone
  <2>1. cpc'[c] = pc /\ pc \in Place \ {"create"}
    BY <1>3, <1>8, <1>9, ContinueIs
  <2>2. TicketInv(c)'
    BY <1>4, <1>6, <1>7, <1>9, <2>1 DEF TicketInv
  <2>3. /\ DOMAIN report' = Caller
        /\ \A d \in Caller \ {c} : report'[d] = report[d]
    BY <1>3, <1>9, ReportIs DEF CallTypes
  <2>4. ReportInv(c)'
    <3>1. CASE report' = report /\ pc \in {"ai", "sleep"}
      BY <1>3, <2>1, <3>1 DEF ReportInv, Unsettled
    <3>2. CASE Report(c, "timeout", None) /\ pc = "ended"
      BY <1>3, <2>1, <3>2, ReportIs DEF ReportInv
    <3>3. CASE IsTerminal(row) /\ Report(c, row.phase, None) /\ pc \in {"doc", "ended"}
      <4>1. report'[c].status = row.phase /\ report'[c].ai = None
        BY <1>3, <3>3, ReportIs
      <4>2. row = jobs[ticket[c]] /\ row.phase \in Terminal
        BY <1>4, <3>3 DEF IsTerminal
      <4> QED  BY <1>6, <1>7, <2>1, <3>3, <4>1, <4>2 DEF ReportInv
    <3> QED  BY <1>9, <3>1, <3>2, <3>3
  <2> QED  BY <1>1, <1>9, <2>1, <2>2, <2>3, <2>4, GoesOn
<1>10. CASE IsTerminal(row)
  <2>1. Settled(c)
    BY <1>10 DEF Polled
  <2>2. CASE kind[c] = "cli"
    <3>1. /\ Report(c, row.phase, None)
          /\ Continue(c, IF row.phase = "done" THEN "doc" ELSE "ended")
      BY <2>1, <2>2 DEF Settled
    <3> HIDE DEF row
    <3>2. CASE row.phase = "done"
      BY <1>9, <1>10, <3>1, <3>2
    <3>3. CASE row.phase # "done"
      BY <1>9, <1>10, <3>1, <3>3
    <3> QED  BY <3>2, <3>3
  <2>3. CASE kind[c] # "cli"
    <3>1. \/ Return(c, row.phase, None)
          \/ row.phase = "done" /\ Continue(c, "ai") /\ report' = report
      BY <2>1, <2>3 DEF Settled
    <3> HIDE DEF row
    <3> QED  BY <1>9, <1>10, <3>1 DEF Return
  <2> QED  BY <2>2, <2>3
<1>11. CASE ~IsTerminal(row)
  <2>1. \/ Return(c, "timeout", None)
        \/ Continue(c, "sleep") /\ report' = report
    BY <1>11 DEF Polled
  <2> HIDE DEF row
  <2> QED  BY <1>9, <2>1 DEF Return
<1> QED  BY <1>10, <1>11

LEMMA WakesUpKnows ==
  ASSUME HubInv, CallsInv, NEW c \in Caller, WakesUp(c)
  PROVE  CallsInv' /\ HubInv' /\ MakesNone
<1>1. /\ cpc[c] = "sleep" /\ Continue(c, "poll")
      /\ UNCHANGED <<call, ticket, report, strays>> /\ UNCHANGED tables
  BY DEF WakesUp, outcome, hubVars
<1>2. CallTypes /\ TicketInv(c) /\ report[c] = Unsettled
  BY <1>1, NoReportYet DEF CallsInv
<1>3. jobs' = jobs /\ asked' = asked
  BY <1>1 DEF tables, call
<1>4. cpc'[c] = "poll" /\ "poll" \in Place \ {"create"}
  BY <1>1, <1>2, ContinueIs DEF Place, Gets
<1>5. TicketInv(c)'
  BY <1>1, <1>2, <1>3, <1>4 DEF TicketInv, HasTicket
<1>6. ReportInv(c)'
  BY <1>1, <1>2 DEF ReportInv, Unsettled
<1>7. DOMAIN report' = Caller
  BY <1>1, <1>2 DEF CallTypes
<1> QED  BY <1>1, <1>4, <1>5, <1>6, <1>7, GoesOn

LEMMA DocumentShownKnows ==
  ASSUME HubInv, CallsInv, NEW c \in Caller, DocumentShown(c)
  PROVE  CallsInv' /\ HubInv' /\ MakesNone
<1>1. /\ Continue(c, "ended")
      /\ UNCHANGED <<call, ticket, report, strays>> /\ UNCHANGED tables
  BY DEF DocumentShown, outcome, hubVars
<1>2. CallTypes /\ ReportInv(c)
  BY DEF CallsInv
<1>3. jobs' = jobs /\ aiJobs' = aiJobs /\ asked' = asked
  BY <1>1 DEF tables, call
<1>4. cpc'[c] = "ended" /\ "ended" \in Place \ {"create"}
  BY <1>1, <1>2, ContinueIs DEF Place, Posts, Gets
<1>5. TicketInv(c)'
  BY <1>4 DEF TicketInv
<1>6. ReportInv(c)'
  BY <1>1, <1>2, <1>3, <1>4 DEF ReportInv, HasTicket, Covers
<1>7. DOMAIN report' = Caller
  BY <1>1, <1>2 DEF CallTypes
<1> QED  BY <1>1, <1>4, <1>5, <1>6, <1>7, GoesOn

LEMMA QueuedKnows ==
  ASSUME HubInv, CallsInv, NEW c \in Caller, Queued(c)
  PROVE  CallsInv' /\ HubInv' /\ MakesNone
<1>1. /\ link[c] = "answered" /\ cpc[c] = "ai"
      /\ Continue(c, "ended") /\ Report(c, "done", reply[c].id)
      /\ UNCHANGED <<call, ticket, strays>> /\ UNCHANGED tables
  BY DEF Queued, Receives, Return, hubVars
<1>2. reply[c].ok
  BY DEF Queued
<1>3. CallTypes /\ TicketInv(c) /\ AnswerInv(c)
  BY DEF CallsInv
<1>4. Covers(c, reply[c].id)
  BY <1>1, <1>2, <1>3, Zenon DEF AnswerInv
<1>5. HasTicket(c) /\ jobs[ticket[c]].phase = "done"
  BY <1>1, <1>3 DEF TicketInv
<1>6. jobs' = jobs /\ aiJobs' = aiJobs /\ asked' = asked /\ ticket' = ticket
  BY <1>1 DEF tables, call
<1>7. cpc'[c] = "ended" /\ "ended" \in Place \ {"create"}
  BY <1>1, <1>3, ContinueIs DEF Place, Posts, Gets
<1>8. /\ DOMAIN report' = Caller
      /\ report'[c].status = "done" /\ report'[c].ai = reply[c].id
      /\ \A d \in Caller \ {c} : report'[d] = report[d]
  BY <1>1, <1>3, ReportIs
<1>9. TicketInv(c)'
  BY <1>7 DEF TicketInv
<1>10. ReportInv(c)'
  BY <1>4, <1>5, <1>6, <1>7, <1>8 DEF ReportInv, HasTicket, Covers, Terminal
<1> QED  BY <1>1, <1>7, <1>8, <1>9, <1>10, GoesOn

LEMMA DeadlineKnows ==
  ASSUME HubInv, CallsInv, NEW c \in Caller, DeadlinePasses(c)
  PROVE  CallsInv' /\ HubInv' /\ MakesNone
<1>1. UNCHANGED <<call, request, ticket, report, strays>> /\ UNCHANGED tables
  BY DEF DeadlinePasses, hubVars
<1>2. HubInv' /\ Grows /\ MakesNone
  BY <1>1, UntouchedGrows
<1>3. \A d \in Caller : Rests(d)
  BY <1>1 DEF Rests, request
<1>4. \A d \in Caller : Knows(d)'
  BY <1>1, <1>2, <1>3, KnowledgeStays DEF CallsInv, Knows, call
<1>5. CallTypes' /\ StrayInv'
  BY <1>1 DEF CallsInv, CallTypes, StrayInv, request
<1> QED  BY <1>2, <1>4, <1>5 DEF CallsInv, Knows

\* A post nobody waits for is performed, or lost.
LEMMA StrayKnows ==
  ASSUME HubInv, Calling, CallsInv, NEW s \in strays, StrayArrives(s)
  PROVE  /\ CallsInv' /\ HubInv'
         /\ \/ MakesNone
            \/ s[2] = "create" /\ CreateJob(asked[s[1]])
<1>1. /\ strays' = strays \ {s}
      /\ Perform(s[1], s[2]) \/ UNCHANGED tables
      /\ UNCHANGED <<call, request, outcome>>
  BY DEF StrayArrives
<1>2. s[1] \in Caller /\ s[2] \in Posts
  BY DEF CallsInv, CallTypes
<1>3. /\ HubInv' /\ Grows
      /\ MakesNone \/ (s[2] = "create" /\ CreateJob(asked[s[1]]))
  BY <1>1, <1>2, PerformGrows, UntouchedGrows DEF Posts
<1>4. \A d \in Caller : Rests(d)
  BY <1>1 DEF Rests, request, outcome
<1>5. \A d \in Caller : Knows(d)'
  BY <1>1, <1>3, <1>4, KnowledgeStays DEF CallsInv, Knows, call
<1>6. CallTypes' /\ StrayInv'
  BY <1>1 DEF CallsInv, CallTypes, StrayInv, request, outcome
<1> QED  BY <1>3, <1>5, <1>6 DEF CallsInv, Knows

-------------------------------------------------------------------------------
(* The number of jobs a call makes.                                           *)

\* What a call may still perform, it might have performed before.
NoMorePosts == \A d \in Caller, b \in BOOLEAN : MayPerform(d, b)' => MayPerform(d, b)

\* The sets that are counted are finite.
LEMMA Countable ==
  ASSUME HubInv, NEW u, NEW b
  PROVE  /\ IsFiniteSet(JobsFor(u)) /\ IsFiniteSet(CallsFor(u))
         /\ IsFiniteSet(Scripts(u)) /\ IsFiniteSet(Pending(u, b))
<1>1. IsFiniteSet(DOMAIN jobs)
  BY DEF HubInv, TablesInv, Numbered
<1>2. /\ JobsFor(u) \subseteq DOMAIN jobs
      /\ CallsFor(u) \subseteq Caller /\ Scripts(u) \subseteq Caller
      /\ Pending(u, b) \subseteq Caller
  BY DEF JobsFor, CallsFor, Scripts, Pending
<1> QED  BY <1>1, <1>2, CaptureClientAssumption, FS_Subset

\* A step that makes no job keeps the account.
LEMMA NoneKeepsBudget ==
  ASSUME HubInv, HubInv', BudgetInv, Grows, MakesNone, UNCHANGED call, NoMorePosts
  PROVE  BudgetInv'
<1> SUFFICES ASSUME NEW u \in Url
             PROVE  (Cardinality(JobsFor(u)) + Cardinality(Pending(u, FALSE))
                       + Cardinality(Pending(u, TRUE))
                       <= Cardinality(CallsFor(u)) + Cardinality(Scripts(u)))'
  BY DEF BudgetInv
<1>1. asked' = asked /\ kind' = kind
  BY DEF call
<1>2. JobsFor(u)' = JobsFor(u)
  BY DEF JobsFor, Grows, MakesNone
<1>3. CallsFor(u)' = CallsFor(u) /\ Scripts(u)' = Scripts(u)
  BY <1>1 DEF CallsFor, Scripts
<1>4. ASSUME NEW b \in BOOLEAN
      PROVE  /\ Cardinality(Pending(u, b)') <= Cardinality(Pending(u, b))
             /\ Cardinality(Pending(u, b)') \in Nat /\ Cardinality(Pending(u, b)) \in Nat
  <2>1. Pending(u, b)' \subseteq Pending(u, b)
    BY <1>1 DEF Pending, NoMorePosts
  <2>2. IsFiniteSet(Pending(u, b))
    BY Countable
  <2> HIDE DEF Pending
  <2> QED  BY <2>1, <2>2, FS_Subset, FS_CardinalityType
<1> DEFINE made == Cardinality(JobsFor(u))            made2 == Cardinality(JobsFor(u)')
           first == Cardinality(Pending(u, FALSE))    first2 == Cardinality(Pending(u, FALSE)')
           second == Cardinality(Pending(u, TRUE))    second2 == Cardinality(Pending(u, TRUE)')
           limit == Cardinality(CallsFor(u)) + Cardinality(Scripts(u))
<1>5. made \in Nat /\ limit \in Nat
  BY Countable, FS_CardinalityType
<1>6. made + first + second <= limit
  BY DEF BudgetInv
<1>7. /\ first2 <= first /\ second2 <= second
      /\ first2 \in Nat /\ second2 \in Nat /\ first \in Nat /\ second \in Nat
  BY <1>4
<1>8. made2 = made
  BY <1>2
<1> HIDE DEF made, made2, first, first2, second, second2, limit
<1>9. made2 + first2 + second2 <= limit
  BY <1>5, <1>6, <1>7, <1>8
<1> QED  BY <1>3, <1>9 DEF made2, first2, second2, limit

\* A job is paid for by the post that makes it.
LEMMA CreateKeepsBudget ==
  ASSUME HubInv, HubInv', Calling, BudgetInv, UNCHANGED call, NoMorePosts,
         NEW c \in Caller, CreateJob(asked[c]), NEW paid \in BOOLEAN,
         MayPerform(c, paid), ~MayPerform(c, paid)'
  PROVE  BudgetInv'
<1> SUFFICES ASSUME NEW u \in Url
             PROVE  (Cardinality(JobsFor(u)) + Cardinality(Pending(u, FALSE))
                       + Cardinality(Pending(u, TRUE))
                       <= Cardinality(CallsFor(u)) + Cardinality(Scripts(u)))'
  BY DEF BudgetInv
<1>1. asked' = asked /\ kind' = kind /\ asked[c] \in Url
  BY DEF call, Calling
<1>2. CallsFor(u)' = CallsFor(u) /\ Scripts(u)' = Scripts(u)
  BY <1>1 DEF CallsFor, Scripts
<1>3. ASSUME NEW b \in BOOLEAN
      PROVE  /\ Cardinality(Pending(u, b)') <= Cardinality(Pending(u, b))
             /\ Cardinality(Pending(u, b)') \in Nat /\ Cardinality(Pending(u, b)) \in Nat
             /\ b = paid /\ u = asked[c] =>
                  Cardinality(Pending(u, b)') + 1 <= Cardinality(Pending(u, b))
  <2>1. Pending(u, b)' \subseteq Pending(u, b)
    BY <1>1 DEF Pending, NoMorePosts
  <2>2. IsFiniteSet(Pending(u, b))
    BY Countable
  <2>3. b = paid /\ u = asked[c] => c \in Pending(u, b) /\ c \notin Pending(u, b)'
    BY DEF Pending
  <2> HIDE DEF Pending
  <2>4. /\ Cardinality(Pending(u, b)') <= Cardinality(Pending(u, b))
        /\ Cardinality(Pending(u, b)') = Cardinality(Pending(u, b)) =>
             Pending(u, b)' = Pending(u, b)
    BY <2>1, <2>2, FS_Subset
  <2>5. Cardinality(Pending(u, b)') \in Nat /\ Cardinality(Pending(u, b)) \in Nat
    BY <2>1, <2>2, FS_Subset, FS_CardinalityType
  <2>6. b = paid /\ u = asked[c] => Pending(u, b)' # Pending(u, b)
    BY <2>3
  <2> QED  BY <2>4, <2>5, <2>6
<1>4. /\ Cardinality(JobsFor(u)) \in Nat /\ Cardinality(JobsFor(u)') \in Nat
      /\ u # asked[c] => Cardinality(JobsFor(u)') = Cardinality(JobsFor(u))
      /\ u = asked[c] => Cardinality(JobsFor(u)') = Cardinality(JobsFor(u)) + 1
  <2> DEFINE id == NewId(jobs)
  <2>1. /\ Grows
        /\ DOMAIN jobs' = DOMAIN jobs \cup {id}
        /\ id \notin DOMAIN jobs
        /\ jobs'[id].url = asked[c]
    BY <1>1, CreateGrows
  <2> HIDE DEF id
  <2>2. IsFiniteSet(JobsFor(u)) /\ id \notin JobsFor(u)
    BY <2>1, Countable DEF JobsFor
  <2>3. JobsFor(u)' = IF u = asked[c] THEN JobsFor(u) \cup {id} ELSE JobsFor(u)
    BY <2>1 DEF JobsFor, Grows
  <2> HIDE DEF JobsFor
  <2> QED  BY <2>2, <2>3, FS_AddElement, FS_CardinalityType
<1> DEFINE made == Cardinality(JobsFor(u))            made2 == Cardinality(JobsFor(u)')
           first == Cardinality(Pending(u, FALSE))    first2 == Cardinality(Pending(u, FALSE)')
           second == Cardinality(Pending(u, TRUE))    second2 == Cardinality(Pending(u, TRUE)')
           limit == Cardinality(CallsFor(u)) + Cardinality(Scripts(u))
<1>5. limit \in Nat
  BY Countable, FS_CardinalityType
<1>6. made + first + second <= limit
  BY DEF BudgetInv
<1>7. /\ first2 <= first /\ second2 <= second
      /\ first2 \in Nat /\ second2 \in Nat /\ first \in Nat /\ second \in Nat
      /\ u = asked[c] => first2 + 1 <= first \/ second2 + 1 <= second
  BY <1>3
<1>8. /\ made \in Nat /\ made2 \in Nat
      /\ u # asked[c] => made2 = made
      /\ u = asked[c] => made2 = made + 1
  BY <1>4
<1> HIDE DEF made, made2, first, first2, second, second2, limit
<1>9. made2 + first2 + second2 <= limit
  BY <1>5, <1>6, <1>7, <1>8
<1> QED  BY <1>2, <1>9 DEF made2, first2, second2, limit

\* A call that goes on has no post to perform any more, but for those left behind.
LEMMA ContinueSpends ==
  ASSUME CallTypes, NEW c \in Caller, NEW pc \in Place \ {"create"}, Continue(c, pc),
         strays' = strays, UNCHANGED call
  PROVE  NoMorePosts
<1>1. /\ cpc'[c] = pc
      /\ \A d \in Caller \ {c} :
           cpc'[d] = cpc[d] /\ link'[d] = link[d] /\ again'[d] = again[d]
  BY ContinueIs
<1>2. kind' = kind
  BY DEF call
<1> QED  BY <1>1, <1>2 DEF NoMorePosts, MayPerform

\* The post a failed request may leave behind is the one it was.
LEMMA FailureSpends ==
  ASSUME CallsInv, NEW c \in Caller, Break(c) \/ Refused(c)
  PROVE  NoMorePosts
<1>1. CallTypes /\ UNCHANGED call
  BY DEF Break, Refused, CallsInv
<1>2. kind' = kind
  BY <1>1 DEF call
<1>3. \A d \in Caller, b \in BOOLEAN :
        <<d, "create", b>> \in strays' =>
          \/ <<d, "create", b>> \in strays
          \/ d = c /\ b = again[c] /\ cpc[c] = "create" /\ link[c] = "sent"
  BY DEF Break, Refused
<1>4. CASE Resend(c)
  <2>1. /\ ~again[c] /\ again'[c] /\ cpc' = cpc
        /\ \A d \in Caller \ {c} : link'[d] = link[d] /\ again'[d] = again[d]
    BY <1>1, <1>4, ResendIs
  <2>2. kind[c] = "userscript"
    BY <1>4 DEF Resend, Resends
  <2>3. again'[c] \in BOOLEAN
    BY <1>1, <1>4, ResendIs
  <2>4. ASSUME NEW b \in BOOLEAN, MayPerform(c, b)' PROVE MayPerform(c, b)
    <3>1. CASE <<c, "create", b>> \in strays'
      BY <1>3, <3>1 DEF MayPerform
    <3>2. CASE cpc'[c] = "create" /\ again'[c] = b
      BY <2>1, <2>2, <2>3, <3>2 DEF MayPerform
    <3> QED  BY <2>1, <2>4, <3>1, <3>2 DEF MayPerform
  <2>5. ASSUME NEW d \in Caller \ {c}, NEW b \in BOOLEAN, MayPerform(d, b)'
        PROVE  MayPerform(d, b)
    BY <1>2, <1>3, <2>1, <2>5 DEF MayPerform
  <2> QED  BY <2>4, <2>5 DEF NoMorePosts
<1>5. CASE GiveUp(c)
  <2>1. Continue(c, "ended")
    BY <1>5 DEF GiveUp, Return
  <2>2. /\ cpc'[c] = "ended"
        /\ \A d \in Caller \ {c} :
             cpc'[d] = cpc[d] /\ link'[d] = link[d] /\ again'[d] = again[d]
    BY <1>1, <2>1, ContinueIs DEF Place
  <2> QED  BY <1>2, <1>3, <2>2 DEF NoMorePosts, MayPerform
<1>6. Resend(c) \/ GiveUp(c)
  BY DEF Break, Refused
<1> QED  BY <1>4, <1>5, <1>6

\* A step of the request itself.
LEMMA RequestSpends ==
  ASSUME CallTypes, NEW c \in Caller,
         Ask(c) \/ (\E answer : Answered(c, answer)) \/ DeadlinePasses(c)
  PROVE  NoMorePosts /\ UNCHANGED call
<1>1. /\ UNCHANGED <<call, cpc, again, strays>>
      /\ \/ link' = link
         \/ link[c] = "none" /\ link' = [link EXCEPT ![c] = "sent"]
         \/ link' = [link EXCEPT ![c] = "answered"]
  BY DEF Ask, Answered, DeadlinePasses, request
<1>2. \A d \in Caller :
        link'[d] \in {"none", "sent"} => link[d] \in {"none", "sent"}
  BY <1>1 DEF CallTypes
<1>3. kind' = kind
  BY <1>1 DEF call
<1> QED  BY <1>1, <1>2, <1>3 DEF NoMorePosts, MayPerform

\* A post that is answered is no longer to be performed.
LEMMA ServedIsSpent ==
  ASSUME CallsInv, NEW c \in Caller, cpc[c] = "create", NEW answer, Answered(c, answer)
  PROVE  /\ again[c] \in BOOLEAN
         /\ MayPerform(c, again[c])
         /\ \A b \in BOOLEAN : b = again[c] => ~MayPerform(c, b)'
<1>1. CallTypes /\ StrayInv
  BY DEF CallsInv
<1>2. again[c] \in BOOLEAN
  BY <1>1 DEF CallTypes
<1>3. MayPerform(c, again[c])
  BY DEF MayPerform, Answered
<1>4. <<c, "create", again[c]>> \notin strays
  BY <1>1, <1>2 DEF StrayInv
<1>5. /\ strays' = strays /\ again' = again /\ cpc' = cpc
      /\ link'[c] = "answered"
  BY <1>1 DEF Answered, CallTypes
<1>6. ASSUME NEW b \in BOOLEAN, b = again[c] PROVE ~MayPerform(c, b)'
  BY <1>4, <1>5, <1>6 DEF MayPerform
<1> QED  BY <1>2, <1>3, <1>6

\* A post left behind is performed once.
LEMMA StraySpends ==
  ASSUME CallsInv, NEW s \in strays, StrayArrives(s)
  PROVE  /\ NoMorePosts /\ UNCHANGED call
         /\ s[1] \in Caller /\ s[3] \in BOOLEAN
         /\ s[2] = "create" => MayPerform(s[1], s[3]) /\ ~MayPerform(s[1], s[3])'
<1>1. CallTypes /\ StrayInv
  BY DEF CallsInv
<1>2. /\ strays' = strays \ {s}
      /\ UNCHANGED <<call, cpc, link, again>>
  BY DEF StrayArrives, request
<1>3. s[1] \in Caller /\ s[3] \in BOOLEAN /\ s = <<s[1], s[2], s[3]>>
  BY <1>1 DEF CallTypes
<1>4. kind' = kind
  BY <1>2 DEF call
<1>5. NoMorePosts
  BY <1>2, <1>4 DEF NoMorePosts, MayPerform
<1>6. ASSUME s[2] = "create"
      PROVE  MayPerform(s[1], s[3]) /\ ~MayPerform(s[1], s[3])'
  <2> DEFINE c == s[1]  b == s[3]
  <2>1. <<c, "create", b>> = s
    BY <1>3, <1>6
  <2>2. <<c, "create", b>> \in strays /\ <<c, "create", b>> \notin strays'
    BY <1>2, <2>1
  <2>3. c \in Caller /\ b \in BOOLEAN
    BY <1>3
  <2> HIDE DEF c, b
  <2>4. cpc[c] = "create" => ~b /\ again[c]
    BY <1>1, <2>2, <2>3 DEF StrayInv
  <2>5. MayPerform(c, b)
    BY <2>2 DEF MayPerform
  <2>6. ~MayPerform(c, b)'
    BY <1>2, <2>2, <2>3, <2>4 DEF MayPerform
  <2> QED  BY <2>5, <2>6 DEF c, b
<1> QED  BY <1>2, <1>3, <1>5, <1>6

-------------------------------------------------------------------------------
(* A step of the clients.                                                     *)

Called == Calling /\ CallsInv /\ BudgetInv

LEMMA CallKeeps ==
  ASSUME HubInv, Called, NEW c \in Caller,
         CallStep(c) \/ ServeFault(c) \/ DeadlinePasses(c) \/ Break(c)
  PROVE  HubInv' /\ CallsInv' /\ BudgetInv' /\ UNCHANGED call
<1>1. Calling /\ CallsInv /\ BudgetInv /\ CallTypes
  BY DEF Called, CallsInv
<1>2. ASSUME HubInv', CallsInv', MakesNone, NoMorePosts, UNCHANGED call, Grows
      PROVE  HubInv' /\ CallsInv' /\ BudgetInv' /\ UNCHANGED call
  BY <1>1, <1>2, NoneKeepsBudget
<1>3. CASE Ask(c)
  <2>1. UNCHANGED tables
    BY <1>3 DEF Ask, hubVars
  <2> QED  BY <1>1, <1>2, <1>3, <2>1, AskKnows, RequestSpends, UntouchedGrows
<1>4. CASE Serve(c)
  <2>1. Answered(c, AnswerTo(c))
    BY <1>4 DEF Serve
  <2>2. NoMorePosts /\ UNCHANGED call
    BY <1>1, <2>1, RequestSpends
  <2>3. HubInv' /\ CallsInv'
    BY <1>1, <1>4, ServeKnows
  <2>4. CASE cpc[c] = "create"
    <3>1. CreateJob(asked[c])
      BY <1>1, <1>4, <2>4, ServeKnows
    <3>2. PICK b \in BOOLEAN : b = again[c]
      BY <1>1, <2>1, <2>4, ServedIsSpent
    <3>3. MayPerform(c, b) /\ ~MayPerform(c, b)'
      BY <1>1, <2>1, <2>4, <3>2, ServedIsSpent
    <3>4. BudgetInv'
      BY <1>1, <2>2, <2>3, <3>1, <3>3, CreateKeepsBudget
    <3> QED  BY <2>2, <2>3, <3>4
  <2>5. CASE cpc[c] # "create"
    <3>1. MakesNone
      BY <1>1, <1>4, <2>5, ServeKnows
    <3>2. UNCHANGED tables \/ (\E d : QueueAI(d))
      BY <1>4, <2>5 DEF Serve, Perform, Posts
    <3>3. Grows
      BY <3>2, UntouchedGrows, QueueGrows
    <3> QED  BY <1>2, <2>2, <2>3, <3>1, <3>3
  <2> QED  BY <2>4, <2>5
<1>5. CASE ServeFault(c)
  <2>1. Answered(c, Error) /\ UNCHANGED tables
    BY <1>5 DEF ServeFault, Fault
  <2>2. NoMorePosts /\ UNCHANGED call
    BY <1>1, <2>1, RequestSpends
  <2> QED  BY <1>1, <1>2, <1>5, <2>1, <2>2, ServeFaultKnows, UntouchedGrows
<1>6. CASE Break(c) \/ Refused(c)
  <2>1. UNCHANGED tables /\ UNCHANGED call
    BY <1>6 DEF Break, Refused, Fault, hubVars
  <2> QED  BY <1>1, <1>2, <1>6, <2>1, BreakKnows, RefusedKnows, FailureSpends,
              UntouchedGrows
<1>7. CASE DeadlinePasses(c)
  <2>1. UNCHANGED tables
    BY <1>7 DEF DeadlinePasses, hubVars
  <2> QED  BY <1>1, <1>2, <1>7, <2>1, DeadlineKnows, RequestSpends, UntouchedGrows
<1>8. CASE Created(c) \/ Polled(c) \/ WakesUp(c) \/ DocumentShown(c) \/ Queued(c)
  <2>1. HubInv' /\ CallsInv' /\ MakesNone
    BY <1>1, <1>8, CreatedKnows, PolledKnows, WakesUpKnows, DocumentShownKnows,
       QueuedKnows
  <2>2. UNCHANGED tables /\ UNCHANGED call /\ strays' = strays
    BY <1>8 DEF Created, Polled, WakesUp, DocumentShown, Queued, hubVars
  <2>3. \E pc \in Place \ {"create"} : Continue(c, pc)
    <3>1. /\ "poll" \in Place \ {"create"} /\ "sleep" \in Place \ {"create"}
          /\ "doc" \in Place \ {"create"} /\ "ai" \in Place \ {"create"}
          /\ "ended" \in Place \ {"create"}
      BY DEF Place, Posts, Gets
    <3>2. CASE Polled(c)
      <4>1. Settled(c) \/ Return(c, "timeout", None) \/ Continue(c, "sleep")
        BY <3>2 DEF Polled
      <4>2. \/ Continue(c, "doc") \/ Continue(c, "ended")
            \/ Continue(c, "ai") \/ Continue(c, "sleep")
        BY <4>1 DEF Settled, Return
      <4> QED  BY <3>1, <4>2
    <3>3. CASE Created(c) \/ WakesUp(c) \/ DocumentShown(c) \/ Queued(c)
      BY <3>1, <3>3 DEF Created, WakesUp, DocumentShown, Queued, Return
    <3> QED  BY <1>8, <3>2, <3>3
  <2> QED  BY <1>1, <1>2, <2>1, <2>2, <2>3, ContinueSpends, UntouchedGrows
<1> QED  BY <1>3, <1>4, <1>5, <1>6, <1>7, <1>8 DEF CallStep

LEMMA StrayKeeps ==
  ASSUME HubInv, Called, NEW s \in strays, StrayArrives(s)
  PROVE  HubInv' /\ CallsInv' /\ BudgetInv' /\ UNCHANGED call
<1>1. Calling /\ CallsInv /\ BudgetInv
  BY DEF Called
<1>2. /\ CallsInv' /\ HubInv'
      /\ \/ MakesNone
         \/ s[2] = "create" /\ CreateJob(asked[s[1]])
  BY <1>1, StrayKnows
<1>3. /\ NoMorePosts /\ UNCHANGED call
      /\ s[1] \in Caller /\ s[3] \in BOOLEAN
      /\ s[2] = "create" => MayPerform(s[1], s[3]) /\ ~MayPerform(s[1], s[3])'
  BY <1>1, StraySpends
<1>4. s[2] \in Posts
  BY <1>1 DEF CallsInv, CallTypes
<1>5. CASE MakesNone
  <2>1. Grows
    BY <1>1, <1>3, <1>4, PerformGrows, UntouchedGrows DEF StrayArrives
  <2> QED  BY <1>1, <1>2, <1>3, <1>5, <2>1, NoneKeepsBudget
<1>6. CASE s[2] = "create" /\ CreateJob(asked[s[1]])
  <2>1. BudgetInv'
    BY <1>1, <1>2, <1>3, <1>6, CreateKeepsBudget
  <2> QED  BY <1>2, <1>3, <2>1
<1> QED  BY <1>2, <1>5, <1>6

\* A step of the Hub while there are calls.
LEMMA HubKeepsCalls ==
  ASSUME HubInv, Called, HubInv', Grows, MakesNone, UNCHANGED clientVars
  PROVE  CallsInv' /\ BudgetInv'
<1>1. CallsInv /\ BudgetInv
  BY DEF Called
<1>2. UNCHANGED <<call, cpc, link, again, reply, ticket, report, strays>>
  BY DEF clientVars, request, outcome
<1>3. \A d \in Caller : Rests(d)
  BY <1>2 DEF Rests
<1>4. \A d \in Caller : Knows(d)'
  BY <1>1, <1>2, <1>3, KnowledgeStays DEF CallsInv, Knows, call
<1>5. CallTypes' /\ StrayInv'
  BY <1>1, <1>2 DEF CallsInv, CallTypes, StrayInv
<1>6. NoMorePosts
  BY <1>2 DEF NoMorePosts, MayPerform, call
<1> QED  BY <1>1, <1>2, <1>4, <1>5, <1>6, NoneKeepsBudget DEF CallsInv, Knows

-------------------------------------------------------------------------------
(* The invariant.                                                             *)

LEMMA NoneNumbered == Numbered(NoRows)
<1>1. IsFiniteSet({}) /\ Cardinality({}) = 0
  BY FS_EmptySet
<1> QED  BY <1>1 DEF Numbered, NoRows

\* The job that is there when the page is opened.
LEMMA EarlierIsDone ==
  /\ Numbered(Earlier) /\ Earlier \in [DOMAIN Earlier -> JobType]
  /\ \A j \in DOMAIN Earlier :
       Earlier[j].phase = "done" /\ Earlier[j].doc \in Library /\ Earlier[j].rev = 0
<1> DEFINE row == [url |-> "page", phase |-> "done", doc |-> <<"page", "page">>,
                   rev |-> 0, code |-> "none"]
<1>1. row \in JobType
  BY DEF JobType, Phase, Terminal, Code, DocumentKind, Url, Web
<1>2. row.phase = "done" /\ row.doc \in Library /\ row.rev = 0
  BY DEF Library
<1>3. Earlier = Upsert(NoRows, 1, row)
  BY DEF Earlier
<1> HIDE DEF row
<1>4. DOMAIN Earlier = {1} /\ Earlier = [j \in {1} |-> row]
  BY <1>3 DEF Upsert, NoRows
<1>5. IsFiniteSet({1}) /\ Cardinality({1}) = 1
  BY FS_Singleton
<1>6. Numbered(Earlier)
  BY <1>4, <1>5 DEF Numbered
<1> QED  BY <1>1, <1>2, <1>4, <1>6

LEMMA InitHub ==
  ASSUME NEW earlier, NEW first, NEW restless, HubInit(earlier, first, restless),
         Numbered(earlier), earlier \in [DOMAIN earlier -> JobType],
         \A j \in DOMAIN earlier :
           earlier[j].phase = "done" /\ earlier[j].doc \in first /\ earlier[j].rev = 0
  PROVE  HubInv
<1>1. jobs = earlier /\ aiJobs = NoRows /\ revisions = 0
      /\ documents = [d \in first |-> 0]
  BY DEF HubInit
<1>2. Numbered(aiJobs)
  BY <1>1, NoneNumbered
<1>3. TablesInv
  BY <1>1, <1>2 DEF TablesInv, NoRows
<1>4. DoneInv /\ WebPagesAreRead
  BY <1>1 DEF DoneInv, WebPagesAreRead
<1> QED  BY <1>3, <1>4 DEF HubInv

\* The first post of every call is to come, and the second one of the userscript's.
LEMMA InitBudget ==
  ASSUME HubInv, DOMAIN jobs = {}, strays = {},
         again = [c \in Caller |-> FALSE]
  PROVE  BudgetInv
<1> SUFFICES ASSUME NEW u \in Url
             PROVE  Cardinality(JobsFor(u)) + Cardinality(Pending(u, FALSE))
                      + Cardinality(Pending(u, TRUE))
                      <= Cardinality(CallsFor(u)) + Cardinality(Scripts(u))
  BY DEF BudgetInv
<1>1. JobsFor(u) = {}
  BY DEF JobsFor
<1>2. Pending(u, FALSE) \subseteq CallsFor(u)
  BY DEF Pending, CallsFor
<1>3. Pending(u, TRUE) \subseteq Scripts(u)
  BY DEF Pending, Scripts, MayPerform
<1> DEFINE made == Cardinality(JobsFor(u))
           first == Cardinality(Pending(u, FALSE))
           second == Cardinality(Pending(u, TRUE))
           calls == Cardinality(CallsFor(u))
           scripts == Cardinality(Scripts(u))
<1>4. first <= calls /\ second <= scripts
  BY <1>2, <1>3, Countable, FS_Subset
<1>5. made = 0 /\ first \in Nat /\ second \in Nat /\ calls \in Nat /\ scripts \in Nat
  BY <1>1, Countable, FS_CardinalityType, FS_EmptySet
<1> HIDE DEF made, first, second, calls, scripts
<1>6. made + first + second <= calls + scripts
  BY <1>4, <1>5
<1> QED  BY <1>6 DEF made, first, second, calls, scripts

LEMMA InitHolds == Init => IInv
<1>1. ASSUME HubInit(NoRows, {}, TRUE), ClientInit(TRUE), PageInit(FALSE) PROVE IInv
  <2>1. HubInv /\ DOMAIN jobs = {}
    <3>1. DOMAIN NoRows = {} /\ NoRows \in [{} -> JobType]
      BY DEF NoRows
    <3>2. HubInv
      BY <1>1, <3>1, NoneNumbered, InitHub
    <3> QED  BY <1>1, <3>1, <3>2 DEF HubInit
  <2>2. /\ kind \in [Caller -> {"cli", "userscript"}]
        /\ asked \in [Caller -> Url]
        /\ cpc = [c \in Caller |-> "create"]
        /\ link = [c \in Caller |-> "none"]
        /\ again = [c \in Caller |-> FALSE]
        /\ reply = [c \in Caller |-> None]
        /\ ticket = [c \in Caller |-> None]
        /\ report = [c \in Caller |-> Unsettled]
        /\ strays = {}
    BY <1>1 DEF ClientInit
  <2>3. Calling
    BY <1>1, <2>2 DEF PageInit, Calling
  <2>4. CallTypes
    BY <2>2 DEF CallTypes, Posts, Gets
  <2>5. StrayInv
    BY <2>2 DEF StrayInv
  <2>6. \A c \in Caller : TicketInv(c) /\ AnswerInv(c) /\ ReportInv(c)
    BY <2>2 DEF TicketInv, AnswerInv, ReportInv, Unsettled
  <2>7. BudgetInv
    BY <2>1, <2>2, InitBudget
  <2> QED  BY <2>1, <2>3, <2>4, <2>5, <2>6, <2>7 DEF IInv, CallsInv
<1>2. ASSUME HubInit(Earlier, Library, FALSE), ClientInit(FALSE), PageInit(TRUE)
      PROVE  IInv
  <2>1. HubInv
    BY <1>2, EarlierIsDone, InitHub
  <2>2. NotCalling
    BY <1>2 DEF ClientInit, NotCalling
  <2> QED  BY <2>1, <2>2 DEF IInv
<1> QED  BY <1>1, <1>2 DEF Init

LEMMA StepKeeps == IInv /\ [Next]_vars => IInv'
<1> SUFFICES ASSUME IInv, [Next]_vars PROVE IInv'
  OBVIOUS
<1>1. HubInv
  BY DEF IInv
<1>2. CASE Called
  <2>1. Calling
    BY <1>2 DEF Called
  <2>2. CASE HubStep /\ UNCHANGED <<clientVars, pageVars>>
    <3>1. HubInv' /\ Grows /\ MakesNone
      BY <1>1, <2>2, HubGrows
    <3>2. CallsInv' /\ BudgetInv'
      BY <1>1, <1>2, <2>2, <3>1, HubKeepsCalls
    <3>3. Calling'
      BY <2>1, <2>2 DEF Calling, clientVars, call, pageVars, selection
    <3> QED  BY <3>1, <3>2, <3>3 DEF IInv
  <2>3. CASE ClientStep /\ UNCHANGED pageVars
    <3>1. HubInv' /\ CallsInv' /\ BudgetInv' /\ UNCHANGED call
      BY <1>1, <1>2, <2>3, CallKeeps, StrayKeeps DEF ClientStep
    <3>2. Calling'
      BY <2>1, <2>3, <3>1 DEF Calling, call, pageVars, selection
    <3> QED  BY <3>1, <3>2 DEF IInv
  <2>4. CASE UNCHANGED vars
    <3>1. UNCHANGED tables /\ UNCHANGED clientVars /\ UNCHANGED pageVars
      BY <2>4 DEF vars, hubVars
    <3>2. HubInv' /\ Grows /\ MakesNone
      BY <1>1, <3>1, UntouchedGrows
    <3>3. CallsInv' /\ BudgetInv'
      BY <1>1, <1>2, <3>1, <3>2, HubKeepsCalls
    <3>4. Calling'
      BY <2>1, <3>1 DEF Calling, clientVars, call, pageVars, selection
    <3> QED  BY <3>2, <3>3, <3>4 DEF IInv
  <2> QED  BY <2>1, <2>2, <2>3, <2>4, NoPageStep DEF Next
<1>3. CASE NotCalling
  <2>1. ~ClientStep
    BY <1>3, NoClientStep
  <2>2. ASSUME UNCHANGED clientVars PROVE NotCalling'
    BY <1>3, <2>2 DEF NotCalling, clientVars, call, request, outcome
  <2>3. CASE HubStep /\ UNCHANGED <<clientVars, pageVars>>
    BY <1>1, <2>2, <2>3, HubGrows DEF IInv
  <2>4. CASE PageStep /\ UNCHANGED clientVars
    <3>1. (\E u \in Url : CreateJob(u)) \/ (\E d : QueueAI(d)) \/ UNCHANGED tables
      BY <2>4, PageUses
    <3>2. HubInv'
      BY <1>1, <3>1, CreateGrows, QueueGrows, UntouchedGrows
    <3> QED  BY <2>2, <2>4, <3>2 DEF IInv
  <2>5. CASE UNCHANGED vars
    <3>1. UNCHANGED tables /\ UNCHANGED clientVars
      BY <2>5 DEF vars, hubVars
    <3> QED  BY <1>1, <2>2, <3>1, UntouchedGrows DEF IInv
  <2> QED  BY <2>1, <2>3, <2>4, <2>5 DEF Next
<1> QED  BY <1>2, <1>3 DEF IInv, Called

\* The invariant of the Hub and of the calls holds in every reachable state, for any
\* finite number of callers.
THEOREM Inductive == Spec => []IInv
  BY InitHolds, StepKeeps, PTL DEF Spec

\* The fixtures stay out of the web: while opencli and the store work a web page fails
\* only because its URL names no text, or the page has none.
THEOREM WebIsRead == Spec => []WebPagesAreRead
<1>1. IInv => WebPagesAreRead
  BY DEF IInv, HubInv
<1> QED  BY <1>1, Inductive, PTL

\* What a call reports is so and stays so.
THEOREM TrueReports == Spec => []ReportsAreTrue
<1>1. IInv => ReportsAreTrue
  <2> SUFFICES ASSUME IInv, NEW c \in Caller,
                      report[c].status \notin {"none", "timeout", "error"}
               PROVE  LET row == jobs[ticket[c]]  ai == report[c].ai IN
                        /\ row.url = asked[c]
                        /\ row.phase = report[c].status
                        /\ row.phase \in Terminal
                        /\ ai # None => /\ aiJobs[ai].doc = row.doc
                                        /\ aiJobs[ai].rev >= row.rev
    BY DEF ReportsAreTrue
  <2>1. ~NotCalling
    BY DEF NotCalling, Unsettled
  <2>2. ReportInv(c)
    BY <2>1 DEF IInv, CallsInv
  <2> QED  BY <2>2 DEF ReportInv, HasTicket, Covers
<1> QED  BY <1>1, Inductive, PTL

\* A call makes one job, and the resend of the userscript at most one more, however
\* many callers there are and wherever their connections break.
THEOREM FewJobs == Spec => []JobsPerCall
<1>1. IInv => JobsPerCall
  <2> SUFFICES ASSUME IInv, NEW c \in Caller
               PROVE  Cardinality(JobsFor(asked[c])) <=
                        Cardinality(CallsFor(asked[c])) + Cardinality(Scripts(asked[c]))
    BY DEF JobsPerCall, JobsFor, CallsFor, Scripts
  <2> DEFINE u == asked[c]
  <2>1. HubInv
    BY DEF IInv
  <2> HIDE DEF u
  <2> DEFINE made == Cardinality(JobsFor(u))
             first == Cardinality(Pending(u, FALSE))
             second == Cardinality(Pending(u, TRUE))
             calls == Cardinality(CallsFor(u))
             scripts == Cardinality(Scripts(u))
  <2>2. /\ made \in Nat /\ first \in Nat /\ second \in Nat
        /\ calls \in Nat /\ scripts \in Nat
    BY <2>1, Countable, FS_CardinalityType
  <2>3. CASE Calling /\ BudgetInv
    <3>1. u \in Url
      BY <2>3 DEF Calling, u
    <3>2. made + first + second <= calls + scripts
      BY <2>3, <3>1 DEF BudgetInv
    <3> HIDE DEF made, first, second, calls, scripts
    <3>3. made <= calls + scripts
      BY <2>2, <3>2
    <3> QED  BY <3>3 DEF made, calls, scripts, u
  <2>4. CASE NotCalling
    <3>1. u = None
      BY <2>4 DEF NotCalling, u
    <3>2. \A j \in DOMAIN jobs : jobs[j].url \in Url
      BY <2>1 DEF HubInv, TablesInv, JobType
    <3>3. JobsFor(u) = {}
      BY <3>1, <3>2, AdaptersAssumption DEF JobsFor
    <3>4. made = 0
      BY <3>3, FS_EmptySet
    <3> HIDE DEF made, first, second, calls, scripts
    <3>5. made <= calls + scripts
      BY <2>2, <3>4
    <3> QED  BY <3>5 DEF made, calls, scripts, u
  <2> QED  BY <2>3, <2>4 DEF IInv
<1> QED  BY <1>1, Inductive, PTL
================================================================================
