-------------------------------- MODULE HubProof --------------------------------
(***************************************************************************)
(* Proofs about the HTTP handlers for every number of clients, handlers,    *)
(* documents, captures, broken connections, crashes and failing calls.  The  *)
(* packet store's own invariant is kept by whoever uses the store            *)
(* (PacketStoreProof, UseKeepsInv); the ledger of AI jobs only gains jobs.   *)
(***************************************************************************)
EXTENDS HubInvariant, SequenceTheorems, FiniteSetTheorems, TLAPS

Store == INSTANCE PacketStoreProof
           WITH Caller <- Handler, MaxCaptures <- MaxRequests,
                FineClock <- TRUE, MaxClock <- 0

IInv == Store!IInv /\ HubInv

-------------------------------------------------------------------------------
(* The packet store, as the handlers use it.                                  *)

\* The assumptions of the store.
LEMMA StoreAssumptions ==
  /\ TRUE \in BOOLEAN
  /\ None \notin Handler
  /\ None \notin Store!Packet /\ None \notin Store!Result
  BY HubAssumption
  DEF Packets!Packet, Packets!Result, Packets!Rev, Store!Packet, Store!Result, Store!Rev

\* What the store does for a handler, in either name.
LEMMA SameStep ==
  ASSUME NEW h \in Handler
  PROVE  /\ Packets!SaveStep(h) => Store!StoreStep(h)
         /\ Packets!StoreFault(h) => Store!StoreFault(h)
         /\ Packets!Reply(h) => Store!Leave(h)
         /\ \A d \in Doc, t \in Hash : Packets!Begin(h, d, t) => Store!Begin(h, d, t)
         /\ Packets!Die => Store!Die
  <1>1. Packets!SaveStep(h) => Store!StoreStep(h)
    BY DEF Packets!SaveStep, Packets!StoreStep, Store!StoreStep, Packets!Lookup,
           Packets!WriteFile, Packets!WriteRow, Store!Lookup, Store!WriteFile,
           Store!WriteRow, Packets!MuFree, Store!MuFree, Packets!Unchanged,
           Store!Unchanged, Packets!SaveReturns, Store!SaveReturns,
           Packets!Unlocked, Store!Unlocked, Packets!Saved, Store!Saved,
           Packets!Deduped, Store!Deduped, Packets!LatestRevision,
           Store!LatestRevision, Packets!disk, Store!disk, Packets!budget,
           Store!budget, Packets!Upsert, Store!Upsert, Packets!FileOf, Store!FileOf
  <1>2. Packets!StoreFault(h) => Store!StoreFault(h)
    BY DEF Packets!StoreFault, Store!StoreFault, Packets!LookupFault,
           Packets!WriteFileFault, Packets!WriteRowFault, Store!LookupFault,
           Store!WriteFileFault, Store!WriteRowFault, Packets!MuFree, Store!MuFree,
           Packets!SaveReturns, Store!SaveReturns, Packets!Unlocked, Store!Unlocked,
           Packets!Error, Store!Error, Packets!disk, Store!disk, Packets!Upsert,
           Store!Upsert, Packets!FileOf, Store!FileOf, Packets!Fails, Store!Fails,
           Packets!CutOff, Store!CutOff, Packets!AfterWriteError,
           Store!AfterWriteError
  <1>3. Packets!Reply(h) => Store!Leave(h)
    BY DEF Packets!Take, Store!Take, Packets!Reply, Store!Leave, Packets!Receipt,
           Store!Receipt, Packets!disk, Store!disk, Packets!budget, Store!budget
  <1>4. \A d \in Doc, t \in Hash : Packets!Begin(h, d, t) => Store!Begin(h, d, t)
    BY DEF Packets!Begin, Store!Begin, Packets!ReadClock, Store!ReadClock,
           Packets!RevisionID, Store!RevisionID, Packets!disk, Store!disk,
           Packets!budget, Store!budget
  <1>5. Packets!Die => Store!Die
    BY DEF Packets!Die, Store!Die, Packets!CutOff, Store!CutOff, Packets!Upsert,
           Store!Upsert, Packets!FileOf, Store!FileOf
  <1>6. QED
    BY <1>1, <1>2, <1>3, <1>4, <1>5

\* Crashes and failed calls are only counted up.
LEMMA Counters ==
  ASSUME Store!IInv, [Next]_vars
  PROVE  /\ captures' \in Nat /\ crashes' \in Nat /\ faults' \in Nat
         /\ crashes \in Nat /\ faults \in Nat
         /\ crashes' = 0 => crashes = 0
         /\ faults' = 0 => faults = 0
  <1> DEFINE Count ==
        /\ captures' = captures
        /\ crashes' = crashes \/ crashes' = crashes + 1
        /\ faults' = faults \/ faults' = faults + 1
  <1> USE DEF store, budget, Packets!budget, Packets!Fails
  <1>0. captures \in Nat /\ crashes \in Nat /\ faults \in Nat
    BY DEF Store!IInv, Store!TypeOK
  <1>1. ASSUME NEW h \in Handler, SaveStep(h) \/ SaveFault(h)
        PROVE  Count
    BY <1>1 DEF SaveStep, SaveFault, Packets!SaveStep, Packets!StoreStep,
                Packets!Lookup, Packets!WriteFile, Packets!WriteRow,
                Packets!StoreFault, Packets!LookupFault, Packets!WriteFileFault,
                Packets!WriteRowFault
  <1>2. ASSUME NEW h \in Handler, Deliver(h)
        PROVE  Count
    BY <1>2 DEF Deliver, Packets!Begin
  <1>3. ASSUME NEW h \in Handler, SnapshotReturns(h)
        PROVE  Count
    BY <1>3 DEF SnapshotReturns, Packets!Reply, Packets!Take
  <1>4. ASSUME NEW h \in Handler, EnqueueStep(h) \/ EnqueueFault(h)
        PROVE  Count
    BY <1>4 DEF EnqueueStep, EnqueueFault, EnqueueNotConfigured, EnqueueRead,
                EnqueueNotFound, EnqueueReuse, EnqueueAccept, EnqueueReturns
  <1>5. ASSUME NEW h \in Handler, Respond(h) \/ (\E d \in Doc : Ask(h, d))
        PROVE  Count
    BY <1>5 DEF Respond, Ask
  <1>6. ASSUME NEW c \in Client, Drop(c) \/ Reset(c)
        PROVE  Count
    BY <1>6 DEF Drop, Reset, Breaks
  <1>7. ASSUME NEW c \in Client, NEW d \in Doc, NEW t \in Hash, NEW auto \in BOOLEAN,
               Send(c, d, t, auto)
        PROVE  Count
    BY <1>7 DEF Send
  <1>8. ASSUME Crash
        PROVE  Count
    BY <1>8 DEF Crash
  <1>9. ASSUME NEW j \in DOMAIN jobs, QueueStep(j)
        PROVE  Count
    BY <1>9 DEF QueueStep
  <1>10. ASSUME UNCHANGED vars
         PROVE  Count
    BY <1>10 DEF vars
  <1>11. Count
    BY <1>1, <1>2, <1>3, <1>4, <1>5, <1>6, <1>7, <1>8, <1>9, <1>10 DEF Next
  <1>12. QED
    BY <1>0, <1>11

\* Every step of the handlers is a use of the store.
LEMMA StoreUsed ==
  ASSUME Store!IInv, Types, [Next]_vars
  PROVE  Store!Use
  <1> USE DEF store
  <1>1. captures' \in Nat /\ crashes' \in Nat /\ faults' \in Nat
    BY Counters
  <1>2. ASSUME UNCHANGED store
        PROVE  Store!Use
    BY <1>1, <1>2 DEF Store!Use, Store!Untouched, Store!disk, Store!callers
  <1>3. ASSUME NEW h \in Handler, SaveStep(h) \/ SaveFault(h) \/ SnapshotReturns(h)
        PROVE  Store!Use
    BY <1>1, <1>3, SameStep DEF SaveStep, SaveFault, SnapshotReturns, Store!Use
  <1>4. ASSUME NEW h \in Handler, Deliver(h)
        PROVE  Store!Use
    <2>1. PICK req \in network : Packets!Begin(h, req.doc, req.hash)
      BY <1>4 DEF Deliver
    <2>2. req.doc \in Doc /\ req.hash \in Hash
      BY DEF Types, Request
    <2>3. QED
      BY <1>1, <2>1, <2>2, SameStep DEF Store!Use
  <1>5. ASSUME NEW h \in Handler, EnqueueStep(h) \/ EnqueueFault(h) \/ Respond(h)
        PROVE  Store!Use
    BY <1>2, <1>5 DEF EnqueueStep, EnqueueFault, EnqueueNotConfigured, EnqueueRead,
                      EnqueueNotFound, EnqueueReuse, EnqueueAccept, EnqueueReturns,
                      Respond
  <1>6. ASSUME NEW h \in Handler, NEW d \in Doc, Ask(h, d)
        PROVE  Store!Use
    BY <1>2, <1>6 DEF Ask
  <1>7. ASSUME NEW c \in Client, Drop(c) \/ Reset(c)
        PROVE  Store!Use
    BY <1>2, <1>7 DEF Drop, Reset, Breaks
  <1>8. ASSUME NEW c \in Client, NEW d \in Doc, NEW t \in Hash, NEW auto \in BOOLEAN,
               Send(c, d, t, auto)
        PROVE  Store!Use
    BY <1>2, <1>8 DEF Send
  <1>9. CASE Crash
    <2>1. Store!Die
      BY <1>9 DEF Crash, Packets!Die, Store!Die, Packets!CutOff, Store!CutOff,
                  Packets!Upsert, Store!Upsert, Packets!FileOf, Store!FileOf
    <2>2. QED
      BY <1>1, <2>1 DEF Store!Use
  <1>10. ASSUME NEW j \in DOMAIN jobs, QueueStep(j)
         PROVE  Store!Use
    BY <1>2, <1>10 DEF QueueStep
  <1>11. CASE UNCHANGED vars
    BY <1>2, <1>11 DEF vars
  <1>12. QED
    BY <1>3, <1>4, <1>5, <1>6, <1>7, <1>8, <1>9, <1>10, <1>11 DEF Next

\* The store keeps its invariant while the handlers use it.
LEMMA StoreStepInv ==
  ASSUME Store!IInv, Types, [Next]_vars
  PROVE  Store!IInv'
  BY StoreUsed, Store!UseKeepsInv, StoreAssumptions
  DEF Store!ClockAssumption, Store!NobodyAssumption

-------------------------------------------------------------------------------
(* What a step does to the tables.                                            *)

\* The store has answered that the content is the latest already.
Dedupes(h) ==
  LET d == serves[h].doc IN
  /\ d \in DOMAIN documents
  /\ documents[d].hash = serves[h].hash
  /\ spc' = [spc EXCEPT ![h] = "returned"]
  /\ result' = [result EXCEPT ![h] = Store!Deduped(documents[d].rev)]
  /\ UNCHANGED <<documents, written>>

\* The packet is on its way.
Moves(h) ==
  /\ spc' = [spc EXCEPT ![h] = "write"] \/ spc' = [spc EXCEPT ![h] = "row"]
  /\ UNCHANGED <<result, documents, written>>

\* A row is written, with content that the document did not have.
Writes(h) ==
  LET d == serves[h].doc
      t == serves[h].hash
      r == packet[h].rev
  IN
  /\ d \in Doc /\ t \in Hash /\ r \in Nat
  /\ d \in DOMAIN documents => documents[d].hash # t
  /\ Packets!Holds(r, d, t)
  /\ spc' = [spc EXCEPT ![h] = "returned"]
  /\ result' = [result EXCEPT ![h] = Store!Saved(r)]
  /\ documents' = Upsert(documents, d, [rev |-> r, hash |-> t])
  /\ written' = Append(written, [doc |-> d, hash |-> t, rev |-> r])

\* Every statement of SavePacketIfChanged is one of these.
LEMMA SaveEffect ==
  ASSUME IInv, NEW h \in Handler, SaveStep(h)
  PROVE  /\ hpc[h] = "save"
         /\ Dedupes(h) \/ Moves(h) \/ Writes(h)
  <1> USE DEF Packets!SaveReturns, Packets!disk
  <1>1. Packets!Lookup(h) \/ Packets!WriteFile(h) \/ Packets!WriteRow(h)
    BY DEF SaveStep, Packets!SaveStep, Packets!StoreStep
  <1>2. spc[h] # "idle"
    BY <1>1 DEF Packets!Lookup, Packets!WriteFile, Packets!WriteRow
  <1>3. hpc[h] = "save" /\ serves[h] \in Request
    BY <1>2 DEF IInv, HubInv, HandlersInv, HandlerInv, Captures
  <1>4. /\ packet[h].doc = serves[h].doc /\ packet[h].hash = serves[h].hash
        /\ packet[h].doc \in Doc /\ packet[h].hash \in Hash
    BY <1>3 DEF IInv, HubInv, HandlersInv, HandlerInv, Request
  <1>5. packet[h].rev \in Nat
    <2>1. packet[h] \in Store!Packet
      BY <1>2 DEF IInv, Store!IInv, Store!CallInv, Store!TypeOK
    <2>2. QED
      BY <2>1 DEF Store!Packet, Store!Rev
  <1>6. CASE Packets!Lookup(h)
    <2>1. UNCHANGED <<documents, written>>
      BY <1>6 DEF Packets!Lookup, SaveStep, RowWritten
    <2>2. CASE Packets!Unchanged(packet[h])
      BY <1>3, <1>4, <1>6, <2>1, <2>2
      DEF Packets!Lookup, Packets!Unchanged, Packets!LatestRevision, Packets!Deduped,
          Store!Deduped, Dedupes
    <2>3. CASE ~Packets!Unchanged(packet[h])
      BY <1>3, <1>6, <2>1, <2>3 DEF Packets!Lookup, Moves
    <2>4. QED
      BY <2>2, <2>3
  <1>7. CASE Packets!WriteFile(h)
    <2>1. UNCHANGED <<documents, written>>
      BY <1>7 DEF Packets!WriteFile, SaveStep, RowWritten
    <2>2. QED
      BY <1>3, <1>7, <2>1 DEF Packets!WriteFile, Moves
  <1>8. CASE Packets!WriteRow(h)
    <2> DEFINE d == serves[h].doc
               t == serves[h].hash
               r == packet[h].rev
               row == [rev |-> r, hash |-> t]
    <2>1. d \in DOMAIN documents => documents[d].hash # t
      BY <1>4, <1>8 DEF IInv, Store!IInv, Store!ComparedInv, Store!Unchanged,
                        Packets!WriteRow
    <2>2. documents' = Upsert(documents, d, row)
      BY <1>4, <1>8 DEF Packets!WriteRow, Packets!Upsert, Upsert
    <2>3. documents' # documents /\ documents'[d] = row
      BY <2>1, <2>2 DEF Upsert
    <2>4. written' = Append(written, [doc |-> d, hash |-> t, rev |-> r])
      BY <2>3 DEF SaveStep, RowWritten
    <2>5. /\ spc' = [spc EXCEPT ![h] = "returned"]
          /\ result' = [result EXCEPT ![h] = Store!Saved(r)]
      BY <1>8 DEF Packets!WriteRow, Packets!Saved, Store!Saved
    <2>6. Packets!Holds(r, d, t)
      BY <1>4, <1>8 DEF IInv, Store!IInv, Store!ContentInv, Store!WrittenInv, Store!Holds,
                        Packets!Holds, Packets!WriteRow
    <2>7. QED
      BY <1>3, <1>4, <1>5, <2>1, <2>2, <2>4, <2>5, <2>6 DEF Writes
  <1>9. QED
    BY <1>1, <1>6, <1>7, <1>8

\* Only a row that is written changes the table or its history.
LEMMA TableStep ==
  ASSUME IInv, [Next]_vars
  PROVE  \/ UNCHANGED <<documents, written>>
         \/ \E h \in Handler : Writes(h)
  <1> USE DEF store, recorded
  <1> DEFINE Same == UNCHANGED <<documents, written>>
  <1>1. ASSUME NEW h \in Handler, SaveStep(h)
        PROVE  Same \/ Writes(h)
    BY <1>1, SaveEffect DEF Dedupes, Moves
  <1>2. ASSUME NEW h \in Handler, SaveFault(h)
        PROVE  Same
    BY <1>2 DEF SaveFault, Packets!StoreFault, Packets!LookupFault,
                Packets!WriteFileFault, Packets!WriteRowFault, Packets!disk
  <1>3. ASSUME NEW h \in Handler, Deliver(h) \/ SnapshotReturns(h)
        PROVE  Same
    BY <1>3 DEF Deliver, Packets!Begin, SnapshotReturns, Packets!Reply, Packets!Take,
                Packets!disk
  <1>4. ASSUME NEW h \in Handler, EnqueueStep(h) \/ EnqueueFault(h)
        PROVE  Same
    BY <1>4 DEF EnqueueStep, EnqueueFault, EnqueueNotConfigured, EnqueueRead,
                EnqueueNotFound, EnqueueReuse, EnqueueAccept, EnqueueReturns
  <1>5. ASSUME NEW h \in Handler, Respond(h) \/ (\E d \in Doc : Ask(h, d))
        PROVE  Same
    BY <1>5 DEF Respond, Ask
  <1>6. ASSUME NEW c \in Client, Drop(c) \/ Reset(c)
        PROVE  Same
    BY <1>6 DEF Drop, Reset, Breaks
  <1>7. ASSUME NEW c \in Client, NEW d \in Doc, NEW t \in Hash, NEW auto \in BOOLEAN,
               Send(c, d, t, auto)
        PROVE  Same
    BY <1>7 DEF Send
  <1>8. ASSUME Crash
        PROVE  Same
    BY <1>8 DEF Crash, Packets!Die
  <1>9. ASSUME NEW j \in DOMAIN jobs, QueueStep(j)
        PROVE  Same
    BY <1>9 DEF QueueStep
  <1>10. ASSUME UNCHANGED vars
         PROVE  Same
    BY <1>10 DEF vars
  <1>11. QED
    BY <1>1, <1>2, <1>3, <1>4, <1>5, <1>6, <1>7, <1>8, <1>9, <1>10 DEF Next

\* A row at the end of the history.
LEMMA Appended ==
  ASSUME IInv, NEW h \in Handler, Writes(h)
  PROVE  LET n == Len(written) + 1 IN
         /\ Len(written) \in Nat
         /\ DOMAIN written = 1 .. Len(written)
         /\ DOMAIN written' = DOMAIN written \cup {n}
         /\ \A i \in DOMAIN written : written'[i] = written[i]
         /\ written'[n] = [doc |-> serves[h].doc, hash |-> serves[h].hash,
                           rev |-> packet[h].rev]
         /\ n \notin DOMAIN written
         /\ written' \in Seq([doc : Doc, hash : Hash, rev : Nat])
  <1> DEFINE Row == [doc : Doc, hash : Hash, rev : Nat]
             row == [doc |-> serves[h].doc, hash |-> serves[h].hash, rev |-> packet[h].rev]
  <1>1. row \in Row /\ written \in Seq(Row) /\ written' = Append(written, row)
    BY DEF Writes, IInv, HubInv, Types
  <1> HIDE DEF row, Row
  <1>2. /\ Len(written) \in Nat /\ DOMAIN written = 1 .. Len(written)
        /\ written' \in Seq(Row)
        /\ Len(written') = Len(written) + 1
        /\ DOMAIN written' = 1 .. Len(written')
        /\ \A i \in 1 .. Len(written) : written'[i] = written[i]
        /\ written'[Len(written) + 1] = row
    BY <1>1
  <1>3. QED
    BY <1>2 DEF row, Row

\* The history only grows.
Grows == \A i \in DOMAIN written : i \in DOMAIN written' /\ written'[i] = written[i]

LEMMA HistoryGrows ==
  ASSUME IInv, [Next]_vars
  PROVE  Grows
  <1>1. CASE UNCHANGED written
    BY <1>1 DEF Grows
  <1>2. ASSUME NEW h \in Handler, Writes(h)
        PROVE  Grows
    BY <1>2, Appended DEF Grows
  <1>3. QED
    BY <1>1, <1>2, TableStep

\* What was recorded stays so.
LEMMA RecordStays ==
  ASSUME Grows
  PROVE  /\ \A d, t, r : Recorded(d, t, r) => Recorded(d, t, r)'
         /\ \A d, r, b : Since(d, r, b) => Since(d, r, b)'
  <1>1. ASSUME NEW d, NEW t, NEW r, Recorded(d, t, r)
        PROVE  Recorded(d, t, r)'
    BY <1>1 DEF Recorded, Grows
  <1>2. ASSUME NEW d, NEW r, NEW b, Since(d, r, b)
        PROVE  Since(d, r, b)'
    BY <1>2 DEF Since, Positions, Grows
  <1>3. QED
    BY <1>1, <1>2

LEMMA LatestStep ==
  ASSUME IInv, [Next]_vars
  PROVE  LatestInv'
  <1>0. LatestInv
    BY DEF IInv, HubInv
  <1>1. CASE UNCHANGED <<documents, written>>
    BY <1>0, <1>1 DEF LatestInv
  <1>2. ASSUME NEW h \in Handler, Writes(h)
        PROVE  LatestInv'
    <2> DEFINE n == Len(written) + 1
               d == serves[h].doc
               t == serves[h].hash
               r == packet[h].rev
    <2>1. /\ DOMAIN written' = DOMAIN written \cup {n}
          /\ \A i \in DOMAIN written : written'[i] = written[i] /\ i <= n
          /\ n <= n
          /\ written'[n] = [doc |-> d, hash |-> t, rev |-> r]
      <3>1. /\ Len(written) \in Nat
            /\ DOMAIN written = 1 .. Len(written)
            /\ DOMAIN written' = DOMAIN written \cup {n}
            /\ \A i \in DOMAIN written : written'[i] = written[i]
            /\ written'[n] = [doc |-> d, hash |-> t, rev |-> r]
        BY <1>2, Appended
      <3>2. QED
        BY <3>1
    <2>2. documents' = Upsert(documents, d, [rev |-> r, hash |-> t])
      BY <1>2 DEF Writes
    <2>3. /\ DOMAIN documents' = DOMAIN documents \cup {d}
          /\ documents'[d] = [rev |-> r, hash |-> t]
          /\ \A e \in DOMAIN documents : e # d => documents'[e] = documents[e]
      BY <2>2 DEF Upsert
    <2> HIDE DEF n, d, t, r
    <2>4. \A i \in DOMAIN written' : written'[i].doc \in DOMAIN documents'
      BY <1>0, <2>1, <2>3 DEF LatestInv
    <2>5. ASSUME NEW e \in DOMAIN documents'
          PROVE  \E i \in DOMAIN written' :
                   /\ written'[i] = [doc |-> e, hash |-> documents'[e].hash,
                                     rev |-> documents'[e].rev]
                   /\ \A k \in DOMAIN written' : written'[k].doc = e => k <= i
      <3>1. CASE e = d
        BY <2>1, <2>3, <3>1
      <3>2. CASE e # d
        <4>1. e \in DOMAIN documents /\ documents'[e] = documents[e]
          BY <2>3, <3>2
        <4>2. PICK i \in DOMAIN written :
                /\ written[i] = [doc |-> e, hash |-> documents[e].hash,
                                 rev |-> documents[e].rev]
                /\ \A k \in DOMAIN written : written[k].doc = e => k <= i
          BY <1>0, <4>1 DEF LatestInv
        <4>3. \A k \in DOMAIN written' : written'[k].doc = e => k <= i
          BY <2>1, <3>2, <4>2
        <4>4. QED
          BY <2>1, <4>1, <4>2, <4>3
      <3>3. QED
        BY <3>1, <3>2
    <2>6. QED
      BY <2>4, <2>5 DEF LatestInv
  <1>3. QED
    BY <1>1, <1>2, TableStep

\* Files are never replaced, and a row is written after its file.
LEMMA KeptStep ==
  ASSUME IInv, [Next]_vars
  PROVE  KeptInv'
  <1>0. KeptInv
    BY DEF IInv, HubInv
  <1>1. \A f \in DOMAIN files : f \in DOMAIN files' /\ files'[f] = files[f]
    BY StoreUsed, Store!FilesStep, StoreAssumptions
    DEF IInv, HubInv, Store!IInv, Store!ContentInv, Store!ClockAssumption,
        Store!NobodyAssumption
  <1>2. CASE UNCHANGED written
    BY <1>0, <1>1, <1>2 DEF KeptInv, Packets!Holds
  <1>3. ASSUME NEW h \in Handler, Writes(h)
        PROVE  KeptInv'
    <2> DEFINE n == Len(written) + 1
    <2>1. /\ DOMAIN written' = DOMAIN written \cup {n}
          /\ \A i \in DOMAIN written : written'[i] = written[i]
          /\ written'[n] = [doc |-> serves[h].doc, hash |-> serves[h].hash,
                            rev |-> packet[h].rev]
      BY <1>3, Appended
    <2>2. Packets!Holds(packet[h].rev, serves[h].doc, serves[h].hash)
      BY <1>3 DEF Writes
    <2> HIDE DEF n
    <2>3. ASSUME NEW i \in DOMAIN written'
          PROVE  Packets!Holds(written[i].rev, written[i].doc, written[i].hash)'
      <3>1. CASE i \in DOMAIN written
        BY <1>0, <1>1, <2>1, <3>1 DEF KeptInv, Packets!Holds
      <3>2. CASE i = n
        <4>1. /\ written'[i].doc = serves[h].doc /\ written'[i].hash = serves[h].hash
              /\ written'[i].rev = packet[h].rev
          BY <2>1, <3>2
        <4>2. QED
          BY <1>1, <2>2, <4>1 DEF Packets!Holds
      <3>3. QED
        BY <2>1, <3>1, <3>2
    <2>4. QED
      BY <2>3 DEF KeptInv
  <1>4. QED
    BY <1>2, <1>3, TableStep

\* A row that is written has other content than the last one of its document.
LEMMA AlternatesStep ==
  ASSUME IInv, [Next]_vars
  PROVE  AlternatesInv'
  <1>0. AlternatesInv /\ LatestInv
    BY DEF IInv, HubInv
  <1>1. CASE UNCHANGED written
    BY <1>0, <1>1 DEF AlternatesInv
  <1>2. ASSUME NEW h \in Handler, Writes(h)
        PROVE  AlternatesInv'
    <2> DEFINE n == Len(written) + 1
               d == serves[h].doc
               t == serves[h].hash
    <2>1. /\ DOMAIN written' = DOMAIN written \cup {n}
          /\ \A i \in DOMAIN written : written'[i] = written[i]
          /\ written'[n].doc = d /\ written'[n].hash = t
      <3>1. /\ DOMAIN written' = DOMAIN written \cup {n}
            /\ \A i \in DOMAIN written : written'[i] = written[i]
            /\ written'[n] = [doc |-> d, hash |-> t, rev |-> packet[h].rev]
        BY <1>2, Appended
      <3>2. QED
        BY <3>1
    <2>2. d \in DOMAIN documents => documents[d].hash # t
      BY <1>2 DEF Writes
    <2> HIDE DEF n, d, t
    <2> DEFINE Other(e, s) ==
          \E m \in DOMAIN written' : written'[m].doc = e /\ written'[m].hash # s
    <2>3. ASSUME NEW i \in DOMAIN written, written[i].doc = d
          PROVE  Other(d, t)
      <3>1. d \in DOMAIN documents
        BY <1>0, <2>3 DEF LatestInv
      <3>2. PICK k \in DOMAIN written :
              written[k] = [doc |-> d, hash |-> documents[d].hash, rev |-> documents[d].rev]
        BY <1>0, <3>1 DEF LatestInv
      <3>3. k \in DOMAIN written' /\ written'[k].doc = d /\ written'[k].hash # t
        BY <2>1, <2>2, <3>1, <3>2
      <3>4. QED
        BY <3>3
    <2>4. ASSUME NEW i \in DOMAIN written', NEW k \in DOMAIN written',
                 i # k, written'[i].doc = written'[k].doc,
                 written'[i].hash = written'[k].hash
          PROVE  Other(written'[i].doc, written'[i].hash)
      <3>1. CASE i \in DOMAIN written /\ k \in DOMAIN written
        <4>1. PICK m \in DOMAIN written :
                written[m].doc = written[i].doc /\ written[m].hash # written[i].hash
          BY <1>0, <2>1, <2>4, <3>1 DEF AlternatesInv
        <4>2. QED
          BY <2>1, <3>1, <4>1
      <3>2. CASE i \notin DOMAIN written
        <4>1. i = n /\ k \in DOMAIN written
          BY <2>1, <2>4, <3>2
        <4>2. QED
          BY <2>1, <2>3, <2>4, <4>1
      <3>3. CASE k \notin DOMAIN written
        <4>1. k = n /\ i \in DOMAIN written
          BY <2>1, <2>4, <3>3
        <4>2. QED
          BY <2>1, <2>3, <2>4, <4>1
      <3>4. QED
        BY <3>1, <3>2, <3>3
    <2>5. QED
      BY <2>4 DEF AlternatesInv
  <1>3. QED
    BY <1>1, <1>2, TableStep

\* The latest revision of a document was the latest one when any earlier one was, or
\* later.
LEMMA LatestIsLast ==
  ASSUME IInv, NEW d, NEW t, NEW r, Recorded(d, t, r)
  PROVE  /\ d \in DOMAIN documents
         /\ Since(d, r, documents[d].rev)
  <1>1. PICK i \in DOMAIN written : written[i] = [doc |-> d, hash |-> t, rev |-> r]
    BY DEF Recorded
  <1>2. d \in DOMAIN documents
    BY <1>1 DEF IInv, HubInv, LatestInv
  <1>3. PICK k \in DOMAIN written :
          /\ written[k] = [doc |-> d, hash |-> documents[d].hash,
                           rev |-> documents[d].rev]
          /\ i <= k
    BY <1>1, <1>2 DEF IInv, HubInv, LatestInv
  <1>4. i \in Positions(d, r) /\ k \in Positions(d, documents[d].rev)
    BY <1>1, <1>3 DEF Positions
  <1>5. QED
    BY <1>2, <1>3, <1>4 DEF Since

\* Jobs are never forgotten, nor bound to other work.
JobsKept ==
  \A j \in DOMAIN jobs : j \in DOMAIN jobs' /\ jobs'[j].work = jobs[j].work

LedgerTypes ==
  /\ IsFiniteSet(DOMAIN jobs)
  /\ DOMAIN jobs \subseteq JobId
  /\ jobs \in [DOMAIN jobs -> JobRow]

\* The job a handler adds.
LEMMA AcceptEffect ==
  ASSUME IInv, NEW h \in Handler, EnqueueAccept(h)
  PROVE  LET j == Cardinality(DOMAIN jobs) IN
         /\ j \in Nat
         /\ JobsKept /\ LedgerTypes'
         /\ j \in DOMAIN jobs'
         /\ jobs'[j].work = <<serves[h].doc, bound[h]>>
         /\ EnqueueReturns(h, j)
  <1> DEFINE j == Cardinality(DOMAIN jobs)
             work == <<serves[h].doc, bound[h]>>
             row == [work |-> work, phase |-> "waiting", answer |-> None]
  <1>1. IsFiniteSet(DOMAIN jobs) /\ DOMAIN jobs \subseteq Nat /\ jobs \in [DOMAIN jobs -> JobRow]
    BY DEF IInv, HubInv, Types, JobId
  <1>2. j \in Nat
    BY <1>1, FS_CardinalityType
  <1>3. work \in Work
    <2>1. hpc[h] = "find"
      BY DEF EnqueueAccept, Finds
    <2>2. serves[h].doc \in Doc /\ bound[h] \in Nat
      BY <2>1 DEF IInv, HubInv, HandlersInv, HandlerInv, Types
    <2>3. QED
      BY <2>2 DEF Work
  <1>4. row \in JobRow
    BY <1>3 DEF JobRow
  <1>5. jobs' = Upsert(jobs, j, row) /\ j \notin DOMAIN jobs /\ EnqueueReturns(h, j)
    BY DEF EnqueueAccept, Ledger!Accept, Ledger!Upsert, Upsert
  <1>6. row.work = work
    OBVIOUS
  <1> HIDE DEF j, row, work
  <1>7. /\ DOMAIN jobs' = DOMAIN jobs \cup {j}
        /\ jobs'[j] = row
        /\ \A i \in DOMAIN jobs : jobs'[i] = jobs[i]
        /\ jobs' = [i \in DOMAIN jobs' |-> jobs'[i]]
    BY <1>5 DEF Upsert
  <1>8. IsFiniteSet(DOMAIN jobs')
    BY <1>1, <1>7, FS_AddElement
  <1>9. LedgerTypes'
    BY <1>1, <1>2, <1>4, <1>7, <1>8 DEF LedgerTypes, JobId
  <1>10. QED
    BY <1>2, <1>5, <1>6, <1>7, <1>9 DEF JobsKept, j, work

LEMMA JobsStep ==
  ASSUME IInv, [Next]_vars
  PROVE  JobsKept /\ LedgerTypes'
  <1> USE DEF ledger
  <1>0. LedgerTypes
    BY DEF IInv, HubInv, Types, LedgerTypes
  <1>1. ASSUME UNCHANGED jobs
        PROVE  JobsKept /\ LedgerTypes'
    BY <1>0, <1>1 DEF JobsKept, LedgerTypes
  <1>2. ASSUME DOMAIN jobs' = DOMAIN jobs, jobs' = [j \in DOMAIN jobs |-> jobs'[j]],
               \A j \in DOMAIN jobs : jobs'[j].work = jobs[j].work /\ jobs'[j] \in JobRow
        PROVE  JobsKept /\ LedgerTypes'
    BY <1>0, <1>2 DEF JobsKept, LedgerTypes
  <1>3. ASSUME NEW back \in SUBSET DOMAIN jobs, Ledger!GiveBack(back)
        PROVE  JobsKept /\ LedgerTypes'
    <2>1. jobs' = [j \in DOMAIN jobs |->
                     IF j \in back THEN [jobs[j] EXCEPT !.phase = "waiting"] ELSE jobs[j]]
      BY <1>3 DEF Ledger!GiveBack
    <2>2. \A j \in DOMAIN jobs : jobs'[j].work = jobs[j].work /\ jobs'[j] \in JobRow
      BY <1>0, <2>1 DEF LedgerTypes, JobRow
    <2>3. QED
      BY <1>2, <2>1, <2>2
  <1>4. ASSUME NEW j \in DOMAIN jobs, QueueStep(j)
        PROVE  JobsKept /\ LedgerTypes'
    <2> USE DEF LedgerTypes, JobRow, JobId
    <2>1. CASE Ledger!Begin(j)
      <3>1. jobs' = [jobs EXCEPT ![j].phase = "running"]
        BY <2>1 DEF Ledger!Begin
      <3>2. \A i \in DOMAIN jobs : jobs'[i].work = jobs[i].work /\ jobs'[i] \in JobRow
        BY <1>0, <3>1
      <3>3. QED
        BY <1>2, <3>1, <3>2
    <2>2. CASE Ledger!GiveUp(j)
      <3>1. jobs' = [jobs EXCEPT ![j].phase = "failed"]
        BY <2>2 DEF Ledger!GiveUp
      <3>2. \A i \in DOMAIN jobs : jobs'[i].work = jobs[i].work /\ jobs'[i] \in JobRow
        BY <1>0, <3>1
      <3>3. QED
        BY <1>2, <3>1, <3>2
    <2>3. CASE Ledger!Complete(j, j)
      <3>1. jobs' = [jobs EXCEPT ![j].phase = "done", ![j].answer = j]
        BY <2>3 DEF Ledger!Complete
      <3>2. \A i \in DOMAIN jobs : jobs'[i].work = jobs[i].work /\ jobs'[i] \in JobRow
        BY <1>0, <3>1
      <3>3. QED
        BY <1>2, <3>1, <3>2
    <2>4. CASE Ledger!Answer(j, j)
      BY <1>1, <2>4 DEF Ledger!Answer
    <2>5. CASE Ledger!GiveBack({j})
      BY <1>3, <2>5
    <2>6. QED
      BY <1>4, <2>1, <2>2, <2>3, <2>4, <2>5 DEF QueueStep
  <1>5. CASE Crash
    BY <1>1, <1>3, <1>5 DEF Crash, Running
  <1>6. ASSUME NEW h \in Handler, SaveStep(h) \/ SaveFault(h) \/ Deliver(h) \/ SnapshotReturns(h)
        PROVE  JobsKept /\ LedgerTypes'
    BY <1>1, <1>6 DEF SaveStep, SaveFault, Deliver, SnapshotReturns
  <1>7. ASSUME NEW h \in Handler, EnqueueStep(h) \/ EnqueueFault(h)
        PROVE  JobsKept /\ LedgerTypes'
    BY <1>1, <1>7, AcceptEffect
    DEF EnqueueStep, EnqueueFault, EnqueueNotConfigured, EnqueueRead, EnqueueNotFound,
        EnqueueReuse
  <1>8. ASSUME NEW h \in Handler, Respond(h) \/ (\E d \in Doc : Ask(h, d))
        PROVE  JobsKept /\ LedgerTypes'
    BY <1>1, <1>8 DEF Respond, Ask
  <1>9. ASSUME NEW c \in Client, Drop(c) \/ Reset(c)
        PROVE  JobsKept /\ LedgerTypes'
    BY <1>1, <1>9 DEF Drop, Reset, Breaks
  <1>10. ASSUME NEW c \in Client, NEW d \in Doc, NEW t \in Hash, NEW auto \in BOOLEAN,
                Send(c, d, t, auto)
         PROVE  JobsKept /\ LedgerTypes'
    BY <1>1, <1>10 DEF Send
  <1>11. CASE UNCHANGED vars
    BY <1>1, <1>11 DEF vars
  <1>12. QED
    BY <1>4, <1>5, <1>6, <1>7, <1>8, <1>9, <1>10, <1>11 DEF Next

-------------------------------------------------------------------------------
(* What a step does to the handlers.                                          *)

\* A step of handler h.
Handles(h) ==
  \/ Deliver(h) \/ SaveStep(h) \/ SaveFault(h) \/ SnapshotReturns(h)
  \/ EnqueueStep(h) \/ EnqueueFault(h) \/ Respond(h)
  \/ \E d \in Doc : Ask(h, d)

\* Handler g is left alone.
Steady(g) ==
  /\ hpc'[g] = hpc[g] /\ serves'[g] = serves[g] /\ answer'[g] = answer[g]
  /\ bound'[g] = bound[g] /\ spc'[g] = spc[g] /\ packet'[g] = packet[g]
  /\ result'[g] = result[g]

HandlerTypes ==
  /\ configured \in BOOLEAN
  /\ hpc \in [Handler -> {"free", "save", "enqueue", "find", "reply"}]
  /\ DOMAIN serves = Handler
  /\ answer \in [Handler -> [rev : Nat \cup {None}, job : Nat \cup {None}]]
  /\ bound \in [Handler -> Nat \cup {None}]
  /\ enqueueMu \in Handler \cup {None}

\* The store's half of a handler.
LEMMA StoreTypes ==
  ASSUME IInv
  PROVE  /\ DOMAIN spc = Handler /\ DOMAIN packet = Handler /\ DOMAIN result = Handler
         /\ \A h \in Handler :
              spc[h] = "returned" =>
                /\ result[h].rev \in Nat \cup {None}
                /\ result[h].rev # None => result[h].ok
                /\ result[h].ok => result[h].rev # None
  <1>1. /\ DOMAIN spc = Handler /\ DOMAIN packet = Handler /\ DOMAIN result = Handler
    BY DEF IInv, Store!IInv, Store!TypeOK
  <1>2. ASSUME NEW h \in Handler, spc[h] = "returned"
        PROVE  result[h] \in Store!Result
    BY <1>2 DEF IInv, Store!IInv, Store!TypeOK, Store!CallInv
  <1>3. ASSUME NEW h \in Handler, spc[h] = "returned"
        PROVE  /\ result[h].rev \in Nat \cup {None}
               /\ result[h].rev # None => result[h].ok
               /\ result[h].ok => result[h].rev # None
    <2>1. CASE result[h] \in [ok : {TRUE}, rev : Nat, deduped : BOOLEAN]
      BY <2>1, HubAssumption
    <2>2. CASE result[h] \in [ok : {FALSE}, rev : {None}, deduped : {FALSE}]
      BY <2>2
    <2>3. QED
      BY <1>2, <1>3, <2>1, <2>2 DEF Store!Result, Store!Rev
  <1>4. QED
    BY <1>1, <1>3

\* A step is one of a handler, or it changes none, or it ends them all.
LEMMA OneHandlerSteps ==
  ASSUME IInv, [Next]_vars
  PROVE  \/ (\A g \in Handler : Steady(g)) /\ UNCHANGED <<configured, enqueueMu>>
         \/ Crash
         \/ \E h \in Handler : /\ Handles(h)
                               /\ \A g \in Handler : g # h => Steady(g)
                               /\ UNCHANGED configured
  <1> USE DEF handlers, store, queueing
  <1> DEFINE Others(h) == (\A g \in Handler : g # h => Steady(g)) /\ UNCHANGED configured
             Nobody == (\A g \in Handler : Steady(g)) /\ UNCHANGED <<configured, enqueueMu>>
  <1>0. /\ DOMAIN spc = Handler /\ DOMAIN packet = Handler /\ DOMAIN result = Handler
        /\ DOMAIN hpc = Handler /\ DOMAIN serves = Handler /\ DOMAIN answer = Handler
        /\ DOMAIN bound = Handler
    BY StoreTypes DEF IInv, HubInv, Types
  <1>1. ASSUME NEW h \in Handler, Deliver(h)
        PROVE  Others(h)
    BY <1>0, <1>1 DEF Deliver, Goto, Packets!Begin, Steady
  <1>2. ASSUME NEW h \in Handler, SaveStep(h)
        PROVE  Others(h)
    <2>1. CASE Packets!Lookup(h)
      BY <1>0, <1>2, <2>1 DEF SaveStep, Packets!Lookup, Packets!SaveReturns, Steady
    <2>2. CASE Packets!WriteFile(h) \/ Packets!WriteRow(h)
      BY <1>0, <1>2, <2>2 DEF SaveStep, Packets!WriteFile, Packets!WriteRow,
                              Packets!SaveReturns, Steady
    <2>3. QED
      BY <1>2, <2>1, <2>2 DEF SaveStep, Packets!SaveStep, Packets!StoreStep
  <1>3. ASSUME NEW h \in Handler, SaveFault(h)
        PROVE  Others(h)
    <2>1. Packets!SaveReturns(h, Packets!Error)
      BY <1>3 DEF SaveFault, Packets!StoreFault, Packets!LookupFault,
                  Packets!WriteFileFault, Packets!WriteRowFault, Packets!AfterWriteError
    <2>2. QED
      BY <1>0, <1>3, <2>1 DEF SaveFault, Packets!SaveReturns, Steady
  <1>4. ASSUME NEW h \in Handler, SnapshotReturns(h)
        PROVE  Others(h)
    BY <1>0, <1>4 DEF SnapshotReturns, Goto, Packets!Reply, Packets!Take, Steady
  <1>5. ASSUME NEW h \in Handler, EnqueueStep(h) \/ EnqueueFault(h)
        PROVE  Others(h)
    <2>1. CASE EnqueueRead(h)
      BY <1>0, <2>1 DEF EnqueueRead, Goto, Steady
    <2>2. ASSUME NEW j, EnqueueReturns(h, j)
          PROVE  Others(h)
      BY <1>0, <2>2 DEF EnqueueReturns, Goto, Steady
    <2>3. QED
      BY <1>5, <2>1, <2>2 DEF EnqueueStep, EnqueueFault, EnqueueNotConfigured,
                              EnqueueNotFound, EnqueueReuse, EnqueueAccept
  <1>6. ASSUME NEW h \in Handler, Respond(h) \/ (\E d \in Doc : Ask(h, d))
        PROVE  Others(h)
    <2>1. CASE Respond(h)
      BY <1>0, <2>1 DEF Respond, Goto, Steady
    <2>2. ASSUME NEW d \in Doc, Ask(h, d)
          PROVE  Others(h)
      BY <1>0, <2>2 DEF Ask, Goto, Steady
    <2>3. QED
      BY <1>6, <2>1, <2>2
  <1>7. ASSUME NEW c \in Client, Drop(c) \/ Reset(c)
        PROVE  Nobody
    BY <1>7 DEF Drop, Reset, Breaks, Steady
  <1>8. ASSUME NEW c \in Client, NEW d \in Doc, NEW t \in Hash, NEW auto \in BOOLEAN,
               Send(c, d, t, auto)
        PROVE  Nobody
    BY <1>8 DEF Send, Steady
  <1>9. ASSUME NEW j \in DOMAIN jobs, QueueStep(j)
        PROVE  Nobody
    BY <1>9 DEF QueueStep, Steady
  <1>10. ASSUME UNCHANGED vars
         PROVE  Nobody
    BY <1>10 DEF vars, Steady
  <1> HIDE DEF Others, Nobody, handlers, store, queueing
  <1>11. Nobody \/ Crash \/ \E h \in Handler : Handles(h) /\ Others(h)
    BY <1>1, <1>2, <1>3, <1>4, <1>5, <1>6, <1>7, <1>8, <1>9, <1>10 DEF Next, Handles
  <1>12. QED
    BY <1>11 DEF Others, Nobody

LEMMA HandlerTypesStep ==
  ASSUME IInv, [Next]_vars
  PROVE  HandlerTypes'
  <1> USE DEF handlers, store, queueing, Goto
  <1>0. HandlerTypes
    BY DEF IInv, HubInv, Types, HandlerTypes
  <1>1. ASSUME NEW h \in Handler, Deliver(h) \/ (\E d \in Doc : Ask(h, d))
        PROVE  HandlerTypes'
    BY <1>0, <1>1 DEF HandlerTypes, Deliver, Ask
  <1>2. ASSUME NEW h \in Handler, SaveStep(h) \/ SaveFault(h)
        PROVE  HandlerTypes'
    BY <1>0, <1>2 DEF HandlerTypes, SaveStep, SaveFault
  <1>3. ASSUME NEW h \in Handler, SnapshotReturns(h)
        PROVE  HandlerTypes'
    <2>1. result[h].rev \in Nat \cup {None}
      BY <1>3, StoreTypes DEF SnapshotReturns, Packets!Reply, Packets!Take
    <2>2. answer' = [answer EXCEPT ![h].rev = result[h].rev]
      BY <1>3 DEF SnapshotReturns
    <2>3. answer' \in [Handler -> [rev : Nat \cup {None}, job : Nat \cup {None}]]
      BY <1>0, <2>1, <2>2 DEF HandlerTypes
    <2>4. QED
      BY <1>0, <1>3, <2>3 DEF HandlerTypes, SnapshotReturns, QueuesAI
  <1>4. ASSUME NEW h \in Handler, NEW j \in Nat \cup {None}, EnqueueReturns(h, j)
        PROVE  HandlerTypes'
    BY <1>0, <1>4 DEF HandlerTypes, EnqueueReturns, Unlocked
  <1>5. ASSUME NEW h \in Handler, EnqueueRead(h)
        PROVE  HandlerTypes'
    <2>1. LatestRevision(h) \in Nat
      BY <1>5 DEF EnqueueRead, LatestRevision, IInv, Store!IInv, Store!TypeOK, Store!Row,
                  Store!Rev
    <2>2. QED
      BY <1>0, <1>5, <2>1 DEF HandlerTypes, EnqueueRead
  <1>6. ASSUME NEW h \in Handler, EnqueueStep(h) \/ EnqueueFault(h)
        PROVE  HandlerTypes'
    <2>1. CASE EnqueueAccept(h)
      BY <1>4, <2>1, AcceptEffect
    <2>2. CASE EnqueueReuse(h)
      <3>1. PICK j \in Reusable(h) : EnqueueReturns(h, j)
        BY <2>2 DEF EnqueueReuse
      <3>2. j \in Nat
        BY DEF Reusable, Ledger!Live, IInv, HubInv, Types, JobId
      <3>3. QED
        BY <1>4, <3>1, <3>2
    <2>3. QED
      BY <1>4, <1>5, <1>6, <2>1, <2>2
      DEF EnqueueStep, EnqueueFault, EnqueueNotConfigured, EnqueueNotFound
  <1>7. ASSUME NEW h \in Handler, Respond(h)
        PROVE  HandlerTypes'
    BY <1>0, <1>7 DEF HandlerTypes, Respond, NoAnswer
  <1>8. CASE Crash
    BY <1>0, <1>8 DEF HandlerTypes, Crash, NoAnswer
  <1>9. CASE UNCHANGED <<handlers>>
    BY <1>0, <1>9 DEF HandlerTypes
  <1>10. ASSUME NEW c \in Client,
                \/ Drop(c) \/ Reset(c)
                \/ \E d \in Doc, t \in Hash, auto \in BOOLEAN : Send(c, d, t, auto)
         PROVE  HandlerTypes'
    BY <1>9, <1>10 DEF Drop, Reset, Breaks, Send
  <1>11. ASSUME NEW j \in DOMAIN jobs, QueueStep(j)
         PROVE  HandlerTypes'
    BY <1>9, <1>11 DEF QueueStep
  <1>12. CASE UNCHANGED vars
    BY <1>9, <1>12 DEF vars
  <1>13. QED
    BY <1>1, <1>2, <1>3, <1>6, <1>7, <1>8, <1>10, <1>11, <1>12 DEF Next

\* What Enqueue answers, if anything, is a row of the table.
LEMMA EnqueueEffect ==
  ASSUME IInv, NEW h \in Handler, EnqueueStep(h) \/ EnqueueFault(h), ~EnqueueRead(h)
  PROVE  \E j \in DOMAIN jobs' \cup {None} :
           /\ EnqueueReturns(h, j)
           /\ j = None => \/ ~configured
                          \/ serves[h].doc \notin DOMAIN documents
                          \/ faults' = faults + 1
           /\ j # None => hpc[h] = "find" /\ jobs'[j].work = <<serves[h].doc, bound[h]>>
  <1> USE HubAssumption
  <1>1. CASE EnqueueAccept(h)
    <2>1. hpc[h] = "find"
      BY <1>1 DEF EnqueueAccept, Finds
    <2>2. QED
      BY <1>1, <2>1, AcceptEffect
  <1>2. CASE EnqueueReuse(h)
    <2>1. PICK j \in Reusable(h) : EnqueueReturns(h, j)
      BY <1>2 DEF EnqueueReuse
    <2>2. jobs' = jobs
      BY <1>2 DEF EnqueueReuse, ledger
    <2>3. j \in DOMAIN jobs /\ jobs[j].work = <<serves[h].doc, bound[h]>>
      BY DEF Reusable, Ledger!Live
    <2>4. j # None
      BY <2>3 DEF IInv, HubInv, Types, JobId
    <2>5. hpc[h] = "find"
      BY <1>2 DEF EnqueueReuse, Finds
    <2>6. QED
      BY <2>1, <2>2, <2>3, <2>4, <2>5
  <1>3. CASE EnqueueNotConfigured(h) \/ EnqueueNotFound(h) \/ EnqueueFault(h)
    BY <1>3 DEF EnqueueNotConfigured, EnqueueNotFound, EnqueueFault, Packets!Fails
  <1>4. QED
    BY <1>1, <1>2, <1>3 DEF EnqueueStep

LEMMA HandlersStep ==
  ASSUME IInv, [Next]_vars
  PROVE  HandlersInv'
  <1> USE DEF handlers, store, queueing, Goto
  <1>0. /\ HandlersInv /\ HandlerTypes /\ HandlerTypes'
        /\ DOMAIN spc = Handler /\ DOMAIN packet = Handler /\ DOMAIN result = Handler
    BY StoreTypes, HandlerTypesStep DEF IInv, HubInv, Types, HandlerTypes
  <1>1. JobsKept
    BY JobsStep
  <1>2. ASSUME NEW g \in Handler, Steady(g)
        PROVE  HandlerInv(g)'
    BY <1>0, <1>1, <1>2 DEF Steady, HandlersInv, HandlerInv, Captures, NoAnswer, JobsKept
  <1>3. ASSUME NEW g \in Handler, Deliver(g)
        PROVE  HandlerInv(g)'
    <2>1. PICK req \in network :
            serves' = [serves EXCEPT ![g] = req] /\ Packets!Begin(g, req.doc, req.hash)
      BY <1>3 DEF Deliver
    <2>2. req \in Request /\ req.doc \in Doc
      BY DEF IInv, HubInv, Types, Request
    <2>3. /\ serves'[g] = req /\ hpc'[g] = "save" /\ answer' = answer /\ hpc[g] = "free"
      BY <1>0, <1>3, <2>1 DEF Deliver, HandlerTypes
    <2>4. /\ spc'[g] = "lookup" /\ packet'[g].doc = req.doc /\ packet'[g].hash = req.hash
      BY <1>0, <2>1 DEF Packets!Begin
    <2>5. answer[g] = NoAnswer
      BY <1>0, <2>3 DEF HandlersInv, HandlerInv
    <2>6. QED
      BY <2>2, <2>3, <2>4, <2>5 DEF HandlerInv, Captures, NoAnswer
  <1>4. ASSUME NEW g \in Handler, SaveStep(g) \/ SaveFault(g)
        PROVE  HandlerInv(g)'
    <2>1. /\ spc[g] # "idle" /\ spc'[g] # "idle" /\ packet' = packet
      <3>1. CASE SaveStep(g)
        BY <1>0, <3>1 DEF SaveStep, Packets!SaveStep, Packets!StoreStep, Packets!Lookup,
                   Packets!WriteFile, Packets!WriteRow, Packets!SaveReturns
      <3>2. CASE SaveFault(g)
        BY <1>0, <3>2 DEF SaveFault, Packets!StoreFault, Packets!LookupFault,
                   Packets!WriteFileFault, Packets!WriteRowFault,
                   Packets!AfterWriteError, Packets!SaveReturns
      <3>3. QED
        BY <1>4, <3>1, <3>2
    <2>2. UNCHANGED <<hpc, serves, answer, bound, jobs>>
      BY <1>4 DEF SaveStep, SaveFault, ledger
    <2>3. QED
      BY <1>0, <2>1, <2>2 DEF HandlersInv, HandlerInv, Captures, NoAnswer
  <1>5. ASSUME NEW g \in Handler, SnapshotReturns(g)
        PROVE  HandlerInv(g)'
    <2>1. spc[g] = "returned" /\ spc'[g] = "idle"
      BY <1>0, <1>5 DEF SnapshotReturns, Packets!Reply, Packets!Take
    <2>2. hpc[g] = "save" /\ answer[g] = NoAnswer /\ serves[g] \in Request
      BY <1>0, <2>1 DEF HandlersInv, HandlerInv, Captures
    <2>3. hpc'[g] \in {"enqueue", "reply"} /\ serves' = serves
      BY <1>0, <1>5 DEF SnapshotReturns, HandlerTypes
    <2>4. answer'[g].job = None
      BY <1>0, <1>5, <2>2 DEF SnapshotReturns, HandlerTypes, NoAnswer
    <2>5. serves[g].doc \in Doc
      BY <2>2 DEF Request
    <2>6. QED
      BY <2>1, <2>2, <2>3, <2>4, <2>5 DEF HandlerInv, Captures
  <1>6. ASSUME NEW g \in Handler, EnqueueRead(g)
        PROVE  HandlerInv(g)'
    <2>1. /\ hpc[g] = "enqueue" /\ hpc'[g] = "find"
          /\ UNCHANGED <<serves, answer, jobs, spc, packet>>
      BY <1>0, <1>6 DEF EnqueueRead, Reads, Locks, HandlerTypes, ledger
    <2>2. bound'[g] # None
      <3>1. LatestRevision(g) \in Nat
        BY <1>6 DEF EnqueueRead, LatestRevision, IInv, Store!IInv, Store!TypeOK,
                    Store!Row, Store!Rev
      <3>2. QED
        BY <1>0, <1>6, <3>1, HubAssumption DEF EnqueueRead, HandlerTypes
    <2>3. QED
      BY <1>0, <2>1, <2>2 DEF HandlersInv, HandlerInv, Captures, NoAnswer
  <1>7. ASSUME NEW g \in Handler, EnqueueStep(g) \/ EnqueueFault(g), ~EnqueueRead(g)
        PROVE  HandlerInv(g)'
    <2>1. PICK j \in DOMAIN jobs' \cup {None} : EnqueueReturns(g, j)
      BY <1>7, EnqueueEffect
    <2>2. hpc[g] \in {"enqueue", "find"}
      BY <1>7 DEF EnqueueStep, EnqueueFault, EnqueueNotConfigured, EnqueueNotFound,
                  EnqueueReuse, EnqueueAccept, Finds, Reads, Locks
    <2>3. /\ hpc'[g] = "reply"
          /\ answer'[g].job = j /\ answer'[g].rev = answer[g].rev
          /\ UNCHANGED <<serves, spc, packet>>
      BY <1>0, <2>1 DEF EnqueueReturns, HandlerTypes
    <2>4. QED
      BY <1>0, <2>1, <2>2, <2>3 DEF HandlersInv, HandlerInv, Captures
  <1>8. ASSUME NEW g \in Handler, Respond(g)
        PROVE  HandlerInv(g)'
    BY <1>0, <1>8 DEF HandlersInv, HandlerInv, Captures, NoAnswer, Respond, HandlerTypes
  <1>9. ASSUME NEW g \in Handler, NEW d \in Doc, Ask(g, d)
        PROVE  HandlerInv(g)'
    <2>1. /\ hpc[g] = "free" /\ hpc'[g] = "enqueue" /\ serves'[g].doc = d
          /\ UNCHANGED <<answer, spc>>
      BY <1>0, <1>9 DEF Ask, HandlerTypes
    <2>2. QED
      BY <1>0, <2>1 DEF HandlersInv, HandlerInv, Captures, NoAnswer
  <1>10. ASSUME NEW g \in Handler, Crash
         PROVE  HandlerInv(g)'
    BY <1>10 DEF Crash, Packets!Die, HandlerInv, Captures, NoAnswer
  <1> HIDE DEF handlers, store, queueing, Goto
  <1>11. ASSUME NEW g \in Handler
         PROVE  HandlerInv(g)'
    BY <1>2, <1>3, <1>4, <1>5, <1>6, <1>7, <1>8, <1>9, <1>10, OneHandlerSteps DEF Handles
  <1>12. QED
    BY <1>11 DEF HandlersInv

\* Only Enqueue takes its lock, and it is given back with the answer.
LEMMA EnqueueLockStep ==
  ASSUME IInv, [Next]_vars
  PROVE  EnqueueLockInv'
  <1> USE DEF handlers, store, queueing, Goto
  <1>0. EnqueueLockInv /\ HandlerTypes /\ HandlersInv
    BY DEF IInv, HubInv, Types, HandlerTypes
  <1>1. ASSUME UNCHANGED enqueueMu, UNCHANGED hpc
        PROVE  EnqueueLockInv'
    BY <1>0, <1>1 DEF EnqueueLockInv
  <1>2. ASSUME NEW h \in Handler, UNCHANGED enqueueMu,
               hpc[h] # "find", NEW pc, pc # "find", hpc' = [hpc EXCEPT ![h] = pc]
        PROVE  EnqueueLockInv'
    BY <1>0, <1>2 DEF EnqueueLockInv, HandlerTypes
  <1>3. ASSUME NEW h \in Handler, Deliver(h) \/ Respond(h) \/ (\E d \in Doc : Ask(h, d))
        PROVE  EnqueueLockInv'
    BY <1>2, <1>3 DEF Deliver, Respond, Ask
  <1>4. ASSUME NEW h \in Handler, SnapshotReturns(h)
        PROVE  EnqueueLockInv'
    <2>1. hpc[h] = "save"
      BY <1>0, <1>4 DEF SnapshotReturns, Packets!Reply, Packets!Take, HandlersInv, HandlerInv
    <2>2. QED
      BY <1>2, <1>4, <2>1 DEF SnapshotReturns
  <1>5. ASSUME NEW h \in Handler, EnqueueRead(h)
        PROVE  EnqueueLockInv'
    BY <1>0, <1>5, HubAssumption
    DEF EnqueueRead, Reads, Locks, EnqueueLockInv, HandlerTypes
  <1>6. ASSUME NEW h \in Handler, EnqueueStep(h) \/ EnqueueFault(h), ~EnqueueRead(h)
        PROVE  EnqueueLockInv'
    <2>1. \/ hpc[h] = "enqueue" /\ enqueueMu = None
          \/ hpc[h] = "find"
      BY <1>6 DEF EnqueueStep, EnqueueFault, EnqueueNotConfigured, EnqueueNotFound,
                  EnqueueReuse, EnqueueAccept, Finds, Reads, Locks
    <2>2. enqueueMu' = None /\ hpc' = [hpc EXCEPT ![h] = "reply"]
      BY <1>6, EnqueueEffect DEF EnqueueReturns, Unlocked
    <2>3. \A g \in Handler : hpc'[g] # "find"
      BY <1>0, <2>1, <2>2, HubAssumption DEF EnqueueLockInv, HandlerTypes
    <2>4. QED
      BY <2>2, <2>3, HubAssumption DEF EnqueueLockInv
  <1>7. CASE Crash
    BY <1>7, HubAssumption DEF Crash, EnqueueLockInv
  <1>8. ASSUME NEW h \in Handler, SaveStep(h) \/ SaveFault(h)
        PROVE  EnqueueLockInv'
    BY <1>1, <1>8 DEF SaveStep, SaveFault
  <1>9. ASSUME NEW c \in Client,
               \/ Drop(c) \/ Reset(c)
               \/ \E d \in Doc, t \in Hash, auto \in BOOLEAN : Send(c, d, t, auto)
        PROVE  EnqueueLockInv'
    BY <1>1, <1>9 DEF Drop, Reset, Breaks, Send
  <1>10. ASSUME NEW j \in DOMAIN jobs, QueueStep(j)
         PROVE  EnqueueLockInv'
    BY <1>1, <1>10 DEF QueueStep
  <1>11. CASE UNCHANGED vars
    BY <1>1, <1>11 DEF vars
  <1>12. QED
    BY <1>3, <1>4, <1>5, <1>6, <1>7, <1>8, <1>9, <1>10, <1>11 DEF Next

-------------------------------------------------------------------------------
(* What a handler knows of the revision it answers with.                      *)

LEMMA AnswerStep ==
  ASSUME IInv, [Next]_vars
  PROVE  AnswerInv'
  <1> USE DEF handlers, store, queueing, Goto
  <1>0. /\ HandlersInv /\ HandlersInv' /\ HandlerTypes /\ AnswerInv
        /\ DOMAIN spc = Handler /\ DOMAIN packet = Handler /\ DOMAIN result = Handler
    BY StoreTypes, HandlersStep DEF IInv, HubInv, Types, HandlerTypes
  <1>1. JobsKept
    BY JobsStep
  <1>2. /\ Grows
        /\ \A d, t, r : Recorded(d, t, r) => Recorded(d, t, r)'
        /\ \A d, r, b : Since(d, r, b) => Since(d, r, b)'
    BY HistoryGrows, RecordStays
  <1>3. /\ crashes' = 0 => crashes = 0
        /\ faults' = 0 => faults = 0
        /\ faults \in Nat
    BY Counters DEF IInv
  \* A handler that the step leaves alone.
  <1>4. ASSUME NEW g \in Handler, Steady(g), UNCHANGED configured
        PROVE  AnswerOf(g)'
    <2>1. AnswerOf(g) /\ HandlerInv(g)
      BY <1>0 DEF AnswerInv, HandlersInv
    <2>2. spc'[g] = "returned" /\ result'[g].ok =>
            Recorded(serves[g].doc, serves[g].hash, result[g].rev)'
      BY <1>2, <1>4, <2>1 DEF Steady, AnswerOf, Recorded, Grows
    <2>3. ASSUME answer'[g].rev # None
          PROVE  /\ Recorded(serves[g].doc, serves[g].hash, answer[g].rev)'
                 /\ hpc'[g] = "find" => Since(serves[g].doc, answer[g].rev, bound[g])'
      BY <1>2, <1>4, <2>1, <2>3 DEF Steady, AnswerOf, Recorded, Since, Positions, Grows
    <2>4. ASSUME answer'[g].rev # None, answer'[g].job # None
          PROVE  /\ jobs'[answer'[g].job].work[1] = serves'[g].doc
                 /\ Since(serves[g].doc, answer[g].rev, jobs[answer[g].job].work[2])'
      <3>1. jobs'[answer'[g].job].work = jobs[answer[g].job].work
        BY <1>1, <1>4, <2>1, <2>4 DEF Steady, HandlerInv, JobsKept
      <3>2. /\ jobs[answer[g].job].work[1] = serves[g].doc
            /\ Since(serves[g].doc, answer[g].rev, jobs[answer[g].job].work[2])
        BY <1>4, <2>1, <2>4 DEF Steady, AnswerOf
      <3>3. QED
        BY <1>2, <1>4, <3>1, <3>2 DEF Steady, Since, Positions, Grows
    <2>5. answer'[g].rev # None /\ hpc'[g] = "reply" /\ serves'[g].auto /\ configured'
            /\ crashes' = 0 /\ faults' = 0 => answer'[g].job # None
      BY <1>3, <1>4, <2>1 DEF Steady, AnswerOf
    <2>6. QED
      BY <2>2, <2>3, <2>4, <2>5 DEF AnswerOf
  \* A handler without an answer yet.
  <1>5. ASSUME NEW g \in Handler, answer'[g] = NoAnswer,
               spc'[g] = "returned" /\ result'[g].ok =>
                 Recorded(serves[g].doc, serves[g].hash, result[g].rev)'
        PROVE  AnswerOf(g)'
    BY <1>5 DEF AnswerOf, NoAnswer
  <1>6. ASSUME NEW g \in Handler, Deliver(g)
        PROVE  AnswerOf(g)'
    <2>1. spc'[g] = "lookup" /\ hpc'[g] = "save"
      BY <1>0, <1>6 DEF Deliver, Packets!Begin, HandlerTypes
    <2>2. answer'[g] = NoAnswer
      BY <1>0, <2>1 DEF HandlersInv, HandlerInv
    <2>3. QED
      BY <1>5, <2>1, <2>2
  <1>7. ASSUME NEW g \in Handler, SaveStep(g)
        PROVE  AnswerOf(g)'
    <2>1. hpc[g] = "save" /\ (Dedupes(g) \/ Moves(g) \/ Writes(g))
      BY <1>7, SaveEffect
    <2>2. answer'[g] = NoAnswer /\ serves' = serves
      BY <1>0, <1>7, <2>1 DEF HandlersInv, HandlerInv, SaveStep
    <2>3. CASE Dedupes(g)
      <3> DEFINE d == serves[g].doc
      <3>1. d \in DOMAIN documents /\ documents[d].hash = serves[g].hash
        BY <2>3 DEF Dedupes
      <3>2. Recorded(d, serves[g].hash, documents[d].rev)
        BY <3>1 DEF IInv, HubInv, LatestInv, Recorded
      <3>3. result'[g].rev = documents[d].rev
        BY <1>0, <2>3 DEF Dedupes, Store!Deduped
      <3>4. Recorded(serves[g].doc, serves[g].hash, result[g].rev)'
        BY <1>2, <2>2, <3>2, <3>3 DEF Recorded, Grows
      <3>5. QED
        BY <1>5, <2>2, <3>4
    <2>4. CASE Moves(g)
      <3>1. spc'[g] # "returned"
        BY <1>0, <2>4 DEF Moves
      <3>2. QED
        BY <1>5, <2>2, <3>1
    <2>5. CASE Writes(g)
      <3>1. result'[g].rev = packet[g].rev
        BY <1>0, <2>5 DEF Writes, Store!Saved
      <3>2. /\ Len(written) + 1 \in DOMAIN written'
            /\ written'[Len(written) + 1] =
                 [doc |-> serves[g].doc, hash |-> serves[g].hash, rev |-> packet[g].rev]
        BY <2>5, Appended
      <3>3. Recorded(serves[g].doc, serves[g].hash, result[g].rev)'
        BY <2>2, <3>1, <3>2 DEF Recorded
      <3>4. QED
        BY <1>5, <2>2, <3>3
    <2>6. QED
      BY <2>1, <2>3, <2>4, <2>5
  <1>8. ASSUME NEW g \in Handler, SaveFault(g)
        PROVE  AnswerOf(g)'
    <2>1. Packets!SaveReturns(g, Packets!Error) /\ spc[g] # "idle"
      BY <1>8 DEF SaveFault, Packets!StoreFault, Packets!LookupFault,
                  Packets!WriteFileFault, Packets!WriteRowFault, Packets!AfterWriteError
    <2>2. ~result'[g].ok
      BY <1>0, <2>1 DEF Packets!SaveReturns, Packets!Error
    <2>3. answer'[g] = NoAnswer
      BY <1>0, <1>8, <2>1 DEF HandlersInv, HandlerInv, SaveFault
    <2>4. QED
      BY <1>5, <2>2, <2>3
  <1>9. ASSUME NEW g \in Handler, SnapshotReturns(g)
        PROVE  AnswerOf(g)'
    <2>1. spc[g] = "returned" /\ spc'[g] = "idle"
      BY <1>0, <1>9 DEF SnapshotReturns, Packets!Reply, Packets!Take
    <2>2. hpc[g] = "save" /\ answer[g] = NoAnswer
      BY <1>0, <2>1 DEF HandlersInv, HandlerInv
    <2>3. /\ answer'[g].rev = result[g].rev /\ answer'[g].job = None
          /\ UNCHANGED <<serves, written>>
          /\ hpc'[g] = IF QueuesAI(g) THEN "enqueue" ELSE "reply"
      BY <1>0, <1>9, <2>2 DEF SnapshotReturns, HandlerTypes, NoAnswer, recorded
    <2>4. ASSUME answer'[g].rev # None
          PROVE  /\ Recorded(serves[g].doc, serves[g].hash, answer[g].rev)'
                 /\ hpc'[g] = "reply" => ~serves'[g].auto
      <3>1. result[g].ok
        BY <2>1, <2>3, <2>4, StoreTypes
      <3>2. Recorded(serves[g].doc, serves[g].hash, result[g].rev)
        BY <1>0, <2>1, <3>1 DEF AnswerInv, AnswerOf
      <3>3. Recorded(serves[g].doc, serves[g].hash, answer[g].rev)'
        BY <2>3, <3>2 DEF Recorded
      <3>4. hpc'[g] = "reply" => ~serves'[g].auto
        BY <2>3, <3>1 DEF QueuesAI
      <3>5. QED
        BY <3>3, <3>4
    <2>5. hpc'[g] # "find"
      BY <2>3
    <2>6. QED
      BY <2>1, <2>3, <2>4, <2>5 DEF AnswerOf
  <1>10. ASSUME NEW g \in Handler, EnqueueRead(g)
         PROVE  AnswerOf(g)'
    <2> DEFINE d == serves[g].doc
               r == answer[g].rev
    <2>1. /\ hpc[g] = "enqueue" /\ hpc'[g] = "find"
          /\ UNCHANGED <<serves, answer, jobs, spc, written>>
          /\ bound'[g] = documents[d].rev
      BY <1>0, <1>10 DEF EnqueueRead, Reads, Locks, HandlerTypes, ledger, recorded,
                         LatestRevision
    <2>2. spc[g] = "idle" /\ answer[g].job = None
      <3>1. HandlerInv(g)
        BY <1>0 DEF HandlersInv
      <3>2. hpc[g] # "save" /\ hpc[g] # "reply"
        BY <2>1
      <3>3. QED
        BY <3>1, <3>2 DEF HandlerInv
    <2>3. ASSUME r # None
          PROVE  Recorded(d, serves[g].hash, r) /\ Since(d, r, documents[d].rev)
      <3>1. Recorded(d, serves[g].hash, r)
        BY <1>0, <2>3 DEF AnswerInv, AnswerOf
      <3>2. QED
        BY <3>1, LatestIsLast
    <2>4. r # None => /\ Recorded(serves[g].doc, serves[g].hash, answer[g].rev)'
                      /\ Since(serves[g].doc, answer[g].rev, bound[g])'
      BY <2>1, <2>3 DEF Recorded, Since, Positions
    <2>5. QED
      BY <2>1, <2>2, <2>4 DEF AnswerOf
  <1>11. ASSUME NEW g \in Handler, EnqueueStep(g) \/ EnqueueFault(g), ~EnqueueRead(g)
         PROVE  AnswerOf(g)'
    <2> DEFINE d == serves[g].doc
               r == answer[g].rev
    <2>1. PICK j \in DOMAIN jobs' \cup {None} :
            /\ EnqueueReturns(g, j)
            /\ j = None => \/ ~configured
                           \/ d \notin DOMAIN documents
                           \/ faults' = faults + 1
            /\ j # None => hpc[g] = "find" /\ jobs'[j].work = <<d, bound[g]>>
      BY <1>11, EnqueueEffect
    <2>2. /\ hpc'[g] = "reply"
          /\ answer'[g].job = j /\ answer'[g].rev = r
          /\ UNCHANGED <<serves, spc, result, written, configured>>
      BY <1>0, <2>1 DEF EnqueueReturns, HandlerTypes, recorded
    <2>3. spc[g] # "returned"
      <3>1. hpc[g] \in {"enqueue", "find"}
        BY <1>11 DEF EnqueueStep, EnqueueFault, EnqueueNotConfigured, EnqueueNotFound,
                     EnqueueReuse, EnqueueAccept, Finds, Reads, Locks
      <3>2. QED
        BY <1>0, <3>1 DEF HandlersInv, HandlerInv
    <2>4. ASSUME r # None
          PROVE  Recorded(d, serves[g].hash, r) /\ d \in DOMAIN documents
      <3>1. Recorded(d, serves[g].hash, r)
        BY <1>0, <2>4 DEF AnswerInv, AnswerOf
      <3>2. QED
        BY <3>1, LatestIsLast
    <2>5. r # None => Recorded(serves[g].doc, serves[g].hash, answer[g].rev)'
      BY <2>2, <2>4 DEF Recorded
    <2>6. ASSUME r # None, j # None
          PROVE  /\ jobs'[j].work[1] = serves'[g].doc
                 /\ Since(serves[g].doc, answer[g].rev, jobs[answer[g].job].work[2])'
      <3>1. Since(d, r, bound[g])
        BY <1>0, <2>1, <2>6 DEF AnswerInv, AnswerOf
      <3>2. jobs'[j].work[1] = d /\ jobs'[j].work[2] = bound[g]
        BY <2>1, <2>6
      <3>3. QED
        BY <2>2, <3>1, <3>2 DEF Since, Positions
    <2>7. r # None /\ configured /\ faults' = 0 => j # None
      BY <1>3, <2>1, <2>4
    <2>8. QED
      BY <2>2, <2>3, <2>5, <2>6, <2>7 DEF AnswerOf
  <1>12. ASSUME NEW g \in Handler, Respond(g) \/ (\E d \in Doc : Ask(g, d))
         PROVE  AnswerOf(g)'
    <2>1. answer'[g] = NoAnswer /\ hpc[g] \in {"free", "reply"} /\ UNCHANGED spc
      BY <1>0, <1>12 DEF Respond, Ask, HandlerTypes, HandlersInv, HandlerInv
    <2>2. spc'[g] # "returned"
      BY <1>0, <2>1 DEF HandlersInv, HandlerInv
    <2>3. QED
      BY <1>5, <2>1, <2>2
  <1>13. ASSUME NEW g \in Handler, Crash
         PROVE  AnswerOf(g)'
    BY <1>5, <1>13 DEF Crash, Packets!Die
  <1> HIDE DEF handlers, store, queueing, Goto
  <1>14. ASSUME NEW g \in Handler
         PROVE  AnswerOf(g)'
    BY <1>4, <1>6, <1>7, <1>8, <1>9, <1>10, <1>11, <1>12, <1>13, OneHandlerSteps
    DEF Handles
  <1>15. QED
    BY <1>14 DEF AnswerInv

-------------------------------------------------------------------------------
(* Answers.                                                                   *)

\* What a client is told of a capture that was stored.
Told(h) ==
  [id |-> serves[h].id, doc |-> serves[h].doc, hash |-> serves[h].hash,
   auto |-> serves[h].auto, rev |-> answer[h].rev, job |-> answer[h].job]

LEMMA NewReplies ==
  ASSUME IInv, [Next]_vars, NEW r \in replies', r \notin replies
  PROVE  \E h \in Handler : /\ Respond(h)
                            /\ hpc[h] = "reply"
                            /\ answer[h].rev # None
                            /\ r = Told(h)
  <1> USE DEF recorded
  <1>1. ASSUME NEW h \in Handler, Respond(h)
        PROVE  hpc[h] = "reply" /\ answer[h].rev # None /\ r = Told(h)
    BY <1>1 DEF Respond, Told
  <1>2. ASSUME NEW h \in Handler, Deliver(h) \/ SaveStep(h) \/ SaveFault(h) \/ SnapshotReturns(h)
        PROVE  FALSE
    BY <1>2 DEF Deliver, SaveStep, SaveFault, SnapshotReturns
  <1>3. ASSUME NEW h \in Handler, EnqueueStep(h) \/ EnqueueFault(h) \/ (\E d \in Doc : Ask(h, d))
        PROVE  FALSE
    BY <1>3 DEF EnqueueStep, EnqueueFault, EnqueueNotConfigured, EnqueueRead, EnqueueNotFound,
                EnqueueReuse, EnqueueAccept, EnqueueReturns, Ask
  <1>4. ASSUME NEW c \in Client,
               \/ Drop(c) \/ Reset(c)
               \/ \E d \in Doc, t \in Hash, auto \in BOOLEAN : Send(c, d, t, auto)
        PROVE  FALSE
    BY <1>4 DEF Drop, Reset, Breaks, Send
  <1>5. ~Crash
    BY DEF Crash
  <1>6. ASSUME NEW j \in DOMAIN jobs, QueueStep(j)
        PROVE  FALSE
    BY <1>6 DEF QueueStep
  <1>7. ~UNCHANGED vars
    BY DEF vars
  <1>8. QED
    BY <1>1, <1>2, <1>3, <1>4, <1>5, <1>6, <1>7 DEF Next

\* What is new in the answers, and what stays.
LEMMA RepliesStep ==
  ASSUME IInv, [Next]_vars
  PROVE  /\ RepliesInv' /\ JobCoversReceipt'
         /\ replies' \subseteq [id : Nat, doc : Doc, hash : Hash, auto : BOOLEAN,
                                rev : Nat, job : Nat \cup {None}]
  <1> DEFINE Type == [id : Nat, doc : Doc, hash : Hash, auto : BOOLEAN,
                      rev : Nat, job : Nat \cup {None}]
             Good(r) ==
               /\ Recorded(r.doc, r.hash, r.rev)
               /\ r.job # None =>
                    /\ r.job \in DOMAIN jobs
                    /\ jobs[r.job].work[1] = r.doc
                    /\ Since(r.doc, r.rev, jobs[r.job].work[2])
               /\ r.auto /\ configured /\ crashes = 0 /\ faults = 0 => r.job # None
  <1>0. /\ HandlersInv /\ HandlerTypes /\ AnswerInv /\ RepliesInv /\ JobCoversReceipt
        /\ replies \subseteq Type
    BY DEF IInv, HubInv, Types, HandlerTypes
  <1>1. /\ Grows /\ JobsKept
        /\ \A d, t, r : Recorded(d, t, r) => Recorded(d, t, r)'
        /\ \A d, r, b : Since(d, r, b) => Since(d, r, b)'
    BY HistoryGrows, RecordStays, JobsStep
  <1>2. crashes' = 0 => configured' = configured
    <2>1. CASE Crash
      BY <2>1, Counters DEF Crash, IInv
    <2>2. CASE UNCHANGED configured
      BY <2>2
    <2>3. QED
      BY <2>1, <2>2, OneHandlerSteps
  <1>3. /\ crashes' = 0 => crashes = 0
        /\ faults' = 0 => faults = 0
    BY Counters DEF IInv
  <1>4. ASSUME NEW r \in replies
        PROVE  Good(r)
    BY <1>0, <1>4 DEF RepliesInv, JobCoversReceipt, Since
  <1>5. ASSUME NEW r, Good(r)
        PROVE  Good(r)'
    <2>1. Recorded(r.doc, r.hash, r.rev)'
      BY <1>1, <1>5
    <2>2. ASSUME r.job # None
          PROVE  /\ r.job \in DOMAIN jobs'
                 /\ jobs'[r.job].work[1] = r.doc
                 /\ Since(r.doc, r.rev, jobs[r.job].work[2])'
      <3>1. r.job \in DOMAIN jobs /\ Since(r.doc, r.rev, jobs[r.job].work[2])
        BY <1>5, <2>2
      <3>2. r.job \in DOMAIN jobs' /\ jobs'[r.job].work = jobs[r.job].work
        BY <1>1, <3>1 DEF JobsKept
      <3>3. jobs'[r.job].work[1] = r.doc
        BY <1>5, <2>2, <3>2
      <3>4. Since(r.doc, r.rev, jobs[r.job].work[2])'
        BY <1>1, <3>1, <3>2 DEF Since, Positions, Grows
      <3>5. QED
        BY <3>2, <3>3, <3>4
    <2>3. r.auto /\ configured' /\ crashes' = 0 /\ faults' = 0 => r.job # None
      BY <1>2, <1>3, <1>5
    <2>4. QED
      BY <2>1, <2>2, <2>3
  <1>6. ASSUME NEW r \in replies', r \notin replies
        PROVE  Good(r) /\ r \in Type
    <2>1. PICK h \in Handler : /\ hpc[h] = "reply" /\ answer[h].rev # None
                               /\ r = Told(h)
      BY <1>6, NewReplies
    <2>2. AnswerOf(h) /\ HandlerInv(h)
      BY <1>0 DEF AnswerInv, HandlersInv
    <2>3. r \in Type
      <3>1. serves[h] \in Request
        BY <2>1, <2>2 DEF HandlerInv, Captures
      <3>2. answer[h].rev \in Nat /\ answer[h].job \in Nat \cup {None}
        BY <1>0, <2>1 DEF HandlerTypes
      <3>3. QED
        BY <2>1, <3>1, <3>2 DEF Told, Request
    <2>4. /\ r.doc = serves[h].doc /\ r.hash = serves[h].hash
          /\ r.rev = answer[h].rev /\ r.job = answer[h].job /\ r.auto = serves[h].auto
      BY <2>1 DEF Told
    <2>5. Good(r)
      BY <2>1, <2>2, <2>4 DEF AnswerOf, HandlerInv
    <2>6. QED
      BY <2>3, <2>5
  <1>7. replies' \subseteq Type
    BY <1>0, <1>6
  <1> HIDE DEF Type, Good
  <1>8. \A r \in replies' : Good(r)'
    BY <1>4, <1>5, <1>6
  <1>9. RepliesInv'
    BY <1>8 DEF RepliesInv, Good
  <1>10. JobCoversReceipt'
    BY <1>8 DEF JobCoversReceipt, Good, Since
  <1>11. QED
    BY <1>7, <1>9, <1>10 DEF Type

-------------------------------------------------------------------------------
(* Requests.                                                                  *)

\* The same capture.
Same(x, y) == x.id = y.id /\ x.doc = y.doc /\ x.hash = y.hash

ClientTypes ==
  /\ waiting \in [Client -> Request \cup {None}]
  /\ network \subseteq Request
  /\ requests \in Nat

\* A request is made with a new id, and otherwise only passed on.
Passed == \A x \in Asked' : \E y \in Asked : Same(x, y)

LEMMA PassedKeeps ==
  ASSUME IInv, Passed, requests' \in {requests, requests + 1}
  PROVE  NamesInv' /\ requests' \in Nat
  <1>0. NamesInv /\ requests \in Nat
    BY DEF IInv, HubInv, Types
  <1>1. ASSUME NEW x \in Asked', NEW y \in Asked'
        PROVE  x.id < requests' /\ (x.id = y.id => x.doc = y.doc /\ x.hash = y.hash)
    <2>1. PICK u \in Asked : Same(x, u)
      BY DEF Passed
    <2>2. PICK v \in Asked : Same(y, v)
      BY DEF Passed
    <2>3. u.id < requests /\ (u.id = v.id => u.doc = v.doc /\ u.hash = v.hash)
      BY <1>0 DEF NamesInv
    <2>4. u.id \in Nat
      BY DEF Asked, IInv, HubInv, Types, Request, HandlersInv, HandlerInv
    <2>5. QED
      BY <1>0, <2>1, <2>2, <2>3, <2>4 DEF Same
  <1>2. QED
    BY <1>0, <1>1 DEF NamesInv

\* A value that stands for a request that was there.
Known(x) == \E y \in Asked : Same(x, y)

LEMMA PassedParts ==
  ASSUME \A x \in network' : Known(x),
         \A x \in replies' : Known(x),
         \A c \in Client : waiting'[c] # None => Known(waiting'[c]),
         \A h \in Handler : Captures(h)' => Known(serves'[h])
  PROVE  Passed
  BY DEF Passed, Known, Asked

LEMMA KnownParts ==
  /\ \A x \in network : Known(x)
  /\ \A x \in replies : Known(x)
  /\ \A c \in Client : waiting[c] # None => Known(waiting[c])
  /\ \A h \in Handler : Captures(h) => Known(serves[h])
  BY DEF Known, Asked, Same

\* The client sends a capture that was not there.
LEMMA SendStep ==
  ASSUME IInv, NEW c \in Client, NEW d \in Doc, NEW t \in Hash, NEW auto \in BOOLEAN,
         Send(c, d, t, auto)
  PROVE  ClientTypes' /\ NamesInv'
  <1> DEFINE req == [id |-> requests, from |-> c, via |-> "fetch", doc |-> d, hash |-> t,
                     auto |-> auto]
  <1>0. ClientTypes /\ NamesInv
    BY DEF IInv, HubInv, Types, ClientTypes
  <1>1. /\ waiting' = [waiting EXCEPT ![c] = req]
        /\ network' = network \cup {req}
        /\ requests' = requests + 1
        /\ UNCHANGED <<hpc, serves, answer, replies>>
    BY DEF Send, NewRequest, handlers, recorded
  <1>2. req \in Request /\ req.id = requests
    BY <1>0 DEF ClientTypes, Request
  <1> HIDE DEF req
  <1>3. Asked' \subseteq Asked \cup {req}
    BY <1>0, <1>1 DEF ClientTypes, Asked, Captures
  <1>4. ASSUME NEW y \in Asked
        PROVE  y.id < requests /\ y.id \in Nat
    <2>1. y.id < requests
      BY <1>0, <1>4 DEF NamesInv
    <2>2. network \subseteq Request /\ \A x \in replies : x.id \in Nat
      BY DEF IInv, HubInv, Types
    <2>3. \A b \in Client : waiting[b] # None => waiting[b] \in Request
      BY DEF IInv, HubInv, Types
    <2>4. \A h \in Handler : Captures(h) => serves[h] \in Request
      BY DEF IInv, HubInv, HandlersInv, HandlerInv
    <2>5. y \in Request \/ y \in replies
      BY <1>4, <2>2, <2>3, <2>4 DEF Asked
    <2>6. QED
      BY <2>1, <2>2, <2>5 DEF Request
  <1>5. ASSUME NEW x \in Asked', NEW y \in Asked'
        PROVE  x.id < requests' /\ (x.id = y.id => x.doc = y.doc /\ x.hash = y.hash)
    <2>1. CASE x \in Asked /\ y \in Asked
      BY <1>0, <1>1, <1>4, <2>1 DEF NamesInv, ClientTypes
    <2>2. CASE x = req \/ y = req
      BY <1>0, <1>1, <1>2, <1>3, <1>4, <2>2 DEF ClientTypes
    <2>3. QED
      BY <1>3, <2>1, <2>2
  <1>6. ClientTypes'
    BY <1>0, <1>1, <1>2 DEF ClientTypes
  <1>7. QED
    BY <1>5, <1>6 DEF NamesInv

\* A connection breaks: the second copy asks for the same.
LEMMA BreaksStep ==
  ASSUME IInv, NEW c \in Client, NEW lost, waiting[c] # None, Breaks(c, lost)
  PROVE  ClientTypes' /\ Passed
  <1> DEFINE again == [waiting[c] EXCEPT !.via = "privileged"]
  <1>0. ClientTypes
    BY DEF IInv, HubInv, Types, ClientTypes
  <1>1. waiting[c] \in Request
    BY <1>0 DEF ClientTypes
  <1>2. again \in Request /\ Same(again, waiting[c])
    BY <1>1 DEF Request, Same
  <1> HIDE DEF again
  <1>3. /\ \/ waiting' = [waiting EXCEPT ![c] = again]
           \/ waiting' = [waiting EXCEPT ![c] = None]
        /\ network' \subseteq network \cup {again}
        /\ UNCHANGED <<hpc, serves, answer, replies, requests>>
    BY DEF Breaks, handlers, recorded, again
  <1>4. ClientTypes'
    BY <1>0, <1>2, <1>3 DEF ClientTypes
  <1>5. Known(again)
    BY <1>2, KnownParts DEF Known, Same
  <1>6. \A b \in Client : waiting'[b] # None => Known(waiting'[b])
    BY <1>0, <1>3, <1>5, KnownParts DEF ClientTypes
  <1>7. \A h \in Handler : Captures(h)' => Known(serves'[h])
    BY <1>3, KnownParts DEF Captures
  <1>8. \A x \in network' : Known(x)
    BY <1>3, <1>5, KnownParts
  <1>9. \A x \in replies' : Known(x)
    BY <1>3, KnownParts
  <1>10. QED
    BY <1>4, <1>6, <1>7, <1>8, <1>9, PassedParts

\* Nothing is asked that was not, when handlers only lose requests.
LEMMA PassedOn ==
  ASSUME network' \subseteq network, UNCHANGED <<waiting, replies>>,
         \A h \in Handler : Captures(h)' => Captures(h) /\ serves'[h] = serves[h]
  PROVE  Passed
  <1>1. \A h \in Handler : Captures(h)' => Known(serves'[h])
    BY KnownParts
  <1>2. \A x \in network' : Known(x)
    BY KnownParts
  <1>3. \A x \in replies' : Known(x)
    BY KnownParts
  <1>4. \A c \in Client : waiting'[c] # None => Known(waiting'[c])
    BY KnownParts
  <1>5. QED
    BY <1>1, <1>2, <1>3, <1>4, PassedParts

LEMMA DeliverPasses ==
  ASSUME IInv, NEW h \in Handler, Deliver(h)
  PROVE  network' \subseteq network /\ UNCHANGED <<waiting, requests>> /\ Passed
  <1>0. /\ HandlerTypes
    BY DEF IInv, HubInv, Types, HandlerTypes
  <1>1. PICK req \in network : /\ network' = network \ {req}
                               /\ serves' = [serves EXCEPT ![h] = req]
    BY DEF Deliver
  <1>2. /\ UNCHANGED <<waiting, replies, answer, requests>>
        /\ hpc' = [hpc EXCEPT ![h] = "save"]
    BY DEF Deliver, Goto, recorded, bounds
  <1>3. \A g \in Handler : Captures(g)' => Known(serves'[g])
    BY <1>0, <1>1, <1>2, KnownParts DEF Captures, HandlerTypes
  <1>4. \A x \in network' : Known(x)
    BY <1>1, KnownParts
  <1>5. \A x \in replies' : Known(x)
    BY <1>2, KnownParts
  <1>6. \A c \in Client : waiting'[c] # None => Known(waiting'[c])
    BY <1>2, KnownParts
  <1>7. QED
    BY <1>1, <1>2, <1>3, <1>4, <1>5, <1>6, PassedParts

LEMMA RespondPasses ==
  ASSUME IInv, [Next]_vars, NEW h \in Handler, Respond(h)
  PROVE  /\ \A c \in Client : waiting'[c] \in {waiting[c], None}
         /\ waiting' = [c \in Client |-> waiting'[c]]
         /\ UNCHANGED <<network, requests>>
         /\ Passed
  <1>0. /\ HandlerTypes
    BY DEF IInv, HubInv, Types, HandlerTypes
  <1>1. /\ \A c \in Client : waiting'[c] \in {waiting[c], None}
        /\ waiting' = [c \in Client |-> waiting'[c]]
        /\ UNCHANGED <<network, requests>>
    BY DEF Respond, bounds
  <1>2. \A g \in Handler : Captures(g)' => Captures(g) /\ serves'[g] = serves[g]
    BY <1>0 DEF Respond, Goto, Captures, NoAnswer, HandlerTypes
  <1>3. ASSUME NEW x \in replies'
        PROVE  Known(x)
    <2>1. CASE x \in replies
      BY <2>1, KnownParts
    <2>2. CASE x \notin replies
      <3>1. PICK g \in Handler : answer[g].rev # None /\ x = Told(g)
        BY <2>2, NewReplies
      <3>2. Captures(g) /\ Same(x, serves[g])
        BY <3>1 DEF Captures, Same, Told
      <3>3. QED
        BY <3>2, KnownParts DEF Known, Same
    <2>3. QED
      BY <2>1, <2>2
  <1>4. \A g \in Handler : Captures(g)' => Known(serves'[g])
    BY <1>2, KnownParts
  <1>5. \A c \in Client : waiting'[c] # None => Known(waiting'[c])
    BY <1>1, KnownParts
  <1>6. \A x \in network' : Known(x)
    BY <1>1, KnownParts
  <1>7. QED
    BY <1>1, <1>3, <1>4, <1>5, <1>6, PassedParts

LEMMA RequestsStep ==
  ASSUME IInv, [Next]_vars
  PROVE  ClientTypes' /\ NamesInv'
  <1> USE DEF handlers, clients, recorded, bounds
  <1>0. ClientTypes /\ HandlerTypes /\ HandlersInv
    BY DEF IInv, HubInv, Types, ClientTypes, HandlerTypes
  <1>1. ASSUME Passed, requests' \in {requests, requests + 1}, UNCHANGED waiting,
               network' \subseteq network
        PROVE  ClientTypes' /\ NamesInv'
    BY <1>0, <1>1, PassedKeeps DEF ClientTypes
  <1>2. ASSUME NEW c \in Client, Drop(c) \/ Reset(c)
        PROVE  ClientTypes' /\ NamesInv'
    <2>1. PICK lost : Breaks(c, lost)
      BY <1>2 DEF Drop, Reset
    <2>2. waiting[c] # None
      BY <1>2 DEF Drop, Reset
    <2>3. ClientTypes' /\ Passed
      BY <2>1, <2>2, BreaksStep
    <2>4. requests' = requests
      BY <2>1 DEF Breaks
    <2>5. QED
      BY <2>3, <2>4, PassedKeeps
  <1>3. ASSUME NEW h \in Handler, Deliver(h)
        PROVE  ClientTypes' /\ NamesInv'
    BY <1>1, <1>3, DeliverPasses
  <1>4. ASSUME NEW h \in Handler, Respond(h)
        PROVE  ClientTypes' /\ NamesInv'
    BY <1>0, <1>4, RespondPasses, PassedKeeps DEF ClientTypes
  <1>5. ASSUME NEW h \in Handler, SaveStep(h) \/ SaveFault(h)
        PROVE  ClientTypes' /\ NamesInv'
    <2>1. UNCHANGED <<waiting, network, requests, replies, hpc, answer, serves>>
      BY <1>5 DEF SaveStep, SaveFault
    <2>2. Passed
      BY <2>1, PassedOn DEF Captures
    <2>3. QED
      BY <1>1, <2>1, <2>2
  <1>6. ASSUME NEW h \in Handler, SnapshotReturns(h)
        PROVE  ClientTypes' /\ NamesInv'
    <2>1. UNCHANGED <<waiting, network, requests, replies, serves>>
      BY <1>6 DEF SnapshotReturns
    <2>2. hpc[h] = "save"
      BY <1>0, <1>6 DEF SnapshotReturns, Packets!Reply, Packets!Take, HandlersInv, HandlerInv
    <2>3. \A g \in Handler : g # h => hpc'[g] = hpc[g] /\ answer'[g] = answer[g]
      BY <1>0, <1>6 DEF SnapshotReturns, Goto, HandlerTypes
    <2>4. Passed
      BY <2>1, <2>2, <2>3, PassedOn DEF Captures
    <2>5. QED
      BY <1>1, <2>1, <2>4
  <1>7. ASSUME NEW h \in Handler, EnqueueRead(h)
        PROVE  ClientTypes' /\ NamesInv'
    <2>1. UNCHANGED <<waiting, network, requests, replies, serves, answer>>
      BY <1>7 DEF EnqueueRead
    <2>2. hpc' = [hpc EXCEPT ![h] = "find"]
      BY <1>7 DEF EnqueueRead, Goto
    <2>3. Passed
      BY <1>0, <2>1, <2>2, PassedOn DEF Captures, HandlerTypes
    <2>4. QED
      BY <1>1, <2>1, <2>3
  <1>8. ASSUME NEW h \in Handler, EnqueueStep(h) \/ EnqueueFault(h), ~EnqueueRead(h)
        PROVE  ClientTypes' /\ NamesInv'
    <2>1. PICK j : EnqueueReturns(h, j)
      BY <1>8, EnqueueEffect
    <2>2. UNCHANGED <<waiting, network, requests, replies, serves>>
      BY <2>1 DEF EnqueueReturns
    <2>3. /\ hpc' = [hpc EXCEPT ![h] = "reply"]
          /\ \A g \in Handler : answer'[g].rev = answer[g].rev
      BY <1>0, <2>1 DEF EnqueueReturns, Goto, HandlerTypes
    <2>4. Passed
      BY <1>0, <2>2, <2>3, PassedOn DEF Captures, HandlerTypes
    <2>5. QED
      BY <1>1, <2>2, <2>4
  <1>9. ASSUME NEW h \in Handler, NEW d \in Doc, Ask(h, d)
        PROVE  ClientTypes' /\ NamesInv'
    <2>1. /\ UNCHANGED <<waiting, network, replies, answer>>
          /\ requests' = requests + 1
          /\ hpc[h] = "free" /\ hpc' = [hpc EXCEPT ![h] = "enqueue"]
          /\ \A g \in Handler : g # h => serves'[g] = serves[g]
      BY <1>0, <1>9 DEF Ask, Goto, NewRequest, HandlerTypes
    <2>2. answer[h] = NoAnswer
      BY <1>0, <2>1 DEF HandlersInv, HandlerInv
    <2>3. Passed
      BY <1>0, <2>1, <2>2, PassedOn DEF Captures, NoAnswer, HandlerTypes
    <2>4. QED
      BY <1>1, <2>1, <2>3
  <1>10. CASE Crash
    <2>1. /\ UNCHANGED <<waiting, requests, replies>>
          /\ network' \subseteq network
          /\ \A g \in Handler : hpc'[g] = "free" /\ answer'[g] = NoAnswer
      BY <1>10 DEF Crash
    <2>2. Passed
      BY <2>1, PassedOn DEF Captures, NoAnswer
    <2>3. QED
      BY <1>1, <2>1, <2>2
  <1>11. ASSUME UNCHANGED <<waiting, network, requests, replies, hpc, answer, serves>>
         PROVE  ClientTypes' /\ NamesInv'
    BY <1>1, <1>11, PassedOn DEF Captures
  <1>12. ASSUME NEW j \in DOMAIN jobs, QueueStep(j)
         PROVE  ClientTypes' /\ NamesInv'
    BY <1>11, <1>12 DEF QueueStep
  <1>13. CASE UNCHANGED vars
    BY <1>11, <1>13 DEF vars
  <1> HIDE DEF handlers, clients, recorded, bounds
  <1>14. QED
    BY <1>2, <1>3, <1>4, <1>5, <1>6, <1>7, <1>8, <1>9, <1>10, <1>12, <1>13, SendStep
    DEF Next

-------------------------------------------------------------------------------
(* The invariant.                                                             *)

LEMMA InitHolds == Init => IInv
  <1> SUFFICES ASSUME Init PROVE IInv
    OBVIOUS
  <1>1. Store!IInv
    <2>1. Store!Init
      BY DEF Init, Packets!Init, Store!Init, Packets!NoRows, Store!NoRows
    <2>2. QED
      BY <2>1, Store!InitInv, StoreAssumptions
      DEF Store!ClockAssumption, Store!NobodyAssumption
  <1>2. /\ jobs = NoRows /\ documents = NoRows /\ written = <<>> /\ replies = {}
        /\ \A h \in Handler : spc[h] = "idle"
    BY DEF Init, Packets!Init, Ledger!Init, Packets!NoRows, Ledger!NoRows, NoRows
  <1>3. DOMAIN jobs = {} /\ DOMAIN documents = {} /\ DOMAIN written = {}
    BY <1>2 DEF NoRows
  <1>4. Types
    <2>1. IsFiniteSet(DOMAIN jobs)
      BY <1>3, FS_EmptySet
    <2>2. written \in Seq([doc : Doc, hash : Hash, rev : Nat])
      BY <1>2
    <2>3. jobs \in [DOMAIN jobs -> JobRow]
      BY <1>2 DEF NoRows
    <2>4. QED
      BY <1>2, <1>3, <2>1, <2>2, <2>3 DEF Init, Types, NoAnswer
  <1>5. HandlersInv /\ EnqueueLockInv /\ AnswerInv
    BY <1>2, HubAssumption
    DEF Init, HandlersInv, HandlerInv, Captures, NoAnswer, EnqueueLockInv, AnswerInv, AnswerOf
  <1>6. NamesInv
    <2>1. Asked = {}
      BY <1>2 DEF Init, Asked, Captures, NoAnswer
    <2>2. QED
      BY <2>1 DEF NamesInv
  <1>7. LatestInv /\ KeptInv /\ AlternatesInv /\ RepliesInv /\ JobCoversReceipt
    BY <1>2, <1>3 DEF LatestInv, KeptInv, AlternatesInv, RepliesInv, JobCoversReceipt
  <1>8. QED
    BY <1>1, <1>4, <1>5, <1>6, <1>7 DEF IInv, HubInv

LEMMA HistoryTypeStep ==
  ASSUME IInv, [Next]_vars
  PROVE  written' \in Seq([doc : Doc, hash : Hash, rev : Nat])
  <1>1. CASE UNCHANGED written
    BY <1>1 DEF IInv, HubInv, Types
  <1>2. ASSUME NEW h \in Handler, Writes(h)
        PROVE  written' \in Seq([doc : Doc, hash : Hash, rev : Nat])
    BY <1>2, Appended
  <1>3. QED
    BY <1>1, <1>2, TableStep

LEMMA StepKeeps == IInv /\ [Next]_vars => IInv'
  <1> SUFFICES ASSUME IInv, [Next]_vars PROVE IInv'
    OBVIOUS
  <1>1. Store!IInv'
    BY StoreStepInv DEF IInv, HubInv
  <1>2. Types'
    BY HandlerTypesStep, JobsStep, RepliesStep, RequestsStep, HistoryTypeStep
    DEF Types, HandlerTypes, LedgerTypes, ClientTypes
  <1>3. QED
    BY <1>1, <1>2, HandlersStep, EnqueueLockStep, RequestsStep, LatestStep, KeptStep,
       AlternatesStep, AnswerStep, RepliesStep
    DEF IInv, HubInv

\* The inductive invariant of the handlers, their store and their ledger.
THEOREM Inductive == Spec => []IInv
  BY InitHolds, StepKeeps, PTL DEF Spec

\* Whatever is captured meanwhile or sent twice, the AI job of a receipt is about its
\* document, in the receipt's revision or a later one; and a stored capture that asked
\* for AI work has a job unless a call failed, the Hub died or it has no key.
THEOREM ReceiptCovered == Spec => []JobCoversReceipt
<1>1. IInv => JobCoversReceipt
  BY DEF IInv, HubInv
<1> QED  BY <1>1, Inductive, PTL

\* Two answers to one capture name one revision, unless the document changed in
\* between: a resent capture is stored once.
THEOREM ResentAgree == Spec => []ResentAnswersAgree
<1>1. IInv => ResentAnswersAgree
  <2> SUFFICES ASSUME IInv, NEW r \in replies, NEW s \in replies,
                      r.id = s.id, r.rev # s.rev
               PROVE  \E i \in DOMAIN written :
                        written[i].doc = r.doc /\ written[i].hash # r.hash
    BY DEF ResentAnswersAgree
  <2>1. r.doc = s.doc /\ r.hash = s.hash
    <3>1. r \in Asked /\ s \in Asked
      BY DEF Asked
    <3>2. QED
      BY <3>1 DEF IInv, HubInv, NamesInv
  <2>2. PICK i \in DOMAIN written :
          written[i] = [doc |-> r.doc, hash |-> r.hash, rev |-> r.rev]
    BY DEF IInv, HubInv, RepliesInv, Recorded
  <2>3. PICK k \in DOMAIN written :
          written[k] = [doc |-> s.doc, hash |-> s.hash, rev |-> s.rev]
    BY DEF IInv, HubInv, RepliesInv, Recorded
  <2>4. /\ i # k
        /\ written[i].doc = r.doc /\ written[i].hash = r.hash
        /\ written[k].doc = r.doc /\ written[k].hash = r.hash
    BY <2>1, <2>2, <2>3
  <2>5. QED
    BY <2>4 DEF IInv, HubInv, AlternatesInv
<1> QED  BY <1>1, Inductive, PTL

\* An answer stays true: the revision that a client was told holds the content it
\* captured, in a complete file, for ever.
THEOREM AnswersReadable ==
  Spec => [](\A r \in replies : Packets!Holds(r.rev, r.doc, r.hash))
<1>1. IInv => \A r \in replies : Packets!Holds(r.rev, r.doc, r.hash)
  <2> SUFFICES ASSUME IInv, NEW r \in replies
               PROVE  Packets!Holds(r.rev, r.doc, r.hash)
    OBVIOUS
  <2>1. PICK i \in DOMAIN written :
          written[i] = [doc |-> r.doc, hash |-> r.hash, rev |-> r.rev]
    BY DEF IInv, HubInv, RepliesInv, Recorded
  <2>2. Packets!Holds(written[i].rev, written[i].doc, written[i].hash)
    BY DEF IInv, HubInv, KeptInv
  <2>3. QED
    BY <2>1, <2>2
<1> QED  BY <1>1, Inductive, PTL

\* The two locks are never taken in opposite orders: the handler that holds store.mu is
\* inside SavePacketIfChanged and waits for nobody, and the one that holds enqueueMu is
\* between the two calls of Enqueue and holds no other lock.
THEOREM LocksInOrder ==
  Spec => [](/\ mu # None => hpc[mu] = "save" /\ spc[mu] \in {"write", "row"}
             /\ enqueueMu # None => hpc[enqueueMu] = "find" /\ mu # enqueueMu)
<1>1. IInv => /\ mu # None => hpc[mu] = "save" /\ spc[mu] \in {"write", "row"}
              /\ enqueueMu # None => hpc[enqueueMu] = "find" /\ mu # enqueueMu
  <2> SUFFICES ASSUME IInv
               PROVE  /\ mu # None => hpc[mu] = "save" /\ spc[mu] \in {"write", "row"}
                      /\ enqueueMu # None => hpc[enqueueMu] = "find" /\ mu # enqueueMu
    OBVIOUS
  <2>1. mu # None => /\ mu \in Handler /\ spc[mu] \in {"write", "row"}
                     /\ hpc[mu] = "save"
    BY DEF IInv, Store!IInv, Store!LockInv, Store!TypeOK, HubInv, HandlersInv, HandlerInv
  <2>2. enqueueMu # None => enqueueMu \in Handler /\ hpc[enqueueMu] = "find"
    BY DEF IInv, HubInv, Types, EnqueueLockInv
  <2>3. QED
    BY <2>1, <2>2
<1> QED  BY <1>1, Inductive, PTL
=================================================================================
