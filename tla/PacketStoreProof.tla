---------------------------- MODULE PacketStoreProof ----------------------------
(***************************************************************************)
(* Proofs about the packet store for every number of callers, documents,    *)
(* hashes, captures, crashes and failing writes or statements.              *)
(***************************************************************************)
EXTENDS PacketStoreInvariant, TLAPS

-------------------------------------------------------------------------------
(* Types.                                                                    *)

LEMMA InitInv == Init => IInv
  BY NobodyAssumption
  DEF Init, IInv, TypeOK, NoRows, LockInv, CallInv, ComparedInv, ContentInv,
      FreshInv, UniqueRevisionID, WrittenInv, PointerIsReadable, ReceiptsHold

\* What each result is.
LEMMA ResultType ==
  /\ Error \in Result
  /\ \A rev \in Rev : Saved(rev) \in Result /\ Deduped(rev) \in Result
  BY DEF Error, Saved, Deduped, Result

\* Writing a well-typed row into a well-typed table gives a well-typed table.
LEMMA UpsertType ==
  ASSUME NEW Key, NEW RowType, NEW table,
         DOMAIN table \subseteq Key, table \in [DOMAIN table -> RowType],
         NEW key \in Key, NEW row \in RowType
  PROVE  /\ DOMAIN Upsert(table, key, row) \subseteq Key
         /\ Upsert(table, key, row) \in [DOMAIN Upsert(table, key, row) -> RowType]
  BY DEF Upsert

\* Returning keeps the types of the callers.
LEMMA ReturnType ==
  ASSUME TypeOK, NEW c \in Caller, NEW res \in Result, SaveReturns(c, res)
  PROVE  /\ mu' \in Caller \cup {None}
         /\ spc' \in [Caller -> Inside \cup {"idle"}]
         /\ packet' \in [Caller -> Packet \cup {None}]
         /\ result' \in [Caller -> Result \cup {None}]
  BY DEF TypeOK, SaveReturns, Unlocked, Inside

\* A caller in the store carries a packet.
LEMMA Carries ==
  ASSUME TypeOK, CallInv, NEW c \in Caller, spc[c] # "idle"
  PROVE  /\ packet[c] \in Packet
         /\ packet[c].doc \in Doc /\ packet[c].hash \in Hash /\ packet[c].rev \in Rev
  BY DEF TypeOK, CallInv, Packet

\* A cut-off file is a file.
LEMMA FilesType ==
  ASSUME TypeOK, CallInv, NEW c \in Caller, spc[c] # "idle",
         NEW whole \in BOOLEAN,
         files' = Upsert(files, packet[c].rev, FileOf(packet[c], whole))
  PROVE  DOMAIN files' \subseteq Rev /\ files' \in [DOMAIN files' -> PacketFile]
  <1> DEFINE f == FileOf(packet[c], whole)
  <1>1. f \in PacketFile /\ packet[c].rev \in Rev
    BY Carries DEF FileOf, PacketFile
  <1> HIDE DEF f
  <1>2. files' = Upsert(files, packet[c].rev, f)
    BY DEF f
  <1>3. DOMAIN files \subseteq Rev /\ files \in [DOMAIN files -> PacketFile]
    BY DEF TypeOK
  <1>4. QED
    BY <1>1, <1>2, <1>3 DEF Upsert

LEMMA TypeStep ==
  ASSUME TypeOK, CallInv, Use
  PROVE  TypeOK'
  <1>0. captures' \in Nat /\ crashes' \in Nat /\ faults' \in Nat
    BY DEF Use
  <1> USE <1>0 DEF Inside, disk, callers, budget
  <1>1. ASSUME NEW c \in Caller, NEW d \in Doc, NEW h \in Hash, Begin(c, d, h)
        PROVE  TypeOK'
    <2>1. now' \in Nat
      BY <1>1, ClockAssumption DEF Begin, ReadClock, TypeOK
    <2>2. [doc |-> d, hash |-> h, rev |-> RevisionID] \in Packet
      BY DEF RevisionID, TypeOK, Packet, Rev
    <2>3. QED
      BY <1>1, <2>1, <2>2 DEF Begin, TypeOK
  <1>2. ASSUME NEW c \in Caller, Lookup(c)
        PROVE  TypeOK'
    <2>1. CASE Unchanged(packet[c])
      <3>1. packet[c].doc \in DOMAIN documents
        BY <2>1 DEF Unchanged
      <3>2. LatestRevision(packet[c].doc) \in Rev
        BY <3>1 DEF TypeOK, Row, LatestRevision
      <3>3. Deduped(LatestRevision(packet[c].doc)) \in Result
        BY <3>2, ResultType
      <3>4. SaveReturns(c, Deduped(LatestRevision(packet[c].doc)))
        BY <1>2, <2>1 DEF Lookup
      <3>5. UNCHANGED <<now, files, documents, receipts>>
        BY <1>2 DEF Lookup
      <3>6. QED
        BY <3>3, <3>4, <3>5, ReturnType DEF TypeOK
    <2>2. CASE ~Unchanged(packet[c])
      BY <1>2, <2>2 DEF Lookup, TypeOK
    <2>3. QED
      BY <2>1, <2>2
  <1>3. ASSUME NEW c \in Caller, WriteFile(c)
        PROVE  TypeOK'
    <2>1. DOMAIN files' \subseteq Rev /\ files' \in [DOMAIN files' -> PacketFile]
      BY <1>3, FilesType DEF WriteFile
    <2>2. QED
      BY <1>3, <2>1 DEF WriteFile, TypeOK
  <1>4. ASSUME NEW c \in Caller, WriteRow(c)
        PROVE  TypeOK'
    <2>1. packet[c].doc \in Doc /\ packet[c].hash \in Hash /\ packet[c].rev \in Rev
      BY <1>4, Carries DEF WriteRow
    <2> DEFINE row == [rev |-> packet[c].rev, hash |-> packet[c].hash]
    <2>2. row \in Row
      BY <2>1 DEF Row
    <2>3. documents' = Upsert(documents, packet[c].doc, row)
      BY <1>4 DEF WriteRow
    <2> HIDE DEF row
    <2>4. DOMAIN documents' \subseteq Doc /\ documents' \in [DOMAIN documents' -> Row]
      BY <2>1, <2>2, <2>3 DEF TypeOK, Upsert
    <2>5. Saved(packet[c].rev) \in Result
      BY <2>1, ResultType
    <2>6. SaveReturns(c, Saved(packet[c].rev))
      BY <1>4 DEF WriteRow
    <2>7. UNCHANGED <<now, files, receipts>>
      BY <1>4 DEF WriteRow
    <2>8. QED
      BY <2>4, <2>5, <2>6, <2>7, ReturnType DEF TypeOK
  <1>5. ASSUME NEW c \in Caller, Leave(c)
        PROVE  TypeOK'
    <2>1. receipts' \subseteq Packet
      <3>1. result[c].ok => Receipt(c) \in Packet
        <4>1. result[c] \in Result
          BY <1>5 DEF Leave, Take, CallInv, TypeOK
        <4>2. result[c].ok => result[c].rev \in Rev
          BY <4>1 DEF Result
        <4>3. QED
          BY <1>5, <4>2, Carries DEF Leave, Take, Receipt, Packet
      <3>2. QED
        BY <1>5, <3>1 DEF Leave, TypeOK
    <2>2. QED
      BY <1>5, <2>1 DEF Leave, Take, TypeOK
  <1>6. ASSUME NEW c \in Caller, StoreFault(c)
        PROVE  TypeOK'
    <2>1. SaveReturns(c, Error) /\ faults' \in Nat /\ UNCHANGED <<now, documents, receipts, crashes>>
      BY <1>6 DEF StoreFault, LookupFault, WriteFileFault, WriteRowFault,
                  AfterWriteError, Fails, TypeOK
    <2>2. DOMAIN files' \subseteq Rev /\ files' \in [DOMAIN files' -> PacketFile]
      <3>1. CASE UNCHANGED files
        BY <3>1 DEF TypeOK
      <3>2. CASE WriteFileFault(c) /\ CutOff(c)
        BY <3>2, FilesType DEF WriteFileFault, CutOff
      <3>3. QED
        BY <1>6, <3>1, <3>2 DEF StoreFault, LookupFault, WriteFileFault, WriteRowFault
    <2>3. QED
      BY <1>6, <2>1, <2>2, ResultType, ReturnType DEF TypeOK
  <1>7. ASSUME Die
        PROVE  TypeOK'
    <2>1. DOMAIN files' \subseteq Rev /\ files' \in [DOMAIN files' -> PacketFile]
      <3>1. CASE UNCHANGED files
        BY <3>1 DEF TypeOK
      <3>2. ASSUME NEW c \in Caller, spc[c] = "write", CutOff(c)
            PROVE  DOMAIN files' \subseteq Rev /\ files' \in [DOMAIN files' -> PacketFile]
        BY <3>2, FilesType DEF CutOff
      <3>3. QED
        BY <1>7, <3>1, <3>2 DEF Die
    <2>2. QED
      BY <1>7, <2>1 DEF Die, TypeOK
  <1>8. CASE AnInstantPasses
    BY <1>8 DEF AnInstantPasses, TypeOK
  <1>9. CASE Untouched
    BY <1>9 DEF Untouched, TypeOK
  <1>10. QED
    BY <1>1, <1>2, <1>3, <1>4, <1>5, <1>6, <1>7, <1>8, <1>9
    DEF Use, StoreStep

-------------------------------------------------------------------------------
(* The lock, and what a caller knows while it holds it.                      *)

\* store.mu is held from the lookup to the return, by one caller.
LEMMA LockStep ==
  ASSUME TypeOK, LockInv, Use
  PROVE  LockInv'
  <1> USE NobodyAssumption DEF TypeOK, LockInv, callers
  <1>1. ASSUME NEW c \in Caller, NEW d \in Doc, NEW h \in Hash, Begin(c, d, h)
        PROVE  LockInv'
    BY <1>1 DEF Begin
  <1>2. ASSUME NEW c \in Caller, Lookup(c)
        PROVE  LockInv'
    BY <1>2 DEF Lookup, MuFree, SaveReturns, Unlocked
  <1>3. ASSUME NEW c \in Caller, WriteFile(c)
        PROVE  LockInv'
    BY <1>3 DEF WriteFile
  <1>4. ASSUME NEW c \in Caller, WriteRow(c)
        PROVE  LockInv'
    BY <1>4 DEF WriteRow, SaveReturns, Unlocked
  <1>5. ASSUME NEW c \in Caller, Leave(c)
        PROVE  LockInv'
    BY <1>5 DEF Leave, Take
  <1>6. ASSUME NEW c \in Caller, StoreFault(c)
        PROVE  LockInv'
    BY <1>6 DEF StoreFault, LookupFault, WriteFileFault, WriteRowFault, MuFree,
                AfterWriteError, SaveReturns, Unlocked
  <1>7. CASE Die
    BY <1>7 DEF Die
  <1>8. CASE AnInstantPasses \/ Untouched
    BY <1>8 DEF AnInstantPasses, Untouched
  <1>9. QED
    BY <1>1, <1>2, <1>3, <1>4, <1>5, <1>6, <1>7, <1>8 DEF Use, StoreStep

\* Packets and results are there exactly while they are needed.
LEMMA CallStep ==
  ASSUME TypeOK, CallInv, Use
  PROVE  CallInv'
  <1> USE NobodyAssumption DEF TypeOK, CallInv, callers
  <1>1. ASSUME NEW c \in Caller, NEW d \in Doc, NEW h \in Hash, Begin(c, d, h)
        PROVE  CallInv'
    <2>1. [doc |-> d, hash |-> h, rev |-> RevisionID] \in Packet
      BY DEF RevisionID, Packet, Rev
    <2>2. QED
      BY <1>1, <2>1 DEF Begin
  <1>2. ASSUME NEW c \in Caller, NEW res \in Result,
               spc[c] \in {"lookup", "write", "row"}, SaveReturns(c, res)
        PROVE  CallInv'
    BY <1>2 DEF SaveReturns
  <1>3. ASSUME NEW c \in Caller, Lookup(c)
        PROVE  CallInv'
    <2>1. CASE Unchanged(packet[c])
      <3>1. LatestRevision(packet[c].doc) \in Rev
        BY <2>1 DEF Unchanged, Row, LatestRevision
      <3>2. Deduped(LatestRevision(packet[c].doc)) \in Result
        BY <3>1, ResultType
      <3>3. SaveReturns(c, Deduped(LatestRevision(packet[c].doc))) /\ spc[c] = "lookup"
        BY <1>3, <2>1 DEF Lookup
      <3>4. QED
        BY <1>2, <3>2, <3>3
    <2>2. CASE ~Unchanged(packet[c])
      BY <1>3, <2>2 DEF Lookup
    <2>3. QED
      BY <2>1, <2>2
  <1>4. ASSUME NEW c \in Caller, WriteFile(c)
        PROVE  CallInv'
    BY <1>4 DEF WriteFile
  <1>5. ASSUME NEW c \in Caller, WriteRow(c)
        PROVE  CallInv'
    <2>1. Saved(packet[c].rev) \in Result
      BY <1>5, Carries, ResultType DEF WriteRow
    <2>2. QED
      BY <1>2, <1>5, <2>1 DEF WriteRow
  <1>6. ASSUME NEW c \in Caller, Leave(c)
        PROVE  CallInv'
    BY <1>6 DEF Leave, Take
  <1>7. ASSUME NEW c \in Caller, StoreFault(c)
        PROVE  CallInv'
    BY <1>2, <1>7, ResultType
    DEF StoreFault, LookupFault, WriteFileFault, WriteRowFault, AfterWriteError
  <1>8. CASE Die
    BY <1>8 DEF Die
  <1>9. CASE AnInstantPasses \/ Untouched
    BY <1>9 DEF AnInstantPasses, Untouched
  <1>10. QED
    BY <1>1, <1>3, <1>4, <1>5, <1>6, <1>7, <1>8, <1>9 DEF Use, StoreStep

\* The comparison of a caller stays valid until it writes the row: whoever else
\* would write it needs the lock.
LEMMA ComparedStep ==
  ASSUME TypeOK, LockInv, ComparedInv, Use
  PROVE  ComparedInv'
  <1> USE DEF TypeOK, ComparedInv, Unchanged, disk, callers
  <1>1. ASSUME NEW c \in Caller, NEW d \in Doc, NEW h \in Hash, Begin(c, d, h)
        PROVE  ComparedInv'
    BY <1>1 DEF Begin
  <1>2. ASSUME NEW c \in Caller, Lookup(c)
        PROVE  ComparedInv'
    BY <1>2 DEF Lookup, SaveReturns
  <1>3. ASSUME NEW c \in Caller, WriteFile(c)
        PROVE  ComparedInv'
    BY <1>3 DEF WriteFile
  <1>4. ASSUME NEW c \in Caller, WriteRow(c)
        PROVE  ComparedInv'
    <2>1. \A b \in Caller : spc'[b] \notin {"write", "row"}
      BY <1>4 DEF WriteRow, SaveReturns, LockInv
    <2>2. QED
      BY <2>1
  <1>5. ASSUME NEW c \in Caller, Leave(c)
        PROVE  ComparedInv'
    BY <1>5 DEF Leave, Take
  <1>6. ASSUME NEW c \in Caller, StoreFault(c)
        PROVE  ComparedInv'
    BY <1>6 DEF StoreFault, LookupFault, WriteFileFault, WriteRowFault,
                AfterWriteError, SaveReturns
  <1>7. CASE Die
    BY <1>7 DEF Die
  <1>8. CASE AnInstantPasses \/ Untouched
    BY <1>8 DEF AnInstantPasses, Untouched
  <1>9. QED
    BY <1>1, <1>2, <1>3, <1>4, <1>5, <1>6, <1>7, <1>8 DEF Use, StoreStep

-------------------------------------------------------------------------------
(* The contents, on a clock that moves between two readings.                  *)

\* A step only adds files, and only that of a caller that is writing.
LEMMA FilesStep ==
  ASSUME TypeOK, FreshInv, Use
  PROVE  /\ \A r \in DOMAIN files : r \in DOMAIN files' /\ files'[r] = files[r]
         /\ \A r \in DOMAIN files' \ DOMAIN files :
              \E c \in Caller : /\ spc[c] = "write" /\ r = packet[c].rev
                               /\ spc'[c] \notin {"lookup", "write"}
  <1> DEFINE Grows ==
        /\ \A r \in DOMAIN files : r \in DOMAIN files' /\ files'[r] = files[r]
        /\ \A r \in DOMAIN files' \ DOMAIN files :
             \E c \in Caller : /\ spc[c] = "write" /\ r = packet[c].rev
                              /\ spc'[c] \notin {"lookup", "write"}
  <1>1. CASE UNCHANGED files
    BY <1>1
  <1>2. ASSUME NEW c \in Caller, NEW f, spc[c] = "write",
               files' = Upsert(files, packet[c].rev, f),
               spc'[c] \notin {"lookup", "write"}
        PROVE  Grows
    <2>1. packet[c].rev \notin DOMAIN files
      BY <1>2 DEF FreshInv
    <2>2. QED
      BY <1>2, <2>1 DEF Upsert
  <1>3. ASSUME NEW c \in Caller, WriteFile(c)
        PROVE  Grows
    <2>1. spc[c] = "write" /\ spc'[c] \notin {"lookup", "write"}
      BY <1>3 DEF WriteFile, TypeOK
    <2>2. QED
      BY <1>2, <1>3, <2>1 DEF WriteFile
  <1>4. ASSUME NEW c \in Caller, WriteFileFault(c)
        PROVE  Grows
    <2>1. spc[c] = "write" /\ spc'[c] \notin {"lookup", "write"}
      BY <1>4 DEF WriteFileFault, AfterWriteError, SaveReturns, TypeOK
    <2>2. QED
      BY <1>1, <1>2, <1>4, <2>1 DEF WriteFileFault, CutOff
  <1>5. CASE Die
    <2>1. \A c \in Caller : spc'[c] \notin {"lookup", "write"}
      BY <1>5 DEF Die
    <2>2. QED
      BY <1>1, <1>2, <1>5, <2>1 DEF Die, CutOff
  <1>6. QED
    BY <1>1, <1>3, <1>4, <1>5
    DEF Use, Untouched, disk, Begin, StoreStep, Lookup,
        WriteRow, StoreFault, LookupFault, WriteRowFault, Leave, Take, AnInstantPasses

\* Ids stay unique and in the past, and a packet has no file before its own
\* caller writes it.
LEMMA FreshStep ==
  ASSUME TypeOK, CallInv, FineClock, FreshInv, Use
  PROVE  FreshInv'
  <1> DEFINE Past ==
        /\ now \in Nat
        /\ \A r \in DOMAIN files : r \in Nat /\ r < now
        /\ \A c \in Caller : packet[c] # None => packet[c].rev \in Nat /\ packet[c].rev < now
  <1>0. Past
    BY DEF TypeOK, FreshInv, Rev, Packet
  \* A caller of the next state has the packet it had, or a new one.
  <1>1. ASSUME NEW c \in Caller, NEW d \in Doc, NEW h \in Hash, Begin(c, d, h)
        PROVE  FreshInv'
    <2>1. now' = now + 1 /\ files' = files
      BY <1>1 DEF Begin, ReadClock, disk
    <2>2. packet'[c].rev = now /\ packet'[c] # None
      <3>1. [doc |-> d, hash |-> h, rev |-> now] \in Packet
        BY <1>0 DEF Packet, Rev
      <3>2. QED
        BY <1>1, <3>1, NobodyAssumption DEF Begin, RevisionID, TypeOK
    <2>3. \A b \in Caller \ {c} : packet'[b] = packet[b] /\ spc'[b] = spc[b]
      BY <1>1 DEF Begin, TypeOK
    <2>4. UniqueRevisionID'
      BY <1>0, <2>2, <2>3 DEF FreshInv, UniqueRevisionID
    <2>5. QED
      BY <1>0, <2>1, <2>2, <2>3, <2>4 DEF FreshInv
  \* Every other step keeps a caller's packet or drops it, and sends no caller
  \* back to its lookup.
  <1>2. ASSUME now' = now \/ now' = now + 1,
               \A c \in Caller : packet'[c] # None =>
                 /\ packet'[c] = packet[c]
                 /\ spc'[c] \in {"lookup", "write"} => spc[c] \in {"lookup", "write"}
        PROVE  FreshInv'
    <2>1. \A r \in DOMAIN files' : r < now'
      BY <1>0, <1>2, FilesStep, NobodyAssumption DEF CallInv
    <2>2. \A c \in Caller : packet'[c] # None => packet'[c].rev < now'
      BY <1>0, <1>2
    <2>3. UniqueRevisionID'
      BY <1>2 DEF FreshInv, UniqueRevisionID
    <2>4. ASSUME NEW c \in Caller, spc'[c] \in {"lookup", "write"}
          PROVE  packet'[c].rev \notin DOMAIN files'
      <3>1. packet'[c] # None
        BY <2>4, CallStep DEF CallInv
      <3>2. packet'[c] = packet[c] /\ packet[c].rev \notin DOMAIN files
        BY <1>2, <2>4, <3>1 DEF FreshInv
      <3>3. ASSUME NEW b \in Caller, spc[b] = "write", packet[b].rev = packet[c].rev,
                   spc'[b] \notin {"lookup", "write"}
            PROVE  FALSE
        BY <2>4, <3>1, <3>2, <3>3 DEF FreshInv, UniqueRevisionID, CallInv
      <3>4. QED
        BY <3>2, <3>3, FilesStep
    <2>5. QED
      BY <2>1, <2>2, <2>3, <2>4 DEF FreshInv
  <1>3. ASSUME NEW c \in Caller, StoreStep(c) \/ StoreFault(c) \/ Leave(c)
        PROVE  FreshInv'
    <2>1. now' = now
      BY <1>3 DEF StoreStep, Lookup, WriteFile, WriteRow, StoreFault,
                  LookupFault, WriteFileFault, WriteRowFault, Leave, Take
    <2>2. \A b \in Caller : packet'[b] # None =>
             /\ packet'[b] = packet[b]
             /\ spc'[b] \in {"lookup", "write"} => spc[b] \in {"lookup", "write"}
      BY <1>3 DEF StoreStep, Lookup, WriteFile, WriteRow, StoreFault,
                  LookupFault, WriteFileFault, WriteRowFault, Leave, Take,
                  AfterWriteError, SaveReturns, TypeOK
    <2>3. QED
      BY <1>2, <2>1, <2>2
  <1>4. CASE Die
    BY <1>2, <1>4 DEF Die
  <1>5. CASE AnInstantPasses \/ Untouched
    BY <1>2, <1>5 DEF AnInstantPasses, Untouched, callers
  <1>6. QED
    BY <1>1, <1>3, <1>4, <1>5 DEF Use

\* The packet of a caller about to write its row is in its file, and what a
\* caller reports is in the file it reports.
LEMMA WrittenStep ==
  ASSUME TypeOK, CallInv, FineClock, ContentInv, Use
  PROVE  WrittenInv'
  <1> USE DEF ContentInv
  \* A caller whose packet and result the step leaves alone.
  <1>1. ASSUME NEW c \in Caller,
               spc'[c] \notin {"row", "returned"} \/
               (spc'[c] = spc[c] /\ packet'[c] = packet[c] /\ result'[c] = result[c])
        PROVE  /\ spc'[c] = "row" => Holds(packet[c].rev, packet[c].doc, packet[c].hash)'
               /\ spc'[c] = "returned" /\ result'[c].ok =>
                    Holds(result[c].rev, packet[c].doc, packet[c].hash)'
    <2>1. CASE spc'[c] \notin {"row", "returned"}
      BY <2>1
    <2>2. CASE spc'[c] = spc[c] /\ packet'[c] = packet[c] /\ result'[c] = result[c]
      BY <2>2, FilesStep DEF WrittenInv, Holds
    <2>3. QED
      BY <1>1, <2>1, <2>2
  <1>2. ASSUME NEW c \in Caller, NEW d \in Doc, NEW h \in Hash, Begin(c, d, h)
        PROVE  WrittenInv'
    BY <1>1, <1>2 DEF WrittenInv, Begin, TypeOK
  <1>3. ASSUME NEW c \in Caller, StoreStep(c) \/ StoreFault(c) \/ Leave(c)
        PROVE  \A b \in Caller \ {c} :
                 spc'[b] = spc[b] /\ packet'[b] = packet[b] /\ result'[b] = result[b]
    BY <1>3 DEF StoreStep, Lookup, WriteFile, WriteRow, StoreFault,
                LookupFault, WriteFileFault, WriteRowFault, Leave, Take,
                AfterWriteError, SaveReturns, TypeOK
  <1>4. ASSUME NEW c \in Caller, Lookup(c)
        PROVE  WrittenInv'
    <2>1. CASE Unchanged(packet[c])
      <3> DEFINE p == packet[c]
      <3>1. Holds(documents[p.doc].rev, p.doc, p.hash)
        BY <2>1 DEF Unchanged, PointerIsReadable
      <3>2. /\ spc'[c] = "returned" /\ packet'[c] = p
            /\ result'[c].rev = documents[p.doc].rev
        BY <1>4, <2>1 DEF Lookup, SaveReturns, Deduped, LatestRevision, TypeOK
      <3>3. Holds(result[c].rev, packet[c].doc, packet[c].hash)'
        BY <3>1, <3>2, FilesStep DEF Holds
      <3>4. QED
        BY <1>1, <1>3, <1>4, <3>2, <3>3 DEF WrittenInv, StoreStep
    <2>2. CASE ~Unchanged(packet[c])
      <3>1. spc'[c] = "write"
        BY <1>4, <2>2 DEF Lookup, TypeOK
      <3>2. QED
        BY <1>1, <1>3, <1>4, <3>1 DEF WrittenInv, StoreStep
    <2>3. QED
      BY <2>1, <2>2
  <1>5. ASSUME NEW c \in Caller, WriteFile(c)
        PROVE  WrittenInv'
    <2>1. spc'[c] = "row"
      BY <1>5 DEF WriteFile, TypeOK
    <2>2. Holds(packet[c].rev, packet[c].doc, packet[c].hash)'
      BY <1>5 DEF WriteFile, Holds, Upsert, FileOf
    <2>3. QED
      BY <1>1, <1>3, <1>5, <2>1, <2>2 DEF WrittenInv, StoreStep
  <1>6. ASSUME NEW c \in Caller, WriteRow(c)
        PROVE  WrittenInv'
    <2>1. /\ spc[c] = "row" /\ spc'[c] = "returned"
          /\ packet'[c] = packet[c] /\ result'[c].rev = packet[c].rev
      BY <1>6 DEF WriteRow, SaveReturns, Saved, TypeOK
    <2>2. Holds(result[c].rev, packet[c].doc, packet[c].hash)'
      BY <2>1, FilesStep DEF WrittenInv, Holds
    <2>3. QED
      BY <1>1, <1>3, <1>6, <2>1, <2>2 DEF WrittenInv, StoreStep
  <1>7. ASSUME NEW c \in Caller, StoreFault(c)
        PROVE  WrittenInv'
    <2>1. spc'[c] = "returned" /\ ~result'[c].ok
      BY <1>7 DEF StoreFault, LookupFault, WriteFileFault, WriteRowFault,
                  AfterWriteError, SaveReturns, Error, TypeOK
    <2>2. QED
      BY <1>1, <1>3, <1>7, <2>1 DEF WrittenInv
  <1>8. ASSUME NEW c \in Caller, Leave(c)
        PROVE  WrittenInv'
    <2>1. spc'[c] = "idle"
      BY <1>8 DEF Leave, Take, TypeOK
    <2>2. QED
      BY <1>1, <1>3, <1>8, <2>1 DEF WrittenInv
  <1>9. CASE Die
    BY <1>9 DEF Die, WrittenInv
  <1>10. CASE AnInstantPasses \/ Untouched
    BY <1>1, <1>10 DEF AnInstantPasses, Untouched, callers, WrittenInv
  <1>11. QED
    BY <1>2, <1>4, <1>5, <1>6, <1>7, <1>8, <1>9, <1>10 DEF Use, StoreStep

\* The row of a document is that of a finished file.
LEMMA PointerStep ==
  ASSUME TypeOK, CallInv, FineClock, ContentInv, Use
  PROVE  PointerIsReadable'
  <1> USE DEF ContentInv
  <1>1. ASSUME NEW c \in Caller, WriteRow(c)
        PROVE  PointerIsReadable'
    <2>1. Holds(packet[c].rev, packet[c].doc, packet[c].hash)
      BY <1>1 DEF WriteRow, WrittenInv
    <2>2. UNCHANGED files
      BY <1>1 DEF WriteRow
    <2>3. QED
      BY <1>1, <2>1, <2>2 DEF WriteRow, PointerIsReadable, Holds, Upsert
  <1>2. CASE UNCHANGED documents
    BY <1>2, FilesStep DEF PointerIsReadable, Holds
  <1>3. QED
    BY <1>1, <1>2
    DEF Use, Untouched, disk, Begin, StoreStep, Lookup,
        WriteFile, StoreFault, LookupFault, WriteFileFault, WriteRowFault,
        Leave, Take, Die, AnInstantPasses

\* A receipt tells what was in the file when it was given.
LEMMA ReceiptStep ==
  ASSUME TypeOK, CallInv, FineClock, ContentInv, Use
  PROVE  ReceiptsHold'
  <1> USE DEF ContentInv
  <1>1. ASSUME NEW c \in Caller, Leave(c)
        PROVE  ReceiptsHold'
    <2>1. result[c].ok => Holds(result[c].rev, packet[c].doc, packet[c].hash)
      BY <1>1 DEF Leave, Take, WrittenInv
    <2>2. UNCHANGED files
      BY <1>1 DEF Leave, Take, disk
    <2>3. ASSUME NEW r \in receipts'
          PROVE  Holds(r.rev, r.doc, r.hash)
      <3>1. CASE r \in receipts
        BY <3>1 DEF ReceiptsHold
      <3>2. CASE result[c].ok /\ r = Receipt(c)
        BY <2>1, <3>2 DEF Receipt
      <3>3. QED
        BY <1>1, <3>1, <3>2 DEF Leave
    <2>4. QED
      BY <2>2, <2>3 DEF ReceiptsHold, Holds
  <1>2. CASE UNCHANGED receipts
    BY <1>2, FilesStep DEF ReceiptsHold, Holds
  <1>3. QED
    BY <1>1, <1>2
    DEF Use, Untouched, Begin, StoreStep, Lookup,
        WriteFile, WriteRow, StoreFault, LookupFault, WriteFileFault,
        WriteRowFault, Die, AnInstantPasses

\* Whoever uses the store, the invariant stays.
LEMMA UseKeepsInv ==
  ASSUME IInv, Use
  PROVE  IInv'
  <1>1. TypeOK' /\ LockInv' /\ CallInv' /\ ComparedInv'
    BY TypeStep, LockStep, CallStep, ComparedStep DEF IInv
  <1>2. ASSUME FineClock PROVE ContentInv'
    BY <1>2, FreshStep, WrittenStep, PointerStep, ReceiptStep DEF IInv, ContentInv
  <1>3. QED
    BY <1>1, <1>2 DEF IInv

\* Whoever uses the store, a row moves only to other content.
LEMMA UseKeepsRows ==
  ASSUME IInv, Use, NEW d \in DOMAIN documents, documents'[d] # documents[d]
  PROVE  documents'[d].hash # documents[d].hash
  <1>1. PICK c \in Caller : WriteRow(c)
    BY DEF Use, Untouched, disk, Begin, StoreStep, Lookup, WriteFile, StoreFault,
           LookupFault, WriteFileFault, WriteRowFault, Leave, Take, Die,
           AnInstantPasses
  <1>2. d = packet[c].doc /\ documents'[d].hash = packet[c].hash
    BY <1>1 DEF WriteRow, Upsert
  <1>3. ~Unchanged(packet[c])
    BY <1>1 DEF WriteRow, IInv, ComparedInv
  <1>4. QED
    BY <1>2, <1>3 DEF Unchanged

-------------------------------------------------------------------------------
(* Theorems.                                                                  *)

\* The browser captures of PacketStore are uses of the store.
LEMMA NextUses ==
  ASSUME TypeOK, [Next]_vars
  PROVE  Use
  <1>1. captures' \in Nat /\ crashes' \in Nat /\ faults' \in Nat
    <2>1. /\ captures' = captures \/ captures' = captures + 1
          /\ crashes' = crashes \/ crashes' = crashes + 1
          /\ faults' = faults \/ faults' = faults + 1
      BY DEF Next, vars, CaptureSnapshot, Begin, SaveStep, StoreStep, Lookup,
             WriteFile, WriteRow, StoreFault, LookupFault, WriteFileFault,
             WriteRowFault, Fails, Reply, Take, Crash, Tick, budget
    <2>2. QED
      BY <2>1 DEF TypeOK
  <1>2. CASE Next
    BY <1>1, <1>2
    DEF Next, Use, CaptureSnapshot, SaveStep, Reply, Leave, Crash, Tick,
        AnInstantPasses
  <1>3. CASE UNCHANGED vars
    BY <1>1, <1>3 DEF Use, Untouched, vars
  <1>4. QED
    BY <1>2, <1>3

\* The invariant holds in every reachable state: types, lock and comparisons on
\* any clock, the contents when the clock moves between two readings.
THEOREM Inductive == Spec => []IInv
  <1>1. IInv /\ [Next]_vars => IInv'
    BY NextUses, UseKeepsInv DEF IInv
  <1>2. QED
    BY InitInv, <1>1, PTL DEF Spec

\* Every variable of the packet store keeps its type.
THEOREM TypeCorrect == Spec => []TypeOK
  <1>1. IInv => TypeOK
    BY DEF IInv
  <1>2. QED
    BY <1>1, Inductive, PTL

\* A row never moves to a revision with the content it already had, on any
\* clock: the lock covers the comparison and the write.
THEOREM NoEqualSuccessor == Spec => NoRepeatedRevision
  <1>1. IInv /\ [Next]_vars =>
          [\A d \in DOMAIN documents :
             documents'[d] # documents[d] => documents'[d].hash # documents[d].hash]_vars
    BY NextUses, UseKeepsRows DEF IInv
  <1>2. QED
    BY <1>1, Inductive, PTL DEF Spec, NoRepeatedRevision

\* When the clock moves between two readings, a row points to a complete file
\* of its own content.
THEOREM Readable == ASSUME FineClock PROVE Spec => []PointerIsReadable
  <1>1. IInv => PointerIsReadable
    BY DEF IInv, ContentInv
  <1>2. QED
    BY <1>1, Inductive, PTL

\* When the clock moves between two readings, every receipt stays true.
THEOREM ReceiptsKept == ASSUME FineClock PROVE Spec => []ReceiptsHold
  <1>1. IInv => ReceiptsHold
    BY DEF IInv, ContentInv
  <1>2. QED
    BY <1>1, Inductive, PTL

\* When the clock moves between two readings, a complete file is never written
\* again.
THEOREM Immutable == ASSUME FineClock PROVE Spec => FilesImmutable
  <1>1. IInv /\ [Next]_vars =>
          [\A r \in DOMAIN files : files[r].whole => files'[r] = files[r]]_vars
    BY NextUses, FilesStep DEF IInv, ContentInv
  <1>2. QED
    BY <1>1, Inductive, PTL DEF Spec, FilesImmutable
===============================================================================
