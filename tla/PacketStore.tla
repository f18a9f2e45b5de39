------------------------------ MODULE PacketStore ------------------------------
(***************************************************************************)
(* The packets of the Hub (internal/store/store.go): one immutable JSON     *)
(* file per revision, and the table documents, whose row points to one      *)
(* revision of each document.                                               *)
(*                                                                         *)
(* SavePacketIfChanged holds store.mu while it compares the captured hash   *)
(* with the row, writes the file and upserts the row.  Captures of browser  *)
(* snapshots and capture workers call it concurrently, each with a revision *)
(* id it took from the clock before it asked for the lock.  The file and    *)
(* the row are two writes: either may fail, and the Hub may crash before,   *)
(* between or inside them.                                                  *)
(***************************************************************************)
EXTENDS Naturals, SqlTable

CONSTANTS
  Caller,       \* the goroutines that may be inside SavePacketIfChanged
  Doc,          \* document ids
  Hash,         \* content hashes
  None,         \* no packet, no result, nobody
  FineClock,    \* every reading of the clock differs from the one before
  MaxClock,     \* bound: instants reached while nobody reads the clock
  MaxCaptures,  \* bound: browser captures
  MaxCrashes,   \* bound: crashes of the Hub
  MaxFaults     \* bound: statements and file writes that fail

ASSUME ClockAssumption == FineClock \in BOOLEAN

VARIABLES
  now,          \* time.Now() in nanoseconds
  files,        \* packets/<revision>.json: revision -> [doc, hash, whole]
  documents,    \* documents: document -> [rev, hash]
  mu,           \* who holds store.mu
  spc,          \* where each caller is
  packet,       \* the packet a caller saves
  result,       \* what SavePacketIfChanged returns to a caller
  receipts,     \* the receipts given to clients so far
  captures,     \* browser captures so far
  crashes,      \* crashes so far
  faults        \* failed statements and writes so far

disk == <<files, documents>>
callers == <<spc, packet, result>>
budget == <<crashes, faults>>

vars == <<now, disk, mu, callers, receipts, captures, budget>>

-------------------------------------------------------------------------------
(* Types.                                                                    *)

Rev == Nat

Packet == [doc : Doc, hash : Hash, rev : Rev]

\* A file that was cut off by a crash or a write error is not whole.
PacketFile == [doc : Doc, hash : Hash, whole : BOOLEAN]

Row == [rev : Rev, hash : Hash]

\* A revision, or the error.
Result ==
  [ok : {TRUE}, rev : Rev, deduped : BOOLEAN]
    \cup [ok : {FALSE}, rev : {None}, deduped : {FALSE}]

ASSUME NobodyAssumption ==
  None \notin Caller /\ None \notin Packet /\ None \notin Result

Inside == {"lookup", "write", "row", "returned"}

TypeOK ==
  /\ now \in Nat
  /\ DOMAIN files \subseteq Rev /\ files \in [DOMAIN files -> PacketFile]
  /\ DOMAIN documents \subseteq Doc /\ documents \in [DOMAIN documents -> Row]
  /\ mu \in Caller \cup {None}
  /\ spc \in [Caller -> Inside \cup {"idle"}]
  /\ packet \in [Caller -> Packet \cup {None}]
  /\ result \in [Caller -> Result \cup {None}]
  /\ receipts \subseteq Packet
  /\ captures \in Nat
  /\ crashes \in Nat
  /\ faults \in Nat

-------------------------------------------------------------------------------
(* A capture builds its packet, then asks for the lock.                      *)

\* Mutant: the id keeps too few digits of the clock.
RevisionOfEvenInstant == now - (now % 2)

\* RevisionID: the clock in nanoseconds.
RevisionID == now

\* The clock moves between two readings, or it is coarser than the time
\* between them.
ReadClock == now' = IF FineClock THEN now + 1 ELSE now

Fails ==
  /\ faults < MaxFaults
  /\ faults' = faults + 1
  /\ UNCHANGED crashes

Begin(c, d, h) ==
  /\ spc[c] = "idle"
  /\ ReadClock
  /\ spc' = [spc EXCEPT ![c] = "lookup"]
  /\ packet' = [packet EXCEPT ![c] = [doc |-> d, hash |-> h, rev |-> RevisionID]]
  /\ UNCHANGED <<disk, mu, result, receipts, budget>>

\* Mutant: the deferred unlock is missing.
StillLocked == mu

Unlocked == None

\* SavePacketIfChanged returns to its caller and unlocks.
SaveReturns(c, res) ==
  /\ spc' = [spc EXCEPT ![c] = "returned"]
  /\ result' = [result EXCEPT ![c] = res]
  /\ mu' = Unlocked
  /\ UNCHANGED packet

Saved(rev) == [ok |-> TRUE, rev |-> rev, deduped |-> FALSE]
Deduped(rev) == [ok |-> TRUE, rev |-> rev, deduped |-> TRUE]
Error == [ok |-> FALSE, rev |-> None, deduped |-> FALSE]

\* Mutant: the lock is taken for each statement and not for the whole call.
AnyTime == TRUE

MuFree == mu = None

\* Mutant: any earlier revision of the document counts as the same content.
KnownDocument(p) == p.doc \in DOMAIN documents

\* The row of the document carries the hash of the captured content.
Unchanged(p) == p.doc \in DOMAIN documents /\ documents[p.doc].hash = p.hash

\* Mutant: the columns of latestMeta are scanned in the wrong order.
LatestHash(d) == documents[d].hash

LatestRevision(d) == documents[d].rev

Lookup(c) ==
  /\ spc[c] = "lookup"
  /\ MuFree
  /\ IF Unchanged(packet[c])
       THEN SaveReturns(c, Deduped(LatestRevision(packet[c].doc)))
       ELSE /\ mu' = c
            /\ spc' = [spc EXCEPT ![c] = "write"]
            /\ UNCHANGED <<packet, result>>
  /\ UNCHANGED <<now, disk, receipts, budget>>

LookupFault(c) ==
  /\ spc[c] = "lookup"
  /\ MuFree
  /\ Fails
  /\ SaveReturns(c, Error)
  /\ UNCHANGED <<now, disk, receipts>>

FileOf(p, whole) == [doc |-> p.doc, hash |-> p.hash, whole |-> whole]

WriteFile(c) ==
  /\ spc[c] = "write"
  /\ files' = Upsert(files, packet[c].rev, FileOf(packet[c], TRUE))
  /\ spc' = [spc EXCEPT ![c] = "row"]
  /\ UNCHANGED <<now, documents, mu, packet, result, receipts, budget>>

\* The file as a write that does not finish leaves it.
CutOff(c) == files' = Upsert(files, packet[c].rev, FileOf(packet[c], FALSE))

\* Mutant: the error of the write is dropped and the row is written.
AfterWriteErrorRow(c) ==
  /\ spc' = [spc EXCEPT ![c] = "row"]
  /\ UNCHANGED <<mu, packet, result>>

AfterWriteError(c) == SaveReturns(c, Error)

WriteFileFault(c) ==
  /\ spc[c] = "write"
  /\ Fails
  /\ CutOff(c) \/ UNCHANGED files
  /\ AfterWriteError(c)
  /\ UNCHANGED <<now, documents, receipts>>

WriteRow(c) ==
  /\ spc[c] = "row"
  /\ documents' = Upsert(documents, packet[c].doc,
                         [rev |-> packet[c].rev, hash |-> packet[c].hash])
  /\ SaveReturns(c, Saved(packet[c].rev))
  /\ UNCHANGED <<now, files, receipts, budget>>

\* The file stays without a row that points to it.
WriteRowFault(c) ==
  /\ spc[c] = "row"
  /\ Fails
  /\ SaveReturns(c, Error)
  /\ UNCHANGED <<now, disk, receipts>>

StoreStep(c) == Lookup(c) \/ WriteFile(c) \/ WriteRow(c)

StoreFault(c) == LookupFault(c) \/ WriteFileFault(c) \/ WriteRowFault(c)

\* The caller takes the result.
Take(c) ==
  /\ spc[c] = "returned"
  /\ spc' = [spc EXCEPT ![c] = "idle"]
  /\ packet' = [packet EXCEPT ![c] = None]
  /\ result' = [result EXCEPT ![c] = None]
  /\ UNCHANGED <<now, disk, mu, budget>>

\* The process dies; a file being written may be cut off.
Die ==
  /\ UNCHANGED files \/ \E c \in Caller : spc[c] = "write" /\ CutOff(c)
  /\ mu' = None
  /\ spc' = [c \in Caller |-> "idle"]
  /\ packet' = [c \in Caller |-> None]
  /\ result' = [c \in Caller |-> None]
  /\ UNCHANGED <<now, documents, receipts>>

-------------------------------------------------------------------------------
(* CaptureSnapshot: the captures of the browser clients.                      *)

CaptureSnapshot(c, d, h) ==
  /\ captures < MaxCaptures
  /\ captures' = captures + 1
  /\ Begin(c, d, h)

\* The receipt says which revision holds the captured content; an error makes
\* none.
Receipt(c) ==
  [doc |-> packet[c].doc, hash |-> packet[c].hash, rev |-> result[c].rev]

Reply(c) ==
  /\ Take(c)
  /\ receipts' = receipts \cup (IF result[c].ok THEN {Receipt(c)} ELSE {})
  /\ UNCHANGED captures

Crash ==
  /\ crashes < MaxCrashes
  /\ crashes' = crashes + 1
  /\ Die
  /\ UNCHANGED <<captures, faults>>

Tick ==
  /\ now < MaxClock
  /\ now' = now + 1
  /\ UNCHANGED <<disk, mu, callers, receipts, captures, budget>>

Init ==
  /\ now = 0
  /\ files = NoRows
  /\ documents = NoRows
  /\ mu = None
  /\ spc = [c \in Caller |-> "idle"]
  /\ packet = [c \in Caller |-> None]
  /\ result = [c \in Caller |-> None]
  /\ receipts = {}
  /\ captures = 0
  /\ crashes = 0
  /\ faults = 0

SaveStep(c) == StoreStep(c) /\ UNCHANGED captures

Next ==
  \/ \E c \in Caller, d \in Doc, h \in Hash : CaptureSnapshot(c, d, h)
  \/ \E c \in Caller : SaveStep(c) \/ Reply(c)
  \/ \E c \in Caller : StoreFault(c) /\ UNCHANGED captures
  \/ Crash
  \/ Tick

\* A goroutine that can run does; sync.Mutex lets no waiter starve.
Fairness == \A c \in Caller : SF_vars(SaveStep(c)) /\ WF_vars(Reply(c))

Spec == Init /\ [][Next]_vars

FairSpec == Spec /\ Fairness

-------------------------------------------------------------------------------
(* Safety.                                                                    *)

Holds(r, d, h) ==
  /\ r \in DOMAIN files
  /\ files[r] = [doc |-> d, hash |-> h, whole |-> TRUE]

\* A document in the table can be read (GetPacketByDocumentID): its row points
\* to a complete file of that document with that hash, after failed writes and
\* crashes as well.
PointerIsReadable ==
  \A d \in DOMAIN documents : Holds(documents[d].rev, d, documents[d].hash)

\* A receipt stays true: the revision a client was told holds the content it
\* captured, whatever is captured, fails or crashes afterwards
\* (GetPacketByRevisionID).
ReceiptsHold == \A r \in receipts : Holds(r.rev, r.doc, r.hash)

\* "Packet revision is an immutable file" (ARCHITECTURE.md:169): a complete
\* file is never written again.
FilesImmutable ==
  [][\A r \in DOMAIN files : files[r].whole => files'[r] = files[r]]_vars

\* "writes a new revision only when content_hash differs" (store.go:345): a row
\* never moves to a revision with the content it already had, also when two
\* captures of the same content race.
NoRepeatedRevision ==
  [][\A d \in DOMAIN documents :
       documents'[d] # documents[d] => documents'[d].hash # documents[d].hash]_vars

\* Every capture gets its answer: no path leaves store.mu locked.
EveryCaptureReturns == \A c \in Caller : spc[c] # "idle" ~> spc[c] = "idle"

-------------------------------------------------------------------------------
(* What the documents say and the code does not keep.                         *)

\* "documents points only to the latest revision" (ARCHITECTURE.md:169).
LatestIsNewest ==
  \A d \in DOMAIN documents, r \in DOMAIN files :
    files[r].doc = d /\ r # documents[d].rev =>
      r < documents[d].rev \/ mu # None
===============================================================================
