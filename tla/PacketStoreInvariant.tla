-------------------------- MODULE PacketStoreInvariant --------------------------
(***************************************************************************)
(* The inductive invariant of the packet store.                             *)
(***************************************************************************)
EXTENDS PacketStore

\* Between its lookup and its return a caller holds store.mu, alone.
LockInv ==
  /\ \A c \in Caller : spc[c] \in {"write", "row"} => mu = c
  /\ mu # None => spc[mu] \in {"write", "row"}

\* A caller that is inside has a packet; one that returned has a result too.
CallInv ==
  \A c \in Caller :
    /\ spc[c] # "idle" <=> packet[c] # None
    /\ spc[c] = "returned" <=> result[c] # None

\* What the lookup found is still so: nobody else writes the table meanwhile.
ComparedInv ==
  \A c \in Caller : spc[c] \in {"write", "row"} => ~Unchanged(packet[c])

\* "RevisionID creates a unique revision identifier" (domain/ids.go:17).
UniqueRevisionID ==
  \A b, c \in Caller :
    packet[b] # None /\ packet[c] # None /\ packet[b].rev = packet[c].rev => b = c

\* Every revision id in use is an instant of the past, of one packet only, and
\* a packet that is not written yet has no file.
FreshInv ==
  /\ \A r \in DOMAIN files : r < now
  /\ \A c \in Caller : packet[c] # None => packet[c].rev < now
  /\ UniqueRevisionID
  /\ \A c \in Caller :
       spc[c] \in {"lookup", "write"} => packet[c].rev \notin DOMAIN files

\* The file a caller is about to point to, or to report, holds its packet.
WrittenInv ==
  \A c \in Caller :
    /\ spc[c] = "row" => Holds(packet[c].rev, packet[c].doc, packet[c].hash)
    /\ spc[c] = "returned" /\ result[c].ok =>
         Holds(result[c].rev, packet[c].doc, packet[c].hash)

\* The lock and the lookup do their work on any clock, the contents need one
\* that moves between two readings.
ContentInv == FreshInv /\ WrittenInv /\ PointerIsReadable /\ ReceiptsHold

\* A caller leaves with its result and may keep a receipt of it.
Leave(c) ==
  /\ Take(c)
  /\ receipts' \in {receipts, receipts \cup (IF result[c].ok THEN {Receipt(c)} ELSE {})}

Untouched == UNCHANGED <<now, disk, mu, callers, receipts>>

AnInstantPasses == now' = now + 1 /\ UNCHANGED <<disk, mu, callers, receipts>>

\* What a user of the store may do to it.  The browser's captures of PacketStore
\* are one user; another keeps no receipts and counts its captures, crashes and
\* faults in its own way, like the workers of the capture queue.
Use ==
  /\ \/ \E c \in Caller, d \in Doc, h \in Hash : Begin(c, d, h)
     \/ \E c \in Caller : StoreStep(c) \/ StoreFault(c) \/ Leave(c)
     \/ Die
     \/ AnInstantPasses
     \/ Untouched
  /\ captures' \in Nat /\ crashes' \in Nat /\ faults' \in Nat

IInv ==
  /\ TypeOK
  /\ LockInv
  /\ CallInv
  /\ ComparedInv
  /\ FineClock => ContentInv
===============================================================================
