--------------------------- MODULE HubStartInvariant ---------------------------
(***************************************************************************)
(* The inductive invariant of two Hubs on one set of tables.  Most of what  *)
(* IInv of AIQueueInvariant says of one process is lost; each process still *)
(* knows the rows in its own hands (PoolInv), and what both of them may     *)
(* still claim is accounted for in one sum per row.                         *)
(***************************************************************************)
EXTENDS HubStart

\* Both pools claim from the same queue: a row is charged once for its place and
\* its attempts, and for every worker of either that may grant a retry.
TotalCharge(j) == Charge(j) + Cardinality(Other!Backers(j))

\* A row of a attempts that is charged t, of which o copies are selected that
\* would grant a retry, after s starts.  Before the last regular attempt a claim
\* only moves the charge.  From then on a claim of an old copy puts a worker to it
\* that grants one more retry, and only copies selected before are that old.  Two
\* of them may be, one in each process, but the claim that makes them so is the
\* UPDATE of the one.
Balanced(a, t, o, s) ==
  IF a < MaxAttempts - 1
    THEN t <= 1 + s
    ELSE t + o <= 1 + s + (IF s = 0 THEN 0 ELSE 1)

ChargeInv ==
  \A j \in DOMAIN aiJobs :
    Balanced(aiJobs[j].attempts, TotalCharge(j), Outdated(j) + Other!Outdated(j),
             starts)

\* A claim of the first Hub cannot be overtaken before there was a second.
AloneInv ==
  starts = 0 =>
    /\ hub2 = "down"
    /\ reading # None => reading.attempts = aiJobs[reading.job].attempts

StartIInv ==
  /\ TypeOK /\ Other!TypeOK
  /\ starts \in Nat
  /\ hub = "up"
  /\ PoolInv /\ Other!PoolInv
  /\ DownInv /\ Other!DownInv
  /\ ReadingInv /\ Other!ReadingInv
  /\ DoneHasItsResponse
  /\ AloneInv
  /\ ChargeInv
================================================================================
