------------------------------- MODULE QueueTime -------------------------------
(***************************************************************************)
(* Time as the two durable queues store and compare it.                    *)
(*                                                                         *)
(* Instants are ticks, TicksPerSecond of them in a second.  The store      *)
(* writes every instant with time.RFC3339Nano and lets SQLite compare the  *)
(* TEXT.  RFC3339Nano drops trailing zeros of the fraction, so the text of *)
(* a whole second has no fraction at all ("...:05Z") and, because 'Z' sorts *)
(* after '.' and after every digit, it sorts AFTER every other instant of  *)
(* that second ("...:05.5Z").  One fraction digit with TicksPerSecond      *)
(* values stands for the nine decimal digits: the same inversion happens   *)
(* at every digit position.                                                *)
(***************************************************************************)
EXTENDS Integers

CONSTANT TicksPerSecond

ASSUME TicksPerSecondAssumption == TicksPerSecond \in Nat \ {0}

\* SQL NULL in a time column.
NoTime == -1

\* The whole second an instant lies in.
Second(t) == t \div TicksPerSecond

\* The rank of an instant's text among the texts of all instants.
TextRank(t) ==
  LET fraction == t % TicksPerSecond
  IN  Second(t) * (TicksPerSecond + 1)
        + (IF fraction = 0 THEN TicksPerSecond ELSE fraction)

\* t <= u as SQLite evaluates it on the stored text.
TextLeq(t, u) == TextRank(t) <= TextRank(u)

\* retryDelay: time.Second << min(attempt-1, 5), at most 30 seconds.
BackoffSeconds == <<1, 2, 4, 8, 16, 30>>

RetryDelay(attempt) ==
  TicksPerSecond * BackoffSeconds[IF attempt < 1 THEN 1
                                  ELSE IF attempt > 6 THEN 6 ELSE attempt]
================================================================================
