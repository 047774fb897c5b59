------------------------------ MODULE RateLimiter ------------------------------
(***************************************************************************)
(* BoundedWindowLimiter (rate_limit.py): the times of admitted requests per key,  *)
(* at most MaxKeys keys.  The clock is a real number of seconds in the code; here it  *)
(* is a number of ticks, Second of them in a second, and its sums are exact.           *)
(***************************************************************************)
EXTENDS Naturals, Sequences, FiniteSets

CONSTANTS
  Callers,       \* keys that ask
  MaxRequests,   \* max_requests
  Window,        \* window_seconds, in ticks
  MaxKeys,       \* max_keys
  Second,        \* ticks of a second
  Rounding,      \* the 0.999 seconds that are added before int() cuts off, in ticks
  Instants       \* bound: the values of the clock after the first

ASSUME RateLimiterAssumption ==
  /\ IsFiniteSet(Callers)
  /\ MaxRequests \in Nat \ {0} /\ Window \in Nat \ {0} /\ MaxKeys \in Nat \ {0}
  /\ Second \in Nat \ {0} /\ Rounding \in 0 .. Second - 1
  /\ Instants \subseteq Nat

VARIABLES
  monotonic,    \* the clock
  windows,      \* _events: the key -> its admissions in the window, oldest first
  admitted,     \* history: all admissions of each caller since the last clear
  promised,     \* history: when a refused caller was told to come back, or 0
  brokenWord    \* history: a caller that came back Slack after that time was refused

limiterVars == <<monotonic, windows, admitted, promised, brokenWord>>

LimiterInit ==
  /\ monotonic = Window
  /\ windows = [k \in {} |-> <<>>]
  /\ admitted = [k \in Callers |-> <<>>]
  /\ promised = [k \in Callers |-> 0]
  /\ brokenWord = FALSE

\* _prune: as long as the oldest admission is not after the cutoff, it leaves.
Pruned(q) ==
  LET first == CHOOSE n \in 1..(Len(q) + 1) :
                 /\ \A i \in 1..(n - 1) : q[i] + Window <= monotonic
                 /\ n <= Len(q) => q[n] + Window > monotonic
  IN  SubSeq(q, first, Len(q))

\* int(left + 0.999) seconds, and at least one.
WholeSeconds(left) ==
  LET seconds == (left + Rounding) \div Second IN IF seconds < 1 THEN 1 ELSE seconds

\* Faulty variant: until the latest admission leaves.
RetryAfterLatest(q) == WholeSeconds(q[Len(q)] + Window - monotonic) * Second

\* Until the oldest admission leaves: the time named, in ticks.
RetryAfter(q) == WholeSeconds(Head(q) + Window - monotonic) * Second

\* What may still be missing then: 0.001 seconds less than the second is not rounded up.
Slack == Second - Rounding

InTable(k) == k \in DOMAIN windows

\* allow(key), for a key of the table or one that still fits.
Allow(k) ==
  LET q == IF InTable(k) THEN Pruned(windows[k]) ELSE <<>>
      allowed == Len(q) < MaxRequests
      kept == IF allowed THEN Append(q, monotonic) ELSE q
  IN  /\ InTable(k) \/ Cardinality(DOMAIN windows) < MaxKeys
      /\ windows' = [j \in DOMAIN windows \cup {k} |-> IF j = k THEN kept ELSE windows[j]]
      /\ admitted' = IF allowed THEN [admitted EXCEPT ![k] = Append(@, monotonic)] ELSE admitted
      /\ promised' = [promised EXCEPT ![k] = IF allowed THEN 0 ELSE monotonic + RetryAfter(q)]
      /\ brokenWord' =
           (brokenWord \/ (~ allowed /\ promised[k] # 0 /\ promised[k] + Slack <= monotonic))
      /\ UNCHANGED monotonic

Clear ==
  /\ windows' = [k \in {} |-> <<>>]
  /\ admitted' = [k \in Callers |-> <<>>]
  /\ promised' = [k \in Callers |-> 0]
  /\ UNCHANGED <<monotonic, brokenWord>>

ClockAdvances ==
  /\ \E now \in Instants : now > monotonic /\ monotonic' = now
  /\ UNCHANGED <<windows, admitted, promised, brokenWord>>

LimiterNext == ClockAdvances \/ Clear \/ \E k \in Callers : Allow(k)
-----------------------------------------------------------------------------
\* Of all requests a caller ever had admitted, no window, whichever it begins with, holds
\* more than max_requests, although the limiter forgets the ones it pruned.
WindowHolds ==
  \A k \in Callers : \A i \in DOMAIN admitted[k] :
    Cardinality({j \in DOMAIN admitted[k] :
                   admitted[k][i] <= admitted[k][j] /\ admitted[k][j] < admitted[k][i] + Window})
      <= MaxRequests

\* A caller of the table that was refused and comes back 0.001 seconds after the seconds
\* it was told, or later, is admitted.  (One that comes back just then may be refused
\* once more: int(left + 0.999) names 2 seconds when 2.0005 are left.  One that finds the
\* table full is refused for ever: no key leaves the table but by clear.)
RetryAfterIsKept == ~ brokenWord

\* The limiter that forgets admissions decides as one that forgets none: it refuses a
\* caller of the table only if its window is full, and the seconds it names are right but
\* for the 0.001 that is not rounded up: that long after them there is room, and one
\* second before that there was none yet.
Ideal == INSTANCE SlidingWindow WITH
  time <- monotonic, admissions <- admitted, comeBack <- promised

DecidesAsIfNothingWasForgotten == Ideal!IdealSpec

\* The window is neither too long nor too short, nothing it needs is forgotten, and the
\* seconds named miss the time they are about by less than one, and too early by less
\* than 0.001.
LimiterKeepsItsWord ==
  DecidesAsIfNothingWasForgotten /\ [](WindowHolds /\ RetryAfterIsKept)
=============================================================================
