----------------------------- MODULE SlidingWindow -----------------------------
(***************************************************************************)
(* What a rate limiter promises: of each caller it knows every admission, it       *)
(* refuses only one whose window is full, and it says how soon there is room.       *)
(* It forgets nothing and has no table that could be full.                           *)
(***************************************************************************)
EXTENDS Naturals, Sequences, FiniteSets

CONSTANTS
  Callers,       \* keys that ask
  MaxRequests,   \* admissions a window may hold
  Window,        \* its length, in ticks
  Second,        \* ticks of a second
  Slack          \* how much too early a time named in seconds may be

VARIABLES
  time,          \* in ticks
  admissions,    \* of each caller, when it was admitted
  comeBack       \* when a refused caller was told to come back, or 0

idealVars == <<time, admissions, comeBack>>

IdealInit ==
  /\ time = Window
  /\ admissions = [k \in Callers |-> <<>>]
  /\ comeBack = [k \in Callers |-> 0]

\* The admissions of k that are less than a window old at t.
Counting(k, t) == {i \in DOMAIN admissions[k] : admissions[k][i] + Window > t}
Room(k, t) == Cardinality(Counting(k, t)) < MaxRequests

Admit(k) ==
  /\ Room(k, time)
  /\ admissions' = [admissions EXCEPT ![k] = Append(@, time)]
  /\ comeBack' = [comeBack EXCEPT ![k] = 0]
  /\ UNCHANGED time

\* There is room by then, with the slack, and one second before there was none.
RoomAfter(k, seconds) ==
  /\ Room(k, time + seconds * Second + Slack)
  /\ seconds > 1 => ~ Room(k, time + (seconds - 1) * Second + Slack - 1)

Refuse(k) ==
  /\ ~ Room(k, time)
  /\ \E seconds \in 1 .. Window \div Second + 1 :
       /\ comeBack' = [comeBack EXCEPT ![k] = time + seconds * Second]
       /\ RoomAfter(k, seconds)
  /\ UNCHANGED <<time, admissions>>

Forget ==
  /\ admissions' = [k \in Callers |-> <<>>]
  /\ comeBack' = [k \in Callers |-> 0]
  /\ UNCHANGED time

Tick == time' \in Nat /\ time' > time /\ UNCHANGED <<admissions, comeBack>>

IdealNext == Tick \/ Forget \/ \E k \in Callers : Admit(k) \/ Refuse(k)

IdealSpec == IdealInit /\ [][IdealNext]_idealVars
=============================================================================
