----------------------------- MODULE CollectorProofs -----------------------------
(***************************************************************************)
(* The safety properties of the debug collector and the dev server, for any sizes *)
(* of buffers, beacons and log files and any number of events, failures and reports *)
(* in flight.                                                                        *)
(***************************************************************************)
EXTENDS DebugCollector, FiniteSetTheorems, WellFoundedInduction, TLAPS

-----------------------------------------------------------------------------
(***************************************************************************)
(* CollectorInv is inductive: where an entry may be, from capture to file.      *)
(***************************************************************************)
CollectorSpec == CollectorInit /\ [][CollectorNext]_collectorVars

Posts == [at : {"sent", "handled"}, batch : [Streams -> Seq(Nat)], heard : BOOLEAN]

CollectorTypeOK ==
  /\ buffer \in [Streams -> Seq(Nat)] /\ file \in [Streams -> Seq(Nat)]
  /\ report \in [Reports -> {None} \cup Posts]
  /\ page \in {"open", "closed"} /\ events \in Nat /\ overlapped \in BOOLEAN
  /\ captured \in [Streams -> SUBSET Nat] /\ dropped \in [Streams -> SUBSET Nat]
  /\ repeated \in [Streams -> SUBSET Nat]

Batch(r, s) == report[r].batch[s]

\* The calls the dev server has not seen yet.
Coming == {r \in Reports : report[r].at = "sent"}

\* What is kept or on its way was captured, and was captured so far.
KeptWasCaptured(s) ==
  /\ captured[s] \subseteq 1..events
  /\ Entries(buffer[s]) \subseteq captured[s] /\ Entries(file[s]) \subseteq captured[s]
  /\ \A r \in InFlight : Entries(Batch(r, s)) \subseteq captured[s]

\* While the page is open, a call nobody listens to any more carries nothing that is
\* not also elsewhere.
Reachable(s) ==
  UNION {Entries(Batch(r, s)) : r \in {x \in Coming : report[x].heard \/ page = "closed"}}
NothingIsMissing(s) ==
  captured[s] \subseteq Entries(buffer[s]) \cup Entries(file[s]) \cup dropped[s] \cup Reachable(s)

\* Entries of q that are not in except occur once.
Once(q, except) == \A i, j \in DOMAIN q : q[i] = q[j] /\ q[i] \notin except => i = j

OnePlace(s) ==
  /\ Once(buffer[s], repeated[s]) /\ Once(file[s], repeated[s])
  /\ Entries(buffer[s]) \cap Entries(file[s]) \subseteq repeated[s]
  /\ \A r \in Coming :
       /\ Once(Batch(r, s), repeated[s])
       /\ Entries(Batch(r, s)) \cap Entries(buffer[s]) \subseteq repeated[s]
       /\ Entries(Batch(r, s)) \cap Entries(file[s]) \subseteq repeated[s]
       /\ \A x \in Coming \ {r} :
            Entries(Batch(r, s)) \cap Entries(Batch(x, s)) \subseteq repeated[s]

\* What is not excepted in p is older than what is not in q.
Older(p, q, except) == \A m \in Entries(p) \ except, n \in Entries(q) \ except : m < n

OneCall == overlapped \/ \A r, x \in InFlight : r = x
OldestFirst(s) ==
  overlapped \/ /\ InOrder(file[s], repeated[s]) /\ InOrder(buffer[s], repeated[s])
                /\ Older(file[s], buffer[s], repeated[s])
                /\ \A r \in Coming : /\ InOrder(Batch(r, s), repeated[s])
                                     /\ Older(file[s], Batch(r, s), repeated[s])
                                     /\ Older(Batch(r, s), buffer[s], repeated[s])

CollectorInv ==
  /\ CollectorTypeOK /\ CollectorBounded /\ OneCall
  /\ \A s \in Streams :
       KeptWasCaptured(s) /\ NothingIsMissing(s) /\ OnePlace(s) /\ OldestFirst(s)
-----------------------------------------------------------------------------
\* The newest entries are a part of the queue that nothing follows.
LEMMA NewestIsTheTail ==
  ASSUME NEW q \in Seq(Nat), NEW n \in Nat
  PROVE  /\ Newest(q, n) \in Seq(Nat) /\ Len(Newest(q, n)) <= n
         /\ \E d \in Nat : /\ DOMAIN Newest(q, n) = 1..(Len(q) - d) /\ d <= Len(q)
                           /\ \A i \in DOMAIN Newest(q, n) :
                                i + d \in DOMAIN q /\ Newest(q, n)[i] = q[i + d]
<1>1. CASE Len(q) <= n
  <2>1. Newest(q, n) = q
    BY <1>1 DEF Newest
  <2>2. Len(q) \in Nat /\ DOMAIN q = 1..Len(q)
    OBVIOUS
  <2>3. \A i \in DOMAIN q : i + 0 \in DOMAIN q /\ q[i] = q[i + 0]
    BY <2>2
  <2>4. DOMAIN q = 1..(Len(q) - 0) /\ 0 <= Len(q)
    BY <2>2
  <2>5. QED
    BY <1>1, <2>1, <2>3, <2>4
<1>2. CASE Len(q) > n
  <2> DEFINE k == Newest(q, n)
             d == Len(q) - n
  <2>1. k = SubSeq(q, Len(q) - n + 1, Len(q))
    BY <1>2 DEF Newest
  <2>2. Len(q) \in Nat /\ d \in Nat /\ d <= Len(q) /\ DOMAIN q = 1..Len(q)
    BY <1>2
  <2>3. k \in Seq(Nat) /\ Len(k) = n
    BY <1>2, <2>1, <2>2
  <2>4. \A i \in 1..n : k[i] = q[i + d]
    BY <1>2, <2>1, <2>2
  <2> HIDE DEF k
  <2>5. DOMAIN k = 1..n /\ n = Len(q) - d
    BY <2>2, <2>3
  <2>6. \A i \in 1..n : i + d \in DOMAIN q
    BY <2>2
  <2>7. /\ DOMAIN k = 1..(Len(q) - d)
        /\ \A i \in DOMAIN k : i + d \in DOMAIN q /\ k[i] = q[i + d]
    BY <2>4, <2>5, <2>6
  <2> HIDE DEF d
  <2>8. QED
    BY <2>2, <2>3, <2>7 DEF k
<1>3. QED
  BY <1>1, <1>2

\* What is kept of a queue holds no new entry, nothing twice and nothing out of order.
LEMMA NewestKeeps ==
  ASSUME NEW q \in Seq(Nat), NEW n \in Nat, NEW except
  PROVE  /\ Newest(q, n) \in Seq(Nat) /\ Len(Newest(q, n)) <= n
         /\ Entries(Newest(q, n)) \subseteq Entries(q)
         /\ Once(q, except) => Once(Newest(q, n), except)
         /\ InOrder(q, except) => InOrder(Newest(q, n), except)
<1> DEFINE k == Newest(q, n)
<1>1. PICK d \in Nat : \A i \in DOMAIN k : i + d \in DOMAIN q /\ k[i] = q[i + d]
  BY NewestIsTheTail
<1>2. k \in Seq(Nat) /\ Len(k) <= n
  BY NewestIsTheTail
<1> HIDE DEF k
<1>3. DOMAIN k \subseteq Nat
  BY <1>2
<1>4. Entries(k) \subseteq Entries(q)
  BY <1>1 DEF Entries
<1>5. ASSUME Once(q, except) PROVE Once(k, except)
  BY <1>1, <1>3, <1>5 DEF Once
<1>6. ASSUME InOrder(q, except) PROVE InOrder(k, except)
  <2>1. SUFFICES ASSUME NEW i \in DOMAIN k, NEW j \in DOMAIN k, i < j,
                        {k[i], k[j]} \cap except = {}
                 PROVE  k[i] < k[j]
    BY DEF InOrder
  <2>2. i + d < j + d
    BY <1>3, <2>1
  <2>3. QED
    BY <1>1, <1>6, <2>1, <2>2 DEF InOrder
<1>7. QED
  BY <1>2, <1>4, <1>5, <1>6 DEF k

\* A queue behind another one.
LEMMA JoinedEntries ==
  ASSUME NEW p \in Seq(Nat), NEW q \in Seq(Nat)
  PROVE  /\ p \o q \in Seq(Nat) /\ DOMAIN (p \o q) = 1..(Len(p) + Len(q))
         /\ \A i \in 1..Len(p) : (p \o q)[i] = p[i]
         /\ \A i \in (Len(p) + 1)..(Len(p) + Len(q)) :
              i - Len(p) \in 1..Len(q) /\ (p \o q)[i] = q[i - Len(p)]
         /\ Entries(p \o q) = Entries(p) \cup Entries(q)
<1>1. /\ p \o q \in Seq(Nat) /\ Len(p \o q) = Len(p) + Len(q)
      /\ Len(p) \in Nat /\ Len(q) \in Nat /\ DOMAIN p = 1..Len(p) /\ DOMAIN q = 1..Len(q)
  OBVIOUS
<1>2. DOMAIN (p \o q) = 1..(Len(p) + Len(q))
  BY <1>1
<1>3. \A i \in 1..Len(p) : (p \o q)[i] = p[i]
  BY <1>1
<1>4. \A i \in (Len(p) + 1)..(Len(p) + Len(q)) :
        i - Len(p) \in 1..Len(q) /\ (p \o q)[i] = q[i - Len(p)]
  BY <1>1
<1>5. \A j \in 1..Len(q) : j + Len(p) \in DOMAIN (p \o q) /\ (p \o q)[j + Len(p)] = q[j]
  BY <1>1
<1>6. \A i \in 1..Len(p) : i \in DOMAIN (p \o q)
  BY <1>1, <1>2
<1> DEFINE w == p \o q
<1> HIDE DEF w
<1>7. Entries(w) \subseteq Entries(p) \cup Entries(q)
  <2>1. ASSUME NEW i \in DOMAIN w PROVE w[i] \in Entries(p) \cup Entries(q)
    <3>1. i \in 1..Len(p) \/ i \in (Len(p) + 1)..(Len(p) + Len(q))
      BY <1>1, <1>2, <2>1 DEF w
    <3>2. CASE i \in 1..Len(p)
      BY <1>1, <1>3, <3>2 DEF w, Entries
    <3>3. CASE i \in (Len(p) + 1)..(Len(p) + Len(q))
      BY <1>1, <1>4, <3>3 DEF w, Entries
    <3>4. QED
      BY <3>1, <3>2, <3>3
  <2>2. QED
    BY <2>1 DEF Entries
<1>8. Entries(p) \subseteq Entries(w) /\ Entries(q) \subseteq Entries(w)
  BY <1>1, <1>3, <1>5, <1>6 DEF w, Entries
<1>9. QED
  BY <1>1, <1>2, <1>3, <1>4, <1>7, <1>8 DEF w

\* Queues without a common entry hold nothing twice together.
LEMMA JoinedOnce ==
  ASSUME NEW p \in Seq(Nat), NEW q \in Seq(Nat), NEW except,
         Once(p, except), Once(q, except), Entries(p) \cap Entries(q) \subseteq except
  PROVE  Once(p \o q, except)
<1> DEFINE w == p \o q
<1>1. /\ DOMAIN w = 1..(Len(p) + Len(q)) /\ Len(p) \in Nat /\ Len(q) \in Nat
      /\ DOMAIN p = 1..Len(p) /\ DOMAIN q = 1..Len(q)
      /\ \A i \in 1..Len(p) : w[i] = p[i]
      /\ \A i \in (Len(p) + 1)..(Len(p) + Len(q)) :
           i - Len(p) \in 1..Len(q) /\ w[i] = q[i - Len(p)]
  BY JoinedEntries
<1> HIDE DEF w
<1>2. ASSUME NEW i \in DOMAIN w, NEW j \in DOMAIN w, w[i] = w[j], w[i] \notin except
      PROVE  i = j
  <2>1. CASE i \in 1..Len(p) /\ j \in 1..Len(p)
    BY <1>1, <1>2, <2>1 DEF Once
  <2>2. CASE i \notin 1..Len(p) /\ j \notin 1..Len(p)
    <3>1. /\ i \in (Len(p) + 1)..(Len(p) + Len(q)) /\ j \in (Len(p) + 1)..(Len(p) + Len(q))
      BY <1>1, <1>2, <2>2
    <3>2. i - Len(p) = j - Len(p)
      BY <1>1, <1>2, <3>1 DEF Once
    <3>3. QED
      BY <1>1, <3>1, <3>2
  <2>3. ASSUME NEW x \in 1..Len(p), NEW y \in DOMAIN w, y \notin 1..Len(p), w[x] = w[y]
        PROVE  w[x] \in except
    <3>1. y \in (Len(p) + 1)..(Len(p) + Len(q))
      BY <1>1, <2>3
    <3>2. w[x] \in Entries(p) /\ w[y] \in Entries(q)
      BY <1>1, <2>3, <3>1 DEF Entries
    <3>3. QED
      BY <2>3, <3>2
  <2>4. QED
    BY <1>2, <2>1, <2>2, <2>3
<1>3. QED
  BY <1>2 DEF Once, w

\* Older entries in front of newer ones are in order.
LEMMA JoinedInOrder ==
  ASSUME NEW p \in Seq(Nat), NEW q \in Seq(Nat), NEW except,
         InOrder(p, except), InOrder(q, except), Older(p, q, except)
  PROVE  InOrder(p \o q, except)
<1> DEFINE w == p \o q
<1>1. /\ DOMAIN w = 1..(Len(p) + Len(q)) /\ Len(p) \in Nat /\ Len(q) \in Nat
      /\ DOMAIN p = 1..Len(p) /\ DOMAIN q = 1..Len(q)
      /\ \A i \in 1..Len(p) : w[i] = p[i]
      /\ \A i \in (Len(p) + 1)..(Len(p) + Len(q)) :
           i - Len(p) \in 1..Len(q) /\ w[i] = q[i - Len(p)]
  BY JoinedEntries
<1> HIDE DEF w
<1>2. ASSUME NEW i \in DOMAIN w, NEW j \in DOMAIN w, i < j, {w[i], w[j]} \cap except = {}
      PROVE  w[i] < w[j]
  <2>1. CASE j \in 1..Len(p)
    <3>1. i \in 1..Len(p)
      BY <1>1, <1>2, <2>1
    <3>2. QED
      BY <1>1, <1>2, <2>1, <3>1 DEF InOrder
  <2>2. CASE i \notin 1..Len(p)
    <3>1. /\ i \in (Len(p) + 1)..(Len(p) + Len(q)) /\ j \in (Len(p) + 1)..(Len(p) + Len(q))
          /\ i - Len(p) < j - Len(p)
      BY <1>1, <1>2, <2>2, SMTT(20)
    <3>2. QED
      BY <1>1, <1>2, <3>1 DEF InOrder
  <2>3. CASE i \in 1..Len(p) /\ j \notin 1..Len(p)
    <3>1. j \in (Len(p) + 1)..(Len(p) + Len(q))
      BY <1>1, <1>2, <2>3
    <3>2. w[i] \in Entries(p) /\ w[j] \in Entries(q)
      BY <1>1, <2>3, <3>1 DEF Entries
    <3>3. QED
      BY <1>2, <3>2 DEF Older
  <2>4. QED
    BY <2>1, <2>2, <2>3
<1>3. QED
  BY <1>2 DEF InOrder, w

\* More exceptions, or exceptions everywhere.
LEMMA Excepted ==
  ASSUME NEW q, NEW few, NEW many, few \subseteq many
  PROVE  /\ Once(q, few) => Once(q, many)
         /\ InOrder(q, few) => InOrder(q, many)
         /\ Entries(q) \subseteq many => Once(q, many) /\ InOrder(q, many)
<1>1. Once(q, few) => Once(q, many)
  BY DEF Once
<1>2. InOrder(q, few) => InOrder(q, many)
  BY DEF InOrder
<1>3. Entries(q) \subseteq many => Once(q, many) /\ InOrder(q, many)
  BY DEF Entries, Once, InOrder
<1>4. QED
  BY <1>1, <1>2, <1>3
\* A set of numbers that is not empty has a least one.
LEMMA LeastOf ==
  ASSUME NEW T \in SUBSET Nat, T # {}
  PROVE  \E m \in T : \A n \in T : m <= n
<1> DEFINE Before == OpToRel(<, Nat)
<1>1. \A m, n \in Nat : n < m => <<n, m>> \in Before
  BY DEF OpToRel
<1>2. IsWellFoundedOn(Before, Nat)
  BY NatLessThanWellFounded
<1> HIDE DEF Before
<1>3. PICK m \in T : \A n \in T : ~ (<<n, m>> \in Before)
  <2>1. T \subseteq Nat
    OBVIOUS
  <2>2. \E m \in T : \A n \in T : ~ (<<n, m>> \in Before)
    BY <1>2, <2>1, WFMin
  <2>3. QED
    BY <2>2
<1>4. ASSUME NEW n \in T PROVE m <= n
  <2>1. m \in Nat /\ n \in Nat
    OBVIOUS
  <2>2. ~ n < m
    BY <1>1, <1>3, <2>1
  <2>3. QED
    BY <2>1, <2>2
<1>5. QED
  BY <1>4

-----------------------------------------------------------------------------
\* The size of a log file is a number, and that of an empty one is 0.
LEMMA LogSizeType == ASSUME NEW q \in Seq(Nat) PROVE LogSize(q) \in Nat
<1> DEFINE long == {i \in DOMAIN q : q[i] \in LongEntries}
<1>1. IsFiniteSet(long)
  <2>1. 1 \in Int /\ Len(q) \in Int /\ DOMAIN q = 1..Len(q)
    OBVIOUS
  <2>2. IsFiniteSet(1..Len(q))
    BY <2>1, FS_Interval
  <2>3. long \subseteq 1..Len(q)
    BY <2>1
  <2>4. QED
    BY <2>2, <2>3, FS_Subset
<1>2. Cardinality(long) \in Nat
  BY <1>1, FS_CardinalityType
<1>3. LogSize(q) = Len(q) + TrimTarget * Cardinality(long)
  BY DEF LogSize
<1> HIDE DEF long
<1>4. TrimTarget \in Nat /\ Len(q) \in Nat
  BY DebugCollectorAssumption
<1>5. QED
  BY <1>2, <1>3, <1>4

LEMMA NothingFits == ASSUME NEW q, Len(q) = 0, DOMAIN q = {} PROVE LogSize(q) = 0
<1>1. {i \in DOMAIN q : q[i] \in LongEntries} = {}
  OBVIOUS
<1>2. Cardinality({}) = 0
  BY FS_EmptySet
<1>3. TrimTarget \in Nat
  BY DebugCollectorAssumption
<1>4. QED
  BY <1>1, <1>2, <1>3 DEF LogSize

\* A trimmed file is the newest part of it, and keeps the limit.
LEMMA TrimKeeps ==
  ASSUME NEW q \in Seq(Nat)
  PROVE  /\ LogSize(TrimLogFile(q)) <= MaxLogSize
         /\ \E n \in Nat : TrimLogFile(q) = Newest(q, n)
<1>1. CASE LogSize(q) <= MaxLogSize
  <2>1. Newest(q, Len(q)) = q /\ Len(q) \in Nat
    BY DEF Newest
  <2>2. QED
    BY <1>1, <2>1 DEF TrimLogFile
<1>2. CASE ~ (LogSize(q) <= MaxLogSize)
  <2> DEFINE Good(kept) == /\ LogSize(kept) <= TrimTarget
                           /\ \A n \in 0..Len(q) : LogSize(Newest(q, n)) <= TrimTarget
                                                     => n <= Len(kept)
             Tails == {Newest(q, n) : n \in 0..Len(q)}
             T == {d \in 0..Len(q) : LogSize(Newest(q, Len(q) - d)) <= TrimTarget}
  <2>1. Len(q) \in Nat /\ TrimTarget \in Nat /\ MaxLogSize \in Nat /\ TrimTarget <= MaxLogSize
    BY DebugCollectorAssumption
  <2>2. Len(q) \in T
    <3>1. Newest(q, 0) \in Seq(Nat) /\ Len(Newest(q, 0)) <= 0
      BY NewestIsTheTail
    <3>2. Len(Newest(q, 0)) = 0 /\ DOMAIN Newest(q, 0) = {}
      BY <3>1
    <3>3. LogSize(Newest(q, 0)) = 0
      BY <3>2, NothingFits
    <3>4. Len(q) - Len(q) = 0
      BY <2>1
    <3>5. QED
      BY <2>1, <3>3, <3>4
  <2>3. T \in SUBSET Nat
    BY <2>1
  <2>4. PICK d \in T : \A e \in T : d <= e
    BY <2>2, <2>3, LeastOf
  <2> DEFINE m == Len(q) - d
  <2>5. d \in 0..Len(q) /\ m \in 0..Len(q) /\ LogSize(Newest(q, m)) <= TrimTarget
    BY <2>1, <2>4
  <2>6. Len(Newest(q, m)) = m
    BY <2>1, <2>5 DEF Newest
  <2>7. ASSUME NEW n \in 0..Len(q), LogSize(Newest(q, n)) <= TrimTarget PROVE n <= m
    <3>1. Len(q) - (Len(q) - n) = n /\ Len(q) - n \in 0..Len(q)
      BY <2>1
    <3>2. Len(q) - n \in T
      BY <2>7, <3>1
    <3>3. d <= Len(q) - n
      BY <2>4, <3>2
    <3>4. QED
      BY <2>1, <2>5, <3>3
  <2>8. Newest(q, m) \in Tails /\ Good(Newest(q, m))
    BY <2>5, <2>6, <2>7
  <2>9. TrimLogFile(q) = CHOOSE kept \in Tails : Good(kept)
    BY <1>2 DEF TrimLogFile
  <2>10. TrimLogFile(q) \in Tails /\ Good(TrimLogFile(q))
    <3> HIDE DEF Tails, Good
    <3>1. QED
      BY <2>8, <2>9
  <2>11. PICK n \in 0..Len(q) : TrimLogFile(q) = Newest(q, n)
    BY <2>10
  <2>12. n \in Nat
    BY <2>1
  <2>13. LogSize(TrimLogFile(q)) \in Nat
    BY <2>11, <2>12, NewestIsTheTail, LogSizeType
  <2>14. QED
    BY <2>1, <2>10, <2>11, <2>12, <2>13
<1>3. QED
  BY <1>1, <1>2

\* The first entries of a queue.
LEMMA FirstKeeps ==
  ASSUME NEW q \in Seq(Nat), NEW n \in 0..Len(q), NEW except
  PROVE  LET k == SubSeq(q, 1, n)
         IN  /\ k \in Seq(Nat) /\ Entries(k) \subseteq Entries(q)
             /\ Once(q, except) => Once(k, except)
             /\ InOrder(q, except) => InOrder(k, except)
<1> DEFINE k == SubSeq(q, 1, n)
<1>1. Len(q) \in Nat /\ n \in Nat /\ n <= Len(q) /\ DOMAIN q = 1..Len(q)
  OBVIOUS
<1>2. k \in Seq(Nat) /\ Len(k) = n /\ \A i \in 1..n : k[i] = q[i]
  BY <1>1
<1> HIDE DEF k
<1>3. DOMAIN k = 1..n /\ DOMAIN k \subseteq DOMAIN q
  BY <1>1, <1>2
<1>4. QED
  BY <1>2, <1>3, SMTT(20) DEF Entries, Once, InOrder, k

\* What a trim leaves of a file that was written, whether it succeeds or fails.
LEMMA TrimmedFile ==
  ASSUME NEW q \in Seq(Nat), NEW w, w = TrimLogFile(q) \/ w \in TrimErrors(q), NEW except
  PROVE  /\ w \in Seq(Nat) /\ Entries(w) \subseteq Entries(q)
         /\ Once(q, except) => Once(w, except)
         /\ InOrder(q, except) => InOrder(w, except)
<1> DEFINE t == TrimLogFile(q)
<1>1. /\ t \in Seq(Nat) /\ Entries(t) \subseteq Entries(q)
      /\ Once(q, except) => Once(t, except)
      /\ InOrder(q, except) => InOrder(t, except)
  BY TrimKeeps, NewestKeeps
<1>2. w = q \/ w = t \/ \E n \in 0..Len(t) : w = SubSeq(t, 1, n)
  BY DEF TrimErrors
<1> HIDE DEF t
<1>3. CASE w = q \/ w = t
  BY <1>1, <1>3
<1>4. ASSUME NEW n \in 0..Len(t), w = SubSeq(t, 1, n)
      PROVE  /\ w \in Seq(Nat) /\ Entries(w) \subseteq Entries(t)
             /\ Once(t, except) => Once(w, except)
             /\ InOrder(t, except) => InOrder(w, except)
  BY <1>1, <1>4, FirstKeeps
<1>5. QED
  BY <1>1, <1>2, <1>3, <1>4
-----------------------------------------------------------------------------
\* A single entry behind a queue.
LEMMA OneAppended ==
  ASSUME NEW q \in Seq(Nat), NEW n \in Nat
  PROVE  Append(q, n) = q \o <<n>> /\ <<n>> \in Seq(Nat) /\ Entries(<<n>>) = {n}
<1>1. <<n>> \in Seq(Nat) /\ Entries(<<n>>) = {n}
  BY DEF Entries
<1>2. Append(q, n) = q \o <<n>>
  OBVIOUS
<1>3. QED
  BY <1>1, <1>2

LEMMA OneIsFine ==
  ASSUME NEW n \in Nat, NEW except PROVE Once(<<n>>, except) /\ InOrder(<<n>>, except)
<1>1. DOMAIN <<n>> = 1..1
  OBVIOUS
<1>2. \A i, j \in DOMAIN <<n>> : i = j /\ ~ i < j
  BY <1>1
<1>3. QED
  BY <1>2 DEF Once, InOrder

\* An entry that is newer than all others goes to the end of the buffer.
LEMMA PushedBuffer ==
  ASSUME NEW q \in Seq(Nat), NEW n \in Nat, NEW except, \A m \in Entries(q) : m < n
  PROVE  /\ Append(q, n) \in Seq(Nat) /\ Entries(Append(q, n)) = Entries(q) \cup {n}
         /\ Once(q, except) => Once(Append(q, n), except)
         /\ InOrder(q, except) => InOrder(Append(q, n), except)
<1> DEFINE l == <<n>>
<1>1. Append(q, n) = q \o l /\ l \in Seq(Nat) /\ Entries(l) = {n}
  BY OneAppended
<1>2. Once(l, except) /\ InOrder(l, except)
  BY OneIsFine
<1> HIDE DEF l
<1>3. q \o l \in Seq(Nat) /\ Entries(q \o l) = Entries(q) \cup {n}
  BY <1>1, JoinedEntries
<1>4. \A m \in Entries(q) : m # n
  <2>1. Entries(q) \subseteq Nat
    BY DEF Entries
  <2>2. QED
    BY <2>1
<1>5. Once(q, except) => Once(q \o l, except)
  BY <1>1, <1>2, <1>4, JoinedOnce
<1>6. InOrder(q, except) => InOrder(q \o l, except)
  <2>1. Older(q, l, except)
    BY <1>1 DEF Older
  <2>2. QED
    BY <1>1, <1>2, <2>1, JoinedInOrder
<1>7. QED
  BY <1>1, <1>3, <1>5, <1>6

\* The initial state satisfies the invariant.
LEMMA CollectorInvInit == CollectorInit => CollectorInv
<1>1. SUFFICES ASSUME CollectorInit PROVE CollectorInv
  OBVIOUS
<1>2. \A s \in Streams : buffer[s] = <<>> /\ file[s] = <<>> /\ captured[s] = {}
  BY <1>1 DEF CollectorInit, Empty
<1>3. <<>> \in Seq(Nat) /\ Entries(<<>>) = {} /\ DOMAIN <<>> = {} /\ Len(<<>>) = 0
  BY DEF Entries
<1>4. \A r \in Reports : report[r] = None
  BY <1>1 DEF CollectorInit
<1>5. Coming = {} /\ InFlight = {}
  BY <1>4 DEF Coming, InFlight, None
<1>6. CollectorTypeOK
  BY <1>1, <1>3 DEF CollectorInit, Empty, CollectorTypeOK
<1>7. CollectorBounded
  <2>1. LogSize(<<>>) = 0
    BY <1>3, NothingFits
  <2>2. ASSUME NEW s \in Streams PROVE 0 <= BufferSize[s] /\ 0 <= MaxLogSize
    BY DebugCollectorAssumption
  <2>3. QED
    BY <1>2, <1>3, <2>1, <2>2 DEF CollectorBounded
<1>8. ASSUME NEW s \in Streams
      PROVE  KeptWasCaptured(s) /\ NothingIsMissing(s) /\ OnePlace(s) /\ OldestFirst(s)
  <2>1. Once(<<>>, repeated[s]) /\ InOrder(<<>>, repeated[s])
    BY <1>3 DEF Once, InOrder
  <2>2. Older(<<>>, <<>>, repeated[s])
    BY <1>3 DEF Older
  <2>3. QED
    BY <1>2, <1>3, <1>5, <2>1, <2>2
       DEF KeptWasCaptured, NothingIsMissing, OnePlace, OldestFirst
<1>9. OneCall
  BY <1>5 DEF OneCall
<1>10. QED
  BY <1>6, <1>7, <1>8, <1>9 DEF CollectorInv

\* What the invariant says of one stream, and of the calls.
LEMMA StreamFacts ==
  ASSUME CollectorInv, NEW s \in Streams
  PROVE  /\ buffer[s] \in Seq(Nat) /\ file[s] \in Seq(Nat) /\ events \in Nat
         /\ captured[s] \in SUBSET Nat /\ dropped[s] \in SUBSET Nat /\ repeated[s] \in SUBSET Nat
         /\ LogSize(file[s]) <= MaxLogSize \/ s \in untrimmed
         /\ BufferSize[s] \in Nat /\ BeaconKeep[s] \in Nat
         /\ \A r \in InFlight : r \in Reports /\ report[r] \in Posts /\ Batch(r, s) \in Seq(Nat)
         /\ Coming \subseteq InFlight
         /\ KeptWasCaptured(s) /\ NothingIsMissing(s) /\ OnePlace(s) /\ OldestFirst(s)
<1>1. /\ buffer[s] \in Seq(Nat) /\ file[s] \in Seq(Nat) /\ events \in Nat
      /\ captured[s] \in SUBSET Nat /\ dropped[s] \in SUBSET Nat /\ repeated[s] \in SUBSET Nat
  BY DEF CollectorInv, CollectorTypeOK
<1>2. BufferSize[s] \in Nat /\ BeaconKeep[s] \in Nat
  BY DebugCollectorAssumption
<1>3. \A r \in InFlight : r \in Reports /\ report[r] \in Posts
  BY DEF InFlight, CollectorInv, CollectorTypeOK
<1>4. \A r \in InFlight : Batch(r, s) \in Seq(Nat)
  BY <1>3 DEF Batch, Posts
<1>5. Coming \subseteq InFlight
  BY DEF Coming, InFlight, None
<1>6. QED
  BY <1>1, <1>2, <1>3, <1>4, <1>5 DEF CollectorInv, CollectorBounded

\* The queue of a stream nothing was captured for.
LEMMA EmptyQueue ==
  /\ <<>> \in Seq(Nat) /\ Entries(<<>>) = {} /\ Len(<<>>) = 0
  /\ \A except : Once(<<>>, except) /\ InOrder(<<>>, except)
  /\ \A q, except : Older(q, <<>>, except) /\ Older(<<>>, q, except)
<1>1. DOMAIN <<>> = {} /\ Len(<<>>) = 0 /\ <<>> \in Seq(Nat)
  OBVIOUS
<1>2. QED
  BY <1>1 DEF Entries, Once, InOrder, Older

\* An entry that is captured is the newest of all, in a buffer that is kept or was emptied.
LEMMA PushKeeps ==
  ASSUME CollectorInv, NEW S \in SUBSET Streams, NEW old \in {buffer, Empty}, Push(S, old),
         UNCHANGED <<report, page, file, repeated, overlapped, untrimmed>>
  PROVE  CollectorInv'
<1> DEFINE pushed == [s \in Streams |-> IF s \in S THEN Append(old[s], events + 1)
                                                    ELSE old[s]]
           New(s) == IF s \in S THEN {events + 1} ELSE {}
<1>1. /\ events' = events + 1
      /\ buffer' = [s \in Streams |-> PruneBuffer(pushed[s], s)]
      /\ captured' = [s \in Streams |-> IF s \in S THEN captured[s] \cup {events + 1}
                                                   ELSE captured[s]]
      /\ dropped' = [s \in Streams |-> dropped[s] \cup
                       ((Entries(buffer[s]) \cup Entries(pushed[s])) \ Entries(buffer'[s]))]
      /\ UNCHANGED <<report, page, file, repeated, overlapped, untrimmed>>
  BY DEF Push
<1>2. ASSUME NEW s \in Streams
      PROVE  /\ pushed[s] \in Seq(Nat)
             /\ Entries(pushed[s]) \subseteq Entries(buffer[s]) \cup New(s)
             /\ New(s) \subseteq Entries(pushed[s])
             /\ Once(pushed[s], repeated[s])
             /\ InOrder(buffer[s], repeated[s]) => InOrder(pushed[s], repeated[s])
  <2>1. /\ buffer[s] \in Seq(Nat) /\ events \in Nat /\ Once(buffer[s], repeated[s])
        /\ Entries(buffer[s]) \subseteq 1..events
    BY StreamFacts DEF KeptWasCaptured, OnePlace
  <2>2. old[s] = buffer[s] \/ old[s] = <<>>
    BY DEF Empty
  <2>3. /\ old[s] \in Seq(Nat) /\ Once(old[s], repeated[s])
        /\ Entries(old[s]) \subseteq Entries(buffer[s])
        /\ InOrder(buffer[s], repeated[s]) => InOrder(old[s], repeated[s])
    BY <2>1, <2>2, EmptyQueue
  <2>4. CASE s \in S
    <3>1. \A m \in Entries(old[s]) : m < events + 1
      BY <2>1, <2>3
    <3>2. events + 1 \in Nat
      BY <2>1
    <3>3. QED
      BY <2>3, <2>4, <3>1, <3>2, PushedBuffer
  <2>5. CASE s \notin S
    BY <2>3, <2>5
  <2>6. QED
    BY <2>4, <2>5
<1> HIDE DEF pushed
<1>3. ASSUME NEW s \in Streams
      PROVE  /\ buffer'[s] \in Seq(Nat) /\ Len(buffer'[s]) <= BufferSize[s]
             /\ Entries(buffer'[s]) \subseteq Entries(buffer[s]) \cup New(s)
             /\ Once(buffer'[s], repeated[s])
             /\ InOrder(buffer[s], repeated[s]) => InOrder(buffer'[s], repeated[s])
             /\ captured'[s] = captured[s] \cup New(s)
             /\ dropped'[s] = dropped[s]
                  \cup ((Entries(buffer[s]) \cup New(s)) \ Entries(buffer'[s]))
  <2>1. buffer'[s] = Newest(pushed[s], BufferSize[s])
    BY <1>1 DEF PruneBuffer
  <2>2. BufferSize[s] \in Nat
    BY DebugCollectorAssumption
  <2>3. captured'[s] = captured[s] \cup New(s)
    BY <1>1
  <2>4. dropped'[s] = dropped[s]
          \cup ((Entries(buffer[s]) \cup Entries(pushed[s])) \ Entries(buffer'[s]))
    BY <1>1
  <2> HIDE DEF New
  <2>5. QED
    BY <1>2, <2>1, <2>2, <2>3, <2>4, NewestKeeps
<1>4. ASSUME NEW s \in Streams PROVE New(s) \subseteq {events + 1} /\ events + 1 \in Nat
  BY StreamFacts
<1>5. CollectorTypeOK'
  <2>1. buffer' \in [Streams -> Seq(Nat)]
    BY <1>1, <1>3
  <2>2. captured' \in [Streams -> SUBSET Nat]
    BY <1>1, <1>4 DEF CollectorInv, CollectorTypeOK
  <2>3. dropped' \in [Streams -> SUBSET Nat]
    <3>1. ASSUME NEW s \in Streams PROVE dropped'[s] \in SUBSET Nat
      <4>1. Entries(buffer[s]) \subseteq Nat /\ dropped[s] \in SUBSET Nat
        BY StreamFacts DEF Entries
      <4>2. QED
        BY <1>3, <1>4, <4>1
    <3>2. QED
      BY <1>1, <3>1
  <2>4. events' \in Nat
    BY <1>1 DEF CollectorInv, CollectorTypeOK
  <2>5. QED
    BY <1>1, <2>1, <2>2, <2>3, <2>4 DEF CollectorInv, CollectorTypeOK
<1>6. CollectorBounded'
  BY <1>1, <1>3 DEF CollectorInv, CollectorBounded
<1>7. OneCall'
  BY <1>1 DEF CollectorInv, OneCall, InFlight
<1>8. ASSUME NEW s \in Streams
      PROVE  (KeptWasCaptured(s) /\ NothingIsMissing(s) /\ OnePlace(s) /\ OldestFirst(s))'
  <2>1. /\ captured[s] \subseteq 1..events /\ events \in Nat
        /\ Entries(buffer[s]) \subseteq captured[s] /\ Entries(file[s]) \subseteq captured[s]
        /\ \A r \in InFlight : Entries(Batch(r, s)) \subseteq captured[s]
        /\ Coming \subseteq InFlight
    BY StreamFacts DEF KeptWasCaptured
  <2>2. /\ file'[s] = file[s] /\ repeated'[s] = repeated[s] /\ overlapped' = overlapped
        /\ InFlight' = InFlight /\ Coming' = Coming /\ Reachable(s)' = Reachable(s)
        /\ \A r \in Reports : Batch(r, s)' = Batch(r, s)
    BY <1>1 DEF InFlight, Coming, Reachable, Batch
  <2>3. Coming \subseteq Reports /\ InFlight \subseteq Reports
    BY DEF Coming, InFlight
  <2> HIDE DEF New
  <2>4. KeptWasCaptured(s)'
    <3>1. captured'[s] \subseteq 1..events'
      BY <1>1, <1>3, <1>4, <2>1
    <3>2. QED
      BY <1>3, <2>1, <2>2, <2>3, <3>1 DEF KeptWasCaptured
  <2>5. NothingIsMissing(s)'
    BY <1>3, <2>2, StreamFacts DEF NothingIsMissing
  <2>6. \A m \in captured[s], n \in New(s) : m < n
    BY <1>4, <2>1
  <2>7. captured[s] \cap New(s) = {}
    BY <1>4, <2>1
  <2>8. OnePlace(s)'
    <3>1. /\ Once(file[s], repeated[s])
          /\ Entries(buffer[s]) \cap Entries(file[s]) \subseteq repeated[s]
          /\ \A r \in Coming :
               /\ Once(Batch(r, s), repeated[s])
               /\ Entries(Batch(r, s)) \cap Entries(buffer[s]) \subseteq repeated[s]
               /\ Entries(Batch(r, s)) \cap Entries(file[s]) \subseteq repeated[s]
               /\ \A x \in Coming \ {r} :
                    Entries(Batch(r, s)) \cap Entries(Batch(x, s)) \subseteq repeated[s]
      BY StreamFacts DEF OnePlace
    <3>2. ASSUME NEW r \in Coming
          PROVE  Entries(Batch(r, s)) \cap Entries(buffer'[s]) \subseteq repeated[s]
      BY <1>3, <2>1, <2>7, <3>1
    <3>3. Entries(buffer'[s]) \cap Entries(file[s]) \subseteq repeated[s]
      BY <1>3, <2>1, <2>7, <3>1
    <3>4. Once(buffer'[s], repeated[s])
      BY <1>3
    <3>5. QED
      BY <2>2, <2>3, <3>1, <3>2, <3>3, <3>4 DEF OnePlace
  <2>9. OldestFirst(s)'
    <3>1. CASE overlapped
      BY <2>2, <3>1 DEF OldestFirst
    <3>2. CASE ~ overlapped
      <4>1. ASSUME NEW q, Entries(q) \subseteq captured[s], Older(q, buffer[s], repeated[s])
            PROVE  Older(q, buffer'[s], repeated[s])
        BY <1>3, <2>6, <4>1 DEF Older
      <4>2. /\ InOrder(file[s], repeated[s]) /\ InOrder(buffer[s], repeated[s])
            /\ Older(file[s], buffer[s], repeated[s])
            /\ \A r \in Coming : /\ InOrder(Batch(r, s), repeated[s])
                                 /\ Older(file[s], Batch(r, s), repeated[s])
                                 /\ Older(Batch(r, s), buffer[s], repeated[s])
        BY <3>2, StreamFacts DEF OldestFirst
      <4>3. \A r \in Coming : Older(Batch(r, s), buffer'[s], repeated[s])
        BY <2>1, <4>1, <4>2
      <4>4. Older(file[s], buffer'[s], repeated[s])
        BY <2>1, <4>1, <4>2
      <4>5. QED
        BY <1>3, <2>2, <2>3, <4>2, <4>3, <4>4 DEF OldestFirst
    <3>3. QED
      BY <3>1, <3>2
  <2>10. QED
    BY <2>4, <2>5, <2>8, <2>9
<1>9. QED
  BY <1>5, <1>6, <1>7, <1>8 DEF CollectorInv
-----------------------------------------------------------------------------
\* One call changes.
Becomes(r, v) == report' = [report EXCEPT ![r] = v]

LEMMA OneReport ==
  ASSUME CollectorInv, NEW r \in Reports, NEW v \in {None} \cup Posts,
         Becomes(r, v)
  PROVE  /\ report' \in [Reports -> {None} \cup Posts]
         /\ report'[r] = v /\ \A x \in Reports \ {r} : report'[x] = report[x]
         /\ Coming' \subseteq Coming \cup {r} /\ Coming \subseteq Coming' \cup {r}
         /\ InFlight' \subseteq InFlight \cup {r} /\ InFlight \subseteq InFlight' \cup {r}
         /\ r \in Coming' <=> v.at = "sent"
         /\ r \in InFlight' <=> v # None
         /\ \A s \in Streams :
              /\ \A x \in Reports \ {r} : Batch(x, s)' = Batch(x, s)
              /\ Batch(r, s)' = v.batch[s]
<1>1. report \in [Reports -> {None} \cup Posts]
  BY DEF CollectorInv, CollectorTypeOK
<1>2. /\ report' \in [Reports -> {None} \cup Posts]
      /\ report'[r] = v /\ \A x \in Reports \ {r} : report'[x] = report[x]
  BY <1>1 DEF Becomes
<1>3. QED
  BY <1>2 DEF Coming, InFlight, Batch

\* The stream's entries stay in one place when each of the places that change takes
\* what it holds from them.
LEMMA OnePlaceKept ==
  ASSUME CollectorInv, NEW s \in Streams, NEW r \in Reports, NEW v \in {None} \cup Posts,
         Becomes(r, v),
         repeated[s] \subseteq repeated'[s],
         Once(buffer'[s], repeated'[s]), Once(file'[s], repeated'[s]),
         Entries(buffer'[s]) \cap Entries(file'[s]) \subseteq repeated'[s],
         v.at = "sent" =>
           /\ Once(v.batch[s], repeated'[s])
           /\ Entries(v.batch[s]) \cap Entries(buffer'[s]) \subseteq repeated'[s]
           /\ Entries(v.batch[s]) \cap Entries(file'[s]) \subseteq repeated'[s],
         NEW Mine,
         Mine \subseteq Entries(buffer[s]) \cup Entries(file[s]) \cup repeated'[s]
                        \cup (IF r \in Coming THEN Entries(Batch(r, s)) ELSE {}),
         Entries(buffer'[s]) \cup Entries(file'[s]) \subseteq Mine,
         v.at = "sent" => Entries(v.batch[s]) \subseteq Mine
  PROVE  OnePlace(s)'
<1>1. OnePlace(s)
  BY StreamFacts
<1>2. ASSUME NEW x \in Coming \ {r}
      PROVE  /\ Once(Batch(x, s), repeated'[s])
             /\ Entries(Batch(x, s)) \cap Mine \subseteq repeated'[s]
             /\ \A y \in Coming \ {r, x} :
                  Entries(Batch(x, s)) \cap Entries(Batch(y, s)) \subseteq repeated'[s]
  <2>1. Once(Batch(x, s), repeated[s])
    BY <1>1, <1>2 DEF OnePlace
  <2>2. Once(Batch(x, s), repeated'[s])
    BY <2>1, Excepted
  <2>3. /\ Entries(Batch(x, s)) \cap Entries(buffer[s]) \subseteq repeated'[s]
        /\ Entries(Batch(x, s)) \cap Entries(file[s]) \subseteq repeated'[s]
        /\ \A y \in Coming \ {x} :
             Entries(Batch(x, s)) \cap Entries(Batch(y, s)) \subseteq repeated'[s]
    BY <1>1, <1>2 DEF OnePlace
  <2>4. QED
    BY <2>2, <2>3
<1>3. /\ \A x \in Coming' \ {r} : x \in Coming \ {r} /\ Batch(x, s)' = Batch(x, s)
      /\ r \in Coming' => v.at = "sent" /\ Batch(r, s)' = v.batch[s]
  <2>1. Coming \subseteq Reports
    BY DEF Coming
  <2>2. QED
    BY <2>1, OneReport
<1>4. ASSUME NEW x \in Coming'
      PROVE  /\ Once(Batch(x, s)', repeated'[s])
             /\ Entries(Batch(x, s)') \cap Entries(buffer'[s]) \subseteq repeated'[s]
             /\ Entries(Batch(x, s)') \cap Entries(file'[s]) \subseteq repeated'[s]
  BY <1>2, <1>3
<1>5. ASSUME NEW x \in Coming', NEW y \in Coming' \ {x}
      PROVE  Entries(Batch(x, s)') \cap Entries(Batch(y, s)') \subseteq repeated'[s]
  BY <1>2, <1>3
<1>6. QED
  BY <1>4, <1>5 DEF OnePlace, Entries

\* The order of the stream when the calls of an unfinished history were r alone.
LEMMA OldestFirstKept ==
  ASSUME CollectorInv, NEW s \in Streams, NEW r \in Reports, NEW v \in {None} \cup Posts,
         Becomes(r, v),
         ~ overlapped' =>
           /\ InFlight \subseteq {r}
           /\ InOrder(file'[s], repeated'[s]) /\ InOrder(buffer'[s], repeated'[s])
           /\ Older(file'[s], buffer'[s], repeated'[s])
           /\ v.at = "sent" => /\ InOrder(v.batch[s], repeated'[s])
                               /\ Older(file'[s], v.batch[s], repeated'[s])
                               /\ Older(v.batch[s], buffer'[s], repeated'[s])
  PROVE  OldestFirst(s)' /\ OneCall'
<1>1. CASE overlapped'
  BY <1>1 DEF OldestFirst, OneCall
<1>2. CASE ~ overlapped'
  <2>1. InFlight' \subseteq {r}
    BY <1>2, OneReport
  <2>2. Coming' \subseteq InFlight'
    BY DEF Coming, InFlight, None
  <2>3. ASSUME NEW x \in Coming'
        PROVE  v.at = "sent" /\ Batch(x, s)' = v.batch[s]
    BY <2>1, <2>2, <2>3, OneReport
  <2>4. ASSUME NEW x \in Coming'
        PROVE  /\ InOrder(Batch(x, s)', repeated'[s])
               /\ Older(file'[s], Batch(x, s)', repeated'[s])
               /\ Older(Batch(x, s)', buffer'[s], repeated'[s])
    BY <1>2, <2>3
  <2>5. OneCall'
    BY <2>1 DEF OneCall
  <2>6. OldestFirst(s)'
    BY <1>2, <2>4 DEF OldestFirst, InOrder, Older, Entries
  <2>7. QED
    BY <2>5, <2>6
<1>3. QED
  BY <1>1, <1>2

\* Nothing goes missing when what was in the places that change is in them again.
LEMMA NothingLost ==
  ASSUME CollectorInv, NEW s \in Streams, NEW r \in Reports, NEW v \in {None} \cup Posts,
         Becomes(r, v), captured' = captured,
         page = "closed" => page' = "closed",
         Entries(buffer[s]) \cup Entries(file[s]) \cup dropped[s]
           \cup (IF r \in Coming /\ (report[r].heard \/ page = "closed")
                 THEN Entries(Batch(r, s)) ELSE {})
         \subseteq Entries(buffer'[s]) \cup Entries(file'[s]) \cup dropped'[s]
           \cup (IF v.at = "sent" /\ (v.heard \/ page' = "closed")
                 THEN Entries(v.batch[s]) ELSE {})
  PROVE  NothingIsMissing(s)'
<1>1. NothingIsMissing(s)
  BY StreamFacts
<1>2. ASSUME NEW n \in Reachable(s)
      PROVE  \/ n \in Reachable(s)'
             \/ /\ r \in Coming /\ (report[r].heard \/ page = "closed")
                /\ n \in Entries(Batch(r, s))
  <2>1. PICK x \in Coming : (report[x].heard \/ page = "closed") /\ n \in Entries(Batch(x, s))
    BY <1>2 DEF Reachable
  <2>2. CASE x = r
    BY <2>1, <2>2
  <2>3. CASE x # r
    <3>1. x \in Reports
      BY DEF Coming
    <3>2. x \in Coming' /\ report'[x] = report[x] /\ Batch(x, s)' = Batch(x, s)
      BY <2>3, <3>1, OneReport
    <3>3. (report'[x].heard \/ page' = "closed") /\ n \in Entries(Batch(x, s)')
      BY <2>1, <3>2
    <3>4. QED
      BY <3>2, <3>3 DEF Reachable, Entries
  <2>4. QED
    BY <2>2, <2>3
<1>3. ASSUME v.at = "sent" /\ (v.heard \/ page' = "closed")
      PROVE  Entries(v.batch[s]) \subseteq Reachable(s)'
  <2>1. r \in Coming' /\ report'[r] = v /\ Batch(r, s)' = v.batch[s]
    BY <1>3, OneReport
  <2>2. QED
    BY <1>3, <2>1 DEF Reachable, Entries
<1>4. ASSUME NEW n \in captured[s]
      PROVE  n \in Entries(buffer'[s]) \cup Entries(file'[s]) \cup dropped'[s] \cup Reachable(s)'
  <2>1. n \in Entries(buffer[s]) \cup Entries(file[s]) \cup dropped[s] \cup Reachable(s)
    BY <1>1, <1>4 DEF NothingIsMissing
  <2>2. CASE n \in Reachable(s)'
    BY <2>2
  <2>3. CASE n \notin Reachable(s)'
    BY <1>2, <1>3, <2>1, <2>3
  <2>4. QED
    BY <2>2, <2>3
<1>5. QED
  BY <1>4 DEF NothingIsMissing, Entries
-----------------------------------------------------------------------------
\* What a step that changes the call r has to keep, stream by stream.
StreamKeeps(s, r, v) ==
  /\ buffer'[s] \in Seq(Nat) /\ file'[s] \in Seq(Nat)
  /\ dropped'[s] \in SUBSET Nat /\ repeated'[s] \in SUBSET Nat
  /\ Len(buffer'[s]) <= BufferSize[s]
  /\ LogSize(file'[s]) <= MaxLogSize \/ s \in untrimmed'
  /\ Entries(buffer'[s]) \cup Entries(file'[s]) \subseteq captured[s]
  /\ v # None => Entries(v.batch[s]) \subseteq captured[s]
  /\ NothingIsMissing(s)' /\ OnePlace(s)' /\ OldestFirst(s)' /\ OneCall'

\* The invariant follows from what every stream keeps.
LEMMA CollectorAssembled ==
  ASSUME CollectorInv, NEW r \in Reports, NEW v \in {None} \cup Posts, Becomes(r, v),
         UNCHANGED <<captured, events>>, page' \in {"open", "closed"}, overlapped' \in BOOLEAN,
         \A V \in {buffer', file', dropped', repeated'} : V = [s \in Streams |-> V[s]],
         \A s \in Streams : StreamKeeps(s, r, v)
  PROVE  CollectorInv'
<1>1. CollectorTypeOK'
  <2>1. buffer' \in [Streams -> Seq(Nat)] /\ file' \in [Streams -> Seq(Nat)]
    <3>1. buffer' = [s \in Streams |-> buffer'[s]] /\ file' = [s \in Streams |-> file'[s]]
      OBVIOUS
    <3>2. \A s \in Streams : buffer'[s] \in Seq(Nat) /\ file'[s] \in Seq(Nat)
      BY DEF StreamKeeps
    <3>3. QED
      BY <3>1, <3>2
  <2>2. dropped' \in [Streams -> SUBSET Nat] /\ repeated' \in [Streams -> SUBSET Nat]
    <3>1. dropped' = [s \in Streams |-> dropped'[s]] /\ repeated' = [s \in Streams |-> repeated'[s]]
      OBVIOUS
    <3>2. \A s \in Streams : dropped'[s] \in SUBSET Nat /\ repeated'[s] \in SUBSET Nat
      BY DEF StreamKeeps
    <3>3. QED
      BY <3>1, <3>2
  <2>3. report' \in [Reports -> {None} \cup Posts]
    BY OneReport
  <2>4. QED
    BY <2>1, <2>2, <2>3 DEF CollectorInv, CollectorTypeOK
<1>2. CollectorBounded'
  BY DEF StreamKeeps, CollectorBounded
<1>3. ASSUME NEW s \in Streams
      PROVE  (KeptWasCaptured(s) /\ NothingIsMissing(s) /\ OnePlace(s) /\ OldestFirst(s))'
  <2>1. StreamKeeps(s, r, v)
    OBVIOUS
  <2>2. /\ captured[s] \subseteq 1..events
        /\ \A x \in InFlight : Entries(Batch(x, s)) \subseteq captured[s]
    BY StreamFacts DEF KeptWasCaptured
  <2>3. ASSUME NEW x \in InFlight' PROVE Entries(Batch(x, s)') \subseteq captured[s]
    <3>1. x \in Reports
      BY DEF InFlight
    <3>2. CASE x = r
      BY <2>1, <2>3, <3>2, OneReport DEF StreamKeeps, Batch
    <3>3. CASE x # r
      BY <2>2, <2>3, <3>1, <3>3, OneReport
    <3>4. QED
      BY <3>2, <3>3
  <2>4. KeptWasCaptured(s)'
    BY <2>1, <2>2, <2>3 DEF StreamKeeps, KeptWasCaptured, Entries
  <2>5. QED
    BY <2>1, <2>4 DEF StreamKeeps
<1>4. OneCall'
  <2>1. StreamKeeps("ui", r, v)
    BY DEF Streams
  <2>2. QED
    BY <2>1 DEF StreamKeeps
<1>5. QED
  BY <1>1, <1>2, <1>3, <1>4 DEF CollectorInv

\* What the conditions of one stream say, for the steps below.
LEMMA OrderFacts ==
  ASSUME CollectorInv, NEW s \in Streams, ~ overlapped
  PROVE  /\ InOrder(file[s], repeated[s]) /\ InOrder(buffer[s], repeated[s])
         /\ Older(file[s], buffer[s], repeated[s])
         /\ \A x \in Coming : /\ InOrder(Batch(x, s), repeated[s])
                              /\ Older(file[s], Batch(x, s), repeated[s])
                              /\ Older(Batch(x, s), buffer[s], repeated[s])
         /\ \A x, y \in InFlight : x = y
BY StreamFacts DEF OldestFirst, OneCall, CollectorInv

\* The interval: the buffers become a call.
LEMMA ReportLogsKeeps ==
  ASSUME CollectorInv, NEW r \in Reports, ReportLogs(r)
  PROVE  CollectorInv'
<1> DEFINE v == Sent(buffer)
<1>1. /\ report' = [report EXCEPT ![r] = v] /\ report[r] = None
      /\ buffer' = Empty /\ overlapped' = (overlapped \/ InFlight # {})
      /\ UNCHANGED <<page, file, events, captured, dropped, repeated, untrimmed>>
  BY DEF ReportLogs
<1>2. v \in Posts /\ v # None /\ v.at = "sent" /\ v.heard
  BY DEF CollectorInv, CollectorTypeOK, Sent, Posts, None
<1>3. v.batch = buffer
  BY DEF Sent
<1> HIDE DEF v
<1>4. Becomes(r, v)
  BY <1>1 DEF Becomes
<1>5. r \notin Coming
  BY <1>1 DEF Coming, None
<1>6. ASSUME NEW s \in Streams PROVE StreamKeeps(s, r, v)
  <2>1. /\ buffer'[s] = <<>> /\ file'[s] = file[s] /\ dropped'[s] = dropped[s]
        /\ repeated'[s] = repeated[s] /\ v.batch[s] = buffer[s]
    BY <1>1, <1>3 DEF Empty
  <2>2. /\ Once(buffer[s], repeated[s]) /\ Once(file[s], repeated[s])
        /\ Entries(buffer[s]) \cap Entries(file[s]) \subseteq repeated[s]
    BY StreamFacts DEF OnePlace
  <2>3. OnePlace(s)'
    <3> DEFINE Mine == Entries(buffer[s]) \cup Entries(file[s])
    <3>1. Mine \subseteq Entries(buffer[s]) \cup Entries(file[s]) \cup repeated'[s]
                        \cup (IF r \in Coming THEN Entries(Batch(r, s)) ELSE {})
      OBVIOUS
    <3>2. /\ Entries(buffer'[s]) \cup Entries(file'[s]) \subseteq Mine
          /\ Entries(v.batch[s]) \subseteq Mine
      BY <2>1, EmptyQueue
    <3>3. /\ repeated[s] \subseteq repeated'[s]
          /\ Once(buffer'[s], repeated'[s]) /\ Once(file'[s], repeated'[s])
          /\ Entries(buffer'[s]) \cap Entries(file'[s]) \subseteq repeated'[s]
          /\ Once(v.batch[s], repeated'[s])
          /\ Entries(v.batch[s]) \cap Entries(buffer'[s]) \subseteq repeated'[s]
          /\ Entries(v.batch[s]) \cap Entries(file'[s]) \subseteq repeated'[s]
      BY <2>1, <2>2, EmptyQueue
    <3> HIDE DEF Mine
    <3>4. QED
      BY <1>2, <1>4, <3>1, <3>2, <3>3, OnePlaceKept
  <2>4. OldestFirst(s)' /\ OneCall'
    <3>1. ASSUME ~ overlapped'
          PROVE  /\ InFlight \subseteq {r}
                 /\ InOrder(file[s], repeated[s]) /\ InOrder(buffer[s], repeated[s])
                 /\ Older(file[s], buffer[s], repeated[s])
      BY <1>1, <3>1, OrderFacts
    <3>2. QED
      BY <1>2, <1>4, <2>1, <3>1, EmptyQueue, OldestFirstKept
  <2>5. NothingIsMissing(s)'
    BY <1>1, <1>2, <1>4, <1>5, <2>1, EmptyQueue, NothingLost
  <2>6. QED
    BY <1>1, <2>1, <2>3, <2>4, <2>5, EmptyQueue, StreamFacts DEF StreamKeeps, KeptWasCaptured
<1>7. \A V \in {buffer', file', dropped', repeated'} : V = [s \in Streams |-> V[s]]
  BY <1>1 DEF Empty, CollectorInv, CollectorTypeOK
<1>8. page' \in {"open", "closed"} /\ overlapped' \in BOOLEAN
  BY <1>1 DEF CollectorInv, CollectorTypeOK
<1>9. UNCHANGED <<captured, events>>
  BY <1>1
<1>10. QED
  BY <1>2, <1>4, <1>6, <1>7, <1>8, <1>9, CollectorAssembled

\* A call ends with nothing left of it: it was handled, or nobody listens.
LEMMA CallEndsKeeps ==
  ASSUME CollectorInv, NEW r \in Reports, Answered(r) \/ Unheard(r)
  PROVE  CollectorInv'
<1> DEFINE Gone(s) == IF report[r].at = "sent" /\ page # "open" THEN Entries(Batch(r, s)) ELSE {}
<1>1. /\ report' = [report EXCEPT ![r] = None] /\ report[r] # None
      /\ report[r].at = "handled" \/ (report[r].at = "sent" /\ ~ report[r].heard)
      /\ UNCHANGED <<buffer, page, file, events, captured, repeated, overlapped, untrimmed>>
  BY DEF Answered, Unheard, streamVars, None
<1>2. \A s \in Streams : dropped'[s] = dropped[s] \cup Gone(s)
  <2>1. CASE Answered(r)
    BY <2>1 DEF Answered, streamVars
  <2>2. CASE Unheard(r)
    BY <2>2 DEF Unheard, Batch
  <2>3. QED
    BY <2>1, <2>2
<1>3. dropped' = [s \in Streams |-> dropped'[s]]
  <2>1. CASE Answered(r)
    BY <2>1 DEF Answered, streamVars, CollectorInv, CollectorTypeOK
  <2>2. CASE Unheard(r)
    BY <2>2 DEF Unheard
  <2>3. QED
    BY <2>1, <2>2
<1>4. Becomes(r, None) /\ None \in {None} \cup Posts /\ None.at # "sent"
  BY <1>1 DEF Becomes, None
<1>5. r \in InFlight
  BY <1>1 DEF InFlight
<1>6. ASSUME NEW s \in Streams PROVE StreamKeeps(s, r, None)
  <2>1. /\ buffer'[s] = buffer[s] /\ file'[s] = file[s] /\ repeated'[s] = repeated[s]
        /\ dropped'[s] = dropped[s] \cup Gone(s)
    BY <1>1, <1>2
  <2>2. Batch(r, s) \in Seq(Nat) /\ Entries(Batch(r, s)) \subseteq Nat
    BY <1>5, StreamFacts DEF Entries
  <2>3. /\ Once(buffer[s], repeated[s]) /\ Once(file[s], repeated[s])
        /\ Entries(buffer[s]) \cap Entries(file[s]) \subseteq repeated[s]
    BY StreamFacts DEF OnePlace
  <2>4. OnePlace(s)'
    <3> DEFINE Mine == Entries(buffer[s]) \cup Entries(file[s])
    <3>1. Mine \subseteq Entries(buffer[s]) \cup Entries(file[s]) \cup repeated'[s]
                        \cup (IF r \in Coming THEN Entries(Batch(r, s)) ELSE {})
      OBVIOUS
    <3>2. Entries(buffer'[s]) \cup Entries(file'[s]) \subseteq Mine
      BY <2>1
    <3> HIDE DEF Mine
    <3>3. QED
      BY <1>4, <2>1, <2>3, <3>1, <3>2, OnePlaceKept
  <2>5. OldestFirst(s)' /\ OneCall'
    <3>1. ASSUME ~ overlapped
          PROVE  /\ InFlight \subseteq {r}
                 /\ InOrder(file[s], repeated[s]) /\ InOrder(buffer[s], repeated[s])
                 /\ Older(file[s], buffer[s], repeated[s])
      BY <1>5, <3>1, OrderFacts
    <3>2. QED
      BY <1>1, <1>4, <2>1, <3>1, OldestFirstKept
  <2>6. NothingIsMissing(s)'
    <3>1. r \in Coming /\ (report[r].heard \/ page = "closed")
            => Entries(Batch(r, s)) \subseteq Gone(s)
      BY <1>1 DEF Coming
    <3> HIDE DEF Gone
    <3>2. QED
      BY <1>1, <1>4, <2>1, <3>1, NothingLost
  <2>7. dropped'[s] \in SUBSET Nat
    BY <2>1, <2>2, StreamFacts
  <2> HIDE DEF Gone
  <2>8. Len(buffer[s]) <= BufferSize[s]
    BY DEF CollectorInv, CollectorBounded
  <2>9. QED
    BY <1>1, <2>1, <2>4, <2>5, <2>6, <2>7, <2>8, StreamFacts DEF StreamKeeps, KeptWasCaptured
<1>7. \A V \in {buffer', file', dropped', repeated'} : V = [s \in Streams |-> V[s]]
  BY <1>1, <1>3 DEF CollectorInv, CollectorTypeOK
<1>8. page' \in {"open", "closed"} /\ overlapped' \in BOOLEAN
  BY <1>1 DEF CollectorInv, CollectorTypeOK
<1>9. UNCHANGED <<captured, events>>
  BY <1>1
<1>10. QED
  BY <1>4, <1>6, <1>7, <1>8, <1>9, CollectorAssembled
\* The dev server appends a call to the files, or to the first of them.
LEMMA HandlePayloadKeeps ==
  ASSUME CollectorInv, NEW r \in Reports, NEW k \in 1..4, HandlePayload(r, k)
  PROVE  CollectorInv'
<1> DEFINE written == {s \in Streams : FileOrder[s] < k /\ Batch(r, s) # <<>>}
           appended == [s \in Streams |-> IF s \in written THEN file[s] \o Batch(r, s)
                                                          ELSE file[s]]
           v == IF report[r].heard THEN [report[r] EXCEPT !.at = "handled"] ELSE None
           Result(failing, left) ==
             /\ \A s \in failing : left[s] \in TrimErrors(appended[s])
             /\ file' = [s \in Streams |-> IF s \in failing THEN left[s]
                                          ELSE IF s \in written THEN TrimLogFile(appended[s])
                                          ELSE file[s]]
             /\ untrimmed' = (untrimmed \ written) \cup failing
<1>1. /\ report[r].at = "sent" /\ report' = [report EXCEPT ![r] = v]
      /\ dropped' = [s \in Streams |-> dropped[s] \cup
                       ((Entries(file[s]) \cup Entries(Batch(r, s))) \ Entries(file'[s]))]
      /\ UNCHANGED <<buffer, page, events, captured, repeated, overlapped>>
  BY DEF HandlePayload, Batch, CollectorInv, CollectorTypeOK
<1>2. PICK failing \in SUBSET written : \E left : Result(failing, left)
  BY DEF HandlePayload, Batch
<1>3. PICK left : Result(failing, left)
  BY <1>2
<1>4. r \in Coming /\ r \in InFlight /\ report[r] \in Posts
  BY <1>1 DEF Coming, CollectorInv, CollectorTypeOK, None, InFlight
<1>5. /\ v \in {None} \cup Posts /\ v.at # "sent"
      /\ v # None => v.batch = report[r].batch
  BY <1>4 DEF Posts, None
<1> HIDE DEF v
<1>6. Becomes(r, v)
  BY <1>1 DEF Becomes
<1>7. ASSUME NEW s \in Streams
      PROVE  \/ /\ s \notin written /\ file'[s] = file[s]
                /\ s \in untrimmed => s \in untrimmed'
             \/ /\ file'[s] = TrimLogFile(file[s] \o Batch(r, s))
                /\ s \in written
             \/ /\ file'[s] \in TrimErrors(file[s] \o Batch(r, s)) /\ s \in untrimmed'
                /\ s \in written
  <2>1. s \in written => appended[s] = file[s] \o Batch(r, s)
    OBVIOUS
  <2>2. /\ s \in failing => file'[s] = left[s] /\ left[s] \in TrimErrors(appended[s])
        /\ s \in written \ failing => file'[s] = TrimLogFile(appended[s])
        /\ s \notin written => file'[s] = file[s]
    BY <1>2, <1>3
  <2>3. untrimmed' = (untrimmed \ written) \cup failing
    BY <1>3
  <2> HIDE DEF written, appended
  <2>4. QED
    BY <1>2, <2>1, <2>2, <2>3
<1>8. file' = [s \in Streams |-> file'[s]]
  BY <1>3
<1> HIDE DEF written, appended
<1>9. ASSUME NEW s \in Streams PROVE StreamKeeps(s, r, v)
  <2> DEFINE b == Batch(r, s)
             f == file'[s]
  <2>1. /\ buffer'[s] = buffer[s] /\ repeated'[s] = repeated[s] /\ captured'[s] = captured[s]
        /\ dropped'[s] = dropped[s] \cup ((Entries(file[s]) \cup Entries(b)) \ Entries(f))
        /\ v # None => v.batch[s] = b
    BY <1>1, <1>5 DEF Batch
  <2>2. /\ b \in Seq(Nat) /\ Entries(b) \subseteq Nat /\ file[s] \in Seq(Nat)
        /\ Entries(file[s]) \subseteq Nat
        /\ LogSize(file[s]) <= MaxLogSize \/ s \in untrimmed
        /\ Entries(b) \subseteq captured[s] /\ Entries(file[s]) \subseteq captured[s]
        /\ Entries(buffer[s]) \subseteq captured[s]
    BY <1>4, StreamFacts DEF Entries, KeptWasCaptured
  <2>3. /\ Once(buffer[s], repeated[s]) /\ Once(file[s], repeated[s]) /\ Once(b, repeated[s])
        /\ Entries(buffer[s]) \cap Entries(file[s]) \subseteq repeated[s]
        /\ Entries(b) \cap Entries(file[s]) \subseteq repeated[s]
        /\ Entries(b) \cap Entries(buffer[s]) \subseteq repeated[s]
    BY <1>4, StreamFacts DEF OnePlace
  <2>4. /\ file[s] \o b \in Seq(Nat) /\ Entries(file[s] \o b) = Entries(file[s]) \cup Entries(b)
        /\ Once(file[s] \o b, repeated[s])
    <3> HIDE DEF b, f
    <3>1. QED
      BY <2>2, <2>3, JoinedOnce, JoinedEntries
  <2>5. /\ f \in Seq(Nat)
        /\ LogSize(f) <= MaxLogSize \/ s \in untrimmed'
        /\ Entries(f) \subseteq Entries(file[s]) \cup Entries(b)
        /\ Once(f, repeated[s])
        /\ InOrder(file[s] \o b, repeated[s]) /\ InOrder(file[s], repeated[s])
             => InOrder(f, repeated[s])
    <3>1. \/ f = file[s] /\ (s \in untrimmed => s \in untrimmed')
          \/ f = TrimLogFile(file[s] \o b)
          \/ f \in TrimErrors(file[s] \o b) /\ s \in untrimmed'
      BY <1>7
    <3> HIDE DEF b, f
    <3>2. CASE f = file[s] /\ (s \in untrimmed => s \in untrimmed')
      BY <2>2, <2>3, <3>2
    <3>3. CASE f = TrimLogFile(file[s] \o b)
      BY <2>4, <3>3, TrimmedFile, TrimKeeps
    <3>4. CASE f \in TrimErrors(file[s] \o b) /\ s \in untrimmed'
      BY <2>4, <3>4, TrimmedFile
    <3>5. QED
      BY <3>1, <3>2, <3>3, <3>4
  <2> HIDE DEF b, f
  <2>6. OnePlace(s)'
    <3> DEFINE Mine == Entries(buffer[s]) \cup Entries(file[s]) \cup Entries(b)
    <3>1. Mine \subseteq Entries(buffer[s]) \cup Entries(file[s]) \cup repeated'[s]
                        \cup (IF r \in Coming THEN Entries(Batch(r, s)) ELSE {})
      BY <1>4 DEF b
    <3>2. /\ Entries(buffer'[s]) \cup Entries(f) \subseteq Mine
          /\ Entries(buffer'[s]) \cap Entries(f) \subseteq repeated'[s]
      BY <2>1, <2>3, <2>5
    <3> HIDE DEF Mine
    <3>3. QED
      BY <1>5, <1>6, <2>1, <2>3, <2>5, <3>1, <3>2, OnePlaceKept DEF f
  <2>7. OldestFirst(s)' /\ OneCall'
    <3>1. ASSUME ~ overlapped
          PROVE  /\ InFlight \subseteq {r}
                 /\ InOrder(f, repeated[s]) /\ InOrder(buffer[s], repeated[s])
                 /\ Older(f, buffer[s], repeated[s])
      <4>1. /\ InFlight \subseteq {r}
            /\ InOrder(file[s], repeated[s]) /\ InOrder(buffer[s], repeated[s])
            /\ Older(file[s], buffer[s], repeated[s])
            /\ InOrder(b, repeated[s])
            /\ Older(file[s], b, repeated[s])
            /\ Older(b, buffer[s], repeated[s])
        BY <1>4, <3>1, OrderFacts DEF b
      <4>2. InOrder(f, repeated[s])
        BY <2>2, <2>5, <4>1, JoinedInOrder
      <4>3. Older(f, buffer[s], repeated[s])
        BY <2>5, <4>1 DEF Older
      <4>4. QED
        BY <4>1, <4>2, <4>3
    <3>2. QED
      BY <1>1, <1>5, <1>6, <2>1, <3>1, OldestFirstKept DEF f
  <2>8. NothingIsMissing(s)'
    <3>1. Entries(file[s]) \cup dropped[s] \cup Entries(b) \subseteq Entries(f) \cup dropped'[s]
      BY <2>1
    <3>2. QED
      BY <1>1, <1>5, <1>6, <2>1, <3>1, NothingLost DEF b, f
  <2>9. dropped'[s] \in SUBSET Nat
    BY <2>1, <2>2, StreamFacts
  <2>10. Len(buffer[s]) <= BufferSize[s]
    BY DEF CollectorInv, CollectorBounded
  <2>11. QED
    BY <2>1, <2>2, <2>5, <2>6, <2>7, <2>8, <2>9, <2>10, StreamFacts DEF StreamKeeps, f
<1>10. \A V \in {buffer', file', dropped', repeated'} : V = [s \in Streams |-> V[s]]
  BY <1>1, <1>8 DEF CollectorInv, CollectorTypeOK
<1>11. page' \in {"open", "closed"} /\ overlapped' \in BOOLEAN
  BY <1>1 DEF CollectorInv, CollectorTypeOK
<1>12. UNCHANGED <<captured, events>>
  BY <1>1
<1>13. QED
  BY <1>5, <1>6, <1>9, <1>10, <1>11, <1>12, CollectorAssembled

\* A call fails: while the page is open its entries go back in front of newer ones.
LEMMA ReportFailsKeeps ==
  ASSUME CollectorInv, NEW r \in Reports, NEW reaches \in BOOLEAN, ReportFails(r, reaches)
  PROVE  CollectorInv'
<1> DEFINE v == IF reaches THEN [report[r] EXCEPT !.heard = FALSE] ELSE None
           handled == report[r].at = "handled"
           Again(s) == IF page = "open" /\ (reaches \/ handled) THEN Entries(Batch(r, s)) ELSE {}
           GivenUp(s) ==
             IF page = "open" THEN Entries(Batch(r, s) \o buffer[s]) \ Entries(buffer'[s])
             ELSE IF reaches \/ handled THEN {} ELSE Entries(Batch(r, s))
<1>1. /\ report[r] # None /\ report[r].heard /\ (handled => ~ reaches)
      /\ report' = [report EXCEPT ![r] = v]
      /\ buffer' = IF page = "open"
                   THEN [s \in Streams |-> Newest(Batch(r, s) \o buffer[s], BufferSize[s])]
                   ELSE buffer
      /\ dropped' = [s \in Streams |-> dropped[s] \cup GivenUp(s)]
      /\ repeated' = [s \in Streams |-> repeated[s] \cup Again(s)]
      /\ UNCHANGED <<page, file, events, captured, overlapped, untrimmed>>
  BY DEF ReportFails, Batch, PutBack, PruneBuffer, CollectorInv, CollectorTypeOK
<1>2. /\ r \in InFlight /\ report[r] \in Posts
      /\ r \in Coming <=> ~ handled
  BY <1>1 DEF Coming, CollectorInv, CollectorTypeOK, InFlight, Posts
<1>3. /\ v \in {None} \cup Posts /\ (v.at = "sent" <=> reaches)
      /\ v # None => reaches /\ v.batch = report[r].batch
  BY <1>1, <1>2 DEF Posts, None
<1>4. page \in {"open", "closed"}
  BY DEF CollectorInv, CollectorTypeOK
<1> HIDE DEF v
<1>5. Becomes(r, v)
  BY <1>1 DEF Becomes
<1>6. ASSUME NEW s \in Streams PROVE StreamKeeps(s, r, v)
  <2> DEFINE b == Batch(r, s)
             back == b \o buffer[s]
             n == buffer'[s]
             rep == repeated'[s]
  <2>1. /\ n = IF page = "open" THEN Newest(back, BufferSize[s]) ELSE buffer[s]
        /\ rep = repeated[s] \cup Again(s)
        /\ dropped'[s] = dropped[s] \cup GivenUp(s)
        /\ file'[s] = file[s]
        /\ v # None => v.batch[s] = b
    BY <1>1, <1>3 DEF Batch
  <2>2. /\ b \in Seq(Nat) /\ Entries(b) \subseteq Nat /\ buffer[s] \in Seq(Nat)
        /\ Entries(buffer[s]) \subseteq Nat /\ BufferSize[s] \in Nat
        /\ file[s] \in Seq(Nat) /\ Entries(file[s]) \subseteq captured[s]
        /\ Entries(b) \subseteq captured[s] /\ Entries(buffer[s]) \subseteq captured[s]
        /\ Len(buffer[s]) <= BufferSize[s]
    BY <1>2, StreamFacts DEF Entries, KeptWasCaptured, CollectorInv, CollectorBounded
  <2>3. /\ Once(buffer[s], repeated[s]) /\ Once(file[s], repeated[s])
        /\ Entries(buffer[s]) \cap Entries(file[s]) \subseteq repeated[s]
        /\ r \in Coming => /\ Once(b, repeated[s])
                           /\ Entries(b) \cap Entries(file[s]) \subseteq repeated[s]
                           /\ Entries(b) \cap Entries(buffer[s]) \subseteq repeated[s]
    BY <1>2, StreamFacts DEF OnePlace
  <2>4. back \in Seq(Nat) /\ Entries(back) = Entries(b) \cup Entries(buffer[s])
    BY <2>2, JoinedEntries
  <2>5. /\ repeated[s] \subseteq rep /\ rep \subseteq repeated[s] \cup Entries(b)
        /\ page = "open" /\ (reaches \/ handled) => Entries(b) \subseteq rep
    BY <2>1
  <2>6. /\ GivenUp(s) \subseteq Entries(b) \cup Entries(buffer[s])
        /\ page = "open" => GivenUp(s) = (Entries(b) \cup Entries(buffer[s])) \ Entries(n)
        /\ page # "open" /\ ~ (reaches \/ handled) => GivenUp(s) = Entries(b)
    BY <2>4
  <2> HIDE DEF b, back, n, rep, Again, GivenUp
  <2>7. /\ Once(buffer[s], rep) /\ Once(file[s], rep)
        /\ Entries(buffer[s]) \cap Entries(file[s]) \subseteq rep
    BY <2>3, <2>5, Excepted
  <2>8. \/ Entries(b) \subseteq rep
        \/ /\ Entries(b) \cap Entries(file[s]) \subseteq rep
           /\ Entries(b) \cap Entries(buffer[s]) \subseteq rep
        \/ page # "open" /\ handled
    BY <1>2, <2>3, <2>5
  <2>9. Once(b, rep) \/ (page # "open" /\ handled)
    BY <1>2, <2>3, <2>5, Excepted
  <2>10. /\ n \in Seq(Nat) /\ Len(n) <= BufferSize[s]
         /\ Entries(n) \subseteq Entries(b) \cup Entries(buffer[s])
         /\ page # "open" => n = buffer[s]
         /\ Once(n, rep)
         /\ InOrder(back, rep) /\ InOrder(buffer[s], rep) => InOrder(n, rep)
    <3>1. CASE page = "open"
      <4>1. Once(back, rep)
        BY <2>2, <2>7, <2>8, <2>9, <3>1, JoinedOnce DEF back
      <4>2. QED
        BY <2>1, <2>2, <2>4, <3>1, <4>1, NewestKeeps
    <3>2. CASE page # "open"
      BY <2>1, <2>2, <2>7, <3>2
    <3>3. QED
      BY <3>1, <3>2
  <2>11. OnePlace(s)'
    <3> DEFINE Mine == Entries(n) \cup Entries(file[s]) \cup (IF reaches THEN Entries(b) ELSE {})
    <3>1. Mine \subseteq Entries(buffer[s]) \cup Entries(file[s]) \cup rep
                        \cup (IF r \in Coming THEN Entries(b) ELSE {})
      BY <1>1, <1>2, <2>5, <2>10
    <3>2. Entries(n) \cap Entries(file[s]) \subseteq rep
      BY <2>7, <2>8, <2>10
    <3>3. ASSUME v.at = "sent"
          PROVE  /\ Once(v.batch[s], rep) /\ Entries(v.batch[s]) \subseteq Mine
                 /\ Entries(v.batch[s]) \cap Entries(n) \subseteq rep
                 /\ Entries(v.batch[s]) \cap Entries(file[s]) \subseteq rep
      <4>1. reaches /\ ~ handled /\ v.batch[s] = b
        BY <1>1, <1>3, <2>1, <3>3 DEF None
      <4>2. Once(b, rep) /\ Entries(b) \cap Entries(file[s]) \subseteq rep
        BY <2>8, <2>9, <4>1
      <4>3. Entries(b) \cap Entries(n) \subseteq rep
        BY <2>5, <2>8, <2>10, <4>1
      <4>4. QED
        BY <4>1, <4>2, <4>3
    <3>4. Entries(n) \cup Entries(file[s]) \subseteq Mine
      OBVIOUS
    <3> HIDE DEF Mine
    <3>5. QED
      BY <1>3, <1>5, <2>1, <2>5, <2>7, <2>10, <3>1, <3>2, <3>3, <3>4, OnePlaceKept
         DEF b, n, rep
  <2>12. OldestFirst(s)' /\ OneCall'
    <3>1. ASSUME ~ overlapped
          PROVE  /\ InFlight \subseteq {r}
                 /\ InOrder(file[s], rep) /\ InOrder(n, rep) /\ Older(file[s], n, rep)
                 /\ reaches => /\ InOrder(b, rep) /\ Older(file[s], b, rep)
                               /\ Older(b, n, rep)
      <4>1. /\ InFlight \subseteq {r}
            /\ InOrder(file[s], rep) /\ InOrder(buffer[s], rep)
            /\ Older(file[s], buffer[s], rep)
        BY <1>2, <2>5, <3>1, OrderFacts, Excepted DEF Older
      <4>2. r \in Coming => /\ InOrder(b, rep) /\ Older(file[s], b, rep)
                            /\ Older(b, buffer[s], rep)
        <5>1. r \in Coming => /\ InOrder(b, repeated[s]) /\ Older(file[s], b, repeated[s])
                              /\ Older(b, buffer[s], repeated[s])
          BY <3>1, OrderFacts DEF b
        <5>2. QED
          BY <2>5, <5>1, Excepted DEF Older
      <4>3. Entries(b) \subseteq rep => \A q : /\ InOrder(b, rep)
                                               /\ Older(q, b, rep) /\ Older(b, q, rep)
        BY <2>5, Excepted DEF Older
      <4>4. CASE page = "open"
        <5>1. InOrder(b, rep) /\ Older(file[s], b, rep) /\ Older(b, buffer[s], rep)
          BY <1>2, <2>5, <4>2, <4>3, <4>4
        <5>2. InOrder(back, rep)
          BY <2>2, <4>1, <5>1, JoinedInOrder DEF back
        <5>3. InOrder(n, rep)
          BY <2>10, <4>1, <5>2
        <5>4. Older(file[s], n, rep)
          BY <2>10, <4>1, <5>1 DEF Older
        <5>5. reaches => Older(b, n, rep)
          BY <2>5, <4>3, <4>4
        <5>6. QED
          BY <4>1, <5>1, <5>3, <5>4, <5>5
      <4>5. CASE page # "open"
        BY <1>1, <1>2, <2>10, <4>1, <4>2, <4>5
      <4>6. QED
        BY <4>4, <4>5
    <3>2. v.at = "sent" => reaches /\ v.batch[s] = b
      BY <1>3, <2>1 DEF None
    <3>3. QED
      BY <1>1, <1>3, <1>5, <2>1, <3>1, <3>2, OldestFirstKept DEF n, rep
  <2>13. NothingIsMissing(s)'
    <3>1. CASE page = "open"
      <4>1. Entries(buffer[s]) \cup dropped[s] \cup Entries(b) \subseteq Entries(n) \cup dropped'[s]
        BY <2>1, <2>6, <3>1
      <4>2. QED
        BY <1>1, <1>5, <1>3, <2>1, <3>1, <4>1, NothingLost DEF b, n
    <3>2. CASE page # "open"
      <4>1. n = buffer[s] /\ page' = "closed" /\ dropped[s] \subseteq dropped'[s]
        BY <1>1, <1>4, <2>1, <2>10, <3>2
      <4>2. r \in Coming => \/ v.at = "sent" /\ v.batch[s] = b
                            \/ Entries(b) \subseteq dropped'[s]
        BY <1>2, <1>3, <2>1, <2>6, <3>2 DEF None
      <4>3. QED
        BY <1>1, <1>5, <1>3, <2>1, <4>1, <4>2, NothingLost DEF b, n
    <3>3. QED
      BY <3>1, <3>2
  <2>14. dropped'[s] \in SUBSET Nat /\ rep \in SUBSET Nat
    BY <2>1, <2>2, <2>5, <2>6, StreamFacts
  <2>15. QED
    BY <1>1, <2>1, <2>2, <2>10, <2>11, <2>12, <2>13, <2>14, StreamFacts
       DEF StreamKeeps, n, rep
<1>7. \A V \in {buffer', file', dropped', repeated'} : V = [s \in Streams |-> V[s]]
  BY <1>1 DEF CollectorInv, CollectorTypeOK
<1>8. page' \in {"open", "closed"} /\ overlapped' \in BOOLEAN
  BY <1>1 DEF CollectorInv, CollectorTypeOK
<1>9. UNCHANGED <<captured, events>>
  BY <1>1
<1>10. QED
  BY <1>3, <1>5, <1>6, <1>7, <1>8, <1>9, CollectorAssembled
\* beforeunload: the buffers go into a beacon, and stay when the user does.
LEMMA UnloadKeeps ==
  ASSUME CollectorInv, NEW r \in Reports, NEW closes \in BOOLEAN, Unload(r, closes)
  PROVE  CollectorInv'
<1> DEFINE Beacon(batch) == [at |-> "sent", batch |-> batch, heard |-> FALSE]
           GivenUp(batch, s) == IF closes THEN Entries(buffer[s]) \ Entries(batch[s]) ELSE {}
           Again(batch, s) == IF closes THEN {} ELSE Entries(batch[s])
           Truncated == [s \in Streams |-> Newest(buffer[s], BeaconKeep[s])]
<1>1. /\ page = "open" /\ page' \in {"open", "closed"}
      /\ buffer' = IF closes THEN Empty ELSE buffer
      /\ overlapped' = (overlapped \/ InFlight # {})
      /\ UNCHANGED <<file, events, captured, untrimmed>>
  BY DEF Unload
<1>2. buffer \in [Streams -> Seq(Nat)]
  BY DEF CollectorInv, CollectorTypeOK
<1>3. buffer' \in [Streams -> Seq(Nat)]
  BY <1>1, <1>2, EmptyQueue DEF Empty
<1>4. page' \in {"open", "closed"} /\ overlapped' \in BOOLEAN /\ UNCHANGED <<captured, events>>
  BY <1>1 DEF CollectorInv, CollectorTypeOK
<1>5. ASSUME NEW s \in Streams
      PROVE  /\ buffer'[s] = IF closes THEN <<>> ELSE buffer[s]
             /\ file'[s] = file[s] /\ captured'[s] = captured[s]
             /\ Len(buffer[s]) <= BufferSize[s] /\ 0 <= BufferSize[s]
             /\ Once(buffer[s], repeated[s]) /\ Once(file[s], repeated[s])
             /\ Entries(buffer[s]) \cap Entries(file[s]) \subseteq repeated[s]
             /\ Entries(buffer[s]) \subseteq captured[s] /\ Entries(file[s]) \subseteq captured[s]
             /\ Entries(buffer[s]) \subseteq Nat /\ buffer[s] \in Seq(Nat) /\ file[s] \in Seq(Nat)
             /\ ~ overlapped' => /\ InFlight = {}
                                 /\ InOrder(file[s], repeated[s]) /\ InOrder(buffer[s], repeated[s])
                                 /\ Older(file[s], buffer[s], repeated[s])
  <2>1. buffer'[s] = IF closes THEN <<>> ELSE buffer[s]
    BY <1>1 DEF Empty
  <2>2. Len(buffer[s]) <= BufferSize[s] /\ 0 <= BufferSize[s]
    BY DebugCollectorAssumption DEF CollectorInv, CollectorBounded
  <2>3. ~ overlapped' => /\ InFlight = {}
                         /\ InOrder(file[s], repeated[s]) /\ InOrder(buffer[s], repeated[s])
                         /\ Older(file[s], buffer[s], repeated[s])
    BY <1>1, OrderFacts
  <2>4. Entries(buffer[s]) \subseteq Nat
    BY <1>2 DEF Entries
  <2>5. QED
    BY <1>1, <2>1, <2>2, <2>3, <2>4, StreamFacts DEF KeptWasCaptured, OnePlace
<1>6. CASE buffer = Empty
  <2> DEFINE v == report[r]
  <2>1. UNCHANGED <<report, dropped, repeated, buffer, file>>
    BY <1>1, <1>6 DEF Unload
  <2>2. Becomes(r, v) /\ v \in {None} \cup Posts
    BY <2>1 DEF Becomes, CollectorInv, CollectorTypeOK
  <2>3. (v.at = "sent" <=> r \in Coming) /\ \A s \in Streams : v.batch[s] = Batch(r, s)
    BY DEF Coming, Batch
  <2>4. v # None => r \in InFlight
    BY DEF InFlight
  <2> HIDE DEF v
  <2>5. ASSUME NEW s \in Streams PROVE StreamKeeps(s, r, v)
    <3>1. /\ buffer'[s] = buffer[s] /\ file'[s] = file[s] /\ dropped'[s] = dropped[s]
          /\ repeated'[s] = repeated[s]
      BY <2>1
    <3>2. OnePlace(s)'
      <4> DEFINE Mine == Entries(buffer[s]) \cup Entries(file[s])
                         \cup (IF r \in Coming THEN Entries(Batch(r, s)) ELSE {})
      <4>1. Mine \subseteq Entries(buffer[s]) \cup Entries(file[s]) \cup repeated'[s]
                        \cup (IF r \in Coming THEN Entries(Batch(r, s)) ELSE {})
        OBVIOUS
      <4>2. /\ Entries(buffer'[s]) \cup Entries(file'[s]) \subseteq Mine
            /\ v.at = "sent" => Entries(v.batch[s]) \subseteq Mine
        BY <2>3, <3>1
      <4>3. v.at = "sent" =>
              /\ Once(v.batch[s], repeated[s])
              /\ Entries(v.batch[s]) \cap Entries(buffer[s]) \subseteq repeated[s]
              /\ Entries(v.batch[s]) \cap Entries(file[s]) \subseteq repeated[s]
        BY <2>3, StreamFacts DEF OnePlace
      <4> HIDE DEF Mine
      <4>4. QED
        BY <1>5, <2>2, <3>1, <4>1, <4>2, <4>3, OnePlaceKept
    <3>3. OldestFirst(s)' /\ OneCall'
      <4>1. ~ overlapped' => v.at # "sent"
        BY <1>5, <2>3, StreamFacts
      <4>2. QED
        BY <1>5, <2>2, <3>1, <4>1, OldestFirstKept
    <3>4. NothingIsMissing(s)'
      <4>1. r \in Coming /\ (report[r].heard \/ page = "closed") => v.at = "sent" /\ v.heard
        BY <1>1, <2>3 DEF v
      <4>2. QED
        BY <1>1, <1>4, <2>2, <2>3, <3>1, <4>1, NothingLost
    <3>5. v # None => Entries(v.batch[s]) \subseteq captured[s]
      BY <2>3, <2>4, StreamFacts DEF KeptWasCaptured
    <3>6. QED
      BY <1>1, <1>5, <3>1, <3>2, <3>3, <3>4, <3>5, StreamFacts DEF StreamKeeps
  <2>6. \A V \in {buffer', file', dropped', repeated'} : V = [s \in Streams |-> V[s]]
    BY <2>1 DEF CollectorInv, CollectorTypeOK
  <2>7. QED
    BY <1>4, <2>2, <2>5, <2>6, CollectorAssembled
<1>7. CASE buffer # Empty
  <2>1. PICK batch \in {buffer, Truncated} :
          /\ report' = [report EXCEPT ![r] = Beacon(batch)]
          /\ dropped' = [s \in Streams |-> dropped[s] \cup GivenUp(batch, s)]
          /\ repeated' = [s \in Streams |-> repeated[s] \cup Again(batch, s)]
          /\ report[r] = None
    BY <1>7 DEF Unload
  <2>2. ASSUME NEW s \in Streams
        PROVE  /\ batch[s] \in Seq(Nat) /\ Entries(batch[s]) \subseteq Entries(buffer[s])
               /\ \A except : /\ Once(buffer[s], except) => Once(batch[s], except)
                              /\ InOrder(buffer[s], except) => InOrder(batch[s], except)
    <3>1. CASE batch = buffer
      BY <1>2, <3>1
    <3>2. CASE batch = Truncated
      <4>1. batch[s] = Newest(buffer[s], BeaconKeep[s]) /\ BeaconKeep[s] \in Nat
        BY <3>2, DebugCollectorAssumption
      <4>2. QED
        BY <1>2, <4>1, NewestKeeps
    <3>3. QED
      BY <2>1, <3>1, <3>2
  <2>3. batch \in [Streams -> Seq(Nat)]
    BY <1>2, <2>1, <2>2
  <2> DEFINE v == Beacon(batch)
  <2>4. v \in Posts /\ v.at = "sent" /\ v.batch = batch /\ v # None /\ v.heard = FALSE
    BY <2>3 DEF Posts, None
  <2>5. Becomes(r, v)
    BY <2>1 DEF Becomes
  <2>6. r \notin Coming
    BY <2>1 DEF Coming, None
  <2>7. ASSUME NEW s \in Streams
        PROVE  /\ repeated'[s] = repeated[s] \cup (IF closes THEN {} ELSE Entries(batch[s]))
               /\ dropped'[s] = dropped[s] \cup
                    (IF closes THEN Entries(buffer[s]) \ Entries(batch[s]) ELSE {})
    BY <2>1
  <2> HIDE DEF v
  <2>8. ASSUME NEW s \in Streams PROVE StreamKeeps(s, r, v)
    <3>1. repeated[s] \subseteq repeated'[s] /\ v.batch[s] = batch[s]
      BY <2>4, <2>7
    <3>2. /\ Once(buffer[s], repeated'[s]) /\ Once(file[s], repeated'[s])
          /\ Once(batch[s], repeated'[s]) /\ Once(buffer'[s], repeated'[s])
      BY <1>5, <2>2, <3>1, Excepted, EmptyQueue
    <3>3. /\ Entries(buffer'[s]) \subseteq Entries(buffer[s])
          /\ Entries(batch[s]) \cap Entries(buffer'[s]) \subseteq repeated'[s]
          /\ Entries(batch[s]) \cap Entries(file[s]) \subseteq repeated'[s]
          /\ Entries(buffer'[s]) \cap Entries(file[s]) \subseteq repeated'[s]
      BY <1>5, <2>2, <2>7, EmptyQueue
    <3>4. OnePlace(s)'
      <4> DEFINE Mine == Entries(buffer[s]) \cup Entries(file[s])
      <4>1. Mine \subseteq Entries(buffer[s]) \cup Entries(file[s]) \cup repeated'[s]
                        \cup (IF r \in Coming THEN Entries(Batch(r, s)) ELSE {})
        OBVIOUS
      <4>2. /\ Entries(buffer'[s]) \cup Entries(file'[s]) \subseteq Mine
            /\ Entries(v.batch[s]) \subseteq Mine
        BY <1>5, <2>2, <3>1, <3>3
      <4> HIDE DEF Mine
      <4>3. QED
        BY <1>5, <2>4, <2>5, <3>1, <3>2, <3>3, <4>1, <4>2, OnePlaceKept
    <3>5. OldestFirst(s)' /\ OneCall'
      <4>1. ASSUME ~ overlapped'
            PROVE  /\ InFlight \subseteq {r}
                   /\ InOrder(file[s], repeated'[s]) /\ InOrder(buffer'[s], repeated'[s])
                   /\ Older(file[s], buffer'[s], repeated'[s])
                   /\ InOrder(batch[s], repeated'[s])
                   /\ Older(file[s], batch[s], repeated'[s])
                   /\ Older(batch[s], buffer'[s], repeated'[s])
        <5>1. /\ InFlight \subseteq {r} /\ InOrder(file[s], repeated'[s])
              /\ InOrder(buffer[s], repeated'[s]) /\ InOrder(batch[s], repeated'[s])
              /\ Older(file[s], buffer[s], repeated'[s])
          BY <1>5, <2>2, <3>1, <4>1, Excepted DEF Older
        <5>2. InOrder(buffer'[s], repeated'[s])
          BY <1>5, <5>1, EmptyQueue
        <5>3. Older(file[s], buffer'[s], repeated'[s]) /\ Older(file[s], batch[s], repeated'[s])
          BY <2>2, <3>3, <5>1 DEF Older
        <5>4. Older(batch[s], buffer'[s], repeated'[s])
          <6>1. CASE closes
            BY <1>5, <6>1, EmptyQueue
          <6>2. CASE ~ closes
            BY <2>7, <6>2 DEF Older
          <6>3. QED
            BY <6>1, <6>2
        <5>5. QED
          BY <5>1, <5>2, <5>3, <5>4
      <4>2. QED
        BY <1>5, <2>4, <2>5, <3>1, <4>1, OldestFirstKept
    <3>6. NothingIsMissing(s)'
      <4>1. CASE closes
        <5>1. page' = "closed"
          BY <4>1 DEF Unload
        <5>2. Entries(buffer[s]) \cup dropped[s] \subseteq dropped'[s] \cup Entries(v.batch[s])
          BY <2>7, <3>1, <4>1
        <5>3. QED
          BY <1>1, <1>4, <1>5, <2>4, <2>5, <2>6, <5>1, <5>2, NothingLost
      <4>2. CASE ~ closes
        <5>1. buffer'[s] = buffer[s] /\ dropped[s] \subseteq dropped'[s]
          BY <1>5, <2>7, <4>2
        <5>2. QED
          BY <1>1, <1>4, <1>5, <2>4, <2>5, <2>6, <5>1, NothingLost
      <4>3. QED
        BY <4>1, <4>2
    <3>7. dropped'[s] \in SUBSET Nat /\ repeated'[s] \in SUBSET Nat
      BY <1>5, <2>2, <2>7, StreamFacts, ZenonT(40)
    <3>8. buffer'[s] \in Seq(Nat) /\ Len(buffer'[s]) <= BufferSize[s]
      BY <1>5, EmptyQueue
    <3>9. QED
      BY <1>1, <1>5, <2>2, <3>1, <3>3, <3>4, <3>5, <3>6, <3>7, <3>8, StreamFacts
         DEF StreamKeeps
  <2>9. \A V \in {buffer', file', dropped', repeated'} : V = [s \in Streams |-> V[s]]
    <3>1. file' \in [Streams -> Seq(Nat)]
      BY <1>1 DEF CollectorInv, CollectorTypeOK
    <3>2. QED
      BY <1>3, <2>1, <3>1
  <2>10. QED
    BY <1>4, <2>4, <2>5, <2>8, <2>9, CollectorAssembled
<1>8. QED
  BY <1>6, <1>7
-----------------------------------------------------------------------------
\* A batch JSON cannot write is given up, and the page captures the exception.
LEMMA ReportThrowsKeeps == ASSUME CollectorInv, ReportThrows PROVE CollectorInv'
<1>1. {"console", "ui"} \in SUBSET Streams
  BY DEF Streams
<1>2. QED
  BY <1>1, PushKeeps DEF ReportThrows

LEMMA UnloadThrowsKeeps ==
  ASSUME CollectorInv, NEW closes \in BOOLEAN, UnloadThrows(closes)
  PROVE  CollectorInv'
<1>1. UNCHANGED <<report, file, repeated, overlapped, untrimmed>> /\ page = "open"
  BY DEF UnloadThrows
<1>2. CASE ~ closes
  <2>1. {"console", "ui"} \in SUBSET Streams /\ UNCHANGED page /\ Push({"console", "ui"}, buffer)
    BY <1>2 DEF Streams, UnloadThrows
  <2>2. QED
    BY <1>1, <2>1, PushKeeps
<1>3. CASE closes
  <2>1. /\ page' = "closed" /\ buffer' = Empty
        /\ dropped' = [s \in Streams |-> dropped[s] \cup Entries(buffer[s])]
        /\ UNCHANGED <<events, captured>>
    BY <1>3 DEF UnloadThrows
  <2>2. ASSUME NEW s \in Streams
        PROVE  /\ buffer'[s] = <<>> /\ file'[s] = file[s] /\ repeated'[s] = repeated[s]
               /\ captured'[s] = captured[s]
               /\ dropped'[s] = dropped[s] \cup Entries(buffer[s])
               /\ Entries(buffer[s]) \subseteq Nat /\ dropped[s] \subseteq Nat
               /\ Len(buffer'[s]) <= BufferSize[s]
    <3>1. 0 <= BufferSize[s] /\ buffer'[s] = <<>>
      BY <2>1, DebugCollectorAssumption DEF Empty
    <3>2. Entries(buffer[s]) \subseteq Nat /\ dropped[s] \subseteq Nat
      BY StreamFacts DEF Entries
    <3>3. QED
      BY <1>1, <2>1, <3>1, <3>2, EmptyQueue
  <2>3. CollectorTypeOK'
    <3>1. buffer' \in [Streams -> Seq(Nat)]
      BY <2>1, EmptyQueue DEF Empty
    <3>2. dropped' \in [Streams -> SUBSET Nat]
      BY <2>1, <2>2
    <3>3. QED
      BY <1>1, <2>1, <3>1, <3>2 DEF CollectorInv, CollectorTypeOK
  <2>4. CollectorBounded'
    BY <1>1, <2>2 DEF CollectorInv, CollectorBounded
  <2>5. InFlight' = InFlight /\ Coming' = Coming /\ OneCall'
    BY <1>1 DEF CollectorInv, InFlight, Coming, OneCall
  <2>6. ASSUME NEW s \in Streams
        PROVE  (KeptWasCaptured(s) /\ NothingIsMissing(s) /\ OnePlace(s) /\ OldestFirst(s))'
    <3>1. \A r \in Reports : Batch(r, s)' = Batch(r, s)
      BY <1>1 DEF Batch
    <3>2. Coming \subseteq Reports /\ InFlight \subseteq Reports
      BY DEF Coming, InFlight
    <3>3. KeptWasCaptured(s)'
      BY <2>1, <2>2, <2>5, <3>1, <3>2, EmptyQueue, StreamFacts DEF KeptWasCaptured
    <3>4. Reachable(s) \subseteq Reachable(s)'
      BY <1>1, <2>1, <2>5, <3>1, <3>2 DEF Reachable
    <3>5. NothingIsMissing(s)'
      BY <2>2, <3>4, StreamFacts DEF NothingIsMissing
    <3>6. OnePlace(s)'
      <4>1. /\ Once(file[s], repeated[s])
            /\ \A r \in Coming :
                 /\ Once(Batch(r, s), repeated[s])
                 /\ Entries(Batch(r, s)) \cap Entries(file[s]) \subseteq repeated[s]
                 /\ \A x \in Coming \ {r} :
                      Entries(Batch(r, s)) \cap Entries(Batch(x, s)) \subseteq repeated[s]
        BY StreamFacts DEF OnePlace
      <4>2. /\ Once(buffer'[s], repeated[s]) /\ Entries(buffer'[s]) = {}
        BY <2>2, EmptyQueue
      <4>3. QED
        BY <2>2, <2>5, <3>1, <3>2, <4>1, <4>2 DEF OnePlace
    <3>7. OldestFirst(s)'
      BY <1>1, <2>2, <2>5, <3>1, <3>2, EmptyQueue, StreamFacts DEF OldestFirst
    <3>8. QED
      BY <3>3, <3>5, <3>6, <3>7
  <2>7. QED
    BY <2>3, <2>4, <2>5, <2>6 DEF CollectorInv
<1>4. QED
  BY <1>2, <1>3
-----------------------------------------------------------------------------
\* Every step keeps the invariant.
LEMMA CollectorKeeps == CollectorInv /\ [CollectorNext]_collectorVars => CollectorInv'
<1>1. SUFFICES ASSUME CollectorInv, [CollectorNext]_collectorVars PROVE CollectorInv'
  OBVIOUS
<1>2. ASSUME UNCHANGED <<buffer, report, page, file, events, streamVars>> PROVE CollectorInv'
  BY <1>1, <1>2 DEF streamVars, CollectorInv, CollectorTypeOK, CollectorBounded, OneCall, InFlight,
     KeptWasCaptured, NothingIsMissing, Reachable, Coming, Batch, OnePlace, OldestFirst
<1>3. CASE CapturingStep
  <2>1. ASSUME NEW S \in {{"console"}, {"console", "ui"}, {"ui"}, {"network"},
                          {"network", "ui"}}, Capture(S)
        PROVE  CollectorInv'
    <3>1. S \in SUBSET Streams
      BY DEF Streams
    <3>2. QED
      BY <1>1, <2>1, <3>1, PushKeeps DEF Capture
  <2>2. CASE FetchAnswered
    BY <1>2, <2>2 DEF FetchAnswered
  <2>3. QED
    BY <1>3, <2>1, <2>2 DEF CapturingStep, ConsoleCall, UncaughtError, UiEvent,
       FetchAnsweredUncaptured, FetchAnsweredBad, BodyRead, FetchFailed, XhrLoaded, XhrFailed
<1>4. ASSUME NEW b \in BOOLEAN, UnloadThrows(b) PROVE CollectorInv'
  BY <1>1, <1>4, UnloadThrowsKeeps
<1>5. ASSUME NEW r \in Reports,
             \/ DeliveryStep(r) \/ Unheard(r)
             \/ \E b \in BOOLEAN : ReportFails(r, b) \/ Unload(r, b)
      PROVE  CollectorInv'
  <2>1. CASE ReportLogs(r)
    BY <1>1, <1>5, <2>1, ReportLogsKeeps
  <2>2. CASE ReportThrows
    BY <1>1, <2>2, ReportThrowsKeeps
  <2>3. CASE Answered(r) \/ Unheard(r)
    BY <1>1, <1>5, <2>3, CallEndsKeeps
  <2>4. CASE \E k \in 1..4 : HandlePayload(r, k)
    BY <1>1, <1>5, <2>4, HandlePayloadKeeps
  <2>5. CASE \E b \in BOOLEAN : ReportFails(r, b)
    BY <1>1, <1>5, <2>5, ReportFailsKeeps
  <2>6. CASE \E b \in BOOLEAN : Unload(r, b)
    BY <1>1, <1>5, <2>6, UnloadKeeps
  <2>7. QED
    BY <1>5, <2>1, <2>2, <2>3, <2>4, <2>5, <2>6 DEF DeliveryStep
<1>6. CASE UNCHANGED collectorVars
  BY <1>2, <1>6 DEF collectorVars, streamVars
<1>7. QED
  BY <1>1, <1>3, <1>4, <1>5, <1>6 DEF CollectorNext

\* An entry that is in one place only occurs at most once.
LEMMA OneOccurrence ==
  ASSUME CollectorInv, NEW s \in Streams, NEW n \in captured[s] \ repeated[s]
  PROVE  Occurrences(s, n) <= 1
<1> DEFINE B == {i \in DOMAIN buffer[s] : buffer[s][i] = n}
           F == {i \in DOMAIN file[s] : file[s][i] = n}
           C == {r \in Underway(s) : n \in Entries(report[r].batch[s])}
<1>1. OnePlace(s)
  BY StreamFacts
<1>2. \A i, j \in B : i = j
  BY <1>1 DEF OnePlace, Once
<1>3. \A i, j \in F : i = j
  BY <1>1 DEF OnePlace, Once
<1>4. \A r, x \in C : r = x
  BY <1>1 DEF OnePlace, Underway, Coming, Batch
<1>5. B # {} => n \in Entries(buffer[s])
  BY DEF Entries
<1>6. F # {} => n \in Entries(file[s])
  BY DEF Entries
<1>7. C # {} => \E r \in Coming : n \in Entries(Batch(r, s))
  BY DEF Underway, Coming, Batch
<1>8. \/ B = {} /\ F = {}
      \/ B = {} /\ C = {}
      \/ F = {} /\ C = {}
  BY <1>1, <1>5, <1>6, <1>7 DEF OnePlace
<1>9. Occurrences(s, n) = Cardinality(B) + Cardinality(F) + Cardinality(C)
  BY DEF Occurrences
<1> HIDE DEF B, F, C
<1>10. ASSUME NEW T, \A x, y \in T : x = y
       PROVE  Cardinality(T) \in 0..1 /\ (T = {} => Cardinality(T) = 0)
  <2>1. CASE T = {}
    BY <2>1, FS_EmptySet
  <2>2. CASE T # {}
    <3>1. PICK x : T = {x}
      BY <1>10, <2>2
    <3>2. Cardinality({x}) = 1
      BY FS_Singleton
    <3>3. QED
      BY <2>2, <3>1, <3>2
  <2>3. QED
    BY <2>1, <2>2
<1>11. /\ Cardinality(B) \in 0..1 /\ (B = {} => Cardinality(B) = 0)
       /\ Cardinality(F) \in 0..1 /\ (F = {} => Cardinality(F) = 0)
       /\ Cardinality(C) \in 0..1 /\ (C = {} => Cardinality(C) = 0)
  BY <1>2, <1>3, <1>4, <1>10
<1>12. QED
  BY <1>8, <1>9, <1>11

\* For any sizes of the buffers, beacons and files, any number of events, failures and
\* reports in flight, and any entries that are too long for a file or that JSON cannot
\* write: no entry goes missing but in the ways EntriesAreAccountedFor lists, none comes
\* twice but after a lost answer or a cancelled unload, the order stays as long as one
\* report is in flight at a time, and only a failed trim leaves a file over its limit.
THEOREM EntriesArrive == CollectorSpec => []EntriesAreDelivered
<1>1. CollectorInv => EntriesAreDelivered
  <2>1. SUFFICES ASSUME CollectorInv PROVE EntriesAreDelivered
    OBVIOUS
  <2>2. CollectorBounded
    BY <2>1 DEF CollectorInv
  <2>3. EntriesAreAccountedFor
    <3>1. SUFFICES ASSUME NEW s \in Streams, NEW n \in captured[s],
                          n \notin Entries(buffer[s]) \cup Entries(file[s]) \cup dropped[s]
                   PROVE  \E r \in Underway(s) : n \in Entries(report[r].batch[s])
      BY DEF EntriesAreAccountedFor
    <3>2. PICK r \in Coming : n \in Entries(Batch(r, s))
      BY <2>1, <3>1, StreamFacts DEF NothingIsMissing, Reachable
    <3>3. Batch(r, s) # <<>>
      BY <3>2, EmptyQueue
    <3>4. QED
      BY <3>2, <3>3 DEF Underway, Coming, Batch
  <2>4. NoEntryTwice
    BY <2>1, OneOccurrence DEF NoEntryTwice
  <2>5. OrderIsKept
    BY <2>1, OrderFacts DEF OrderIsKept
  <2>6. QED
    BY <2>2, <2>3, <2>4, <2>5 DEF EntriesAreDelivered
<1>2. CollectorSpec => []CollectorInv
  BY CollectorInvInit, CollectorKeeps, PTL DEF CollectorSpec
<1>3. QED
  BY <1>1, <1>2, PTL
=============================================================================
