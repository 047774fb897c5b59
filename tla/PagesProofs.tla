------------------------------- MODULE PagesProofs -------------------------------
(***************************************************************************)
(* The safety properties of the pages: of a text input in a dialog for every delay  *)
(* of its timers, of the platform console for every number of calls and dialogs, and   *)
(* of the Open Banking dashboard for every backend, user and number of clicks.          *)
(***************************************************************************)
EXTENDS TextEntry, PlatformConsole, OpenBankingDashboard, FiniteSetTheorems, TLAPS

-----------------------------------------------------------------------------
(***************************************************************************)
(* The text entry.  TextEntryInv is inductive: it relates the ages of the timers   *)
(* to the key the browser still owes, and to the composition in progress.            *)
(***************************************************************************)
EntrySpec == TextEntryInit /\ [][TextEntryNext]_entryVars

-----------------------------------------------------------------------------
\* While the editor composes no timeout of useComposition is set and no key is owed.
ComposingIsQuiet == composing => c /\ timer = "none" /\ awaited = NoKey

\* The key that is owed arrives before justEndedRef is cleared.
KeyBeatsJustEnded ==
  awaited # NoKey => /\ awaited.key \in Keys
                     /\ justEnded.on /\ justEnded.left > awaited.left

\* A reset of this composition comes after its end, and after the key it owes.
KeyBeatsReset == \A r \in resets :
                   ~ r.old => ~ composing /\ (awaited # NoKey => r.left > awaited.left)

\* The dialog's flag covers the composition and its key, unless an old reset ran.
DialogFlag == (composing \/ awaited # NoKey) /\ ~ composingRef => staleReset

TextEntryInv ==
  /\ TextEntryTypeOK
  /\ ComposingIsQuiet /\ KeyBeatsJustEnded /\ KeyBeatsReset /\ DialogFlag
  /\ ConfirmingEnterIsHeld /\ EscapeClosesByStaleResetOnly
-----------------------------------------------------------------------------
LEMMA LessType == ASSUME NEW m \in Nat, NEW n \in 0..m PROVE Less(n) \in 0..m
BY DEF Less

\* The initial state satisfies the invariant.
LEMMA InitTextEntryInv == TextEntryInit => TextEntryInv
<1>1. SUFFICES ASSUME TextEntryInit PROVE TextEntryInv
  OBVIOUS
<1>2. TextEntryTypeOK
  <2>1. 0 \in 0..KeyLag /\ 0 \in 0..JustEndedTicks
    BY TextEntryAssumption
  <2>2. lastKey \in [key : Keys \cup {"none"}, confirms : BOOLEAN, effect : BOOLEAN,
                     stale : BOOLEAN]
    BY <1>1 DEF TextEntryInit
  <2>3. QED
    BY <1>1, <2>1, <2>2 DEF TextEntryInit, TextEntryTypeOK, NoKey
<1>3. ComposingIsQuiet /\ KeyBeatsJustEnded /\ KeyBeatsReset /\ DialogFlag
  BY <1>1 DEF TextEntryInit, ComposingIsQuiet, KeyBeatsJustEnded, KeyBeatsReset, DialogFlag
<1>4. ConfirmingEnterIsHeld /\ EscapeClosesByStaleResetOnly
  BY <1>1 DEF TextEntryInit, ConfirmingEnterIsHeld, EscapeClosesByStaleResetOnly
<1>5. QED
  BY <1>2, <1>3, <1>4 DEF TextEntryInv

\* A composition that starts: its predecessor's resets become old.
LEMMA StartPreserves == TextEntryInv /\ CompositionStart => TextEntryInv'
<1>1. SUFFICES ASSUME TextEntryInv, CompositionStart PROVE TextEntryInv'
  OBVIOUS
<1>2. TextEntryTypeOK'
  <2>1. TextEntryTypeOK /\ resets \subseteq [left : 0..ResetTicks, old : BOOLEAN]
    BY <1>1 DEF TextEntryInv, TextEntryTypeOK
  <2>2. ASSUME NEW r \in resets
        PROVE  [left |-> r.left, old |-> TRUE] \in [left : 0..ResetTicks, old : BOOLEAN]
    BY <2>1
  <2>3. resets' \subseteq [left : 0..ResetTicks, old : BOOLEAN]
    BY <1>1, <2>2, Zenon DEF CompositionStart
  <2>4. started' \in Nat
    BY <1>1, <2>1 DEF TextEntryTypeOK, CompositionStart
  <2>5. QED
    BY <1>1, <2>1, <2>3, <2>4, Zenon DEF TextEntryTypeOK, CompositionStart
<1>3. ComposingIsQuiet' /\ KeyBeatsJustEnded' /\ DialogFlag'
  BY <1>1 DEF TextEntryInv, CompositionStart, ComposingIsQuiet, KeyBeatsJustEnded, DialogFlag
<1>4. KeyBeatsReset'
  BY <1>1 DEF CompositionStart, KeyBeatsReset
<1>5. ConfirmingEnterIsHeld' /\ EscapeClosesByStaleResetOnly'
  BY <1>1 DEF TextEntryInv, CompositionStart, ConfirmingEnterIsHeld,
              EscapeClosesByStaleResetOnly
<1>6. QED
  BY <1>2, <1>3, <1>4, <1>5 DEF TextEntryInv

\* A composition that ends sets both timers for longer than its key takes.
LEMMA EndPreserves ==
  ASSUME NEW k \in {NoKey} \cup {[key |-> j, left |-> KeyLag] : j \in Keys},
         TextEntryInv, CompositionEnd(k)
  PROVE  TextEntryInv'
<1>1. /\ k \in [key : Keys \cup {"none"}, left : 0..KeyLag]
      /\ k.left < ResetTicks /\ k.left < JustEndedTicks
  BY TextEntryAssumption DEF NoKey
<1>2. TextEntryTypeOK'
  <2>1. [left |-> ResetTicks, old |-> FALSE] \in [left : 0..ResetTicks, old : BOOLEAN]
    BY TextEntryAssumption
  <2>2. [on |-> TRUE, left |-> JustEndedTicks] \in [on : BOOLEAN, left : 0..JustEndedTicks]
    BY TextEntryAssumption
  <2>3. QED
    BY <1>1, <2>1, <2>2 DEF TextEntryInv, TextEntryTypeOK, CompositionEnd
<1>3. ComposingIsQuiet' /\ KeyBeatsJustEnded'
  BY <1>1 DEF CompositionEnd, ComposingIsQuiet, KeyBeatsJustEnded
<1>4. KeyBeatsReset'
  <2>1. \A r \in resets : r.old
    BY DEF TextEntryInv, KeyBeatsReset, CompositionEnd
  <2>2. QED
    BY <1>1, <2>1 DEF CompositionEnd, KeyBeatsReset
<1>5. DialogFlag'
  BY DEF TextEntryInv, DialogFlag, CompositionEnd
<1>6. ConfirmingEnterIsHeld' /\ EscapeClosesByStaleResetOnly'
  BY DEF TextEntryInv, CompositionEnd, ConfirmingEnterIsHeld, EscapeClosesByStaleResetOnly
<1>7. QED
  BY <1>2, <1>3, <1>4, <1>5, <1>6 DEF TextEntryInv

\* The timers: none of them fires before a key that is owed.
LEMMA TimersPreserve == TextEntryInv /\ TimerStep => TextEntryInv'
<1>1. SUFFICES ASSUME TextEntryInv, TimerStep PROVE TextEntryInv'
  OBVIOUS
<1>2. CASE FirstTimeout \/ SecondTimeout
  <2>1. TextEntryTypeOK'
    BY <1>1, <1>2 DEF TextEntryInv, TextEntryTypeOK, FirstTimeout, SecondTimeout
  <2>2. ComposingIsQuiet'
    BY <1>1, <1>2 DEF TextEntryInv, ComposingIsQuiet, FirstTimeout, SecondTimeout
  <2>3. KeyBeatsJustEnded' /\ KeyBeatsReset' /\ DialogFlag'
    BY <1>1, <1>2 DEF TextEntryInv, KeyBeatsJustEnded, KeyBeatsReset, DialogFlag,
                      FirstTimeout, SecondTimeout
  <2>4. ConfirmingEnterIsHeld' /\ EscapeClosesByStaleResetOnly'
    BY <1>1, <1>2 DEF TextEntryInv, ConfirmingEnterIsHeld, EscapeClosesByStaleResetOnly,
                      FirstTimeout, SecondTimeout
  <2>5. QED
    BY <2>1, <2>2, <2>3, <2>4 DEF TextEntryInv
<1>3. CASE EndTimeout
  <2>1. awaited = NoKey
    BY <1>1, <1>3 DEF TextEntryInv, TextEntryTypeOK, KeyBeatsJustEnded, EndTimeout
  <2>2. TextEntryTypeOK'
    BY <1>1, <1>3, ZenonT(40) DEF TextEntryInv, TextEntryTypeOK, EndTimeout
  <2>3. ComposingIsQuiet' /\ KeyBeatsJustEnded' /\ KeyBeatsReset' /\ DialogFlag'
    BY <1>1, <1>3, <2>1 DEF TextEntryInv, ComposingIsQuiet, KeyBeatsJustEnded, KeyBeatsReset,
                            DialogFlag, EndTimeout
  <2>4. ConfirmingEnterIsHeld' /\ EscapeClosesByStaleResetOnly'
    BY <1>1, <1>3 DEF TextEntryInv, ConfirmingEnterIsHeld, EscapeClosesByStaleResetOnly,
                      EndTimeout
  <2>5. QED
    BY <2>2, <2>3, <2>4 DEF TextEntryInv
<1>4. CASE EntryTick
  <2>1. TextEntryTypeOK'
    <3>1. ASSUME NEW r \in resets
          PROVE  [r EXCEPT !.left = Less(@)] \in [left : 0..ResetTicks, old : BOOLEAN]
      BY <1>1, LessType, TextEntryAssumption DEF TextEntryInv, TextEntryTypeOK
    <3>2. justEnded' \in [on : BOOLEAN, left : 0..JustEndedTicks]
      BY <1>1, <1>4, LessType, TextEntryAssumption DEF TextEntryInv, TextEntryTypeOK, EntryTick
    <3>3. awaited' \in [key : Keys \cup {"none"}, left : 0..KeyLag]
      BY <1>1, <1>4, LessType, TextEntryAssumption DEF TextEntryInv, TextEntryTypeOK, EntryTick
    <3>4. QED
      BY <1>1, <1>4, <3>1, <3>2, <3>3 DEF TextEntryInv, TextEntryTypeOK, EntryTick
  <2>2. awaited = NoKey => awaited' = NoKey
    BY <1>4 DEF EntryTick, NoKey, Less
  <2>3. awaited # NoKey => awaited.left \in Nat \ {0} /\ awaited'.left = awaited.left - 1
    BY <1>1, <1>4, TextEntryAssumption DEF TextEntryInv, TextEntryTypeOK, EntryTick, Less
  <2>4. ComposingIsQuiet' /\ DialogFlag'
    BY <1>1, <1>4, <2>2 DEF TextEntryInv, ComposingIsQuiet, DialogFlag, EntryTick
  <2>5. KeyBeatsJustEnded'
    BY <1>1, <1>4, <2>2, <2>3, TextEntryAssumption
    DEF TextEntryInv, TextEntryTypeOK, KeyBeatsJustEnded, EntryTick, Less
  <2>6. KeyBeatsReset'
    <3>1. SUFFICES ASSUME NEW r \in resets, ~ r.old
                   PROVE  /\ ~ composing'
                          /\ awaited' # NoKey => Less(r.left) > awaited'.left
      BY <1>1, <1>4 DEF TextEntryInv, TextEntryTypeOK, KeyBeatsReset, EntryTick
    <3>2. ~ composing /\ (awaited # NoKey => r.left > awaited.left) /\ r.left \in Nat
      BY <1>1, <3>1, TextEntryAssumption DEF TextEntryInv, TextEntryTypeOK, KeyBeatsReset
    <3>3. QED
      BY <1>4, <2>2, <2>3, <3>2 DEF EntryTick, Less
  <2>7. ConfirmingEnterIsHeld' /\ EscapeClosesByStaleResetOnly'
    BY <1>1, <1>4 DEF TextEntryInv, ConfirmingEnterIsHeld, EscapeClosesByStaleResetOnly,
                      EntryTick
  <2>8. QED
    BY <2>1, <2>4, <2>5, <2>6, <2>7 DEF TextEntryInv
<1>5. ASSUME NEW r \in resets, ResetComposing(r) PROVE TextEntryInv'
  <2>1. TextEntryTypeOK'
    BY <1>1, <1>5, ZenonT(40) DEF TextEntryInv, TextEntryTypeOK, ResetComposing
  <2>2. ComposingIsQuiet' /\ KeyBeatsJustEnded' /\ KeyBeatsReset'
    BY <1>1, <1>5 DEF TextEntryInv, ComposingIsQuiet, KeyBeatsJustEnded, KeyBeatsReset,
                      ResetComposing
  <2>3. DialogFlag'
    <3>1. ~ r.old => ~ composing /\ awaited = NoKey
      BY <1>1, <1>5, TextEntryAssumption
      DEF TextEntryInv, TextEntryTypeOK, KeyBeatsReset, ResetComposing
    <3>2. QED
      BY <1>5, <3>1 DEF DialogFlag, ResetComposing
  <2>4. ConfirmingEnterIsHeld' /\ EscapeClosesByStaleResetOnly'
    BY <1>1, <1>5 DEF TextEntryInv, ConfirmingEnterIsHeld, EscapeClosesByStaleResetOnly,
                      ResetComposing
  <2>5. QED
    BY <2>1, <2>2, <2>3, <2>4 DEF TextEntryInv
<1>6. QED
  BY <1>1, <1>2, <1>3, <1>4, <1>5 DEF TimerStep

\* What a key does when it is reported.
LEMMA KeyPreserves ==
  ASSUME NEW k \in Keys, NEW native \in BOOLEAN, NEW confirms \in BOOLEAN, TextEntryInv,
         KeyDown(k, native, confirms),
         composing => native,
         confirms => native \/ (~ composing /\ awaited # NoKey /\ k = awaited.key),
         awaited' \in {awaited, NoKey}
  PROVE  TextEntryInv'
<1>1. EnterReaches(native) \in BOOLEAN /\ EscapeCloses(native) \in BOOLEAN
  BY DEF EnterReaches, EscapeCloses
<1>2. TextEntryTypeOK'
  <2>1. awaited' \in [key : Keys \cup {"none"}, left : 0..KeyLag]
    BY TextEntryAssumption DEF TextEntryInv, TextEntryTypeOK, NoKey
  <2>2. lastKey' \in [key : Keys \cup {"none"}, confirms : BOOLEAN, effect : BOOLEAN,
                      stale : BOOLEAN]
    BY <1>1 DEF TextEntryInv, TextEntryTypeOK, KeyDown
  <2>3. /\ open' \in BOOLEAN /\ c' \in BOOLEAN /\ timer' \in {"none", "first", "second"}
        /\ UNCHANGED <<composing, started, composingRef, resets, justEnded, staleReset>>
    BY DEF TextEntryInv, TextEntryTypeOK, KeyDown
  <2>4. QED
    BY <2>1, <2>2, <2>3 DEF TextEntryInv, TextEntryTypeOK
<1>3. ComposingIsQuiet'
  BY DEF TextEntryInv, ComposingIsQuiet, KeyDown, EscapeCloses, Keys
<1>4. KeyBeatsJustEnded' /\ KeyBeatsReset' /\ DialogFlag'
  BY DEF TextEntryInv, KeyBeatsJustEnded, KeyBeatsReset, DialogFlag, KeyDown
<1>5. ConfirmingEnterIsHeld'
  <2>1. ASSUME k = "Enter", confirms PROVE ~ EnterReaches(native)
    BY <2>1 DEF TextEntryInv, KeyBeatsJustEnded, EnterReaches
  <2>2. QED
    BY <2>1 DEF ConfirmingEnterIsHeld, KeyDown
<1>6. EscapeClosesByStaleResetOnly'
  <2>1. ASSUME k = "Escape", confirms, EscapeCloses(native) PROVE staleReset
    BY <2>1 DEF TextEntryInv, DialogFlag, EscapeCloses
  <2>2. QED
    BY <2>1 DEF EscapeClosesByStaleResetOnly, KeyDown, Keys
<1>7. QED
  BY <1>2, <1>3, <1>4, <1>5, <1>6 DEF TextEntryInv

\* Every step preserves the invariant.
LEMMA TextEntryStep == TextEntryInv /\ [TextEntryNext]_entryVars => TextEntryInv'
<1>1. SUFFICES ASSUME TextEntryInv, [TextEntryNext]_entryVars PROVE TextEntryInv'
  OBVIOUS
<1>2. CASE TimerStep
  BY <1>1, <1>2, TimersPreserve
<1>3. CASE CompositionStart
  BY <1>1, <1>3, StartPreserves
<1>4. CASE CompositionEnd(NoKey)
  BY <1>1, <1>4, EndPreserves
<1>5. ASSUME NEW k \in Keys, CompositionEnd([key |-> k, left |-> KeyLag]) PROVE TextEntryInv'
  BY <1>1, <1>5, EndPreserves
<1>6. CASE KeyAfterEnd
  <2>1. awaited.key \in Keys
    BY <1>1, <1>6 DEF TextEntryInv, KeyBeatsJustEnded, KeyAfterEnd
  <2>2. ~ composing
    BY <1>1, <1>6 DEF TextEntryInv, ComposingIsQuiet, KeyAfterEnd
  <2>3. QED
    BY <1>1, <1>6, <2>1, <2>2, KeyPreserves DEF KeyAfterEnd
<1>7. ASSUME NEW k \in Keys, KeyBeforeEnd(k) PROVE TextEntryInv'
  BY <1>1, <1>7, KeyPreserves DEF KeyBeforeEnd
<1>8. ASSUME NEW k \in Keys, OtherKey(k) PROVE TextEntryInv'
  BY <1>1, <1>8, KeyPreserves DEF OtherKey
<1>9. CASE Reopen \/ UNCHANGED entryVars
  <2>1. TextEntryTypeOK'
    BY <1>1, <1>9 DEF TextEntryInv, TextEntryTypeOK, Reopen, entryVars
  <2>2. /\ ComposingIsQuiet' /\ KeyBeatsJustEnded' /\ KeyBeatsReset' /\ DialogFlag'
        /\ ConfirmingEnterIsHeld' /\ EscapeClosesByStaleResetOnly'
    BY <1>1, <1>9 DEF TextEntryInv, ComposingIsQuiet, KeyBeatsJustEnded, KeyBeatsReset,
       DialogFlag, ConfirmingEnterIsHeld, EscapeClosesByStaleResetOnly, Reopen, entryVars
  <2>3. QED
    BY <2>1, <2>2 DEF TextEntryInv
<1>10. QED
  BY <1>1, <1>2, <1>3, <1>4, <1>5, <1>6, <1>7, <1>8, <1>9 DEF TextEntryNext, EndStep

\* The invariant holds of every reachable state of useComposition, input.tsx and
\* dialog.tsx together.
THEOREM TextEntrySafe == EntrySpec => []TextEntryInv
<1>1. QED
  BY InitTextEntryInv, TextEntryStep, PTL DEF EntrySpec

\* Timers and flags stay in their ranges, whatever the delays are.
THEOREM TextEntryIsTyped == EntrySpec => []TextEntryTypeOK
<1>1. TextEntryInv => TextEntryTypeOK
  BY DEF TextEntryInv
<1>2. QED
  BY <1>1, TextEntrySafe, PTL

\* The Enter that confirms a composition never submits the form (useComposition and
\* onKeyDown of input.tsx), if it is reported sooner than the timers fire; the flag of
\* useComposition is up throughout each composition; and handleEscapeKeyDown of
\* dialog.tsx lets a cancelling Escape through only after a reset of an earlier one.
THEOREM KeysAreHeld == EntrySpec => []ConfirmingKeysAreHeld
<1>1. TextEntryInv => ConfirmingKeysAreHeld
  BY DEF TextEntryInv, ComposingIsQuiet, FlagCoversComposition, ConfirmingKeysAreHeld
<1>2. QED
  BY <1>1, TextEntrySafe, PTL
-----------------------------------------------------------------------------
(***************************************************************************)
(* The console.  A place that disables its button while busy has one call in     *)
(* flight at most, and the call of an evaluator asks for the permission that is    *)
(* selected as long as none overlapped.                                             *)
(***************************************************************************)
ConsoleSpec == ConsoleInit /\ [][ConsoleNext]_consoleVars

Calls == [place : Places, permission : Permissions \cup {"none"},
          answer : {"none", "ok", "error", "broken"}, events : Nat]

ConsoleTypeOK ==
  /\ fetches \in Seq(Calls) /\ projected \in Nat
  /\ busy \in [Places -> BOOLEAN] /\ DOMAIN permission = Evaluators /\ DOMAIN shown = Places

Pending(p, calling) == \E f \in DOMAIN calling : calling[f].place = p
Alone(p, calling) ==
  \A f, g \in DOMAIN calling : calling[f].place = p /\ calling[g].place = p => f = g
Asking(p, calling, asked) ==
  \A f \in DOMAIN calling : calling[f].place = p => calling[f].permission = asked

Guarded == Forms \cup {"AccessControlConsole"}
GuardedAlone == \A p \in Guarded : Alone(p, fetches) /\ (busy[p] <=> Pending(p, fetches))
EvaluatorsAlone ==
  \A p \in Evaluators \ overlapping :
    /\ Alone(p, fetches) /\ (busy[p] <=> Pending(p, fetches))
    /\ Asking(p, fetches, permission[p])

ConsoleInv == ConsoleTypeOK /\ GuardedAlone /\ EvaluatorsAlone /\ VerdictFitsPermission
-----------------------------------------------------------------------------
\* How the kinds of places lie to each other.
LEMMA PlacesAre == Guarded \subseteq Places /\ Evaluators \subseteq Places /\ Lists \subseteq Places
                     /\ Wallets \subseteq Places /\ "evaluator" \in Places
                     /\ Wallets \cap (Guarded \cup Evaluators) = {}
                     /\ Lists \cap Evaluators = {} /\ Forms \cap Evaluators = {}
BY DEF Guarded, Forms, Evaluators, Lists, Wallets, Places

\* A call that is sent is the last one.
LEMMA SentCall ==
  ASSUME NEW calling \in Seq(Calls), NEW x \in Calls, NEW p
  PROVE  LET later == Append(calling, x)
         IN  /\ later \in Seq(Calls)
             /\ Pending(p, later) <=> Pending(p, calling) \/ x.place = p
             /\ x.place # p \/ ~ Pending(p, calling) =>
                  (Alone(p, calling) => Alone(p, later))
             /\ \A asked : x.place # p /\ Asking(p, calling, asked) => Asking(p, later, asked)
             /\ \A asked : x.permission = asked /\ ~ Pending(p, calling) => Asking(p, later, asked)
<1> DEFINE later == Append(calling, x)
<1>1. /\ later \in Seq(Calls) /\ Len(calling) \in Nat
      /\ DOMAIN calling = 1..Len(calling) /\ DOMAIN later = 1..(Len(calling) + 1)
      /\ later[Len(calling) + 1] = x
      /\ \A f \in DOMAIN calling : later[f] = calling[f]
  OBVIOUS
<1> HIDE DEF later
<1>2. /\ Len(calling) + 1 \in DOMAIN later
      /\ \A f \in DOMAIN later : f \in DOMAIN calling \/ f = Len(calling) + 1
  BY <1>1
<1>3. DOMAIN calling \subseteq DOMAIN later
  BY <1>1
<1>4. Pending(p, later) <=> Pending(p, calling) \/ x.place = p
  BY <1>1, <1>2, <1>3 DEF Pending
<1>5. x.place # p \/ ~ Pending(p, calling) => (Alone(p, calling) => Alone(p, later))
  BY <1>1, <1>2 DEF Pending, Alone
<1>6. \A asked : x.place # p /\ Asking(p, calling, asked) => Asking(p, later, asked)
  BY <1>1, <1>2 DEF Asking
<1>7. \A asked : x.permission = asked /\ ~ Pending(p, calling) => Asking(p, later, asked)
  BY <1>1, <1>2 DEF Asking, Pending
<1>8. QED
  BY <1>1, <1>4, <1>5, <1>6, <1>7 DEF later

\* Joined sequences.
LEMMA Joined ==
  ASSUME NEW S, NEW front \in Seq(S), NEW back \in Seq(S)
  PROVE  /\ front \o back \in Seq(S) /\ Len(front \o back) = Len(front) + Len(back)
         /\ \A i \in 1..(Len(front) + Len(back)) :
              (front \o back)[i] = IF i <= Len(front) THEN front[i] ELSE back[i - Len(front)]
OBVIOUS

Without(q, f) == SubSeq(q, 1, f - 1) \o SubSeq(q, f + 1, Len(q))

\* Taking one element out leaves the others, in places of their own.
LEMMA TakenOut ==
  ASSUME NEW S, NEW q \in Seq(S), NEW f \in DOMAIN q
  PROVE  LET rest == Without(q, f)
         IN  /\ rest \in Seq(S)
             /\ \A i \in DOMAIN rest : \E g \in DOMAIN q \ {f} : rest[i] = q[g]
             /\ \A i, j \in DOMAIN rest :
                  i # j => \E g, h \in DOMAIN q \ {f} : g # h /\ rest[i] = q[g] /\ rest[j] = q[h]
             /\ \A g \in DOMAIN q \ {f} : \E i \in DOMAIN rest : rest[i] = q[g]
<1> DEFINE front == SubSeq(q, 1, f - 1)
           back == SubSeq(q, f + 1, Len(q))
           rest == front \o back
<1>1. Len(q) \in Nat /\ DOMAIN q = 1..Len(q) /\ f \in 1..Len(q)
  OBVIOUS
<1>2. /\ front \in Seq(S) /\ Len(front) = f - 1
      /\ \A i \in 1..(f - 1) : front[i] = q[i]
  BY <1>1
<1>3. /\ back \in Seq(S) /\ Len(back) = Len(q) - f
      /\ \A i \in 1..(Len(q) - f) : back[i] = q[f + i]
  BY <1>1
<1> HIDE DEF front, back
<1>4. /\ rest \in Seq(S) /\ Len(rest) = Len(q) - 1 /\ DOMAIN rest = 1..(Len(q) - 1)
      /\ \A i \in 1..(Len(q) - 1) :
           rest[i] = IF i < f THEN front[i] ELSE back[i - (f - 1)]
  <2>1. front \in Seq(S) /\ back \in Seq(S)
    BY <1>2, <1>3
  <2>2. /\ rest \in Seq(S) /\ Len(rest) = Len(front) + Len(back)
        /\ \A i \in 1..(Len(front) + Len(back)) :
             rest[i] = IF i <= Len(front) THEN front[i] ELSE back[i - Len(front)]
    BY <2>1, Joined
  <2> HIDE DEF rest
  <2>3. Len(front) = f - 1 /\ Len(front) + Len(back) = Len(q) - 1
    BY <1>1, <1>2, <1>3
  <2>4. DOMAIN rest = 1..Len(rest)
    BY <2>2
  <2>5. ASSUME NEW i \in 1..(Len(q) - 1)
        PROVE  rest[i] = IF i < f THEN front[i] ELSE back[i - (f - 1)]
    <3>1. i <= Len(front) <=> i < f
      BY <1>1, <2>3, SMT
    <3>2. rest[i] = IF i <= Len(front) THEN front[i] ELSE back[i - Len(front)]
      BY <2>2, <2>3
    <3>3. QED
      BY <2>3, <3>1, <3>2
  <2>6. QED
    BY <2>2, <2>3, <2>4, <2>5
<1> HIDE DEF rest
<1> DEFINE old(i) == IF i < f THEN i ELSE i + 1
<1>5. ASSUME NEW i \in DOMAIN rest
      PROVE  old(i) \in DOMAIN q \ {f} /\ rest[i] = q[old(i)]
  <2>1. CASE i < f
    BY <1>1, <1>2, <1>4, <1>5, <2>1
  <2>2. CASE ~ i < f
    <3>1. i - (f - 1) \in 1..(Len(q) - f)
      BY <1>1, <1>4, <1>5, <2>2
    <3>2. f + (i - (f - 1)) = i + 1
      BY <1>1, <1>4, <1>5
    <3>3. rest[i] = q[i + 1]
      BY <1>3, <1>4, <1>5, <2>2, <3>1, <3>2
    <3>4. QED
      BY <1>1, <1>4, <1>5, <2>2, <3>3
  <2>3. QED
    BY <2>1, <2>2
<1>6. ASSUME NEW i \in DOMAIN rest, NEW j \in DOMAIN rest, i # j
      PROVE  old(i) # old(j)
  BY <1>1, <1>4, <1>6
<1>7. ASSUME NEW g \in DOMAIN q \ {f}
      PROVE  \E i \in DOMAIN rest : rest[i] = q[g]
  <2> DEFINE i == IF g < f THEN g ELSE g - 1
  <2>1. i \in DOMAIN rest /\ old(i) = g
    BY <1>1, <1>4, <1>7
  <2>2. QED
    BY <1>5, <2>1
<1> HIDE DEF old
<1>8. /\ \A i \in DOMAIN rest : \E g \in DOMAIN q \ {f} : rest[i] = q[g]
      /\ \A i, j \in DOMAIN rest :
           i # j => \E g, h \in DOMAIN q \ {f} : g # h /\ rest[i] = q[g] /\ rest[j] = q[h]
  BY <1>5, <1>6
<1>9. QED
  BY <1>4, <1>7, <1>8 DEF rest, front, back, Without
-----------------------------------------------------------------------------
\* A call is sent by a place that is not busy, if it disables its button, and an
\* evaluator selects the permission it asks for.
LEMMA CallKeeps ==
  ASSUME ConsoleInv, NEW p \in Places, NEW asked \in Permissions \cup {"none"},
         p \in Guarded => ~ busy[p], Fetch(p, asked),
         p \in Evaluators => Select(p, asked),
         p \notin Evaluators => UNCHANGED permission
  PROVE  ConsoleInv'
<1> DEFINE x == [place |-> p, permission |-> asked, answer |-> "none", events |-> 0]
<1>1. x \in Calls /\ x.place = p /\ x.permission = asked
  BY DEF Calls
<1>2. /\ fetches' = Append(fetches, x)
      /\ overlapping' = IF InFlightOf(p) = {} THEN overlapping ELSE overlapping \cup {p}
      /\ busy' = [busy EXCEPT ![p] = p \notin Wallets]
      /\ UNCHANGED <<shown, projected, broken>>
  BY DEF Fetch
<1> HIDE DEF x
<1>3. InFlightOf(p) = {} <=> ~ Pending(p, fetches)
  BY DEF InFlightOf, Pending
<1>4. fetches \in Seq(Calls) /\ busy \in [Places -> BOOLEAN] /\ DOMAIN permission = Evaluators
  BY DEF ConsoleInv, ConsoleTypeOK
<1>5. fetches' \in Seq(Calls)
  BY <1>1, <1>2, <1>4, SentCall
<1>6. ASSUME NEW r \in Places
      PROVE  /\ Pending(r, fetches') <=> Pending(r, fetches) \/ r = p
             /\ r # p \/ ~ Pending(r, fetches) => (Alone(r, fetches) => Alone(r, fetches'))
             /\ \A a : r # p /\ Asking(r, fetches, a) => Asking(r, fetches', a)
             /\ r = p /\ ~ Pending(r, fetches) => Asking(r, fetches', asked)
  <2>1. /\ Pending(r, fetches') <=> Pending(r, fetches) \/ x.place = r
        /\ x.place # r \/ ~ Pending(r, fetches) => (Alone(r, fetches) => Alone(r, fetches'))
        /\ \A a : x.place # r /\ Asking(r, fetches, a) => Asking(r, fetches', a)
        /\ \A a : x.permission = a /\ ~ Pending(r, fetches) => Asking(r, fetches', a)
    BY <1>1, <1>2, <1>4, SentCall, Zenon
  <2>2. QED
    BY <1>1, <2>1
<1>7. ASSUME NEW r \in Places, r # p PROVE busy'[r] = busy[r]
  BY <1>2, <1>4, <1>7
<1>8. p \notin Wallets => busy'[p]
  BY <1>2, <1>4
<1>9. DOMAIN permission' = Evaluators /\ \A r \in Evaluators \ {p} : permission'[r] = permission[r]
  BY <1>4 DEF Select
<1>10. p \in Evaluators => permission'[p] = asked
  BY <1>4 DEF Select
<1>11. busy' \in [Places -> BOOLEAN]
  BY <1>2, <1>4
<1>12. ConsoleTypeOK'
  BY <1>2, <1>5, <1>9, <1>11 DEF ConsoleInv, ConsoleTypeOK
<1>13. GuardedAlone'
  <2>1. ASSUME NEW r \in Guarded
        PROVE  Alone(r, fetches') /\ (busy'[r] <=> Pending(r, fetches'))
    <3>1. r \in Places /\ r \notin Wallets /\ Alone(r, fetches) /\ (busy[r] <=> Pending(r, fetches))
      BY PlacesAre DEF ConsoleInv, GuardedAlone
    <3>2. CASE r = p
      BY <1>6, <1>8, <3>1, <3>2
    <3>3. CASE r # p
      BY <1>6, <1>7, <3>1, <3>3
    <3>4. QED
      BY <3>2, <3>3
  <2>2. QED
    BY <2>1 DEF GuardedAlone
<1>14. EvaluatorsAlone'
  <2>1. ASSUME NEW r \in Evaluators \ overlapping'
        PROVE  /\ Alone(r, fetches') /\ (busy'[r] <=> Pending(r, fetches'))
               /\ Asking(r, fetches', permission'[r])
    <3>1. /\ r \in Places /\ r \notin Wallets /\ r \notin overlapping
      BY <1>2, PlacesAre
    <3>2. /\ Alone(r, fetches) /\ (busy[r] <=> Pending(r, fetches))
          /\ Asking(r, fetches, permission[r])
      BY <3>1 DEF ConsoleInv, EvaluatorsAlone
    <3>3. CASE r = p
      BY <1>2, <1>3, <1>6, <1>8, <1>10, <3>1, <3>2, <3>3
    <3>4. CASE r # p
      BY <1>6, <1>7, <1>9, <3>1, <3>2, <3>4
    <3>5. QED
      BY <3>3, <3>4
  <2>2. QED
    BY <2>1 DEF EvaluatorsAlone
<1>15. VerdictFitsPermission'
  <2>1. ASSUME NEW r \in Evaluators \ (overlapping' \cup broken'),
               shown'[r] # NoAnswer, ~ busy'[r]
        PROVE  shown'[r].permission = permission'[r]
    <3>1. r \in Places /\ r \notin Wallets /\ r \notin overlapping /\ r \notin broken
      BY <1>2, PlacesAre
    <3>2. r # p
      BY <1>8, <2>1, <3>1
    <3>3. QED
      BY <1>2, <1>7, <1>9, <2>1, <3>1, <3>2 DEF ConsoleInv, VerdictFitsPermission
  <2>2. QED
    BY <2>1 DEF VerdictFitsPermission, NoAnswer
<1>16. QED
  BY <1>12, <1>13, <1>14, <1>15 DEF ConsoleInv

\* An answer of the API belongs to the call it answers.
LEMMA ApiKeeps ==
  ASSUME ConsoleInv, NEW f \in DOMAIN fetches, NEW a \in {"ok", "error", "broken"},
         ApiAnswers(f, a)
  PROVE  ConsoleInv'
<1>1. /\ fetches \in Seq(Calls) /\ projected \in Nat /\ busy \in [Places -> BOOLEAN]
      /\ DOMAIN permission = Evaluators /\ DOMAIN shown = Places
  BY DEF ConsoleInv, ConsoleTypeOK
<1>2. fetches[f] \in Calls
  BY <1>1
<1>3. projected' \in Nat
  <2>1. projected' = projected \/ projected' \in projected..MaxProjected
    BY DEF ApiAnswers
  <2>2. QED
    BY <1>1, <2>1, PlatformConsoleAssumption
<1>4. PICK x \in Calls : /\ fetches' = [fetches EXCEPT ![f] = x]
                         /\ x.place = fetches[f].place /\ x.permission = fetches[f].permission
  <2>1. PICK n \in Nat : fetches' = [fetches EXCEPT ![f].answer = a, ![f].events = n]
    BY <1>3 DEF ApiAnswers
  <2>2. [fetches[f] EXCEPT !.answer = a, !.events = n] \in Calls
    BY <1>2 DEF Calls
  <2>3. QED
    BY <1>1, <1>2, <2>1, <2>2 DEF Calls
<1>5. /\ fetches' \in Seq(Calls) /\ DOMAIN fetches' = DOMAIN fetches
      /\ \A g \in DOMAIN fetches : fetches'[g].place = fetches[g].place
                                   /\ fetches'[g].permission = fetches[g].permission
  BY <1>1, <1>2, <1>4
<1>6. \A r : /\ Pending(r, fetches') <=> Pending(r, fetches)
             /\ Alone(r, fetches') <=> Alone(r, fetches)
             /\ \A asked : Asking(r, fetches', asked) <=> Asking(r, fetches, asked)
  BY <1>5 DEF Pending, Alone, Asking
<1>7. UNCHANGED <<busy, permission, shown, overlapping, broken>>
  BY DEF ApiAnswers
<1>8. ConsoleTypeOK'
  BY <1>1, <1>3, <1>5, <1>7 DEF ConsoleTypeOK
<1>9. GuardedAlone' /\ EvaluatorsAlone'
  BY <1>6, <1>7 DEF ConsoleInv, GuardedAlone, EvaluatorsAlone
<1>10. VerdictFitsPermission'
  BY <1>7 DEF ConsoleInv, VerdictFitsPermission
<1>11. QED
  BY <1>8, <1>9, <1>10 DEF ConsoleInv
\* An answer that is shown ends its call, the only one of a place with one call in flight.
LEMMA SettleKeeps ==
  ASSUME ConsoleInv, NEW f \in DOMAIN fetches, Settle(f)
  PROVE  ConsoleInv'
<1> DEFINE p == fetches[f].place
<1>1. /\ fetches \in Seq(Calls) /\ projected \in Nat /\ busy \in [Places -> BOOLEAN]
      /\ DOMAIN permission = Evaluators /\ DOMAIN shown = Places
  BY DEF ConsoleInv, ConsoleTypeOK
<1>2. fetches[f] \in Calls /\ p \in Places
  <2>1. fetches[f] \in Calls
    BY <1>1
  <2>2. QED
    BY <2>1 DEF Calls
<1>3. /\ shown' = [shown EXCEPT ![p] = Shown(fetches[f])]
      /\ busy' = [busy EXCEPT ![p] = FALSE]
      /\ fetches' = SubSeq(fetches, 1, f - 1) \o SubSeq(fetches, f + 1, Len(fetches))
      /\ UNCHANGED <<permission, projected, overlapping>>
  BY DEF Settle
<1>4. broken' = IF p \notin Evaluators THEN broken
                ELSE IF Shows(fetches[f]) THEN broken \ {p} ELSE broken \cup {p}
  BY DEF Settle
<1>5. /\ fetches' \in Seq(Calls)
      /\ \A i \in DOMAIN fetches' : \E g \in DOMAIN fetches \ {f} : fetches'[i] = fetches[g]
      /\ \A i, j \in DOMAIN fetches' :
           i # j => \E g, h \in DOMAIN fetches \ {f} :
                      g # h /\ fetches'[i] = fetches[g] /\ fetches'[j] = fetches[h]
      /\ \A g \in DOMAIN fetches \ {f} : \E i \in DOMAIN fetches' : fetches'[i] = fetches[g]
  <2> DEFINE rest == Without(fetches, f)
  <2>1. /\ rest \in Seq(Calls)
        /\ \A i \in DOMAIN rest : \E g \in DOMAIN fetches \ {f} : rest[i] = fetches[g]
        /\ \A i, j \in DOMAIN rest :
             i # j => \E g, h \in DOMAIN fetches \ {f} :
                        g # h /\ rest[i] = fetches[g] /\ rest[j] = fetches[h]
        /\ \A g \in DOMAIN fetches \ {f} : \E i \in DOMAIN rest : rest[i] = fetches[g]
    BY <1>1, TakenOut
  <2>2. fetches' = rest
    BY <1>3 DEF Without
  <2> HIDE DEF rest
  <2>3. QED
    BY <2>1, <2>2
<1>6. ASSUME NEW r
      PROVE  /\ Alone(r, fetches) => Alone(r, fetches')
             /\ \A a : Asking(r, fetches, a) => Asking(r, fetches', a)
             /\ r # p => (Pending(r, fetches') <=> Pending(r, fetches))
             /\ r = p /\ Alone(r, fetches) => ~ Pending(r, fetches')
  <2>1. Alone(r, fetches) => Alone(r, fetches')
    <3>1. SUFFICES ASSUME Alone(r, fetches), NEW i \in DOMAIN fetches', NEW j \in DOMAIN fetches',
                          fetches'[i].place = r, fetches'[j].place = r, i # j
                   PROVE  FALSE
      BY DEF Alone
    <3>2. PICK g \in DOMAIN fetches \ {f}, h \in DOMAIN fetches \ {f} :
            g # h /\ fetches'[i] = fetches[g] /\ fetches'[j] = fetches[h]
      BY <1>5, <3>1
    <3>3. QED
      BY <3>1, <3>2 DEF Alone
  <2>2. \A a : Asking(r, fetches, a) => Asking(r, fetches', a)
    BY <1>5 DEF Asking
  <2>3. r # p => (Pending(r, fetches') <=> Pending(r, fetches))
    BY <1>5 DEF Pending
  <2>4. r = p /\ Alone(r, fetches) => ~ Pending(r, fetches')
    BY <1>5 DEF Pending, Alone
  <2>5. QED
    BY <2>1, <2>2, <2>3, <2>4
<1>7. /\ \A r \in Places \ {p} : busy'[r] = busy[r] /\ shown'[r] = shown[r]
      /\ ~ busy'[p] /\ shown'[p] = Shown(fetches[f])
      /\ busy' \in [Places -> BOOLEAN] /\ DOMAIN shown' = Places
  BY <1>1, <1>2, <1>3
<1>8. ConsoleTypeOK'
  BY <1>1, <1>3, <1>5, <1>7 DEF ConsoleTypeOK
<1>9. GuardedAlone'
  <2>1. ASSUME NEW r \in Guarded
        PROVE  Alone(r, fetches') /\ (busy'[r] <=> Pending(r, fetches'))
    <3>1. r \in Places /\ Alone(r, fetches) /\ (busy[r] <=> Pending(r, fetches))
      BY PlacesAre DEF ConsoleInv, GuardedAlone
    <3>2. CASE r = p
      BY <1>6, <1>7, <3>1, <3>2
    <3>3. CASE r # p
      BY <1>6, <1>7, <3>1, <3>3
    <3>4. QED
      BY <3>2, <3>3
  <2>2. QED
    BY <2>1 DEF GuardedAlone
<1>10. EvaluatorsAlone'
  <2>1. ASSUME NEW r \in Evaluators \ overlapping
        PROVE  /\ Alone(r, fetches') /\ (busy'[r] <=> Pending(r, fetches'))
               /\ Asking(r, fetches', permission[r])
    <3>1. /\ r \in Places /\ Alone(r, fetches) /\ (busy[r] <=> Pending(r, fetches))
          /\ Asking(r, fetches, permission[r])
      BY PlacesAre DEF ConsoleInv, EvaluatorsAlone
    <3>2. CASE r = p
      BY <1>6, <1>7, <3>1, <3>2
    <3>3. CASE r # p
      BY <1>6, <1>7, <3>1, <3>3
    <3>4. QED
      BY <3>2, <3>3
  <2>2. QED
    BY <1>3, <2>1 DEF EvaluatorsAlone
<1>11. VerdictFitsPermission'
  <2>1. ASSUME NEW r \in Evaluators \ (overlapping \cup broken'),
               shown'[r] # NoAnswer, ~ busy'[r]
        PROVE  shown'[r].permission = permission[r]
    <3>1. CASE r = p
      <4>1. Shows(fetches[f])
        BY <1>4, <2>1, <3>1
      <4>2. shown'[p] = [answered |-> TRUE, permission |-> fetches[f].permission,
                         events |-> fetches[f].events]
        BY <1>7, <4>1 DEF Shown
      <4>3. Asking(r, fetches, permission[r])
        BY <2>1 DEF ConsoleInv, EvaluatorsAlone
      <4>4. QED
        BY <3>1, <4>2, <4>3 DEF Asking
    <3>2. CASE r # p
      <4>1. r \in Places /\ r \notin overlapping /\ r \notin broken
        BY <1>4, <2>1, <3>2, PlacesAre
      <4>2. QED
        BY <1>7, <2>1, <3>2, <4>1 DEF ConsoleInv, VerdictFitsPermission
    <3>3. QED
      BY <3>1, <3>2
  <2>2. QED
    BY <1>3, <2>1 DEF VerdictFitsPermission, NoAnswer
<1>12. QED
  BY <1>8, <1>9, <1>10, <1>11 DEF ConsoleInv

\* No call is in flight at first.
LEMMA ConsoleInvInit == ConsoleInit => ConsoleInv
<1> SUFFICES ASSUME ConsoleInit PROVE ConsoleInv
  OBVIOUS
<1>1. fetches = <<>> /\ DOMAIN fetches = {} /\ overlapping = {} /\ broken = {}
  BY DEF ConsoleInit
<1>2. /\ busy = [p \in Places |-> FALSE] /\ shown = [p \in Places |-> NoAnswer]
      /\ permission = [p \in Evaluators |-> "READ"] /\ projected = 0
  BY DEF ConsoleInit
<1>3. fetches \in Seq(Calls)
  BY <1>1
<1>4. ConsoleTypeOK
  BY <1>2, <1>3 DEF ConsoleTypeOK
<1>5. \A p : Alone(p, fetches) /\ ~ Pending(p, fetches) /\ \A a : Asking(p, fetches, a)
  BY <1>1 DEF Alone, Pending, Asking
<1>6. GuardedAlone
  BY <1>2, <1>5, PlacesAre DEF GuardedAlone
<1>7. EvaluatorsAlone
  BY <1>2, <1>5, PlacesAre DEF EvaluatorsAlone
<1>8. VerdictFitsPermission
  BY <1>2, PlacesAre DEF VerdictFitsPermission
<1>9. QED
  BY <1>4, <1>6, <1>7, <1>8 DEF ConsoleInv

\* Every step of the console keeps its invariant.
LEMMA ConsoleKeeps == ConsoleInv /\ [ConsoleNext]_consoleVars => ConsoleInv'
<1> SUFFICES ASSUME ConsoleInv, [ConsoleNext]_consoleVars PROVE ConsoleInv'
  OBVIOUS
<1>1. ASSUME NEW p \in Forms, Submit(p) PROVE ConsoleInv'
  BY <1>1, CallKeeps, PlacesAre DEF Submit, SubmitEnabled, Guarded, Places
<1>2. CASE HandleRegister \/ HandleMintAsset
  BY <1>1, <1>2 DEF HandleRegister, HandleMintAsset, Forms
<1>3. CASE HandleRegisterIdentity \/ HandleAssignRole \/ HandleMintASAAsset
  BY <1>1, <1>3 DEF HandleRegisterIdentity, HandleAssignRole, HandleMintASAAsset, Forms
<1>4. ASSUME NEW asked \in Permissions, HandleEvaluate(asked) PROVE ConsoleInv'
  <2>1. "AccessControlConsole" \in Evaluators /\ "AccessControlConsole" \in Places
    BY DEF Evaluators, Places
  <2>2. QED
    BY <1>4, <2>1, CallKeeps DEF HandleEvaluate
<1>5. ASSUME NEW asked \in Permissions, HandleEvaluatePermission(asked) PROVE ConsoleInv'
  <2>1. "evaluator" \in Evaluators /\ "evaluator" \in Places /\ "evaluator" \notin Guarded
    BY DEF Evaluators, Places, Guarded, Forms
  <2>2. QED
    BY <1>5, <2>1, CallKeeps DEF HandleEvaluatePermission
<1>6. ASSUME NEW p \in Lists \cup Wallets, Fetch(p, "none"), UNCHANGED permission
      PROVE  ConsoleInv'
  <2>1. p \in Places /\ p \notin Guarded /\ p \notin Evaluators
    BY DEF Lists, Wallets, Places, Guarded, Forms, Evaluators
  <2>2. QED
    BY <1>6, <2>1, CallKeeps
<1>7. CASE RefreshStream \/ OpenExplorer
  BY <1>6, <1>7 DEF RefreshStream, OpenExplorer, Lists
<1>8. CASE HandleGenerateWallet \/ HandleConnectWallet
  BY <1>6, <1>8 DEF HandleGenerateWallet, HandleConnectWallet, Wallets
<1>9. CASE UNCHANGED <<busy, permission, shown, fetches, projected, overlapping, broken>>
  <2>1. /\ ConsoleTypeOK' <=> ConsoleTypeOK
        /\ GuardedAlone' <=> GuardedAlone
        /\ EvaluatorsAlone' <=> EvaluatorsAlone
        /\ VerdictFitsPermission' <=> VerdictFitsPermission
    BY <1>9 DEF ConsoleTypeOK, GuardedAlone, EvaluatorsAlone, VerdictFitsPermission
  <2>2. QED
    BY <2>1 DEF ConsoleInv
<1>10. CASE SetActiveModal
  BY <1>9, <1>10 DEF SetActiveModal
<1>11. ASSUME NEW f \in DOMAIN fetches, NEW a \in {"ok", "error", "broken"},
              Settle(f) \/ ApiAnswers(f, a)
       PROVE  ConsoleInv'
  BY <1>11, SettleKeeps, ApiKeeps
<1>12. CASE UNCHANGED consoleVars
  BY <1>9, <1>12 DEF consoleVars
<1>13. QED
  BY <1>2, <1>3, <1>4, <1>5, <1>7, <1>8, <1>10, <1>11, <1>12 DEF ConsoleNext

\* A place with one call in flight counts one.
LEMMA OneInFlight ==
  ASSUME NEW p, Alone(p, fetches)
  PROVE  Cardinality(InFlightOf(p)) <= 1
<1>1. CASE InFlightOf(p) = {}
  BY <1>1, FS_EmptySet
<1>2. CASE InFlightOf(p) # {}
  <2>1. PICK f : InFlightOf(p) = {f}
    BY <1>2 DEF InFlightOf, Alone
  <2>2. QED
    BY <2>1, FS_Singleton
<1>3. QED
  BY <1>1, <1>2

\* Whatever the number of calls and dialogs, a form has one submission in flight at most,
\* and a verdict shown is for the permission that is selected.
THEOREM AnswersFit == ConsoleSpec => []AnswersFitThePage
<1>1. ConsoleInv => AnswersFitThePage
  <2> SUFFICES ASSUME ConsoleInv PROVE AnswersFitThePage
    OBVIOUS
  <2>1. ASSUME NEW p \in Guarded
        PROVE  Cardinality(InFlightOf(p)) <= 1 /\ (busy[p] <=> InFlightOf(p) # {})
    <3>1. Alone(p, fetches) /\ (busy[p] <=> Pending(p, fetches))
      BY DEF ConsoleInv, GuardedAlone
    <3>2. InFlightOf(p) # {} <=> Pending(p, fetches)
      BY DEF InFlightOf, Pending
    <3>3. QED
      BY <3>1, <3>2, OneInFlight
  <2>2. OneSubmissionAtATime
    BY <2>1 DEF OneSubmissionAtATime, Guarded
  <2>3. QED
    BY <2>2 DEF ConsoleInv, AnswersFitThePage
<1>2. QED
  BY <1>1, ConsoleInvInit, ConsoleKeeps, PTL DEF ConsoleSpec
-----------------------------------------------------------------------------
(***************************************************************************)
(* The dashboard.  A token, wherever the page or a click in flight has it, is    *)
(* for an access that the log has as granted, for the log only grows.  As long    *)
(* as no evaluation overlapped, bank calls in flight carry the token shown and     *)
(* an evaluation in flight has cleared the data.                                    *)
(***************************************************************************)
Entered(token, logs) == \E n \in DOMAIN logs : logs[n].tuple = token.tuple /\ logs[n].granted

ClickFields == {"kind", "form", "target", "token", "number", "answer"}

ClicksOK ==
  /\ \E S : auditLogs \in Seq(S)
  /\ DOMAIN clicks = Clicks
  /\ \A k \in Clicks : clicks[k].kind # "none" => DOMAIN clicks[k] = ClickFields

\* What a click may bring to the page.
Backed(q, logs) ==
  /\ q.kind = "fetch" => Entered(q.token, logs)
  /\ q.kind = "evaluate" /\ q.answer = "ok" => Entered(q.token, logs)

TokensAreEntered ==
  /\ \A token \in {jwtToken, fetchedBankData} \ {NoToken} : Entered(token, auditLogs)
  /\ \A k \in Clicks : Backed(clicks[k], auditLogs)

Evaluates(k) == clicks[k].kind = "evaluate"
Fetches(k) == clicks[k].kind = "fetch"

EvaluationsApart ==
  "evaluation" \notin tangled =>
    /\ \A j, k \in Clicks : Evaluates(j) /\ (Evaluates(k) \/ Fetches(k)) => j = k
    /\ \A k \in Clicks : Fetches(k) => clicks[k].token = jwtToken
    /\ fetchedBankData # NoToken => fetchedBankData = jwtToken
    /\ \A k \in Clicks : Evaluates(k) => fetchedBankData = NoToken

BankCallsApart ==
  tangled = {} =>
    /\ \A j, k \in Clicks : Fetches(j) /\ Fetches(k) => j = k
    /\ \A k \in Clicks : Fetches(k) => apiError # "refused"
    /\ fetchedBankData # NoToken => apiError # "refused"

DashboardInv == ClicksOK /\ TokensAreEntered /\ EvaluationsApart /\ BankCallsApart
-----------------------------------------------------------------------------
\* A record put in front of the log changes none that is there.
LEMMA FrontGrows ==
  ASSUME NEW L, NEW x, \E S : L \in Seq(S)
  PROVE  LET M == <<x>> \o L
         IN  /\ \E S : M \in Seq(S)
             /\ 1 \in DOMAIN M /\ M[1] = x
             /\ \A n \in DOMAIN L : n + 1 \in DOMAIN M /\ M[n + 1] = L[n]
<1> DEFINE M == <<x>> \o L
<1>1. PICK S : L \in Seq(S)
  OBVIOUS
<1> DEFINE T == S \cup {x}
<1>2. L \in Seq(T) /\ DOMAIN L = 1..Len(L) /\ Len(L) \in Nat
  BY <1>1
<1>3. <<x>> \in Seq(T) /\ Len(<<x>>) = 1 /\ <<x>>[1] = x
  OBVIOUS
<1> HIDE DEF T
<1>4. M \in Seq(T) /\ Len(M) = 1 + Len(L) /\ DOMAIN M = 1..Len(M)
  BY <1>2, <1>3
<1>5. M[1] = x /\ 1 \in DOMAIN M
  BY <1>2, <1>3, <1>4
<1>6. ASSUME NEW n \in DOMAIN L PROVE n + 1 \in DOMAIN M /\ M[n + 1] = L[n]
  BY <1>2, <1>3, <1>4
<1>7. QED
  BY <1>4, <1>5, <1>6

\* What the backend logs is entered, and what was entered stays so.
LEMMA LoggedIsEntered ==
  ASSUME ClicksOK, NEW t, NEW granted \in BOOLEAN, Logged(t, granted)
  PROVE  /\ \E S : auditLogs' \in Seq(S)
         /\ \A token : Entered(token, auditLogs) => Entered(token, auditLogs')
         /\ granted => \A token : token.tuple = t => Entered(token, auditLogs')
<1> DEFINE x == [id |-> Len(auditLogs) + 1, tuple |-> t, granted |-> granted,
                 began |-> Len(auditLogs)]
<1>1. auditLogs' = <<x>> \o auditLogs /\ x.tuple = t /\ x.granted = granted
  BY DEF Logged
<1> HIDE DEF x
<1>2. /\ \E S : auditLogs' \in Seq(S)
      /\ 1 \in DOMAIN auditLogs' /\ auditLogs'[1] = x
      /\ \A n \in DOMAIN auditLogs : /\ n + 1 \in DOMAIN auditLogs'
                                     /\ auditLogs'[n + 1] = auditLogs[n]
  BY <1>1, FrontGrows DEF ClicksOK
<1>3. QED
  BY <1>1, <1>2 DEF Entered

\* A click that is begun, answered or ended changes no other.
LEMMA OneClick ==
  ASSUME ClicksOK, NEW k \in Clicks, NEW STATE q, clicks' = [clicks EXCEPT ![k] = q]
  PROVE  DOMAIN clicks' = Clicks /\ clicks'[k] = q
         /\ \A j \in Clicks \ {k} : clicks'[j] = clicks[j]
BY DEF ClicksOK

\* A page on which no click changes keeps what it promises.
LEMMA StillPage ==
  ASSUME DashboardInv, UNCHANGED <<jwtToken, fetchedBankData, apiError, clicks, tangled, auditLogs>>
  PROVE  DashboardInv'
BY DEF DashboardInv, ClicksOK, TokensAreEntered, EvaluationsApart, BankCallsApart, Evaluates,
       Fetches

\* The kinds in flight, as a handler sees them.
LEMMA Tangling ==
  ASSUME NEW kinds, NEW mark
  PROVE  /\ tangled \subseteq TangledBy(kinds, mark)
         /\ mark \notin TangledBy(kinds, mark) =>
              TangledBy(kinds, mark) = tangled /\ \A k \in Clicks : clicks[k].kind \notin kinds
<1>1. InFlightKinds \cap kinds # {} \/ \A k \in Clicks : clicks[k].kind \notin kinds
  BY DEF InFlightKinds
<1>2. QED
  BY <1>1 DEF TangledBy

\* The record a handler sends.
LEMMA SentClick ==
  ASSUME ClicksOK, NEW k \in Clicks, NEW STATE kind, NEW STATE target, NEW STATE token,
         Send(k, kind, target, token), kind # "none"
  PROVE  /\ clicks[k] = NoClick /\ UNCHANGED <<jwtToken, auditLogs>>
         /\ clicks'[k].kind = kind /\ clicks'[k].token = token /\ clicks'[k].answer = "none"
         /\ \A j \in Clicks \ {k} : clicks'[j] = clicks[j]
         /\ ClicksOK'
<1> DEFINE q == [kind |-> kind, form |-> form, target |-> target, token |-> token,
                 number |-> clicked + 1, answer |-> "none"]
<1>1. clicks' = [clicks EXCEPT ![k] = q] /\ clicks[k] = NoClick /\ UNCHANGED <<jwtToken, auditLogs>>
  BY DEF Send, databaseVars
<1>2. q.kind = kind /\ q.token = token /\ q.answer = "none" /\ DOMAIN q = ClickFields
  BY DEF ClickFields
<1> HIDE DEF q
<1>3. DOMAIN clicks' = Clicks /\ clicks'[k] = q /\ \A j \in Clicks \ {k} : clicks'[j] = clicks[j]
  BY <1>1, OneClick
<1>4. QED
  BY <1>1, <1>2, <1>3 DEF ClicksOK

\* A click of another kind brings the page nothing.
LEMMA QuietKeeps ==
  ASSUME DashboardInv, NEW k \in Clicks, NEW STATE kind, NEW STATE target,
         Quiet(k, kind, target), kind \in {"verify", "grant", "revoke", "approve"}
  PROVE  DashboardInv'
<1>1. /\ ClicksOK' /\ UNCHANGED <<jwtToken, auditLogs, fetchedBankData, apiError, tangled>>
      /\ clicks'[k].kind = kind
      /\ \A j \in Clicks \ {k} : clicks'[j] = clicks[j]
  <2>1. Send(k, kind, target, NoToken) /\ kind # "none"
    BY DEF Quiet
  <2>2. QED
    BY <2>1, SentClick DEF Quiet, DashboardInv
<1>2. \A j \in Clicks : /\ Evaluates(j)' => Evaluates(j) /\ clicks'[j] = clicks[j]
                        /\ Fetches(j)' => Fetches(j) /\ clicks'[j] = clicks[j]
  BY <1>1 DEF Evaluates, Fetches
<1>3. TokensAreEntered'
  BY <1>1 DEF TokensAreEntered, Backed, DashboardInv
<1>4. EvaluationsApart' /\ BankCallsApart'
  BY <1>1, <1>2 DEF EvaluationsApart, BankCallsApart, DashboardInv
<1>5. QED
  BY <1>1, <1>3, <1>4 DEF DashboardInv

\* An evaluation clears the data that is shown.
LEMMA EvaluateKeeps ==
  ASSUME DashboardInv, NEW k \in Clicks, HandleEvaluateAccess(k)
  PROVE  DashboardInv'
<1>1. /\ ClicksOK' /\ UNCHANGED <<jwtToken, auditLogs>>
      /\ clicks'[k].kind = "evaluate" /\ clicks'[k].answer = "none" /\ clicks[k] = NoClick
      /\ \A j \in Clicks \ {k} : clicks'[j] = clicks[j]
      /\ apiError' = "none" /\ fetchedBankData' = NoToken
      /\ tangled' = TangledBy({"evaluate", "fetch"}, "evaluation")
  <2>1. Send(k, "evaluate", form.user, NoToken)
    BY DEF HandleEvaluateAccess
  <2>2. QED
    BY <2>1, SentClick DEF HandleEvaluateAccess, DashboardInv
<1>2. /\ tangled \subseteq tangled'
      /\ "evaluation" \notin tangled' =>
           tangled' = tangled /\ \A j \in Clicks : ~ Evaluates(j) /\ ~ Fetches(j)
  BY <1>1, Tangling DEF Evaluates, Fetches
<1>3. TokensAreEntered'
  BY <1>1 DEF TokensAreEntered, Backed, DashboardInv
<1>4. \A j \in Clicks : /\ Fetches(j)' => j # k /\ Fetches(j) /\ clicks'[j] = clicks[j]
                        /\ j # k => (Evaluates(j)' <=> Evaluates(j))
  BY <1>1 DEF Fetches, Evaluates
<1>5. EvaluationsApart'
  BY <1>1, <1>2, <1>4 DEF EvaluationsApart, DashboardInv
<1>6. BankCallsApart'
  BY <1>1, <1>2, <1>4 DEF BankCallsApart, DashboardInv
<1>7. QED
  BY <1>1, <1>3, <1>5, <1>6 DEF DashboardInv

\* A bank call carries the token that is shown.
LEMMA FetchKeeps ==
  ASSUME DashboardInv, NEW k \in Clicks, HandleFetchBankData(k)
  PROVE  DashboardInv'
<1>1. /\ ClicksOK' /\ UNCHANGED <<jwtToken, auditLogs, fetchedBankData>>
      /\ clicks'[k].kind = "fetch" /\ clicks'[k].token = jwtToken /\ clicks[k] = NoClick
      /\ \A j \in Clicks \ {k} : clicks'[j] = clicks[j]
      /\ apiError' = "none" /\ jwtToken # NoToken
      /\ tangled' = TangledBy({"evaluate"}, "evaluation") \cup TangledBy({"fetch"}, "bankCalls")
  <2>1. Send(k, "fetch", form.user, jwtToken)
    BY DEF HandleFetchBankData
  <2>2. QED
    BY <2>1, SentClick DEF HandleFetchBankData, DashboardInv
<1>2. /\ tangled \subseteq tangled'
      /\ "evaluation" \notin tangled' => \A j \in Clicks : ~ Evaluates(j)
      /\ tangled' = {} => \A j \in Clicks : ~ Fetches(j)
  <2>1. "evaluation" \notin tangled' => \A j \in Clicks : ~ Evaluates(j)
    BY <1>1, Tangling DEF Evaluates
  <2>2. tangled' = {} => \A j \in Clicks : ~ Fetches(j)
    <3>1. tangled' = {} => "bankCalls" \notin TangledBy({"fetch"}, "bankCalls")
      BY <1>1
    <3>2. QED
      BY <3>1, Tangling DEF Fetches
  <2>3. tangled \subseteq tangled'
    BY <1>1, Tangling
  <2>4. QED
    BY <2>1, <2>2, <2>3
<1>3. TokensAreEntered'
  BY <1>1 DEF TokensAreEntered, Backed, DashboardInv
<1>4. \A j \in Clicks : /\ Evaluates(j)' => j # k /\ Evaluates(j)
                        /\ j # k => (Fetches(j)' <=> Fetches(j)) /\ clicks'[j] = clicks[j]
  BY <1>1 DEF Fetches, Evaluates
<1>5. EvaluationsApart'
  BY <1>1, <1>2, <1>4 DEF EvaluationsApart, DashboardInv
<1>6. BankCallsApart'
  BY <1>1, <1>2, <1>4 DEF BankCallsApart, DashboardInv
<1>7. QED
  BY <1>1, <1>3, <1>5, <1>6 DEF DashboardInv

\* The backend answers a click, and logs what it decides.
LEMMA BackendEffect ==
  ASSUME DashboardInv, NEW k \in Clicks, Backend(k)
  PROVE  /\ UNCHANGED <<jwtToken, fetchedBankData, apiError, tangled>>
         /\ \E S : auditLogs' \in Seq(S)
         /\ \A token : Entered(token, auditLogs) => Entered(token, auditLogs')
         /\ DOMAIN clicks' = Clicks /\ \A j \in Clicks \ {k} : clicks'[j] = clicks[j]
         /\ clicks'[k].kind = clicks[k].kind /\ DOMAIN clicks'[k] = ClickFields
         /\ Fetches(k) => clicks'[k].token = clicks[k].token
         /\ Evaluates(k) /\ clicks'[k].answer = "ok" => Entered(clicks'[k].token, auditLogs')
<1> DEFINE q == clicks[k]
<1>1. UNCHANGED <<jwtToken, fetchedBankData, apiError, tangled>> /\ ClicksOK
  BY DEF Backend, pageVars, DashboardInv
<1>2. q.kind \in {"verify", "grant", "revoke", "approve", "evaluate", "fetch"}
  BY DEF Backend
<1>3. DOMAIN clicks = Clicks /\ DOMAIN q = ClickFields
  BY <1>1, <1>2 DEF ClicksOK
<1>4. ASSUME NEW STATE a, Answer(k, a)
      PROVE  /\ DOMAIN clicks' = Clicks /\ \A j \in Clicks \ {k} : clicks'[j] = clicks[j]
             /\ clicks'[k].kind = q.kind /\ DOMAIN clicks'[k] = ClickFields
             /\ clicks'[k].token = q.token
  <2>1. clicks' = [clicks EXCEPT ![k] = [q EXCEPT !.answer = a]]
    BY <1>3, <1>4 DEF Answer
  <2>2. clicks'[k] = [q EXCEPT !.answer = a]
    BY <1>3, <2>1
  <2>3. /\ [q EXCEPT !.answer = a].kind = q.kind /\ [q EXCEPT !.answer = a].token = q.token
        /\ DOMAIN [q EXCEPT !.answer = a] = ClickFields
    BY <1>3 DEF ClickFields
  <2>4. DOMAIN clicks' = Clicks /\ \A j \in Clicks \ {k} : clicks'[j] = clicks[j]
    BY <1>3, <2>1
  <2>5. QED
    BY <2>2, <2>3, <2>4
<1>5. CASE q.kind \in {"verify", "grant", "revoke", "approve"}
  <2>1. auditLogs' = auditLogs
    BY <1>5 DEF Backend, VerifyIdentity, RevokeConsent, ApproveOrganization, databaseVars
  <2>2. \E a \in {"ok", "refused"} : Answer(k, a)
    BY <1>5 DEF Backend, Outcome
  <2>3. QED
    BY <1>1, <1>4, <1>5, <2>1, <2>2 DEF Fetches, Evaluates, ClicksOK
<1>6. CASE q.kind = "fetch"
  <2>1. Answer(k, Outcome(BankServes(q.token))) /\ LogRefusal(q.token)
    BY <1>6 DEF Backend
  <2>2. Logged(q.token.tuple, FALSE) \/ auditLogs' = auditLogs
    BY <2>1 DEF LogRefusal
  <2>3. /\ \E S : auditLogs' \in Seq(S)
        /\ \A token : Entered(token, auditLogs) => Entered(token, auditLogs')
    BY <1>1, <2>2, LoggedIsEntered DEF ClicksOK
  <2>4. QED
    BY <1>1, <1>4, <1>6, <2>1, <2>3 DEF Evaluates
<1>7. CASE q.kind = "evaluate"
  <2> DEFINE a == Outcome(AccessAllowed(q.form))
             t == [tuple |-> q.form, exp |-> second + TokenTtl, number |-> q.number]
  <2>1. /\ clicks' = [clicks EXCEPT ![k].answer = a, ![k].token = t]
        /\ Logged(q.form, AccessAllowed(q.form))
    BY <1>7 DEF Backend
  <2>2. t.tuple = q.form /\ (a = "ok" => AccessAllowed(q.form)) /\ AccessAllowed(q.form) \in BOOLEAN
    BY DEF Outcome, AccessAllowed
  <2> HIDE DEF a, t
  <2>3. clicks' = [clicks EXCEPT ![k] = [q EXCEPT !.answer = a, !.token = t]]
    BY <1>3, <2>1
  <2>4. clicks'[k] = [q EXCEPT !.answer = a, !.token = t]
    BY <1>3, <2>3
  <2>5. /\ clicks'[k].kind = q.kind /\ DOMAIN clicks'[k] = ClickFields
        /\ clicks'[k].answer = a /\ clicks'[k].token = t
    BY <1>3, <2>4 DEF ClickFields
  <2>6. DOMAIN clicks' = Clicks /\ \A j \in Clicks \ {k} : clicks'[j] = clicks[j]
    BY <1>3, <2>3
  <2>7. /\ \E S : auditLogs' \in Seq(S)
        /\ \A token : Entered(token, auditLogs) => Entered(token, auditLogs')
        /\ AccessAllowed(q.form) => Entered(t, auditLogs')
    BY <1>1, <2>1, <2>2, LoggedIsEntered
  <2>8. QED
    BY <1>1, <1>7, <2>2, <2>5, <2>6, <2>7 DEF Fetches
<1>8. QED
  BY <1>2, <1>5, <1>6, <1>7

\* What the backend does keeps the page's invariant, a click in flight or none.
LEMMA BackendKeeps ==
  ASSUME DashboardInv, NEW k \in Clicks, Backend(k)
  PROVE  DashboardInv'
<1>1. /\ UNCHANGED <<jwtToken, fetchedBankData, apiError, tangled>>
      /\ \E S : auditLogs' \in Seq(S)
      /\ \A token : Entered(token, auditLogs) => Entered(token, auditLogs')
      /\ DOMAIN clicks' = Clicks /\ \A j \in Clicks \ {k} : clicks'[j] = clicks[j]
      /\ clicks'[k].kind = clicks[k].kind /\ DOMAIN clicks'[k] = ClickFields
      /\ Fetches(k) => clicks'[k].token = clicks[k].token
      /\ Evaluates(k) /\ clicks'[k].answer = "ok" => Entered(clicks'[k].token, auditLogs')
  BY BackendEffect
<1>2. ClicksOK'
  BY <1>1 DEF ClicksOK, DashboardInv
<1>3. TokensAreEntered'
  <2>1. \A j \in Clicks : Backed(clicks[j], auditLogs)
    BY DEF DashboardInv, TokensAreEntered
  <2>2. Backed(clicks'[k], auditLogs')
    BY <1>1, <2>1 DEF Backed, Fetches, Evaluates
  <2>3. \A j \in Clicks : Backed(clicks'[j], auditLogs')
    BY <1>1, <2>1, <2>2 DEF Backed
  <2>4. QED
    BY <1>1, <2>3 DEF TokensAreEntered, DashboardInv
<1>4. \A j \in Clicks : /\ Evaluates(j)' <=> Evaluates(j)
                        /\ Fetches(j)' <=> Fetches(j)
                        /\ Fetches(j) => clicks'[j].token = clicks[j].token
  BY <1>1 DEF Fetches, Evaluates
<1>5. EvaluationsApart' /\ BankCallsApart'
  BY <1>1, <1>4 DEF EvaluationsApart, BankCallsApart, DashboardInv
<1>6. QED
  BY <1>2, <1>3, <1>5 DEF DashboardInv

\* A click ends: nothing of it is left but what it did to the page.
LEMMA EndedClick ==
  ASSUME DashboardInv, NEW k \in Clicks, clicks' = [clicks EXCEPT ![k] = NoClick],
         UNCHANGED <<auditLogs, tangled>>
  PROVE  /\ ClicksOK'
         /\ \A j \in Clicks : Backed(clicks'[j], auditLogs')
         /\ \A j \in Clicks : /\ Evaluates(j)' => Evaluates(j) /\ j # k
                              /\ Fetches(j)' => Fetches(j) /\ j # k
                              /\ j # k => clicks'[j] = clicks[j]
<1>1. NoClick.kind = "none"
  BY DEF NoClick
<1>2. DOMAIN clicks' = Clicks /\ clicks'[k] = NoClick /\ \A j \in Clicks \ {k} : clicks'[j] = clicks[j]
  BY OneClick DEF DashboardInv
<1>3. \A j \in Clicks : Backed(clicks'[j], auditLogs')
  BY <1>1, <1>2 DEF Backed, DashboardInv, TokensAreEntered
<1>4. QED
  BY <1>1, <1>2, <1>3 DEF ClicksOK, DashboardInv, Evaluates, Fetches

\* An answer brings what its click may bring.
LEMMA AnsweredKeeps ==
  ASSUME DashboardInv, NEW k \in Clicks, NEW r \in Refreshes, ClickAnswered(k, r)
  PROVE  DashboardInv'
<1> DEFINE q == clicks[k]
<1>1. /\ clicks' = [clicks EXCEPT ![k] = NoClick] /\ UNCHANGED <<auditLogs, tangled>>
      /\ \/ q.kind = "evaluate" /\ EvaluationAnswered(q)
         \/ q.kind = "fetch" /\ BankCallAnswered(q)
         \/ UNCHANGED <<jwtToken, fetchedBankData, apiError>>
  BY DEF ClickAnswered, databaseVars
<1>2. /\ ClicksOK'
      /\ \A j \in Clicks : Backed(clicks'[j], auditLogs')
      /\ \A j \in Clicks : /\ Evaluates(j)' => Evaluates(j) /\ j # k
                           /\ Fetches(j)' => Fetches(j) /\ j # k
                           /\ j # k => clicks'[j] = clicks[j]
  BY <1>1, EndedClick
<1>3. CASE UNCHANGED <<jwtToken, fetchedBankData, apiError>>
  BY <1>1, <1>2, <1>3
  DEF DashboardInv, TokensAreEntered, EvaluationsApart, BankCallsApart
<1>4. CASE q.kind = "evaluate" /\ EvaluationAnswered(q)
  <2>1. /\ jwtToken' = IF q.answer = "ok" THEN q.token ELSE NoToken
        /\ fetchedBankData' = fetchedBankData /\ Evaluates(k)
    BY <1>4 DEF EvaluationAnswered, Evaluates
  <2>2. TokensAreEntered'
    BY <1>1, <1>2, <1>4, <2>1 DEF DashboardInv, TokensAreEntered, Backed
  <2>3. "evaluation" \notin tangled =>
          /\ fetchedBankData = NoToken
          /\ \A j \in Clicks : Evaluates(j) \/ Fetches(j) => j = k
    BY <2>1 DEF DashboardInv, EvaluationsApart
  <2>4. EvaluationsApart' /\ BankCallsApart'
    BY <1>1, <1>2, <2>1, <2>3 DEF EvaluationsApart, BankCallsApart
  <2>5. QED
    BY <1>2, <2>2, <2>4 DEF DashboardInv
<1>5. CASE q.kind = "fetch" /\ BankCallAnswered(q)
  <2>1. /\ fetchedBankData' = IF q.answer = "ok" THEN q.token ELSE NoToken
        /\ apiError' = IF q.answer = "ok" THEN apiError ELSE "refused"
        /\ jwtToken' = jwtToken /\ Fetches(k)
    BY <1>5 DEF BankCallAnswered, Fetches
  <2>2. TokensAreEntered'
    BY <1>1, <1>2, <1>5, <2>1 DEF DashboardInv, TokensAreEntered, Backed
  <2>3. "evaluation" \notin tangled =>
          q.token = jwtToken /\ \A j \in Clicks : ~ Evaluates(j)
    BY <2>1 DEF DashboardInv, EvaluationsApart, Evaluates, Fetches
  <2>4. EvaluationsApart'
    BY <1>1, <1>2, <2>1, <2>3 DEF EvaluationsApart, DashboardInv
  <2>5. BankCallsApart'
    BY <1>1, <1>2, <2>1 DEF BankCallsApart, DashboardInv
  <2>6. QED
    BY <1>2, <2>2, <2>4, <2>5 DEF DashboardInv
<1>6. QED
  BY <1>1, <1>3, <1>4, <1>5

\* A click that fails brings nothing but an error.
LEMMA FailedKeeps ==
  ASSUME DashboardInv, NEW k \in Clicks, ClickFails(k)
  PROVE  DashboardInv'
<1>1. /\ clicks' = [clicks EXCEPT ![k] = NoClick] /\ UNCHANGED <<auditLogs, tangled>>
      /\ UNCHANGED <<jwtToken, fetchedBankData>>
      /\ apiError' \in {"failed", apiError}
  BY DEF ClickFails, databaseVars
<1>2. /\ ClicksOK'
      /\ \A j \in Clicks : Backed(clicks'[j], auditLogs')
      /\ \A j \in Clicks : /\ Evaluates(j)' => Evaluates(j) /\ j # k
                           /\ Fetches(j)' => Fetches(j) /\ j # k
                           /\ j # k => clicks'[j] = clicks[j]
  BY <1>1, EndedClick
<1>3. QED
  BY <1>1, <1>2 DEF DashboardInv, TokensAreEntered, EvaluationsApart, BankCallsApart

\* Every step of the page, its backend and its clock.
LEMMA DashboardKeeps ==
  DashboardInv /\ [DashboardStep(DashboardNext)]_<<apiVars, dashboardVars>> => DashboardInv'
<1>1. SUFFICES ASSUME DashboardInv, [DashboardStep(DashboardNext)]_<<apiVars, dashboardVars>>
               PROVE  DashboardInv'
  OBVIOUS
<1>2. CASE UNCHANGED <<apiVars, dashboardVars>>
  BY <1>1, <1>2, StillPage DEF apiVars, dashboardVars, pageVars
<1>3. CASE \E r \in Refreshes : AnswerGet(r) \/ ShowView(r) \/ Poll(r) \/ GetFails(r)
  BY <1>1, <1>3, StillPage DEF AnswerGet, ShowView, Poll, GetFails, pageVars, databaseVars
<1>4. CASE \E t \in Tuples, r \in Refreshes : ChangeForm(t, r)
  BY <1>1, <1>4, StillPage DEF ChangeForm, databaseVars
<1>5. CASE BackendClock
  BY <1>1, <1>5, StillPage DEF BackendClock, Tick, pageVars
<1>6. ASSUME NEW k \in Clicks,
             \/ HandleVerifyIdentity(k) \/ HandleGrantConsent(k) \/ HandleRevokeConsent(k)
             \/ HandleApproveOrg(k)
      PROVE  DashboardInv'
  <2>1. CASE HandleVerifyIdentity(k)
    BY <1>1, <2>1, QuietKeeps DEF HandleVerifyIdentity
  <2>2. ASSUME NEW d \in Durations, Quiet(k, "grant", d)
        PROVE  DashboardInv'
    BY <1>1, <2>2, QuietKeeps
  <2>3. ASSUME NEW i, Quiet(k, "revoke", i) PROVE DashboardInv'
    BY <1>1, <2>3, QuietKeeps
  <2>4. ASSUME NEW o, Quiet(k, "approve", o) PROVE DashboardInv'
    BY <1>1, <2>4, QuietKeeps
  <2>5. QED
    BY <1>6, <2>1, <2>2, <2>3, <2>4 DEF HandleGrantConsent, HandleRevokeConsent, HandleApproveOrg
<1>7. CASE \E k \in Clicks : \/ HandleEvaluateAccess(k) \/ HandleFetchBankData(k)
                             \/ Backend(k) \/ ClickFails(k)
                             \/ \E r \in Refreshes : ClickAnswered(k, r)
  BY <1>1, <1>7, EvaluateKeeps, FetchKeeps, BackendKeeps, AnsweredKeeps, FailedKeeps
<1>8. QED
  BY <1>1, <1>2, <1>3, <1>4, <1>5, <1>6, <1>7
  DEF DashboardStep, DashboardNext, UserStep, PageStep, Failure

\* The page opens with no click in flight, and with no token or one that was granted.
LEMMA UsedBackendInv == UsedBackend => DashboardInv
<1>1. SUFFICES ASSUME UsedBackend PROVE DashboardInv
  OBVIOUS
<1>2. /\ NoClick.kind = "none" /\ DOMAIN clicks = Clicks
      /\ \A k \in Clicks : clicks[k] = NoClick
  BY <1>1 DEF UsedBackend, NoClick
<1>3. fetchedBankData = NoToken /\ tangled = {} /\ apiError = "none"
  BY <1>1 DEF UsedBackend
<1>4. /\ \E S : auditLogs \in Seq(S)
      /\ jwtToken # NoToken => Entered(jwtToken, auditLogs)
  <2>1. CASE auditLogs = <<>> /\ jwtToken = NoToken
    BY <2>1
  <2> DEFINE x == [id |-> 1, tuple |-> First, granted |-> TRUE, began |-> 0]
             t == [tuple |-> First, exp |-> TokenTtl, number |-> 0]
  <2>2. CASE auditLogs = <<x>> /\ jwtToken = t
    <3>1. x.tuple = First /\ x.granted /\ t.tuple = First
      OBVIOUS
    <3> HIDE DEF x, t
    <3>2. <<x>> \in Seq({x}) /\ 1 \in DOMAIN <<x>> /\ <<x>>[1] = x
      OBVIOUS
    <3>3. QED
      BY <2>2, <3>1, <3>2 DEF Entered
  <2>3. QED
    BY <1>1, <2>1, <2>2 DEF UsedBackend
<1>5. QED
  BY <1>2, <1>3, <1>4
  DEF DashboardInv, ClicksOK, TokensAreEntered, Backed, EvaluationsApart, BankCallsApart,
      Evaluates, Fetches

\* A token held and data shown were granted, and data stands for the token shown, for
\* any number of clicks, polls, failures and other clients' effects on the clock
\* (handleEvaluateAccess, handleFetchBankData).
THEOREM PageShowsWhatIsGranted == DashboardSpec => []DataStandsForTheToken
<1>1. DashboardInv => DataStandsForTheToken
  BY DEF DashboardInv, TokensAreEntered, EvaluationsApart, BankCallsApart, Entered, GrantedFor,
         DataStandsForTheToken
<1>2. QED
  BY <1>1, UsedBackendInv, DashboardKeeps, PTL DEF DashboardSpec
=============================================================================
