------------------------------- MODULE TextEntry -------------------------------
(***************************************************************************)
(* A text input inside a dialog, and an input method editor (IME): the keys     *)
(* Enter and Escape that confirm or cancel a composition must not submit the     *)
(* form or close the dialog.  Some browsers report the key first and the end of   *)
(* the composition afterwards, Safari the other way round, so useComposition.ts, *)
(* input.tsx and dialog.tsx remember the composition for a while, by timers.     *)
(* A key is Enter or Escape; one tick of the clock is 50 ms.                     *)
(***************************************************************************)
EXTENDS Naturals, FiniteSets

CONSTANTS
  ResetTicks,       \* the delay of setComposing(false) in input.tsx: 100 ms
  JustEndedTicks,   \* how long justEndedRef holds, in dialog.tsx: 150 ms
  KeyLag,           \* external: a confirming key follows the end within so many ticks
  MaxCompositions   \* bound: compositions started

ASSUME TextEntryAssumption ==
  /\ ResetTicks \in Nat /\ JustEndedTicks \in Nat /\ KeyLag \in Nat /\ MaxCompositions \in Nat
  /\ KeyLag < ResetTicks /\ KeyLag < JustEndedTicks

VARIABLES
  composing,     \* external: the editor is composing
  started,       \* bound: compositions started
  awaited,       \* external: the confirming key still to come, and for how long
  c,             \* useComposition: c.current
  timer,         \* "none", "first" or "second": which of its two timeouts is set
  composingRef,  \* dialog: composingRef.current
  resets,        \* timeouts that set it to FALSE: ticks left, and whether a
                 \* composition has started since (old)
  justEnded,     \* dialog: justEndedRef.current and the ticks left of its timer
  open,          \* the dialog is open
  lastKey,       \* history: the last key, whether it confirmed, its effect, staleReset then
  staleReset     \* history: an old reset ran since the last start

entryVars == <<composing, started, awaited, c, timer, composingRef, resets, justEnded,
               open, lastKey, staleReset>>

Keys == {"Enter", "Escape"}
NoKey == [key |-> "none", left |-> 0]

TextEntryInit ==
  /\ composing = FALSE /\ started = 0
  /\ awaited = NoKey
  /\ c = FALSE /\ timer = "none"
  /\ composingRef = FALSE /\ resets = {}
  /\ justEnded = [on |-> FALSE, left |-> 0]
  /\ open = TRUE
  /\ lastKey = [key |-> "none", confirms |-> FALSE, effect |-> FALSE, stale |-> FALSE]
  /\ staleReset = FALSE
-----------------------------------------------------------------------------
\* onCompositionStart: both timeouts of useComposition are cancelled, the ones
\* that reset the dialog's flag are not.
CompositionStart ==
  /\ open /\ ~ composing /\ awaited = NoKey
  /\ started < MaxCompositions /\ started' = started + 1
  /\ composing' = TRUE
  /\ c' = TRUE /\ timer' = "none"
  /\ composingRef' = TRUE
  /\ resets' = {[left |-> r.left, old |-> TRUE] : r \in resets}
  /\ staleReset' = FALSE
  /\ UNCHANGED <<awaited, justEnded, open, lastKey>>

\* onCompositionEnd, by a key that is reported afterwards (k) or not at all.
CompositionEnd(k) ==
  /\ composing
  /\ composing' = FALSE
  /\ awaited' = k
  /\ timer' = "first"
  /\ resets' = resets \cup {[left |-> ResetTicks, old |-> FALSE]}
  /\ justEnded' = [on |-> TRUE, left |-> JustEndedTicks]
  /\ UNCHANGED <<started, c, composingRef, open, lastKey, staleReset>>

\* The two nested timeouts of useComposition, of no delay.
FirstTimeout == /\ timer = "first" /\ timer' = "second"
                /\ UNCHANGED <<composing, started, awaited, c, composingRef, resets, justEnded,
                               open, lastKey, staleReset>>

\* Faulty variant: the flag is not cleared.
ForgetfulTimeout == /\ timer = "second" /\ timer' = "none"
                    /\ UNCHANGED <<composing, started, awaited, c, composingRef, resets,
                                   justEnded, open, lastKey, staleReset>>
SecondTimeout == /\ timer = "second" /\ timer' = "none"
                 /\ c' = FALSE
                 /\ UNCHANGED <<composing, started, awaited, composingRef, resets, justEnded,
                                open, lastKey, staleReset>>

ResetComposing(r) ==
  /\ r \in resets /\ r.left = 0
  /\ resets' = resets \ {r}
  /\ composingRef' = FALSE
  /\ staleReset' = (staleReset \/ r.old)
  /\ UNCHANGED <<composing, started, awaited, c, timer, justEnded, open, lastKey>>

EndTimeout == /\ justEnded.on /\ justEnded.left = 0
              /\ justEnded' = [justEnded EXCEPT !.on = FALSE]
              /\ UNCHANGED <<composing, started, awaited, c, timer, composingRef, resets,
                             open, lastKey, staleReset>>

Less(n) == IF n = 0 THEN 0 ELSE n - 1

\* 50 ms pass.  The confirming key does not take longer than KeyLag.
EntryTick ==
  /\ awaited # NoKey => awaited.left > 0
  /\ resets # {} \/ justEnded.on \/ awaited # NoKey
  /\ resets' = {[r EXCEPT !.left = Less(@)] : r \in resets}
  /\ justEnded' = [justEnded EXCEPT !.left = Less(@)]
  /\ awaited' = [awaited EXCEPT !.left = Less(@)]
  /\ UNCHANGED <<composing, started, c, timer, composingRef, open, lastKey, staleReset>>
-----------------------------------------------------------------------------
\* onKeyDown of useComposition and of input.tsx: does Enter reach the user's handler?
\* Faulty variant: whether a composition just ended is not asked.
EnterAfterEnd(native) == ~ c /\ ~ native

EnterReaches(native) == ~ c /\ ~ native /\ ~ justEnded.on

\* handleEscapeKeyDown of dialog.tsx: does Escape close the dialog?
EscapeCloses(native) == ~ native /\ ~ composingRef

\* native is the event's own isComposing.
KeyDown(k, native, confirms) ==
  LET effect == IF k = "Enter" THEN EnterReaches(native) ELSE EscapeCloses(native)
  IN  /\ open
      /\ lastKey' = [key |-> k, confirms |-> confirms, effect |-> effect,
                     stale |-> staleReset]
      /\ IF k = "Escape" /\ effect
         THEN open' = FALSE /\ c' = FALSE /\ timer' = "none"
         ELSE UNCHANGED <<open, c, timer>>
      /\ UNCHANGED <<composing, started, composingRef, resets, justEnded, staleReset>>

\* The key that confirms or cancels a composition, reported before its end or after,
\* and a key that has nothing to do with one.
KeyBeforeEnd(k) == composing /\ KeyDown(k, TRUE, TRUE) /\ UNCHANGED awaited
KeyAfterEnd == awaited # NoKey /\ KeyDown(awaited.key, FALSE, TRUE) /\ awaited' = NoKey
OtherKey(k) == ~ composing /\ awaited = NoKey /\ KeyDown(k, FALSE, FALSE) /\ UNCHANGED awaited

\* The dialog is opened again: a new input, the same flags of the dialog.
Reopen == /\ ~ open /\ open' = TRUE
          /\ UNCHANGED <<composing, started, awaited, c, timer, composingRef, resets, justEnded,
                         lastKey, staleReset>>

TimerStep == \/ FirstTimeout \/ SecondTimeout \/ EndTimeout \/ EntryTick
             \/ \E r \in resets : ResetComposing(r)

EndStep == CompositionEnd(NoKey) \/ KeyAfterEnd

TextEntryNext ==
  \/ TimerStep \/ EndStep \/ CompositionStart \/ Reopen
  \/ \E k \in Keys : \/ CompositionEnd([key |-> k, left |-> KeyLag])
                     \/ KeyBeforeEnd(k) \/ OtherKey(k)
-----------------------------------------------------------------------------
(***************************************************************************)
(* Properties.                                                             *)
(***************************************************************************)
TextEntryTypeOK ==
  /\ composing \in BOOLEAN /\ started \in Nat
  /\ awaited \in [key : Keys \cup {"none"}, left : 0..KeyLag]
  /\ c \in BOOLEAN /\ timer \in {"none", "first", "second"}
  /\ composingRef \in BOOLEAN
  /\ resets \subseteq [left : 0..ResetTicks, old : BOOLEAN]
  /\ justEnded \in [on : BOOLEAN, left : 0..JustEndedTicks]
  /\ open \in BOOLEAN /\ staleReset \in BOOLEAN
  /\ lastKey \in [key : Keys \cup {"none"}, confirms : BOOLEAN, effect : BOOLEAN,
                  stale : BOOLEAN]

\* The Enter that confirms a composition never reaches the form's handler, in
\* neither order of events, however soon the next composition starts.
ConfirmingEnterIsHeld == lastKey.key = "Enter" /\ lastKey.confirms => ~ lastKey.effect

\* useComposition's flag is set for the whole of every composition: no timeout of an
\* earlier one clears it.
FlagCoversComposition == composing => c

\* The Escape that cancels a composition closes the dialog only after a timeout of
\* an earlier composition reset the dialog's flag, which input.tsx never cancels.
EscapeClosesByStaleResetOnly ==
  lastKey.key = "Escape" /\ lastKey.confirms /\ lastKey.effect => lastKey.stale

\* Keys that belong to the input method are kept from the page, but for the Escape that
\* meets a stale timeout.
ConfirmingKeysAreHeld ==
  ConfirmingEnterIsHeld /\ FlagCoversComposition /\ EscapeClosesByStaleResetOnly

\* Once no more compositions start, the flags are cleared and both keys work again.
KeysWorkAgain == <>[](~ composing /\ EnterReaches(FALSE) /\ EscapeCloses(FALSE))
=============================================================================
