---------------------------- MODULE DebugCollector ----------------------------
(***************************************************************************)
(* The debug collector of the web console and the dev server it reports to.    *)
(* debug-collector.js runs in the page: it keeps three bounded buffers and      *)
(* sends them every reportInterval.  vite.config.ts appends what arrives to      *)
(* three log files and trims them.  An entry of a stream is a number; what it    *)
(* says is left out.                                                             *)
(***************************************************************************)
EXTENDS Naturals, Sequences, FiniteSets

Streams == {"console", "network", "ui"}

CONSTANTS
  BufferSize,     \* CONFIG.bufferSize, by stream
  BeaconKeep,     \* how many newest entries a truncated beacon carries, by stream
  MaxLogSize,     \* MAX_LOG_SIZE_BYTES, an ordinary line being 1
  TrimTarget,     \* TRIM_TARGET_BYTES
  LongEntries,    \* entries whose line is longer than TrimTarget
  Reports,        \* bound: reports in flight at once
  MaxEvents,      \* bound: events captured
  MaxFailures     \* bound: calls and trims that fail and unloads that are cancelled

ASSUME DebugCollectorAssumption ==
  /\ BufferSize \in [Streams -> Nat \ {0}] /\ BeaconKeep \in [Streams -> Nat]
  /\ MaxLogSize \in Nat /\ TrimTarget \in 1..MaxLogSize
  /\ MaxEvents \in Nat /\ MaxFailures \in Nat /\ IsFiniteSet(Reports)

VARIABLES
  buffer,      \* store: consoleLogs, networkRequests and uiEvents
  bodies,      \* answered fetches whose body is still being read
  report,      \* calls of the report endpoint in flight, beacons included
  page,        \* "open" or "closed"
  file,        \* the log file of each stream, oldest line first
  events,      \* events captured so far
  failures,    \* bound: failures so far
  unwritable,  \* console entries JSON cannot write (a BigInt in a logged object)
  captured,    \* history: the entries of each stream
  dropped,     \* history: those given up, by overflow, refusal, trimming or unload, or
               \* in one batch with an entry JSON cannot write
  repeated,    \* history: those that were sent again or may still be sent again
  overlapped,  \* history: a report began while another was in flight
  untrimmed    \* history: the files whose last trim failed

streamVars == <<captured, dropped, repeated, overlapped, untrimmed>>
collectorVars ==
  <<buffer, bodies, report, page, file, events, failures, unwritable, streamVars>>

None == [at |-> "none"]
Empty == [s \in Streams |-> <<>>]
Entries(q) == {q[i] : i \in DOMAIN q}
Newest(q, n) == IF Len(q) > n THEN SubSeq(q, Len(q) - n + 1, Len(q)) ELSE q

CollectorInit ==
  /\ buffer = Empty /\ file = Empty
  /\ bodies = 0
  /\ report = [r \in Reports |-> None]
  /\ page = "open"
  /\ events = 0 /\ failures = 0
  /\ captured = [s \in Streams |-> {}]
  /\ dropped = [s \in Streams |-> {}]
  /\ repeated = [s \in Streams |-> {}]
  /\ overlapped = FALSE
  /\ unwritable = {} /\ untrimmed = {}
-----------------------------------------------------------------------------
(***************************************************************************)
(* Capturing.  pruneBuffer drops the oldest entries over the limit.            *)
(***************************************************************************)
PruneBuffer(q, s) == Newest(q, BufferSize[s])

\* One event pushes one entry to each of the streams of S, onto the queues q.
Push(S, q) ==
  LET pushed == [s \in Streams |-> IF s \in S THEN Append(q[s], events + 1) ELSE q[s]]
  IN  /\ events' = events + 1
      /\ buffer' = [s \in Streams |-> PruneBuffer(pushed[s], s)]
      /\ captured' = [s \in Streams |-> IF s \in S THEN captured[s] \cup {events + 1}
                                                   ELSE captured[s]]
      /\ dropped' = [s \in Streams |-> dropped[s] \cup
                       ((Entries(buffer[s]) \cup Entries(pushed[s])) \ Entries(buffer'[s]))]

Capture(S) ==
  /\ page = "open" /\ events < MaxEvents
  /\ Push(S, buffer)
  /\ UNCHANGED <<report, page, file, failures, repeated, overlapped, untrimmed>>

\* What is logged is kept as it is, also when JSON cannot write it later.
ConsoleCall == /\ Capture({"console"}) /\ UNCHANGED bodies
               /\ unwritable' \in {unwritable, unwritable \cup {events + 1}}
UncaughtError == Capture({"console", "ui"}) /\ UNCHANGED <<bodies, unwritable>>
UiEvent == Capture({"ui"}) /\ UNCHANGED <<bodies, unwritable>>

\* A fetch that is answered leaves an entry at once when its body is not captured
\* (a stream, a long or a binary body), and after the body was read otherwise; an
\* answer of status 400 or more is a ui event at once in either case.
FetchAnsweredUncaptured ==
  \E S \in {{"network"}, {"network", "ui"}} : Capture(S) /\ UNCHANGED <<bodies, unwritable>>
FetchAnsweredBad == /\ bodies + events + 1 < MaxEvents /\ Capture({"ui"})
                    /\ bodies' = bodies + 1 /\ UNCHANGED unwritable
FetchAnswered == /\ page = "open" /\ bodies + events < MaxEvents
                 /\ bodies' = bodies + 1
                 /\ UNCHANGED <<buffer, report, page, file, events, failures, unwritable,
                                streamVars>>
BodyRead == /\ bodies > 0 /\ Capture({"network"})
            /\ bodies' = bodies - 1 /\ UNCHANGED unwritable
FetchFailed == Capture({"network", "ui"}) /\ UNCHANGED <<bodies, unwritable>>

\* XMLHttpRequest: load and error are captured, abort and timeout are not.
XhrLoaded ==
  \E S \in {{"network"}, {"network", "ui"}} : Capture(S) /\ UNCHANGED <<bodies, unwritable>>
XhrFailed == Capture({"network", "ui"}) /\ UNCHANGED <<bodies, unwritable>>
-----------------------------------------------------------------------------
(***************************************************************************)
(* Reporting.                                                              *)
(***************************************************************************)
InFlight == {r \in Reports : report[r] # None}

Sent(batch) == [at |-> "sent", batch |-> batch, heard |-> TRUE]

\* JSON.stringify writes the payload, or it throws.
Writable(batch) == Entries(batch["console"]) \cap unwritable = {}

\* Faulty variant: a report waits until no buffer is empty.
ReportFullOnly(r) ==
  /\ page = "open" /\ \A s \in Streams : buffer[s] # <<>>
  /\ Writable(buffer) /\ report[r] = None
  /\ report' = [report EXCEPT ![r] = Sent(buffer)]
  /\ buffer' = Empty
  /\ overlapped' = (overlapped \/ InFlight # {})
  /\ UNCHANGED <<bodies, page, file, events, failures, unwritable, captured, dropped,
                 repeated, untrimmed>>

\* The buffers are emptied into a call; nothing is done when all are empty.
ReportLogs(r) ==
  /\ page = "open" /\ buffer # Empty /\ Writable(buffer) /\ report[r] = None
  /\ report' = [report EXCEPT ![r] = Sent(buffer)]
  /\ buffer' = Empty
  /\ overlapped' = (overlapped \/ InFlight # {})
  /\ UNCHANGED <<bodies, page, file, events, failures, unwritable, captured, dropped,
                 repeated, untrimmed>>

\* The exception comes before there is a call whose failure would put anything back:
\* the batch is lost, and the page captures the uncaught error.
ReportThrows ==
  /\ page = "open" /\ ~ Writable(buffer)
  /\ Push({"console", "ui"}, Empty)
  /\ UNCHANGED <<bodies, report, page, file, failures, unwritable, repeated, overlapped,
                 untrimmed>>

\* Any answer, whatever its status, settles the call.
Answered(r) ==
  /\ report[r].at = "handled"
  /\ report' = [report EXCEPT ![r] = None]
  /\ UNCHANGED <<buffer, bodies, page, file, events, failures, unwritable, streamVars>>

\* Faulty variant: newer entries go first.
PutBehind(old, new) == new \o old
PutBack(old, new) == old \o new

\* The call fails: before the server sees it, while the server still handles it
\* (reaches), or after it was handled.  Older entries go back in front of newer
\* ones, and the limit drops the oldest.  A page that is gone puts nothing back.
ReportFails(r, reaches) ==
  LET batch == report[r].batch
      back == [s \in Streams |-> PutBack(batch[s], buffer[s])]
      handled == report[r].at = "handled"
  IN  /\ report[r] # None /\ report[r].heard
      /\ failures < MaxFailures /\ failures' = failures + 1
      /\ handled => ~ reaches
      /\ report' = [report EXCEPT ![r] = IF reaches THEN [@ EXCEPT !.heard = FALSE] ELSE None]
      /\ buffer' = IF page = "open" THEN [s \in Streams |-> PruneBuffer(back[s], s)] ELSE buffer
      /\ dropped' = [s \in Streams |-> dropped[s] \cup
                       IF page = "open" THEN Entries(back[s]) \ Entries(buffer'[s])
                       ELSE IF reaches \/ handled THEN {} ELSE Entries(batch[s])]
      /\ repeated' = [s \in Streams |-> repeated[s] \cup
                        IF page = "open" /\ (reaches \/ handled) THEN Entries(batch[s]) ELSE {}]
      /\ UNCHANGED <<bodies, page, file, events, unwritable, captured, overlapped, untrimmed>>

\* beforeunload sends a beacon with the buffers, with the newest entries only when
\* it would be too long, and leaves the buffers alone.  The page then closes, or
\* the user stays and the entries are reported again.
Unload(r, closes) ==
  /\ page = "open" /\ Writable(buffer)
  /\ IF buffer = Empty
     THEN UNCHANGED <<report, dropped, repeated>>
     ELSE \E batch \in {buffer, [s \in Streams |-> Newest(buffer[s], BeaconKeep[s])]} :
            /\ report[r] = None
            /\ report' = [report EXCEPT ![r] = [at |-> "sent", batch |-> batch, heard |-> FALSE]]
            /\ dropped' = [s \in Streams |-> dropped[s] \cup
                             IF closes THEN Entries(buffer[s]) \ Entries(batch[s]) ELSE {}]
            /\ repeated' = [s \in Streams |-> repeated[s] \cup
                              IF closes THEN {} ELSE Entries(batch[s])]
  /\ IF closes THEN page' = "closed" /\ buffer' = Empty /\ bodies' = 0 /\ UNCHANGED failures
     ELSE /\ failures < MaxFailures /\ failures' = failures + 1
          /\ UNCHANGED <<page, buffer, bodies>>
  /\ overlapped' = (overlapped \/ InFlight # {})
  /\ UNCHANGED <<file, events, unwritable, captured, untrimmed>>

\* The beacon's payload cannot be written: nothing is sent.  A page that closes loses
\* its buffers; one that stays captures the error.
UnloadThrows(closes) ==
  /\ page = "open" /\ ~ Writable(buffer)
  /\ IF closes
     THEN /\ page' = "closed" /\ buffer' = Empty /\ bodies' = 0
          /\ dropped' = [s \in Streams |-> dropped[s] \cup Entries(buffer[s])]
          /\ UNCHANGED <<events, captured, failures>>
     ELSE /\ failures < MaxFailures /\ failures' = failures + 1
          /\ Push({"console", "ui"}, buffer)
          /\ UNCHANGED <<page, bodies>>
  /\ UNCHANGED <<report, file, unwritable, repeated, overlapped, untrimmed>>

\* A call nobody listens to any more does not arrive.
Unheard(r) ==
  /\ report[r].at = "sent" /\ ~ report[r].heard
  /\ report' = [report EXCEPT ![r] = None]
  /\ dropped' = [s \in Streams |-> dropped[s] \cup
                   IF page = "open" THEN {} ELSE Entries(report[r].batch[s])]
  /\ UNCHANGED <<buffer, bodies, page, file, events, failures, unwritable, captured, repeated,
                 overlapped, untrimmed>>
-----------------------------------------------------------------------------
(***************************************************************************)
(* The dev server.                                                         *)
(***************************************************************************)
LogSize(q) == Len(q) + TrimTarget * Cardinality({i \in DOMAIN q : q[i] \in LongEntries})

\* The newest lines that fit the target, up to the first that does not.
TrimLogFile(q) ==
  IF LogSize(q) <= MaxLogSize THEN q
  ELSE CHOOSE kept \in {Newest(q, n) : n \in 0..Len(q)} :
         /\ LogSize(kept) <= TrimTarget
         /\ \A n \in 0..Len(q) : LogSize(Newest(q, n)) <= TrimTarget => n <= Len(kept)

\* What an error of the trim leaves, which nobody is told of: the file as it was, when it
\* could not be read or opened, or the first of the lines to keep, when writing broke off.
TrimErrors(q) ==
  {q} \cup {SubSeq(TrimLogFile(q), 1, n) : n \in 0..Len(TrimLogFile(q))}

FileOrder == [console |-> 1, network |-> 2, ui |-> 3]

\* The files are written one after the other, and trimmed when they are too long; an
\* exception before the k-th write is answered with status 400 and leaves the files before
\* it as they are written.
HandlePayload(r, k) ==
  LET batch == report[r].batch
      written == {s \in Streams : FileOrder[s] < k /\ batch[s] # <<>>}
      appended == [s \in Streams |-> IF s \in written THEN file[s] \o batch[s] ELSE file[s]]
      tooLong == {s \in written : LogSize(appended[s]) > MaxLogSize}
  IN  /\ report[r].at = "sent"
      /\ \E failing \in SUBSET tooLong :
         \E left \in [failing -> UNION {TrimErrors(appended[s]) : s \in failing}] :
           /\ failing # {} => failures < MaxFailures
           /\ failures' = IF failing = {} THEN failures ELSE failures + 1
           /\ \A s \in failing : left[s] \in TrimErrors(appended[s])
           /\ file' = [s \in Streams |-> IF s \in failing THEN left[s]
                                        ELSE IF s \in written THEN TrimLogFile(appended[s])
                                        ELSE file[s]]
           /\ untrimmed' = (untrimmed \ written) \cup failing
      /\ report' = [report EXCEPT ![r] = IF @.heard THEN [@ EXCEPT !.at = "handled"] ELSE None]
      /\ dropped' = [s \in Streams |-> dropped[s] \cup
                       ((Entries(file[s]) \cup Entries(batch[s])) \ Entries(file'[s]))]
      /\ UNCHANGED <<buffer, bodies, page, events, unwritable, captured, repeated, overlapped>>

CapturingStep == \/ ConsoleCall \/ UncaughtError \/ UiEvent
                 \/ FetchAnsweredUncaptured \/ FetchAnsweredBad \/ FetchAnswered
                 \/ BodyRead \/ FetchFailed \/ XhrLoaded \/ XhrFailed

\* What goes on by itself: the interval, the server and the answers.
DeliveryStep(r) ==
  ReportLogs(r) \/ ReportThrows \/ Answered(r) \/ \E k \in 1..4 : HandlePayload(r, k)

CollectorNext ==
  \/ CapturingStep
  \/ \E b \in BOOLEAN : UnloadThrows(b)
  \/ \E r \in Reports : \/ DeliveryStep(r)
                        \/ Unheard(r)
                        \/ \E b \in BOOLEAN : ReportFails(r, b) \/ Unload(r, b)
-----------------------------------------------------------------------------
(***************************************************************************)
(* Properties.                                                             *)
(***************************************************************************)
\* The batches of a stream that may still reach its file.
Underway(s) == {r \in Reports : report[r].at = "sent" /\ report[r].batch[s] # <<>>}

\* Every buffer keeps its limit, also when reports that failed late are put back on
\* top of what was captured meanwhile.  Every file keeps its own unless its last trim
\* failed, and is back within it with the next trim, whatever the failed one left.
CollectorBounded ==
  \A s \in Streams : /\ Len(buffer[s]) <= BufferSize[s]
                     /\ LogSize(file[s]) <= MaxLogSize \/ s \in untrimmed

\* No entry goes missing: it is in the buffer, in a report on its way or in the
\* file, or it was given up by overflow, refusal, trimming or unload, or in one batch
\* with a console entry JSON cannot write.  (reportLogs empties the buffers before it
\* knows whether the call succeeds, and its catch hears of no exception before the call.)
EntriesAreAccountedFor ==
  \A s \in Streams :
    captured[s] \subseteq Entries(buffer[s]) \cup Entries(file[s]) \cup dropped[s]
                          \cup UNION {Entries(report[r].batch[s]) : r \in Underway(s)}

Occurrences(s, n) ==
  Cardinality({i \in DOMAIN buffer[s] : buffer[s][i] = n})
  + Cardinality({i \in DOMAIN file[s] : file[s][i] = n})
  + Cardinality({r \in Underway(s) : n \in Entries(report[r].batch[s])})

\* An entry is in one place at a time, and once in the file, unless the answer of a
\* report got lost or an unload was cancelled.
NoEntryTwice ==
  \A s \in Streams : \A n \in captured[s] \ repeated[s] : Occurrences(s, n) <= 1

InOrder(q, except) ==
  \A i, j \in DOMAIN q : i < j /\ {q[i], q[j]} \cap except = {} => q[i] < q[j]

\* As long as no two reports are in flight together, the file and the buffer of a
\* stream are in the order of capture, whatever fails and is put back.
OrderIsKept ==
  overlapped \/ \A s \in Streams : /\ InOrder(file[s], repeated[s])
                                   /\ InOrder(buffer[s], repeated[s])

\* The collector delivers within its limits: what is lost is lost in one of the ways
\* above, nothing comes twice and the order stays, through overflow, overlapping reports,
\* lost answers, refusals, unloads, exceptions of the reports and failed trims.
EntriesAreDelivered ==
  CollectorBounded /\ EntriesAreAccountedFor /\ NoEntryTwice /\ OrderIsKept

\* Once events and failures stop, everything captured has left the page.
EntriesAreReported == <>[](page = "closed" \/ (buffer = Empty /\ InFlight = {}))
=============================================================================
