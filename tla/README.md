# Verification of the asset platform and its services

TLA+ models of the contracts, the event indexers, the transaction store, the Open Banking
backend and the programs in front of them, the TLC runs that check them on small instances, and TLAPS proofs for
every instance. File names without a directory are under `src/`; `*.sol` files are
in `contracts/`.

1. [The system](#the-system)
2. [What is modelled, and how](#what-is-modelled-and-how)
3. [The runs](#the-runs)
4. [The proofs](#the-proofs)
5. [Where code and documents disagree](#where-code-and-documents-disagree)
6. [What is not modelled](#what-is-not-modelled)
7. [Plan](#plan)

## The system

The repository keeps identity, custody and access rights on an EVM chain and lets
services read them from there. `ARCHITECTURE.md` calls it a canonical ledger with
recoverable projections: contracts hold the authoritative state, and databases are
rebuilt from their events.

| Component | State it keeps | Operations | What is hard |
|---|---|---|---|
| Platform contract, `SecureAssetPlatform.sol` | profiles, DID reverse lookup, roles, token owners, asset ids, lifecycle, access rules, pause flag | register, (de)activate, replace key, offboard; grant, revoke, renounce roles; mint, transfer, set status; set rule, request access; pause | receivers of safe mints and transfers run in the middle of a call and may call in again; long sequences of identity changes |
| Open Banking contracts, `IdentityRegistry`, `OrganizationRegistry`, `ConsentManager`, `AccessControlManager` | DIDs and wallets, organization status, consents with one pointer per tuple | register, verify, revoke, move to another wallet; approve, suspend, revoke; grant, revoke, check | a DID that changes wallets, consents that overtake each other, expiry |
| `AuditRegistry.sol` | an append-only log | log an attempt | nothing: no contract calls it |
| Durable indexer, `services/indexer/{consumer,persistent,runner}.py` with `services/persistence` | raw logs, canonical events, block checkpoints | scan a confirmed range, roll back, replay | head, header and logs are separate RPC calls on a chain that reorganises; failures and crashes; repeated ranges |
| In-memory projection, `projector.py`, and `ConfirmedScanner` | blocks, projected and withheld events | scan, roll back | no transaction around a scan, a confirmation depth per call |
| Transaction intents, `services/api/{transactions,intents}.py`, `repository.py` | one row per subject and idempotency key | create or get, transition | retries, two sessions at once, the savepoint after a lost insert |
| Open Banking backend, `services/api/blockchain_service.py` and its routes | dictionaries shared by a thread pool, issued tokens, an audit log | imitates the contracts, issues and verifies tokens | requests interleave; checks and uses are apart |
| Open Banking dashboard, `apps/web/src/pages/OpenBankingDashboard.tsx` | form, five views, a token, bank data, an error | verify, grant, revoke, approve, evaluate, fetch; refresh by interval | no button waits for an answer; refreshes overlap |
| Platform console, `client/src/pages/{Home,Dashboard}.tsx` and components | open dialog, busy marks, selections, answers shown | register, assign, mint, evaluate, list | dialogs close on calls in flight; answers come late |
| Text entry, `client/src/hooks/useComposition.ts`, `components/ui/{input,textarea,dialog}.tsx` | composition flags and four timers | composition start and end, Enter, Escape | browsers order the events differently |
| Debug collector, `client/public/__manus__/debug-collector.js`, and dev server, `vite.config.ts` | three bounded buffers; three trimmed files | capture, report, beacon; append, trim | failed and lost answers, overlapping reports, unloads |
| Independent verifier, `scripts/verify_asset.mjs` | the evidence of one run | read in batches, compare | the chain goes on between the reads |
| Rate limiter, `services/api/rate_limit.py` | admission times per key | allow, clear | window boundaries, rounding, a full table |
| Authorization and key-release policies | none | decide one request | boundaries |
| Algorand adapter, storage cryptography, RPC client, ABI decoder, other web code, scripts | little or none | conversions, calls of libraries | outside a state model |

How they interact: callers sign contract calls; the chain's logs reach the indexer,
and only through JSON-RPC; the indexer writes tables the API reads; the API stores an
intent before a transaction is signed, so that a retry meets the same record. The
platform contract and the Open Banking contracts do not call each other. The Open Banking
backend does not call its contracts either: it keeps dictionaries of its own, which the
dashboard shows and changes over HTTP. The platform console calls the API of the Algorand
adapter. The collector runs in every page of the console and reports to the dev server.
The verifier reads the platform contract from a node and trusts nothing else.

What makes each part correct:

- *Platform*: a DID hash has one subject for ever; a role means an active identity;
  the root administrator cannot be lost; an asset id is one token with one owner and a
  one-way lifecycle, also during callbacks; a pause stops everything; a grant follows
  the rules in force.
- *Open Banking*: DIDs and wallets are one-to-one, access goes with the DID,
  revocations stay, the consent pointer is to the last consent.
- *Indexer*: what is recorded is on the chain, a checkpoint means its logs are there,
  no scan blocks the next, history stays, and confirmed logs get in.
- *Intents*: an answer is true of the table, a transition is legal, a submitted intent
  has its hash, no caller waits for ever.
- *Backend and dashboard*: a token is issued, and data served, only on conditions that
  held while they were checked; a revocation stays; what the page shows belongs together
  and catches up with the backend.
- *Console*: one submission per form, a verdict for the permission selected.
- *Text entry*: keys that belong to the input method do not reach the page, all others do.
- *Collector*: every captured entry is delivered once and in order, or given up in one of
  the ways the code has: overflow, refusal, trimming, unload, or one batch with an entry
  JSON cannot write.
- *Verifier*: no evidence is older than the block the report names, and what it says of
  an asset out of service stays true.
- *In-memory projection*: a checkpoint means the chain's block and its logs; no event is
  forgotten.
- *Rate limiter*: no window holds more than the limit, and a caller that waits as told, and
  0.001 seconds for the rounding, is admitted.

The hazards behind these sentences are listed, with their lines, in `PROJECT.json`.

## What is modelled, and how

| Module | Models |
|---|---|
| `AssetLedger` | abstract: what the platform promises about assets, with no tokens, roles or callbacks |
| `SecureAssetPlatform` | the contract, one action per external function |
| `Chain` | the chain the RPC providers show: blocks are mined and dropped (external) |
| `SnapshotIndexer` | abstract: the indexer's tables as they look when every scan happens at one instant and none fails |
| `PersistentIndexer` | scanner, projection and event tables over `Chain` |
| `TransactionStore` | `InMemoryTransactionStore`; the abstract store of the next module |
| `TransactionIntents` | the durable store, statement by statement |
| `IdentityRegistry`, `OrganizationRegistry`, `ConsentManager` | one contract each |
| `OpenBanking` | the three registries together and the access check over them |
| `OpenBankingApi` | the backend, statement by statement, in a thread pool |
| `OpenBankingDashboard` | the dashboard over the backend's state |
| `PlatformConsole` | both pages of the console, as places that call and show |
| `TextEntry` | an input in a dialog, with its timers |
| `DebugCollector` | the collector in the page and the log files of the dev server |
| `AssetVerifier` | one run of the verifier over `AssetLedger` |
| `MemoryProjection` | the in-memory projection and `ConfirmedScanner` over `Chain` |
| `SlidingWindow` | abstract: a limiter that knows every admission and has no table |
| `RateLimiter` | the bounded sliding window |
| `Workspace` | the last eight side by side, with their fairness |
| `MC*` | constants and symmetry for TLC |
| `*Proofs` | theorems; `PagesProofs` is about the text entry, the console and the dashboard, `ServiceProofs` about the verifier, the in-memory projection and the limiter, `CollectorProofs` about the collector |

### SecureAssetPlatform

Variables carry the contract's names (`identityRegistry`, `identityByDidHash`,
`accessRules`, ...); `hasRole`, `ownerOf` and `paused` are the state of OpenZeppelin's
`AccessControl`, `ERC721` and `Pausable`, modelled from their use. `event` is what the
last step logged, for the two events a property is about.

A step is one successful call. A call that reverts changes nothing and is no step. A
safe mint or transfer to an account of `Contracts` is two steps: the call up to the
receiver's `onERC721Received` pushes an element on `callbacks`, and `ReceiverReturns`
is what follows the callback. In between, contracts may make any call, nested up to
`MaxNesting`; time stands still and accounts without code cannot call, since it is all
one transaction. A receiver that makes everything revert is, again, no step.

### Chain and PersistentIndexer

`block[n]` is the block of height n now, `mined` gives every block a hash of its own,
and a block under `ReorgDepth` others is never dropped. A scan is the sequence
`BeginScan` (head) - `ReadHeader` - `ReadLogs` - `IngestLogs` - ... - `CommitScan`; the
chain moves between any two. The logs of a block are attributed to the hash read
before, as `block_with_logs` does. `db` is what is committed, `work` what the scan's
transaction sees; `AbortScan`, `MissBlock` and `RefuseBlock` are the ways a scan fails
and loses `work`. A crash is an abort: nothing else is in memory.

`Restore` is `restore_replayed` with whatever event it is given: the code compares it with
the stored row and with nothing else. What an operator passes is the environment
(`IsReplayed`), and `ReplayPolicy` says what that is: no events, events that have a record,
or any event, with any block and hash.

`Snapshots` maps the committed tables onto `SnapshotIndexer`: a running scan is a stutter
and `CommitScan` the whole `Scan`. `ScansAreSnapshots` says that this is a refinement:
although head, headers and logs come from separate calls, and the chain moves between
them, a commit shows exactly the logs that the blocks of its range have at that instant,
all of those blocks being final, and leaves alone what an operator has withheld.

### TransactionStore and TransactionIntents

A session runs one call in one transaction. A phase of `session[w].at` lies between
two SQL statements. PostgreSQL is external and modelled by what the code relies on: a
statement reads committed rows, a writer waits for another's uncommitted row of the
same key or primary key (`Blocked`), and a row appears at its commit. `IntentId` is the
hash of `"subject:key"`, which two pairs share when a subject contains a colon.
`Abort` is a crash, a lost connection or a failed commit, in any phase.

### The Open Banking contracts

Each contract is one module with its own `Next`; `OpenBanking` lets them step in any
order, one call at a time, since no contract changes another's state. Role holders are
not represented: every guarded call may happen at any time, which only adds
behaviours. A consent id is the pair of user and position in the user's list, because
the hash covers both. The role of an organization is kept and not looked at, as in the
code.

### OpenBankingApi and OpenBankingDashboard

`users`, `organizations`, `bankConsents` and `auditLogs` are the dictionaries and the list
of `database/connection.py`; keys are normalised addresses. FastAPI runs each handler in a
thread, so a request that reads or writes more than once occupies a slot of `request` and
takes a step per statement: `evaluate_access` is `BeginEvaluate`, `CheckIdentity`,
`CheckBank`, `CheckTsp`, `CheckConsent` (a step per consent passed), `ReadLength`,
`InsertLog`, `LookAgain`. A loop over a dictionary fails when its size changed
(`IterationFails`). The clock is read where the code reads it, and kept in `now`. `facts`
is history: which of the four conditions held at some moment of the request.

The dashboard drives the same variables with whole requests (`Backend`), since its
questions are about answers and not about threads. A click is a record in `clicks`, a run
of `refreshData` one in `refreshes`; both keep the values of the render they belong to, as
closures do. `views` is what the page shows, one field per GET. `tangled` is history: which
kinds of requests were in flight together, since what the page may show depends on it.
`DataStandsForTheToken` says what is right without any overlap, what survives overlapping
bank calls, and what only the absence of overlapping evaluations guarantees.

### PlatformConsole, TextEntry, DebugCollector

A *place* of the console is a form, an evaluator, a list or a wallet: something that sends
a call, marks itself busy and shows the answer. The handlers differ in which button is
disabled meanwhile and which answers are shown, and the model keeps just that.

`TextEntry` has `c` and `timer` for the two nested timeouts of `useComposition`,
`composingRef` and `justEnded` for the dialog's refs, and `resets` for the timeouts of
`input.tsx`, which nothing cancels. The editor and the browser are external: the key that
confirms a composition comes before its end (with `isComposing` set) or at most `KeyLag`
after it. A tick is 50 ms.

`DebugCollector` keeps `buffer` in the page and `file` in the dev server; a call in
`report` was sent, was handled, and is answered or fails, before or after it was handled.
An entry is a number, and only whether its line is long matters to the trimming.

Two error paths lose entries. A console call may leave an entry that `JSON.stringify`
rejects (`unwritable`: `sanitizeValue` keeps a BigInt inside an object as it is, and a
`toJSON` of its own). `reportLogs` has emptied the buffers by then, and the exception comes
before there is a promise for `.catch`, so `ReportThrows` drops the batch and captures the
uncaught error; at unload `UnloadThrows` sends no beacon. And `trimLogFile` swallows its
errors: `HandlePayload` lets any trim that is due fail, leaving the file as it was or with
the first of the lines to keep, and `untrimmed` names those files until their next trim.
Taken as not happening: an `appendFileSync` that writes a part of its lines before it
throws (it writes all or nothing), an entry of the network or ui buffer that JSON rejects,
and a rejection whose message is such a value.

### AssetVerifier, MemoryProjection, RateLimiter

The verifier's contract is `AssetLedger`, the abstract specification that
`SecureAssetPlatform` is proved to implement: the verifier sees the chain between
transactions. Each call of a `Promise.all` is answered by the state of its moment.

`MemoryProjection` takes `Chain` as `PersistentIndexer` does. The differences to the
durable scanner are in the actions: what a scan wrote stays when it fails, the depth is an
argument of the call, the gap rule, and events in two lists.

`RateLimiter` counts ticks, `Second` of them in a second, and `Rounding` is the 0.999 of
`int(left + 0.999)` in ticks. The code's clock is a float: its sums are taken as exact
here, and what the ticks are is left to the constants. The rounding is not a ceiling. What
lies between the two is `Slack`, 0.001 seconds: a caller that comes back right after the
seconds it was told may be refused once more, one that comes back `Slack` later is not.
`Ideal` maps it onto `SlidingWindow`, which forgets nothing, by the history of admissions
and answers. `DecidesAsIfNothingWasForgotten`, part of `LimiterKeepsItsWord`, is that
refinement: a caller of the table is refused exactly while its window is full, `Slack`
after the seconds it is told there is room, and one second before that there is none. A
full table refuses without a step, so nothing is said of that.

`Workspace` puts the eight into one run. They share no state but the backend's; the
initial value of `part` picks the one that runs, so nothing is multiplied. The dashboard
runs in two parts, which differ in their bounds.

## The runs

| Run | Instance | Shows |
|---|---|---|
| `SAPIdentity` | 4 accounts, one of them a contract, 3 DID hashes, no assets | DIDs and subjects are one-to-one for ever, named roles mean an active identity, the administrator stays |
| `SAPCustody` | 3 accounts, one a contract; 2 DIDs, 2 assets, callbacks nested twice | token and asset identity, one-way lifecycle and the refinement of `AssetLedger`, through re-entering receivers |
| `SAPAccess` | 2 accounts, both contracts, one of them the administrator; 1 asset, 1 action, 2 times, callbacks | every logged grant follows the rule in force; a pause, also one that comes inside a callback, stops everything |
| `IdxConfirmed` | 2 logs, 4 heights, 6 blocks mined, reorganisations of 2, 2 confirmations, 1 fault, replays of recorded events, fair scheduler | everything recorded is final, no conflict, checkpoints complete, a scan is one snapshot of its blocks, and a log that stays confirmed is recorded |
| `IdxReorgs` | 0 confirmations, so that reorganisations reach recorded blocks; replays of any event | recorded content is never rewritten; no scan, promotion or rollback clears uncertainty, only the replay of the recorded content |
| `Intents` | 2 keys that share a primary key, 2 requests, 2 hashes, a session that creates and updates and one that creates | answers, hashes, the reference store, progress |
| `OpenBanking` | 2 wallets that are both users, 2 DIDs, 1 bank, 1 provider, 2 consents each, 3 times | one-to-one DIDs, access per DID, final revocation, a check that turns by grants, revocations and expiry only |
| `Workspace` | the eight programs of `Workspace`, one per behaviour; bounds below | earned access, sticking revocations, log ids; fitting and fresh pages; delivery of log entries; held keys; sound evidence and checkpoints; windows that hold, and a limiter that decides as if it forgot nothing |
| `IdxIdentity`, `IdxSharedCheckpoints`, `IntentRace`, `ConsentCheck` | small instances | violated: see [below](#where-code-and-documents-disagree) |

### Bounds, and why they are enough

- *Accounts and DIDs*: four accounts give an administrator, an old key, its
  replacement and that key's replacement, with one DID hash for each. Custody needs an
  administrator, an owner and a receiver. `SAPCustody` also bounds the roles that no
  ownership path reads (`OnlyManagerRoleVaries`), `SAPAccess` the one no guard reads
  (`UserRoleFollowsIdentity`). In `SAPAccess` the administrator is a contract (the
  constructor takes any address), since nobody else can pause during a callback.
- *Nesting 2* reaches a mint inside the callback of a mint, and one more.
- *Roles*: `OtherRoles` is empty in the runs. Role ids the contract has no constant for
  are covered by the proofs, which hold for any `OtherRoles`.
- *Heights and hashes*: 4 heights with depth 2 leave two blocks final and two that
  can go; 6 blocks mined allow two replacements at each open height.
- *Logs*: two, in one block, in two, or re-mined elsewhere. A second contract appears
  only in `IdxSharedCheckpoints`.
- *Sessions*: two, since every conflict in the store is between a pair, and a third
  session only waits behind one of them. The proofs hold for any number.
- *Times*: in `SAPAccess` a rule is set, valid and expired within 2; in `OpenBanking` a
  consent of duration 1 is valid at two times and expired at the third.

- *Backend*: two threads, since each hazard is between a request and one other; two users
  of one bank and one provider; three calls (a grant, an evaluation and a revocation or a
  bank call); times 0 to 2 with durations of 1, so that a consent is live, in its last
  second and expired. Tokens live for 1.
- *Dashboard*: two clicks in all (`PollingClicks`), two refreshes at once, and
  `PollingLoad` 4 for inputs, clicks in flight and refreshes together: two refreshes of
  different renders overlap beside a click. In the part "evaluator" three clicks of the
  evaluator's two buttons, two of them in flight, beside one refresh: two bank calls
  overlap, one of them is refused, and their answers come in either order. Two clicks are
  not enough for that: `DataStandsForTheToken` once promised, under that bound, that data
  never stands beside a refusal, and its proof showed that it may. It starts from a backend used before: with a token held, or with a user not yet
  verified and a provider not yet approved.
- *Console*: two calls in flight and three in all, one event: one overtakes another, and a third
  follows. *Text entry*: three compositions (the timeouts of the first meet the second,
  and a third starts clean) and the code's delays. *Collector*: two events and one
  failure in two reports, buffers of 1 and 2, files trimmed to 2 lines, the
  first entry with a line longer than that: everything overflows, and everything is
  trimmed. Any console entry may be unwritable; the error its report ends with is a
  further event. A failed trim is the one failure, and a later trim of the file works. The
  limit of a file and the size it is trimmed to are the same here, and any in the proofs.
- *Verifier*: four blocks for six reads, one asset, two accounts. *In-memory projection*:
  three heights, three blocks mined, reorganisations of 1, depths 0 and 1, two failures or
  rollbacks: a block is replaced before and after it was scanned. *Limiter*: two callers
  for a table of one, two requests per window of 2.5 seconds, in ticks of half a
  millisecond (`Second` 2000, `Rounding` 1998). `Instants` are the times that differ: just
  after an admission, the times the answers name, the end of the window, and half a
  millisecond before and after them. The run refuses a caller with 2.0005 seconds left,
  which is told 2: without `Slack` the property is violated there.

For the safety properties the bounds fall away in the proofs. Symmetry is used where values are interchangeable and the run
checks no liveness.

Deadlock is checked where something can always happen. `OpenBanking.cfg` turns it off:
every DID may be in use by a revoked identity with time and consents at their bounds.
`Workspace.cfg` does too: its programs stop when their inputs are used up.

### Fairness

- *Indexer* (`FairSpec`): strong fairness of starting a scan from the first block and weak
  fairness of each step of a running scan. `PersistentConfirmedScanOnce` is one run of a
  scheduled job, so the assumption is a scheduler that comes back to the first block again
  and again, whatever else it scans between; the steps are sequential code. The chain,
  faults and the operator have none. A scheduler that only resumes from later blocks gives
  no such guarantee: after a rollback the code records no place to resume from.
- *Intents* (`FairSpec`): strong fairness of every session's next statement, because
  PostgreSQL grants a lock to its waiters in turn. Starting a call and aborting have
  none.
- *Workspace* (`WorkspaceFairness`): weak fairness of the dashboard's interval, backend
  and answers together; of the collector's interval, dev server and answers together; of
  timers; and of ending a composition that was begun. Those are `setInterval`,
  `setTimeout`, an event loop and servers that run. Users, clocks and failures have none,
  and are bounded, so that "once inputs stop" is meant.

## The proofs

All theorems hold for arbitrary finite or infinite sets of accounts, logs, keys,
sessions and so on, and for any bounds, under the named assumptions of the modules.

**Platform** (`SecureAssetPlatformProofs`). The safety
properties are not inductive one at a time. `InductiveInvariant` adds to the types
and to each property what the others need: an active identity is registered (a mint
checks only that its recipient is active, and `NothingPrecedesTheMint` says that owners
are registered), and the tokens of pending callbacks are minted (without it, the event
after a callback could name nothing). The identity part is proved first, since identity steps
read nothing else; the asset part uses it; the rest follows. On it rest `DidPermanence`,
`PauseFreezes`, `WithdrawalFinal` and `ImplementsLedger`, the refinement of
`AssetLedger`: a mint is `Allocate`, a move is `Move`, a status change is `Advance`, an
identity step is `Vet` or a stutter, and a nested call is a step like any other.
An asset whose owner was deactivated, offboarded or replaced cannot be moved.
`StrandedAssetsHaveAWayOut` says that, with the contract not paused and no callback
pending, the root administrator may always reactivate that owner: owners stay registered
and the root stays an active administrator. It states the guard of `setIdentityStatus`
(`MaySetIdentityStatus`) rather than `ENABLED`; the two agree, since the rest of the call
only assigns. `ReactivationReleases` says that it helps: right after the call, nothing in
`_update` stands against a transfer of the asset, if in service, to the administrator.
`GrantsAreEarned` first shows that only `requestAccess` logs a decision, and then that
the decision is what the rule, the roles and the status of the asset say.

**Indexer** (`PersistentIndexerProofs`). The assumption is `Configured`:
`ReorgDepth <= Confirmations`, and a replay policy other than "any". `IndexerInv` says
that not only the committed tables but also those of the running transaction, and the
header it has just read, hold final blocks only: the step from header to logs is safe
only because the header's block cannot be dropped any more. `RecordedIsFinal` and
`NoScanIsRefused` follow. `CheckpointsComplete` needs one scanner per database and an
invariant of its own (`CoverInv`), which exempts the one block that is checkpointed and
not yet ingested.
With the policy "recorded" nobody needs to look at the chain: a replay must match its row,
and the row is final. `HistoryIsRetained` and `UncertaintyIsSticky` need neither assumption,
and hold for the policy "any" too: `HistoryInv` says that the running transaction keeps every
row of the committed tables, so that a commit is as harmless as a scan's single steps.

`ScansAreAtomic` is the refinement of `SnapshotIndexer`, under `Configured` again and for
any length of scan. `SnapshotInv` says of the running transaction that it shows what is
committed and one snapshot of the blocks it has passed (`WorkIsSnapshot`): each of them was
confirmed when the scan read the head, is final since, and so has the logs now that it had
when they were read. It also needs `RowsAreShown`: a stored event is canonical or withheld
and never waits for promotion, so that finding one already stored changes nothing. A
rollback withholds, a replay shows again, and the chain changes at no final height.

**Intents** (`TransactionIntentsProofs`). `IntentInv` relates the table to what every
session holds: whoever is about to insert owns a key that is free, whoever waits after
a lost insert has a row in the way, and two uncommitted rows are never of one key.
`IntentsSafe` and `AnswersAndHashes` hold with any number of concurrent updaters.
`ImplementsReferenceStore` assumes `OneUpdater`, which the code does not enforce; the
run `IntentRace` shows what happens without it. It also assumes that intents are created
as requested (`CreatesRequested`), which is what the writer passes.

**Open Banking** (`OpenBankingProofs`). `DidsAreOwned` is inductive for the identity
registry alone. `NewestIsLast`, which says of every tuple whether its pointer exists and
what it is to, is inductive together with the filing of consents under their users.
`RevocationHolds` uses that a move leaves the record under the DID as it was.
`CheckChangesByDecisions` follows each call: whatever it does to other consents, the pointer
of a tuple that stays, to a consent that stays, keeps its answer until that consent expires
(`SamePointer`).

**Text entry** (`PagesProofs`). For any delays that exceed `KeyLag` and any number of
compositions. `ConfirmingKeysAreHeld` is about the last key, so the inductive invariant
`TextEntryInv` must say why it is held: while the editor composes no timeout of
`useComposition` is set, the key that is owed comes before `justEndedRef` and before the
reset of its own composition run out, and the dialog's flag is down only after an old
reset.

**Open Banking backend** (`OpenBankingApiProofs`). For any number of threads and any
calls. What a request may do next depends on facts that held at different moments, so
`ApiInv` says of every phase which facts have been gathered (`Earned`) and that the second
search will find a consent unless one was revoked (`Findable`). A step is justified by the
moment before it (`Carried`); `FactsGrow` carries that over whatever the other threads did
meanwhile. `RevocationsAreFinal` adds that a grant in progress was begun at the present
second or before, and that a buried consent is of an earlier one.

`LogIdsClashSeldom` places every audit record by counting from the oldest: its id is a
length that was read after its request began and before it was inserted, plus one. Two
records of one id then have requests of which the later began before the earlier was in
the log.

**Platform console** (`PagesProofs`). For any number of calls and dialogs. `ConsoleInv`
counts the calls by place: a form or the access console has at most one in flight, and is
busy exactly then (`GuardedAlone`); a dialog whose buttons stay enabled may have several,
and its answers belong to the permission asked for last only when it has one
(`EvaluatorsAlone`, `VerdictFitsPermission`). Answers leave the queue from any position,
so the lemma `TakenOut` says what removing one keeps.

**Open Banking dashboard** (`PagesProofs`). For any backend used as `UsedBackend` says and
any number of clicks, refreshes and failures. The audit log only grows, so a token once
entered stays entered (`TokensAreEntered`), also while the answer that brings it is on its
way. `EvaluationsApart` and `BankCallsApart` are about requests in flight: with none
overlapping, a bank call in flight carries the token shown, an evaluation in flight has
cleared the data, and no refusal is shown beside a bank call that may still bring data.

**Debug collector** (`CollectorProofs`). For any sizes of buffers, beacons and files, any
entries that JSON cannot write and any trims that fail.
`CollectorInv` says stream by stream where an entry may be. While the page is open, a call
nobody listens to any more carries nothing that is not also elsewhere
(`NothingIsMissing`); without that, a lost call could take an entry with it. An entry that
was never sent twice is in one place (`OnePlace`). With one report at a time the file is
older than what is on its way, and that older than the buffer (`OldestFirst`), which is
why entries that are put back belong in front. That a file can be trimmed to its target at
all is a fact about least numbers (`TrimKeeps`).

**Verifier** (`ServiceProofs`). For any number of blocks between the reads.
`VerifierInv` keeps the order of the reads, which puts the present state into the history
once the block number is known, and compares the status at each read with the present one
by the stages of `AssetLedger`, which only go up.

**In-memory projection** (`ServiceProofs`). For any heights, logs and depths. As long as
every scan waited for `ReorgDepth` blocks, what it reads and checkpoints is final
(`FinalOnly`), although nothing is rolled back when it fails half-way. A gap between
checkpoints needs a scan from below, because a scan that began next to a checkpoint stays
next to one (`ScanStaysClose`). `EventsAreKept` rests on `OneContent`: an event is never
projected and withheld at once, so moving it between the two lists loses nothing.

**Rate limiter** (`ServiceProofs`). For any callers, limits, windows, ticks of a second and
values of the clock, with exact sums. The table keeps the
newest admissions of a caller, and whatever it forgot has left the window
(`LatestAreKept`), so that admissions `MaxRequests` apart are a window apart
(`AdmissionsAreSpread`). No window then holds more than the limit: the indices of its
admissions lie in an interval of that length. A refused caller is told when the oldest
admission leaves, or at most `Slack` too early (`PromisesFit`, from what `div` does,
`Divided`), whatever is admitted or forgotten until then.
`LimiterForgetsNothingThatCounts` is the refinement of `SlidingWindow`, from the same
invariant. Until the oldest admission of the table leaves, those kept are exactly the ones
that count (`KeptAreCounted`), and from then on fewer do (`ThenThereIsRoom`); hence a call
that is refused has no room, `Slack` after the answer there is room, and no smaller number
of seconds would do (`RetryAfterIsLeast`). `LimiterIsSound` joins both.

The platform's named properties (`DidHashesAreOneToOne`, `RolesNeedActiveIdentities`,
`RootIsNeverLockedOut`, `AssetIdsAreUnique`, `NothingBeforeTheMint`) and
`SubmittedIntentsHaveHashes` follow from the inductive invariants.

Checked by TLC only: the liveness properties (`ConfirmedLogsAreRecorded`, `CallsEnd`,
`DashboardCatchesUp`, `EntriesAreReported`, `KeysWorkAgain`), which TLAPS cannot prove.
Every other property of a passing run is the statement of a theorem.

## Where code and documents disagree

Shown by a run:

- `IdxIdentity`: the event identity (`repository.py:414`) has no block. A transaction
  mined again after a reorganisation collides with its orphaned, withheld record, and
  every scan over the new block fails. ADR 0007 makes block number and hash part of the
  identity.
- `IdxSharedCheckpoints`: a rollback withholds one contract's events and removes the
  checkpoints of all (`repository.py:376`). Another contract's orphaned events stay
  canonical. `docs/THREAT-MODEL.md:25` says that they cannot.
- `IntentRace`: a transition is checked on the row as read and written without a lock
  or a condition (`repository.py:125`). Two sessions can take a failed intent to signed.
- `ConsentCheck`: `checkConsent` is documented as validating "whether an active, non-expired
  consent exists" (`ConsentManager.sol:108`). It looks at the last one only (line 117): a
  newer consent, expired or revoked, hides an older one still in force. The backend's
  imitation looks at all of them. (`CheckFollowsDecisions`, which holds, is about when the
  answer changes, and is true of either reading.)

Seen while modelling, with no run of their own:

- ADR 0003 (line 17) says non-root roles end with the identity. `SecureAssetPlatform.sol:138`
  revokes three named ones; another role id, which `grantRole` accepts, survives. No
  check of the contract reads such a role.
- `restore_replayed` stores an event that was never recorded as canonical, with neither
  raw log nor checkpoint (`repository.py:391`; ADR 0007:24, `THREAT-MODEL.md:25`). It does
  not ask the chain either: replaying a withheld event of an orphaned block shows it as
  canonical again. Whether replays are of events on the chain is left to the operator.
- Consents belong to wallets. After `rebindWallet` those of the old wallet stay there.
- `WalletRebound` is emitted after its record was deleted, so its DID is empty
  (`IdentityRegistry.sol:118-121`).
- `AccessControlManager` accepts any approved organization as bank or provider, and
  never calls `AuditRegistry`.
- `InMemoryProjection` deletes an uncertain event before it compares the block hash
  (`projector.py:90`), and it accepts blocks below its last one although its gap rule
  rejects those above: a scan from below that stops early leaves a gap
  (`GapsComeFromBelow`).
- A token may name consent `cst_active`, which does not exist, when its consent was revoked
  between the check and the lookup, or an expired one (`access_routes.py:33`); the bank
  call checks again, so no data is served (`AccessIsEarned`). Two audit records get one id
  when their requests overlap (`blockchain_service.py:155`).
- A grant in the second of an earlier grant of the tuple replaces it, revoked or not
  (`blockchain_service.py:97`). Registering a wallet again resets its status.
- The dashboard lists all users' consents with a revoke button, and the backend refuses
  another user's. It does not look at `res.ok` when it verifies, revokes or approves, so a
  refusal is announced like a success. Expired consents are shown as active.
- When two bank calls of the dashboard overlap, the refusal of one does not clear the data
  the other brings, so that the page shows an error and data together
  (`OpenBankingDashboard.tsx:182`; `DataStandsForTheToken` allows it for `tangled` only).
- The Escape that cancels a second composition within 100 ms of the first closes the
  dialog: `input.tsx:45` does not cancel its timeout when a composition starts, although
  the flag is there to prevent it (`EscapeClosesByStaleResetOnly`).
- The console shows any JSON answer of an evaluation as a decision
  (`AccessControlConsole.tsx:29`), and the buttons of dialog 04 are not disabled during
  one, so that the verdict may be for a permission asked before (`VerdictFitsPermission`).
- The collector sends entries again whose answer was lost or whose page stayed after a
  beacon, and the dev server does not notice (`NoEntryTwice`). It does not look at the
  status, so what the server refused is gone.
- `reportLogs` means to put data back on failure (`debug-collector.js:745`), but one logged
  object with a BigInt in it (`console.log({ x: 1n })`) makes `JSON.stringify` throw in
  line 743, after the buffers were emptied and before `.catch` is attached: the whole batch
  is lost, network and ui entries included. Only the uncaught error is captured.
- A log file is over its limit after a trim that failed, of which nobody is told
  (`vite.config.ts:45`), until the next trim.
- `int(left + 0.999)` (`rate_limit.py:54`) is no ceiling: with 2.0005 seconds left a caller
  is told 2, and is refused again when it comes back then.
- The verifier reads owner and status by separate calls at no fixed block; an asset moved
  and then revoked between them is reported with its former owner.
- A limiter whose table is full refuses every new caller for ever, and tells it to come
  back after the window (`rate_limit.py:46`): no key leaves the table.

## What is not modelled

`PROJECT.json` lists every component with its status and reason. In short: conversions
and cryptography have no protocol state; configuration and transport change nothing the
models keep; the reference policies decide one request and are called by tests only; the
Algorand adapter answers with fixed values offline, and its contracts are a few
admin-guarded writes; `AuditRegistry` is an append-only log nobody reads; the template
under `block/` is an earlier version of one registry.

Most TypeScript of the repository is layout, a vendored component library
(`components/ui`), and copies: `apps/web` and `block/client` repeat the client's components
and collector, and `apps/web/src` holds compiled `.js` files beside their sources.
Modelling a copy would say nothing new, and presentation has no behaviour to state.
`lib/api.ts` is used in tests only and `client/src/pages/Dashboard.tsx` is not routed; the
latter is modelled for its components.

Left out of the modelled components: metadata and personal-data hashes, names and
reasons, zero-valued arguments (they revert), timestamps that nothing compares, and the
gas limit. `BlockCheckpoint.finalized` is TRUE in every checkpoint and never read.
Reconciliation findings are written and not read back. The chain id and contract
address of an intent are stored and never compared. In the backend, the loops of
`is_identity_active` and `is_organization_approved` may fail on a registration as
`IterationFails` does for consents; organizations are suspended by no route. In the pages,
notifications; in the collector, masking and selectors; in the dev server, the storage
proxy.

## Plan

In order of importance; all but the last two are in place.

1. `SecureAssetPlatform` with `AssetLedger`: runs `SAP*`, invariant, refinement, proofs.
2. `Chain` and `PersistentIndexer`: runs `Idx*`, proofs of the confirmed deployment.
3. `TransactionStore` and `TransactionIntents`: runs `Intents`, `IntentRace`, proofs.
4. `IdentityRegistry`, `OrganizationRegistry`, `ConsentManager`, `OpenBanking`: run
   `OpenBanking`, proofs.
5. `OpenBankingApi`, `OpenBankingDashboard`: the backend and its page, both with proofs.
6. `DebugCollector`, `TextEntry`, `PlatformConsole`, `AssetVerifier`, with proofs.
7. `MemoryProjection`, `RateLimiter`, with proofs; `Workspace` composes 5 to 7 into one run.
8. The reference policies against the contract's rules, if they get a caller.
9. Algorand contracts, if the bounds allow a property worth stating.

Every safety property the passing runs check, and every refinement, has its theorem. Worth
stating next is the verifier over `SecureAssetPlatform` itself: its proof is about
`AssetLedger`, and the two theorems (`EvidenceIsSound`, `ImplementsLedger`) are joined in
this text only.
