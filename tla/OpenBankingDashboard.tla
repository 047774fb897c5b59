-------------------------- MODULE OpenBankingDashboard --------------------------
(***************************************************************************)
(* The Open Banking dashboard (OpenBankingDashboard.tsx), one browser page over  *)
(* the backend of OpenBankingApi.  A click is a request in flight: it was sent,   *)
(* the backend handles it in one step, the answer updates the page.  No button    *)
(* is disabled meanwhile, and the five GETs of refreshData come in between.       *)
(***************************************************************************)
EXTENDS OpenBankingApi

CONSTANTS
  Clicks,       \* bound: requests of handlers in flight at once
  Refreshes,    \* bound: runs of refreshData in progress at once
  MaxClicks,    \* bound: clicks, changes of the form, ticks and failures
  MaxLoad       \* bound: those, the clicks in flight and the refreshes in progress together

ASSUME OpenBankingDashboardAssumption ==
  /\ IsFiniteSet(Clicks) /\ IsFiniteSet(Refreshes) /\ MaxClicks \in Nat
  /\ MaxLoad \in Nat /\ MaxClicks < MaxLoad

VARIABLES
  form,             \* userWallet, bankWallet, tspWallet and dataType
  views,            \* identityStatus, consents, organizations, auditLogs, auditStats
  jwtToken,         \* the access token, or NoToken
  fetchedBankData,  \* the token the data shown was fetched with, or NoToken
  apiError,         \* "none", "refused" by the backend, or "failed"
  clicks,           \* the requests of handlers in flight
  refreshes,        \* the runs of refreshData in progress
  clicked,          \* bound: clicks, changes, ticks and failures so far
  tangled           \* history: "evaluation" when one overlapped another or a bank call,
                    \* "bankCalls" when two of these did

pageVars == <<form, jwtToken, fetchedBankData, apiError>>
dashboardVars == <<pageVars, views, clicks, refreshes, clicked, tangled>>

NoToken == [number |-> 0]
NoClick == [kind |-> "none"]
NoRefresh == [get |-> 0]

\* An input: something the user, the clock or the network does.
Click == clicked < MaxClicks /\ clicked' = clicked + 1

Gets == <<"identity", "consents", "organizations", "auditLogs", "auditStats">>

\* What the five GETs answer.
AuditStats ==
  [granted |-> Cardinality({n \in DOMAIN auditLogs : auditLogs[n].granted}),
   denied |-> Cardinality({n \in DOMAIN auditLogs : ~ auditLogs[n].granted}),
   consents |-> Cardinality({i \in DOMAIN bankConsents : bankConsents[i].active})]

BackendView(u) ==
  [identity |-> users[u], consents |-> bankConsents, organizations |-> organizations,
   auditLogs |-> auditLogs, auditStats |-> AuditStats]

NoView == [identity |-> "NONE", consents |-> [i \in {} |-> [expires |-> 0, active |-> FALSE]],
           organizations |-> [o \in Organizations |-> "NONE"], auditLogs |-> <<>>,
           auditStats |-> [granted |-> 0, denied |-> 0, consents |-> 0]]

DashboardInit ==
  /\ form \in Tuples
  /\ views = NoView
  /\ jwtToken = NoToken /\ fetchedBankData = NoToken /\ apiError = "none"
  /\ clicks = [k \in Clicks |-> NoClick]
  /\ refreshes = [r \in Refreshes |-> NoRefresh]
  /\ clicked = 0
  /\ tangled = {}
-----------------------------------------------------------------------------
(***************************************************************************)
(* refreshData, for the wallet of the render that called it: five GETs, each   *)
(* answered by the backend and then put into its view.                         *)
(***************************************************************************)
Started(r, u) == [refreshes EXCEPT ![r] = [wallet |-> u, get |-> 1, answer |-> <<>>]]
RefreshData(r, u) == refreshes[r] = NoRefresh /\ refreshes' = Started(r, u)

NextGet(r) == IF refreshes[r].get = Len(Gets) THEN NoRefresh
              ELSE [refreshes[r] EXCEPT !.get = @ + 1, !.answer = <<>>]

AnswerGet(r) ==
  /\ refreshes[r] # NoRefresh /\ refreshes[r].answer = <<>>
  /\ refreshes' = [refreshes EXCEPT ![r].answer =
                     <<BackendView(refreshes[r].wallet)[Gets[refreshes[r].get]]>>]
  /\ UNCHANGED <<pageVars, views, clicks, clicked, tangled, databaseVars>>

ShowView(r) ==
  /\ refreshes[r] # NoRefresh /\ refreshes[r].answer # <<>>
  /\ views' = [views EXCEPT ![Gets[refreshes[r].get]] = refreshes[r].answer[1]]
  /\ refreshes' = [refreshes EXCEPT ![r] = NextGet(r)]
  /\ UNCHANGED <<pageVars, clicks, clicked, tangled, databaseVars>>

\* A GET that fails is skipped; a body that does not parse ends the refresh.
GetFails(r) ==
  /\ refreshes[r] # NoRefresh
  /\ Click
  /\ \E next \in {NextGet(r), NoRefresh} : refreshes' = [refreshes EXCEPT ![r] = next]
  /\ UNCHANGED <<pageVars, views, clicks, tangled, databaseVars>>

\* setInterval of the effect, which is set up anew when the wallet changes.
\* Faulty variant: the data is loaded once.
PollOnce(r) ==
  /\ views = NoView /\ RefreshData(r, form.user)
  /\ UNCHANGED <<pageVars, views, clicks, clicked, tangled, databaseVars>>

Poll(r) ==
  /\ RefreshData(r, form.user)
  /\ UNCHANGED <<pageVars, views, clicks, clicked, tangled, databaseVars>>

ChangeForm(t, r) ==
  /\ t # form /\ Click
  /\ form' = t
  /\ IF t.user # form.user THEN RefreshData(r, t.user) ELSE UNCHANGED refreshes
  /\ UNCHANGED <<jwtToken, fetchedBankData, apiError, views, clicks, tangled,
                 databaseVars>>
-----------------------------------------------------------------------------
(***************************************************************************)
(* The handlers.  A click remembers the form and the token of its render.     *)
(***************************************************************************)
Send(k, kind, target, token) ==
  /\ clicks[k] = NoClick /\ Click
  /\ clicks' = [clicks EXCEPT ![k] = [kind |-> kind, form |-> form, target |-> target,
                                      token |-> token, number |-> clicked + 1,
                                      answer |-> "none"]]
  /\ UNCHANGED <<form, jwtToken, views, refreshes, databaseVars>>

InFlightKinds == {clicks[k].kind : k \in Clicks}

TangledBy(kinds, mark) == IF InFlightKinds \cap kinds # {} THEN tangled \cup {mark} ELSE tangled

Quiet(k, kind, target) ==
  Send(k, kind, target, NoToken) /\ UNCHANGED <<fetchedBankData, apiError, tangled>>

HandleVerifyIdentity(k) == Quiet(k, "verify", form.user)
HandleGrantConsent(k) == \E d \in Durations : Quiet(k, "grant", d)
\* The buttons of the tables are those the views show.
HandleRevokeConsent(k) ==
  \E i \in DOMAIN views.consents : views.consents[i].active /\ Quiet(k, "revoke", i)
HandleApproveOrg(k) ==
  \E o \in Organizations : views.organizations[o] = "PENDING" /\ Quiet(k, "approve", o)

\* Faulty variant: the data shown is not cleared.
EvaluateBesideOldData(k) ==
  /\ Send(k, "evaluate", form.user, NoToken)
  /\ apiError' = "none" /\ UNCHANGED fetchedBankData
  /\ tangled' = TangledBy({"evaluate", "fetch"}, "evaluation")

HandleEvaluateAccess(k) ==
  /\ Send(k, "evaluate", form.user, NoToken)
  /\ apiError' = "none" /\ fetchedBankData' = NoToken
  /\ tangled' = TangledBy({"evaluate", "fetch"}, "evaluation")

HandleFetchBankData(k) ==
  /\ jwtToken # NoToken
  /\ Send(k, "fetch", form.user, jwtToken)
  /\ apiError' = "none"
  /\ tangled' = TangledBy({"evaluate"}, "evaluation") \cup TangledBy({"fetch"}, "bankCalls")
  /\ UNCHANGED fetchedBankData
-----------------------------------------------------------------------------
(***************************************************************************)
(* The backend handles a request.                                          *)
(***************************************************************************)
Logged(t, granted) ==
  auditLogs' = <<[id |-> Len(auditLogs) + 1, tuple |-> t, granted |-> granted,
                  began |-> Len(auditLogs)]>> \o auditLogs

AccessAllowed(t) ==
  Holding(t, users, organizations, bankConsents, second) = {"identity", "bank", "tsp", "consent"}

\* _verify_authorization: the token, and the consent of the token's tuple again.  A
\* refused consent is logged, an expired token is not.
BankServes(token) ==
  second <= token.exp /\ LiveConsents(token.tuple, bankConsents, second) # {}
LogRefusal(token) ==
  IF second <= token.exp /\ ~ BankServes(token) THEN Logged(token.tuple, FALSE)
  ELSE UNCHANGED auditLogs

Answer(k, a) == clicks' = [clicks EXCEPT ![k].answer = a]
Outcome(ok) == IF ok THEN "ok" ELSE "refused"

Backend(k) ==
  LET q == clicks[k]
  IN  /\ q # NoClick /\ q.answer = "none"
      /\ \/ /\ q.kind = "verify"
            /\ Answer(k, Outcome(users[q.target] # "NONE"))
            /\ IF users[q.target] # "NONE" THEN VerifyIdentity(q.target)
               ELSE UNCHANGED databaseVars
         \/ /\ q.kind = "grant"
            /\ Answer(k, "ok")
            /\ bankConsents' = InsertedConsent(bankConsents, ConsentId(q.form, second), q.target)
            /\ UNCHANGED <<users, organizations, auditLogs, second>>
         \/ /\ q.kind = "revoke"
            /\ Answer(k, Outcome(q.target.tuple.user = q.form.user))
            /\ IF q.target.tuple.user = q.form.user THEN RevokeConsent(q.target)
               ELSE UNCHANGED databaseVars
         \/ /\ q.kind = "approve"
            /\ Answer(k, "ok")
            /\ ApproveOrganization(q.target)
         \/ /\ q.kind = "evaluate"
            /\ clicks' = [clicks EXCEPT ![k].answer = Outcome(AccessAllowed(q.form)),
                            ![k].token = [tuple |-> q.form, exp |-> second + TokenTtl,
                                          number |-> q.number]]
            /\ Logged(q.form, AccessAllowed(q.form))
            /\ UNCHANGED <<users, organizations, bankConsents, second>>
         \/ /\ q.kind = "fetch"
            /\ Answer(k, Outcome(BankServes(q.token)))
            /\ LogRefusal(q.token)
            /\ UNCHANGED <<users, organizations, bankConsents, second>>
      /\ UNCHANGED <<pageVars, views, refreshes, clicked, tangled>>
-----------------------------------------------------------------------------
(***************************************************************************)
(* The answer: the page is updated and refreshData called, not awaited, for    *)
(* the wallet of the click.  A call that fails reports an error and no more.    *)
(***************************************************************************)
EvaluationAnswered(q) ==
  /\ jwtToken' = IF q.answer = "ok" THEN q.token ELSE NoToken
  /\ apiError' = IF q.answer = "ok" THEN apiError ELSE "refused"
  /\ UNCHANGED fetchedBankData

BankCallAnswered(q) ==
  /\ fetchedBankData' = IF q.answer = "ok" THEN q.token ELSE NoToken
  /\ apiError' = IF q.answer = "ok" THEN apiError ELSE "refused"
  /\ UNCHANGED jwtToken

ClickAnswered(k, r) ==
  LET q == clicks[k]
  IN  /\ q # NoClick /\ q.answer # "none"
      /\ CASE q.kind = "evaluate" -> EvaluationAnswered(q)
           [] q.kind = "fetch" -> BankCallAnswered(q)
           [] OTHER -> UNCHANGED <<jwtToken, fetchedBankData, apiError>>
      /\ RefreshData(r, q.form.user)
      /\ clicks' = [clicks EXCEPT ![k] = NoClick]
      /\ UNCHANGED <<form, views, clicked, tangled, databaseVars>>

\* Before the backend sees it or after it was handled.
ClickFails(k) ==
  /\ clicks[k] # NoClick
  /\ Click
  /\ clicks' = [clicks EXCEPT ![k] = NoClick]
  /\ apiError' = IF clicks[k].kind \in {"evaluate", "fetch"} THEN "failed" ELSE apiError
  /\ UNCHANGED <<form, jwtToken, fetchedBankData, views, refreshes, tangled,
                 databaseVars>>

UserStep ==
  \/ \E k \in Clicks :
        \/ HandleVerifyIdentity(k) \/ HandleGrantConsent(k) \/ HandleRevokeConsent(k)
        \/ HandleApproveOrg(k) \/ HandleEvaluateAccess(k) \/ HandleFetchBankData(k)
  \/ \E t \in Tuples, r \in Refreshes : ChangeForm(t, r)

\* What goes on by itself: the interval, the backend and the answers.
PageStep ==
  \/ \E r \in Refreshes : AnswerGet(r) \/ ShowView(r) \/ Poll(r)
  \/ \E k \in Clicks : Backend(k) \/ \E r \in Refreshes : ClickAnswered(k, r)

Failure == (\E r \in Refreshes : GetFails(r)) \/ \E k \in Clicks : ClickFails(k)

BackendClock ==
  /\ Click /\ Tick
  /\ UNCHANGED <<pageVars, views, clicks, refreshes, tangled>>

Load == clicked + Cardinality({k \in Clicks : clicks[k] # NoClick})
                + Cardinality({r \in Refreshes : refreshes[r] # NoRefresh})

DashboardNext == UserStep \/ PageStep \/ Failure \/ BackendClock

\* The requests of the page are whole steps; no thread of OpenBankingApi runs.
threadVars == <<tokens, request, facts, calls>>
DashboardStep(A) == A /\ Load' <= MaxLoad /\ UNCHANGED threadVars

\* A backend that was used before: the page's user has evaluated an access and holds
\* the token, or is not verified yet and meets a provider that is not approved.
First == CHOOSE t \in Tuples : TRUE
UsedBackend ==
  /\ second = 0 /\ tokens = {} /\ calls = 0
  /\ request = [s \in Slots |-> Idle] /\ facts = [s \in Slots |-> {}]
  /\ form = First
  /\ views = NoView /\ fetchedBankData = NoToken /\ apiError = "none"
  /\ clicks = [k \in Clicks |-> NoClick] /\ refreshes = [r \in Refreshes |-> NoRefresh]
  /\ clicked = 0 /\ tangled = {}
  /\ \/ /\ users = [u \in Users |-> IF u = First.user THEN "ACTIVE" ELSE "NONE"]
        /\ organizations = [o \in Organizations |-> "APPROVED"]
        /\ bankConsents = [i \in {ConsentId(First, 0)} |-> [expires |-> 0, active |-> TRUE]]
        /\ auditLogs = <<[id |-> 1, tuple |-> First, granted |-> TRUE, began |-> 0]>>
        /\ jwtToken = [tuple |-> First, exp |-> TokenTtl, number |-> 0]
     \/ /\ users = [u \in Users |-> IF u = First.user THEN "PENDING" ELSE "ACTIVE"]
        /\ organizations = [o \in Organizations |-> IF o = First.tsp THEN "PENDING"
                                                                    ELSE "APPROVED"]
        /\ bankConsents = [i \in {} |-> [expires |-> 0, active |-> FALSE]]
        /\ auditLogs = <<>>
        /\ jwtToken = NoToken

DashboardSpec == UsedBackend /\ [][DashboardStep(DashboardNext)]_<<apiVars, dashboardVars>>
-----------------------------------------------------------------------------
(***************************************************************************)
(* Properties.                                                             *)
(***************************************************************************)
GrantedFor(token) ==
  \E n \in DOMAIN auditLogs : auditLogs[n].tuple = token.tuple /\ auditLogs[n].granted

\* The page holds a token, and shows bank data, only for an access the audit log
\* has as granted.  Data stands for the token shown unless an evaluation overlapped
\* another one or a bank call, and never beside a refusal unless bank calls
\* overlapped as well: a refused one does not clear what an older one brings later.
DataStandsForTheToken ==
  /\ \A token \in {jwtToken, fetchedBankData} \ {NoToken} : GrantedFor(token)
  /\ fetchedBankData # NoToken =>
       /\ "evaluation" \notin tangled => fetchedBankData = jwtToken
       /\ tangled = {} => apiError # "refused"
=============================================================================
