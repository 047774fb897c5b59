---------------------------- MODULE PlatformConsole ----------------------------
(***************************************************************************)
(* The platform console: the landing page (pages/Home.tsx), whose dialogs call  *)
(* the API, and the page of modules (pages/Dashboard.tsx and its components).    *)
(* Both are places that send a call, mark themselves busy and show the answer;    *)
(* they differ in which buttons are disabled while busy and in which answers       *)
(* they accept.  What a call asks for and says is left out but for the permission.  *)
(***************************************************************************)
EXTENDS Naturals, Sequences, FiniteSets

CONSTANTS
  Permissions,   \* the permissions the buttons ask for
  MaxInFlight,   \* bound: calls in flight at once
  MaxFetches,    \* bound: calls made
  MaxProjected   \* bound: audit events projected

ASSUME PlatformConsoleAssumption ==
  MaxInFlight \in Nat /\ MaxFetches \in Nat /\ MaxProjected \in Nat

Forms == {"IdentityModule", "AssetVaultModule", "01", "02", "03"}
Evaluators == {"AccessControlConsole", "evaluator"}
Lists == {"AuditStream", "explorer"}
Wallets == {"WalletCard", "account"}
Places == Forms \cup Evaluators \cup Lists \cup Wallets

VARIABLES
  site,         \* the page that is open: "Home" or "Dashboard"
  activeModal,  \* Home: the dialog that is open, or "none"
  busy,         \* submitting, registering, minting, assigningRole, evaluating, loading
  permission,   \* the permission an evaluator shows as selected
  shown,        \* the answer a place shows
  fetches,      \* the calls in flight, oldest first
  projected,    \* external: audit events the API has projected so far
  made,         \* bound: calls made
  overlapping,   \* history: places that had two calls in flight
  broken        \* history: evaluators whose last call brought no answer

consoleVars ==
  <<site, activeModal, busy, permission, shown, fetches, projected, made, overlapping, broken>>

NoAnswer == [answered |-> FALSE, permission |-> "none", events |-> 0]

ConsoleInit ==
  /\ site \in {"Home", "Dashboard"} /\ activeModal = "none"
  /\ busy = [p \in Places |-> FALSE]
  /\ permission = [p \in Evaluators |-> "READ"]
  /\ shown = [p \in Places |-> NoAnswer]
  /\ fetches = <<>>
  /\ projected = 0 /\ made = 0
  /\ overlapping = {} /\ broken = {}
-----------------------------------------------------------------------------
(***************************************************************************)
(* Handlers: mark the place as busy and send the call.                         *)
(***************************************************************************)
InFlightOf(p) == {f \in DOMAIN fetches : fetches[f].place = p}

Fetch(p, asked) ==
  /\ Len(fetches) < MaxInFlight
  /\ made < MaxFetches /\ made' = made + 1
  /\ fetches' = Append(fetches, [place |-> p, permission |-> asked, answer |-> "none",
                                 events |-> 0])
  /\ overlapping' = IF InFlightOf(p) = {} THEN overlapping ELSE overlapping \cup {p}
  /\ busy' = [busy EXCEPT ![p] = p \notin Wallets]
  /\ UNCHANGED <<site, shown, projected, broken>>

\* The submit buttons of forms are disabled while busy.
\* Faulty variant: they are not.
AlwaysEnabled(p) == TRUE
SubmitEnabled(p) == ~ busy[p]
Submit(p) == SubmitEnabled(p) /\ Fetch(p, "none") /\ UNCHANGED permission

HandleRegister == site = "Dashboard" /\ Submit("IdentityModule") /\ UNCHANGED activeModal
HandleMintAsset == site = "Dashboard" /\ Submit("AssetVaultModule") /\ UNCHANGED activeModal
HandleRegisterIdentity == site = "Home" /\ activeModal = "01" /\ Submit("01") /\ UNCHANGED activeModal
HandleAssignRole == site = "Home" /\ activeModal = "02" /\ Submit("02") /\ UNCHANGED activeModal
HandleMintASAAsset == site = "Home" /\ activeModal = "03" /\ Submit("03") /\ UNCHANGED activeModal

Select(p, asked) == permission' = [permission EXCEPT ![p] = asked]

HandleEvaluate(asked) ==
  /\ site = "Dashboard" /\ ~ busy["AccessControlConsole"]
  /\ Select("AccessControlConsole", asked)
  /\ Fetch("AccessControlConsole", asked)
  /\ UNCHANGED activeModal

\* The buttons of the page are disabled while evaluating, those of dialog 04 are not.
HandleEvaluatePermission(asked) ==
  /\ site = "Home"
  /\ activeModal = "04" \/ (activeModal = "none" /\ ~ busy["evaluator"])
  /\ Select("evaluator", asked)
  /\ Fetch("evaluator", asked)
  /\ UNCHANGED activeModal

\* Refresh is not disabled, and opening the explorer loads the list again.
RefreshStream == /\ site = "Dashboard" /\ Fetch("AuditStream", "none")
                 /\ UNCHANGED <<permission, activeModal>>
OpenExplorer == /\ site = "Home" /\ activeModal = "none" /\ activeModal' = "audit"
                /\ Fetch("explorer", "none")
                /\ UNCHANGED permission

HandleGenerateWallet == /\ site = "Dashboard" /\ Fetch("WalletCard", "none")
                        /\ UNCHANGED <<permission, activeModal>>
HandleConnectWallet == /\ site = "Home" /\ activeModal = "none" /\ Fetch("account", "none")
                       /\ UNCHANGED <<permission, activeModal>>

\* A dialog opens from the page and closes at any time, calls in flight or not.
SetActiveModal ==
  /\ site = "Home"
  /\ IF activeModal = "none" THEN activeModal' \in {"01", "02", "03", "04"}
                             ELSE activeModal' = "none"
  /\ UNCHANGED <<site, busy, permission, shown, fetches, projected, made, overlapping, broken>>
-----------------------------------------------------------------------------
(***************************************************************************)
(* Answers.                                                                *)
(***************************************************************************)
\* The API answers with success or an error, or the answer is lost.  A list holds
\* the events projected until then.
ApiAnswers(f, a) ==
  /\ fetches[f].answer = "none"
  /\ IF fetches[f].place \in Lists THEN projected' \in projected..MaxProjected
                                     ELSE UNCHANGED projected
  /\ fetches' = [fetches EXCEPT ![f].answer = a,
                   ![f].events = IF fetches[f].place \in Lists THEN projected' ELSE 0]
  /\ UNCHANGED <<site, activeModal, busy, permission, shown, made, overlapping, broken>>

\* Forms, wallets and the explorer show successes, the stream those with events,
\* evaluators any answer.
Shows(q) == \/ q.answer = "ok" /\ (q.place = "AuditStream" => q.events > 0)
            \/ q.answer = "error" /\ q.place \in Evaluators

Shown(q) == IF Shows(q)
            THEN [answered |-> TRUE, permission |-> q.permission, events |-> q.events]
            ELSE shown[q.place]

Settle(f) ==
  LET q == fetches[f]
      p == q.place
  IN  /\ q.answer # "none"
      /\ shown' = [shown EXCEPT ![p] = Shown(q)]
      /\ busy' = [busy EXCEPT ![p] = FALSE]
      /\ broken' = IF p \notin Evaluators THEN broken
                   ELSE IF Shows(q) THEN broken \ {p} ELSE broken \cup {p}
      /\ fetches' = SubSeq(fetches, 1, f - 1) \o SubSeq(fetches, f + 1, Len(fetches))
      /\ UNCHANGED <<site, activeModal, permission, projected, made, overlapping>>

ConsoleNext ==
  \/ HandleRegister \/ HandleMintAsset
  \/ HandleRegisterIdentity \/ HandleAssignRole \/ HandleMintASAAsset
  \/ \E asked \in Permissions : HandleEvaluate(asked) \/ HandleEvaluatePermission(asked)
  \/ RefreshStream \/ OpenExplorer \/ HandleGenerateWallet \/ HandleConnectWallet
  \/ SetActiveModal
  \/ \E f \in DOMAIN fetches : Settle(f) \/ \E a \in {"ok", "error", "broken"} : ApiAnswers(f, a)
-----------------------------------------------------------------------------
(***************************************************************************)
(* Properties.                                                             *)
(***************************************************************************)
\* A form never has two submissions in flight, whatever dialog was closed and opened
\* meanwhile, and is busy exactly as long as one is: an identity, a role or an asset is
\* not registered twice by impatience.
OneSubmissionAtATime ==
  \A p \in Forms \cup {"AccessControlConsole"} :
    /\ Cardinality(InFlightOf(p)) <= 1
    /\ busy[p] <=> InFlightOf(p) # {}

\* When an evaluator is not busy, the verdict it shows is for the permission selected,
\* unless two evaluations overlapping or the last one brought no answer.
VerdictFitsPermission ==
  \A p \in Evaluators \ (overlapping \cup broken) :
    shown[p] # NoAnswer /\ ~ busy[p] => shown[p].permission = permission[p]

\* Busy marks, answers and what the user chose fit together on both pages.
AnswersFitThePage == OneSubmissionAtATime /\ VerdictFitsPermission
=============================================================================
