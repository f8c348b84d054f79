----------------------------- MODULE Approvals -----------------------------
(***************************************************************************)
(* The tool approvals of one session: internal/approval/broker.go for      *)
(* Claude, App.codexApproval for Codex, and the registry both share in     *)
(* app.go (apprPending, apprFrozen, all under apprMu).          *)
(*                                                                         *)
(* Four kinds of goroutine meet at a request:                              *)
(*   - the one that serves it and waits for a verdict or its timeout (one  *)
(*     per broker connection for Claude, one per server request for Codex);*)
(*   - the pump (Claude only), which takes requests off the broker's queue *)
(*     and registers, audits and shows them;                               *)
(*   - whoever resolves it: a click, or the deny of an end, a removal or a *)
(*     shutdown; the first one to take it from apprPending;                *)
(*   - freezeImplementationSession, which denies all that is pending.      *)
(* Every step between two mutex sections or channel operations is an       *)
(* action of its own; a decision's envelope and the dismissal of its       *)
(* dialog, which follows at once, are one.                                 *)
(*                                                                         *)
(* Abstracted: the manager queues and audits in the order of the calls     *)
(* (SessionManager), so audit lists the calls and the reducer is left out. *)
(***************************************************************************)
EXTENDS Integers, FiniteSets, Sequences

CONSTANTS
  Requests,       \* the requests; an id is fresh, so each is made once
  Providers,      \* the providers the session may be one of
  QueueCap        \* the capacity of Broker.pending

ASSUME ConstantsAssumption ==
  /\ IsFiniteSet(Requests)
  /\ Providers \subseteq {"claude", "codex"}
  /\ QueueCap \in Nat \ {0}

VARIABLES
  provider,       \* the provider of the session
  pc,             \* where the goroutine that serves a request is
  decided,        \* what it decided: a behavior or "timeout", "" before
  answer,         \* what the provider got
  waiters,        \* Broker.waiters
  pending,        \* Broker.pending
  pump,           \* the request the pump works on, and what it does next
  verdicts,       \* the channel of each request, capacity one; "" if empty
  registered,     \* App.apprPending
  frozen,         \* App.apprFrozen of this session
  claim,          \* how far the resolver that took the request has come
  verdict,        \* what it resolves the request to
  audit,          \* the approval envelopes of each request, in order
  shown           \* the dialogs a frontend has been told to show

serveVars == <<pc, decided, answer, waiters, verdicts>>
pumpVars == <<pending, pump>>
appVars == <<registered, frozen, claim, verdict>>
uiVars == <<audit, shown>>
vars == <<provider, serveVars, pumpVars, appVars, uiVars>>

Claude == IF provider = "claude" THEN Requests ELSE {}
Codex == IF provider = "codex" THEN Requests ELSE {}
NoPump == [r |-> "", at |-> "idle"]

Init ==
  /\ provider \in Providers
  /\ pc = [r \in Requests |-> "idle"]
  /\ decided = [r \in Requests |-> ""]
  /\ answer = [r \in Requests |-> ""]
  /\ waiters = {}
  /\ pending = <<>>
  /\ pump = NoPump
  /\ verdicts = [r \in Requests |-> ""]
  /\ registered = {}
  /\ frozen = FALSE
  /\ claim = [r \in Requests |-> "none"]
  /\ verdict = [r \in Requests |-> ""]
  /\ audit = [r \in Requests |-> <<>>]
  /\ shown = {}

-----------------------------------------------------------------------------
(* What the steps do.  What timed out is answered like a deny, and audited   *)
(* as what it is.                                                            *)
Behavior(d) == IF d = "timeout" THEN "deny" ELSE d
Goto(r, at) == pc' = [pc EXCEPT ![r] = at]
Decide(r, b) == decided' = [decided EXCEPT ![r] = b]

Register(r) == registered' = registered \cup {r}
Unregister(R) == registered' = registered \ R

(* EmitApprovalRequest and EmitApprovalDecision. *)
AuditRequest(r) == audit' = [audit EXCEPT ![r] = Append(@, "request")]
AuditDecision(r, what) == audit' = [audit EXCEPT ![r] = Append(@, what)]

-----------------------------------------------------------------------------
(* Claude: Broker.serve, and forwardToSocket at the other end of its socket. *)

Ask(r) ==
  /\ r \in Claude /\ pc[r] = "idle"
  /\ Goto(r, "offering")
  /\ waiters' = waiters \cup {r}
  /\ UNCHANGED <<decided, answer, verdicts, pumpVars, appVars, uiVars>>

(* The timer of the broker starts only when the queue has taken the request. *)
Offer(r) ==
  /\ pc[r] = "offering"
  /\ Len(pending) < QueueCap
  /\ pending' = Append(pending, r)
  /\ Goto(r, "waiting")
  /\ UNCHANGED <<decided, answer, waiters, verdicts, pump, appVars, uiVars>>

(* The asking process has its own deadline, five seconds after the broker's; *)
(* it matters when the broker is held up by its queue.                       *)
GiveUp(r) ==
  /\ pc[r] = "offering" /\ Len(pending) = QueueCap
  /\ answer[r] = ""
  /\ answer' = [answer EXCEPT ![r] = "deny"]
  /\ UNCHANGED <<pc, decided, waiters, verdicts, pumpVars, appVars, uiVars>>

(* Both ready: select takes either the verdict or the timeout. *)
TakeVerdict(r) ==
  /\ pc[r] = "waiting" /\ verdicts[r] # ""
  /\ Goto(r, "decided")
  /\ Decide(r, verdicts[r])
  /\ verdicts' = [verdicts EXCEPT ![r] = ""]
  /\ UNCHANGED <<answer, waiters, pumpVars, appVars, uiVars>>

(* deviation: the timeout lets the call through *)
Expire_Allows(r) ==
  /\ pc[r] = "waiting"
  /\ Goto(r, "expired")
  /\ Decide(r, "allow")
  /\ UNCHANGED <<answer, waiters, verdicts, pumpVars, appVars, uiVars>>

(* deviation: the broker waits without a timer *)
Expire_CodexOnly(r) ==
  /\ r \in Codex /\ pc[r] = "waiting"
  /\ Goto(r, "expired")
  /\ Decide(r, "timeout")
  /\ UNCHANGED <<answer, waiters, verdicts, pumpVars, appVars, uiVars>>

Expire(r) ==
  /\ pc[r] = "waiting"
  /\ Goto(r, "expired")
  /\ Decide(r, "timeout")
  /\ UNCHANGED <<answer, waiters, verdicts, pumpVars, appVars, uiVars>>

(* The timeout hook, and codexApproval's own timeout branch: forget the      *)
(* request, audit the timeout (Codex: as the decision, in CodexReply),       *)
(* dismiss the dialog.                                                       *)
Forget(r) ==
  /\ pc[r] = "expired"
  /\ Goto(r, "forgotten")
  /\ Unregister({r})
  /\ UNCHANGED <<decided, answer, waiters, verdicts, pumpVars, frozen, claim, verdict, uiVars>>

AuditTimeout(r) ==
  /\ pc[r] = "forgotten"
  /\ Goto(r, "decided")
  /\ IF r \in Claude THEN AuditDecision(r, "timeout") ELSE UNCHANGED audit
  /\ shown' = shown \ {r}
  /\ UNCHANGED <<decided, answer, waiters, verdicts, pumpVars, appVars>>

Answered(r) == answer' = [answer EXCEPT ![r] = IF @ = "" THEN Behavior(decided[r]) ELSE @]

Reply(r) ==
  /\ r \in Claude /\ pc[r] = "decided"
  /\ Goto(r, "answered")
  /\ waiters' = waiters \ {r}
  /\ Answered(r)
  /\ UNCHANGED <<decided, verdicts, pumpVars, appVars, uiVars>>

-----------------------------------------------------------------------------
(* Claude: App.pumpApprovals. *)
PumpRegister ==
  /\ pump = NoPump /\ pending # <<>>
  /\ pump' = [r |-> Head(pending), at |-> "auditing"]
  /\ pending' = Tail(pending)
  /\ Register(Head(pending))
  /\ UNCHANGED <<serveVars, frozen, claim, verdict, uiVars>>

PumpAudit ==
  /\ pump.at = "auditing"
  /\ pump' = [pump EXCEPT !.at = "showing"]
  /\ AuditRequest(pump.r)
  /\ UNCHANGED <<serveVars, pending, appVars, shown>>

PumpShow ==
  /\ pump.at = "showing"
  /\ pump' = NoPump
  /\ shown' = shown \cup {pump.r}
  /\ UNCHANGED <<serveVars, pending, appVars, audit>>

-----------------------------------------------------------------------------
(* Codex: App.codexApproval, all in the goroutine of the server request. *)
CodexRegister(r) ==
  /\ r \in Codex /\ pc[r] = "idle"
  /\ Goto(r, "auditing")
  /\ Register(r)
  /\ UNCHANGED <<decided, answer, waiters, verdicts, pumpVars, frozen, claim, verdict, uiVars>>

CodexAudit(r) ==
  /\ pc[r] = "auditing"
  /\ Goto(r, "showing")
  /\ AuditRequest(r)
  /\ UNCHANGED <<decided, answer, waiters, verdicts, pumpVars, appVars, shown>>

CodexShow(r) ==
  /\ pc[r] = "showing"
  /\ Goto(r, "waiting")
  /\ shown' = shown \cup {r}
  /\ UNCHANGED <<decided, answer, waiters, verdicts, pumpVars, appVars, audit>>

(* deviation: the audit takes the user's word instead of what was decided *)
CodexReply_AuditsVerdict(r) ==
  /\ r \in Codex /\ pc[r] = "decided"
  /\ Goto(r, "answered")
  /\ Answered(r)
  /\ AuditDecision(r, IF verdict[r] = "" THEN decided[r] ELSE verdict[r])
  /\ UNCHANGED <<decided, waiters, verdicts, pumpVars, appVars, shown>>

CodexReply(r) ==
  /\ r \in Codex /\ pc[r] = "decided"
  /\ Goto(r, "answered")
  /\ Answered(r)
  /\ AuditDecision(r, decided[r])
  /\ UNCHANGED <<decided, waiters, verdicts, pumpVars, appVars, shown>>

-----------------------------------------------------------------------------
(* Resolving. *)

(* deviation: the freeze is not looked at *)
ResolveApproval_IgnoresFreeze(r, v) ==
  /\ r \in registered
  /\ v = "allow" => r \in shown
  /\ Unregister({r})
  /\ claim' = [claim EXCEPT ![r] = "taken"]
  /\ verdict' = [verdict EXCEPT ![r] = v]
  /\ UNCHANGED <<serveVars, pumpVars, frozen, uiVars>>

(* The section of resolveApproval under apprMu.  A user answers a dialog;    *)
(* an end, a removal or a shutdown denies whatever is registered.            *)
ResolveApproval(r, v) ==
  /\ r \in registered
  /\ v = "allow" => r \in shown
  /\ v = "allow" => ~frozen
  /\ Unregister({r})
  /\ claim' = [claim EXCEPT ![r] = "taken"]
  /\ verdict' = [verdict EXCEPT ![r] = v]
  /\ UNCHANGED <<serveVars, pumpVars, frozen, uiVars>>

(* freezeImplementationSession under both mutexes: freeze and drain. *)
Freeze ==
  /\ ~frozen
  /\ frozen' = TRUE
  /\ Unregister(registered)
  /\ claim' = [r \in Requests |-> IF r \in registered THEN "drained" ELSE claim[r]]
  /\ verdict' = [r \in Requests |-> IF r \in registered THEN "deny" ELSE verdict[r]]
  /\ UNCHANGED <<serveVars, pumpVars, uiVars>>

(* Broker.Resolve fails when nobody waits any more; Codex always sends. *)
Deliver(r) ==
  /\ claim[r] \in {"taken", "drained"}
  /\ claim' = [claim EXCEPT ![r] = IF @ = "taken" THEN "delivered" ELSE "drainedDelivered"]
  /\ \/ /\ r \in waiters \cup Codex
        /\ verdicts[r] = ""
        /\ verdicts' = [verdicts EXCEPT ![r] = verdict[r]]
     \/ /\ r \notin waiters \cup Codex
        /\ UNCHANGED verdicts
  /\ UNCHANGED <<pc, decided, answer, waiters, pumpVars, registered, frozen, verdict, uiVars>>

(* Claude's resolve callback audits the verdict, delivered or not; then the  *)
(* dialog is dismissed, except for what a freeze drained.                    *)
FinishResolve(r) ==
  /\ claim[r] \in {"delivered", "drainedDelivered"}
  /\ claim' = [claim EXCEPT ![r] = "done"]
  /\ IF r \in Claude THEN AuditDecision(r, verdict[r]) ELSE UNCHANGED audit
  /\ shown' = IF claim[r] = "delivered" THEN shown \ {r} ELSE shown
  /\ UNCHANGED <<serveVars, pumpVars, registered, frozen, verdict>>

-----------------------------------------------------------------------------
Serve(r) ==
  \/ Offer(r) \/ TakeVerdict(r) \/ Expire(r) \/ Forget(r) \/ AuditTimeout(r)
  \/ Reply(r)
  \/ CodexAudit(r) \/ CodexShow(r) \/ CodexReply(r)
Request(r) == Ask(r) \/ CodexRegister(r)
Pump == PumpRegister \/ PumpAudit \/ PumpShow
Resolver(r) == Deliver(r) \/ FinishResolve(r)

Next ==
  /\ \/ \E r \in Requests :
          \/ Request(r) \/ Serve(r) \/ GiveUp(r) \/ Resolver(r)
          \/ \E v \in {"allow", "deny"} : ResolveApproval(r, v)
     \/ Pump
     \/ Freeze
  /\ UNCHANGED provider

Spec == Init /\ [][Next]_vars

(* The goroutines that serve, pump and resolve run on; nobody has to ask or  *)
(* to click.  The timeout of a request is part of serving it.                *)
Fairness ==
  /\ \A r \in Requests : /\ WF_vars(Serve(r) /\ UNCHANGED provider)
                          /\ WF_vars(Resolver(r) /\ UNCHANGED provider)
  /\ WF_vars(Pump /\ UNCHANGED provider)

FairSpec == Spec /\ Fairness

-----------------------------------------------------------------------------
(* Every variable has its type. *)
Behaviors == {"allow", "deny"}
Decisions == Behaviors \cup {"timeout"}
ServeOK ==
  /\ pc \in [Requests -> {"idle", "offering", "auditing", "showing", "waiting", "expired",
                          "forgotten", "decided", "answered"}]
  /\ decided \in [Requests -> Decisions \cup {""}]
  /\ answer \in [Requests -> Behaviors \cup {""}]
  /\ waiters \subseteq Requests
  /\ verdicts \in [Requests -> Behaviors \cup {""}]
PumpOK ==
  /\ pending \in Seq(Requests) /\ Len(pending) <= QueueCap
  /\ pump = [r |-> pump.r, at |-> pump.at]
  /\ pump.at \in {"idle", "auditing", "showing"}
  /\ pump.at # "idle" => pump.r \in Requests
AppOK ==
  /\ registered \subseteq Requests
  /\ frozen \in BOOLEAN
  /\ claim \in [Requests -> {"none", "taken", "drained", "delivered", "drainedDelivered",
                             "done"}]
  /\ verdict \in [Requests -> Behaviors \cup {""}]
UiOK ==
  /\ audit \in [Requests -> Seq({"request"} \cup Decisions)]
  /\ shown \subseteq Requests
TypeOK == provider \in Providers /\ ServeOK /\ PumpOK /\ AppOK /\ UiOK

(* A provider is told "allow" only when a user allowed that very request:    *)
(* no timeout, freeze, full queue or lost waiter turns into an allow.        *)
FailClosed == \A r \in Requests : answer[r] = "allow" => verdict[r] = "allow"

(* What nobody had allowed when the session froze is never answered "allow": *)
(* not a request the freeze drained, and not one that was still in the queue *)
(* or with the pump and reaches the registry, its dialog and a click only    *)
(* afterwards (freezeImplementationSession, resolveApproval, pumpApprovals). *)
FrozenStaysClosed ==
  \A r \in Requests :
    []((frozen /\ verdict[r] # "allow") => [](answer[r] # "allow"))

(* The channel of a request is empty when its verdict is sent, so a resolver *)
(* is never held up in Broker.Resolve.                                       *)
RoomForVerdict == \A r \in Requests : claim[r] \in {"taken", "drained"} => verdicts[r] = ""

(* Every request is answered in the end, whether or not anybody decides.     *)
EventuallyAnswered == \A r \in Requests : pc[r] # "idle" ~> answer[r] # ""

-----------------------------------------------------------------------------
(* The audit of an answered Codex request is the request and then, once, the *)
(* decision its answer follows from: somebody's verdict, or "timeout" and    *)
(* the answer is a deny, even if a verdict came too late to be taken.        *)
(* Verdict, freeze and timer meet in one goroutine, which audits what it is  *)
(* about to answer (codexApproval).                                          *)
CodexAuditNamesAnswer ==
  \A r \in Codex : pc[r] = "answered" =>
    \E d \in {verdict[r], "timeout"} : /\ audit[r] = <<"request", d>>
                                       /\ answer[r] = Behavior(d)

=============================================================================
