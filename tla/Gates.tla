------------------------------- MODULE Gates -------------------------------
(***************************************************************************)
(* The gates over specification, plan and test contract, and the inbox of  *)
(* escalations that block them: internal/gate, internal/gatepolicy,        *)
(* internal/escalation, and the orchestration of the two in app.go.        *)
(*                                                                         *)
(* Two append-only journals (see Journal) hold the requests with their     *)
(* decisions and the items of the inbox; here each is what Project makes   *)
(* of it.  workflowMu serializes everything that appends to either.  Only  *)
(* gateDecide holds it over several steps; the rest is one action each, or *)
(* comes back for it later, like a submission or an evidence run.  Nothing *)
(* stops the user from editing the files in between.                       *)
(*                                                                         *)
(* Abstracted: one plan with one task, so a gate has one subject; a digest *)
(* is the version of the tree it was taken of, and a commit of the plan    *)
(* its plan's version.  A reconciliation reads the trees at one time.  The *)
(* evidence run of a test contract stands for its two kinds.  gate3, which *)
(* nothing submits to, and with it expiry, is left out.                    *)
(***************************************************************************)
EXTENDS Integers, Sequences, FiniteSets

CONSTANTS
  Versions,       \* the contents a tree may have
  ManualScopes,   \* the scopes of the items that users create
  MaxRequests,    \* bound: requests
  MaxEdits,       \* bound: changes of a tree
  MaxFaults,      \* bound: failing appends
  MaxRestarts     \* bound: restarts

Gates == {"gate1", "gate2", "tca"}
Parts == {"spec", "plan", "oracle"}

ASSUME ConstantsAssumption ==
  /\ Versions \subseteq Nat \ {0} /\ Versions # {}
  /\ ManualScopes \subseteq {"workspace", "gate2", "tca"}
  /\ MaxRequests \in Nat /\ MaxEdits \in Nat /\ MaxFaults \in Nat /\ MaxRestarts \in Nat

VARIABLES
  tree,           \* the current content of each tree
  entries,        \* Project of the gate journal: one entry per request
  gateDown,       \* the gate journal is degraded
  found,          \* degraded: the entries if the failed line is in the file after all
  inbox,          \* Project of the escalation journal: conditions with an unresolved item
  escDown,        \* the escalation journal is degraded
  foundInbox,     \* degraded: the inbox if the failed line is in the file after all
  decide,         \* the decision that holds workflowMu
  submit,         \* a submission under way
  run,            \* an evidence run under way
  evidence,       \* the passed runs in the evidence journal
  edits, faults, restarts

gateVars == <<entries, gateDown, found>>
inboxVars == <<inbox, escDown, foundInbox>>
flows == <<decide, submit, run>>
counts == <<edits, faults, restarts>>
vars == <<tree, gateVars, inboxVars, flows, evidence, counts>>

-----------------------------------------------------------------------------
(* The inbox.  A condition is its kind and what it is about.  At most one of  *)
(* its items is unresolved; to acknowledge it does not change that.           *)
StaleItem(g) == <<"stale", g>>
MissingItem == <<"missing", "tca">>
JournalItem == <<"journal", "gate">>
PlannerItem == <<"planner", "codex">>
EvidenceItem == <<"evidence", "tca">>
ManualItem(scope) == <<"manual", scope>>

SystemConditions ==
  {StaleItem(g) : g \in Gates} \cup {MissingItem, JournalItem, PlannerItem, EvidenceItem}
Conditions == SystemConditions \cup {ManualItem(s) : s \in ManualScopes}

(* scopeForSubject, with one subject per gate. *)
Scope(g) == IF g = "gate1" THEN "workspace" ELSE g
BlockScope(c) ==
  CASE c[1] \in {"journal", "planner"} -> "workspace"
    [] c[1] = "manual" -> c[2]
    [] OTHER -> Scope(c[2])
Hard(c) == c[1] \in {"stale", "missing", "journal", "planner"}

(* BlockingFor. *)
Blocking(g) == {c \in inbox : BlockScope(c) \in {"workspace", Scope(g)}}

-----------------------------------------------------------------------------
(* Appending to the journals; ok tells whether it succeeded.  The line of a  *)
(* failed append may be found when the journal is opened again.              *)
GateAppend(new, ok) ==
  IF ok
  THEN ~gateDown /\ entries' = new /\ UNCHANGED <<gateDown, found, faults>>
  ELSE /\ UNCHANGED entries
       /\ \/ gateDown /\ UNCHANGED <<gateDown, found, faults>>
          \/ /\ ~gateDown /\ faults < MaxFaults
             /\ gateDown' = TRUE /\ found' = new /\ faults' = faults + 1

(* Each condition that gets an item (CreateSystem: unless it has one) or     *)
(* loses it (ResolveByKey) is a line; a failing one leaves those before it.  *)
Lines(new) == (new \ inbox) \cup (inbox \ new)
Partly(C) == (inbox \ C) \cup (C \ inbox)

InboxAppend(new, ok) ==
  IF ok
  THEN (escDown => new = inbox) /\ inbox' = new /\ UNCHANGED <<escDown, foundInbox, faults>>
  ELSE /\ new # inbox
       /\ \/ escDown /\ UNCHANGED <<inboxVars, faults>>
          \/ /\ ~escDown /\ faults < MaxFaults
             /\ \E C \in SUBSET Lines(new) : \E c \in Lines(new) \ C :
                  inbox' = Partly(C) /\ foundInbox' = Partly(C \cup {c})
             /\ escDown' = TRUE /\ faults' = faults + 1

-----------------------------------------------------------------------------
(* What the policies say of an entry. *)
Unbound == [p \in Parts |-> 0]
Drifted(e) == \E p \in Parts : e.seen[p] # 0 /\ e.seen[p] # tree[p]

(* TCAPolicy looks its gate2 approval up in the journal. *)
Rests(e, states) == e.up # 0 => states[e.up] = "active"
States == [i \in DOMAIN entries |-> entries[i].state]

Current(e) == ~Drifted(e) /\ Rests(e, States)

(* A durable reconciliation takes the entries in their order, so the entry a *)
(* test contract rests on has been marked when its own turn comes.           *)
Decays(i) ==
  LET e == entries[i]
  IN /\ e.state = "active"
     /\ ~Current(e) \/ (e.up # 0 /\ Drifted(entries[e.up]))

Marked(n) ==
  [i \in DOMAIN entries |->
     IF i <= n /\ Decays(i) THEN [entries[i] EXCEPT !.state = "stale"] ELSE entries[i]]

(* ListDetectOnly: the same question asked of the journal as it stands. *)
Shown(i) == IF entries[i].state = "active" /\ ~Current(entries[i]) THEN "stale" ELSE entries[i].state

(* Service.Reconcile.  It stops at an entry whose policy cannot read, or     *)
(* whose mark cannot be written, and leaves the marks before it.             *)
Pass ==
  /\ gateDown => Marked(Len(entries)) = entries
  /\ entries' = Marked(Len(entries))
  /\ UNCHANGED <<gateDown, found, faults>>

PassStops ==
  \E n \in 0..(Len(entries) - 1) :
    /\ gateDown => Marked(n) = entries
    /\ entries' = Marked(n)
    /\ \/ UNCHANGED <<gateDown, found, faults>>
       \/ /\ Decays(n + 1) /\ ~gateDown /\ faults < MaxFaults
          /\ gateDown' = TRUE /\ found' = Marked(n + 1) /\ faults' = faults + 1

(* Gates whose approval went stale and has not been replaced. *)
Lapsed(es) ==
  {g \in Gates : /\ \E i \in DOMAIN es : es[i].gate = g /\ es[i].state = "stale"
                 /\ \A i \in DOMAIN es : es[i].gate = g => es[i].state # "active"}

Degradation == IF gateDown THEN {JournalItem} ELSE {}

(* deviation: only what this pass has marked gets an item *)
Wanted_OnlyNew(es) ==
  (inbox \ {JournalItem}) \cup Degradation
    \cup {StaleItem(g) : g \in Lapsed(es) \ Lapsed(entries)}

(* The items reconcileLocked keeps for the authoritative state. *)
Wanted(es) ==
  (inbox \ {JournalItem}) \cup Degradation \cup {StaleItem(g) : g \in Lapsed(es)}

ReconcileLocked(ok) ==
  \/ ~ok /\ PassStops /\ UNCHANGED inboxVars
  \/ /\ gateDown => Marked(Len(entries)) = entries
     /\ entries' = Marked(Len(entries))
     /\ UNCHANGED <<gateDown, found>>
     /\ InboxAppend(Wanted(Marked(Len(entries))), ok)

-----------------------------------------------------------------------------
Undecided == [i |-> 0, verdict |-> "", at |-> "idle"]
NoSubmission == [gate |-> "", seen |-> Unbound, up |-> 0, base |-> 0, at |-> "idle"]
NoRun == [base |-> 0, passed |-> FALSE, at |-> "idle"]

MuFree == decide.at = "idle"

Init ==
  /\ tree \in [Parts -> {CHOOSE v \in Versions : TRUE}]
  /\ entries = <<>> /\ gateDown = FALSE /\ found = <<>>
  /\ inbox = {} /\ escDown = FALSE /\ foundInbox = {}
  /\ decide = Undecided /\ submit = NoSubmission /\ run = NoRun
  /\ evidence = {}
  /\ edits = 0 /\ faults = 0 /\ restarts = 0

(* The user, an editor or an AI session changes a tree, or restores it. *)
Edit(p) ==
  /\ edits < MaxEdits /\ edits' = edits + 1
  /\ \E v \in Versions \ {tree[p]} : tree' = [tree EXCEPT ![p] = v]
  /\ UNCHANGED <<gateVars, inboxVars, flows, evidence, faults, restarts>>

(* A watcher has seen a change.  A decision about a request that is not      *)
(* pending, and one whose reconciliation fails, does no more than this.      *)
Watch ==
  /\ MuFree
  /\ \E ok \in BOOLEAN : ReconcileLocked(ok)
  /\ UNCHANGED <<tree, flows, evidence, edits, restarts>>

-----------------------------------------------------------------------------
(* gateDecide *)
Goto(at) == decide' = [decide EXCEPT !.at = at]
Return == decide' = Undecided

Decide(i, verdict) ==
  /\ MuFree
  /\ entries[i].state = "pending"
  /\ ReconcileLocked(TRUE)
  /\ decide' = [i |-> i, verdict |-> verdict, at |-> "prepare"]
  /\ UNCHANGED <<tree, submit, run, evidence, edits, restarts>>

(* BuildDecision of a test contract: its evidence was made on the commit     *)
(* that its gate2 approval is about.                                         *)
EvidenceFits(e) == e.gate = "tca" => e.base = entries[e.up].seen["plan"]

(* deviation: bindings are not compared again *)
Prepare_NotRevalidated ==
  /\ decide.at = "prepare"
  /\ \/ Goto(IF decide.verdict = "approved" THEN "resolve" ELSE "check")
     \/ decide.verdict = "approved" /\ Return
  /\ UNCHANGED <<tree, gateVars, inboxVars, submit, run, evidence, counts>>

(* Service.PrepareDecision; what it reads may fail, and then it refuses. *)
Prepare ==
  /\ decide.at = "prepare"
  /\ LET e == entries[decide.i]
     IN \/ /\ decide.verdict = "approved"
           /\ \/ e.state = "pending" /\ Current(e) /\ EvidenceFits(e) /\ Goto("resolve")
              \/ Return
        \/ decide.verdict = "rejected" /\ e.state = "pending" /\ Goto("check")
  /\ UNCHANGED <<tree, gateVars, inboxVars, submit, run, evidence, counts>>

(* The corrected version is valid, so the item of the stale one is settled. *)
Resolve ==
  /\ decide.at = "resolve"
  /\ \E ok \in BOOLEAN :
       /\ InboxAppend(inbox \ {StaleItem(entries[decide.i].gate)}, ok)
       /\ IF ok THEN Goto("check") ELSE Return
  /\ UNCHANGED <<tree, gateVars, submit, run, evidence, edits, restarts>>

Check ==
  /\ decide.at = "check"
  /\ IF Blocking(entries[decide.i].gate) = {} THEN Goto("commit") ELSE Return
  /\ UNCHANGED <<tree, gateVars, inboxVars, submit, run, evidence, counts>>

(* deviation: the approval it replaces stays active *)
Decided_KeepsOld(d) == [entries EXCEPT ![d].state =
                          IF decide.verdict = "approved" THEN "active" ELSE "rejected"]

(* The record and the supersession of the approval it replaces, in one op. *)
Decided(d) ==
  IF decide.verdict = "rejected" THEN [entries EXCEPT ![d].state = "rejected"]
  ELSE [i \in DOMAIN entries |->
          IF i = d THEN [entries[i] EXCEPT !.state = "active"]
          ELSE IF entries[i].gate = entries[d].gate /\ entries[i].state = "active"
          THEN [entries[i] EXCEPT !.state = "superseded"] ELSE entries[i]]

Commit ==
  /\ decide.at = "commit"
  /\ entries[decide.i].state = "pending"
  /\ \E ok \in BOOLEAN : GateAppend(Decided(decide.i), ok)
  /\ Return
  /\ UNCHANGED <<tree, inboxVars, submit, run, evidence, edits, restarts>>

-----------------------------------------------------------------------------
(* Submissions: the bindings are put together without the lock, from what    *)
(* the list without a durable reconciliation shows.                          *)
ShownActive(g) == {i \in DOMAIN entries : entries[i].gate = g /\ Shown(i) = "active"}

Building(g, seen, up, base) ==
  submit' = [gate |-> g, seen |-> seen, up |-> up, base |-> base, at |-> "built"]

BuildGate1 == Building("gate1", [Unbound EXCEPT !["spec"] = tree["spec"]], 0, 0)

BuildGate2 ==
  \E i \in ShownActive("gate1") :
    Building("gate2", [Unbound EXCEPT !["spec"] = entries[i].seen["spec"],
                                      !["plan"] = tree["plan"]], 0, 0)

BuildTCA ==
  \E i \in ShownActive("gate2"), r \in evidence :
    Building("tca", [Unbound EXCEPT !["oracle"] = r.oracle], i, r.plan)

Build ==
  /\ submit.at = "idle" /\ Len(entries) < MaxRequests
  /\ BuildGate1 \/ BuildGate2 \/ BuildTCA
  /\ UNCHANGED <<tree, gateVars, inboxVars, decide, run, evidence, counts>>

(* ValidateRequest refuses a test commit that is not one. *)
Refuse ==
  /\ submit.at = "built" /\ submit.gate = "tca" /\ MuFree
  /\ \E ok \in BOOLEAN : InboxAppend(inbox \cup {MissingItem}, ok)
  /\ submit' = NoSubmission
  /\ UNCHANGED <<tree, gateVars, decide, run, evidence, edits, restarts>>

Submit ==
  /\ submit.at = "built" /\ MuFree
  /\ \E ok \in BOOLEAN :
       /\ GateAppend(Append(entries, [gate |-> submit.gate, seen |-> submit.seen,
                                      up |-> submit.up, base |-> submit.base,
                                      state |-> "pending"]), ok)
       /\ submit' = IF ok /\ submit.gate = "tca" THEN [submit EXCEPT !.at = "sent"]
                                                 ELSE NoSubmission
  /\ UNCHANGED <<tree, inboxVars, decide, run, evidence, edits, restarts>>

(* The request had its bindings: resolve the condition, under the lock again. *)
Sent ==
  /\ submit.at = "sent" /\ MuFree
  /\ \E ok \in BOOLEAN : InboxAppend(inbox \ {MissingItem}, ok)
  /\ submit' = NoSubmission
  /\ UNCHANGED <<tree, gateVars, decide, run, evidence, edits, restarts>>

-----------------------------------------------------------------------------
(* runEvidence: under the lock a durable reconciliation and the choice of    *)
(* the active gate2 approval; then the run, its record, and the inbox.       *)
ActiveIn(es, g) == {i \in DOMAIN es : es[i].gate = g /\ es[i].state = "active"}

RunStart ==
  /\ run.at = "idle" /\ MuFree
  /\ Pass
  /\ \E i \in ActiveIn(Marked(Len(entries)), "gate2") :
       run' = [base |-> entries[i].seen["plan"], passed |-> FALSE, at |-> "running"]
  /\ UNCHANGED <<tree, inboxVars, decide, submit, evidence, edits, restarts>>

(* No active gate2 approval, another one than the caller saw, or an error. *)
RunRefused ==
  /\ run.at = "idle" /\ MuFree
  /\ Pass \/ PassStops
  /\ UNCHANGED <<tree, inboxVars, flows, evidence, edits, restarts>>

RunFinish ==
  /\ run.at = "running"
  /\ \E passed \in BOOLEAN :
       /\ run' = [run EXCEPT !.passed = passed, !.at = "finished"]
       /\ evidence' = IF passed THEN evidence \cup {[plan |-> run.base, oracle |-> tree["oracle"]]}
                                ELSE evidence
  /\ UNCHANGED <<tree, gateVars, inboxVars, decide, submit, counts>>

RunWire ==
  /\ run.at = "finished" /\ MuFree
  /\ \E ok \in BOOLEAN :
       InboxAppend(IF run.passed THEN inbox \ {EvidenceItem} ELSE inbox \cup {EvidenceItem}, ok)
  /\ run' = NoRun
  /\ UNCHANGED <<tree, gateVars, decide, submit, evidence, edits, restarts>>

-----------------------------------------------------------------------------
(* The inbox's own operations. *)
InboxStep(new) ==
  /\ new # inbox
  /\ \E ok \in BOOLEAN : InboxAppend(new, ok)
  /\ UNCHANGED <<tree, gateVars, flows, evidence, edits, restarts>>

(* deviation: it does not wait for workflowMu *)
CreateManual_Unlocked(c) == InboxStep(inbox \cup {c})

(* One unresolved item per scope is enough to tell blocking from not. *)
CreateManual(c) == MuFree /\ InboxStep(inbox \cup {c})

ResolveManually(c) == MuFree /\ ~Hard(c) /\ InboxStep(inbox \ {c})

(* planAssist finds a violation of its confinement, or a clean run. *)
Planner ==
  /\ MuFree
  /\ InboxStep(inbox \cup {PlannerItem}) \/ InboxStep(inbox \ {PlannerItem})

(* The process ends and starts again.  Either journal may turn out to hold   *)
(* the line whose append had failed.                                         *)
Restart ==
  /\ restarts < MaxRestarts /\ restarts' = restarts + 1
  /\ entries' \in {entries} \cup (IF gateDown THEN {found} ELSE {})
  /\ inbox' \in {inbox} \cup (IF escDown THEN {foundInbox} ELSE {})
  /\ gateDown' = FALSE /\ escDown' = FALSE
  /\ found' = <<>> /\ foundInbox' = {}
  /\ decide' = Undecided /\ submit' = NoSubmission /\ run' = NoRun
  /\ UNCHANGED <<tree, evidence, edits, faults>>

Next ==
  \/ \E p \in Parts : Edit(p)
  \/ Watch
  \/ \E i \in DOMAIN entries, v \in {"approved", "rejected"} : Decide(i, v)
  \/ Prepare \/ Resolve \/ Check \/ Commit
  \/ Build \/ Refuse \/ Submit \/ Sent
  \/ RunStart \/ RunRefused \/ RunFinish \/ RunWire
  \/ \E s \in ManualScopes : CreateManual(ManualItem(s))
  \/ \E c \in Conditions : ResolveManually(c)
  \/ Planner
  \/ Restart

Spec == Init /\ [][Next]_vars

-----------------------------------------------------------------------------
Entry ==
  [gate : Gates, seen : [Parts -> Versions \cup {0}], up : Nat, base : Versions \cup {0},
   state : {"pending", "active", "stale", "superseded", "rejected"}]

JournalOK == entries \in Seq(Entry) /\ found \in Seq(Entry) /\ gateDown \in BOOLEAN
InboxOK == inbox \subseteq Conditions /\ foundInbox \subseteq Conditions /\ escDown \in BOOLEAN
FlowsOK ==
  /\ decide \in [i : Nat, verdict : {"", "approved", "rejected"},
                 at : {"idle", "prepare", "resolve", "check", "commit"}]
  /\ submit \in [gate : Gates \cup {""}, seen : [Parts -> Versions \cup {0}], up : Nat,
                 base : Versions \cup {0}, at : {"idle", "built", "sent"}]
  /\ run \in [base : Versions \cup {0}, passed : BOOLEAN, at : {"idle", "running", "finished"}]
FilesOK == tree \in [Parts -> Versions] /\ evidence \subseteq [plan : Versions \cup {0}, oracle : Versions]
CountsOK == edits \in Nat /\ faults \in Nat /\ restarts \in Nat

(* Every variable has its type. *)
TypeOK == JournalOK /\ InboxOK /\ FlowsOK /\ FilesOK /\ CountsOK

(* A gate never has two approvals in force, whatever of a decision was on    *)
(* disk when the process died: approval and supersession are one record.     *)
OneActivePerGate ==
  \A i, j \in DOMAIN entries :
    /\ entries[i].gate = entries[j].gate
    /\ entries[i].state = "active" /\ entries[j].state = "active"
    => i = j

Approves(i) ==
  /\ entries[i].state = "pending" /\ entries'[i].state = "active"
  /\ UNCHANGED restarts

(* An approval is recorded only while no unresolved item covers its scope,   *)
(* although the check is a step before the append and items come from        *)
(* everywhere.                                                               *)
NoApprovalUnderBlocker ==
  [][\A i \in DOMAIN entries : Approves(i) => Blocking(entries[i].gate) = {}]_vars

(* Once the approval of the specification is recorded as stale, nothing else *)
(* is approved before a new one is in force: its item is there in time, even *)
(* if it was refused by a full disk or settled by an attempt that failed.    *)
NoApprovalOverStaleSpec ==
  [][\A i \in DOMAIN entries :
       Approves(i) /\ entries[i].gate # "gate1" => "gate1" \notin Lapsed(entries)]_vars

(* A test contract is approved only over an approval of its plan that is in  *)
(* force then, with evidence made on the commit that approval is about.      *)
ContractRestsOnActivePlan ==
  [][\A i \in DOMAIN entries :
       Approves(i) /\ entries[i].gate = "tca" =>
         /\ entries[entries[i].up].state = "active"
         /\ entries[i].base = entries[entries[i].up].seen["plan"]]_vars

=============================================================================
