--------------------------- MODULE ApprovalsProofs ---------------------------
(***************************************************************************)
(* What holds of Approvals for any requests and any capacity of the queue: *)
(* an allow is always a user's, a frozen session accepts none, and whoever *)
(* sends a verdict finds room for it.  From "ReplayIndex" on: an index that *)
(* claims to be in order holds each turn of the audit once.                *)
(***************************************************************************)
EXTENDS Approvals, ReplayIndex, SequenceTheorems, FiniteSetTheorems, WellFoundedInduction, TLAPS

Late == {"expired", "forgotten", "decided", "answered"}
Early == {"idle", "offering"}

(* A goroutine that is past its select has decided, and a resolver has a     *)
(* verdict.                                                                  *)
Decisive ==
  \A r \in Requests : /\ pc[r] \in Late => decided[r] \in Decisions
                      /\ claim[r] # "none" => verdict[r] \in Behaviors
                      /\ claim[r] = "none" => verdict[r] = ""

(* A request is in the queue at most once, and it enters the registry only   *)
(* once, from the queue (Claude) or from its own goroutine (Codex); until    *)
(* somebody takes it out again nobody has decided it.                        *)
QueuedOnce ==
  /\ \A i, j \in 1..Len(pending) : pending[i] = pending[j] => i = j
  /\ \A i \in 1..Len(pending) : /\ pc[pending[i]] \notin Early
                                /\ pending[i] \notin registered
                                /\ claim[pending[i]] = "none"
Unclaimed ==
  \A r \in Requests : /\ r \in registered => claim[r] = "none" /\ pc[r] \notin Early
                      /\ pc[r] \in Early => claim[r] = "none"

(* What a request's channel, goroutine and provider hold comes from the      *)
(* verdict (or the time was up), and the channel is filled once.             *)
Faithful ==
  \A r \in Requests :
    /\ verdicts[r] \in {"", verdict[r]}
    /\ decided[r] \in {"", "timeout", verdict[r]}
    /\ answer[r] = "allow" => verdict[r] = "allow"
    /\ claim[r] \in {"none", "taken", "drained"} => verdicts[r] = ""

Inv == TypeOK /\ Decisive /\ QueuedOnce /\ Unclaimed /\ Faithful

-----------------------------------------------------------------------------
LEMMA InvInit == Init => Inv
<1> SUFFICES ASSUME Init PROVE Inv
  OBVIOUS
<1>1. pending = <<>> /\ Len(pending) = 0 /\ pending \in Seq(Requests)
  BY EmptySeq DEF Init
<1>2. ServeOK
  BY DEF Init, ServeOK
<1>3. PumpOK
  <2>1. pump = [r |-> pump.r, at |-> pump.at] /\ pump.at = "idle"
    BY DEF Init, NoPump
  <2>2. Len(pending) <= QueueCap
    BY <1>1, ConstantsAssumption
  <2> QED
    BY <1>1, <2>1, <2>2 DEF PumpOK
<1>4. AppOK
  BY DEF Init, AppOK
<1>5. UiOK
  BY EmptySeq DEF Init, UiOK
<1>6. TypeOK
  BY <1>2, <1>3, <1>4, <1>5 DEF Init, TypeOK
<1>7. Decisive /\ Unclaimed /\ Faithful
  BY DEF Init, Decisive, Unclaimed, Faithful, Late
<1>8. QueuedOnce
  BY <1>1 DEF QueuedOnce
<1> QED
  BY <1>6, <1>7, <1>8 DEF Inv

(* The types. *)
LEMMA ServeOKStep == Inv /\ [Next]_vars => ServeOK'
<1> SUFFICES ASSUME Inv, [Next]_vars PROVE ServeOK'
  OBVIOUS
<1> USE DEF ServeOK, Inv, TypeOK, AppOK, Goto, Decide, Answered, Behavior, Behaviors, Decisions,
    serveVars
<1>1. ASSUME NEW r \in Requests, Request(r) \/ Serve(r) \/ GiveUp(r) PROVE ServeOK'
  <2>1. CASE Ask(r) \/ CodexRegister(r) \/ GiveUp(r)
    BY <2>1 DEF Ask, CodexRegister, GiveUp
  <2>2. CASE Offer(r) \/ TakeVerdict(r) \/ Expire(r)
    BY <2>2 DEF Offer, TakeVerdict, Expire
  <2>3. CASE Forget(r) \/ AuditTimeout(r) \/ Reply(r)
    BY <2>3 DEF Forget, AuditTimeout, Reply
  <2>4. CASE CodexAudit(r) \/ CodexShow(r) \/ CodexReply(r)
    BY <2>4 DEF CodexAudit, CodexShow, CodexReply
  <2> QED
    BY <1>1, <2>1, <2>2, <2>3, <2>4 DEF Request, Serve
<1>2. ASSUME NEW r \in Requests, Resolver(r) PROVE ServeOK'
  BY <1>2 DEF Resolver, Deliver, FinishResolve
<1>3. ASSUME NEW r \in Requests, NEW v \in {"allow", "deny"}, ResolveApproval(r, v) PROVE ServeOK'
  BY <1>3 DEF ResolveApproval
<1>4. ASSUME Pump \/ Freeze PROVE ServeOK'
  BY <1>4 DEF Pump, PumpRegister, PumpAudit, PumpShow, Freeze
<1>5. ASSUME UNCHANGED vars PROVE ServeOK'
  BY <1>5 DEF vars
<1> QED
  BY <1>1, <1>2, <1>3, <1>4, <1>5 DEF Next

LEMMA PumpOKStep == Inv /\ [Next]_vars => PumpOK'
<1> SUFFICES ASSUME Inv, [Next]_vars PROVE PumpOK'
  OBVIOUS
<1> USE DEF PumpOK, Inv, TypeOK, pumpVars
<1>1. ASSUME NEW r \in Requests, Request(r) \/ Serve(r) \/ GiveUp(r) PROVE PumpOK'
  <2>1. CASE Offer(r)
    <3>1. Append(pending, r) \in Seq(Requests) /\ Len(Append(pending, r)) = Len(pending) + 1
      BY AppendProperties
    <3>2. Len(pending) \in Nat /\ QueueCap \in Nat
      BY LenProperties, ConstantsAssumption
    <3> QED
      BY <2>1, <3>1, <3>2 DEF Offer
  <2>2. CASE ~Offer(r)
    BY <1>1, <2>2 DEF Request, Serve, Ask, CodexRegister, GiveUp, TakeVerdict, Expire, Forget,
       AuditTimeout, Reply, CodexAudit, CodexShow, CodexReply
  <2> QED
    BY <2>1, <2>2
<1>2. ASSUME NEW r \in Requests, Resolver(r) PROVE PumpOK'
  BY <1>2 DEF Resolver, Deliver, FinishResolve
<1>3. ASSUME NEW r \in Requests, NEW v \in {"allow", "deny"}, ResolveApproval(r, v) PROVE PumpOK'
  BY <1>3 DEF ResolveApproval
<1>4. ASSUME PumpRegister PROVE PumpOK'
  <2>1. /\ Head(pending) \in Requests /\ Tail(pending) \in Seq(Requests)
        /\ Len(Tail(pending)) = Len(pending) - 1
    BY <1>4, HeadTailProperties DEF PumpRegister
  <2>2. Len(pending) \in Nat /\ QueueCap \in Nat
    BY LenProperties, ConstantsAssumption
  <2> QED
    BY <1>4, <2>1, <2>2 DEF PumpRegister
<1>5. ASSUME PumpAudit \/ PumpShow PROVE PumpOK'
  <2>1. CASE PumpAudit
    <3>1. pump' = [r |-> pump.r, at |-> "showing"]
      BY <2>1 DEF PumpAudit
    <3>2. pump' = [r |-> pump'.r, at |-> pump'.at] /\ pump'.at = "showing" /\ pump'.r = pump.r
      BY <3>1
    <3> QED
      BY <2>1, <3>2 DEF PumpAudit
  <2>2. CASE PumpShow
    <3>1. pump' = [r |-> pump'.r, at |-> pump'.at] /\ pump'.at = "idle"
      BY <2>2 DEF PumpShow, NoPump
    <3> QED
      BY <2>2, <3>1 DEF PumpShow
  <2> QED
    BY <1>5, <2>1, <2>2
<1>6. ASSUME Freeze PROVE PumpOK'
  BY <1>6 DEF Freeze
<1>7. ASSUME UNCHANGED vars PROVE PumpOK'
  BY <1>7 DEF vars
<1> QED
  BY <1>1, <1>2, <1>3, <1>4, <1>5, <1>6, <1>7 DEF Next, Pump

LEMMA AppOKStep == Inv /\ [Next]_vars => AppOK'
<1> SUFFICES ASSUME Inv, [Next]_vars PROVE AppOK'
  OBVIOUS
<1> USE DEF AppOK, Inv, TypeOK, Register, Unregister, Behaviors, appVars
<1>1. ASSUME NEW r \in Requests, Request(r) \/ Serve(r) \/ GiveUp(r) PROVE AppOK'
  BY <1>1 DEF Request, Serve, Ask, CodexRegister, GiveUp, Offer, TakeVerdict, Expire, Forget,
     AuditTimeout, Reply, CodexAudit, CodexShow, CodexReply
<1>2. ASSUME NEW r \in Requests, Resolver(r) PROVE AppOK'
  BY <1>2 DEF Resolver, Deliver, FinishResolve
<1>3. ASSUME NEW r \in Requests, NEW v \in {"allow", "deny"}, ResolveApproval(r, v) PROVE AppOK'
  BY <1>3 DEF ResolveApproval
<1>4. ASSUME PumpRegister PROVE AppOK'
  BY <1>4, HeadTailProperties DEF PumpRegister, PumpOK
<1>5. ASSUME PumpAudit \/ PumpShow PROVE AppOK'
  BY <1>5 DEF PumpAudit, PumpShow
<1>6. ASSUME Freeze PROVE AppOK'
  BY <1>6 DEF Freeze
<1>7. ASSUME UNCHANGED vars PROVE AppOK'
  BY <1>7 DEF vars
<1> QED
  BY <1>1, <1>2, <1>3, <1>4, <1>5, <1>6, <1>7 DEF Next, Pump

LEMMA UiOKStep == Inv /\ [Next]_vars => UiOK'
<1> SUFFICES ASSUME Inv, [Next]_vars PROVE UiOK'
  OBVIOUS
<1> USE DEF UiOK, Inv, TypeOK, Behaviors, Decisions, AuditRequest, AuditDecision, uiVars
<1> DEFINE Whats == {"request"} \cup Decisions
<1>1. ASSUME NEW r \in Requests, NEW what \in Whats, audit' = [audit EXCEPT ![r] = Append(@, what)]
      PROVE  audit' \in [Requests -> Seq(Whats)]
  <2>1. Append(audit[r], what) \in Seq(Whats)
    BY AppendProperties
  <2> QED
    BY <1>1, <2>1
<1>2. ASSUME NEW r \in Requests, Request(r) \/ Serve(r) \/ GiveUp(r) PROVE UiOK'
  <2>1. CASE CodexAudit(r)
    BY <1>1, <2>1 DEF CodexAudit
  <2>2. CASE AuditTimeout(r)
    BY <1>1, <2>2 DEF AuditTimeout
  <2>3. CASE CodexReply(r)
    BY <1>1, <2>3 DEF CodexReply, Decisive, Late
  <2>4. CASE CodexShow(r)
    BY <2>4 DEF CodexShow
  <2>5. CASE Request(r) \/ GiveUp(r) \/ Offer(r) \/ TakeVerdict(r) \/ Expire(r) \/ Forget(r) \/ Reply(r)
    BY <2>5 DEF Request, Ask, CodexRegister, GiveUp, Offer, TakeVerdict, Expire, Forget, Reply
  <2> QED
    BY <1>2, <2>1, <2>2, <2>3, <2>4, <2>5 DEF Serve
<1>3. ASSUME NEW r \in Requests, Resolver(r) PROVE UiOK'
  <2>1. CASE Deliver(r)
    BY <2>1 DEF Deliver
  <2>2. CASE FinishResolve(r)
    BY <1>1, <2>2 DEF FinishResolve, Decisive
  <2> QED
    BY <1>3, <2>1, <2>2 DEF Resolver
<1>4. ASSUME NEW r \in Requests, NEW v \in {"allow", "deny"}, ResolveApproval(r, v) PROVE UiOK'
  BY <1>4 DEF ResolveApproval
<1>5. ASSUME PumpRegister \/ Freeze PROVE UiOK'
  BY <1>5 DEF PumpRegister, Freeze
<1>6. ASSUME PumpAudit PROVE UiOK'
  BY <1>1, <1>6 DEF PumpAudit, PumpOK
<1>7. ASSUME PumpShow PROVE UiOK'
  BY <1>7 DEF PumpShow, PumpOK
<1>8. ASSUME UNCHANGED vars PROVE UiOK'
  BY <1>8 DEF vars
<1> QED
  BY <1>2, <1>3, <1>4, <1>5, <1>6, <1>7, <1>8 DEF Next, Pump

LEMMA TypeOKStep == Inv /\ [Next]_vars => TypeOK'
<1>1. Inv /\ [Next]_vars => (provider \in Providers)'
  BY DEF Inv, TypeOK, Next, vars
<1> QED
  BY <1>1, ServeOKStep, PumpOKStep, AppOKStep, UiOKStep DEF TypeOK

-----------------------------------------------------------------------------
(* The rest of the invariant. *)
LEMMA DecisiveStep == Inv /\ [Next]_vars => Decisive'
<1> SUFFICES ASSUME Inv, [Next]_vars PROVE Decisive'
  OBVIOUS
<1>0. ServeOK /\ AppOK /\ Decisive
  BY DEF Inv, TypeOK
<1> USE <1>0 DEF Decisive, ServeOK, AppOK, Goto, Decide, Behaviors, Decisions, Late, serveVars, appVars
<1>1. ASSUME NEW r \in Requests, Request(r) \/ GiveUp(r) PROVE Decisive'
  BY <1>1 DEF Request, Ask, CodexRegister, GiveUp
<1>2. ASSUME NEW r \in Requests, Serve(r) PROVE Decisive'
  <2>1. CASE TakeVerdict(r) \/ Expire(r)
    <3>1. PICK b \in Decisions : decided' = [decided EXCEPT ![r] = b]
      BY <2>1 DEF TakeVerdict, Expire
    <3>2. claim' = claim /\ verdict' = verdict /\ \A s \in Requests \ {r} : pc'[s] = pc[s]
      BY <2>1 DEF TakeVerdict, Expire
    <3> QED
      BY <3>1, <3>2
  <2>2. CASE Offer(r) \/ Forget(r) \/ AuditTimeout(r) \/ Reply(r)
    BY <2>2 DEF Offer, Forget, AuditTimeout, Reply
  <2>3. CASE CodexAudit(r) \/ CodexShow(r) \/ CodexReply(r)
    BY <2>3 DEF CodexAudit, CodexShow, CodexReply
  <2> QED
    BY <1>2, <2>1, <2>2, <2>3 DEF Serve
<1>3. ASSUME NEW r \in Requests, Resolver(r) PROVE Decisive'
  <2>1. pc' = pc /\ decided' = decided /\ verdict' = verdict
    BY <1>3 DEF Resolver, Deliver, FinishResolve
  <2>2. /\ claim[r] # "none" /\ claim'[r] # "none"
        /\ \A s \in Requests \ {r} : claim'[s] = claim[s]
    BY <1>3 DEF Resolver, Deliver, FinishResolve
  <2> QED
    BY <2>1, <2>2
<1>4. ASSUME NEW r \in Requests, NEW v \in {"allow", "deny"}, ResolveApproval(r, v) PROVE Decisive'
  BY <1>4 DEF ResolveApproval
<1>5. ASSUME Pump PROVE Decisive'
  BY <1>5 DEF Pump, PumpRegister, PumpAudit, PumpShow
<1>6. ASSUME Freeze PROVE Decisive'
  BY <1>6 DEF Freeze
<1>7. ASSUME UNCHANGED vars PROVE Decisive'
  BY <1>7 DEF vars
<1> QED
  BY <1>1, <1>2, <1>3, <1>4, <1>5, <1>6, <1>7 DEF Next

LEMMA QueuedOnceStep == Inv /\ [Next]_vars => QueuedOnce'
<1> SUFFICES ASSUME Inv, [Next]_vars PROVE QueuedOnce'
  OBVIOUS
<1>0. /\ QueuedOnce /\ Unclaimed
      /\ pending \in Seq(Requests)
      /\ DOMAIN pc = Requests /\ DOMAIN claim = Requests
  BY DEF Inv, TypeOK, ServeOK, PumpOK, AppOK
<1>1. Len(pending) \in Nat /\ \A i \in 1..Len(pending) : pending[i] \in Requests
  BY <1>0, LenProperties, ElementOfSeq
<1> USE <1>0 DEF Goto, Register, Unregister, Early, serveVars, pumpVars, appVars
<1>2. ASSUME NEW r \in Requests, Request(r) \/ GiveUp(r) PROVE QueuedOnce'
  <2>1. CASE Ask(r)
    BY <1>1, <2>1 DEF Ask, QueuedOnce
  <2>2. CASE CodexRegister(r)
    BY <1>1, <2>2 DEF CodexRegister, QueuedOnce
  <2>3. CASE GiveUp(r)
    BY <1>1, <2>3 DEF GiveUp, QueuedOnce
  <2> QED
    BY <1>2, <2>1, <2>2, <2>3 DEF Request
<1>3. ASSUME NEW r \in Requests, Offer(r) PROVE QueuedOnce'
  <2>1. /\ Len(pending') = Len(pending) + 1
        /\ \A i \in 1..Len(pending) : pending'[i] = pending[i]
        /\ pending'[Len(pending) + 1] = r
    BY <1>3, AppendProperties DEF Offer
  <2>2. pc[r] \in Early /\ r \notin registered /\ claim[r] = "none" /\ pc'[r] \notin Early
    BY <1>3 DEF Offer, Unclaimed
  <2>3. \A i \in 1..Len(pending) : pending[i] # r
    BY <2>2 DEF QueuedOnce
  <2>4. \A i \in 1..Len(pending') : i \in 1..Len(pending) \/ i = Len(pending) + 1
    BY <1>1, <2>1
  <2>5. \A i, j \in 1..Len(pending') : pending'[i] = pending'[j] => i = j
    BY <2>1, <2>3, <2>4 DEF QueuedOnce
  <2>6. \A i \in 1..Len(pending') : /\ pc'[pending'[i]] \notin Early
                                    /\ pending'[i] \notin registered'
                                    /\ claim'[pending'[i]] = "none"
    BY <1>1, <1>3, <2>1, <2>2, <2>3, <2>4 DEF Offer, QueuedOnce
  <2> QED
    BY <2>5, <2>6 DEF QueuedOnce
<1>4. ASSUME NEW r \in Requests, Serve(r), ~Offer(r) PROVE QueuedOnce'
  <2>1. pending' = pending /\ claim' = claim /\ registered' \subseteq registered
    BY <1>4 DEF Serve, TakeVerdict, Expire, Forget, AuditTimeout, Reply, CodexAudit, CodexShow, CodexReply
  <2>2. \A s \in Requests : pc[s] \notin Early => pc'[s] \notin Early
    BY <1>4 DEF Serve, TakeVerdict, Expire, Forget, AuditTimeout, Reply, CodexAudit, CodexShow, CodexReply
  <2> QED
    BY <1>1, <2>1, <2>2 DEF QueuedOnce
<1>5. ASSUME NEW r \in Requests, Resolver(r) PROVE QueuedOnce'
  <2>1. pending' = pending /\ registered' = registered /\ pc' = pc
    BY <1>5 DEF Resolver, Deliver, FinishResolve
  <2>2. \A s \in Requests : claim[s] = "none" => claim'[s] = "none"
    BY <1>5 DEF Resolver, Deliver, FinishResolve
  <2> QED
    BY <1>1, <2>1, <2>2 DEF QueuedOnce
<1>6. ASSUME NEW r \in Requests, NEW v \in {"allow", "deny"}, ResolveApproval(r, v) PROVE QueuedOnce'
  <2>1. pending' = pending /\ registered' = registered \ {r} /\ pc' = pc /\ r \in registered
    BY <1>6 DEF ResolveApproval
  <2>2. \A s \in Requests \ {r} : claim'[s] = claim[s]
    BY <1>6 DEF ResolveApproval
  <2> QED
    BY <1>1, <2>1, <2>2 DEF QueuedOnce
<1>7. ASSUME PumpRegister PROVE QueuedOnce'
  <2>1. /\ pending' = Tail(pending) /\ Len(pending) >= 1 /\ pending # <<>>
        /\ registered' = registered \cup {Head(pending)}
        /\ pc' = pc /\ claim' = claim
    BY <1>1, <1>7, EmptySeq DEF PumpRegister
  <2>2. /\ Len(pending') = Len(pending) - 1
        /\ \A i \in 1..Len(pending') : pending'[i] = pending[i + 1]
        /\ Head(pending) = pending[1]
    BY <2>1, HeadTailProperties
  <2>3. \A i \in 1..Len(pending') : i + 1 \in 1..Len(pending) /\ i + 1 # 1
    BY <1>1, <2>1, <2>2
  <2>4. 1 \in 1..Len(pending)
    BY <1>1, <2>1
  <2>5. \A i \in 1..Len(pending') : pending'[i] # Head(pending)
    BY <2>2, <2>3, <2>4 DEF QueuedOnce
  <2>6. \A i, j \in 1..Len(pending') : pending'[i] = pending'[j] => i = j
    BY <1>1, <2>2, <2>3 DEF QueuedOnce
  <2>7. \A i \in 1..Len(pending') : /\ pc'[pending'[i]] \notin Early
                                    /\ pending'[i] \notin registered'
                                    /\ claim'[pending'[i]] = "none"
    BY <2>1, <2>2, <2>3, <2>5 DEF QueuedOnce
  <2> QED
    BY <2>6, <2>7 DEF QueuedOnce
<1>8. ASSUME PumpAudit \/ PumpShow PROVE QueuedOnce'
  BY <1>8 DEF PumpAudit, PumpShow, QueuedOnce
<1>9. ASSUME Freeze PROVE QueuedOnce'
  BY <1>1, <1>9 DEF Freeze, QueuedOnce
<1>10. ASSUME UNCHANGED vars PROVE QueuedOnce'
  BY <1>10 DEF vars, QueuedOnce
<1> QED
  BY <1>2, <1>3, <1>4, <1>5, <1>6, <1>7, <1>8, <1>9, <1>10 DEF Next, Pump

LEMMA HeadOfQueue ==
  ASSUME pending \in Seq(Requests), pending # <<>>
  PROVE  Head(pending) \in Requests /\ Head(pending) = pending[1] /\ 1 \in 1..Len(pending)
<1>1. Len(pending) \in Nat \ {0}
  BY EmptySeq
<1>2. Head(pending) \in Requests
  BY HeadTailProperties
<1> QED
  BY <1>1, <1>2

LEMMA UnclaimedStep == Inv /\ [Next]_vars => Unclaimed'
<1> SUFFICES ASSUME Inv, [Next]_vars PROVE Unclaimed'
  OBVIOUS
<1>0. /\ ServeOK /\ AppOK /\ Unclaimed /\ QueuedOnce /\ pending \in Seq(Requests)
  BY DEF Inv, TypeOK, PumpOK
<1> USE <1>0 DEF Unclaimed, ServeOK, AppOK, Goto, Register, Unregister, Early, serveVars, appVars
<1>1. ASSUME NEW r \in Requests, Request(r) \/ GiveUp(r) PROVE Unclaimed'
  <2>1. CASE Ask(r)
    BY <2>1 DEF Ask
  <2>2. CASE CodexRegister(r)
    BY <2>2 DEF CodexRegister
  <2>3. CASE GiveUp(r)
    BY <2>3 DEF GiveUp
  <2> QED
    BY <1>1, <2>1, <2>2, <2>3 DEF Request
<1>2. ASSUME NEW r \in Requests, Serve(r) PROVE Unclaimed'
  BY <1>2 DEF Serve, Offer, TakeVerdict, Expire, Forget, AuditTimeout, Reply, CodexAudit,
     CodexShow, CodexReply
<1>3. ASSUME NEW r \in Requests, Resolver(r) PROVE Unclaimed'
  BY <1>3 DEF Resolver, Deliver, FinishResolve
<1>4. ASSUME NEW r \in Requests, NEW v \in {"allow", "deny"}, ResolveApproval(r, v) PROVE Unclaimed'
  BY <1>4 DEF ResolveApproval
<1>5. ASSUME PumpRegister PROVE Unclaimed'
  <2>1. /\ Head(pending) \in Requests
        /\ claim[Head(pending)] = "none" /\ pc[Head(pending)] \notin Early
    <3>1. Head(pending) \in Requests /\ Head(pending) = pending[1] /\ 1 \in 1..Len(pending)
      BY <1>5, HeadOfQueue DEF PumpRegister
    <3> QED
      BY <3>1 DEF QueuedOnce
  <2> QED
    BY <1>5, <2>1 DEF PumpRegister
<1>6. ASSUME PumpAudit \/ PumpShow PROVE Unclaimed'
  BY <1>6 DEF PumpAudit, PumpShow
<1>7. ASSUME Freeze PROVE Unclaimed'
  BY <1>7 DEF Freeze
<1>8. ASSUME UNCHANGED vars PROVE Unclaimed'
  BY <1>8 DEF vars
<1> QED
  BY <1>1, <1>2, <1>3, <1>4, <1>5, <1>6, <1>7, <1>8 DEF Next, Pump

LEMMA FaithfulStep == Inv /\ [Next]_vars => Faithful'
<1> SUFFICES ASSUME Inv, [Next]_vars PROVE Faithful'
  OBVIOUS
<1>0. ServeOK /\ AppOK /\ Faithful /\ Unclaimed /\ Decisive
  BY DEF Inv, TypeOK
<1> USE <1>0 DEF Faithful, ServeOK, AppOK, Goto, Decide, Answered, Behavior, serveVars, appVars
<1>1. ASSUME NEW r \in Requests, Request(r) \/ GiveUp(r) PROVE Faithful'
  BY <1>1 DEF Request, Ask, CodexRegister, GiveUp
<1>2. ASSUME NEW r \in Requests, Serve(r) PROVE Faithful'
  <2>1. CASE TakeVerdict(r)
    <3>1. /\ decided' = [decided EXCEPT ![r] = verdicts[r]]
          /\ verdicts' = [verdicts EXCEPT ![r] = ""]
          /\ UNCHANGED <<answer, claim, verdict>>
      BY <2>1 DEF TakeVerdict
    <3> QED
      BY <3>1
  <2>2. CASE Expire(r)
    <3>1. decided' = [decided EXCEPT ![r] = "timeout"] /\ UNCHANGED <<verdicts, answer, claim, verdict>>
      BY <2>2 DEF Expire
    <3> QED
      BY <3>1
  <2>3. CASE Reply(r) \/ CodexReply(r)
    BY <2>3 DEF Reply, CodexReply
  <2>4. CASE Offer(r) \/ Forget(r) \/ AuditTimeout(r) \/ CodexAudit(r) \/ CodexShow(r)
    BY <2>4 DEF Offer, Forget, AuditTimeout, CodexAudit, CodexShow
  <2> QED
    BY <1>2, <2>1, <2>2, <2>3, <2>4 DEF Serve
<1>3. ASSUME NEW r \in Requests, Resolver(r) PROVE Faithful'
  <2>1. CASE Deliver(r)
    <3>1. /\ UNCHANGED <<decided, answer, verdict>>
          /\ verdicts'[r] \in {verdict[r], verdicts[r]}
          /\ claim'[r] \in {"delivered", "drainedDelivered"}
          /\ \A s \in Requests \ {r} : verdicts'[s] = verdicts[s] /\ claim'[s] = claim[s]
      BY <2>1 DEF Deliver
    <3> QED
      BY <3>1
  <2>2. CASE FinishResolve(r)
    BY <2>2 DEF FinishResolve
  <2> QED
    BY <1>3, <2>1, <2>2 DEF Resolver
<1>4. ASSUME NEW r \in Requests, NEW v \in {"allow", "deny"}, ResolveApproval(r, v) PROVE Faithful'
  BY <1>4 DEF ResolveApproval, Unclaimed, Decisive
<1>5. ASSUME Pump PROVE Faithful'
  BY <1>5 DEF Pump, PumpRegister, PumpAudit, PumpShow
<1>6. ASSUME Freeze PROVE Faithful'
  BY <1>6 DEF Freeze, Unclaimed, Decisive
<1>7. ASSUME UNCHANGED vars PROVE Faithful'
  BY <1>7 DEF vars
<1> QED
  BY <1>1, <1>2, <1>3, <1>4, <1>5, <1>6, <1>7 DEF Next

(* Every history keeps the inductive invariant. *)
LEMMA InvHolds == Spec => []Inv
<1>1. Inv /\ [Next]_vars => Inv'
  BY TypeOKStep, DecisiveStep, QueuedOnceStep, UnclaimedStep, FaithfulStep DEF Inv
<1> QED
  BY <1>1, InvInit, PTL DEF Spec

-----------------------------------------------------------------------------
(* Every variable has its type, whatever the requests and the capacity of    *)
(* the queue (Broker, App.apprPending, App.codexApproval).                   *)
THEOREM TypeHolds == Spec => []TypeOK
<1>1. Inv => TypeOK
  BY DEF Inv
<1> QED
  BY <1>1, InvHolds, PTL

(* No timeout, full queue, freeze or late verdict turns into an allow that   *)
(* no user gave (Broker.serve, codexApproval, forwardToSocket).              *)
THEOREM FailClosedHolds == Spec => []FailClosed
<1>1. Inv => FailClosed
  BY DEF Inv, Faithful, FailClosed
<1> QED
  BY <1>1, InvHolds, PTL

(* Whoever has taken a request finds its channel empty: a resolver never     *)
(* blocks in Broker.Resolve (Broker.Resolve, resolveApproval).               *)
THEOREM RoomForVerdictHolds == Spec => []RoomForVerdict
<1>1. Inv => RoomForVerdict
  BY DEF Inv, Faithful, RoomForVerdict
<1> QED
  BY <1>1, InvHolds, PTL

(* A verdict, once given, stands: nobody takes a claimed request again.      *)
LEMMA VerdictSticks ==
  ASSUME Inv, Next, NEW r \in Requests PROVE verdict'[r] = verdict[r] \/ verdict[r] = ""
<1>1. CASE verdict' = verdict
  BY <1>1
<1>2. CASE \E s \in Requests, v \in {"allow", "deny"} : ResolveApproval(s, v)
  BY <1>2 DEF ResolveApproval, Inv, TypeOK, AppOK, Unclaimed, Decisive
<1>3. CASE Freeze
  BY <1>3 DEF Freeze, Inv, TypeOK, AppOK, Unclaimed, Decisive
<1> QED
  BY <1>1, <1>2, <1>3 DEF Next, Request, Serve, Resolver, Pump, Ask, CodexRegister, GiveUp, Offer,
     TakeVerdict, Expire, Forget, AuditTimeout, Reply, CodexAudit, CodexShow, CodexReply, Deliver,
     FinishResolve, PumpRegister, PumpAudit, PumpShow, appVars

(* After the freeze no request is resolved with an allow.                    *)
LEMMA FrozenAllowsNone ==
  ASSUME Inv, [Next]_vars, frozen, NEW r \in Requests, verdict[r] # "allow"
  PROVE  frozen' /\ verdict'[r] # "allow"
<1>1. CASE frozen' = frozen /\ verdict' = verdict
  BY <1>1
<1>2. CASE \E s \in Requests, v \in {"allow", "deny"} : ResolveApproval(s, v)
  BY <1>2 DEF ResolveApproval, Inv, TypeOK, AppOK
<1>3. CASE Freeze
  BY <1>3 DEF Freeze
<1> QED
  BY <1>1, <1>2, <1>3 DEF Next, Request, Serve, Resolver, Pump, Ask, CodexRegister, GiveUp, Offer,
     TakeVerdict, Expire, Forget, AuditTimeout, Reply, CodexAudit, CodexShow, CodexReply, Deliver,
     FinishResolve, PumpRegister, PumpAudit, PumpShow, appVars, vars

(* What the freeze found without an allow is never answered with one, and    *)
(* neither is what reaches the registry after it, for any number of requests *)
(* and any queue (freezeImplementationSession, resolveApproval).             *)
THEOREM FrozenStaysClosedHolds == Spec => FrozenStaysClosed
<1> SUFFICES ASSUME NEW r \in Requests
             PROVE  Spec => []((frozen /\ verdict[r] # "allow") => [](answer[r] # "allow"))
  BY DEF FrozenStaysClosed
<1>1. Inv /\ frozen /\ verdict[r] # "allow" /\ [Next]_vars => (frozen /\ verdict[r] # "allow")'
  BY FrozenAllowsNone
<1>2. Inv /\ frozen /\ verdict[r] # "allow" => answer[r] # "allow"
  BY DEF Inv, Faithful
<1> QED
  BY <1>1, <1>2, InvHolds, PTL DEF Spec

-----------------------------------------------------------------------------
(* How far the audit of a Codex request has come, by where its goroutine is. *)
(* A Codex session has no broker, so nothing is in the queue or the pump.    *)
Unasked == {"idle", "auditing"}
Open == {"showing", "waiting", "expired", "forgotten", "decided"}
CodexRow(r) ==
  /\ pc[r] \in Unasked => audit[r] = <<>> /\ answer[r] = ""
  /\ pc[r] \in Open => audit[r] = <<"request">> /\ answer[r] = ""
  /\ pc[r] = "answered" => \E d \in Decisions \cap {verdict[r], "timeout"} :
                               audit[r] = <<"request", d>> /\ answer[r] = Behavior(d)
  /\ pc[r] # "offering"
CodexSide ==
  provider = "codex" => pending = <<>> /\ pump = NoPump /\ \A r \in Requests : CodexRow(r)

(* A log of one entry that grows by one. *)
LEMMA AppendToOne == ASSUME NEW a, NEW b PROVE Append(<<a>>, b) = <<a, b>>
<1> DEFINE S == {a, b}
<1>1. <<a>> \in Seq(S) /\ Len(<<a>>) = 1 /\ <<a>>[1] = a
  OBVIOUS
<1>2. <<a, b>> \in Seq(S) /\ Len(<<a, b>>) = 2 /\ <<a, b>>[1] = a /\ <<a, b>>[2] = b
  OBVIOUS
<1>3. b \in S
  OBVIOUS
<1> HIDE DEF S
<1>4. /\ Append(<<a>>, b) \in Seq(S) /\ Len(Append(<<a>>, b)) = 2
      /\ Append(<<a>>, b)[1] = a /\ Append(<<a>>, b)[2] = b
  BY <1>1, <1>3, AppendProperties
<1>5. \A i \in 1..2 : Append(<<a>>, b)[i] = <<a, b>>[i]
  BY <1>2, <1>4
<1> QED
  BY <1>2, <1>4, <1>5, SeqEqual

LEMMA CodexSideInit == Init => CodexSide
BY DEF Init, CodexSide, CodexRow, Unasked, Open

(* The row of a request that the step leaves alone, whoever resolves it.     *)
LEMMA RowKept ==
  ASSUME NEW r \in Requests, CodexRow(r), verdict'[r] = verdict[r] \/ verdict[r] = "",
         pc'[r] = pc[r], audit'[r] = audit[r], answer'[r] = answer[r]
  PROVE  CodexRow(r)'
BY DEF CodexRow, Decisions, Behaviors, Behavior

LEMMA CodexSideStep == Inv /\ CodexSide /\ [Next]_vars => CodexSide'
<1> SUFFICES ASSUME Inv, CodexSide, [Next]_vars, provider = "codex", provider' = provider
             PROVE  CodexSide'
  BY DEF CodexSide, Next, vars
<1>1. /\ Claude = {} /\ pending = <<>> /\ pump = NoPump /\ \A r \in Requests : CodexRow(r)
      /\ ServeOK /\ UiOK /\ DOMAIN pc = Requests /\ DOMAIN answer = Requests /\ DOMAIN audit = Requests
  BY DEF CodexSide, Claude, Inv, TypeOK, ServeOK, UiOK
<1>0. \A s \in Requests : verdict'[s] = verdict[s] \/ verdict[s] = ""
  BY VerdictSticks DEF vars, appVars
<1>2. ASSUME NEW r \in Requests, pump' = pump, pending' = pending, CodexRow(r)',
             \A s \in Requests \ {r} : pc'[s] = pc[s] /\ audit'[s] = audit[s] /\ answer'[s] = answer[s]
      PROVE  CodexSide'
  <2>1. ASSUME NEW s \in Requests \ {r} PROVE CodexRow(s)'
    BY <1>0, <1>1, <1>2, RowKept
  <2> QED
    BY <1>1, <1>2, <2>1 DEF CodexSide
<1>3. ASSUME UNCHANGED <<pump, pending, pc, audit, answer>> PROVE CodexSide'
  <2>1. ASSUME NEW s \in Requests PROVE CodexRow(s)'
    BY <1>0, <1>1, <1>3, RowKept
  <2> QED
    BY <1>1, <1>3, <2>1 DEF CodexSide
<1> USE DEF serveVars, pumpVars, appVars, uiVars, Goto
<1>4. ASSUME NEW r \in Requests, Request(r) PROVE CodexSide'
  <2>1. /\ pc[r] = "idle" /\ pc' = [pc EXCEPT ![r] = "auditing"]
        /\ UNCHANGED <<pump, pending, audit, answer>>
    BY <1>1, <1>4 DEF Request, Ask, CodexRegister
  <2> QED
    BY <1>1, <1>2, <2>1 DEF CodexRow, Unasked, Open
<1>5. ASSUME NEW r \in Requests, CodexAudit(r) PROVE CodexSide'
  <2>1. pc[r] = "auditing" /\ pc'[r] = "showing" /\ audit'[r] = Append(audit[r], "request") /\ answer' = answer
    BY <1>1, <1>5 DEF CodexAudit, AuditRequest
  <2>2. audit[r] = <<>> /\ answer[r] = ""
    BY <1>1, <2>1 DEF CodexRow, Unasked
  <2>3. CodexRow(r)'
    <3>1. Append(<<>>, "request") = <<"request">>
      OBVIOUS
    <3>2. audit'[r] = <<"request">> /\ answer'[r] = ""
      BY <2>1, <2>2, <3>1, Zenon
    <3> QED
      BY <2>1, <3>2 DEF CodexRow, Unasked, Open
  <2> QED
    BY <1>1, <1>2, <1>5, <2>3 DEF CodexAudit, AuditRequest
<1>6. ASSUME NEW r \in Requests, CodexReply(r) PROVE CodexSide'
  <2>1. /\ pc[r] = "decided" /\ pc'[r] = "answered" /\ audit'[r] = Append(audit[r], decided[r])
        /\ answer'[r] = (IF answer[r] = "" THEN Behavior(decided[r]) ELSE answer[r])
        /\ verdict' = verdict
    BY <1>1, <1>6 DEF CodexReply, AuditDecision, Answered
  <2>2. audit[r] = <<"request">> /\ answer[r] = ""
    BY <1>1, <2>1 DEF CodexRow, Open
  <2>3. CodexRow(r)'
    <3>1. answer'[r] = Behavior(decided[r])
      BY <2>1, <2>2
    <3>2. decided[r] \in Decisions \cap {verdict[r], "timeout"}
      BY <2>1 DEF Inv, Decisive, Faithful, Late, Decisions, Behaviors
    <3>3. audit'[r] = <<"request", decided[r]>>
      BY <2>1, <2>2, AppendToOne, Zenon
    <3>4. pc'[r] \notin Unasked \cup Open \cup {"offering"}
      BY <2>1 DEF Unasked, Open
    <3> QED
      BY <2>1, <3>1, <3>2, <3>3, <3>4, Zenon DEF CodexRow
  <2> QED
    BY <1>1, <1>2, <1>6, <2>3 DEF CodexReply, AuditDecision, Answered
<1>7. ASSUME NEW r \in Requests, CodexShow(r) \/ TakeVerdict(r) \/ Expire(r) \/ Forget(r) \/ AuditTimeout(r)
      PROVE  CodexSide'
  <2>1. pc[r] \in Open /\ UNCHANGED <<pump, pending, audit, answer>>
        /\ \E at \in Open : pc' = [pc EXCEPT ![r] = at]
    BY <1>1, <1>7 DEF CodexShow, TakeVerdict, Expire, Forget, AuditTimeout, Open
  <2> QED
    BY <1>1, <1>2, <2>1 DEF CodexRow, Unasked, Open
<1>8. ASSUME NEW r \in Requests PROVE ~Offer(r) /\ ~GiveUp(r) /\ ~Reply(r)
  BY <1>1 DEF Offer, GiveUp, Reply, CodexRow
<1>9. ASSUME NEW r \in Requests, Resolver(r) PROVE CodexSide'
  BY <1>1, <1>3, <1>9 DEF Resolver, Deliver, FinishResolve
<1>10. ASSUME NEW r \in Requests, NEW v \in {"allow", "deny"}, ResolveApproval(r, v) PROVE CodexSide'
  BY <1>3, <1>10 DEF ResolveApproval
<1>11. ~Pump
  BY <1>1 DEF Pump, PumpRegister, PumpAudit, PumpShow, NoPump
<1>12. ASSUME Freeze \/ UNCHANGED vars PROVE CodexSide'
  BY <1>3, <1>12 DEF Freeze, vars
<1> QED
  BY <1>4, <1>5, <1>6, <1>7, <1>8, <1>9, <1>10, <1>11, <1>12 DEF Next, Serve

(* Whatever verdicts, freezes and timeouts meet at a Codex request, its      *)
(* audit is the request and, once, the decision its answer follows from: a   *)
(* verdict somebody gave, or "timeout" for a deny (codexApproval).           *)
THEOREM CodexAuditNamesAnswerHolds == Spec => []CodexAuditNamesAnswer
<1>1. CodexSide => CodexAuditNamesAnswer
  BY DEF CodexSide, CodexRow, CodexAuditNamesAnswer, Codex
<1> QED
  BY <1>1, InvHolds, CodexSideInit, CodexSideStep, PTL DEF Spec

-----------------------------------------------------------------------------
(***************************************************************************)
(* ReplayIndex: for any sessions and any number of rows, faults, crashes    *)
(* and restarts.                                                            *)
(***************************************************************************)
RowType == [w : Sessions, kind : Kinds, era : Nat]
RecType == [s : Nat, e : Nat, era : Nat]
LineType == [rec : RecType, form : Forms]
OpenType == [Sessions -> Nat]
IdxType == [cp : Nat, open : OpenType, degraded : BOOLEAN, notified : BOOLEAN,
            unverified : BOOLEAN, cursor : Nat]
LoopPcs == {"none", "begin", "scan", "check", "lock", "final", "backoff", "finish"}
Phases == {"up", "closing", "flushing", "down", "verify", "repair"}

Shapes ==
    /\ log \in Seq(RowType) /\ era \in Nat
    /\ ckpt \in [at : Nat, era : Nat, open : OpenType]
    /\ file \in [Sessions -> Seq(LineType)]
    /\ idx \in IdxType
    /\ emit \in {"free", "observe", "notify", "rebuild"}
    /\ loop \in [pc : LoopPcs, attempt : Nat]
    /\ closed \in BOOLEAN /\ phase \in Phases /\ todo \subseteq Sessions

\* Where the rebuild can be, beside the phases and the emit lock.
Scanning == {"scan", "check", "lock", "final", "backoff"}
Course ==
    /\ loop.pc \in Scanning => idx.degraded /\ idx.cp <= idx.cursor
    /\ loop.pc # "none" => ~idx.unverified /\ phase \in {"repair", "up", "closing"}
    /\ emit = "rebuild" <=> loop.pc = "final"
    /\ phase \in {"closing", "flushing"} => closed
    /\ phase \in {"down", "verify"} => emit = "free"
    /\ phase = "verify" => ~idx.degraded /\ ~idx.unverified
    /\ idx.unverified => emit # "notify"

\* A name of a row that is not in the audit (any more) will not come again.
Past(e, x) == x <= era /\ (e > End => x < era)
Named ==
    /\ \A i \in 1..End : log[i].era <= era
    /\ \A w \in Sessions : \A r \in Records(w) : Past(r.e, r.era)
    /\ Past(ckpt.at, ckpt.era)
    /\ phase # "down" /\ ~idx.unverified => idx.cp <= End /\ idx.cursor <= End
    /\ emit = "observe" => End # 0 /\ log[End].era = era

\* Nothing has been glued, mixed up or lost.
Clean == flaws \subseteq {"gap"}

\* The files: no line but the last is unfinished, and no record there that is no turn or there twice.
FileOK(w) ==
    /\ \A i \in 1..Len(file[w]) : /\ file[w][i].form # "junk"
                                  /\ i < Len(file[w]) => file[w][i].form = "whole"
    /\ Once(file[w])
    /\ \A r \in Records(w) : Genuine(r) => r \in Turns(w, End)
FilesOK == Clean => \A w \in Sessions : FileOK(w)

\* The index has followed the audit up to row n.
Knows(n) ==
    \A w \in Sessions : idx.open[w] = OpenAt(w, n) /\ Turns(w, n) \subseteq Records(w)
Unseen == \A w \in Sessions : \A r \in Records(w) : ~(r.e = End /\ r.era = era)
Place == IF idx.cp <= idx.cursor THEN idx.cursor ELSE idx.cp
\* A closed turn was written whose checkpoint was not.
Ahead == idx.cursor <= idx.cp /\ idx.cp < End /\ log[idx.cp + 1].kind = "end" /\ Knows(idx.cp + 1)
Followed ==
    Clean /\ phase # "down" /\ ~idx.unverified =>
        /\ phase = "verify" => Knows(idx.cp)
        /\ phase # "verify" /\ ~idx.degraded =>
              /\ Knows(idx.cp) /\ idx.cursor <= idx.cp
              /\ IF emit = "observe" THEN idx.cp + 1 = End /\ Unseen ELSE idx.cp = End
        /\ idx.degraded => Knows(Place) \/ Ahead

Recoverable ==
    flaws = {} /\ Trusted =>
        \A w \in Sessions : Turns(w, ckpt.at) \subseteq Records(w) /\ ckpt.open[w] = OpenAt(w, ckpt.at)

Settling == phase = "repair" /\ flaws = {} => \A w \in Sessions \ todo : OpenAt(w, End) = None

IndexInv == Shapes /\ Course /\ Named /\ FilesOK /\ Followed /\ Recoverable /\ Settling
-----------------------------------------------------------------------------
(* The turns of the first rows. *)

LEMMA LeastIn ==
  ASSUME NEW S, S \subseteq Nat, S # {}
  PROVE  Min(S) \in S /\ \A y \in S : Min(S) <= y
<1> DEFINE upto(k) == S \cap 0..k
           cuts == {upto(k) : k \in S}
<1>1. cuts \subseteq FiniteSubsetsOf(Nat)
  <2> SUFFICES ASSUME NEW k \in S PROVE upto(k) \in SUBSET Nat /\ IsFiniteSet(upto(k))
    BY DEF FiniteSubsetsOf
  <2>1. k \in Nat /\ upto(k) \in SUBSET Nat /\ \A y \in upto(k) : y <= k
    OBVIOUS
  <2> HIDE DEF upto
  <2> QED
    BY <2>1, FS_BoundedSetOfNaturals
<1>2. cuts # {}
  OBVIOUS
<1>3. PICK c \in cuts : \A d \in cuts : <<d, c>> \notin StrictSubsetOrdering(Nat)
  <2> HIDE DEF cuts
  <2> QED
    BY <1>1, <1>2, FS_StrictSubsetOrderingWellFounded, WFMin
<1>4. PICK x \in S : c = upto(x)
  OBVIOUS
<1>5. \A y \in S : x <= y
  <2> SUFFICES ASSUME NEW y \in S, y < x PROVE FALSE
    OBVIOUS
  <2>1. upto(y) \subseteq upto(x) /\ x \in upto(x) /\ x \notin upto(y)
    OBVIOUS
  <2>2. upto(y) \in SUBSET Nat /\ upto(x) \in SUBSET Nat /\ upto(y) \in cuts
    OBVIOUS
  <2>3. <<upto(y), c>> \in StrictSubsetOrdering(Nat)
    <3> HIDE DEF upto
    <3> QED
      BY <1>4, <2>1, <2>2 DEF StrictSubsetOrdering
  <2> QED
    BY <1>3, <2>2, <2>3
<1> QED
  BY <1>5 DEF Min

LEMMA LeastIs ==
  ASSUME NEW S, S \subseteq Nat, NEW m \in S, \A y \in S : m <= y
  PROVE  Min(S) = m
<1>1. Min(S) \in S /\ \A y \in S : Min(S) <= y
  BY LeastIn
<1>2. Min(S) \in Nat /\ m \in Nat /\ Min(S) <= m /\ m <= Min(S)
  BY <1>1
<1> QED
  BY <1>2

LEMMA RowsTyped ==
  ASSUME log \in Seq(RowType)
  PROVE  /\ End \in Nat /\ DOMAIN log = 1..End
         /\ \A i \in 1..End : log[i] \in RowType /\ log[i].w \in Sessions /\ log[i].kind \in Kinds
                              /\ log[i].era \in Nat
<1>1. \A i \in 1..End : log[i] \in RowType
  BY ElementOfSeq DEF End
<1> QED
  BY <1>1, LenProperties DEF End, RowType

LEMMA OpenRange ==
  ASSUME log \in Seq(RowType), NEW w, NEW n \in 0..End
  PROVE  /\ OpenAt(w, n) \in 0..n
         /\ OpenAt(w, n) = None <=> Unclosed(w, n) = {}
         /\ Unclosed(w, n) # {} => /\ OpenAt(w, n) \in Unclosed(w, n)
                                   /\ \A i \in Unclosed(w, n) : OpenAt(w, n) <= i
<1>1. Unclosed(w, n) \subseteq 1..n
  BY RowsTyped DEF Unclosed, Of
<1>2. End \in Nat /\ 1..n \subseteq Nat
  BY RowsTyped
<1>3. CASE Unclosed(w, n) = {}
  BY <1>2, <1>3 DEF OpenAt, None
<1>4. CASE Unclosed(w, n) # {}
  <2>1. Unclosed(w, n) \subseteq Nat
    BY <1>1, <1>2
  <2>2. OpenAt(w, n) = Min(Unclosed(w, n))
    BY <1>4 DEF OpenAt
  <2>3. OpenAt(w, n) \in Unclosed(w, n) /\ \A i \in Unclosed(w, n) : OpenAt(w, n) <= i
    BY <1>4, <2>1, <2>2, LeastIn
  <2> QED
    BY <1>1, <1>2, <1>4, <2>3 DEF None
<1> QED
  BY <1>3, <1>4

LEMMA OpenNone ==
  ASSUME log \in Seq(RowType), NEW w
  PROVE  OpenAt(w, 0) = None /\ Turns(w, 0) = {}
<1>1. OpenAt(w, 0) = None
  BY RowsTyped, OpenRange DEF None
<1>2. Turns(w, 0) = {}
  BY RowsTyped DEF Turns, Of
<1> QED
  BY <1>1, <1>2

(* The turn state machine: what one row does to the open turn of a session. *)
LEMMA OpenStep ==
  ASSUME log \in Seq(RowType), NEW w, NEW i \in 1..End
  PROVE  OpenAt(w, i) = IF log[i].w = w /\ log[i].kind = "user" /\ OpenAt(w, i - 1) = None THEN i
                        ELSE IF log[i].w = w /\ log[i].kind = "end" THEN None
                        ELSE OpenAt(w, i - 1)
<1>1. End \in Nat /\ i - 1 \in 0..End /\ i \in 0..End /\ i \in Nat
  BY RowsTyped
<1>2. CASE log[i].w = w /\ log[i].kind = "end"
  <2>1. Unclosed(w, i) = {}
    <3> SUFFICES ASSUME NEW j \in Unclosed(w, i) PROVE FALSE
      OBVIOUS
    <3>1. j \in 1..End /\ j <= i /\ log[j].kind = "user" /\ ~ClosedBetween(w, j, i)
      BY DEF Unclosed, Of
    <3>2. j < i
      BY <1>1, <1>2, <3>1
    <3> QED
      BY <1>1, <1>2, <3>1, <3>2 DEF ClosedBetween, Of
  <2> QED
    BY <1>1, <1>2, <2>1, OpenRange
<1>3. CASE ~(log[i].w = w /\ log[i].kind = "end")
  <2>1. \A j \in 1..i : ClosedBetween(w, j, i) <=> ClosedBetween(w, j, i - 1)
    BY <1>1, <1>3 DEF ClosedBetween, Of
  <2>2. ~ClosedBetween(w, i, i)
    BY <1>1 DEF ClosedBetween, Of
  <2>3. Unclosed(w, i) = Unclosed(w, i - 1) \cup
                            (IF log[i].w = w /\ log[i].kind = "user" THEN {i} ELSE {})
    BY <1>1, <2>1, <2>2 DEF Unclosed, Of
  <2>4. CASE ~(log[i].w = w /\ log[i].kind = "user")
    BY <1>3, <2>3, <2>4 DEF OpenAt
  <2>5. CASE log[i].w = w /\ log[i].kind = "user" /\ OpenAt(w, i - 1) = None
    <3>1. Unclosed(w, i) = {i}
      BY <1>1, <2>3, <2>5, OpenRange
    <3>2. Min({i}) = i
      BY <1>1, LeastIs
    <3> QED
      BY <2>5, <3>1, <3>2 DEF OpenAt
  <2>6. CASE log[i].w = w /\ log[i].kind = "user" /\ OpenAt(w, i - 1) # None
    <3> DEFINE m == OpenAt(w, i - 1)
    <3>1. m \in Unclosed(w, i - 1) /\ m \in 0..(i - 1) /\ \A j \in Unclosed(w, i - 1) : m <= j
      BY <1>1, <2>6, OpenRange
    <3>2. m \in Unclosed(w, i) /\ \A j \in Unclosed(w, i) : m <= j
      BY <1>1, <2>3, <2>6, <3>1
    <3>3. Unclosed(w, i) \subseteq Nat
      BY <1>1 DEF Unclosed, Of
    <3>4. Min(Unclosed(w, i)) = m
      BY <3>2, <3>3, LeastIs
    <3> QED
      BY <1>3, <2>6, <3>2, <3>4 DEF OpenAt
  <2> QED
    BY <2>4, <2>5, <2>6
<1> QED
  BY <1>2, <1>3

LEMMA TurnsStep ==
  ASSUME log \in Seq(RowType), NEW w, NEW i \in 1..End
  PROVE  Turns(w, i) = Turns(w, i - 1) \cup
           (IF log[i].w = w /\ log[i].kind = "end" /\ OpenAt(w, i - 1) # None
            THEN {[s |-> OpenAt(w, i - 1), e |-> i, era |-> EraAt(i)]} ELSE {})
<1>1. End \in Nat /\ i \in Nat
  BY RowsTyped
<1> DEFINE E(n) == {e \in Of(w, "end") : e <= n /\ OpenAt(w, e - 1) # None}
<1>2. E(i) = E(i - 1) \cup (IF log[i].w = w /\ log[i].kind = "end" /\ OpenAt(w, i - 1) # None THEN {i} ELSE {})
  BY <1>1 DEF Of
<1>3. \A n : Turns(w, n) = {[s |-> OpenAt(w, e - 1), e |-> e, era |-> EraAt(e)] : e \in E(n)}
  BY DEF Turns
<1> HIDE DEF E
<1> QED
  BY <1>2, <1>3

LEMMA TurnsGrow ==
  ASSUME log \in Seq(RowType), NEW w, NEW m \in Nat, NEW n \in Nat, m <= n
  PROVE  Turns(w, m) \subseteq Turns(w, n)
<1>1. \A e \in Of(w, "end") : e <= m => e <= n
  BY RowsTyped DEF Of
<1> QED
  BY <1>1 DEF Turns

(* What the audit says of its first rows does not depend on what follows. *)
LEMMA Prefix ==
  ASSUME log \in Seq(RowType), log' \in Seq(RowType), NEW m \in Nat, m <= End, m <= End',
         \A i \in 1..m : log'[i] = log[i]
  PROVE  /\ \A n \in 0..m : EraAt(n)' = EraAt(n)
         /\ \A w : \A n \in 0..m : OpenAt(w, n)' = OpenAt(w, n) /\ Turns(w, n)' = Turns(w, n)
<1>1. End \in Nat /\ End' \in Nat /\ Len(log') = End'
  <2>1. Len(log') \in Nat
    BY LenProperties
  <2> QED
    BY <2>1, RowsTyped DEF End
<1>2. \A n \in 0..m : EraAt(n)' = EraAt(n)
  BY DEF EraAt
<1>3. \A w, k : \A i \in 1..m : i \in Of(w, k)' <=> i \in Of(w, k)
  BY <1>1 DEF Of
<1>4. \A w, k : \A i : i \in Of(w, k) \/ i \in Of(w, k)' => i \in Nat \ {0}
  BY <1>1 DEF Of
<1>5. \A w : \A n \in 0..m : \A i \in Nat : ClosedBetween(w, i, n)' <=> ClosedBetween(w, i, n)
  BY <1>1, <1>3, <1>4 DEF ClosedBetween
<1>6. \A w : \A n \in 0..m : Unclosed(w, n)' = Unclosed(w, n)
  BY <1>1, <1>3, <1>4, <1>5 DEF Unclosed
<1>7. \A w : \A n \in 0..m : OpenAt(w, n)' = OpenAt(w, n)
  BY <1>6 DEF OpenAt
<1>8. ASSUME NEW w, NEW n \in 0..m PROVE Turns(w, n)' = Turns(w, n)
  <2>1. \A e : e \in Of(w, "end")' /\ e <= n <=> e \in Of(w, "end") /\ e <= n
    BY <1>1, <1>3, <1>4
  <2>2. \A e : e \in Of(w, "end") /\ e <= n => e \in 0..m /\ e - 1 \in 0..m
    BY <1>1, <1>4
  <2>3. \A e : e \in Of(w, "end") /\ e <= n =>
          OpenAt(w, e - 1)' = OpenAt(w, e - 1) /\ EraAt(e)' = EraAt(e)
    BY <1>2, <1>7, <2>2
  <2> QED
    BY <2>1, <2>3 DEF Turns
<1> QED
  BY <1>2, <1>7, <1>8

-----------------------------------------------------------------------------
(* Turn files. *)
Recs(f) == {l.rec : l \in {x \in Range(f) : Parsable(x)}}
Plain(f) ==
    \A i \in 1..Len(f) : f[i].form # "junk" /\ (i < Len(f) => f[i].form = "whole")

LEMMA RecsAre ==
  ASSUME NEW f \in Seq(LineType)
  PROVE  /\ Len(f) \in Nat /\ DOMAIN f = 1..Len(f) /\ \A i \in 1..Len(f) : f[i] \in LineType
         /\ \A r : r \in Recs(f) <=> \E i \in 1..Len(f) : Parsable(f[i]) /\ f[i].rec = r
         /\ Recs(f) \subseteq RecType
<1>1. Len(f) \in Nat /\ DOMAIN f = 1..Len(f) /\ \A i \in 1..Len(f) : f[i] \in LineType
  BY LenProperties, ElementOfSeq
<1>2. \A r : r \in Recs(f) <=> \E i \in 1..Len(f) : Parsable(f[i]) /\ f[i].rec = r
  BY <1>1 DEF Recs, Range
<1>3. Recs(f) \subseteq RecType
  BY <1>1, <1>2 DEF LineType
<1> QED
  BY <1>1, <1>2, <1>3

LEMMA AppendedPlain ==
  ASSUME NEW f \in Seq(LineType), NEW r \in RecType, NEW form \in {"none", "bare", "part", "whole"},
         ~Glues(f), NEW g, g = Appended(f, r, form)
  PROVE  /\ g \in Seq(LineType)
         /\ \A x \in Recs(g) : x \in Recs(f) \/ x = r
         /\ \A x \in Recs(f) : x \in Recs(g)
         /\ form \in {"whole", "bare"} => r \in Recs(g)
         /\ Plain(f) => Plain(g)
         /\ Once(f) /\ r \notin Recs(f) => Once(g)
<1>1. CASE form = "none"
  <2>1. g = f
    BY <1>1 DEF Appended
  <2> QED
    BY <1>1, <2>1
<1>2. CASE form # "none"
  <2> DEFINE l == [rec |-> IF form = "part" THEN NoRec ELSE r, form |-> form]
  <2>1. g = Append(f, l)
    BY <1>2 DEF Appended
  <2>2. l \in LineType /\ l.form = form /\ (form # "part" => l.rec = r)
    BY <1>2 DEF LineType, RecType, NoRec, Forms
  <2>3. Len(f) \in Nat /\ \A i \in 1..Len(f) : f[i] \in LineType
    BY RecsAre
  <2> HIDE DEF l
  <2>4. /\ g \in Seq(LineType) /\ Len(g) = Len(f) + 1 /\ g[Len(f) + 1] = l
        /\ \A i \in 1..Len(f) : g[i] = f[i]
    BY <2>1, <2>2, AppendProperties
  <2>5. Parsable(l) <=> form \in {"whole", "bare"}
    BY <1>2, <2>2 DEF Parsable
  <2>6. ASSUME NEW x PROVE x \in Recs(g) <=> x \in Recs(f) \/ (form \in {"whole", "bare"} /\ x = r)
    <3>1. x \in Recs(g) <=> \E i \in 1..Len(f) + 1 : Parsable(g[i]) /\ g[i].rec = x
      BY <2>4, RecsAre
    <3>2. x \in Recs(f) <=> \E i \in 1..Len(f) : Parsable(f[i]) /\ f[i].rec = x
      BY RecsAre
    <3>3. \A i \in 1..Len(f) + 1 : i \in 1..Len(f) \/ i = Len(f) + 1
      BY <2>3
    <3>4. 1..Len(f) \subseteq 1..Len(f) + 1 /\ Len(f) + 1 \in 1..Len(f) + 1
      BY <2>3
    <3> QED
      BY <2>2, <2>4, <2>5, <3>1, <3>2, <3>3, <3>4
  <2>7. Plain(f) => Plain(g)
    <3>1. f # <<>> => Len(f) \in 1..Len(f) /\ ~Unfinished(f[Len(f)])
      BY <1>2, <2>3, EmptySeq DEF Glues, Last
    <3>2. \A i \in 1..Len(f) : f[i].form \in Forms
      BY <2>3 DEF LineType
    <3>3. Plain(f) => \A i \in 1..Len(f) : f[i].form = "whole"
      <4> SUFFICES ASSUME Plain(f), NEW i \in 1..Len(f), i = Len(f) PROVE f[i].form = "whole"
        BY <2>3 DEF Plain
      <4> QED
        BY <2>3, <3>1, <3>2, EmptySeq DEF Plain, Unfinished, Forms
    <3> QED
      BY <1>2, <2>2, <2>3, <2>4, <3>3 DEF Plain
  <2>8. ASSUME Once(f), r \notin Recs(f) PROVE Once(g)
    <3> SUFFICES ASSUME NEW i \in 1..Len(f) + 1, NEW j \in 1..Len(f) + 1,
                        Parsable(g[i]), Parsable(g[j]), g[i].rec = g[j].rec, i < j
                 PROVE  FALSE
      <4>1. DOMAIN g = 1..Len(f) + 1
        BY <2>4, RecsAre
      <4> QED
        BY <2>3, <4>1 DEF Once
    <3>1. i \in 1..Len(f) /\ g[i] = f[i] /\ f[i].rec \in Recs(f)
      BY <2>3, <2>4, RecsAre
    <3>2. CASE j \in 1..Len(f)
      BY <2>3, <2>4, <2>8, <3>1, <3>2, RecsAre DEF Once
    <3>3. CASE j = Len(f) + 1
      BY <1>2, <2>2, <2>4, <2>5, <2>8, <3>1, <3>3
    <3> QED
      BY <2>3, <3>2, <3>3
  <2> QED
    BY <1>2, <2>4, <2>6, <2>7, <2>8
<1> QED
  BY <1>1, <1>2

LEMMA AppendedOK ==
  ASSUME NEW f \in Seq(LineType), NEW r \in RecType, NEW form \in {"none", "bare", "part", "whole"},
         NEW g, g = Appended(f, r, form)
  PROVE  /\ g \in Seq(LineType)
         /\ \A x \in Recs(g) : x \in Recs(f) \/ x = r
         /\ form = "none" => g = f
<1>1. CASE form = "none"
  <2>1. g = f
    BY <1>1 DEF Appended
  <2> QED
    BY <1>1, <2>1
<1>2. CASE form # "none" /\ Glues(f)
  <2> DEFINE l == [rec |-> NoRec, form |-> IF form = "whole" THEN "junk" ELSE "part"]
  <2>1. g = Append(Front(f), l)
    BY <1>2 DEF Appended
  <2>2. Len(f) \in Nat \ {0} /\ \A i \in 1..Len(f) : f[i] \in LineType
    BY <1>2, RecsAre, EmptySeq DEF Glues
  <2>3. /\ Front(f) \in Seq(LineType) /\ Len(Front(f)) = Len(f) - 1
        /\ \A i \in 1..Len(f) - 1 : Front(f)[i] = f[i]
    <3>1. Len(f) - 1 \in Nat /\ 1 \in 1..Len(f) + 1 /\ Len(f) - 1 \in 0..Len(f)
      BY <2>2
    <3>2. Front(f) = SubSeq(f, 1, Len(f) - 1)
      BY DEF Front
    <3>3. \A i \in 1..Len(f) - 1 : f[i] \in LineType
      BY <2>2
    <3> DEFINE n == Len(f) - 1
    <3>4. 1 \in Int /\ n \in Int /\ \A i \in 1..n : f[i] \in LineType
      BY <3>1, <3>3
    <3> HIDE DEF n
    <3>5. /\ SubSeq(f, 1, n) \in Seq(LineType)
          /\ Len(SubSeq(f, 1, n)) = (IF 1 <= n THEN n - 1 + 1 ELSE 0)
          /\ \A i \in 1..n - 1 + 1 : SubSeq(f, 1, n)[i] = f[1 + i - 1]
      BY <3>4, SubSeqProperties
    <3>6. Front(f) \in Seq(LineType) /\ n = Len(f) - 1 /\ n \in Nat
      BY <3>1, <3>2, <3>5 DEF n
    <3>7. Len(Front(f)) = n
      <4>1. Front(f) = SubSeq(f, 1, n)
        BY <3>2 DEF n
      <4>2. n = (IF 1 <= n THEN n - 1 + 1 ELSE 0)
        BY <3>6
      <4> QED
        BY <3>5, <4>1, <4>2
    <3>8. ASSUME NEW i \in 1..n PROVE Front(f)[i] = f[i]
      <4>1. i \in 1..n - 1 + 1 /\ 1 + i - 1 = i
        BY <3>6
      <4>2. Front(f) = SubSeq(f, 1, n)
        BY <3>2 DEF n
      <4> QED
        BY <3>5, <4>1, <4>2
    <3> QED
      BY <3>6, <3>7, <3>8
  <2>4. l \in LineType /\ ~Parsable(l)
    BY DEF LineType, RecType, NoRec, Forms, Parsable
  <2> HIDE DEF l
  <2>5. /\ g \in Seq(LineType) /\ Len(g) = Len(f) /\ g[Len(f)] = l
        /\ \A i \in 1..Len(f) - 1 : g[i] = f[i]
    BY <2>1, <2>2, <2>3, <2>4, AppendProperties
  <2>6. Recs(g) \subseteq Recs(f)
    BY <2>2, <2>4, <2>5, RecsAre
  <2> QED
    BY <1>2, <2>5, <2>6
<1>3. CASE ~Glues(f)
  <2>1. form = "none" => g = f
    BY DEF Appended
  <2>2. g \in Seq(LineType)
    BY <1>3, AppendedPlain
  <2>3. \A x \in Recs(g) : x \in Recs(f) \/ x = r
    BY <1>3, AppendedPlain
  <2> QED
    BY <2>1, <2>2, <2>3
<1> QED
  BY <1>1, <1>2, <1>3

LEMMA TruncatedOK ==
  ASSUME NEW f \in Seq(LineType), ~MidCorrupt(f), NEW g, g = Truncated(f)
  PROVE  /\ g \in Seq(LineType) /\ Recs(g) = Recs(f)
         /\ Plain(f) => Plain(g)
         /\ Once(f) => Once(g)
<1>1. CASE Corrupt(f) = {}
  <2>1. g = f
    BY <1>1 DEF Truncated
  <2> QED
    BY <2>1
<1>2. CASE Corrupt(f) # {}
  <2> DEFINE m == Min(Corrupt(f))
  <2>1. Len(f) \in Nat /\ \A i \in 1..Len(f) : f[i] \in LineType
    BY RecsAre
  <2>2. Corrupt(f) \subseteq Nat /\ Corrupt(f) \subseteq 1..Len(f)
    BY <2>1 DEF Corrupt
  <2>3. m \in Corrupt(f) /\ \A i \in Corrupt(f) : m <= i
    BY <1>2, <2>2, LeastIn
  <2>4. m \in 1..Len(f) /\ ~Parsable(f[m]) /\ \A i \in m + 1..Len(f) : ~Parsable(f[i])
    BY <1>2, <2>3 DEF Corrupt, MidCorrupt
  <2>5. g = SubSeq(f, 1, m - 1)
    BY <1>2 DEF Truncated
  <2> HIDE DEF m
  <2>6. g \in Seq(LineType) /\ Len(g) = m - 1 /\ \A i \in 1..m - 1 : g[i] = f[i]
    BY <2>1, <2>4, <2>5, SubSeqProperties
  <2>7. \A i \in 1..Len(f) : Parsable(f[i]) => i \in 1..m - 1
    BY <2>1, <2>4
  <2>8. 1..m - 1 \subseteq 1..Len(f)
    BY <2>1, <2>4
  <2>9. Recs(g) = Recs(f)
    <3>1. \A x : x \in Recs(g) <=> \E i \in 1..m - 1 : Parsable(g[i]) /\ g[i].rec = x
      BY <2>6, RecsAre
    <3>2. \A x : x \in Recs(f) <=> \E i \in 1..Len(f) : Parsable(f[i]) /\ f[i].rec = x
      BY RecsAre
    <3> QED
      BY <2>6, <2>7, <2>8, <3>1, <3>2
  <2>10. Plain(f) => Plain(g)
    BY <2>1, <2>4, <2>6, <2>8 DEF Plain
  <2>11. Once(f) => Once(g)
    <3>1. DOMAIN g = 1..m - 1 /\ DOMAIN f = 1..Len(f)
      BY <2>6, RecsAre
    <3> QED
      BY <2>6, <2>8, <3>1 DEF Once
  <2> QED
    BY <2>6, <2>9, <2>10, <2>11
<1> QED
  BY <1>1, <1>2

-----------------------------------------------------------------------------
(* Steps that leave the audit alone, and what they make of the turn files. *)

LEMMA SameLog ==
  ASSUME log' = log
  PROVE  /\ End' = End /\ \A n : EraAt(n)' = EraAt(n)
         /\ \A w, n : OpenAt(w, n)' = OpenAt(w, n) /\ Turns(w, n)' = Turns(w, n)
         /\ \A r : Genuine(r)' <=> Genuine(r)
<1>1. End' = End /\ \A n : EraAt(n)' = EraAt(n)
  BY DEF End, EraAt
<1>2. \A w, k : Of(w, k)' = Of(w, k)
  BY <1>1 DEF Of
<1>3. \A w, n : Unclosed(w, n)' = Unclosed(w, n)
  BY <1>2 DEF Unclosed, ClosedBetween
<1>4. \A w, n : OpenAt(w, n)' = OpenAt(w, n)
  BY <1>3 DEF OpenAt
<1>5. \A w, n : Turns(w, n)' = Turns(w, n)
  BY <1>1, <1>2, <1>4 DEF Turns
<1> QED
  BY <1>1, <1>4, <1>5 DEF Genuine

LEMMA RecordsTyped ==
  ASSUME file \in [Sessions -> Seq(LineType)], NEW w \in Sessions
  PROVE  Records(w) = Recs(file[w]) /\ Records(w) \subseteq RecType
<1>1. file[w] \in Seq(LineType) /\ Records(w) = Recs(file[w])
  BY DEF Records, Recs
<1> QED
  BY <1>1, RecsAre

(* The files after a step: still in order, unless one of them was glued, and *)
(* holding what they held. *)
Grown ==
    /\ file' \in [Sessions -> Seq(LineType)]
    /\ \A w \in Sessions : \A r \in Records(w)' : Past(r.e, r.era)
    /\ FilesOK'
    /\ Clean' => Clean /\ \A w \in Sessions : Records(w) \subseteq Records(w)'

LEMMA SameFiles ==
  ASSUME Shapes, Named, FilesOK, UNCHANGED <<log, file>>, Clean' => Clean
  PROVE  Grown
<1>1. \A w : Records(w)' = Records(w)
  BY DEF Records
<1>2. \A w : FileOK(w)' <=> FileOK(w)
  BY <1>1, SameLog DEF FileOK
<1>3. file' \in [Sessions -> Seq(LineType)]
  BY DEF Shapes
<1> QED
  BY <1>1, <1>2, <1>3 DEF Grown, Named, FilesOK

LEMMA IndexTyped ==
  ASSUME Shapes, NEW i \in 1..End
  PROVE  /\ log[i].w \in Sessions /\ log[i].era \in Nat /\ log[i].kind \in Kinds
         /\ idx.open \in OpenType /\ idx.open[log[i].w] \in Nat /\ idx.cp \in Nat /\ idx.cursor \in Nat
         /\ RecordOf(i) \in RecType /\ Turned(i) \in OpenType
         /\ End \in Nat /\ i \in Nat /\ i - 1 \in 0..End /\ EraAt(i) = log[i].era
<1>1. log[i] \in RowType /\ End \in Nat /\ i \in Nat \ {0} /\ i - 1 \in 0..End
  BY RowsTyped DEF Shapes
<1>2. log[i].w \in Sessions /\ log[i].era \in Nat /\ log[i].kind \in Kinds
  BY <1>1 DEF RowType
<1>3. idx.open \in OpenType /\ idx.open[log[i].w] \in Nat /\ idx.cp \in Nat /\ idx.cursor \in Nat
  BY <1>2 DEF Shapes, IdxType, OpenType
<1>4. RecordOf(i) \in RecType
  BY <1>1, <1>2, <1>3 DEF RecordOf, RecType
<1>5. Turned(i) \in OpenType
  BY <1>1, <1>2, <1>3 DEF Turned, OpenType, None
<1> QED
  BY <1>1, <1>2, <1>3, <1>4, <1>5 DEF EraAt

(* The record that row i closes is a turn of the audit. *)
LEMMA ClosedIsTurn ==
  ASSUME Shapes, NEW i \in 1..End, Closes(i), Knows(i - 1)
  PROVE  RecordOf(i) \in Turns(log[i].w, i) /\ RecordOf(i) \in Turns(log[i].w, End)
<1>1. idx.open[log[i].w] = OpenAt(log[i].w, i - 1) /\ log[i].kind = "end"
  BY IndexTyped DEF Knows, Closes
<1>2. RecordOf(i) \in Turns(log[i].w, i)
  BY <1>1, TurnsStep, IndexTyped DEF RecordOf, Closes, Shapes
<1>3. Turns(log[i].w, i) \subseteq Turns(log[i].w, End)
  BY TurnsGrow, IndexTyped DEF Shapes
<1> QED
  BY <1>2, <1>3

LEMMA WriteGrows ==
  ASSUME Shapes, Named, FilesOK, log' = log, NEW i \in 1..End, Closes(i),
         NEW w, w = log[i].w, NEW r, r = RecordOf(i),
         NEW form \in {"none", "bare", "part", "whole"},
         file' = [file EXCEPT ![w] = Appended(@, r, form)],
         flaws \ {"gap"} \subseteq flaws',
         form # "none" /\ Glues(file[w]) => "glued" \in flaws',
         Clean => Knows(i - 1) /\ r \notin Records(w)
  PROVE  /\ Grown
         /\ Clean' /\ form = "whole" => r \in Records(w)'
<1> DEFINE f == file[w]
           g == Appended(f, r, form)
<1>1. w \in Sessions /\ r \in RecType /\ r.e = i /\ r.era = log[i].era
  BY IndexTyped DEF RecordOf
<1>2. f \in Seq(LineType) /\ file'[w] = g /\ \A v \in Sessions : v # w => file'[v] = file[v]
  BY <1>1 DEF Shapes
<1>3. /\ g \in Seq(LineType)
      /\ \A x \in Recs(g) : x \in Recs(f) \/ x = r
      /\ form = "none" => g = f
      /\ ~Glues(f) => /\ \A x \in Recs(f) : x \in Recs(g)
                      /\ form \in {"whole", "bare"} => r \in Recs(g)
                      /\ Plain(f) => Plain(g)
                      /\ Once(f) /\ r \notin Recs(f) => Once(g)
  <2>1. g = Appended(f, r, form) /\ f \in Seq(LineType) /\ r \in RecType
    BY <1>1, <1>2
  <2> HIDE DEF f, g
  <2>2. g \in Seq(LineType)
    BY <2>1, AppendedOK
  <2>3. ASSUME NEW x \in Recs(g) PROVE x \in Recs(f) \/ x = r
    BY <2>1, <2>3, AppendedOK
  <2>4. form = "none" => g = f
    BY <2>1, AppendedOK
  <2>5. ASSUME ~Glues(f), NEW x \in Recs(f) PROVE x \in Recs(g)
    BY <2>1, <2>5, AppendedPlain
  <2>6. ASSUME ~Glues(f), form \in {"whole", "bare"} PROVE r \in Recs(g)
    BY <2>1, <2>6, AppendedPlain
  <2>7. ASSUME ~Glues(f), Plain(f) PROVE Plain(g)
    BY <2>1, <2>7, AppendedPlain
  <2>8. ASSUME ~Glues(f), Once(f), r \notin Recs(f) PROVE Once(g)
    BY <2>1, <2>8, AppendedPlain
  <2> QED
    BY <2>2, <2>3, <2>4, <2>5, <2>6, <2>7, <2>8
<1>4. file' \in [Sessions -> Seq(LineType)]
  <2> HIDE DEF g, f
  <2>1. file' = [file EXCEPT ![w] = g]
    BY DEF g, f
  <2> QED
    BY <1>1, <1>3, <2>1 DEF Shapes
<1>5. \A v \in Sessions : Records(v) = Recs(file[v]) /\ Records(v)' = Recs(file'[v])
  BY DEF Records, Recs
<1>6. Past(r.e, r.era)
  BY <1>1, IndexTyped DEF Past, Named
<1>7. \A v \in Sessions : \A x \in Records(v)' : x \in Records(v) \/ (v = w /\ x = r)
  <2> HIDE DEF g, f
  <2> QED
    BY <1>2, <1>3, <1>5 DEF f
<1>8. Clean' => Clean /\ (form = "none" \/ ~Glues(f))
  BY DEF Clean
<1> HIDE DEF g
<1>9. ASSUME Clean'
      PROVE  /\ \A v \in Sessions : Records(v) \subseteq Records(v)'
             /\ form = "whole" => r \in Records(w)'
  <2>1. CASE form = "none"
    BY <1>1, <1>2, <1>3, <1>5, <1>8, <1>9, <2>1
  <2>2. CASE ~Glues(f)
    <3> HIDE DEF f
    <3>1. Recs(f) \subseteq Recs(g) /\ (form = "whole" => r \in Recs(g))
      BY <1>3, <2>2
    <3>2. Records(w) = Recs(f) /\ Records(w)' = Recs(g)
      BY <1>1, <1>2, <1>5 DEF f
    <3>3. \A v \in Sessions : v # w => Records(v)' = Records(v)
      BY <1>2, <1>5
    <3> QED
      BY <3>1, <3>2, <3>3
  <2> QED
    BY <1>8, <1>9, <2>1, <2>2
<1>10. ASSUME Clean', NEW v \in Sessions PROVE FileOK(v)'
  <2>1. FileOK(v) /\ Knows(i - 1) /\ r \notin Records(w)
    BY <1>8, <1>10 DEF FilesOK
  <2>2. r \in Turns(w, End)
    BY <2>1, ClosedIsTurn
  <2>3. Plain(file[v]) /\ Once(file[v]) /\ \A x \in Records(v) : Genuine(x) => x \in Turns(v, End)
    BY <2>1 DEF FileOK, Plain
  <2>4. Plain(file'[v]) /\ Once(file'[v])
    BY <1>1, <1>2, <1>3, <1>5, <1>8, <1>10, <2>1, <2>3
  <2>5. \A x \in Records(v)' : Genuine(x)' => x \in Turns(v, End)'
    BY <1>7, <2>2, <2>3, SameLog
  <2> QED
    BY <2>4, <2>5 DEF FileOK, Plain
<1> QED
  BY <1>4, <1>6, <1>7, <1>8, <1>9, <1>10 DEF Grown, FilesOK, Named

(* What the index knows after it has looked at row i. *)
LEMMA KnowsStep ==
  ASSUME Shapes, log' = log, NEW i \in 1..End, Knows(i - 1),
         \A w \in Sessions : Records(w) \subseteq Records(w)',
         Closes(i) => RecordOf(i) \in Records(log[i].w)'
  PROVE  \A w \in Sessions : Turned(i)[w] = OpenAt(w, i) /\ Turns(w, i) \subseteq Records(w)'
<1> SUFFICES ASSUME NEW w \in Sessions
             PROVE  Turned(i)[w] = OpenAt(w, i) /\ Turns(w, i) \subseteq Records(w)'
  OBVIOUS
<1>1. idx.open[w] = OpenAt(w, i - 1) /\ Turns(w, i - 1) \subseteq Records(w)
  BY DEF Knows
<1>2. log[i].kind = "end" => log[i].kind # "user"
  OBVIOUS
<1>3. Turned(i)[w] = OpenAt(w, i)
  <2>1. idx.open \in [Sessions -> Nat] /\ log[i].w \in Sessions
    BY IndexTyped DEF OpenType
  <2> QED
    BY <1>1, <1>2, <2>1, OpenStep DEF Turned, Opens, Closes, Shapes, None
<1>4. Turns(w, i) = Turns(w, i - 1) \cup
           (IF log[i].w = w /\ log[i].kind = "end" /\ OpenAt(w, i - 1) # None
            THEN {[s |-> OpenAt(w, i - 1), e |-> i, era |-> EraAt(i)]} ELSE {})
  BY TurnsStep DEF Shapes
<1>5. Turns(w, i) \subseteq Records(w)'
  <2> SUFFICES ASSUME log[i].w = w, log[i].kind = "end", OpenAt(w, i - 1) # None
               PROVE  [s |-> OpenAt(w, i - 1), e |-> i, era |-> EraAt(i)] \in Records(w)'
    BY <1>1, <1>4
  <2> QED
    BY <1>1, IndexTyped DEF Closes, RecordOf
<1> QED
  BY <1>3, <1>5

LEMMA SameKnows ==
  ASSUME UNCHANGED <<log, file, idx>>
  PROVE  \A n : Knows(n)' <=> Knows(n)
BY SameLog DEF Knows, Records

(* Steps of the rebuild and of the shutdown that touch no data. *)
LEMMA QuietKeeps ==
  ASSUME IndexInv, UNCHANGED <<log, era, ckpt, file, flaws, idx>>, Shapes', Course',
         emit' = "observe" => emit = "observe",
         phase' # "down" =>
            /\ phase # "down" /\ (phase' = "verify" <=> phase = "verify")
            /\ idx.degraded \/ idx.unverified \/ (emit' = "observe" <=> emit = "observe"),
         phase' = "repair" => phase = "repair" /\ todo' = todo
  PROVE  IndexInv'
<1>1. Shapes /\ Named /\ FilesOK /\ Followed /\ Recoverable /\ Settling
  BY DEF IndexInv
<1>2. /\ End' = End /\ \A n : EraAt(n)' = EraAt(n)
      /\ \A w, n : OpenAt(w, n)' = OpenAt(w, n) /\ Turns(w, n)' = Turns(w, n)
  BY SameLog
<1>3. Clean' <=> Clean
  BY DEF Clean
<1>4. Grown
  BY <1>1, <1>3, SameFiles
<1>5. \A w : Records(w)' = Records(w)
  BY DEF Records
<1>6. \A n : Knows(n)' <=> Knows(n)
  BY SameKnows
<1>7. Named'
  BY <1>1, <1>2, <1>4 DEF Named, Grown, Past
<1>8. Followed'
  <2>1. (Unseen' <=> Unseen) /\ Place' = Place /\ (Ahead' <=> Ahead)
    BY <1>2, <1>5, <1>6 DEF Unseen, Place, Ahead
  <2> QED
    BY <1>1, <1>2, <1>3, <1>6, <2>1 DEF Followed
<1>9. Recoverable'
  BY <1>1, <1>2, <1>5 DEF Recoverable, Trusted
<1>10. Settling'
  BY <1>1, <1>2 DEF Settling
<1> QED
  BY <1>4, <1>7, <1>8, <1>9, <1>10 DEF IndexInv, Grown

(* The steps that write: what they leave alone. *)
LEMMA NamedKept ==
  ASSUME Named, Grown, UNCHANGED <<log, era>>, Past(ckpt'.at, ckpt'.era),
         phase' # "down" /\ ~idx'.unverified => idx'.cp <= End /\ idx'.cursor <= End,
         emit' = "observe" => emit = "observe"
  PROVE  Named'
<1>1. End' = End
  BY SameLog
<1>2. \A w \in Sessions : \A r \in Records(w)' : Past(r.e, r.era)'
  BY <1>1 DEF Grown, Past
<1>3. Past(ckpt.at, ckpt.era)'
  BY <1>1 DEF Past
<1> QED
  BY <1>1, <1>2, <1>3 DEF Named

LEMMA CheckpointNamed ==
  ASSUME Shapes, Named, NEW n \in 0..End, NEW open
  PROVE  /\ Past(Checkpoint(n, open).at, Checkpoint(n, open).era)
         /\ Checkpoint(n, open).at = n /\ Checkpoint(n, open).open = open
         /\ Checkpoint(n, open).era = EraAt(n) /\ EraAt(n) \in Nat /\ n \in Nat
<1>1. End \in Nat /\ \A i \in 1..End : log[i].era \in Nat
  BY RowsTyped DEF Shapes
<1>2. EraAt(n) \in Nat /\ EraAt(n) <= era
  BY <1>1 DEF EraAt, Named, Shapes
<1> QED
  BY <1>1, <1>2 DEF Checkpoint, Past

LEMMA RecoverableKept ==
  ASSUME Recoverable, Grown, UNCHANGED <<log, ckpt>>, flaws' = {} => flaws = {}
  PROVE  Recoverable'
<1>1. Trusted' <=> Trusted
  BY SameLog DEF Trusted
<1>2. flaws' = {} => \A w \in Sessions : Records(w) \subseteq Records(w)'
  BY DEF Grown, Clean
<1> QED
  BY <1>1, <1>2, SameLog DEF Recoverable

LEMMA RecoverableWritten ==
  ASSUME log' = log, NEW n, NEW open, ckpt' = Checkpoint(n, open),
         flaws' = {} => \A w \in Sessions : Turns(w, n) \subseteq Records(w)' /\ open[w] = OpenAt(w, n)
  PROVE  Recoverable'
<1>1. ckpt'.at = n /\ ckpt'.open = open
  BY DEF Checkpoint
<1> QED
  BY <1>1, SameLog DEF Recoverable

LEMMA SettlingKept ==
  ASSUME Settling, UNCHANGED <<log, phase, todo>>, flaws' = {} => flaws = {}
  PROVE  Settling'
BY SameLog DEF Settling

LEMMA GrownKnows ==
  ASSUME Grown, Clean', log' = log, idx'.open = idx.open, NEW n, Knows(n)
  PROVE  Knows(n)'
BY SameLog DEF Grown, Knows

LEMMA QuietSteps ==
  ASSUME BoundsAssumption, IndexInv,
         \/ ObserveNothing \/ Notify \/ ScanDone \/ Check \/ Lock \/ AttachFails
         \/ Backoff \/ FinishRebuild \/ CancelRebuild \/ RebuildConverged \/ FlushFails
         \/ Crash \/ OpenUI
  PROVE  IndexInv'
<1> USE DEF disk, app
<1>1. Shapes /\ Course
  BY DEF IndexInv
<1>2. MaxAttempts \in Nat /\ loop.pc \in LoopPcs /\ loop.attempt \in Nat
      /\ loop \in [pc : LoopPcs, attempt : Nat]
  BY <1>1 DEF Shapes, BoundsAssumption
<1>3. UNCHANGED <<log, era, ckpt, file, flaws, idx>>
  BY DEF ObserveNothing, Notify, ScanDone, Check, Lock, AttachFails, Backoff, FinishRebuild,
         CancelRebuild, RebuildConverged, FlushFails, Crash, OpenUI
<1>4. loop' \in [pc : LoopPcs, attempt : Nat]
  <2>1. CASE ObserveNothing \/ CancelRebuild \/ RebuildConverged \/ FlushFails \/ OpenUI
    BY <1>2, <2>1 DEF ObserveNothing, CancelRebuild, RebuildConverged, FlushFails, OpenUI
  <2>2. CASE Notify \/ ScanDone \/ AttachFails \/ Backoff \/ FinishRebuild \/ Crash
    BY <1>2, <2>2 DEF Notify, ScanDone, AttachFails, Backoff, FinishRebuild, Crash, LoopTo, LoopPcs, Idle
  <2>3. CASE Check \/ Lock
    BY <1>2, <2>3 DEF Check, Lock, LoopTo, LoopPcs, NextAttempt
  <2> QED
    BY <2>1, <2>2, <2>3
<1>5. Shapes'
  <2>1. /\ emit' \in {"free", "observe", "notify", "rebuild"} /\ closed' \in BOOLEAN
        /\ phase' \in Phases /\ todo' \subseteq Sessions
    BY <1>1 DEF Shapes, Phases, ObserveNothing, Notify, ScanDone, Check, Lock, AttachFails, Backoff,
         FinishRebuild, CancelRebuild, RebuildConverged, FlushFails, Crash, OpenUI
  <2> QED
    BY <1>1, <1>3, <1>4, <2>1 DEF Shapes
<1>6. Course'
  <2>1. CASE ObserveNothing \/ CancelRebuild \/ RebuildConverged \/ FlushFails \/ OpenUI
    BY <1>1, <1>3, <2>1 DEF Course, Shapes, ObserveNothing, CancelRebuild, RebuildConverged, FlushFails, OpenUI
  <2>2. CASE Notify
    <3>1. /\ ~idx.unverified /\ phase \in {"repair", "up", "closing", "flushing"}
          /\ phase \in {"closing", "flushing"} => closed
      BY <1>1, <2>2 DEF Course, Notify, Shapes, Phases
    <3>2. CASE closed \/ loop.pc # "none"
      BY <1>1, <1>3, <2>2, <3>1, <3>2 DEF Course, Notify
    <3>3. CASE ~closed /\ loop.pc = "none"
      <4>1. loop'.pc = "begin"
        BY <1>2, <2>2, <3>3 DEF Notify
      <4> QED
        BY <1>1, <1>3, <2>2, <3>1, <3>3, <4>1 DEF Course, Scanning, Notify
    <3> QED
      BY <3>2, <3>3
  <2>3. CASE ScanDone \/ AttachFails
    BY <1>1, <1>2, <1>3, <2>3 DEF Course, Scanning, ScanDone, AttachFails, LoopTo
  <2>4. CASE Check \/ Lock
    BY <1>1, <1>2, <1>3, <2>4 DEF Course, Scanning, Check, Lock, LoopTo, NextAttempt
  <2>5. CASE Backoff \/ FinishRebuild \/ Crash
    BY <1>1, <1>2, <1>3, <2>5 DEF Course, Scanning, Backoff, FinishRebuild, Crash, LoopTo, Idle
  <2> QED
    BY <2>1, <2>2, <2>3, <2>4, <2>5
<1>7. /\ emit' = "observe" => emit = "observe"
      /\ phase' # "down" =>
            /\ phase # "down" /\ (phase' = "verify" <=> phase = "verify")
            /\ idx.degraded \/ idx.unverified \/ (emit' = "observe" <=> emit = "observe")
      /\ phase' = "repair" => phase = "repair" /\ todo' = todo
  BY <1>1 DEF Course, ObserveNothing, Notify, ScanDone, Check, Lock, AttachFails, Backoff, FinishRebuild,
         CancelRebuild, RebuildConverged, FlushFails, Crash, OpenUI, Scanning
<1> QED
  BY <1>3, <1>5, <1>6, <1>7, QuietKeeps

-----------------------------------------------------------------------------
(* A row is written. *)
AuditFacts ==
    log \in Seq(RowType) =>
        \A w : \A i \in 1..End :
            OpenAt(w, i) = IF log[i].w = w /\ log[i].kind = "user" /\ OpenAt(w, i - 1) = None THEN i
                           ELSE IF log[i].w = w /\ log[i].kind = "end" THEN None
                           ELSE OpenAt(w, i - 1)

LEMMA AuditFactsHold == AuditFacts /\ AuditFacts'
<1>1. AuditFacts
  BY OpenStep DEF AuditFacts
<1> QED
  BY <1>1, PTL

LEMMA RowAdds ==
  ASSUME log \in Seq(RowType), era \in Nat, NEW w \in Sessions, NEW kind \in Kinds,
         log' = Append(log, [w |-> w, kind |-> kind, era |-> era])
  PROVE  /\ log' \in Seq(RowType) /\ End \in Nat /\ End' = End + 1
         /\ \A i \in 1..End : log'[i] = log[i]
         /\ log'[End + 1] = [w |-> w, kind |-> kind, era |-> era]
         /\ \A n \in 0..End : EraAt(n)' = EraAt(n)
         /\ \A v : \A n \in 0..End : OpenAt(v, n)' = OpenAt(v, n) /\ Turns(v, n)' = Turns(v, n)
         /\ \A v : Turns(v, End) \subseteq Turns(v, End)'
<1> DEFINE row == [w |-> w, kind |-> kind, era |-> era]
<1>1. row \in RowType
  BY DEF RowType
<1>2. /\ log' \in Seq(RowType) /\ Len(log') = Len(log) + 1
      /\ \A i \in 1..Len(log) : log'[i] = log[i]
      /\ log'[Len(log) + 1] = row
  <2> HIDE DEF row
  <2>1. log' = Append(log, row)
    BY DEF row
  <2> QED
    BY <1>1, <2>1, AppendProperties
<1>3. End \in Nat /\ End' = End + 1 /\ End = Len(log)
  <2>1. End' = Len(log') /\ End = Len(log)
    BY DEF End
  <2> QED
    BY <1>2, <2>1, RowsTyped
<1>4. /\ \A n \in 0..End : EraAt(n)' = EraAt(n)
      /\ \A v : \A n \in 0..End : OpenAt(v, n)' = OpenAt(v, n) /\ Turns(v, n)' = Turns(v, n)
  <2>1. End <= End /\ End <= End' /\ \A i \in 1..End : log'[i] = log[i]
    BY <1>2, <1>3
  <2> QED
    BY <1>2, <1>3, <2>1, Prefix
<1>5. ASSUME NEW v PROVE Turns(v, End) \subseteq Turns(v, End)'
  <2>1. \A e \in Of(v, "end") : e \in 1..End /\ e - 1 \in 0..End /\ e \in 0..End
    BY <1>3 DEF Of
  <2>2. \A e \in Of(v, "end") : e \in Of(v, "end")' /\ e <= End'
    BY <1>2, <1>3, <2>1 DEF Of
  <2> QED
    BY <1>4, <2>1, <2>2 DEF Turns
<1> QED
  BY <1>2, <1>3, <1>4, <1>5

LEMMA RowKeeps ==
  ASSUME IndexInv, NEW w \in Sessions, NEW kind \in Kinds, Row(w, kind),
         phase \in {"repair", "up", "closing", "flushing"},
         UNCHANGED <<era, disk, idx, loop, closed, phase>>, todo' \subseteq Sessions,
         phase = "repair" => kind = "end" /\ todo' = todo \ {w}
  PROVE  IndexInv'
<1>1. Shapes /\ Course /\ Named /\ FilesOK /\ Followed /\ Recoverable /\ Settling
  BY DEF IndexInv
<1>2. UNCHANGED <<era, ckpt, file, flaws, idx, loop, closed, phase>>
      /\ emit = "free" /\ emit' = "observe"
  BY DEF disk, Row
<1>3. /\ log' \in Seq(RowType) /\ End \in Nat /\ End' = End + 1
      /\ \A i \in 1..End : log'[i] = log[i]
      /\ log'[End + 1] = [w |-> w, kind |-> kind, era |-> era]
      /\ \A n \in 0..End : EraAt(n)' = EraAt(n)
      /\ \A v : \A n \in 0..End : OpenAt(v, n)' = OpenAt(v, n) /\ Turns(v, n)' = Turns(v, n)
      /\ \A v : Turns(v, End) \subseteq Turns(v, End)'
  BY <1>1, RowAdds DEF Row, Shapes
<1>4. Shapes'
  BY <1>1, <1>2, <1>3 DEF Shapes
<1>5. Course'
  BY <1>1, <1>2 DEF Course
<1>6. \A v : Records(v)' = Records(v)
  BY <1>2 DEF Records
<1>7. \A v \in Sessions : \A r \in Records(v) : r \in RecType /\ r.e \in Nat /\ Past(r.e, r.era)
  BY <1>1, RecordsTyped DEF Named, Shapes, RecType
<1>8. \A e \in Nat : \A x : Past(e, x) => Past(e, x)'
  BY <1>2, <1>3 DEF Past
<1>9. Named'
  <2>1. \A i \in 1..End + 1 : log'[i].era <= era
    <3>1. \A i \in 1..End + 1 : i \in 1..End \/ i = End + 1
      BY <1>3
    <3>2. era <= era
      BY <1>1 DEF Shapes
    <3> QED
      BY <1>1, <1>3, <3>1, <3>2 DEF Named
  <2>2. \A v \in Sessions : \A r \in Records(v)' : Past(r.e, r.era)'
    BY <1>6, <1>7, <1>8
  <2>3. ckpt.at \in Nat /\ Past(ckpt.at, ckpt.era)
    BY <1>1 DEF Shapes, Named
  <2>4. Past(ckpt.at, ckpt.era)'
    BY <1>2, <1>8, <2>3
  <2>5. phase' # "down" /\ ~idx'.unverified => idx'.cp <= End' /\ idx'.cursor <= End'
    BY <1>1, <1>2, <1>3 DEF Named, Shapes, IdxType
  <2>6. End' # 0 /\ log'[End'].era = era
    BY <1>3
  <2> QED
    BY <1>2, <1>3, <2>1, <2>2, <2>4, <2>5, <2>6 DEF Named
<1>10. \A v \in Sessions : \A r \in Records(v) : Genuine(r)' => Genuine(r)
  <2> SUFFICES ASSUME NEW v \in Sessions, NEW r \in Records(v), Genuine(r)'
               PROVE  Genuine(r)
    OBVIOUS
  <2>1. r.e \in Nat /\ Past(r.e, r.era) /\ r.e <= End + 1 /\ r.era = EraAt(r.e)'
    BY <1>3, <1>7 DEF Genuine
  <2>2. r.e # End + 1
    <3> SUFFICES ASSUME r.e = End + 1 PROVE FALSE
      OBVIOUS
    <3>1. r.era = era
      BY <1>3, <2>1 DEF EraAt
    <3> QED
      BY <1>1, <1>3, <2>1, <3>1 DEF Past, Shapes
  <2>3. r.e \in 0..End
    BY <1>3, <2>1, <2>2
  <2> QED
    BY <1>3, <2>1, <2>3 DEF Genuine
<1>11. FilesOK'
  <2> SUFFICES ASSUME Clean', NEW v \in Sessions PROVE FileOK(v)'
    BY DEF FilesOK
  <2>1. FileOK(v)
    BY <1>1, <1>2 DEF FilesOK, Clean
  <2>2. \A r \in Records(v)' : Genuine(r)' => r \in Turns(v, End)'
    BY <1>3, <1>6, <1>10, <2>1 DEF FileOK
  <2> QED
    BY <1>2, <2>1, <2>2 DEF FileOK
<1>12. \A n \in 0..End : Knows(n)' <=> Knows(n)
  BY <1>2, <1>3, <1>6 DEF Knows
<1>13. Followed'
  <2> SUFFICES ASSUME Clean, ~idx.unverified
               PROVE  /\ ~idx.degraded => Knows(idx.cp)' /\ idx.cursor <= idx.cp /\ idx.cp + 1 = End' /\ Unseen'
                      /\ idx.degraded => Knows(Place)' \/ Ahead'
    BY <1>2 DEF Followed, Clean
  <2>1. idx.cp \in 0..End /\ idx.cursor \in 0..End /\ idx' = idx
    BY <1>1, <1>2, <1>3 DEF Named, Shapes, IdxType
  <2>2. CASE ~idx.degraded
    <3>1. Knows(idx.cp) /\ idx.cursor <= idx.cp /\ idx.cp = End
      BY <1>1, <1>2, <2>2 DEF Followed
    <3>2. Knows(idx.cp)'
      BY <1>12, <2>1, <3>1
    <3>3. Unseen'
      <4> SUFFICES ASSUME NEW v \in Sessions, NEW r \in Records(v)', r.e = End', r.era = era'
                   PROVE  FALSE
        BY DEF Unseen
      <4>1. r \in Records(v) /\ era' = era /\ era \in Nat
        BY <1>1, <1>2, <1>6 DEF Shapes
      <4>2. r.e = End + 1 /\ r.era = era /\ Past(r.e, r.era)
        BY <1>3, <1>7, <4>1
      <4> QED
        BY <1>3, <4>1, <4>2 DEF Past
    <3> QED
      BY <1>3, <2>2, <3>1, <3>2, <3>3
  <2>3. CASE idx.degraded
    <3>1. Knows(Place) \/ Ahead
      BY <1>1, <1>2, <2>3 DEF Followed
    <3>2. Place \in 0..End /\ Place' = Place
      BY <2>1 DEF Place
    <3>3. Knows(Place) => Knows(Place)'
      BY <1>12, <3>2
    <3>4. Ahead => Ahead'
      <4> SUFFICES ASSUME Ahead PROVE Ahead'
        OBVIOUS
      <4>1. idx.cp + 1 \in 0..End /\ idx.cp + 1 \in 1..End /\ idx.cp < End'
        BY <1>3, <2>1 DEF Ahead
      <4>2. Knows(idx.cp + 1)'
        BY <1>12, <2>1, <4>1 DEF Ahead
      <4> QED
        BY <1>3, <2>1, <4>1, <4>2 DEF Ahead
    <3> QED
      BY <2>3, <3>1, <3>3, <3>4
  <2> QED
    BY <2>2, <2>3
<1>14. Recoverable'
  <2> SUFFICES ASSUME flaws = {}, Trusted', NEW v \in Sessions
               PROVE  Turns(v, ckpt.at)' \subseteq Records(v) /\ ckpt.open[v] = OpenAt(v, ckpt.at)'
    BY <1>2, <1>6 DEF Recoverable
  <2>1. ckpt.at \in Nat /\ Past(ckpt.at, ckpt.era) /\ ckpt' = ckpt /\ era \in Nat
    BY <1>1, <1>2 DEF Named, Shapes
  <2>2. ckpt.at <= End + 1 /\ ckpt.era = EraAt(ckpt.at)'
    BY <1>3, <2>1 DEF Trusted
  <2>3. ckpt.at # End + 1
    <3> SUFFICES ASSUME ckpt.at = End + 1 PROVE FALSE
      OBVIOUS
    <3>1. ckpt.era = era
      BY <1>3, <2>1, <2>2 DEF EraAt
    <3> QED
      BY <1>3, <2>1, <3>1 DEF Past
  <2>4. ckpt.at \in 0..End
    BY <1>3, <2>1, <2>2, <2>3
  <2>5. Trusted
    BY <1>3, <2>1, <2>2, <2>4 DEF Trusted
  <2> QED
    BY <1>1, <1>3, <2>1, <2>4, <2>5 DEF Recoverable
<1>15. Settling'
  <2> SUFFICES ASSUME phase = "repair", flaws = {}, NEW v \in Sessions \ todo'
               PROVE  OpenAt(v, End)' = None
    BY <1>2 DEF Settling
  <2>1. /\ End' \in 1..End' /\ End' - 1 = End /\ End \in 0..End
        /\ log'[End'].w = w /\ log'[End'].kind = "end"
    BY <1>3
  <2>2. OpenAt(v, End)' = IF w = v THEN None ELSE OpenAt(v, End - 1)'
    BY <1>3, <2>1, AuditFactsHold DEF AuditFacts
  <2> QED
    BY <1>1, <1>3, <2>1, <2>2 DEF Settling
<1> QED
  BY <1>4, <1>5, <1>9, <1>11, <1>13, <1>14, <1>15 DEF IndexInv

-----------------------------------------------------------------------------
(* The index observes the row. *)
LEMMA AppendRecordGrows ==
  ASSUME Shapes, Named, FilesOK, log' = log, NEW i \in 1..End, Closes(i),
         NEW form \in {"none", "bare", "part", "whole"}, AppendRecord(i, form),
         Clean => Knows(i - 1) /\ RecordOf(i) \notin Records(log[i].w)
  PROVE  /\ Grown /\ flaws \subseteq flaws'
         /\ Clean' /\ form = "whole" => RecordOf(i) \in Records(log[i].w)'
<1>1. PICK w : w = log[i].w
  OBVIOUS
<1>2. PICK r : r = RecordOf(i)
  OBVIOUS
<1>3. file' = [file EXCEPT ![w] = Appended(@, r, form)]
  BY <1>1, <1>2 DEF AppendRecord
<1>4. flaws \subseteq flaws' /\ (form # "none" /\ Glues(file[w]) => "glued" \in flaws')
  BY <1>1 DEF AppendRecord
<1>5. flaws \ {"gap"} \subseteq flaws'
  BY <1>4
<1>6. Clean => Knows(i - 1) /\ r \notin Records(w)
  BY <1>1, <1>2
<1>7. Grown /\ (Clean' /\ form = "whole" => r \in Records(w)')
  BY <1>1, <1>2, <1>3, <1>4, <1>5, <1>6, WriteGrows
<1> QED
  BY <1>1, <1>2, <1>4, <1>7

LEMMA ObservingFacts ==
  ASSUME IndexInv, Observing
  PROVE  /\ phase \in {"repair", "up", "closing", "flushing"}
         /\ End \in 1..End /\ End \in Nat /\ loop.pc \notin Scanning /\ idx.cursor <= End
         /\ Clean => /\ Knows(End - 1) /\ idx.cp = End - 1 /\ idx.cp + 1 = End /\ idx.cursor <= idx.cp
                     /\ RecordOf(End) \notin Records(log[End].w)
<1>1. Shapes /\ Course /\ Named /\ Followed
  BY DEF IndexInv
<1>2. phase \in {"repair", "up", "closing", "flushing"} /\ loop.pc \notin Scanning
  BY <1>1 DEF Course, Observing, Shapes, Phases
<1>3. End \in Nat /\ End # 0 /\ log[End].era = era /\ idx.cursor <= End /\ idx.cp \in Nat
  BY <1>1, <1>2, RowsTyped DEF Shapes, Named, Observing, IdxType
<1>4. ASSUME Clean
      PROVE  Knows(idx.cp) /\ idx.cursor <= idx.cp /\ idx.cp + 1 = End /\ Unseen
  BY <1>1, <1>2, <1>4 DEF Followed, Observing
<1>5. Unseen => RecordOf(End) \notin Records(log[End].w)
  <2>1. log[End].w \in Sessions
    BY <1>1, <1>3, IndexTyped
  <2> QED
    BY <1>3, <2>1 DEF Unseen, RecordOf
<1>6. idx.cp + 1 = End => idx.cp = End - 1
  BY <1>3
<1> QED
  BY <1>2, <1>3, <1>4, <1>5, <1>6

LEMMA ObserveRowKeeps ==
  ASSUME IndexInv, ObserveRow
  PROVE  IndexInv'
<1>1. Shapes /\ Course /\ Named /\ FilesOK /\ Followed /\ Recoverable /\ Settling /\ Observing
  BY DEF IndexInv, ObserveRow
<1>2. PICK i : i = End
  OBVIOUS
<1>3. /\ i \in 1..End /\ i \in Nat /\ i - 1 \in Nat /\ i \in 0..End /\ loop.pc \notin Scanning
      /\ phase \in {"repair", "up", "closing", "flushing"}
      /\ Clean => Knows(i - 1) /\ idx.cp = i - 1 /\ RecordOf(i) \notin Records(log[i].w)
      /\ idx.cursor <= i
  BY <1>1, <1>2, ObservingFacts
<1>4. /\ UNCHANGED <<log, era, loop, closed, phase, todo>>
      /\ IF Closes(i) THEN AppendRecord(i, "whole") ELSE UNCHANGED <<file, flaws>>
      /\ idx' = [idx EXCEPT !.cp = i, !.open = Turned(i)]
      /\ ckpt' = IF Opens(i) \/ Closes(i) THEN Checkpoint(i, Turned(i)) ELSE ckpt
      /\ emit' = "free"
  BY <1>2 DEF ObserveRow, app
<1>5. /\ Grown /\ flaws \subseteq flaws'
      /\ Clean' /\ Closes(i) => RecordOf(i) \in Records(log[i].w)'
  <2>1. CASE Closes(i)
    BY <1>1, <1>3, <1>4, <2>1, AppendRecordGrows
  <2>2. CASE ~Closes(i)
    BY <1>1, <1>4, <2>2, SameFiles DEF Clean
  <2> QED
    BY <2>1, <2>2
<1>6. Clean' => \A w \in Sessions : Turned(i)[w] = OpenAt(w, i) /\ Turns(w, i) \subseteq Records(w)'
  BY <1>1, <1>3, <1>4, <1>5, KnowsStep DEF Grown
<1>7. /\ idx' \in IdxType /\ idx'.cp = i /\ idx'.open = Turned(i) /\ idx'.cursor = idx.cursor
      /\ idx'.degraded = FALSE /\ idx'.unverified = FALSE /\ Turned(i) \in OpenType
  BY <1>1, <1>3, <1>4, IndexTyped DEF Shapes, IdxType, Observing
<1>8. End' = i
  BY <1>2, <1>4, SameLog
<1>9. /\ ckpt' \in [at : Nat, era : Nat, open : OpenType] /\ Past(ckpt'.at, ckpt'.era)
  <2>1. PICK o : o = Turned(i)
    OBVIOUS
  <2>2. /\ Past(Checkpoint(i, o).at, Checkpoint(i, o).era)
        /\ Checkpoint(i, o).at = i /\ Checkpoint(i, o).era \in Nat
    BY <1>1, <1>3, CheckpointNamed
  <2>3. Checkpoint(i, o) \in [at : Nat, era : Nat, open : OpenType]
    BY <1>3, <1>7, <2>1, <2>2 DEF Checkpoint
  <2> QED
    BY <1>1, <1>4, <2>1, <2>2, <2>3 DEF Shapes, Named
<1>10. Shapes'
  BY <1>1, <1>4, <1>5, <1>7, <1>9 DEF Shapes, Grown
<1>11. Course'
  BY <1>1, <1>3, <1>4, <1>7 DEF Course, Scanning, Observing
<1>12. Named'
  <2>1. idx'.cp <= End /\ idx'.cursor <= End
    BY <1>2, <1>3, <1>7
  <2> QED
    BY <1>1, <1>4, <1>5, <1>9, <2>1, NamedKept
<1>13. Followed'
  <2> SUFFICES ASSUME Clean' PROVE Knows(i)' /\ idx'.cursor <= idx'.cp /\ idx'.cp = End'
    BY <1>3, <1>4, <1>7 DEF Followed
  <2>1. Knows(i)'
    BY <1>4, <1>6, <1>7, SameLog DEF Knows
  <2> QED
    BY <1>3, <1>7, <1>8, <2>1
<1>14. Recoverable'
  <2>1. CASE Opens(i) \/ Closes(i)
    <3>1. PICK o : o = Turned(i)
      OBVIOUS
    <3>2. ckpt' = Checkpoint(i, o)
      BY <1>4, <2>1, <3>1
    <3>3. flaws' = {} => Clean'
      BY DEF Clean
    <3> QED
      BY <1>4, <1>6, <3>1, <3>2, <3>3, RecoverableWritten
  <2>2. CASE ~(Opens(i) \/ Closes(i))
    BY <1>1, <1>4, <1>5, <2>2, RecoverableKept
  <2> QED
    BY <2>1, <2>2
<1>15. Settling'
  BY <1>1, <1>4, <1>5, SettlingKept
<1> QED
  BY <1>5, <1>10, <1>11, <1>12, <1>13, <1>14, <1>15 DEF IndexInv, Grown

LEMMA ObserveFailsKeeps ==
  ASSUME IndexInv,
         ObserveCheckpointFails \/ (\E form \in {"none", "bare", "part"} : ObserveAppendFails(form))
  PROVE  IndexInv'
<1>1. Shapes /\ Course /\ Named /\ FilesOK /\ Followed /\ Recoverable /\ Settling /\ Observing
  BY DEF IndexInv, ObserveCheckpointFails, ObserveAppendFails
<1>2. PICK i : i = End
  OBVIOUS
<1>3. /\ i \in 1..End /\ i \in Nat /\ i - 1 \in Nat /\ i \in 0..End /\ loop.pc \notin Scanning
      /\ phase \in {"repair", "up", "closing", "flushing"}
      /\ Clean => Knows(i - 1) /\ idx.cp = i - 1 /\ RecordOf(i) \notin Records(log[i].w) /\ idx.cursor <= i - 1
      /\ idx.cursor <= i
  BY <1>1, <1>2, ObservingFacts
<1>4. /\ UNCHANGED <<log, era, ckpt, loop, closed, phase, todo>>
      /\ emit' = AfterLatch
  BY DEF ObserveCheckpointFails, ObserveAppendFails, app
<1>5. PICK o : idx' = Latched(o) /\ (o = idx.open \/ (Closes(i) /\ o = Turned(i)))
  BY <1>2 DEF ObserveCheckpointFails, ObserveAppendFails, RolledBack
<1>6. /\ Grown /\ flaws \subseteq flaws'
      /\ o # idx.open /\ Clean' => RecordOf(i) \in Records(log[i].w)'
  <2>1. CASE Closes(i) /\ \E form \in {"none", "bare", "part"} : ObserveAppendFails(form)
    <3>1. PICK form \in {"none", "bare", "part"} : ObserveAppendFails(form)
      BY <2>1
    <3>2. AppendRecord(i, form) /\ idx' = Latched(idx.open)
      BY <1>2, <3>1 DEF ObserveAppendFails
    <3>3. o = idx.open
      <4>1. idx'.open = o /\ idx'.open = idx.open
        BY <1>1, <1>5, <3>2 DEF Latched, Shapes, IdxType
      <4> QED
        BY <4>1
    <3> QED
      BY <1>1, <1>3, <1>4, <2>1, <3>2, <3>3, AppendRecordGrows
  <2>2. CASE Closes(i) /\ ObserveCheckpointFails
    <3>1. AppendRecord(i, "whole")
      BY <1>2, <2>2 DEF ObserveCheckpointFails
    <3> QED
      BY <1>1, <1>3, <1>4, <2>2, <3>1, AppendRecordGrows
  <2>3. CASE ~Closes(i)
    <3>1. UNCHANGED <<file, flaws>>
      BY <1>2, <2>3 DEF ObserveCheckpointFails, ObserveAppendFails
    <3> QED
      BY <1>1, <1>4, <1>5, <2>3, <3>1, SameFiles DEF Clean
  <2> QED
    BY <2>1, <2>2, <2>3
<1>7. o \in OpenType
  BY <1>1, <1>3, <1>5, IndexTyped
<1>8. /\ idx' \in IdxType /\ idx'.cp = idx.cp /\ idx'.cursor = idx.cursor /\ idx'.open = o
      /\ idx'.degraded = TRUE /\ idx'.unverified = FALSE
  BY <1>1, <1>5, <1>7 DEF Latched, Shapes, IdxType, Observing
<1>9. Shapes'
  BY <1>1, <1>4, <1>6, <1>8 DEF Shapes, Grown, AfterLatch
<1>10. Course'
  BY <1>1, <1>3, <1>4, <1>8 DEF Course, Scanning, Observing, AfterLatch
<1>11. Named'
  <2>1. Past(ckpt'.at, ckpt'.era) /\ emit' # "observe"
    BY <1>1, <1>4 DEF Named, AfterLatch
  <2>2. idx'.cp <= End /\ idx'.cursor <= End
    BY <1>1, <1>3, <1>8 DEF Named, Observing
  <2> QED
    BY <1>1, <1>4, <1>6, <2>1, <2>2, NamedKept
<1>12. Followed'
  <2> SUFFICES ASSUME Clean' PROVE Knows(Place)' \/ Ahead'
    BY <1>3, <1>4, <1>8 DEF Followed
  <2>1. Clean /\ Knows(i - 1) /\ idx.cp = i - 1 /\ idx.cursor <= i - 1
    BY <1>3, <1>6 DEF Grown
  <2>2. Place' = i - 1
    BY <1>1, <1>8, <2>1 DEF Place, Shapes, IdxType
  <2>3. CASE o = idx.open
    <3>1. Knows(i - 1)'
      BY <1>3, <1>4, <1>6, <1>8, <2>1, <2>3, GrownKnows
    <3> QED
      BY <2>2, <3>1
  <2>4. CASE o # idx.open
    <3>1. Closes(i) /\ o = Turned(i) /\ RecordOf(i) \in Records(log[i].w)'
      BY <1>5, <1>6, <2>4
    <3>2. \A w \in Sessions : Turned(i)[w] = OpenAt(w, i) /\ Turns(w, i) \subseteq Records(w)'
      BY <1>1, <1>3, <1>4, <1>6, <2>1, <3>1, KnowsStep DEF Grown
    <3>3. Knows(i)'
      BY <1>4, <1>8, <3>1, <3>2, SameLog DEF Knows
    <3>4. End' = i /\ i - 1 < i /\ i - 1 + 1 = i
      BY <1>2, <1>3, <1>4, SameLog
    <3>5. idx'.cp + 1 = i /\ idx'.cp < End' /\ idx'.cursor <= idx'.cp
      BY <1>8, <2>1, <3>4
    <3>6. log'[idx'.cp + 1].kind = "end" /\ Knows(idx.cp + 1)'
      BY <1>4, <3>1, <3>3, <3>5 DEF Closes
    <3> QED
      BY <3>5, <3>6 DEF Ahead
  <2> QED
    BY <2>3, <2>4
<1>13. Recoverable' /\ Settling'
  BY <1>1, <1>4, <1>6, RecoverableKept, SettlingKept
<1> QED
  BY <1>6, <1>9, <1>10, <1>11, <1>12, <1>13 DEF IndexInv, Grown

-----------------------------------------------------------------------------
(* The rebuild. *)
LEMMA LargerOf ==
  ASSUME NEW m \in Nat, NEW n \in Nat
  PROVE  Max({m, n}) = IF m <= n THEN n ELSE m
<1> DEFINE k == IF m <= n THEN n ELSE m
<1>1. k \in {m, n} /\ \A y \in {m, n} : k >= y
  OBVIOUS
<1>2. \A x \in {m, n} : (\A y \in {m, n} : x >= y) => x = k
  OBVIOUS
<1> HIDE DEF k
<1> QED
  BY <1>1, <1>2 DEF Max, k

LEMMA BeginKeeps ==
  ASSUME IndexInv, Begin
  PROVE  IndexInv'
<1>1. Shapes /\ Course /\ Named /\ FilesOK /\ Followed /\ Recoverable /\ Settling
  BY DEF IndexInv
<1>2. UNCHANGED <<log, era, ckpt, file, flaws, emit, closed, phase, todo>> /\ loop.pc = "begin"
  BY DEF Begin, disk, app
<1>3. ~idx.unverified /\ phase \in {"repair", "up", "closing"} /\ emit # "rebuild"
  BY <1>1, <1>2 DEF Course
<1>4. CASE ~idx.degraded
  <2>1. UNCHANGED idx /\ loop' = [loop EXCEPT !.pc = "finish"] /\ loop'.pc = "finish"
    BY <1>1, <1>4 DEF Begin, LoopTo, Shapes
  <2>2. Shapes' /\ Course'
    BY <1>1, <1>2, <1>3, <2>1 DEF Shapes, Course, LoopPcs, Scanning
  <2> QED
    BY <1>2, <1>3, <2>1, <2>2, QuietKeeps
<1>5. CASE idx.degraded
  <2>1. /\ loop' = [pc |-> "scan", attempt |-> 1]
        /\ idx' = [idx EXCEPT !.cursor = Max({idx.cursor, idx.cp})]
    BY <1>5 DEF Begin
  <2>2. idx.cursor \in Nat /\ idx.cp \in Nat /\ idx.cp <= End /\ idx.cursor <= End
    BY <1>1, <1>3 DEF Named, Shapes, IdxType
  <2>3. Max({idx.cursor, idx.cp}) = Place
    BY <2>2, LargerOf DEF Place
  <2>4. /\ idx' \in IdxType /\ idx'.cursor = Place /\ idx'.cp = idx.cp /\ idx'.open = idx.open
        /\ idx'.degraded = TRUE /\ idx'.unverified = FALSE /\ Place <= End /\ idx.cp <= Place
    BY <1>1, <1>3, <1>5, <2>1, <2>2, <2>3 DEF Shapes, IdxType, Place
  <2>5. Grown
    BY <1>1, <1>2, SameFiles DEF Clean
  <2>6. Shapes' /\ Course'
    BY <1>1, <1>2, <1>3, <2>1, <2>4 DEF Shapes, Course, LoopPcs, Scanning
  <2>7. Named'
    BY <1>1, <1>2, <2>2, <2>4, <2>5, NamedKept DEF Named
  <2>8. Followed'
    <3> SUFFICES ASSUME Clean' PROVE Knows(Place)' \/ Ahead'
      BY <1>2, <1>3, <2>4 DEF Followed
    <3>1. Clean /\ (Knows(Place) \/ Ahead)
      BY <1>1, <1>3, <1>5, <2>5 DEF Followed, Grown
    <3>2. Place' = Place
      BY <2>2, <2>4 DEF Place
    <3>3. \A n \in Nat : Knows(n) => Knows(n)'
      BY <1>2, <2>4, <2>5, GrownKnows
    <3>4. Knows(Place) => Knows(Place)'
      BY <2>2, <3>2, <3>3 DEF Place
    <3>5. Ahead => Ahead'
      <4> SUFFICES ASSUME Ahead PROVE Ahead'
        OBVIOUS
      <4>1. Knows(idx.cp + 1)'
        BY <2>2, <2>4, <3>3 DEF Ahead
      <4>2. idx'.cursor = idx.cp
        BY <2>2, <2>4 DEF Ahead, Place
      <4> QED
        BY <1>2, <2>2, <2>4, <4>1, <4>2, SameLog DEF Ahead
    <3> QED
      BY <3>1, <3>4, <3>5
  <2>9. Recoverable' /\ Settling'
    BY <1>1, <1>2, <2>5, RecoverableKept, SettlingKept
  <2> QED
    BY <2>5, <2>6, <2>7, <2>8, <2>9 DEF IndexInv, Grown
<1> QED
  BY <1>4, <1>5

(* Where the scan stands, and that the next row's record is not there yet *)
(* unless the row does not close a turn any more. *)
LEMMA ScanningFacts ==
  ASSUME IndexInv, loop.pc \in {"scan", "final"}
  PROVE  /\ idx.degraded /\ ~idx.unverified /\ phase \in {"repair", "up", "closing"}
         /\ idx.cp \in Nat /\ idx.cursor \in Nat /\ idx.cp <= idx.cursor /\ idx.cursor <= End /\ End \in Nat
         /\ Clean => \/ Knows(idx.cursor)
                     \/ /\ idx.cp = idx.cursor /\ idx.cursor < End /\ Knows(idx.cursor + 1)
                        /\ log[idx.cursor + 1].kind = "end"
                        /\ ~Closes(idx.cursor + 1) /\ ~Opens(idx.cursor + 1)
<1>1. Shapes /\ Course /\ Named /\ Followed
  BY DEF IndexInv
<1>2. /\ idx.degraded /\ ~idx.unverified /\ phase \in {"repair", "up", "closing"}
      /\ idx.cp \in Nat /\ idx.cursor \in Nat /\ idx.cp <= idx.cursor /\ idx.cursor <= End /\ End \in Nat
  BY <1>1, RowsTyped DEF Course, Scanning, Named, Shapes, IdxType
<1>3. Clean => Knows(idx.cursor) \/ Ahead
  BY <1>1, <1>2 DEF Followed, Place
<1>4. ASSUME Ahead
      PROVE  /\ idx.cp = idx.cursor /\ idx.cursor < End /\ Knows(idx.cursor + 1)
             /\ log[idx.cursor + 1].kind = "end"
             /\ ~Closes(idx.cursor + 1) /\ ~Opens(idx.cursor + 1)
  <2>1. /\ idx.cp = idx.cursor /\ idx.cursor < End /\ Knows(idx.cursor + 1)
        /\ log[idx.cursor + 1].kind = "end"
    BY <1>2, <1>4 DEF Ahead
  <2>2. idx.cursor + 1 \in 1..End
    BY <1>2, <2>1
  <2>3. log[idx.cursor + 1].w \in Sessions
    BY <1>1, <2>2, IndexTyped
  <2>4. OpenAt(log[idx.cursor + 1].w, idx.cursor + 1) = None
    BY <1>1, <2>1, <2>2, OpenStep DEF Shapes
  <2>5. idx.open[log[idx.cursor + 1].w] = None
    BY <2>1, <2>3, <2>4 DEF Knows
  <2> QED
    BY <2>1, <2>5 DEF Closes, Opens
<1> QED
  BY <1>2, <1>3, <1>4

LEMMA UnseenGrows ==
  ASSUME Shapes, Named, FilesOK, log' = log, NEW i \in 1..End, Closes(i), AppendUnseen(i),
         Clean => Knows(i - 1)
  PROVE  /\ Grown /\ flaws \subseteq flaws'
         /\ Clean' => RecordOf(i) \in Records(log[i].w)'
<1>1. CASE RecordOf(i) \in Records(log[i].w)
  <2>1. UNCHANGED <<file, flaws>>
    BY <1>1 DEF AppendUnseen
  <2>2. RecordOf(i) \in Records(log[i].w)'
    BY <1>1, <2>1 DEF Records
  <2> QED
    BY <2>1, <2>2, SameFiles DEF Clean
<1>2. CASE RecordOf(i) \notin Records(log[i].w)
  BY <1>2, AppendRecordGrows DEF AppendUnseen
<1> QED
  BY <1>1, <1>2

LEMMA FailsAfterGrows ==
  ASSUME Shapes, Named, FilesOK, log' = log, NEW n \in 0..End, NEW form \in {"none", "bare", "part"},
         FailsAfter(n, form),
         Clean /\ n < End /\ Closes(n + 1) => Knows(n)
  PROVE  Grown /\ flaws \subseteq flaws'
<1>1. CASE n < End /\ Closes(n + 1) /\ RecordOf(n + 1) \notin Records(log[n + 1].w)
  <2>1. n + 1 \in 1..End /\ n + 1 - 1 = n
    BY <1>1, RowsTyped DEF Shapes
  <2>2. PICK i \in 1..End : i = n + 1 /\ i - 1 = n
    BY <2>1
  <2>3. /\ AppendRecord(i, form) /\ Closes(i) /\ RecordOf(i) \notin Records(log[i].w)
        /\ Clean => Knows(i - 1)
    BY <1>1, <2>2 DEF FailsAfter
  <2> QED
    BY <2>3, AppendRecordGrows
<1>2. CASE ~(n < End /\ Closes(n + 1) /\ RecordOf(n + 1) \notin Records(log[n + 1].w))
  <2>1. UNCHANGED <<file, flaws>>
    BY <1>2 DEF FailsAfter
  <2> QED
    BY <2>1, SameFiles DEF Clean
<1> QED
  BY <1>1, <1>2

LEMMA ScanRowKeeps ==
  ASSUME IndexInv, ScanRow
  PROVE  IndexInv'
<1>1. Shapes /\ Course /\ Named /\ FilesOK /\ Followed /\ Recoverable /\ Settling
  BY DEF IndexInv
<1>2. UNCHANGED <<log, era, ckpt, emit, loop, closed, phase, todo>> /\ loop.pc \in {"scan", "final"}
      /\ idx.cursor < End
  BY DEF ScanRow, app
<1>3. PICK i : i = idx.cursor + 1
  OBVIOUS
<1>4. /\ IF Closes(i) THEN AppendUnseen(i) ELSE UNCHANGED <<file, flaws>>
      /\ idx' = [idx EXCEPT !.cursor = i, !.open = Turned(i)]
  BY <1>3 DEF ScanRow
<1>5. /\ idx.degraded /\ ~idx.unverified /\ phase \in {"repair", "up", "closing"}
      /\ idx.cp \in Nat /\ idx.cursor \in Nat /\ idx.cp <= idx.cursor /\ End \in Nat
      /\ i \in 1..End /\ i - 1 = idx.cursor /\ idx.cp <= i /\ i \in Nat
      /\ Clean => Knows(i - 1) \/ (Knows(i) /\ ~Closes(i) /\ ~Opens(i))
  BY <1>2, <1>3, ScanningFacts
<1>6. /\ Grown /\ flaws \subseteq flaws'
      /\ Clean' /\ Closes(i) => RecordOf(i) \in Records(log[i].w)'
  <2>1. CASE Closes(i)
    BY <1>1, <1>2, <1>4, <1>5, <2>1, UnseenGrows
  <2>2. CASE ~Closes(i)
    BY <1>1, <1>2, <1>4, <2>2, SameFiles DEF Clean
  <2> QED
    BY <2>1, <2>2
<1>7. /\ idx' \in IdxType /\ idx'.cursor = i /\ idx'.cp = idx.cp /\ idx'.open = Turned(i)
      /\ idx'.degraded = TRUE /\ idx'.unverified = FALSE /\ Turned(i) \in OpenType
  BY <1>1, <1>4, <1>5, IndexTyped DEF Shapes, IdxType
<1>8. Shapes' /\ Course'
  BY <1>1, <1>2, <1>5, <1>6, <1>7 DEF Shapes, Course, Scanning, Grown
<1>9. Named'
  <2>1. idx'.cp <= End /\ idx'.cursor <= End /\ Past(ckpt'.at, ckpt'.era)
    BY <1>1, <1>2, <1>5, <1>7 DEF Named
  <2> QED
    BY <1>1, <1>2, <1>6, <2>1, NamedKept
<1>10. Followed'
  <2> SUFFICES ASSUME Clean' PROVE Knows(Place)'
    BY <1>2, <1>5, <1>7 DEF Followed
  <2>1. Place' = i
    BY <1>5, <1>7 DEF Place
  <2>2. Clean /\ \A w \in Sessions : Records(w) \subseteq Records(w)'
    BY <1>6 DEF Grown
  <2>3. CASE Knows(i - 1)
    <3>1. \A w \in Sessions : Turned(i)[w] = OpenAt(w, i) /\ Turns(w, i) \subseteq Records(w)'
      BY <1>1, <1>2, <1>5, <1>6, <2>2, <2>3, KnowsStep
    <3>2. Knows(i)'
      BY <1>2, <1>7, <3>1, SameLog DEF Knows
    <3> QED
      BY <2>1, <3>2
  <2>4. CASE Knows(i) /\ ~Closes(i) /\ ~Opens(i)
    <3>1. idx'.open = idx.open
      BY <1>7, <2>4 DEF Turned
    <3>2. Knows(i)'
      BY <1>2, <1>6, <2>4, <3>1, GrownKnows
    <3> QED
      BY <2>1, <3>2
  <2> QED
    BY <1>5, <2>2, <2>3, <2>4
<1>11. Recoverable' /\ Settling'
  BY <1>1, <1>2, <1>6, RecoverableKept, SettlingKept
<1> QED
  BY <1>6, <1>8, <1>9, <1>10, <1>11 DEF IndexInv, Grown

LEMMA ScanFailsKeeps ==
  ASSUME IndexInv, NEW form \in {"none", "bare", "part"}, ScanFails(form)
  PROVE  IndexInv'
<1>1. Shapes /\ Course /\ Named /\ FilesOK /\ Followed /\ Recoverable /\ Settling
  BY DEF IndexInv
<1>2. UNCHANGED <<log, era, ckpt, idx, closed, phase, todo>> /\ loop.pc \in {"scan", "final"}
      /\ emit' = Released /\ loop' = [loop EXCEPT !.pc = "finish"] /\ FailsAfter(idx.cursor, form)
  BY DEF ScanFails, app, LoopTo
<1>3. PICK n : n = idx.cursor
  OBVIOUS
<1>4. /\ idx.degraded /\ ~idx.unverified /\ phase \in {"repair", "up", "closing"}
      /\ n \in 0..End /\ idx.cp \in Nat /\ n \in Nat /\ idx.cp <= n
      /\ Clean => Knows(n) \/ ~Closes(n + 1)
  BY <1>2, <1>3, ScanningFacts
<1>5. Grown /\ flaws \subseteq flaws'
  BY <1>1, <1>2, <1>3, <1>4, FailsAfterGrows
<1>6. loop' \in [pc : LoopPcs, attempt : Nat] /\ loop'.pc = "finish" /\ emit' \in {emit, "free"}
      /\ emit' # "rebuild"
  BY <1>1, <1>2 DEF Shapes, LoopPcs, Released
<1>7. Shapes' /\ Course'
  BY <1>1, <1>2, <1>4, <1>5, <1>6 DEF Shapes, Course, Scanning, Grown
<1>8. Named'
  <2>1. idx'.cp <= End /\ idx'.cursor <= End /\ Past(ckpt'.at, ckpt'.era)
    BY <1>1, <1>2, <1>4 DEF Named
  <2> QED
    BY <1>1, <1>2, <1>5, <1>6, <2>1, NamedKept
<1>9. Followed'
  <2> SUFFICES ASSUME Clean' PROVE Knows(Place)' \/ Ahead'
    BY <1>2, <1>4 DEF Followed
  <2>1. Clean /\ (Knows(Place) \/ Ahead)
    BY <1>1, <1>4, <1>5 DEF Followed, Grown
  <2>2. \A k : Knows(k) => Knows(k)'
    BY <1>2, <1>5, GrownKnows
  <2>3. Place' = Place
    BY <1>2 DEF Place
  <2>4. Ahead => Ahead'
    BY <1>2, <2>2, SameLog DEF Ahead
  <2> QED
    BY <2>1, <2>2, <2>3, <2>4
<1>10. Recoverable' /\ Settling'
  BY <1>1, <1>2, <1>5, RecoverableKept, SettlingKept
<1> QED
  BY <1>5, <1>7, <1>8, <1>9, <1>10 DEF IndexInv, Grown

LEMMA AttachKeeps ==
  ASSUME IndexInv, Attach
  PROVE  IndexInv'
<1>1. Shapes /\ Course /\ Named /\ FilesOK /\ Followed /\ Recoverable /\ Settling
  BY DEF IndexInv
<1>2. /\ UNCHANGED <<log, era, file, flaws, closed, phase, todo>> /\ loop.pc = "final" /\ idx.cursor = End
      /\ loop' = [loop EXCEPT !.pc = "finish"] /\ emit' = "free"
      /\ idx' = [idx EXCEPT !.cp = idx.cursor, !.degraded = FALSE, !.notified = FALSE]
      /\ ckpt' = Checkpoint(idx.cursor, idx.open)
  BY DEF Attach, app, LoopTo
<1>3. PICK n, o : n = idx.cursor /\ o = idx.open
  OBVIOUS
<1>4. /\ ~idx.unverified /\ phase \in {"repair", "up", "closing"}
      /\ n \in 0..End /\ n \in Nat /\ n = End /\ o \in OpenType
      /\ Clean => Knows(n)
  BY <1>1, <1>2, <1>3, ScanningFacts DEF Shapes, IdxType
<1>5. Grown
  BY <1>1, <1>2, SameFiles DEF Clean
<1>6. /\ idx' \in IdxType /\ idx'.cursor = n /\ idx'.cp = n /\ idx'.open = idx.open
      /\ idx'.degraded = FALSE /\ idx'.unverified = FALSE
  BY <1>1, <1>2, <1>3, <1>4 DEF Shapes, IdxType
<1>7. /\ loop' \in [pc : LoopPcs, attempt : Nat] /\ loop'.pc = "finish"
      /\ ckpt' \in [at : Nat, era : Nat, open : OpenType] /\ Past(ckpt'.at, ckpt'.era)
  <2>1. Checkpoint(n, o) \in [at : Nat, era : Nat, open : OpenType]
    BY <1>1, <1>4, CheckpointNamed DEF Checkpoint
  <2>2. Past(Checkpoint(n, o).at, Checkpoint(n, o).era) /\ ckpt' = Checkpoint(n, o)
    BY <1>1, <1>2, <1>3, <1>4, CheckpointNamed
  <2>3. loop' \in [pc : LoopPcs, attempt : Nat] /\ loop'.pc = "finish"
    BY <1>1, <1>2 DEF Shapes, LoopPcs
  <2> QED
    BY <2>1, <2>2, <2>3
<1>8. Shapes' /\ Course'
  BY <1>1, <1>2, <1>4, <1>5, <1>6, <1>7 DEF Shapes, Course, Scanning, Grown
<1>9. Named'
  BY <1>1, <1>2, <1>4, <1>5, <1>6, <1>7, NamedKept
<1>10. Followed'
  <2>1. Clean' => Knows(n)'
    BY <1>2, <1>4, <1>5, <1>6, GrownKnows DEF Grown
  <2> QED
    BY <1>2, <1>4, <1>6, <2>1, SameLog DEF Followed
<1>11. Recoverable'
  <2>1. flaws' = {} => \A w \in Sessions : Turns(w, n) \subseteq Records(w)' /\ o[w] = OpenAt(w, n)
    BY <1>2, <1>3, <1>4 DEF Clean, Knows, Records
  <2> QED
    BY <1>2, <1>3, <2>1, RecoverableWritten
<1>12. Settling'
  BY <1>1, <1>2, SettlingKept
<1> QED
  BY <1>5, <1>8, <1>9, <1>10, <1>11, <1>12 DEF IndexInv, Grown

-----------------------------------------------------------------------------
(* Reading a file, shutdown and crashes. *)
LEMMA LoadKeeps ==
  ASSUME IndexInv, NEW w \in Sessions, Load(w)
  PROVE  IndexInv'
<1>1. Shapes /\ Course /\ Named /\ FilesOK /\ Followed /\ Recoverable /\ Settling
  BY DEF IndexInv
<1>2. /\ UNCHANGED <<log, era, ckpt, idx, emit, loop, closed, phase, todo, flaws>>
      /\ file' = [file EXCEPT ![w] = Truncated(@)] /\ ~MidCorrupt(file[w])
      /\ phase \in {"up", "closing"}
  BY DEF Load, app
<1>3. PICK g : g = Truncated(file[w])
  OBVIOUS
<1>4. file[w] \in Seq(LineType)
  BY <1>1 DEF Shapes
<1>5. /\ g \in Seq(LineType) /\ Recs(g) = Recs(file[w])
      /\ Plain(file[w]) => Plain(g)
      /\ Once(file[w]) => Once(g)
  BY <1>2, <1>3, <1>4, TruncatedOK
<1>6. file' \in [Sessions -> Seq(LineType)] /\ file'[w] = g /\ \A v \in Sessions : v # w => file'[v] = file[v]
  BY <1>1, <1>2, <1>3, <1>5 DEF Shapes
<1>7. \A v \in Sessions : Records(v)' = Records(v)
  <2>1. \A v \in Sessions : Records(v) = Recs(file[v]) /\ Records(v)' = Recs(file'[v])
    BY DEF Records, Recs
  <2> QED
    BY <1>5, <1>6, <2>1
<1>8. (Clean' <=> Clean) /\ FilesOK'
  <2>1. Clean' <=> Clean
    BY <1>2 DEF Clean
  <2> SUFFICES ASSUME Clean, NEW v \in Sessions PROVE FileOK(v)'
    BY <2>1 DEF FilesOK
  <2>2. FileOK(v)
    BY <1>1 DEF FilesOK
  <2>3. Plain(file'[v]) /\ Once(file'[v])
    BY <1>5, <1>6, <2>2 DEF FileOK, Plain
  <2> QED
    BY <1>2, <1>7, <2>2, <2>3, SameLog DEF FileOK, Plain
<1>9. Grown
  BY <1>1, <1>6, <1>7, <1>8 DEF Grown, Named
<1>10. Shapes' /\ Course'
  BY <1>1, <1>2, <1>6 DEF Shapes, Course
<1>11. Named'
  BY <1>1, <1>2, <1>9, NamedKept DEF Named
<1>12. \A n : Knows(n)' <=> Knows(n)
  BY <1>2, <1>7, SameLog DEF Knows
<1>13. Followed'
  <2>1. (Unseen' <=> Unseen) /\ Place' = Place /\ (Ahead' <=> Ahead)
    BY <1>2, <1>7, <1>12, SameLog DEF Unseen, Place, Ahead
  <2> QED
    BY <1>1, <1>2, <1>8, <1>12, <2>1, SameLog DEF Followed
<1>14. Recoverable' /\ Settling'
  BY <1>1, <1>2, <1>9, RecoverableKept, SettlingKept
<1> QED
  BY <1>8, <1>10, <1>11, <1>13, <1>14 DEF IndexInv

LEMMA FlushKeeps ==
  ASSUME IndexInv, Flush
  PROVE  IndexInv'
<1>1. Shapes /\ Course /\ Named /\ FilesOK /\ Followed /\ Recoverable /\ Settling
  BY DEF IndexInv
<1>2. /\ UNCHANGED <<log, era, file, idx, emit, loop, closed, todo>>
      /\ phase = "flushing" /\ emit = "free" /\ phase' = "down"
  BY DEF Flush
<1>3. flaws \subseteq flaws' /\ (Clean' => Clean)
  BY DEF Flush, Clean
<1>4. Grown
  BY <1>1, <1>2, <1>3, SameFiles
<1>5. CASE idx.unverified
  <2>1. UNCHANGED <<ckpt, flaws>>
    BY <1>5 DEF Flush
  <2>2. Shapes' /\ Course'
    BY <1>1, <1>2, <2>1 DEF Shapes, Course, Phases
  <2> QED
    BY <1>1, <1>2, <2>1, <2>2, QuietKeeps
<1>6. CASE ~idx.unverified
  <2>1. PICK n, o : n = idx.cp /\ o = idx.open
    OBVIOUS
  <2>2. /\ ckpt' = Checkpoint(n, o)
        /\ flaws' = {} => flaws = {} /\ \A w \in Sessions : o[w] = OpenAt(w, n)
    BY <1>6, <2>1 DEF Flush
  <2>3. n \in 0..End /\ n \in Nat /\ o \in OpenType /\ idx.cursor \in Nat
    BY <1>1, <1>2, <1>6, <2>1 DEF Named, Shapes, IdxType
  <2>4. ckpt' \in [at : Nat, era : Nat, open : OpenType] /\ Past(ckpt'.at, ckpt'.era)
    <3>1. Checkpoint(n, o) \in [at : Nat, era : Nat, open : OpenType]
      BY <1>1, <2>3, CheckpointNamed DEF Checkpoint
    <3> QED
      BY <1>1, <2>2, <2>3, <3>1, CheckpointNamed
  <2>5. Shapes' /\ Course'
    BY <1>1, <1>2, <2>4 DEF Shapes, Course, Phases
  <2>6. Named'
    BY <1>1, <1>2, <1>4, <2>4, NamedKept
  <2>7. Followed' /\ Settling'
    BY <1>2 DEF Followed, Settling
  <2>8. Recoverable'
    <3>1. ASSUME flaws = {}, NEW w \in Sessions PROVE Turns(w, n) \subseteq Records(w)
      <4>1. (~idx.degraded => Knows(n)) /\ (idx.degraded => Knows(Place) \/ Ahead)
        BY <1>1, <1>2, <1>6, <2>1, <3>1 DEF Followed, Clean
      <4>2. CASE Knows(n)
        BY <4>2 DEF Knows
      <4>3. CASE Knows(Place)
        <5>1. PICK m : m = Place
          OBVIOUS
        <5>2. m \in Nat /\ n <= m /\ Turns(w, m) \subseteq Records(w)
          BY <2>1, <2>3, <4>3, <5>1 DEF Place, Knows
        <5> QED
          BY <1>1, <2>3, <5>2, TurnsGrow DEF Shapes
      <4>4. CASE Ahead
        <5>1. PICK m : m = idx.cp + 1
          OBVIOUS
        <5>2. m \in Nat /\ n <= m /\ Turns(w, m) \subseteq Records(w)
          BY <2>1, <2>3, <4>4, <5>1 DEF Ahead, Knows
        <5> QED
          BY <1>1, <2>3, <5>2, TurnsGrow DEF Shapes
      <4> QED
        BY <4>1, <4>2, <4>3, <4>4
    <3>2. \A w : Records(w)' = Records(w)
      BY <1>2 DEF Records
    <3> QED
      BY <1>2, <2>2, <3>1, <3>2, RecoverableWritten
  <2> QED
    BY <1>4, <2>5, <2>6, <2>7, <2>8 DEF IndexInv, Grown
<1> QED
  BY <1>5, <1>6

LEMMA PowerCutKeeps ==
  ASSUME IndexInv, NEW k \in Nat, PowerCut(k)
  PROVE  IndexInv'
<1>1. Shapes /\ Course /\ Named /\ FilesOK /\ Followed /\ Recoverable /\ Settling
  BY DEF IndexInv
<1>2. /\ UNCHANGED <<ckpt, file, flaws, idx, closed, todo>> /\ k < End
      /\ log' = SubSeq(log, 1, k) /\ era' = era + 1
      /\ phase' = "down" /\ loop' = Idle /\ emit' = "free"
  BY DEF PowerCut, disk
<1>3. End \in Nat /\ era \in Nat /\ \A i \in 1..End : log[i] \in RowType
  BY <1>1, RowsTyped DEF Shapes
<1>4. log' \in Seq(RowType) /\ Len(log') = k /\ \A i \in 1..k : log'[i] = log[i]
  <2>1. \A i \in 1..k : log[i] \in RowType
    BY <1>2, <1>3
  <2> QED
    BY <1>2, <2>1, SubSeqProperties
<1>5. End' = k
  BY <1>4 DEF End
<1>6. /\ \A n \in 0..k : EraAt(n)' = EraAt(n)
      /\ \A w : \A n \in 0..k : OpenAt(w, n)' = OpenAt(w, n) /\ Turns(w, n)' = Turns(w, n)
  <2>1. k <= End /\ k <= End'
    BY <1>2, <1>3, <1>5
  <2> QED
    BY <1>1, <1>4, <2>1, Prefix DEF Shapes
<1>7. (\A w : Records(w)' = Records(w)) /\ (Clean' <=> Clean)
  BY <1>2 DEF Records, Clean
<1>8. Shapes' /\ Course'
  BY <1>1, <1>2, <1>3, <1>4 DEF Shapes, Course, Idle, LoopPcs, Phases, Scanning
<1>9. \A w \in Sessions : \A r \in Records(w) : r.e \in Nat /\ r.era \in Nat /\ Past(r.e, r.era)
  BY <1>1, RecordsTyped DEF Named, Shapes, RecType
<1>10. Named'
  <2>1. \A e, x \in Nat : Past(e, x) => Past(e, x)'
    BY <1>2, <1>3, <1>5 DEF Past
  <2>2. ckpt.at \in Nat /\ ckpt.era \in Nat
    BY <1>1 DEF Shapes
  <2>3. \A i \in 1..k : log'[i].era <= era + 1
    <3> SUFFICES ASSUME NEW i \in 1..k PROVE log[i].era <= era + 1
      BY <1>4
    <3>1. i \in 1..End /\ log[i].era \in Nat /\ log[i].era <= era
      BY <1>1, <1>2, <1>3 DEF Named, RowType
    <3> QED
      BY <1>3, <3>1
  <2> QED
    BY <1>1, <1>2, <1>5, <1>7, <1>9, <2>1, <2>2, <2>3 DEF Named
<1>11. FilesOK'
  <2> SUFFICES ASSUME Clean, NEW w \in Sessions PROVE FileOK(w)'
    BY <1>7 DEF FilesOK
  <2>1. FileOK(w)
    BY <1>1 DEF FilesOK
  <2>2. ASSUME NEW r \in Records(w), Genuine(r)' PROVE r \in Turns(w, End)'
    <3>1. r.e \in 0..k /\ r.era = EraAt(r.e)
      BY <1>5, <1>6, <1>9, <2>2 DEF Genuine
    <3>2. Genuine(r)
      BY <1>2, <1>3, <3>1 DEF Genuine
    <3>3. r \in Turns(w, End)
      BY <2>1, <3>2 DEF FileOK
    <3>4. PICK e \in Of(w, "end") : /\ e <= End /\ OpenAt(w, e - 1) # None
                                    /\ r = [s |-> OpenAt(w, e - 1), e |-> e, era |-> EraAt(e)]
      BY <3>3 DEF Turns
    <3>5. r.e = e /\ e \in 1..End
      BY <3>4 DEF Of
    <3>6. r \in Turns(w, k)
      BY <3>1, <3>4, <3>5 DEF Turns
    <3> QED
      BY <1>5, <1>6, <3>6
  <2> QED
    BY <1>2, <1>7, <2>1, <2>2 DEF FileOK
<1>12. Recoverable'
  <2> SUFFICES ASSUME flaws = {}, Trusted', NEW w \in Sessions
               PROVE  Turns(w, ckpt.at)' \subseteq Records(w) /\ ckpt.open[w] = OpenAt(w, ckpt.at)'
    BY <1>2, <1>7 DEF Recoverable
  <2>1. ckpt.at \in 0..k /\ ckpt.era = EraAt(ckpt.at)' /\ ckpt' = ckpt
    BY <1>1, <1>2, <1>5 DEF Trusted, Shapes
  <2>2. Trusted
    BY <1>2, <1>3, <1>6, <2>1 DEF Trusted
  <2> QED
    BY <1>1, <1>6, <2>1, <2>2 DEF Recoverable
<1>13. Followed' /\ Settling'
  BY <1>2 DEF Followed, Settling
<1> QED
  BY <1>8, <1>10, <1>11, <1>12, <1>13 DEF IndexInv

-----------------------------------------------------------------------------
(* Starts. *)
LEMMA FreshTyped ==
  ASSUME Shapes
  PROVE  /\ Fresh \in IdxType /\ Loaded \in IdxType
         /\ Fresh.cp = 0 /\ Fresh.cursor = 0 /\ Fresh.open = NoTurns /\ ~Fresh.degraded /\ ~Fresh.unverified
         /\ Loaded.cp = ckpt.at /\ Loaded.cursor = 0 /\ Loaded.open = ckpt.open
         /\ ~Loaded.degraded /\ ~Loaded.unverified
         /\ Idle \in [pc : LoopPcs, attempt : Nat] /\ Idle.pc = "none"
<1>1. NoTurns \in OpenType
  BY DEF NoTurns, None, OpenType
<1>2. ckpt.at \in Nat /\ ckpt.open \in OpenType
  BY DEF Shapes
<1> QED
  BY <1>1, <1>2 DEF Fresh, Loaded, IdxType, Idle, LoopPcs

LEMMA StartUnverifiedKeeps ==
  ASSUME IndexInv, StartUnverified
  PROVE  IndexInv'
<1>1. Shapes /\ Course /\ Named /\ FilesOK /\ Followed /\ Recoverable /\ Settling
  BY DEF IndexInv
<1>2. /\ UNCHANGED <<log, era, ckpt, file, flaws, emit>> /\ phase = "down"
      /\ idx' = [Loaded EXCEPT !.unverified = TRUE]
      /\ phase' = "up" /\ closed' = FALSE /\ todo' = {} /\ loop' = Idle
  BY DEF StartUnverified, Starts, disk
<1>3. idx' \in IdxType /\ idx'.unverified = TRUE
  BY <1>1, <1>2, FreshTyped DEF IdxType
<1>4. Grown
  BY <1>1, <1>2, SameFiles DEF Clean
<1>5. Shapes' /\ Course'
  BY <1>1, <1>2, <1>3, FreshTyped DEF Shapes, Course, Phases, Scanning
<1>6. Named'
  BY <1>1, <1>2, <1>3, <1>4, NamedKept DEF Named
<1>7. Followed' /\ Settling'
  BY <1>2, <1>3 DEF Followed, Settling
<1>8. Recoverable'
  BY <1>1, <1>2, <1>4, RecoverableKept
<1> QED
  BY <1>4, <1>5, <1>6, <1>7, <1>8 DEF IndexInv, Grown

LEMMA StartKeeps ==
  ASSUME IndexInv, Start
  PROVE  IndexInv'
<1>1. Shapes /\ Course /\ Named /\ FilesOK /\ Followed /\ Recoverable /\ Settling
  BY DEF IndexInv
<1>2. /\ UNCHANGED <<log, era, ckpt, emit>> /\ phase = "down"
      /\ phase' = "verify" /\ closed' = FALSE /\ todo' = {} /\ loop' = Idle
  BY DEF Start, Starts
<1>3. /\ End \in Nat /\ End' = End /\ emit = "free" /\ (Trusted' <=> Trusted) /\ Past(ckpt'.at, ckpt'.era)
      /\ \A w, n : OpenAt(w, n)' = OpenAt(w, n) /\ Turns(w, n)' = Turns(w, n)
      /\ \A r : Genuine(r)' <=> Genuine(r)
  BY <1>1, <1>2, RowsTyped, SameLog DEF Shapes, Course, Trusted, Named
<1>4. CASE Trusted /\ ~Broken
  <2>1. /\ idx' = Loaded /\ file' = [w \in Sessions |-> Truncated(file[w])]
        /\ flaws' = IF "gap" \in flaws THEN flaws \cup {"lost"} ELSE flaws
    BY <1>4 DEF Start
  <2>2. \A w \in Sessions : /\ file'[w] \in Seq(LineType) /\ Recs(file'[w]) = Recs(file[w])
                            /\ Plain(file[w]) => Plain(file'[w])
                            /\ Once(file[w]) => Once(file'[w])
    BY <1>1, <1>4, <2>1, TruncatedOK DEF Shapes, Broken
  <2>3. \A w \in Sessions : Records(w)' = Records(w)
    <3>1. \A w \in Sessions : Records(w) = Recs(file[w]) /\ Records(w)' = Recs(file'[w])
      BY DEF Records, Recs
    <3> QED
      BY <2>2, <3>1
  <2>4. /\ Clean' => Clean /\ flaws = {}
        /\ flaws' = {} => flaws = {}
    BY <2>1 DEF Clean
  <2>5. file' \in [Sessions -> Seq(LineType)]
    BY <2>1, <2>2
  <2>6. FilesOK'
    <3> SUFFICES ASSUME Clean', NEW w \in Sessions PROVE FileOK(w)'
      BY DEF FilesOK
    <3>1. FileOK(w)
      BY <1>1, <2>4 DEF FilesOK
    <3>2. Plain(file'[w]) /\ Once(file'[w])
      BY <2>2, <3>1 DEF FileOK, Plain
    <3> QED
      BY <1>3, <2>3, <3>1, <3>2 DEF FileOK, Plain
  <2>7. Grown
    BY <1>1, <2>3, <2>4, <2>5, <2>6 DEF Grown, Named
  <2>8. /\ idx' \in IdxType /\ idx'.cp = ckpt.at /\ idx'.cursor = 0 /\ idx'.open = ckpt.open
        /\ ~idx'.degraded /\ ~idx'.unverified
    BY <1>1, <2>1, FreshTyped
  <2>9. Shapes' /\ Course'
    BY <1>1, <1>2, <1>3, <2>5, <2>8, FreshTyped DEF Shapes, Course, Phases, Scanning
  <2>10. Named'
    <3>1. idx'.cp <= End /\ idx'.cursor <= End
      BY <1>3, <1>4, <2>8 DEF Trusted
    <3> QED
      BY <1>1, <1>2, <1>3, <2>7, <3>1, NamedKept
  <2>11. Followed'
    <3>1. ASSUME Clean' PROVE Knows(idx.cp)'
      <4>1. \A w \in Sessions : Turns(w, ckpt.at) \subseteq Records(w) /\ ckpt.open[w] = OpenAt(w, ckpt.at)
        BY <1>1, <1>4, <2>4, <3>1 DEF Recoverable
      <4> QED
        BY <1>3, <2>3, <2>8, <4>1 DEF Knows
    <3> QED
      BY <1>2, <2>8, <3>1 DEF Followed
  <2>12. Recoverable' /\ Settling'
    BY <1>1, <1>2, <2>4, <2>7, RecoverableKept DEF Settling
  <2> QED
    BY <2>6, <2>9, <2>10, <2>11, <2>12 DEF IndexInv
<1>5. CASE ~(Trusted /\ ~Broken)
  <2>1. /\ idx' = Fresh /\ file' = [w \in Sessions |-> <<>>]
        /\ flaws' = IF Trusted THEN {"gap"} ELSE {}
    BY <1>5 DEF Start
  <2>2. <<>> \in Seq(LineType) /\ Len(<<>>) = 0
    BY EmptySeq
  <2>3. file' \in [Sessions -> Seq(LineType)] /\ \A w \in Sessions : file'[w] = <<>>
    BY <2>1, <2>2
  <2>4. \A w \in Sessions : Records(w)' = {}
    <3> SUFFICES ASSUME NEW w \in Sessions PROVE Records(w)' = {}
      OBVIOUS
    <3>1. Records(w)' = Recs(file'[w])
      BY DEF Records, Recs
    <3>2. \A r : r \notin Recs(file'[w])
      BY <2>2, <2>3, RecsAre
    <3> QED
      BY <3>1, <3>2
  <2>5. FilesOK'
    <3> SUFFICES ASSUME NEW w \in Sessions PROVE FileOK(w)'
      BY DEF FilesOK
    <3>1. DOMAIN file'[w] = {} /\ 1..Len(file'[w]) = {}
      BY <2>2, <2>3, RecsAre
    <3> QED
      BY <2>4, <3>1 DEF FileOK, Once
  <2>6. /\ idx' \in IdxType /\ idx'.cp = 0 /\ idx'.cursor = 0 /\ idx'.open = NoTurns
        /\ ~idx'.degraded /\ ~idx'.unverified
    BY <1>1, <2>1, FreshTyped
  <2>7. Shapes' /\ Course'
    BY <1>1, <1>2, <1>3, <2>3, <2>6, FreshTyped DEF Shapes, Course, Phases, Scanning
  <2>8. Named'
    <3>1. idx'.cp <= End' /\ idx'.cursor <= End' /\ emit' # "observe"
      BY <1>2, <1>3, <2>6
    <3>2. \A i \in 1..End' : log'[i].era <= era'
      BY <1>1, <1>2, <1>3 DEF Named
    <3>3. Past(ckpt.at, ckpt.era)'
      BY <1>2, <1>3 DEF Past
    <3> QED
      BY <2>4, <3>1, <3>2, <3>3 DEF Named
  <2>9. Followed'
    <3>1. Knows(idx.cp)'
      <4>1. \A w \in Sessions : NoTurns[w] = None /\ OpenAt(w, 0) = None /\ Turns(w, 0) = {}
        BY <1>1, OpenNone DEF NoTurns, Shapes
      <4> QED
        BY <1>3, <2>6, <4>1 DEF Knows
    <3> QED
      BY <1>2, <2>6, <3>1 DEF Followed
  <2>10. Recoverable' /\ Settling'
    BY <1>2, <1>3, <2>1 DEF Recoverable, Settling
  <2> QED
    BY <2>5, <2>7, <2>8, <2>9, <2>10 DEF IndexInv
<1> QED
  BY <1>4, <1>5

LEMMA VerifyRowKeeps ==
  ASSUME IndexInv, VerifyRow
  PROVE  IndexInv'
<1>1. Shapes /\ Course /\ Named /\ FilesOK /\ Followed /\ Recoverable /\ Settling
  BY DEF IndexInv
<1>2. PICK i : i = idx.cp + 1
  OBVIOUS
<1>3. PICK w, r, o : w = log[i].w /\ r = RecordOf(i) /\ o = Turned(i)
  OBVIOUS
<1>4. /\ UNCHANGED <<log, era, emit, loop, closed, phase, todo>> /\ phase = "verify" /\ idx.cp < End
      /\ idx' = [idx EXCEPT !.cp = i, !.open = o]
      /\ IF Opens(i) \/ Closes(i) THEN ckpt' = Checkpoint(i, o) ELSE UNCHANGED ckpt
      /\ IF Closes(i) /\ r \notin Records(w)
         THEN /\ file' = [file EXCEPT ![w] = Appended(@, r, "whole")]
              /\ flaws' = (flaws \ {"gap"}) \cup (IF Glues(file[w]) THEN {"glued"} ELSE {})
         ELSE /\ UNCHANGED file
              /\ flaws' = IF Opens(i) \/ Closes(i) THEN flaws \ {"gap"} ELSE flaws
  BY <1>2, <1>3 DEF VerifyRow, app
<1>5. /\ ~idx.degraded /\ ~idx.unverified /\ emit = "free"
      /\ idx.cp \in Nat /\ idx.cursor \in Nat /\ End \in Nat /\ idx.cursor <= End
      /\ i \in 1..End /\ i - 1 = idx.cp /\ i \in Nat /\ i \in 0..End
      /\ Clean => Knows(i - 1)
  <2>1. /\ ~idx.degraded /\ ~idx.unverified /\ emit = "free"
        /\ idx.cp \in Nat /\ idx.cursor \in Nat /\ End \in Nat /\ idx.cursor <= End
        /\ Clean => Knows(idx.cp)
    BY <1>1, <1>4, RowsTyped DEF Course, Shapes, IdxType, Named, Followed
  <2>2. i \in 1..End /\ i - 1 = idx.cp /\ i \in Nat /\ i \in 0..End
    BY <1>2, <1>4, <2>1
  <2> QED
    BY <2>1, <2>2
<1>6. /\ Grown
      /\ Clean' /\ Closes(i) => r \in Records(w)'
  <2>1. CASE Closes(i) /\ r \notin Records(w)
    <3>1. /\ flaws \ {"gap"} \subseteq flaws' /\ (Glues(file[w]) => "glued" \in flaws')
          /\ file' = [file EXCEPT ![w] = Appended(@, r, "whole")]
      BY <1>4, <2>1
    <3> QED
      BY <1>1, <1>3, <1>4, <1>5, <2>1, <3>1, WriteGrows
  <2>2. CASE ~(Closes(i) /\ r \notin Records(w))
    <3>1. UNCHANGED file /\ (Clean' => Clean)
      BY <1>4, <2>2 DEF Clean
    <3>2. Closes(i) => r \in Records(w)'
      BY <2>2, <3>1 DEF Records
    <3> QED
      BY <1>1, <1>4, <3>1, <3>2, SameFiles
  <2> QED
    BY <2>1, <2>2
<1>7. Clean' => \A v \in Sessions : o[v] = OpenAt(v, i) /\ Turns(v, i) \subseteq Records(v)'
  <2> SUFFICES ASSUME Clean'
               PROVE  \A v \in Sessions : Turned(i)[v] = OpenAt(v, i) /\ Turns(v, i) \subseteq Records(v)'
    BY <1>3
  <2>1. Knows(i - 1) /\ \A v \in Sessions : Records(v) \subseteq Records(v)'
    BY <1>5, <1>6 DEF Grown
  <2>2. Closes(i) => RecordOf(i) \in Records(log[i].w)'
    BY <1>3, <1>4, <1>6
  <2> QED
    BY <1>1, <1>4, <1>5, <2>1, <2>2, KnowsStep
<1>8. /\ idx' \in IdxType /\ idx'.cp = i /\ idx'.open = o /\ idx'.cursor = idx.cursor
      /\ ~idx'.degraded /\ ~idx'.unverified /\ o \in OpenType
  BY <1>1, <1>3, <1>4, <1>5, IndexTyped DEF Shapes, IdxType
<1>9. ckpt' \in [at : Nat, era : Nat, open : OpenType] /\ Past(ckpt'.at, ckpt'.era)
  <2>1. Checkpoint(i, o) \in [at : Nat, era : Nat, open : OpenType]
    BY <1>1, <1>5, <1>8, CheckpointNamed DEF Checkpoint
  <2>2. Past(Checkpoint(i, o).at, Checkpoint(i, o).era)
    BY <1>1, <1>5, CheckpointNamed
  <2> QED
    BY <1>1, <1>4, <2>1, <2>2 DEF Shapes, Named
<1>10. Shapes' /\ Course'
  BY <1>1, <1>4, <1>5, <1>6, <1>8, <1>9 DEF Shapes, Course, Scanning, Grown
<1>11. Named'
  BY <1>1, <1>4, <1>5, <1>6, <1>8, <1>9, NamedKept
<1>12. Followed'
  <2>1. Clean' => Knows(i)'
    BY <1>4, <1>7, <1>8, SameLog DEF Knows
  <2> QED
    BY <1>4, <1>8, <2>1 DEF Followed
<1>13. Recoverable'
  <2>1. CASE Opens(i) \/ Closes(i)
    <3>1. ckpt' = Checkpoint(i, o) /\ (flaws' = {} => Clean')
      BY <1>4, <2>1 DEF Clean
    <3> QED
      BY <1>4, <1>7, <3>1, RecoverableWritten
  <2>2. CASE ~(Opens(i) \/ Closes(i))
    BY <1>1, <1>4, <1>6, <2>2, RecoverableKept
  <2> QED
    BY <2>1, <2>2
<1>14. Settling'
  BY <1>4 DEF Settling
<1> QED
  BY <1>6, <1>10, <1>11, <1>12, <1>13, <1>14 DEF IndexInv, Grown

LEMMA VerifyFailsKeeps ==
  ASSUME IndexInv, NEW form \in {"none", "bare", "part"}, VerifyFails(form)
  PROVE  IndexInv'
<1>1. Shapes /\ Course /\ Named /\ FilesOK /\ Followed /\ Recoverable /\ Settling
  BY DEF IndexInv
<1>2. /\ UNCHANGED <<log, era, ckpt, emit, loop, closed, todo>> /\ phase = "verify" /\ phase' = "up"
      /\ idx' = [idx EXCEPT !.unverified = TRUE] /\ FailsAfter(idx.cp, form)
  BY DEF VerifyFails
<1>3. PICK n : n = idx.cp
  OBVIOUS
<1>4. ~idx.unverified /\ emit = "free" /\ loop.pc = "none" /\ n \in 0..End /\ (Clean => Knows(n))
  BY <1>1, <1>2, <1>3, RowsTyped DEF Course, Named, Followed, Shapes, IdxType
<1>5. Grown /\ flaws \subseteq flaws'
  BY <1>1, <1>2, <1>3, <1>4, FailsAfterGrows
<1>6. idx' \in IdxType /\ idx'.unverified = TRUE
  BY <1>1, <1>2 DEF Shapes, IdxType
<1>7. Shapes' /\ Course'
  BY <1>1, <1>2, <1>4, <1>5, <1>6 DEF Shapes, Course, Phases, Scanning, Grown
<1>8. Named'
  BY <1>1, <1>2, <1>4, <1>5, <1>6, NamedKept DEF Named
<1>9. Followed' /\ Settling'
  BY <1>2, <1>6 DEF Followed, Settling
<1>10. Recoverable'
  BY <1>1, <1>2, <1>5, RecoverableKept
<1> QED
  BY <1>5, <1>7, <1>8, <1>9, <1>10 DEF IndexInv, Grown

LEMMA VerifyDoneKeeps ==
  ASSUME IndexInv, VerifyDone
  PROVE  IndexInv'
<1>1. Shapes /\ Course /\ Named /\ FilesOK /\ Followed /\ Recoverable /\ Settling
  BY DEF IndexInv
<1>2. PICK n, o : n = idx.cp /\ o = idx.open
  OBVIOUS
<1>3. /\ UNCHANGED <<log, era, file, idx, emit, loop, closed>> /\ phase = "verify" /\ phase' = "repair"
      /\ n = End /\ ckpt' = Checkpoint(n, o) /\ flaws' = flaws \ {"gap"}
      /\ todo' = {w \in Sessions : o[w] # None}
  BY <1>2 DEF VerifyDone
<1>4. /\ ~idx.degraded /\ ~idx.unverified /\ emit = "free" /\ loop.pc = "none"
      /\ End \in Nat /\ n \in 0..End /\ n \in Nat /\ idx.cursor <= n /\ o \in OpenType
      /\ Clean => Knows(n)
  BY <1>1, <1>2, <1>3, RowsTyped DEF Course, Shapes, IdxType, Named, Followed
<1>5. Clean' => Clean
  BY <1>3 DEF Clean
<1>6. Grown
  BY <1>1, <1>3, <1>5, SameFiles
<1>7. ckpt' \in [at : Nat, era : Nat, open : OpenType] /\ Past(ckpt'.at, ckpt'.era)
  <2>1. Checkpoint(n, o) \in [at : Nat, era : Nat, open : OpenType]
    BY <1>1, <1>4, CheckpointNamed DEF Checkpoint
  <2> QED
    BY <1>1, <1>3, <1>4, <2>1, CheckpointNamed
<1>8. Shapes' /\ Course'
  BY <1>1, <1>3, <1>4, <1>7 DEF Shapes, Course, Phases, Scanning
<1>9. Named'
  <2>1. idx'.cp <= End /\ idx'.cursor <= End
    BY <1>2, <1>3, <1>4
  <2> QED
    BY <1>1, <1>3, <1>4, <1>6, <1>7, <2>1, NamedKept
<1>10. \A k : Knows(k)' <=> Knows(k)
  BY <1>3, SameKnows
<1>11. Followed'
  BY <1>2, <1>3, <1>4, <1>5, <1>10, SameLog DEF Followed
<1>12. Recoverable'
  <2>1. flaws' = {} => \A w \in Sessions : Turns(w, n) \subseteq Records(w)' /\ o[w] = OpenAt(w, n)
    BY <1>2, <1>3, <1>4 DEF Clean, Knows, Records
  <2> QED
    BY <1>3, <2>1, RecoverableWritten
<1>13. Settling'
  <2> SUFFICES ASSUME flaws' = {}, NEW w \in Sessions \ todo' PROVE OpenAt(w, End) = None
    BY <1>3, SameLog DEF Settling
  <2>1. Knows(n)
    BY <1>3, <1>4 DEF Clean
  <2> QED
    BY <1>2, <1>3, <2>1 DEF Knows
<1> QED
  BY <1>6, <1>8, <1>9, <1>11, <1>12, <1>13 DEF IndexInv, Grown

-----------------------------------------------------------------------------
LEMMA IndexInvInit ==
  ASSUME ReplayInit
  PROVE  IndexInv
<1>1. End = 0 /\ log \in Seq(RowType) /\ 1..End = {}
  BY EmptySeq DEF ReplayInit, End
<1>2. \A w \in Sessions : file[w] = <<>> /\ file[w] \in Seq(LineType)
  BY EmptySeq DEF ReplayInit
<1>3. \A w \in Sessions : Records(w) = {}
  <2> SUFFICES ASSUME NEW w \in Sessions PROVE Records(w) = {}
    OBVIOUS
  <2>1. Records(w) = Recs(file[w]) /\ Len(file[w]) = 0
    BY <1>2, EmptySeq DEF Records, Recs
  <2>2. \A r : r \notin Recs(file[w])
    BY <1>2, <2>1, RecsAre
  <2> QED
    BY <2>1, <2>2
<1>4. NoTurns \in OpenType /\ Fresh \in IdxType /\ Fresh.cp = 0 /\ Fresh.cursor = 0 /\ Fresh.open = NoTurns
      /\ ~Fresh.degraded /\ ~Fresh.unverified
  BY DEF NoTurns, None, OpenType, Fresh, IdxType
<1>5. \A w \in Sessions : NoTurns[w] = None /\ OpenAt(w, 0) = None /\ Turns(w, 0) = {}
  BY <1>1, OpenNone DEF NoTurns
<1>6. Shapes
  BY <1>1, <1>2, <1>4 DEF Shapes, ReplayInit, Idle, LoopPcs, Phases
<1>7. Course /\ Named
  BY <1>1, <1>3, <1>4 DEF Course, Named, ReplayInit, Idle, Scanning, Past
<1>8. FilesOK
  <2> SUFFICES ASSUME NEW w \in Sessions PROVE FileOK(w)
    BY DEF FilesOK
  <2>1. DOMAIN file[w] = {} /\ 1..Len(file[w]) = {}
    BY <1>2, RecsAre, EmptySeq
  <2> QED
    BY <1>3, <2>1 DEF FileOK, Once
<1>9. Followed /\ Recoverable /\ Settling
  BY <1>1, <1>3, <1>4, <1>5 DEF Followed, Recoverable, Settling, ReplayInit, Knows
<1> QED
  BY <1>6, <1>7, <1>8, <1>9 DEF IndexInv

LEMMA IndexInvNext ==
  ASSUME BoundsAssumption, IndexInv, [ReplayNext]_replayVars
  PROVE  IndexInv'
<1>1. CASE UNCHANGED replayVars
  <2>1. UNCHANGED <<log, era, ckpt, file, flaws, idx, emit, loop, closed, phase, todo>>
    BY <1>1 DEF replayVars
  <2>2. Shapes' /\ Course'
    BY <2>1 DEF IndexInv, Shapes, Course
  <2> QED
    BY <2>1, <2>2, QuietKeeps
<1>2. ASSUME NEW w \in Sessions, NEW k \in Kinds, Emit(w, k) PROVE IndexInv'
  <2>1. /\ Row(w, k) /\ phase \in {"up", "closing", "flushing"}
        /\ UNCHANGED <<era, disk, idx, loop, closed, phase>> /\ todo' \subseteq Sessions
    BY <1>2 DEF Emit, app, IndexInv, Shapes
  <2> QED
    BY <2>1, RowKeeps
<1>3. ASSUME NEW w \in Sessions, Repair(w) PROVE IndexInv'
  <2>1. /\ Row(w, "end") /\ phase = "repair" /\ todo' = todo \ {w} /\ "end" \in Kinds
        /\ UNCHANGED <<era, disk, idx, loop, closed, phase>> /\ todo' \subseteq Sessions
    BY <1>3 DEF Repair, IndexInv, Shapes, Kinds
  <2> QED
    BY <2>1, RowKeeps
<1>4. ASSUME NEW f \in {"none", "bare", "part"},
             ObserveAppendFails(f) \/ ScanFails(f) \/ VerifyFails(f)
      PROVE  IndexInv'
  BY <1>4, ObserveFailsKeeps, ScanFailsKeeps, VerifyFailsKeeps
<1>5. CASE \/ ObserveNothing \/ Notify \/ ScanDone \/ Check \/ Lock \/ AttachFails
           \/ Backoff \/ FinishRebuild \/ CancelRebuild \/ RebuildConverged \/ FlushFails
           \/ Crash \/ OpenUI
  BY <1>5, QuietSteps
<1>6. CASE ObserveRow \/ ObserveCheckpointFails \/ Begin \/ ScanRow \/ Attach
  BY <1>6, ObserveRowKeeps, ObserveFailsKeeps, BeginKeeps, ScanRowKeeps, AttachKeeps
<1>7. CASE Flush \/ StartUnverified \/ Start \/ VerifyRow \/ VerifyDone
  BY <1>7, FlushKeeps, StartUnverifiedKeeps, StartKeeps, VerifyRowKeeps, VerifyDoneKeeps
<1>8. ASSUME NEW n \in 0..MaxEvents, PowerCut(n) PROVE IndexInv'
  <2>1. n \in Nat
    OBVIOUS
  <2> QED
    BY <1>8, <2>1, PowerCutKeeps
<1>9. ASSUME NEW w \in Sessions, Load(w) PROVE IndexInv'
  BY <1>9, LoadKeeps
<1> QED
  BY <1>1, <1>2, <1>3, <1>4, <1>5, <1>6, <1>7, <1>8, <1>9 DEF ReplayNext

(* The invariant under which the index follows the audit: it knows the turns   *)
(* of the rows it has seen, its files hold each record once and no unfinished  *)
(* line but the last, and what is on disk agrees with it.                      *)
THEOREM IndexInvHolds == ReplaySpec => []IndexInv
<1>1. ReplayInit => IndexInv
  BY IndexInvInit
<1>2. IndexInv /\ [ReplayNext]_replayVars => IndexInv'
  BY BoundsAssumption, IndexInvNext
<1> QED
  BY <1>1, <1>2, PTL DEF ReplaySpec

LEMMA TurnsGenuine ==
  ASSUME log \in Seq(RowType), NEW w, NEW r \in Turns(w, End)
  PROVE  Genuine(r)
BY RowsTyped DEF Turns, Of, Genuine

(* An index that claims to be in order is: whatever rebuild, crash or restart   *)
(* came before, its files hold each turn of the audit once                      *)
(* (replayindex/index.go Observe, rebuild.go Rebuild and its callers).          *)
THEOREM IndexExactHolds == ReplaySpec => []IndexExact
<1>1. IndexInv => IndexExact
  <2> SUFFICES ASSUME IndexInv, Serving, flaws = {}
               PROVE  /\ idx.cp = End
                      /\ \A w \in Sessions : /\ idx.open[w] = OpenAt(w, End)
                                             /\ {r \in Records(w) : Genuine(r)} = Turns(w, End)
                                             /\ Once(file[w])
    BY DEF IndexExact
  <2>1. Shapes /\ FilesOK /\ Followed /\ Clean
    BY DEF IndexInv, Clean
  <2>2. Knows(idx.cp) /\ idx.cp = End
    BY <2>1 DEF Followed, Serving
  <2>3. ASSUME NEW w \in Sessions
        PROVE  /\ idx.open[w] = OpenAt(w, End)
               /\ {r \in Records(w) : Genuine(r)} = Turns(w, End)
               /\ Once(file[w])
    <3>1. idx.open[w] = OpenAt(w, End) /\ Turns(w, End) \subseteq Records(w)
      BY <2>2 DEF Knows
    <3>2. Once(file[w]) /\ \A r \in Records(w) : Genuine(r) => r \in Turns(w, End)
      BY <2>1 DEF FilesOK, FileOK
    <3>3. \A r \in Turns(w, End) : Genuine(r)
      BY <2>1, TurnsGenuine DEF Shapes
    <3> QED
      BY <3>1, <3>2, <3>3
  <2> QED
    BY <2>2, <2>3
<1> QED
  BY <1>1, IndexInvHolds, PTL

(* As long as nothing has come apart on disk, a restart that trusts the         *)
(* checkpoint misses no turn before it (rebuild.go checkpointTrustedLocked).    *)
THEOREM DiskFaithfulHolds == ReplaySpec => []DiskFaithful
<1>1. IndexInv => DiskFaithful
  BY DEF IndexInv, DiskFaithful, Recoverable, FilesOK, FileOK, Clean, RecordsAreTurns
<1> QED
  BY <1>1, IndexInvHolds, PTL

(* No rebuild runs once shutdown has waited for it                              *)
(* (rebuild_orchestrator.go cancelRebuildAndWait).                              *)
THEOREM QuietBeforeFlushHolds == ReplaySpec => []QuietBeforeFlush
<1>1. IndexInv => QuietBeforeFlush
  BY DEF IndexInv, Course, QuietBeforeFlush
<1> QED
  BY <1>1, IndexInvHolds, PTL

(* A start that verified the index opens the window with no turn left open      *)
(* (app.go repairIncompleteTurns).                                              *)
THEOREM RestartSettlesTurnsHolds == ReplaySpec => RestartSettlesTurns
<1>1. IndexInv /\ [ReplayNext]_replayVars =>
        [phase = "repair" /\ phase' = "up" /\ flaws = {} =>
            \A w \in Sessions : OpenAt(w, End) = None]_replayVars
  <2> SUFFICES ASSUME IndexInv, ReplayNext, phase = "repair", phase' = "up", flaws = {}
               PROVE  \A w \in Sessions : OpenAt(w, End) = None
    OBVIOUS
  <2>1. todo = {}
    BY DEF ReplayNext, Emit, ObserveNothing, ObserveRow, ObserveCheckpointFails, Notify,
       ObserveAppendFails, ScanFails, VerifyFails, Begin, ScanRow, ScanDone, Check, Lock, Attach,
       AttachFails, Backoff, FinishRebuild, CancelRebuild, RebuildConverged, Flush, FlushFails,
       Crash, PowerCut, StartUnverified, Start, Starts, VerifyRow, VerifyDone, OpenUI, Load, Repair, app
  <2> QED
    BY <2>1 DEF IndexInv, Settling
<1> QED
  BY <1>1, IndexInvHolds, PTL DEF ReplaySpec, RestartSettlesTurns
=============================================================================
