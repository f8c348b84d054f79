--------------------------- MODULE SessionManager ---------------------------
(***************************************************************************)
(* internal/appcore/manager.go: the aggregate root of every AI session.    *)
(*                                                                         *)
(* One mutex serialises every exported method, so one call is one action.  *)
(* A WSID names a slot; the slot is reserved, committed, used and finally  *)
(* removed.  A committed slot walks through the lifecycle                  *)
(*                                                                         *)
(*     idle -> starting -> active -> ending -> idle | resetting -> idle    *)
(*                                                                         *)
(* and whoever moves it holds a one-time token.  Provider events and       *)
(* approval decisions that reach a slot during a submission are queued     *)
(* behind the user's own message; all others go straight to the audit.     *)
(*                                                                         *)
(* The callers are left unconstrained: any call may come at any time, and  *)
(* a token that was handed out may be presented at any later time, any     *)
(* number of times.  What disciplined callers (app.go) add is the business *)
(* of SessionFlows.                                                        *)
(*                                                                         *)
(* Abstracted: payloads, usage totals and time; a CreateToken is its fresh *)
(* WSID (a ULID is minted once, so createSeq never decides anything); the  *)
(* audit sink does not fail here.                                          *)
(***************************************************************************)
EXTENDS Integers, FiniteSets, Sequences

CONSTANTS
  WSIDs,          \* the workspace session ids that can ever be minted
  Providers,      \* the providers; "" is no provider
  MaxSessions,    \* MaxSessionsPerProvider
  Events,         \* the kinds of provider events that can arrive
  Working,        \* bound: the sessions that work; the others only come and go
  MaxGen,         \* bound: generations of one slot
  MaxSeq,         \* bound: submissions of one slot
  MaxEnd,         \* bound: BeginEndSession calls that succeed on one slot
  MaxReset,       \* bound: resets of one slot
  MaxArrivals     \* bound: events and decisions that reach one slot

ASSUME ConstantsAssumption ==
  /\ IsFiniteSet(WSIDs)
  /\ MaxSessions \in Nat
  /\ "" \notin Providers
  /\ Events \cap {"decision", "user", "state"} = {}

VARIABLES
  slots,          \* Manager.slots; stage "free"/"gone" = not in the map (yet / any more)
  closed,         \* Manager.closed
  reducer,        \* per slot: slot.reducer, what the session is busy with
  log,            \* per slot: the envelopes handed to writeAndEmitLocked, in order
  arrived,        \* history: how many events and decisions the slot has accepted
  issued          \* history: every token the slot has ever handed out

vars == <<slots, closed, reducer, log, arrived, issued>>

Phases == {"idle", "starting", "active", "ending", "resetting"}
Stages == {"free", "reserved", "committed", "gone"}
States == {"idle", "waiting", "streaming", "tool_running", "awaiting_approval",
           "retrying", "done", "failed"}

(* A token is a generation and a sequence number; None is the nil pointer. *)
None == [kind |-> "none", gen |-> 0, seq |-> 0]
Token(k) == [kind : {k}, gen : Nat, seq : Nat \ {0}]

EmptySlot ==
  [stage |-> "free", provider |-> "", phase |-> "idle",
   gen |-> 0, seq |-> 0, submitting |-> None, fromNew |-> FALSE, mark |-> 0,
   sessionGen |-> 0, endSeq |-> 0, endTok |-> None,
   resetSeq |-> 0, resetTok |-> None,
   frozen |-> FALSE, buf |-> <<>>]

NewSlot(stage, p) == [EmptySlot EXCEPT !.stage = stage, !.provider = p]

-----------------------------------------------------------------------------
(* The reducer, contract/state.go: which state an event leaves a session in. *)

Target ==
  [user |-> "waiting", assistant |-> "streaming", delta |-> "streaming",
   tool_use |-> "tool_running", approval |-> "awaiting_approval",
   retry |-> "retrying", result |-> "done", result_error |-> "failed",
   stream_error |-> "failed"]

Apply(st, kind) == IF kind \in DOMAIN Target THEN Target[kind] ELSE st

ResolveApproval(st) == IF st = "awaiting_approval" THEN "tool_running" ELSE st

(* deviation: a turn the provider has not answered yet does not count *)
TurnInFlight_IgnoresWaiting(st) == st \notin {"idle", "done", "failed", "waiting"}

TurnInFlight(st) == st \notin {"idle", "done", "failed"}

(* emitLocked and the side effect of a decision: the envelope of the entry, *)
(* then a state_change envelope when the reducer moved.                     *)
Row(g, e) == [gen |-> g, what |-> e.kind, n |-> e.n, st |-> ""]
StateRow(g, st) == [gen |-> g, what |-> "state", n |-> 0, st |-> st]

EmitOne(g, acc, e) ==
  LET st == IF e.kind = "decision" THEN ResolveApproval(acc.st) ELSE Apply(acc.st, e.kind)
  IN [st |-> st,
      rows |-> Append(acc.rows, Row(g, e))
                 \o (IF st # acc.st THEN <<StateRow(g, st)>> ELSE <<>>)]

EmitAll(w, es) ==
  LET after[i \in 0..Len(es)] ==
        IF i = 0 THEN [st |-> reducer[w], rows |-> <<>>]
        ELSE EmitOne(slots[w].gen, after[i - 1], es[i])
  IN after[Len(es)]
Flushed(w) == EmitAll(w, slots[w].buf)

-----------------------------------------------------------------------------
(* What the methods read and write. *)

Occupied(p) == {w \in WSIDs : slots[w].stage \in {"reserved", "committed"}
                              /\ slots[w].provider = p}
CommittedSlot(w) == slots[w].stage = "committed"
Put(w, s) == slots' = [slots EXCEPT ![w] = s]
ReduceTo(w, st) == reducer' = [reducer EXCEPT ![w] = st]
Log(w, rows) == log' = [log EXCEPT ![w] = @ \o rows]
Issue(w, tok) == issued' = [issued EXCEPT ![w] = @ \cup {tok}]

(* deviation: the submission is not treated as newSessionLocked does *)
NextGeneration_KeepsSubmission(s) ==
  [s EXCEPT !.gen = @ + 1, !.phase = "idle", !.endTok = None, !.resetTok = None,
            !.buf = <<>>]
(* newSessionLocked on a slot whose queue has just been flushed. *)
NextGeneration(s) ==
  [s EXCEPT !.gen = @ + 1, !.submitting = None, !.fromNew = FALSE, !.phase = "idle",
            !.endTok = None, !.resetTok = None, !.buf = <<>>]

Init ==
  /\ slots = [w \in WSIDs |-> EmptySlot]
  /\ closed = FALSE
  /\ reducer = [w \in WSIDs |-> "idle"]
  /\ log = [w \in WSIDs |-> <<>>]
  /\ arrived = [w \in WSIDs |-> 0]
  /\ issued = [w \in WSIDs |-> {}]

-----------------------------------------------------------------------------
(* The slot registry. *)

ReserveSession(w, p) ==
  /\ ~closed
  /\ slots[w].stage = "free"
  /\ Cardinality(Occupied(p)) < MaxSessions
  /\ Put(w, NewSlot("reserved", p))
  /\ UNCHANGED <<closed, reducer, log, arrived, issued>>

CommitCreate(w) ==
  /\ ~closed
  /\ slots[w].stage = "reserved"
  /\ Put(w, [slots[w] EXCEPT !.stage = "committed"])
  /\ UNCHANGED <<closed, reducer, log, arrived, issued>>

(* Deliberately not guarded by closed: a reservation can be given back late. *)
AbortCreate(w) ==
  /\ slots[w].stage = "reserved"
  /\ Put(w, NewSlot("gone", ""))
  /\ UNCHANGED <<closed, reducer, log, arrived, issued>>

RestoreDormant(w, p) ==
  /\ ~closed
  /\ slots[w].stage = "free"
  /\ Cardinality(Occupied(p)) < MaxSessions
  /\ Put(w, NewSlot("committed", p))
  /\ UNCHANGED <<closed, reducer, log, arrived, issued>>

(* deviation: the phase is not checked *)
RemoveSession_AnyPhase(w) ==
  /\ ~closed
  /\ CommittedSlot(w)
  /\ Put(w, NewSlot("gone", ""))
  /\ ReduceTo(w, "idle")
  /\ UNCHANGED <<closed, log, arrived, issued>>

RemoveSession(w) ==
  /\ ~closed
  /\ CommittedSlot(w)
  /\ slots[w].phase = "idle"
  /\ Put(w, NewSlot("gone", ""))
  /\ ReduceTo(w, "idle")
  /\ UNCHANGED <<closed, log, arrived, issued>>

FreezeTurns(w) ==
  /\ CommittedSlot(w)
  /\ Put(w, [slots[w] EXCEPT !.frozen = TRUE])
  /\ UNCHANGED <<closed, reducer, log, arrived, issued>>

-----------------------------------------------------------------------------
(* Submissions. *)

NewSession(w) ==
  /\ CommittedSlot(w)
  /\ slots[w].gen < MaxGen
  /\ Put(w, NextGeneration(slots[w]))
  /\ ReduceTo(w, "idle")
  /\ Log(w, Flushed(w).rows)
  /\ UNCHANGED <<closed, arrived, issued>>

BeginNewSessionSubmit(w) ==
  LET s   == slots[w]
      id  == [kind |-> "submit", gen |-> s.gen + 1, seq |-> s.seq + 1]
  IN /\ ~closed
     /\ CommittedSlot(w)
     /\ s.phase = "idle" /\ s.submitting = None
     /\ ~s.frozen
     /\ s.gen < MaxGen /\ s.seq < MaxSeq
     /\ Put(w, [NextGeneration(s) EXCEPT !.seq = @ + 1, !.submitting = id,
                   !.fromNew = TRUE, !.phase = "starting", !.mark = arrived[w]])
     /\ ReduceTo(w, "idle")
     /\ Log(w, Flushed(w).rows)
     /\ Issue(w, id)
     /\ UNCHANGED <<closed, arrived>>

BeginSubmit(w) ==
  LET s  == slots[w]
      id == [kind |-> "submit", gen |-> s.gen, seq |-> s.seq + 1]
  IN /\ ~closed
     /\ CommittedSlot(w)
     /\ s.phase = "active" /\ s.submitting = None
     /\ ~TurnInFlight(reducer[w])
     /\ ~s.frozen
     /\ s.seq < MaxSeq
     /\ Put(w, [s EXCEPT !.seq = @ + 1, !.submitting = id, !.mark = arrived[w]])
     /\ Issue(w, id)
     /\ UNCHANGED <<closed, reducer, log, arrived>>

OwnsSubmission(w, id) ==
  /\ ~closed
  /\ CommittedSlot(w)
  /\ slots[w].submitting # None /\ slots[w].submitting = id
  /\ id.gen = slots[w].gen

(* The user's message is written first, then whatever queued up behind it. *)
AcceptSubmit(w, id) ==
  LET s == slots[w]
      d == EmitAll(w, <<[kind |-> "user", n |-> s.mark]>> \o s.buf)
      t == [s EXCEPT !.submitting = None, !.fromNew = FALSE, !.buf = <<>>]
  IN /\ OwnsSubmission(w, id)
     /\ Put(w, IF s.fromNew THEN [t EXCEPT !.phase = "active", !.sessionGen = id.gen] ELSE t)
     /\ ReduceTo(w, d.st)
     /\ Log(w, d.rows)
     /\ UNCHANGED <<closed, arrived, issued>>

(* deviation: the queue of a rejected submission is discarded *)
RejectSubmit_DropsQueue(w, id) ==
  LET s == slots[w]
      t == [s EXCEPT !.submitting = None, !.fromNew = FALSE, !.buf = <<>>]
  IN /\ OwnsSubmission(w, id)
     /\ Put(w, IF s.fromNew THEN [t EXCEPT !.phase = "idle"] ELSE t)
     /\ UNCHANGED <<closed, reducer, log, arrived, issued>>

RejectSubmit(w, id) ==
  LET s == slots[w]
      t == [s EXCEPT !.submitting = None, !.fromNew = FALSE, !.buf = <<>>]
  IN /\ OwnsSubmission(w, id)
     /\ Put(w, IF s.fromNew THEN [t EXCEPT !.phase = "idle"] ELSE t)
     /\ ReduceTo(w, Flushed(w).st)
     /\ Log(w, Flushed(w).rows)
     /\ UNCHANGED <<closed, arrived, issued>>

-----------------------------------------------------------------------------
(* Ending and resetting. *)

(* deviation: the end sequence number is not advanced *)
BeginEndSession_SameSeq(w) ==
  LET s   == slots[w]
      tok == [kind |-> "end", gen |-> s.sessionGen, seq |-> s.endSeq + 1]
  IN /\ ~closed
     /\ CommittedSlot(w)
     /\ s.phase = "active" /\ s.submitting = None
     /\ Put(w, [s EXCEPT !.phase = "ending", !.endTok = tok])
     /\ Issue(w, tok)
     /\ UNCHANGED <<closed, reducer, log, arrived>>

BeginEndSession(w) ==
  LET s   == slots[w]
      tok == [kind |-> "end", gen |-> s.sessionGen, seq |-> s.endSeq + 1]
  IN /\ ~closed
     /\ CommittedSlot(w)
     /\ s.phase = "active" /\ s.submitting = None
     /\ s.endSeq < MaxEnd
     /\ Put(w, [s EXCEPT !.phase = "ending", !.endSeq = @ + 1, !.endTok = tok])
     /\ Issue(w, tok)
     /\ UNCHANGED <<closed, reducer, log, arrived>>

EndingOwner(w, tok) ==
  /\ CommittedSlot(w)
  /\ slots[w].phase = "ending"
  /\ slots[w].endTok # None /\ slots[w].endTok = tok

CancelEndSession(w, tok) ==
  /\ EndingOwner(w, tok)
  /\ Put(w, [slots[w] EXCEPT !.phase = "active", !.endTok = None])
  /\ UNCHANGED <<closed, reducer, log, arrived, issued>>

FinishEndSession(w, tok) ==
  /\ EndingOwner(w, tok)
  /\ Put(w, [slots[w] EXCEPT !.phase = "idle", !.endTok = None])
  /\ UNCHANGED <<closed, reducer, log, arrived, issued>>

(* enterResetLocked *)
EnterReset(w) ==
  LET s   == slots[w]
      tok == [kind |-> "reset", gen |-> s.gen, seq |-> s.resetSeq + 1]
  IN /\ s.resetSeq < MaxReset
     /\ Put(w, [s EXCEPT !.phase = "resetting", !.endTok = None,
                         !.resetSeq = @ + 1, !.resetTok = tok])
     /\ Issue(w, tok)
     /\ UNCHANGED <<closed, reducer, log, arrived>>

(* ending -> resetting in one step, with no idle gap in between. *)
FinishEndSessionIntoReset(w, tok) == EndingOwner(w, tok) /\ EnterReset(w)

BeginReset(w) ==
  /\ ~closed
  /\ CommittedSlot(w)
  /\ slots[w].phase = "idle" /\ slots[w].submitting = None
  /\ EnterReset(w)

FinishReset(w, tok) ==
  /\ CommittedSlot(w)
  /\ slots[w].phase = "resetting"
  /\ slots[w].resetTok # None /\ slots[w].resetTok = tok
  /\ Put(w, [slots[w] EXCEPT !.phase = "idle", !.resetTok = None])
  /\ UNCHANGED <<closed, reducer, log, arrived, issued>>

-----------------------------------------------------------------------------
(* Events. *)

(* queueOrEmitLocked: queue behind a submission, emit otherwise.  Emit,      *)
(* EmitApprovalRequest and EmitApprovalDecision all end here; after Close    *)
(* they only notify the UI, which leaves the manager as it is.               *)
QueueOrEmit(w, kind) ==
  LET s == slots[w]
      e == [kind |-> kind, n |-> arrived[w] + 1]
      d == EmitAll(w, <<e>>)
  IN /\ ~closed
     /\ CommittedSlot(w)
     /\ arrived[w] < MaxArrivals
     /\ arrived' = [arrived EXCEPT ![w] = @ + 1]
     /\ \/ /\ s.submitting # None
           /\ Put(w, [s EXCEPT !.buf = Append(@, e)])
           /\ UNCHANGED <<reducer, log>>
        \/ /\ s.submitting = None
           /\ ReduceTo(w, d.st)
           /\ Log(w, d.rows)
           /\ UNCHANGED slots
     /\ UNCHANGED <<closed, issued>>

Emit(w, kind) == QueueOrEmit(w, kind)
EmitApprovalDecision(w) == QueueOrEmit(w, "decision")

(* Close aborts every submission and flushes every queue into the audit.    *)
Interrupted(s) == s.submitting # None \/ s.buf # <<>>
AbortedSlot(s) ==
  [s EXCEPT !.submitting = None, !.fromNew = FALSE, !.buf = <<>>,
            !.phase = IF @ = "starting" THEN "idle" ELSE @]

Close ==
  /\ ~closed
  /\ closed' = TRUE
  /\ slots' = [w \in WSIDs |-> IF Interrupted(slots[w]) THEN AbortedSlot(slots[w]) ELSE slots[w]]
  /\ reducer' = [w \in WSIDs |-> Flushed(w).st]
  /\ log' = [w \in WSIDs |-> log[w] \o Flushed(w).rows]
  /\ UNCHANGED <<arrived, issued>>

-----------------------------------------------------------------------------
IssuedOf(w, k) == {t \in issued[w] : t.kind = k}

RegistryStep(w) ==
  \/ \E p \in Providers : ReserveSession(w, p) \/ RestoreDormant(w, p)
  \/ CommitCreate(w)
  \/ AbortCreate(w)
  \/ RemoveSession(w)
  \/ FreezeTurns(w)

SubmitStep(w) ==
  \/ NewSession(w)
  \/ BeginNewSessionSubmit(w)
  \/ BeginSubmit(w)
  \/ \E id \in IssuedOf(w, "submit") : AcceptSubmit(w, id) \/ RejectSubmit(w, id)

EndStep(w) ==
  \/ BeginEndSession(w)
  \/ BeginReset(w)
  \/ \E t \in IssuedOf(w, "end") : \/ CancelEndSession(w, t)
                                   \/ FinishEndSession(w, t)
                                   \/ FinishEndSessionIntoReset(w, t)
  \/ \E t \in IssuedOf(w, "reset") : FinishReset(w, t)

EventStep(w) ==
  \/ \E k \in Events : Emit(w, k)
  \/ EmitApprovalDecision(w)

Next ==
  \/ \E w \in WSIDs :
       \/ RegistryStep(w)
       \/ w \in Working /\ (SubmitStep(w) \/ EndStep(w) \/ EventStep(w))
  \/ Close

Spec == Init /\ [][Next]_vars

-----------------------------------------------------------------------------
(* Types *)

Token_(k) == Token(k) \cup {None}
Entry == [kind : Events \cup {"decision"}, n : Nat]
LogRow == [gen : Nat, what : Events \cup {"decision", "user", "state"}, n : Nat,
           st : States \cup {""}]
SlotRecord ==
  [stage : Stages, provider : Providers \cup {""}, phase : Phases,
   gen : Nat, seq : Nat, submitting : Token_("submit"), fromNew : BOOLEAN, mark : Nat,
   sessionGen : Nat, endSeq : Nat, endTok : Token_("end"),
   resetSeq : Nat, resetTok : Token_("reset"),
   frozen : BOOLEAN, buf : Seq(Entry)]

(* Every variable has its type. *)
TypeOK ==
  /\ slots \in [WSIDs -> SlotRecord]
  /\ closed \in BOOLEAN
  /\ reducer \in [WSIDs -> States]
  /\ log \in [WSIDs -> Seq(LogRow)]
  /\ arrived \in [WSIDs -> Nat]
  /\ issued \in [WSIDs -> SUBSET (Token("submit") \cup Token("end") \cup Token("reset"))]

-----------------------------------------------------------------------------
(* Who owns a slot *)

SubmissionOwner(s) ==
  /\ s.submitting # None => s.phase \in {"starting", "active"}
  /\ s.submitting # None => s.submitting.gen = s.gen
  /\ s.phase = "starting" => s.submitting # None
  /\ s.fromNew <=> s.phase = "starting"

EndOwner(s) ==
  /\ s.endTok # None <=> s.phase = "ending"
  /\ s.phase \in {"active", "ending"} => s.sessionGen = s.gen

ResetOwner(s) ==
  /\ s.resetTok # None <=> s.phase = "resetting"
  /\ s.resetTok # None => s.resetTok.gen = s.gen

QueueOwner(s) == s.buf # <<>> => s.submitting # None

Uncommitted(s) ==
  s.stage # "committed" => /\ s.phase = "idle" /\ s.submitting = None
                           /\ s.buf = <<>> /\ ~s.frozen

SlotOwned(s) == /\ SubmissionOwner(s)
                /\ EndOwner(s)
                /\ ResetOwner(s)
                /\ QueueOwner(s)
                /\ Uncommitted(s)

(* At most one caller owns a slot, the phase says which, and everything that *)
(* depends on an owner (the queue, the generation of its token, the provider *)
(* session it ends) belongs to that owner.  Hence RemoveSession, which looks *)
(* at the phase only, never drops a submission or a queued event.            *)
Ownership == \A w \in WSIDs : SlotOwned(slots[w])

(* A closed manager holds no submission and no queue: Close settled them all *)
(* before the sink was closed, so nothing is left that could write later.    *)
ClosedIsSettled ==
  closed => \A w \in WSIDs : slots[w].submitting = None /\ slots[w].buf = <<>>

(* A provider never holds more than MaxSessionsPerProvider slots, however    *)
(* reservations, restores, commits and aborts interleave.                    *)
SlotCap ==
  \A p \in Providers :
    Cardinality({w \in WSIDs : /\ slots[w].stage \in {"reserved", "committed"}
                              /\ slots[w].provider = p}) <= MaxSessions

Outstanding(w) == {slots[w].submitting, slots[w].endTok, slots[w].resetTok} \ {None}

(* A token that was ever handed out and is no longer outstanding never       *)
(* becomes valid again, so a late or repeated Accept, Finish or Cancel of a  *)
(* caller that lost the slot cannot touch its successor (no ABA).            *)
NoTokenRevival ==
  [][\A w \in WSIDs : (Outstanding(w)' \ Outstanding(w)) \cap issued[w] = {}]_vars

(* FreezeTurns is final: whatever the slot goes through afterwards (an end,  *)
(* a reset, a new session, a removal), no new submission is ever admitted.   *)
FreezeIsFinal ==
  [][\A w \in WSIDs :
       slots[w].frozen => /\ IssuedOf(w, "submit")' = IssuedOf(w, "submit")
                          /\ slots[w].frozen' \/ slots[w].stage' = "gone"]_vars

-----------------------------------------------------------------------------
(* What the audit says *)

EventRows(rows) == {i \in DOMAIN rows : rows[i].what \notin {"user", "state"}}
Audited(w) == arrived[w] - Len(slots[w].buf)

(* Every accepted event is in the audit or in the queue, once, and in the    *)
(* order of arrival (the audit has the first ones, the queue the rest):      *)
(* queueing behind a submission, accepting, rejecting, starting over,        *)
(* removing and closing lose, repeat or reorder none.                        *)
AuditIsArrivalOrder ==
  \A w \in WSIDs :
    /\ {log[w][i].n : i \in EventRows(log[w])} = 1..Audited(w)
    /\ \A i, j \in EventRows(log[w]) : i < j => log[w][i].n < log[w][j].n
    /\ Len(slots[w].buf) <= arrived[w]
    /\ \A k \in DOMAIN slots[w].buf : slots[w].buf[k].n = Audited(w) + k

(* The events that close a turn. *)
Closing == {"result", "result_error", "stream_error"}

(* Within one generation a second user message is audited only after the     *)
(* turn of the first was closed by a result or an error.                     *)
OneTurnInFlight ==
  \A w \in WSIDs : \A i, j \in DOMAIN log[w] :
    /\ i < j
    /\ log[w][i].what = "user" /\ log[w][j].what = "user"
    /\ log[w][i].gen = log[w][j].gen
    => \E k \in (i + 1)..(j - 1) : log[w][k].what \in Closing

-----------------------------------------------------------------------------
(* The lifecycle the slots implement. *)

LifeOf(s) ==
  CASE s.stage # "committed" -> s.stage
    [] s.stage = "committed" /\ s.phase = "active" /\ s.submitting # None -> "sending"
    [] OTHER -> s.phase

Lifecycle == INSTANCE SessionLifecycle WITH
  life <- [w \in WSIDs |-> LifeOf(slots[w])],
  owner <- [w \in WSIDs |-> slots[w].provider],
  open <- ~closed

(* Every behaviour of the manager is a behaviour of SessionLifecycle.        *)
LifecycleSpec == Lifecycle!Spec
=============================================================================
